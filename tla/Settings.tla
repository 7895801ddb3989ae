------------------------------ MODULE Settings ------------------------------
(***************************************************************************)
(* Who writes settings.toml: the D-Bus service (ulanzi-deckd/src/dbus.rs), *)
(* which reads, changes and saves it holding `settings_lock`, the start of *)
(* the plugin host (main.rs), and the deck actor (deck/mod.rs), which      *)
(* saves the copy it works with when the brightness or automatic switching *)
(* is changed on the deck, without the lock.                               *)
(*                                                                         *)
(* The settings are whether one plugin is on and the plain copy, if any,   *)
(* of its one secret: 2.0 kept passwords there, and users type them in.    *)
(* The plugin host moves a plain copy to the secret store.  The calls run  *)
(* beside each other and the actor, so reading, saving, handing over to    *)
(* the host and sending to the actor are steps of their own; each save and *)
(* each change of the secret store may fail.  What the deck changes in     *)
(* its copy, reloads, imports and backups of the file, and the folders of  *)
(* plugins (PluginInstall) are left out.                                   *)
(***************************************************************************)
EXTENDS Naturals, Sequences

CONSTANTS
  Calls,        \* D-Bus calls under way at once
  Secrets,      \* values of the secret
  None,
  MaxCalls,     \* bound: calls so far
  MaxStops,     \* bound: ends of the service
  MaxMessages   \* bound: places of the actor's channel

OnOff == {"on", "off"}
Contents == [on : OnOff, plain : Secrets \cup {None}]

VARIABLES
  file,      \* settings.toml
  secret,    \* the plugin's secret in the store
  deck,      \* DeckActor.settings
  messages,  \* DeckMsg::Settings on their way to the actor
  hostUp,    \* the plugin host is there
  host,      \* whether it has the plugin on
  lock,      \* the call that holds settings_lock, "ready" for plugins_ready
  call,      \* the calls, and plugins_ready
  window,    \* the settings as the app last read them
  calls,     \* calls so far
  stops,     \* ends of the service so far
  said,      \* whether clients want the plugin on (history)
  given,     \* the secret the user last gave to the app (history)
  overwrote, \* the deck saved something else than the file said (history)
  behind     \* calls with a text the app read before the plugin was switched (history)

service == <<deck, messages, hostUp, host, lock, call>>
bounds == <<calls, stops>>
history == <<said, given, overwrote, behind>>
vars == <<file, secret, service, window, bounds, history>>

Tasks == Calls \cup {"ready"}
Kinds == {"none", "enable", "secret", "apply", "adopt", "ready"}
Steps == {"no", "load", "save", "hand", "store", "send"}

\* What a call does, how far it is, the settings it holds, the secret it was
\* given, and whether it will tell the actor (`changed`).
NoCall == [kind |-> "none", at |-> "no", s |-> [on |-> "off", plain |-> None],
           value |-> None, changed |-> "no"]

\* The service starts: the actor's copy is read once, the host comes up later.
Started(s) ==
  /\ deck' = s /\ messages' = <<>>
  /\ hostUp' = FALSE /\ host' = s.on
  /\ lock' = None
  /\ call' = [t \in Tasks |-> NoCall]

Init ==
  /\ file \in Contents
  /\ secret = None
  /\ deck = file /\ messages = <<>>
  /\ hostUp = FALSE /\ host = file.on
  /\ lock = None
  /\ call = [t \in Tasks |-> NoCall]
  /\ window = file
  /\ calls = 0 /\ stops = 0
  /\ said = file.on /\ given = "nothing" /\ overwrote = FALSE /\ behind = {}

-----------------------------------------------------------------------------
(* Steps of a call.                                                        *)

\* The call goes on to the next step, or ends and lets go of the lock.
GoesOn(t, step) == call' = [call EXCEPT ![t].at = step] /\ UNCHANGED lock
Holding(t, step, s) == call' = [call EXCEPT ![t].at = step, ![t].s = s] /\ UNCHANGED lock
Ends(t) == call' = [call EXCEPT ![t] = NoCall] /\ lock' = None

\* settings_lock.lock().await.  (The first is a mutant: no lock.)
FreeAlways == TRUE
Free == lock = None

Begin(t, kind, s, value) ==
  /\ call[t].at = "no" /\ calls < MaxCalls
  /\ Free
  /\ lock' = t /\ calls' = calls + 1
  /\ call' = [call EXCEPT ![t] = [kind |-> kind, at |-> "load", s |-> s,
                                  value |-> value, changed |-> "no"]]
  /\ behind' = IF kind = "apply" /\ s.on # file.on THEN behind \cup {t} ELSE behind \ {t}
  /\ UNCHANGED <<file, secret, deck, messages, hostUp, host, window, stops, said, given,
                 overwrote>>

\* plugin_set_enabled; plugin_set_secret and plugin_clear_secret; the adoption
\* at the end of an install.  They need the host.
Enable(t, on) == hostUp /\ Begin(t, "enable", [on |-> on, plain |-> None], None)
GiveSecret(t, value) == hostUp /\ Begin(t, "secret", file, value)
Adopt(t) == hostUp /\ Begin(t, "adopt", file, None)
\* apply_settings, with the whole text the app has.
ApplySettings(t) == Begin(t, "apply", window, None)

\* Mutant of Ready: the service object is not held.
ReadyUnheld ==
  /\ ~hostUp /\ call["ready"].at = "no"
  /\ hostUp' = TRUE
  /\ call' = [call EXCEPT !["ready"] = [NoCall EXCEPT !.kind = "ready", !.at = "load"]]
  /\ UNCHANGED <<file, secret, deck, messages, host, lock, window, bounds, history>>

\* plugins_ready: the service object is held, so no call is under way.
Ready ==
  /\ ~hostUp /\ Free /\ call["ready"].at = "no"
  /\ \A t \in Calls : call[t].at = "no"
  /\ lock' = "ready"
  /\ hostUp' = TRUE
  /\ call' = [call EXCEPT !["ready"] = [NoCall EXCEPT !.kind = "ready", !.at = "load"]]
  /\ UNCHANGED <<file, secret, deck, messages, host, window, bounds, history>>

\* The settings are read and changed.  A masked secret of the app's text stands
\* for the plain copy that is in the file now.
LoadEnable(t) ==
  /\ call[t].kind = "enable"
  /\ Holding(t, "save", [file EXCEPT !.on = call[t].s.on])

LoadApply(t) ==
  /\ call[t].kind = "apply"
  /\ Holding(t, "save", [call[t].s EXCEPT !.plain = IF @ = None THEN None ELSE file.plain])

\* Mutant of LoadSecret: only the store is told.
LoadSecretOnly(t) ==
  /\ call[t].kind = "secret"
  /\ Holding(t, "store", file)

\* write_secret: the plain copy, if there is one, goes before the store is asked.
LoadSecret(t) ==
  /\ call[t].kind = "secret"
  /\ call' = [call EXCEPT ![t].at = IF file.plain = None THEN "store" ELSE "save",
                          ![t].s = [file EXCEPT !.plain = None],
                          ![t].changed = IF file.plain = None THEN "no" ELSE "yes"]
  /\ UNCHANGED lock

LoadAdopt(t) ==
  /\ call[t].kind = "adopt"
  /\ IF file.plain = None THEN Ends(t) ELSE Holding(t, "store", file)

LoadReady(t) ==
  /\ call[t].kind = "ready"
  /\ Holding(t, IF file.plain = None THEN "hand" ELSE "store", file)

Load(t) ==
  /\ call[t].at = "load"
  /\ \/ LoadEnable(t) \/ LoadApply(t) \/ LoadSecret(t) \/ LoadAdopt(t) \/ LoadReady(t)
  /\ UNCHANGED <<file, secret, deck, messages, hostUp, host, window, bounds, history>>

Save(t) ==
  /\ call[t].at = "save"
  /\ file' = call[t].s
  /\ said' = IF call[t].kind \in {"enable", "apply"} THEN call[t].s.on ELSE said
  /\ GoesOn(t, "hand")
  /\ UNCHANGED <<secret, deck, messages, hostUp, host, window, bounds, given, overwrote,
                 behind>>

\* An adoption only warns; the others report the error.
SaveFails(t) ==
  /\ call[t].at = "save"
  /\ IF call[t].kind \in {"adopt", "ready"} THEN GoesOn(t, "hand") ELSE Ends(t)
  /\ UNCHANGED <<file, secret, deck, messages, hostUp, host, window, bounds, history>>

\* PluginHost::apply_settings, once there is a host.
Hand(t) ==
  /\ call[t].at = "hand"
  /\ host' = IF hostUp THEN call[t].s.on ELSE host
  /\ CASE call[t].kind \in {"enable", "apply"} -> GoesOn(t, "send")
       [] call[t].kind = "secret" -> GoesOn(t, "store")
       [] OTHER -> Ends(t)
  /\ UNCHANGED <<file, secret, deck, messages, hostUp, window, bounds, history>>

\* PluginHost::set_secret.  write_secret then tells the actor if it changed the
\* file; an adoption takes the copy out of its settings and saves them.
Store(t) ==
  /\ call[t].at = "store"
  /\ \/ /\ call[t].kind = "secret"
        /\ secret' = call[t].value /\ given' = call[t].value
        /\ IF call[t].changed = "yes" THEN GoesOn(t, "send") ELSE Ends(t)
     \/ /\ call[t].kind \in {"adopt", "ready"}
        /\ secret' = call[t].s.plain /\ given' = given
        /\ Holding(t, "save", [call[t].s EXCEPT !.plain = None])
  /\ UNCHANGED <<file, deck, messages, hostUp, host, window, bounds, said, overwrote, behind>>

\* write_secret sends what it changed even then; plugins_ready hands over what
\* it read.
StoreFails(t) ==
  /\ call[t].at = "store"
  /\ CASE call[t].kind = "ready" -> GoesOn(t, "hand")
       [] call[t].kind = "secret" /\ call[t].changed = "yes" -> GoesOn(t, "send")
       [] OTHER -> Ends(t)
  /\ UNCHANGED <<file, secret, deck, messages, hostUp, host, window, bounds, history>>

Send(t) ==
  /\ call[t].at = "send" /\ Len(messages) < MaxMessages
  /\ messages' = Append(messages, call[t].s)
  /\ Ends(t)
  /\ UNCHANGED <<file, secret, deck, hostUp, host, window, bounds, history>>

-----------------------------------------------------------------------------
(* The deck actor, the app and the service's life.                          *)

Hears ==
  /\ messages # <<>>
  /\ deck' = Head(messages) /\ messages' = Tail(messages)
  /\ UNCHANGED <<file, secret, hostUp, host, lock, call, window, bounds, history>>

\* Action::Brightness and Action::AutoProfile.
DeckSaves ==
  /\ file' = deck
  /\ overwrote' = (overwrote \/ file # deck)
  /\ UNCHANGED <<secret, service, window, bounds, said, given, behind>>

\* get_settings.
Fetch ==
  /\ window' = file
  /\ UNCHANGED <<file, secret, service, bounds, history>>

\* The service ends anywhere and is started again.
Stop ==
  /\ stops < MaxStops
  /\ stops' = stops + 1
  /\ Started(file)
  /\ UNCHANGED <<file, secret, window, calls, history>>

Next ==
  \/ \E t \in Calls :
       \/ \E on \in OnOff : Enable(t, on)
       \/ \E value \in Secrets \cup {None} : GiveSecret(t, value)
       \/ Adopt(t) \/ ApplySettings(t)
  \/ Ready
  \/ \E t \in Tasks :
       \/ Load(t) \/ Save(t) \/ SaveFails(t) \/ Hand(t)
       \/ Store(t) \/ StoreFails(t) \/ Send(t)
  \/ Hears \/ DeckSaves
  \/ Fetch \/ Stop

Spec == Init /\ [][Next]_vars

-----------------------------------------------------------------------------

TypeOK ==
  /\ file \in Contents /\ deck \in Contents /\ window \in Contents
  /\ secret \in Secrets \cup {None}
  /\ messages \in Seq(Contents) /\ Len(messages) <= MaxMessages
  /\ hostUp \in BOOLEAN /\ host \in OnOff
  /\ lock \in Tasks \cup {None}
  /\ call \in [Tasks -> [kind : Kinds, at : Steps, s : Contents,
                         value : Secrets \cup {None}, changed : {"yes", "no"}]]
  /\ calls \in 0..MaxCalls /\ stops \in 0..MaxStops
  /\ said \in OnOff /\ given \in Secrets \cup {None, "nothing"} /\ overwrote \in BOOLEAN
  /\ behind \subseteq Calls

\* "Held while settings are read, changed and saved, so two writers cannot lose
\* each other's change" (dbus.rs:54): a save by the service that is not about
\* turning the plugin on or off leaves that as the file has it, and none brings
\* back a plain copy that is gone.  The lock does not cover the app, which read
\* its text before: apply_settings with a text from before a switch undoes the
\* switch.  (Until the deck, a writer without the lock, saves something else
\* than the file says.)
ServiceLosesNothing ==
  [][\A t \in Tasks : Save(t) /\ ~overwrote =>
       /\ \/ call[t].kind = "enable" \/ t \in behind
          \/ file'.on = file.on
       /\ file'.plain \in {file.plain, None}]_vars

\* Between calls the file, the host and the actor have what a client last
\* saved, also when it was saved while the host came up (main.rs:226) or the
\* service ended (until the deck saves something else than the file says).
AllDoAsSaid ==
  ~overwrote /\ lock = None =>
    /\ file.on = said
    /\ (hostUp => host = said)
    /\ (messages = <<>> => deck.on = said)

\* A secret given to the app stays in the store over restarts and adoptions
\* (until the deck saves something else than the file says).
SecretsStay == given # "nothing" /\ ~overwrote => secret = given

\* "... removes the same key from [plugins.<id>.settings] in settings.toml (so
\* an old plain-text copy cannot win)" (docs/plugins.md:483).
OldCopyCannotWin == given # "nothing" => secret = given
=============================================================================
