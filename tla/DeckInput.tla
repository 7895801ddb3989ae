----------------------------- MODULE DeckInput -----------------------------
(***************************************************************************)
(* What the deck actor makes of its controls (ulanzi-deckd/src/deck/mod.rs,*)
(* press.rs, sleep.rs): presses become taps, holds or macros that play     *)
(* while the key is down; a deck left alone sleeps, and the press that     *)
(* wakes it only wakes it; connections end with fingers on the keys.       *)
(*                                                                         *)
(* The actor handles one event at a time, so a handler is one action.      *)
(* What a control does is a binding of the page in front; a page stands    *)
(* for a page, a profile and what an edit makes of them.  Time is whether  *)
(* the hold threshold of a press, or the sleep timer, has passed.  The     *)
(* player is the runs that wait for their key's release (MacroPlayer has   *)
(* the rest).  The pressed look of keys is in DeckUpload.                  *)
(***************************************************************************)
EXTENDS Naturals

CONSTANTS
  Controls,  \* keys, small buttons, dials, the wide screen
  Dials,     \* those that turn
  Pages,     \* pages of the profiles
  On,        \* what they do: On[page][control]
  MaxStale   \* bound: entries of a control in `swallowed` and `macro_down`

\* "once" is a macro that plays whatever its key does, "held" one that needs
\* to know of the release (WhileHeld, Sequence); "page", "sleep" and "stop" are
\* run by the actor itself, "plain" is for the control's queue.
Actions == {"none", "plain", "page", "sleep", "stop", "once", "held"}
Binding == [tap : Actions, hold : Actions, turn : Actions]

ASSUME DialsAssumption == Dials \subseteq Controls
ASSUME OnAssumption == On \in [Pages -> [Controls -> Binding]]
ASSUME PagesAssumption == Pages # {}
ASSUME StaleAssumption == MaxStale \in Nat

VARIABLES
  finger,      \* the controls that are down (external)
  transport,   \* there is a connection
  press,       \* PressTracker: what it knows of each control
  swallowed,   \* Vec<Control> with entries counted by control
  macro_down,  \* Vec<Control> with entries counted by control
  asleep,      \* SleepTimer.asleep
  idle,        \* SleepTimer: no input for the time set
  page,        \* the page in front
  waiting,     \* controls with a run that waits for its release
  ran,         \* gestures of each control since its finger came down (history)
  woke         \* controls whose last press woke the deck (history)

history == <<ran, woke>>
vars == <<finger, transport, press, swallowed, macro_down, asleep, idle, page,
          waiting, history>>

\* Not tracked; without a hold action; with one, before and after its
\* threshold; with its hold reported.
Tracked == {"no", "tap", "hold", "due", "fired"}

Init ==
  /\ finger = {} /\ transport = FALSE
  /\ press = [c \in Controls |-> "no"]
  /\ swallowed = [c \in Controls |-> 0]
  /\ macro_down = [c \in Controls |-> 0]
  /\ asleep = FALSE /\ idle = FALSE
  /\ page \in Pages
  /\ waiting = {}
  /\ ran = [c \in Controls |-> 0]
  /\ woke = {}

-----------------------------------------------------------------------------
(* Calls the handlers make.                                                *)

\* dispatch: a macro started here is let go at once.
Dispatch(c, a) ==
  /\ page' \in IF a = "page" THEN Pages ELSE {page}
  /\ asleep' = (asleep \/ a = "sleep")
  /\ waiting' = CASE a = "stop" -> {}
                  [] a \in {"once", "held"} -> waiting \ {c}
                  [] OTHER -> waiting

Tap(c) == Dispatch(c, On[page][c].tap)
Hold(c) == Dispatch(c, On[page][c].hold)
Counted(c) == ran' = [ran EXCEPT ![c] = @ + 1]

\* macro_on_press: a key with a hold action waits to see whether this is a tap,
\* unless its macro needs the release.
MacroOnPress(c) ==
  \/ On[page][c].tap = "held"
  \/ On[page][c].tap = "once" /\ On[page][c].hold = "none"

\* Mutant: the release after waking up counts.
WakeUpOnly(c) ==
  /\ asleep' = FALSE
  /\ UNCHANGED swallowed

\* A press while asleep wakes the deck, and its release will be swallowed.
WakeUp(c) ==
  /\ swallowed[c] < MaxStale
  /\ asleep' = FALSE
  /\ swallowed' = [swallowed EXCEPT ![c] = @ + 1]

-----------------------------------------------------------------------------
(* Reports of the deck.                                                    *)

Down(c) == c \notin finger /\ finger' = finger \cup {c}
Up(c) == c \in finger /\ finger' = finger \ {c}

\* A finger with no deck connected: no report.
Unseen(c) ==
  /\ ~transport
  /\ \/ Down(c) /\ ran' = [ran EXCEPT ![c] = 0] /\ woke' = woke \ {c}
     \/ Up(c) /\ UNCHANGED history
  /\ UNCHANGED <<transport, press, swallowed, macro_down, asleep, idle, page, waiting>>

PressWakes(c) ==
  /\ asleep
  /\ WakeUp(c)
  /\ woke' = woke \cup {c}
  /\ UNCHANGED <<press, macro_down, waiting>>

PressStartsMacro(c) ==
  /\ ~asleep /\ MacroOnPress(c)
  /\ macro_down[c] < MaxStale
  /\ macro_down' = [macro_down EXCEPT ![c] = @ + 1]
  /\ waiting' = IF On[page][c].tap = "held" THEN waiting \cup {c} ELSE waiting
  /\ woke' = woke \ {c}
  /\ UNCHANGED <<press, swallowed, asleep>>

PressTracks(c) ==
  /\ ~asleep /\ ~MacroOnPress(c)
  /\ press' = [press EXCEPT ![c] = IF On[page][c].hold = "none" THEN "tap" ELSE "hold"]
  /\ woke' = woke \ {c}
  /\ UNCHANGED <<swallowed, macro_down, asleep, waiting>>

Press(c) ==
  /\ transport
  /\ Down(c)
  /\ PressWakes(c) \/ PressStartsMacro(c) \/ PressTracks(c)
  /\ idle' = FALSE
  /\ ran' = [ran EXCEPT ![c] = 0]
  /\ UNCHANGED <<transport, page>>

\* Before everything else: the release a macro's key owes goes to the player.
ReleaseEndsMacro(c) ==
  /\ macro_down[c] > 0
  /\ macro_down' = [macro_down EXCEPT ![c] = @ - 1]
  /\ waiting' = waiting \ {c}
  /\ UNCHANGED <<press, swallowed, asleep, idle, page, ran>>

ReleaseWakes(c) ==
  /\ macro_down[c] = 0 /\ asleep
  /\ asleep' = FALSE /\ idle' = FALSE
  /\ UNCHANGED <<press, swallowed, macro_down, page, waiting, ran>>

ReleaseSwallowed(c) ==
  /\ macro_down[c] = 0 /\ ~asleep /\ swallowed[c] > 0
  /\ swallowed' = [swallowed EXCEPT ![c] = @ - 1]
  /\ press' = [press EXCEPT ![c] = "no"]
  /\ idle' = FALSE
  /\ UNCHANGED <<macro_down, asleep, page, waiting, ran>>

\* Mutant: a hold that was reported is reported again on the release.
OnReleaseAgain(c) ==
  \/ press[c] = "no" /\ UNCHANGED <<page, asleep, waiting, ran>>
  \/ press[c] \in {"tap", "hold"} /\ Tap(c) /\ Counted(c)
  \/ press[c] \in {"due", "fired"} /\ Hold(c) /\ Counted(c)

\* PressTracker::on_release: a tap, a hold found out late, or nothing.
OnRelease(c) ==
  \/ press[c] \in {"no", "fired"} /\ UNCHANGED <<page, asleep, waiting, ran>>
  \/ press[c] \in {"tap", "hold"} /\ Tap(c) /\ Counted(c)
  \/ press[c] = "due" /\ Hold(c) /\ Counted(c)

ReleaseGesture(c) ==
  /\ macro_down[c] = 0 /\ ~asleep /\ swallowed[c] = 0
  /\ OnRelease(c)
  /\ press' = [press EXCEPT ![c] = "no"]
  /\ idle' = FALSE
  /\ UNCHANGED <<swallowed, macro_down>>

Release(c) ==
  /\ transport
  /\ Up(c)
  /\ \/ ReleaseEndsMacro(c) \/ ReleaseWakes(c)
     \/ ReleaseSwallowed(c) \/ ReleaseGesture(c)
  /\ UNCHANGED <<transport, woke>>

\* A dial turns: it wakes the deck, or its action runs.
Turn(c) ==
  /\ transport
  /\ \/ asleep /\ asleep' = FALSE /\ UNCHANGED <<page, waiting>>
     \/ ~asleep /\ Dispatch(c, On[page][c].turn)
  /\ idle' = FALSE
  /\ UNCHANGED <<finger, transport, press, swallowed, macro_down, history>>

-----------------------------------------------------------------------------
(* Timers, messages and the connection.                                    *)

\* The hold threshold of a press passes.
Threshold(c) ==
  /\ press[c] = "hold"
  /\ press' = [press EXCEPT ![c] = "due"]
  /\ UNCHANGED <<finger, transport, swallowed, macro_down, asleep, idle, page,
                 waiting, history>>

\* poll, at the tracker's deadline.  Controls found together in one turn are
\* here one after the other, in any order, as their gestures are there.
HoldDue(c) ==
  /\ press[c] = "due"
  /\ press' = [press EXCEPT ![c] = "fired"]
  /\ Hold(c)
  /\ Counted(c)
  /\ UNCHANGED <<finger, transport, swallowed, macro_down, idle, woke>>

\* No input for the time set.
Quiet ==
  /\ ~idle
  /\ idle' = TRUE
  /\ UNCHANGED <<finger, transport, press, swallowed, macro_down, asleep, page,
                 waiting, history>>

\* on_tick: to sleep, unless a key that started a macro is still down.
Tick ==
  /\ \A c \in Controls : macro_down[c] = 0
  /\ idle /\ ~asleep
  /\ asleep' = TRUE
  /\ UNCHANGED <<finger, transport, press, swallowed, macro_down, idle, page,
                 waiting, history>>

\* A page, profile or macro message, or an action a macro has the deck run.
Internal ==
  /\ \E a \in {"page", "sleep", "stop"} :
       /\ page' \in IF a = "page" THEN Pages ELSE {page}
       /\ asleep' = (asleep \/ a = "sleep")
       /\ waiting' = IF a = "stop" THEN {} ELSE waiting
  /\ UNCHANGED <<finger, transport, press, swallowed, macro_down, idle, history>>

\* DeckMsg::Settings: a new tracker and a new sleep timer.
Settings ==
  /\ press' = [c \in Controls |-> "no"]
  /\ asleep' = FALSE /\ idle' = FALSE
  /\ UNCHANGED <<finger, transport, swallowed, macro_down, page, waiting, history>>

\* A run that waits for its release ends before it: a step of it fails.
RunEnds(c) ==
  /\ c \in waiting
  /\ waiting' = waiting \ {c}
  /\ UNCHANGED <<finger, transport, press, swallowed, macro_down, asleep, idle,
                 page, history>>

\* DeckMsg::DeviceUp.  It may replace a connection the actor still has (the
\* hot-plug task re-probes after missing events); what the old one had not
\* been read of is never seen.
DeviceUp ==
  /\ \E unread \in SUBSET finger :
       /\ ~transport => unread = {}
       /\ finger' = finger \ unread
  /\ transport' = TRUE
  /\ asleep' = FALSE /\ idle' = FALSE
  /\ UNCHANGED <<press, swallowed, macro_down, page, waiting, history>>

\* Mutant: the macros go on.
DisconnectPlaysOn ==
  /\ transport' = FALSE
  /\ macro_down' = [c \in Controls |-> 0]
  /\ UNCHANGED <<finger, press, swallowed, asleep, idle, page, waiting, history>>

\* DeckMsg::DeviceDown, and lost when a read or a write fails.
Disconnect ==
  /\ transport' = FALSE
  /\ waiting' = {}
  /\ macro_down' = [c \in Controls |-> 0]
  /\ UNCHANGED <<finger, press, swallowed, asleep, idle, page, history>>

Next ==
  \/ \E c \in Controls : \/ Unseen(c) \/ Press(c) \/ Release(c)
                         \/ Threshold(c) \/ HoldDue(c) \/ RunEnds(c)
  \/ \E c \in Dials : Turn(c)
  \/ Quiet \/ Tick \/ Internal \/ Settings
  \/ DeviceUp \/ Disconnect

Spec == Init /\ [][Next]_vars

-----------------------------------------------------------------------------
(* Properties.                                                             *)

\* The values of the variables.
TypeOK ==
  /\ finger \in SUBSET Controls /\ transport \in BOOLEAN
  /\ press \in [Controls -> Tracked]
  /\ swallowed \in [Controls -> 0..MaxStale]
  /\ macro_down \in [Controls -> 0..MaxStale]
  /\ asleep \in BOOLEAN /\ idle \in BOOLEAN
  /\ page \in Pages
  /\ waiting \in SUBSET Controls
  /\ ran \in [Controls -> Nat] /\ woke \in SUBSET Controls

\* One press is one gesture: a tap, or a hold reported at its threshold or
\* found out on the release, and never two of them, whatever the page, the
\* settings, the sleep or the connection do before the finger is up.
OneGesturePerPress == \A c \in Controls : ran[c] <= 1

\* A macro that plays until its key is let go has its key in `macro_down`, so
\* that the release reaches it, or was stopped: nothing that happens while a
\* key is down (sleep, another page, a lost deck) leaves it playing for ever.
RunHasItsRelease == \A c \in waiting : macro_down[c] > 0

\* "The waking press must not run the action": the release of a press that
\* woke the deck is never a tap, even if the tracker still has an older press.
WakingPressIsNoTap ==
  [][\A c \in Controls :
       c \in woke \cap finger /\ c \notin finger' /\ transport => ran'[c] = ran[c]]_vars

\* The deck does not fall asleep by itself while a macro plays that waits for
\* its key ("a held key can outlast the sleep timer").
NoSleepUnderMacro == [][Tick => waiting = {}]_vars

=============================================================================
