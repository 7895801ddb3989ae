---------------------------- MODULE MCDeckInput ----------------------------
(***************************************************************************)
(* What the deck makes of its controls (DeckInput), which profile and page *)
(* it shows (DeckNav), and its wide screen (SmallScreen), for TLC.  In     *)
(* DeckInput a page is any page of any profile and may become any other,   *)
(* and in SmallScreen any screen any other, so that they share no state:   *)
(* a behaviour is one of the part that `part` names, and the others stay   *)
(* as they start.                                                          *)
(***************************************************************************)
EXTENDS DeckInput, Sequences

CONSTANTS
  aKey, aDial, onePage, another,                   \* controls and pages
  Ids, Apps, Layouts, None, MaxDepth, MaxChanges,  \* of DeckNav
  Configs, Every, BreakMin, Additions, MaxTime     \* of SmallScreen

VARIABLES
  part,
  profiles, active, place, stack, focused, auto, auto_from, changes, chosen, restored,
  screen, playing, timer, cfg, music, rot, shown

Does(t, h, u) == [tap |-> t, hold |-> h, turn |-> u]

\* Two pages: each control changes its meaning with the page.
TwoPages ==
  [g \in {onePage, another} |->
     [k \in {aKey, aDial} |->
        IF g = onePage
        THEN IF k = aKey THEN Does("held", "plain", "none") ELSE Does("plain", "sleep", "page")
        ELSE IF k = aKey THEN Does("page", "held", "none") ELSE Does("once", "none", "stop")]]

N == INSTANCE DeckNav WITH page <- place

\* A profile of one page, and one of two with a folder between them.
OneAndThree == {<<"page">>, <<"page", "folder", "page">>}

\* A profile has a page at least (Profile::normalize, ProfileStore::load_profile).
ASSUME NavAssumption ==
  /\ Ids # {} /\ None \notin Ids \cup N!Windows
  /\ \A l \in Layouts : l \in Seq(N!Kinds) /\ l # <<>>
  /\ MaxDepth \in Nat /\ MaxChanges \in Nat

Shows(list, rotate, media, back) ==
  [list |-> list, rotate |-> rotate, media |-> media, back |-> back]
Clock == [kind |-> "clock"]
NowPlaying == [kind |-> "now_playing"]
Countdown(m, phases) == [kind |-> "timer", minutes |-> m, pomodoro |-> phases]

\* A screen to step through, one that turns, one that stays, and one of another mode.
FourScreens ==
  {Shows(<<Countdown(2, FALSE), Clock>>, "press", TRUE, 1),
   Shows(<<Clock, NowPlaying>>, "every", TRUE, 2),
   Shows(<<Clock, Countdown(1, TRUE)>>, "off", FALSE, 1),
   Shows(<<>>, "off", TRUE, 1)}

S == INSTANCE SmallScreen

\* The window lets neither a Timer be shorter than a minute, which TimerState
\* would make a minute, nor music hold the screen for less than a second.
Widgets ==
  [kind : {"timer"}, minutes : Nat \ {0}, pomodoro : BOOLEAN] \cup [kind : STRING \ {"timer"}]
ASSUME ScreenAssumption ==
  /\ \A s \in Configs :
       /\ s.list \in Seq(Widgets) /\ s.rotate \in {"press", "every", "off"}
       /\ s.media \in BOOLEAN /\ s.back \in Nat \ {0}
  /\ Every \in Nat /\ BreakMin \in Nat \ {0} /\ Additions \subseteq Nat /\ MaxTime \in Nat

controls == vars
wide == <<screen, playing, timer, cfg, music, rot, shown>>
nav == <<profiles, active, place, stack, focused, auto, auto_from, changes, chosen, restored>>

\* Every initial state of the part that moves, one of each other.
DeckInit ==
  /\ part \in {"controls", "nav", "wide"}
  /\ Init /\ N!Init /\ S!Init
  /\ part # "controls" => page = onePage
  /\ part # "wide" => screen.list = <<>>
  /\ part # "nav" =>
       /\ active = 1 /\ auto
       /\ profiles = CHOOSE s \in [1..2 -> N!Profile] : s[1].id # s[2].id

InControls == part = "controls" /\ Next /\ UNCHANGED <<part, nav, wide>>
InNav == part = "nav" /\ N!Next /\ UNCHANGED <<part, controls, wide>>
InWide == part = "wide" /\ S!Next /\ UNCHANGED <<part, controls, nav>>

DeckSpec ==
  DeckInit /\ [][InControls \/ InNav \/ InWide]_<<part, controls, nav, wide>>

\* DeckNav: the profile, the page and the folders the deck goes by are there.
InPlace == N!InPlace
\* DeckNav: leaving an app brings back the profile that the user chose last.
BackToChosen == N!BackToChosen
\* SmallScreen: a tap acts on what the wide screen shows.
TapFollowsScreen == S!TapFollowsScreen
\* SmallScreen: the timer counts what really passed.
ImplementsCountdown == S!ImplementsCountdown
=============================================================================
