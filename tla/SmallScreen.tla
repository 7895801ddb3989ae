---------------------------- MODULE SmallScreen ----------------------------
(***************************************************************************)
(* What the wide screen shows in widget mode: ScreenRuntime                *)
(* (ulanzi-deckd/src/deck/screen_rt.rs) with the timer and the rotation    *)
(* (widgets/timer.rs, rotation.rs), and where the deck actor draws it      *)
(* (deck/mod.rs).                                                          *)
(*                                                                         *)
(* The code keeps instants and compares them with now; here each is the    *)
(* time since or until, which Second moves on.  The actor looks every      *)
(* second (Look) and after every message that may change the picture, so   *)
(* any number of seconds can pass between two looks.  Abstract: pictures,  *)
(* weather and command output, the volume overlay, and that a minute is    *)
(* longer than a second.                                                   *)
(***************************************************************************)
EXTENDS Naturals, Sequences, SequencesExt

CONSTANTS
  Configs,   \* the screens of the profiles
  Every,     \* seconds of Rotation::Every
  BreakMin,
  Additions, \* minutes of the keys that add to the timer
  MaxTime    \* bound: time on the timer, and widgets stepped over unseen

\* An Option: {} or one value.
Nothing == {}

Timer(m, p) == [kind |-> "timer", minutes |-> m, pomodoro |-> p]
Widget(k) == [kind |-> k]
NowPlaying == Widget("now_playing")

VARIABLES
  screen,  \* ScreenConfig::Custom of the active profile
  playing, \* music plays, as the sampler saw it last
  timer,   \* TimerState; ran: how long ago it was started
  cfg,     \* timer_cfg
  music,   \* music_until: {} or the time to go
  rot,     \* Rotator
  shown    \* the widget drawn last

vars == <<screen, playing, timer, cfg, music, rot, shown>>

\* TimerState::new
Fresh(m, p) ==
  [total |-> m, left |-> m, running |-> FALSE, ran |-> 0, pomodoro |-> p,
   onBreak |-> FALSE, focus |-> m]

Remaining(t) == IF ~t.running THEN t.left
                ELSE IF t.ran >= t.left THEN 0 ELSE t.left - t.ran

\* TimerState::tick
Ticked(t) ==
  LET min == IF t.onBreak THEN t.focus ELSE BreakMin
  IN IF ~t.running \/ Remaining(t) > 0 THEN t
     ELSE IF t.pomodoro
     THEN [t EXCEPT !.onBreak = ~@, !.total = min, !.left = min, !.ran = 0]
     ELSE [t EXCEPT !.left = 0, !.running = FALSE, !.ran = 0]

StartedOrPaused(t) ==
  IF t.running THEN [t EXCEPT !.left = Remaining(t), !.running = FALSE, !.ran = 0]
  ELSE [t EXCEPT !.left = IF @ = 0 THEN t.total ELSE @, !.running = TRUE, !.ran = 0]

\* Mutant: what ran since the start is taken off again.
AddedRunning(t, m) ==
  LET left == Remaining(t) + m
  IN [t EXCEPT !.left = left, !.total = IF left > @ THEN left ELSE @]

Added(t, m) ==
  LET left == Remaining(t) + m
  IN [t EXCEPT !.left = left, !.ran = 0, !.total = IF left > @ THEN left ELSE @]

\* Mutant: what music left behind stays when the screen does not follow it.
MusicNowKept(s, p, m) == IF s.media /\ p THEN {s.back} ELSE m

\* What takeover makes of music_until before it looks at the time.
MusicNow(s, p, m) == IF ~s.media THEN Nothing ELSE IF p THEN {s.back} ELSE m

\* Rotator::current
Turned(s, r) ==
  LET due == s.rotate = "every" /\ r.since >= Every
  IN [index |-> (r.index + (IF due THEN 1 ELSE 0)) % Len(s.list),
      since |-> IF due THEN 0 ELSE r.since]

\* The first widget of a kind, if there is one.
FirstOf(s, kind) ==
  {s.list[i] : i \in {n \in DOMAIN s.list :
     s.list[n].kind = kind /\ \A m \in 1..n - 1 : s.list[m].kind # kind}}

\* The settings of the Timer widget that the timer follows.
Settings(s) == {[minutes |-> w.minutes, pomodoro |-> w.pomodoro] : w \in FirstOf(s, "timer")}

\* Deck::update_screen, with what a message just changed.
Draw(s, p, t, r) ==
  LET m == MusicNow(s, p, music)
      takes == s.media /\ m # Nothing /\ m # {0}
      start == IF m = {0} THEN [index |-> 0, since |-> 0] ELSE r
      turned == IF takes THEN r ELSE Turned(s, start)
      own == FirstOf(s, "now_playing")
      new == Settings(s)
      differs == \E c \in new : c.minutes # t.focus \/ c.pomodoro # t.pomodoro
  IN /\ screen' = s /\ playing' = p
     /\ IF s.list = <<>>
        THEN /\ timer' = Ticked(t) /\ rot' = r /\ shown' = Nothing
             /\ UNCHANGED <<cfg, music>>
        ELSE /\ music' = (IF m = {0} THEN Nothing ELSE m)
             /\ rot' = turned
             /\ shown' = (IF ~takes THEN {s.list[turned.index + 1]}
                          ELSE IF own = {} THEN {NowPlaying} ELSE own)
             /\ cfg' = (IF new = Nothing THEN cfg ELSE new)
             /\ timer' = (IF new \notin {Nothing, cfg} /\ differs
                          THEN CHOOSE f \in {Fresh(c.minutes, c.pomodoro) : c \in new} : TRUE
                          ELSE Ticked(t))

Init ==
  /\ screen \in Configs /\ playing = FALSE
  /\ timer = Fresh(25, FALSE) /\ cfg = Nothing
  /\ music = Nothing /\ rot = [index |-> 0, since |-> 0] /\ shown = Nothing

Look == Draw(screen, playing, timer, rot)

\* DeckMsg::Dynamic
Sampled == Draw(screen, ~playing, timer, rot)

\* Another profile, page or edit (page_changed, DeckMsg::Apply).
Other(s) == Draw(s, playing, timer, rot)

TimerStartPause == Draw(screen, playing, StartedOrPaused(timer), rot)
TimerReset == Draw(screen, playing, Fresh(timer.focus, timer.pomodoro), rot)
TimerAdd(m) ==
  /\ Remaining(timer) + m <= MaxTime
  /\ Draw(screen, playing, Added(timer, m), rot)

ScreenNext ==
  /\ rot.index < MaxTime
  /\ Draw(screen, playing, timer, [index |-> rot.index + 1, since |-> 0])

\* No difference is made between the times that are past what is compared.
Second ==
  /\ timer' = [timer EXCEPT !.ran = IF timer.running /\ @ < timer.left THEN @ + 1 ELSE @]
  /\ music' = {IF n = 0 THEN 0 ELSE n - 1 : n \in music}
  /\ rot' = [rot EXCEPT !.since = IF @ < Every THEN @ + 1 ELSE @]
  /\ UNCHANGED <<screen, playing, cfg, shown>>

Next ==
  \/ Look \/ Sampled \/ (\E s \in Configs : Other(s)) \/ ScreenNext \/ Second
  \/ TimerStartPause \/ TimerReset \/ \E m \in Additions : TimerAdd(m)

Spec == Init /\ [][Next]_vars

(***************************************************************************)
(* Properties                                                              *)
(***************************************************************************)
\* default_tap: what a tap does when the profile does not say.
TapOf(w) == IF w.kind = "timer" THEN "start_pause"
            ELSE IF w.kind = "now_playing" THEN "play_pause" ELSE "nothing"
DefaultTap ==
  LET kept == {w \in shown : \E i \in DOMAIN screen.list : screen.list[i] = w}
  IN IF music # Nothing THEN "play_pause"
     ELSE IF screen.rotate = "press" /\ Len(screen.list) > 1 THEN "next"
     ELSE TapOf(CHOOSE w \in IF kept # Nothing THEN kept ELSE {screen.list[1]} : TRUE)

\* A tap acts on what the screen shows, or on the list it steps through, over
\* changes of profile, of settings and of the music; and while music plays on
\* a screen that follows it, it shows what plays.
TapFollowsScreen ==
  shown # Nothing =>
    \A w \in shown :
      /\ DefaultTap # "next" => DefaultTap = TapOf(w)
      /\ DefaultTap = "next" => w.kind # "now_playing" \/ w \in ToSet(screen.list)
      /\ playing /\ screen.media => w.kind = "now_playing"

\* Of a fresh timer, of a break, and of the Timer widgets.
Durations ==
  {25, BreakMin} \cup {w.minutes : w \in UNION {FirstOf(s, "timer") : s \in Configs}}

Promised == INSTANCE Countdown WITH
  time <- Remaining(timer), running <- timer.running

\* The timer counts what really passed, over pauses, additions, phases, and
\* changes of profile between two looks at it.
ImplementsCountdown == Promised!Spec
=============================================================================
