---------------------------- MODULE MacroPlayer ----------------------------
(***************************************************************************)
(* The macro player (macros/player.rs).  The deck's loop presses, releases *)
(* and stops; every run plays in a task of its own, on any thread.  What is*)
(* down at the desktop and the list of it in `held` are behind two locks:  *)
(* a step takes one after the other, and so does letting go.               *)
(*                                                                         *)
(* A slot is a control and a macro, a key of `runs`.  A macro's steps are  *)
(* key and button events on the keys of its slot, and others, which do     *)
(* nothing here but wait or fail; macros nested in it are more steps.      *)
(* Dropping the player (the service ends) is left out.  A run's number is  *)
(* only ever compared, so one nobody refers to any more is used again.     *)
(***************************************************************************)
EXTENDS Naturals, Sequences

CONSTANTS
  Slots,      \* (control, macro) pairs
  ControlOf,  \* the control of each
  Steps,      \* its steps: Steps[slot][part]
  Keys,       \* keys and buttons macros press
  Triggers,   \* of each slot, the types its macro may have when it is pressed
  Runs,       \* numbers of runs
  None,       \* no run, no key
  MaxQueued   \* bound on presses waiting in one run

Parts == {"all", "press", "held", "release"}
Events == [op : {"down", "up", "other"}, key : Keys \cup {None}]

ASSUME NoneAssumption == None \notin Runs \cup Keys
ASSUME StepsAssumption ==
  /\ Steps \in [Slots -> [Parts -> Seq(Events)]]
  /\ \A s \in Slots, p \in Parts : \A i \in DOMAIN Steps[s][p] :
       Steps[s][p][i].op = "other" <=> Steps[s][p][i].key = None
ASSUME TriggersAssumption ==
  Triggers \in [Slots -> SUBSET {"stop", "restart", "ignore", "queue",
                                 "held_finish", "held_now", "toggle", "sequence"}]
ASSUME QueuedAssumption == MaxQueued \in Nat

VARIABLES
  runs,  \* Inner.runs: the run last started for each slot
  run,   \* each run: its record in `runs`, and its task
  held,  \* Inner.held: the run that pressed each key that is down
  down,  \* the keys down at the desktop (external)
  deck,  \* where the deck's loop is in stop_all
  crossed  \* keys taken off the list while another run has them down (history)

vars == <<runs, run, held, down, deck, crossed>>

Unused == [slot |-> None, trigger |-> None, pc |-> "free", part |-> "all", at |-> 1,
           err |-> FALSE, gone |-> {}, stop |-> FALSE, late |-> FALSE,
           released |-> FALSE, queued |-> 0, before |-> None]

Init ==
  /\ runs = [s \in Slots |-> None]
  /\ run = [r \in Runs |-> Unused]
  /\ held = [k \in Keys |-> None] /\ down = {}
  /\ deck = [pc |-> "idle", spared |-> {}, gone |-> {}]
  /\ crossed = {}

Finished(r) == run[r].pc \in {"free", "done"}
Playing(s) == runs[s] # None /\ ~Finished(runs[s])
DeckFree == deck.pc = "idle"

\* Numbers nobody refers to.
Fresh(s) ==
  {r \in Runs : /\ Finished(r)
                /\ \A t \in Slots \ {s} : runs[t] # r
                /\ \A k \in Keys : held[k] # r
                /\ \A q \in Runs : run[q].before # r}

\* `late` remembers that the stop came after the task's last look at it.
Stop(r) == [run[r] EXCEPT !.stop = TRUE, !.late = @ \/ run[r].pc = "ending"]

-----------------------------------------------------------------------------
(* The deck's loop.                                                        *)

Start(s, t, before, rs) ==
  \E r \in Fresh(s) \ {before} :
    /\ run' = [rs EXCEPT ![r] = [Unused EXCEPT !.slot = s, !.trigger = t,
                                               !.pc = "before", !.before = before]]
    /\ runs' = [runs EXCEPT ![s] = r]

\* press: a new run, or a word to the one playing, as its own type has it.  A
\* press that is ignored changes nothing.
Press(s, t) ==
  /\ DeckFree
  /\ \/ ~Playing(s) /\ Start(s, t, None, run)
     \/ /\ Playing(s)
        /\ LET old == runs[s] IN
           \/ /\ run[old].trigger \in {"stop", "toggle"}
              /\ run' = [run EXCEPT ![old] = Stop(old)]
              /\ UNCHANGED runs
           \/ /\ run[old].trigger = "queue" /\ run[old].queued < MaxQueued
              /\ run' = [run EXCEPT ![old].queued = @ + 1]
              /\ UNCHANGED runs
           \/ /\ run[old].trigger = "restart"
              /\ Start(s, t, old, [run EXCEPT ![old] = Stop(old)])
           \/ /\ run[old].trigger \in {"held_finish", "held_now"}
              /\ run' = [run EXCEPT ![old].released = FALSE]
              /\ UNCHANGED runs
  /\ UNCHANGED <<held, down, deck, crossed>>

\* release: every run of the control hears of it (one that ended is not there to).
Release(c) ==
  /\ DeckFree
  /\ run' = [r \in Runs |-> IF \E s \in Slots : ControlOf[s] = c /\ Playing(s) /\ runs[s] = r
                            THEN [run[r] EXCEPT !.released = TRUE] ELSE run[r]]
  /\ UNCHANGED <<runs, held, down, deck, crossed>>

\* stop_all, in three steps: tell the tasks that still run, take what the
\* others left off the list, let go of it.
StopAll ==
  /\ DeckFree
  /\ LET running == {r \in Runs : \E s \in Slots : Playing(s) /\ runs[s] = r}
     IN  /\ run' = [r \in Runs |-> IF r \in running THEN Stop(r) ELSE run[r]]
         /\ deck' = [pc |-> "letgo", spared |-> running, gone |-> {}]
  /\ UNCHANGED <<runs, held, down, crossed>>

\* let_go, first half: `owners` no longer hold anything.
TakeHeld(owners) == held' = [k \in Keys |-> IF held[k] \in owners THEN None ELSE held[k]]
HeldBy(owners) == {k \in Keys : held[k] \in owners}

StopAllTakes ==
  /\ deck.pc = "letgo"
  /\ TakeHeld(Runs \ deck.spared)
  /\ deck' = [pc |-> "freeing", spared |-> {}, gone |-> HeldBy(Runs \ deck.spared)]
  /\ UNCHANGED <<runs, run, down, crossed>>

StopAllFrees ==
  /\ deck.pc = "freeing"
  /\ down' = down \ deck.gone
  /\ deck' = [pc |-> "idle", spared |-> {}, gone |-> {}]
  /\ crossed' = crossed \cap down'
  /\ UNCHANGED <<runs, run, held>>

-----------------------------------------------------------------------------
(* Tasks.                                                                  *)

Halted(r) ==
  run[r].stop \/ (run[r].trigger = "held_now" /\ run[r].released)

Now(r) == Steps[run[r].slot][run[r].part]
Goes(r, pc) == run' = [run EXCEPT ![r].pc = pc]
Plays(r, part) == run' = [run EXCEPT ![r].pc = "step", ![r].part = part, ![r].at = 1]
Halts(r) == run' = [run EXCEPT ![r].pc = "check", ![r].err = TRUE]

\* The task begins, once the run it replaces has ended.
Begins(r) ==
  /\ run[r].pc = "before"
  /\ run[r].before # None => Finished(run[r].before)
  /\ run' = [run EXCEPT ![r].before = None,
       ![r].pc = IF run[r].trigger \in {"held_finish", "held_now"} THEN "loop" ELSE "step",
       ![r].part = IF run[r].trigger = "sequence" THEN "press" ELSE "all"]
  /\ UNCHANGED <<runs, held, down, deck, crossed>>

\* Mutant: the loop asks whether the run is to stop, not whether its key is down.
LoopsUnlessHalted(r) ==
  /\ run[r].pc = "loop"
  /\ \/ ~Halted(r) /\ Plays(r, run[r].part)
     \/ Halted(r) /\ Goes(r, IF run[r].trigger = "sequence" THEN "await" ELSE "check")
  /\ UNCHANGED <<runs, held, down, deck, crossed>>

\* The condition of a loop.
Loops(r) ==
  /\ run[r].pc = "loop"
  /\ \/ ~run[r].released /\ Plays(r, run[r].part)
     \/ run[r].released /\ Goes(r, IF run[r].trigger = "sequence" THEN "await" ELSE "check")
  /\ UNCHANGED <<runs, held, down, deck, crossed>>

\* One step, up to the list: it is played, it fails, or the run is to stop.
PlaysStep(r) ==
  /\ run[r].pc = "step" /\ run[r].at <= Len(Now(r))
  /\ LET event == Now(r)[run[r].at] IN
     \/ /\ ~Halted(r)
        /\ down' = CASE event.op = "down" -> down \cup {event.key}
                     [] event.op = "up" -> down \ {event.key}
                     [] OTHER -> down
        /\ Goes(r, IF event.op = "other" THEN "pause" ELSE "book")
     \/ Halts(r) /\ UNCHANGED down
  /\ crossed' = crossed \cap down'
  /\ UNCHANGED <<runs, held, deck>>

\* press_down and press_up: a key already on the list stays its owner's, and
\* press_up takes it off even when another run pressed it since it went up.
Books(r) ==
  /\ run[r].pc = "book"
  /\ LET event == Now(r)[run[r].at] IN
     IF event.op = "up"
     THEN /\ held' = [held EXCEPT ![event.key] = None]
          /\ crossed' = crossed \cup ({event.key} \cap down)
     ELSE /\ held' = IF held[event.key] = None THEN [held EXCEPT ![event.key] = r] ELSE held
          /\ crossed' = crossed \ {event.key}
  /\ Goes(r, "pause")
  /\ UNCHANGED <<runs, down, deck>>

\* The delay after a step, when it has one.
Pauses(r) ==
  /\ run[r].pc = "pause"
  /\ \/ run' = [run EXCEPT ![r].pc = "step", ![r].at = @ + 1]
     \/ Halted(r) /\ Halts(r)
  /\ UNCHANGED <<runs, held, down, deck, crossed>>

\* The steps are through: play them again for a press that waits, go on with
\* the next part, or rest before the next pass.
PartEnds(r) ==
  /\ run[r].pc = "step" /\ run[r].at > Len(Now(r))
  /\ \/ /\ run[r].trigger \in {"stop", "restart", "ignore", "queue"}
        /\ run' = IF run[r].queued > 0
                  THEN [run EXCEPT ![r].at = 1, ![r].queued = @ - 1]
                  ELSE [run EXCEPT ![r].pc = "check"]
     \/ /\ run[r].part = "press"
        /\ IF Steps[run[r].slot]["held"] = <<>> THEN Goes(r, "await")
           ELSE run' = [run EXCEPT ![r].pc = "loop", ![r].part = "held"]
     \/ run[r].part = "release" /\ Goes(r, "check")
     \/ /\ run[r].part = "held" \/ run[r].trigger \in {"held_finish", "held_now", "toggle"}
        /\ IF Halted(r) THEN Halts(r) ELSE Goes(r, "rest")
  /\ UNCHANGED <<runs, held, down, deck, crossed>>

\* What is left of MIN_PASS.  A toggle's loop has no condition.
Rests(r) ==
  /\ run[r].pc = "rest"
  /\ \/ IF run[r].trigger = "toggle" THEN Plays(r, "all") ELSE Goes(r, "loop")
     \/ Halted(r) /\ Halts(r)
  /\ UNCHANGED <<runs, held, down, deck, crossed>>

\* Mutant: only the release is waited for.
AwaitsRelease(r) ==
  /\ run[r].pc = "await"
  /\ run[r].released /\ Plays(r, "release")
  /\ UNCHANGED <<runs, held, down, deck, crossed>>

\* A sequence waits for the release, or a stop.
Awaits(r) ==
  /\ run[r].pc = "await"
  /\ \/ run[r].released /\ Plays(r, "release")
     \/ run[r].stop /\ Halts(r)
  /\ UNCHANGED <<runs, held, down, deck, crossed>>

\* Mutant: only a stop lets go.
ChecksStopOnly(r) ==
  /\ run[r].pc = "check"
  /\ IF run[r].stop
     THEN /\ TakeHeld({r})
          /\ run' = [run EXCEPT ![r].pc = "freeing", ![r].gone = HeldBy({r})]
     ELSE Goes(r, "ending") /\ UNCHANGED held
  /\ UNCHANGED <<runs, down, deck, crossed>>

\* play, after the steps: a run that was stopped or failed lets go.
Checks(r) ==
  /\ run[r].pc = "check"
  /\ IF run[r].stop \/ run[r].err
     THEN /\ TakeHeld({r})
          /\ run' = [run EXCEPT ![r].pc = "freeing", ![r].gone = HeldBy({r})]
     ELSE Goes(r, "ending") /\ UNCHANGED held
  /\ UNCHANGED <<runs, down, deck, crossed>>

\* Mutant: everything on the list is forgotten, only its own let go of.
FreesAndForgets(r) ==
  /\ run[r].pc = "freeing"
  /\ down' = down \ run[r].gone
  /\ held' = [k \in Keys |-> None]
  /\ run' = [run EXCEPT ![r].pc = "ending", ![r].gone = {}]
  /\ crossed' = crossed \cap down'
  /\ UNCHANGED <<runs, deck>>

Frees(r) ==
  /\ run[r].pc = "freeing"
  /\ down' = down \ run[r].gone
  /\ run' = [run EXCEPT ![r].pc = "ending", ![r].gone = {}]
  /\ crossed' = crossed \cap down'
  /\ UNCHANGED <<runs, held, deck>>

\* The deck is told, and the task is finished.
Finishes(r) ==
  /\ run[r].pc = "ending"
  /\ run' = [run EXCEPT ![r] = [Unused EXCEPT !.pc = "done", !.err = run[r].err,
                                  !.stop = run[r].stop, !.late = run[r].late]]
  /\ UNCHANGED <<runs, held, down, deck, crossed>>

-----------------------------------------------------------------------------
Task(r) ==
  \/ Begins(r) \/ Loops(r) \/ PlaysStep(r) \/ Books(r) \/ Pauses(r) \/ PartEnds(r)
  \/ Rests(r) \/ Awaits(r) \/ Checks(r) \/ Frees(r) \/ Finishes(r)

Deck ==
  \/ \E s \in Slots : \E t \in Triggers[s] : Press(s, t)
  \/ \E c \in {ControlOf[s] : s \in Slots} : Release(c)
  \/ StopAll \/ StopAllTakes \/ StopAllFrees

Next == Deck \/ \E r \in Runs : Task(r)

Spec == Init /\ [][Next]_vars

\* Tasks are polled when they can go on (delays end, timers fire).
FairSpec == Spec /\ \A r \in Runs : WF_vars(Task(r))

-----------------------------------------------------------------------------
(* Properties.                                                             *)

\* The values of the variables.
TypeOK ==
  /\ runs \in [Slots -> Runs \cup {None}]
  /\ run \in [Runs ->
       [slot : Slots \cup {None}, trigger : (UNION {Triggers[s] : s \in Slots}) \cup {None},
        pc : {"free", "before", "loop", "step", "book", "pause", "rest", "await",
              "check", "freeing", "ending", "done"},
        part : Parts, at : Nat, err : BOOLEAN, gone : SUBSET Keys, stop : BOOLEAN,
        late : BOOLEAN, released : BOOLEAN, queued : 0..MaxQueued,
        before : Runs \cup {None}]]
  /\ held \in [Keys -> Runs \cup {None}] /\ down \subseteq Keys /\ crossed \subseteq Keys
  /\ deck \in [pc : {"idle", "letgo", "freeing"},
               spared : SUBSET Runs, gone : SUBSET Keys]

\* Two runs of one slot never play at the same time, however often it is
\* pressed: a restarted macro waits until the run before has let go.
OneAtATime ==
  \A r, q \in Runs :
    r # q /\ run[r].slot = run[q].slot
      => Finished(r) \/ Finished(q) \/ run[r].pc = "before" \/ run[q].pc = "before"

\* "Every key and button a macro holds is tracked": what is down is on the
\* list, about to be put there, or about to be let go.  The one exception is a
\* key two macros share: the one that let it go takes it off the list after the
\* other pressed it (player.rs:441-442, two locks), and no stop lets go of it.
Tracked ==
  \A k \in down :
    \/ held[k] # None \/ k \in deck.gone \/ k \in crossed
    \/ \E r \in Runs : \/ k \in run[r].gone
                       \/ run[r].pc = "book" /\ Now(r)[run[r].at] = [op |-> "down", key |-> k]

\* The three above: what a run, the list of what is down and the table of runs
\* say of each other.
MacrosCoherent == TypeOK /\ OneAtATime /\ Tracked

\* A run that failed, or was stopped before its last look at the signal, holds
\* nothing once it ends.
CutShortHoldsNothing ==
  \A r \in Runs :
    run[r].pc = "done" /\ (run[r].err \/ (run[r].stop /\ ~run[r].late)) => HeldBy({r}) = {}

\* A stop ends a run, wherever it is, in a loop or waiting for a release.
StopEnds == \A r \in Runs : run[r].stop ~> Finished(r)

\* A macro that plays while its key is down ends when it is let go, also when
\* that is before its task begins; a sequence plays its last part first.
ReleaseEnds ==
  \A r \in Runs :
    run[r].trigger \in {"held_finish", "held_now", "sequence"} /\ run[r].released
      ~> Finished(r) \/ ~run[r].released

\* A loop of quick steps, an empty one, or a sequence that waits comes to an
\* end in both ways.
RunsEnd == StopEnds /\ ReleaseEnds

=============================================================================
