------------------------------ MODULE HotPlug ------------------------------
(***************************************************************************)
(* How the deck's node in /dev becomes a connection: the hotplug task of   *)
(* ulanzi-deckd/src/main.rs with probe and Hidraw::open (transport/        *)
(* discover.rs, hidraw.rs, hotplug.rs), and the device messages of the     *)
(* deck actor (deck/mod.rs).                                               *)
(*                                                                         *)
(* The task probes on every tick and every device event unless it believes *)
(* the deck connected or waits after a connection that died young.  It     *)
(* tells the actor through a queue, and learns what became of a connection *)
(* from the actor's events, which it may miss.  A connection dies with its *)
(* node, or by itself.  How long a wait is (2 s doubling to 30 s) is       *)
(* abstract; nodes are not told apart.                                     *)
(***************************************************************************)
EXTENDS Naturals, Sequences

CONSTANTS
  MaxPlugs,    \* bound: changes of the node
  MaxDeaths,   \* bound: connections that die with the node in place
  MaxMissed,   \* bound: times the event channel overflows
  MaxMessages  \* places of the actor's queue

ASSUME BoundsAssumption ==
  /\ MaxPlugs \in Nat /\ MaxDeaths \in Nat /\ MaxMissed \in Nat
  /\ MaxMessages \in Nat \ {0}

\* DeviceState.code; Hidraw::open meets "error" and not "busy", which is what
\* probe finds in /proc.
States == {"ready", "not_found", "no_permission", "busy", "error"}

\* What is true of the node.
Nodes == States \ {"error"}

\* A connection and whether its node is still the one it opened.
Connections == {"live", "dead"}

VARIABLES
  node,       \* the node in /dev (external); "ready": it can be opened
  bounds,     \* how much of each bound is used
  \* the hotplug task
  step,       \* in the loop, or between probe and Hidraw::open
  connected,  \* it believes there is a connection
  young,      \* the last one it opened is not 5 s old
  waiting,    \* retry_at is to come
  last,       \* the state last told, or "starting"
  \* the actor and its channels
  messages,   \* DeckMsg::DeviceUp and DeviceDown on their way
  transport,  \* the actor's connection, or "none"
  device,     \* the state it shows
  events,     \* DeckEvent::State the task has not seen
  missed      \* the next recv is Lagged

task == <<step, connected, young, waiting, last>>
actor == <<transport, device>>
vars == <<node, bounds, task, messages, actor, events, missed>>

Up(c) == [kind |-> "up", connection |-> c, state |-> "ready"]
Down(s) == [kind |-> "down", connection |-> "dead", state |-> s]

Init ==
  /\ node \in Nodes
  /\ bounds = [plugs |-> 0, deaths |-> 0, missed |-> 0]
  /\ step = "loop" /\ connected = FALSE /\ young = FALSE /\ waiting = FALSE
  /\ last = "starting"
  /\ messages = <<>> /\ transport = "none" /\ device = "not_found"
  /\ events = <<>> /\ missed = FALSE

(***************************************************************************)
(* The node and its connections                                            *)
(***************************************************************************)
\* Unplugged, plugged in, given to the user by udev, taken by another process.
\* Only unplugging ends the connections that are open.
NodeChanges(n) ==
  /\ n # node /\ bounds.plugs < MaxPlugs
  /\ node' = n /\ bounds' = [bounds EXCEPT !.plugs = @ + 1]
  /\ IF n = "not_found"
     THEN /\ transport' = (IF transport = "live" THEN "dead" ELSE transport)
          /\ messages' = [i \in DOMAIN messages |->
                            [messages[i] EXCEPT !.connection = "dead"]]
     ELSE UNCHANGED <<transport, messages>>
  /\ UNCHANGED <<task, device, events, missed>>

\* A wedged deck: writes fail though the node is there.
Dies ==
  /\ transport = "live" /\ bounds.deaths < MaxDeaths
  /\ transport' = "dead" /\ bounds' = [bounds EXCEPT !.deaths = @ + 1]
  /\ UNCHANGED <<node, task, messages, device, events, missed>>

\* Events of every kind share a channel; the oldest are dropped.
Overflow ==
  /\ events # <<>> /\ bounds.missed < MaxMissed
  /\ bounds' = [bounds EXCEPT !.missed = @ + 1]
  /\ \E n \in 1..Len(events) : events' = SubSeq(events, n + 1, Len(events))
  /\ missed' = TRUE
  /\ UNCHANGED <<node, task, messages, actor>>

(***************************************************************************)
(* The hotplug task                                                        *)
(***************************************************************************)
\* The end of every turn: it goes on to probe, unless connected or waiting.
Probes(c, w) == step' = IF c \/ w THEN "loop" ELSE "probe"

\* watch_dev ticks when the node changes and every 2 s.
Tick ==
  /\ step = "loop" /\ ~connected /\ ~waiting
  /\ step' = "probe"
  /\ UNCHANGED <<node, bounds, connected, young, waiting, last, messages, actor,
                 events, missed>>

StateReady ==
  /\ step = "loop" /\ ~missed /\ events # <<>> /\ Head(events) = "ready"
  /\ connected' = TRUE /\ events' = Tail(events)
  /\ UNCHANGED <<node, bounds, step, young, waiting, last, messages, actor,
                 missed>>

\* Any other state ends a connection; one that ends young makes it wait.
StateOther ==
  /\ step = "loop" /\ ~missed /\ events # <<>> /\ Head(events) # "ready"
  /\ events' = Tail(events)
  /\ waiting' = (IF connected THEN young ELSE waiting)
  /\ connected' = FALSE
  /\ Probes(FALSE, waiting')
  /\ UNCHANGED <<node, bounds, young, last, messages, actor, missed>>

\* Mutant: the task goes on as before when it missed events.
LaggedGoesOn ==
  /\ step = "loop" /\ missed
  /\ missed' = FALSE
  /\ Probes(connected, waiting)
  /\ UNCHANGED <<node, bounds, connected, young, waiting, last, messages, actor,
                 events>>

Lagged ==
  /\ step = "loop" /\ missed
  /\ missed' = FALSE /\ connected' = FALSE
  /\ Probes(FALSE, waiting)
  /\ UNCHANGED <<node, bounds, young, waiting, last, messages, actor, events>>

\* The state is told when it is not the one last told.
Tells(s) ==
  /\ step' = "loop"
  /\ IF s = last THEN UNCHANGED <<last, messages>>
     ELSE /\ Len(messages) < MaxMessages
          /\ last' = s /\ messages' = Append(messages, Down(s))

Probe ==
  /\ step = "probe"
  /\ IF node = "ready" THEN step' = "open" /\ UNCHANGED <<last, messages>>
                       ELSE Tells(node)
  /\ UNCHANGED <<node, bounds, connected, young, waiting, actor, events, missed>>

\* Mutant: the state last told stays what it was before the connection.
OpenKeepsLast ==
  /\ step = "open" /\ Len(messages) < MaxMessages
  /\ IF node \in {"ready", "busy"}
     THEN /\ connected' = TRUE /\ young' = TRUE
          /\ messages' = Append(messages, Up("live"))
          /\ step' = "loop" /\ UNCHANGED last
     ELSE Tells(node) /\ UNCHANGED <<connected, young>>
  /\ UNCHANGED <<node, bounds, waiting, actor, events, missed>>

\* Another process may hold the node: only probe looks for one.
Open ==
  /\ step = "open" /\ Len(messages) < MaxMessages
  /\ IF node \in {"ready", "busy"}
     THEN /\ connected' = TRUE /\ young' = TRUE /\ last' = "ready"
          /\ messages' = Append(messages, Up("live"))
          /\ step' = "loop"
     ELSE Tells(node) /\ UNCHANGED <<connected, young>>
  /\ UNCHANGED <<node, bounds, waiting, actor, events, missed>>

Ages == young /\ young' = FALSE
        /\ UNCHANGED <<node, bounds, step, connected, waiting, last, messages,
                       actor, events, missed>>

RetryDue ==
  /\ waiting /\ waiting' = FALSE
  /\ UNCHANGED <<node, bounds, step, connected, young, last, messages, actor,
                 events, missed>>

(***************************************************************************)
(* The actor                                                               *)
(***************************************************************************)
SetDevice(s) ==
  /\ device' = s
  /\ events' = IF s # device THEN Append(events, s) ELSE events

DeviceUp ==
  /\ messages # <<>> /\ Head(messages).kind = "up"
  /\ messages' = Tail(messages)
  /\ transport' = Head(messages).connection
  /\ SetDevice("ready")
  /\ UNCHANGED <<node, bounds, task, missed>>

DeviceDown ==
  /\ messages # <<>> /\ Head(messages).kind = "down"
  /\ messages' = Tail(messages)
  /\ transport' = "none"
  /\ SetDevice(Head(messages).state)
  /\ UNCHANGED <<node, bounds, task, missed>>

\* Mutant: the state is set without an event.
LostQuietly ==
  /\ transport = "dead"
  /\ transport' = "none" /\ device' = "not_found"
  /\ UNCHANGED <<node, bounds, task, messages, events, missed>>

\* A read or a write of a dead connection fails.
Lost ==
  /\ transport = "dead"
  /\ transport' = "none"
  /\ SetDevice("not_found")
  /\ UNCHANGED <<node, bounds, task, messages, missed>>

Next ==
  \/ \E n \in Nodes : NodeChanges(n)
  \/ Dies \/ Overflow
  \/ Tick \/ StateReady \/ StateOther \/ Lagged \/ Probe \/ Open \/ Ages \/ RetryDue
  \/ DeviceUp \/ DeviceDown \/ Lost

Spec == Init /\ [][Next]_vars

\* Ticks come every 2 s, the task and the actor take what is there, a dead
\* connection is noticed by the keep-awake packet, and time passes.
Fairness ==
  /\ WF_vars(Tick) /\ WF_vars(StateReady \/ StateOther \/ Lagged)
  /\ WF_vars(Probe \/ Open) /\ WF_vars(RetryDue)
  /\ WF_vars(DeviceUp \/ DeviceDown) /\ WF_vars(Lost)

LiveSpec == Spec /\ Fairness

(***************************************************************************)
(* Properties                                                              *)
(***************************************************************************)
\* The state has the declared types.
TypeOK ==
  /\ node \in Nodes
  /\ bounds \in [plugs : 0..MaxPlugs, deaths : 0..MaxDeaths, missed : 0..MaxMissed]
  /\ step \in {"loop", "probe", "open"}
  /\ connected \in BOOLEAN /\ young \in BOOLEAN /\ waiting \in BOOLEAN
  /\ last \in States \cup {"starting"}
  /\ messages \in Seq([kind : {"up", "down"}, connection : Connections, state : States])
  /\ Len(messages) <= MaxMessages
  /\ transport \in Connections \cup {"none"} /\ device \in States
  /\ events \in Seq(States) /\ missed \in BOOLEAN

\* The task never rests in the belief that the deck is connected: with no
\* message and no event on its way there is a connection, if only one that is
\* about to be found dead.  (It would never probe again.)
NoFalseConnected ==
  connected /\ messages = <<>> /\ events = <<>> /\ ~missed => transport # "none"

\* What the actor shows as ready is connected, and nothing else is.
ReadyIsConnected == device = "ready" <=> transport # "none"

\* What the task believes, what the actor shows and the connection agree.
ConnectionCoherent == TypeOK /\ NoFalseConnected /\ ReadyIsConnected

\* A deck that stays plugged in and may be opened is connected in the end and
\* shown as ready, whatever came before, missed events and back-off included.
PlugConnects ==
  <>[](node = "ready") => <>[](transport = "live" /\ device = "ready")

\* One that stays in another state ends up shown in that state, or, if its
\* last connection outlives the change (permissions are checked when it is
\* opened), in the connection it has.
StatusSettles ==
  \A s \in Nodes \ {"ready"} : <>[](node = s) => <>[](device = s \/ transport = "live")

\* What the deck is in the end is what is shown.
ShownInTheEnd == PlugConnects /\ StatusSettles
=============================================================================
