------------------------------ MODULE DeckQueue ------------------------------
(***************************************************************************)
(* Plugin values on their way to the deck (plugins/deck_queue.rs).  The    *)
(* supervisor puts values and clears into a shared queue that coalesces    *)
(* them; one forwarding task takes them out, in order, and hands them to   *)
(* the deck's bounded channel.                                             *)
(*                                                                         *)
(* A deque is modelled as a function from positions to slots: a slot keeps *)
(* its position when others are removed, `next` is where push_back puts    *)
(* the next one, and the front is the smallest position.                   *)
(***************************************************************************)
EXTENDS Integers, Sequences, FiniteSets

CONSTANTS
  Plugins, Keys, Values,
  All,        \* stands for the key of a slot that clears the whole plugin
  Unset,      \* no value
  Nothing,    \* no message
  Capacity,   \* of the deck's channel
  MaxPushes   \* bound: slots ever queued

ASSUME NamesAssumption == All \notin Keys /\ Unset \notin Values
ASSUME CapacityAssumption == Capacity \in Nat \ {0}
ASSUME PushesAssumption == MaxPushes \in Nat

VARIABLES
  order,      \* Pending.order: positions to slots
  next,       \* the position behind the last one
  values,     \* Pending.values; Unset where there is no entry
  closed,     \* Pending.closed: the sender was dropped
  notifying,  \* a sender let go of the lock and has not notified yet
  permit,     \* the permit `wake` stores (external: tokio's Notify)
  task,       \* where the forwarding task is
  sending,    \* the message it is sending
  channel,    \* the deck's channel (external: tokio's mpsc)
  deckUp,     \* the deck actor still receives
  shown,      \* the deck's values of the plugins
  said,       \* history: what was last said of each slot
  taken       \* history: what the messages taken out so far amount to

pending == <<order, next, values, closed>>
vars == <<order, next, values, closed, notifying, permit, task, sending,
          channel, deckUp, shown, said, taken>>

Slots == Plugins \X Keys
Entries == Plugins \X (Keys \cup {All})
Msgs == [slot : Entries, value : Values \cup {Unset}]

Blank == [s \in Slots |-> Unset]
Without(view, p) == [s \in Slots |-> IF s[1] = p THEN Unset ELSE view[s]]

\* What a view of the values becomes when it is told message `m`
\* (set_plugin_var, clear_plugin).
Tells(view, m) ==
  IF m.slot[2] = All THEN Without(view, m.slot[1])
  ELSE [view EXCEPT ![m.slot] = m.value]

PushBack(entry) ==
  /\ order' = [i \in DOMAIN order \cup {next} |-> IF i = next THEN entry ELSE order[i]]
  /\ next' = next + 1

Queued(entry) == \E i \in DOMAIN order : order[i] = entry

-----------------------------------------------------------------------------
Init ==
  /\ order = [i \in {} |-> Nothing] /\ next = 0
  /\ values = Blank
  /\ closed = FALSE /\ notifying = FALSE /\ permit = FALSE
  /\ task = "looking" /\ sending = Nothing
  /\ channel = <<>> /\ deckUp = TRUE
  /\ shown = Blank /\ said = Blank /\ taken = Blank

\* Mutant: a value already waiting is kept.
StateKeepsFirst(s, v) ==
  /\ ~closed /\ ~notifying
  /\ IF values[s] # Unset THEN UNCHANGED <<order, next, values>>
     ELSE /\ next < MaxPushes /\ PushBack(s)
          /\ values' = [values EXCEPT ![s] = v]
  /\ said' = [said EXCEPT ![s] = v]
  /\ notifying' = TRUE
  /\ UNCHANGED <<closed, permit, task, sending, channel, deckUp, shown, taken>>

\* send(PluginState): the latest value wins, in the place of the first.
State(s, v) ==
  /\ ~closed /\ ~notifying
  /\ \/ values[s] # Unset /\ UNCHANGED <<order, next>>
     \/ values[s] = Unset /\ next < MaxPushes /\ PushBack(s)
  /\ values' = [values EXCEPT ![s] = v]
  /\ said' = [said EXCEPT ![s] = v]
  /\ notifying' = TRUE
  /\ UNCHANGED <<closed, permit, task, sending, channel, deckUp, shown, taken>>

\* Mutant: the values waiting are forgotten, their places are not.
ClearedKeepsPlaces(p) ==
  /\ ~closed /\ ~notifying /\ next < MaxPushes
  /\ PushBack(<<p, All>>)
  /\ values' = Without(values, p)
  /\ said' = Without(said, p)
  /\ notifying' = TRUE
  /\ UNCHANGED <<closed, permit, task, sending, channel, deckUp, shown, taken>>

\* send(PluginCleared): drops the plugin's values still waiting; other
\* plugins' stay, and so does an earlier clear.
Cleared(p) ==
  /\ ~closed /\ ~notifying /\ next < MaxPushes
  /\ order' = [i \in {i \in DOMAIN order : order[i] \notin {p} \X Keys} \cup {next} |->
                 IF i = next THEN <<p, All>> ELSE order[i]]
  /\ next' = next + 1
  /\ values' = Without(values, p)
  /\ said' = Without(said, p)
  /\ notifying' = TRUE
  /\ UNCHANGED <<closed, permit, task, sending, channel, deckUp, shown, taken>>

\* Drop of the sender.
Close ==
  /\ ~closed /\ ~notifying
  /\ closed' = TRUE
  /\ notifying' = TRUE
  /\ UNCHANGED <<order, next, values, permit, task, sending, channel, deckUp,
                 shown, said, taken>>

\* Mutant: notify_waiters, which wakes only a task whose await has begun.
NotifyWaiters ==
  /\ notifying
  /\ notifying' = FALSE
  /\ permit' \in {FALSE, task = "waiting"}
  /\ UNCHANGED <<pending, task, sending, channel, deckUp, shown, said, taken>>

\* notify_one, after the lock is released: the permit is stored.
NotifyOne ==
  /\ notifying
  /\ notifying' = FALSE
  /\ permit' = TRUE
  /\ UNCHANGED <<pending, task, sending, channel, deckUp, shown, said, taken>>

Message(entry) ==
  [slot |-> entry, value |-> IF entry[2] = All THEN Unset ELSE values[entry]]

\* The task takes the front of the queue out, under the lock.
Take ==
  /\ task = "looking"
  /\ \E i \in DOMAIN order :
       /\ \A j \in DOMAIN order : i <= j
       /\ order' = [j \in DOMAIN order \ {i} |-> order[j]]
       /\ values' = IF order[i][2] = All THEN values ELSE [values EXCEPT ![order[i]] = Unset]
       /\ sending' = Message(order[i])
       /\ taken' = Tells(taken, Message(order[i]))
  /\ task' = "sending"
  /\ UNCHANGED <<next, closed, notifying, permit, channel, deckUp, shown, said>>

\* Nothing is queued: the task ends if the sender is gone, else it waits.
FoundEmpty ==
  /\ task = "looking"
  /\ DOMAIN order = {}
  /\ task' = IF closed THEN "ended" ELSE "waiting"
  /\ UNCHANGED <<pending, notifying, permit, sending, channel, deckUp, shown,
                 said, taken>>

\* A permit stored before or after it began to wait lets the task go on.
Woken ==
  /\ task = "waiting" /\ permit
  /\ permit' = FALSE
  /\ task' = "looking"
  /\ UNCHANGED <<pending, notifying, sending, channel, deckUp, shown, said, taken>>

\* The deck's channel has room for the message.
HandOver ==
  /\ task = "sending" /\ deckUp
  /\ Len(channel) < Capacity
  /\ channel' = Append(channel, sending)
  /\ sending' = Nothing /\ task' = "looking"
  /\ UNCHANGED <<pending, notifying, permit, deckUp, shown, said, taken>>

\* The deck is gone: the task ends.
HandOverFails ==
  /\ task = "sending" /\ ~deckUp
  /\ sending' = Nothing /\ task' = "ended"
  /\ UNCHANGED <<pending, notifying, permit, channel, deckUp, shown, said, taken>>

\* The deck handles a message.
DeckHandles ==
  /\ deckUp /\ channel # <<>>
  /\ shown' = Tells(shown, Head(channel))
  /\ channel' = Tail(channel)
  /\ UNCHANGED <<pending, notifying, permit, task, sending, deckUp, said, taken>>

\* The deck actor stops: the program is shutting down.
DeckStops ==
  /\ deckUp
  /\ deckUp' = FALSE /\ channel' = <<>>
  /\ UNCHANGED <<pending, notifying, permit, task, sending, shown, said, taken>>

Sender ==
  \/ \E s \in Slots, v \in Values : State(s, v)
  \/ \E p \in Plugins : Cleared(p)
  \/ Close

Task == Take \/ FoundEmpty \/ Woken \/ HandOver \/ HandOverFails

Next == Sender \/ NotifyOne \/ Task \/ DeckHandles \/ DeckStops

Spec == Init /\ [][Next]_vars

\* The sender runs on to its notify, the task runs, the deck keeps receiving.
FairSpec == Spec /\ WF_vars(NotifyOne) /\ WF_vars(Task) /\ WF_vars(DeckHandles)

-----------------------------------------------------------------------------
(* Properties.                                                             *)

View == [Slots -> Values \cup {Unset}]

\* The values of the variables.
TypeOK ==
  /\ DOMAIN order \subseteq 0..(next - 1) /\ order \in [DOMAIN order -> Entries]
  /\ next \in 0..MaxPushes
  /\ values \in View /\ shown \in View /\ said \in View /\ taken \in View
  /\ closed \in BOOLEAN /\ notifying \in BOOLEAN /\ permit \in BOOLEAN
  /\ deckUp \in BOOLEAN
  /\ task \in {"looking", "sending", "waiting", "ended"}
  /\ sending \in Msgs \cup {Nothing}
  /\ task = "sending" => sending \in Msgs
  /\ channel \in Seq(Msgs) /\ Len(channel) <= Capacity

\* A slot waits at most once, exactly while it has a value, and behind every
\* clear of its plugin.
InOrder ==
  /\ \A i, j \in DOMAIN order : order[i] = order[j] /\ order[i] \in Slots => i = j
  /\ \A s \in Slots : values[s] # Unset <=> Queued(s)
  /\ \A i, j \in DOMAIN order :
       order[i][2] = All /\ order[j][2] # All /\ order[i][1] = order[j][1] => i < j

\* What the deck will have been told of slot `s` once the queue is empty.
Outcome(s) ==
  IF values[s] # Unset THEN values[s]
  ELSE IF Queued(<<s[1], All>>) THEN Unset
  ELSE taken[s]

\* Coalescing loses nothing that matters: once the queue is empty the deck has
\* been told the latest of what was said, and no value of a plugin from before
\* its clear ("the latest wins").
LatestWins == \A s \in Slots : Outcome(s) = said[s]

\* Every value that is the last one said comes to be shown, however slow the
\* deck is, unless the deck stops.
LastValueShown ==
  \A s \in Slots, v \in Values \cup {Unset} :
    []deckUp /\ <>[](said[s] = v) => <>[](shown[s] = v)

\* Dropping the sender ends the task "once the queue is empty", also when the
\* deck is gone.
DropEndsTask == closed ~> task = "ended"

\* The task sleeps over neither a value nor a dropped sender.
Drains == LastValueShown /\ DropEndsTask

\* The queue does what PluginValues promises, what the deck was told being
\* what was taken out of the queue.
Promise == INSTANCE PluginValues WITH
  seen <- taken, forgetting <- {p \in Plugins : Queued(<<p, All>>)}

ImplementsPluginValues == Promise!Spec

=============================================================================
