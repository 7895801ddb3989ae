--------------------------- MODULE HotPlugProofs ---------------------------
(***************************************************************************)
(* Proofs about HotPlug, for any bounds.                                   *)
(*                                                                         *)
(* The task only says something while it is not connected, so the message  *)
(* that ends a belief is behind the one it came from; and the last event   *)
(* the task has not seen says what the actor shows.  Between them, a task  *)
(* that believes in a connection with nothing left to hear is right.       *)
(*                                                                         *)
(* The last section is about Updates, which the same service runs: only a  *)
(* whole image ever stands where the running one is.                       *)
(***************************************************************************)
EXTENDS MCDaemon, SequenceTheorems, TLAPS

Message == [kind : {"up", "down"}, connection : Connections, state : States]

\* A connection comes with "up" alone, and "down" is never ready.
MessagesSay ==
  \A i \in 1..Len(messages) : messages[i].kind = "down" => messages[i].state # "ready"

\* Between probing and opening the task does not believe in a connection.
ProbesUnconnected == step # "loop" => ~connected

\* The last event the task has not seen is what the actor shows.
EventsEndInDevice == events # <<>> => events[Len(events)] = device

\* With no event on its way, a belief is that of the actor, or comes with the
\* last message to it.
BeliefHolds ==
  connected /\ ~missed /\ events = <<>> =>
    \/ device = "ready"
    \/ messages # <<>> /\ messages[Len(messages)].kind = "up"

IInv ==
  /\ TypeOK
  /\ MessagesSay
  /\ ProbesUnconnected
  /\ EventsEndInDevice
  /\ BeliefHolds
  /\ ReadyIsConnected

-----------------------------------------------------------------------------
(* Sequences.                                                              *)

LEMMA TailFacts ==
  ASSUME NEW S, NEW s \in Seq(S), s # <<>>
  PROVE  /\ Head(s) \in S /\ Head(s) = s[1] /\ 1 \in 1..Len(s)
         /\ Tail(s) \in Seq(S) /\ Len(Tail(s)) = Len(s) - 1
         /\ \A i \in 1..Len(Tail(s)) : i + 1 \in 1..Len(s) /\ Tail(s)[i] = s[i + 1]
         /\ Tail(s) # <<>> => Tail(s)[Len(Tail(s))] = s[Len(s)]
         /\ Tail(s) = <<>> => Len(s) = 1
<1>1. Head(s) \in S /\ Head(s) = s[1] /\ Tail(s) \in Seq(S) /\ Len(Tail(s)) = Len(s) - 1
  BY HeadTailProperties
<1>2. Len(s) \in Nat \ {0}
  BY EmptySeq
<1>3. \A i \in 1..Len(Tail(s)) : i + 1 \in 1..Len(s) /\ Tail(s)[i] = s[i + 1]
  BY <1>1, <1>2, HeadTailProperties
<1>4. Tail(s) # <<>> => Len(Tail(s)) \in Nat \ {0}
  BY <1>1, EmptySeq
<1>5. Tail(s) = <<>> => Len(s) = 1
  <2>1. Len(<<>>) = 0
    BY EmptySeq
  <2>2. Tail(s) = <<>> => Len(Tail(s)) = 0
    BY <2>1
  <2> QED
    BY <1>1, <1>2, <2>2
<1> QED
  BY <1>1, <1>2, <1>3, <1>4, <1>5

LEMMA AppendFacts ==
  ASSUME NEW S, NEW s \in Seq(S), NEW e \in S
  PROVE  /\ Append(s, e) \in Seq(S) /\ Append(s, e) # <<>>
         /\ Len(Append(s, e)) = Len(s) + 1 /\ Len(s) \in Nat
         /\ Append(s, e)[Len(Append(s, e))] = e
         /\ \A i \in 1..Len(s) : Append(s, e)[i] = s[i]
  BY AppendProperties, LenProperties

-----------------------------------------------------------------------------
(* The initial states.                                                     *)

\* The initial states satisfy the invariant.
THEOREM InitInv == Init => IInv
<1> SUFFICES ASSUME Init PROVE IInv
  OBVIOUS
<1> 0 \in 0..MaxPlugs /\ 0 \in 0..MaxDeaths /\ 0 \in 0..MaxMissed /\ 0 <= MaxMessages
  BY BoundsAssumption
<1> <<>> \in Seq(States) /\ <<>> \in Seq(Message) /\ Len(<<>>) = 0
  BY EmptySeq
<1>1. TypeOK
  BY DEF Init, TypeOK, States, Nodes, Message, Connections
<1> QED
  BY <1>1 DEF Init, IInv, MessagesSay, ProbesUnconnected, EventsEndInDevice, BeliefHolds,
     ReadyIsConnected

-----------------------------------------------------------------------------
(* The node and its connections.                                           *)

LEMMA NodeChangesInv ==
  ASSUME IInv, NEW n \in Nodes, NodeChanges(n)
  PROVE  IInv'
<1>1. messages \in Seq(Message) /\ Len(messages) <= MaxMessages
  BY DEF IInv, TypeOK, Message
<1>2. /\ messages' \in Seq(Message) /\ Len(messages') = Len(messages)
      /\ \A i \in 1..Len(messages) : /\ messages'[i].kind = messages[i].kind
                                     /\ messages'[i].state = messages[i].state
      /\ messages' = <<>> <=> messages = <<>>
  <2>1. CASE n = "not_found"
    <3>1. Len(messages) \in Nat /\ DOMAIN messages = 1..Len(messages)
      BY <1>1, LenProperties
    <3>2. ASSUME NEW i \in 1..Len(messages)
          PROVE  [messages[i] EXCEPT !.connection = "dead"] \in Message
      <4>1. messages[i] \in Message
        BY <1>1, ElementOfSeq
      <4> QED
        BY <4>1 DEF Message, Connections
    <3>3. messages' \in [1..Len(messages) -> Message]
      BY <2>1, <3>1, <3>2 DEF NodeChanges
    <3>4. messages' \in Seq(Message) /\ Len(messages') = Len(messages)
      BY <3>1, <3>3
    <3>5. \A i \in 1..Len(messages) : messages[i] \in Message
      BY <1>1, ElementOfSeq
    <3>6. \A i \in 1..Len(messages) : /\ messages'[i].kind = messages[i].kind
                                      /\ messages'[i].state = messages[i].state
      BY <2>1, <3>1, <3>5 DEF NodeChanges, Message
    <3>7. messages' = <<>> <=> messages = <<>>
      BY <1>1, <3>4, EmptySeq
    <3> QED
      BY <3>4, <3>6, <3>7
  <2>2. CASE n # "not_found"
    BY <1>1, <2>2 DEF NodeChanges
  <2> QED
    BY <2>1, <2>2
<1>3. bounds' \in [plugs : 0..MaxPlugs, deaths : 0..MaxDeaths, missed : 0..MaxMissed]
  BY BoundsAssumption, SMTT(30) DEF IInv, TypeOK, NodeChanges
<1>4. transport' \in Connections \cup {"none"} /\ (transport' = "none" <=> transport = "none")
  BY DEF IInv, TypeOK, NodeChanges, Connections
<1>5. TypeOK'
  BY <1>1, <1>2, <1>3, <1>4 DEF IInv, TypeOK, NodeChanges, task, Message
<1>6. MessagesSay' /\ BeliefHolds'
  <2>1. Len(messages) \in Nat /\ (messages # <<>> => Len(messages) \in 1..Len(messages))
    BY <1>1, EmptySeq
  <2> QED
    BY <1>2, <2>1 DEF IInv, MessagesSay, BeliefHolds, NodeChanges, task
<1>7. ProbesUnconnected' /\ EventsEndInDevice' /\ ReadyIsConnected'
  BY <1>4 DEF IInv, ProbesUnconnected, EventsEndInDevice, ReadyIsConnected, NodeChanges, task
<1> QED
  BY <1>5, <1>6, <1>7 DEF IInv

LEMMA DiesInv ==
  ASSUME IInv, Dies
  PROVE  IInv'
<1>1. bounds' \in [plugs : 0..MaxPlugs, deaths : 0..MaxDeaths, missed : 0..MaxMissed]
  BY BoundsAssumption, SMTT(30) DEF IInv, TypeOK, Dies
<1>2. TypeOK'
  BY <1>1 DEF IInv, TypeOK, Dies, task, Connections
<1> QED
  BY <1>2 DEF IInv, Dies, task, MessagesSay, ProbesUnconnected, EventsEndInDevice, BeliefHolds,
     ReadyIsConnected

LEMMA OverflowInv ==
  ASSUME IInv, Overflow
  PROVE  IInv'
<1>1. events \in Seq(States) /\ events # <<>> /\ Len(events) \in Nat \ {0}
  BY EmptySeq DEF IInv, TypeOK, Overflow
<1>2. PICK n \in 1..Len(events) : events' = SubSeq(events, n + 1, Len(events))
  BY DEF Overflow
<1>3. \A i \in (n + 1)..Len(events) : events[i] \in States
  BY <1>1, ElementOfSeq
<1>4. events' \in Seq(States) /\ Len(events') = Len(events) - n
  BY <1>1, <1>2, <1>3, SubSeqProperties
<1>5. events' # <<>> => events'[Len(events')] = events[Len(events)]
  <2>1. ASSUME events' # <<>> PROVE n < Len(events)
    BY <1>1, <1>2, <1>4, <2>1, EmptySeq
  <2>2. \A i \in 1..(Len(events) - n) : events'[i] = events[n + i]
    BY <1>1, <1>2, <1>3, SubSeqProperties
  <2> QED
    BY <1>1, <1>4, <2>1, <2>2
<1>6. bounds' \in [plugs : 0..MaxPlugs, deaths : 0..MaxDeaths, missed : 0..MaxMissed]
  <2>1. bounds.missed < MaxMissed /\ bounds' = [bounds EXCEPT !.missed = @ + 1]
    BY DEF Overflow
  <2> QED
    BY <2>1, BoundsAssumption, SMTT(30) DEF IInv, TypeOK
<1>7. TypeOK'
  BY <1>4, <1>6 DEF IInv, TypeOK, Overflow, task, actor
<1> QED
  BY <1>1, <1>5, <1>7 DEF IInv, Overflow, task, actor, MessagesSay, ProbesUnconnected,
     EventsEndInDevice, BeliefHolds, ReadyIsConnected

-----------------------------------------------------------------------------
(* The hotplug task.                                                       *)

\* An event is taken: the rest ends as before, and the last one is what the
\* actor shows.
LEMMA EventTaken ==
  ASSUME IInv, events # <<>>, events' = Tail(events), UNCHANGED device
  PROVE  /\ events' \in Seq(States) /\ Head(events) \in States
         /\ EventsEndInDevice'
         /\ events' = <<>> => Head(events) = device
<1>1. events \in Seq(States)
  BY DEF IInv, TypeOK
<1> QED
  BY <1>1, TailFacts DEF IInv, EventsEndInDevice

LEMMA HearsInv ==
  ASSUME IInv, StateReady \/ StateOther \/ Lagged
  PROVE  IInv'
<1>1. CASE StateReady
  <2>1. events' \in Seq(States) /\ EventsEndInDevice' /\ (events' = <<>> => Head(events) = device)
    BY <1>1, EventTaken DEF StateReady, actor
  <2>2. TypeOK'
    BY <1>1, <2>1 DEF IInv, TypeOK, StateReady, actor
  <2> QED
    BY <1>1, <2>1, <2>2 DEF IInv, StateReady, actor, MessagesSay, ProbesUnconnected, BeliefHolds,
       ReadyIsConnected
<1>2. CASE StateOther
  <2>1. events' \in Seq(States) /\ EventsEndInDevice'
    BY <1>2, EventTaken DEF StateOther, actor
  <2>2. waiting' \in BOOLEAN /\ step' \in {"loop", "probe"}
    BY <1>2 DEF IInv, TypeOK, StateOther, Probes
  <2>3. TypeOK'
    BY <1>2, <2>1, <2>2 DEF IInv, TypeOK, StateOther, actor
  <2> QED
    BY <1>2, <2>1, <2>3 DEF IInv, StateOther, actor, MessagesSay, ProbesUnconnected, BeliefHolds,
       ReadyIsConnected
<1>3. CASE Lagged
  <2>1. TypeOK'
    BY <1>3 DEF IInv, TypeOK, Lagged, Probes, actor
  <2> QED
    BY <1>3, <2>1 DEF IInv, Lagged, actor, MessagesSay, ProbesUnconnected, EventsEndInDevice,
       BeliefHolds, ReadyIsConnected
<1> QED
  BY <1>1, <1>2, <1>3

\* What the task says is another message, behind the others.
LEMMA Said ==
  ASSUME IInv, NEW m \in Message, messages' = Append(messages, m), Len(messages) < MaxMessages,
         m.kind = "down" => m.state # "ready"
  PROVE  /\ messages' \in Seq(Message) /\ Len(messages') <= MaxMessages
         /\ MessagesSay'
         /\ messages' # <<>> /\ messages'[Len(messages')] = m
<1>1. messages \in Seq(Message)
  BY DEF IInv, TypeOK, Message
<1>2. /\ messages' \in Seq(Message) /\ messages' # <<>>
      /\ Len(messages') = Len(messages) + 1 /\ Len(messages) \in Nat
      /\ messages'[Len(messages')] = m
      /\ \A i \in 1..Len(messages) : messages'[i] = messages[i]
  BY <1>1, AppendFacts
<1>3. Len(messages') <= MaxMessages
  BY <1>2, BoundsAssumption
<1>4. ASSUME NEW i \in 1..Len(messages')
      PROVE  messages'[i].kind = "down" => messages'[i].state # "ready"
  <2>1. CASE i = Len(messages')
    BY <1>2, <2>1
  <2>2. CASE i # Len(messages')
    <3>1. i \in 1..Len(messages)
      BY <1>2, <2>2
    <3> QED
      BY <1>2, <3>1 DEF IInv, MessagesSay
  <2> QED
    BY <2>1, <2>2
<1> QED
  BY <1>2, <1>3, <1>4 DEF MessagesSay

LEMMA TellsInv ==
  ASSUME IInv, NEW s \in States \ {"ready"}, Tells(s), ~connected,
         UNCHANGED <<node, bounds, connected, young, waiting, actor, events, missed>>
  PROVE  IInv'
<1>1. messages' \in Seq(Message) /\ Len(messages') <= MaxMessages /\ MessagesSay'
  <2>1. CASE s = last
    BY <2>1 DEF Tells, IInv, TypeOK, MessagesSay, Message
  <2>2. CASE s # last
    <3>1. Down(s) \in Message /\ Down(s).state # "ready"
      BY DEF Down, Message, Connections
    <3>2. Len(messages) < MaxMessages /\ messages' = Append(messages, Down(s))
      BY <2>2 DEF Tells
    <3> HIDE DEF Down
    <3> QED
      BY <3>1, <3>2, Said
  <2> QED
    BY <2>1, <2>2
<1>2. TypeOK'
  BY <1>1 DEF IInv, TypeOK, Tells, actor, Message
<1> QED
  BY <1>1, <1>2 DEF IInv, actor, ProbesUnconnected, EventsEndInDevice, BeliefHolds, ReadyIsConnected

LEMMA ProbeInv ==
  ASSUME IInv, Probe
  PROVE  IInv'
<1>1. ~connected
  BY DEF IInv, Probe, ProbesUnconnected
<1>2. CASE node = "ready"
  <2>1. TypeOK'
    BY <1>2 DEF IInv, TypeOK, Probe, actor
  <2> QED
    BY <1>1, <1>2, <2>1 DEF IInv, Probe, actor, MessagesSay, ProbesUnconnected, EventsEndInDevice,
       BeliefHolds, ReadyIsConnected
<1>3. CASE node # "ready"
  <2>1. node \in States \ {"ready"}
    BY <1>3 DEF IInv, TypeOK, Nodes
  <2> QED
    BY <1>1, <1>3, <2>1, TellsInv DEF Probe
<1> QED
  BY <1>2, <1>3

LEMMA OpenInv ==
  ASSUME IInv, Open
  PROVE  IInv'
<1>1. ~connected
  BY DEF IInv, Open, ProbesUnconnected
<1>2. CASE node \in {"ready", "busy"}
  <2>1. Up("live") \in Message /\ Up("live").kind = "up"
    BY DEF Up, Message, Connections, States
  <2>2. Len(messages) < MaxMessages /\ messages' = Append(messages, Up("live"))
    BY <1>2 DEF Open
  <2> HIDE DEF Up
  <2>3. /\ messages' \in Seq(Message) /\ Len(messages') <= MaxMessages /\ MessagesSay'
        /\ messages' # <<>> /\ messages'[Len(messages')].kind = "up"
    BY <2>1, <2>2, Said
  <2>4. TypeOK'
    BY <1>2, <2>3 DEF IInv, TypeOK, Open, actor, Message, States
  <2> QED
    BY <1>2, <2>3, <2>4 DEF IInv, Open, actor, ProbesUnconnected, EventsEndInDevice,
       BeliefHolds, ReadyIsConnected
<1>3. CASE node \notin {"ready", "busy"}
  <2>1. node \in States \ {"ready"}
    BY <1>3 DEF IInv, TypeOK, Nodes
  <2> QED
    BY <1>1, <1>3, <2>1, TellsInv DEF Open
<1> QED
  BY <1>2, <1>3

\* Ticks and what passes with time.
LEMMA TimeInv ==
  ASSUME IInv, Tick \/ Ages \/ RetryDue
  PROVE  IInv'
<1>1. TypeOK'
  BY DEF IInv, TypeOK, Tick, Ages, RetryDue, actor
<1> QED
  BY <1>1 DEF IInv, Tick, Ages, RetryDue, actor, MessagesSay, ProbesUnconnected, EventsEndInDevice,
     BeliefHolds, ReadyIsConnected

-----------------------------------------------------------------------------
(* The actor.                                                              *)

\* set_device keeps the events ending in what is shown, and says so when it is
\* something new.
LEMMA DeviceSet ==
  ASSUME IInv, NEW s \in States, SetDevice(s)
  PROVE  /\ device' = s /\ events' \in Seq(States)
         /\ EventsEndInDevice'
         /\ events' = <<>> => events = <<>> /\ s = device
<1>1. events \in Seq(States) /\ device \in States
  BY DEF IInv, TypeOK
<1>2. CASE s = device
  BY <1>1, <1>2 DEF SetDevice, IInv, EventsEndInDevice
<1>3. CASE s # device
  BY <1>1, <1>3, AppendFacts DEF SetDevice, EventsEndInDevice
<1> QED
  BY <1>2, <1>3

\* A message is taken, and the last one stays the last.
LEMMA MessageTaken ==
  ASSUME IInv, messages # <<>>, messages' = Tail(messages)
  PROVE  /\ Head(messages) \in Message /\ messages' \in Seq(Message)
         /\ Len(messages') <= MaxMessages /\ MessagesSay'
         /\ Head(messages).kind = "down" => Head(messages).state # "ready"
         /\ messages[Len(messages)].kind = "up" =>
              \/ Head(messages).kind = "up"
              \/ messages' # <<>> /\ messages'[Len(messages')].kind = "up"
<1>1. messages \in Seq(Message) /\ Len(messages) <= MaxMessages
  BY DEF IInv, TypeOK, Message
<1>2. /\ Head(messages) \in Message /\ Head(messages) = messages[1] /\ 1 \in 1..Len(messages)
      /\ messages' \in Seq(Message) /\ Len(messages') = Len(messages) - 1
      /\ \A i \in 1..Len(messages') : i + 1 \in 1..Len(messages) /\ messages'[i] = messages[i + 1]
      /\ messages' # <<>> => messages'[Len(messages')] = messages[Len(messages)]
      /\ messages' = <<>> => Len(messages) = 1
  BY <1>1, TailFacts
<1>3. Len(messages) \in Nat
  BY <1>1, LenProperties
<1>4. Len(messages') <= MaxMessages
  BY <1>1, <1>2, <1>3, BoundsAssumption
<1> QED
  BY <1>2, <1>4 DEF IInv, MessagesSay

LEMMA DeviceUpInv ==
  ASSUME IInv, DeviceUp
  PROVE  IInv'
<1>1. messages' \in Seq(Message) /\ Len(messages') <= MaxMessages /\ MessagesSay'
      /\ transport' \in Connections
  BY MessageTaken DEF DeviceUp, Message
<1>2. device' = "ready" /\ events' \in Seq(States) /\ EventsEndInDevice'
  BY DeviceSet DEF DeviceUp, States
<1>3. TypeOK'
  BY <1>1, <1>2 DEF IInv, TypeOK, DeviceUp, task, Message, States
<1> QED
  BY <1>1, <1>2, <1>3 DEF IInv, DeviceUp, task, ProbesUnconnected, BeliefHolds, ReadyIsConnected,
     Connections

LEMMA DeviceDownInv ==
  ASSUME IInv, DeviceDown
  PROVE  IInv'
<1>1. /\ messages' \in Seq(Message) /\ Len(messages') <= MaxMessages /\ MessagesSay'
      /\ Head(messages).state \in States \ {"ready"}
      /\ messages # <<>> /\ messages[Len(messages)].kind = "up" =>
           messages' # <<>> /\ messages'[Len(messages')].kind = "up"
  BY MessageTaken DEF DeviceDown, Message
<1>2. /\ device' = Head(messages).state /\ events' \in Seq(States) /\ EventsEndInDevice'
      /\ events' = <<>> => events = <<>> /\ Head(messages).state = device
  BY <1>1, DeviceSet DEF DeviceDown
<1>3. TypeOK'
  BY <1>1, <1>2 DEF IInv, TypeOK, DeviceDown, task, Message
<1>4. BeliefHolds'
  BY <1>1, <1>2 DEF IInv, DeviceDown, task, BeliefHolds
<1> QED
  BY <1>1, <1>2, <1>3, <1>4 DEF IInv, DeviceDown, task, ProbesUnconnected, ReadyIsConnected

LEMMA LostInv ==
  ASSUME IInv, Lost
  PROVE  IInv'
<1>1. /\ device' = "not_found" /\ events' \in Seq(States) /\ EventsEndInDevice'
      /\ events' = <<>> => device = "not_found"
  BY DeviceSet DEF Lost, States
<1>2. device = "ready"
  BY DEF IInv, Lost, ReadyIsConnected
<1>3. TypeOK'
  BY <1>1 DEF IInv, TypeOK, Lost, task, States
<1> QED
  BY <1>1, <1>2, <1>3 DEF IInv, Lost, task, MessagesSay, ProbesUnconnected, BeliefHolds,
     ReadyIsConnected

-----------------------------------------------------------------------------
\* Every step keeps the invariant.
THEOREM NextInv == IInv /\ [Next]_vars => IInv'
<1> SUFFICES ASSUME IInv, [Next]_vars PROVE IInv'
  OBVIOUS
<1>1. CASE UNCHANGED vars
  BY <1>1 DEF vars, task, actor, IInv, TypeOK, MessagesSay, ProbesUnconnected, EventsEndInDevice,
     BeliefHolds, ReadyIsConnected
<1>2. ASSUME NEW n \in Nodes, NodeChanges(n) PROVE IInv'
  BY <1>2, NodeChangesInv
<1>3. CASE Dies \/ Overflow
  BY <1>3, DiesInv, OverflowInv
<1>4. CASE StateReady \/ StateOther \/ Lagged
  BY <1>4, HearsInv
<1>5. CASE Probe \/ Open
  BY <1>5, ProbeInv, OpenInv
<1>6. CASE Tick \/ Ages \/ RetryDue
  BY <1>6, TimeInv
<1>7. CASE DeviceUp \/ DeviceDown \/ Lost
  BY <1>7, DeviceUpInv, DeviceDownInv, LostInv
<1> QED
  BY <1>1, <1>2, <1>3, <1>4, <1>5, <1>6, <1>7 DEF Next

\* With nothing left to hear, the task's belief is that of the actor, and the
\* actor shows as ready exactly what is connected.
LEMMA InvCoherent == IInv => ConnectionCoherent
  BY DEF IInv, ConnectionCoherent, NoFalseConnected, BeliefHolds, ReadyIsConnected

\* What the task believes, what the actor shows and the connection agree, for
\* any number of plugs, deaths and missed events and any size of the queue.
THEOREM AlwaysCoherent == Spec => []ConnectionCoherent
<1>1. Init => IInv
  BY InitInv
<1>2. IInv /\ [Next]_vars => IInv'
  BY NextInv
<1>3. IInv => ConnectionCoherent
  BY InvCoherent
<1> QED
  BY <1>1, <1>2, <1>3, PTL DEF Spec

-----------------------------------------------------------------------------
(* Updates, for any number of releases, calls, stops and installs by hand. *)

Memories == [check : BOOLEAN, etag : 0..latest, offered : 0..latest, skipped : Nat]

\* Every version that anything speaks of has come out.
Known ==
  /\ latest \in Nat \ {0} /\ image \in 1..latest /\ current \in 1..latest
  /\ memory \in Memories
  /\ calls \in [U!Tasks -> {U!Idle} \cup [at : {"asking", "save", "skip"}, memory : Memories]]

\* What is in the folders, and in which step a file is half.
Files ==
  /\ folder \in [U!Releases -> Nat]
  /\ \A r \in U!Releases : folder[r] \in {U!None, r, U!Half}
  /\ fetching # U!None => fetching \in U!Releases /\ folder[fetching] = U!Half
  /\ swap # U!None => /\ swap \in U!Releases /\ swap <= latest /\ folder[swap] = swap
                      /\ beside \in {U!Half, swap}
  /\ used.stops = 0 => \A r \in U!Releases : folder[r] = U!Half => fetching = r

Counted == used \in [calls : Nat, stops : Nat, installs : Nat]

UInv == Known /\ Files /\ Counted /\ latest <= Newest

LEMMA OfferKnown ==
  ASSUME UInv
  PROVE  LET r == U!ToOffer(memory)
         IN  r # U!None => r \in U!Releases /\ r <= latest
  BY NewestAssumption DEF UInv, Known, Memories, U!ToOffer, U!None, U!Releases

LEMMA UpdatesInit == U!Init => UInv
  BY NewestAssumption DEF U!Init, UInv, Known, Files, Counted, Memories, U!None, U!Half, U!Releases,
     U!Idle, U!Tasks

\* The file updates.toml, and the calls that read and write it.
LEMMA CallsInv ==
  ASSUME UInv, NEW t \in U!Tasks,
         \/ U!StartCheck(t) \/ U!Answered(t) \/ U!NotAnswered(t) \/ U!Save(t) \/ U!SetChecking
         \/ \E v \in U!Releases : U!Skip(v)
  PROVE  UInv'
<1>1. latest' = latest /\ current' = current /\ UNCHANGED U!files
  BY DEF U!StartCheck, U!Answered, U!NotAnswered, U!Save, U!SetChecking, U!Skip, U!versions
<1>2. Memories' = Memories /\ memory \in Memories
  BY <1>1 DEF Memories, UInv, Known
<1>3. Counted' /\ used'.stops = used.stops
  <2>1. used' = used \/ used' = [used EXCEPT !.calls = @ + 1]
    BY Zenon DEF U!StartCheck, U!Answered, U!NotAnswered, U!Save, U!SetChecking, U!Skip, U!Calls
  <2> QED
    BY <2>1 DEF UInv, Counted
<1> DEFINE Call == {U!Idle} \cup [at : {"asking", "save", "skip"}, memory : Memories]
<1>4. calls \in [U!Tasks -> Call]
  BY DEF UInv, Known
<1>5. \A c \in U!Tasks : calls[c].at \in {"asking", "save", "skip"} => calls[c].memory \in Memories
  BY <1>4 DEF U!Idle
<1>6. \A c \in U!Tasks, at \in {"asking", "save", "skip"}, m \in Memories :
        U!Goes(c, at, m) => calls' \in [U!Tasks -> Call]
  BY <1>4 DEF U!Goes
<1>7. memory' \in Memories /\ calls' \in [U!Tasks -> Call]
  <2>1. CASE U!StartCheck(t)
    BY <1>2, <1>6, <2>1 DEF U!StartCheck
  <2>2. CASE U!Answered(t)
    <3>1. calls[t].memory \in Memories
      BY <1>5, <2>2 DEF U!Answered
    <3>2. ASSUME NEW m \in Memories PROVE U!Answer(m) \in Memories
      <4>1. latest \in 0..latest /\ current \in 0..latest /\ 0 \in 0..latest
        BY DEF UInv, Known
      <4>2. ASSUME NEW o \in 0..latest PROVE [m EXCEPT !.etag = latest, !.offered = o] \in Memories
        BY <4>1 DEF Memories
      <4> QED
        BY <4>1, <4>2 DEF U!Answer, U!None
    <3> QED
      BY <1>2, <1>6, <2>2, <3>1, <3>2 DEF U!Answered
  <2>3. CASE U!NotAnswered(t)
    BY <1>2, <1>4, <2>3 DEF U!NotAnswered
  <2>4. CASE U!Save(t)
    BY <1>4, <1>5, <2>4 DEF U!Save
  <2>5. CASE U!SetChecking
    <3>1. [memory EXCEPT !.check = ~@] \in Memories
      BY <1>2 DEF Memories
    <3>2. "window" \in U!Tasks
      BY DEF U!Tasks
    <3> QED
      BY <1>2, <1>6, <2>5, <3>1, <3>2 DEF U!SetChecking
  <2>6. ASSUME NEW v \in U!Releases, U!Skip(v)
        PROVE  memory' \in Memories /\ calls' \in [U!Tasks -> Call]
    <3>1. [memory EXCEPT !.skipped = v] \in Memories
      BY <1>2, NewestAssumption DEF Memories, U!Releases
    <3>2. "window" \in U!Tasks
      BY DEF U!Tasks
    <3> QED
      BY <1>2, <1>6, <2>6, <3>1, <3>2 DEF U!Skip
  <2> QED
    BY <2>1, <2>2, <2>3, <2>4, <2>5, <2>6
<1>8. Known'
  BY <1>1, <1>2, <1>7 DEF UInv, Known, U!files
<1>9. Files'
  BY <1>1, <1>3 DEF UInv, Files, U!files
<1> QED
  BY <1>1, <1>3, <1>8, <1>9 DEF UInv

\* Downloads and the swap.
LEMMA FilesInv ==
  ASSUME UInv,
         \/ U!Download \/ U!Apply \/ U!Swapped
         \/ \E whole \in BOOLEAN : U!Arrived(whole) \/ U!Copied(whole)
  PROVE  UInv'
<1> USE NewestAssumption DEF U!None, U!Half, U!Releases
<1>1. Memories' = Memories /\ used' = used /\ UNCHANGED <<latest, current, memory, calls>>
  BY DEF U!Download, U!Apply, U!Swapped, U!Arrived, U!Copied, U!versions, Memories
<1>2. Files'
  <2>1. CASE U!Download
    BY <1>1, <2>1, OfferKnown DEF UInv, Files, U!Download
  <2>2. CASE U!Apply
    BY <1>1, <2>2, OfferKnown DEF UInv, Files, U!Apply
  <2>3. CASE U!Swapped
    BY <1>1, <2>3 DEF UInv, Files, U!Swapped
  <2>4. ASSUME NEW whole \in BOOLEAN, U!Arrived(whole) PROVE Files'
    BY <1>1, <2>4 DEF UInv, Files, U!Arrived
  <2>5. ASSUME NEW whole \in BOOLEAN, U!Copied(whole) PROVE Files'
    BY <1>1, <2>5 DEF UInv, Files, U!Copied
  <2> QED
    BY <2>1, <2>2, <2>3, <2>4, <2>5
<1>3. image' \in 1..latest
  BY DEF UInv, Known, Files, U!Download, U!Apply, U!Swapped, U!Arrived, U!Copied
<1> QED
  BY <1>1, <1>2, <1>3 DEF UInv, Known, Counted

\* A release comes out, the user installs one, the service restarts.
LEMMA WorldInv ==
  ASSUME UInv, U!Released \/ U!Restart \/ \E r \in U!Releases : U!InstallByHand(r)
  PROVE  UInv'
<1> USE NewestAssumption DEF U!None, U!Half, U!Releases
<1>1. CASE U!Released
  <2>1. Memories \subseteq Memories' /\ latest' = latest + 1 /\ latest \in Nat
    BY <1>1 DEF UInv, Known, U!Released, Memories
  <2> QED
    BY <1>1, <2>1 DEF UInv, Known, Files, Counted, U!Released, U!files
<1>2. CASE U!Restart
  <2>1. Memories' = Memories /\ current' = image
    BY <1>2 DEF U!Restart, Memories
  <2>2. used'.stops # 0 /\ Counted'
    BY <1>2 DEF UInv, Counted, U!Restart
  <2> QED
    BY <1>2, <2>1, <2>2 DEF UInv, Known, Files, U!Restart
<1>3. ASSUME NEW r \in U!Releases, U!InstallByHand(r) PROVE UInv'
  <2>1. Memories' = Memories
    BY <1>3 DEF U!InstallByHand, U!versions, Memories
  <2>2. Counted' /\ used'.stops = used.stops
    BY <1>3 DEF UInv, Counted, U!InstallByHand
  <2> QED
    BY <1>3, <2>1, <2>2 DEF UInv, Known, Files, U!InstallByHand, U!versions
<1> QED
  BY <1>1, <1>2, <1>3

LEMMA UpdatesNext == UInv /\ [U!Next]_(U!vars) => UInv'
<1> SUFFICES ASSUME UInv, [U!Next]_(U!vars) PROVE UInv'
  OBVIOUS
<1>1. CASE UNCHANGED U!vars
  BY <1>1 DEF U!vars, UInv, Known, Files, Counted, Memories
<1> "window" \in U!Tasks
  BY DEF U!Tasks
<1> QED
  BY <1>1, CallsInv, FilesInv, WorldInv DEF U!Next

\* The AppImage is a whole, released version at every moment, wherever a
\* download, a copy or the swap is broken off by a failure or a stop, and
\* whatever else the user puts there.
THEOREM AlwaysWhole == U!Spec => []ImageIsWhole
<1>1. UInv => ImageIsWhole
  BY DEF UInv, Known, Files, ImageIsWhole, U!ImageIsWhole
<1> QED
  BY <1>1, UpdatesInit, UpdatesNext, PTL DEF U!Spec

=============================================================================
