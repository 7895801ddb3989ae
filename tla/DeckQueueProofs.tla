--------------------------- MODULE DeckQueueProofs ---------------------------
(***************************************************************************)
(* What holds of the coalescing queue for any plugins, keys, values,       *)
(* channel capacity and number of messages.                                *)
(***************************************************************************)
EXTENDS DeckQueue, TLAPS

\* A message taken out of a well-typed queue is a message.
LEMMA MessageType ==
  ASSUME values \in View, NEW e \in Entries
  PROVE  Message(e) \in Msgs
BY NamesAssumption DEF Message, Msgs, Entries, View, Slots

\* Telling a view anything leaves it a view.
LEMMA TellsType ==
  ASSUME NEW view \in View, NEW m \in Msgs
  PROVE  Tells(view, m) \in View
BY DEF Tells, Without, View, Msgs, Entries, Slots

LEMMA WithoutType ==
  ASSUME NEW view \in View, NEW p \in Plugins
  PROVE  Without(view, p) \in View
BY DEF Without, View

LEMMA EmptyOrder ==
  ASSUME NEW f, NEW S, f = [i \in {} |-> Nothing]
  PROVE  DOMAIN f = {} /\ f \in [{} -> S]
OBVIOUS

LEMMA EmptyChannel == <<>> \in Seq(Msgs) /\ Len(<<>>) <= Capacity
<1>1. Len(<<>>) = 0 /\ 0 <= Capacity
  BY CapacityAssumption
<1>2. <<>> \in Seq(Msgs)
  OBVIOUS
<1> QED BY <1>1, <1>2

\* Every reachable state has the declared types.
THEOREM TypeCorrect == Spec => []TypeOK
<1>1. ASSUME Init PROVE TypeOK
  <2>1. DOMAIN order = {} /\ order \in [{} -> Entries]
    BY <1>1, EmptyOrder DEF Init
  <2>2. Blank \in View
    BY DEF Blank, View
  <2>3. next \in 0..MaxPushes /\ DOMAIN order \subseteq 0..(next - 1)
    BY <1>1, <2>1, PushesAssumption DEF Init
  <2> QED BY <1>1, <2>1, <2>2, <2>3, EmptyChannel DEF Init, TypeOK
<1>2. TypeOK /\ [Next]_vars => TypeOK'
  <2> SUFFICES ASSUME TypeOK, [Next]_vars PROVE TypeOK'
    OBVIOUS
  <2> USE PushesAssumption, CapacityAssumption DEF TypeOK
  <2>1. ASSUME NEW s \in Slots, NEW v \in Values, State(s, v) PROVE TypeOK'
    <3>1. s \in Entries
      BY DEF Slots, Entries
    <3>2. values' \in View /\ said' \in View
      BY <2>1 DEF State, View
    <3>3. CASE UNCHANGED <<order, next>>
      BY <2>1, <3>2, <3>3 DEF State
    <3>4. CASE next < MaxPushes /\ PushBack(s)
      <4>1. next' \in 0..MaxPushes /\ DOMAIN order' \subseteq 0..(next' - 1)
        BY <3>4 DEF PushBack
      <4>2. order' \in [DOMAIN order' -> Entries]
        BY <3>1, <3>4 DEF PushBack
      <4> QED BY <2>1, <3>2, <4>1, <4>2 DEF State
    <3> QED BY <2>1, <3>3, <3>4 DEF State
  <2>2. ASSUME NEW p \in Plugins, Cleared(p) PROVE TypeOK'
    <3>1. <<p, All>> \in Entries
      BY DEF Entries
    <3>2. values' \in View /\ said' \in View
      BY <2>2, WithoutType DEF Cleared
    <3>3. next' \in 0..MaxPushes /\ DOMAIN order' \subseteq 0..(next' - 1)
      BY <2>2 DEF Cleared
    <3>4. order' \in [DOMAIN order' -> Entries]
      BY <2>2, <3>1 DEF Cleared
    <3> QED BY <2>2, <3>2, <3>3, <3>4 DEF Cleared
  <2>3. CASE Close
    BY <2>3 DEF Close
  <2>4. CASE NotifyOne
    BY <2>4 DEF NotifyOne, pending
  <2>5. CASE Take
    <3>1. PICK i \in DOMAIN order :
            /\ order' = [j \in DOMAIN order \ {i} |-> order[j]]
            /\ values' = IF order[i][2] = All THEN values ELSE [values EXCEPT ![order[i]] = Unset]
            /\ sending' = Message(order[i])
            /\ taken' = Tells(taken, Message(order[i]))
      BY <2>5 DEF Take
    <3>2. order[i] \in Entries
      OBVIOUS
    <3>3. Message(order[i]) \in Msgs
      BY <3>2, MessageType
    <3>4. taken' \in View
      BY <3>1, <3>3, TellsType
    <3>5. values' \in View
      BY <3>1 DEF View
    <3>6. DOMAIN order' \subseteq 0..(next' - 1) /\ order' \in [DOMAIN order' -> Entries]
      BY <2>5, <3>1 DEF Take
    <3> QED BY <2>5, <3>1, <3>3, <3>4, <3>5, <3>6 DEF Take
  <2>6. CASE FoundEmpty
    BY <2>6 DEF FoundEmpty, pending
  <2>7. CASE Woken
    BY <2>7 DEF Woken, pending
  <2>8. CASE HandOver
    BY <2>8 DEF HandOver, pending
  <2>9. CASE HandOverFails
    BY <2>9 DEF HandOverFails, pending
  <2>10. CASE DeckHandles
    <3>1. Head(channel) \in Msgs /\ Tail(channel) \in Seq(Msgs) /\ Len(Tail(channel)) <= Capacity
      BY <2>10 DEF DeckHandles
    <3> QED BY <2>10, <3>1, TellsType DEF DeckHandles, pending
  <2>11. CASE DeckStops
    BY <2>11, EmptyChannel DEF DeckStops, pending
  <2>12. CASE UNCHANGED vars
    BY <2>12 DEF vars
  <2> QED
    BY <2>1, <2>2, <2>3, <2>4, <2>5, <2>6, <2>7, <2>8, <2>9, <2>10, <2>11, <2>12
       DEF Next, Sender, Task
<1> QED BY <1>1, <1>2, PTL DEF Spec

-----------------------------------------------------------------------------
\* The inductive invariant: where slots wait, and what the deck will have been
\* told once they are taken.
QueueInv == InOrder /\ LatestWins

\* A clear is no slot of a value, and no value is Unset.
LEMMA Kinds ==
  ASSUME NEW s \in Slots
  PROVE  s = <<s[1], s[2]>> /\ s[1] \in Plugins /\ s[2] \in Keys /\ s[2] # All
BY NamesAssumption DEF Slots

\* A new value keeps the order.
LEMMA StateKeeps ==
  ASSUME TypeOK, QueueInv, NEW s \in Slots, NEW v \in Values, State(s, v)
  PROVE  QueueInv'
<1> USE Kinds, NamesAssumption DEF TypeOK
<1>1. v # Unset
  OBVIOUS
<1>2. /\ values' = [values EXCEPT ![s] = v] /\ said' = [said EXCEPT ![s] = v]
      /\ taken' = taken
  BY DEF State
<1>3. CASE values[s] # Unset /\ UNCHANGED <<order, next>>
  <2>1. InOrder'
    BY <1>1, <1>2, <1>3 DEF QueueInv, InOrder, Queued, View
  <2>2. ASSUME NEW t \in Slots PROVE Outcome(t)' = said'[t]
    <3>1. Outcome(t) = said[t]
      BY DEF QueueInv, LatestWins
    <3>2. Queued(<<t[1], All>>)' <=> Queued(<<t[1], All>>)
      BY <1>3 DEF Queued
    <3> QED BY <1>1, <1>2, <3>1, <3>2 DEF Outcome, View
  <2> QED BY <2>1, <2>2 DEF QueueInv, LatestWins
<1>4. CASE values[s] = Unset /\ PushBack(s)
  <2>1. /\ DOMAIN order' = DOMAIN order \cup {next}
        /\ order'[next] = s
        /\ next \notin DOMAIN order
        /\ \A i \in DOMAIN order : order'[i] = order[i] /\ i < next
    BY <1>4 DEF PushBack
  <2>2. ~Queued(s)
    BY <1>4 DEF QueueInv, InOrder
  <2>3. ASSUME NEW e \in Entries PROVE Queued(e)' <=> Queued(e) \/ e = s
    BY <2>1 DEF Queued
  <2>4. InOrder'
    <3>1. \A i, j \in DOMAIN order' : order'[i] = order'[j] /\ order'[i] \in Slots => i = j
      BY <2>1, <2>2 DEF QueueInv, InOrder, Queued
    <3>2. \A t \in Slots : values'[t] # Unset <=> Queued(t)'
      <4> SUFFICES ASSUME NEW t \in Slots PROVE values'[t] # Unset <=> Queued(t)'
        OBVIOUS
      <4>1. t \in Entries
        BY DEF Slots, Entries
      <4>2. values[t] # Unset <=> Queued(t)
        BY DEF QueueInv, InOrder
      <4> QED BY <1>1, <1>2, <2>3, <4>1, <4>2 DEF View
    <3>3. ASSUME NEW i \in DOMAIN order', NEW j \in DOMAIN order',
                 order'[i][2] = All, order'[j][2] # All, order'[i][1] = order'[j][1]
          PROVE  i < j
      <4>1. i # next
        BY <2>1, <3>3
      <4> QED BY <2>1, <3>3, <4>1 DEF QueueInv, InOrder
    <3> QED BY <3>1, <3>2, <3>3 DEF InOrder
  <2>5. ASSUME NEW t \in Slots PROVE Outcome(t)' = said'[t]
    <3>1. Outcome(t) = said[t]
      BY DEF QueueInv, LatestWins
    <3>2. <<t[1], All>> \in Entries /\ <<t[1], All>> # s
      BY DEF Entries
    <3>3. Queued(<<t[1], All>>)' <=> Queued(<<t[1], All>>)
      BY <2>3, <3>2
    <3> QED BY <1>1, <1>2, <3>1, <3>3 DEF Outcome, View
  <2> QED BY <2>4, <2>5 DEF QueueInv, LatestWins
<1> QED BY <1>3, <1>4 DEF State

\* A clear wipes only what waits before it.
LEMMA ClearedKeeps ==
  ASSUME TypeOK, QueueInv, NEW p \in Plugins, Cleared(p)
  PROVE  QueueInv'
<1> USE Kinds, NamesAssumption DEF TypeOK
<1> DEFINE left == {i \in DOMAIN order : order[i] \notin {p} \X Keys}
<1>1. /\ DOMAIN order' = left \cup {next}
      /\ order'[next] = <<p, All>>
      /\ \A i \in left : order'[i] = order[i] /\ i < next
      /\ next \notin left
  BY DEF Cleared
<1>2. /\ values' = Without(values, p) /\ said' = Without(said, p) /\ taken' = taken
  BY DEF Cleared
<1>3. ASSUME NEW t \in Slots
      PROVE  /\ values'[t] = IF t[1] = p THEN Unset ELSE values[t]
             /\ said'[t] = IF t[1] = p THEN Unset ELSE said[t]
  BY <1>2 DEF Without
<1>4. ASSUME NEW t \in Slots PROVE Queued(t)' <=> Queued(t) /\ t[1] # p
  <2>1. t # <<p, All>>
    OBVIOUS
  <2>2. t \in {p} \X Keys <=> t[1] = p
    OBVIOUS
  <2> QED BY <1>1, <2>1, <2>2 DEF Queued
<1>5. ASSUME NEW q \in Plugins
      PROVE  Queued(<<q, All>>)' <=> Queued(<<q, All>>) \/ q = p
  <2>1. <<q, All>> \notin {p} \X Keys
    OBVIOUS
  <2> QED BY <1>1, <2>1, SMTT(30) DEF Queued
<1>6. InOrder'
  <2>1. \A i, j \in DOMAIN order' : order'[i] = order'[j] /\ order'[i] \in Slots => i = j
    BY <1>1 DEF QueueInv, InOrder
  <2>2. \A t \in Slots : values'[t] # Unset <=> Queued(t)'
    BY <1>3, <1>4 DEF QueueInv, InOrder
  <2>3. ASSUME NEW i \in DOMAIN order', NEW j \in DOMAIN order',
               order'[i][2] = All, order'[j][2] # All, order'[i][1] = order'[j][1]
        PROVE  i < j
    <3>1. j # next /\ j \in left /\ order[j] \in Entries
      BY <1>1, <2>3
    <3>2. order[j][1] # p
      BY <1>1, <2>3, <3>1 DEF Entries
    <3>3. i # next
      BY <1>1, <2>3, <3>1, <3>2
    <3> QED BY <1>1, <2>3, <3>1, <3>3 DEF QueueInv, InOrder
  <2> QED BY <2>1, <2>2, <2>3 DEF InOrder
<1>7. ASSUME NEW t \in Slots PROVE Outcome(t)' = said'[t]
  <2>1. Outcome(t) = said[t]
    BY DEF QueueInv, LatestWins
  <2> QED BY <1>2, <1>3, <1>5, <2>1 DEF Outcome
<1> QED BY <1>6, <1>7 DEF QueueInv, LatestWins

\* What is taken out of the front becomes part of what was taken.
LEMMA TakeKeeps ==
  ASSUME TypeOK, QueueInv, Take
  PROVE  QueueInv'
<1> USE Kinds, NamesAssumption DEF TypeOK
<1>1. PICK i \in DOMAIN order :
        /\ \A j \in DOMAIN order : i <= j
        /\ order' = [j \in DOMAIN order \ {i} |-> order[j]]
        /\ values' = IF order[i][2] = All THEN values ELSE [values EXCEPT ![order[i]] = Unset]
        /\ sending' = Message(order[i])
        /\ taken' = Tells(taken, Message(order[i]))
  BY DEF Take
<1>2. said' = said
  BY DEF Take
<1>3. order[i] \in Entries /\ order[i] = <<order[i][1], order[i][2]>> /\ order[i][1] \in Plugins
  BY DEF Entries
<1>4. CASE order[i][2] = All
  <2>1. values' = values /\ taken' = Without(taken, order[i][1])
    BY <1>1, <1>4 DEF Tells, Message
  <2>2. ASSUME NEW t \in Slots PROVE Queued(t)' <=> Queued(t)
    BY <1>1, <1>4 DEF Queued
  <2>3. InOrder'
    <3>1. \A t \in Slots : values'[t] # Unset <=> Queued(t)'
      BY <2>1, <2>2 DEF QueueInv, InOrder
    <3> QED BY <1>1, <3>1 DEF QueueInv, InOrder
  <2>4. ASSUME NEW t \in Slots PROVE Outcome(t)' = said'[t]
    <3>1. Outcome(t) = said[t]
      BY DEF QueueInv, LatestWins
    <3>2. taken'[t] = IF t[1] = order[i][1] THEN Unset ELSE taken[t]
      BY <2>1 DEF Without
    <3>3. CASE t[1] = order[i][1]
      <4>1. Queued(<<t[1], All>>)
        BY <1>3, <1>4, <3>3 DEF Queued
      <4> QED BY <1>2, <2>1, <3>1, <3>2, <3>3, <4>1 DEF Outcome
    <3>4. CASE t[1] # order[i][1]
      <4>1. Queued(<<t[1], All>>)' <=> Queued(<<t[1], All>>)
        BY <1>1, <3>4 DEF Queued
      <4> QED BY <1>2, <2>1, <3>1, <3>2, <3>4, <4>1 DEF Outcome
    <3> QED BY <3>3, <3>4
  <2> QED BY <2>3, <2>4 DEF QueueInv, LatestWins
<1>5. CASE order[i][2] # All
  <2> DEFINE s == order[i]
  <2>1. s \in Slots /\ Queued(s)
    BY <1>3, <1>5 DEF Entries, Slots, Queued
  <2>2. values[s] # Unset
    BY <2>1 DEF QueueInv, InOrder
  <2>3. values' = [values EXCEPT ![s] = Unset] /\ taken' = [taken EXCEPT ![s] = values[s]]
    BY <1>1, <1>5 DEF Tells, Message
  <2>4. values[s] = said[s]
    BY <2>1, <2>2 DEF QueueInv, LatestWins, Outcome
  <2>5. ~Queued(<<s[1], All>>)
    <3> SUFFICES ASSUME NEW j \in DOMAIN order, order[j] = <<s[1], All>> PROVE FALSE
      BY DEF Queued
    <3>1. j < i
      BY <1>5 DEF QueueInv, InOrder
    <3>2. i <= j /\ i \in Int /\ j \in Int
      BY <1>1
    <3> QED BY <3>1, <3>2
  <2>6. ASSUME NEW t \in Slots PROVE Queued(t)' <=> Queued(t) /\ t # s
    <3>1. \A j \in DOMAIN order : order[j] = s => j = i
      BY <2>1 DEF QueueInv, InOrder
    <3> QED BY <1>1, <3>1 DEF Queued
  <2>7. ASSUME NEW q \in Plugins PROVE Queued(<<q, All>>)' <=> Queued(<<q, All>>)
    <3>1. <<q, All>> # s
      BY <1>5
    <3> QED BY <1>1, <3>1 DEF Queued
  <2>8. InOrder'
    <3>1. \A t \in Slots : values'[t] # Unset <=> Queued(t)'
      <4> SUFFICES ASSUME NEW t \in Slots PROVE values'[t] # Unset <=> Queued(t)'
        OBVIOUS
      <4>1. values[t] # Unset <=> Queued(t)
        BY DEF QueueInv, InOrder
      <4>2. values'[t] = IF t = s THEN Unset ELSE values[t]
        BY <2>1, <2>3 DEF View
      <4> QED BY <2>6, <4>1, <4>2
    <3> QED BY <1>1, <3>1 DEF QueueInv, InOrder
  <2>9. ASSUME NEW t \in Slots PROVE Outcome(t)' = said'[t]
    <3>1. Outcome(t) = said[t]
      BY DEF QueueInv, LatestWins
    <3>2. Queued(<<t[1], All>>)' <=> Queued(<<t[1], All>>)
      BY <2>7
    <3>3. /\ values'[t] = IF t = s THEN Unset ELSE values[t]
          /\ taken'[t] = IF t = s THEN values[s] ELSE taken[t]
      BY <2>1, <2>3 DEF View
    <3> QED BY <1>2, <2>2, <2>4, <2>5, <3>1, <3>2, <3>3 DEF Outcome
  <2> QED BY <2>8, <2>9 DEF QueueInv, LatestWins
<1> QED BY <1>4, <1>5

\* The other steps leave the queue and its history alone.
LEMMA RestKeeps ==
  ASSUME QueueInv, UNCHANGED <<order, values, said, taken>>
  PROVE  QueueInv'
BY DEF QueueInv, InOrder, LatestWins, Outcome, Queued

\* Slots wait once, in order, behind their plugin's clears, and once the queue
\* is empty the deck has been told the latest of everything.
THEOREM QueueCorrect == Spec => [](InOrder /\ LatestWins)
<1>1. Init => QueueInv
  BY DEF Init, QueueInv, InOrder, LatestWins, Outcome, Queued, Blank
<1>2. TypeOK /\ QueueInv /\ [Next]_vars => QueueInv'
  <2> SUFFICES ASSUME TypeOK, QueueInv, [Next]_vars PROVE QueueInv'
    OBVIOUS
  <2>1. CASE \E s \in Slots, v \in Values : State(s, v)
    BY <2>1, StateKeeps
  <2>2. CASE \E p \in Plugins : Cleared(p)
    BY <2>2, ClearedKeeps
  <2>3. CASE Take
    BY <2>3, TakeKeeps
  <2>4. CASE Close \/ NotifyOne \/ FoundEmpty \/ Woken \/ HandOver \/ HandOverFails
             \/ DeckHandles \/ DeckStops \/ UNCHANGED vars
    BY <2>4, RestKeeps DEF Close, NotifyOne, FoundEmpty, Woken, HandOver,
       HandOverFails, DeckHandles, DeckStops, vars, pending
  <2> QED BY <2>1, <2>2, <2>3, <2>4 DEF Next, Sender, Task
<1>3. QueueInv => InOrder /\ LatestWins
  BY DEF QueueInv
<1> QED BY <1>1, <1>2, <1>3, TypeCorrect, PTL DEF Spec

-----------------------------------------------------------------------------
(* The queue implements PluginValues.                                      *)

Forgetting == {p \in Plugins : Queued(<<p, All>>)}
mapped == <<said, taken, Forgetting>>

\* Slots of a value are no clears: queueing or taking one leaves Forgetting.
LEMMA SameForgetting ==
  ASSUME TypeOK,
         \A q \in Plugins : Queued(<<q, All>>)' <=> Queued(<<q, All>>)
  PROVE  Forgetting' = Forgetting
BY DEF Forgetting

LEMMA StateMaps ==
  ASSUME TypeOK, NEW s \in Slots, NEW v \in Values, State(s, v)
  PROVE  Promise!Say(s, v)
<1>1. ASSUME NEW q \in Plugins PROVE Queued(<<q, All>>)' <=> Queued(<<q, All>>)
  <2>1. <<q, All>> # s
    BY Kinds
  <2>2. CASE UNCHANGED order
    BY <2>2 DEF Queued
  <2>3. CASE PushBack(s)
    <3>1. next \notin DOMAIN order
      BY DEF TypeOK
    <3> QED BY <2>1, <2>3, <3>1 DEF PushBack, Queued
  <2> QED BY <2>2, <2>3 DEF State
<1> QED BY <1>1, SameForgetting DEF State, Promise!Say, Forgetting

LEMMA ClearedMaps ==
  ASSUME TypeOK, NEW p \in Plugins, Cleared(p)
  PROVE  Promise!Clear(p)
<1> DEFINE left == {i \in DOMAIN order : order[i] \notin {p} \X Keys}
<1>1. /\ DOMAIN order' = left \cup {next}
      /\ order'[next] = <<p, All>>
      /\ \A i \in left : order'[i] = order[i]
  BY DEF Cleared, TypeOK
<1>2. ASSUME NEW q \in Plugins
      PROVE  Queued(<<q, All>>)' <=> Queued(<<q, All>>) \/ q = p
  <2>1. <<q, All>> \notin {p} \X Keys
    BY NamesAssumption
  <2> QED BY <1>1, <2>1 DEF Queued
<1>3. Forgetting' = Forgetting \cup {p}
  BY <1>2 DEF Forgetting
<1>4. said' = Promise!Without(said, p)
  BY DEF Cleared, Without, Promise!Without, Slots, Promise!Slots
<1> QED BY <1>3, <1>4 DEF Cleared, Promise!Clear, Forgetting

LEMMA OneLess ==
  ASSUME NEW S, NEW A \in SUBSET S, NEW B \in SUBSET S, NEW p \in A,
         \A q \in S : q # p => (q \in B <=> q \in A)
  PROVE  B \in {A, A \ {p}}
<1>1. CASE p \in B
  <2>1. B = A
    BY <1>1
  <2> QED BY <2>1
<1>2. CASE p \notin B
  <2>1. B = A \ {p}
    BY <1>2
  <2> QED BY <2>1
<1> QED BY <1>1, <1>2

LEMMA TakeMaps ==
  ASSUME TypeOK, QueueInv, Take
  PROVE  \/ \E s \in Slots : Promise!Show(s)
         \/ \E p \in Plugins : Promise!Forget(p)
<1> USE DEF TypeOK
<1>1. PICK i \in DOMAIN order :
        /\ \A j \in DOMAIN order : i <= j
        /\ order' = [j \in DOMAIN order \ {i} |-> order[j]]
        /\ taken' = Tells(taken, Message(order[i]))
  BY DEF Take
<1>2. said' = said
  BY DEF Take
<1>3. order[i] \in Entries /\ order[i] = <<order[i][1], order[i][2]>> /\ order[i][1] \in Plugins
  BY DEF Entries
<1>4. CASE order[i][2] = All
  <2> DEFINE p == order[i][1]
  <2>1. taken' = Promise!Without(taken, p)
    BY <1>1, <1>4 DEF Tells, Message, Without, Promise!Without, Slots, Promise!Slots
  <2>2. p \in Forgetting
    BY <1>3, <1>4 DEF Forgetting, Queued
  <2>3. ASSUME NEW q \in Plugins, q # p PROVE Queued(<<q, All>>)' <=> Queued(<<q, All>>)
    BY <1>1, <2>3 DEF Queued
  <2>4. Forgetting' \in {Forgetting, Forgetting \ {p}}
    <3>1. \A q \in Plugins : q # p => (q \in Forgetting' <=> q \in Forgetting)
      BY <2>3 DEF Forgetting
    <3>2. Forgetting \in SUBSET Plugins /\ Forgetting' \in SUBSET Plugins
      BY DEF Forgetting
    <3> HIDE DEF p
    <3> QED BY <2>2, <3>1, <3>2, OneLess
  <2>5. Promise!Forget(p)
    BY <1>2, <2>1, <2>2, <2>4 DEF Promise!Forget, Forgetting
  <2> QED BY <1>3, <2>5
<1>5. CASE order[i][2] # All
  <2> DEFINE s == order[i]
  <2>1. s \in Slots /\ Queued(s)
    BY <1>3, <1>5 DEF Entries, Slots, Queued
  <2>2. values[s] # Unset
    BY <2>1 DEF QueueInv, InOrder
  <2>3. values[s] = said[s]
    BY <2>1, <2>2 DEF QueueInv, LatestWins, Outcome
  <2>4. taken' = [taken EXCEPT ![s] = said[s]]
    BY <1>1, <1>5, <2>3 DEF Tells, Message
  <2>5. s[1] \notin Forgetting
    <3> SUFFICES ASSUME NEW j \in DOMAIN order, order[j] = <<s[1], All>> PROVE FALSE
      BY DEF Forgetting, Queued
    <3>1. j < i
      BY <1>5 DEF QueueInv, InOrder
    <3>2. i <= j /\ i \in Int /\ j \in Int
      BY <1>1
    <3> QED BY <3>1, <3>2
  <2>6. ASSUME NEW q \in Plugins PROVE Queued(<<q, All>>)' <=> Queued(<<q, All>>)
    <3>1. <<q, All>> # s
      BY <1>5
    <3> QED BY <1>1, <3>1 DEF Queued
  <2>7. Promise!Show(s)
    BY <1>2, <2>2, <2>3, <2>4, <2>5, <2>6, SameForgetting DEF Promise!Show, Forgetting
  <2> QED BY <2>1, <2>7
<1> QED BY <1>4, <1>5

\* The queue keeps the promise of PluginValues: the deck may be told fewer
\* values than were said, but only the latest, and none from before a clear
\* after one from after it.
THEOREM QueueImplementsPluginValues == Spec => ImplementsPluginValues
<1>1. Init => Promise!Init
  BY DEF Init, Promise!Init, Blank, Promise!Blank, Slots, Promise!Slots, Queued
<1>2. TypeOK /\ QueueInv /\ [Next]_vars => [Promise!Next]_mapped
  <2> SUFFICES ASSUME TypeOK, QueueInv, [Next]_vars PROVE [Promise!Next]_mapped
    OBVIOUS
  <2> USE DEF Slots, Promise!Slots
  <2>1. CASE \E s \in Slots, v \in Values : State(s, v)
    BY <2>1, StateMaps DEF Promise!Next
  <2>2. CASE \E p \in Plugins : Cleared(p)
    BY <2>2, ClearedMaps DEF Promise!Next
  <2>3. CASE Take
    BY <2>3, TakeMaps DEF Promise!Next
  <2>4. CASE Close \/ NotifyOne \/ FoundEmpty \/ Woken \/ HandOver \/ HandOverFails
             \/ DeckHandles \/ DeckStops \/ UNCHANGED vars
    <3>1. UNCHANGED <<order, said, taken>>
      BY <2>4 DEF Close, NotifyOne, FoundEmpty, Woken, HandOver, HandOverFails,
         DeckHandles, DeckStops, vars, pending
    <3> QED BY <3>1 DEF mapped, Forgetting, Queued
  <2> QED BY <2>1, <2>2, <2>3, <2>4 DEF Next, Sender, Task
<1>3. Spec => []QueueInv
  BY QueueCorrect, PTL DEF QueueInv
<1> QED
  BY <1>1, <1>2, <1>3, TypeCorrect, PTL
     DEF Spec, ImplementsPluginValues, Promise!Spec, mapped, Forgetting

=============================================================================
