-------------------------- MODULE DeckInputProofs --------------------------
(***************************************************************************)
(* Proofs about DeckInput, for any controls, pages and bindings; about     *)
(* DeckNav, for any profiles; and about SmallScreen, for any screens.      *)
(*                                                                         *)
(* In DeckInput two facts make the properties inductive: a press that may  *)
(* still become a gesture has not been one yet, and a finger that woke the *)
(* deck has an entry in `swallowed` for as long as it is down.  In DeckNav *)
(* the profile that automatic switching left is the one the user chose,    *)
(* unless it is gone.  In SmallScreen every drawing makes shown, music and *)
(* screen agree anew, and a look at the timer only tells that its time has *)
(* run out.                                                                *)
(***************************************************************************)
EXTENDS MCDeckInput, SequenceTheorems, WellFoundedInduction, TLAPS

Ungestured == \A c \in Controls : press[c] \in {"tap", "hold", "due"} => ran[c] = 0
Swallows == \A c \in woke \cap finger : swallowed[c] > 0

IInv ==
  /\ TypeOK
  /\ OneGesturePerPress
  /\ Ungestured
  /\ RunHasItsRelease
  /\ Swallows

\* What dispatch may change has the declared types, and no run begins to wait.
LEMMA DispatchType ==
  ASSUME TypeOK, NEW c \in Controls, NEW a \in Actions, Dispatch(c, a)
  PROVE  page' \in Pages /\ asleep' \in BOOLEAN /\ waiting' \subseteq waiting
  BY DEF TypeOK, Dispatch

LEMMA BindingType ==
  ASSUME TypeOK, NEW c \in Controls
  PROVE  On[page][c].tap \in Actions /\ On[page][c].hold \in Actions /\ On[page][c].turn \in Actions
  BY OnAssumption DEF TypeOK, Binding

\* Counting up below the bound, and down above zero, stays in range.
LEMMA Counts ==
  ASSUME NEW n \in 0..MaxStale
  PROVE  /\ n < MaxStale => n + 1 \in 0..MaxStale
         /\ n > 0 => n - 1 \in 0..MaxStale
  BY StaleAssumption

\* The initial states satisfy the invariant.
THEOREM InitInv == Init => IInv
<1> SUFFICES ASSUME Init PROVE IInv
  OBVIOUS
<1> 0 \in 0..MaxStale /\ 0 \in Nat /\ 0 <= 1
  BY StaleAssumption
<1> \A c \in Controls : ran[c] = 0
  BY DEF Init
<1>1. TypeOK
  BY DEF Init, Tracked, TypeOK
<1>2. OneGesturePerPress
  BY DEF OneGesturePerPress
<1>3. Ungestured
  BY StaleAssumption DEF Init, TypeOK, Ungestured
<1>4. RunHasItsRelease
  BY StaleAssumption DEF Init, TypeOK, RunHasItsRelease
<1>5. Swallows
  BY StaleAssumption DEF Init, TypeOK, Swallows
<1> QED
  BY <1>1, <1>2, <1>3, <1>4, <1>5 DEF IInv

LEMMA PressInv ==
  ASSUME IInv, NEW c \in Controls, Press(c)
  PROVE  IInv'
<1>1. CASE PressWakes(c)
  <2> swallowed[c] \in 0..MaxStale /\ swallowed[c] + 1 \in 0..MaxStale
    BY <1>1, Counts DEF PressWakes, WakeUp, IInv, TypeOK
  <2>1. TypeOK'
    BY <1>1, StaleAssumption DEF IInv, Press, Down, PressWakes, WakeUp, Tracked, TypeOK
  <2>2. OneGesturePerPress'
    BY <1>1, StaleAssumption DEF IInv, Press, Down, PressWakes, WakeUp, TypeOK, OneGesturePerPress, Ungestured
  <2>3. Ungestured'
    BY <1>1, StaleAssumption DEF IInv, Press, Down, PressWakes, WakeUp, TypeOK, Ungestured
  <2>4. RunHasItsRelease'
    BY <1>1, StaleAssumption DEF IInv, Press, Down, PressWakes, WakeUp, TypeOK, RunHasItsRelease
  <2>5. Swallows'
    BY <1>1, StaleAssumption DEF IInv, Press, Down, PressWakes, WakeUp, TypeOK, Swallows
  <2> QED
    BY <2>1, <2>2, <2>3, <2>4, <2>5 DEF IInv
<1>2. CASE PressStartsMacro(c)
  <2> macro_down[c] \in 0..MaxStale /\ macro_down[c] + 1 \in 0..MaxStale
    BY <1>2, Counts DEF PressStartsMacro, IInv, TypeOK
  <2>1. TypeOK'
    BY <1>2, StaleAssumption DEF IInv, Press, Down, PressStartsMacro, Tracked, TypeOK
  <2>2. OneGesturePerPress'
    BY <1>2, StaleAssumption DEF IInv, Press, Down, PressStartsMacro, TypeOK, OneGesturePerPress, Ungestured
  <2>3. Ungestured'
    BY <1>2, StaleAssumption DEF IInv, Press, Down, PressStartsMacro, TypeOK, Ungestured
  <2>4. RunHasItsRelease'
    BY <1>2, StaleAssumption DEF IInv, Press, Down, PressStartsMacro, TypeOK, RunHasItsRelease
  <2>5. Swallows'
    BY <1>2, StaleAssumption DEF IInv, Press, Down, PressStartsMacro, TypeOK, Swallows
  <2> QED
    BY <2>1, <2>2, <2>3, <2>4, <2>5 DEF IInv
<1>3. CASE PressTracks(c)
  <2>1. TypeOK'
    BY <1>3, StaleAssumption DEF IInv, Press, Down, PressTracks, Tracked, TypeOK
  <2>2. OneGesturePerPress'
    BY <1>3, StaleAssumption DEF IInv, Press, Down, PressTracks, TypeOK, OneGesturePerPress, Ungestured
  <2>3. Ungestured'
    BY <1>3, StaleAssumption DEF IInv, Press, Down, PressTracks, TypeOK, Ungestured
  <2>4. RunHasItsRelease'
    BY <1>3, StaleAssumption DEF IInv, Press, Down, PressTracks, TypeOK, RunHasItsRelease
  <2>5. Swallows'
    BY <1>3, StaleAssumption DEF IInv, Press, Down, PressTracks, TypeOK, Swallows
  <2> QED
    BY <2>1, <2>2, <2>3, <2>4, <2>5 DEF IInv
<1> QED
  BY <1>1, <1>2, <1>3 DEF Press

LEMMA ReleaseInv ==
  ASSUME IInv, NEW c \in Controls, Release(c)
  PROVE  IInv'
<1>1. CASE ReleaseEndsMacro(c)
  <2> macro_down[c] \in 0..MaxStale /\ macro_down[c] - 1 \in 0..MaxStale
    BY <1>1, Counts DEF ReleaseEndsMacro, IInv, TypeOK
  <2>1. TypeOK'
    BY <1>1, StaleAssumption DEF IInv, Release, Up, ReleaseEndsMacro, Tracked, TypeOK
  <2>2. OneGesturePerPress'
    BY <1>1, StaleAssumption DEF IInv, Release, Up, ReleaseEndsMacro, TypeOK, OneGesturePerPress, Ungestured
  <2>3. Ungestured'
    BY <1>1, StaleAssumption DEF IInv, Release, Up, ReleaseEndsMacro, TypeOK, Ungestured
  <2>4. RunHasItsRelease'
    BY <1>1, StaleAssumption DEF IInv, Release, Up, ReleaseEndsMacro, TypeOK, RunHasItsRelease
  <2>5. Swallows'
    BY <1>1, StaleAssumption DEF IInv, Release, Up, ReleaseEndsMacro, TypeOK, Swallows
  <2> QED
    BY <2>1, <2>2, <2>3, <2>4, <2>5 DEF IInv
<1>2. CASE ReleaseWakes(c)
  <2>1. TypeOK'
    BY <1>2, StaleAssumption DEF IInv, Release, Up, ReleaseWakes, Tracked, TypeOK
  <2>2. OneGesturePerPress'
    BY <1>2, StaleAssumption DEF IInv, Release, Up, ReleaseWakes, TypeOK, OneGesturePerPress, Ungestured
  <2>3. Ungestured'
    BY <1>2, StaleAssumption DEF IInv, Release, Up, ReleaseWakes, TypeOK, Ungestured
  <2>4. RunHasItsRelease'
    BY <1>2, StaleAssumption DEF IInv, Release, Up, ReleaseWakes, TypeOK, RunHasItsRelease
  <2>5. Swallows'
    BY <1>2, StaleAssumption DEF IInv, Release, Up, ReleaseWakes, TypeOK, Swallows
  <2> QED
    BY <2>1, <2>2, <2>3, <2>4, <2>5 DEF IInv
<1>3. CASE ReleaseSwallowed(c)
  <2> swallowed[c] \in 0..MaxStale /\ swallowed[c] - 1 \in 0..MaxStale
    BY <1>3, Counts DEF ReleaseSwallowed, IInv, TypeOK
  <2>1. TypeOK'
    BY <1>3, StaleAssumption DEF IInv, Release, Up, ReleaseSwallowed, Tracked, TypeOK
  <2>2. OneGesturePerPress'
    BY <1>3, StaleAssumption DEF IInv, Release, Up, ReleaseSwallowed, TypeOK, OneGesturePerPress, Ungestured
  <2>3. Ungestured'
    BY <1>3, StaleAssumption DEF IInv, Release, Up, ReleaseSwallowed, TypeOK, Ungestured
  <2>4. RunHasItsRelease'
    BY <1>3, StaleAssumption DEF IInv, Release, Up, ReleaseSwallowed, TypeOK, RunHasItsRelease
  <2>5. Swallows'
    BY <1>3, StaleAssumption DEF IInv, Release, Up, ReleaseSwallowed, TypeOK, Swallows
  <2> QED
    BY <2>1, <2>2, <2>3, <2>4, <2>5 DEF IInv
<1>4. CASE ReleaseGesture(c) /\ press[c] \in {"no", "fired"}
  <2>1. TypeOK'
    BY <1>4, StaleAssumption DEF IInv, Release, Up, ReleaseGesture, OnRelease, Tracked, TypeOK
  <2>2. OneGesturePerPress'
    BY <1>4, StaleAssumption DEF IInv, Release, Up, ReleaseGesture, OnRelease, TypeOK, OneGesturePerPress, Ungestured
  <2>3. Ungestured'
    BY <1>4, StaleAssumption DEF IInv, Release, Up, ReleaseGesture, OnRelease, TypeOK, Ungestured
  <2>4. RunHasItsRelease'
    BY <1>4, StaleAssumption DEF IInv, Release, Up, ReleaseGesture, OnRelease, TypeOK, RunHasItsRelease
  <2>5. Swallows'
    BY <1>4, StaleAssumption DEF IInv, Release, Up, ReleaseGesture, OnRelease, TypeOK, Swallows
  <2> QED
    BY <2>1, <2>2, <2>3, <2>4, <2>5 DEF IInv
<1>5. CASE ReleaseGesture(c) /\ press[c] \in {"tap", "hold", "due"}
  <2> page' \in Pages /\ asleep' \in BOOLEAN /\ waiting' \subseteq waiting
    BY <1>5, DispatchType, BindingType DEF ReleaseGesture, OnRelease, Tap, Hold, IInv
  <2> ran[c] = 0 /\ ran' = [ran EXCEPT ![c] = 1]
    BY <1>5 DEF ReleaseGesture, OnRelease, Counted, IInv, Ungestured, TypeOK
  <2>1. TypeOK'
    BY <1>5 DEF IInv, Release, Up, ReleaseGesture, Tracked, TypeOK
  <2>2. OneGesturePerPress'
    BY <1>5 DEF IInv, Release, Up, ReleaseGesture, TypeOK, OneGesturePerPress, Ungestured
  <2>3. Ungestured'
    BY <1>5 DEF IInv, Release, Up, ReleaseGesture, TypeOK, Ungestured
  <2>4. RunHasItsRelease'
    BY <1>5 DEF IInv, Release, Up, ReleaseGesture, TypeOK, RunHasItsRelease
  <2>5. Swallows'
    BY <1>5 DEF IInv, Release, Up, ReleaseGesture, TypeOK, Swallows
  <2> QED
    BY <2>1, <2>2, <2>3, <2>4, <2>5 DEF IInv
<1> QED
  BY <1>1, <1>2, <1>3, <1>4, <1>5 DEF Release, ReleaseGesture, IInv, TypeOK, Tracked

LEMMA HoldDueInv ==
  ASSUME IInv, NEW c \in Controls, HoldDue(c)
  PROVE  IInv'
<1>1. page' \in Pages /\ asleep' \in BOOLEAN /\ waiting' \subseteq waiting
  BY DispatchType, BindingType DEF HoldDue, Hold, IInv
<1>2. ran[c] = 0
  BY DEF IInv, Ungestured, HoldDue
<1> QED
  BY <1>1, <1>2
  DEF HoldDue, Counted, IInv, TypeOK, OneGesturePerPress, Ungestured, RunHasItsRelease,
      Swallows, Tracked

LEMMA TurnInv ==
  ASSUME IInv, NEW c \in Dials, Turn(c)
  PROVE  IInv'
<1>1. page' \in Pages /\ asleep' \in BOOLEAN /\ waiting' \subseteq waiting
  <2>1. CASE asleep /\ asleep' = FALSE /\ UNCHANGED <<page, waiting>>
    BY <2>1 DEF IInv, TypeOK
  <2>2. CASE ~asleep /\ Dispatch(c, On[page][c].turn)
    BY <2>2, DispatchType, BindingType, DialsAssumption DEF IInv
  <2> QED
    BY <2>1, <2>2 DEF Turn
<1> QED
  BY <1>1
  DEF Turn, history, IInv, TypeOK, OneGesturePerPress, Ungestured, RunHasItsRelease, Swallows

\* Every step keeps the invariant.
THEOREM NextInv == IInv /\ [Next]_vars => IInv'
<1> SUFFICES ASSUME IInv, [Next]_vars PROVE IInv'
  OBVIOUS
<1> USE DEF history
<1>1. ASSUME NEW c \in Controls, Unseen(c) PROVE IInv'
  BY <1>1
  DEF Unseen, Down, Up, IInv, TypeOK, OneGesturePerPress, Ungestured, RunHasItsRelease, Swallows
<1>2. ASSUME NEW c \in Controls, Press(c) PROVE IInv'
  BY <1>2, PressInv
<1>3. ASSUME NEW c \in Controls, Release(c) PROVE IInv'
  BY <1>3, ReleaseInv
<1>4. ASSUME NEW c \in Controls, Threshold(c) PROVE IInv'
  BY <1>4
  DEF Threshold, IInv, TypeOK, OneGesturePerPress, Ungestured, RunHasItsRelease, Swallows, Tracked
<1>5. ASSUME NEW c \in Controls, HoldDue(c) PROVE IInv'
  BY <1>5, HoldDueInv
<1>6. ASSUME NEW c \in Controls, RunEnds(c) PROVE IInv'
  BY <1>6
  DEF RunEnds, IInv, TypeOK, OneGesturePerPress, Ungestured, RunHasItsRelease, Swallows
<1>7. ASSUME NEW c \in Dials, Turn(c) PROVE IInv'
  BY <1>7, TurnInv
<1> USE DEF IInv, TypeOK, OneGesturePerPress, Ungestured, RunHasItsRelease, Swallows
<1>8. CASE Quiet \/ Tick
  BY <1>8 DEF Quiet, Tick
<1>9. CASE Internal
  BY <1>9 DEF Internal
<1>10. CASE Settings
  BY <1>10 DEF Settings, Tracked
<1>11. CASE DeviceUp
  BY <1>11 DEF DeviceUp
<1>12. CASE Disconnect
  <2> 0 \in 0..MaxStale
    BY StaleAssumption
  <2> QED
    BY <1>12 DEF Disconnect
<1>13. CASE UNCHANGED vars
  BY <1>13 DEF vars
<1> QED
  BY <1>1, <1>2, <1>3, <1>4, <1>5, <1>6, <1>7, <1>8, <1>9, <1>10, <1>11, <1>12, <1>13 DEF Next

\* The inductive invariant holds in every reachable state.
THEOREM InvHolds == Spec => []IInv
  BY InitInv, NextInv, PTL DEF Spec

\* Every reachable state has the declared types.
THEOREM TypeCorrect == Spec => []TypeOK
<1>1. IInv => TypeOK
  BY DEF IInv
<1> QED
  BY <1>1, InvHolds, PTL

\* One press is never two gestures.
THEOREM OneGesture == Spec => []OneGesturePerPress
<1>1. IInv => OneGesturePerPress
  BY DEF IInv
<1> QED
  BY <1>1, InvHolds, PTL

\* A macro that waits for its key's release has it coming.
THEOREM ReleaseComes == Spec => []RunHasItsRelease
<1>1. IInv => RunHasItsRelease
  BY DEF IInv
<1> QED
  BY <1>1, InvHolds, PTL

\* The deck never falls asleep by itself under a macro that waits for its key.
THEOREM AwakeUnderMacro == Spec => NoSleepUnderMacro
<1>1. IInv /\ [Next]_vars => [Tick => waiting = {}]_vars
  BY DEF IInv, TypeOK, RunHasItsRelease, Tick
<1> QED
  BY <1>1, InvHolds, PTL DEF Spec, NoSleepUnderMacro

\* The release of a press that woke the deck is never a gesture.
THEOREM WakingPressOnlyWakes == Spec => WakingPressIsNoTap
<1> DEFINE Silent ==
      \A c \in Controls :
        c \in woke \cap finger /\ c \notin finger' /\ transport => ran'[c] = ran[c]
<1>1. ASSUME IInv, Next PROVE Silent
  <2> SUFFICES ASSUME NEW c \in Controls, c \in woke \cap finger, c \notin finger', transport
               PROVE  ran'[c] = ran[c]
    OBVIOUS
  <2>1. swallowed[c] > 0
    BY <1>1 DEF IInv, Swallows
  <2>2. CASE Release(c)
    BY <2>1, <2>2, <1>1
    DEF Release, ReleaseEndsMacro, ReleaseWakes, ReleaseSwallowed, ReleaseGesture, IInv, TypeOK
  <2>3. CASE DeviceUp
    BY <2>3 DEF DeviceUp, history
  <2>4. Release(c) \/ DeviceUp
    BY <1>1
    DEF Next, Unseen, Down, Up, Press, Release, Threshold, HoldDue, RunEnds, Turn, Quiet, Tick,
        Internal, Settings, Disconnect
  <2> QED
    BY <2>2, <2>3, <2>4
<1>2. IInv /\ [Next]_vars => [Silent]_vars
  BY <1>1
<1> QED
  BY <1>2, InvHolds, PTL DEF Spec, WakingPressIsNoTap

-----------------------------------------------------------------------------
(* DeckNav: what the deck refers to by position is there, and the profile  *)
(* to go back to is the user's.                                            *)

Placed ==
  /\ active \in DOMAIN profiles
  /\ place \in DOMAIN N!Shown
  /\ stack \in Seq(Nat)
  /\ \A k \in DOMAIN stack : stack[k] \in DOMAIN N!Shown

Unique == \A i, j \in DOMAIN profiles : profiles[i].id = profiles[j].id => i = j

\* The profile automatic switching left is the one the user chose; without
\* one, the user chose what is shown.
ChosenKept ==
  restored \/ auto_from = chosen \/ (auto_from \notin N!Present /\ chosen = N!Current)

NavInv == N!TypeOK /\ Placed /\ Unique /\ ChosenKept

\* What is there has an id of its own, and a page at least.
LEMMA Entries ==
  ASSUME N!TypeOK, NEW i \in DOMAIN profiles
  PROVE  /\ profiles[i] \in N!Profile
         /\ profiles[i].id \in Ids /\ profiles[i].id \in N!Present
         /\ profiles[i].pages \in Seq(N!Kinds)
         /\ 1 \in DOMAIN profiles[i].pages
<1>1. profiles[i] \in N!Profile
  BY ElementOfSeq, LenProperties DEF N!TypeOK
<1>2. profiles[i].pages \in Seq(N!Kinds) /\ profiles[i].pages # <<>>
  BY <1>1, NavAssumption DEF N!Profile
<1>3. 1 \in DOMAIN profiles[i].pages
  BY <1>2, EmptySeq, LenProperties
<1> QED
  BY <1>1, <1>2, <1>3 DEF N!Profile, N!Present

LEMMA AtIs ==
  ASSUME NEW id \in N!Present
  PROVE  N!At(id) \in DOMAIN profiles /\ profiles[N!At(id)].id = id
  BY DEF N!Present, N!At

\* Without one of them, in the same order.
LEMMA Removed ==
  ASSUME NEW E, NEW s \in Seq(E), NEW i \in 1..Len(s)
  PROVE  /\ N!RemoveAt(s, i) \in Seq(E)
         /\ Len(N!RemoveAt(s, i)) = Len(s) - 1
         /\ \A k \in 1..Len(s) - 1 :
              N!RemoveAt(s, i)[k] = IF k < i THEN s[k] ELSE s[k + 1]
<1> DEFINE l == SubSeq(s, 1, i - 1)
           r == SubSeq(s, i + 1, Len(s))
<1>0. Len(s) \in Nat
  BY LenProperties
<1>1. l \in Seq(E) /\ Len(l) = i - 1 /\ \A k \in 1..i - 1 : l[k] = s[k]
  BY <1>0, SubSeqProperties
<1>2. r \in Seq(E) /\ Len(r) = Len(s) - i /\ \A k \in 1..Len(s) - i : r[k] = s[k + i]
  BY <1>0, SubSeqProperties
<1> HIDE DEF l, r
<1>3. N!RemoveAt(s, i) = l \o r
  BY DEF N!RemoveAt, l, r
<1>4. /\ l \o r \in Seq(E) /\ Len(l \o r) = Len(s) - 1
      /\ \A k \in 1..Len(s) - 1 : (l \o r)[k] = IF k <= i - 1 THEN l[k] ELSE r[k - (i - 1)]
  <2>1. /\ l \o r \in Seq(E) /\ Len(l \o r) = Len(l) + Len(r)
        /\ \A k \in 1..Len(l) + Len(r) : (l \o r)[k] = IF k <= Len(l) THEN l[k] ELSE r[k - Len(l)]
    BY <1>1, <1>2, ConcatProperties
  <2>2. Len(l) = i - 1 /\ Len(l) + Len(r) = Len(s) - 1
    BY <1>0, <1>1, <1>2
  <2> QED
    BY <2>1, <2>2
<1>5. ASSUME NEW k \in 1..Len(s) - 1
      PROVE  (l \o r)[k] = IF k < i THEN s[k] ELSE s[k + 1]
  <2>1. CASE k < i
    BY <1>0, <1>1, <1>4, <2>1
  <2>2. CASE ~(k < i)
    <3>1. k - (i - 1) \in 1..Len(s) - i /\ k - (i - 1) + i = k + 1
      BY <1>0, <2>2
    <3> QED
      BY <1>0, <1>2, <1>4, <2>2, <3>1
  <2> QED
    BY <2>1, <2>2
<1> QED
  BY <1>3, <1>4, <1>5

\* A set of positions has a first.
LEMMA Least ==
  ASSUME NEW E, E \subseteq Nat, E # {}
  PROVE  \E i \in E : \A j \in E : i <= j
<1> DEFINE R == OpToRel(<, Nat)
<1>1. \E i \in E : \A j \in E : ~ (<<j, i>> \in R)
  <2>1. IsWellFoundedOn(R, Nat)
    BY NatLessThanWellFounded
  <2> HIDE DEF R
  <2> QED
    BY <2>1, WFMin
<1>2. \A i, j \in Nat : j < i => <<j, i>> \in R
  BY DEF OpToRel
<1> HIDE DEF R
<1>3. \E r : /\ \E i \in E : \A j \in E : ~ (<<j, i>> \in r)
             /\ \A i, j \in Nat : j < i => <<j, i>> \in r
  BY <1>1, <1>2, Zenon
<1>4. PICK i \in E : \A j \in E : ~ (j < i)
  BY <1>3, Zenon
<1> QED
  BY <1>4

LEMMA Fronts ==
  ASSUME NEW E, NEW s \in Seq(E), s # <<>>
  PROVE  /\ N!Front(s) \in Seq(E) /\ Len(N!Front(s)) = Len(s) - 1
         /\ \A k \in 1..Len(s) - 1 : N!Front(s)[k] = s[k]
         /\ Len(s) \in DOMAIN s /\ N!Last(s) = s[Len(s)]
<1>1. Len(s) \in Nat \ {0} /\ DOMAIN s = 1..Len(s)
  BY EmptySeq, LenProperties
<1> QED
  BY <1>1, SubSeqProperties DEF N!Front, N!Last

-----------------------------------------------------------------------------
LEMMA NavInit == N!Init => NavInv
<1> SUFFICES ASSUME N!Init PROVE NavInv
  OBVIOUS
<1>1. PICK s \in [1..2 -> N!Profile] : s[1].id # s[2].id /\ profiles = s
  BY DEF N!Init
<1>2. profiles \in Seq(N!Profile) /\ DOMAIN profiles = 1..2 /\ profiles # <<>>
  <2>1. profiles \in [1..2 -> N!Profile] /\ 2 \in Nat
    BY <1>1
  <2>2. \E n \in Nat : profiles \in [1..n -> N!Profile]
    BY <2>1
  <2>3. profiles \in Seq(N!Profile)
    BY <2>2, SeqDef, Zenon
  <2>4. DOMAIN profiles = 1..2
    BY <2>1
  <2>5. DOMAIN profiles = 1..Len(profiles) /\ Len(profiles) \in Nat
    BY <2>3, LenProperties
  <2>6. profiles # <<>>
    BY <2>4, <2>5, EmptySeq
  <2> QED
    BY <2>3, <2>4, <2>6
<1>3. N!Current \in Ids /\ None \notin N!Present /\ 1 \in DOMAIN N!Shown
  <2>1. \A i \in 1..2 : /\ profiles[i].id \in Ids /\ profiles[i].pages \in Seq(N!Kinds)
                        /\ profiles[i].pages # <<>>
    BY <1>1, NavAssumption DEF N!Profile
  <2>2. \A i \in 1..2 : 1 \in DOMAIN profiles[i].pages
    BY <2>1, EmptySeq, LenProperties
  <2> QED
    BY <1>2, <2>1, <2>2, NavAssumption DEF N!Init, N!Current, N!Present, N!Shown
<1>4. N!TypeOK
  <2>1. 0 \in 0..MaxChanges /\ Len(stack) = 0 /\ 0 <= MaxDepth
    BY NavAssumption, EmptySeq DEF N!Init
  <2> QED
    BY <1>2, <1>3, <2>1 DEF N!Init, N!TypeOK
<1>5. Placed
  BY <1>2, <1>3, EmptySeq DEF N!Init, Placed
<1>6. Unique
  BY <1>1 DEF Unique
<1> QED
  BY <1>3, <1>4, <1>5, <1>6 DEF NavInv, ChosenKept, N!Init

\* Within the profile shown.
LEMMA PagesInv ==
  ASSUME NavInv,
         \/ \E forward \in BOOLEAN : N!Step(forward)
         \/ \E i \in 1..Len(N!Shown) + 1 : N!GoTo(i) \/ N!OpenFolder(i)
         \/ N!Back
  PROVE  NavInv'
<1>0. /\ profiles' = profiles /\ active' = active /\ focused' = focused /\ auto' = auto
      /\ auto_from' = auto_from /\ changes' = changes /\ chosen' = chosen /\ restored' = restored
  BY DEF N!Step, N!GoTo, N!OpenFolder, N!Back, N!Stays
<1>1. N!Shown \in Seq(N!Kinds) /\ DOMAIN N!Shown = 1..Len(N!Shown) /\ Len(N!Shown) \in Nat
  BY Entries, LenProperties DEF NavInv, Placed, N!Shown
<1>2. Len(stack) \in Nat /\ DOMAIN stack = 1..Len(stack) /\ Len(stack) <= MaxDepth /\ MaxDepth \in Nat
  BY LenProperties, NavAssumption DEF NavInv, Placed, N!TypeOK
<1> DEFINE Stands == /\ place' \in DOMAIN N!Shown /\ stack' \in Seq(Nat) /\ Len(stack') <= MaxDepth
                     /\ \A k \in DOMAIN stack' : stack'[k] \in DOMAIN N!Shown
<1>3. ASSUME place' \in DOMAIN N!Shown, stack' = <<>> PROVE Stands
  BY <1>2, <1>3, EmptySeq
<1>4. ASSUME place' = place, stack' = stack PROVE Stands
  BY <1>2, <1>4 DEF NavInv, Placed
<1>5. ASSUME NEW forward \in BOOLEAN, N!Step(forward) PROVE Stands
  <2> DEFINE normal == {i \in DOMAIN N!Shown : N!Shown[i] = "page"}
  <2>1. CASE normal = {}
    BY <1>4, <1>5, <2>1 DEF N!Step, N!nav
  <2>2. CASE normal # {}
    <3>1. place' \in normal /\ stack' = <<>>
      BY <1>5, <2>2 DEF N!Step
    <3> QED
      BY <1>3, <3>1
  <2> QED
    BY <2>1, <2>2
<1>6. ASSUME NEW i \in 1..Len(N!Shown) + 1, N!GoTo(i) PROVE Stands
  <2>1. CASE i \in DOMAIN N!Shown
    BY <1>3, <1>6, <2>1 DEF N!GoTo
  <2>2. CASE i \notin DOMAIN N!Shown
    BY <1>4, <1>6, <2>2 DEF N!GoTo, N!nav
  <2> QED
    BY <2>1, <2>2
<1>7. ASSUME NEW i \in 1..Len(N!Shown) + 1, N!OpenFolder(i) PROVE Stands
  <2>1. /\ i \in DOMAIN N!Shown /\ Len(stack) < MaxDepth
        /\ stack' = Append(stack, place) /\ place' = i
    BY <1>7 DEF N!OpenFolder
  <2>2. place \in Nat /\ stack \in Seq(Nat)
    BY <1>1 DEF NavInv, Placed
  <2>3. /\ stack' \in Seq(Nat) /\ Len(stack') = Len(stack) + 1
        /\ \A k \in 1..Len(stack) : stack'[k] = stack[k]
        /\ stack'[Len(stack) + 1] = place
    BY <2>1, <2>2, AppendProperties
  <2>4. DOMAIN stack' = 1..Len(stack) + 1
    BY <2>3, LenProperties
  <2> QED
    BY <1>2, <2>1, <2>3, <2>4 DEF NavInv, Placed
<1>8. ASSUME N!Back PROVE Stands
  <2>1. CASE stack = <<>>
    BY <1>4, <1>8, <2>1 DEF N!Back, N!nav
  <2>2. CASE stack # <<>>
    <3>1. place' = N!Last(stack) /\ stack' = N!Front(stack) /\ stack \in Seq(Nat)
      BY <1>8, <2>2 DEF N!Back, NavInv, Placed
    <3>2. /\ N!Front(stack) \in Seq(Nat) /\ Len(N!Front(stack)) = Len(stack) - 1
          /\ \A k \in 1..Len(stack) - 1 : N!Front(stack)[k] = stack[k]
          /\ Len(stack) \in DOMAIN stack /\ N!Last(stack) = stack[Len(stack)]
      BY <3>1, <2>2, Fronts
    <3>3. DOMAIN stack' = 1..Len(stack) - 1
      BY <3>1, <3>2, LenProperties
    <3>4. \A k \in 1..Len(stack) - 1 : k \in DOMAIN stack
      BY <1>2
    <3>5. Len(stack) - 1 <= MaxDepth
      BY <1>2
    <3> QED
      BY <3>1, <3>2, <3>3, <3>4, <3>5 DEF NavInv, Placed
  <2> QED
    BY <2>1, <2>2
<1>9. Stands
  BY <1>5, <1>6, <1>7, <1>8
<1> QED
  BY <1>0, <1>9 DEF NavInv, N!TypeOK, Placed, Unique, ChosenKept, N!Shown, N!Present, N!Current

\* A profile added or replaced: the others keep their places, and so does the
\* page shown, if it is still there.
LEMMA ApplyInv ==
  ASSUME NavInv, NEW p \in N!Profile, N!Apply(p)
  PROVE  NavInv'
<1>0. /\ active' = active /\ focused' = focused /\ auto' = auto /\ auto_from' = auto_from
      /\ chosen' = chosen /\ changes' \in 0..MaxChanges
  BY NavAssumption DEF N!Apply, NavInv, N!TypeOK
<1>1. /\ profiles \in Seq(N!Profile) /\ Len(profiles) \in Nat
      /\ DOMAIN profiles = 1..Len(profiles)
  BY LenProperties DEF NavInv, N!TypeOK
<1>2. /\ profiles' \in Seq(N!Profile) /\ Unique'
      /\ active \in DOMAIN profiles' /\ profiles'[active].id = profiles[active].id
      /\ N!Present' = N!Present \cup {p.id}
  <2>1. CASE p.id \in N!Present
    <3> DEFINE i == N!At(p.id)
    <3>1. i \in 1..Len(profiles) /\ profiles[i].id = p.id
      BY <1>1, <2>1, AtIs
    <3>2. profiles' = [profiles EXCEPT ![i] = p]
      BY <2>1 DEF N!Apply
    <3> HIDE DEF i
    <3>3. /\ profiles' \in Seq(N!Profile) /\ Len(profiles') = Len(profiles)
          /\ \A j \in 1..Len(profiles) : profiles'[j] = IF j = i THEN p ELSE profiles[j]
      BY <1>1, <3>1, <3>2, ExceptSeq
    <3>4. DOMAIN profiles' = 1..Len(profiles)
      BY <3>3, LenProperties
    <3>5. \A j \in 1..Len(profiles) : profiles'[j].id = profiles[j].id
      BY <3>1, <3>3
    <3>6. N!Present' = N!Present
      BY <1>1, <3>4, <3>5 DEF N!Present
    <3> QED
      BY <1>1, <2>1, <3>3, <3>4, <3>5, <3>6 DEF NavInv, Unique, Placed
  <2>2. CASE p.id \notin N!Present
    <3>1. profiles' = Append(profiles, p)
      BY <2>2 DEF N!Apply
    <3>2. /\ profiles' \in Seq(N!Profile) /\ Len(profiles') = Len(profiles) + 1
          /\ \A j \in 1..Len(profiles) : profiles'[j] = profiles[j]
          /\ profiles'[Len(profiles) + 1] = p
      BY <1>1, <3>1, AppendProperties
    <3>3. DOMAIN profiles' = 1..Len(profiles) + 1
      BY <3>2, LenProperties
    <3>4. \A j \in 1..Len(profiles) : profiles[j].id # p.id
      BY <1>1, <2>2 DEF N!Present
    <3>5. Unique'
      BY <1>1, <3>2, <3>3, <3>4 DEF NavInv, Unique
    <3>6. N!Present' = {profiles'[j].id : j \in 1..Len(profiles) + 1}
      BY <3>3 DEF N!Present
    <3>7. N!Present' = N!Present \cup {p.id}
      BY <1>1, <3>2, <3>6 DEF N!Present
    <3> QED
      BY <1>1, <3>2, <3>3, <3>5, <3>7 DEF NavInv, Placed
  <2> QED
    BY <2>1, <2>2
<1>3. profiles' # <<>>
  BY <1>2, EmptySeq, LenProperties
<1> DEFINE there == profiles'[active].pages
           n == Len(there)
<1>4. there \in Seq(N!Kinds) /\ 1 \in DOMAIN there /\ DOMAIN there = 1..n /\ n \in Nat
  <2>1. profiles'[active] \in N!Profile
    BY <1>2, ElementOfSeq, LenProperties
  <2>2. there \in Seq(N!Kinds) /\ there # <<>>
    BY <2>1, NavAssumption DEF N!Profile
  <2> QED
    BY <2>2, EmptySeq, LenProperties
<1>5. N!Clamp(n)
  BY DEF N!Apply
<1>6. Len(stack) \in Nat /\ DOMAIN stack = 1..Len(stack) /\ Len(stack) <= MaxDepth /\ stack \in Seq(Nat)
  BY LenProperties DEF NavInv, Placed, N!TypeOK
<1>7. place \in Nat /\ place >= 1 /\ \A k \in DOMAIN stack : stack[k] \in Nat /\ stack[k] >= 1
  <2>1. N!Shown \in Seq(N!Kinds)
    BY Entries DEF NavInv, Placed, N!Shown
  <2>2. DOMAIN N!Shown = 1..Len(N!Shown)
    BY <2>1, LenProperties
  <2> QED
    BY <2>2 DEF NavInv, Placed
<1> HIDE DEF there
<1>8. /\ place' \in DOMAIN there /\ stack' \in Seq(Nat) /\ Len(stack') <= MaxDepth
      /\ \A k \in DOMAIN stack' : stack'[k] \in DOMAIN there
  <2>1. CASE place > n
    <3>1. place' = 1 /\ stack' = <<>>
      BY <1>5, <2>1 DEF N!Clamp
    <3>2. Len(stack') = 0 /\ stack' \in Seq(Nat) /\ DOMAIN stack' = {} /\ 0 <= MaxDepth
      BY <3>1, EmptySeq, NavAssumption
    <3> QED
      BY <1>4, <3>1, <3>2
  <2>2. CASE ~(place > n)
    <3> DEFINE left == {k \in DOMAIN stack : stack[k] <= n}
    <3>1. /\ place' = place
          /\ \E m \in 0..Len(stack) : \E nth \in [1..m -> left] :
               /\ left = {nth[k] : k \in 1..m}
               /\ \A i, j \in 1..m : i < j => nth[i] < nth[j]
               /\ stack' = [k \in 1..m |-> stack[nth[k]]]
      BY <1>5, <2>2, Zenon DEF N!Clamp
    <3>2. PICK m \in 0..Len(stack) : \E nth \in [1..m -> left] :
                                       stack' = [k \in 1..m |-> stack[nth[k]]]
      BY <3>1, Zenon
    <3>3. stack' \in [1..m -> 1..n]
      BY <1>4, <1>7, <3>2
    <3>4. \E l \in Nat : stack' \in [1..l -> Nat]
      <4>1. 1..n \subseteq Nat
        BY <1>4
      <4>2. stack' \in [1..m -> Nat]
        BY <3>3, <4>1
      <4> QED
        BY <3>2, <4>2
    <3>5. stack' \in Seq(Nat)
      BY <3>4, SeqDef, Zenon
    <3>6. DOMAIN stack' = 1..m /\ DOMAIN stack' = 1..Len(stack') /\ Len(stack') \in Nat
      BY <3>3, <3>5, LenProperties
    <3>7. Len(stack') = m
      BY <3>2, <3>6
    <3>8. Len(stack') <= MaxDepth
      BY <1>6, <3>2, <3>7, NavAssumption
    <3>9. place' \in DOMAIN there
      BY <1>4, <1>7, <2>2, <3>1
    <3> QED
      BY <1>4, <3>3, <3>5, <3>8, <3>9
  <2> QED
    BY <2>1, <2>2
<1>9. N!Shown' = there /\ N!Current' = N!Current
  BY <1>0, <1>2 DEF N!Shown, N!Current, there
<1>10. restored' \in BOOLEAN /\ (restored => restored')
       /\ (~restored' => auto_from # p.id \/ p.id \in N!Present)
  BY DEF N!Apply, NavInv, N!TypeOK
<1>11. ChosenKept'
  BY <1>0, <1>2, <1>9, <1>10 DEF NavInv, ChosenKept
<1> QED
  BY <1>0, <1>2, <1>3, <1>8, <1>9, <1>10, <1>11 DEF NavInv, N!TypeOK, Placed

\* A profile removed: the deck shows the same one, in its new place, or the
\* first page of another.
LEMMA RemoveInv ==
  ASSUME NavInv, NEW id \in Ids, N!RemoveProfile(id)
  PROVE  NavInv'
<1> DEFINE i == N!At(id)
           now == IF active >= i /\ active > 1 THEN active - 1 ELSE active
<1>0. /\ focused' = focused /\ auto' = auto /\ auto_from' = auto_from /\ restored' = restored
      /\ changes' \in 0..MaxChanges
  BY NavAssumption DEF N!RemoveProfile, NavInv, N!TypeOK
<1>1. /\ id \in N!Present /\ Len(profiles) > 1
      /\ profiles' = N!RemoveAt(profiles, i)
      /\ IF i = active THEN N!SwitchTo(now) ELSE active' = now /\ UNCHANGED <<place, stack>>
      /\ chosen' = IF i = active /\ chosen = id THEN profiles'[now].id ELSE chosen
  BY DEF N!RemoveProfile, N!nav
<1>2. /\ profiles \in Seq(N!Profile) /\ Len(profiles) \in Nat
      /\ DOMAIN profiles = 1..Len(profiles) /\ active \in 1..Len(profiles)
  BY LenProperties DEF NavInv, N!TypeOK, Placed
<1>3. i \in 1..Len(profiles) /\ profiles[i].id = id
  BY <1>1, <1>2, AtIs
<1> HIDE DEF i
<1>4. /\ profiles' \in Seq(N!Profile) /\ Len(profiles') = Len(profiles) - 1
      /\ \A k \in 1..Len(profiles) - 1 :
           profiles'[k] = IF k < i THEN profiles[k] ELSE profiles[k + 1]
  BY <1>1, <1>2, <1>3, Removed
<1>5. DOMAIN profiles' = 1..Len(profiles) - 1
  BY <1>4, LenProperties
<1>6. now \in 1..Len(profiles) - 1 /\ (i # active => profiles'[now] = profiles[active])
  <2>1. now \in 1..Len(profiles) - 1
    BY <1>1, <1>2, <1>3
  <2>2. CASE active > i
    BY <1>1, <1>2, <1>3, <1>4, <2>2
  <2>3. CASE active < i
    BY <1>1, <1>2, <1>3, <1>4, <2>3
  <2> QED
    BY <1>2, <1>3, <2>1, <2>2, <2>3
<1>7. active' = now /\ (i = active => place' = 1 /\ stack' = <<>>)
      /\ (i # active => place' = place /\ stack' = stack)
  BY <1>1 DEF N!SwitchTo
<1>8. profiles' # <<>>
  BY <1>2, <1>4, <1>6, EmptySeq
<1>9. /\ profiles'[now] \in N!Profile /\ profiles'[now].id \in Ids
      /\ 1 \in DOMAIN profiles'[now].pages
  <2>1. profiles'[now] \in N!Profile
    BY <1>4, <1>6, ElementOfSeq
  <2>2. profiles'[now].pages \in Seq(N!Kinds) /\ profiles'[now].pages # <<>>
    BY <2>1, NavAssumption DEF N!Profile
  <2> QED
    BY <2>1, <2>2, EmptySeq, LenProperties DEF N!Profile
<1>10. Unique'
  <2> SUFFICES ASSUME NEW k \in 1..Len(profiles) - 1, NEW l \in 1..Len(profiles) - 1,
                      profiles'[k].id = profiles'[l].id
               PROVE  k = l
    BY <1>5 DEF Unique
  <2> DEFINE old(m) == IF m < i THEN m ELSE m + 1
  <2>1. /\ old(k) \in DOMAIN profiles /\ profiles'[k] = profiles[old(k)]
        /\ old(l) \in DOMAIN profiles /\ profiles'[l] = profiles[old(l)]
    BY <1>2, <1>3, <1>4, SMTT(30)
  <2>2. old(k) = old(l)
    BY <2>1 DEF NavInv, Unique
  <2> QED
    BY <1>2, <1>3, <2>2
<1>11. N!Present' \subseteq N!Present /\ id \notin N!Present'
  <2>1. ASSUME NEW k \in 1..Len(profiles) - 1
        PROVE  profiles'[k].id \in N!Present /\ profiles'[k].id # id
    <3> DEFINE m == IF k < i THEN k ELSE k + 1
    <3>1. m \in DOMAIN profiles /\ m # i /\ profiles'[k] = profiles[m]
      BY <1>2, <1>3, <1>4
    <3> QED
      BY <1>2, <1>3, <3>1 DEF NavInv, Unique, N!Present
  <2> QED
    BY <1>5, <2>1 DEF N!Present
<1>12. N!Shown' = profiles'[now].pages /\ N!Current' = profiles'[now].id
  BY <1>7 DEF N!Shown, N!Current
<1>13. chosen' \in Ids
  BY <1>1, <1>9 DEF NavInv, N!TypeOK
<1>14. Placed' /\ Len(stack') <= MaxDepth
  <2>1. CASE i = active
    <3>1. Len(stack') = 0 /\ stack' \in Seq(Nat) /\ DOMAIN stack' = {} /\ 0 <= MaxDepth
      BY <1>7, <2>1, EmptySeq, NavAssumption
    <3> QED
      BY <1>5, <1>6, <1>7, <1>9, <1>12, <2>1, <3>1 DEF Placed
  <2>2. CASE i # active
    <3>1. N!Shown' = N!Shown
      BY <1>6, <1>12, <2>2 DEF N!Shown
    <3> QED
      BY <1>5, <1>6, <1>7, <2>2, <3>1 DEF NavInv, N!TypeOK, Placed
  <2> QED
    BY <2>1, <2>2
<1>15. ChosenKept'
  <2>1. CASE i = active
    <3>1. N!Current = id
      BY <1>3, <2>1 DEF N!Current
    <3>2. CASE chosen = id
      BY <1>0, <1>1, <1>11, <1>12, <2>1, <3>1, <3>2 DEF NavInv, ChosenKept
    <3>3. CASE chosen # id
      BY <1>0, <1>1, <1>11, <1>12, <2>1, <3>1, <3>3 DEF NavInv, ChosenKept
    <3> QED
      BY <3>2, <3>3
  <2>2. CASE i # active
    <3>1. N!Current' = N!Current /\ chosen' = chosen
      BY <1>1, <1>6, <1>12, <2>2 DEF N!Current
    <3> QED
      BY <1>0, <1>11, <3>1 DEF NavInv, ChosenKept
  <2> QED
    BY <2>1, <2>2
<1> QED
  BY <1>0, <1>4, <1>8, <1>10, <1>13, <1>14, <1>15 DEF NavInv, N!TypeOK

-----------------------------------------------------------------------------
\* To the first page of another profile.
LEMMA SwitchPlaces ==
  ASSUME NavInv, NEW i \in DOMAIN profiles, N!SwitchTo(i), profiles' = profiles
  PROVE  Placed' /\ Len(stack') <= MaxDepth /\ N!Current' = profiles[i].id
<1>1. active' = i /\ place' = 1 /\ stack' = <<>>
  BY DEF N!SwitchTo
<1>2. 1 \in DOMAIN profiles[i].pages
  BY Entries DEF NavInv
<1>3. Len(stack') = 0 /\ stack' \in Seq(Nat) /\ DOMAIN stack' = {} /\ 0 <= MaxDepth
  BY <1>1, EmptySeq, NavAssumption
<1> QED
  BY <1>1, <1>2, <1>3 DEF Placed, N!Shown, N!Current

LEMMA ChooseInv ==
  ASSUME NavInv, NEW id \in Ids, N!SwitchProfile(id)
  PROVE  NavInv'
<1>0. /\ profiles' = profiles /\ focused' = focused /\ auto' = auto /\ changes' = changes
      /\ auto_from' = None /\ restored' = FALSE
  BY DEF N!SwitchProfile
<1>1. N!Present' = N!Present /\ N!Present \subseteq Ids /\ None \notin N!Present
  <2>1. N!Present \subseteq Ids
    BY Entries DEF N!Present, NavInv
  <2> QED
    BY <1>0, <2>1, NavAssumption DEF N!Present
<1>2. CASE id \in N!Present
  <2>1. N!SwitchTo(N!At(id)) /\ chosen' = id
    BY <1>2 DEF N!SwitchProfile
  <2>2. N!At(id) \in DOMAIN profiles /\ profiles[N!At(id)].id = id
    BY <1>2, AtIs
  <2>3. Placed' /\ Len(stack') <= MaxDepth /\ N!Current' = id
    BY <1>0, <2>1, <2>2, SwitchPlaces
  <2> QED
    BY <1>0, <1>1, <2>1, <2>3 DEF NavInv, N!TypeOK, Unique, ChosenKept
<1>3. CASE id \notin N!Present
  <2>1. chosen' = N!Current /\ active' = active /\ place' = place /\ stack' = stack
    BY <1>3 DEF N!SwitchProfile, N!nav
  <2>2. N!Current \in Ids /\ N!Current' = N!Current
    BY <1>0, <2>1, Entries DEF NavInv, Placed, N!Current
  <2> QED
    BY <1>0, <1>1, <2>1, <2>2 DEF NavInv, N!TypeOK, Placed, Unique, ChosenKept, N!Shown
<1> QED
  BY <1>2, <1>3

\* Where automatic switching goes is there.
LEMMA PickIs ==
  ASSUME N!TypeOK, NEW w, NEW back \in N!Present
  PROVE  N!Pick(w, back) \in N!Present
<1>1. CASE N!Following(w) = {}
  BY <1>1 DEF N!Pick
<1>2. CASE N!Following(w) # {}
  <2>1. N!Following(w) \subseteq Nat /\ N!Following(w) \subseteq DOMAIN profiles
    BY LenProperties DEF N!TypeOK, N!Following
  <2>2. PICK k \in N!Following(w) : \A j \in N!Following(w) : k <= j
    BY <1>2, <2>1, Least
  <2> DEFINE first == CHOOSE i \in N!Following(w) : \A j \in N!Following(w) : i <= j
  <2>3. first \in N!Following(w)
    BY <2>2
  <2>4. N!Pick(w, back) = profiles[first].id
    BY <1>2 DEF N!Pick
  <2> QED
    BY <2>1, <2>3, <2>4 DEF N!Present
<1> QED
  BY <1>1, <1>2

\* What is gone back to is the user's choice, or what is shown.
Return == IF auto_from \in N!Present THEN auto_from ELSE N!Current

LEMMA ReturnIs ==
  ASSUME NavInv
  PROVE  /\ Return \in N!Present /\ N!Current \in N!Present /\ N!Present \subseteq Ids
         /\ ~restored => Return = IF chosen \in N!Present THEN chosen ELSE N!Current
<1>1. N!Current \in N!Present /\ N!Present \subseteq Ids
  BY Entries DEF NavInv, Placed, N!Current, N!Present
<1>2. CASE auto_from \in N!Present
  BY <1>1, <1>2 DEF NavInv, ChosenKept, Return
<1>3. CASE auto_from \notin N!Present
  BY <1>1, <1>3 DEF NavInv, ChosenKept, Return
<1> QED
  BY <1>1, <1>2, <1>3

\* What automatic switching does, or that it does nothing.
LEMMA AutoDoes ==
  ASSUME NavInv, NEW w, NEW on, N!AutoSwitch(w, on)
  PROVE  LET target == N!Pick(w, Return)
         IN IF w \in {None, "shell"} \/ ~on \/ N!Rules = {} \/ target = N!Current
            THEN UNCHANGED <<active, place, stack, auto_from, chosen>>
            ELSE /\ auto_from' = IF target = Return THEN None ELSE Return
                 /\ N!SwitchTo(N!At(target))
                 /\ chosen' = IF chosen \in N!Present THEN chosen ELSE N!Current
BY DEF N!AutoSwitch, Return, N!nav

LEMMA AutoInv ==
  ASSUME NavInv, NEW w, NEW on, N!AutoSwitch(w, on),
         profiles' = profiles, restored' = restored, changes' = changes,
         focused' \in N!Windows \cup {None}, auto' \in BOOLEAN
  PROVE  NavInv'
<1> DEFINE target == N!Pick(w, Return)
           still == w \in {None, "shell"} \/ ~on \/ N!Rules = {} \/ target = N!Current
<1>1. N!Present' = N!Present
  BY DEF N!Present
<1>2. CASE still
  <2>1. active' = active /\ place' = place /\ stack' = stack /\ auto_from' = auto_from /\ chosen' = chosen
    BY <1>2, AutoDoes
  <2> QED
    BY <1>1, <2>1 DEF NavInv, N!TypeOK, Placed, Unique, ChosenKept, N!Shown, N!Current
<1>3. CASE ~still
  <2>1. /\ auto_from' = IF target = Return THEN None ELSE Return
        /\ N!SwitchTo(N!At(target)) /\ target # N!Current
        /\ chosen' = IF chosen \in N!Present THEN chosen ELSE N!Current
    BY <1>3, AutoDoes
  <2>2. target \in N!Present
    BY ReturnIs, PickIs DEF NavInv
  <2>3. N!At(target) \in DOMAIN profiles /\ profiles[N!At(target)].id = target
    BY <2>2, AtIs
  <2>4. Placed' /\ Len(stack') <= MaxDepth /\ N!Current' = target
    BY <2>1, <2>3, SwitchPlaces
  <2> HIDE DEF target
  <2>5. None \notin N!Present
    BY ReturnIs, NavAssumption
  <2>6. ChosenKept'
    <3>1. CASE restored
      BY <3>1 DEF ChosenKept
    <3>2. CASE ~restored
      <4>1. Return = IF chosen \in N!Present THEN chosen ELSE N!Current
        BY <3>2, ReturnIs
      <4>2. chosen' = Return
        BY <2>1, <4>1
      <4> QED
        BY <1>1, <2>1, <2>4, <2>5, <4>2 DEF ChosenKept
    <3> QED
      BY <3>1, <3>2
  <2>7. auto_from' \in Ids \cup {None} /\ chosen' \in Ids
    BY <2>1, ReturnIs DEF NavInv, N!TypeOK
  <2> QED
    BY <2>4, <2>6, <2>7 DEF NavInv, N!TypeOK, Unique
<1> QED
  BY <1>2, <1>3

LEMMA NavNext == NavInv /\ [N!Next]_(N!vars) => NavInv'
<1> SUFFICES ASSUME NavInv, [N!Next]_(N!vars) PROVE NavInv'
  OBVIOUS
<1>1. CASE UNCHANGED N!vars
  BY <1>1 DEF N!vars, N!nav, NavInv, N!TypeOK, Placed, Unique, ChosenKept, N!Shown, N!Present, N!Current
<1>2. CASE \/ \E forward \in BOOLEAN : N!Step(forward)
           \/ \E i \in 1..Len(N!Shown) + 1 : N!GoTo(i) \/ N!OpenFolder(i)
           \/ N!Back
  BY <1>2, PagesInv
<1>3. CASE \E id \in Ids : N!SwitchProfile(id) \/ N!RemoveProfile(id)
  BY <1>3, ChooseInv, RemoveInv
<1>4. CASE \E p \in N!Profile : N!Apply(p)
  BY <1>4, ApplyInv
<1>5. ASSUME NEW w \in N!Windows, N!Focus(w) PROVE NavInv'
  <2>1. /\ N!AutoSwitch(w, auto) /\ focused' = w /\ auto' = auto /\ profiles' = profiles
        /\ restored' = restored /\ changes' = changes
    BY <1>5 DEF N!Focus
  <2>2. auto' \in BOOLEAN
    BY <2>1 DEF NavInv, N!TypeOK
  <2> QED
    BY <2>1, <2>2, AutoInv
<1>6. CASE N!Toggle
  <2>1. /\ N!AutoSwitch(focused, ~auto) /\ focused' = focused /\ profiles' = profiles
        /\ restored' = restored /\ changes' = changes /\ auto' = ~auto
    BY <1>6 DEF N!Toggle
  <2>2. auto' \in BOOLEAN /\ focused' \in N!Windows \cup {None}
    BY <2>1 DEF NavInv, N!TypeOK
  <2> QED
    BY <2>1, <2>2, AutoInv
<1>7. CASE N!Settings
  <2>1. auto' \in BOOLEAN
    BY <1>7 DEF NavInv, N!TypeOK, N!Settings
  <2> QED
    BY <1>7, <2>1 DEF N!Settings, N!nav, NavInv, N!TypeOK, Placed, Unique, ChosenKept, N!Shown, N!Present, N!Current
<1> QED
  BY <1>1, <1>2, <1>3, <1>4, <1>5, <1>6, <1>7 DEF N!Next

LEMMA NavHolds == DeckSpec => []NavInv
<1>1. DeckInit => NavInv
  BY NavInit DEF DeckInit
<1>2. NavInv /\ [InControls \/ InNav \/ InWide]_<<part, controls, nav, wide>> => NavInv'
  <2>1. InNav => N!Next
    BY DEF InNav
  <2>2. InControls \/ InWide \/ UNCHANGED <<part, controls, nav, wide>> => UNCHANGED N!vars
    BY DEF InControls, InWide, nav, N!vars, N!nav
  <2> QED
    BY <2>1, <2>2, NavNext
<1> QED
  BY <1>1, <1>2, PTL DEF DeckSpec

\* The profile the deck shows, its page and the folders to go back through are
\* there, whatever was removed, cut down or added under it (NavState::clamp,
\* DeckMsg::RemoveProfile), for any profiles, pages and depth of folders.
THEOREM AlwaysInPlace == DeckSpec => []InPlace
<1>1. NavInv => InPlace
  BY DEF NavInv, Placed, Unique, InPlace, N!InPlace
<1> QED
  BY <1>1, NavHolds, PTL

\* Leaving an application brings back what the user chose last, over any
\* number of switches, edits and removals (Deck::auto_switch), until a profile
\* left behind is removed and comes back.
THEOREM ComesBack == DeckSpec => BackToChosen
<1> DEFINE Back ==
      \A w \in N!Windows :
        N!Unfollowed(w) /\ ~restored =>
          N!Current' = IF chosen \in N!Present THEN chosen ELSE N!Current
<1>1. ASSUME NavInv, NEW w \in N!Windows, N!Unfollowed(w), ~restored
      PROVE  N!Current' = IF chosen \in N!Present THEN chosen ELSE N!Current
  <2>1. /\ N!AutoSwitch(w, auto) /\ auto /\ N!Rules # {} /\ w \notin {None, "shell"}
        /\ N!Following(w) = {} /\ profiles' = profiles
    BY <1>1, NavAssumption DEF N!Unfollowed, N!Focus
  <2>2. N!Pick(w, Return) = Return
    BY <2>1 DEF N!Pick
  <2>3. Return = IF chosen \in N!Present THEN chosen ELSE N!Current
    BY <1>1, ReturnIs
  <2>4. CASE Return = N!Current
    <3>1. active' = active
      BY <1>1, <2>1, <2>2, <2>4, AutoDoes
    <3> QED
      BY <2>1, <2>3, <2>4, <3>1 DEF N!Current
  <2>5. CASE Return # N!Current
    <3>1. N!SwitchTo(N!At(Return))
      BY <1>1, <2>1, <2>2, <2>5, AutoDoes
    <3>2. N!At(Return) \in DOMAIN profiles /\ profiles[N!At(Return)].id = Return
      BY <1>1, ReturnIs, AtIs
    <3>3. N!Current' = Return
      BY <1>1, <2>1, <3>1, <3>2, SwitchPlaces
    <3> QED
      BY <2>3, <3>3
  <2> QED
    BY <2>4, <2>5
<1>2. NavInv => [Back]_(N!vars)
  BY <1>1
<1> QED
  BY <1>2, NavHolds, PTL DEF BackToChosen, N!BackToChosen

-----------------------------------------------------------------------------
(* SmallScreen: one drawing makes the screen and what a tap does agree,    *)
(* and its timer is a countdown.                                           *)

Timers ==
  [total : Nat \ {0}, left : Nat, running : BOOLEAN, ran : Nat, pomodoro : BOOLEAN,
   onBreak : BOOLEAN, focus : S!Durations]

ScreenInv ==
  /\ screen \in Configs /\ playing \in BOOLEAN
  /\ timer \in Timers
  /\ music = {} \/ \E n \in Nat : music = {n}
  /\ rot \in [index : Nat, since : Nat]
  /\ TapFollowsScreen

\* The settings a timer follows are those of a Timer widget, and of one only.
LEMMA TimerWidgets ==
  ASSUME NEW s \in Configs
  PROVE  /\ \A w \in S!FirstOf(s, "timer") :
              w.minutes \in S!Durations /\ w.pomodoro \in BOOLEAN
         /\ S!Durations \subseteq Nat \ {0}
<1>1. ASSUME NEW r \in Configs, NEW w \in S!FirstOf(r, "timer")
      PROVE  w.minutes \in Nat \ {0} /\ w.pomodoro \in BOOLEAN
  <2>1. PICK n \in DOMAIN r.list : w = r.list[n] /\ r.list[n].kind = "timer"
    BY <1>1 DEF S!FirstOf
  <2>2. r.list[n] \in Widgets
    BY ScreenAssumption, ElementOfSeq, LenProperties
  <2> QED
    BY <2>1, <2>2 DEF Widgets
<1>2. S!Durations \subseteq Nat \ {0}
  BY <1>1, ScreenAssumption DEF S!Durations
<1>3. ASSUME NEW w \in S!FirstOf(s, "timer") PROVE w.minutes \in S!Durations
  BY <1>3 DEF S!Durations
<1> QED
  BY <1>1, <1>2, <1>3

LEMMA FreshIs ==
  ASSUME NEW m \in S!Durations, S!Durations \subseteq Nat \ {0}, NEW b \in BOOLEAN
  PROVE  /\ S!Fresh(m, b) \in Timers
         /\ S!Remaining(S!Fresh(m, b)) = m /\ ~S!Fresh(m, b).running
<1>1. m \in Nat \ {0} /\ m \in Nat /\ 0 \in Nat
  OBVIOUS
<1> QED
  BY <1>1 DEF S!Fresh, S!Remaining, Timers

LEMMA RemainingIs ==
  ASSUME NEW t \in Timers
  PROVE  S!Remaining(t) \in Nat
<1>1. t.left \in Nat /\ t.ran \in Nat
  BY DEF Timers
<1> QED
  BY <1>1 DEF S!Remaining

\* A look at the timer: nothing, or it ran out.
LEMMA TickedIs ==
  ASSUME NEW t \in Timers, S!Durations \subseteq Nat \ {0}, BreakMin \in S!Durations
  PROVE  /\ S!Ticked(t) \in Timers
         /\ \/ S!Ticked(t) = t
            \/ /\ t.running /\ S!Remaining(t) = 0
               /\ \/ ~S!Ticked(t).running /\ S!Remaining(S!Ticked(t)) = 0
                  \/ S!Ticked(t).running /\ S!Remaining(S!Ticked(t)) \in S!Durations
<1>0. /\ t.total \in Nat \ {0} /\ t.left \in Nat /\ t.running \in BOOLEAN /\ t.ran \in Nat
      /\ t.pomodoro \in BOOLEAN /\ t.onBreak \in BOOLEAN /\ t.focus \in S!Durations
  BY DEF Timers
<1>1. CASE ~t.running \/ S!Remaining(t) > 0
  <2>1. S!Ticked(t) = t
    BY <1>1 DEF S!Ticked
  <2> QED
    BY <2>1
<1>2. CASE t.running /\ ~(S!Remaining(t) > 0)
  <2>0. S!Remaining(t) = 0
    BY <1>2, RemainingIs
  <2>1. CASE t.pomodoro
    <3> DEFINE min == IF t.onBreak THEN t.focus ELSE BreakMin
    <3>1. min \in S!Durations /\ min \in Nat \ {0} /\ min \in Nat /\ 0 \in Nat
      BY <1>0
    <3>2. S!Ticked(t) = [t EXCEPT !.onBreak = ~@, !.total = min, !.left = min, !.ran = 0]
      BY <1>2, <2>1 DEF S!Ticked
    <3> HIDE DEF min
    <3>3. S!Ticked(t) \in Timers
      BY <1>0, <3>1, <3>2 DEF Timers
    <3>4. S!Ticked(t).running /\ S!Ticked(t).ran = 0 /\ S!Ticked(t).left = min
      BY <1>2, <3>2 DEF Timers
    <3>5. S!Remaining(S!Ticked(t)) = min
      BY <3>1, <3>4 DEF S!Remaining
    <3> QED
      BY <1>2, <2>0, <3>1, <3>3, <3>4, <3>5
  <2>2. CASE ~t.pomodoro
    <3>1. S!Ticked(t) = [t EXCEPT !.left = 0, !.running = FALSE, !.ran = 0]
      BY <1>2, <2>2 DEF S!Ticked
    <3>2. 0 \in Nat /\ FALSE \in BOOLEAN
      OBVIOUS
    <3>3. S!Ticked(t) \in Timers
      BY <1>0, <3>1, <3>2 DEF Timers
    <3>4. ~S!Ticked(t).running /\ S!Ticked(t).left = 0
      BY <3>1 DEF Timers
    <3>5. S!Remaining(S!Ticked(t)) = 0
      BY <3>4 DEF S!Remaining
    <3> QED
      BY <1>2, <2>0, <3>3, <3>4, <3>5
  <2> QED
    BY <2>1, <2>2
<1> QED
  BY <1>1, <1>2, Zenon

\* What the rotation turns to is one of the list.
LEMMA TurnedIs ==
  ASSUME NEW s \in Configs, s.list # <<>>, NEW r \in [index : Nat, since : Nat]
  PROVE  /\ S!Turned(s, r) \in [index : Nat, since : Nat]
         /\ S!Turned(s, r).index + 1 \in DOMAIN s.list
<1>1. Len(s.list) \in Nat \ {0} /\ DOMAIN s.list = 1..Len(s.list)
  BY ScreenAssumption, EmptySeq, LenProperties
<1> DEFINE due == s.rotate = "every" /\ r.since >= Every
           n == r.index + (IF due THEN 1 ELSE 0)
<1>2. n \in Nat
  <2>1. r.index \in Nat
    OBVIOUS
  <2>2. (IF due THEN 1 ELSE 0) \in Nat
    <3>1. CASE due
      BY <3>1
    <3>2. CASE ~due
      BY <3>2
    <3> QED
      BY <3>1, <3>2
  <2> HIDE DEF due
  <2> QED
    BY <2>1, <2>2
<1>3. S!Turned(s, r) = [index |-> n % Len(s.list), since |-> IF due THEN 0 ELSE r.since]
  BY DEF S!Turned
<1>4. (IF due THEN 0 ELSE r.since) \in Nat
  <2>1. r.since \in Nat /\ 0 \in Nat
    OBVIOUS
  <2> HIDE DEF due
  <2> QED
    BY <2>1
<1> HIDE DEF n, due
<1>5. \A a \in Nat, k \in Nat \ {0} : a % k \in 0..k - 1
  OBVIOUS
<1>6. n % Len(s.list) \in Nat /\ (n % Len(s.list)) + 1 \in DOMAIN s.list
  <2>1. PICK q : q = n % Len(s.list)
    OBVIOUS
  <2>2. q \in 0..Len(s.list) - 1
    BY <1>1, <1>2, <1>5, <2>1, Zenon
  <2>3. q \in Nat /\ q + 1 \in DOMAIN s.list
    BY <1>1, <2>2
  <2> QED
    BY <2>1, <2>3, Zenon
<1>7. S!Turned(s, r).index = n % Len(s.list)
  BY <1>3
<1> QED
  BY <1>3, <1>4, <1>6, <1>7

\* A drawing makes a timer anew or looks at it, and what is drawn is what a
\* tap acts on.
LEMMA DrawInv ==
  ASSUME ScreenInv, NEW s \in Configs, NEW plays \in BOOLEAN, NEW t \in Timers,
         NEW r \in [index : Nat, since : Nat], S!Draw(s, plays, t, r)
  PROVE  /\ ScreenInv'
         /\ \/ timer' = S!Ticked(t)
            \/ ~timer'.running /\ S!Remaining(timer') \in S!Durations
<1> DEFINE m == S!MusicNow(s, plays, music)
           takes == s.media /\ m # {} /\ m # {0}
           start == IF m = {0} THEN [index |-> 0, since |-> 0] ELSE r
           turned == IF takes THEN r ELSE S!Turned(s, start)
           own == S!FirstOf(s, "now_playing")
           new == S!Settings(s)
           differs == \E c \in new : c.minutes # t.focus \/ c.pomodoro # t.pomodoro
<1>0. screen' = s /\ playing' = plays
  BY DEF S!Draw
<1>1. S!Durations \subseteq Nat \ {0} /\ BreakMin \in S!Durations
  BY TimerWidgets DEF S!Durations
<1>2. CASE s.list = <<>>
  <2>1. timer' = S!Ticked(t) /\ rot' = r /\ shown' = {} /\ music' = music
    BY <1>2 DEF S!Draw, S!Nothing
  <2>2. timer' \in Timers
    BY <1>1, <2>1, TickedIs
  <2>3. TapFollowsScreen'
    BY <2>1 DEF TapFollowsScreen, S!TapFollowsScreen, S!Nothing
  <2> QED
    BY <1>0, <2>1, <2>2, <2>3 DEF ScreenInv
<1>3. CASE s.list # <<>>
  <2>1. /\ music' = (IF m = {0} THEN {} ELSE m)
        /\ rot' = turned
        /\ shown' = (IF ~takes THEN {s.list[turned.index + 1]}
                     ELSE IF own = {} THEN {S!NowPlaying} ELSE own)
        /\ timer' = (IF new \notin {{}, cfg} /\ differs
                     THEN CHOOSE f \in {S!Fresh(c.minutes, c.pomodoro) : c \in new} : TRUE
                     ELSE S!Ticked(t))
    BY <1>3 DEF S!Draw, S!Nothing
  <2>2. /\ m = {} \/ \E n \in Nat : m = {n}
        /\ s.media /\ plays => takes
        /\ ~takes => m = {} \/ m = {0}
    <3>1. s.media \in BOOLEAN /\ s.back \in Nat \ {0}
      BY ScreenAssumption
    <3>2. CASE ~s.media
      BY <3>2 DEF S!MusicNow, S!Nothing
    <3>3. CASE s.media /\ plays
      BY <3>1, <3>3 DEF S!MusicNow, S!Nothing
    <3>4. CASE s.media /\ ~plays
      BY <3>4 DEF S!MusicNow, S!Nothing, ScreenInv
    <3> QED
      BY <3>1, <3>2, <3>3, <3>4
  <2> HIDE DEF m
  <2>3. start \in [index : Nat, since : Nat]
    BY DEF start
  <2> HIDE DEF start
  <2>4. turned \in [index : Nat, since : Nat] /\ (~takes => turned.index + 1 \in DOMAIN s.list)
    BY <1>3, <2>3, TurnedIs
  <2>5. /\ timer' \in Timers
        /\ timer' = S!Ticked(t) \/ (~timer'.running /\ S!Remaining(timer') \in S!Durations)
    <3>1. CASE new \notin {{}, cfg} /\ differs
      <4>1. PICK c \in new : timer' = S!Fresh(c.minutes, c.pomodoro)
        BY <2>1, <3>1
      <4>2. c.minutes \in S!Durations /\ c.pomodoro \in BOOLEAN
        BY TimerWidgets DEF S!Settings
      <4> QED
        BY <1>1, <4>1, <4>2, FreshIs
    <3>2. CASE ~(new \notin {{}, cfg} /\ differs)
      <4>1. timer' = S!Ticked(t)
        BY <2>1, <3>2
      <4> QED
        BY <1>1, <4>1, TickedIs
    <3> QED
      BY <3>1, <3>2
  <2> HIDE DEF new, differs, turned
  <2>6. TapFollowsScreen'
    <3>1. CASE takes
      <4>1. music' # {}
        BY <2>1, <3>1
      <4>2. S!DefaultTap' = "play_pause"
        BY <4>1 DEF S!DefaultTap, S!Nothing
      <4>3. \A w \in shown' : w.kind = "now_playing"
        BY <2>1, <3>1 DEF S!FirstOf, S!NowPlaying, S!Widget
      <4> QED
        BY <4>2, <4>3 DEF TapFollowsScreen, S!TapFollowsScreen, S!TapOf
    <3>2. CASE ~takes
      <4> DEFINE x == s.list[turned.index + 1]
      <4>1. music' = {} /\ shown' = {x} /\ \E i \in DOMAIN s.list : s.list[i] = x
        BY <2>1, <2>2, <2>4, <3>2
      <4>2. ~(plays /\ s.media)
        BY <2>2, <3>2
      <4> HIDE DEF x
      <4>3. x \in S!ToSet(s.list)
        BY <4>1 DEF S!ToSet
      <4>4. S!DefaultTap' # "next" => S!DefaultTap' = S!TapOf(x)
        <5>1. {w \in shown' : \E i \in DOMAIN s.list : s.list[i] = w} = {x}
          BY <4>1
        <5>2. CASE s.rotate = "press" /\ Len(s.list) > 1
          BY <1>0, <4>1, <5>2 DEF S!DefaultTap, S!Nothing
        <5>3. CASE ~(s.rotate = "press" /\ Len(s.list) > 1)
          BY <1>0, <4>1, <5>1, <5>3 DEF S!DefaultTap, S!Nothing
        <5> QED
          BY <5>2, <5>3
      <4> QED
        BY <1>0, <4>1, <4>2, <4>3, <4>4 DEF TapFollowsScreen, S!TapFollowsScreen
    <3> QED
      BY <3>1, <3>2
  <2>7. music' = {} \/ \E n \in Nat : music' = {n}
    BY <2>1, <2>2
  <2> QED
    BY <1>0, <2>1, <2>4, <2>5, <2>6, <2>7 DEF ScreenInv
<1> QED
  BY <1>2, <1>3

LEMMA StartedIs ==
  ASSUME NEW t \in Timers, NEW u, u = S!StartedOrPaused(t)
  PROVE  /\ u \in Timers /\ u.running = ~t.running
         /\ u.running => S!Remaining(u) > 0
         /\ (~t.running /\ S!Remaining(t) = 0) \/ S!Remaining(u) = S!Remaining(t)
<1>0. /\ t.total \in Nat \ {0} /\ t.left \in Nat /\ t.running \in BOOLEAN /\ t.ran \in Nat
      /\ t.pomodoro \in BOOLEAN /\ t.onBreak \in BOOLEAN /\ t.focus \in S!Durations /\ 0 \in Nat
  BY DEF Timers
<1>1. CASE t.running
  <2>1. u = [t EXCEPT !.left = S!Remaining(t), !.running = FALSE, !.ran = 0]
    BY <1>1 DEF S!StartedOrPaused
  <2>2. S!Remaining(t) \in Nat
    BY RemainingIs
  <2>3. u \in Timers
    BY <1>0, <2>1, <2>2 DEF Timers
  <2>4. u.running = FALSE /\ u.left = S!Remaining(t)
    BY <2>1 DEF Timers
  <2>5. S!Remaining(u) = S!Remaining(t)
    BY <2>4 DEF S!Remaining
  <2> QED
    BY <1>1, <2>3, <2>4, <2>5
<1>2. CASE ~t.running
  <2> DEFINE l == IF t.left = 0 THEN t.total ELSE t.left
  <2>1. u = [t EXCEPT !.left = l, !.running = TRUE, !.ran = 0]
    BY <1>2 DEF S!StartedOrPaused
  <2>2. l \in Nat \ {0} /\ l \in Nat /\ (t.left # 0 => l = t.left)
    BY <1>0
  <2> HIDE DEF l
  <2>3. u \in Timers
    BY <1>0, <2>1, <2>2 DEF Timers
  <2>4. u.running = TRUE /\ u.left = l /\ u.ran = 0
    BY <2>1 DEF Timers
  <2>5. S!Remaining(u) = l
    BY <2>2, <2>4 DEF S!Remaining
  <2>6. S!Remaining(t) = t.left
    BY <1>2 DEF S!Remaining
  <2>7. S!Remaining(u) > 0 /\ (S!Remaining(t) = 0 \/ S!Remaining(u) = S!Remaining(t))
    BY <1>0, <2>2, <2>5, <2>6
  <2> QED
    BY <1>2, <2>3, <2>4, <2>7, Zenon
<1> QED
  BY <1>0, <1>1, <1>2

LEMMA AddedIs ==
  ASSUME NEW t \in Timers, NEW m \in Nat
  PROVE  LET u == S!Added(t, m)
         IN /\ u \in Timers /\ u.running = t.running
            /\ S!Remaining(u) = S!Remaining(t) + m
<1> DEFINE u == S!Added(t, m)
<1>0. /\ t.total \in Nat \ {0} /\ t.left \in Nat /\ t.running \in BOOLEAN /\ t.ran \in Nat
      /\ t.pomodoro \in BOOLEAN /\ t.onBreak \in BOOLEAN /\ t.focus \in S!Durations /\ 0 \in Nat
  BY DEF Timers
<1>1. PICK l : l = S!Remaining(t) + m
  OBVIOUS
<1>2. l \in Nat
  BY <1>1, RemainingIs
<1> DEFINE total == IF l > t.total THEN l ELSE t.total
<1>3. u = [t EXCEPT !.left = l, !.ran = 0, !.total = total]
  BY <1>1 DEF S!Added
<1>4. total \in Nat \ {0}
  BY <1>0, <1>2
<1> HIDE DEF total
<1>5. u \in Timers
  BY <1>0, <1>2, <1>3, <1>4 DEF Timers
<1>6. u.left = l /\ u.ran = 0 /\ u.running = t.running
  BY <1>3 DEF Timers
<1>7. S!Remaining(u) = l
  BY <1>2, <1>6 DEF S!Remaining
<1> QED
  BY <1>1, <1>5, <1>6, <1>7

\* A second of the timer.
LEMMA SecondIs ==
  ASSUME NEW t \in Timers,
         NEW u, u = [t EXCEPT !.ran = IF t.running /\ @ < t.left THEN @ + 1 ELSE @]
  PROVE  /\ u \in Timers /\ u.running = t.running
         /\ IF t.running /\ S!Remaining(t) > 0
            THEN S!Remaining(u) = S!Remaining(t) - 1
            ELSE S!Remaining(u) = S!Remaining(t)
<1>0. /\ t.total \in Nat \ {0} /\ t.left \in Nat /\ t.running \in BOOLEAN /\ t.ran \in Nat
      /\ t.pomodoro \in BOOLEAN /\ t.onBreak \in BOOLEAN /\ t.focus \in S!Durations
  BY DEF Timers
<1> DEFINE n == IF t.running /\ t.ran < t.left THEN t.ran + 1 ELSE t.ran
<1>1. n \in Nat /\ u = [t EXCEPT !.ran = n]
  BY <1>0
<1>2. t.running => n = IF t.ran < t.left THEN t.ran + 1 ELSE t.ran
  OBVIOUS
<1> HIDE DEF n
<1>3. u \in Timers /\ u.running = t.running /\ u.left = t.left /\ u.ran = n
  BY <1>0, <1>1 DEF Timers
<1>4. CASE t.running
  <2>1. S!Remaining(t) = IF t.ran >= t.left THEN 0 ELSE t.left - t.ran
    BY <1>4 DEF S!Remaining
  <2>2. S!Remaining(u) = IF n >= t.left THEN 0 ELSE t.left - n
    BY <1>3, <1>4 DEF S!Remaining
  <2>3. n = IF t.ran < t.left THEN t.ran + 1 ELSE t.ran
    BY <1>2, <1>4
  <2>4. IF S!Remaining(t) > 0 THEN S!Remaining(u) = S!Remaining(t) - 1
        ELSE S!Remaining(u) = S!Remaining(t)
    BY <1>0, <1>1, <2>1, <2>2, <2>3
  <2> QED
    BY <1>3, <1>4, <2>4
<1>5. CASE ~t.running
  <2>1. S!Remaining(t) = t.left /\ S!Remaining(u) = t.left
    BY <1>3, <1>5 DEF S!Remaining
  <2> QED
    BY <1>3, <1>5, <2>1
<1> QED
  BY <1>4, <1>5

-----------------------------------------------------------------------------
\* The countdown goes from t to u, or stays.
CountsTo(t, u) ==
  \/ u.running = t.running /\ S!Remaining(u) = S!Remaining(t)
  \/ t.running /\ u.running /\ S!Remaining(t) > 0 /\ S!Remaining(u) = S!Remaining(t) - 1
  \/ t.running /\ ~u.running /\ S!Remaining(t) = 0 /\ S!Remaining(u) = 0
  \/ t.running /\ u.running /\ S!Remaining(t) = 0 /\ S!Remaining(u) \in S!Durations
  \/ /\ u.running = ~t.running
     /\ IF ~t.running /\ S!Remaining(t) = 0 THEN S!Remaining(u) > 0
        ELSE S!Remaining(u) = S!Remaining(t)
  \/ u.running = t.running /\ \E m \in Additions : S!Remaining(u) = S!Remaining(t) + m
  \/ ~u.running /\ S!Remaining(u) \in S!Durations

LEMMA CountsToSteps ==
  ASSUME timer \in Timers, timer' \in Timers, CountsTo(timer, timer')
  PROVE  [S!Promised!Next]_<<S!Remaining(timer), timer.running>>
<1>1. timer.running \in BOOLEAN /\ timer'.running \in BOOLEAN
  BY DEF Timers
<1>2. S!Remaining(timer)' = S!Remaining(timer')
  BY DEF S!Remaining
<1> QED
  BY <1>1, <1>2 DEF CountsTo, S!Promised!Next, S!Promised!Second, S!Promised!RunsOut,
     S!Promised!StartPause, S!Promised!Add, S!Promised!New

LEMMA WideInit == S!Init => ScreenInv /\ S!Promised!Init
<1> SUFFICES ASSUME S!Init PROVE ScreenInv /\ S!Promised!Init
  OBVIOUS
<1>1. 25 \in S!Durations /\ S!Durations \subseteq Nat \ {0}
  <2>1. screen \in Configs
    BY DEF S!Init
  <2> QED
    BY <2>1, TimerWidgets DEF S!Durations
<1>2. timer \in Timers /\ S!Remaining(timer) = 25 /\ ~timer.running
  BY <1>1, FreshIs DEF S!Init
<1>3. TapFollowsScreen
  BY DEF S!Init, TapFollowsScreen, S!TapFollowsScreen, S!Nothing
<1>4. rot \in [index : Nat, since : Nat]
  <2>1. 0 \in Nat
    OBVIOUS
  <2> QED
    BY <2>1 DEF S!Init
<1> QED
  BY <1>1, <1>2, <1>3, <1>4 DEF S!Init, ScreenInv, S!Nothing, S!Promised!Init

\* A look at the timer keeps up with the countdown.
LEMMA LookCounts ==
  ASSUME NEW t \in Timers, NEW u, S!Durations \subseteq Nat \ {0}, BreakMin \in S!Durations,
         u = S!Ticked(t) \/ (~u.running /\ S!Remaining(u) \in S!Durations)
  PROVE  CountsTo(t, u)
BY TickedIs DEF CountsTo

\* A timer that is not due is not changed by a look.
LEMMA NotDue ==
  ASSUME NEW t \in Timers, t.running => S!Remaining(t) > 0
  PROVE  S!Ticked(t) = t
BY DEF S!Ticked

LEMMA WideNext ==
  ASSUME ScreenInv, S!Next
  PROVE  ScreenInv' /\ CountsTo(timer, timer')
<1>0. /\ screen \in Configs /\ playing \in BOOLEAN /\ timer \in Timers
      /\ rot \in [index : Nat, since : Nat]
  BY DEF ScreenInv
<1>1. S!Durations \subseteq Nat \ {0} /\ BreakMin \in S!Durations
  BY <1>0, TimerWidgets DEF S!Durations
<1>2. ASSUME NEW s \in Configs, NEW plays \in BOOLEAN,
             NEW r \in [index : Nat, since : Nat], S!Draw(s, plays, timer, r)
      PROVE  ScreenInv' /\ CountsTo(timer, timer')
  BY <1>0, <1>1, <1>2, DrawInv, LookCounts
<1>3. ASSUME S!ScreenNext PROVE ScreenInv' /\ CountsTo(timer, timer')
  <2>1. rot.index + 1 \in Nat /\ 0 \in Nat
    BY <1>0
  <2>2. [index |-> rot.index + 1, since |-> 0] \in [index : Nat, since : Nat]
    BY <2>1
  <2> QED
    BY <1>0, <1>2, <1>3, <2>2 DEF S!ScreenNext
<1>4. ASSUME S!TimerStartPause PROVE ScreenInv' /\ CountsTo(timer, timer')
  <2>1. PICK t : t = S!StartedOrPaused(timer)
    OBVIOUS
  <2>2. /\ t \in Timers /\ t.running = ~timer.running
        /\ t.running => S!Remaining(t) > 0
        /\ (~timer.running /\ S!Remaining(timer) = 0) \/ S!Remaining(t) = S!Remaining(timer)
    BY <1>0, <2>1, StartedIs
  <2>3. ScreenInv' /\ (timer' = t \/ (~timer'.running /\ S!Remaining(timer') \in S!Durations))
    BY <1>0, <1>4, <2>1, <2>2, DrawInv, NotDue DEF S!TimerStartPause
  <2> QED
    BY <2>2, <2>3 DEF CountsTo
<1>5. ASSUME S!TimerReset PROVE ScreenInv' /\ CountsTo(timer, timer')
  <2>1. PICK t : t = S!Fresh(timer.focus, timer.pomodoro)
    OBVIOUS
  <2>2. t \in Timers /\ S!Remaining(t) \in S!Durations /\ ~t.running
    BY <1>0, <1>1, <2>1, FreshIs DEF Timers
  <2>3. ScreenInv' /\ (timer' = t \/ (~timer'.running /\ S!Remaining(timer') \in S!Durations))
    BY <1>0, <1>5, <2>1, <2>2, DrawInv, NotDue DEF S!TimerReset
  <2> QED
    BY <2>2, <2>3 DEF CountsTo
<1>6. ASSUME NEW m \in Additions, S!TimerAdd(m) PROVE ScreenInv' /\ CountsTo(timer, timer')
  <2>1. PICK t : t = S!Added(timer, m)
    OBVIOUS
  <2>2. m \in Nat
    BY ScreenAssumption
  <2>3. t \in Timers /\ t.running = timer.running /\ S!Remaining(t) = S!Remaining(timer) + m
    BY <1>0, <2>1, <2>2, AddedIs
  <2>4. ScreenInv' /\ (timer' = S!Ticked(t) \/ (~timer'.running /\ S!Remaining(timer') \in S!Durations))
    BY <1>0, <1>6, <2>1, <2>3, DrawInv DEF S!TimerAdd
  <2>5. CASE t.running => S!Remaining(t) > 0
    <3>1. S!Ticked(t) = t
      BY <2>3, <2>5, NotDue
    <3> QED
      BY <2>3, <2>4, <3>1 DEF CountsTo
  <2>6. CASE t.running /\ ~(S!Remaining(t) > 0)
    <3>1. S!Remaining(timer) \in Nat
      BY <1>0, RemainingIs
    <3>2. S!Remaining(timer) = 0 /\ S!Remaining(t) = 0
      BY <2>2, <2>3, <2>6, <3>1
    <3>3. CountsTo(t, timer')
      BY <1>1, <2>3, <2>4, LookCounts
    <3> QED
      BY <2>3, <2>4, <3>2, <3>3 DEF CountsTo
  <2> QED
    BY <2>5, <2>6
<1>7. ASSUME S!Second PROVE ScreenInv' /\ CountsTo(timer, timer')
  <2>1. /\ timer' \in Timers /\ timer'.running = timer.running
        /\ IF timer.running /\ S!Remaining(timer) > 0
           THEN S!Remaining(timer') = S!Remaining(timer) - 1
           ELSE S!Remaining(timer') = S!Remaining(timer)
    BY <1>0, <1>7, SecondIs DEF S!Second
  <2>2. CountsTo(timer, timer')
    BY <2>1 DEF CountsTo
  <2>3. /\ screen' = screen /\ playing' = playing /\ shown' = shown
        /\ music' = {IF n = 0 THEN 0 ELSE n - 1 : n \in music}
    BY <1>7 DEF S!Second
  <2>4. (music' = {} <=> music = {}) /\ (music' = {} \/ \E n \in Nat : music' = {n})
    <3>1. CASE music = {}
      BY <2>3, <3>1
    <3>2. ASSUME NEW n \in Nat, music = {n} PROVE \E k \in Nat : music' = {k}
      <4>1. (IF n = 0 THEN 0 ELSE n - 1) \in Nat
        OBVIOUS
      <4>2. music' = {IF n = 0 THEN 0 ELSE n - 1}
        BY <2>3, <3>2
      <4> QED
        BY <4>1, <4>2
    <3> QED
      BY <2>3, <3>1, <3>2 DEF ScreenInv
  <2>5. rot' \in [index : Nat, since : Nat]
    <3>1. rot.since \in Nat /\ rot.since + 1 \in Nat
      BY <1>0
    <3> QED
      BY <1>0, <1>7, <3>1 DEF S!Second
  <2>6. TapFollowsScreen'
    BY <2>3, <2>4, ZenonT(40) DEF ScreenInv, TapFollowsScreen, S!TapFollowsScreen, S!DefaultTap, S!Nothing
  <2> QED
    BY <2>1, <2>2, <2>3, <2>4, <2>5, <2>6 DEF ScreenInv
<1>8. S!Look \/ S!Sampled \/ (\E s \in Configs : S!Other(s)) => ScreenInv' /\ CountsTo(timer, timer')
  <2>1. (~playing) \in BOOLEAN
    BY Zenon
  <2> QED
    BY <1>0, <1>2, <2>1 DEF S!Look, S!Sampled, S!Other
<1> QED
  BY <1>3, <1>4, <1>5, <1>6, <1>7, <1>8 DEF S!Next

LEMMA WideHolds == DeckSpec => []ScreenInv
<1>1. DeckInit => ScreenInv
  BY WideInit DEF DeckInit
<1>2. ScreenInv /\ [InControls \/ InNav \/ InWide]_<<part, controls, nav, wide>> => ScreenInv'
  <2>1. ASSUME ScreenInv, UNCHANGED wide PROVE ScreenInv'
    BY <2>1 DEF wide, ScreenInv, TapFollowsScreen, S!TapFollowsScreen, S!DefaultTap
  <2>2. ASSUME ScreenInv, InWide PROVE ScreenInv'
    BY <2>2, WideNext DEF InWide
  <2> QED
    BY <2>1, <2>2 DEF InControls, InNav
<1> QED
  BY <1>1, <1>2, PTL DEF DeckSpec

\* What a tap does is what the wide screen shows (ScreenRuntime::default_tap,
\* takeover), for any screens, widgets and times that music holds it.
THEOREM TapFollows == DeckSpec => []TapFollowsScreen
<1>1. ScreenInv => TapFollowsScreen
  BY DEF ScreenInv
<1> QED
  BY <1>1, WideHolds, PTL

\* Every step of the screen's timer (TimerState) is one of a countdown or none,
\* for any screens, durations and additions.
THEOREM TimerCountsDown == DeckSpec => ImplementsCountdown
<1>1. DeckInit => S!Promised!Init
  BY WideInit DEF DeckInit
<1>2. ScreenInv /\ ScreenInv' /\ [InControls \/ InNav \/ InWide]_<<part, controls, nav, wide>>
      => [S!Promised!Next]_<<S!Remaining(timer), timer.running>>
  <2>1. ASSUME UNCHANGED wide PROVE UNCHANGED <<S!Remaining(timer), timer.running>>
    BY <2>1 DEF wide, S!Remaining
  <2>2. ASSUME ScreenInv, ScreenInv', InWide
        PROVE  [S!Promised!Next]_<<S!Remaining(timer), timer.running>>
    BY <2>2, WideNext, CountsToSteps DEF InWide, ScreenInv
  <2> QED
    BY <2>1, <2>2 DEF InControls, InNav
<1> QED
  BY <1>1, <1>2, WideHolds, PTL
     DEF DeckSpec, ImplementsCountdown, S!ImplementsCountdown, S!Promised!Spec

=============================================================================
