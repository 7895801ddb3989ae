--------------------------- MODULE SettingsProofs ---------------------------
(***************************************************************************)
(* Proofs about Settings, for any calls, secrets and bounds, and about     *)
(* ProfileSync in the behaviours of MCService.                             *)
(*                                                                         *)
(* One call at a time is past the lock (Alone), so that what it read is    *)
(* what the file says until it saves (Fresh); until the deck overwrites    *)
(* the file, all that know the settings have what a client saved last, or  *)
(* the call that will tell them is under way (Told), and a text of the app *)
(* that no switch has overtaken says what the file says (Current).         *)
(*                                                                         *)
(* Of the profiles, SyncInv says that those who hold a text of a profile   *)
(* stand in an order (Before): a save of the queue, the queue, the editor, *)
(* and a save at once beside all of them.  None lacks an edit of the file, *)
(* nor one of a holder before it, but what is in Slack (Chain), and each   *)
(* edit is in the file, with a holder that will save it, told or in Slack  *)
(* (MadeKept).                                                             *)
(***************************************************************************)
EXTENDS MCService, SequenceTheorems, TLAPS

Call == [kind : Kinds, at : Steps, s : Contents,
         value : Secrets \cup {None}, changed : {"yes", "no"}]

\* TypeOK without the bounds.
Typed ==
  /\ file \in Contents /\ deck \in Contents /\ window \in Contents
  /\ secret \in Secrets \cup {None}
  /\ messages \in Seq(Contents)
  /\ hostUp \in BOOLEAN /\ host \in OnOff
  /\ lock \in Tasks \cup {None}
  /\ call \in [Tasks -> Call]
  /\ said \in OnOff /\ overwrote \in BOOLEAN

\* Whoever is under way holds the lock.
Alone == \A t \in Tasks : call[t].at # "no" => lock = t

Changing(c) == c.kind \in {"enable", "apply"}
Begun(c) == c.at \notin {"no", "load"}

\* The settings that the call c holds are those of the file, but for what it
\* changes; none brings a plain copy back, nor adopts one over a newer secret.
Fresh(c) ==
  /\ Begun(c) /\ ~(Changing(c) /\ c.at = "save") => c.s.on = file.on
  /\ c.at = "save" => c.s.plain \in {file.plain, None}
  /\ Begun(c) /\ c.kind = "secret" => c.s.plain = None
  /\ c.kind = "secret" /\ c.at \in {"hand", "store", "send"} => file.plain = None
  /\ Begun(c) /\ given # "nothing" =>
       c.s.plain = None /\ ~(c.kind \in {"adopt", "ready"} /\ c.at = "store")
  /\ c.at = "send" => c.kind # "ready"

\* The call c is yet to tell the actor, or the host, what the file says.
Tells(c) == Changing(c) /\ c.at \in {"hand", "send"}
Hands(c) ==
  \/ Changing(c) /\ c.at = "hand"
  \/ c.kind = "ready" /\ c.at # "no"

\* What the actor will have once it has heard all.
Newest == IF messages = <<>> THEN deck ELSE messages[Len(messages)]

Told ==
  /\ file.on = said
  /\ given # "nothing" => secret = given /\ file.plain = None
  /\ (\A t \in Tasks : ~Tells(call[t])) => Newest.on = said
  /\ hostUp /\ (\A t \in Tasks : ~Hands(call[t])) => host = said

Kept == ~overwrote => Told /\ \A t \in Tasks : Fresh(call[t])

IInv == Typed /\ Alone /\ Kept

-----------------------------------------------------------------------------
(* The steps of a call.                                                    *)

LEMMA NoCallType == NoCall \in Call
BY DEF NoCall, Call, Kinds, Steps, Contents, OnOff

LEMMA GoesOnFacts ==
  ASSUME call \in [Tasks -> Call], NEW t \in Tasks, NEW step \in Steps, GoesOn(t, step)
  PROVE  /\ call' \in [Tasks -> Call] /\ lock' = lock
         /\ call'[t] = [call[t] EXCEPT !.at = step]
         /\ \A u \in Tasks : u # t => call'[u] = call[u]
BY DEF GoesOn, Call

LEMMA HoldingFacts ==
  ASSUME call \in [Tasks -> Call], NEW t \in Tasks, NEW step \in Steps,
         NEW s \in Contents, Holding(t, step, s)
  PROVE  /\ call' \in [Tasks -> Call] /\ lock' = lock
         /\ call'[t] = [call[t] EXCEPT !.at = step, !.s = s]
         /\ \A u \in Tasks : u # t => call'[u] = call[u]
BY DEF Holding, Call

LEMMA EndsFacts ==
  ASSUME call \in [Tasks -> Call], NEW t \in Tasks, Ends(t)
  PROVE  /\ call' \in [Tasks -> Call] /\ lock' = None
         /\ call'[t] = NoCall
         /\ \A u \in Tasks : u # t => call'[u] = call[u]
BY NoCallType DEF Ends

-----------------------------------------------------------------------------
(* With one call under way, Kept is about that one.                        *)

KeptBy(t) ==
  ~overwrote =>
    /\ file.on = said
    /\ given # "nothing" => secret = given /\ file.plain = None
    /\ ~Tells(call[t]) => Newest.on = said
    /\ hostUp /\ ~Hands(call[t]) => host = said
    /\ Fresh(call[t])

Idle(t) == call[t].at = "no"
OthersIdle(t) == \A u \in Tasks : u # t => Idle(u)

LEMMA IdleFacts ==
  ASSUME NEW t \in Tasks, Idle(t)
  PROVE  ~Tells(call[t]) /\ ~Hands(call[t]) /\ Fresh(call[t])
BY DEF Idle, Tells, Hands, Fresh, Begun

LEMMA IdleFactsNext ==
  ASSUME NEW t \in Tasks, Idle(t)'
  PROVE  ~Tells(call[t])' /\ ~Hands(call[t])' /\ Fresh(call[t])'
BY DEF Idle, Tells, Hands, Fresh, Begun

LEMMA KeptByOne ==
  ASSUME NEW t \in Tasks, OthersIdle(t), Kept
  PROVE  KeptBy(t)
BY IdleFacts DEF KeptBy, Kept, Told, OthersIdle

LEMMA KeptByOneNext ==
  ASSUME NEW t \in Tasks, OthersIdle(t)', KeptBy(t)'
  PROVE  Kept'
BY IdleFactsNext DEF KeptBy, Kept, Told, OthersIdle

LEMMA UnderWay ==
  ASSUME Alone, NEW t \in Tasks, ~Idle(t)
  PROVE  OthersIdle(t) /\ lock = t
BY DEF Alone, OthersIdle, Idle

LEMMA AllIdle ==
  ASSUME None \notin Tasks, Alone, lock = None, NEW t \in Tasks
  PROVE  Idle(t) /\ OthersIdle(t)
BY DEF Alone, OthersIdle, Idle

\* A step of t keeps the others idle, and the lock.
LEMMA OthersStay ==
  ASSUME NEW t \in Tasks, OthersIdle(t), \A u \in Tasks : u # t => call'[u] = call[u],
         lock' = t \/ Idle(t)'
  PROVE  OthersIdle(t)' /\ Alone'
BY DEF OthersIdle, Idle, Alone

-----------------------------------------------------------------------------
(* Each step of a call.                                                    *)

LEMMA SaveStep ==
  ASSUME IInv, NEW t \in Tasks, Save(t)
  PROVE  IInv'
<1>1. OthersIdle(t) /\ lock = t /\ KeptBy(t)
  BY UnderWay, KeptByOne DEF IInv, Idle, Save
<1>2. call \in [Tasks -> Call] /\ call[t] \in Call
  BY DEF IInv, Typed
<1>3. /\ call' \in [Tasks -> Call] /\ lock' = lock
      /\ call'[t] = [call[t] EXCEPT !.at = "hand"]
      /\ \A u \in Tasks : u # t => call'[u] = call[u]
  BY <1>2, GoesOnFacts DEF Save, Steps
<1>4. OthersIdle(t)' /\ Alone'
  BY <1>1, <1>3, OthersStay
<1>5. Typed'
  BY <1>2, <1>3 DEF IInv, Typed, Save, Call, Contents
<1>6. KeptBy(t)'
  BY <1>1, <1>2, <1>3 DEF Save, Call, Contents, Newest, KeptBy, Tells, Hands, Changing, Fresh, Begun
<1> QED
  BY <1>4, <1>5, <1>6, KeptByOneNext DEF IInv

LEMMA SaveFailsStep ==
  ASSUME IInv, NEW t \in Tasks, SaveFails(t)
  PROVE  IInv'
<1>1. OthersIdle(t) /\ lock = t /\ KeptBy(t)
  BY UnderWay, KeptByOne DEF IInv, Idle, SaveFails
<1>2. call \in [Tasks -> Call] /\ call[t] \in Call
  BY DEF IInv, Typed
<1>3. CASE call[t].kind \in {"adopt", "ready"}
  <2>1. /\ call' \in [Tasks -> Call] /\ lock' = lock
        /\ call'[t] = [call[t] EXCEPT !.at = "hand"]
        /\ \A u \in Tasks : u # t => call'[u] = call[u]
    BY <1>2, <1>3, GoesOnFacts DEF SaveFails, Steps
  <2>2. OthersIdle(t)' /\ Alone'
    BY <1>1, <2>1, OthersStay
  <2>3. Typed'
    BY <2>1 DEF IInv, Typed, SaveFails, history, bounds
  <2>4. KeptBy(t)'
    BY <1>1, <1>2, <1>3, <2>1
    DEF SaveFails, history, Call, Newest, KeptBy, Tells, Hands, Changing, Fresh, Begun
  <2> QED
    BY <2>2, <2>3, <2>4, KeptByOneNext DEF IInv
<1>4. CASE call[t].kind \notin {"adopt", "ready"}
  <2>1. /\ call' \in [Tasks -> Call] /\ lock' = None
        /\ call'[t] = NoCall
        /\ \A u \in Tasks : u # t => call'[u] = call[u]
    BY <1>2, <1>4, EndsFacts DEF SaveFails
  <2>2. OthersIdle(t)' /\ Alone'
    BY <1>1, <2>1, OthersStay DEF Idle, NoCall
  <2>3. Typed'
    BY <2>1 DEF IInv, Typed, SaveFails, history, bounds
  <2>4. KeptBy(t)'
    BY <1>1, <1>2, <1>4, <2>1
    DEF SaveFails, history, Call, NoCall, Newest, KeptBy, Tells, Hands, Changing, Fresh, Begun
  <2> QED
    BY <2>2, <2>3, <2>4, KeptByOneNext DEF IInv
<1> QED
  BY <1>3, <1>4

LEMMA HandStep ==
  ASSUME IInv, NEW t \in Tasks, Hand(t)
  PROVE  IInv'
<1>1. OthersIdle(t) /\ lock = t /\ KeptBy(t)
  BY UnderWay, KeptByOne DEF IInv, Idle, Hand
<1>2. call \in [Tasks -> Call] /\ call[t] \in Call
  BY DEF IInv, Typed
<1>3. CASE call[t].kind \in {"enable", "apply"}
  <2>1. /\ call' \in [Tasks -> Call] /\ lock' = lock
        /\ call'[t] = [call[t] EXCEPT !.at = "send"]
        /\ \A u \in Tasks : u # t => call'[u] = call[u]
    BY <1>2, <1>3, GoesOnFacts DEF Hand, Steps
  <2>2. OthersIdle(t)' /\ Alone'
    BY <1>1, <2>1, OthersStay
  <2>3. Typed'
    BY <1>2, <1>3, <2>1 DEF IInv, Typed, Hand, history, bounds, Call, Contents
  <2>4. KeptBy(t)'
    BY <1>1, <1>2, <1>3, <2>1
    DEF Hand, history, Call, Contents, Newest, KeptBy, Tells, Hands, Changing, Fresh, Begun
  <2> QED
    BY <2>2, <2>3, <2>4, KeptByOneNext DEF IInv
<1>4. CASE call[t].kind = "secret"
  <2>1. /\ call' \in [Tasks -> Call] /\ lock' = lock
        /\ call'[t] = [call[t] EXCEPT !.at = "store"]
        /\ \A u \in Tasks : u # t => call'[u] = call[u]
    BY <1>2, <1>4, GoesOnFacts DEF Hand, Steps
  <2>2. OthersIdle(t)' /\ Alone'
    BY <1>1, <2>1, OthersStay
  <2>3. Typed'
    BY <1>2, <1>4, <2>1 DEF IInv, Typed, Hand, history, bounds, Call, Contents
  <2>4. KeptBy(t)'
    BY <1>1, <1>2, <1>4, <2>1
    DEF Hand, history, Call, Contents, Newest, KeptBy, Tells, Hands, Changing, Fresh, Begun
  <2> QED
    BY <2>2, <2>3, <2>4, KeptByOneNext DEF IInv
<1>5. CASE call[t].kind \notin {"enable", "apply", "secret"}
  <2>1. /\ call' \in [Tasks -> Call] /\ lock' = None
        /\ call'[t] = NoCall
        /\ \A u \in Tasks : u # t => call'[u] = call[u]
    BY <1>2, <1>5, EndsFacts DEF Hand
  <2>2. OthersIdle(t)' /\ Alone'
    BY <1>1, <2>1, OthersStay DEF Idle, NoCall
  <2>3. Typed'
    BY <1>2, <1>5, <2>1 DEF IInv, Typed, Hand, history, bounds, Call, Contents
  <2>4. KeptBy(t)'
    BY <1>1, <1>2, <1>5, <2>1
    DEF Hand, history, Call, Contents, NoCall, Newest, KeptBy, Tells, Hands, Changing, Fresh, Begun
  <2> QED
    BY <2>2, <2>3, <2>4, KeptByOneNext DEF IInv
<1> QED
  BY <1>3, <1>4, <1>5

LEMMA StoreFailsStep ==
  ASSUME IInv, NEW t \in Tasks, StoreFails(t)
  PROVE  IInv'
<1>1. OthersIdle(t) /\ lock = t /\ KeptBy(t)
  BY UnderWay, KeptByOne DEF IInv, Idle, StoreFails
<1>2. call \in [Tasks -> Call] /\ call[t] \in Call
  BY DEF IInv, Typed
<1>3. CASE call[t].kind = "ready"
  <2>1. /\ call' \in [Tasks -> Call] /\ lock' = lock
        /\ call'[t] = [call[t] EXCEPT !.at = "hand"]
        /\ \A u \in Tasks : u # t => call'[u] = call[u]
    BY <1>2, <1>3, GoesOnFacts DEF StoreFails, Steps
  <2>2. OthersIdle(t)' /\ Alone'
    BY <1>1, <2>1, OthersStay
  <2>3. Typed'
    BY <1>2, <1>3, <2>1 DEF IInv, Typed, StoreFails, history, bounds, Call, Contents
  <2>4. KeptBy(t)'
    BY <1>1, <1>2, <1>3, <2>1
    DEF StoreFails, history, Call, Contents, Newest, KeptBy, Tells, Hands, Changing, Fresh, Begun
  <2> QED
    BY <2>2, <2>3, <2>4, KeptByOneNext DEF IInv
<1>4. CASE call[t].kind = "secret" /\ call[t].changed = "yes"
  <2>1. /\ call' \in [Tasks -> Call] /\ lock' = lock
        /\ call'[t] = [call[t] EXCEPT !.at = "send"]
        /\ \A u \in Tasks : u # t => call'[u] = call[u]
    BY <1>2, <1>4, GoesOnFacts DEF StoreFails, Steps
  <2>2. OthersIdle(t)' /\ Alone'
    BY <1>1, <2>1, OthersStay
  <2>3. Typed'
    BY <1>2, <1>4, <2>1 DEF IInv, Typed, StoreFails, history, bounds, Call, Contents
  <2>4. KeptBy(t)'
    BY <1>1, <1>2, <1>4, <2>1
    DEF StoreFails, history, Call, Contents, Newest, KeptBy, Tells, Hands, Changing, Fresh, Begun
  <2> QED
    BY <2>2, <2>3, <2>4, KeptByOneNext DEF IInv
<1>5. CASE call[t].kind # "ready" /\ ~(call[t].kind = "secret" /\ call[t].changed = "yes")
  <2>1. /\ call' \in [Tasks -> Call] /\ lock' = None
        /\ call'[t] = NoCall
        /\ \A u \in Tasks : u # t => call'[u] = call[u]
    BY <1>2, <1>5, EndsFacts DEF StoreFails
  <2>2. OthersIdle(t)' /\ Alone'
    BY <1>1, <2>1, OthersStay DEF Idle, NoCall
  <2>3. Typed'
    BY <1>2, <1>5, <2>1 DEF IInv, Typed, StoreFails, history, bounds, Call, Contents
  <2>4. KeptBy(t)'
    BY <1>1, <1>2, <1>5, <2>1
    DEF StoreFails, history, Call, Contents, NoCall, Newest, KeptBy, Tells, Hands, Changing, Fresh, Begun
  <2> QED
    BY <2>2, <2>3, <2>4, KeptByOneNext DEF IInv
<1> QED
  BY <1>3, <1>4, <1>5

LEMMA StoreStep ==
  ASSUME IInv, NEW t \in Tasks, Store(t)
  PROVE  IInv'
<1>1. OthersIdle(t) /\ lock = t /\ KeptBy(t)
  BY UnderWay, KeptByOne DEF IInv, Idle, Store
<1>2. call \in [Tasks -> Call] /\ call[t] \in Call
  BY DEF IInv, Typed
<1>3. CASE call[t].kind = "secret" /\ call[t].changed = "yes"
  <2>1. /\ call' \in [Tasks -> Call] /\ lock' = lock
        /\ call'[t] = [call[t] EXCEPT !.at = "send"]
        /\ \A u \in Tasks : u # t => call'[u] = call[u]
    BY <1>2, <1>3, GoesOnFacts DEF Store, Steps
  <2>2. OthersIdle(t)' /\ Alone'
    BY <1>1, <2>1, OthersStay
  <2>3. Typed'
    BY <1>2, <1>3, <2>1 DEF IInv, Typed, Store, history, bounds, Call, Contents
  <2>4. KeptBy(t)'
    BY <1>1, <1>2, <1>3, <2>1
    DEF Store, history, Call, Contents, Newest, KeptBy, Tells, Hands, Changing, Fresh, Begun
  <2> QED
    BY <2>2, <2>3, <2>4, KeptByOneNext DEF IInv
<1>4. CASE call[t].kind = "secret" /\ call[t].changed # "yes"
  <2>1. /\ call' \in [Tasks -> Call] /\ lock' = None
        /\ call'[t] = NoCall
        /\ \A u \in Tasks : u # t => call'[u] = call[u]
    BY <1>2, <1>4, EndsFacts DEF Store
  <2>2. OthersIdle(t)' /\ Alone'
    BY <1>1, <2>1, OthersStay DEF Idle, NoCall
  <2>3. Typed'
    BY <1>2, <1>4, <2>1 DEF IInv, Typed, Store, history, bounds, Call, Contents
  <2>4. KeptBy(t)'
    BY <1>1, <1>2, <1>4, <2>1
    DEF Store, history, Call, Contents, NoCall, Newest, KeptBy, Tells, Hands, Changing, Fresh, Begun
  <2> QED
    BY <2>2, <2>3, <2>4, KeptByOneNext DEF IInv
<1>5. CASE call[t].kind # "secret"
  <2>1. /\ call' \in [Tasks -> Call] /\ lock' = lock
        /\ call'[t] = [call[t] EXCEPT !.at = "save", !.s = [call[t].s EXCEPT !.plain = None]]
        /\ \A u \in Tasks : u # t => call'[u] = call[u]
    BY <1>2, <1>5, HoldingFacts DEF Store, Steps, Call, Contents
  <2>2. OthersIdle(t)' /\ Alone'
    BY <1>1, <2>1, OthersStay
  <2>3. Typed'
    BY <1>2, <1>5, <2>1 DEF IInv, Typed, Store, history, bounds, Call, Contents
  <2>4. KeptBy(t)'
    BY <1>1, <1>2, <1>5, <2>1
    DEF Store, history, Call, Contents, Newest, KeptBy, Tells, Hands, Changing, Fresh, Begun
  <2> QED
    BY <2>2, <2>3, <2>4, KeptByOneNext DEF IInv
<1> QED
  BY <1>3, <1>4, <1>5

LEMMA LastOfAppend ==
  ASSUME NEW S, NEW q \in Seq(S), NEW e \in S
  PROVE  /\ Append(q, e) \in Seq(S) /\ Append(q, e) # <<>>
         /\ Append(q, e)[Len(Append(q, e))] = e
OBVIOUS

LEMMA SendStep ==
  ASSUME IInv, NEW t \in Tasks, Send(t)
  PROVE  IInv'
<1>1. OthersIdle(t) /\ lock = t /\ KeptBy(t)
  BY UnderWay, KeptByOne DEF IInv, Idle, Send
<1>2. call \in [Tasks -> Call] /\ call[t] \in Call
  BY DEF IInv, Typed
<1>3. /\ call' \in [Tasks -> Call] /\ lock' = None
      /\ call'[t] = NoCall
      /\ \A u \in Tasks : u # t => call'[u] = call[u]
  BY <1>2, EndsFacts DEF Send
<1>4. OthersIdle(t)' /\ Alone'
  BY <1>1, <1>3, OthersStay DEF Idle, NoCall
<1>5. messages' \in Seq(Contents) /\ Newest' = call[t].s
  BY <1>2, LastOfAppend DEF Send, Newest, IInv, Typed, Call
<1>6. Typed'
  BY <1>3, <1>5 DEF IInv, Typed, Send, history, bounds
<1>7. KeptBy(t)'
  BY <1>1, <1>2, <1>3, <1>5
  DEF Send, history, Call, NoCall, KeptBy, Tells, Hands, Changing, Fresh, Begun
<1> QED
  BY <1>4, <1>6, <1>7, KeptByOneNext DEF IInv

LEMMA LoadStep ==
  ASSUME IInv, NEW t \in Tasks, Load(t)
  PROVE  IInv'
<1>1. OthersIdle(t) /\ lock = t /\ KeptBy(t)
  BY UnderWay, KeptByOne DEF IInv, Idle, Load
<1>2. call \in [Tasks -> Call] /\ call[t] \in Call /\ call[t].at = "load"
  BY DEF IInv, Typed, Load
<1>3. SUFFICES Typed' /\ Alone' /\ OthersIdle(t)' /\ KeptBy(t)'
  BY KeptByOneNext DEF IInv
<1> DEFINE Moved(c) == /\ call' \in [Tasks -> Call] /\ call'[t] = c
                       /\ \A u \in Tasks : u # t => call'[u] = call[u]
<1>4. Typed' <=> call' \in [Tasks -> Call] /\ lock' \in Tasks \cup {None}
  BY DEF IInv, Typed, Load, history, bounds
<1>5. CASE LoadEnable(t)
  <2>1. PICK s \in Contents : s = [file EXCEPT !.on = call[t].s.on]
    BY <1>2 DEF Call, Contents, IInv, Typed
  <2>2. Holding(t, "save", s)
    BY <1>5, <2>1 DEF LoadEnable
  <2>3. Moved([call[t] EXCEPT !.at = "save", !.s = s]) /\ lock' = lock
    BY <1>2, <2>2, HoldingFacts DEF Steps
  <2>4. KeptBy(t)'
    BY <1>1, <1>2, <1>5, <2>1, <2>3
    DEF Load, LoadEnable, IInv, Typed, history, Call, Contents, Newest, KeptBy, Tells, Hands, Changing, Fresh, Begun
  <2> QED
    BY <1>1, <1>4, <2>3, <2>4, OthersStay
<1>6. CASE LoadApply(t)
  <2>1. PICK s \in Contents : s = [call[t].s EXCEPT !.plain = IF @ = None THEN None ELSE file.plain]
    BY <1>2 DEF Call, Contents, IInv, Typed
  <2>2. Holding(t, "save", s)
    BY <1>6, <2>1 DEF LoadApply
  <2>3. Moved([call[t] EXCEPT !.at = "save", !.s = s]) /\ lock' = lock
    BY <1>2, <2>2, HoldingFacts DEF Steps
  <2>4. KeptBy(t)'
    BY <1>1, <1>2, <1>6, <2>1, <2>3
    DEF Load, LoadApply, IInv, Typed, history, Call, Contents, Newest, KeptBy, Tells, Hands, Changing, Fresh, Begun
  <2> QED
    BY <1>1, <1>4, <2>3, <2>4, OthersStay
<1>7. CASE LoadSecret(t)
  <2>1. Moved([call[t] EXCEPT !.at = IF file.plain = None THEN "store" ELSE "save",
                              !.s = [file EXCEPT !.plain = None],
                              !.changed = IF file.plain = None THEN "no" ELSE "yes"])
        /\ lock' = lock
    BY <1>2, <1>7 DEF LoadSecret, Steps, Call, Contents, IInv, Typed
  <2>2. KeptBy(t)'
    BY <1>1, <1>2, <1>7, <2>1
    DEF Load, LoadSecret, IInv, Typed, history, Call, Contents, Newest, KeptBy, Tells, Hands, Changing, Fresh, Begun
  <2> QED
    BY <1>1, <1>4, <2>1, <2>2, OthersStay
<1>8. CASE LoadAdopt(t) /\ file.plain = None
  <2>1. Moved(NoCall) /\ lock' = None
    BY <1>2, <1>8, EndsFacts DEF LoadAdopt
  <2>2. KeptBy(t)'
    BY <1>1, <1>2, <1>8, <2>1
    DEF Load, LoadAdopt, history, Call, NoCall, Newest, KeptBy, Tells, Hands, Changing, Fresh, Begun
  <2> QED
    BY <1>1, <1>4, <2>1, <2>2, OthersStay DEF Idle, NoCall
<1>9. CASE LoadAdopt(t) /\ file.plain # None
  <2>1. Moved([call[t] EXCEPT !.at = "store", !.s = file]) /\ lock' = lock
    BY <1>2, <1>9, HoldingFacts DEF LoadAdopt, Steps, IInv, Typed
  <2>2. KeptBy(t)'
    BY <1>1, <1>2, <1>9, <2>1
    DEF Load, LoadAdopt, history, Call, Newest, KeptBy, Tells, Hands, Changing, Fresh, Begun
  <2> QED
    BY <1>1, <1>4, <2>1, <2>2, OthersStay
<1>10. CASE LoadReady(t)
  <2>1. PICK step \in Steps : step = IF file.plain = None THEN "hand" ELSE "store"
    BY DEF Steps
  <2>2. Holding(t, step, file) /\ file \in Contents
    BY <1>10, <2>1 DEF LoadReady, IInv, Typed
  <2>3. Moved([call[t] EXCEPT !.at = step, !.s = file])
        /\ lock' = lock
    BY <1>2, <2>2, HoldingFacts
  <2>4. KeptBy(t)'
    BY <1>1, <1>2, <1>10, <2>1, <2>3
    DEF Load, LoadReady, history, Call, Newest, KeptBy, Tells, Hands, Changing, Fresh, Begun
  <2> QED
    BY <1>1, <1>4, <2>3, <2>4, OthersStay
<1> QED
  BY <1>5, <1>6, <1>7, <1>8, <1>9, <1>10 DEF Load

LEMMA BeginStep ==
  ASSUME IInv, None \notin Tasks, NEW t \in Calls, NEW kind \in Kinds, NEW s \in Contents,
         NEW value \in Secrets \cup {None}, kind # "ready", Begin(t, kind, s, value)
  PROVE  IInv'
<1>1. t \in Tasks /\ Idle(t) /\ OthersIdle(t) /\ KeptBy(t)
  BY AllIdle, KeptByOne DEF Begin, Free, IInv, Tasks
<1>2. call \in [Tasks -> Call]
  BY DEF IInv, Typed
<1>3. PICK c \in Call : /\ c.kind = kind /\ c.at = "load"
                        /\ call' = [call EXCEPT ![t] = c]
  BY <1>1 DEF Begin, Call, Steps
<1>4. /\ call' \in [Tasks -> Call] /\ call'[t] = c
      /\ \A u \in Tasks : u # t => call'[u] = call[u]
  BY <1>1, <1>2, <1>3
<1>5. OthersIdle(t)' /\ Alone'
  BY <1>1, <1>4, OthersStay DEF Begin
<1>6. Typed'
  BY <1>1, <1>4 DEF IInv, Typed, Begin, history
<1>7. KeptBy(t)'
  BY <1>1, <1>3, <1>4, IdleFacts
  DEF Begin, history, Newest, KeptBy, Tells, Hands, Changing, Fresh, Begun
<1> QED
  BY <1>1, <1>5, <1>6, <1>7, KeptByOneNext DEF IInv

LEMMA ReadyStep ==
  ASSUME IInv, None \notin Tasks, Ready
  PROVE  IInv'
<1>1. "ready" \in Tasks /\ Idle("ready") /\ OthersIdle("ready") /\ KeptBy("ready")
  BY AllIdle, KeptByOne DEF Ready, Free, IInv, Tasks
<1>2. call \in [Tasks -> Call]
  BY DEF IInv, Typed
<1>3. PICK c \in Call : /\ c.kind = "ready" /\ c.at = "load"
                        /\ call' = [call EXCEPT !["ready"] = c]
  BY NoCallType DEF Ready, Call, Kinds, Steps
<1>4. /\ call' \in [Tasks -> Call] /\ call'["ready"] = c
      /\ \A u \in Tasks : u # "ready" => call'[u] = call[u]
  BY <1>1, <1>2, <1>3
<1>5. OthersIdle("ready")' /\ Alone'
  BY <1>1, <1>4, OthersStay DEF Ready
<1>6. Typed'
  BY <1>1, <1>4 DEF IInv, Typed, Ready, history
<1>7. KeptBy("ready")'
  BY <1>1, <1>3, <1>4, IdleFacts
  DEF Ready, history, Newest, KeptBy, Tells, Hands, Changing, Fresh, Begun
<1> QED
  BY <1>1, <1>5, <1>6, <1>7, KeptByOneNext DEF IInv

-----------------------------------------------------------------------------
(* The steps of the others.                                                *)

LEMMA LastOfTail ==
  ASSUME NEW S, NEW q \in Seq(S), q # <<>>
  PROVE  /\ Head(q) \in S /\ Tail(q) \in Seq(S)
         /\ Tail(q) = <<>> => Head(q) = q[Len(q)]
         /\ Tail(q) # <<>> => Tail(q)[Len(Tail(q))] = q[Len(q)]
<1>1. /\ Tail(q) \in Seq(S) /\ Head(q) \in S /\ Head(q) = q[1]
      /\ \A i \in 1..Len(Tail(q)) : Tail(q)[i] = q[i + 1]
  BY HeadTailProperties
<1>2. PICK n \in Nat, m \in Nat : n = Len(Tail(q)) /\ m = Len(q) /\ n = m - 1
  BY HeadTailProperties, LenProperties
<1>3. CASE Tail(q) = <<>>
  <2>1. n = 0
    BY <1>1, <1>2, <1>3, EmptySeq
  <2>2. m = 1
    BY <1>2, <2>1
  <2> QED
    BY <1>1, <1>2, <1>3, <2>2
<1>4. CASE Tail(q) # <<>>
  <2>1. n \in 1..Len(Tail(q)) /\ n + 1 = m
    BY <1>1, <1>2, <1>4, EmptySeq
  <2> QED
    BY <1>1, <1>2, <1>4, <2>1
<1> QED
  BY <1>3, <1>4

LEMMA HearsStep ==
  ASSUME IInv, Hears
  PROVE  IInv'
<1>1. Newest' = Newest /\ deck' \in Contents /\ messages' \in Seq(Contents)
  <2>1. messages \in Seq(Contents) /\ messages # <<>>
    BY DEF IInv, Typed, Hears
  <2>2. CASE Tail(messages) = <<>>
    BY <2>1, <2>2, LastOfTail DEF Hears, Newest
  <2>3. CASE Tail(messages) # <<>>
    BY <2>1, <2>3, LastOfTail DEF Hears, Newest
  <2> QED
    BY <2>2, <2>3
<1>2. Typed' /\ Alone'
  BY <1>1 DEF IInv, Typed, Alone, Hears, history, bounds
<1>3. Kept'
  BY <1>1 DEF IInv, Kept, Told, Fresh, Begun, Tells, Hands, Changing, Hears, history
<1> QED
  BY <1>2, <1>3 DEF IInv

LEMMA DeckSavesStep ==
  ASSUME IInv, DeckSaves
  PROVE  IInv'
<1>1. Typed' /\ Alone'
  BY DEF IInv, Typed, Alone, DeckSaves, service, bounds
<1>2. ~overwrote' => ~overwrote /\ file' = file
  BY DEF DeckSaves
<1>3. Kept'
  BY <1>2 DEF IInv, Kept, Told, Fresh, Begun, Tells, Hands, Changing, Newest, DeckSaves, service
<1> QED
  BY <1>1, <1>3 DEF IInv

LEMMA StopStep ==
  ASSUME IInv, Stop
  PROVE  IInv'
<1>1. call' \in [Tasks -> Call] /\ \A t \in Tasks : Idle(t)'
  BY NoCallType DEF Stop, Started, Idle, NoCall
<1>2. Typed' /\ Alone'
  <2>1. file \in Contents /\ file.on \in OnOff /\ <<>> \in Seq(Contents)
    BY DEF IInv, Typed, Contents
  <2>2. Alone'
    BY <1>1 DEF Alone, Idle
  <2> QED
    BY <1>1, <2>1, <2>2 DEF IInv, Typed, Stop, Started, history
<1>3. Kept'
  BY <1>1, IdleFactsNext DEF IInv, Kept, Told, Newest, Stop, Started, history
<1> QED
  BY <1>2, <1>3 DEF IInv

LEMMA Initially ==
  ASSUME Init
  PROVE  IInv
<1>1. call \in [Tasks -> Call] /\ \A t \in Tasks : Idle(t)
  BY NoCallType DEF Init, Idle, NoCall
<1>2. Typed /\ Alone
  <2>1. file \in Contents /\ file.on \in OnOff /\ <<>> \in Seq(Contents)
    BY DEF Init, Contents
  <2>2. Alone
    BY <1>1 DEF Alone, Idle
  <2> QED
    BY <1>1, <2>1, <2>2 DEF Typed, Init
<1>3. Kept
  BY <1>1, IdleFacts DEF Kept, Told, Newest, Init
<1> QED
  BY <1>2, <1>3 DEF IInv

LEMMA Stuttering ==
  ASSUME IInv, UNCHANGED <<file, secret, service, history>>, window' \in Contents
  PROVE  IInv'
BY DEF IInv, Typed, Alone, Kept, Told, Fresh, Begun, Tells, Hands, Changing, Newest, service, history

LEMMA Inductive ==
  ASSUME IInv, None \notin Tasks, [Next]_vars
  PROVE  IInv'
<1>1. file \in Contents /\ window \in Contents /\ None \in Secrets \cup {None}
  BY DEF IInv, Typed
<1>2. CASE \E t \in Calls : \E on \in OnOff : Enable(t, on)
  BY <1>1, <1>2, BeginStep DEF Enable, Kinds, Contents
<1>3. CASE \E t \in Calls : \E value \in Secrets \cup {None} : GiveSecret(t, value)
  BY <1>1, <1>3, BeginStep DEF GiveSecret, Kinds
<1>4. CASE \E t \in Calls : Adopt(t) \/ ApplySettings(t)
  BY <1>1, <1>4, BeginStep DEF Adopt, ApplySettings, Kinds
<1>5. CASE Ready
  BY <1>5, ReadyStep
<1>6. CASE \E t \in Tasks : \/ Load(t) \/ Save(t) \/ SaveFails(t) \/ Hand(t)
                          \/ Store(t) \/ StoreFails(t) \/ Send(t)
  BY <1>6, LoadStep, SaveStep, SaveFailsStep, HandStep, StoreStep, StoreFailsStep, SendStep
<1>7. CASE Hears
  BY <1>7, HearsStep
<1>8. CASE DeckSaves
  BY <1>8, DeckSavesStep
<1>9. CASE Fetch \/ UNCHANGED vars
  BY <1>1, <1>9, Stuttering DEF Fetch, vars
<1>10. CASE Stop
  BY <1>10, StopStep
<1> QED
  BY <1>2, <1>3, <1>4, <1>5, <1>6, <1>7, <1>8, <1>9, <1>10 DEF Next

-----------------------------------------------------------------------------
(* What follows.  No call is called None, which stands for a free lock.    *)

LEMMA Always ==
  ASSUME None \notin Tasks
  PROVE  Spec => []IInv
<1>1. Init => IInv
  BY Initially
<1>2. IInv /\ [Next]_vars => IInv'
  BY Inductive
<1> QED
  BY <1>1, <1>2, PTL DEF Spec

\* A secret given to the app stays in the store over restarts and adoptions,
\* for any number of calls, stops and messages, while the deck saves nothing
\* else than the file says (DeckService::write_secret, adopt_secrets).
THEOREM SecretsRemain ==
  ASSUME None \notin Tasks
  PROVE  Spec => []SecretsStay
<1>1. IInv => SecretsStay
  BY DEF IInv, Kept, Told, SecretsStay
<1> QED
  BY <1>1, Always, PTL

\* Between calls the file, the host and the actor have what a client saved
\* last (DeckService::apply_settings, plugin_set_enabled, plugins_ready).
THEOREM AllDo ==
  ASSUME None \notin Tasks
  PROVE  Spec => []AllDoAsSaid
<1>1. IInv => AllDoAsSaid
  <2>1. SUFFICES ASSUME IInv, ~overwrote, lock = None
                 PROVE  file.on = said /\ (hostUp => host = said) /\ (messages = <<>> => deck.on = said)
    BY DEF AllDoAsSaid
  <2>2. \A t \in Tasks : ~Tells(call[t]) /\ ~Hands(call[t])
    BY <2>1, AllIdle, IdleFacts DEF IInv
  <2> QED
    BY <2>1, <2>2 DEF IInv, Kept, Told, Newest
<1> QED
  BY <1>1, Always, PTL

-----------------------------------------------------------------------------
(* Who may turn the plugin on or off.                                      *)

\* A text of the app that is not of before a switch has what the file says.
UpToDate(t) ==
  call[t].kind = "apply" /\ call[t].at \in {"load", "save"} /\ t \notin behind =>
    call[t].s.on = file.on
Current == ~overwrote => \A t \in Tasks : UpToDate(t)

LEMMA IdleIsUpToDate ==
  ASSUME NEW t \in Tasks, Idle(t)'
  PROVE  UpToDate(t)'
BY DEF Idle, UpToDate

\* The step of a call disturbs no other's, as these are idle.
LEMMA CurrentOfOne ==
  ASSUME IInv, NEW t \in Tasks, ~Idle(t), \A u \in Tasks : u # t => call'[u] = call[u],
         ~overwrote' => UpToDate(t)'
  PROVE  Current'
<1>1. \A u \in Tasks : u # t => Idle(u)'
  BY UnderWay DEF IInv, OthersIdle, Idle
<1> QED
  BY <1>1, IdleIsUpToDate DEF Current

LEMMA CurrentLoad ==
  ASSUME IInv, Current, NEW t \in Tasks, Load(t)
  PROVE  Current'
<1>1. call \in [Tasks -> Call] /\ call[t] \in Call /\ file' = file
      /\ behind' = behind /\ overwrote' = overwrote /\ ~Idle(t) /\ call[t].at = "load"
  BY DEF IInv, Typed, Load, Idle, history
<1>2. \A u \in Tasks : u # t => call'[u] = call[u]
  BY <1>1 DEF Load, LoadEnable, LoadApply, LoadSecret, LoadAdopt, LoadReady, Holding, Ends
<1>3. CASE call[t].kind = "apply"
  <2>1. call'[t] = [call[t] EXCEPT !.at = "save",
                                   !.s = [call[t].s EXCEPT !.plain =
                                            IF @ = None THEN None ELSE file.plain]]
    BY <1>1, <1>3 DEF Load, LoadEnable, LoadApply, LoadSecret, LoadAdopt, LoadReady, Holding
  <2>2. call'[t].s.on = call[t].s.on
    BY <1>1, <2>1 DEF Call, Contents
  <2>3. ~overwrote => UpToDate(t)'
    BY <1>1, <1>3, <2>2 DEF Current, UpToDate
  <2> QED
    BY <1>1, <1>2, <2>3, CurrentOfOne
<1>4. CASE call[t].kind # "apply"
  <2>1. call'[t].kind # "apply"
    BY <1>1, <1>4
    DEF Load, LoadEnable, LoadApply, LoadSecret, LoadAdopt, LoadReady, Holding, Ends, NoCall,
        Call
  <2> QED
    BY <1>1, <1>2, <2>1, CurrentOfOne DEF UpToDate
<1> QED
  BY <1>3, <1>4

\* From the save on a call does not hold the text of the app; an adoption may
\* come back to its save.
LEMMA CurrentLater ==
  ASSUME IInv, Current, NEW t \in Tasks,
         Save(t) \/ SaveFails(t) \/ Hand(t) \/ Store(t) \/ StoreFails(t) \/ Send(t)
  PROVE  Current'
<1>1. call \in [Tasks -> Call] /\ call[t] \in Call /\ ~Idle(t)
  BY DEF IInv, Typed, Save, SaveFails, Hand, Store, StoreFails, Send, Idle
<1>2. \A u \in Tasks : u # t => call'[u] = call[u]
  BY <1>1 DEF Save, SaveFails, Hand, Store, StoreFails, Send, GoesOn, Holding, Ends
<1>3. call'[t].kind # "apply" \/ call'[t].at \notin {"load", "save"}
  <2>1. CASE Save(t) \/ SaveFails(t) \/ Send(t)
    BY <1>1, <2>1 DEF Save, SaveFails, Send, GoesOn, Ends, NoCall, Call
  <2>2. CASE Hand(t) \/ StoreFails(t)
    BY <1>1, <2>2 DEF Hand, StoreFails, GoesOn, Ends, NoCall, Call
  <2>3. CASE Store(t)
    BY <1>1, <2>3 DEF Store, GoesOn, Holding, Ends, NoCall, Call
  <2> QED
    BY <2>1, <2>2, <2>3
<1> QED
  BY <1>1, <1>2, <1>3, CurrentOfOne DEF UpToDate

LEMMA CurrentBegin ==
  ASSUME IInv, None \notin Tasks, NEW t \in Calls, NEW kind \in Kinds, NEW s \in Contents,
         NEW value \in Secrets \cup {None}, Begin(t, kind, s, value)
  PROVE  Current'
<1>1. t \in Tasks /\ Idle(t) /\ OthersIdle(t) /\ call \in [Tasks -> Call]
  BY AllIdle DEF Begin, Free, IInv, Tasks, Typed
<1>2. /\ call'[t] = [kind |-> kind, at |-> "load", s |-> s, value |-> value, changed |-> "no"]
      /\ \A u \in Tasks : u # t => Idle(u)'
  BY <1>1 DEF Begin, OthersIdle, Idle
<1>3. kind = "apply" /\ t \notin behind' => s.on = file.on
  BY DEF Begin
<1>4. UpToDate(t)'
  BY <1>2, <1>3 DEF UpToDate, Begin
<1> QED
  BY <1>2, <1>4, IdleIsUpToDate DEF Current

LEMMA CurrentReady ==
  ASSUME IInv, None \notin Tasks, Ready
  PROVE  Current'
<1>1. "ready" \in Tasks /\ OthersIdle("ready") /\ call \in [Tasks -> Call]
  BY AllIdle DEF Ready, Free, IInv, Tasks, Typed
<1>2. /\ call'["ready"].kind = "ready"
      /\ \A u \in Tasks : u # "ready" => Idle(u)'
  BY <1>1 DEF Ready, OthersIdle, Idle, NoCall
<1> QED
  BY <1>2, IdleIsUpToDate DEF Current, UpToDate

LEMMA CurrentStays ==
  ASSUME IInv, Current, None \notin Tasks, [Next]_vars
  PROVE  Current'
<1>1. file \in Contents /\ window \in Contents /\ None \in Secrets \cup {None}
  BY DEF IInv, Typed
<1>2. CASE \E t \in Calls : \E on \in OnOff : Enable(t, on)
  BY <1>1, <1>2, CurrentBegin DEF Enable, Kinds, Contents
<1>3. CASE \E t \in Calls : \E value \in Secrets \cup {None} : GiveSecret(t, value)
  BY <1>1, <1>3, CurrentBegin DEF GiveSecret, Kinds
<1>4. CASE \E t \in Calls : Adopt(t) \/ ApplySettings(t)
  BY <1>1, <1>4, CurrentBegin DEF Adopt, ApplySettings, Kinds
<1>5. CASE Ready
  BY <1>5, CurrentReady
<1>6. CASE \E t \in Tasks : \/ Load(t) \/ Save(t) \/ SaveFails(t) \/ Hand(t)
                          \/ Store(t) \/ StoreFails(t) \/ Send(t)
  BY <1>6, CurrentLoad, CurrentLater
<1>7. CASE Hears \/ Fetch \/ UNCHANGED vars
  BY <1>7 DEF Hears, Fetch, vars, service, history, Current, UpToDate
<1>8. CASE DeckSaves
  BY <1>8 DEF DeckSaves, service, Current, UpToDate
<1>9. CASE Stop
  <2>1. \A t \in Tasks : Idle(t)'
    BY <1>9 DEF Stop, Started, Idle, NoCall
  <2> QED
    BY <2>1, IdleIsUpToDate DEF Current
<1> QED
  BY <1>2, <1>3, <1>4, <1>5, <1>6, <1>7, <1>8, <1>9 DEF Next

\* No save of the service turns the plugin on or off unless it is about that, or
\* has a text that the app read before another switch, and none brings a plain
\* copy back, for any number of calls and stops (DeckService::settings_lock).
THEOREM NothingUndone ==
  ASSUME None \notin Tasks
  PROVE  Spec => ServiceLosesNothing
<1> DEFINE Undoes(t) == ~(\/ call[t].kind = "enable" \/ t \in behind
                          \/ file'.on = file.on)
                        \/ file'.plain \notin {file.plain, None}
<1>1. IInv /\ Current /\ [Next]_vars =>
        [\A t \in Tasks : Save(t) /\ ~overwrote => ~Undoes(t)]_vars
  <2>1. SUFFICES ASSUME IInv, Current, NEW t \in Tasks, Save(t), ~overwrote
                 PROVE  ~Undoes(t)
    OBVIOUS
  <2>2. Fresh(call[t]) /\ call[t].at = "save" /\ file' = call[t].s /\ UpToDate(t)
    BY <2>1 DEF IInv, Kept, Save, Current
  <2> QED
    BY <2>2 DEF Fresh, Begun, Changing, UpToDate
<1>2. [\A t \in Tasks : Save(t) /\ ~overwrote => ~Undoes(t)]_vars =>
        [\A t \in Tasks : Save(t) /\ ~overwrote =>
           /\ \/ call[t].kind = "enable" \/ t \in behind
              \/ file'.on = file.on
           /\ file'.plain \in {file.plain, None}]_vars
  OBVIOUS
<1>3. Init => IInv /\ Current
  <2>1. Init => Current
    BY DEF Init, Current, UpToDate, NoCall
  <2> QED
    BY <2>1, Initially
<1>4. IInv /\ Current /\ [Next]_vars => IInv' /\ Current'
  BY Inductive, CurrentStays
<1> HIDE DEF Undoes
<1> QED
  BY <1>1, <1>2, <1>3, <1>4, PTL DEF Spec, ServiceLosesNothing

-----------------------------------------------------------------------------
(* The profiles (ProfileSync in the behaviours of MCService).              *)

\* What the app put at risk, and what an import replaced.
Slack == risked \cup gone

\* All edits of t are in u, but for some of the slack.
Covers(t, u, slack) == t \cap P!Edits \subseteq u \cup slack

\* Who has a text of a profile in the app: a save of the queue, the queue, the
\* editor, and a save at once, from when it has read the profile.
Holders == P!Locking \cup {"queue", "editor", "now"}
NoText == [id |-> None, text |-> {}]
Reading == {"revision", "sent", "checked", "stale"}

Held == [h \in Holders |->
  IF h = "queue" THEN (IF pending = None THEN NoText ELSE pending)
  ELSE IF h = "editor" THEN [id |-> open, text |-> text]
  ELSE IF h = "now" /\ save["now"].at \notin Reading THEN NoText
  ELSE [id |-> save[h].id, text |-> save[h].text]]

\* In this order each has the edits of those before it: a save of the queue, the
\* queue, the editor.  A save at once has those of all, and all have its.
Before(g, h) ==
  g # h /\ (h \in P!Locking => g = "now") /\ (h = "queue" => g # "editor")

\* No holder lacks an edit of the file, nor one of a holder before it.
Chained(held, files, slack) ==
  \A h \in Holders : held[h].id \in Profiles =>
    /\ Covers(files[held[h].id], held[h].text, slack)
    /\ \A g \in Holders : Before(g, h) /\ held[g].id = held[h].id =>
         Covers(held[g].text, held[h].text, slack)

Chain == Chained(Held, profiles, Slack)

Active(s) == save[s].at # "no"
Clean ==
  \A s \in P!Savers : IF Active(s) THEN save[s].id \in Profiles ELSE save[s].id = None
OneByOne == \A s, t \in P!Locking : Active(s) /\ Active(t) => s = t

\* What was read of a profile that is opened, and what was written, is in its file.
Opened ==
  opening.at # "no" =>
    /\ opening.id \in Profiles
    /\ opening.at # "text" => Covers(opening.text, profiles[opening.id], Slack)
Written ==
  \A s \in P!Savers :
    save[s].at = "saved" => Covers(save[s].text, profiles[save[s].id], Slack)

\* An edit is in the file, or waits to be, or what became of it is recorded.
IsKept(p, e) ==
  \/ e \in profiles[p] \/ e \in told \/ e \in Slack
  \/ pending # None /\ pending.id = p /\ e \in pending.text
  \/ \E s \in P!Savers : save[s].id = p /\ e \in save[s].text
MadeKept == \A p \in Profiles : \A e \in made[p] : IsKept(p, e)

Bare == Clean /\ OneByOne /\ Chain /\ Opened /\ Written /\ MadeKept
SyncInv == P!TypeOK /\ Bare

Saves ==
  [at : {"no", "text", "revision", "sent", "checked", "saved", "stale"},
   id : Profiles \cup {None}, text : P!Text, rev : P!Revision, again : BOOLEAN]

-----------------------------------------------------------------------------
(* Lemmas about what is held.                                              *)

LEMMA NoSaveType == P!NoSave \in Saves /\ P!NoSave.at = "no" /\ P!NoSave.id = None
                    /\ P!NoSave.text = {}
BY DEF P!NoSave, Saves, P!Text, P!Revision

LEMMA NoneApart == None \notin Profiles /\ None \notin P!Queued
BY ProfilesAssumption

LEMMA SaversFacts ==
  /\ "now" \in P!Savers /\ "now" \notin P!Locking /\ P!Locking \subseteq P!Savers
  /\ \A s \in P!Savers : s \in P!Locking \/ s = "now"
BY DEF P!Savers, P!Locking

LEMMA HoldersFacts ==
  /\ {"queue", "editor", "now"} \subseteq Holders /\ P!Locking \subseteq Holders
  /\ \A h \in Holders : h \in P!Locking \/ h = "queue" \/ h = "editor" \/ h = "now"
  /\ "queue" \notin P!Locking /\ "editor" \notin P!Locking /\ "now" \notin P!Locking
BY DEF Holders, P!Locking

LEMMA HeldIs ==
  /\ \A s \in P!Locking : Held[s].id = save[s].id /\ Held[s].text = save[s].text
  /\ pending = None => Held["queue"].id = None
  /\ pending # None => Held["queue"] = pending
  /\ Held["editor"].id = open /\ Held["editor"].text = text
  /\ save["now"].at \notin Reading => Held["now"].id = None
  /\ save["now"].at \in Reading =>
       Held["now"].id = save["now"].id /\ Held["now"].text = save["now"].text
BY DEF Held, Holders, P!Locking, NoText

LEMMA HeldIsNext ==
  /\ \A s \in P!Locking : Held'[s].id = save'[s].id /\ Held'[s].text = save'[s].text
  /\ pending' = None => Held'["queue"].id = None
  /\ pending' # None => Held'["queue"] = pending'
  /\ Held'["editor"].id = open' /\ Held'["editor"].text = text'
  /\ save'["now"].at \notin Reading => Held'["now"].id = None
  /\ save'["now"].at \in Reading =>
       Held'["now"].id = save'["now"].id /\ Held'["now"].text = save'["now"].text
BY DEF Held, Holders, P!Locking, NoText

\* A holder keeps its text or has none any more.
Stays(H, K, h) == K[h].id \notin Profiles \/ (K[h].id = H[h].id /\ K[h].text = H[h].text)

LEMMA ChainKeeps ==
  ASSUME NEW H, NEW K, NEW D, NEW S, NEW S2, Chained(H, D, S), S \subseteq S2,
         \A h \in Holders : Stays(H, K, h)
  PROVE  Chained(K, D, S2)
BY DEF Chained, Covers, Stays

\* One holder has a new text.
LEMMA ChainTakes ==
  ASSUME NEW H, NEW K, NEW D, NEW S, NEW S2, Chained(H, D, S), S \subseteq S2,
         NEW k \in Holders, \A h \in Holders \ {k} : Stays(H, K, h),
         Covers(D[K[k].id], K[k].text, S2),
         \A g \in Holders \ {k} : K[g].id = K[k].id =>
           /\ Before(g, k) => Covers(K[g].text, K[k].text, S2)
           /\ Before(k, g) => Covers(K[k].text, K[g].text, S2)
  PROVE  Chained(K, D, S2)
<1>1. SUFFICES ASSUME NEW h \in Holders, K[h].id \in Profiles
               PROVE  /\ Covers(D[K[h].id], K[h].text, S2)
                      /\ \A g \in Holders : Before(g, h) /\ K[g].id = K[h].id =>
                           Covers(K[g].text, K[h].text, S2)
  BY DEF Chained
<1>2. CASE h = k
  BY <1>2 DEF Before
<1>3. CASE h # k
  <2>1. K[h].id = H[h].id /\ K[h].text = H[h].text
    BY <1>1, <1>3 DEF Stays
  <2>2. Covers(D[K[h].id], K[h].text, S2)
    BY <1>1, <2>1 DEF Chained, Covers
  <2>3. ASSUME NEW g \in Holders, Before(g, h), K[g].id = K[h].id
        PROVE  Covers(K[g].text, K[h].text, S2)
    <3>1. CASE g = k
      BY <1>3, <2>3, <3>1
    <3>2. CASE g # k
      <4>1. K[g].id = H[g].id /\ K[g].text = H[g].text
        BY <1>1, <2>3, <3>2 DEF Stays
      <4> QED
        BY <1>1, <2>1, <2>3, <4>1 DEF Chained, Covers
    <3> QED
      BY <3>1, <3>2
  <2> QED
    BY <2>2, <2>3
<1> QED
  BY <1>2, <1>3

\* A save writes what it holds; another of the queue is not under way.
LEMMA ChainWrites ==
  ASSUME NEW H, NEW K, NEW D, NEW E, NEW S, Chained(H, D, S),
         NEW k \in P!Locking \cup {"now"}, H[k].id \in Profiles,
         E[H[k].id] = H[k].text, \A p \in Profiles : p # H[k].id => E[p] = D[p],
         \A h \in Holders : Stays(H, K, h),
         \A h \in P!Locking : k \in P!Locking /\ h # k => K[h].id \notin Profiles
  PROVE  Chained(K, E, S)
<1>1. Chained(K, D, S)
  BY ChainKeeps
<1>2. ASSUME NEW h \in Holders, K[h].id \in Profiles
      PROVE  Covers(E[K[h].id], K[h].text, S)
  <2>1. K[h].id = H[h].id /\ K[h].text = H[h].text
    BY <1>2 DEF Stays
  <2>2. CASE K[h].id # H[k].id
    BY <1>1, <1>2, <2>2 DEF Chained
  <2>3. CASE K[h].id = H[k].id /\ h = k
    BY <2>1, <2>3 DEF Covers
  <2>4. CASE K[h].id = H[k].id /\ h # k
    <3>1. k \in Holders /\ Before(k, h)
      BY <1>2, <2>4, HoldersFacts DEF Before
    <3>2. Covers(H[k].text, H[h].text, S)
      BY <1>2, <2>1, <2>4, <3>1 DEF Chained
    <3> QED
      BY <2>1, <2>4, <3>2
  <2> QED
    BY <2>2, <2>3, <2>4
<1> QED
  BY <1>1, <1>2 DEF Chained

\* Edits go from the disk.
LEMMA ChainLoses ==
  ASSUME NEW H, NEW D, NEW E, NEW S, NEW S2, Chained(H, D, S), S \subseteq S2,
         \A p \in Profiles : E[p] \cap P!Edits \subseteq D[p]
  PROVE  Chained(H, E, S2)
<1>1. Chained(H, D, S2)
  BY ChainKeeps DEF Stays
<1> QED
  BY <1>1 DEF Chained, Covers

\* Of two holders of the same profile the second has what the first has.
LEMMA InOrder ==
  ASSUME Chain, NEW g \in Holders, NEW h \in Holders, Before(g, h),
         Held[h].id \in Profiles, Held[g].id = Held[h].id
  PROVE  Covers(Held[g].text, Held[h].text, Slack)
BY DEF Chain, Chained

LEMMA AfterDisk ==
  ASSUME Chain, NEW h \in Holders, Held[h].id \in Profiles
  PROVE  Covers(profiles[Held[h].id], Held[h].text, Slack)
BY DEF Chain, Chained

LEMMA SavesType ==
  ASSUME SyncInv
  PROVE  /\ save \in [P!Savers -> Saves]
         /\ \A s \in P!Savers : Active(s) => save[s].id \in Profiles
         /\ \A s \in P!Savers : ~Active(s) => save[s].id = None
BY DEF SyncInv, P!TypeOK, Saves, Bare, Clean

LEMMA OpenNotNone ==
  ASSUME SyncInv, open # None
  PROVE  open \in Profiles
BY DEF SyncInv, P!TypeOK

LEMMA SyncInit ==
  ASSUME P!Init
  PROVE  SyncInv
<1> USE DEF P!Init
<1>1. P!TypeOK
  <2>1. {} \in P!Text /\ 1 \in P!Revision /\ 0 \in 0..MaxTurns /\ 0 \in 0..MaxEdits
    BY ProfilesAssumption DEF P!Text, P!Revision
  <2>2. save \in [P!Savers -> Saves]
    BY NoSaveType
  <2>3. P!NotOpening \in [at : {"no", "text", "revision", "load"}, id : Profiles \cup {None},
                          text : P!Text]
    BY <2>1 DEF P!NotOpening
  <2> QED
    BY <2>1, <2>2, <2>3 DEF P!TypeOK, Saves
<1>2. \A s \in P!Savers : save[s].at = "no" /\ save[s].id = None
  BY NoSaveType
<1>3. Clean /\ OneByOne /\ Written
  BY <1>2, SaversFacts DEF Clean, OneByOne, Written, Active
<1>4. Opened /\ MadeKept
  BY DEF Opened, P!NotOpening, MadeKept
<1>5. Chain
  <2>1. \A h \in Holders : h # "editor" => Held[h].id = None
    BY <1>2, HeldIs, HoldersFacts, SaversFacts DEF Reading
  <2>2. Covers(profiles[Held["editor"].id], Held["editor"].text, Slack)
    BY HeldIs DEF Covers
  <2> QED
    BY <2>1, <2>2, NoneApart, HoldersFacts DEF Chain, Chained, Before
<1> QED
  BY <1>1, <1>3, <1>4, <1>5 DEF SyncInv, Bare

-----------------------------------------------------------------------------
(* What most steps have in common.                                         *)

\* Steps that change neither a file nor what is held; more may be at risk.
LEMMA Aside ==
  ASSUME SyncInv, UNCHANGED <<profiles, open, text, pending, told, gone, made, save>>,
         risked \subseteq risked', Opened'
  PROVE  Bare'
<1>1. Slack \subseteq Slack' /\ told' = told
  BY DEF Slack
<1>2. \A h \in Holders : Stays(Held, Held', h)
  BY HeldIs, HeldIsNext, HoldersFacts, NoneApart DEF Stays
<1>3. Chain'
  BY <1>1, <1>2, ChainKeeps DEF SyncInv, Bare, Chain
<1>4. Clean' /\ OneByOne' /\ Written' /\ MadeKept'
  BY <1>1 DEF SyncInv, Bare, Clean, OneByOne, Written, Covers, MadeKept, IsKept, Active
<1> QED
  BY <1>3, <1>4 DEF Bare

\* Saves that end, written or told.
LEMMA SavesEnd ==
  ASSUME SyncInv, NEW L \in SUBSET P!Savers,
         save' = [s \in P!Savers |-> IF s \in L THEN P!NoSave ELSE save[s]],
         told \subseteq told',
         \A s \in L : save[s].at = "saved" \/ save[s].text \cap P!Edits \subseteq told',
         UNCHANGED <<profiles, open, text, opening, pending, made, gone, risked>>
  PROVE  Bare'
<1>1. Slack' = Slack
  BY DEF Slack
<1>2. \A s \in P!Savers : (s \in L => save'[s] = P!NoSave) /\ (s \notin L => save'[s] = save[s])
  OBVIOUS
<1>3. Clean' /\ OneByOne' /\ Opened' /\ Written'
  BY <1>1, <1>2, NoSaveType, SaversFacts
  DEF SyncInv, Bare, Clean, OneByOne, Opened, Written, Active
<1>4. \A h \in Holders : Stays(Held, Held', h)
  <2>1. ASSUME NEW s \in P!Locking
        PROVE  Stays(Held, Held', s)
    BY <1>2, HeldIs, HeldIsNext, NoSaveType, NoneApart, SaversFacts DEF Stays
  <2>2. Stays(Held, Held', "now")
    BY <1>2, HeldIs, HeldIsNext, NoSaveType, NoneApart, SaversFacts DEF Stays
  <2>3. Stays(Held, Held', "queue") /\ Stays(Held, Held', "editor")
    BY HeldIs, HeldIsNext, NoneApart DEF Stays
  <2> QED
    BY <2>1, <2>2, <2>3, HoldersFacts
<1>5. Chain'
  BY <1>1, <1>4, ChainKeeps DEF SyncInv, Bare, Chain
<1>6. MadeKept'
  <2>1. SUFFICES ASSUME NEW p \in Profiles, NEW e \in made[p]
                 PROVE  IsKept(p, e)'
    BY DEF MadeKept
  <2>2. IsKept(p, e) /\ e \in P!Edits
    BY DEF SyncInv, Bare, MadeKept, P!TypeOK
  <2>3. CASE \E s \in P!Savers : save[s].id = p /\ e \in save[s].text
    <3>1. PICK s \in P!Savers : save[s].id = p /\ e \in save[s].text
      BY <2>3
    <3>2. CASE s \notin L
      BY <1>2, <3>1, <3>2 DEF IsKept
    <3>3. CASE s \in L /\ save[s].at = "saved"
      BY <1>1, <2>2, <3>1, <3>3 DEF SyncInv, Bare, Written, Covers, IsKept
    <3>4. CASE s \in L /\ save[s].text \cap P!Edits \subseteq told'
      BY <2>2, <3>1, <3>4 DEF IsKept
    <3> QED
      BY <3>2, <3>3, <3>4
  <2> QED
    BY <1>1, <2>2, <2>3 DEF IsKept
<1> QED
  BY <1>3, <1>5, <1>6 DEF Bare

\* A save goes on with its text.
LEMMA SaveGoesOn ==
  ASSUME SyncInv, NEW s \in P!Savers, NEW new \in Saves, save' = [save EXCEPT ![s] = new],
         save[s].at \in Reading, new.at \in Reading,
         new.id = save[s].id, new.text = save[s].text,
         UNCHANGED <<profiles, open, text, opening, pending, told, gone, made, risked>>
  PROVE  save' \in [P!Savers -> Saves] /\ Bare'
<1>1. /\ save' \in [P!Savers -> Saves]
      /\ save'[s] = new /\ \A t \in P!Savers : t # s => save'[t] = save[t]
  BY SavesType
<1>2. \A t \in P!Savers : /\ save'[t].id = save[t].id /\ save'[t].text = save[t].text
                          /\ (Active(t)' <=> Active(t))
                          /\ (save'[t].at \in Reading <=> save[t].at \in Reading)
                          /\ (save'[t].at = "saved" <=> save[t].at = "saved")
  BY <1>1 DEF Active, Reading
<1>3. Slack' = Slack
  BY DEF Slack
<1>4. Clean' /\ OneByOne' /\ Opened' /\ Written' /\ MadeKept'
  BY <1>2, <1>3, SaversFacts
  DEF SyncInv, Bare, Clean, OneByOne, Opened, Written, MadeKept, IsKept
<1>5. \A h \in Holders : Stays(Held, Held', h)
  BY <1>2, HeldIs, HeldIsNext, HoldersFacts, NoneApart, SaversFacts DEF Stays
<1>6. Chain'
  BY <1>3, <1>5, ChainKeeps DEF SyncInv, Bare, Chain
<1> QED
  BY <1>1, <1>4, <1>6 DEF Bare

-----------------------------------------------------------------------------
(* The editor.                                                             *)

LEMMA EditStep ==
  ASSUME SyncInv, P!Edit
  PROVE  SyncInv'
<1> USE DEF P!Edit
<1>0. open \in Profiles /\ edits + 1 \in P!Edits /\ edits + 1 \in 0..MaxEdits
  BY OpenNotNone, ProfilesAssumption DEF SyncInv, P!TypeOK, P!Edits
<1>1. /\ text' = text \cup {edits + 1} /\ text' \in P!Text
      /\ pending' = [id |-> open, text |-> text'] /\ pending' \in P!Queued
      /\ made' = [made EXCEPT ![open] = @ \cup {edits + 1}]
      /\ made' \in [Profiles -> SUBSET P!Edits]
  BY <1>0 DEF SyncInv, P!TypeOK, P!Apply, P!Queued, P!Text
<1>2. pending' # None /\ pending'.id = open /\ pending'.text = text'
  BY <1>1, NoneApart
<1>3. UNCHANGED <<profiles, open, save, told, gone, opening>>
  BY DEF P!service
<1>4. /\ risked \subseteq risked' /\ risked' \subseteq P!Edits
      /\ P!Dropped(open) \cap P!Edits \subseteq risked'
      /\ P!Racing(open) => edits + 1 \in risked'
  BY <1>0 DEF SyncInv, P!TypeOK
<1>5. Slack \subseteq Slack' /\ risked' \subseteq Slack'
  BY <1>3, <1>4 DEF Slack
<1>6. P!TypeOK'
  BY <1>0, <1>1, <1>3, <1>4 DEF SyncInv, P!TypeOK, P!service, P!Apply
<1>7. Clean' /\ OneByOne' /\ Opened' /\ Written'
  BY <1>3, <1>5 DEF SyncInv, Bare, Clean, OneByOne, Opened, Written, Active, Covers
<1>8. Chain'
  <2> DEFINE H == [Held EXCEPT !["editor"] = [id |-> open, text |-> text']]
  <2>0. DOMAIN Held = Holders
    BY DEF Held
  <2>1. /\ H["editor"].id = open /\ H["editor"].text = text'
        /\ \A h \in Holders : h # "editor" => H[h] = Held[h]
    BY <2>0, HoldersFacts
  <2> HIDE DEF H
  <2>2. ASSUME NEW h \in Holders, h # "editor", Held[h].id = open
        PROVE  Covers(Held[h].text, text', Slack')
    <3>1. Before(h, "editor")
      BY <2>2, HoldersFacts DEF Before
    <3>2. Covers(Held[h].text, text, Slack)
      BY <1>0, <2>2, <3>1, InOrder, HeldIs, HoldersFacts DEF SyncInv, Bare
    <3> QED
      BY <1>1, <1>5, <3>2 DEF Covers
  <2>3. Covers(profiles[open], text', Slack')
    <3>1. Covers(profiles[open], text, Slack)
      BY <1>0, AfterDisk, HeldIs, HoldersFacts DEF SyncInv, Bare
    <3> QED
      BY <1>1, <1>5, <3>1 DEF Covers
  <2>4. ASSUME Held["now"].id = open
        PROVE  Covers(text', Held["now"].text, Slack')
    <3>1. P!Racing(open)
      BY <1>0, <2>4, HeldIs, NoneApart DEF P!Racing, Reading
    <3>2. Before("editor", "now")
      BY HoldersFacts DEF Before
    <3>3. Covers(text, Held["now"].text, Slack)
      BY <1>0, <2>4, <3>2, InOrder, HeldIs, HoldersFacts DEF SyncInv, Bare
    <3> QED
      BY <1>1, <1>4, <1>5, <3>1, <3>3 DEF Covers
  <2>5. Chained(H, profiles, Slack')
    <3>1. \A h \in Holders \ {"editor"} : Stays(Held, H, h)
      BY <2>1 DEF Stays
    <3>2. \A h \in Holders : Before("editor", h) => h = "now"
      BY HoldersFacts DEF Before
    <3>3. \A g \in Holders \ {"editor"} : H[g].id = H["editor"].id =>
            /\ Before(g, "editor") => Covers(H[g].text, H["editor"].text, Slack')
            /\ Before("editor", g) => Covers(H["editor"].text, H[g].text, Slack')
      BY <2>1, <2>2, <2>4, <3>2
    <3>4. Covers(profiles[H["editor"].id], H["editor"].text, Slack')
      BY <2>1, <2>3
    <3>5. Chained(Held, profiles, Slack) /\ "editor" \in Holders
      BY HoldersFacts DEF SyncInv, Bare, Chain
    <3> QED
      BY <1>5, <3>1, <3>3, <3>4, <3>5, ChainTakes
  <2>6. /\ Held'["queue"].id = open /\ Held'["queue"].text = text'
        /\ \A h \in Holders : h # "queue" => Held'[h].id = H[h].id /\ (H[h].id # None => Held'[h].text = H[h].text)
    <3>1. Held'["queue"].id = open /\ Held'["queue"].text = text'
      BY <1>2, HeldIsNext
    <3>2. Held'["editor"].id = open /\ Held'["editor"].text = text'
      BY <1>3, HeldIsNext
    <3>3. \A h \in P!Locking : Held'[h].id = Held[h].id /\ Held'[h].text = Held[h].text
      BY <1>3, HeldIs, HeldIsNext
    <3>4. /\ Held'["now"].id = Held["now"].id
          /\ Held["now"].id # None => Held'["now"].text = Held["now"].text
      BY <1>3, HeldIs, HeldIsNext
    <3> QED
      BY <2>1, <3>1, <3>2, <3>3, <3>4, HoldersFacts
  <2>7. Chained(Held', profiles, Slack')
    <3>1. \A h \in Holders \ {"queue"} : Stays(H, Held', h)
      BY <2>6, NoneApart DEF Stays
    <3>2. ASSUME NEW g \in Holders \ {"queue"}, Held'[g].id = open
          PROVE  /\ Before(g, "queue") => Covers(Held'[g].text, text', Slack')
                 /\ Before("queue", g) => Covers(text', Held'[g].text, Slack')
      <4>1. H[g].id = open /\ Held'[g].text = H[g].text
        BY <1>0, <2>6, <3>2, NoneApart
      <4>2. CASE g = "editor"
        BY <2>1, <4>1, <4>2 DEF Covers
      <4>3. CASE g # "editor"
        <5>1. Held[g].id = open /\ Held'[g].text = Held[g].text
          BY <2>1, <4>1, <4>3
        <5>2. Before("queue", g) => g = "now"
          BY <3>2, <4>3, HoldersFacts DEF Before
        <5> QED
          BY <2>2, <2>4, <4>3, <5>1, <5>2
      <4> QED
        BY <4>2, <4>3
    <3>3. Covers(profiles[Held'["queue"].id], Held'["queue"].text, Slack')
      BY <2>3, <2>6
    <3>4. \A g \in Holders \ {"queue"} : Held'[g].id = Held'["queue"].id =>
            /\ Before(g, "queue") => Covers(Held'[g].text, Held'["queue"].text, Slack')
            /\ Before("queue", g) => Covers(Held'["queue"].text, Held'[g].text, Slack')
      BY <2>6, <3>2
    <3>5. "queue" \in Holders /\ Slack' \subseteq Slack'
      BY HoldersFacts
    <3> QED
      BY <2>5, <3>1, <3>3, <3>4, <3>5, ChainTakes
  <2> QED
    BY <1>3, <2>7 DEF Chain
<1>9. MadeKept'
  <2>1. SUFFICES ASSUME NEW p \in Profiles, NEW e \in made'[p]
                 PROVE  IsKept(p, e)'
    BY DEF MadeKept
  <2>2. CASE p = open /\ e = edits + 1
    BY <1>1, <1>2, <2>2 DEF IsKept
  <2>3. CASE e \in made[p]
    <3>1. IsKept(p, e) /\ e \in P!Edits
      BY <2>3 DEF SyncInv, Bare, MadeKept, P!TypeOK
    <3>2. CASE pending # None /\ pending.id = p /\ e \in pending.text /\ p = open
      <4>1. Before("queue", "editor")
        BY HoldersFacts DEF Before
      <4>2. Covers(pending.text, text, Slack)
        BY <3>2, <4>1, InOrder, HeldIs, HoldersFacts DEF SyncInv, Bare
      <4> QED
        BY <1>1, <1>2, <1>5, <3>1, <3>2, <4>2 DEF IsKept, Covers
    <3>3. CASE pending # None /\ pending.id = p /\ e \in pending.text /\ p # open
      <4>1. e \in profiles[p] \/ e \in risked'
        BY <1>4, <3>1, <3>3 DEF P!Dropped
      <4> QED
        BY <1>3, <1>5, <4>1 DEF IsKept
    <3> QED
      BY <1>3, <1>5, <3>1, <3>2, <3>3 DEF IsKept
  <2> QED
    BY <1>0, <1>1, <2>2, <2>3 DEF SyncInv, P!TypeOK
<1> QED
  BY <1>6, <1>7, <1>8, <1>9 DEF SyncInv, Bare

LEMMA OpenStep ==
  ASSUME SyncInv, NEW p \in Profiles, P!OpenProfile(p)
  PROVE  SyncInv'
<1> USE DEF P!OpenProfile
<1>1. opening' = [at |-> "text", id |-> p, text |-> {}] /\ {} \in P!Text
  BY DEF P!Text
<1>2. UNCHANGED <<profiles, open, text, save, pending, told, gone, made, risked>>
  BY DEF P!service, P!client, P!history
<1>3. turns' \in 0..MaxTurns
  BY ProfilesAssumption DEF SyncInv, P!TypeOK
<1>4. P!TypeOK'
  BY <1>1, <1>3 DEF SyncInv, P!TypeOK, P!service, P!client, P!history
<1>5. Opened'
  BY <1>1 DEF Opened
<1> QED
  BY <1>2, <1>4, <1>5, Aside DEF SyncInv

LEMMA OpenTextStep ==
  ASSUME SyncInv, P!OpenText
  PROVE  SyncInv'
<1> USE DEF P!OpenText
<1>0. opening.id \in Profiles /\ profiles[opening.id] \in P!Text
  BY DEF SyncInv, Bare, Opened, P!TypeOK
<1>1. UNCHANGED <<profiles, open, text, save, pending, told, gone, made, risked>>
  BY DEF P!service, P!client, P!history
<1>2. \/ up /\ opening' = [opening EXCEPT !.at = "revision", !.text = profiles[opening.id]]
      \/ ~up /\ opening' = P!NotOpening
  OBVIOUS
<1>3. \/ opening' = [at |-> "revision", id |-> opening.id, text |-> profiles[opening.id]]
      \/ opening' = P!NotOpening
  BY <1>2 DEF SyncInv, P!TypeOK
<1>4. P!TypeOK'
  <2>1. {} \in P!Text
    BY DEF P!Text
  <2>2. opening' \in [at : {"no", "text", "revision", "load"},
                      id : Profiles \cup {None}, text : P!Text]
    BY <1>0, <1>3, <2>1 DEF P!NotOpening
  <2> QED
    BY <2>2 DEF SyncInv, P!TypeOK, P!service, P!client, P!history
<1>5. Opened'
  BY <1>0, <1>1, <1>3 DEF Opened, Covers, P!NotOpening
<1> QED
  BY <1>1, <1>4, <1>5, Aside DEF SyncInv

LEMMA OpenRevisionStep ==
  ASSUME SyncInv, P!OpenRevision
  PROVE  SyncInv'
<1> USE DEF P!OpenRevision
<1>0. opening.id \in Profiles
  BY DEF SyncInv, Bare, Opened
<1>1. UNCHANGED <<profiles, open, text, save, pending, told, gone, made, risked>>
  BY DEF P!service, P!history
<1>2. \/ opening' = [at |-> "load", id |-> opening.id, text |-> opening.text]
      \/ opening' = P!NotOpening
  BY DEF SyncInv, P!TypeOK
<1>3. P!TypeOK'
  <2>1. {} \in P!Text
    BY DEF P!Text
  <2>2. opening' \in [at : {"no", "text", "revision", "load"},
                      id : Profiles \cup {None}, text : P!Text]
    <3>1. opening \in [at : {"no", "text", "revision", "load"}, id : Profiles \cup {None},
                      text : P!Text]
      BY DEF SyncInv, P!TypeOK
    <3>2. opening.text \in P!Text
      BY <3>1
    <3> QED
      BY <1>0, <1>2, <2>1, <3>2 DEF P!NotOpening
  <2>3. seen' \in [Profiles -> P!Revision]
    BY <1>0 DEF SyncInv, P!TypeOK
  <2> QED
    BY <2>2, <2>3 DEF SyncInv, P!TypeOK, P!service, P!history
<1>4. Opened'
  BY <1>1, <1>2 DEF SyncInv, Bare, Opened, Slack, P!NotOpening
<1> QED
  BY <1>1, <1>3, <1>4, Aside DEF SyncInv

\* The texts of a profile in the app, as holders.
LEMMA TextsHeld ==
  ASSUME SyncInv, NEW h \in Holders, Held[h].id \in Profiles, h # "now"
  PROVE  Held[h].text \in P!Texts(Held[h].id)
<1>1. CASE h \in P!Locking
  BY <1>1, HeldIs DEF P!Texts, P!Waiting
<1>2. CASE h = "queue"
  BY <1>2, HeldIs, NoneApart DEF P!Texts, P!Waiting
<1>3. CASE h = "editor"
  BY <1>3, HeldIs DEF P!Texts
<1> QED
  BY <1>1, <1>2, <1>3, HoldersFacts

LEMMA LoadProfileStep ==
  ASSUME SyncInv, P!LoadProfile
  PROVE  SyncInv'
<1> DEFINE id == opening.id
           known == profiles[id] \cup (UNION P!Texts(id))
                      \cup (IF save["now"].id = id THEN save["now"].text ELSE {})
<1>1. /\ opening.at = "load" /\ id \in Profiles /\ opening.text \in P!Text
      /\ open' = id /\ text' = opening.text
      /\ opening' = P!NotOpening /\ P!NotOpening.at = "no"
      /\ risked' = risked \cup ((known \ opening.text) \cap P!Edits)
  BY DEF P!LoadProfile, P!NotOpening, SyncInv, Bare, Opened, P!TypeOK
<1>2. UNCHANGED <<profiles, save, pending, told, gone, made>>
  BY DEF P!LoadProfile, P!service, P!client
<1>3. /\ Slack \subseteq Slack' /\ risked' \subseteq P!Edits
      /\ Covers(known, opening.text, Slack')
  BY <1>1, <1>2 DEF Slack, SyncInv, P!TypeOK, Covers
<1>4. P!TypeOK'
  <2>1. {} \in P!Text
    BY DEF P!Text
  <2>2. opening' \in [at : {"no", "text", "revision", "load"},
                      id : Profiles \cup {None}, text : P!Text]
    BY <1>1, <2>1 DEF P!NotOpening
  <2> QED
    BY <1>1, <1>3, <2>2 DEF SyncInv, P!TypeOK, P!LoadProfile, P!service, P!client
<1>5. Clean' /\ OneByOne' /\ Opened' /\ Written' /\ MadeKept'
  BY <1>1, <1>2, <1>3
  DEF SyncInv, Bare, Clean, OneByOne, Opened, Written, MadeKept, IsKept, Active, Covers
<1>6. Chain'
  <2>1. /\ Held'["editor"].id = id /\ Held'["editor"].text = opening.text
        /\ \A h \in Holders : h # "editor" => Stays(Held, Held', h)
    BY <1>1, <1>2, HeldIs, HeldIsNext, HoldersFacts, NoneApart DEF Stays
  <2>2. Covers(profiles[id], opening.text, Slack')
    BY <1>3 DEF Covers
  <2>3. ASSUME NEW g \in Holders, g # "editor", Held'[g].id = id
        PROVE  /\ Covers(Held'[g].text, opening.text, Slack')
               /\ g = "now" => Covers(opening.text, Held'[g].text, Slack')
    <3>1. Held[g].id = id /\ Held'[g].text = Held[g].text
      BY <1>1, <2>1, <2>3 DEF Stays
    <3>2. CASE g # "now"
      <4>1. Held[g].text \in P!Texts(id)
        BY <1>1, <3>1, <3>2, TextsHeld
      <4>2. Held[g].text \subseteq known
        BY <4>1
      <4> QED
        BY <1>3, <3>1, <3>2, <4>2 DEF Covers
    <3>3. CASE g = "now"
      <4>1. save["now"].id = id /\ Held["now"].text = save["now"].text
        BY <1>1, <3>1, <3>3, HeldIs, NoneApart
      <4>2. Covers(opening.text, profiles[id], Slack)
        BY <1>1 DEF SyncInv, Bare, Opened
      <4>3. Covers(profiles[id], Held["now"].text, Slack)
        BY <1>1, <3>1, <3>3, AfterDisk, HoldersFacts DEF SyncInv, Bare
      <4> QED
        <5>1. Held'[g].text = save["now"].text
          BY <3>1, <3>3, <4>1
        <5>2. Covers(opening.text, save["now"].text, Slack')
          BY <1>3, <4>1, <4>2, <4>3 DEF Covers
        <5>3. Covers(save["now"].text, opening.text, Slack')
          <6>1. save["now"].text \subseteq known
            BY <4>1
          <6> HIDE DEF known
          <6> QED
            BY <1>3, <6>1 DEF Covers
        <5> QED
          BY <5>1, <5>2, <5>3
    <3> QED
      BY <3>2, <3>3
  <2>4. Chained(Held', profiles, Slack')
    <3>1. \A g \in Holders : Before("editor", g) => g = "now"
      BY HoldersFacts DEF Before
    <3>2. \A g \in Holders \ {"editor"} : Held'[g].id = Held'["editor"].id =>
            /\ Before(g, "editor") => Covers(Held'[g].text, Held'["editor"].text, Slack')
            /\ Before("editor", g) => Covers(Held'["editor"].text, Held'[g].text, Slack')
      BY <2>1, <2>3, <3>1
    <3>3. Chained(Held, profiles, Slack) /\ "editor" \in Holders
      BY HoldersFacts DEF SyncInv, Bare, Chain
    <3>4. Covers(profiles[Held'["editor"].id], Held'["editor"].text, Slack')
      BY <2>1, <2>2
    <3> QED
      BY <1>3, <2>1, <3>2, <3>3, <3>4, ChainTakes
  <2> QED
    BY <1>2, <2>4 DEF Chain
<1> QED
  BY <1>4, <1>5, <1>6 DEF SyncInv, Bare

LEMMA QuitStep ==
  ASSUME SyncInv, P!Quit
  PROVE  SyncInv'
<1> DEFINE lost(p) == ((UNION P!Waiting(p)) \cup (IF save["now"].id = p THEN save["now"].text ELSE {}))
                        \ profiles[p]
<1>1. /\ pending' = None /\ open' = None /\ text' = {} /\ opening' = P!NotOpening
      /\ save' = [s \in P!Savers |-> P!NoSave]
      /\ risked' = risked \cup (P!Edits \cap UNION {lost(p) : p \in Profiles})
      /\ UNCHANGED <<profiles, told, gone, made>>
  BY DEF P!Quit, P!service
<1>2. /\ risked \subseteq risked' /\ risked' \subseteq P!Edits
      /\ \A p \in Profiles : lost(p) \cap P!Edits \subseteq risked'
  BY <1>1 DEF SyncInv, P!TypeOK
<1>3. \A s \in P!Savers : save'[s] = P!NoSave
  BY <1>1
<1>4. P!TypeOK'
  <2>1. {} \in P!Text /\ 1 \in P!Revision
    BY DEF P!Text, P!Revision
  <2>2. opening' \in [at : {"no", "text", "revision", "load"},
                      id : Profiles \cup {None}, text : P!Text]
    BY <1>1, <2>1 DEF P!NotOpening
  <2>3. save' \in [P!Savers -> Saves]
    BY <1>1, NoSaveType
  <2> QED
    BY <1>1, <1>2, <2>1, <2>2, <2>3 DEF SyncInv, P!TypeOK, P!Quit, P!service, Saves
<1>5. Clean' /\ OneByOne' /\ Opened' /\ Written'
  BY <1>1, <1>3, NoSaveType, SaversFacts
  DEF Clean, OneByOne, Opened, Written, Active, P!NotOpening
<1>6. Chain'
  <2>1. \A h \in Holders : Held'[h].id = None
    BY <1>1, <1>3, HeldIsNext, HoldersFacts, SaversFacts, NoSaveType DEF Reading
  <2> QED
    BY <2>1, NoneApart DEF Chain, Chained
<1>7. MadeKept'
  <2>1. SUFFICES ASSUME NEW p \in Profiles, NEW e \in made[p]
                 PROVE  IsKept(p, e)'
    BY <1>1 DEF MadeKept
  <2>2. IsKept(p, e) /\ e \in P!Edits
    BY DEF SyncInv, Bare, MadeKept, P!TypeOK
  <2>3. CASE pending # None /\ pending.id = p /\ e \in pending.text
    <3>1. e \in lost(p) \/ e \in profiles[p]
      BY <2>3 DEF P!Waiting
    <3> QED
      BY <1>1, <1>2, <2>2, <3>1 DEF IsKept, Slack
  <2>4. CASE \E s \in P!Savers : save[s].id = p /\ e \in save[s].text
    <3>1. e \in lost(p) \/ e \in profiles[p]
      <4>1. PICK s \in P!Savers : save[s].id = p /\ e \in save[s].text
        BY <2>4
      <4>2. CASE s \in P!Locking
        <5>1. save[s].text \in P!Waiting(p)
          BY <4>1, <4>2 DEF P!Waiting
        <5>2. e \in UNION P!Waiting(p)
          BY <4>1, <5>1
        <5> QED
          BY <5>2
      <4>3. CASE s = "now"
        BY <4>1, <4>3
      <4> QED
        BY <4>1, <4>2, <4>3, SaversFacts
    <3> QED
      BY <1>1, <1>2, <2>2, <3>1 DEF IsKept, Slack
  <2> QED
    BY <1>1, <1>2, <2>2, <2>3, <2>4 DEF IsKept, Slack
<1> QED
  BY <1>4, <1>5, <1>6, <1>7 DEF SyncInv, Bare

-----------------------------------------------------------------------------
(* Saving.                                                                 *)

\* What is queued is taken: the timer, a flush, the service's return.
LEMMA TakeStep ==
  ASSUME SyncInv, NEW s \in P!Locking, P!Take(s),
         UNCHANGED <<profiles, open, text, opening, told, gone, made, risked>>
  PROVE  Bare' /\ pending' = None /\ save' \in [P!Savers -> Saves]
<1>1. /\ pending' = None /\ s \in P!Savers
      /\ \A t \in P!Locking : ~Active(t) /\ save[t].id = None
  BY SavesType, SaversFacts DEF P!Take, P!Unlocked, Active
<1>2. Slack' = Slack
  BY DEF Slack
<1>3. CASE pending = None
  <2>1. save' = save
    BY <1>3 DEF P!Take
  <2>2. Opened'
    BY <1>2 DEF SyncInv, Bare, Opened
  <2> QED
    BY <1>1, <1>3, <2>1, <2>2, Aside, SavesType
<1>4. CASE pending # None
  <2>1. pending \in P!Queued /\ pending.id \in Profiles /\ pending.text \in P!Text
        /\ seen[pending.id] \in P!Revision
    BY <1>4 DEF SyncInv, P!TypeOK, P!Queued
  <2> DEFINE new == [at |-> "sent", id |-> pending.id, text |-> pending.text,
                     rev |-> seen[pending.id], again |-> FALSE]
  <2>2. new \in Saves /\ new.at = "sent" /\ new.id = pending.id /\ new.text = pending.text
    BY <2>1 DEF Saves
  <2>3. save' = [save EXCEPT ![s] = new]
    BY <1>4 DEF P!Take
  <2> HIDE DEF new
  <2>4. /\ save' \in [P!Savers -> Saves]
        /\ save'[s] = new /\ \A t \in P!Savers : t # s => save'[t] = save[t]
    BY <1>1, <2>2, <2>3, SavesType
  <2>5. Clean' /\ OneByOne' /\ Opened' /\ Written'
    BY <1>1, <1>2, <2>1, <2>2, <2>4, SaversFacts
    DEF SyncInv, Bare, Clean, OneByOne, Opened, Written, Active
  <2>6. /\ Held["queue"] = pending
        /\ Held'[s].id = pending.id /\ Held'[s].text = pending.text
        /\ Held'["queue"].id = None
        /\ \A t \in P!Locking : t # s => Held'[t].id = None
    BY <1>1, <1>4, <2>2, <2>4, HeldIs, HeldIsNext, SaversFacts
  <2>7. Stays(Held, Held', "editor") /\ Stays(Held, Held', "now")
    BY <1>1, <2>4, HeldIs, HeldIsNext, SaversFacts, NoneApart DEF Stays
  <2>8. \A h \in Holders \ {s} : Stays(Held, Held', h)
    BY <2>6, <2>7, HoldersFacts, NoneApart DEF Stays
  <2>9. ASSUME NEW g \in Holders \ {s}, Held'[g].id = pending.id
        PROVE  /\ Before(g, s) => Covers(Held'[g].text, pending.text, Slack)
               /\ Before(s, g) => Covers(pending.text, Held'[g].text, Slack)
    <3>1. g = "editor" \/ g = "now"
      BY <2>1, <2>6, <2>9, HoldersFacts, NoneApart
    <3>2. Held[g].id = pending.id /\ Held'[g].text = Held[g].text
      BY <2>1, <2>7, <2>9, <3>1 DEF Stays
    <3>3. Covers(pending.text, Held[g].text, Slack)
      <4>1. Before("queue", g)
        BY <3>1, HoldersFacts DEF Before
      <4> QED
        BY <2>1, <2>6, <3>2, <4>1, InOrder, HoldersFacts DEF SyncInv, Bare
    <3>4. g = "now" => Covers(Held[g].text, pending.text, Slack)
      <4>1. Before("now", "queue")
        BY HoldersFacts DEF Before
      <4> QED
        BY <2>1, <2>6, <3>2, <4>1, InOrder, HoldersFacts DEF SyncInv, Bare
    <3>5. Before(g, s) => g = "now"
      BY DEF Before
    <3> QED
      BY <3>2, <3>3, <3>4, <3>5
  <2>10. Chain'
    <3>1. Covers(profiles[pending.id], pending.text, Slack)
      BY <2>1, <2>6, AfterDisk, HoldersFacts DEF SyncInv, Bare
    <3>2. Chained(Held, profiles, Slack) /\ s \in Holders
      BY HoldersFacts DEF SyncInv, Bare, Chain
    <3>3. Chained(Held', profiles, Slack)
      BY <2>6, <2>8, <2>9, <3>1, <3>2, ChainTakes
    <3> QED
      BY <1>2, <3>3 DEF Chain
  <2>11. MadeKept'
    <3>1. SUFFICES ASSUME NEW p \in Profiles, NEW e \in made[p]
                   PROVE  IsKept(p, e)'
      BY DEF MadeKept
    <3>2. IsKept(p, e)
      BY DEF SyncInv, Bare, MadeKept
    <3>3. CASE pending.id = p /\ e \in pending.text
      BY <1>1, <2>2, <2>4, <3>3 DEF IsKept
    <3>4. CASE \E t \in P!Savers : save[t].id = p /\ e \in save[t].text
      <4>1. PICK t \in P!Savers : save[t].id = p /\ e \in save[t].text
        BY <3>4
      <4>2. t # s
        BY <1>1, <4>1, NoneApart
      <4> QED
        BY <2>4, <4>1, <4>2 DEF IsKept
    <3> QED
      BY <1>2, <3>2, <3>3, <3>4 DEF IsKept
  <2> QED
    BY <1>1, <2>4, <2>5, <2>10, <2>11 DEF Bare
<1> QED
  BY <1>3, <1>4

LEMMA TakingStep ==
  ASSUME SyncInv, P!Debounced \/ P!Flush \/ P!OwnerReturned
  PROVE  SyncInv'
<1>1. PICK s \in P!Locking : P!Take(s)
  BY DEF P!Debounced, P!Flush, P!OwnerReturned, P!Locking
<1>2. /\ UNCHANGED <<profiles, open, text, opening, told, gone, made, risked>>
      /\ UNCHANGED <<up, turns, revision, import, edits, seen>>
      /\ due' \in BOOLEAN /\ returned' \in BOOLEAN
  BY DEF P!Debounced, P!Flush, P!OwnerReturned, P!service, P!editor, P!history, SyncInv, P!TypeOK
<1>3. Bare' /\ pending' = None /\ save' \in [P!Savers -> Saves]
  BY <1>1, <1>2, TakeStep
<1>4. P!TypeOK'
  BY <1>2, <1>3 DEF SyncInv, P!TypeOK, Saves
<1> QED
  BY <1>3, <1>4 DEF SyncInv

LEMMA ApplyNowStep ==
  ASSUME SyncInv, NEW p \in Profiles, P!ApplyNow(p)
  PROVE  SyncInv'
<1> USE DEF P!ApplyNow
<1>1. edits + 1 \in P!Edits /\ edits + 1 \in 0..MaxEdits /\ save["now"].at = "no"
  BY ProfilesAssumption DEF SyncInv, P!TypeOK, P!Edits
<1> DEFINE mine == [P!NoSave EXCEPT !.at = "text", !.id = p, !.text = {edits + 1}]
<1>2. mine \in Saves /\ mine.at = "text" /\ mine.id = p /\ mine.text = {edits + 1}
  <2>1. {edits + 1} \in P!Text
    BY <1>1 DEF P!Text
  <2>2. P!NoSave \in Saves
    BY NoSaveType
  <2> QED
    BY <2>1, <2>2 DEF Saves
<1>3. save \in [P!Savers -> Saves] /\ save' = [save EXCEPT !["now"] = mine]
  BY SavesType
<1> HIDE DEF mine
<1>4. /\ save' \in [P!Savers -> Saves]
      /\ save'["now"] = mine /\ \A t \in P!Savers : t # "now" => save'[t] = save[t]
  BY <1>2, <1>3, SaversFacts
<1>5. made' \in [Profiles -> SUBSET P!Edits] /\ made'[p] = made[p] \cup {edits + 1}
      /\ \A q \in Profiles : q # p => made'[q] = made[q]
  BY <1>1 DEF SyncInv, P!TypeOK
<1>6. UNCHANGED <<profiles, open, text, opening, pending, told, gone, risked>> /\ Slack' = Slack
  BY DEF P!service, Slack
<1>7. P!TypeOK'
  BY <1>1, <1>4, <1>5, <1>6 DEF SyncInv, P!TypeOK, P!service, Saves
<1>8. Clean' /\ OneByOne' /\ Opened' /\ Written'
  BY <1>2, <1>4, <1>6, SaversFacts
  DEF SyncInv, Bare, Clean, OneByOne, Opened, Written, Active
<1>9. Chain'
  <2>1. \A h \in Holders : Stays(Held, Held', h)
    BY <1>2, <1>4, <1>6, HeldIs, HeldIsNext, HoldersFacts, NoneApart, SaversFacts
    DEF Stays, Reading
  <2> QED
    BY <1>6, <2>1, ChainKeeps DEF SyncInv, Bare, Chain
<1>10. MadeKept'
  <2>1. SUFFICES ASSUME NEW q \in Profiles, NEW e \in made'[q]
                 PROVE  IsKept(q, e)'
    BY DEF MadeKept
  <2>2. CASE q = p /\ e = edits + 1
    BY <1>2, <1>4, <2>2, SaversFacts DEF IsKept
  <2>3. CASE e \in made[q]
    <3>1. IsKept(q, e)
      BY <2>3 DEF SyncInv, Bare, MadeKept
    <3>2. save["now"].id = None
      BY <1>1, SavesType, SaversFacts DEF Active
    <3> QED
      BY <1>4, <1>6, <3>1, <3>2, NoneApart DEF IsKept
  <2> QED
    BY <1>5, <2>1, <2>2, <2>3
<1> QED
  BY <1>7, <1>8, <1>9, <1>10 DEF SyncInv, Bare

\* The profile is read, with the new edit in it.
LEMMA ReadStep ==
  ASSUME SyncInv, P!Fetch, save["now"].at = "text"
  PROVE  SyncInv'
<1> DEFINE c == save["now"]
           new == c.text \cup profiles[c.id]
           next == [c EXCEPT !.at = "revision", !.text = new]
<1>1. c \in Saves /\ c.id \in Profiles /\ Active("now") /\ profiles[c.id] \in P!Text
  BY SavesType, SaversFacts DEF Active, SyncInv, P!TypeOK
<1>2. /\ save' = [save EXCEPT !["now"].at = "revision", !["now"].text = new]
      /\ risked' = risked \cup
           (P!Edits \cap UNION {(new \ other) \cup (other \ new) : other \in P!Texts(c.id)})
      /\ UNCHANGED <<profiles, open, text, opening, pending, told, gone, made>>
  BY DEF P!Fetch, P!service, P!editor
<1>3. /\ Slack \subseteq Slack' /\ risked' \subseteq P!Edits /\ risked \subseteq risked'
      /\ \A t \in P!Texts(c.id) : Covers(t, new, Slack') /\ Covers(new, t, Slack')
  BY <1>2 DEF Slack, SyncInv, P!TypeOK, Covers
<1>4. new \in P!Text
  BY <1>1 DEF Saves, P!Text
<1> HIDE DEF new
<1>5. next \in Saves /\ next.id = c.id /\ next.text = new /\ next.at = "revision"
  BY <1>1, <1>4 DEF Saves
<1>6. save' = [save EXCEPT !["now"] = next]
  BY <1>1, <1>2, SavesType
<1> HIDE DEF next
<1>7. /\ save' \in [P!Savers -> Saves]
      /\ save'["now"] = next /\ \A t \in P!Savers : t # "now" => save'[t] = save[t]
  BY <1>5, <1>6, SavesType, SaversFacts
<1>8. P!TypeOK'
  BY <1>2, <1>3, <1>7 DEF P!Fetch, P!service, P!editor, SyncInv, P!TypeOK, Saves
<1>9. Clean' /\ OneByOne' /\ Opened' /\ Written'
  BY <1>1, <1>2, <1>3, <1>5, <1>7, SaversFacts
  DEF SyncInv, Bare, Clean, OneByOne, Opened, Written, Active, Covers
<1>10. Chain'
  <2>1. Held'["now"].id = c.id /\ Held'["now"].text = new
    BY <1>5, <1>7, HeldIsNext, SaversFacts DEF Reading
  <2>2. \A h \in Holders \ {"now"} : Stays(Held, Held', h)
    BY <1>2, <1>7, HeldIs, HeldIsNext, HoldersFacts, SaversFacts, NoneApart DEF Stays
  <2>3. Covers(profiles[c.id], new, Slack')
    BY DEF new, Covers
  <2>4. ASSUME NEW g \in Holders \ {"now"}, Held'[g].id = c.id
        PROVE  Covers(Held'[g].text, new, Slack') /\ Covers(new, Held'[g].text, Slack')
    <3>1. Held[g].id = c.id /\ Held'[g].text = Held[g].text
      BY <1>1, <2>2, <2>4 DEF Stays
    <3>2. Held[g].text \in P!Texts(c.id)
      BY <1>1, <3>1, TextsHeld
    <3> QED
      BY <1>3, <3>1, <3>2
  <2>5. Chained(Held, profiles, Slack) /\ "now" \in Holders
    BY HoldersFacts DEF SyncInv, Bare, Chain
  <2>6. Chained(Held', profiles, Slack')
    BY <1>3, <2>1, <2>2, <2>3, <2>4, <2>5, ChainTakes
  <2> QED
    BY <1>2, <2>6 DEF Chain
<1>11. MadeKept'
  <2>1. \A s \in P!Savers : save'[s].id = save[s].id /\ save[s].text \subseteq save'[s].text
    BY <1>5, <1>7 DEF new
  <2> QED
    <3>1. \A p \in Profiles, e \in P!Edits : IsKept(p, e) => IsKept(p, e)'
      BY <1>2, <1>3, <2>1 DEF IsKept
    <3>2. MadeKept /\ made' = made /\ \A p \in Profiles : made[p] \subseteq P!Edits
      BY <1>2 DEF SyncInv, Bare, P!TypeOK
    <3> QED
      BY <3>1, <3>2 DEF MadeKept
<1> QED
  BY <1>8, <1>9, <1>10, <1>11 DEF SyncInv, Bare

LEMMA FetchStep ==
  ASSUME SyncInv, P!Fetch
  PROVE  SyncInv'
<1> DEFINE c == save["now"]
           new == [c EXCEPT !.at = "sent", !.rev = revision[c.id]]
<1>1. CASE c.at = "text"
  BY <1>1, ReadStep
<1>2. CASE c.at # "text"
  <2>1. /\ c.at = "revision" /\ seen' = [seen EXCEPT ![c.id] = revision[c.id]]
        /\ save' = [save EXCEPT !["now"].at = "sent", !["now"].rev = revision[c.id]]
        /\ UNCHANGED <<profiles, open, text, opening, pending, told, gone, made, risked>>
    BY <1>2 DEF P!Fetch, P!service, P!editor
  <2>2. c \in Saves /\ "now" \in P!Savers /\ c.id \in Profiles /\ revision[c.id] \in P!Revision
    BY <2>1, SavesType, SaversFacts DEF Active, SyncInv, P!TypeOK
  <2>3. new \in Saves /\ new.id = c.id /\ new.text = c.text /\ new.at = "sent"
    BY <2>2 DEF Saves
  <2>4. save' = [save EXCEPT !["now"] = new]
    BY <2>1, <2>2, SavesType
  <2> HIDE DEF new
  <2>5. save' \in [P!Savers -> Saves] /\ Bare'
    BY <2>1, <2>2, <2>3, <2>4, SaveGoesOn DEF Reading
  <2>6. P!TypeOK'
    BY <2>1, <2>2, <2>5 DEF P!Fetch, P!service, P!editor, SyncInv, P!TypeOK, Saves
  <2> QED
    BY <2>5, <2>6 DEF SyncInv
<1> QED
  BY <1>1, <1>2

LEMMA CheckStep ==
  ASSUME SyncInv, NEW s \in P!Savers, P!Check(s)
  PROVE  SyncInv'
<1>1. UNCHANGED <<profiles, open, text, opening, pending, told, gone, made, risked>>
  BY DEF P!Check, P!service, P!editor, P!history
<1> DEFINE c == save[s]
           at == IF c.rev = revision[c.id] THEN "checked" ELSE "stale"
           new == [c EXCEPT !.at = at]
<1>2. c \in Saves /\ c.at = "sent"
  BY SavesType DEF P!Check
<1>3. at \in {"checked", "stale"}
  OBVIOUS
<1>4. save' = [save EXCEPT ![s].at = at]
  BY DEF P!Check
<1> HIDE DEF at
<1>5. new \in Saves /\ new.id = c.id /\ new.text = c.text /\ new.at = at
  BY <1>2, <1>3 DEF Saves
<1>6. save' = [save EXCEPT ![s] = new]
  BY <1>2, <1>4, SavesType
<1> HIDE DEF new
<1>7. save' \in [P!Savers -> Saves] /\ Bare'
  BY <1>1, <1>2, <1>3, <1>5, <1>6, SaveGoesOn DEF Reading
<1>8. P!TypeOK'
  BY <1>1, <1>7 DEF P!Check, P!service, P!editor, P!history, SyncInv, P!TypeOK, Saves
<1> QED
  BY <1>7, <1>8 DEF SyncInv

LEMMA TakeRevisionStep ==
  ASSUME SyncInv, NEW s \in P!Savers, P!TakeRevision(s)
  PROVE  SyncInv'
<1>1. UNCHANGED <<profiles, open, text, opening, pending, told, gone, made, risked>>
  BY DEF P!TakeRevision, P!service, P!editor, P!history
<1> DEFINE c == save[s]
           new == [at |-> "sent", id |-> c.id, text |-> c.text, rev |-> revision[c.id],
                   again |-> TRUE]
<1>2. c \in Saves /\ c.at = "stale"
  BY SavesType DEF P!TakeRevision
<1>3. c.id \in Profiles /\ revision[c.id] \in P!Revision
  BY <1>2, SavesType DEF SyncInv, P!TypeOK, Active
<1>4. new \in Saves /\ new.id = c.id /\ new.text = c.text /\ new.at = "sent"
  BY <1>2, <1>3 DEF Saves
<1>5. save' = [save EXCEPT ![s] = new]
  BY <1>2, SavesType DEF Saves, P!TakeRevision
<1> HIDE DEF new
<1>6. save' \in [P!Savers -> Saves] /\ Bare'
  BY <1>1, <1>2, <1>4, <1>5, SaveGoesOn DEF Reading
<1>7. P!TypeOK'
  BY <1>1, <1>3, <1>6 DEF P!TakeRevision, P!service, P!editor, P!history, SyncInv, P!TypeOK, Saves
<1> QED
  BY <1>6, <1>7 DEF SyncInv

\* A save holds its text until it is written, and has the edits of the file.
LEMMA WrittenOver ==
  ASSUME SyncInv, NEW s \in P!Savers, save[s].at = "checked"
  PROVE  /\ s \in Holders /\ s \in P!Locking \cup {"now"} /\ save[s].id \in Profiles
         /\ Held[s].id = save[s].id /\ Held[s].text = save[s].text
         /\ Covers(profiles[save[s].id], save[s].text, Slack)
<1>1. save[s].id \in Profiles /\ Active(s)
  BY SavesType DEF Active
<1>2. /\ s \in Holders /\ s \in P!Locking \cup {"now"}
      /\ Held[s].id = save[s].id /\ Held[s].text = save[s].text
  BY HeldIs, HoldersFacts, SaversFacts DEF Reading
<1>3. Covers(profiles[save[s].id], save[s].text, Slack)
  BY <1>1, <1>2, AfterDisk DEF SyncInv, Bare
<1> QED
  BY <1>1, <1>2, <1>3

LEMMA SaveProfileStep ==
  ASSUME SyncInv, NEW s \in P!Savers, P!SaveProfile(s)
  PROVE  SyncInv'
<1> USE DEF P!SaveProfile
<1> DEFINE c == save[s]
           new == [c EXCEPT !.at = "saved"]
<1>1. UNCHANGED <<open, text, opening, pending, told, gone, made, risked>> /\ Slack' = Slack
  BY DEF P!editor, P!history, Slack
<1>2. c \in Saves /\ c.at = "checked" /\ Active(s) /\ c.id \in Profiles
  BY SavesType, WrittenOver DEF Active
<1>3. new \in Saves /\ new.id = c.id /\ new.text = c.text /\ new.at = "saved"
      /\ c.text \in P!Text /\ c.rev + 1 \in P!Revision
  BY <1>2 DEF Saves, P!Revision
<1>4. save' = [save EXCEPT ![s] = new]
  BY <1>2, SavesType
<1> HIDE DEF new
<1>5. /\ save' \in [P!Savers -> Saves]
      /\ save'[s] = new /\ \A t \in P!Savers : t # s => save'[t] = save[t]
  BY <1>3, <1>4, SavesType
<1>6. /\ profiles' \in [Profiles -> P!Text] /\ revision' \in [Profiles -> P!Revision]
      /\ profiles'[c.id] = c.text
      /\ \A p \in Profiles : p # c.id => profiles'[p] = profiles[p]
  BY <1>2, <1>3 DEF SyncInv, P!TypeOK
<1>7. P!TypeOK'
  BY <1>1, <1>5, <1>6 DEF SyncInv, P!TypeOK, P!editor, P!history, Saves
<1>8. \A t \in P!Savers : /\ (Active(t)' <=> Active(t)) /\ save'[t].id = save[t].id
                          /\ save'[t].text = save[t].text
  BY <1>2, <1>3, <1>5 DEF Active
<1>9. Clean' /\ OneByOne'
  BY <1>8, SaversFacts DEF SyncInv, Bare, Clean, OneByOne
\* The file keeps the edits that it had.
<1>10. \A p \in Profiles : Covers(profiles[p], profiles'[p], Slack)
  BY <1>2, <1>6, WrittenOver DEF Covers
<1>11. Opened'
  BY <1>1, <1>10 DEF SyncInv, Bare, Opened, Covers
<1>12. Written'
  <2>1. SUFFICES ASSUME NEW t \in P!Savers, save'[t].at = "saved"
                 PROVE  Covers(save'[t].text, profiles'[save'[t].id], Slack)
    BY <1>1 DEF Written
  <2>2. CASE t = s
    BY <1>6, <1>8, <2>2 DEF Covers
  <2>3. CASE t # s
    <3>1. save[t].at = "saved" /\ save[t].id \in Profiles
      BY <1>5, <2>1, <2>3, SavesType DEF Active
    <3>2. Covers(save[t].text, profiles[save[t].id], Slack)
      BY <3>1 DEF SyncInv, Bare, Written
    <3> QED
      BY <1>8, <1>10, <3>1, <3>2 DEF Covers
  <2> QED
    BY <2>2, <2>3
<1>13. Chain'
  <2>1. \A h \in Holders : Stays(Held, Held', h)
    <3>1. \A h \in P!Locking : Stays(Held, Held', h)
      BY <1>8, HeldIs, HeldIsNext, SaversFacts DEF Stays
    <3>2. Stays(Held, Held', "queue") /\ Stays(Held, Held', "editor")
      BY <1>1, HeldIs, HeldIsNext, NoneApart DEF Stays
    <3>3. Stays(Held, Held', "now")
      BY <1>2, <1>3, <1>5, HeldIs, HeldIsNext, SaversFacts, NoneApart DEF Stays, Reading
    <3> QED
      BY <3>1, <3>2, <3>3, HoldersFacts
  <2>2. \A h \in P!Locking : s \in P!Locking /\ h # s => Held'[h].id \notin Profiles
    <3>1. ASSUME NEW h \in P!Locking, s \in P!Locking, h # s
          PROVE  save[h].id = None
      BY <1>2, <3>1, SavesType, SaversFacts DEF SyncInv, Bare, OneByOne
    <3> QED
      BY <1>8, <3>1, HeldIsNext, SaversFacts, NoneApart
  <2>3. Chained(Held, profiles, Slack)
    BY DEF SyncInv, Bare, Chain
  <2>4. /\ s \in P!Locking \cup {"now"} /\ Held[s].id \in Profiles
        /\ profiles'[Held[s].id] = Held[s].text
        /\ \A p \in Profiles : p # Held[s].id => profiles'[p] = profiles[p]
    BY <1>2, <1>6, WrittenOver
  <2>5. Chained(Held', profiles', Slack)
    <3>1. PICK K, E : K = Held' /\ E = profiles'
      OBVIOUS
    <3>2. /\ \A h \in Holders : Stays(Held, K, h)
          /\ \A h \in P!Locking : s \in P!Locking /\ h # s => K[h].id \notin Profiles
          /\ E[Held[s].id] = Held[s].text
          /\ \A p \in Profiles : p # Held[s].id => E[p] = profiles[p]
      BY <2>1, <2>2, <2>4, <3>1
    <3>3. Chained(Held, profiles, Slack)
      BY <2>3
    <3>4. Chained(K, E, Slack)
      BY <2>4, <3>2, <3>3, ChainWrites
    <3> QED
      BY <3>1, <3>4
  <2> QED
    BY <1>1, <2>5 DEF Chain
<1>14. MadeKept'
  <2>1. SUFFICES ASSUME NEW p \in Profiles, NEW e \in made[p]
                 PROVE  IsKept(p, e)'
    BY <1>1 DEF MadeKept
  <2>2. IsKept(p, e) /\ e \in P!Edits
    BY DEF SyncInv, Bare, MadeKept, P!TypeOK
  <2>3. CASE e \in profiles[p]
    BY <1>1, <1>10, <2>2, <2>3 DEF IsKept, Covers
  <2> QED
    BY <1>1, <1>8, <2>2, <2>3 DEF IsKept
<1> QED
  BY <1>7, <1>9, <1>11, <1>12, <1>13, <1>14 DEF SyncInv, Bare

\* One save ends.
LEMMA OneEnds ==
  ASSUME SyncInv, NEW s \in P!Savers, save' = [save EXCEPT ![s] = P!NoSave],
         told \subseteq told',
         save[s].at = "saved" \/ save[s].text \cap P!Edits \subseteq told',
         UNCHANGED <<profiles, open, text, opening, pending, made, gone, risked>>
  PROVE  save' \in [P!Savers -> Saves] /\ Bare'
<1>1. save' \in [P!Savers -> Saves]
  BY SavesType, NoSaveType
<1>2. {s} \in SUBSET P!Savers
      /\ save' = [t \in P!Savers |-> IF t \in {s} THEN P!NoSave ELSE save[t]]
  BY SavesType
<1>3. \A t \in {s} : save[t].at = "saved" \/ save[t].text \cap P!Edits \subseteq told'
  OBVIOUS
<1> QED
  BY <1>1, <1>2, <1>3, SavesEnd

LEMMA SavedStep ==
  ASSUME SyncInv, NEW s \in P!Savers, P!Saved(s)
  PROVE  SyncInv'
<1>1. save[s] \in Saves /\ save[s].id \in Profiles /\ save[s].rev + 1 \in P!Revision
  BY SavesType DEF P!Saved, Active, Saves, P!Revision
<1>2. UNCHANGED <<profiles, open, text, opening, pending, told, gone, made, risked>>
  BY DEF P!Saved, P!service, P!editor, P!history
<1>3. save' \in [P!Savers -> Saves] /\ Bare'
  BY <1>2, OneEnds DEF P!Saved
<1>4. P!TypeOK'
  BY <1>1, <1>2, <1>3 DEF P!Saved, P!service, P!editor, P!history, SyncInv, P!TypeOK, Saves
<1> QED
  BY <1>3, <1>4 DEF SyncInv

LEMMA SaveFailedStep ==
  ASSUME SyncInv, NEW s \in P!Savers, P!SaveFailed(s)
  PROVE  SyncInv'
<1>1. /\ UNCHANGED <<profiles, open, text, opening, pending, gone, made, risked>>
      /\ told' = told \cup (save[s].text \cap P!Edits)
  BY DEF P!SaveFailed, P!service, P!editor
<1>2. save' \in [P!Savers -> Saves] /\ Bare'
  BY <1>1, OneEnds DEF P!SaveFailed
<1>3. P!TypeOK'
  BY <1>1, <1>2 DEF P!SaveFailed, P!service, P!editor, SyncInv, P!TypeOK, Saves
<1> QED
  BY <1>2, <1>3 DEF SyncInv

\* A save of the queue that found no service: nothing else of the queue is under
\* way, and its own text is held by no save any more.
LEMMA GivesUp ==
  ASSUME SyncInv, NEW s \in P!Locking, Active(s), save' = [save EXCEPT ![s] = P!NoSave],
         UNCHANGED <<profiles, open, text, opening, told, gone, made>>,
         risked \subseteq risked'
  PROVE  /\ save' \in [P!Savers -> Saves]
         /\ Clean' /\ OneByOne' /\ Opened' /\ Written'
         /\ Slack \subseteq Slack'
         /\ \A t \in P!Savers : t # s => save'[t] = save[t]
         /\ \A t \in P!Locking : Held'[t].id = None
         /\ Stays(Held, Held', "editor") /\ Stays(Held, Held', "now")
<1>1. /\ save' \in [P!Savers -> Saves]
      /\ save'[s] = P!NoSave /\ \A t \in P!Savers : t # s => save'[t] = save[t]
  BY SavesType, NoSaveType, SaversFacts
<1>2. Slack \subseteq Slack'
  BY DEF Slack
<1>3. Clean' /\ OneByOne' /\ Opened' /\ Written'
  BY <1>1, <1>2, NoSaveType, SaversFacts
  DEF SyncInv, Bare, Clean, OneByOne, Opened, Written, Active, Covers
<1>4. \A t \in P!Locking : save'[t].id = None
  BY <1>1, NoSaveType, SavesType, SaversFacts DEF SyncInv, Bare, OneByOne
<1>5. \A t \in P!Locking : Held'[t].id = None
  BY <1>4, HeldIsNext
<1>6. save'["now"] = save["now"]
  BY <1>1, SaversFacts
<1>7. Stays(Held, Held', "editor") /\ Stays(Held, Held', "now")
  BY <1>6, HeldIs, HeldIsNext, NoneApart DEF Stays
<1> QED
  BY <1>1, <1>2, <1>3, <1>5, <1>7

\* Nothing newer is queued: the text goes back.
LEMMA PutBack ==
  ASSUME SyncInv, NEW s \in P!Locking, Active(s), save' = [save EXCEPT ![s] = P!NoSave],
         UNCHANGED <<profiles, open, text, opening, told, gone, made, risked>>,
         pending = None, pending' = [id |-> save[s].id, text |-> save[s].text]
  PROVE  save' \in [P!Savers -> Saves] /\ pending' \in P!Queued /\ Bare'
<1> DEFINE id == save[s].id
           mine == save[s].text
<1>1. id \in Profiles /\ mine \in P!Text
  BY SavesType, SaversFacts DEF Saves
<1>2. pending' \in P!Queued /\ pending' # None /\ pending'.id = id /\ pending'.text = mine
  BY <1>1, NoneApart DEF P!Queued
<1>3. Held[s].id = id /\ Held[s].text = mine
  BY HeldIs
<1> HIDE DEF id, mine
<1>4. /\ save' \in [P!Savers -> Saves]
      /\ Clean' /\ OneByOne' /\ Opened' /\ Written'
      /\ \A t \in P!Savers : t # s => save'[t] = save[t]
      /\ \A t \in P!Locking : Held'[t].id = None
      /\ Stays(Held, Held', "editor") /\ Stays(Held, Held', "now")
  BY GivesUp
<1>5. Slack' = Slack
  BY DEF Slack
<1>6. Held'["queue"].id = id /\ Held'["queue"].text = mine
  BY <1>2, HeldIsNext
<1>7. ASSUME NEW g \in Holders \ {"queue"}, Held'[g].id = id
      PROVE  /\ Before(g, "queue") => Covers(Held'[g].text, mine, Slack)
             /\ Before("queue", g) => Covers(mine, Held'[g].text, Slack)
  <2>1. g = "editor" \/ g = "now"
    BY <1>1, <1>4, <1>7, HoldersFacts, NoneApart
  <2>2. Held[g].id = id /\ Held'[g].text = Held[g].text
    BY <1>1, <1>4, <1>7, <2>1 DEF Stays
  <2>3. Covers(mine, Held[g].text, Slack)
    <3>1. Before(s, g)
      BY <2>1, HoldersFacts DEF Before
    <3> QED
      BY <1>1, <1>3, <2>2, <3>1, InOrder, HoldersFacts DEF SyncInv, Bare
  <2>4. g = "now" => Covers(Held[g].text, mine, Slack)
    <3>1. Before("now", s)
      BY HoldersFacts DEF Before
    <3> QED
      BY <1>1, <1>3, <2>2, <3>1, InOrder, HoldersFacts DEF SyncInv, Bare
  <2>5. Before(g, "queue") => g # "editor"
    BY DEF Before
  <2> QED
    BY <2>1, <2>2, <2>3, <2>4, <2>5
<1>8. Chain'
  <2>1. Covers(profiles[id], mine, Slack)
    BY <1>1, <1>3, AfterDisk, HoldersFacts DEF SyncInv, Bare
  <2>2. Chained(Held, profiles, Slack) /\ "queue" \in Holders
    BY HoldersFacts DEF SyncInv, Bare, Chain
  <2>3. \A h \in Holders \ {"queue"} : Stays(Held, Held', h)
    BY <1>4, HoldersFacts, NoneApart DEF Stays
  <2>4. Chained(Held', profiles, Slack)
    BY <1>6, <1>7, <2>1, <2>2, <2>3, ChainTakes
  <2> QED
    BY <1>5, <2>4 DEF Chain
<1>9. MadeKept'
  <2>1. SUFFICES ASSUME NEW p \in Profiles, NEW e \in made[p]
                 PROVE  IsKept(p, e)'
    BY DEF MadeKept
  <2>2. IsKept(p, e)
    BY DEF SyncInv, Bare, MadeKept
  <2>3. CASE \E t \in P!Savers : save[t].id = p /\ e \in save[t].text
    <3>1. PICK t \in P!Savers : save[t].id = p /\ e \in save[t].text
      BY <2>3
    <3>2. CASE t = s
      BY <1>2, <3>1, <3>2 DEF IsKept, id, mine
    <3>3. CASE t # s
      BY <1>4, <3>1, <3>3 DEF IsKept
    <3> QED
      BY <3>2, <3>3
  <2> QED
    BY <1>5, <2>2, <2>3 DEF IsKept
<1> QED
  BY <1>2, <1>4, <1>8, <1>9 DEF Bare

\* Something newer is queued: the text is dropped.
LEMMA NewerQueued ==
  ASSUME SyncInv, NEW s \in P!Locking, Active(s), save' = [save EXCEPT ![s] = P!NoSave],
         UNCHANGED <<profiles, open, text, opening, pending, told, gone, made>>,
         pending # None, risked \subseteq risked',
         pending.id # save[s].id =>
           (save[s].text \ profiles[save[s].id]) \cap P!Edits \subseteq risked'
  PROVE  save' \in [P!Savers -> Saves] /\ Bare'
<1>1. /\ save' \in [P!Savers -> Saves]
      /\ Clean' /\ OneByOne' /\ Opened' /\ Written'
      /\ Slack \subseteq Slack'
      /\ \A t \in P!Savers : t # s => save'[t] = save[t]
      /\ \A t \in P!Locking : Held'[t].id = None
      /\ Stays(Held, Held', "editor") /\ Stays(Held, Held', "now")
  BY GivesUp
<1>2. Chain'
  <2>1. Stays(Held, Held', "queue")
    BY HeldIs, HeldIsNext DEF Stays
  <2>2. \A h \in Holders : Stays(Held, Held', h)
    BY <1>1, <2>1, HoldersFacts, NoneApart DEF Stays
  <2> QED
    BY <1>1, <2>2, ChainKeeps DEF SyncInv, Bare, Chain
<1>3. MadeKept'
  <2>1. SUFFICES ASSUME NEW p \in Profiles, NEW e \in made[p]
                 PROVE  IsKept(p, e)'
    BY DEF MadeKept
  <2>2. IsKept(p, e) /\ e \in P!Edits
    BY DEF SyncInv, Bare, MadeKept, P!TypeOK
  <2>3. CASE save[s].id = p /\ e \in save[s].text /\ pending.id = p
    <3>1. Before(s, "queue")
      BY HoldersFacts DEF Before
    <3>2. Covers(save[s].text, pending.text, Slack)
      BY <2>3, <3>1, InOrder, HeldIs, HoldersFacts DEF SyncInv, Bare
    <3>3. e \in pending.text \/ e \in Slack'
      BY <1>1, <2>2, <2>3, <3>2 DEF Covers
    <3> QED
      BY <2>3, <3>3 DEF IsKept
  <2>4. CASE save[s].id = p /\ e \in save[s].text /\ pending.id # p
    <3>1. e \in profiles[p] \/ e \in Slack'
      BY <2>2, <2>4 DEF Slack
    <3> QED
      BY <3>1 DEF IsKept
  <2>5. CASE \E t \in P!Savers : save[t].id = p /\ e \in save[t].text
    BY <1>1, <2>3, <2>4, <2>5 DEF IsKept
  <2> QED
    BY <1>1, <2>2, <2>5 DEF IsKept
<1> QED
  BY <1>1, <1>2, <1>3 DEF Bare

LEMMA NotRunningStep ==
  ASSUME SyncInv, NEW s \in P!Savers, P!NotRunning(s)
  PROVE  SyncInv'
<1>1. Active(s)
  BY DEF P!NotRunning, Active
<1>2. CASE s \notin P!Locking
  BY <1>2, SaveFailedStep DEF P!NotRunning
<1>3. CASE s \in P!Locking
  <2>1. /\ pending' = IF pending = None
                      THEN [id |-> save[s].id, text |-> save[s].text] ELSE pending
        /\ save' = [save EXCEPT ![s] = P!NoSave]
        /\ risked' = IF pending = None \/ pending.id = save[s].id THEN risked
                     ELSE risked \cup ((save[s].text \ profiles[save[s].id]) \cap P!Edits)
        /\ UNCHANGED <<P!service, turns, P!editor, due, returned, seen, made, told, gone>>
    BY <1>3 DEF P!NotRunning
  <2>2. UNCHANGED <<profiles, open, text, opening, told, gone, made>>
    BY <2>1 DEF P!service, P!editor
  <2>3. /\ save' \in [P!Savers -> Saves] /\ Bare'
        /\ pending' \in P!Queued \cup {None} /\ risked' \subseteq P!Edits
    <3>1. CASE pending = None
      <4>1. UNCHANGED risked /\ pending' = [id |-> save[s].id, text |-> save[s].text]
        BY <2>1, <3>1
      <4>2. save' \in [P!Savers -> Saves] /\ pending' \in P!Queued /\ Bare'
        BY <1>1, <1>3, <2>1, <2>2, <3>1, <4>1, PutBack
      <4> QED
        BY <4>1, <4>2 DEF SyncInv, P!TypeOK
    <3>2. CASE pending # None
      <4>1. /\ UNCHANGED pending /\ risked \subseteq risked' /\ risked' \subseteq P!Edits
            /\ pending.id # save[s].id =>
                 (save[s].text \ profiles[save[s].id]) \cap P!Edits \subseteq risked'
        BY <2>1, <3>2 DEF SyncInv, P!TypeOK
      <4>2. save' \in [P!Savers -> Saves] /\ Bare'
        BY <1>1, <1>3, <2>1, <2>2, <3>2, <4>1, NewerQueued
      <4> QED
        BY <4>1, <4>2 DEF SyncInv, P!TypeOK
    <3> QED
      BY <3>1, <3>2
  <2>4. P!TypeOK'
    BY <2>1, <2>2, <2>3 DEF P!service, P!editor, SyncInv, P!TypeOK, Saves
  <2> QED
    BY <2>3, <2>4 DEF SyncInv
<1> QED
  BY <1>2, <1>3

-----------------------------------------------------------------------------
(* The service's own.                                                      *)

LEMMA ImportStep ==
  ASSUME SyncInv, NEW p \in Profiles, P!Import(p)
  PROVE  SyncInv'
<1> USE DEF P!Import
<1>1. UNCHANGED <<open, text, opening, pending, told, made, save, risked>>
  BY DEF P!client, P!editor
<1>2. turns + 1 \in 0..MaxTurns /\ MaxEdits + turns + 1 \in P!Imports
      /\ MaxEdits + turns + 1 \notin P!Edits
  BY ProfilesAssumption DEF SyncInv, P!TypeOK, P!Imports, P!Edits
<1> DEFINE new == {MaxEdits + turns + 1}
<1>3. new \in P!Text /\ new \cap P!Edits = {} /\ profiles' = [profiles EXCEPT ![p] = new]
  BY <1>2 DEF P!Text
<1> HIDE DEF new
<1>4. /\ profiles' \in [Profiles -> P!Text] /\ profiles'[p] = new
      /\ \A q \in Profiles : q # p => profiles'[q] = profiles[q]
      /\ gone' = gone \cup (profiles[p] \cap P!Edits)
  <2>1. profiles \in [Profiles -> P!Text]
    BY DEF SyncInv, P!TypeOK
  <2> QED
    BY <1>3, <2>1
<1>5. P!TypeOK'
  BY <1>1, <1>2, <1>4 DEF SyncInv, P!TypeOK, P!client, P!editor
<1>6. Slack \subseteq Slack'
  BY <1>1, <1>4 DEF Slack
\* Edits go from the disk, and what goes is in `gone`.
<1>7. \A q \in Profiles : /\ profiles'[q] \cap P!Edits \subseteq profiles[q]
                          /\ Covers(profiles[q], profiles'[q], Slack')
  BY <1>3, <1>4 DEF Slack, Covers
<1>8. Clean' /\ OneByOne'
  BY <1>1 DEF SyncInv, Bare, Clean, OneByOne, Active
<1>9. Opened'
  BY <1>1, <1>6, <1>7 DEF SyncInv, Bare, Opened, Covers
<1>10. Written'
  <2>1. SUFFICES ASSUME NEW t \in P!Savers, save[t].at = "saved"
                 PROVE  Covers(save[t].text, profiles'[save[t].id], Slack')
    BY <1>1 DEF Written
  <2>2. save[t].id \in Profiles /\ Covers(save[t].text, profiles[save[t].id], Slack)
    BY <2>1, SavesType DEF SyncInv, Bare, Written, Active
  <2> QED
    BY <1>6, <1>7, <2>2 DEF Covers
<1>11. Chain'
  <2>1. Held' = Held
    BY <1>1 DEF Held
  <2>2. Chained(Held, profiles', Slack')
    BY <1>6, <1>7, ChainLoses DEF SyncInv, Bare, Chain
  <2> QED
    BY <2>1, <2>2 DEF Chain
<1>12. MadeKept'
  <2>1. SUFFICES ASSUME NEW q \in Profiles, NEW e \in made[q]
                 PROVE  IsKept(q, e)'
    BY <1>1 DEF MadeKept
  <2>2. IsKept(q, e) /\ e \in P!Edits
    BY DEF SyncInv, Bare, MadeKept, P!TypeOK
  <2>3. CASE e \in profiles[q]
    BY <1>7, <2>2, <2>3 DEF IsKept, Covers
  <2> QED
    BY <1>1, <1>6, <2>2, <2>3 DEF IsKept
<1> QED
  BY <1>5, <1>8, <1>9, <1>10, <1>11, <1>12 DEF SyncInv, Bare

LEMMA StopServiceStep ==
  ASSUME SyncInv, P!Stop
  PROVE  SyncInv'
<1>1. PICK lost \in SUBSET {s \in P!Savers : save[s].at \in {"sent", "checked", "saved"}} :
        /\ save' = [s \in P!Savers |-> IF s \in lost THEN P!NoSave ELSE save[s]]
        /\ told' = told \cup (P!Edits \cap UNION {save[s].text : s \in lost})
  BY DEF P!Stop
<1>2. UNCHANGED <<profiles, open, text, opening, pending, made, gone, risked>>
  BY DEF P!Stop, P!editor
<1>3. lost \in SUBSET P!Savers /\ told \subseteq told'
      /\ \A s \in lost : save[s].text \cap P!Edits \subseteq told'
  BY <1>1
<1>4. Bare'
  BY <1>1, <1>2, <1>3, SavesEnd
<1>5. save' \in [P!Savers -> Saves]
  BY <1>1, SavesType, NoSaveType
<1>6. told' \subseteq P!Edits
  BY <1>1 DEF SyncInv, P!TypeOK
<1>7. /\ turns' \in 0..MaxTurns /\ revision' \in [Profiles -> P!Revision] /\ import' = None
      /\ up' = FALSE /\ returned' = FALSE
  BY ProfilesAssumption DEF SyncInv, P!TypeOK, P!Stop, P!Revision
<1>8. P!TypeOK'
  BY <1>2, <1>5, <1>6, <1>7 DEF SyncInv, P!TypeOK, P!Stop, P!editor, Saves
<1> QED
  BY <1>4, <1>8 DEF SyncInv

LEMMA BumpOrStart ==
  ASSUME SyncInv, P!Bump \/ P!Start
  PROVE  SyncInv'
<1>1. UNCHANGED <<profiles, open, text, opening, pending, told, gone, made, save, risked>>
  BY DEF P!Bump, P!Start, P!client, P!editor, P!history
<1>2. P!TypeOK'
  <2>1. CASE P!Bump
    <3>1. import \in Profiles /\ revision[import] + 1 \in P!Revision
      BY <2>1 DEF P!Bump, SyncInv, P!TypeOK, P!Revision
    <3> QED
      BY <2>1, <3>1 DEF P!Bump, SyncInv, P!TypeOK, P!client, P!editor, P!history
  <2>2. CASE P!Start
    BY <2>2 DEF P!Start, SyncInv, P!TypeOK, P!editor, P!history
  <2> QED
    BY <2>1, <2>2
<1>3. Opened'
  BY <1>1 DEF SyncInv, Bare, Opened, Slack
<1> QED
  BY <1>1, <1>2, <1>3, Aside DEF SyncInv

LEMMA SyncStutters ==
  ASSUME SyncInv, UNCHANGED profileStore
  PROVE  SyncInv'
<1>1. P!TypeOK' /\ UNCHANGED <<profiles, open, text, opening, pending, told, gone, made, save, risked>>
  BY DEF profileStore, SyncInv, P!TypeOK
<1>2. Opened'
  BY <1>1 DEF SyncInv, Bare, Opened, Slack
<1> QED
  BY <1>1, <1>2, Aside DEF SyncInv

LEMMA SyncInductive ==
  ASSUME SyncInv, P!Next
  PROVE  SyncInv'
<1>1. CASE P!Edit \/ (\E p \in Profiles : P!OpenProfile(p)) \/ P!OpenText \/ P!OpenRevision
           \/ P!LoadProfile \/ P!Quit
  BY <1>1, EditStep, OpenStep, OpenTextStep, OpenRevisionStep, LoadProfileStep, QuitStep
<1>2. CASE P!Debounced \/ P!Flush \/ P!OwnerReturned \/ P!Fetch
  BY <1>2, TakingStep, FetchStep
<1>3. CASE \E p \in Profiles : P!ApplyNow(p) \/ P!Import(p)
  BY <1>3, ApplyNowStep, ImportStep
<1>4. ASSUME NEW s \in P!Savers, P!Answered(s)
      PROVE  SyncInv'
  <2>1. CASE P!StaleAgain(s)
    BY <2>1, SaveFailedStep DEF P!StaleAgain
  <2> QED
    BY <1>4, <2>1, CheckStep, SaveProfileStep, SavedStep, TakeRevisionStep, NotRunningStep
    DEF P!Answered
<1>5. CASE P!Bump \/ P!Stop \/ P!Start
  BY <1>5, BumpOrStart, StopServiceStep
<1> QED
  BY <1>1, <1>2, <1>3, <1>4, <1>5 DEF P!Next

LEMMA SyncHolds == ServiceSpec => []SyncInv
<1>1. ServiceInit => SyncInv
  BY SyncInit DEF ServiceInit
<1>2. SyncInv /\ [InSettings \/ InProfiles]_<<part, settings, profileStore>> => SyncInv'
  BY SyncInductive, SyncStutters DEF InSettings, InProfiles
<1> QED
  BY <1>1, <1>2, PTL DEF ServiceSpec

\* NothingLost, for any profiles and bounds: with nothing queued or on its way,
\* every edit is in its profile's file, or the user was told that it is not, or
\* an import replaced it, or the app itself put it at risk (`risked`: the queue's
\* one place, a profile read or saved beside the queue, a closed window).
THEOREM NoEditLost == ServiceSpec => []NothingLost
<1>1. SyncInv => NothingLost
  <2>1. SUFFICES ASSUME SyncInv, P!Settled, NEW p \in Profiles, NEW e \in made[p]
                 PROVE  e \in profiles[p] \cup told \cup gone \cup risked
    BY DEF NothingLost, P!NothingLost, P!EveryEditSaved, SyncInv
  <2>2. pending = None /\ \A s \in P!Savers : save[s].id = None
    BY <2>1, SavesType DEF P!Settled, Active
  <2>3. IsKept(p, e)
    BY <2>1 DEF SyncInv, Bare, MadeKept
  <2> QED
    BY <2>2, <2>3, NoneApart DEF IsKept, Slack
<1> QED
  BY <1>1, SyncHolds, PTL

\* NewestWins, for any profiles and bounds: no save takes an edit off the disk
\* that an earlier one put there, but one that the app put at risk or that an
\* import replaced.
THEOREM NewestIsKept == ServiceSpec => NewestWins
<1>1. SyncInv /\ [InSettings \/ InProfiles]_<<part, settings, profileStore>>
        => [\A s \in P!Savers :
              P!SaveProfile(s) =>
                profiles[save[s].id] \cap P!Edits
                  \subseteq save[s].text \cup risked \cup gone]_(P!vars)
  <2>1. SUFFICES ASSUME SyncInv, NEW s \in P!Savers, P!SaveProfile(s)
                 PROVE  profiles[save[s].id] \cap P!Edits
                          \subseteq save[s].text \cup risked \cup gone
    OBVIOUS
  <2>2. Covers(profiles[save[s].id], save[s].text, Slack)
    BY <2>1, WrittenOver DEF P!SaveProfile
  <2> QED
    BY <2>2 DEF Covers, Slack
<1> QED
  BY <1>1, SyncHolds, PTL DEF ServiceSpec, NewestWins, P!NewestWins
=============================================================================
