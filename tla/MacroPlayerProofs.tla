-------------------------- MODULE MacroPlayerProofs --------------------------
(***************************************************************************)
(* Proofs about MacroPlayer, for any slots, steps, keys, types and numbers *)
(* of runs.                                                                *)
(*                                                                         *)
(* The runs of a slot wait for each other in a line, the youngest of which *)
(* is in `runs`; that a restarted macro begins alone follows from the line *)
(* having no branches, which a number for each run's place in it says.     *)
(***************************************************************************)
EXTENDS MacroPlayer, TLAPS

Live(s) == {r \in Runs : ~Finished(r) /\ run[r].slot = s}

\* Where a task is, it has what it needs there.
Placed ==
  /\ \A r \in Runs :
       /\ run[r].at # 0
       /\ ~Finished(r) => run[r].slot \in Slots
       /\ run[r].pc = "book" =>
            run[r].at \in DOMAIN Now(r) /\ Now(r)[run[r].at].op \in {"down", "up"}
       /\ run[r].pc # "freeing" => run[r].gone = {}
  /\ \A s \in Slots : Playing(s) => run[runs[s]].slot = s

\* The runs of a slot in the order they were started in: all but the first
\* wait for the one before, and the last is the one in `runs`.
InLine(place) ==
  \A s \in Slots :
    /\ \A r, q \in Live(s) : r # q => place[r] # place[q]
    /\ \A r \in Live(s) : runs[s] \in Live(s) /\ place[r] <= place[runs[s]]
    /\ \A r, q \in Live(s) : place[r] < place[q] =>
         /\ run[q].pc = "before" /\ run[q].before \in Live(s)
         /\ place[r] <= place[run[q].before] /\ place[run[q].before] < place[q]

WaitInLine == \E place \in [Runs -> Nat] : InLine(place)

IInv == TypeOK /\ Placed /\ WaitInLine

\* What is let go of stays so: nothing is on the list of a run that let go.
LetGo ==
  \A r \in Runs :
    /\ run[r].pc = "freeing" => HeldBy({r}) = {}
    /\ run[r].pc \in {"ending", "done"} /\ (run[r].err \/ (run[r].stop /\ ~run[r].late))
         => HeldBy({r}) = {}

\* The keys a macro's steps are about.
KeysOf(s) == {k \in Keys : \E p \in Parts : \E i \in DOMAIN Steps[s][p] : Steps[s][p][i].key = k}

\* Macros press keys of their own.
KeysApart == \A s, t \in Slots : s # t => KeysOf(s) \cap KeysOf(t) = {}

\* What a stop lets go of is still to be let go of.
Listed ==
  /\ Tracked
  /\ deck.pc # "freeing" => deck.gone = {}

\* A key about to come off the list is up.
Uncrossed ==
  /\ crossed = {}
  /\ \A r \in Runs :
       run[r].pc = "book" /\ Now(r)[run[r].at].op = "up" => Now(r)[run[r].at].key \notin down

Record ==
  [slot : Slots \cup {None}, trigger : (UNION {Triggers[s] : s \in Slots}) \cup {None},
   pc : {"free", "before", "loop", "step", "book", "pause", "rest", "await",
         "check", "freeing", "ending", "done"},
   part : Parts, at : Nat, err : BOOLEAN, gone : SUBSET Keys, stop : BOOLEAN,
   late : BOOLEAN, released : BOOLEAN, queued : 0..MaxQueued,
   before : Runs \cup {None}]

-----------------------------------------------------------------------------
(* Steps within a run.                                                     *)

LEMMA StepFacts ==
  ASSUME NEW s \in Slots, NEW p \in Parts
  PROVE  /\ Steps[s][p] \in Seq(Events)
         /\ Len(Steps[s][p]) \in Nat /\ DOMAIN Steps[s][p] = 1..Len(Steps[s][p])
         /\ \A i \in DOMAIN Steps[s][p] :
              /\ Steps[s][p][i] \in Events
              /\ Steps[s][p][i].op # "other" => Steps[s][p][i].key \in Keys
<1>1. Steps[s][p] \in Seq(Events)
  BY StepsAssumption
<1>2. Len(Steps[s][p]) \in Nat /\ DOMAIN Steps[s][p] = 1..Len(Steps[s][p])
  BY <1>1
<1>3. \A i \in DOMAIN Steps[s][p] : Steps[s][p][i] \in Events
  BY <1>1, <1>2
<1>4. \A i \in DOMAIN Steps[s][p] : Steps[s][p][i].op # "other" => Steps[s][p][i].key # None
  BY StepsAssumption
<1> QED
  BY <1>1, <1>2, <1>3, <1>4 DEF Events

\* A run between its beginning and its end.
Underway == {"loop", "step", "book", "pause", "rest", "await", "check", "freeing"}

\* What the steps of a run that has begun have in common.
Within(r) ==
  /\ run' = [run EXCEPT ![r] = run'[r]]
  /\ run'[r] \in Record
  /\ run'[r].slot = run[r].slot /\ run'[r].trigger = run[r].trigger
  /\ run'[r].before = run[r].before
  /\ run[r].pc \in Underway /\ run'[r].pc \in Underway \cup {"ending"}
  /\ runs' = runs

LEMMA WithinRun ==
  ASSUME IInv, NEW r \in Runs,
         Loops(r) \/ PlaysStep(r) \/ Books(r) \/ Pauses(r) \/ PartEnds(r) \/ Rests(r)
           \/ Awaits(r) \/ Checks(r) \/ Frees(r)
  PROVE  Within(r) /\ run'[r].at # 0
<1> run \in [Runs -> Record] /\ run[r].at # 0
  BY DEF IInv, TypeOK, Placed, Record
<1> run[r] \in Record
  OBVIOUS
<1> USE DEF Within, Underway, Goes, Plays, Halts
<1>1. CASE Loops(r)
  BY <1>1 DEF Loops, Record, Parts
<1>2. CASE PlaysStep(r)
  <2>1. run[r].pc = "step" /\ runs' = runs
    BY <1>2 DEF PlaysStep
  <2>2. Goes(r, "pause") \/ Goes(r, "book") \/ Halts(r)
    BY <1>2 DEF PlaysStep
  <2> QED
    BY <2>1, <2>2 DEF Record
<1>3. CASE Books(r)
  BY <1>3 DEF Books, Record
<1>4. CASE Pauses(r)
  BY <1>4 DEF Pauses, Record
<1>5. CASE PartEnds(r)
  BY <1>5, QueuedAssumption DEF PartEnds, Record, Parts
<1>6. CASE Rests(r)
  BY <1>6 DEF Rests, Record, Parts
<1>7. CASE Awaits(r)
  BY <1>7 DEF Awaits, Record, Parts
<1>8. CASE Checks(r)
  BY <1>8 DEF Checks, Record, HeldBy
<1>9. CASE Frees(r)
  BY <1>9 DEF Frees, Record
<1> QED
  BY <1>1, <1>2, <1>3, <1>4, <1>5, <1>6, <1>7, <1>8, <1>9

\* The line does not change when no run begins, ends or is started.
LEMMA SameLine ==
  ASSUME IInv,
         \A r \in Runs : /\ run'[r].slot = run[r].slot /\ run'[r].before = run[r].before
                         /\ run'[r].pc \in {"free", "done"} <=> Finished(r)
                         /\ run'[r].pc = "before" <=> run[r].pc = "before",
         runs' = runs
  PROVE  WaitInLine'
<1>1. PICK place \in [Runs -> Nat] : InLine(place)
  BY DEF IInv, WaitInLine
<1>2. \A s \in Slots : Live(s)' = Live(s)
  BY DEF Live, Finished
<1>3. \A s \in Slots : \A q \in Live(s) :
        run'[q].before = run[q].before /\ (run'[q].pc = "before" <=> run[q].pc = "before")
  BY DEF Live
<1>4. InLine(place)'
  BY <1>1, <1>2, <1>3 DEF InLine
<1> QED
  BY <1>4 DEF WaitInLine

\* Nor when one of them takes a step.
LEMMA WithinLine ==
  ASSUME IInv, NEW r \in Runs, Within(r)
  PROVE  WaitInLine'
<1>1. \A q \in Runs : q # r => run'[q] = run[q]
  BY DEF Within, IInv, TypeOK
<1>2. ASSUME NEW q \in Runs
      PROVE  /\ run'[q].slot = run[q].slot /\ run'[q].before = run[q].before
             /\ run'[q].pc \in {"free", "done"} <=> Finished(q)
             /\ run'[q].pc = "before" <=> run[q].pc = "before"
  <2>1. CASE q = r
    BY <2>1 DEF Within, Underway, Finished
  <2>2. CASE q # r
    BY <1>1, <2>2 DEF Finished
  <2> QED
    BY <2>1, <2>2
<1> QED
  BY <1>2, SameLine DEF Within

LEMMA BeginsLine ==
  ASSUME IInv, NEW r \in Runs, Begins(r)
  PROVE  WaitInLine'
<1>1. PICK place \in [Runs -> Nat] : InLine(place)
  BY DEF IInv, WaitInLine
<1>2. /\ run[r].pc = "before" /\ runs' = runs
      /\ run[r].before # None => Finished(run[r].before)
  BY DEF Begins
<1>3. /\ \A q \in Runs : q # r => run'[q] = run[q]
      /\ run'[r].slot = run[r].slot /\ run'[r].pc \in {"loop", "step"}
  BY DEF Begins, IInv, TypeOK
<1>4. \A s \in Slots : Live(s)' = Live(s)
  BY <1>2, <1>3 DEF Live, Finished
<1>5. ASSUME NEW s \in Slots, NEW q \in Runs, q \in Live(s), r \in Live(s)
      PROVE  ~(place[q] < place[r])
  <2> SUFFICES ASSUME place[q] < place[r] PROVE FALSE
    OBVIOUS
  <2>1. run[r].before \in Live(s)
    BY <1>1, <1>5 DEF InLine
  <2>2. run[r].before # None
    BY <2>1, NoneAssumption DEF Live
  <2> QED
    BY <1>2, <2>1, <2>2 DEF Live
<1>6. InLine(place)'
  <2> SUFFICES ASSUME NEW s \in Slots
               PROVE /\ \A q, t \in Live(s) : q # t => place[q] # place[t]
                     /\ \A q \in Live(s) : runs[s] \in Live(s) /\ place[q] <= place[runs[s]]
                     /\ \A q, t \in Live(s) : place[q] < place[t] =>
                          /\ run'[t].pc = "before" /\ run'[t].before \in Live(s)
                          /\ place[q] <= place[run'[t].before] /\ place[run'[t].before] < place[t]
    BY <1>2, <1>4 DEF InLine
  <2>1. ASSUME NEW q \in Live(s), NEW t \in Live(s), place[q] < place[t]
        PROVE  run'[t] = run[t]
    <3>1. t # r
      BY <1>5, <2>1 DEF Live
    <3> QED
      BY <1>3, <3>1 DEF Live
  <2> QED
    BY <1>1, <2>1 DEF InLine
<1> QED
  BY <1>6 DEF WaitInLine

LEMMA FinishesLine ==
  ASSUME IInv, NEW r \in Runs, Finishes(r)
  PROVE  WaitInLine'
<1>1. PICK place \in [Runs -> Nat] : InLine(place)
  BY DEF IInv, WaitInLine
<1>2. /\ run[r].pc = "ending" /\ runs' = runs
      /\ \A q \in Runs : q # r => run'[q] = run[q]
      /\ run'[r].pc = "done"
  BY DEF Finishes, IInv, TypeOK, Unused
<1>3. \A s \in Slots : Live(s)' = Live(s) \ {r}
  BY <1>2 DEF Live, Finished
<1>4. ASSUME NEW s \in Slots, NEW q \in Runs, q \in Live(s), r \in Live(s)
      PROVE  ~(place[q] < place[r])
  BY <1>1, <1>2, <1>4 DEF InLine
<1>5. InLine(place)'
  <2>0. \A s \in Slots : \A q \in Live(s) \ {r} : run'[q] = run[q]
    BY <1>2 DEF Live
  <2> SUFFICES ASSUME NEW s \in Slots
               PROVE /\ \A q, t \in Live(s) \ {r} : q # t => place[q] # place[t]
                     /\ \A q \in Live(s) \ {r} :
                          runs[s] \in Live(s) \ {r} /\ place[q] <= place[runs[s]]
                     /\ \A q, t \in Live(s) \ {r} : place[q] < place[t] =>
                          /\ run[t].pc = "before" /\ run[t].before \in Live(s) \ {r}
                          /\ place[q] <= place[run[t].before] /\ place[run[t].before] < place[t]
    BY <1>2, <1>3, <2>0 DEF InLine
  <2>1. ASSUME NEW q \in Live(s) \ {r} PROVE r \in Live(s) => place[r] < place[q]
    <3>1. place[r] \in Nat /\ place[q] \in Nat
      BY DEF Live
    <3>2. q \in Runs
      BY DEF Live
    <3> QED
      BY <1>1, <1>4, <3>1, <3>2 DEF InLine
  <2>2. ASSUME NEW q \in Live(s) \ {r} PROVE runs[s] # r
    <3>1. runs[s] \in Live(s) /\ place[q] <= place[runs[s]]
      BY <1>1 DEF InLine
    <3>2. place[r] \in Nat /\ place[q] \in Nat
      BY DEF Live
    <3> QED
      BY <2>1, <3>1, <3>2
  <2>3. ASSUME NEW q \in Live(s) \ {r}, NEW t \in Live(s) \ {r}, place[q] < place[t]
        PROVE  run[t].before # r
    <3>1. run[t].before \in Live(s) /\ place[q] <= place[run[t].before]
      BY <1>1, <2>3 DEF InLine
    <3>2. place[r] \in Nat /\ place[q] \in Nat
      BY DEF Live
    <3> QED
      BY <2>1, <3>1, <3>2
  <2> QED
    BY <1>1, <2>2, <2>3 DEF InLine
<1> QED
  BY <1>5 DEF WaitInLine

\* A run that starts is the last of its slot, behind the one it waits for.
LEMMA StartLine ==
  ASSUME IInv, NEW s \in Slots, NEW t \in Triggers[s],
         NEW before \in Runs \cup {None}, NEW rs \in [Runs -> Record],
         \A q \in Runs : /\ rs[q].slot = run[q].slot /\ rs[q].before = run[q].before
                         /\ rs[q].pc = run[q].pc,
         IF before = None THEN ~Playing(s) ELSE Playing(s) /\ before = runs[s],
         Start(s, t, before, rs)
  PROVE  WaitInLine'
<1>1. PICK place \in [Runs -> Nat] : InLine(place)
  BY DEF IInv, WaitInLine
<1>2. PICK r \in Fresh(s) \ {before} :
        /\ run' = [rs EXCEPT ![r] = [Unused EXCEPT !.slot = s, !.trigger = t,
                                                   !.pc = "before", !.before = before]]
        /\ runs' = [runs EXCEPT ![s] = r]
  BY DEF Start
<1>3. /\ r \in Runs /\ Finished(r) /\ r # before
      /\ \A q \in Runs : run[q].before # r
  BY <1>2 DEF Fresh
<1>4. /\ run'[r].slot = s /\ run'[r].pc = "before" /\ run'[r].before = before
      /\ \A q \in Runs : q # r => run'[q] = rs[q]
      /\ runs'[s] = r /\ \A u \in Slots : u # s => runs'[u] = runs[u]
  BY <1>2, <1>3 DEF Unused, IInv, TypeOK
<1>5. /\ Live(s)' = Live(s) \cup {r}
      /\ \A u \in Slots : u # s => Live(u)' = Live(u)
  BY <1>3, <1>4 DEF Live, Finished
<1>6. \A u \in Slots : r \notin Live(u) /\ Live(u) \subseteq Runs
  BY <1>3 DEF Live
<1>7. IF before = None THEN Live(s) = {} ELSE before \in Live(s) /\ before = runs[s]
  <2>1. CASE before = None
    <3>1. \A q \in Live(s) : runs[s] \in Live(s)
      BY <1>1 DEF InLine
    <3>2. runs[s] \in Live(s) => Playing(s)
      BY NoneAssumption DEF Live, Playing
    <3> QED
      BY <2>1, <3>1, <3>2
  <2>2. CASE before # None
    BY <2>2 DEF Live, Playing, IInv, TypeOK, Placed
  <2> QED
    BY <2>1, <2>2
<1> DEFINE rank == [place EXCEPT ![r] = IF before = None THEN 0 ELSE place[before] + 1]
<1>8. /\ rank \in [Runs -> Nat]
      /\ \A q \in Runs : q # r => rank[q] = place[q]
      /\ before # None => rank[r] = place[before] + 1
  BY <1>3
<1> HIDE DEF rank
<1>9. ASSUME NEW u \in Slots, NEW q \in Runs, q \in Live(u)
      PROVE  /\ run'[q].slot = run[q].slot /\ run'[q].before = run[q].before
             /\ run'[q].pc = run[q].pc /\ rank[q] = place[q] /\ place[q] \in Nat
  <2>1. q # r
    BY <1>6, <1>9
  <2> QED
    BY <1>4, <1>8, <2>1
<1>10. ASSUME NEW u \in Slots, u # s
       PROVE  /\ \A q, v \in Live(u)' : q # v => rank[q] # rank[v]
              /\ \A q \in Live(u)' : runs'[u] \in Live(u)' /\ rank[q] <= rank[runs'[u]]
              /\ \A q, v \in Live(u)' : rank[q] < rank[v] =>
                   /\ run'[v].pc = "before" /\ run'[v].before \in Live(u)'
                   /\ rank[q] <= rank[run'[v].before] /\ rank[run'[v].before] < rank[v]
  <2>1. Live(u)' = Live(u) /\ Live(u) \subseteq Runs /\ runs'[u] = runs[u]
    BY <1>4, <1>5, <1>6, <1>10
  <2>2. \A q \in Live(u) : /\ rank[q] = place[q] /\ run'[q].before = run[q].before
                           /\ run'[q].pc = run[q].pc
    BY <1>9, <2>1
  <2> QED
    BY <1>1, <2>1, <2>2 DEF InLine
<1>11. \A q \in Live(s) : before # None /\ rank[q] <= rank[before] /\ rank[before] < rank[r]
  <2> SUFFICES ASSUME NEW q \in Live(s)
               PROVE before # None /\ rank[q] <= rank[before] /\ rank[before] < rank[r]
    OBVIOUS
  <2>1. before # None /\ before \in Live(s) /\ before = runs[s]
    BY <1>7
  <2>2. place[q] <= place[before]
    BY <1>1, <2>1 DEF InLine
  <2>3. rank[q] = place[q] /\ rank[before] = place[before] /\ place[before] \in Nat
    BY <1>6, <1>9, <2>1
  <2> QED
    BY <1>8, <2>1, <2>2, <2>3
<1>12. /\ \A q, v \in Live(s)' : q # v => rank[q] # rank[v]
       /\ \A q \in Live(s)' : runs'[s] \in Live(s)' /\ rank[q] <= rank[runs'[s]]
       /\ \A q, v \in Live(s)' : rank[q] < rank[v] =>
            /\ run'[v].pc = "before" /\ run'[v].before \in Live(s)'
            /\ rank[q] <= rank[run'[v].before] /\ rank[run'[v].before] < rank[v]
  <2>1. \A q \in Live(s) : /\ rank[q] = place[q] /\ run'[q].before = run[q].before
                           /\ run'[q].pc = run[q].pc /\ q # r /\ q \in Runs
                           /\ rank[q] \in Nat
    BY <1>6, <1>8, <1>9
  <2>2. rank[r] \in Nat /\ (before # None => rank[before] \in Nat)
    BY <1>3, <1>8
  <2>3. \A q, v \in Live(s) : /\ q # v => rank[q] # rank[v]
                              /\ rank[q] < rank[v] =>
                                   /\ run'[v].pc = "before" /\ run'[v].before \in Live(s)
                                   /\ rank[q] <= rank[run'[v].before]
                                   /\ rank[run'[v].before] < rank[v]
    BY <1>1, <2>1 DEF InLine
  <2>4. \A q \in Live(s) : rank[q] < rank[r] /\ ~(rank[r] < rank[q]) /\ rank[q] <= rank[r]
    BY <1>11, <2>1, <2>2
  <2>5. \A q \in Live(s) : /\ run'[r].before \in Live(s)
                           /\ rank[q] <= rank[run'[r].before] /\ rank[run'[r].before] < rank[r]
    BY <1>4, <1>7, <1>11
  <2>6. \A q \in Live(s)' : q = r \/ q \in Live(s)
    BY <1>5
  <2> QED
    BY <1>4, <1>5, <2>1, <2>2, <2>3, <2>4, <2>5, <2>6
<1>13. InLine(rank)'
  <2> SUFFICES ASSUME NEW u \in Slots
               PROVE
                 /\ \A q, v \in Live(u)' : q # v => rank[q] # rank[v]
                 /\ \A q \in Live(u)' : runs'[u] \in Live(u)' /\ rank[q] <= rank[runs'[u]]
                 /\ \A q, v \in Live(u)' : rank[q] < rank[v] =>
                      /\ run'[v].pc = "before" /\ run'[v].before \in Live(u)'
                      /\ rank[q] <= rank[run'[v].before] /\ rank[run'[v].before] < rank[v]
    BY DEF InLine
  <2> QED
    BY <1>10, <1>12
<1> QED
  BY <1>8, <1>13 DEF WaitInLine

-----------------------------------------------------------------------------
(* Every step keeps the invariant.                                         *)

\* A run that starts has what it needs.
LEMMA StartInv ==
  ASSUME IInv, NEW s \in Slots, NEW t \in Triggers[s],
         NEW before \in Runs \cup {None}, NEW rs \in [Runs -> Record],
         \A q \in Runs : /\ rs[q].slot = run[q].slot /\ rs[q].before = run[q].before
                         /\ rs[q].pc = run[q].pc /\ rs[q].at = run[q].at
                         /\ rs[q].part = run[q].part /\ rs[q].gone = run[q].gone,
         IF before = None THEN ~Playing(s) ELSE Playing(s) /\ before = runs[s],
         Start(s, t, before, rs), UNCHANGED <<held, down, deck, crossed>>
  PROVE  IInv'
<1>1. PICK r \in Fresh(s) \ {before} :
        /\ run' = [rs EXCEPT ![r] = [Unused EXCEPT !.slot = s, !.trigger = t,
                                                   !.pc = "before", !.before = before]]
        /\ runs' = [runs EXCEPT ![s] = r]
  BY DEF Start
<1>2. /\ r \in Runs /\ Finished(r)
      /\ \A u \in Slots \ {s} : runs[u] # r
  BY <1>1 DEF Fresh
<1> DEFINE new == [Unused EXCEPT !.slot = s, !.trigger = t, !.pc = "before", !.before = before]
<1>3. /\ new \in Record /\ new.slot = s /\ new.pc = "before" /\ new.at = 1 /\ new.gone = {}
  <2>1. t \in UNION {Triggers[u] : u \in Slots}
    OBVIOUS
  <2>2. 0 \in 0..MaxQueued /\ 1 \in Nat
    BY QueuedAssumption
  <2> QED
    BY <2>1, <2>2 DEF Unused, Record, Parts
<1> HIDE DEF new
<1>4. /\ run' \in [Runs -> Record] /\ run'[r] = new
      /\ \A q \in Runs : q # r => run'[q] = rs[q]
  BY <1>1, <1>2, <1>3 DEF new
<1>5. runs' \in [Slots -> Runs \cup {None}] /\ runs'[s] = r
      /\ \A u \in Slots : u # s => runs'[u] = runs[u]
  BY <1>1, <1>2 DEF IInv, TypeOK
<1>6. TypeOK'
  BY <1>4, <1>5 DEF IInv, TypeOK, Record, Start
<1>7. ASSUME NEW q \in Runs
      PROVE  /\ run'[q].at # 0
             /\ run'[q].pc \notin {"free", "done"} => run'[q].slot \in Slots
             /\ run'[q].pc = "book" =>
                  /\ run'[q].at \in DOMAIN Steps[run'[q].slot][run'[q].part]
                  /\ Steps[run'[q].slot][run'[q].part][run'[q].at].op \in {"down", "up"}
             /\ run'[q].pc # "freeing" => run'[q].gone = {}
  <2>1. CASE q = r
    BY <1>3, <1>4, <2>1
  <2>2. CASE q # r
    <3>1. /\ run'[q].slot = run[q].slot /\ run'[q].pc = run[q].pc /\ run'[q].at = run[q].at
          /\ run'[q].part = run[q].part /\ run'[q].gone = run[q].gone
      BY <1>4, <2>2
    <3> QED
      BY <3>1 DEF IInv, Placed, Finished, Now
  <2> QED
    BY <2>1, <2>2
<1>8. ASSUME NEW u \in Slots, Playing(u)' PROVE run'[runs'[u]].slot = u
  <2>1. CASE u = s
    BY <1>3, <1>4, <1>5, <2>1
  <2>2. CASE u # s
    <3>1. runs'[u] = runs[u] /\ runs[u] # r /\ runs[u] \in Runs
      BY <1>2, <1>5, <1>8, <2>2 DEF Playing, IInv, TypeOK
    <3>2. Playing(u)
      BY <1>4, <1>8, <3>1 DEF Playing, Finished
    <3> QED
      BY <1>4, <3>1, <3>2 DEF IInv, Placed
  <2> QED
    BY <2>1, <2>2
<1>9. Placed'
  BY <1>7, <1>8 DEF Placed, Finished, Now
<1> QED
  BY <1>6, <1>9, StartLine DEF IInv

\* A step that changes nothing of a run but what it was told.
LEMMA ToldInv ==
  ASSUME IInv, run' \in [Runs -> Record], UNCHANGED runs,
         \A q \in Runs : /\ run'[q].slot = run[q].slot /\ run'[q].before = run[q].before
                         /\ run'[q].pc = run[q].pc /\ run'[q].at = run[q].at
                         /\ run'[q].part = run[q].part /\ run'[q].gone = run[q].gone
  PROVE  Placed' /\ WaitInLine'
<1>1. WaitInLine'
  BY SameLine DEF Finished
<1>2. \A q \in Runs : Finished(q)' <=> Finished(q)
  BY DEF Finished
<1>3. \A s \in Slots : Playing(s)' => Playing(s) /\ runs[s] \in Runs
  BY <1>2 DEF Playing, IInv, TypeOK
<1>4. Placed'
  BY <1>2, <1>3 DEF IInv, Placed, Now
<1> QED
  BY <1>1, <1>4

LEMMA PressInv ==
  ASSUME IInv, NEW s \in Slots, NEW t \in Triggers[s], Press(s, t)
  PROVE  IInv'
<1>1. run \in [Runs -> Record]
  BY DEF IInv, TypeOK, Record
<1>2. CASE ~Playing(s) /\ Start(s, t, None, run)
  BY <1>1, <1>2, StartInv DEF Press
<1>3. CASE Playing(s)
  <2> DEFINE old == runs[s]
  <2>1. old \in Runs
    BY <1>3 DEF Playing, IInv, TypeOK
  <2>2. run[old] \in Record
    BY <1>1, <2>1
  <2>3. Stop(old) = [run[old] EXCEPT !.stop = TRUE, !.late = @ \/ run[old].pc = "ending"]
    BY DEF Stop
  <2> HIDE DEF old
  <2>4. /\ Stop(old) \in Record
        /\ Stop(old).slot = run[old].slot /\ Stop(old).before = run[old].before
        /\ Stop(old).pc = run[old].pc /\ Stop(old).at = run[old].at
        /\ Stop(old).part = run[old].part /\ Stop(old).gone = run[old].gone
    BY <2>2, <2>3 DEF Record
  <2>5. CASE run[old].trigger = "restart" /\ Start(s, t, old, [run EXCEPT ![old] = Stop(old)])
    <3> DEFINE rs == [run EXCEPT ![old] = Stop(old)]
    <3>1. rs \in [Runs -> Record]
      BY <1>1, <2>4
    <3>2. \A q \in Runs : /\ rs[q].slot = run[q].slot /\ rs[q].before = run[q].before
                          /\ rs[q].pc = run[q].pc /\ rs[q].at = run[q].at
                          /\ rs[q].part = run[q].part /\ rs[q].gone = run[q].gone
      BY <1>1, <2>1, <2>4
    <3>3. Start(s, t, old, rs) /\ UNCHANGED <<held, down, deck, crossed>>
      BY <2>5 DEF Press
    <3>4. old # None /\ Playing(s) /\ old = runs[s]
      BY <1>3, <2>1, NoneAssumption DEF old
    <3> HIDE DEF rs
    <3> QED
      BY <2>1, <3>1, <3>2, <3>3, <3>4, StartInv
  <2>6. CASE /\ UNCHANGED <<runs, deck>>
             /\ \/ run' = [run EXCEPT ![old] = Stop(old)]
                \/ run[old].queued < MaxQueued /\ run' = [run EXCEPT ![old].queued = @ + 1]
                \/ run' = [run EXCEPT ![old].released = FALSE]
    <3>1. /\ [run[old] EXCEPT !.released = FALSE] \in Record
          /\ run[old].queued < MaxQueued => [run[old] EXCEPT !.queued = @ + 1] \in Record
      <4>1. [run[old] EXCEPT !.released = FALSE] \in Record
        BY <2>2 DEF Record
      <4>2. run[old].queued < MaxQueued => run[old].queued + 1 \in 0..MaxQueued
        BY <2>2, QueuedAssumption DEF Record
      <4>3. run[old].queued < MaxQueued => [run[old] EXCEPT !.queued = @ + 1] \in Record
        BY <2>2, <4>2 DEF Record
      <4> QED
        BY <4>1, <4>3
    <3>5. run' \in [Runs -> Record]
      BY <1>1, <2>1, <2>4, <2>6, <3>1
    <3>2. \A q \in Runs : /\ run'[q].slot = run[q].slot /\ run'[q].before = run[q].before
                          /\ run'[q].pc = run[q].pc /\ run'[q].at = run[q].at
                          /\ run'[q].part = run[q].part /\ run'[q].gone = run[q].gone
      BY <1>1, <2>1, <2>4, <2>6 DEF Record
    <3>3. Placed' /\ WaitInLine'
      BY <2>6, <3>5, <3>2, ToldInv
    <3>4. TypeOK'
      BY <2>6, <3>5 DEF Press, IInv, TypeOK, Record
    <3> QED
      BY <3>3, <3>4 DEF IInv
  <2>7. \/ run[old].trigger = "restart" /\ Start(s, t, old, [run EXCEPT ![old] = Stop(old)])
        \/ /\ UNCHANGED <<runs, deck>>
           /\ \/ run' = [run EXCEPT ![old] = Stop(old)]
              \/ run[old].queued < MaxQueued /\ run' = [run EXCEPT ![old].queued = @ + 1]
              \/ run' = [run EXCEPT ![old].released = FALSE]
    BY <1>3, Zenon DEF Press, old
  <2> QED
    BY <2>5, <2>6, <2>7
<1> QED
  BY <1>2, <1>3 DEF Press

LEMMA ReleaseInv ==
  ASSUME IInv, NEW c, Release(c)
  PROVE  IInv'
<1>1. run \in [Runs -> Record]
  BY DEF IInv, TypeOK, Record
<1>2. \A q \in Runs : run'[q] = run[q] \/ run'[q] = [run[q] EXCEPT !.released = TRUE]
  BY DEF Release
<1>3. run' \in [Runs -> Record]
  <2>1. ASSUME NEW q \in Runs PROVE [run[q] EXCEPT !.released = TRUE] \in Record
    <3>1. run[q] \in Record
      BY <1>1
    <3> QED
      BY <3>1 DEF Record
  <2>3. \A q \in Runs : run'[q] \in Record
    BY <1>1, <1>2, <2>1
  <2>2. run' = [q \in Runs |-> run'[q]]
    BY DEF Release
  <2> QED
    BY <2>2, <2>3
<1>4. Placed' /\ WaitInLine'
  BY <1>1, <1>2, <1>3, ToldInv DEF Record, Release
<1>5. TypeOK'
  BY <1>3 DEF Release, IInv, TypeOK, Record
<1> QED
  BY <1>4, <1>5 DEF IInv

LEMMA StopAllInv ==
  ASSUME IInv, StopAll
  PROVE  IInv'
<1>1. run \in [Runs -> Record]
  BY DEF IInv, TypeOK, Record
<1>2. \A q \in Runs : run'[q] = run[q] \/ run'[q] = Stop(q)
  BY DEF StopAll
<1>3. run' \in [Runs -> Record]
  <2>1. ASSUME NEW q \in Runs PROVE Stop(q) \in Record
    <3>1. run[q] \in Record
      BY <1>1
    <3> QED
      BY <3>1 DEF Record, Stop
  <2>3. \A q \in Runs : run'[q] \in Record
    BY <1>1, <1>2, <2>1
  <2>2. run' = [q \in Runs |-> run'[q]]
    BY DEF StopAll
  <2> QED
    BY <2>2, <2>3
<1>4. \A q \in Runs : /\ run'[q].slot = run[q].slot /\ run'[q].before = run[q].before
                      /\ run'[q].pc = run[q].pc /\ run'[q].at = run[q].at
                      /\ run'[q].part = run[q].part /\ run'[q].gone = run[q].gone
  <2>1. \A q \in Runs : /\ Stop(q).slot = run[q].slot /\ Stop(q).before = run[q].before
                        /\ Stop(q).pc = run[q].pc /\ Stop(q).at = run[q].at
                        /\ Stop(q).part = run[q].part /\ Stop(q).gone = run[q].gone
    BY <1>1 DEF Record, Stop
  <2> QED
    BY <1>2, <2>1
<1>6. Placed' /\ WaitInLine'
  BY <1>3, <1>4, ToldInv DEF StopAll
<1>5. TypeOK'
  BY <1>3 DEF StopAll, IInv, TypeOK, Record
<1> QED
  BY <1>5, <1>6 DEF IInv

LEMMA StopAllTakesInv ==
  ASSUME IInv, StopAllTakes \/ StopAllFrees
  PROVE  IInv'
<1>1. run' = run /\ runs' = runs
  BY DEF StopAllTakes, StopAllFrees
<1>2. Placed' /\ WaitInLine'
  BY <1>1, ToldInv DEF IInv, TypeOK, Record
<1>3. TypeOK'
  BY <1>1 DEF IInv, TypeOK, StopAllTakes, StopAllFrees, TakeHeld, HeldBy
<1> QED
  BY <1>2, <1>3 DEF IInv

LEMMA BeginsInv ==
  ASSUME IInv, NEW r \in Runs, Begins(r)
  PROVE  IInv'
<1>1. run \in [Runs -> Record] /\ run[r] \in Record
  BY DEF IInv, TypeOK, Record
<1>2. /\ run'[r] \in Record /\ run' = [run EXCEPT ![r] = run'[r]]
      /\ run'[r].slot = run[r].slot /\ run'[r].at = run[r].at /\ run'[r].gone = run[r].gone
      /\ run[r].pc = "before" /\ run'[r].pc \in {"loop", "step"}
      /\ UNCHANGED <<runs, held, down, deck, crossed>>
  BY <1>1 DEF Begins, Record, Parts
<1>3. run' \in [Runs -> Record] /\ \A q \in Runs : q # r => run'[q] = run[q]
  BY <1>1, <1>2
<1>4. TypeOK'
  BY <1>2, <1>3 DEF IInv, TypeOK, Record
<1>5. \A q \in Runs : Finished(q)' <=> Finished(q)
  BY <1>2, <1>3 DEF Finished
<1>6. \A s \in Slots : Playing(s)' => /\ Playing(s) /\ runs[s] \in Runs
                                     /\ run'[runs[s]].slot = run[runs[s]].slot
  BY <1>2, <1>3, <1>5 DEF Playing, IInv, TypeOK
<1>7. Placed'
  BY <1>2, <1>3, <1>5, <1>6 DEF IInv, Placed, Now
<1> QED
  BY <1>4, <1>7, BeginsLine DEF IInv

\* What is left of a run that is through.
LEMMA DoneRecord ==
  ASSUME NEW err \in BOOLEAN, NEW stop \in BOOLEAN, NEW late \in BOOLEAN
  PROVE  LET new == [Unused EXCEPT !.pc = "done", !.err = err, !.stop = stop, !.late = late]
         IN  new \in Record /\ new.pc = "done" /\ new.at = 1 /\ new.gone = {}
<1>1. 0 \in 0..MaxQueued /\ 1 \in Nat
  BY QueuedAssumption
<1>2. None \in Slots \cup {None} /\ None \in Runs \cup {None}
      /\ None \in (UNION {Triggers[s] : s \in Slots}) \cup {None} /\ "all" \in Parts
  BY DEF Parts
<1> HIDE DEF Parts
<1> QED
  BY <1>1, <1>2 DEF Unused, Record

LEMMA FinishesInv ==
  ASSUME IInv, NEW r \in Runs, Finishes(r)
  PROVE  IInv'
<1>1. run \in [Runs -> Record] /\ run[r] \in Record
  BY DEF IInv, TypeOK, Record
<1>2. /\ run'[r] \in Record /\ run' = [run EXCEPT ![r] = run'[r]]
      /\ run'[r].pc = "done" /\ run'[r].at = 1 /\ run'[r].gone = {}
      /\ run[r].pc = "ending"
      /\ UNCHANGED <<runs, held, down, deck, crossed>>
  <2> DEFINE new == [Unused EXCEPT !.pc = "done", !.err = run[r].err, !.stop = run[r].stop,
                                   !.late = run[r].late]
  <2>2. run[r].err \in BOOLEAN /\ run[r].stop \in BOOLEAN /\ run[r].late \in BOOLEAN
    BY <1>1 DEF Record
  <2>3. new \in Record /\ new.pc = "done" /\ new.at = 1 /\ new.gone = {}
    BY <2>2, DoneRecord, ZenonT(30)
  <2>4. run' = [run EXCEPT ![r] = new]
    BY DEF Finishes
  <2> HIDE DEF new
  <2>5. run'[r] = new
    BY <1>1, <2>4
  <2> QED
    BY <2>3, <2>4, <2>5 DEF Finishes
<1>3. run' \in [Runs -> Record] /\ \A q \in Runs : q # r => run'[q] = run[q]
  BY <1>1, <1>2
<1>4. TypeOK'
  BY <1>2, <1>3 DEF IInv, TypeOK, Record
<1>5. \A q \in Runs : q # r => (Finished(q)' <=> Finished(q))
  BY <1>3 DEF Finished
<1>6. \A s \in Slots : Playing(s)' => /\ Playing(s) /\ runs[s] \in Runs
                                     /\ run'[runs[s]] = run[runs[s]]
  BY <1>2, <1>3 DEF Playing, IInv, TypeOK, Finished
<1>7. Placed'
  BY <1>2, <1>3, <1>5, <1>6 DEF IInv, Placed, Now, Finished
<1> QED
  BY <1>4, <1>7, FinishesLine DEF IInv

LEMMA WithinInv ==
  ASSUME IInv, NEW r \in Runs,
         Loops(r) \/ PlaysStep(r) \/ Books(r) \/ Pauses(r) \/ PartEnds(r) \/ Rests(r)
           \/ Awaits(r) \/ Checks(r) \/ Frees(r)
  PROVE  IInv'
<1>1. run \in [Runs -> Record] /\ run[r] \in Record
  BY DEF IInv, TypeOK, Record
<1>2. Within(r) /\ run'[r].at # 0
  BY WithinRun
<1>3. run' \in [Runs -> Record] /\ \A q \in Runs : q # r => run'[q] = run[q]
  BY <1>1, <1>2 DEF Within
<1>4. run[r].slot \in Slots /\ run[r].part \in Parts
  BY <1>1, <1>2 DEF IInv, Placed, Within, Underway, Finished, Record
<1>5. DOMAIN Now(r) = 1..Len(Now(r)) /\ Len(Now(r)) \in Nat
      /\ \A i \in DOMAIN Now(r) :
           Now(r)[i] \in Events /\ (Now(r)[i].op # "other" => Now(r)[i].key \in Keys)
  BY <1>4, StepFacts DEF Now
<1>6. run'[r].pc # "freeing" => run'[r].gone = {}
  <2>1. run[r].pc # "freeing" => run[r].gone = {}
    BY DEF IInv, Placed
  <2> USE <1>1, <2>1 DEF Goes, Plays, Halts, Record
  <2>2. CASE Loops(r) \/ Rests(r) \/ Awaits(r)
    BY <2>2 DEF Loops, Rests, Awaits
  <2>3. CASE PlaysStep(r)
    BY <2>3 DEF PlaysStep
  <2>4. CASE Books(r)
    <3>1. run' = [run EXCEPT ![r].pc = "pause"] /\ run[r].pc # "freeing"
      BY <2>4 DEF Books
    <3>2. run'[r] = [run[r] EXCEPT !.pc = "pause"]
      BY <3>1
    <3>3. run'[r].gone = run[r].gone
      BY <3>2
    <3> QED
      BY <3>1, <3>3
  <2>5. CASE Pauses(r)
    BY <2>5 DEF Pauses
  <2>6. CASE PartEnds(r)
    BY <2>6 DEF PartEnds
  <2>7. CASE Checks(r) \/ Frees(r)
    BY <2>7 DEF Checks, Frees
  <2> QED
    BY <2>2, <2>3, <2>4, <2>5, <2>6, <2>7
<1>7. run'[r].pc = "book" =>
        /\ run[r].pc = "step" /\ run[r].at \in DOMAIN Now(r)
        /\ Now(r)[run[r].at].op \in {"down", "up"}
        /\ run'[r].at = run[r].at /\ run'[r].part = run[r].part
  <2> SUFFICES ASSUME run'[r].pc = "book" PROVE
        /\ run[r].pc = "step" /\ run[r].at \in DOMAIN Now(r)
        /\ Now(r)[run[r].at].op \in {"down", "up"}
        /\ run'[r].at = run[r].at /\ run'[r].part = run[r].part
    OBVIOUS
  <2>1. PlaysStep(r)
    BY <1>1 DEF Goes, Plays, Halts, Loops, Books, Pauses, PartEnds, Rests, Awaits, Checks,
       Frees, Record
  <2>2. run[r].pc = "step" /\ run[r].at <= Len(Now(r)) /\ run[r].at \in Nat \ {0}
    BY <1>1, <2>1 DEF PlaysStep, IInv, Placed, Record
  <2>3. run[r].at \in DOMAIN Now(r)
    BY <1>5, <2>2
  <2>4. Goes(r, IF Now(r)[run[r].at].op = "other" THEN "pause" ELSE "book")
    BY <1>1, <2>1 DEF PlaysStep, Halts, Record
  <2> QED
    BY <1>1, <1>5, <2>2, <2>3, <2>4 DEF Goes, Record, Events
<1>8. \A q \in Runs : Finished(q)' <=> Finished(q)
  BY <1>2, <1>3 DEF Finished, Within, Underway
<1>9. \A s \in Slots : Playing(s)' => /\ Playing(s) /\ runs[s] \in Runs /\ runs' = runs
                                     /\ run'[runs[s]].slot = run[runs[s]].slot
  BY <1>2, <1>3, <1>8 DEF Playing, IInv, TypeOK, Within
<1>10. Placed'
  <2>1. \A q \in Runs : /\ run'[q].at # 0
                        /\ ~Finished(q)' => run'[q].slot \in Slots
                        /\ run'[q].pc # "freeing" => run'[q].gone = {}
    BY <1>2, <1>3, <1>6, <1>8 DEF IInv, Placed, Within
  <2>2. ASSUME NEW q \in Runs, run'[q].pc = "book"
        PROVE  (run[q].at \in DOMAIN Now(q) /\ Now(q)[run[q].at].op \in {"down", "up"})'
    <3>1. CASE q = r
      BY <1>2, <1>7, <2>2, <3>1 DEF Now, Within
    <3>2. CASE q # r
      BY <1>3, <2>2, <3>2 DEF IInv, Placed, Now
    <3> QED
      BY <3>1, <3>2
  <2> QED
    BY <1>9, <2>1, <2>2 DEF IInv, Placed
<1>11. TypeOK'
  <2>1. held' \in [Keys -> Runs \cup {None}] /\ UNCHANGED deck
    <3>1. CASE Books(r)
      BY <3>1, Zenon DEF IInv, TypeOK, Books
    <3>2. CASE Checks(r)
      BY <3>2 DEF IInv, TypeOK, Checks, TakeHeld, Goes
    <3> QED
      BY <3>1, <3>2 DEF IInv, TypeOK, Loops, PlaysStep, Pauses, PartEnds, Rests, Awaits, Frees
  <2>3. crossed' \subseteq Keys
    BY Zenon DEF IInv, TypeOK, Loops, PlaysStep, Books, Pauses, PartEnds, Rests, Awaits, Checks,
       Frees
  <2>2. down' \subseteq Keys
    <3>1. CASE PlaysStep(r)
      <4>1. run[r].at \in DOMAIN Now(r)
        BY <1>1, <1>5, <3>1 DEF PlaysStep, IInv, Placed, Record
      <4> QED
        BY <1>5, <3>1, <4>1 DEF PlaysStep, IInv, TypeOK
    <3>2. CASE ~PlaysStep(r)
      BY <3>2 DEF IInv, TypeOK, Loops, Books, Pauses, PartEnds, Rests, Awaits, Checks, Frees
    <3> QED
      BY <3>1, <3>2
  <2> QED
    BY <1>2, <1>3, <2>1, <2>2, <2>3 DEF IInv, TypeOK, Record, Within
<1> QED
  BY <1>2, <1>10, <1>11, WithinLine DEF IInv


LEMMA InitInv == Init => IInv
<1> SUFFICES ASSUME Init PROVE IInv
  OBVIOUS
<1>1. Unused \in Record /\ Unused.pc = "free" /\ Unused.at = 1 /\ Unused.gone = {}
  <2>1. 0 \in 0..MaxQueued /\ 1 \in Nat
    BY QueuedAssumption
  <2> QED
    BY <2>1 DEF Unused, Record, Parts
<1>2. run \in [Runs -> Record] /\ \A r \in Runs : run[r] = Unused
  BY <1>1 DEF Init
<1>3. TypeOK
  BY <1>2 DEF Init, TypeOK, Record
<1>4. Placed
  BY <1>1, <1>2 DEF Init, Placed, Finished, Playing
<1>5. InLine([r \in Runs |-> 0])
  BY <1>1, <1>2 DEF InLine, Live, Finished
<1>6. WaitInLine
  BY <1>5 DEF WaitInLine
<1> QED
  BY <1>3, <1>4, <1>6 DEF IInv

LEMMA StutterInv == IInv /\ UNCHANGED vars => IInv'
<1> SUFFICES ASSUME IInv, UNCHANGED vars PROVE IInv'
  OBVIOUS
<1>1. /\ run' = run /\ runs' = runs /\ held' = held /\ down' = down /\ deck' = deck
      /\ crossed' = crossed
  BY DEF vars
<1>2. Placed' /\ WaitInLine'
  BY <1>1, ToldInv DEF IInv, TypeOK, Record
<1>3. TypeOK'
  BY <1>1 DEF IInv, TypeOK
<1> QED
  BY <1>2, <1>3 DEF IInv

LEMMA StepInv == IInv /\ [Next]_vars => IInv'
<1> SUFFICES ASSUME IInv, [Next]_vars PROVE IInv'
  OBVIOUS
<1>1. CASE \E s \in Slots : \E t \in Triggers[s] : Press(s, t)
  BY <1>1, PressInv
<1>2. CASE \E c \in {ControlOf[s] : s \in Slots} : Release(c)
  BY <1>2, ReleaseInv
<1>3. CASE StopAll
  BY <1>3, StopAllInv
<1>4. CASE StopAllTakes \/ StopAllFrees
  BY <1>4, StopAllTakesInv
<1>5. ASSUME NEW r \in Runs, Task(r) PROVE IInv'
  <2>1. CASE Begins(r)
    BY <2>1, BeginsInv
  <2>2. CASE Finishes(r)
    BY <2>2, FinishesInv
  <2> QED
    BY <1>5, <2>1, <2>2, WithinInv DEF Task
<1>6. CASE UNCHANGED vars
  BY <1>6, StutterInv
<1> QED
  BY <1>1, <1>2, <1>3, <1>4, <1>5, <1>6 DEF Next, Deck

\* The runs of a slot are always in line.
THEOREM RunsInLine == Spec => []IInv
  BY InitInv, StepInv, PTL DEF Spec

-----------------------------------------------------------------------------
(* One run of a slot plays.                                                *)

LEMMA InLineApart == IInv => OneAtATime
<1> SUFFICES ASSUME IInv, NEW r \in Runs, NEW q \in Runs,
                    r # q, run[r].slot = run[q].slot, ~Finished(r), ~Finished(q)
             PROVE  run[r].pc = "before" \/ run[q].pc = "before"
  BY DEF OneAtATime
<1>1. PICK place \in [Runs -> Nat] : InLine(place)
  BY DEF IInv, WaitInLine
<1>2. run[r].slot \in Slots /\ r \in Live(run[r].slot) /\ q \in Live(run[r].slot)
  BY DEF IInv, Placed, Live
<1>3. place[r] # place[q] /\ place[r] \in Nat /\ place[q] \in Nat
  BY <1>1, <1>2 DEF InLine
<1>4. place[r] < place[q] \/ place[q] < place[r]
  BY <1>3
<1> QED
  BY <1>1, <1>2, <1>4 DEF InLine

\* Two runs of one slot never play at the same time, however often the control
\* is pressed: a restarted macro waits for the one before, which waits itself.
THEOREM OneRunPlays == Spec => [](TypeOK /\ OneAtATime)
<1>1. IInv => TypeOK /\ OneAtATime
  BY InLineApart DEF IInv
<1> QED
  BY <1>1, RunsInLine, PTL

-----------------------------------------------------------------------------
(* What a run that was cut short leaves held.                              *)

\* What the deck's loop does to a run: it starts, or is told.
LEMMA DeckTells ==
  ASSUME IInv, NEW q \in Runs,
         \/ \E s \in Slots : \E t \in Triggers[s] : Press(s, t)
         \/ \E c \in {ControlOf[s] : s \in Slots} : Release(c)
         \/ StopAll
  PROVE  /\ held' = held /\ down' = down
         /\ \/ Finished(q) /\ run'[q].pc = "before" /\ run'[q].gone = {}
            \/ /\ run'[q].pc = run[q].pc /\ run'[q].err = run[q].err
               /\ run'[q].slot = run[q].slot /\ run'[q].part = run[q].part
               /\ run'[q].at = run[q].at /\ run'[q].gone = run[q].gone
               /\ \/ run'[q].stop = run[q].stop /\ run'[q].late = run[q].late
                  \/ ~Finished(q) /\ (run[q].pc = "ending" => run'[q].late)
<1> DEFINE Told(old, new) ==
      /\ new.pc = old.pc /\ new.err = old.err /\ new.slot = old.slot /\ new.part = old.part
      /\ new.at = old.at /\ new.gone = old.gone
      /\ \/ new.stop = old.stop /\ new.late = old.late
         \/ old.pc \notin {"free", "done"} /\ (old.pc = "ending" => new.late)
<1>1. run \in [Runs -> Record] /\ run[q] \in Record
  BY DEF IInv, TypeOK, Record
<1>2. Told(run[q], run[q]) /\ Told(run[q], [run[q] EXCEPT !.released = TRUE])
      /\ Told(run[q], [run[q] EXCEPT !.released = FALSE])
      /\ Told(run[q], [run[q] EXCEPT !.queued = @ + 1])
  BY <1>1 DEF Record
<1>3. ~Finished(q) => Told(run[q], Stop(q))
  BY <1>1 DEF Record, Stop, Finished
<1> HIDE DEF Told
<1>4. ASSUME NEW s \in Slots, NEW t \in Triggers[s], Press(s, t)
      PROVE  Told(run[q], run'[q]) \/ (Finished(q) /\ run'[q].pc = "before" /\ run'[q].gone = {})
  <2>1. ASSUME NEW before, NEW rs, DOMAIN rs = Runs, Start(s, t, before, rs),
               Told(run[q], rs[q])
        PROVE  Told(run[q], run'[q]) \/ (Finished(q) /\ run'[q].pc = "before" /\ run'[q].gone = {})
    <3>1. PICK r \in Fresh(s) \ {before} :
            run' = [rs EXCEPT ![r] = [Unused EXCEPT !.slot = s, !.trigger = t,
                                                    !.pc = "before", !.before = before]]
      BY <2>1 DEF Start
    <3>2. CASE q = r
      BY <2>1, <3>1, <3>2 DEF Fresh, Unused
    <3>3. CASE q # r
      BY <2>1, <3>1, <3>3
    <3> QED
      BY <3>2, <3>3
  <2>2. CASE ~Playing(s) /\ Start(s, t, None, run)
    BY <1>1, <1>2, <2>1, <2>2
  <2>3. CASE Playing(s)
    <3> DEFINE old == runs[s]
    <3>1. old \in Runs /\ ~Finished(old)
      BY <2>3 DEF Playing, IInv, TypeOK
    <3>2. \/ Start(s, t, old, [run EXCEPT ![old] = Stop(old)])
          \/ run' = [run EXCEPT ![old] = Stop(old)]
          \/ run' = [run EXCEPT ![old].queued = @ + 1]
          \/ run' = [run EXCEPT ![old].released = FALSE]
      BY <1>4, <2>3, Zenon DEF Press, old
    <3> HIDE DEF old
    <3>3. Told(run[q], [run EXCEPT ![old] = Stop(old)][q])
      BY <1>1, <1>2, <1>3, <3>1
    <3>4. CASE Start(s, t, old, [run EXCEPT ![old] = Stop(old)])
      <4> DEFINE rs == [run EXCEPT ![old] = Stop(old)]
      <4>1. DOMAIN rs = Runs /\ Start(s, t, old, rs) /\ Told(run[q], rs[q])
        BY <1>1, <3>3, <3>4
      <4> HIDE DEF rs
      <4> QED
        BY <2>1, <4>1
    <3>5. CASE run' = [run EXCEPT ![old] = Stop(old)]
      BY <3>3, <3>5
    <3>6. CASE run' = [run EXCEPT ![old].queued = @ + 1]
      BY <1>1, <1>2, <3>6
    <3>7. CASE run' = [run EXCEPT ![old].released = FALSE]
      BY <1>1, <1>2, <3>7
    <3> QED
      BY <3>2, <3>4, <3>5, <3>6, <3>7
  <2> QED
    BY <1>4, <2>2, <2>3 DEF Press
<1>5. ASSUME NEW c, Release(c) PROVE Told(run[q], run'[q])
  BY <1>2, <1>5 DEF Release
<1>6. ASSUME StopAll PROVE Told(run[q], run'[q])
  BY <1>2, <1>3, <1>6 DEF StopAll, Playing
<1>7. held' = held /\ down' = down
  BY DEF Press, Release, StopAll
<1> QED
  BY <1>4, <1>5, <1>6, <1>7 DEF Told, Finished

\* The steps of a run that is in play add to the list for none but that run, and
\* change no other run.
LEMMA TaskHolds ==
  ASSUME IInv, NEW r \in Runs, Task(r)
  PROVE  /\ \A q \in Runs : q # r => run'[q] = run[q]
         /\ \A k \in Keys : held'[k] \in {held[k], None} \/ (held'[k] = r /\ Books(r))
<1>1. run \in [Runs -> Record] /\ held \in [Keys -> Runs \cup {None}]
  BY DEF IInv, TypeOK, Record
<1>2. \A q \in Runs : q # r => run'[q] = run[q]
  BY <1>1 DEF Task, Begins, Loops, PlaysStep, Books, Pauses, PartEnds, Rests, Awaits, Checks,
     Frees, Finishes, Goes, Plays, Halts
<1>3. ASSUME NEW k \in Keys PROVE held'[k] \in {held[k], None} \/ (held'[k] = r /\ Books(r))
  <2>1. CASE Books(r)
    BY <1>1, <2>1, Zenon DEF Books
  <2>2. CASE Checks(r)
    BY <1>1, <2>2 DEF Checks, TakeHeld
  <2> QED
    BY <2>1, <2>2 DEF Task, Begins, Loops, PlaysStep, Pauses, PartEnds, Rests, Awaits, Frees,
       Finishes
<1> QED
  BY <1>2, <1>3

\* What a run says of itself: whether it has let go of what it held.
LetsGo(r) ==
  \/ run[r].pc = "freeing"
  \/ run[r].pc \in {"ending", "done"} /\ (run[r].err \/ (run[r].stop /\ ~run[r].late))

LEMMA TaskLetsGo ==
  ASSUME IInv, NEW r \in Runs, Task(r), LetsGo(r)'
  PROVE  ~Books(r) /\ (LetsGo(r) \/ \A k \in Keys : held'[k] # r)
<1>1. run \in [Runs -> Record] /\ run[r] \in Record
  BY DEF IInv, TypeOK, Record
<1> USE DEF LetsGo, Goes, Plays, Halts
<1>2. CASE Checks(r)
  <2>1. run[r].pc = "check"
    BY <1>2 DEF Checks
  <2>2. CASE run[r].stop \/ run[r].err
    BY <1>1, <1>2, <2>1, <2>2, NoneAssumption DEF Checks, TakeHeld, Books, IInv, TypeOK
  <2>3. CASE ~(run[r].stop \/ run[r].err)
    BY <1>1, <1>2, <2>1, <2>3 DEF Checks, Record
  <2> QED
    BY <2>2, <2>3
<1>3. CASE Frees(r)
  BY <1>1, <1>3 DEF Frees, Books, Record
<1>4. CASE Finishes(r)
  <2>1. run'[r].err = run[r].err /\ run'[r].stop = run[r].stop /\ run'[r].late = run[r].late
    BY <1>1, <1>4 DEF Finishes, Unused
  <2>2. run[r].pc = "ending" /\ run'[r].pc = "done"
    BY <1>1, <1>4 DEF Finishes, Unused
  <2> QED
    BY <2>1, <2>2 DEF Books
<1>5. CASE \/ Begins(r) \/ Loops(r) \/ PlaysStep(r) \/ Books(r) \/ Pauses(r) \/ PartEnds(r)
           \/ Rests(r) \/ Awaits(r)
  <2>1. run'[r].pc \notin {"freeing", "ending", "done"}
    <3> USE DEF Record
    <3>1. CASE Begins(r) \/ Loops(r)
      BY <1>1, <3>1 DEF Begins, Loops, Goes, Plays
    <3>2. CASE PlaysStep(r)
      BY <1>1, <3>2 DEF PlaysStep, Goes, Halts
    <3>3. CASE Books(r) \/ Pauses(r)
      BY <1>1, <3>3 DEF Books, Pauses, Goes, Halts
    <3>4. CASE PartEnds(r)
      BY <1>1, <3>4 DEF PartEnds, Goes
    <3>5. CASE Rests(r) \/ Awaits(r)
      BY <1>1, <3>5 DEF Rests, Awaits, Goes, Plays, Halts
    <3> QED
      BY <1>5, <3>1, <3>2, <3>3, <3>4, <3>5
  <2> QED
    BY <2>1
<1> QED
  BY <1>2, <1>3, <1>4, <1>5 DEF Task

LEMMA LetGoStep ==
  ASSUME IInv, LetGo, [Next]_vars
  PROVE  LetGo'
<1> SUFFICES ASSUME NEW q \in Runs, LetsGo(q)', NEW k \in Keys PROVE held'[k] # q
  BY Zenon DEF LetGo, LetsGo, HeldBy
<1>1. LetsGo(q) => \A j \in Keys : held[j] # q
  BY DEF LetGo, LetsGo, HeldBy
<1>2. held \in [Keys -> Runs \cup {None}] /\ run \in [Runs -> Record]
  BY DEF IInv, TypeOK, Record
<1>3. CASE \/ \E s \in Slots : \E t \in Triggers[s] : Press(s, t)
           \/ \E c \in {ControlOf[s] : s \in Slots} : Release(c)
           \/ StopAll
  <2>1. /\ held' = held /\ down' = down
        /\ \/ Finished(q) /\ run'[q].pc = "before"
           \/ /\ run'[q].pc = run[q].pc /\ run'[q].err = run[q].err
              /\ \/ run'[q].stop = run[q].stop /\ run'[q].late = run[q].late
                 \/ ~Finished(q) /\ (run[q].pc = "ending" => run'[q].late)
    BY <1>3, DeckTells
  <2> QED
    BY <1>1, <2>1 DEF LetsGo, Finished
<1>4. CASE StopAllTakes \/ StopAllFrees \/ UNCHANGED vars
  <2>1. run' = run /\ held'[k] \in {held[k], None}
    BY <1>2, <1>4 DEF StopAllTakes, StopAllFrees, vars, TakeHeld
  <2> QED
    BY <1>1, <2>1, NoneAssumption DEF LetsGo
<1>5. ASSUME NEW r \in Runs, Task(r) PROVE held'[k] # q
  <2>1. CASE q = r
    BY <1>1, <1>5, <2>1, TaskLetsGo, TaskHolds, NoneAssumption
  <2>2. CASE q # r
    <3>1. run'[q] = run[q] /\ (held'[k] \in {held[k], None} \/ held'[k] = r)
      BY <1>5, <2>2, TaskHolds
    <3> QED
      BY <1>1, <2>2, <3>1, NoneAssumption DEF LetsGo
  <2> QED
    BY <2>1, <2>2
<1> QED
  BY <1>3, <1>4, <1>5 DEF Next, Deck

\* A run that failed, or was stopped before its last look at the signal, has no
\* key on the list when it ends, whatever other runs press meanwhile.
THEOREM CutShortLetsGo == Spec => []CutShortHoldsNothing
<1>1. Init => LetGo
  BY DEF Init, LetGo, Unused
<1>2. LetGo => CutShortHoldsNothing
  BY DEF LetGo, CutShortHoldsNothing
<1> QED
  BY <1>1, <1>2, LetGoStep, InitInv, StepInv, PTL DEF Spec

-----------------------------------------------------------------------------
(* What is down is on the list.                                            *)

\* One of the reasons for which a key may be down.
Accounted(k) ==
  \/ held[k] # None \/ k \in deck.gone \/ k \in crossed
  \/ \E r \in Runs : \/ k \in run[r].gone
                     \/ run[r].pc = "book" /\ Now(r)[run[r].at] = [op |-> "down", key |-> k]

\* The event a run plays, or puts on the list.
LEMMA EventFacts ==
  ASSUME IInv, NEW r \in Runs,
         run[r].pc = "book" \/ (run[r].pc = "step" /\ run[r].at <= Len(Now(r)))
  PROVE  /\ run[r].slot \in Slots /\ Now(r)[run[r].at] \in Events
         /\ Now(r)[run[r].at].op # "other" =>
              /\ Now(r)[run[r].at].key \in Keys
              /\ Now(r)[run[r].at].key \in KeysOf(run[r].slot)
<1>1. run[r] \in Record
  BY DEF IInv, TypeOK, Record
<1>2. run[r].slot \in Slots /\ run[r].part \in Parts /\ run[r].at \in Nat \ {0}
  BY <1>1 DEF IInv, Placed, Finished, Record
<1>3. /\ Len(Now(r)) \in Nat /\ DOMAIN Now(r) = 1..Len(Now(r))
      /\ \A i \in DOMAIN Now(r) :
           Now(r)[i] \in Events /\ (Now(r)[i].op # "other" => Now(r)[i].key \in Keys)
  BY <1>2, StepFacts DEF Now
<1>4. run[r].at \in DOMAIN Now(r)
  BY <1>2, <1>3 DEF IInv, Placed
<1> QED
  BY <1>2, <1>3, <1>4 DEF KeysOf, Now

\* Two runs that play press different keys.
LEMMA RunsApart ==
  ASSUME IInv, KeysApart, NEW r \in Runs, NEW q \in Runs, r # q,
         run[r].pc = "book", run[q].pc = "step", run[q].at <= Len(Now(q)),
         Now(r)[run[r].at].op # "other", Now(q)[run[q].at].op # "other"
  PROVE  Now(r)[run[r].at].key # Now(q)[run[q].at].key
<1>1. run[r].slot # run[q].slot
  BY InLineApart DEF OneAtATime, Finished
<1> QED
  BY <1>1, EventFacts DEF KeysApart

\* A step that puts no key down, lets go of none and puts none on the list.
LEMMA ListedKept ==
  ASSUME IInv, Listed, held' = held, down' = down, crossed' = crossed,
         deck'.gone = deck.gone,
         deck'.pc # "freeing" => deck'.gone = {},
         \A q \in Runs : /\ run'[q].gone = run[q].gone
                         /\ run'[q].pc = "book" <=> run[q].pc = "book"
                         /\ run[q].pc = "book" => /\ run'[q].slot = run[q].slot
                                                  /\ run'[q].part = run[q].part
                                                  /\ run'[q].at = run[q].at
  PROVE  Listed'
<1>1. \A q \in Runs : run[q].pc = "book" => Now(q)' = Now(q)
  BY DEF Now
<1>2. ASSUME NEW k \in down PROVE Accounted(k)'
  <2>1. Accounted(k)
    BY DEF Listed, Tracked, Accounted
  <2> QED
    BY <1>1, <2>1 DEF Accounted
<1>3. Tracked'
  BY <1>2 DEF Tracked, Accounted
<1> QED
  BY <1>3 DEF Listed

LEMMA DeckListed ==
  ASSUME IInv, Listed, Deck
  PROVE  Listed'
<1>1. ASSUME \/ \E s \in Slots : \E t \in Triggers[s] : Press(s, t)
             \/ \E c \in {ControlOf[s] : s \in Slots} : Release(c)
             \/ StopAll
      PROVE  Listed'
  <2>1. \A q \in Runs : run[q].pc # "freeing" => run[q].gone = {}
    BY DEF IInv, Placed
  <2>2. ASSUME NEW q \in Runs
        PROVE  /\ held' = held /\ down' = down
               /\ run'[q].gone = run[q].gone
               /\ run'[q].pc = "book" <=> run[q].pc = "book"
               /\ run[q].pc = "book" => /\ run'[q].slot = run[q].slot
                                        /\ run'[q].part = run[q].part
                                        /\ run'[q].at = run[q].at
    <3>1. /\ held' = held /\ down' = down
          /\ \/ Finished(q) /\ run'[q].pc = "before" /\ run'[q].gone = {}
             \/ /\ run'[q].pc = run[q].pc
                /\ run'[q].slot = run[q].slot /\ run'[q].part = run[q].part
                /\ run'[q].at = run[q].at /\ run'[q].gone = run[q].gone
      BY <1>1, DeckTells
    <3> QED
      BY <2>1, <3>1 DEF Finished
  <2>3. held' = held /\ down' = down /\ crossed' = crossed
    BY <1>1 DEF Press, Release, StopAll
  <2>4. deck.gone = {} /\ deck'.gone = {}
    <3>1. deck.gone = {} /\ DeckFree
      BY <1>1 DEF Press, Release, StopAll, DeckFree, Listed
    <3>2. (\E s \in Slots : \E t \in Triggers[s] : Press(s, t)) => deck' = deck
      BY DEF Press
    <3>3. (\E c \in {ControlOf[s] : s \in Slots} : Release(c)) => deck' = deck
      BY DEF Release
    <3>4. StopAll => deck'.gone = {}
      BY DEF StopAll
    <3> QED
      BY <1>1, <3>1, <3>2, <3>3, <3>4
  <2> QED
    BY <2>2, <2>3, <2>4, ListedKept
<1>2. CASE StopAllTakes
  <2>1. deck.gone = {} /\ run' = run /\ down' = down /\ crossed' = crossed
    BY <1>2 DEF StopAllTakes, Listed
  <2>2. ASSUME NEW k \in down PROVE Accounted(k)'
    <3>1. Accounted(k) /\ k \in Keys
      BY DEF Listed, Tracked, Accounted, IInv, TypeOK
    <3>2. CASE held[k] # None
      <4>1. held[k] \in Runs
        BY <3>1, <3>2 DEF IInv, TypeOK
      <4>2. deck'.gone = HeldBy(Runs \ deck.spared) /\ TakeHeld(Runs \ deck.spared)
        BY <1>2 DEF StopAllTakes
      <4> QED
        BY <3>1, <3>2, <4>1, <4>2 DEF Accounted, TakeHeld, HeldBy
    <3>3. CASE \E r \in Runs : \/ k \in run[r].gone
                               \/ run[r].pc = "book"
                                  /\ Now(r)[run[r].at] = [op |-> "down", key |-> k]
      BY <2>1, <3>3 DEF Accounted, Now
    <3>4. CASE k \in crossed
      BY <2>1, <3>4 DEF Accounted
    <3> QED
      BY <2>1, <3>1, <3>2, <3>3, <3>4 DEF Accounted
  <2>3. Tracked'
    BY <2>1, <2>2 DEF Tracked, Accounted
  <2>4. deck'.pc = "freeing"
    BY <1>2 DEF StopAllTakes
  <2> QED
    BY <2>1, <2>3, <2>4 DEF Listed, Now
<1>3. CASE StopAllFrees
  <2>1. /\ run' = run /\ held' = held /\ down' = down \ deck.gone /\ deck'.gone = {}
        /\ crossed' = crossed \cap down'
    BY <1>3 DEF StopAllFrees
  <2>2. ASSUME NEW k \in down \ deck.gone PROVE Accounted(k)'
    <3>1. Accounted(k)
      BY DEF Listed, Tracked, Accounted
    <3> QED
      BY <2>1, <3>1 DEF Accounted, Now
  <2>3. Tracked'
    BY <2>1, <2>2 DEF Tracked, Accounted
  <2> QED
    BY <2>1, <2>3 DEF Listed, Now
<1> QED
  BY <1>1, <1>2, <1>3 DEF Deck

\* Playing a step puts its key down, and next on the list.
LEMMA PlaysListed ==
  ASSUME IInv, Listed, NEW r \in Runs, PlaysStep(r)
  PROVE  Listed'
<1> DEFINE event == Now(r)[run[r].at]
<1>1. /\ run[r].pc = "step" /\ run[r].at <= Len(Now(r)) /\ run[r] \in Record
      /\ run \in [Runs -> Record] /\ held' = held /\ deck' = deck
      /\ crossed' = crossed \cap down'
  BY DEF PlaysStep, IInv, TypeOK, Record
<1>2. event \in Events /\ (event.op # "other" => event.key \in Keys)
  BY <1>1, EventFacts
<1>3. /\ run'[r].slot = run[r].slot /\ run'[r].part = run[r].part
      /\ run'[r].at = run[r].at /\ run'[r].gone = run[r].gone
      /\ \A q \in Runs : q # r => run'[q] = run[q]
      /\ \/ ~Halted(r) /\ event.op # "other" /\ run'[r].pc = "book"
            /\ down' = IF event.op = "down" THEN down \cup {event.key} ELSE down \ {event.key}
         \/ run'[r].pc # "book" /\ down' = down
  <2>1. \/ /\ Goes(r, IF event.op = "other" THEN "pause" ELSE "book") /\ ~Halted(r)
           /\ down' = CASE event.op = "down" -> down \cup {event.key}
                        [] event.op = "up" -> down \ {event.key}
                        [] OTHER -> down
        \/ Halts(r) /\ down' = down
    BY DEF PlaysStep
  <2>2. CASE Halts(r) /\ down' = down
    BY <1>1, <2>2 DEF Halts, Record
  <2>3. CASE event.op = "other" /\ Goes(r, "pause") /\ down' = down
    BY <1>1, <2>3 DEF Goes, Record
  <2>4. CASE /\ event.op # "other" /\ Goes(r, "book") /\ ~Halted(r)
             /\ down' = IF event.op = "down" THEN down \cup {event.key}
                        ELSE down \ {event.key}
    BY <1>1, <2>4 DEF Goes, Record
  <2>5. event.op \in {"down", "up", "other"}
    BY <1>2 DEF Events
  <2> HIDE DEF event
  <2> QED
    BY <2>1, <2>2, <2>3, <2>4, <2>5
<1>4. \A q \in Runs : Now(q)' = Now(q)
  BY <1>3 DEF Now
<1>5. ASSUME NEW k \in down' PROVE Accounted(k)'
  <2>1. CASE k \in down
    <3>1. Accounted(k)
      BY <2>1 DEF Listed, Tracked, Accounted
    <3>2. CASE held[k] # None \/ k \in deck.gone \/ k \in crossed
      BY <1>1, <1>5, <3>2 DEF Accounted
    <3>3. ASSUME NEW q \in Runs, k \in run[q].gone PROVE Accounted(k)'
      BY <1>3, <3>3 DEF Accounted
    <3>4. ASSUME NEW q \in Runs, run[q].pc = "book",
                 Now(q)[run[q].at] = [op |-> "down", key |-> k]
          PROVE  Accounted(k)'
      <4>1. run'[q] = run[q]
        BY <1>1, <1>3, <3>4
      <4> QED
        BY <1>4, <3>4, <4>1 DEF Accounted
    <3> QED
      BY <3>1, <3>2, <3>3, <3>4 DEF Accounted
  <2>2. CASE k \notin down
    <3>1. event.op = "down" /\ event.key = k /\ run'[r].pc = "book"
      BY <1>3, <1>5, <2>2
    <3>2. event = [op |-> "down", key |-> k]
      BY <1>2, <3>1 DEF Events
    <3>3. Now(r)'[run'[r].at] = event
      BY <1>3, <1>4
    <3> QED
      BY <3>1, <3>2, <3>3 DEF Accounted
  <2> QED
    BY <2>1, <2>2
<1> QED
  BY <1>1, <1>5 DEF Listed, Tracked, Accounted

\* A key put on the list, or taken off it once it is up.
LEMMA BooksListed ==
  ASSUME IInv, Listed, NEW r \in Runs, Books(r)
  PROVE  Listed'
<1> DEFINE event == Now(r)[run[r].at]
<1>1. /\ run[r].pc = "book" /\ run[r] \in Record /\ run \in [Runs -> Record]
      /\ down' = down /\ deck' = deck
  BY DEF Books, IInv, TypeOK, Record
<1>2. /\ run'[r].slot = run[r].slot /\ run'[r].part = run[r].part
      /\ run'[r].pc = "pause" /\ run'[r].gone = run[r].gone
      /\ \A q \in Runs : q # r => run'[q] = run[q]
  BY <1>1 DEF Books, Goes, Record
<1>3. event.op \in {"down", "up"} /\ event.key \in Keys
  BY <1>1, EventFacts DEF IInv, Placed
<1>4. /\ \A k \in Keys : k # event.key => held'[k] = held[k]
      /\ event.op = "down" => held'[event.key] # None
      /\ event.op = "up" /\ event.key \in down => event.key \in crossed'
      /\ \A k \in crossed : k # event.key => k \in crossed'
  <2>1. held \in [Keys -> Runs \cup {None}] /\ r # None
    BY NoneAssumption DEF IInv, TypeOK
  <2>2. CASE event.op = "up"
    BY <1>3, <2>1, <2>2 DEF Books
  <2>3. CASE event.op = "down"
    <3>1. /\ held' = IF held[event.key] = None THEN [held EXCEPT ![event.key] = r] ELSE held
          /\ crossed' = crossed \ {event.key}
      BY <2>3 DEF Books
    <3> HIDE DEF event
    <3> QED
      BY <1>3, <2>1, <2>3, <3>1
  <2> QED
    BY <1>3, <2>2, <2>3
<1>5. \A q \in Runs : Now(q)' = Now(q)
  BY <1>2 DEF Now
<1>6. ASSUME NEW k \in down PROVE Accounted(k)'
  <2>1. Accounted(k) /\ k \in Keys
    BY DEF Listed, Tracked, Accounted, IInv, TypeOK
  <2>2. CASE k = event.key
    BY <1>3, <1>4, <2>2 DEF Accounted
  <2>3. CASE k # event.key
    <3>1. CASE held[k] # None \/ k \in deck.gone \/ k \in crossed
      BY <1>1, <1>4, <2>1, <2>3, <3>1 DEF Accounted
    <3>2. ASSUME NEW q \in Runs, k \in run[q].gone PROVE Accounted(k)'
      BY <1>2, <3>2 DEF Accounted
    <3>3. ASSUME NEW q \in Runs, run[q].pc = "book",
                 Now(q)[run[q].at] = [op |-> "down", key |-> k]
          PROVE  Accounted(k)'
      <4>1. q # r
        BY <2>3, <3>3
      <4>2. run'[q] = run[q]
        BY <1>2, <4>1
      <4> QED
        BY <1>5, <3>3, <4>2 DEF Accounted
    <3> QED
      BY <2>1, <3>1, <3>2, <3>3 DEF Accounted
  <2> QED
    BY <2>2, <2>3
<1> QED
  BY <1>1, <1>6 DEF Listed, Tracked, Accounted

\* What a run lets go of stays on its own list of it until it is up.
LEMMA LetsGoListed ==
  ASSUME IInv, Listed, NEW r \in Runs, Checks(r) \/ Frees(r)
  PROVE  Listed'
<1>1. run[r] \in Record /\ run \in [Runs -> Record] /\ deck' = deck
  BY DEF Checks, Frees, IInv, TypeOK, Record
<1>2. /\ run[r].pc # "book" /\ run'[r].pc # "book" /\ run'[r].slot = run[r].slot
      /\ \A q \in Runs : q # r => run'[q] = run[q]
  BY <1>1 DEF Checks, Frees, Goes, Record
<1>3. \A q \in Runs : q # r => Now(q)' = Now(q)
  BY <1>2 DEF Now
<1>6. \A k \in crossed \cap down' : k \in crossed'
  BY DEF Checks, Frees
<1>4. /\ down' \subseteq down
      /\ \A k \in down' : k \in run[r].gone => k \in run'[r].gone
      /\ \A k \in Keys : held[k] # None => held'[k] # None \/ k \in run'[r].gone
  <2>1. CASE Checks(r)
    <3>1. run[r].gone = {} /\ down' = down
      BY <2>1 DEF Checks, IInv, Placed
    <3>2. CASE run[r].stop \/ run[r].err
      <4>1. TakeHeld({r}) /\ run'[r].gone = HeldBy({r})
        BY <1>1, <2>1, <3>2 DEF Checks, Record
      <4>2. \A k \in Keys : held[k] # None => held'[k] # None \/ k \in run'[r].gone
        BY <4>1 DEF TakeHeld, HeldBy
      <4> QED
        BY <3>1, <4>2
    <3>3. CASE ~(run[r].stop \/ run[r].err)
      BY <2>1, <3>1, <3>3 DEF Checks
    <3> QED
      BY <3>2, <3>3
  <2>2. CASE Frees(r)
    BY <2>2 DEF Frees
  <2> QED
    BY <2>1, <2>2
<1>5. ASSUME NEW k \in down' PROVE Accounted(k)'
  <2>1. Accounted(k) /\ k \in Keys
    BY <1>4 DEF Listed, Tracked, Accounted, IInv, TypeOK
  <2>2. CASE held[k] # None \/ k \in deck.gone \/ k \in crossed
    BY <1>1, <1>4, <1>5, <1>6, <2>1, <2>2 DEF Accounted
  <2>3. ASSUME NEW q \in Runs, k \in run[q].gone PROVE Accounted(k)'
    BY <1>2, <1>4, <2>3 DEF Accounted
  <2>4. ASSUME NEW q \in Runs, run[q].pc = "book",
               Now(q)[run[q].at] = [op |-> "down", key |-> k]
        PROVE  Accounted(k)'
    <3>1. run'[q] = run[q] /\ Now(q)' = Now(q)
      BY <1>2, <1>3, <2>4
    <3> QED
      BY <2>4, <3>1 DEF Accounted
  <2> QED
    BY <2>1, <2>2, <2>3, <2>4 DEF Accounted
<1> QED
  BY <1>1, <1>5 DEF Listed, Tracked, Accounted

LEMMA ListedStep ==
  ASSUME IInv, Listed, [Next]_vars
  PROVE  Listed'
<1>1. CASE Deck
  BY <1>1, DeckListed
<1>2. ASSUME NEW r \in Runs, Task(r) PROVE Listed'
  <2>1. CASE PlaysStep(r)
    BY <2>1, PlaysListed
  <2>2. CASE Books(r)
    BY <2>2, BooksListed
  <2>3. CASE Checks(r) \/ Frees(r)
    BY <2>3, LetsGoListed
  <2>4. CASE \/ Begins(r) \/ Loops(r) \/ Pauses(r) \/ PartEnds(r) \/ Rests(r) \/ Awaits(r)
             \/ Finishes(r)
    <3>1. run[r] \in Record /\ run \in [Runs -> Record]
      BY DEF IInv, TypeOK, Record
    <3>2. held' = held /\ down' = down /\ deck' = deck /\ crossed' = crossed
      BY <2>4 DEF Begins, Loops, Pauses, PartEnds, Rests, Awaits, Finishes
    <3>3. run[r].pc \notin {"book", "freeing"}
      BY <2>4 DEF Begins, Loops, Pauses, PartEnds, Rests, Awaits, Finishes
    <3>4. run'[r].pc # "book" /\ run'[r].gone = {}
      <4>1. run[r].gone = {}
        BY <3>3 DEF IInv, Placed
      <4> USE DEF Goes, Plays, Halts
      <4>2. CASE Begins(r) \/ Loops(r) \/ Pauses(r) \/ Rests(r) \/ Awaits(r)
        BY <3>1, <4>1, <4>2 DEF Begins, Loops, Pauses, Rests, Awaits, Record
      <4>3. CASE PartEnds(r)
        BY <3>1, <4>1, <4>3 DEF PartEnds, Record
      <4>4. CASE Finishes(r)
        BY <3>1, <4>4 DEF Finishes, Unused
      <4> QED
        BY <2>4, <4>2, <4>3, <4>4
    <3>5. \A q \in Runs : q # r => run'[q] = run[q]
      BY <1>2, TaskHolds
    <3>6. run[r].gone = {}
      BY <3>3 DEF IInv, Placed
    <3>7. deck'.pc # "freeing" => deck'.gone = {}
      BY <3>2 DEF Listed
    <3> QED
      BY <3>2, <3>3, <3>4, <3>5, <3>6, <3>7, ListedKept
  <2> QED
    BY <1>2, <2>1, <2>2, <2>3, <2>4 DEF Task
<1>3. CASE UNCHANGED vars
  <2>1. run' = run /\ held' = held /\ down' = down /\ deck' = deck /\ crossed' = crossed
    BY <1>3 DEF vars
  <2> QED
    BY <2>1, ListedKept DEF Listed
<1> QED
  BY <1>1, <1>2, <1>3 DEF Next

\* Every key that is down is on the list, about to be put there or about to be
\* let go of, so what a stop lets go of is all that is down; but for a key that
\* the run which let it go took off the list after another had pressed it.
THEOREM HeldKeysTracked == Spec => []MacrosCoherent
<1>1. Init => Listed
  BY DEF Init, Listed, Tracked, Unused
<1>2. IInv /\ Listed => MacrosCoherent
  BY InLineApart DEF IInv, Listed, MacrosCoherent
<1>3. IInv /\ Listed /\ [Next]_vars => Listed'
  BY ListedStep
<1> QED
  BY <1>1, <1>2, <1>3, InitInv, StepInv, PTL DEF Spec

-----------------------------------------------------------------------------
(* Macros with keys of their own.                                          *)

\* A step that presses nothing, and after which no run is newly about to take
\* a key off the list.
LEMMA UncrossedKept ==
  ASSUME IInv, Uncrossed, down' \subseteq down, crossed' \subseteq crossed,
         \A q \in Runs : run'[q].pc = "book" =>
           /\ run[q].pc = "book" /\ run'[q].slot = run[q].slot
           /\ run'[q].part = run[q].part /\ run'[q].at = run[q].at
  PROVE  Uncrossed'
BY DEF Uncrossed, Now

LEMMA PlaysUncrossed ==
  ASSUME IInv, Uncrossed, KeysApart, NEW r \in Runs, PlaysStep(r)
  PROVE  Uncrossed'
<1> DEFINE event == Now(r)[run[r].at]
<1>1. /\ run[r].pc = "step" /\ run[r].at <= Len(Now(r)) /\ run[r] \in Record
      /\ run \in [Runs -> Record] /\ held' = held /\ deck' = deck
      /\ crossed' = crossed \cap down'
  BY DEF PlaysStep, IInv, TypeOK, Record
<1>2. event \in Events /\ (event.op # "other" => event.key \in Keys)
  BY <1>1, EventFacts
<1>3. /\ run'[r].slot = run[r].slot /\ run'[r].part = run[r].part
      /\ run'[r].at = run[r].at /\ run'[r].gone = run[r].gone
      /\ \A q \in Runs : q # r => run'[q] = run[q]
      /\ \/ ~Halted(r) /\ event.op # "other" /\ run'[r].pc = "book"
            /\ down' = IF event.op = "down" THEN down \cup {event.key} ELSE down \ {event.key}
         \/ run'[r].pc # "book" /\ down' = down
  <2>1. \/ /\ Goes(r, IF event.op = "other" THEN "pause" ELSE "book") /\ ~Halted(r)
           /\ down' = CASE event.op = "down" -> down \cup {event.key}
                        [] event.op = "up" -> down \ {event.key}
                        [] OTHER -> down
        \/ Halts(r) /\ down' = down
    BY DEF PlaysStep
  <2>2. CASE Halts(r) /\ down' = down
    BY <1>1, <2>2 DEF Halts, Record
  <2>3. CASE event.op = "other" /\ Goes(r, "pause") /\ down' = down
    BY <1>1, <2>3 DEF Goes, Record
  <2>4. CASE /\ event.op # "other" /\ Goes(r, "book") /\ ~Halted(r)
             /\ down' = IF event.op = "down" THEN down \cup {event.key}
                        ELSE down \ {event.key}
    BY <1>1, <2>4 DEF Goes, Record
  <2>5. event.op \in {"down", "up", "other"}
    BY <1>2 DEF Events
  <2> HIDE DEF event
  <2> QED
    BY <2>1, <2>2, <2>3, <2>4, <2>5
<1>4. \A q \in Runs : Now(q)' = Now(q)
  BY <1>3 DEF Now
<1>6. ASSUME NEW q \in Runs, run'[q].pc = "book", Now(q)'[run'[q].at].op = "up"
      PROVE  Now(q)'[run'[q].at].key \notin down'
  <2>1. CASE q = r
    <3>1. Now(r)'[run'[r].at] = event
      BY <1>3, <1>4
    <3>2. down' = down \ {event.key}
      BY <1>3, <1>6, <2>1, <3>1
    <3> HIDE DEF event
    <3> QED
      BY <2>1, <3>1, <3>2
  <2>2. CASE q # r
    <3>1. run'[q] = run[q] /\ Now(q)' = Now(q)
      BY <1>3, <1>4, <2>2
    <3>2. Now(q)[run[q].at].key \notin down
      BY <1>6, <3>1 DEF Uncrossed
    <3>3. event.op # "other" => Now(q)[run[q].at].key # event.key
      BY <1>1, <1>6, <2>2, <3>1, RunsApart
    <3> HIDE DEF event
    <3> QED
      BY <1>3, <3>1, <3>2, <3>3
  <2> QED
    BY <2>1, <2>2
<1> QED
  BY <1>1, <1>6 DEF Uncrossed

\* Only macros that share a key lose one: with keys of their own, none is ever
\* taken off the list while it is down.
THEOREM OwnKeysNeverLost ==
  ASSUME KeysApart
  PROVE  Spec => [](crossed = {})
<1>1. Init => Uncrossed
  BY DEF Init, Uncrossed, Unused
<1>2. ASSUME IInv, Uncrossed, [Next]_vars PROVE Uncrossed'
  <2>1. CASE Deck
    <3>1. down' \subseteq down /\ crossed' \subseteq crossed
      BY <2>1 DEF Deck, Press, Release, StopAll, StopAllTakes, StopAllFrees
    <3>2. ASSUME NEW q \in Runs, run'[q].pc = "book"
          PROVE  /\ run[q].pc = "book" /\ run'[q].slot = run[q].slot
                 /\ run'[q].part = run[q].part /\ run'[q].at = run[q].at
      <4>1. CASE StopAllTakes \/ StopAllFrees
        BY <3>2, <4>1 DEF StopAllTakes, StopAllFrees
      <4>2. CASE ~(StopAllTakes \/ StopAllFrees)
        BY <1>2, <2>1, <3>2, <4>2, DeckTells DEF Deck
      <4> QED
        BY <4>1, <4>2
    <3> QED
      BY <1>2, <3>1, <3>2, UncrossedKept
  <2>2. ASSUME NEW r \in Runs, Task(r) PROVE Uncrossed'
    <3>0. /\ run[r] \in Record /\ run \in [Runs -> Record]
          /\ \A q \in Runs : q # r => run'[q] = run[q]
      BY <1>2, <2>2, TaskHolds DEF IInv, TypeOK, Record
    <3>1. CASE PlaysStep(r)
      BY <1>2, <3>1, PlaysUncrossed
    <3>2. CASE Books(r)
      <4>1. Now(r)[run[r].at].op = "up" => Now(r)[run[r].at].key \notin down
        BY <1>2, <3>2 DEF Books, Uncrossed
      <4>2. crossed' \subseteq crossed /\ down' = down
        BY <3>2, <4>1 DEF Books
      <4>3. run'[r].pc # "book"
        BY <3>0, <3>2 DEF Books, Goes
      <4> QED
        BY <1>2, <3>0, <4>2, <4>3, UncrossedKept
    <3>3. CASE ~PlaysStep(r) /\ ~Books(r)
      <4>1. down' \subseteq down /\ crossed' \subseteq crossed
        BY <2>2, <3>3 DEF Task, Begins, Loops, Pauses, PartEnds, Rests, Awaits, Checks,
           Frees, Finishes
      <4>2. run'[r].pc # "book"
        <5> USE DEF Goes, Plays, Halts
        <5>1. CASE Begins(r) \/ Loops(r) \/ Pauses(r) \/ Rests(r) \/ Awaits(r)
          BY <3>0, <5>1 DEF Begins, Loops, Pauses, Rests, Awaits, Record
        <5>2. CASE PartEnds(r)
          BY <3>0, <5>2 DEF PartEnds, Record
        <5>3. CASE Checks(r)
          BY <3>0, <5>3 DEF Checks, Record
        <5>4. CASE Frees(r)
          BY <3>0, <5>4 DEF Frees, Record
        <5>5. CASE Finishes(r)
          BY <3>0, <5>5 DEF Finishes, Unused
        <5> QED
          BY <2>2, <3>3, <5>1, <5>2, <5>3, <5>4, <5>5 DEF Task
      <4> QED
        BY <1>2, <3>0, <4>1, <4>2, UncrossedKept
    <3> QED
      BY <3>1, <3>2, <3>3
  <2>3. CASE UNCHANGED vars
    BY <1>2, <2>3, UncrossedKept DEF vars
  <2> QED
    BY <1>2, <2>1, <2>2, <2>3 DEF Next
<1>3. Uncrossed => crossed = {}
  BY DEF Uncrossed
<1> QED
  BY <1>1, <1>2, <1>3, InitInv, StepInv, PTL DEF Spec

=============================================================================
