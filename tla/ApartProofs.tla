---------------------------- MODULE ApartProofs ----------------------------
(***************************************************************************)
(* Proofs about the two parts of MCApart, for any values of their          *)
(* constants: the editor of the app (Editor), which implements EditHistory *)
(* and keeps what it edits sound, and an instance of a plugin              *)
(* (PluginInstance, I).                                                    *)
(***************************************************************************)
EXTENDS MCApart, SequenceTheorems, FiniteSetTheorems, TLAPS

\* A set of numbers has a least one.
LEMMA LeastExists ==
  ASSUME NEW S \in SUBSET Nat, S # {}
  PROVE  \E x \in S : \A y \in S : x =< y
<1> DEFINE R == OpToRel(<, Nat)
<1>1. \E i \in S : \A j \in S : ~ (<<j, i>> \in R)
  <2>1. IsWellFoundedOn(R, Nat)
    BY NatLessThanWellFounded
  <2> HIDE DEF R
  <2> QED
    BY <2>1, WFMin
<1>2. \A i, j \in Nat : j < i => <<j, i>> \in R
  BY DEF OpToRel
<1> HIDE DEF R
<1>3. \E r : /\ \E i \in S : \A j \in S : ~ (<<j, i>> \in r)
             /\ \A i, j \in Nat : j < i => <<j, i>> \in r
  BY <1>1, <1>2, Zenon
<1>4. PICK i \in S : \A j \in S : ~ (j < i)
  BY <1>3, Zenon
<1> QED
  BY <1>4

LEMMA LeastOne ==
  ASSUME NEW S \in SUBSET Nat, S # {}
  PROVE  Min(S) \in S /\ \A j \in S : Min(S) <= j
BY LeastExists DEF Min

-----------------------------------------------------------------------------
(* What the editor has.  A profile is sound when it has a page, no two of  *)
(* the same id, and what newer versions left is not mixed up; a library is *)
(* when no macro of it runs itself.  Undone or to be redone, both stay so. *)

SoundProfile ==
  {p \in Profile :
     /\ p.pages # <<>> /\ Unmixed(p)
     /\ \A j, k \in 1..Len(p.pages) : p.pages[j].id = p.pages[k].id => j = k}
SoundLibrary == {l \in AnyLibrary : NeverLoops(l)}

Step == [profile : SoundProfile, library : SUBSET SoundLibrary]

Flag == BOOLEAN   \* a name the provers do not expand
EditorRecord ==
  [profile : SoundProfile, library : SoundLibrary, page : Nat \ {0},
   undo : Seq(Step), redo : Seq(Step), mergeNext : Flag,
   merge : {"none", "typing", "assign"}, lastMerge : {"none", "typing", "assign"},
   clip : SUBSET (Int \X Known)]

\* No more steps are kept than HISTORY_LIMIT.
Editors == {e \in EditorRecord : Len(e.undo) + Len(e.redo) <= Limit}

Settled(e) == e \in Editors /\ e.page <= Len(e.profile.pages)
EditorInv == Settled(ed)

-----------------------------------------------------------------------------
(* How an edit changes the history.                                        *)

Same(e, f) == f.profile = e.profile /\ f.undo = e.undo /\ f.redo = e.redo
Joined(e, f) == e.undo # <<>> /\ f.undo = e.undo /\ f.redo = <<>>
Trimmed(steps) == IF Len(steps) > Limit THEN Tail(steps) ELSE steps
Added(e, f) ==
  /\ f.redo = <<>>
  /\ \E step \in Step : step.profile = e.profile /\ f.undo = Trimmed(Append(e.undo, step))
Follows(e, f) == Same(e, f) \/ Joined(e, f) \/ Added(e, f)

\* An edit without effect, one that adds a step, or one that joins the last.
Changes(e, f) ==
  /\ f.page = e.page /\ f.merge = e.merge /\ f.clip = e.clip
  /\ \/ f = e
     \/ /\ Joined(e, f) \/ Added(e, f)
        /\ f.lastMerge = e.merge /\ f.undo # <<>>
  /\ e.mergeNext /\ e.undo # <<>> => f = e \/ Joined(e, f)
  /\ e.merge # "none" /\ e.merge = e.lastMerge /\ e.undo # <<>> => f = e \/ Joined(e, f)

LEMMA TrimmedType ==
  ASSUME NEW steps \in Seq(Step)
  PROVE  /\ Trimmed(steps) \in Seq(Step)
         /\ Len(steps) <= Limit + 1 => Len(Trimmed(steps)) <= Limit
<1>1. Len(steps) > Limit => steps # <<>>
  BY SizesAssumption
<1> QED
  BY <1>1, HeadTailProperties, SizesAssumption DEF Trimmed

\* edit_with_library changes what it is told to, and adds a step or joins the last.
LEMMA EditedFacts ==
  ASSUME NEW e \in Editors, NEW p \in SoundProfile, NEW l \in SoundLibrary,
         NEW f, f = Edited(e, p, l)
  PROVE  f \in Editors /\ f.profile = p /\ f.library = l /\ Changes(e, f)
<1> DEFINE joins == (e.mergeNext \/ (e.merge # "none" /\ e.merge = e.lastMerge)) /\ e.undo # <<>>
           step == [profile |-> e.profile, library |-> {x \in {e.library} : x # l}]
           steps == IF joins THEN e.undo ELSE Append(e.undo, step)
           g == [e EXCEPT !.profile = p, !.library = l, !.redo = <<>>,
                          !.mergeNext = FALSE, !.lastMerge = e.merge, !.undo = Trimmed(steps)]
<1>1. e \in EditorRecord /\ Len(e.undo) \in Nat /\ Len(e.redo) \in Nat /\ Len(e.undo) <= Limit
  BY SizesAssumption DEF Editors, EditorRecord
<1>2. f = IF p = e.profile /\ l = e.library THEN e ELSE g
  BY DEF Edited, Trimmed
<1>3. step \in Step /\ step.profile = e.profile
  BY <1>1 DEF EditorRecord, Step
<1>4. e.undo \in Seq(Step) /\ steps \in Seq(Step) /\ Len(steps) <= Limit + 1
  BY <1>1, <1>3, SizesAssumption DEF EditorRecord
<1>5. Trimmed(steps) \in Seq(Step) /\ Len(Trimmed(steps)) <= Limit
  BY <1>4, TrimmedType
<1>6. /\ g \in Editors /\ g.profile = p /\ g.library = l /\ g.page = e.page
      /\ g.merge = e.merge /\ g.lastMerge = e.merge /\ g.clip = e.clip
      /\ g.redo = <<>> /\ g.undo = Trimmed(steps)
  <2> HIDE DEF steps
  <2>1. /\ g \in EditorRecord /\ g.profile = p /\ g.library = l /\ g.page = e.page
        /\ g.merge = e.merge /\ g.lastMerge = e.merge /\ g.clip = e.clip
        /\ g.redo = <<>> /\ g.undo = Trimmed(steps)
    <3>1. FALSE \in Flag /\ <<>> \in Seq(Step)
      BY DEF Flag
    <3> QED
      BY <1>1, <1>5, <3>1 DEF EditorRecord
  <2>2. Len(<<>>) = 0 /\ Len(Trimmed(steps)) \in Nat
    BY <1>5
  <2> HIDE DEF g
  <2>3. Len(g.undo) + Len(g.redo) <= Limit
    BY <1>5, <2>1, <2>2, SizesAssumption
  <2> QED
    BY <2>1, <2>3 DEF Editors
<1>7. joins => Joined(e, g) /\ g.undo # <<>>
  <2>1. SUFFICES ASSUME joins
                 PROVE  Joined(e, g) /\ g.undo # <<>>
    OBVIOUS
  <2>2. steps = e.undo /\ e.undo # <<>>
    BY <2>1
  <2>3. Trimmed(e.undo) = e.undo
    BY <1>1, SizesAssumption DEF Trimmed
  <2> HIDE DEF g, steps
  <2> QED
    BY <1>6, <2>2, <2>3 DEF Joined
<1>8. ~joins => Added(e, g) /\ g.undo # <<>>
  <2>1. SUFFICES ASSUME ~joins
                 PROVE  Added(e, g) /\ g.undo # <<>>
    OBVIOUS
  <2>2. steps = Append(e.undo, step) /\ Len(steps) = Len(e.undo) + 1
    BY <1>1, <1>3, <1>4, <2>1
  <2>3. Len(Trimmed(steps)) # 0
    BY <1>1, <1>4, <2>2, HeadTailProperties, SizesAssumption DEF Trimmed
  <2> HIDE DEF g, steps, step
  <2> QED
    BY <1>3, <1>6, <2>2, <2>3 DEF Added
<1> HIDE DEF g
<1>9. CASE f = e
  BY <1>2, <1>9, <1>6, <1>1 DEF Editors, Changes
<1>10. CASE f = g
  BY <1>6, <1>7, <1>8, <1>10 DEF Changes
<1> QED
  BY <1>2, <1>9, <1>10

-----------------------------------------------------------------------------
(* Edits of a profile keep it sound.                                       *)

LEMMA ProfileFacts ==
  ASSUME NEW p \in Profile
  PROVE  /\ p.pages \in Seq(Page) /\ Len(p.pages) \in Nat /\ DOMAIN p.pages = 1..Len(p.pages)
         /\ \A k \in 1..Len(p.pages) :
              /\ p.pages[k] \in Page /\ p.pages[k].id \in PageIds /\ p.pages[k].id # 0
              /\ DOMAIN p.pages[k].slots \subseteq 0..Dial
              /\ p.pages[k].slots \in [DOMAIN p.pages[k].slots -> Known]
<1>1. p.pages \in Seq(Page)
  BY DEF Profile
<1>2. \A k \in 1..Len(p.pages) : p.pages[k] \in Page
  BY <1>1
<1>3. ASSUME NEW g \in Page
      PROVE  /\ g.id \in PageIds /\ g.id # 0
             /\ DOMAIN g.slots \subseteq 0..Dial /\ g.slots \in [DOMAIN g.slots -> Known]
  BY PageIdsAssumption DEF Page
<1> QED
  BY <1>1, <1>2, <1>3

LEMMA SlotFacts ==
  /\ Dial \in Nat /\ Small \in Nat /\ Small = Dial + 1 /\ Slots = 0..(Dial + 1)
  /\ Keys = 0..(Dial - 1)
  /\ \A s \in Slots \ {Dial} : s = Small \/ s \in Keys
  /\ \A s \in Keys : s # Small /\ s # Dial /\ s \in Slots \ {Dial}
BY SizesAssumption DEF Dial, Small, Slots, Keys

LEMMA DoesFacts ==
  ASSUME NEW p \in Profile, NEW k \in 1..Len(p.pages)
  PROVE  /\ \A s \in Keys : Does(p, k, s) = {} <=> s \notin DOMAIN p.pages[k].slots
         /\ \A s \in Keys : Taken(p, k, s) <=> <<p.pages[k].id, s>> \in p.foreign
         /\ Does(p, k, Small) = p.small
         /\ Taken(p, k, Small) <=> <<0, Small>> \in p.foreign
BY SlotFacts DEF Does, Taken, Place

\* A profile made of another one: what is now in a key was in it before, if
\* there is something of a newer version.
LEMMA Derived ==
  ASSUME NEW p \in SoundProfile, NEW q \in Profile, q.pages # <<>>,
         q.foreign \subseteq p.foreign,
         \A j, k \in 1..Len(q.pages) : q.pages[j].id = q.pages[k].id => j = k,
         \A f \in q.foreign : f[1] = 0 \/ f[1] \in PagesOf(q),
         q.small # {} /\ <<0, Small>> \in q.foreign => p.small # {},
         \A k \in 1..Len(q.pages), s \in Keys :
           s \in DOMAIN q.pages[k].slots /\ <<q.pages[k].id, s>> \in q.foreign =>
             \E j \in 1..Len(p.pages) : /\ p.pages[j].id = q.pages[k].id
                                        /\ s \in DOMAIN p.pages[j].slots
  PROVE  q \in SoundProfile
<1>1. p \in Profile /\ p.pages # <<>> /\ Unmixed(p) /\ Len(p.pages) \in Nat \ {0}
  BY ProfileFacts DEF SoundProfile
<1>2. ASSUME NEW k \in 1..Len(q.pages), NEW s \in Slots \ {Dial}, Taken(q, k, s)
      PROVE  Does(q, k, s) = {}
  <2>1. CASE s = Small
    <3>1. <<0, Small>> \in p.foreign /\ 1 \in 1..Len(p.pages)
      BY <1>1, <1>2, <2>1, DoesFacts
    <3>2. Taken(p, 1, Small) /\ 1 \in DOMAIN p.pages /\ Small \in Slots \ {Dial}
      <4>1. Taken(p, 1, Small)
        BY <1>1, <3>1, DoesFacts
      <4>2. 1 \in DOMAIN p.pages
        BY <1>1, <3>1, ProfileFacts
      <4>3. Small \in Slots \ {Dial}
        BY SlotFacts
      <4> QED
        BY <4>1, <4>2, <4>3
    <3>3. Does(p, 1, Small) = {}
      BY <1>1, <3>2 DEF Unmixed
    <3> QED
      BY <1>1, <1>2, <2>1, <3>1, <3>3, DoesFacts
  <2>2. CASE s \in Keys
    <3>1. SUFFICES ASSUME s \in DOMAIN q.pages[k].slots
                   PROVE  FALSE
      BY <2>2, DoesFacts
    <3>2. <<q.pages[k].id, s>> \in q.foreign
      BY <1>2, <2>2, DoesFacts
    <3>3. PICK j \in 1..Len(p.pages) : /\ p.pages[j].id = q.pages[k].id
                                       /\ s \in DOMAIN p.pages[j].slots
      BY <2>2, <3>1, <3>2
    <3>4. Taken(p, j, s) /\ Does(p, j, s) # {} /\ j \in DOMAIN p.pages
      BY <1>1, <2>2, <3>2, <3>3, DoesFacts, ProfileFacts
    <3> QED
      BY <1>1, <2>2, <3>4, SlotFacts DEF Unmixed
  <2> QED
    BY <2>1, <2>2, SlotFacts
<1>3. Unmixed(q)
  BY <1>2, ProfileFacts DEF Unmixed
<1> QED
  BY <1>3 DEF SoundProfile

SlotMaps == UNION {[D -> Known] : D \in SUBSET (0..Dial)}

Reslot(p, k, slots, F) == [p EXCEPT !.pages[k].slots = slots, !.foreign = F]

\* One page's slots change; nothing of a newer version is added.
LEMMA Reslotted ==
  ASSUME NEW p \in SoundProfile, NEW k \in 1..Len(p.pages), NEW slots \in SlotMaps,
         NEW F, F \subseteq p.foreign,
         \A s \in Keys : s \in DOMAIN slots /\ <<p.pages[k].id, s>> \in F =>
                           s \in DOMAIN p.pages[k].slots,
         NEW q, q = Reslot(p, k, slots, F)
  PROVE  q \in SoundProfile /\ Len(q.pages) = Len(p.pages) /\ PagesOf(q) = PagesOf(p)
<1>1. p \in Profile /\ p.pages # <<>> /\ Unmixed(p)
      /\ \A j, i \in 1..Len(p.pages) : p.pages[j].id = p.pages[i].id => j = i
  BY DEF SoundProfile
<1>2. /\ p.pages \in Seq(Page) /\ Len(p.pages) \in Nat /\ p.pages[k] \in Page
      /\ DOMAIN p.pages = 1..Len(p.pages)
  BY <1>1, ProfileFacts
<1> DEFINE page == [p.pages[k] EXCEPT !.slots = slots]
           pages == [p.pages EXCEPT ![k] = page]
<1>3. page \in Page /\ page.id = p.pages[k].id /\ page.slots = slots
  BY <1>2 DEF Page, SlotMaps
<1> HIDE DEF page
<1>4. /\ pages \in Seq(Page) /\ Len(pages) = Len(p.pages) /\ pages # <<>>
      /\ \A i \in 1..Len(pages) : pages[i] = IF i = k THEN page ELSE p.pages[i]
  BY <1>1, <1>2, <1>3, ExceptSeq
<1> HIDE DEF pages
<1>5. q.pages = pages /\ q.small = p.small /\ q.foreign = F /\ q \in Profile
  BY <1>1, <1>4 DEF Profile, page, pages, Reslot
<1>6. \A i \in 1..Len(p.pages) : pages[i].id = p.pages[i].id
  BY <1>3, <1>4
<1>7. PagesOf(q) = PagesOf(p)
  BY <1>1, <1>4, <1>5, <1>6, ProfileFacts DEF PagesOf
<1>8. \A f \in q.foreign : f[1] = 0 \/ f[1] \in PagesOf(q)
  BY <1>1, <1>5, <1>7 DEF Unmixed
<1>9. ASSUME NEW i \in 1..Len(q.pages), NEW s \in Keys,
             s \in DOMAIN q.pages[i].slots, <<q.pages[i].id, s>> \in q.foreign
      PROVE  p.pages[i].id = q.pages[i].id /\ s \in DOMAIN p.pages[i].slots
  BY <1>3, <1>4, <1>5, <1>6, <1>9
<1>10. \A j, i \in 1..Len(q.pages) : q.pages[j].id = q.pages[i].id => j = i
  BY <1>1, <1>4, <1>5, <1>6
<1>11. \A i \in 1..Len(q.pages), s \in Keys :
         s \in DOMAIN q.pages[i].slots /\ <<q.pages[i].id, s>> \in q.foreign =>
           \E j \in 1..Len(p.pages) : /\ p.pages[j].id = q.pages[i].id
                                      /\ s \in DOMAIN p.pages[j].slots
  BY <1>4, <1>5, <1>9
<1>12. q.pages # <<>> /\ q.foreign \subseteq p.foreign /\ Len(q.pages) = Len(p.pages)
       /\ (q.small # {} /\ <<0, Small>> \in q.foreign => p.small # {})
  BY <1>4, <1>5
<1>13. q \in Profile
  BY <1>5
<1> QED
  BY <1>7, <1>8, <1>10, <1>11, <1>12, <1>13, Derived

\* Maps of slots, merged, cut down, or of one slot, are maps of slots.
LEMMA MapFacts ==
  /\ \A f, g \in SlotMaps : /\ Over(f, g) \in SlotMaps
                            /\ DOMAIN Over(f, g) = DOMAIN f \cup DOMAIN g
                            /\ \A x \in DOMAIN f : Over(f, g)[x] = f[x]
  /\ \A f \in SlotMaps : \A S : /\ Restrict(f, DOMAIN f \ S) \in SlotMaps
                                 /\ DOMAIN Restrict(f, DOMAIN f \ S) = DOMAIN f \ S
  /\ \A p \in Profile : \A k \in 1..Len(p.pages) : p.pages[k].slots \in SlotMaps
<1>1. ASSUME NEW f \in SlotMaps, NEW g \in SlotMaps
      PROVE  /\ Over(f, g) \in SlotMaps
             /\ DOMAIN Over(f, g) = DOMAIN f \cup DOMAIN g
             /\ \A x \in DOMAIN f : Over(f, g)[x] = f[x]
  <2>1. PICK D \in SUBSET (0..Dial) : f \in [D -> Known]
    BY DEF SlotMaps
  <2>2. PICK E \in SUBSET (0..Dial) : g \in [E -> Known]
    BY DEF SlotMaps
  <2>3. Over(f, g) \in [D \cup E -> Known] /\ D \cup E \in SUBSET (0..Dial)
    BY <2>1, <2>2 DEF Over
  <2> QED
    BY <2>1, <2>2, <2>3 DEF SlotMaps, Over
<1>2. ASSUME NEW f \in SlotMaps, NEW S
      PROVE  /\ Restrict(f, DOMAIN f \ S) \in SlotMaps
             /\ DOMAIN Restrict(f, DOMAIN f \ S) = DOMAIN f \ S
  <2>1. PICK D \in SUBSET (0..Dial) : f \in [D -> Known]
    BY DEF SlotMaps
  <2>2. Restrict(f, DOMAIN f \ S) \in [D \ S -> Known] /\ D \ S \in SUBSET (0..Dial)
    BY <2>1 DEF Restrict
  <2> QED
    BY <2>1, <2>2 DEF SlotMaps, Restrict
<1>3. ASSUME NEW p \in Profile, NEW k \in 1..Len(p.pages)
      PROVE  p.pages[k].slots \in SlotMaps
  BY ProfileFacts DEF SlotMaps
<1> QED
  BY <1>1, <1>2, <1>3

\* What a slot does is something known.
LEMMA DoesKnown ==
  ASSUME NEW p \in Profile, NEW k \in 1..Len(p.pages), NEW s \in Slots
  PROVE  Does(p, k, s) \subseteq Known
<1>1. p.small \subseteq Known
  BY DEF Profile
<1> QED
  BY <1>1, ProfileFacts DEF Does

\* What is put in a slot that is not taken.
LEMMA PutSound ==
  ASSUME NEW p \in SoundProfile, NEW k \in 1..Len(p.pages), NEW s \in Slots, NEW c \in Known
  PROVE  /\ PutUnlessTaken(p, k, s, c) \in SoundProfile
         /\ Len(PutUnlessTaken(p, k, s, c).pages) = Len(p.pages)
<1>1. p \in Profile /\ p.pages # <<>> /\ Unmixed(p)
      /\ \A j, i \in 1..Len(p.pages) : p.pages[j].id = p.pages[i].id => j = i
  BY DEF SoundProfile
<1>2. CASE Taken(p, k, s)
  BY <1>2 DEF PutUnlessTaken
<1>3. CASE ~Taken(p, k, s) /\ s = Small
  <2> DEFINE q == [p EXCEPT !.small = {c}]
  <2>1. PutUnlessTaken(p, k, s, c) = q
    BY <1>3 DEF PutUnlessTaken, Put
  <2>2. q \in Profile /\ q.pages = p.pages /\ q.foreign = p.foreign
    BY <1>1 DEF Profile
  <2>3. <<0, Small>> \notin q.foreign
    BY <1>1, <1>3, <2>2, DoesFacts
  <2> HIDE DEF q
  <2>4. \A f \in q.foreign : f[1] = 0 \/ f[1] \in PagesOf(q)
    BY <1>1, <2>2 DEF Unmixed, PagesOf
  <2>5. q \in SoundProfile
    BY <1>1, <2>2, <2>3, <2>4, Derived
  <2> QED
    BY <2>1, <2>2, <2>5
<1>4. CASE ~Taken(p, k, s) /\ s # Small
  <2> DEFINE new == [x \in {s} |-> c]
             slots == Over(new, p.pages[k].slots)
  <2>1. s \in 0..Dial
    BY <1>4, SlotFacts
  <2>2. new \in SlotMaps /\ DOMAIN new = {s}
    <3>1. new \in [{s} -> Known] /\ {s} \in SUBSET (0..Dial)
      BY <2>1
    <3> QED
      BY <3>1 DEF SlotMaps
  <2>3. slots \in SlotMaps /\ DOMAIN slots = {s} \cup DOMAIN p.pages[k].slots
    <3>1. p.pages[k].slots \in SlotMaps
      BY <1>1, MapFacts
    <3> QED
      BY <2>2, <3>1, MapFacts
  <2>4. <<p.pages[k].id, s>> \notin p.foreign
    BY <1>4 DEF Taken, Place
  <2> DEFINE q == [p EXCEPT !.pages[k].slots = slots, !.foreign = p.foreign]
  <2>5. q \in SoundProfile /\ Len(q.pages) = Len(p.pages)
    <3>1. q = Reslot(p, k, slots, p.foreign) /\ p.foreign \subseteq p.foreign
      BY DEF Reslot
    <3>2. \A x \in Keys : x \in DOMAIN slots /\ <<p.pages[k].id, x>> \in p.foreign =>
                            x \in DOMAIN p.pages[k].slots
      BY <2>3, <2>4
    <3> HIDE DEF slots, q
    <3> QED
      BY <2>3, <3>1, <3>2, Reslotted
  <2>6. PutUnlessTaken(p, k, s, c) = q
    BY <1>1, <1>4 DEF PutUnlessTaken, Put, Profile
  <2> QED
    BY <2>5, <2>6
<1> QED
  BY <1>2, <1>3, <1>4

\* What is put on keys none of which is taken.
LEMMA PutAllSound ==
  ASSUME NEW p \in SoundProfile, NEW k \in 1..Len(p.pages), NEW new \in SlotMaps,
         \A s \in Keys \cap DOMAIN new : ~Taken(p, k, s)
  PROVE  /\ PutAll(p, k, new) \in SoundProfile
         /\ Len(PutAll(p, k, new).pages) = Len(p.pages)
         /\ PagesOf(PutAll(p, k, new)) = PagesOf(p)
<1>1. p \in Profile
  BY DEF SoundProfile
<1> DEFINE slots == Over(new, p.pages[k].slots)
           q == [p EXCEPT !.pages[k].slots = slots, !.foreign = p.foreign]
<1>2. slots \in SlotMaps /\ DOMAIN slots = DOMAIN new \cup DOMAIN p.pages[k].slots
  BY <1>1, MapFacts
<1>3. \A s \in Keys \cap DOMAIN new : <<p.pages[k].id, s>> \notin p.foreign
  BY <1>1, DoesFacts
<1>4. q \in SoundProfile /\ Len(q.pages) = Len(p.pages) /\ PagesOf(q) = PagesOf(p)
  <2>1. q = Reslot(p, k, slots, p.foreign) /\ p.foreign \subseteq p.foreign
    BY DEF Reslot
  <2>2. \A x \in Keys : x \in DOMAIN slots /\ <<p.pages[k].id, x>> \in p.foreign =>
                          x \in DOMAIN p.pages[k].slots
    BY <1>2, <1>3
  <2> HIDE DEF slots, q
  <2> QED
    BY <1>2, <2>1, <2>2, Reslotted
<1>5. PutAll(p, k, new) = q
  BY <1>1 DEF PutAll, Profile
<1> QED
  BY <1>4, <1>5

LEMMA WithoutSound ==
  ASSUME NEW p \in SoundProfile, NEW k \in 1..Len(p.pages), NEW S,
         NEW q, q = Without(p, k, S)
  PROVE  q \in SoundProfile /\ Len(q.pages) = Len(p.pages) /\ q.foreign = p.foreign
<1>1. p \in Profile
  BY DEF SoundProfile
<1> DEFINE slots == Restrict(p.pages[k].slots, DOMAIN p.pages[k].slots \ S)
<1>2. slots \in SlotMaps /\ DOMAIN slots = DOMAIN p.pages[k].slots \ S
  BY <1>1, MapFacts
<1>3. q = Reslot(p, k, slots, p.foreign) /\ q.foreign = p.foreign
  BY <1>1 DEF Without, Profile, Reslot
<1>4. \A x \in Keys : x \in DOMAIN slots /\ <<p.pages[k].id, x>> \in p.foreign =>
                        x \in DOMAIN p.pages[k].slots
  BY <1>2
<1> HIDE DEF slots
<1>5. \A r : r = Reslot(p, k, slots, p.foreign) => r \in SoundProfile /\ Len(r.pages) = Len(p.pages)
  BY <1>2, <1>4, Reslotted
<1> QED
  BY <1>3, <1>5

LEMMA ClearForeignSound ==
  ASSUME NEW p \in SoundProfile, NEW F, F \subseteq p.foreign,
         NEW q, q = [p EXCEPT !.foreign = F]
  PROVE  q \in SoundProfile /\ Len(q.pages) = Len(p.pages)
<1>1. p \in Profile /\ p.pages # <<>> /\ Unmixed(p)
      /\ \A j, i \in 1..Len(p.pages) : p.pages[j].id = p.pages[i].id => j = i
  BY DEF SoundProfile
<1>2. q \in Profile /\ q.pages = p.pages /\ q.foreign = F /\ q.small = p.small
  BY <1>1 DEF Profile
<1>3. \A f \in q.foreign : f[1] = 0 \/ f[1] \in PagesOf(q)
  BY <1>1, <1>2 DEF Unmixed, PagesOf
<1> QED
  BY <1>1, <1>2, <1>3, Derived

LEMMA RankFacts ==
  ASSUME NEW F, F \subseteq Keys, NEW i \in F
  PROVE  Rank(F, i) \in Nat \ {0}
<1> DEFINE below == {j \in F : j <= i}
<1>1. i \in below
  BY DEF Keys
<1>2. IsFiniteSet(Keys)
  BY FS_Interval, SizesAssumption DEF Keys
<1>3. IsFiniteSet(below)
  BY <1>2, FS_Subset
<1>4. Cardinality(below) \in Nat /\ Cardinality(below) # 0
  <2> HIDE DEF below
  <2> QED
    BY <1>1, <1>3, FS_CardinalityType, FS_EmptySet
<1> QED
  BY <1>4 DEF Rank

LEMMA KeyMap ==
  ASSUME NEW D, D \subseteq Keys, NEW new \in [D -> Known]
  PROVE  new \in SlotMaps
<1>1. D \in SUBSET (0..Dial)
  BY SlotFacts
<1> QED
  BY <1>1 DEF SlotMaps

LEMMA FillSound ==
  ASSUME NEW p \in SoundProfile, NEW k \in 1..Len(p.pages), NEW group \in Seq(Known)
  PROVE  /\ Fill(p, k, group) \in SoundProfile
         /\ Len(Fill(p, k, group).pages) = Len(p.pages)
         /\ PagesOf(Fill(p, k, group)) = PagesOf(p)
<1> DEFINE F == Free(p, k)
           D == {j \in F : Rank(F, j) <= Len(group)}
           new == [i \in D |-> group[Rank(F, i)]]
<1>1. F \subseteq Keys /\ \A s \in F : ~Taken(p, k, s)
  BY DEF Free
<1> HIDE DEF F
<1>2. D \subseteq F /\ \A i \in D : Rank(F, i) \in 1..Len(group)
  BY <1>1, RankFacts
<1> HIDE DEF D
<1>3. new \in [D -> Known] /\ DOMAIN new = D
  BY <1>2
<1>4. new \in SlotMaps
  <2> HIDE DEF new
  <2> QED
    BY <1>1, <1>2, <1>3, KeyMap
<1>5. \A s \in Keys \cap DOMAIN new : ~Taken(p, k, s)
  BY <1>1, <1>2, <1>3
<1>6. Fill(p, k, group) = PutAll(p, k, new)
  BY DEF Fill, F, D
<1> HIDE DEF new
<1> QED
  BY <1>4, <1>5, <1>6, PutAllSound

Swapped(old, a, b) ==
  LET Other(s) == IF s = a THEN b ELSE IF s = b THEN a ELSE s
  IN [s \in {Other(x) : x \in DOMAIN old} |-> old[Other(s)]]

LEMMA SwapSound ==
  ASSUME NEW p \in SoundProfile, NEW k \in 1..Len(p.pages), NEW a \in Keys, NEW b \in Keys,
         ~Taken(p, k, a), ~Taken(p, k, b),
         NEW slots, slots = Swapped(p.pages[k].slots, a, b),
         NEW q, q = Reslot(p, k, slots, p.foreign)
  PROVE  q \in SoundProfile /\ Len(q.pages) = Len(p.pages)
<1> DEFINE old == p.pages[k].slots
           Other(s) == IF s = a THEN b ELSE IF s = b THEN a ELSE s
           D == {Other(x) : x \in DOMAIN old}
<1>1. p \in Profile
  BY DEF SoundProfile
<1>2. DOMAIN old \subseteq 0..Dial /\ old \in [DOMAIN old -> Known]
  BY <1>1, ProfileFacts
<1>3. D \subseteq 0..Dial
  BY <1>2, SlotFacts
<1>4. \A s \in D : Other(s) \in DOMAIN old
  OBVIOUS
<1>5. slots \in [D -> Known] /\ DOMAIN slots = D
  BY <1>2, <1>4 DEF Swapped
<1>6. slots \in SlotMaps
  BY <1>3, <1>5 DEF SlotMaps
<1>7. <<p.pages[k].id, a>> \notin p.foreign /\ <<p.pages[k].id, b>> \notin p.foreign
  BY <1>1, DoesFacts
<1>8. \A s \in Keys : s \in DOMAIN slots /\ <<p.pages[k].id, s>> \in p.foreign =>
                        s \in DOMAIN p.pages[k].slots
  BY <1>5, <1>7
<1> HIDE DEF D, Other, old
<1>10. \A r : r = Reslot(p, k, slots, p.foreign) =>
                r \in SoundProfile /\ Len(r.pages) = Len(p.pages)
  BY <1>6, <1>8, Reslotted
<1> QED
  BY <1>10

\* Keys of one page go to free keys of another one.
LEMMA MoveKeysSound ==
  ASSUME NEW p \in SoundProfile, NEW j \in 1..Len(p.pages), NEW k \in 1..Len(p.pages), j # k,
         NEW K, NEW new \in SlotMaps, DOMAIN new \subseteq Free(p, k)
  PROVE  /\ PutAll(Without(p, j, K), k, new) \in SoundProfile
         /\ Len(PutAll(Without(p, j, K), k, new).pages) = Len(p.pages)
<1> DEFINE w == Without(p, j, K)
<1>1. p \in Profile
  BY DEF SoundProfile
<1>2. w \in SoundProfile /\ Len(w.pages) = Len(p.pages) /\ w.foreign = p.foreign
  BY WithoutSound
<1>3. w.pages[k] = p.pages[k]
  BY <1>1, ProfileFacts DEF Without, Profile
<1> HIDE DEF w
<1>5. w \in Profile
  BY <1>2 DEF SoundProfile
<1>6. \A s \in DOMAIN new : s \in Keys /\ ~Taken(p, k, s)
  BY DEF Free
<1>7. \A s \in Keys : Taken(w, k, s) <=> Taken(p, k, s)
  BY <1>1, <1>2, <1>3, <1>5, DoesFacts
<1> QED
  BY <1>2, <1>6, <1>7, PutAllSound DEF w

NewDial(p, dial, k) ==
  Over([s \in {x \in {Dial} : dial # {}} |-> CHOOSE d \in dial : TRUE],
       Restrict(p.pages[k].slots, DOMAIN p.pages[k].slots \ {Dial}))

LEMMA DialsSound ==
  ASSUME NEW p \in SoundProfile, NEW dial, dial \subseteq Known,
         NEW q, q = [p EXCEPT !.pages = AllDials(p, dial)]
  PROVE  q \in SoundProfile /\ Len(q.pages) = Len(p.pages)
<1>1. PICK new : new = [s \in {x \in {Dial} : dial # {}} |-> CHOOSE d \in dial : TRUE]
  OBVIOUS
<1>2. new \in SlotMaps /\ DOMAIN new \subseteq {Dial}
  <2>1. /\ new \in [{x \in {Dial} : dial # {}} -> Known]
        /\ {x \in {Dial} : dial # {}} \in SUBSET (0..Dial)
    BY <1>1, SlotFacts
  <2> QED
    BY <2>1 DEF SlotMaps
<1>3. p \in Profile /\ p.pages # <<>> /\ Unmixed(p)
      /\ \A j, i \in 1..Len(p.pages) : p.pages[j].id = p.pages[i].id => j = i
  BY DEF SoundProfile
<1> DEFINE slots(k) == NewDial(p, dial, k)
           pages == AllDials(p, dial)
<1>4. /\ p.pages \in Seq(Page) /\ Len(p.pages) \in Nat /\ DOMAIN p.pages = 1..Len(p.pages)
  BY <1>3, ProfileFacts
<1>5. ASSUME NEW k \in 1..Len(p.pages)
      PROVE  slots(k) \in SlotMaps /\ DOMAIN slots(k) \subseteq {Dial} \cup DOMAIN p.pages[k].slots
  <2>1. p.pages[k].slots \in SlotMaps
    BY <1>3, MapFacts
  <2> DEFINE rest == Restrict(p.pages[k].slots, DOMAIN p.pages[k].slots \ {Dial})
  <2>2. rest \in SlotMaps /\ DOMAIN rest = DOMAIN p.pages[k].slots \ {Dial}
    BY <2>1, MapFacts
  <2>3. slots(k) = Over(new, rest)
    BY <1>1 DEF NewDial
  <2> HIDE DEF rest, slots
  <2>4. Over(new, rest) \in SlotMaps /\ DOMAIN Over(new, rest) = DOMAIN new \cup DOMAIN rest
    BY <1>2, <2>2, MapFacts
  <2> QED
    BY <1>2, <2>2, <2>3, <2>4
<1> HIDE DEF slots
<1>6. ASSUME NEW k \in 1..Len(p.pages)
      PROVE  /\ pages[k] \in Page /\ pages[k].id = p.pages[k].id
             /\ pages[k].slots = slots(k)
  <2>1. p.pages[k] \in Page /\ k \in DOMAIN p.pages
    BY <1>3, <1>4, ProfileFacts
  <2>2. pages[k] = [p.pages[k] EXCEPT !.slots = slots(k)]
    BY <2>1 DEF AllDials, slots, NewDial
  <2> HIDE DEF pages
  <2> QED
    BY <1>5, <2>1, <2>2 DEF Page, SlotMaps
<1>7. DOMAIN pages = 1..Len(p.pages)
  BY <1>4 DEF AllDials
<1>8. pages \in [1..Len(p.pages) -> Page]
  BY <1>4, <1>6 DEF AllDials
<1>9. q.pages = pages /\ q.small = p.small /\ q.foreign = p.foreign
  BY <1>3 DEF Profile
<1>10. q = [p EXCEPT !.pages = pages]
  OBVIOUS
<1> HIDE DEF pages
<1>11. pages \in Seq(Page) /\ Len(pages) = Len(p.pages) /\ pages # <<>>
  BY <1>3, <1>4, <1>8, SeqDef
<1>12. q \in Profile
  BY <1>3, <1>10, <1>11 DEF Profile
<1>13. PagesOf(q) = PagesOf(p)
  BY <1>4, <1>6, <1>7, <1>9 DEF PagesOf
<1>14. \A f \in q.foreign : f[1] = 0 \/ f[1] \in PagesOf(q)
  BY <1>3, <1>9, <1>13 DEF Unmixed
<1>15. \A j, i \in 1..Len(q.pages) : q.pages[j].id = q.pages[i].id => j = i
  BY <1>3, <1>6, <1>9, <1>11
<1>16. \A i \in 1..Len(q.pages), s \in Keys :
         s \in DOMAIN q.pages[i].slots /\ <<q.pages[i].id, s>> \in q.foreign =>
           \E j \in 1..Len(p.pages) : /\ p.pages[j].id = q.pages[i].id
                                      /\ s \in DOMAIN p.pages[j].slots
  BY <1>5, <1>6, <1>9, <1>11, SlotFacts
<1>17. q.pages # <<>> /\ q.foreign \subseteq p.foreign /\ Len(q.pages) = Len(p.pages)
       /\ (q.small # {} /\ <<0, Small>> \in q.foreign => p.small # {})
  BY <1>9, <1>11
<1> QED
  BY <1>12, <1>14, <1>15, <1>16, <1>17, Derived

\* A sequence with one element more, and with one less.
LEMMA Inserted ==
  ASSUME NEW S, NEW s \in Seq(S), NEW i \in 1..(Len(s) + 1), NEW x \in S
  PROVE  /\ InsertAt(s, i, x) \in Seq(S) /\ Len(InsertAt(s, i, x)) = Len(s) + 1
         /\ \A j \in 1..(i - 1) : InsertAt(s, i, x)[j] = s[j]
         /\ InsertAt(s, i, x)[i] = x
         /\ \A j \in i..Len(s) : InsertAt(s, i, x)[j + 1] = s[j]
<1> DEFINE a == SubSeq(s, 1, i - 1)
           b == SubSeq(s, i, Len(s))
           c == a \o <<x>>
<1>1. Len(s) \in Nat /\ \A j \in 1..Len(s) : s[j] \in S
  OBVIOUS
<1>2. /\ a \in Seq(S) /\ Len(a) = i - 1 /\ \A j \in 1..(i - 1) : a[j] = s[j]
  BY <1>1, SubSeqProperties
<1>3. /\ b \in Seq(S) /\ Len(b) = Len(s) - i + 1
      /\ \A j \in 1..(Len(s) - i + 1) : b[j] = s[i + j - 1]
  BY <1>1, SubSeqProperties
<1>4. <<x>> \in Seq(S) /\ Len(<<x>>) = 1 /\ <<x>>[1] = x
  OBVIOUS
<1> HIDE DEF a, b
<1>5. /\ c \in Seq(S) /\ Len(c) = i
      /\ \A j \in 1..i : c[j] = IF j < i THEN s[j] ELSE x
  BY <1>1, <1>2, <1>4, ConcatProperties
<1> HIDE DEF c
<1>6. /\ c \o b \in Seq(S) /\ Len(c \o b) = Len(s) + 1
      /\ \A j \in 1..(Len(s) + 1) : (c \o b)[j] = IF j <= i THEN c[j] ELSE b[j - i]
  <2>1. /\ c \o b \in Seq(S) /\ Len(c \o b) = Len(c) + Len(b)
        /\ \A j \in 1..(Len(c) + Len(b)) :
             (c \o b)[j] = IF j <= Len(c) THEN c[j] ELSE b[j - Len(c)]
    BY <1>3, <1>5, ConcatProperties
  <2>2. Len(c) = i /\ Len(c) + Len(b) = Len(s) + 1
    BY <1>1, <1>3, <1>5
  <2> QED
    BY <2>1, <2>2
<1>7. (\A j \in 1..(i - 1) : (c \o b)[j] = s[j]) /\ (c \o b)[i] = x
  BY <1>1, <1>5, <1>6
<1>8. ASSUME NEW j \in i..Len(s)
      PROVE  (c \o b)[j + 1] = s[j]
  <2>1. j + 1 \in 1..(Len(s) + 1) /\ ~(j + 1 <= i) /\ (j + 1) - i \in 1..(Len(s) - i + 1)
        /\ i + ((j + 1) - i) - 1 = j
    BY <1>1
  <2> QED
    BY <1>3, <1>6, <2>1
<1> QED
  BY <1>6, <1>7, <1>8 DEF InsertAt, a, b, c

LEMMA Removed ==
  ASSUME NEW S, NEW s \in Seq(S), NEW i \in 1..Len(s)
  PROVE  /\ RemoveAt(s, i) \in Seq(S) /\ Len(RemoveAt(s, i)) = Len(s) - 1
         /\ \A j \in 1..(Len(s) - 1) : RemoveAt(s, i)[j] = IF j < i THEN s[j] ELSE s[j + 1]
<1> DEFINE a == SubSeq(s, 1, i - 1)
           b == SubSeq(s, i + 1, Len(s))
<1>1. Len(s) \in Nat /\ \A j \in 1..Len(s) : s[j] \in S
  OBVIOUS
<1>2. /\ a \in Seq(S) /\ Len(a) = i - 1 /\ \A j \in 1..(i - 1) : a[j] = s[j]
  BY <1>1, SubSeqProperties
<1>3. /\ b \in Seq(S) /\ Len(b) = Len(s) - i
      /\ \A j \in 1..(Len(s) - i) : b[j] = s[i + j]
  BY <1>1, SubSeqProperties
<1> HIDE DEF a, b
<1>4. /\ a \o b \in Seq(S) /\ Len(a \o b) = Len(s) - 1
      /\ \A j \in 1..(Len(s) - 1) : (a \o b)[j] = IF j < i THEN a[j] ELSE b[j - i + 1]
  <2>1. /\ a \o b \in Seq(S) /\ Len(a \o b) = Len(a) + Len(b)
        /\ \A j \in 1..(Len(a) + Len(b)) :
             (a \o b)[j] = IF j <= Len(a) THEN a[j] ELSE b[j - Len(a)]
    BY <1>2, <1>3, ConcatProperties
  <2>2. Len(a) + Len(b) = Len(s) - 1
    BY <1>1, <1>2, <1>3
  <2>3. ASSUME NEW j \in 1..(Len(s) - 1)
        PROVE  (j <= i - 1 <=> j < i) /\ j - (i - 1) = j - i + 1
    BY <1>1
  <2> QED
    BY <1>2, <2>1, <2>2, <2>3
<1>5. ASSUME NEW j \in 1..(Len(s) - 1)
      PROVE  (a \o b)[j] = IF j < i THEN s[j] ELSE s[j + 1]
  <2>1. j < i => j \in 1..(i - 1)
    BY <1>1
  <2>2. ~(j < i) => j - i + 1 \in 1..(Len(s) - i) /\ i + (j - i + 1) = j + 1
    BY <1>1
  <2> QED
    BY <1>2, <1>3, <1>4, <2>1, <2>2
<1> QED
  BY <1>4, <1>5 DEF RemoveAt, a, b

\* A page more, with nothing on its keys.
LEMMA PageInserted ==
  ASSUME NEW p \in SoundProfile, NEW i \in 1..(Len(p.pages) + 1), NEW page \in Page,
         page.id \notin PagesOf(p), DOMAIN page.slots \subseteq {Dial},
         NEW q, q = [p EXCEPT !.pages = InsertAt(p.pages, i, page)]
  PROVE  /\ q \in SoundProfile /\ Len(q.pages) = Len(p.pages) + 1
         /\ PagesOf(q) = PagesOf(p) \cup {page.id}
<1>1. p \in Profile /\ p.pages # <<>> /\ Unmixed(p)
      /\ \A j, k \in 1..Len(p.pages) : p.pages[j].id = p.pages[k].id => j = k
  BY DEF SoundProfile
<1>2. /\ p.pages \in Seq(Page) /\ Len(p.pages) \in Nat /\ DOMAIN p.pages = 1..Len(p.pages)
  BY <1>1, ProfileFacts
<1> DEFINE pages == InsertAt(p.pages, i, page)
<1>3. /\ pages \in Seq(Page) /\ Len(pages) = Len(p.pages) + 1
      /\ \A j \in 1..(i - 1) : pages[j] = p.pages[j]
      /\ pages[i] = page
      /\ \A j \in i..Len(p.pages) : pages[j + 1] = p.pages[j]
  <2> DEFINE old == p.pages
  <2>1. old \in Seq(Page) /\ i \in 1..(Len(old) + 1)
    BY <1>2
  <2> HIDE DEF old
  <2>2. /\ InsertAt(old, i, page) \in Seq(Page) /\ Len(InsertAt(old, i, page)) = Len(old) + 1
        /\ \A j \in 1..(i - 1) : InsertAt(old, i, page)[j] = old[j]
        /\ InsertAt(old, i, page)[i] = page
        /\ \A j \in i..Len(old) : InsertAt(old, i, page)[j + 1] = old[j]
    BY <2>1, Inserted
  <2> QED
    BY <2>2 DEF old
<1>4. q.small = p.small /\ q.foreign = p.foreign /\ q.pages = pages /\ q \in Profile
  BY <1>1, <1>3 DEF Profile
<1>5. DOMAIN pages = 1..(Len(p.pages) + 1)
  BY <1>2, <1>3
<1> HIDE DEF pages
<1> DEFINE Old(j) == IF j < i THEN j ELSE j - 1
           New(j) == IF j < i THEN j ELSE j + 1
<1>6. ASSUME NEW j \in 1..(Len(p.pages) + 1), j # i
      PROVE  Old(j) \in 1..Len(p.pages) /\ pages[j] = p.pages[Old(j)]
  <2>1. CASE j < i
    BY <1>2, <1>3, <2>1
  <2>2. CASE ~(j < i)
    <3>1. j - 1 \in i..Len(p.pages) /\ j - 1 \in 1..Len(p.pages) /\ (j - 1) + 1 = j
      BY <1>2, <1>6, <2>2
    <3> QED
      BY <1>3, <2>2, <3>1
  <2> QED
    BY <2>1, <2>2
<1>7. ASSUME NEW j \in 1..Len(p.pages)
      PROVE  New(j) \in 1..(Len(p.pages) + 1) /\ New(j) # i /\ pages[New(j)] = p.pages[j]
  <2>1. CASE j < i
    BY <1>2, <1>3, <2>1
  <2>2. CASE ~(j < i)
    <3>1. j + 1 \in 1..(Len(p.pages) + 1) /\ j \in i..Len(p.pages) /\ j + 1 # i
      BY <1>2, <2>2
    <3> QED
      BY <1>3, <2>2, <3>1
  <2> QED
    BY <2>1, <2>2
<1>8. pages[i] = page
  BY <1>2, <1>3
<1>9. \A j, k \in 1..(Len(p.pages) + 1) : j # i /\ k # i /\ Old(j) = Old(k) => j = k
  BY <1>2
<1> HIDE DEF Old, New
<1>10. PagesOf(q) = PagesOf(p) \cup {page.id}
  <2>1. PagesOf(q) = {pages[j].id : j \in 1..(Len(p.pages) + 1)}
    BY <1>4, <1>5 DEF PagesOf
  <2>2. PagesOf(p) = {p.pages[j].id : j \in 1..Len(p.pages)}
    BY <1>2 DEF PagesOf
  <2>3. ASSUME NEW j \in 1..(Len(p.pages) + 1)
        PROVE  pages[j].id \in PagesOf(p) \cup {page.id}
    BY <1>6, <1>8, <2>2
  <2>4. ASSUME NEW j \in 1..Len(p.pages)
        PROVE  p.pages[j].id \in PagesOf(q)
    BY <1>7, <2>1
  <2>5. page.id \in PagesOf(q)
    <3>1. i \in 1..(Len(p.pages) + 1)
      BY <1>2
    <3> QED
      BY <1>8, <2>1, <3>1
  <2>6. PagesOf(q) \subseteq PagesOf(p) \cup {page.id}
    BY <2>1, <2>3
  <2>7. PagesOf(p) \subseteq PagesOf(q)
    BY <2>2, <2>4
  <2> QED
    BY <2>5, <2>6, <2>7
<1>11. \A f \in q.foreign : f[1] = 0 \/ f[1] \in PagesOf(q)
  BY <1>1, <1>4, <1>10 DEF Unmixed
<1>12. \A j \in 1..Len(p.pages) : p.pages[j].id # page.id
  BY <1>2 DEF PagesOf
<1>13. \A j, k \in 1..Len(q.pages) : q.pages[j].id = q.pages[k].id => j = k
  <2>1. SUFFICES ASSUME NEW j \in 1..(Len(p.pages) + 1), NEW k \in 1..(Len(p.pages) + 1),
                        pages[j].id = pages[k].id
                 PROVE  j = k
    BY <1>3, <1>4
  <2>2. CASE j = i \/ k = i
    BY <1>6, <1>8, <1>12, <2>1, <2>2
  <2>3. CASE j # i /\ k # i
    BY <1>1, <1>6, <1>9, <2>1, <2>3
  <2> QED
    BY <2>2, <2>3
<1>14. \A j \in 1..Len(q.pages), s \in Keys :
         s \in DOMAIN q.pages[j].slots /\ <<q.pages[j].id, s>> \in q.foreign =>
           \E k \in 1..Len(p.pages) : /\ p.pages[k].id = q.pages[j].id
                                      /\ s \in DOMAIN p.pages[k].slots
  <2>1. SUFFICES ASSUME NEW j \in 1..(Len(p.pages) + 1), NEW s \in Keys,
                        s \in DOMAIN pages[j].slots
                 PROVE  \E k \in 1..Len(p.pages) : /\ p.pages[k].id = pages[j].id
                                                   /\ s \in DOMAIN p.pages[k].slots
    BY <1>3, <1>4
  <2>2. j # i
    BY <1>8, <2>1, SlotFacts
  <2>3. Old(j) \in 1..Len(p.pages) /\ pages[j] = p.pages[Old(j)]
    BY <1>6, <2>2
  <2> QED
    BY <2>1, <2>3
<1>15. q.pages # <<>> /\ q.foreign \subseteq p.foreign /\ Len(q.pages) = Len(p.pages) + 1
       /\ (q.small # {} /\ <<0, Small>> \in q.foreign => p.small # {})
  BY <1>2, <1>3, <1>4
<1>16. q \in SoundProfile
  BY <1>4, <1>11, <1>13, <1>14, <1>15, Derived
<1> QED
  BY <1>10, <1>15, <1>16

\* A page less, and what newer versions left on it.
LEMMA PageRemoved ==
  ASSUME NEW p \in SoundProfile, NEW i \in 1..Len(p.pages), Len(p.pages) > 1,
         NEW q, q = [p EXCEPT !.pages = RemoveAt(p.pages, i),
                              !.foreign = {f \in p.foreign : f[1] # p.pages[i].id}]
  PROVE  q \in SoundProfile /\ Len(q.pages) = Len(p.pages) - 1
<1>1. p \in Profile /\ p.pages # <<>> /\ Unmixed(p)
      /\ \A j, k \in 1..Len(p.pages) : p.pages[j].id = p.pages[k].id => j = k
  BY DEF SoundProfile
<1>2. /\ p.pages \in Seq(Page) /\ Len(p.pages) \in Nat /\ DOMAIN p.pages = 1..Len(p.pages)
  BY <1>1, ProfileFacts
<1> DEFINE pages == RemoveAt(p.pages, i)
<1>3. /\ pages \in Seq(Page) /\ Len(pages) = Len(p.pages) - 1
      /\ \A j \in 1..(Len(p.pages) - 1) :
           pages[j] = IF j < i THEN p.pages[j] ELSE p.pages[j + 1]
  BY <1>2, Removed
<1>4. /\ q.small = p.small /\ q.foreign = {f \in p.foreign : f[1] # p.pages[i].id}
      /\ q.pages = pages /\ q \in Profile
  BY <1>1, <1>3 DEF Profile
<1>5. DOMAIN pages = 1..(Len(p.pages) - 1)
  BY <1>2, <1>3
<1> HIDE DEF pages
<1> DEFINE Old(j) == IF j < i THEN j ELSE j + 1
           New(j) == IF j < i THEN j ELSE j - 1
<1>6. ASSUME NEW j \in 1..(Len(p.pages) - 1)
      PROVE  Old(j) \in 1..Len(p.pages) /\ pages[j] = p.pages[Old(j)]
  BY <1>2, <1>3
<1>7. ASSUME NEW j \in 1..Len(p.pages), j # i
      PROVE  New(j) \in 1..(Len(p.pages) - 1) /\ pages[New(j)] = p.pages[j]
  <2>1. CASE j < i
    BY <1>2, <1>3, <2>1
  <2>2. CASE ~(j < i)
    <3>1. j - 1 \in 1..(Len(p.pages) - 1) /\ ~(j - 1 < i) /\ j - 1 + 1 = j
      BY <1>2, <1>7, <2>2
    <3> QED
      BY <1>3, <2>2, <3>1
  <2> QED
    BY <2>1, <2>2
<1>8. \A j, k \in 1..(Len(p.pages) - 1) : Old(j) = Old(k) => j = k
  BY <1>2
<1> HIDE DEF Old, New
<1>9. \A f \in q.foreign : f[1] = 0 \/ f[1] \in PagesOf(q)
  <2>1. SUFFICES ASSUME NEW f \in p.foreign, f[1] # p.pages[i].id, f[1] # 0
                 PROVE  f[1] \in PagesOf(q)
    BY <1>4
  <2>2. PICK j \in 1..Len(p.pages) : p.pages[j].id = f[1]
    BY <1>1, <1>2, <2>1 DEF Unmixed, PagesOf
  <2>3. New(j) \in DOMAIN q.pages /\ q.pages[New(j)].id = f[1]
    BY <1>4, <1>5, <1>7, <2>1, <2>2
  <2> QED
    BY <2>3 DEF PagesOf
<1>10. \A j, k \in 1..Len(q.pages) : q.pages[j].id = q.pages[k].id => j = k
  <2>1. SUFFICES ASSUME NEW j \in 1..(Len(p.pages) - 1), NEW k \in 1..(Len(p.pages) - 1),
                        pages[j].id = pages[k].id
                 PROVE  j = k
    BY <1>3, <1>4
  <2>2. /\ Old(j) \in 1..Len(p.pages) /\ Old(k) \in 1..Len(p.pages)
        /\ p.pages[Old(j)].id = p.pages[Old(k)].id
    BY <1>6, <2>1
  <2> QED
    BY <1>1, <1>8, <2>2
<1>11. \A j \in 1..Len(q.pages), s \in Keys :
         s \in DOMAIN q.pages[j].slots /\ <<q.pages[j].id, s>> \in q.foreign =>
           \E k \in 1..Len(p.pages) : /\ p.pages[k].id = q.pages[j].id
                                      /\ s \in DOMAIN p.pages[k].slots
  <2>1. ASSUME NEW j \in 1..Len(q.pages)
        PROVE  Old(j) \in 1..Len(p.pages) /\ q.pages[j] = p.pages[Old(j)]
    BY <1>3, <1>4, <1>6
  <2> QED
    BY <2>1
<1>12. q.pages # <<>> /\ q.foreign \subseteq p.foreign /\ Len(q.pages) = Len(p.pages) - 1
       /\ (q.small # {} /\ <<0, Small>> \in q.foreign => p.small # {})
  BY <1>2, <1>3, <1>4
<1> QED
  BY <1>4, <1>9, <1>10, <1>11, <1>12, Derived

\* The page that was open, and ids that are free.
CurrentPage == ed.profile \in SoundProfile /\ ed.page \in 1..Len(ed.profile.pages)

\* How many more pages a profile can be given.
Left(p) == Cardinality(Unused \ PagesOf(p))

LEMMA UnusedFacts ==
  /\ Unused \subseteq Nat \ {0} /\ Unused \subseteq PageIds
  /\ \A S : IsFiniteSet(Unused \ S) /\ Cardinality(Unused \ S) \in Nat
            /\ (Cardinality(Unused \ S) > 0 => Unused \ S # {})
  /\ Unused \ PagesOf(ed.profile) = Unused
<1>1. Unused \subseteq PageIds /\ Unused \ PagesOf(ed.profile) = Unused
  BY DEF Unused
<1>2. Unused \subseteq Nat \ {0}
  BY <1>1, PageIdsAssumption
<1> HIDE DEF Unused
<1>3. ASSUME NEW S
      PROVE  IsFiniteSet(Unused \ S) /\ Cardinality(Unused \ S) \in Nat
             /\ (Cardinality(Unused \ S) > 0 => Unused \ S # {})
  <2>1. IsFiniteSet(Unused \ S)
    BY <1>1, PageIdsAssumption, FS_Subset
  <2> QED
    BY <2>1, FS_CardinalityType, FS_EmptySet
<1> QED
  BY <1>1, <1>2, <1>3

LEMMA WithPageSound ==
  ASSUME CurrentPage, NEW p \in SoundProfile, NEW k \in 1..Len(p.pages), Left(p) > 0,
         NEW q, q = WithPage(p, k)
  PROVE  q \in SoundProfile /\ Len(q.pages) = Len(p.pages) + 1 /\ Left(q) = Left(p) - 1
<1> DEFINE free == Unused \ PagesOf(p)
           id == Min(free)
           old == ed.profile.pages[ed.page].slots
           dials == Restrict(old, {Dial} \cap DOMAIN old)
           page == [id |-> id, slots |-> dials]
<1>1. free # {} /\ free \subseteq Nat /\ free \subseteq PageIds
  BY UnusedFacts DEF Left
<1>2. id \in free
  <2> HIDE DEF free
  <2> QED
    BY <1>1, LeastOne
<1>3. old \in SlotMaps
  BY MapFacts DEF CurrentPage, SoundProfile
<1>4. dials \in SlotMaps /\ DOMAIN dials \subseteq {Dial}
  <2> HIDE DEF old
  <2>1. {Dial} \cap DOMAIN old = DOMAIN old \ (DOMAIN old \ {Dial})
    OBVIOUS
  <2> QED
    BY <1>3, <2>1, MapFacts DEF Restrict
<1> HIDE DEF dials
<1>5. page \in Page /\ page.id = id /\ page.slots = dials /\ id \in PageIds
  BY <1>1, <1>2, <1>4 DEF Page, SlotMaps
<1>6. k + 1 \in 1..(Len(p.pages) + 1)
  BY ProfileFacts DEF SoundProfile
<1>7. q = [p EXCEPT !.pages = InsertAt(p.pages, k + 1, page)]
  BY DEF WithPage, dials
<1> HIDE DEF page
<1>8. page.id \notin PagesOf(p) /\ DOMAIN page.slots \subseteq {Dial}
  BY <1>2, <1>4, <1>5
<1>9. /\ q \in SoundProfile /\ Len(q.pages) = Len(p.pages) + 1
      /\ PagesOf(q) = PagesOf(p) \cup {page.id}
  BY <1>5, <1>6, <1>7, <1>8, PageInserted
<1>10. Unused \ PagesOf(q) = free \ {id}
  BY <1>5, <1>9
<1>11. Cardinality(free \ {id}) = Cardinality(free) - 1
  <2>1. IsFiniteSet(free)
    BY UnusedFacts
  <2> HIDE DEF free, id
  <2> QED
    BY <1>2, <2>1, FS_RemoveElement
<1> QED
  BY <1>9, <1>10, <1>11 DEF Left

\* A place in a profile, a page of it.
SoundPlace(x) == x.p \in SoundProfile /\ x.at \in 1..Len(x.p.pages)

LEMMA NextPageSound ==
  ASSUME CurrentPage, NEW x, SoundPlace(x), Left(x.p) > 0
  PROVE  SoundPlace(NextPage(x)) /\ Left(NextPage(x).p) = Left(x.p) - 1
<1> DEFINE q == WithPage(x.p, x.at)
<1>1. q \in SoundProfile /\ Len(q.pages) = Len(x.p.pages) + 1 /\ Left(q) = Left(x.p) - 1
  BY WithPageSound DEF SoundPlace
<1>2. NextPage(x).p = q /\ NextPage(x).at = x.at + 1
  BY DEF NextPage
<1>3. x.at + 1 \in 1..(Len(x.p.pages) + 1)
  BY ProfileFacts DEF SoundPlace, SoundProfile
<1> HIDE DEF q
<1> QED
  BY <1>1, <1>2, <1>3 DEF SoundPlace

LEMMA AddGroupSound ==
  ASSUME CurrentPage, NEW x, SoundPlace(x), Left(x.p) > 0, NEW g \in Seq(Known)
  PROVE  SoundPlace(AddGroup(x, g)) /\ Left(AddGroup(x, g).p) >= Left(x.p) - 1
<1> DEFINE y == IF Cardinality(Free(x.p, x.at)) < Len(g) THEN NextPage(x) ELSE x
           q == Fill(y.p, y.at, g)
<1>1. SoundPlace(y) /\ Left(y.p) >= Left(x.p) - 1
  <2>1. Left(x.p) \in Nat
    BY UnusedFacts DEF Left
  <2>2. SoundPlace(NextPage(x)) /\ Left(NextPage(x).p) = Left(x.p) - 1
    BY NextPageSound
  <2>3. y = NextPage(x) \/ y = x
    OBVIOUS
  <2> HIDE DEF y
  <2> QED
    BY <2>1, <2>2, <2>3
<1>2. AddGroup(x, g).p = q /\ AddGroup(x, g).at = y.at
  BY DEF AddGroup
<1> HIDE DEF y
<1>3. q \in SoundProfile /\ Len(q.pages) = Len(y.p.pages) /\ PagesOf(q) = PagesOf(y.p)
  BY <1>1, FillSound DEF SoundPlace
<1> HIDE DEF q
<1>4. Left(q) = Left(y.p)
  BY <1>3 DEF Left
<1> QED
  BY <1>1, <1>2, <1>3, <1>4 DEF SoundPlace

Relocated(p, i, k) ==
  [p EXCEPT !.pages = InsertAt(RemoveAt(p.pages, i), k, p.pages[i])]

StillThere(p, q) ==
  \A j \in 1..Len(p.pages) : \E h \in 1..Len(p.pages) : q.pages[h].id = p.pages[j].id

\* One page goes elsewhere.
LEMMA MovedSound ==
  ASSUME NEW p \in SoundProfile, NEW i \in 1..Len(p.pages), NEW k \in 1..Len(p.pages),
         NEW q, q = Relocated(p, i, k)
  PROVE  q \in SoundProfile /\ Len(q.pages) = Len(p.pages) /\ StillThere(p, q)
<1>1. p \in Profile /\ p.pages # <<>> /\ Unmixed(p)
      /\ \A j, h \in 1..Len(p.pages) : p.pages[j].id = p.pages[h].id => j = h
  BY DEF SoundProfile
<1> DEFINE n == Len(p.pages)
           rest == RemoveAt(p.pages, i)
           pages == InsertAt(rest, k, p.pages[i])
<1>2. p.pages \in Seq(Page) /\ n \in Nat /\ DOMAIN p.pages = 1..n
  BY <1>1, ProfileFacts
<1>3. /\ rest \in Seq(Page) /\ Len(rest) = n - 1
      /\ \A j \in 1..(n - 1) : rest[j] = IF j < i THEN p.pages[j] ELSE p.pages[j + 1]
  BY <1>2, Removed
<1>4. PICK page \in Page : page = p.pages[i]
  BY <1>1, ProfileFacts
<1> HIDE DEF rest
<1>5. /\ pages \in Seq(Page) /\ Len(pages) = Len(rest) + 1
      /\ \A j \in 1..(k - 1) : pages[j] = rest[j]
      /\ pages[k] = p.pages[i]
      /\ \A j \in k..Len(rest) : pages[j + 1] = rest[j]
  <2>1. pages = InsertAt(rest, k, page)
    BY <1>4
  <2>2. rest \in Seq(Page) /\ k \in 1..(Len(rest) + 1)
    BY <1>2, <1>3
  <2> HIDE DEF pages
  <2>3. /\ InsertAt(rest, k, page) \in Seq(Page) /\ Len(InsertAt(rest, k, page)) = Len(rest) + 1
        /\ \A j \in 1..(k - 1) : InsertAt(rest, k, page)[j] = rest[j]
        /\ InsertAt(rest, k, page)[k] = page
        /\ \A j \in k..Len(rest) : InsertAt(rest, k, page)[j + 1] = rest[j]
    BY <2>2, Inserted
  <2> QED
    BY <1>4, <2>1, <2>3
<1>6. q.pages = pages /\ q.small = p.small /\ q.foreign = p.foreign /\ q \in Profile
  BY <1>1, <1>5 DEF Profile, rest, pages, Relocated
<1> HIDE DEF pages
<1> DEFINE Of(j) == IF j < i THEN j ELSE j + 1
           Old(j) == IF j < k THEN Of(j) ELSE IF j = k THEN i ELSE Of(j - 1)
           At(j) == IF j < i THEN j ELSE j - 1
           New(j) == IF j = i THEN k ELSE IF At(j) < k THEN At(j) ELSE At(j) + 1
<1>7. ASSUME NEW j \in 1..n
      PROVE  Old(j) \in 1..n /\ pages[j] = p.pages[Old(j)]
  <2>1. CASE j < k
    <3>1. j \in 1..(k - 1) /\ j \in 1..(n - 1)
      BY <1>2, <2>1
    <3>2. pages[j] = rest[j] /\ rest[j] = p.pages[Of(j)]
      BY <1>3, <1>5, <3>1
    <3>3. Of(j) \in 1..n
      BY <1>2, <3>1
    <3> QED
      BY <2>1, <3>2, <3>3
  <2>2. CASE j = k
    BY <1>5, <2>2
  <2>3. CASE j > k
    <3>1. j - 1 \in k..Len(rest) /\ j - 1 \in 1..(n - 1) /\ (j - 1) + 1 = j
      BY <1>2, <1>3, <2>3
    <3>2. pages[j] = rest[j - 1] /\ rest[j - 1] = p.pages[Of(j - 1)]
      BY <1>3, <1>5, <3>1
    <3>3. Of(j - 1) \in 1..n
      BY <1>2, <3>1
    <3> QED
      BY <2>3, <3>2, <3>3
  <2> QED
    BY <2>1, <2>2, <2>3
<1>8. ASSUME NEW j \in 1..n
      PROVE  New(j) \in 1..n /\ Old(New(j)) = j
  BY <1>2
<1>9. \A j, h \in 1..n : Old(j) = Old(h) => j = h
  BY <1>2
<1>10. n >= 1 /\ Len(pages) = n /\ DOMAIN pages = 1..n
  BY <1>2, <1>3, <1>5
<1> HIDE DEF Old, New, Of, At
<1>11. \A j \in 1..n : New(j) \in 1..n /\ pages[New(j)] = p.pages[j]
  BY <1>7, <1>8
<1>12. PagesOf(q) = PagesOf(p)
  <2>1. PagesOf(q) = {pages[j].id : j \in 1..n}
    BY <1>6, <1>10 DEF PagesOf
  <2>2. PagesOf(p) = {p.pages[j].id : j \in 1..n}
    BY <1>2 DEF PagesOf
  <2> HIDE DEF n
  <2>3. \A j \in 1..n : pages[j].id \in PagesOf(p)
    BY <1>7, <2>2
  <2>4. \A j \in 1..n : p.pages[j].id \in PagesOf(q)
    BY <1>11, <2>1
  <2> QED
    BY <2>1, <2>2, <2>3, <2>4
<1>13. \A f \in q.foreign : f[1] = 0 \/ f[1] \in PagesOf(q)
  BY <1>1, <1>6, <1>12 DEF Unmixed
<1>14. \A j, h \in 1..Len(q.pages) : q.pages[j].id = q.pages[h].id => j = h
  <2>1. SUFFICES ASSUME NEW j \in 1..n, NEW h \in 1..n, pages[j].id = pages[h].id
                 PROVE  j = h
    BY <1>6, <1>10
  <2>2. Old(j) \in 1..n /\ Old(h) \in 1..n /\ p.pages[Old(j)].id = p.pages[Old(h)].id
    BY <1>7, <2>1
  <2> QED
    BY <1>1, <1>9, <2>2
<1>15. \A j \in 1..Len(q.pages), s \in Keys :
         s \in DOMAIN q.pages[j].slots /\ <<q.pages[j].id, s>> \in q.foreign =>
           \E h \in 1..Len(p.pages) : /\ p.pages[h].id = q.pages[j].id
                                      /\ s \in DOMAIN p.pages[h].slots
  BY <1>6, <1>7, <1>10
<1>16. q.pages # <<>> /\ q.foreign \subseteq p.foreign /\ Len(q.pages) = Len(p.pages)
       /\ (q.small # {} /\ <<0, Small>> \in q.foreign => p.small # {})
  BY <1>5, <1>6, <1>10
<1>17. q \in SoundProfile
  BY <1>6, <1>13, <1>14, <1>15, <1>16, Derived
<1> QED
  BY <1>6, <1>11, <1>16, <1>17 DEF StillThere

-----------------------------------------------------------------------------
(* No macro comes to run itself.                                           *)

\* If a set holding the new macro loops, then so does, in the library as it
\* was, what of it the macro's body leads to.
LEMMA SaveKeepsLoopsOut ==
  ASSUME NEW l \in SoundLibrary, NEW m \in Macros, NEW body \in SUBSET Macros,
         ~WouldLoop(l, m, body)
  PROVE  Over([x \in {m} |-> body], l) \in SoundLibrary
<1> DEFINE new == Over([x \in {m} |-> body], l)
<1>1. PICK D \in SUBSET Macros : l \in [D -> SUBSET Macros]
  BY DEF SoundLibrary, AnyLibrary
<1>2. /\ new \in [D \cup {m} -> SUBSET Macros] /\ D \cup {m} \in SUBSET Macros
      /\ new[m] = body /\ \A x \in D \ {m} : new[x] = l[x]
  BY <1>1 DEF Over
<1>3. NeverLoops(l) /\ DOMAIN l = D
  BY <1>1 DEF SoundLibrary
<1> HIDE DEF new
<1>4. ASSUME NEW S \in (SUBSET (D \cup {m})) \ {{}}, \A x \in S : new[x] \cap S # {}
      PROVE  FALSE
  <2>1. PICK C \in SUBSET Macros : /\ body \subseteq C /\ m \notin C
                                   /\ \A x \in C \cap D : l[x] \subseteq C
    BY <1>3 DEF WouldLoop
  <2>2. CASE m \notin S
    <3>1. S \in (SUBSET D) \ {{}}
      BY <2>2
    <3> QED
      BY <1>2, <1>3, <1>4, <2>2, <3>1 DEF NeverLoops
  <2>3. CASE m \in S
    <3> DEFINE T == S \cap C
    <3>1. T \in (SUBSET D) \ {{}}
      BY <1>2, <1>4, <2>1, <2>3
    <3>2. \A x \in T : l[x] \cap T # {}
      BY <1>2, <1>4, <2>1, <3>1
    <3> HIDE DEF T
    <3> QED
      BY <1>3, <3>1, <3>2 DEF NeverLoops
  <2> QED
    BY <2>2, <2>3
<1>5. NeverLoops(new) /\ new \in AnyLibrary
  BY <1>2, <1>4 DEF NeverLoops, AnyLibrary
<1> QED
  BY <1>5 DEF SoundLibrary, new

LEMMA DeleteKeepsLoopsOut ==
  ASSUME NEW l \in SoundLibrary, NEW m
  PROVE  Restrict(l, DOMAIN l \ {m}) \in SoundLibrary
<1> DEFINE new == Restrict(l, DOMAIN l \ {m})
<1>1. PICK D \in SUBSET Macros : l \in [D -> SUBSET Macros]
  BY DEF SoundLibrary, AnyLibrary
<1>2. new \in [D \ {m} -> SUBSET Macros] /\ \A x \in D \ {m} : new[x] = l[x]
  BY <1>1 DEF Restrict
<1>3. NeverLoops(l) /\ DOMAIN l = D
  BY <1>1 DEF SoundLibrary
<1> HIDE DEF new
<1>4. NeverLoops(new) /\ new \in AnyLibrary
  BY <1>2, <1>3 DEF NeverLoops, AnyLibrary
<1> QED
  BY <1>4 DEF SoundLibrary, new

-----------------------------------------------------------------------------
(* Every edit leaves a settled editor, and its history follows.            *)

Good(f) == Settled(f) /\ Follows(ed, f)

LEMMA SettledFacts ==
  ASSUME NEW e, Settled(e)
  PROVE  /\ e \in Editors /\ e \in EditorRecord /\ e.page \in 1..Len(e.profile.pages)
         /\ e.profile \in SoundProfile /\ e.profile \in Profile /\ e.library \in SoundLibrary
         /\ e.undo \in Seq(Step) /\ e.redo \in Seq(Step) /\ e.clip \subseteq Int \X Known
         /\ Len(e.profile.pages) \in Nat
<1>1. e \in Editors /\ e \in EditorRecord
  BY DEF Settled, Editors
<1>2. /\ e.profile \in SoundProfile /\ e.library \in SoundLibrary /\ e.page \in Nat \ {0}
      /\ e.undo \in Seq(Step) /\ e.redo \in Seq(Step) /\ e.clip \subseteq Int \X Known
  BY <1>1 DEF EditorRecord
<1>3. e.profile \in Profile
  BY <1>2 DEF SoundProfile
<1>4. Len(e.profile.pages) \in Nat
  BY <1>3, ProfileFacts
<1> QED
  BY <1>1, <1>2, <1>3, <1>4 DEF Settled

Keyed(e, f) ==
  Same(e, f) /\ f.library = e.library /\ f.page = e.page /\ f.clip = e.clip

LEMMA MergeFacts ==
  ASSUME NEW e, Settled(e), NEW key \in {"none", "typing", "assign"},
         NEW f, f = SetMerge(e, key)
  PROVE  /\ Settled(f) /\ Keyed(e, f) /\ f.merge = key /\ f.mergeNext = e.mergeNext
         /\ key = "none" => f.lastMerge = "none"
<1>1. e \in EditorRecord
  BY SettledFacts
<1>2. /\ f \in EditorRecord /\ f.merge = key /\ f.profile = e.profile /\ f.undo = e.undo
      /\ f.redo = e.redo /\ f.library = e.library /\ f.page = e.page /\ f.clip = e.clip
      /\ f.mergeNext = e.mergeNext /\ (key = "none" => f.lastMerge = "none")
  BY <1>1 DEF SetMerge, EditorRecord
<1> QED
  BY <1>2 DEF Settled, Editors, Keyed, Same

\* A step added and then joined is a step added.
LEMMA Chain ==
  ASSUME NEW e, NEW f, NEW g, Follows(e, f), Same(f, g) \/ Joined(f, g)
  PROVE  Follows(e, g)
<1>1. CASE Same(f, g)
  <2>1. CASE Same(e, f)
    BY <1>1, <2>1 DEF Follows, Same
  <2>2. CASE Joined(e, f)
    BY <1>1, <2>2 DEF Follows, Same, Joined
  <2>3. CASE Added(e, f)
    BY <1>1, <2>3 DEF Follows, Same, Added
  <2> QED
    BY <2>1, <2>2, <2>3 DEF Follows
<1>2. CASE Joined(f, g)
  <2>1. CASE Same(e, f)
    BY <1>2, <2>1 DEF Follows, Same, Joined
  <2>2. CASE Joined(e, f)
    BY <1>2, <2>2 DEF Follows, Joined
  <2>3. CASE Added(e, f)
    BY <1>2, <2>3 DEF Follows, Joined, Added
  <2> QED
    BY <2>1, <2>2, <2>3 DEF Follows
<1> QED
  BY <1>1, <1>2

LEMMA SameFirst ==
  ASSUME NEW e, NEW f, NEW g, Same(e, f), Follows(f, g)
  PROVE  Follows(e, g)
<1>1. CASE Same(f, g)
  BY <1>1 DEF Follows, Same
<1>2. CASE Joined(f, g)
  BY <1>2 DEF Follows, Same, Joined
<1>3. CASE Added(f, g)
  BY <1>3 DEF Follows, Same, Added
<1> QED
  BY <1>1, <1>2, <1>3 DEF Follows

\* What edit_with_library makes of a settled editor.
LEMMA EditedGood ==
  ASSUME NEW e, Settled(e), NEW p \in SoundProfile, e.page <= Len(p.pages),
         NEW l \in SoundLibrary, NEW f, f = Edited(e, p, l)
  PROVE  /\ Settled(f) /\ Follows(e, f) /\ Changes(e, f)
         /\ f.profile = p /\ f.library = l /\ f.page = e.page
<1>1. f \in Editors /\ f.profile = p /\ f.library = l /\ Changes(e, f)
  <2>1. e \in Editors
    BY SettledFacts
  <2> QED
    BY <2>1, EditedFacts
<1>2. f.page = e.page /\ (f = e \/ Joined(e, f) \/ Added(e, f))
  BY <1>1 DEF Changes
<1>3. Settled(f)
  BY <1>1, <1>2 DEF Settled
<1>4. f = e => Same(e, f)
  BY DEF Same
<1>5. Follows(e, f)
  BY <1>2, <1>4 DEF Follows
<1> QED
  BY <1>1, <1>2, <1>3, <1>5

\* An edit of the profile.
LEMMA EditGood ==
  ASSUME EditorInv, NEW p \in SoundProfile, ed.page <= Len(p.pages), Edit(p)
  PROVE  Good(ed')
<1> DEFINE e == SetMerge(ed, "none")
           f == Edited(e, p, ed.library)
<1>1. Settled(e) /\ Same(ed, e) /\ e.page = ed.page
  BY MergeFacts DEF EditorInv, Keyed
<1>2. ed.library \in SoundLibrary
  BY SettledFacts DEF EditorInv
<1>3. ed' = f
  BY DEF Edit, Becomes
<1> HIDE DEF e
<1>4. Settled(f) /\ Follows(e, f)
  BY <1>1, <1>2, EditedGood
<1> HIDE DEF f
<1>5. Follows(ed, f)
  BY <1>1, <1>4, SameFirst
<1> QED
  BY <1>3, <1>4, <1>5 DEF Good

\* What is dropped on a slot.
LEMMA DropGood ==
  ASSUME NEW e, Settled(e), NEW s \in Slots, NEW c \in Known, NEW f, f = Drop(e, s, c)
  PROVE  Settled(f) /\ Follows(e, f) /\ Changes(e, f)
<1> DEFINE p == PutUnlessTaken(e.profile, e.page, s, c)
<1>1. /\ e.profile \in SoundProfile /\ e.page \in 1..Len(e.profile.pages)
      /\ e.library \in SoundLibrary /\ Len(e.profile.pages) \in Nat
  BY SettledFacts
<1>2. p \in SoundProfile /\ Len(p.pages) = Len(e.profile.pages)
  BY <1>1, PutSound
<1>3. f = Edited(e, p, e.library)
  BY DEF Drop
<1> HIDE DEF p
<1>4. e.page <= Len(p.pages)
  BY <1>1, <1>2
<1> QED
  BY <1>1, <1>2, <1>3, <1>4, EditedGood

LEMMA ContentsKnown == Contents \subseteq Known /\ \A m \in Macros : Plain(m) \in Known
BY DEF Known

LEMMA SetSlotGood ==
  ASSUME EditorInv, NEW s \in Slots, NEW c \in Contents, NEW key \in {"none", "typing"},
         SetSlot(s, c, key)
  PROVE  Good(ed')
<1> DEFINE e == SetMerge(ed, key)
           f == Drop(e, s, c)
<1>1. Settled(e) /\ Same(ed, e)
  BY MergeFacts DEF EditorInv, Keyed
<1>2. ed' = f
  BY DEF SetSlot, Becomes
<1> HIDE DEF e
<1>3. Settled(f) /\ Follows(e, f)
  BY <1>1, ContentsKnown, DropGood
<1> HIDE DEF f
<1>4. Follows(ed, f)
  BY <1>1, <1>3, SameFirst
<1> QED
  BY <1>2, <1>3, <1>4 DEF Good

\* The second of the selected slots joins the step of the first.
LEMMA AssignGood ==
  ASSUME EditorInv, NEW a \in Slots, NEW b \in Slots, NEW c \in Contents, Assign(a, b, c)
  PROVE  Good(ed')
<1> DEFINE none == SetMerge(ed, "none")
           start == SetMerge(none, "assign")
           f == Drop(start, a, c)
           g == Drop(f, b, c)
           end == SetMerge(g, "none")
<1>1. Settled(none) /\ Same(ed, none)
  BY MergeFacts DEF EditorInv, Keyed
<1> HIDE DEF none
<1>2. Settled(start) /\ Same(none, start) /\ start.merge = "assign"
  BY <1>1, MergeFacts DEF Keyed
<1>3. ed' = end
  BY DEF Assign, Becomes, none
<1> HIDE DEF start
<1>4. Settled(f) /\ Follows(start, f) /\ Changes(start, f)
  BY <1>2, ContentsKnown, DropGood
<1> HIDE DEF f
<1>5. Settled(g) /\ Follows(f, g) /\ Changes(f, g)
  BY <1>4, ContentsKnown, DropGood
<1> HIDE DEF g
<1>6. Settled(end) /\ Same(g, end)
  BY <1>5, MergeFacts DEF Keyed
<1>7. Follows(start, g)
  <2>1. CASE f = start
    BY <1>5, <2>1
  <2>2. CASE f # start
    <3>1. f.merge = "assign" /\ f.lastMerge = "assign" /\ f.undo # <<>>
      BY <1>2, <1>4, <2>2 DEF Changes
    <3>2. g = f \/ Joined(f, g)
      BY <1>5, <3>1 DEF Changes
    <3>3. g = f => Same(f, g)
      BY DEF Same
    <3> QED
      BY <1>4, <3>2, <3>3, Chain
  <2> QED
    BY <2>1, <2>2
<1>8. Follows(none, g)
  BY <1>2, <1>7, SameFirst
<1>9. Follows(ed, g)
  BY <1>1, <1>8, SameFirst
<1> HIDE DEF end
<1>10. Follows(ed, end)
  BY <1>6, <1>9, Chain
<1> QED
  BY <1>3, <1>6, <1>10 DEF Good

LEMMA DialGood ==
  ASSUME EditorInv, DialToAllPages
  PROVE  Good(ed')
<1> DEFINE dial == Does(ed.profile, ed.page, Dial)
           q == [ed.profile EXCEPT !.pages = AllDials(ed.profile, dial)]
<1>1. ed.profile \in SoundProfile /\ ed.page \in 1..Len(ed.profile.pages)
  BY SettledFacts DEF EditorInv
<1>2. dial \subseteq Known
  BY <1>1, DoesKnown, SlotFacts DEF SoundProfile
<1>3. Edit(q)
  BY DEF DialToAllPages
<1> HIDE DEF dial
<1>4. q \in SoundProfile /\ Len(q.pages) = Len(ed.profile.pages)
  BY <1>1, <1>2, DialsSound
<1>5. ed.page <= Len(q.pages)
  BY <1>1, <1>4, ProfileFacts DEF SoundProfile
<1> HIDE DEF q
<1> QED
  BY <1>3, <1>4, <1>5, EditGood

LEMMA UnchangedGood ==
  ASSUME EditorInv, Edit(ed.profile)
  PROVE  Good(ed')
<1>1. ed.profile \in SoundProfile /\ ed.page <= Len(ed.profile.pages)
  BY SettledFacts DEF EditorInv, Settled
<1> QED
  BY <1>1, EditGood

LEMMA SwapGood ==
  ASSUME EditorInv, NEW a \in Keys, NEW b \in Keys, Swap(a, b)
  PROVE  Good(ed')
<1> DEFINE p == ed.profile
           k == ed.page
           slots == Swapped(p.pages[k].slots, a, b)
           q == Reslot(p, k, slots, p.foreign)
<1>1. p \in SoundProfile /\ k \in 1..Len(p.pages) /\ k <= Len(p.pages)
  BY SettledFacts DEF EditorInv, Settled
<1>2. CASE Taken(p, k, a) \/ Taken(p, k, b)
  BY <1>2, UnchangedGood DEF Swap
<1>3. CASE ~(Taken(p, k, a) \/ Taken(p, k, b))
  <2>1. Edit([p EXCEPT !.pages[k].slots = slots])
    BY <1>3, Zenon DEF Swap, Swapped
  <2>2. q = [p EXCEPT !.pages[k].slots = slots]
    <3>1. p \in Profile
      BY <1>1 DEF SoundProfile
    <3> HIDE DEF slots
    <3> QED
      BY <3>1 DEF Reslot, Profile
  <2>3. q \in SoundProfile /\ Len(q.pages) = Len(p.pages)
    <3> HIDE DEF slots, q
    <3>1. slots = Swapped(p.pages[k].slots, a, b) /\ q = Reslot(p, k, slots, p.foreign)
      BY DEF slots, q
    <3> QED
      BY <1>1, <1>3, <3>1, SwapSound
  <2>4. ed.page <= Len(q.pages)
    BY <1>1, <2>3
  <2> HIDE DEF q
  <2> QED
    BY <2>1, <2>2, <2>3, <2>4, EditGood
<1> QED
  BY <1>2, <1>3

\* What changes neither profile nor history.
LEMMA KeptGood ==
  ASSUME EditorInv, NEW f, f \in EditorRecord, Same(ed, f), f.page <= Len(f.profile.pages)
  PROVE  Good(f)
<1>1. f \in Editors
  BY DEF EditorInv, Settled, Editors, Same
<1> QED
  BY <1>1 DEF Good, Settled, Follows

LEMMA CopyGood ==
  ASSUME EditorInv, NEW K \in (SUBSET Keys) \ {{}}, CopyKeys(K)
  PROVE  Good(ed')
<1> DEFINE clip == UNION {{<<i - Min(K), c>> : c \in Does(ed.profile, ed.page, i)} : i \in K}
<1>1. ed \in EditorRecord /\ ed.profile \in Profile /\ ed.page \in 1..Len(ed.profile.pages)
      /\ ed.page <= Len(ed.profile.pages)
  BY SettledFacts DEF EditorInv, Settled
<1>2. Min(K) \in Nat /\ K \subseteq Nat
  <2>1. Keys \subseteq Nat
    BY SizesAssumption DEF Keys
  <2>2. K \subseteq Nat
    BY <2>1
  <2>3. K # {} /\ K \in SUBSET Nat
    BY <2>2
  <2>4. Min(K) \in K
    BY <2>3, LeastOne
  <2> QED
    BY <2>2, <2>4
<1>3. clip \in SUBSET (Int \X Known)
  <2>1. ASSUME NEW i \in K
        PROVE  i - Min(K) \in Int /\ Does(ed.profile, ed.page, i) \subseteq Known
    BY <1>1, <1>2, DoesKnown, SlotFacts
  <2> QED
    BY <2>1
<1>4. ed' = [ed EXCEPT !.clip = clip]
  BY DEF CopyKeys
<1> HIDE DEF clip
<1>5. ed' \in EditorRecord /\ Same(ed, ed') /\ ed'.page = ed.page
  BY <1>1, <1>3, <1>4 DEF EditorRecord, Same
<1>6. ed'.page <= Len(ed'.profile.pages)
  BY <1>1, <1>5 DEF Same
<1> HIDE <1>4
<1> QED
  BY <1>5, <1>6, KeptGood

LEMMA SetPageGood ==
  ASSUME EditorInv, NEW k \in Pages, SetPage(k)
  PROVE  Good(ed')
<1>1. ed \in EditorRecord /\ ed.profile \in Profile
  BY SettledFacts DEF EditorInv
<1>2. k \in Nat \ {0} /\ k <= Len(ed.profile.pages)
  BY <1>1, ProfileFacts DEF Pages
<1>3. ed' \in EditorRecord /\ Same(ed, ed') /\ ed'.page <= Len(ed'.profile.pages)
  BY <1>1, <1>2 DEF SetPage, EditorRecord, Same
<1> QED
  BY <1>3, KeptGood

LEMMA SetLibraryGood ==
  ASSUME EditorInv, NEW l \in Outside, SetLibrary(l)
  PROVE  Good(ed')
<1>1. ed \in EditorRecord /\ ed.page <= Len(ed.profile.pages)
  BY SettledFacts DEF EditorInv, Settled
<1>2. l \in SoundLibrary
  BY LibrariesAssumption DEF SoundLibrary
<1>3. ed' \in EditorRecord /\ Same(ed, ed') /\ ed'.page <= Len(ed'.profile.pages)
  BY <1>1, <1>2 DEF SetLibrary, EditorRecord, Same
<1> QED
  BY <1>3, KeptGood

\* An edit of the profile that leaves as many pages.
LEMMA EditKeepsPages ==
  ASSUME EditorInv, NEW p \in SoundProfile, Len(p.pages) >= Len(ed.profile.pages), Edit(p)
  PROVE  Good(ed')
<1>1. ed.page \in 1..Len(ed.profile.pages) /\ Len(ed.profile.pages) \in Nat
      /\ Len(p.pages) \in Nat
  BY SettledFacts, ProfileFacts DEF EditorInv, SoundProfile
<1>2. ed.page <= Len(p.pages)
  BY <1>1
<1> QED
  BY <1>2, EditGood

LEMMA PasteGood ==
  ASSUME EditorInv, NEW i \in Keys, PasteKeys(i)
  PROVE  Good(ed')
<1> DEFINE open == {s \in Keys : ~Taken(ed.profile, ed.page, s)}
           new == Pasted(i, open)
           q == PutAll(ed.profile, ed.page, new)
<1>1. /\ ed.profile \in SoundProfile /\ ed.page \in 1..Len(ed.profile.pages)
      /\ ed.clip \subseteq Int \X Known /\ Len(ed.profile.pages) \in Nat
  BY SettledFacts DEF EditorInv
<1> DEFINE D == open \cap {i + x[1] : x \in ed.clip}
<1>2. ASSUME NEW s \in D
      PROVE  (CHOOSE x \in ed.clip : i + x[1] = s)[2] \in Known
  <2>1. \E x \in ed.clip : i + x[1] = s
    OBVIOUS
  <2>2. (CHOOSE x \in ed.clip : i + x[1] = s) \in ed.clip
    BY <2>1
  <2> QED
    BY <1>1, <2>2
<1>3. new \in [D -> Known]
  BY <1>2 DEF Pasted
<1>4. D \subseteq Keys /\ \A s \in D : ~Taken(ed.profile, ed.page, s)
  OBVIOUS
<1>5. Edit(q)
  BY DEF PasteKeys
<1> HIDE DEF D, new
<1>6. new \in SlotMaps /\ DOMAIN new = D
  BY <1>3, <1>4, KeyMap
<1>7. q \in SoundProfile /\ Len(q.pages) = Len(ed.profile.pages)
  BY <1>1, <1>4, <1>6, PutAllSound
<1>8. Len(q.pages) >= Len(ed.profile.pages)
  BY <1>1, <1>7
<1> HIDE DEF q
<1> QED
  BY <1>5, <1>7, <1>8, EditKeepsPages

LEMMA ClearGood ==
  ASSUME EditorInv, NEW K \in (SUBSET Keys) \ {{}}, Clear(K)
  PROVE  Good(ed')
<1> DEFINE w == Without(ed.profile, ed.page, K)
           F == w.foreign \ {Place(ed.profile, ed.page, i) : i \in K}
           q == [w EXCEPT !.foreign = F]
<1>1. /\ ed.profile \in SoundProfile /\ ed.page \in 1..Len(ed.profile.pages)
      /\ Len(ed.profile.pages) \in Nat
  BY SettledFacts DEF EditorInv
<1>2. Edit(q)
  BY DEF Clear
<1>3. F \subseteq w.foreign
  OBVIOUS
<1>4. w \in SoundProfile /\ Len(w.pages) = Len(ed.profile.pages)
  BY <1>1, WithoutSound
<1> HIDE DEF w, F
<1>5. q \in SoundProfile /\ Len(q.pages) = Len(w.pages)
  BY <1>3, <1>4, ClearForeignSound
<1>6. Len(q.pages) >= Len(ed.profile.pages)
  BY <1>1, <1>4, <1>5
<1> HIDE DEF q
<1> QED
  BY <1>2, <1>5, <1>6, EditKeepsPages

LEMMA ClearForeignGood ==
  ASSUME EditorInv, NEW s \in Slots, ClearForeign(s)
  PROVE  Good(ed')
<1> DEFINE F == ed.profile.foreign \ {Place(ed.profile, ed.page, s)}
           q == [ed.profile EXCEPT !.foreign = F]
<1>1. ed.profile \in SoundProfile /\ Len(ed.profile.pages) \in Nat
  BY SettledFacts DEF EditorInv
<1>2. Edit(q)
  BY DEF ClearForeign
<1>3. F \subseteq ed.profile.foreign
  OBVIOUS
<1> HIDE DEF F
<1>4. q \in SoundProfile /\ Len(q.pages) = Len(ed.profile.pages)
  BY <1>1, <1>3, ClearForeignSound
<1>5. Len(q.pages) >= Len(ed.profile.pages)
  BY <1>1, <1>4
<1> HIDE DEF q
<1> QED
  BY <1>2, <1>4, <1>5, EditKeepsPages

LEMMA MoveToPageGood ==
  ASSUME EditorInv, NEW K \in (SUBSET Keys) \ {{}}, NEW k \in Pages, MoveToPage(K, k)
  PROVE  Good(ed')
<1> DEFINE old == ed.profile.pages[ed.page].slots
           moving == K \cap DOMAIN old
           F == Free(ed.profile, k)
           For(i) == {j \in moving : Rank(moving, j) = Rank(F, i)}
           D == {f \in F : For(f) # {}}
           new == [i \in D |-> old[CHOOSE j \in For(i) : TRUE]]
           q == PutAll(Without(ed.profile, ed.page, K), k, new)
<1>1. /\ ed.profile \in SoundProfile /\ ed.profile \in Profile
      /\ ed.page \in 1..Len(ed.profile.pages) /\ Len(ed.profile.pages) \in Nat
  BY SettledFacts DEF EditorInv
<1>2. k \in 1..Len(ed.profile.pages) /\ ed.page # k
  BY <1>1, ProfileFacts DEF Pages, MoveToPage
<1>3. Edit(q)
  BY DEF MoveToPage
<1>4. old \in [DOMAIN old -> Known]
  BY <1>1, ProfileFacts
<1>5. D \subseteq F
  OBVIOUS
<1> HIDE DEF old
<1>6. ASSUME NEW i \in D
      PROVE  old[CHOOSE j \in For(i) : TRUE] \in Known
  <2>1. (CHOOSE j \in For(i) : TRUE) \in For(i)
    OBVIOUS
  <2>2. For(i) \subseteq DOMAIN old
    OBVIOUS
  <2> HIDE DEF For
  <2> QED
    BY <1>4, <2>1, <2>2
<1> HIDE DEF D, For
<1>7. new \in [D -> Known]
  BY <1>6
<1> HIDE DEF new
<1>8. q \in SoundProfile /\ Len(q.pages) = Len(ed.profile.pages)
  <2>0. D \subseteq Keys
    BY <1>5 DEF Free
  <2>1. new \in SlotMaps /\ DOMAIN new \subseteq Free(ed.profile, k)
    BY <1>5, <1>7, <2>0, KeyMap
  <2>2. /\ PutAll(Without(ed.profile, ed.page, K), k, new) \in SoundProfile
        /\ Len(PutAll(Without(ed.profile, ed.page, K), k, new).pages) = Len(ed.profile.pages)
    BY <1>1, <1>2, <2>1, MoveKeysSound
  <2> QED
    BY <2>2
<1>9. Len(q.pages) >= Len(ed.profile.pages)
  BY <1>1, <1>8
<1> HIDE DEF q
<1> QED
  BY <1>3, <1>8, <1>9, EditKeepsPages

LEMMA CurrentFacts ==
  ASSUME EditorInv
  PROVE  /\ CurrentPage /\ ed.page \in 1..Len(ed.profile.pages)
         /\ Len(ed.profile.pages) \in Nat /\ Left(ed.profile) = Cardinality(Unused)
BY SettledFacts, UnusedFacts DEF EditorInv, CurrentPage, Left

LEMMA AddPageGood ==
  ASSUME EditorInv, AddPage
  PROVE  Good(ed')
<1> DEFINE q == WithPage(ed.profile, ed.page)
<1>1. CurrentPage /\ ed.page \in 1..Len(ed.profile.pages) /\ Len(ed.profile.pages) \in Nat
  BY CurrentFacts
<1>2. Left(ed.profile) > 0
  <2>1. Unused # {} /\ Unused \ {} = Unused
    BY DEF AddPage
  <2>2. IsFiniteSet(Unused) /\ Cardinality(Unused) \in Nat
    BY <2>1, UnusedFacts
  <2>3. Cardinality(Unused) # 0
    BY <2>1, <2>2, FS_EmptySet
  <2> QED
    BY <2>2, <2>3, CurrentFacts
<1>3. Edit(q)
  BY DEF AddPage
<1>4. q \in SoundProfile /\ Len(q.pages) = Len(ed.profile.pages) + 1
  BY <1>1, <1>2, WithPageSound DEF CurrentPage
<1>5. Len(q.pages) >= Len(ed.profile.pages)
  BY <1>1, <1>4
<1> HIDE DEF q
<1> QED
  BY <1>3, <1>4, <1>5, EditKeepsPages

\* However many pages the groups take, the open one is still there.
Further(x) == SoundPlace(x) /\ Len(x.p.pages) >= Len(ed.profile.pages)

LEMMA AddsPage ==
  ASSUME EditorInv, NEW x, Further(x), Left(x.p) > 0
  PROVE  Further(NextPage(x)) /\ Left(NextPage(x).p) = Left(x.p) - 1
<1>1. SoundPlace(NextPage(x)) /\ Left(NextPage(x).p) = Left(x.p) - 1
  BY CurrentFacts, NextPageSound DEF Further
<1>2. Len(NextPage(x).p.pages) = Len(x.p.pages) + 1
  BY CurrentFacts, WithPageSound DEF Further, NextPage, SoundPlace
<1>3. Len(x.p.pages) \in Nat /\ Len(ed.profile.pages) \in Nat
  BY CurrentFacts, ProfileFacts DEF Further, SoundPlace, SoundProfile
<1> QED
  BY <1>1, <1>2, <1>3 DEF Further

LEMMA AddsGroup ==
  ASSUME EditorInv, NEW x, Further(x), Left(x.p) > 0, NEW g \in Seq(Known)
  PROVE  Further(AddGroup(x, g)) /\ Left(AddGroup(x, g).p) >= Left(x.p) - 1
<1> DEFINE y == IF Cardinality(Free(x.p, x.at)) < Len(g) THEN NextPage(x) ELSE x
<1>1. SoundPlace(AddGroup(x, g)) /\ Left(AddGroup(x, g).p) >= Left(x.p) - 1
  BY CurrentFacts, AddGroupSound DEF Further
<1>2. Further(y)
  BY AddsPage
<1>3. AddGroup(x, g).p = Fill(y.p, y.at, g)
  BY DEF AddGroup
<1> HIDE DEF y
<1>4. Len(AddGroup(x, g).p.pages) = Len(y.p.pages)
  BY <1>2, <1>3, FillSound DEF Further, SoundPlace
<1> QED
  BY <1>1, <1>2, <1>4 DEF Further

LEMMA AddKeysGood ==
  ASSUME EditorInv, NEW groups \in Groups, NEW fresh \in BOOLEAN, AddKeys(groups, fresh)
  PROVE  Good(ed')
<1> DEFINE here == [p |-> ed.profile, at |-> ed.page]
           start == IF fresh THEN NextPage(here) ELSE here
           one == AddGroup(start, groups[1])
           all == IF Len(groups) = 1 THEN one ELSE AddGroup(one, groups[2])
<1>1. /\ groups \in Seq(Seq(Known)) /\ Len(groups) \in {1, 2}
      /\ groups[1] \in Seq(Known) /\ (Len(groups) = 2 => groups[2] \in Seq(Known))
  BY GroupsAssumption
<1>2. Cardinality(Unused) > Len(groups) /\ Edit(all.p)
  BY DEF AddKeys
<1>3. Further(here) /\ Left(here.p) > Len(groups) /\ Left(here.p) \in Nat
  <2>1. ed.profile \in SoundProfile /\ Left(ed.profile) = Cardinality(Unused)
        /\ Left(ed.profile) \in Nat
    BY CurrentFacts, UnusedFacts DEF CurrentPage, Left
  <2>2. here.p = ed.profile /\ here.at = ed.page
    OBVIOUS
  <2> HIDE DEF here
  <2> QED
    BY <1>2, <2>1, <2>2, CurrentFacts DEF Further, SoundPlace
<1> HIDE DEF here
<1>4. Further(start) /\ Left(start.p) >= Len(groups) /\ Left(start.p) \in Nat
  <2>1. Left(start.p) \in Nat
    BY UnusedFacts DEF Left
  <2>2. Further(NextPage(here)) /\ Left(NextPage(here).p) = Left(here.p) - 1
    BY <1>1, <1>3, AddsPage
  <2> QED
    BY <1>1, <1>3, <2>1, <2>2
<1> HIDE DEF start
<1>5. Further(one) /\ Left(one.p) >= Left(start.p) - 1 /\ Left(one.p) \in Nat
  <2>1. Left(one.p) \in Nat
    BY UnusedFacts DEF Left
  <2> QED
    BY <1>1, <1>4, <2>1, AddsGroup
<1> HIDE DEF one
<1>6. Further(all)
  <2>1. CASE Len(groups) = 1
    BY <1>5, <2>1
  <2>2. CASE Len(groups) = 2
    <3>1. Left(one.p) > 0
      BY <1>4, <1>5, <2>2
    <3>2. Further(AddGroup(one, groups[2]))
      BY <1>1, <1>5, <2>2, <3>1, AddsGroup
    <3> QED
      BY <2>2, <3>2
  <2> QED
    BY <1>1, <2>1, <2>2
<1> HIDE DEF all
<1> QED
  BY <1>2, <1>6, EditKeepsPages DEF Further, SoundPlace

LEMMA RemovePageGood ==
  ASSUME EditorInv, NEW k \in Pages, RemovePage(k)
  PROVE  Good(ed')
<1> DEFINE q == [ed.profile EXCEPT !.pages = RemoveAt(@, k),
                                   !.foreign = {f \in @ : f[1] # ed.profile.pages[k].id}]
           s == SetMerge(ed, "none")
           e == Edited(s, q, ed.library)
           f == [e EXCEPT !.page = Least(@, Len(e.profile.pages))]
<1>1. /\ ed.profile \in SoundProfile /\ ed.profile \in Profile /\ ed.library \in SoundLibrary
      /\ ed.page \in 1..Len(ed.profile.pages) /\ Len(ed.profile.pages) \in Nat
  BY SettledFacts DEF EditorInv
<1>2. k \in 1..Len(ed.profile.pages) /\ Len(ed.profile.pages) > 1
  BY <1>1, ProfileFacts DEF Pages, RemovePage
<1>3. ed' = f
  BY DEF RemovePage, Becomes
<1>4. q \in SoundProfile /\ Len(q.pages) = Len(ed.profile.pages) - 1
  BY <1>1, <1>2, PageRemoved
<1> HIDE DEF q
<1>5. Settled(s) /\ Same(ed, s) /\ s.page = ed.page
  BY MergeFacts DEF EditorInv, Keyed
<1> HIDE DEF s
<1>6. e \in Editors /\ e.profile = q /\ Changes(s, e)
  BY <1>1, <1>4, <1>5, SettledFacts, EditedFacts
<1> HIDE DEF e
<1>7. /\ f \in EditorRecord /\ f.profile = e.profile /\ f.undo = e.undo /\ f.redo = e.redo
      /\ f.page = Least(e.page, Len(q.pages))
  <2>1. e \in EditorRecord /\ e.page = ed.page
    BY <1>5, <1>6 DEF Editors, Changes
  <2>2. Least(e.page, Len(e.profile.pages)) \in Nat \ {0}
    BY <1>1, <1>2, <1>4, <1>6, <2>1 DEF Least
  <2> QED
    BY <1>6, <2>1, <2>2 DEF EditorRecord
<1> HIDE DEF f
<1>8. f.page <= Len(f.profile.pages)
  BY <1>1, <1>2, <1>4, <1>5, <1>6, <1>7 DEF Least, Changes
<1>9. Settled(f)
  BY <1>6, <1>7, <1>8 DEF Settled, Editors
<1>10. Follows(s, f)
  BY <1>6, <1>7 DEF Changes, Follows, Same, Joined, Added
<1>11. Follows(ed, f)
  BY <1>5, <1>10, SameFirst
<1> QED
  BY <1>3, <1>9, <1>11 DEF Good

LEMMA MovePageGood ==
  ASSUME EditorInv, NEW from \in Pages, NEW to \in Pages, MovePage(from, to)
  PROVE  Good(ed')
<1> DEFINE moved == InsertAt(RemoveAt(ed.profile.pages, from), to, ed.profile.pages[from])
           q == [ed.profile EXCEPT !.pages = moved]
           s == SetMerge(ed, "none")
           e == Edited(s, q, ed.library)
           page == CHOOSE k \in DOMAIN moved : moved[k].id = ed.profile.pages[ed.page].id
           f == [e EXCEPT !.page = page]
<1>1. /\ ed.profile \in SoundProfile /\ ed.profile \in Profile /\ ed.library \in SoundLibrary
      /\ ed.page \in 1..Len(ed.profile.pages) /\ Len(ed.profile.pages) \in Nat
  BY SettledFacts DEF EditorInv
<1>2. from \in 1..Len(ed.profile.pages) /\ to \in 1..Len(ed.profile.pages)
  BY <1>1, ProfileFacts DEF Pages
<1>3. ed' = f
  BY DEF MovePage, Becomes
<1>4. /\ q \in SoundProfile /\ Len(q.pages) = Len(ed.profile.pages)
      /\ \A j \in 1..Len(ed.profile.pages) : \E h \in 1..Len(ed.profile.pages) :
           q.pages[h].id = ed.profile.pages[j].id
  <2>1. q = Relocated(ed.profile, from, to)
    BY DEF Relocated
  <2> HIDE DEF q, moved
  <2>2. q \in SoundProfile /\ Len(q.pages) = Len(ed.profile.pages) /\ StillThere(ed.profile, q)
    BY <1>1, <1>2, <2>1, MovedSound
  <2> QED
    BY <2>2 DEF StillThere
<1>5. q.pages = moved
  BY <1>1 DEF Profile
<1> HIDE DEF moved, q
<1>6. DOMAIN moved = 1..Len(ed.profile.pages)
  BY <1>4, <1>5, ProfileFacts DEF SoundProfile
<1>7. page \in 1..Len(ed.profile.pages)
  <2>1. \E k \in DOMAIN moved : moved[k].id = ed.profile.pages[ed.page].id
    BY <1>1, <1>4, <1>5, <1>6
  <2> QED
    BY <1>6, <2>1
<1> HIDE DEF page
<1>8. Settled(s) /\ Same(ed, s) /\ s.page = ed.page
  BY MergeFacts DEF EditorInv, Keyed
<1> HIDE DEF s
<1>9. e \in Editors /\ e.profile = q /\ Changes(s, e)
  <2>1. s.page <= Len(q.pages)
    BY <1>1, <1>4, <1>8
  <2> QED
    BY <1>1, <1>4, <1>8, <2>1, SettledFacts, EditedFacts
<1> HIDE DEF e
<1>10. /\ f \in EditorRecord /\ f.profile = e.profile /\ f.undo = e.undo /\ f.redo = e.redo
       /\ f.page = page
  <2>1. e \in EditorRecord /\ page \in Nat \ {0}
    BY <1>1, <1>7, <1>9 DEF Editors
  <2> QED
    BY <2>1 DEF EditorRecord
<1> HIDE DEF f
<1>11. Settled(f)
  <2>1. f.page <= Len(f.profile.pages)
    BY <1>1, <1>4, <1>7, <1>9, <1>10
  <2>2. Len(f.undo) + Len(f.redo) <= Limit
    BY <1>9, <1>10 DEF Editors
  <2> QED
    BY <1>10, <2>1, <2>2 DEF Settled, Editors
<1>12. Follows(s, f)
  BY <1>9, <1>10 DEF Changes, Follows, Same, Joined, Added
<1>13. Follows(ed, f)
  BY <1>8, <1>12, SameFirst
<1> QED
  BY <1>3, <1>11, <1>13 DEF Good

\* save_macro, refused or not, and what follows it.
LEMMA SavedMacroGood ==
  ASSUME NEW e, Settled(e), NEW m \in Macros, NEW body \in SUBSET Macros,
         NEW f, f = SavedMacro(e, m, body)
  PROVE  Settled(f) /\ Follows(e, f) /\ Changes(e, f) /\ f.profile = e.profile
<1>1. e.profile \in SoundProfile /\ e.library \in SoundLibrary
      /\ e.page <= Len(e.profile.pages)
  BY SettledFacts DEF Settled
<1>2. CASE WouldLoop(e.library, m, body)
  <2>1. f = e
    BY <1>2 DEF SavedMacro
  <2> QED
    BY <2>1 DEF Follows, Same, Changes
<1>3. CASE ~WouldLoop(e.library, m, body)
  <2> DEFINE l == Over([x \in {m} |-> body], e.library)
  <2>1. l \in SoundLibrary
    BY <1>1, <1>3, SaveKeepsLoopsOut
  <2>2. f = Edited(e, e.profile, l)
    BY <1>3 DEF SavedMacro
  <2> HIDE DEF l
  <2> QED
    BY <1>1, <2>1, <2>2, EditedGood
<1> QED
  BY <1>2, <1>3

LEMMA SavedGood ==
  ASSUME EditorInv, NEW m \in Macros, NEW body \in SUBSET Macros, NEW f, f = Saved(m, body)
  PROVE  /\ Settled(f) /\ Follows(ed, f) /\ f.mergeNext = TRUE
         /\ f.undo = <<>> => Same(ed, f)
<1> DEFINE s == SetMerge(ed, "none")
           e == SavedMacro(s, m, body)
<1>1. Settled(s) /\ Same(ed, s)
  BY MergeFacts DEF EditorInv, Keyed
<1>2. f = [e EXCEPT !.mergeNext = TRUE]
  BY DEF Saved
<1> HIDE DEF s
<1>3. Settled(e) /\ Follows(s, e) /\ Changes(s, e)
  BY <1>1, SavedMacroGood
<1> HIDE DEF e
<1>4. e \in EditorRecord
  BY <1>3, SettledFacts
<1>5. TRUE \in Flag
  BY DEF Flag
<1>6. /\ f \in EditorRecord /\ Same(e, f) /\ f.page = e.page /\ f.mergeNext = TRUE
  BY <1>2, <1>4, <1>5 DEF EditorRecord, Same
<1>7. Settled(f)
  BY <1>3, <1>6 DEF Settled, Editors, Same
<1>8. Follows(s, f)
  BY <1>3, <1>6, Chain
<1>9. Follows(ed, f)
  BY <1>1, <1>8, SameFirst
<1>10. f.undo = <<>> => Same(ed, f)
  <2>1. SUFFICES ASSUME f.undo = <<>>
                 PROVE  Same(ed, f)
    OBVIOUS
  <2>2. e = s
    BY <1>3, <1>6, <2>1 DEF Changes, Same
  <2> QED
    BY <1>1, <1>6, <2>2 DEF Same
<1> QED
  BY <1>6, <1>7, <1>9, <1>10

LEMMA SaveMacroGood ==
  ASSUME EditorInv, NEW m \in Macros, NEW body \in SUBSET Macros, SaveMacro(m, body)
  PROVE  Good(ed')
<1>1. ed' = Saved(m, body)
  BY DEF SaveMacro, Becomes
<1> QED
  BY <1>1, SavedGood DEF Good

\* The slot that follows the macro joins the step that saved it.
LEMMA SaveAndFollowGood ==
  ASSUME EditorInv, NEW m \in Macros, NEW body \in SUBSET Macros, NEW s \in Slots,
         SaveAndFollow(m, body, s)
  PROVE  Good(ed')
<1> DEFINE f == Saved(m, body)
           e == SetMerge(f, "none")
           g == Drop(e, s, Plain(m))
<1>1. Settled(f) /\ Follows(ed, f) /\ f.mergeNext = TRUE /\ (f.undo = <<>> => Same(ed, f))
  BY SavedGood
<1>2. CASE WouldLoop(ed.library, m, body)
  BY <1>2, SaveMacroGood DEF SaveAndFollow
<1>3. CASE ~WouldLoop(ed.library, m, body)
  <2>1. ed' = g
    BY <1>3 DEF SaveAndFollow, Becomes
  <2> HIDE DEF f
  <2>2. Settled(e) /\ Same(f, e) /\ e.mergeNext = TRUE
    BY <1>1, MergeFacts DEF Keyed
  <2> HIDE DEF e
  <2>3. Settled(g) /\ Follows(e, g) /\ Changes(e, g)
    BY <2>2, ContentsKnown, DropGood
  <2> HIDE DEF g
  <2>4. CASE f.undo = <<>>
    <3>1. Same(ed, e)
      BY <1>1, <2>2, <2>4 DEF Same
    <3>2. Follows(ed, g)
      BY <2>3, <3>1, SameFirst
    <3> QED
      BY <2>1, <2>3, <3>2 DEF Good
  <2>5. CASE f.undo # <<>>
    <3>1. e.undo # <<>>
      BY <2>2, <2>5 DEF Same
    <3>2. g = e \/ Joined(e, g)
      BY <2>2, <2>3, <3>1 DEF Changes
    <3>3. g = e => Same(e, g)
      BY DEF Same
    <3>4. Follows(ed, e)
      BY <1>1, <2>2, Chain
    <3>5. Follows(ed, g)
      BY <3>2, <3>3, <3>4, Chain
    <3> QED
      BY <2>1, <2>3, <3>5 DEF Good
  <2> QED
    BY <2>4, <2>5
<1> QED
  BY <1>2, <1>3

LEMMA StoreMacroGood ==
  ASSUME EditorInv, NEW m \in Macros, NEW body \in SUBSET Macros, StoreMacro(m, body)
  PROVE  Good(ed')
<1> DEFINE s == SetMerge(ed, "none")
           e == SavedMacro(s, m, body)
<1>1. Settled(s) /\ Same(ed, s)
  BY MergeFacts DEF EditorInv, Keyed
<1>2. ed' = e
  BY DEF StoreMacro, Becomes
<1> HIDE DEF s
<1>3. Settled(e) /\ Follows(s, e)
  BY <1>1, SavedMacroGood
<1> HIDE DEF e
<1>4. Follows(ed, e)
  BY <1>1, <1>3, SameFirst
<1> QED
  BY <1>2, <1>3, <1>4 DEF Good

LEMMA DeleteMacroGood ==
  ASSUME EditorInv, NEW m, DeleteMacro(m)
  PROVE  Good(ed')
<1> DEFINE s == SetMerge(ed, "none")
           l == Restrict(ed.library, DOMAIN ed.library \ {m})
           e == Edited(s, ed.profile, l)
<1>1. Settled(s) /\ Same(ed, s) /\ s.page = ed.page
  BY MergeFacts DEF EditorInv, Keyed
<1>2. ed' = e
  BY DEF DeleteMacro, Becomes
<1>3. /\ ed.profile \in SoundProfile /\ ed.library \in SoundLibrary
      /\ ed.page <= Len(ed.profile.pages)
  BY SettledFacts DEF EditorInv, Settled
<1>4. l \in SoundLibrary
  BY <1>3, DeleteKeepsLoopsOut
<1> HIDE DEF s, l
<1>5. Settled(e) /\ Follows(s, e)
  BY <1>1, <1>3, <1>4, EditedGood
<1> HIDE DEF e
<1>6. Follows(ed, e)
  BY <1>1, <1>5, SameFirst
<1> QED
  BY <1>2, <1>5, <1>6 DEF Good

-----------------------------------------------------------------------------
(* Undo and redo.                                                          *)

LEMMA OneForOne ==
  \A a, b, n \in Nat : \A x, y :
    (a + b <= n \/ b + a <= n) /\ x = a - 1 /\ y = b + 1 => x + y <= n /\ y + x <= n
OBVIOUS

LEMMA FrontLast ==
  ASSUME NEW S, NEW s \in Seq(S), s # <<>>
  PROVE  /\ Last(s) \in S /\ Last(s) = s[Len(s)] /\ Len(s) \in Nat \ {0}
         /\ Front(s) \in Seq(S) /\ Len(Front(s)) = Len(s) - 1
         /\ \A i \in 1..(Len(s) - 1) : Front(s)[i] = s[i]
<1>1. Len(s) \in Nat \ {0} /\ \A i \in 1..Len(s) : s[i] \in S
  BY EmptySeq
<1>2. Last(s) \in S /\ Last(s) = s[Len(s)]
  BY <1>1 DEF Last
<1>3. /\ SubSeq(s, 1, Len(s) - 1) \in Seq(S)
      /\ Len(SubSeq(s, 1, Len(s) - 1)) = Len(s) - 1
      /\ \A i \in 1..(Len(s) - 1) : SubSeq(s, 1, Len(s) - 1)[i] = s[i]
  <2>1. PICK n \in Nat : n = Len(s) - 1
    BY <1>1
  <2>2. \A i \in 1..n : s[i] \in S
    BY <1>1, <2>1
  <2>3. /\ SubSeq(s, 1, n) \in Seq(S) /\ Len(SubSeq(s, 1, n)) = n
        /\ \A i \in 1..n : SubSeq(s, 1, n)[i] = s[i]
    BY <2>2, SubSeqProperties
  <2> QED
    BY <2>1, <2>3
<1> QED
  BY <1>1, <1>2, <1>3 DEF Front

LEMMA RestoredFacts ==
  ASSUME EditorInv, NEW step \in Step
  PROVE  /\ Restored(step) \in EditorRecord /\ Replaced(step) \in Step
         /\ Restored(step).profile = step.profile /\ Replaced(step).profile = ed.profile
         /\ Restored(step).undo = ed.undo /\ Restored(step).redo = ed.redo
         /\ Restored(step).page <= Len(step.profile.pages)
<1>1. /\ ed \in EditorRecord /\ ed.page \in Nat \ {0}
      /\ ed.profile \in SoundProfile /\ ed.library \in SoundLibrary
  BY SettledFacts DEF EditorInv, EditorRecord
<1>2. /\ step.profile \in SoundProfile /\ step.library \in SUBSET SoundLibrary
      /\ Len(step.profile.pages) \in Nat \ {0}
  BY ProfileFacts DEF Step, SoundProfile
<1> DEFINE library == IF step.library = {} THEN ed.library
                      ELSE CHOOSE l \in step.library : TRUE
           page == Least(ed.page, Len(step.profile.pages))
<1>3. library \in SoundLibrary
  BY <1>1, <1>2
<1>4. page \in Nat \ {0} /\ page <= Len(step.profile.pages)
  BY <1>1, <1>2 DEF Least
<1>5. Restored(step) = [ed EXCEPT !.profile = step.profile, !.library = library, !.page = page,
                                  !.lastMerge = "none"]
  BY DEF Restored
<1>6. Replaced(step) \in Step /\ Replaced(step).profile = ed.profile
  BY <1>1 DEF Replaced, Step
<1> HIDE DEF library, page
<1>7. /\ Restored(step) \in EditorRecord /\ Restored(step).profile = step.profile
      /\ Restored(step).undo = ed.undo /\ Restored(step).redo = ed.redo
      /\ Restored(step).page = page
  BY <1>1, <1>2, <1>3, <1>4, <1>5 DEF EditorRecord
<1> QED
  BY <1>4, <1>6, <1>7

\* Undo takes the last step to be undone and leaves one to be redone.
Undoes(f) ==
  /\ ed.undo # <<>> /\ f.undo = Front(ed.undo) /\ f.profile = Last(ed.undo).profile
  /\ \E step \in Step : step.profile = ed.profile /\ f.redo = Append(ed.redo, step)
Redoes(f) ==
  /\ ed.redo # <<>> /\ f.redo = Front(ed.redo) /\ f.profile = Last(ed.redo).profile
  /\ \E step \in Step : step.profile = ed.profile /\ f.undo = Append(ed.undo, step)

LEMMA UndoGood ==
  ASSUME EditorInv, Undo
  PROVE  Settled(ed') /\ Undoes(ed')
<1> DEFINE step == Last(ed.undo)
           r == Restored(step)
           s == Replaced(step)
           f == [r EXCEPT !.undo = Front(@), !.redo = Append(@, s)]
<1>1. /\ ed.undo # <<>> /\ ed' = f
      /\ ed.undo \in Seq(Step) /\ ed.redo \in Seq(Step) /\ Len(ed.undo) + Len(ed.redo) <= Limit
  BY SettledFacts DEF Undo, EditorInv, Editors
<1>2. step \in Step /\ Front(ed.undo) \in Seq(Step) /\ Len(Front(ed.undo)) = Len(ed.undo) - 1
  BY <1>1, FrontLast
<1> HIDE DEF step
<1>3. /\ r \in EditorRecord /\ s \in Step /\ r.profile = step.profile /\ s.profile = ed.profile
      /\ r.undo = ed.undo /\ r.redo = ed.redo /\ r.page <= Len(step.profile.pages)
  BY <1>2, RestoredFacts
<1> HIDE DEF r, s
<1>4. Append(ed.redo, s) \in Seq(Step) /\ Len(Append(ed.redo, s)) = Len(ed.redo) + 1
  BY <1>1, <1>3, AppendProperties
<1>5. /\ f \in EditorRecord /\ f.undo = Front(ed.undo) /\ f.redo = Append(ed.redo, s)
      /\ f.profile = step.profile /\ f.page = r.page
  BY <1>2, <1>3, <1>4 DEF EditorRecord
<1> HIDE DEF f
<1>6. Len(f.undo) + Len(f.redo) <= Limit
  <2>1. Len(ed.undo) \in Nat /\ Len(ed.redo) \in Nat /\ Limit \in Nat
    BY <1>1, SizesAssumption
  <2>2. Len(f.undo) = Len(ed.undo) - 1
    BY <1>2, <1>5
  <2>3. Len(f.redo) = Len(ed.redo) + 1
    BY <1>4, <1>5
  <2>4. Len(ed.undo) + Len(ed.redo) <= Limit
    BY <1>1
  <2> QED
    BY <2>1, <2>2, <2>3, <2>4, OneForOne
<1>7. Settled(f)
  BY <1>3, <1>5, <1>6 DEF Settled, Editors
<1> QED
  BY <1>1, <1>3, <1>5, <1>7 DEF Undoes, step

LEMMA RedoGood ==
  ASSUME EditorInv, Redo
  PROVE  Settled(ed') /\ Redoes(ed')
<1> DEFINE step == Last(ed.redo)
           r == Restored(step)
           s == Replaced(step)
           f == [r EXCEPT !.redo = Front(@), !.undo = Append(@, s)]
<1>1. /\ ed.redo # <<>> /\ ed' = f
      /\ ed.undo \in Seq(Step) /\ ed.redo \in Seq(Step) /\ Len(ed.undo) + Len(ed.redo) <= Limit
  BY SettledFacts DEF Redo, EditorInv, Editors
<1>2. step \in Step /\ Front(ed.redo) \in Seq(Step) /\ Len(Front(ed.redo)) = Len(ed.redo) - 1
  BY <1>1, FrontLast
<1> HIDE DEF step
<1>3. /\ r \in EditorRecord /\ s \in Step /\ r.profile = step.profile /\ s.profile = ed.profile
      /\ r.undo = ed.undo /\ r.redo = ed.redo /\ r.page <= Len(step.profile.pages)
  BY <1>2, RestoredFacts
<1> HIDE DEF r, s
<1>4. Append(ed.undo, s) \in Seq(Step) /\ Len(Append(ed.undo, s)) = Len(ed.undo) + 1
  BY <1>1, <1>3, AppendProperties
<1>5. /\ f \in EditorRecord /\ f.redo = Front(ed.redo) /\ f.undo = Append(ed.undo, s)
      /\ f.profile = step.profile /\ f.page = r.page
  BY <1>2, <1>3, <1>4 DEF EditorRecord
<1> HIDE DEF f
<1>6. Len(f.undo) + Len(f.redo) <= Limit
  <2>1. Len(ed.undo) \in Nat /\ Len(ed.redo) \in Nat /\ Limit \in Nat
    BY <1>1, SizesAssumption
  <2>2. Len(f.redo) = Len(ed.redo) - 1
    BY <1>2, <1>5
  <2>3. Len(f.undo) = Len(ed.undo) + 1
    BY <1>4, <1>5
  <2>4. Len(ed.undo) + Len(ed.redo) <= Limit
    BY <1>1
  <2> QED
    BY <2>1, <2>2, <2>3, <2>4, OneForOne
<1>7. Settled(f)
  BY <1>3, <1>5, <1>6 DEF Settled, Editors
<1> QED
  BY <1>1, <1>3, <1>5, <1>7 DEF Redoes, step

-----------------------------------------------------------------------------
(* The invariant of the editor.                                            *)

LEMMA InitHolds == Init => EditorInv
<1> SUFFICES ASSUME Init PROVE EditorInv
  OBVIOUS
<1>1. Loaded \in SoundProfile /\ Len(Loaded.pages) \in Nat \ {0}
  <2>1. Loaded \in Profile /\ Loaded.pages # <<>>
    BY LoadedAssumption
  <2>2. DOMAIN Loaded.pages = 1..Len(Loaded.pages) /\ Loaded.pages \in Seq(Page)
    BY <2>1, ProfileFacts
  <2> QED
    BY <2>1, <2>2, LoadedAssumption, EmptySeq DEF SoundProfile
<1>2. Library \in SoundLibrary
  BY LibrariesAssumption DEF SoundLibrary
<1>3. FALSE \in Flag /\ <<>> \in Seq(Step) /\ Len(<<>>) = 0
  BY DEF Flag
<1>4. ed \in EditorRecord /\ ed.profile = Loaded /\ ed.page = 1
      /\ ed.undo = <<>> /\ ed.redo = <<>>
  <2>1. PICK no \in Flag : no = FALSE
    BY <1>3
  <2>2. ed = [profile |-> Loaded, library |-> Library, page |-> 1, undo |-> <<>>, redo |-> <<>>,
              mergeNext |-> no, merge |-> "none", lastMerge |-> "none", clip |-> {}]
    BY <2>1 DEF Init
  <2>3. {} \in SUBSET (Int \X Known) /\ 1 \in Nat \ {0}
    OBVIOUS
  <2> QED
    BY <1>1, <1>2, <1>3, <2>2, <2>3 DEF EditorRecord
<1>5. Len(ed.undo) + Len(ed.redo) <= Limit
  BY <1>3, <1>4, SizesAssumption
<1>6. ed.page <= Len(ed.profile.pages)
  BY <1>1, <1>4
<1> QED
  BY <1>4, <1>5, <1>6 DEF EditorInv, Settled, Editors

\* A step of the editor leaves it settled, and its history follows.
LEMMA EditorSteps ==
  ASSUME EditorInv, Next
  PROVE  Good(ed') \/ (Settled(ed') /\ (Undoes(ed') \/ Redoes(ed')))
<1>1. CASE ProfileEdits
  <2>1. CASE \E s \in Slots, c \in Contents, key \in {"none", "typing"} : SetSlot(s, c, key)
    BY <2>1, SetSlotGood
  <2>2. CASE \E c \in Contents, a, b \in Slots : a < b /\ Assign(a, b, c)
    BY <2>2, AssignGood
  <2>3. CASE DialToAllPages
    BY <2>3, DialGood
  <2>4. CASE \E a, b \in Keys : a < b /\ Swap(a, b)
    BY <2>4, SwapGood
  <2>5. CASE \E K \in (SUBSET Keys) \ {{}} :
               CopyKeys(K) \/ Clear(K) \/ \E k \in Pages : MoveToPage(K, k)
    BY <2>5, CopyGood, ClearGood, MoveToPageGood
  <2>6. CASE \E i \in Keys : PasteKeys(i)
    BY <2>6, PasteGood
  <2>7. CASE \E s \in Slots : ClearForeign(s)
    BY <2>7, ClearForeignGood
  <2>8. CASE AddPage
    BY <2>8, AddPageGood
  <2>9. CASE \E g \in Groups, fresh \in BOOLEAN : AddKeys(g, fresh)
    BY <2>9, AddKeysGood
  <2>10. CASE \E k \in Pages : RemovePage(k) \/ SetPage(k) \/ \E j \in Pages : MovePage(k, j)
    BY <2>10, RemovePageGood, SetPageGood, MovePageGood
  <2> QED
    BY <1>1, <2>1, <2>2, <2>3, <2>4, <2>5, <2>6, <2>7, <2>8, <2>9, <2>10 DEF ProfileEdits
<1>2. CASE LibraryEdits
  <2>1. Bodies = SUBSET Macros /\ MacroSlots \subseteq Slots
    BY DEF Bodies, MacroSlots
  <2>2. CASE \E m \in Macros, b \in Bodies : SaveMacro(m, b) \/ StoreMacro(m, b)
    BY <2>1, <2>2, SaveMacroGood, StoreMacroGood
  <2>3. CASE \E s \in MacroSlots, m \in Macros, b \in Bodies : SaveAndFollow(m, b, s)
    BY <2>1, <2>3, SaveAndFollowGood
  <2>4. CASE \E m \in DOMAIN ed.library : DeleteMacro(m)
    BY <2>4, DeleteMacroGood
  <2>5. CASE \E l \in Outside : SetLibrary(l)
    BY <2>5, SetLibraryGood
  <2> QED
    BY <1>2, <2>2, <2>3, <2>4, <2>5 DEF LibraryEdits
<1>3. CASE Undo
  BY <1>3, UndoGood
<1>4. CASE Redo
  BY <1>4, RedoGood
<1> QED
  BY <1>1, <1>2, <1>3, <1>4 DEF Next

LEMMA EditorKept ==
  EditorInv /\ [Next]_vars => EditorInv'
<1> SUFFICES ASSUME EditorInv, [Next]_vars PROVE EditorInv'
  OBVIOUS
<1>1. CASE Next
  <2>1. Settled(ed')
    BY <1>1, EditorSteps DEF Good
  <2> QED
    BY <2>1 DEF EditorInv, Settled
<1>2. CASE UNCHANGED vars
  BY <1>2 DEF vars, EditorInv, Settled
<1> QED
  BY <1>1, <1>2

\* What is edited stays fit to be saved and played: no key holds something of
\* a newer version besides what the editor put there, what is kept of newer
\* versions is on a page that is there, and no macro runs itself.
THEOREM EditorStaysSound == ApartSpec => []StaysSound
<1>1. ApartInit => EditorInv
  BY InitHolds DEF ApartInit
<1>2. EditorInv /\ [InEditor \/ InInstance]_<<part, editor, instance>> => EditorInv'
  <2>1. ASSUME EditorInv, InEditor PROVE EditorInv'
    BY <2>1, EditorKept DEF InEditor
  <2>2. ASSUME EditorInv, InInstance PROVE EditorInv'
    BY <2>2, EditorKept DEF InInstance, editor
  <2>3. ASSUME EditorInv, UNCHANGED <<part, editor, instance>> PROVE EditorInv'
    BY <2>3, EditorKept DEF editor
  <2> QED
    BY <2>1, <2>2, <2>3
<1>3. EditorInv => StaysSound
  <2> SUFFICES ASSUME EditorInv PROVE StaysSound
    OBVIOUS
  <2>1. /\ ed.profile \in SoundProfile /\ ed.library \in SoundLibrary
        /\ ed.page \in 1..Len(ed.profile.pages)
    BY SettledFacts DEF EditorInv
  <2>2. Unmixed(ed.profile) /\ NeverLoops(ed.library) /\ ed.page \in Pages
    BY <2>1, ProfileFacts DEF SoundProfile, SoundLibrary, Pages
  <2> QED
    BY <2>2 DEF StaysSound, ForeignUnmixed, LibraryNeverLoops
<1> QED
  BY <1>1, <1>2, <1>3, PTL DEF ApartSpec

-----------------------------------------------------------------------------
(* The editor implements EditHistory: `versions` is Line(ed), `at` At(ed). *)

Line(e) == Profiles(e.undo) \o <<e.profile>> \o Reverse(Profiles(e.redo))
At(e) == Len(e.undo) + 1

LEMMA ProfilesFacts ==
  ASSUME NEW s \in Seq(Step)
  PROVE  /\ Profiles(s) \in Seq(SoundProfile) /\ Len(Profiles(s)) = Len(s) /\ Len(s) \in Nat
         /\ \A i \in 1..Len(s) : Profiles(s)[i] = s[i].profile
<1>1. Len(s) \in Nat /\ DOMAIN s = 1..Len(s)
  OBVIOUS
<1>2. ASSUME NEW i \in 1..Len(s)
      PROVE  s[i].profile \in SoundProfile
  <2>1. s[i] \in Step
    BY <1>1
  <2> QED
    BY <2>1 DEF Step
<1>3. Profiles(s) \in [1..Len(s) -> SoundProfile]
  BY <1>1, <1>2 DEF Profiles
<1>4. Profiles(s) \in Seq(SoundProfile) /\ Len(Profiles(s)) = Len(s)
  BY <1>1, <1>3, SeqDef
<1>5. \A i \in 1..Len(s) : Profiles(s)[i] = s[i].profile
  BY <1>1 DEF Profiles
<1> QED
  BY <1>1, <1>4, <1>5

LEMMA ReverseFacts ==
  ASSUME NEW S, NEW s \in Seq(S)
  PROVE  /\ Reverse(s) \in Seq(S) /\ Len(Reverse(s)) = Len(s)
         /\ \A i \in 1..Len(s) : Reverse(s)[i] = s[Len(s) - i + 1]
<1>1. Len(s) \in Nat /\ \A i \in 1..Len(s) : s[i] \in S
  OBVIOUS
<1>2. \A i \in 1..Len(s) : Len(s) - i + 1 \in 1..Len(s)
  BY <1>1
<1>3. Reverse(s) \in [1..Len(s) -> S]
  BY <1>1, <1>2 DEF Reverse
<1>4. Reverse(s) \in Seq(S) /\ Len(Reverse(s)) = Len(s)
  BY <1>1, <1>3, SeqDef
<1> QED
  BY <1>4 DEF Reverse

LEMMA PlacesOnLine ==
  \A n, m \in Nat :
    /\ \A i \in 1..n : i \in 1..(n + m) /\ i <= n
    /\ \A j \in 1..m : n + j \in 1..(n + m) /\ ~(n + j <= n) /\ (n + j) - n = j
    /\ \A i \in 1..m : m - i + 1 \in 1..m /\ (n + 1) + (m - i + 1) = n + m + 2 - i
                       /\ m - (m - i + 1) + 1 = i
    /\ n + 1 \in Nat /\ (n + 1) + m = n + 1 + m /\ n + 1 \in 1..(n + 1)
    /\ \A i \in 1..n : i \in 1..(n + 1)
OBVIOUS

\* `t` is `s`, of length `n`, and then `u`, of length `m`.
OneThenOther(t, s, u, n, m) ==
  /\ Len(t) = n + m
  /\ \A i \in 1..n : t[i] = s[i]
  /\ \A j \in 1..m : t[n + j] = u[j]

LEMMA Concatenated ==
  ASSUME NEW S, NEW s \in Seq(S), NEW u \in Seq(S), NEW n \in Nat, NEW m \in Nat,
         n = Len(s), m = Len(u)
  PROVE  s \o u \in Seq(S) /\ OneThenOther(s \o u, s, u, n, m)
<1>1. /\ s \o u \in Seq(S) /\ Len(s \o u) = n + m
      /\ \A i \in 1..(n + m) : (s \o u)[i] = IF i <= n THEN s[i] ELSE u[i - n]
  BY ConcatProperties
<1>2. \A i \in 1..n : (s \o u)[i] = s[i]
  BY <1>1, PlacesOnLine
<1>3. \A j \in 1..m : (s \o u)[n + j] = u[j]
  BY <1>1, PlacesOnLine
<1> QED
  BY <1>1, <1>2, <1>3 DEF OneThenOther

\* `l` is `a`, of length `n`, `x`, and `r`, of length `m`, backwards.
Around(l, a, x, r, n, m) ==
  /\ Len(l) = n + 1 + m
  /\ \A i \in 1..n : l[i] = a[i]
  /\ l[n + 1] = x
  /\ \A i \in 1..m : l[n + m + 2 - i] = r[i]

LEMMA AroundOne ==
  ASSUME NEW S, NEW a \in Seq(S), NEW x \in S, NEW r \in Seq(S), NEW n \in Nat, NEW m \in Nat,
         n = Len(a), m = Len(r)
  PROVE  /\ a \o <<x>> \o Reverse(r) \in Seq(S)
         /\ Around(a \o <<x>> \o Reverse(r), a, x, r, n, m)
<1>1. PICK b \in Seq(S) : b = <<x>> /\ 1 = Len(b) /\ b[1] = x
  <2>1. <<x>> \in Seq(S)
    OBVIOUS
  <2>2. Len(<<x>>) = 1 /\ <<x>>[1] = x
    OBVIOUS
  <2> QED
    BY <2>1, <2>2, Zenon
<1>2. PICK c \in Seq(S) :
        c = Reverse(r) /\ m = Len(c) /\ \A i \in 1..m : c[i] = r[m - i + 1]
  BY ReverseFacts
<1>3. n + 1 \in Nat /\ 1 \in Nat /\ 1 \in 1..1
  OBVIOUS
<1>4. PICK d \in Seq(S), k \in Nat : d = a \o b /\ k = n + 1 /\ OneThenOther(d, a, b, n, 1)
  <2>1. a \o b \in Seq(S) /\ OneThenOther(a \o b, a, b, n, 1)
    BY <1>1, <1>3, Concatenated
  <2> QED
    BY <1>3, <2>1, Zenon
<1>5. k = Len(d) /\ (\A i \in 1..n : d[i] = a[i]) /\ d[k] = x
  BY <1>1, <1>3, <1>4 DEF OneThenOther
<1>6. /\ d \o c \in Seq(S) /\ Len(d \o c) = k + m
      /\ \A i \in 1..k : (d \o c)[i] = d[i]
      /\ \A j \in 1..m : (d \o c)[k + j] = c[j]
  <2>1. k = Len(d) /\ m = Len(c)
    BY <1>2, <1>5
  <2>2. d \o c \in Seq(S) /\ OneThenOther(d \o c, d, c, k, m)
    BY <2>1, Concatenated
  <2> QED
    BY <2>2 DEF OneThenOther
<1>7. PICK l \in Seq(S) : l = a \o <<x>> \o Reverse(r) /\ l = d \o c
  BY <1>1, <1>2, <1>4, <1>6
<1>8. l[n + 1] = x /\ \A i \in 1..n : l[i] = a[i]
  BY <1>3, <1>4, <1>5, <1>6, <1>7, PlacesOnLine
<1>9. ASSUME NEW i \in 1..m
      PROVE  l[n + m + 2 - i] = r[i]
  <2>1. m - i + 1 \in 1..m /\ (n + 1) + (m - i + 1) = n + m + 2 - i /\ m - (m - i + 1) + 1 = i
    BY PlacesOnLine
  <2>2. l[k + (m - i + 1)] = c[m - i + 1]
    BY <1>6, <1>7, <2>1
  <2>3. c[m - i + 1] = r[i]
    BY <1>2, <2>1
  <2> QED
    BY <1>3, <1>4, <2>1, <2>2, <2>3
<1> QED
  BY <1>3, <1>4, <1>5, <1>6, <1>7, <1>8, <1>9 DEF Around

\* Versions before, at and after where the user is.
OnLine(l, e, n, m) ==
  /\ Len(l) = n + 1 + m
  /\ \A i \in 1..n : l[i] = e.undo[i].profile
  /\ l[n + 1] = e.profile
  /\ \A i \in 1..m : l[n + m + 2 - i] = e.redo[i].profile

LEMMA LineFacts ==
  ASSUME NEW e, e.undo \in Seq(Step), e.redo \in Seq(Step), e.profile \in SoundProfile,
         NEW n \in Nat, NEW m \in Nat, n = Len(e.undo), m = Len(e.redo)
  PROVE  Line(e) \in Seq(SoundProfile) /\ OnLine(Line(e), e, n, m)
<1>1. PICK a \in Seq(SoundProfile) :
        a = Profiles(e.undo) /\ n = Len(a) /\ \A i \in 1..n : a[i] = e.undo[i].profile
  BY ProfilesFacts
<1>2. PICK x \in SoundProfile : x = e.profile
  OBVIOUS
<1>3. PICK r \in Seq(SoundProfile) :
        r = Profiles(e.redo) /\ m = Len(r) /\ \A i \in 1..m : r[i] = e.redo[i].profile
  BY ProfilesFacts
<1>4. PICK l : l = a \o <<x>> \o Reverse(r)
  OBVIOUS
<1>5. l = Line(e)
  BY <1>1, <1>2, <1>3, <1>4 DEF Line
<1>6. l \in Seq(SoundProfile) /\ Around(l, a, x, r, n, m)
  BY <1>1, <1>3, <1>4, AroundOne
<1>7. OnLine(l, e, n, m)
  BY <1>1, <1>2, <1>3, <1>6 DEF OnLine, Around
<1> QED
  BY <1>5, <1>6, <1>7

\* `f` is one version back from `e`.
Back(e, f, n, m) ==
  /\ \A i \in 1..n : f.undo[i] = e.undo[i]
  /\ f.profile = e.undo[n + 1].profile
  /\ \A i \in 1..m : f.redo[i] = e.redo[i]
  /\ f.redo[m + 1].profile = e.profile

LEMMA BackOnLine ==
  ASSUME NEW S, NEW l \in Seq(S), NEW g \in Seq(S), NEW e, NEW f, NEW n \in Nat, NEW m \in Nat,
         OnLine(l, e, n + 1, m), OnLine(g, f, n, m + 1), Back(e, f, n, m)
  PROVE  g = l
<1>1. Len(l) = n + m + 2 /\ Len(g) = n + m + 2
  BY DEF OnLine
<1>2. ASSUME NEW j \in 1..(n + m + 2) PROVE g[j] = l[j]
  <2>1. CASE j \in 1..n
    <3>1. j \in 1..(n + 1)
      BY <2>1
    <3> QED
      BY <2>1, <3>1 DEF OnLine, Back
  <2>2. CASE j = n + 1
    <3>1. n + 1 \in 1..(n + 1)
      OBVIOUS
    <3> QED
      BY <2>2, <3>1 DEF OnLine, Back
  <2>3. CASE j = n + 2
    <3>1. m + 1 \in 1..(m + 1) /\ n + (m + 1) + 2 - (m + 1) = n + 2 /\ (n + 1) + 1 = n + 2
      OBVIOUS
    <3> QED
      BY <2>3, <3>1 DEF OnLine, Back
  <2>4. CASE j > n + 2
    <3>1. PICK i \in 1..m : j = n + m + 3 - i
      <4>1. n + m + 3 - j \in 1..m /\ j = n + m + 3 - (n + m + 3 - j)
        BY <2>4
      <4> QED
        BY <4>1, Zenon
    <3>2. /\ i \in 1..(m + 1)
          /\ n + (m + 1) + 2 - i = n + m + 3 - i /\ (n + 1) + m + 2 - i = n + m + 3 - i
      OBVIOUS
    <3> QED
      BY <3>1, <3>2 DEF OnLine, Back
  <2> QED
    BY <2>1, <2>2, <2>3, <2>4
<1> QED
  BY <1>1, <1>2, SeqEqual

\* `t` is `s`, of length `n`, and then x.
OneMore(t, s, x, n) ==
  /\ Len(t) = n + 1
  /\ \A i \in 1..n : t[i] = s[i]
  /\ t[n + 1] = x

LEMMA LastOrBefore ==
  \A n \in Nat : \A i \in 1..(n + 1) : i \in 1..n \/ i = n + 1
OBVIOUS

LEMMA Appended ==
  ASSUME NEW S, NEW s \in Seq(S), NEW x \in S, NEW n \in Nat, n = Len(s)
  PROVE  Append(s, x) \in Seq(S) /\ OneMore(Append(s, x), s, x, n)
BY AppendProperties DEF OneMore

\* `g` is what `l` has from place d + 1 to k, and a version more.
NewestOn(g, l, d, k) ==
  /\ Len(g) = k - d + 1
  /\ \A i \in 1..(k - d) : g[i] = l[i + d]

LEMMA NewVersion ==
  ASSUME NEW S, NEW l \in Seq(S), NEW g \in Seq(S), NEW d \in Nat, NEW k \in Nat,
         d <= k, k <= Len(l), NewestOn(g, l, d, k)
  PROVE  g = Append(SubSeq(l, d + 1, k), g[k - d + 1])
<1>1. PICK c \in Nat : c = k - d
  BY d <= k
<1>2. Len(g) = c + 1 /\ \A i \in 1..c : g[i] = l[i + d]
  BY <1>1 DEF NewestOn
<1>3. g[c + 1] \in S
  BY <1>2
<1>4. PICK s \in Seq(S) :
        s = SubSeq(l, d + 1, k) /\ Len(s) = c /\ \A i \in 1..c : s[i] = l[i + d]
  <2>1. \A i \in (d + 1)..k : l[i] \in S
    BY k <= Len(l)
  <2>2. /\ SubSeq(l, d + 1, k) \in Seq(S)
        /\ Len(SubSeq(l, d + 1, k)) = IF d + 1 <= k THEN k - (d + 1) + 1 ELSE 0
        /\ \A i \in 1..(k - (d + 1) + 1) : SubSeq(l, d + 1, k)[i] = l[(d + 1) + i - 1]
    BY <2>1, SubSeqProperties
  <2>3. Len(SubSeq(l, d + 1, k)) = c
    BY <1>1, <2>2
  <2>4. ASSUME NEW i \in 1..c PROVE SubSeq(l, d + 1, k)[i] = l[i + d]
    <3>1. i \in 1..(k - (d + 1) + 1) /\ (d + 1) + i - 1 = i + d
      BY <1>1
    <3> QED
      BY <2>2, <3>1
  <2> QED
    BY <2>2, <2>3, <2>4
<1>5. PICK h \in Seq(S), x \in S : h = Append(s, x) /\ x = g[c + 1] /\ OneMore(h, s, x, c)
  <2>1. PICK x \in S : x = g[c + 1]
    BY <1>3
  <2>2. c = Len(s)
    BY <1>4
  <2>3. Append(s, x) \in Seq(S) /\ OneMore(Append(s, x), s, x, c)
    BY <2>2, Appended
  <2> QED
    BY <2>1, <2>3, Zenon
<1>6. \A i \in 1..(c + 1) : g[i] = h[i]
  BY <1>2, <1>4, <1>5 DEF OneMore
<1>7. g = h
  BY <1>2, <1>5, <1>6, SeqEqual DEF OneMore
<1> QED
  BY <1>1, <1>4, <1>5, <1>7

\* A version more than `l` has up to place n + 1, the oldest forgotten if need be.
OneVersionMore(l, g, n, q) ==
  \E d \in {0, 1} :
    q = n + 1 - d /\ (d = IF n < Limit THEN 0 ELSE 1) /\ NewestOn(g, l, d, n + 1)

\* An edit that adds a step drops what was undone, and the oldest version
\* where there are too many.
LEMMA AddedOnLine ==
  ASSUME NEW l, NEW g, NEW e, NEW f, NEW n \in Nat, NEW m \in Nat, NEW q \in Nat,
         NEW step \in Step, step.profile = e.profile, e.undo \in Seq(Step),
         n = Len(e.undo), n <= Limit, q = Len(f.undo), f.undo = Trimmed(Append(e.undo, step)),
         OnLine(l, e, n, m), OnLine(g, f, q, 0)
  PROVE  OneVersionMore(l, g, n, q)
<1>1. PICK u \in Seq(Step) : u = Append(e.undo, step) /\ OneMore(u, e.undo, step, n)
  <2>1. PICK s \in Seq(Step) : s = e.undo /\ n = Len(s)
    OBVIOUS
  <2>2. Append(s, step) \in Seq(Step) /\ OneMore(Append(s, step), s, step, n)
    BY <2>1, Appended
  <2> QED
    BY <2>1, <2>2, Zenon
<1>2. ASSUME NEW i \in 1..(n + 1) PROVE u[i].profile = l[i]
  <2>1. CASE i \in 1..n
    BY <1>1, <2>1 DEF OnLine, OneMore
  <2>2. CASE i = n + 1
    BY <1>1, <2>2 DEF OnLine, OneMore
  <2> QED
    BY <2>1, <2>2, LastOrBefore, Zenon
<1>3. Len(g) = q + 1 /\ \A i \in 1..q : g[i] = f.undo[i].profile
  BY DEF OnLine
<1>4. Limit \in Nat
  BY SizesAssumption
<1>5. CASE n < Limit
  <2>1. f.undo = u
    BY <1>1, <1>4, <1>5 DEF Trimmed, OneMore
  <2>2. q = n + 1
    BY <1>1, <2>1 DEF OneMore
  <2>3. NewestOn(g, l, 0, n + 1)
    BY <1>2, <1>3, <2>1, <2>2 DEF NewestOn
  <2>4. q = n + 1 - 0
    BY <2>2
  <2> QED
    BY <1>5, <2>3, <2>4, Zenon DEF OneVersionMore
<1>6. CASE ~(n < Limit)
  <2>1. f.undo = Tail(u)
    <3>1. Len(u) > Limit
      BY <1>1, <1>4, <1>6 DEF OneMore
    <3> QED
      BY <1>1, <3>1 DEF Trimmed
  <2>2. q = n /\ \A i \in 1..n : f.undo[i] = u[i + 1]
    <3>1. u # <<>> /\ Len(u) = n + 1
      BY <1>1 DEF OneMore
    <3> QED
      BY <2>1, <3>1, HeadTailProperties
  <2>3. NewestOn(g, l, 1, n + 1)
    <3>1. Len(g) = n + 1
      BY <1>3, <2>2
    <3>2. ASSUME NEW i \in 1..n PROVE g[i] = l[i + 1]
      <4>1. i + 1 \in 1..(n + 1)
        OBVIOUS
      <4> QED
        BY <1>2, <1>3, <2>2, <4>1
    <3>3. (n + 1) - 1 = n
      OBVIOUS
    <3> QED
      BY <3>1, <3>2, <3>3 DEF NewestOn
  <2>4. q = n + 1 - 1
    BY <2>2
  <2> QED
    BY <1>6, <2>3, <2>4, Zenon DEF OneVersionMore
<1> QED
  BY <1>5, <1>6

\* An edit that joins the last step drops what was undone.
LEMMA JoinedOnLine ==
  ASSUME NEW l, NEW g, NEW e, NEW f, NEW n \in Nat, NEW m \in Nat,
         f.undo = e.undo, OnLine(l, e, n, m), OnLine(g, f, n, 0)
  PROVE  NewestOn(g, l, 0, n)
BY DEF OnLine, NewestOn

\* The steps of EditHistory, of a line `l` to `g` and a place `a` to `b`.
Joins(l, a, g, b) == a > 1 /\ b = a /\ g = Append(SubSeq(l, 1, a - 1), g[b])
Adds(l, a, g, b) ==
  LET kept == IF a > Limit THEN Limit ELSE a
  IN b = kept + 1 /\ g = Append(SubSeq(l, a - kept + 1, a), g[b])
Moves(l, a, g, b) == b \in {a - 1, a + 1} /\ b \in DOMAIN l /\ g = l

LEMMA PartOfSum ==
  \A a, b, c \in Nat : a + b <= c => a <= c
OBVIOUS

LEMMA PlacesKept ==
  \A n \in Nat : /\ (n + 1) - (n + 1) + 1 = 0 + 1 /\ (n + 1) - 0 + 1 = (n + 1) + 1 /\ n + 1 - 0 = n + 1
                 /\ (n + 1) - n + 1 = 1 + 1 /\ (n + 1) - 1 + 1 = n + 1 /\ n + 1 - 1 = n
                 /\ \A limit \in Nat : /\ n < limit => ~(n + 1 > limit)
                                       /\ n <= limit /\ ~(n < limit) => n = limit /\ n + 1 > limit
OBVIOUS

LEMMA LineOf ==
  ASSUME NEW e, Settled(e)
  PROVE  \E l \in Seq(SoundProfile), n \in Nat, m \in Nat :
           /\ l = Line(e) /\ At(e) = n + 1 /\ n = Len(e.undo) /\ m = Len(e.redo) /\ n <= Limit
           /\ OnLine(l, e, n, m)
<1>1. /\ e.profile \in SoundProfile /\ e.undo \in Seq(Step) /\ e.redo \in Seq(Step)
      /\ Len(e.undo) + Len(e.redo) <= Limit
  BY SettledFacts DEF Settled, Editors
<1>2. PICK n \in Nat, m \in Nat : n = Len(e.undo) /\ m = Len(e.redo)
  BY <1>1
<1>3. Line(e) \in Seq(SoundProfile) /\ OnLine(Line(e), e, n, m)
  BY <1>1, <1>2, LineFacts
<1>4. n <= Limit /\ At(e) = n + 1
  <2>1. Limit \in Nat /\ n + m <= Limit
    BY <1>1, <1>2, SizesAssumption
  <2> QED
    BY <1>2, <2>1, PartOfSum, Zenon DEF At
<1> QED
  BY <1>2, <1>3, <1>4, Zenon

LEMMA EditOnLine ==
  ASSUME NEW e, NEW f, Settled(e), Settled(f), Joined(e, f) \/ Added(e, f)
  PROVE  Joins(Line(e), At(e), Line(f), At(f)) \/ Adds(Line(e), At(e), Line(f), At(f))
<1>1. PICK l \in Seq(SoundProfile), n \in Nat, m \in Nat :
        /\ l = Line(e) /\ At(e) = n + 1 /\ n = Len(e.undo) /\ m = Len(e.redo) /\ n <= Limit
        /\ OnLine(l, e, n, m)
  BY LineOf, Zenon
<1>2. PICK g \in Seq(SoundProfile), q \in Nat, o \in Nat :
        /\ g = Line(f) /\ At(f) = q + 1 /\ q = Len(f.undo) /\ o = Len(f.redo) /\ q <= Limit
        /\ OnLine(g, f, q, o)
  BY LineOf, Zenon
<1>3. o = 0
  BY <1>2 DEF Joined, Added
<1>4. OnLine(g, f, q, 0) /\ Len(l) = n + 1 + m
  BY <1>1, <1>2, <1>3 DEF OnLine
<1>5. CASE Joined(e, f)
  <2>1. f.undo = e.undo /\ q = n /\ n # 0
    <3>1. e.undo \in Seq(Step)
      BY SettledFacts
    <3> QED
      BY <1>1, <1>2, <1>5, <3>1, EmptySeq DEF Joined
  <2>2. NewestOn(g, l, 0, n)
    BY <1>1, <1>4, <2>1, JoinedOnLine
  <2>3. n <= Len(l) /\ 0 <= n
    BY <1>4
  <2>4. g = Append(SubSeq(l, 0 + 1, n), g[n - 0 + 1])
    BY <2>2, <2>3, NewVersion
  <2>5. n + 1 > 1 /\ (n + 1) - 1 = n /\ n - 0 + 1 = n + 1 /\ 0 + 1 = 1
    BY <2>1
  <2>6. Joins(l, n + 1, g, q + 1)
    BY <2>1, <2>4, <2>5 DEF Joins
  <2> QED
    BY <1>1, <1>2, <2>6
<1>6. CASE Added(e, f)
  <2>1. PICK step \in Step :
          step.profile = e.profile /\ f.undo = Trimmed(Append(e.undo, step))
    BY <1>6 DEF Added
  <2>2. e.undo \in Seq(Step)
    BY SettledFacts
  <2>3. PICK d \in {0, 1} :
          q = n + 1 - d /\ (d = IF n < Limit THEN 0 ELSE 1) /\ NewestOn(g, l, d, n + 1)
    <3>1. OneVersionMore(l, g, n, q)
      BY <1>1, <1>2, <1>4, <2>1, <2>2, AddedOnLine
    <3> QED
      BY <3>1, Zenon DEF OneVersionMore
  <2>4. PICK k \in Nat : k = n + 1
    OBVIOUS
  <2>5. d \in Nat /\ d <= k /\ k <= Len(l)
    BY <1>4, <2>3, <2>4
  <2>6. g = Append(SubSeq(l, d + 1, k), g[k - d + 1])
    BY <2>3, <2>4, <2>5, NewVersion
  <2>7. PICK kept \in Nat : kept = IF k > Limit THEN Limit ELSE k
    BY SizesAssumption
  <2>8. kept = q /\ k - kept + 1 = d + 1 /\ k - d + 1 = q + 1
    <3>1. Limit \in Nat /\ n <= Limit
      BY <1>1, SizesAssumption
    <3>2. CASE n < Limit
      <4>1. d = 0 /\ q = n + 1 - 0 /\ kept = k
        BY <2>3, <2>4, <2>7, <3>1, <3>2, PlacesKept, Zenon
      <4> QED
        BY <2>4, <4>1, SMT
    <3>3. CASE ~(n < Limit)
      <4>1. d = 1 /\ q = n + 1 - 1 /\ kept = n
        BY <2>3, <2>4, <2>7, <3>1, <3>3, PlacesKept, Zenon
      <4> QED
        BY <2>4, <4>1, SMT
    <3> QED
      BY <3>2, <3>3
  <2>9. Adds(l, k, g, q + 1)
    BY <2>6, <2>7, <2>8 DEF Adds
  <2> QED
    BY <1>1, <1>2, <2>4, <2>9
<1> QED
  BY <1>5, <1>6

\* One version back.
LEMMA MoveOnLine ==
  ASSUME NEW e, NEW f, Settled(e), Settled(f),
         e.undo # <<>>, f.undo = Front(e.undo), f.profile = Last(e.undo).profile,
         NEW step \in Step, step.profile = e.profile, f.redo = Append(e.redo, step)
  PROVE  /\ Line(f) = Line(e) /\ At(f) = At(e) - 1 /\ At(e) = At(f) + 1
         /\ At(e) \in DOMAIN Line(e) /\ At(f) \in DOMAIN Line(e)
<1>1. PICK l \in Seq(SoundProfile), k \in Nat, m \in Nat :
        /\ l = Line(e) /\ At(e) = k + 1 /\ k = Len(e.undo) /\ m = Len(e.redo) /\ k <= Limit
        /\ OnLine(l, e, k, m)
  BY LineOf, Zenon
<1>2. PICK g \in Seq(SoundProfile), n \in Nat, o \in Nat :
        /\ g = Line(f) /\ At(f) = n + 1 /\ n = Len(f.undo) /\ o = Len(f.redo) /\ n <= Limit
        /\ OnLine(g, f, n, o)
  BY LineOf, Zenon
<1>3. e.undo \in Seq(Step) /\ e.redo \in Seq(Step)
  BY SettledFacts
<1>4. k = n + 1 /\ Last(e.undo) = e.undo[k] /\ \A i \in 1..n : f.undo[i] = e.undo[i]
  <2>1. PICK s \in Seq(Step) : s = e.undo /\ s # <<>>
    BY <1>3
  <2>2. /\ Last(s) = s[Len(s)] /\ Len(Front(s)) = Len(s) - 1
        /\ \A i \in 1..(Len(s) - 1) : Front(s)[i] = s[i]
    BY <2>1, FrontLast
  <2>3. n = k - 1
    BY <1>1, <1>2, <2>1, <2>2
  <2> QED
    BY <1>1, <1>2, <2>1, <2>2, <2>3
<1>5. o = m + 1 /\ OneMore(f.redo, e.redo, step, m)
  <2>1. PICK s \in Seq(Step) : s = e.redo /\ m = Len(s)
    BY <1>1, <1>3
  <2>2. OneMore(Append(s, step), s, step, m)
    BY <2>1, Appended
  <2> QED
    BY <1>2, <2>1, <2>2 DEF OneMore
<1>6. Back(e, f, n, m)
  BY <1>4, <1>5 DEF Back, OneMore
<1>7. g = l
  BY <1>1, <1>2, <1>4, <1>5, <1>6, BackOnLine
<1>8. n + 1 \in DOMAIN l /\ k + 1 \in DOMAIN l
  <2>1. Len(l) = k + 1 + m /\ DOMAIN l = 1..Len(l)
    BY <1>1 DEF OnLine
  <2> QED
    BY <1>4, <2>1
<1>9. At(f) = At(e) - 1 /\ At(e) = At(f) + 1
  BY <1>1, <1>2, <1>4
<1> QED
  BY <1>1, <1>2, <1>7, <1>8, <1>9

LEMMA LastAppended ==
  ASSUME NEW S, NEW s \in Seq(S), NEW x \in S
  PROVE  Append(s, x) # <<>> /\ s = Front(Append(s, x)) /\ x = Last(Append(s, x))
<1>1. PICK n, t : n \in Nat /\ n = Len(s) /\ t = Append(s, x)
  <2>1. Len(s) \in Nat
    OBVIOUS
  <2> QED
    BY <2>1, Zenon
<1>2. t \in Seq(S) /\ OneMore(t, s, x, n) /\ t # <<>>
  BY <1>1, Appended, AppendProperties
<1>3. Len(t) = n + 1 /\ t[n + 1] = x /\ \A i \in 1..n : t[i] = s[i]
  BY <1>2 DEF OneMore
<1>4. PICK u \in Seq(S) : u = Front(t) /\ Len(u) = Len(t) - 1
                        /\ \A i \in 1..(Len(t) - 1) : u[i] = t[i]
  BY <1>2, FrontLast
<1>5. Len(u) = n /\ \A i \in 1..n : u[i] = s[i]
  <2>1. n \in Nat /\ Len(u) = (n + 1) - 1 /\ \A i \in 1..((n + 1) - 1) : u[i] = t[i]
    BY <1>1, <1>3, <1>4
  <2>2. (n + 1) - 1 = n
    BY <2>1
  <2> QED
    BY <1>3, <2>1, <2>2
<1>6. u = s
  BY <1>1, <1>5, SeqEqual
<1>7. Last(t) = x
  BY <1>2, <1>3, FrontLast
<1> QED
  BY <1>1, <1>2, <1>4, <1>6, <1>7

LEMMA FrontAndLast ==
  ASSUME NEW S, NEW t \in Seq(S), t # <<>>
  PROVE  Last(t) \in S /\ t = Append(Front(t), Last(t))
<1>1. PICK s \in Seq(S), x \in S : t = Append(s, x)
  BY SequenceEmptyOrAppend
<1>2. s = Front(t) /\ x = Last(t)
  <2>1. s = Front(Append(s, x)) /\ x = Last(Append(s, x))
    BY LastAppended
  <2> QED
    BY <1>1, <2>1
<1> QED
  BY <1>1, <1>2

LEMMA HistoryStarts ==
  Init => History!Start
<1> SUFFICES ASSUME Init PROVE History!Start
  OBVIOUS
<1>1. Settled(ed) /\ ed.undo = <<>> /\ ed.redo = <<>>
  <2>1. Settled(ed)
    BY InitHolds DEF EditorInv
  <2> QED
    BY <2>1 DEF Init
<1>2. PICK l \in Seq(SoundProfile), n \in Nat, m \in Nat :
        /\ l = Line(ed) /\ At(ed) = n + 1 /\ n = Len(ed.undo) /\ m = Len(ed.redo) /\ n <= Limit
        /\ OnLine(l, ed, n, m)
  BY <1>1, LineOf, Zenon
<1>3. n = 0 /\ m = 0
  BY <1>1, <1>2
<1>4. Len(l) = 1 /\ At(ed) = 1
  BY <1>2, <1>3 DEF OnLine
<1> QED
  BY <1>2, <1>4 DEF History!Start, Line, At

\* A step of the editor, on the line of versions.
LEMMA HistorySteps ==
  ASSUME EditorInv, [Next]_vars
  PROVE  \/ Line(ed') = Line(ed) /\ At(ed') = At(ed)
         \/ Joins(Line(ed), At(ed), Line(ed'), At(ed'))
         \/ Adds(Line(ed), At(ed), Line(ed'), At(ed'))
         \/ Moves(Line(ed), At(ed), Line(ed'), At(ed'))
<1>1. CASE Next
  <2>1. Settled(ed)
    BY DEF EditorInv
  <2>2. CASE Good(ed')
    <3>1. Settled(ed')
      BY <2>2 DEF Good
    <3>2. CASE Same(ed, ed')
      BY <3>2 DEF Same, Line, At
    <3>3. CASE Joined(ed, ed') \/ Added(ed, ed')
      BY <2>1, <3>1, <3>3, EditOnLine
    <3> QED
      BY <2>2, <3>2, <3>3 DEF Good, Follows
  <2>3. CASE Settled(ed') /\ Undoes(ed')
    <3>1. PICK step \in Step : step.profile = ed.profile /\ ed'.redo = Append(ed.redo, step)
      BY <2>3 DEF Undoes
    <3>2. /\ ed.undo # <<>> /\ ed'.undo = Front(ed.undo)
          /\ ed'.profile = Last(ed.undo).profile
      BY <2>3 DEF Undoes
    <3>3. Line(ed') = Line(ed) /\ At(ed') = At(ed) - 1 /\ At(ed') \in DOMAIN Line(ed)
      BY <2>1, <2>3, <3>1, <3>2, MoveOnLine
    <3> QED
      BY <3>3 DEF Moves
  <2>4. CASE Settled(ed') /\ Redoes(ed')
    <3>1. PICK step \in Step : step.profile = ed.profile /\ ed'.undo = Append(ed.undo, step)
      BY <2>4 DEF Redoes
    <3>2. /\ ed.redo # <<>> /\ ed'.redo = Front(ed.redo)
          /\ ed'.profile = Last(ed.redo).profile
      BY <2>4 DEF Redoes
    <3>3. /\ ed'.undo # <<>> /\ ed.undo = Front(ed'.undo)
          /\ ed.profile = Last(ed'.undo).profile
      <4>1. PICK s, t : s \in Seq(Step) /\ s = ed.undo /\ t = ed'.undo
        BY <2>1, SettledFacts
      <4>2. s \in Seq(Step) /\ t = Append(s, step)
        BY <3>1, <4>1
      <4>3. t # <<>> /\ s = Front(t) /\ step = Last(t)
        <5>1. /\ Append(s, step) # <<>> /\ s = Front(Append(s, step))
              /\ step = Last(Append(s, step))
          BY <4>2, LastAppended
        <5> QED
          BY <4>2, <5>1
      <4> QED
        BY <3>1, <4>1, <4>3
    <3>4. PICK done \in Step : done.profile = ed'.profile /\ ed.redo = Append(ed'.redo, done)
      BY <2>1, <3>2, SettledFacts, FrontAndLast
    <3>5. Line(ed) = Line(ed') /\ At(ed') = At(ed) + 1 /\ At(ed') \in DOMAIN Line(ed')
      BY <2>1, <2>4, <3>3, <3>4, MoveOnLine
    <3> QED
      BY <3>5 DEF Moves
  <2> QED
    BY <1>1, <2>2, <2>3, <2>4, EditorSteps
<1>2. CASE UNCHANGED vars
  BY <1>2 DEF vars, Line, At
<1> QED
  BY <1>1, <1>2

\* Undo and redo walk the profile along one line of versions: an edit that is
\* not merged adds one, drops what was undone and forgets the oldest of too
\* many, one that is merged takes the place of the last, and nothing else
\* changes the line (edit_with_library, undo, redo and restore).
THEOREM EditorImplementsEditHistory == ApartSpec => ImplementsEditHistory
<1>1. ApartInit => EditorInv /\ History!Start
  BY InitHolds, HistoryStarts DEF ApartInit
<1>2. ASSUME EditorInv, [InEditor \/ InInstance]_<<part, editor, instance>>
      PROVE  [Next]_vars
  BY <1>2 DEF InEditor, InInstance, editor
<1>3. ASSUME EditorInv, [Next]_vars
      PROVE  [History!Step]_(History!vars)
  <2>1. CASE Line(ed') = Line(ed) /\ At(ed') = At(ed)
    BY <2>1 DEF Line, At, History!vars
  <2>2. CASE Joins(Line(ed), At(ed), Line(ed'), At(ed'))
    BY <2>2 DEF Joins, Line, At, History!Step, History!Joins
  <2>3. CASE Adds(Line(ed), At(ed), Line(ed'), At(ed'))
    BY <2>3 DEF Adds, Line, At, History!Step, History!Adds, History!Kept
  <2>4. CASE Moves(Line(ed), At(ed), Line(ed'), At(ed'))
    BY <2>4 DEF Moves, Line, At, History!Step, History!Moves
  <2> QED
    BY <1>3, <2>1, <2>2, <2>3, <2>4, HistorySteps
<1>4. EditorInv /\ [InEditor \/ InInstance]_<<part, editor, instance>>
        => EditorInv' /\ [History!Step]_(History!vars)
  BY <1>2, <1>3, EditorKept
<1> QED
  BY <1>1, <1>4, PTL DEF ApartSpec, ImplementsEditHistory, History!Spec

-----------------------------------------------------------------------------
(* What the tasks of an instance have, and how each of their steps changes *)
(* the one task it is of.                                                  *)

Marks == {"notified", "lost", "cut"}
TaskRecord ==
  [step : I!TaskSteps, data : Seq(Int), pending : Seq(Int), size : 0..Room, marks : SUBSET Marks]
TasksTyped == tasks \in [I!Ids -> TaskRecord]

\* In T, task i has become this, and the others are as they were.
Becoming(T, i, to, data, pending, size, marks) ==
  /\ T \in [I!Ids -> TaskRecord]
  /\ \A j \in I!Ids \ {i} : T[j] = tasks[j]
  /\ T[i].step = to /\ T[i].data = data /\ T[i].pending = pending
  /\ T[i].size = size /\ T[i].marks = marks

\* Its step, size and marks change, not what it sends.
Steps(i, to, size, marks) == Becoming(tasks', i, to, tasks[i].data, tasks[i].pending, size, marks)

LEMMA IdsFacts ==
  /\ Sockets \subseteq I!Ids /\ Requests \subseteq I!Ids /\ I!Ids = Sockets \cup Requests
  /\ I!Ids \subseteq Nat /\ IsFiniteSet(I!Ids)
  /\ IsFiniteSet(Sockets) /\ IsFiniteSet(Requests)
  /\ \A s \in Sockets : s \notin Requests
  /\ Room \in Nat /\ Places \in Nat /\ MaxSockets \in Nat /\ MaxFetches \in Nat
  /\ 0 \in 0..Room /\ Sizes \subseteq 0..Room
<1>1. I!Ids = Sockets \cup Requests /\ I!Ids \subseteq Nat /\ IsFiniteSet(I!Ids)
  BY InstanceAssumption DEF I!Ids
<1>2. IsFiniteSet(Sockets) /\ IsFiniteSet(Requests)
  BY <1>1, FS_Subset
<1> QED
  BY <1>1, <1>2, InstanceAssumption

\* A task of which one field changes.
LEMMA OneField ==
  ASSUME NEW r \in TaskRecord, NEW x
  PROVE  /\ [r EXCEPT !.step = x]
              = [step |-> x, data |-> r.data, pending |-> r.pending,
                size |-> r.size, marks |-> r.marks]
         /\ [r EXCEPT !.marks = x]
              = [step |-> r.step, data |-> r.data, pending |-> r.pending,
                size |-> r.size, marks |-> x]
         /\ [r EXCEPT !.data = x]
              = [step |-> r.step, data |-> x, pending |-> r.pending,
                size |-> r.size, marks |-> r.marks]
         /\ [r EXCEPT !.pending = x]
              = [step |-> r.step, data |-> r.data, pending |-> x,
                size |-> r.size, marks |-> r.marks]
BY DEF TaskRecord

\* A task that ends: this is left to send, and that to write.
Ended(f, i, step, data, pending, marks) ==
  [f EXCEPT ![i].step = step, ![i].marks = marks, ![i].data = data, ![i].pending = pending]

LEMMA EndedFacts ==
  ASSUME NEW f \in [I!Ids -> TaskRecord], NEW i \in I!Ids, NEW step \in I!TaskSteps,
         NEW data \in Seq(Int), NEW pending \in Seq(Int), NEW marks \in SUBSET Marks,
         NEW g, g = Ended(f, i, step, data, pending, marks)
  PROVE  /\ g \in [I!Ids -> TaskRecord]
         /\ \A j \in I!Ids \ {i} : g[j] = f[j]
         /\ g[i].step = step /\ g[i].data = data /\ g[i].pending = pending
         /\ g[i].size = f[i].size /\ g[i].marks = marks
<1>1. PICK old \in TaskRecord : old = f[i]
  OBVIOUS
<1>2. PICK a \in TaskRecord :
        /\ a = [old EXCEPT !.step = step]
        /\ a = [step |-> step, data |-> old.data, pending |-> old.pending,
                size |-> old.size, marks |-> old.marks]
  <2>1. [step |-> step, data |-> old.data, pending |-> old.pending,
        size |-> old.size, marks |-> old.marks] \in TaskRecord
    BY DEF TaskRecord
  <2> QED
    BY <2>1, OneField
<1>3. PICK b \in TaskRecord :
        /\ b = [a EXCEPT !.marks = marks]
        /\ b = [step |-> a.step, data |-> a.data, pending |-> a.pending,
                size |-> a.size, marks |-> marks]
  <2>1. [step |-> a.step, data |-> a.data, pending |-> a.pending,
        size |-> a.size, marks |-> marks] \in TaskRecord
    BY DEF TaskRecord
  <2> QED
    BY <2>1, OneField
<1>4. PICK c \in TaskRecord :
        /\ c = [b EXCEPT !.data = data]
        /\ c = [step |-> b.step, data |-> data, pending |-> b.pending,
                size |-> b.size, marks |-> b.marks]
  <2>1. [step |-> b.step, data |-> data, pending |-> b.pending,
        size |-> b.size, marks |-> b.marks] \in TaskRecord
    BY DEF TaskRecord
  <2> QED
    BY <2>1, OneField
<1>5. PICK new \in TaskRecord :
        /\ new = [c EXCEPT !.pending = pending]
        /\ new = [step |-> c.step, data |-> c.data, pending |-> pending,
                size |-> c.size, marks |-> c.marks]
  <2>1. [step |-> c.step, data |-> c.data, pending |-> pending,
        size |-> c.size, marks |-> c.marks] \in TaskRecord
    BY DEF TaskRecord
  <2> QED
    BY <2>1, OneField
<1>6. new = [old EXCEPT !.step = step, !.marks = marks, !.data = data, !.pending = pending]
  BY <1>2, <1>3, <1>4, <1>5, Zenon
<1>7. g = [f EXCEPT ![i] = [f[i] EXCEPT !.step = step, !.marks = marks, !.data = data,
                                        !.pending = pending]]
  BY Zenon DEF Ended
<1>8. g = [f EXCEPT ![i] = new]
  BY <1>1, <1>6, <1>7
<1>9. /\ new.step = step /\ new.data = data /\ new.pending = pending
      /\ new.size = old.size /\ new.marks = marks
  BY <1>2, <1>3, <1>4, <1>5
<1> QED
  BY <1>1, <1>8, <1>9

LEMMA CheckTask ==
  ASSUME TasksTyped, NEW i \in I!Ids, I!Check(i)
  PROVE  \/ /\ Steps(i, "post", tasks[i].size, tasks[i].marks)
            /\ used + tasks[i].size <= Room /\ used' = used + tasks[i].size
         \/ /\ Steps(i, "asleep", tasks[i].size, tasks[i].marks)
            /\ ~(used + tasks[i].size <= Room) /\ used' = used
<1>1. CASE used + tasks[i].size <= Room
  <2>1. tasks' = [tasks EXCEPT ![i].step = "post"] /\ used' = used + tasks[i].size
    BY <1>1, Zenon DEF I!Check
  <2>2. Steps(i, "post", tasks[i].size, tasks[i].marks)
    BY <2>1 DEF TasksTyped, Steps, Becoming, TaskRecord, I!TaskSteps
  <2> QED
    BY <1>1, <2>1, <2>2
<1>2. CASE ~(used + tasks[i].size <= Room)
  <2>1. tasks' = [tasks EXCEPT ![i].step = "asleep"] /\ used' = used
    BY <1>2, Zenon DEF I!Check
  <2>2. Steps(i, "asleep", tasks[i].size, tasks[i].marks)
    BY <2>1 DEF TasksTyped, Steps, Becoming, TaskRecord, I!TaskSteps
  <2> QED
    BY <1>2, <2>1, <2>2
<1> QED
  BY <1>1, <1>2

LEMMA FreedTask ==
  ASSUME TasksTyped, NEW i \in I!Ids, I!Freed(i)
  PROVE  Steps(i, "check", tasks[i].size, tasks[i].marks \ {"notified"})
<1>1. tasks' = [tasks EXCEPT ![i].step = "check", ![i].marks = tasks[i].marks \ {"notified"}]
  BY DEF TasksTyped, I!Freed
<1> QED
  BY <1>1 DEF TasksTyped, Steps, Becoming, TaskRecord, I!TaskSteps

LEMMA ConnectedTask ==
  ASSUME TasksTyped, NEW s \in Sockets, I!Connected(s)
  PROVE  Steps(s, "relay", tasks[s].size, tasks[s].marks)
<1>1. s \in I!Ids
  BY IdsFacts
<1>2. tasks' = [tasks EXCEPT ![s].step = "relay"]
  BY Zenon DEF I!Connected
<1> QED
  BY <1>1, <1>2 DEF TasksTyped, Steps, Becoming, TaskRecord, I!TaskSteps

LEMMA EndsTask ==
  ASSUME TasksTyped, NEW s \in Sockets, I!Ends(s)
  PROVE  Becoming(tasks', s, "closing", <<>>, <<>>, tasks[s].size, {"cut"})
<1>1. s \in I!Ids /\ <<>> \in Seq(Int) /\ {"cut"} \in SUBSET Marks
  BY IdsFacts DEF Marks
<1>2. tasks' = Ended(tasks, s, "closing", <<>>, <<>>, {"cut"}) /\ "closing" \in I!TaskSteps
  BY DEF I!Ends, I!TaskSteps, Ended
<1>3. PICK none \in Seq(Int), marks \in SUBSET Marks, step \in I!TaskSteps :
        none = <<>> /\ marks = {"cut"} /\ step = "closing"
  BY <1>1, <1>2
<1>4. tasks' = Ended(tasks, s, step, none, none, marks)
  BY <1>2, <1>3
<1>5. Becoming(tasks', s, step, none, none, tasks[s].size, marks)
  BY <1>1, <1>4, EndedFacts DEF TasksTyped, Becoming
<1> QED
  BY <1>3, <1>5

LEMMA ReceivesTask ==
  ASSUME TasksTyped, NEW s \in Sockets, NEW n \in Sizes, I!Receives(s, n)
  PROVE  Steps(s, "check", n, tasks[s].marks)
<1>1. s \in I!Ids /\ n \in 0..Room
  BY IdsFacts
<1>2. tasks' = [tasks EXCEPT ![s].step = "check", ![s].size = n]
  BY Zenon DEF I!Receives
<1> QED
  BY <1>1, <1>2 DEF TasksTyped, Steps, Becoming, TaskRecord, I!TaskSteps

LEMMA FinishTask ==
  ASSUME TasksTyped, NEW s \in Sockets, I!Finish(s)
  PROVE  Steps(s, "drain", 0, {})
<1>1. s \in I!Ids /\ 0 \in 0..Room
  BY IdsFacts DEF Marks
<1>2. tasks' = [tasks EXCEPT ![s].step = "drain", ![s].size = 0, ![s].marks = {}]
  BY Zenon DEF I!Finish
<1> QED
  BY <1>1, <1>2 DEF TasksTyped, Steps, Becoming, TaskRecord, I!TaskSteps

LEMMA GivesUpTask ==
  ASSUME TasksTyped, NEW s \in Sockets, I!GivesUp(s)
  PROVE  Becoming(tasks', s, "done", <<>>, tasks[s].pending, tasks[s].size, {"cut"})
<1>1. s \in I!Ids /\ <<>> \in Seq(Int) /\ {"cut"} \in SUBSET Marks
  BY IdsFacts DEF Marks
<1>2. tasks' = [tasks EXCEPT ![s].step = "done", ![s].data = <<>>, ![s].marks = {"cut"}]
  BY Zenon DEF I!GivesUp
<1> QED
  BY <1>1, <1>2 DEF TasksTyped, Becoming, TaskRecord, I!TaskSteps

LEMMA DrainTask ==
  ASSUME TasksTyped, NEW s \in Sockets, I!Drain(s)
  PROVE  Steps(s, "done", tasks[s].size, tasks[s].marks)
<1>1. s \in I!Ids
  BY IdsFacts
<1>2. tasks' = [tasks EXCEPT ![s].step = "done"]
  BY Zenon DEF I!Drain
<1> QED
  BY <1>1, <1>2 DEF TasksTyped, Steps, Becoming, TaskRecord, I!TaskSteps

LEMMA DrainFailsTask ==
  ASSUME TasksTyped, NEW s \in Sockets, I!DrainFails(s)
  PROVE  Becoming(tasks', s, "done", <<>>, <<>>, tasks[s].size, {"cut"})
<1>1. s \in I!Ids /\ <<>> \in Seq(Int) /\ {"cut"} \in SUBSET Marks
  BY IdsFacts DEF Marks
<1>2. tasks' = Ended(tasks, s, "done", <<>>, <<>>, {"cut"}) /\ "done" \in I!TaskSteps
  BY DEF I!DrainFails, I!TaskSteps, Ended
<1>3. PICK none \in Seq(Int), marks \in SUBSET Marks, step \in I!TaskSteps :
        none = <<>> /\ marks = {"cut"} /\ step = "done"
  BY <1>1, <1>2
<1>4. tasks' = Ended(tasks, s, step, none, none, marks)
  BY <1>2, <1>3
<1>5. Becoming(tasks', s, step, none, none, tasks[s].size, marks)
  BY <1>1, <1>4, EndedFacts DEF TasksTyped, Becoming
<1> QED
  BY <1>3, <1>5

LEMMA AnsweredTask ==
  ASSUME TasksTyped, NEW r \in Requests, NEW n \in Sizes \cup {0}, I!Answered(r, n)
  PROVE  Steps(r, "check", n, tasks[r].marks)
<1>1. r \in I!Ids /\ n \in 0..Room
  BY IdsFacts DEF Marks
<1>2. tasks' = [tasks EXCEPT ![r].step = "check", ![r].size = n]
  BY Zenon DEF I!Answered
<1> QED
  BY <1>1, <1>2 DEF TasksTyped, Steps, Becoming, TaskRecord, I!TaskSteps

LEMMA ClosingTask ==
  ASSUME TasksTyped, NEW s \in Sockets, I!Closing(s)
  PROVE  Steps(s, "done", tasks[s].size, IF I!Full THEN tasks[s].marks \cup {"lost"} ELSE tasks[s].marks)
<1>1. PICK new : new = IF I!Full THEN tasks[s].marks \cup {"lost"} ELSE tasks[s].marks
  OBVIOUS
<1>2. tasks' = [tasks EXCEPT ![s].step = "done", ![s].marks = new]
  BY <1>1 DEF I!Closing
<1>3. s \in I!Ids /\ new \in SUBSET Marks
  BY <1>1, IdsFacts DEF TasksTyped, TaskRecord, Marks
<1>4. Steps(s, "done", tasks[s].size, new)
  BY <1>2, <1>3 DEF TasksTyped, Steps, Becoming, TaskRecord, I!TaskSteps
<1> QED
  BY <1>1, <1>4

LEMMA SendsTask ==
  ASSUME TasksTyped, NEW s \in Sockets, I!Sends(s)
  PROVE  \E p \in Int, to \in {"write", "drain"} :
           /\ p = Head(tasks[s].data)
           /\ to = IF tasks[s].step = "relay" THEN "write" ELSE "drain"
           /\ Becoming(tasks', s, to, Tail(tasks[s].data), <<2 * p - 1, 2 * p>>,
                       tasks[s].size, tasks[s].marks)
<1>1. PICK old \in Seq(Int) : old = tasks[s].data /\ old # <<>> /\ s \in I!Ids
  BY IdsFacts DEF TasksTyped, TaskRecord, I!Sends
<1>2. PICK p \in Int, rest \in Seq(Int) : p = Head(old) /\ rest = Tail(old)
  <2>1. Head(old) \in Int /\ Tail(old) \in Seq(Int)
    BY <1>1, HeadTailProperties
  <2> QED
    BY <2>1, Zenon
<1>3. PICK to \in {"write", "drain"}, new \in Seq(Int) :
        /\ to = IF tasks[s].step = "relay" THEN "write" ELSE "drain"
        /\ new = <<2 * p - 1, 2 * p>>
  <2>1. <<2 * p - 1, 2 * p>> \in Seq(Int)
    OBVIOUS
  <2>2. (IF tasks[s].step = "relay" THEN "write" ELSE "drain") \in {"write", "drain"}
    OBVIOUS
  <2> QED
    BY <2>1, <2>2, Zenon
<1>4. tasks' = [tasks EXCEPT ![s].step = to, ![s].data = rest, ![s].pending = new]
  <2>1. tasks[s].step \in {"relay", "drain"} /\ s \in DOMAIN tasks
    BY <1>1 DEF I!Sends, TasksTyped
  <2>2. (IF tasks[s].step = "relay" THEN "write" ELSE tasks[s].step) = to
    BY <1>3, <2>1
  <2> QED
    BY <1>1, <1>2, <1>3, <2>2 DEF I!Sends, TasksTyped, TaskRecord
<1>5. Becoming(tasks', s, to, rest, new, tasks[s].size, tasks[s].marks)
  BY <1>1, <1>4 DEF TasksTyped, Becoming, TaskRecord, I!TaskSteps
<1> QED
  BY <1>1, <1>2, <1>3, <1>5

LEMMA WritesTask ==
  ASSUME TasksTyped, wire \in [Sockets -> Seq(Int)], NEW s \in Sockets, I!Writes(s)
  PROVE  \E p \in Int, rest \in Seq(Int), to \in {"relay", "write", "drain"} :
           /\ tasks[s].pending # <<>> /\ p = Head(tasks[s].pending) /\ rest = Tail(tasks[s].pending)
           /\ to = IF tasks[s].step = "write" /\ rest = <<>> THEN "relay" ELSE tasks[s].step
           /\ Becoming(tasks', s, to, tasks[s].data, rest, tasks[s].size, tasks[s].marks)
           /\ wire' = [wire EXCEPT ![s] = Append(wire[s], p)]
<1>1. PICK old \in Seq(Int) : old = tasks[s].pending /\ old # <<>> /\ s \in I!Ids
  BY IdsFacts DEF TasksTyped, TaskRecord, I!Writes
<1>2. PICK p \in Int, rest \in Seq(Int) : p = Head(old) /\ rest = Tail(old)
  <2>1. Head(old) \in Int /\ Tail(old) \in Seq(Int)
    BY <1>1, HeadTailProperties
  <2> QED
    BY <2>1, Zenon
<1>3. tasks[s].step \in {"write", "drain"} /\ s \in DOMAIN tasks
  BY <1>1 DEF I!Writes, TasksTyped
<1>4. PICK to \in {"relay", "write", "drain"} :
        to = IF tasks[s].step = "write" /\ rest = <<>> THEN "relay" ELSE tasks[s].step
  BY <1>3
<1>5. /\ tasks' = [tasks EXCEPT ![s].pending = rest, ![s].step = to]
      /\ wire' = [wire EXCEPT ![s] = Append(wire[s], p)]
  BY <1>1, <1>2, <1>4 DEF I!Writes, TasksTyped, TaskRecord
<1>6. Becoming(tasks', s, to, tasks[s].data, rest, tasks[s].size, tasks[s].marks)
  BY <1>1, <1>5 DEF TasksTyped, Becoming, TaskRecord, I!TaskSteps
<1> QED
  BY <1>1, <1>2, <1>4, <1>5, <1>6

LEMMA SendTask ==
  ASSUME TasksTyped, sent \in [Sockets -> Nat], NEW s \in Sockets, I!Send(s)
  PROVE  \E n \in Nat :
           /\ n = sent[s] + 1 /\ sent' = [sent EXCEPT ![s] = n]
           /\ Becoming(tasks', s, tasks[s].step, Append(tasks[s].data, n), tasks[s].pending,
                       tasks[s].size, tasks[s].marks)
<1>1. PICK n \in Nat : n = sent[s] + 1
  OBVIOUS
<1>2. sent' = [sent EXCEPT ![s] = n] /\ sent'[s] = n
  BY <1>1 DEF I!Send
<1>3. PICK old \in Seq(Int), new \in Seq(Int) : old = tasks[s].data /\ new = Append(old, n)
  <2>1. PICK old \in Seq(Int) : old = tasks[s].data
    BY IdsFacts DEF TasksTyped, TaskRecord
  <2>2. n \in Int
    OBVIOUS
  <2>3. Append(old, n) \in Seq(Int)
    BY <2>2, AppendProperties
  <2> QED
    BY <2>1, <2>3
<1>4. tasks' = [tasks EXCEPT ![s].data = new]
  <2>1. tasks' = [tasks EXCEPT ![s].data = Append(tasks[s].data, sent'[s])]
    BY Zenon DEF I!Send
  <2> QED
    BY <1>2, <1>3, <2>1, Zenon
<1>5. Becoming(tasks', s, tasks[s].step, new, tasks[s].pending, tasks[s].size, tasks[s].marks)
  BY <1>3, <1>4, IdsFacts DEF TasksTyped, Becoming, TaskRecord, I!TaskSteps
<1> QED
  BY <1>1, <1>2, <1>3, <1>5

\* The tasks T, those that sleep notified.
Notified(T) ==
  /\ tasks' \in [I!Ids -> TaskRecord]
  /\ \A i \in I!Ids :
       /\ tasks'[i].step = T[i].step /\ tasks'[i].size = T[i].size
       /\ tasks'[i].data = T[i].data /\ tasks'[i].pending = T[i].pending
       /\ T[i].step = "asleep" => tasks'[i].marks = T[i].marks \cup {"notified"}
       /\ T[i].step # "asleep" => tasks'[i].marks = T[i].marks

LEMMA ReleasesTasks ==
  ASSUME NEW T \in [I!Ids -> TaskRecord], NEW n, I!Releases(n, T)
  PROVE  Notified(T) /\ used' = used - n
<1>1. \A i \in I!Ids :
        tasks'[i] = IF T[i].step = "asleep" THEN [T[i] EXCEPT !.marks = T[i].marks \cup {"notified"}]
                    ELSE T[i]
  BY DEF I!Releases, TaskRecord
<1>2. ASSUME NEW i \in I!Ids
      PROVE  /\ tasks'[i] \in TaskRecord
             /\ tasks'[i].step = T[i].step /\ tasks'[i].size = T[i].size
             /\ tasks'[i].data = T[i].data /\ tasks'[i].pending = T[i].pending
             /\ T[i].step = "asleep" => tasks'[i].marks = T[i].marks \cup {"notified"}
             /\ T[i].step # "asleep" => tasks'[i].marks = T[i].marks
  <2>1. T[i] \in TaskRecord
    OBVIOUS
  <2>2. CASE T[i].step = "asleep"
    <3>1. PICK new \in SUBSET Marks : new = T[i].marks \cup {"notified"}
      BY <2>1 DEF TaskRecord, Marks
    <3>2. tasks'[i] = [T[i] EXCEPT !.marks = new]
      BY <1>1, <2>2, <3>1
    <3> QED
      BY <2>1, <2>2, <3>1, <3>2 DEF TaskRecord
  <2>3. CASE T[i].step # "asleep"
    BY <1>1, <2>1, <2>3
  <2> QED
    BY <2>2, <2>3
<1>3. tasks' = [i \in I!Ids |-> tasks'[i]] /\ used' = used - n
  BY <1>1 DEF I!Releases
<1>4. tasks' \in [I!Ids -> TaskRecord]
  BY <1>2, <1>3
<1> QED
  BY <1>2, <1>3, <1>4 DEF Notified

LEMMA PostTask ==
  ASSUME TasksTyped, NEW i \in I!Ids, I!Post(i)
  PROVE  \E T \in [I!Ids -> TaskRecord] :
           /\ Becoming(T, i, IF i \in Sockets THEN "relay" ELSE "done", tasks[i].data,
                       tasks[i].pending, 0, tasks[i].marks)
           /\ I!Full => Notified(T) /\ used' = used - tasks[i].size
           /\ ~I!Full => tasks' = T /\ used' = used
<1>1. PICK to \in {"relay", "done"} : to = IF i \in Sockets THEN "relay" ELSE "done"
  OBVIOUS
<1>2. PICK T : T = [tasks EXCEPT ![i].step = to, ![i].size = 0]
  OBVIOUS
<1>3. Becoming(T, i, to, tasks[i].data, tasks[i].pending, 0, tasks[i].marks)
  BY <1>2, IdsFacts DEF TasksTyped, Becoming, TaskRecord, I!TaskSteps
<1>4. T \in [I!Ids -> TaskRecord]
  BY <1>3 DEF Becoming
<1>5. IF I!Full THEN I!Releases(tasks[i].size, T) ELSE used' = used /\ tasks' = T
  BY <1>1, <1>2, Zenon DEF I!Post
<1>6. I!Full => Notified(T) /\ used' = used - tasks[i].size
  BY <1>4, <1>5, ReleasesTasks
<1> QED
  BY <1>1, <1>3, <1>4, <1>5, <1>6

\* An instance has operators of its own on sets, which are the same.
LEMMA SameSize ==
  \A S : I!Cardinality(S) = Cardinality(S)
BY DEF I!Cardinality, Cardinality

LEMMA FreshId ==
  ASSUME NEW S \in SUBSET I!Ids, S # {}
  PROVE  I!Min(S) \in S
<1>1. S \in SUBSET Nat
  BY IdsFacts
<1> QED
  BY <1>1, LeastExists DEF I!Min

LEMMA OpenSocketTask ==
  ASSUME TasksTyped, I!OpenSocket
  PROVE  \E kept \in {sockets, I!Pruned} :
           \/ tasks' = tasks /\ sockets' = kept
           \/ \E s \in Sockets :
                /\ tasks[s].step = "unused" /\ Steps(s, "opening", tasks[s].size, tasks[s].marks)
                /\ sockets' = I!With(kept, s, "open") /\ ~(Cardinality(DOMAIN kept) >= MaxSockets)
<1>1. PICK kept \in {sockets, I!Pruned}, fresh \in SUBSET Sockets :
        /\ kept = (IF I!Cardinality(DOMAIN sockets) >= MaxSockets THEN I!Pruned ELSE sockets)
        /\ fresh = {s \in Sockets : tasks[s].step = "unused"}
  <2>1. (IF I!Cardinality(DOMAIN sockets) >= MaxSockets THEN I!Pruned ELSE sockets)
          \in {sockets, I!Pruned}
    OBVIOUS
  <2>2. {s \in Sockets : tasks[s].step = "unused"} \in SUBSET Sockets
    OBVIOUS
  <2> QED
    BY <2>1, <2>2, Zenon
<1>2. /\ fresh # {}
      /\ IF I!Cardinality(DOMAIN kept) >= MaxSockets
         THEN sockets' = kept /\ tasks' = tasks
         ELSE /\ sockets' = I!With(kept, I!Min(fresh), "open")
              /\ tasks' = [tasks EXCEPT ![I!Min(fresh)].step = "opening"]
  BY <1>1, Zenon DEF I!OpenSocket
<1>3. CASE I!Cardinality(DOMAIN kept) >= MaxSockets
  BY <1>2, <1>3
<1>4. CASE ~(I!Cardinality(DOMAIN kept) >= MaxSockets)
  <2>1. PICK s \in fresh : s = I!Min(fresh)
    BY <1>2, FreshId, IdsFacts
  <2>2. s \in Sockets /\ s \in I!Ids /\ tasks[s].step = "unused"
    BY <1>1, <2>1, IdsFacts
  <2>3. tasks' = [tasks EXCEPT ![s].step = "opening"] /\ sockets' = I!With(kept, s, "open")
    BY <1>2, <1>4, <2>1
  <2>4. Steps(s, "opening", tasks[s].size, tasks[s].marks)
    BY <2>2, <2>3 DEF TasksTyped, Steps, Becoming, TaskRecord, I!TaskSteps
  <2> QED
    BY <1>4, <2>2, <2>3, <2>4, SameSize
<1> QED
  BY <1>3, <1>4

LEMMA FetchTask ==
  ASSUME TasksTyped, I!Fetch
  PROVE  \E kept \in SUBSET fetches :
           \/ tasks' = tasks /\ fetches' = kept
           \/ \E r \in Requests :
                /\ tasks[r].step = "unused" /\ Steps(r, "opening", tasks[r].size, tasks[r].marks)
                /\ fetches' = kept \cup {r} /\ ~(Cardinality(kept) >= MaxFetches)
<1>1. PICK kept \in SUBSET fetches, fresh \in SUBSET Requests :
        /\ kept = (IF I!Cardinality(fetches) >= MaxFetches
                   THEN {r \in fetches : tasks[r].step # "done"} ELSE fetches)
        /\ fresh = {r \in Requests : tasks[r].step = "unused"}
  <2>1. (IF I!Cardinality(fetches) >= MaxFetches
         THEN {r \in fetches : tasks[r].step # "done"} ELSE fetches) \in SUBSET fetches
    OBVIOUS
  <2>2. {r \in Requests : tasks[r].step = "unused"} \in SUBSET Requests
    OBVIOUS
  <2> QED
    BY <2>1, <2>2, Zenon
<1>2. /\ fresh # {}
      /\ IF I!Cardinality(kept) >= MaxFetches
         THEN fetches' = kept /\ tasks' = tasks
         ELSE /\ fetches' = kept \cup {I!Min(fresh)}
              /\ tasks' = [tasks EXCEPT ![I!Min(fresh)].step = "opening"]
  BY <1>1, Zenon DEF I!Fetch
<1>3. CASE I!Cardinality(kept) >= MaxFetches
  BY <1>2, <1>3
<1>4. CASE ~(I!Cardinality(kept) >= MaxFetches)
  <2>1. PICK r \in fresh : r = I!Min(fresh)
    BY <1>2, FreshId, IdsFacts
  <2>2. r \in Requests /\ r \in I!Ids /\ tasks[r].step = "unused"
    BY <1>1, <2>1, IdsFacts
  <2>3. tasks' = [tasks EXCEPT ![r].step = "opening"] /\ fetches' = kept \cup {r}
    BY <1>2, <1>4, <2>1
  <2>4. Steps(r, "opening", tasks[r].size, tasks[r].marks)
    BY <2>2, <2>3 DEF TasksTyped, Steps, Becoming, TaskRecord, I!TaskSteps
  <2> QED
    BY <1>4, <2>2, <2>3, <2>4, SameSize
<1> QED
  BY <1>3, <1>4

LEMMA UnusedTyped ==
  ASSUME NEW T, T = [i \in I!Ids |-> I!Unused]
  PROVE  /\ T \in [I!Ids -> TaskRecord]
         /\ \A i \in I!Ids : /\ T[i].step = "unused" /\ T[i].size = 0 /\ T[i].marks = {}
                             /\ T[i].data = <<>> /\ T[i].pending = <<>>
<1>1. <<>> \in Seq(Int) /\ {} \in SUBSET Marks /\ 0 \in 0..Room /\ "unused" \in I!TaskSteps
  BY IdsFacts DEF I!TaskSteps
<1>2. /\ I!Unused \in TaskRecord
      /\ I!Unused.step = "unused" /\ I!Unused.size = 0 /\ I!Unused.marks = {}
      /\ I!Unused.data = <<>> /\ I!Unused.pending = <<>>
  BY <1>1 DEF I!Unused, TaskRecord
<1> QED
  BY <1>2

-----------------------------------------------------------------------------
(* What the queue has, and what posting and taking do to it.               *)

Events ==
  {e \in [kind : {"action", "stop", "message", "http", "open", "closed", "timer"},
          id : Actions \cup I!Ids \cup Timers \cup {0}, n : 0..Room] :
     /\ e.kind = "action" => e.id \in Actions
     /\ e.kind = "closed" => e.id \in Sockets
     /\ e.kind \notin {"message", "http"} => e.n = 0}
QueueTyped == queue \in Seq(Events)

\* What is in the queue stays where it is, and e comes after it if it has a place.
Posted(e) ==
  /\ queue' \in Seq(Events)
  /\ \A k \in 1..Len(queue) : k \in 1..Len(queue') /\ queue'[k] = queue[k]
  /\ I!Full => queue' = queue
  /\ ~I!Full => Len(queue') = Len(queue) + 1 /\ queue'[Len(queue) + 1] = e

LEMMA PostsEvent ==
  ASSUME QueueTyped, NEW e \in Events, I!Posts(e)
  PROVE  Posted(e)
<1>1. PICK q \in Seq(Events) : q = queue
  BY DEF QueueTyped
<1>2. CASE I!Full
  BY <1>1, <1>2 DEF I!Posts, Posted
<1>3. CASE ~I!Full
  <2>1. queue' = Append(q, e)
    BY <1>1, <1>3 DEF I!Posts
  <2>2. /\ Append(q, e) \in Seq(Events) /\ Len(Append(q, e)) = Len(q) + 1
        /\ \A k \in 1..Len(q) : Append(q, e)[k] = q[k]
        /\ Append(q, e)[Len(q) + 1] = e
    BY AppendProperties
  <2>3. \A k \in 1..Len(q) : k \in 1..(Len(q) + 1)
    OBVIOUS
  <2> QED
    BY <1>1, <1>3, <2>1, <2>2, <2>3 DEF Posted
<1> QED
  BY <1>2, <1>3

\* The first event is gone, the others move up.
TakenOut(e) ==
  /\ e \in Events /\ 1 \in 1..Len(queue) /\ e = queue[1]
  /\ queue' \in Seq(Events) /\ Len(queue') = Len(queue) - 1
  /\ \A k \in 1..Len(queue') : queue'[k] = queue[k + 1]
  /\ \A k \in 1..Len(queue) : k # 1 => k - 1 \in 1..Len(queue') /\ queue'[k - 1] = queue[k]

LEMMA TakesEvent ==
  ASSUME QueueTyped, NEW kind, I!Takes(kind)
  PROVE  TakenOut(Head(queue)) /\ Head(queue).kind = kind /\ thread = "wait"
<1>1. PICK q \in Seq(Events) : q = queue /\ q # <<>>
  BY DEF QueueTyped, I!Takes
<1>2. queue' = Tail(q) /\ Head(queue).kind = kind /\ thread = "wait"
  BY <1>1 DEF I!Takes
<1>3. /\ Head(q) \in Events /\ Tail(q) \in Seq(Events) /\ Head(q) = q[1]
      /\ Len(Tail(q)) = Len(q) - 1 /\ \A k \in 1..Len(Tail(q)) : Tail(q)[k] = q[k + 1]
      /\ Len(q) \in Nat /\ Len(q) # 0
  BY <1>1, HeadTailProperties, EmptySeq, LenProperties
<1>4. ASSUME NEW k \in 1..Len(q), k # 1
      PROVE  k - 1 \in 1..Len(Tail(q)) /\ Tail(q)[k - 1] = q[k]
  <2>1. k - 1 \in 1..Len(Tail(q)) /\ (k - 1) + 1 = k
    BY <1>3, <1>4
  <2> QED
    BY <1>3, <2>1
<1> QED
  BY <1>1, <1>2, <1>3, <1>4 DEF TakenOut

LEMMA EventsTyped ==
  ASSUME TasksTyped
  PROVE  /\ \A a \in Actions : I!Event("action", a, 0) \in Events
         /\ I!Event("stop", 0, 0) \in Events
         /\ \A t \in Timers : I!Event("timer", t, 0) \in Events
         /\ \A s \in Sockets : I!Event("open", s, 0) \in Events /\ I!Event("closed", s, 0) \in Events
         /\ \A i \in I!Ids : /\ I!Event("message", i, tasks[i].size) \in Events
                             /\ I!Event("http", i, tasks[i].size) \in Events
<1>1. \A i \in I!Ids : tasks[i].size \in 0..Room
  BY DEF TasksTyped, TaskRecord
<1> QED
  BY <1>1, IdsFacts DEF I!Event, Events

-----------------------------------------------------------------------------
(* No action is forgotten.                                                 *)

Waits(a, q) == \E k \in DOMAIN q : q[k].kind = "action" /\ q[k].id = a
ActionKept(a) == answers[a] = "waiting" => serving = a \/ Waits(a, queue)

ActionsInv ==
  /\ QueueTyped
  /\ answers \in [Actions -> {"none", "waiting", "over"}]
  /\ serving \in Actions \cup {"none"}
  /\ thread \in {"call", "wait", "drain", "drop", "gone"}
  /\ thread # "call" => serving = "none"
  /\ \A a \in Actions : ActionKept(a)

\* The queue keeps what it has, and no answer and no call is about another action.
LEMMA ActionsStand ==
  ASSUME ActionsInv, UNCHANGED <<answers, serving, thread>>, queue' \in Seq(Events),
         \A k \in 1..Len(queue) : k \in 1..Len(queue') /\ queue'[k] = queue[k]
  PROVE  ActionsInv'
<1>1. ASSUME NEW a \in Actions PROVE ActionKept(a)'
  BY DEF ActionsInv, QueueTyped, ActionKept, Waits
<1> QED
  BY <1>1 DEF ActionsInv, QueueTyped

LEMMA ActionsStandPosted ==
  ASSUME ActionsInv, UNCHANGED <<answers, serving, thread>>, NEW e, Posted(e)
  PROVE  ActionsInv'
BY ActionsStand DEF Posted

LEMMA ActionsStandQueue ==
  ASSUME ActionsInv, UNCHANGED <<answers, serving, thread, queue>>
  PROVE  ActionsInv'
BY ActionsStand DEF ActionsInv, QueueTyped

LEMMA ActionsPost ==
  ASSUME ActionsInv, NEW a \in Actions, I!PostAction(a), TasksTyped
  PROVE  ActionsInv'
<1>1. Posted(I!Event("action", a, 0))
  BY PostsEvent, EventsTyped DEF I!PostAction, ActionsInv
<1>2. PICK r \in {"over", "waiting"} : r = IF I!Full THEN "over" ELSE "waiting"
  OBVIOUS
<1>3. answers' = [answers EXCEPT ![a] = r] /\ UNCHANGED <<serving, thread>>
  BY <1>2 DEF I!PostAction, I!life
<1>4. ASSUME NEW b \in Actions PROVE ActionKept(b)'
  <2>1. CASE b # a
    BY <1>1, <1>3, <2>1 DEF ActionsInv, QueueTyped, ActionKept, Waits, Posted
  <2>2. CASE b = a
    <3>1. CASE I!Full
      BY <1>2, <1>3, <2>2, <3>1 DEF ActionsInv, ActionKept
    <3>2. CASE ~I!Full
      BY <1>1, <2>2, <3>2 DEF ActionsInv, QueueTyped, ActionKept, Waits, Posted, I!Event
    <3> QED
      BY <3>1, <3>2
  <2> QED
    BY <2>1, <2>2
<1> QED
  BY <1>1, <1>3, <1>4 DEF ActionsInv, QueueTyped, Posted

\* An event that is no action is taken.
LEMMA ActionsTake ==
  ASSUME ActionsInv, NEW kind, kind # "action", I!Takes(kind), UNCHANGED <<answers, serving>>,
         thread' \in {"call", "wait"}
  PROVE  ActionsInv'
<1>1. TakenOut(Head(queue)) /\ Head(queue).kind = kind /\ thread = "wait"
  BY TakesEvent DEF ActionsInv
<1>2. ASSUME NEW a \in Actions PROVE ActionKept(a)'
  BY <1>1 DEF ActionsInv, QueueTyped, ActionKept, Waits, TakenOut
<1> QED
  BY <1>1, <1>2 DEF ActionsInv, QueueTyped, TakenOut

LEMMA ActionsTakeAction ==
  ASSUME ActionsInv, I!TakeAction
  PROVE  ActionsInv'
<1>1. TakenOut(Head(queue)) /\ Head(queue).kind = "action" /\ thread = "wait"
  BY TakesEvent DEF ActionsInv, I!TakeAction
<1>2. serving' = Head(queue).id /\ thread' = "call" /\ answers' = answers
  BY DEF I!TakeAction, I!Calls
<1>3. serving = "none" /\ "none" \notin Actions
  BY <1>1, InstanceAssumption DEF ActionsInv
<1>4. ASSUME NEW a \in Actions PROVE ActionKept(a)'
  <2>1. SUFFICES ASSUME answers[a] = "waiting" PROVE serving' = a \/ Waits(a, queue')
    BY <1>2 DEF ActionKept
  <2>2. PICK k \in 1..Len(queue) : queue[k].kind = "action" /\ queue[k].id = a
    <3>1. ActionKept(a) /\ answers[a] = "waiting" /\ serving # a
      BY <1>2, <1>3, <2>1 DEF ActionsInv
    <3>2. Waits(a, queue)
      BY <3>1 DEF ActionKept
    <3>3. DOMAIN queue = 1..Len(queue)
      <4>1. PICK q \in Seq(Events) : q = queue
        BY DEF ActionsInv, QueueTyped
      <4> QED
        BY <4>1
    <3> QED
      BY <3>2, <3>3 DEF Waits
  <2>3. CASE k = 1
    BY <1>1, <1>2, <2>2, <2>3 DEF TakenOut
  <2>4. CASE k # 1
    BY <1>1, <2>2, <2>4 DEF TakenOut, Waits
  <2> QED
    BY <2>3, <2>4
<1> QED
  BY <1>1, <1>2, <1>4 DEF ActionsInv, QueueTyped, TakenOut, Events

LEMMA RepliesTyped ==
  ASSUME ActionsInv, NEW As
  PROVE  /\ I!Replies(As) \in [Actions -> {"none", "waiting", "over"}]
         /\ \A a \in Actions : I!Replies(As)[a] = "waiting" => answers[a] = "waiting" /\ a \notin As
BY DEF ActionsInv, I!Replies

LEMMA ActionsAnswer ==
  ASSUME ActionsInv, thread = "call", serving' = "none", queue' = queue,
         answers' = I!Replies({serving}), thread' \in {"wait", "drain"}
  PROVE  ActionsInv'
<1>1. ASSUME NEW a \in Actions PROVE ActionKept(a)'
  BY RepliesTyped DEF ActionsInv, ActionKept, Waits
<1> QED
  BY <1>1, RepliesTyped DEF ActionsInv, QueueTyped

\* Refuses and Gone: the queue is emptied and what is in it answered.
LEMMA ActionsRefuse ==
  ASSUME ActionsInv, thread # "call", serving' = serving, queue' = <<>>,
         answers' = I!Replies({queue[k].id : k \in {j \in DOMAIN queue : queue[j].kind = "action"}}),
         thread' \in {"drop", "gone"}
  PROVE  ActionsInv'
<1>1. PICK As : As = {queue[k].id : k \in {j \in DOMAIN queue : queue[j].kind = "action"}}
  OBVIOUS
<1>2. \A a : Waits(a, queue) => a \in As
  BY <1>1 DEF Waits
<1>3. serving = "none" /\ "none" \notin Actions
  BY InstanceAssumption DEF ActionsInv
<1>4. answers' = I!Replies(As)
  BY <1>1
<1>5. ASSUME NEW a \in Actions PROVE ActionKept(a)'
  <2>1. answers'[a] # "waiting"
    BY <1>2, <1>3, <1>4, RepliesTyped DEF ActionsInv, ActionKept
  <2> QED
    BY <2>1 DEF ActionKept
<1>6. <<>> \in Seq(Events) /\ serving' \in Actions \cup {"none"}
  BY DEF ActionsInv
<1>7. thread' # "call" /\ answers' \in [Actions -> {"none", "waiting", "over"}]
  BY <1>4, RepliesTyped
<1> QED
  BY <1>3, <1>5, <1>6, <1>7 DEF ActionsInv, QueueTyped

LEMMA ActionsThread ==
  ASSUME ActionsInv, I!Thread
  PROVE  ActionsInv'
<1>1. ASSUME NEW heard, I!Calls(heard) PROVE thread' \in {"call", "wait"}
  BY <1>1 DEF I!Calls
<1>2. CASE I!TakeAction
  BY <1>2, ActionsTakeAction
<1>3. CASE I!TakeOpen
  BY <1>1, <1>3, ActionsTake DEF I!TakeOpen
<1>4. CASE I!TakeMessage
  BY <1>1, <1>4, ActionsTake DEF I!TakeMessage
<1>5. CASE I!TakeClosed
  BY <1>1, <1>5, ActionsTake DEF I!TakeClosed
<1>6. CASE I!TakeHttp
  BY <1>1, <1>6, ActionsTake DEF I!TakeHttp
<1>7. CASE I!TakeTimer
  BY <1>1, <1>7, ActionsTake DEF I!TakeTimer
<1>8. CASE I!Return
  BY <1>8, ActionsAnswer DEF I!Return
<1>9. CASE I!Breaks
  BY <1>9, ActionsAnswer DEF I!Breaks
<1>10. CASE I!Exits
  BY <1>10 DEF I!Exits, ActionsInv, QueueTyped, ActionKept, Waits
<1>11. CASE I!Refuses
  BY <1>11, ActionsRefuse DEF I!Refuses
<1>12. CASE I!Gone
  BY <1>12, ActionsRefuse DEF I!Gone
<1> QED
  BY <1>2, <1>3, <1>4, <1>5, <1>6, <1>7, <1>8, <1>9, <1>10, <1>11, <1>12 DEF I!Thread

LEMMA ActionsGuest ==
  ASSUME ActionsInv, I!Guest
  PROVE  ActionsInv'
<1>1. UNCHANGED <<answers, serving, thread, queue>>
  BY DEF I!Guest, I!OpenSocket, I!Fetch, I!Send, I!Close, I!SetTimer, I!CancelTimer, I!life, I!net
<1> QED
  BY <1>1, ActionsStandQueue

LEMMA ActionsTask ==
  ASSUME ActionsInv, TasksTyped, I!Task
  PROVE  ActionsInv'
<1>1. ASSUME NEW e \in Events, I!Posts(e), UNCHANGED <<answers, serving, thread>>
      PROVE  ActionsInv'
  BY <1>1, PostsEvent, ActionsStandPosted DEF ActionsInv
<1>2. ASSUME NEW i \in I!Ids, I!Check(i) \/ I!Freed(i) PROVE ActionsInv'
  BY <1>2, ActionsStandQueue DEF I!Check, I!Freed, I!life
<1>3. ASSUME NEW i \in I!Ids, I!Post(i) PROVE ActionsInv'
  <2>1. UNCHANGED <<answers, serving, thread>>
    BY <1>3 DEF I!Post, I!life
  <2>2. CASE i \in Sockets
    <3>1. I!Posts(I!Event("message", i, tasks[i].size))
      BY <1>3, <2>2 DEF I!Post
    <3> QED
      BY <1>1, <2>1, <3>1, EventsTyped
  <2>3. CASE i \notin Sockets
    <3>1. I!Posts(I!Event("http", i, tasks[i].size))
      BY <1>3, <2>3 DEF I!Post
    <3> QED
      BY <1>1, <2>1, <3>1, EventsTyped
  <2> QED
    BY <2>2, <2>3
<1>4. ASSUME NEW s \in Sockets, I!Connected(s) PROVE ActionsInv'
  BY <1>1, <1>4, EventsTyped DEF I!Connected, I!life
<1>5. ASSUME NEW s \in Sockets, I!Closing(s) PROVE ActionsInv'
  BY <1>1, <1>5, EventsTyped DEF I!Closing, I!life
<1>6. ASSUME NEW t \in Timers, I!Fires(t) PROVE ActionsInv'
  BY <1>1, <1>6, EventsTyped DEF I!Fires, I!life
<1>7. ASSUME NEW s \in Sockets,
             \/ I!Ends(s) \/ I!Sends(s) \/ I!Writes(s) \/ I!Finish(s) \/ I!GivesUp(s)
             \/ I!Drain(s) \/ I!DrainFails(s) \/ \E n \in Sizes : I!Receives(s, n)
      PROVE  ActionsInv'
  BY <1>7, ActionsStandQueue
     DEF I!Ends, I!Sends, I!Writes, I!Finish, I!GivesUp, I!Drain, I!DrainFails, I!Receives, I!life
<1>8. ASSUME NEW r \in Requests, NEW n \in Sizes \cup {0}, I!Answered(r, n) PROVE ActionsInv'
  BY <1>8, ActionsStandQueue DEF I!Answered, I!life
<1> QED
  BY <1>2, <1>3, <1>4, <1>5, <1>6, <1>7, <1>8 DEF I!Task

LEMMA ActionsStep ==
  ASSUME ActionsInv, TasksTyped, I!Next
  PROVE  ActionsInv'
<1>1. CASE I!Stop
  <2>1. Posted(I!Event("stop", 0, 0)) /\ UNCHANGED <<answers, serving, thread>>
    BY <1>1, PostsEvent, EventsTyped DEF I!Stop, ActionsInv
  <2> QED
    BY <2>1, ActionsStandPosted
<1>2. CASE \E a \in Actions : I!PostAction(a)
  BY <1>2, ActionsPost
<1> QED
  BY <1>1, <1>2, ActionsThread, ActionsGuest, ActionsTask DEF I!Next

LEMMA ActionsStart ==
  ASSUME I!Init
  PROVE  ActionsInv
<1>1. <<>> \in Seq(Events) /\ "none" \notin Actions
  BY InstanceAssumption
<1> QED
  BY <1>1 DEF I!Init, ActionsInv, QueueTyped, ActionKept, Waits

-----------------------------------------------------------------------------
(* What a socket took from the plugin goes out in order, and all of it.    *)

\* Of a task t that took n payloads and wrote w: the bytes written are the first;
\* until it is cut, those it holds come next and then the payloads it has left.
Sending(t, n, w) ==
  /\ \A k \in 1..Len(w) : w[k] = k
  /\ "cut" \in t.marks => t.step \in {"closing", "done"}
  /\ t.step = "closing" => "cut" \in t.marks
  /\ t.step \notin {"write", "drain"} /\ "cut" \notin t.marks => t.pending = <<>>
  /\ t.step \in {"closing", "done"} => t.data = <<>>
  /\ "cut" \notin t.marks =>
       /\ Len(t.data) =< n /\ Len(w) + Len(t.pending) = 2 * (n - Len(t.data))
       /\ \A k \in 1..Len(t.data) : t.data[k] = (n - Len(t.data)) + k
       /\ \A k \in 1..Len(t.pending) : t.pending[k] = Len(w) + k

SendingInv ==
  /\ TasksTyped
  /\ sent \in [Sockets -> Nat] /\ wire \in [Sockets -> Seq(Int)]
  /\ \A s \in Sockets : Sending(tasks[s], sent[s], wire[s])

\* It waits for something else.
LEMMA SendingGoesOn ==
  ASSUME NEW t \in TaskRecord, NEW u \in TaskRecord, NEW n \in Nat, NEW w \in Seq(Int),
         Sending(t, n, w), u.data = t.data, u.pending = t.pending,
         t.step \notin {"closing", "done"}, u.step \notin {"closing", "done"},
         t.step \in {"write", "drain"} => u.step \in {"write", "drain"},
         "cut" \in u.marks => "cut" \in t.marks
  PROVE  Sending(u, n, w)
BY DEF Sending, TaskRecord

\* It is told of freed room, or of an end that cannot be reported.
LEMMA SendingMarked ==
  ASSUME NEW t \in TaskRecord, NEW u \in TaskRecord, NEW n \in Nat, NEW w \in Seq(Int),
         Sending(t, n, w), u.data = t.data, u.pending = t.pending,
         u.step = t.step \/ (t.step = "closing" /\ u.step = "done"),
         "cut" \in u.marks <=> "cut" \in t.marks
  PROVE  Sending(u, n, w)
BY DEF Sending, TaskRecord

LEMMA SendingCut ==
  ASSUME NEW t \in TaskRecord, NEW u \in TaskRecord, NEW n \in Nat, NEW w \in Seq(Int),
         Sending(t, n, w), u.data = <<>>, u.step \in {"closing", "done"}, "cut" \in u.marks
  PROVE  Sending(u, n, w)
BY DEF Sending, TaskRecord

LEMMA SendingEnds ==
  ASSUME NEW t \in TaskRecord, NEW u \in TaskRecord, NEW n \in Nat, NEW w \in Seq(Int),
         Sending(t, n, w), u.data = t.data, u.pending = t.pending,
         t.pending = <<>>, t.data = <<>>, t.step = "drain", u.step = "done", u.marks = t.marks
  PROVE  Sending(u, n, w)
BY DEF Sending, TaskRecord

LEMMA SendingTakes ==
  ASSUME NEW t \in TaskRecord, NEW u \in TaskRecord, NEW n \in Nat, NEW w \in Seq(Int),
         Sending(t, n, w), u.data = Append(t.data, n + 1), u.pending = t.pending,
         t.step \notin {"closing", "done"}, u.step = t.step, u.marks = t.marks
  PROVE  Sending(u, n + 1, w)
<1>1. PICK d \in Seq(Int) : d = t.data
  BY DEF TaskRecord
<1>2. PICK m \in Nat : m = Len(d)
  BY <1>1, LenProperties
<1>3. /\ Len(u.data) = m + 1 /\ u.data[m + 1] = n + 1
      /\ \A k \in 1..m : u.data[k] = d[k]
  BY <1>1, <1>2, AppendProperties
<1>4. "cut" \notin t.marks
  BY DEF Sending
<1>5. /\ m =< n /\ Len(w) + Len(t.pending) = 2 * (n - m)
      /\ \A k \in 1..m : d[k] = (n - m) + k
  BY <1>1, <1>2, <1>4 DEF Sending
<1>6. /\ m + 1 =< n + 1 /\ (n + 1) - (m + 1) = n - m /\ (n - m) + (m + 1) = n + 1
      /\ \A k \in 1..(m + 1) : k = m + 1 \/ k \in 1..m
  BY <1>5
<1>7. \A k \in 1..(m + 1) : u.data[k] = (n - m) + k
  BY <1>3, <1>5, <1>6
<1>8. Len(w) + Len(u.pending) = 2 * ((n + 1) - (m + 1))
  BY <1>5, <1>6
<1>9. /\ Len(u.data) =< n + 1 /\ Len(w) + Len(u.pending) = 2 * ((n + 1) - Len(u.data))
      /\ \A k \in 1..Len(u.data) : u.data[k] = ((n + 1) - Len(u.data)) + k
  BY <1>3, <1>6, <1>7, <1>8
<1> QED
  BY <1>4, <1>9 DEF Sending

LEMMA SendingStarts ==
  ASSUME NEW t \in TaskRecord, NEW u \in TaskRecord, NEW n \in Nat, NEW w \in Seq(Int),
         Sending(t, n, w), t.pending = <<>>, t.data # <<>>, NEW p \in Int, p = Head(t.data),
         u.data = Tail(t.data), u.pending = <<2 * p - 1, 2 * p>>,
         t.step \in {"relay", "drain"}, u.step \in {"write", "drain"}, u.marks = t.marks
  PROVE  Sending(u, n, w)
<1>1. PICK d \in Seq(Int) : d = t.data /\ d # <<>>
  BY DEF TaskRecord
<1>2. PICK m \in Nat : m = Len(d) /\ m # 0
  BY <1>1, LenProperties, EmptySeq
<1>3. /\ Len(u.data) = m - 1 /\ \A k \in 1..(m - 1) : u.data[k] = d[k + 1]
      /\ p = d[1]
  BY <1>1, <1>2, HeadTailProperties
<1>4. "cut" \notin t.marks
  BY DEF Sending
<1>5. Len(t.pending) = 0 /\ Len(w) \in Nat /\ Len(w) + 0 = Len(w)
  BY EmptySeq, LenProperties
<1>6. /\ m =< n /\ Len(w) = 2 * (n - m)
      /\ \A k \in 1..m : d[k] = (n - m) + k
  BY <1>1, <1>2, <1>4, <1>5 DEF Sending
<1>7. p = (n - m) + 1 /\ 1 \in 1..m
  BY <1>2, <1>3, <1>6
<1>8. /\ Len(u.pending) = 2
      /\ \A k \in 1..2 : u.pending[k] = Len(w) + k
  <2>1. 2 * p - 1 = Len(w) + 1 /\ 2 * p = Len(w) + 2
    BY <1>2, <1>6, <1>7
  <2>2. u.pending = <<Len(w) + 1, Len(w) + 2>>
    BY <2>1
  <2> QED
    BY <2>2
<1>9. /\ m - 1 =< n /\ Len(w) + 2 = 2 * (n - (m - 1))
      /\ \A k \in 1..(m - 1) : u.data[k] = (n - (m - 1)) + k
  <2>1. ASSUME NEW k \in 1..(m - 1) PROVE u.data[k] = (n - (m - 1)) + k
    <3>1. k + 1 \in 1..m /\ (n - m) + (k + 1) = (n - (m - 1)) + k
      OBVIOUS
    <3>2. u.data[k] = d[k + 1] /\ d[k + 1] = (n - m) + (k + 1)
      BY <1>3, <1>6, <3>1
    <3> QED
      BY <3>1, <3>2
  <2>2. m - 1 =< n /\ Len(w) + 2 = 2 * (n - (m - 1))
    BY <1>2, <1>6
  <2> QED
    BY <2>1, <2>2
<1>10. /\ Len(u.data) =< n /\ Len(w) + Len(u.pending) = 2 * (n - Len(u.data))
       /\ \A k \in 1..Len(u.data) : u.data[k] = (n - Len(u.data)) + k
       /\ \A k \in 1..Len(u.pending) : u.pending[k] = Len(w) + k
  BY <1>3, <1>8, <1>9
<1>11. \A k \in 1..Len(w) : w[k] = k
  BY DEF Sending
<1> QED
  BY <1>4, <1>10, <1>11 DEF Sending

LEMMA SendingWrites ==
  ASSUME NEW t \in TaskRecord, NEW u \in TaskRecord, NEW n \in Nat, NEW w \in Seq(Int),
         Sending(t, n, w), NEW p \in Int, NEW rest \in Seq(Int),
         t.pending # <<>>, p = Head(t.pending), rest = Tail(t.pending),
         u.data = t.data, u.pending = rest, u.marks = t.marks,
         t.step \in {"write", "drain"}, u.step \in {"relay", "write", "drain"},
         u.step = "relay" => rest = <<>>
  PROVE  Sending(u, n, Append(w, p))
<1>1. PICK d \in Seq(Int) : d = t.pending /\ d # <<>>
  BY DEF TaskRecord
<1>2. PICK m \in Nat, l \in Nat, j \in Nat :
        m = Len(d) /\ m # 0 /\ l = Len(w) /\ j = Len(t.data)
  BY <1>1, LenProperties, EmptySeq DEF TaskRecord
<1>3. /\ Len(rest) = m - 1 /\ \A k \in 1..(m - 1) : rest[k] = d[k + 1]
      /\ p = d[1]
  BY <1>1, <1>2, HeadTailProperties
<1>4. "cut" \notin t.marks
  BY DEF Sending
<1>5. /\ j =< n /\ l + m = 2 * (n - j)
      /\ \A k \in 1..m : d[k] = l + k
      /\ \A k \in 1..l : w[k] = k
      /\ \A i \in 1..j : t.data[i] = (n - j) + i
  BY <1>1, <1>2, <1>4 DEF Sending
<1>6. p = l + 1
  <2>1. 1 \in 1..m
    BY <1>2
  <2> QED
    BY <1>3, <1>5, <2>1
<1>7. /\ Append(w, p) \in Seq(Int) /\ Len(Append(w, p)) = l + 1 /\ Append(w, p)[l + 1] = p
      /\ \A k \in 1..l : Append(w, p)[k] = w[k]
  BY <1>2, AppendProperties
<1>8. \A k \in 1..(l + 1) : Append(w, p)[k] = k
  <2>1. \A k \in 1..(l + 1) : k = l + 1 \/ k \in 1..l
    OBVIOUS
  <2> QED
    BY <1>5, <1>6, <1>7, <2>1
<1>9. (l + 1) + (m - 1) = 2 * (n - j) /\ \A k \in 1..(m - 1) : rest[k] = (l + 1) + k
  <2>1. ASSUME NEW k \in 1..(m - 1) PROVE k + 1 \in 1..m /\ l + (k + 1) = (l + 1) + k
    OBVIOUS
  <2> QED
    BY <1>3, <1>5, <2>1
<1>10. /\ Len(u.data) =< n /\ Len(Append(w, p)) + Len(u.pending) = 2 * (n - Len(u.data))
       /\ \A k \in 1..Len(u.data) : u.data[k] = (n - Len(u.data)) + k
       /\ \A k \in 1..Len(u.pending) : u.pending[k] = Len(Append(w, p)) + k
  <2>1. Len(u.data) = j /\ u.data = t.data /\ Len(u.pending) = m - 1 /\ u.pending = rest
    BY <1>2, <1>3
  <2>2. \A k \in 1..j : u.data[k] = (n - j) + k
    BY <1>5, <2>1
  <2>3. \A k \in 1..(m - 1) : u.pending[k] = (l + 1) + k
    BY <1>9, <2>1
  <2> QED
    BY <1>5, <1>7, <1>9, <2>1, <2>2, <2>3
<1>11. \A k \in 1..Len(Append(w, p)) : Append(w, p)[k] = k
  BY <1>7, <1>8
<1>12. u.step \notin {"closing", "done"} /\ (u.step \notin {"write", "drain"} => u.pending = <<>>)
  OBVIOUS
<1> QED
  BY <1>4, <1>10, <1>11, <1>12 DEF Sending

\* A step of one task changes what it, and no other, sends.
LEMMA SendingOne ==
  ASSUME SendingInv, NEW i \in I!Ids, NEW to, NEW data, NEW pending, NEW size, NEW marks,
         Becoming(tasks', i, to, data, pending, size, marks), UNCHANGED <<sent, wire>>,
         i \in Sockets => Sending(tasks'[i], sent[i], wire[i])
  PROVE  SendingInv'
BY IdsFacts DEF SendingInv, TasksTyped, Becoming

LEMMA SendingSteps ==
  ASSUME SendingInv, NEW i \in I!Ids, NEW to, NEW size, NEW marks, Steps(i, to, size, marks),
         UNCHANGED <<sent, wire>>,
         tasks[i].step \notin {"closing", "done"}, to \notin {"closing", "done"},
         tasks[i].step \in {"write", "drain"} => to \in {"write", "drain"},
         "cut" \in marks => "cut" \in tasks[i].marks
  PROVE  SendingInv'
<1>1. /\ tasks[i] \in TaskRecord /\ tasks'[i] \in TaskRecord
      /\ tasks'[i].data = tasks[i].data /\ tasks'[i].pending = tasks[i].pending
      /\ tasks'[i].step = to /\ tasks'[i].marks = marks
  BY DEF SendingInv, TasksTyped, Steps, Becoming
<1>2. ASSUME i \in Sockets PROVE Sending(tasks'[i], sent[i], wire[i])
  <2>1. sent[i] \in Nat /\ wire[i] \in Seq(Int) /\ Sending(tasks[i], sent[i], wire[i])
    BY <1>2 DEF SendingInv
  <2> QED
    BY <1>1, <2>1, SendingGoesOn
<1> QED
  BY <1>2, SendingOne DEF Steps

LEMMA SendingDone ==
  ASSUME SendingInv, NEW r \in Requests, NEW to, NEW data, NEW pending, NEW size, NEW marks,
         Becoming(tasks', r, to, data, pending, size, marks), UNCHANGED <<sent, wire>>
  PROVE  SendingInv'
BY IdsFacts, SendingOne

LEMMA SendingBroken ==
  ASSUME SendingInv, NEW s \in Sockets, NEW to \in {"closing", "done"}, NEW pending, NEW size,
         Becoming(tasks', s, to, <<>>, pending, size, {"cut"}), UNCHANGED <<sent, wire>>
  PROVE  SendingInv'
<1>1. /\ tasks[s] \in TaskRecord /\ tasks'[s] \in TaskRecord
      /\ tasks'[s].data = <<>> /\ tasks'[s].step = to /\ tasks'[s].marks = {"cut"}
      /\ sent[s] \in Nat /\ wire[s] \in Seq(Int) /\ Sending(tasks[s], sent[s], wire[s])
  BY IdsFacts DEF SendingInv, TasksTyped, Becoming
<1>2. Sending(tasks'[s], sent[s], wire[s])
  BY <1>1, SendingCut
<1> QED
  BY <1>2, IdsFacts, SendingOne

LEMMA SendingNotified ==
  ASSUME SendingInv, NEW T \in [I!Ids -> TaskRecord], Notified(T), UNCHANGED <<sent, wire>>,
         \A s \in Sockets : Sending(T[s], sent[s], wire[s])
  PROVE  SendingInv'
<1>1. ASSUME NEW s \in Sockets PROVE Sending(tasks'[s], sent[s], wire[s])
  <2>1. /\ T[s] \in TaskRecord /\ tasks'[s] \in TaskRecord
        /\ tasks'[s].data = T[s].data /\ tasks'[s].pending = T[s].pending
        /\ tasks'[s].step = T[s].step /\ ("cut" \in tasks'[s].marks <=> "cut" \in T[s].marks)
    BY IdsFacts DEF Notified
  <2>2. sent[s] \in Nat /\ wire[s] \in Seq(Int)
    BY DEF SendingInv
  <2> QED
    BY <2>1, <2>2, SendingMarked
<1> QED
  BY <1>1 DEF SendingInv, TasksTyped, Notified

LEMMA SendingReleases ==
  ASSUME SendingInv, NEW n, I!Releases(n, tasks), UNCHANGED <<sent, wire>>
  PROVE  SendingInv'
BY ReleasesTasks, SendingNotified DEF SendingInv, TasksTyped

LEMMA SendingPost ==
  ASSUME SendingInv, NEW i \in I!Ids, I!Post(i)
  PROVE  SendingInv'
<1>1. PICK T \in [I!Ids -> TaskRecord] :
        /\ Becoming(T, i, IF i \in Sockets THEN "relay" ELSE "done", tasks[i].data,
                    tasks[i].pending, 0, tasks[i].marks)
        /\ I!Full => Notified(T) /\ used' = used - tasks[i].size
        /\ ~I!Full => tasks' = T /\ used' = used
  BY PostTask DEF SendingInv
<1>2. ASSUME NEW s \in Sockets PROVE Sending(T[s], sent[s], wire[s])
  <2>1. CASE s # i
    BY <1>1, <2>1, IdsFacts DEF SendingInv, Becoming
  <2>2. CASE s = i
    <3>1. /\ T[s] \in TaskRecord /\ tasks[s] \in TaskRecord
          /\ T[s].data = tasks[s].data /\ T[s].pending = tasks[s].pending
          /\ T[s].step = "relay" /\ T[s].marks = tasks[s].marks
      BY <1>1, <2>2 DEF SendingInv, TasksTyped, Becoming
    <3>2. tasks[s].step = "post" /\ sent[s] \in Nat /\ wire[s] \in Seq(Int)
      BY <2>2 DEF I!Post, SendingInv
    <3>3. Sending(tasks[s], sent[s], wire[s])
      BY DEF SendingInv
    <3> QED
      BY <3>1, <3>2, <3>3, SendingGoesOn
  <2> QED
    BY <2>1, <2>2
<1>3. UNCHANGED <<sent, wire>>
  BY DEF I!Post
<1>4. CASE I!Full
  BY <1>1, <1>2, <1>3, <1>4, SendingNotified
<1>5. CASE ~I!Full
  BY <1>1, <1>2, <1>3, <1>5 DEF SendingInv, TasksTyped
<1> QED
  BY <1>4, <1>5

LEMMA SendingTask ==
  ASSUME SendingInv, I!Task
  PROVE  SendingInv'
<1>1. ASSUME NEW i \in I!Ids, I!Check(i) PROVE SendingInv'
  <2>1. tasks[i].step = "check" /\ UNCHANGED <<sent, wire>>
    BY <1>1 DEF I!Check
  <2>2. \E to \in {"post", "asleep"} : Steps(i, to, tasks[i].size, tasks[i].marks)
    BY <1>1, CheckTask DEF SendingInv
  <2> QED
    BY <2>1, <2>2, SendingSteps
<1>2. ASSUME NEW i \in I!Ids, I!Freed(i) PROVE SendingInv'
  <2>1. tasks[i].step = "asleep" /\ UNCHANGED <<sent, wire>>
    BY <1>2 DEF I!Freed
  <2>2. Steps(i, "check", tasks[i].size, tasks[i].marks \ {"notified"})
    BY <1>2, FreedTask DEF SendingInv
  <2> QED
    BY <2>1, <2>2, SendingSteps
<1>3. ASSUME NEW s \in Sockets, I!Connected(s) PROVE SendingInv'
  <2>1. tasks[s].step = "opening" /\ UNCHANGED <<sent, wire>> /\ s \in I!Ids
    BY <1>3, IdsFacts DEF I!Connected
  <2>2. Steps(s, "relay", tasks[s].size, tasks[s].marks)
    BY <1>3, ConnectedTask DEF SendingInv
  <2> QED
    BY <2>1, <2>2, SendingSteps
<1>4. ASSUME NEW s \in Sockets, I!Ends(s) PROVE SendingInv'
  BY <1>4, EndsTask, SendingBroken DEF SendingInv, I!Ends
<1>5. ASSUME NEW s \in Sockets, I!Sends(s) PROVE SendingInv'
  <2>1. PICK p \in Int, to \in {"write", "drain"} :
          /\ p = Head(tasks[s].data)
          /\ Becoming(tasks', s, to, Tail(tasks[s].data), <<2 * p - 1, 2 * p>>,
                      tasks[s].size, tasks[s].marks)
    BY <1>5, SendsTask DEF SendingInv
  <2>2. /\ tasks[s].step \in {"relay", "drain"} /\ tasks[s].pending = <<>> /\ tasks[s].data # <<>>
        /\ UNCHANGED <<sent, wire>> /\ s \in I!Ids
    BY <1>5, IdsFacts DEF I!Sends
  <2>3. /\ tasks[s] \in TaskRecord /\ tasks'[s] \in TaskRecord
        /\ tasks'[s].data = Tail(tasks[s].data) /\ tasks'[s].pending = <<2 * p - 1, 2 * p>>
        /\ tasks'[s].step = to /\ tasks'[s].marks = tasks[s].marks
    BY <2>1, <2>2 DEF SendingInv, TasksTyped, Becoming
  <2>4. sent[s] \in Nat /\ wire[s] \in Seq(Int) /\ Sending(tasks[s], sent[s], wire[s])
    BY DEF SendingInv
  <2>5. Sending(tasks'[s], sent[s], wire[s])
    BY <2>1, <2>2, <2>3, <2>4, SendingStarts
  <2> QED
    BY <2>1, <2>2, <2>5, SendingOne
<1>6. ASSUME NEW s \in Sockets, I!Writes(s) PROVE SendingInv'
  <2>1. PICK p \in Int, rest \in Seq(Int), to \in {"relay", "write", "drain"} :
          /\ tasks[s].pending # <<>> /\ p = Head(tasks[s].pending) /\ rest = Tail(tasks[s].pending)
          /\ to = IF tasks[s].step = "write" /\ rest = <<>> THEN "relay" ELSE tasks[s].step
          /\ Becoming(tasks', s, to, tasks[s].data, rest, tasks[s].size, tasks[s].marks)
          /\ wire' = [wire EXCEPT ![s] = Append(wire[s], p)]
    BY <1>6, WritesTask DEF SendingInv
  <2>2. tasks[s].step \in {"write", "drain"} /\ UNCHANGED sent /\ s \in I!Ids
    BY <1>6, IdsFacts DEF I!Writes
  <2>3. to = "relay" => rest = <<>>
    BY <2>1, <2>2
  <2>4. /\ tasks[s] \in TaskRecord /\ tasks'[s] \in TaskRecord
        /\ tasks'[s].data = tasks[s].data /\ tasks'[s].pending = rest
        /\ tasks'[s].step = to /\ tasks'[s].marks = tasks[s].marks
    BY <2>1, <2>2 DEF SendingInv, TasksTyped, Becoming
  <2>5. PICK w \in Seq(Int), n \in Nat : w = wire[s] /\ n = sent[s] /\ Sending(tasks[s], n, w)
    BY DEF SendingInv
  <2>6. Append(w, p) \in Seq(Int)
    BY AppendProperties
  <2>7. wire' \in [Sockets -> Seq(Int)] /\ wire'[s] = Append(w, p)
    BY <2>1, <2>5, <2>6 DEF SendingInv
  <2>8. Sending(tasks'[s], n, Append(w, p))
    BY <2>1, <2>2, <2>3, <2>4, <2>5, SendingWrites
  <2>9. ASSUME NEW x \in Sockets, x # s PROVE Sending(tasks'[x], sent'[x], wire'[x])
    <3>1. tasks'[x] = tasks[x] /\ sent'[x] = sent[x] /\ wire'[x] = wire[x]
      BY <2>1, <2>2, <2>9, IdsFacts DEF Becoming, SendingInv
    <3> QED
      BY <3>1 DEF SendingInv
  <2>10. Sending(tasks'[s], sent'[s], wire'[s])
    BY <2>2, <2>5, <2>7, <2>8
  <2>11. \A x \in Sockets : Sending(tasks'[x], sent'[x], wire'[x])
    BY <2>9, <2>10
  <2>12. TasksTyped' /\ sent' \in [Sockets -> Nat]
    BY <2>1, <2>2 DEF Becoming, TasksTyped, SendingInv
  <2> QED
    BY <2>7, <2>11, <2>12 DEF SendingInv
<1>7. ASSUME NEW s \in Sockets, I!Finish(s) PROVE SendingInv'
  <2>1. /\ tasks[s].step \in {"relay", "write", "check", "asleep"}
        /\ UNCHANGED <<sent, wire>> /\ s \in I!Ids
    BY <1>7, IdsFacts DEF I!Finish
  <2>2. Steps(s, "drain", 0, {})
    BY <1>7, FinishTask DEF SendingInv
  <2> QED
    BY <2>1, <2>2, SendingSteps
<1>8. ASSUME NEW s \in Sockets, I!GivesUp(s) PROVE SendingInv'
  BY <1>8, GivesUpTask, SendingBroken DEF SendingInv, I!GivesUp
<1>9. ASSUME NEW s \in Sockets, I!DrainFails(s) PROVE SendingInv'
  BY <1>9, DrainFailsTask, SendingBroken DEF SendingInv, I!DrainFails
<1>10. ASSUME NEW s \in Sockets, I!Drain(s) \/ I!Closing(s) PROVE SendingInv'
  <2>1. PICK marks : /\ Steps(s, "done", tasks[s].size, marks)
                     /\ "cut" \in marks <=> "cut" \in tasks[s].marks
                     /\ (I!Drain(s) => marks = tasks[s].marks)
    <3>1. CASE I!Drain(s)
      <4>1. Steps(s, "done", tasks[s].size, tasks[s].marks)
        BY <3>1, DrainTask DEF SendingInv
      <4> QED
        BY <4>1
    <3>2. CASE ~I!Drain(s)
      <4>1. PICK new : new = IF I!Full THEN tasks[s].marks \cup {"lost"} ELSE tasks[s].marks
        OBVIOUS
      <4>2. Steps(s, "done", tasks[s].size, new)
        BY <1>10, <3>2, <4>1, ClosingTask DEF SendingInv
      <4>3. "cut" \in new <=> "cut" \in tasks[s].marks
        BY <4>1
      <4> QED
        BY <3>2, <4>2, <4>3
    <3> QED
      BY <3>1, <3>2
  <2>2. UNCHANGED <<sent, wire>> /\ s \in I!Ids
    BY <1>10, IdsFacts DEF I!Drain, I!Closing
  <2>3. /\ tasks[s] \in TaskRecord /\ tasks'[s] \in TaskRecord
        /\ tasks'[s].data = tasks[s].data /\ tasks'[s].pending = tasks[s].pending
        /\ tasks'[s].step = "done" /\ tasks'[s].marks = marks
        /\ sent[s] \in Nat /\ wire[s] \in Seq(Int) /\ Sending(tasks[s], sent[s], wire[s])
    BY <2>1, <2>2 DEF SendingInv, TasksTyped, Steps, Becoming
  <2>4. CASE I!Drain(s)
    <3>1. tasks[s].step = "drain" /\ tasks[s].pending = <<>> /\ tasks[s].data = <<>>
      BY <2>4 DEF I!Drain
    <3>2. Sending(tasks'[s], sent[s], wire[s])
      BY <2>1, <2>3, <2>4, <3>1, SendingEnds
    <3> QED
      BY <2>1, <2>2, <3>2, SendingOne DEF Steps
  <2>5. CASE I!Closing(s)
    <3>1. tasks[s].step = "closing"
      BY <2>5 DEF I!Closing
    <3>2. Sending(tasks'[s], sent[s], wire[s])
      BY <2>1, <2>3, <3>1, SendingMarked
    <3> QED
      BY <2>1, <2>2, <3>2, SendingOne DEF Steps
  <2> QED
    BY <1>10, <2>4, <2>5
<1>11. ASSUME NEW s \in Sockets, NEW n \in Sizes, I!Receives(s, n) PROVE SendingInv'
  <2>1. tasks[s].step = "relay" /\ UNCHANGED <<sent, wire>> /\ s \in I!Ids
    BY <1>11, IdsFacts DEF I!Receives
  <2>2. Steps(s, "check", n, tasks[s].marks)
    BY <1>11, ReceivesTask DEF SendingInv
  <2> QED
    BY <2>1, <2>2, SendingSteps
<1>12. ASSUME NEW r \in Requests, NEW n \in Sizes \cup {0}, I!Answered(r, n) PROVE SendingInv'
  <2>1. UNCHANGED <<sent, wire>> /\ Steps(r, "check", n, tasks[r].marks)
    BY <1>12, AnsweredTask DEF I!Answered, SendingInv
  <2> QED
    BY <2>1, SendingDone DEF Steps
<1>13. ASSUME NEW t \in Timers, I!Fires(t) PROVE SendingInv'
  BY <1>13 DEF I!Fires, I!net, SendingInv, TasksTyped
<1> QED
  BY <1>1, <1>2, <1>3, <1>4, <1>5, <1>6, <1>7, <1>8, <1>9, <1>10, <1>11, <1>12, <1>13, SendingPost
     DEF I!Task

LEMMA SendingGuest ==
  ASSUME SendingInv, I!Guest
  PROVE  SendingInv'
<1>1. CASE I!OpenSocket
  <2>1. UNCHANGED <<sent, wire>>
    BY <1>1 DEF I!OpenSocket
  <2>2. \/ tasks' = tasks
        \/ \E s \in Sockets : /\ tasks[s].step = "unused"
                              /\ Steps(s, "opening", tasks[s].size, tasks[s].marks)
    BY <1>1, OpenSocketTask DEF SendingInv
  <2>3. CASE tasks' = tasks
    BY <2>1, <2>3 DEF SendingInv, TasksTyped
  <2>4. ASSUME NEW s \in Sockets, tasks[s].step = "unused",
               Steps(s, "opening", tasks[s].size, tasks[s].marks)
        PROVE  SendingInv'
    BY <2>1, <2>4, SendingSteps, IdsFacts
  <2> QED
    BY <2>2, <2>3, <2>4
<1>2. CASE I!Fetch
  <2>1. UNCHANGED <<sent, wire>>
    BY <1>2 DEF I!Fetch
  <2>2. \/ tasks' = tasks
        \/ \E r \in Requests : Steps(r, "opening", tasks[r].size, tasks[r].marks)
    BY <1>2, FetchTask DEF SendingInv
  <2>3. CASE tasks' = tasks
    BY <2>1, <2>3 DEF SendingInv, TasksTyped
  <2> QED
    BY <2>1, <2>2, <2>3, SendingDone DEF Steps
<1>3. ASSUME NEW s \in Sockets, I!Send(s) PROVE SendingInv'
  <2>1. PICK n \in Nat :
          /\ n = sent[s] + 1 /\ sent' = [sent EXCEPT ![s] = n]
          /\ Becoming(tasks', s, tasks[s].step, Append(tasks[s].data, n), tasks[s].pending,
                      tasks[s].size, tasks[s].marks)
    BY <1>3, SendTask DEF SendingInv
  <2>2. tasks[s].step \notin {"closing", "done"} /\ UNCHANGED wire /\ s \in I!Ids
    BY <1>3, IdsFacts DEF I!Send
  <2>3. PICK m \in Nat, w \in Seq(Int) : m = sent[s] /\ w = wire[s] /\ Sending(tasks[s], m, w)
    BY DEF SendingInv
  <2>4. /\ tasks[s] \in TaskRecord /\ tasks'[s] \in TaskRecord
        /\ tasks'[s].data = Append(tasks[s].data, m + 1) /\ tasks'[s].pending = tasks[s].pending
        /\ tasks'[s].step = tasks[s].step /\ tasks'[s].marks = tasks[s].marks
    BY <2>1, <2>2, <2>3 DEF SendingInv, TasksTyped, Becoming
  <2>5. Sending(tasks'[s], m + 1, w)
    BY <2>2, <2>3, <2>4, SendingTakes
  <2>6. sent' \in [Sockets -> Nat] /\ sent'[s] = m + 1
    BY <2>1, <2>3 DEF SendingInv
  <2>7. ASSUME NEW x \in Sockets, x # s PROVE Sending(tasks'[x], sent'[x], wire'[x])
    <3>1. tasks'[x] = tasks[x] /\ sent'[x] = sent[x] /\ wire'[x] = wire[x]
      BY <2>1, <2>2, <2>7, IdsFacts DEF Becoming, SendingInv
    <3> QED
      BY <3>1 DEF SendingInv
  <2>8. \A x \in Sockets : Sending(tasks'[x], sent'[x], wire'[x])
    BY <2>2, <2>3, <2>5, <2>6, <2>7
  <2>9. TasksTyped' /\ wire' \in [Sockets -> Seq(Int)]
    BY <2>1, <2>2 DEF Becoming, TasksTyped, SendingInv
  <2> QED
    BY <2>6, <2>8, <2>9 DEF SendingInv
<1>4. ASSUME NEW s \in Sockets, I!Close(s) PROVE SendingInv'
  BY <1>4 DEF I!Close, SendingInv, TasksTyped
<1>5. ASSUME NEW repeat \in BOOLEAN, I!SetTimer(repeat) PROVE SendingInv'
  BY <1>5 DEF I!SetTimer, I!net, SendingInv, TasksTyped
<1>6. ASSUME NEW t \in Timers, I!CancelTimer(t) PROVE SendingInv'
  BY <1>6 DEF I!CancelTimer, I!net, SendingInv, TasksTyped
<1> QED
  BY <1>1, <1>2, <1>3, <1>4, <1>5, <1>6 DEF I!Guest

LEMMA SendingFresh ==
  ASSUME NEW n, n = 0, NEW w, w = <<>>, NEW t \in TaskRecord,
         t.step = "unused", t.data = <<>>, t.pending = <<>>, t.marks = {}
  PROVE  Sending(t, n, w)
<1>1. Len(<<>>) = 0 /\ 0 =< 0 /\ 0 + 0 = 2 * (0 - 0)
  OBVIOUS
<1> QED
  BY <1>1 DEF Sending

LEMMA SendingNone ==
  ASSUME NEW T, T = [i \in I!Ids |-> I!Unused], NEW n, n = [s \in Sockets |-> 0],
         NEW w, w = [s \in Sockets |-> <<>>]
  PROVE  /\ T \in [I!Ids -> TaskRecord] /\ n \in [Sockets -> Nat] /\ w \in [Sockets -> Seq(Int)]
         /\ \A s \in Sockets : Sending(T[s], n[s], w[s])
<1>1. /\ T \in [I!Ids -> TaskRecord]
      /\ \A i \in I!Ids : /\ T[i].step = "unused" /\ T[i].size = 0 /\ T[i].marks = {}
                          /\ T[i].data = <<>> /\ T[i].pending = <<>>
  BY UnusedTyped
<1>2. ASSUME NEW s \in Sockets PROVE Sending(T[s], n[s], w[s])
  BY <1>1, SendingFresh, IdsFacts
<1>3. <<>> \in Seq(Int)
  OBVIOUS
<1> QED
  BY <1>1, <1>2, <1>3

LEMMA SendingThread ==
  ASSUME SendingInv, I!Thread
  PROVE  SendingInv'
<1>1. CASE I!TakeMessage
  BY <1>1, SendingReleases DEF I!TakeMessage
<1>2. CASE I!TakeHttp
  BY <1>2, SendingReleases DEF I!TakeHttp
<1>3. CASE I!Gone
  BY <1>3, SendingNone DEF I!Gone, SendingInv, TasksTyped
<1>4. CASE UNCHANGED <<tasks, sent, wire>>
  BY <1>4 DEF SendingInv, TasksTyped
<1> QED
  BY <1>1, <1>2, <1>3, <1>4
     DEF I!Thread, I!TakeAction, I!TakeOpen, I!TakeClosed, I!TakeTimer, I!Return, I!Breaks,
         I!Exits, I!Refuses, I!net

LEMMA SendingStep ==
  ASSUME SendingInv, I!Next
  PROVE  SendingInv'
<1>1. CASE UNCHANGED <<tasks, sent, wire>>
  BY <1>1 DEF SendingInv, TasksTyped
<1> QED
  BY <1>1, SendingThread, SendingGuest, SendingTask DEF I!Next, I!Stop, I!PostAction, I!net

LEMMA SendingStart ==
  ASSUME I!Init
  PROVE  SendingInv
BY SendingNone DEF I!Init, SendingInv, TasksTyped

LEMMA AllGoesOut ==
  ASSUME SendingInv
  PROVE  I!SentGoesOut
<1>1. ASSUME NEW s \in Sockets
      PROVE  /\ wire[s] = [k \in DOMAIN wire[s] |-> k]
             /\ tasks[s].step = "done" /\ "cut" \notin tasks[s].marks => Len(wire[s]) = 2 * sent[s]
  <2>1. PICK w \in Seq(Int), n \in Nat :
          w = wire[s] /\ n = sent[s] /\ Sending(tasks[s], n, w)
    BY DEF SendingInv
  <2>2. w = [k \in DOMAIN w |-> k]
    BY <2>1 DEF Sending
  <2>3. tasks[s].step = "done" /\ "cut" \notin tasks[s].marks => Len(w) = 2 * n
    <3>1. SUFFICES ASSUME tasks[s].step = "done", "cut" \notin tasks[s].marks PROVE Len(w) = 2 * n
      OBVIOUS
    <3>2. tasks[s].data = <<>> /\ tasks[s].pending = <<>>
      BY <2>1, <3>1 DEF Sending
    <3>3. Len(w) + 0 = 2 * (n - 0)
      BY <2>1, <3>1, <3>2 DEF Sending
    <3> QED
      BY <2>1, <3>3
  <2> QED
    BY <2>1, <2>2, <2>3
<1> QED
  BY <1>1 DEF I!SentGoesOut

ApartInstance == part = "instance" => SendingInv /\ ActionsInv

\* What the instance took on is not forgotten: what a plugin sends on a socket
\* goes out in order, all of it before a close (net.rs:801-822), and an action
\* is answered (instance.rs), however tasks, thread and host interleave.
THEOREM NothingIsForgotten == ApartSpec => []NothingForgotten
<1>1. ApartInit => ApartInstance
  BY SendingStart, ActionsStart DEF ApartInit, ApartInstance
<1>2. ApartInstance /\ [InEditor \/ InInstance]_<<part, editor, instance>> => ApartInstance'
  <2>1. ASSUME ApartInstance, InEditor PROVE ApartInstance'
    BY <2>1 DEF InEditor, ApartInstance
  <2>2. ASSUME ApartInstance, InInstance PROVE ApartInstance'
    BY <2>2, SendingStep, ActionsStep DEF InInstance, ApartInstance, SendingInv
  <2>3. ASSUME ApartInstance, UNCHANGED <<part, editor, instance>> PROVE ApartInstance'
    BY <2>3 DEF instance, ApartInstance, SendingInv, TasksTyped, ActionsInv, QueueTyped, ActionKept, Waits
  <2> QED
    BY <2>1, <2>2, <2>3
<1>3. ApartInstance => NothingForgotten
  BY AllGoesOut
     DEF ApartInstance, NothingForgotten, I!NothingForgotten, I!NoActionForgotten, ActionsInv,
         ActionKept, Waits
<1> QED
  BY <1>1, <1>2, <1>3, PTL DEF ApartSpec

-----------------------------------------------------------------------------
(* Room counted byte by byte.                                              *)

\* The bytes of those that hold f[x] each.
Held(f) == {x \in (DOMAIN f) \X (1..Room) : x[2] =< f[x[1]]}

LEMMA HeldSet ==
  ASSUME NEW D, IsFiniteSet(D), Room \in Nat, NEW f \in [D -> 0..Room]
  PROVE  IsFiniteSet(Held(f)) /\ Cardinality(Held(f)) \in Nat
<1>1. IsFiniteSet(D \X (1..Room))
  <2>1. IsFiniteSet(1..Room)
    BY FS_Interval
  <2> QED
    BY <2>1, FS_Product, Zenon
<1>2. Held(f) \subseteq D \X (1..Room)
  BY DEF Held
<1> QED
  BY <1>1, <1>2, FS_Subset, FS_CardinalityType

LEMMA HeldBy ==
  ASSUME NEW x, NEW n \in Nat
  PROVE  /\ IsFiniteSet({x} \X (1..n))
         /\ Cardinality({x} \X (1..n)) = n
<1>1. IsFiniteSet(1..n) /\ Cardinality(1..n) = n
  BY FS_Interval
<1>2. PICK f : f = [b \in 1..n |-> <<x, b>>]
  OBVIOUS
<1>3. f \in Bijection(1..n, {x} \X (1..n))
  <2>1. f \in [1..n -> {x} \X (1..n)]
    BY <1>2
  <2>2. \A a, b \in 1..n : f[a] = f[b] => a = b
    BY <1>2
  <2>3. \A y \in {x} \X (1..n) : \E b \in 1..n : f[b] = y
    BY <1>2
  <2> QED
    BY <2>1, <2>2, <2>3 DEF Bijection, Injection, Surjection, IsInjective
<1> QED
  BY <1>1, <1>3, FS_Bijection DEF ExistsBijection

\* g has what f has, and x besides.
HoldsOneMore(D, x, f, g) ==
  /\ IsFiniteSet(D) /\ x \notin D /\ f \in [D -> 0..Room] /\ g \in [D \cup {x} -> 0..Room]
  /\ \A d \in D : g[d] = f[d]

LEMMA HeldMore ==
  ASSUME Room \in Nat, NEW D, NEW x, NEW f, NEW g, HoldsOneMore(D, x, f, g)
  PROVE  Cardinality(Held(g)) = Cardinality(Held(f)) + g[x]
<1>1. PICK n \in 0..Room : n = g[x]
  BY DEF HoldsOneMore
<1>2. Held(g) = Held(f) \cup ({x} \X (1..n))
  BY <1>1 DEF Held, HoldsOneMore
<1>3. Held(f) \cap ({x} \X (1..n)) = {}
  BY DEF Held, HoldsOneMore
<1>4. IsFiniteSet(Held(f)) /\ Cardinality(Held(f)) \in Nat
  BY HeldSet DEF HoldsOneMore
<1>5. IsFiniteSet({x} \X (1..n)) /\ Cardinality({x} \X (1..n)) = n /\ n \in Nat
  <2>1. n \in Nat
    OBVIOUS
  <2> QED
    BY <2>1, HeldBy, Zenon
<1>6. Cardinality(Held(g)) = Cardinality(Held(f)) + n - 0
  <2>1. PICK A, B : A = Held(f) /\ B = {x} \X (1..n)
    OBVIOUS
  <2>2. IsFiniteSet(A) /\ IsFiniteSet(B) /\ A \cap B = {} /\ Held(g) = A \cup B
    BY <1>2, <1>3, <1>4, <1>5, <2>1, Zenon
  <2>3. Cardinality(Held(g)) = Cardinality(A) + Cardinality(B) - Cardinality(A \cap B)
    BY <2>2, FS_Union
  <2> QED
    BY <1>5, <2>1, <2>2, <2>3, FS_EmptySet
<1> QED
  BY <1>1, <1>4, <1>6

\* One of them holds another number.
LEMMA HeldInstead ==
  ASSUME NEW D, IsFiniteSet(D), Room \in Nat, NEW x \in D,
         NEW f \in [D -> 0..Room], NEW g \in [D -> 0..Room],
         \A d \in D \ {x} : g[d] = f[d]
  PROVE  Cardinality(Held(g)) + f[x] = Cardinality(Held(f)) + g[x]
<1>1. PICK E, h : E = D \ {x} /\ h = [d \in E |-> f[d]]
  OBVIOUS
<1>2. IsFiniteSet(E) /\ x \notin E /\ D = E \cup {x} /\ h \in [E -> 0..Room]
  BY <1>1, FS_Subset
<1>3. \A d \in E : f[d] = h[d] /\ g[d] = h[d]
  BY <1>1
<1>4. Cardinality(Held(f)) = Cardinality(Held(h)) + f[x]
  <2>1. HoldsOneMore(E, x, h, f)
    BY <1>2, <1>3 DEF HoldsOneMore
  <2> QED
    BY <2>1, HeldMore
<1>5. Cardinality(Held(g)) = Cardinality(Held(h)) + g[x]
  <2>1. HoldsOneMore(E, x, h, g)
    BY <1>2, <1>3 DEF HoldsOneMore
  <2> QED
    BY <2>1, HeldMore
<1>6. Cardinality(Held(h)) \in Nat /\ f[x] \in Nat /\ g[x] \in Nat
  BY <1>2, HeldSet
<1> QED
  BY <1>4, <1>5, <1>6

\* A queue without its first.
LEMMA HeldLater ==
  ASSUME Room \in Nat, NEW m \in Nat, NEW f \in [1..m -> 0..Room], NEW g \in [1..(m + 1) -> 0..Room],
         \A k \in 1..m : f[k] = g[k + 1]
  PROVE  Cardinality(Held(g)) = Cardinality(Held(f)) + g[1]
<1>1. PICK D, h : D = 2..(m + 1) /\ h = [k \in D |-> g[k]]
  OBVIOUS
<1>2. IsFiniteSet(D) /\ 1 \notin D /\ 1..(m + 1) = D \cup {1} /\ h \in [D -> 0..Room]
  <2>1. IsFiniteSet(2..(m + 1))
    BY FS_Interval
  <2>2. 1..(m + 1) = 2..(m + 1) \cup {1} /\ 1 \notin 2..(m + 1)
    OBVIOUS
  <2> QED
    BY <1>1, <2>1, <2>2
<1>3. Cardinality(Held(g)) = Cardinality(Held(h)) + g[1]
  <2>1. \A d \in D : g[d] = h[d]
    BY <1>1
  <2>2. g \in [D \cup {1} -> 0..Room]
    BY <1>2
  <2>3. HoldsOneMore(D, 1, h, g)
    BY <1>2, <2>1, <2>2 DEF HoldsOneMore
  <2> QED
    BY <2>3, HeldMore
<1>4. IsFiniteSet(1..m)
  BY FS_Interval
<1>5. PICK up : up = [x \in Held(f) |-> <<x[1] + 1, x[2]>>]
  OBVIOUS
<1>6. up \in Bijection(Held(f), Held(h))
  <2>1. \A x \in Held(f) : /\ x[1] \in 1..m /\ x[2] \in 1..Room /\ x[2] =< f[x[1]]
                           /\ x = <<x[1], x[2]>>
    BY DEF Held
  <2>2. \A x \in Held(f) : up[x] \in Held(h)
    <3>1. ASSUME NEW x \in Held(f) PROVE up[x] \in Held(h)
      <4>1. x[1] + 1 \in D /\ h[x[1] + 1] = f[x[1]] /\ up[x] = <<x[1] + 1, x[2]>>
        BY <1>1, <1>5, <2>1
      <4> QED
        BY <1>1, <2>1, <4>1 DEF Held
    <3> QED
      BY <3>1
  <2>3. \A x, y \in Held(f) : up[x] = up[y] => x = y
    <3>1. ASSUME NEW x \in Held(f), NEW y \in Held(f), up[x] = up[y] PROVE x = y
      <4>1. x[1] + 1 = y[1] + 1 /\ x[2] = y[2]
        BY <1>5, <3>1
      <4>2. x[1] = y[1]
        BY <2>1, <4>1
      <4> QED
        BY <2>1, <4>1, <4>2
    <3> QED
      BY <3>1
  <2>4. \A y \in Held(h) : \E x \in Held(f) : up[x] = y
    <3>1. ASSUME NEW y \in Held(h) PROVE \E x \in Held(f) : up[x] = y
      <4>1. y[1] \in 2..(m + 1) /\ y[2] \in 1..Room /\ y[2] =< g[y[1]] /\ y = <<y[1], y[2]>>
        BY <1>1 DEF Held
      <4>2. PICK k \in 1..m : k + 1 = y[1] /\ f[k] = g[y[1]]
        <5>1. y[1] - 1 \in 1..m /\ (y[1] - 1) + 1 = y[1]
          BY <4>1
        <5> QED
          BY <5>1
      <4>3. <<k, y[2]>> \in Held(f)
        BY <4>1, <4>2 DEF Held
      <4>4. up[<<k, y[2]>>] = y
        BY <1>5, <4>1, <4>2, <4>3
      <4> QED
        BY <4>3, <4>4
    <3> QED
      BY <3>1
  <2>5. up \in [Held(f) -> Held(h)]
    BY <1>5, <2>2
  <2> QED
    BY <2>3, <2>4, <2>5 DEF Bijection, Injection, Surjection, IsInjective
<1>7. Cardinality(Held(h)) = Cardinality(Held(f))
  BY <1>4, <1>6, HeldSet, FS_Bijection DEF ExistsBijection
<1> QED
  BY <1>3, <1>7

-----------------------------------------------------------------------------
(* Room is counted for what is in the queue and about to be put there.     *)

Queued(q) == [k \in DOMAIN q |-> q[k].n]
Posting(T) == [i \in I!Ids |-> IF T[i].step = "post" THEN T[i].size ELSE 0]
RoomQueued(q) == Cardinality(Held(Queued(q)))
RoomPosting(T) == Cardinality(Held(Posting(T)))

LEMMA RoomQueuedNat ==
  ASSUME NEW q \in Seq(Events)
  PROVE  Queued(q) \in [1..Len(q) -> 0..Room] /\ RoomQueued(q) \in Nat
<1>1. Queued(q) \in [1..Len(q) -> 0..Room]
  BY DEF Queued, Events
<1>2. IsFiniteSet(1..Len(q))
  BY FS_Interval, LenProperties
<1> QED
  BY <1>1, <1>2, HeldSet, IdsFacts DEF RoomQueued

LEMMA RoomPostingNat ==
  ASSUME NEW T \in [I!Ids -> TaskRecord]
  PROVE  Posting(T) \in [I!Ids -> 0..Room] /\ RoomPosting(T) \in Nat
<1>1. Posting(T) \in [I!Ids -> 0..Room]
  <2>1. \A i \in I!Ids : T[i].size \in 0..Room
    BY DEF TaskRecord
  <2> QED
    BY <2>1, IdsFacts DEF Posting
<1> QED
  BY <1>1, HeldSet, IdsFacts DEF RoomPosting

LEMMA RoomPosted ==
  ASSUME QueueTyped, NEW e \in Events, Posted(e)
  PROVE  RoomQueued(queue') = IF I!Full THEN RoomQueued(queue) ELSE RoomQueued(queue) + e.n
<1>1. PICK q \in Seq(Events), r \in Seq(Events) : q = queue /\ r = queue'
  BY DEF QueueTyped, Posted
<1>2. CASE I!Full
  BY <1>2 DEF Posted
<1>3. CASE ~I!Full
  <2>1. PICK m \in Nat : m = Len(q) /\ Len(r) = m + 1 /\ r[m + 1] = e
    BY <1>1, <1>3, LenProperties DEF Posted
  <2>2. /\ Queued(q) \in [1..m -> 0..Room] /\ Queued(r) \in [1..(m + 1) -> 0..Room]
        /\ \A k \in 1..m : Queued(r)[k] = Queued(q)[k]
    <3>1. Queued(q) \in [1..m -> 0..Room] /\ Queued(r) \in [1..(m + 1) -> 0..Room]
      BY <2>1, RoomQueuedNat
    <3>2. ASSUME NEW k \in 1..m PROVE Queued(r)[k] = Queued(q)[k]
      <4>1. k \in 1..Len(r) /\ r[k] = q[k]
        BY <1>1, <2>1 DEF Posted
      <4> QED
        BY <2>1, <4>1 DEF Queued
    <3> QED
      BY <3>1, <3>2
  <2>3. Queued(r)[m + 1] = e.n
    BY <2>1 DEF Queued
  <2>4. HoldsOneMore(1..m, m + 1, Queued(q), Queued(r))
    <3>1. IsFiniteSet(1..m) /\ m + 1 \notin 1..m /\ 1..(m + 1) = 1..m \cup {m + 1}
      BY FS_Interval
    <3> QED
      BY <2>2, <3>1 DEF HoldsOneMore
  <2>5. RoomQueued(r) = RoomQueued(q) + e.n
    BY <2>3, <2>4, HeldMore, IdsFacts DEF RoomQueued
  <2> QED
    BY <1>1, <1>3, <2>5
<1> QED
  BY <1>2, <1>3

LEMMA RoomTaken ==
  ASSUME QueueTyped, NEW e, TakenOut(e)
  PROVE  e.n \in 0..Room /\ RoomQueued(queue) = RoomQueued(queue') + e.n
<1>1. PICK q \in Seq(Events), r \in Seq(Events) : q = queue /\ r = queue'
  BY DEF QueueTyped, TakenOut
<1>2. PICK m \in Nat : m = Len(r) /\ Len(q) = m + 1
  BY <1>1, LenProperties DEF TakenOut
<1>3. Queued(r) \in [1..m -> 0..Room] /\ Queued(q) \in [1..(m + 1) -> 0..Room]
  BY <1>2, RoomQueuedNat
<1>4. ASSUME NEW k \in 1..m PROVE Queued(r)[k] = Queued(q)[k + 1]
  <2>1. r[k] = q[k + 1] /\ k + 1 \in 1..Len(q)
    BY <1>1, <1>2 DEF TakenOut
  <2> QED
    BY <1>2, <2>1 DEF Queued
<1>5. Queued(q)[1] = e.n /\ e.n \in 0..Room
  BY <1>1, <1>2 DEF Queued, TakenOut, Events
<1>6. Cardinality(Held(Queued(q))) = Cardinality(Held(Queued(r))) + Queued(q)[1]
  BY <1>3, <1>4, HeldLater, IdsFacts
<1> QED
  BY <1>1, <1>5, <1>6 DEF RoomQueued

LEMMA RoomOfOne ==
  ASSUME NEW T \in [I!Ids -> TaskRecord], NEW U \in [I!Ids -> TaskRecord], NEW i \in I!Ids,
         \A j \in I!Ids \ {i} : U[j].step = T[j].step /\ U[j].size = T[j].size
  PROVE  RoomPosting(U) + Posting(T)[i] = RoomPosting(T) + Posting(U)[i]
<1>1. PICK f \in [I!Ids -> 0..Room], g \in [I!Ids -> 0..Room] : f = Posting(T) /\ g = Posting(U)
  BY RoomPostingNat
<1>2. \A j \in I!Ids \ {i} : g[j] = f[j]
  BY <1>1 DEF Posting
<1>3. Cardinality(Held(g)) + f[i] = Cardinality(Held(f)) + g[i]
  <2>1. IsFiniteSet(I!Ids) /\ Room \in Nat
    BY IdsFacts
  <2> QED
    BY <1>2, <2>1, HeldInstead
<1> QED
  BY <1>1, <1>3, Zenon DEF RoomPosting

LEMMA RoomOfNone ==
  ASSUME NEW T, NEW U, \A j \in I!Ids : U[j].step = T[j].step /\ U[j].size = T[j].size
  PROVE  RoomPosting(U) = RoomPosting(T)
<1>1. Posting(U) = Posting(T)
  BY DEF Posting
<1> QED
  BY <1>1 DEF RoomPosting

LEMMA RoomOfEmpty ==
  ASSUME NEW T, T = [i \in I!Ids |-> I!Unused], NEW q, q = <<>>
  PROVE  RoomPosting(T) = 0 /\ RoomQueued(q) = 0
<1>1. Held(Posting(T)) = {}
  <2>1. PICK f : f = Posting(T)
    OBVIOUS
  <2>2. DOMAIN f = I!Ids
    BY <2>1 DEF Posting
  <2>3. \A i \in I!Ids : f[i] = 0
    BY <2>1, UnusedTyped DEF Posting
  <2>4. \A x \in I!Ids \X (1..Room) : x[1] \in I!Ids /\ ~(x[2] =< 0)
    OBVIOUS
  <2>5. Held(f) = {}
    BY <2>2, <2>3, <2>4 DEF Held
  <2> QED
    BY <2>1, <2>5
<1>2. Held(Queued(q)) = {}
  BY DEF Held, Queued
<1> QED
  BY <1>1, <1>2, FS_EmptySet DEF RoomPosting, RoomQueued

Balance == RoomQueued(queue) + RoomPosting(tasks)

\* A task that sleeps and was not notified does so for want of room.
Asleep(i) ==
  I!Runs /\ tasks[i].step = "asleep" /\ "notified" \notin tasks[i].marks
    => used + tasks[i].size > Room

AccountInv ==
  /\ Len(queue) =< Places
  /\ used \in 0..Room /\ Balance =< used
  /\ I!Runs => used = Balance
  /\ \A i \in I!Ids : Asleep(i)

Typed == TasksTyped /\ ActionsInv /\ wire \in [Sockets -> Seq(Int)]

LEMMA BalanceNat ==
  ASSUME Typed
  PROVE  /\ QueueTyped /\ RoomQueued(queue) \in Nat /\ RoomPosting(tasks) \in Nat
         /\ Balance = RoomQueued(queue) + RoomPosting(tasks) /\ Balance \in Nat
         /\ \A i \in I!Ids : tasks[i] \in TaskRecord /\ tasks[i].size \in 0..Room
         /\ Room \in Nat /\ Places \in Nat
<1>1. QueueTyped /\ RoomQueued(queue) \in Nat /\ RoomPosting(tasks) \in Nat
  BY RoomQueuedNat, RoomPostingNat DEF Typed, TasksTyped, ActionsInv, QueueTyped
<1>2. \A i \in I!Ids : tasks[i] \in TaskRecord /\ tasks[i].size \in 0..Room
  BY DEF Typed, TasksTyped, TaskRecord
<1>3. Balance = RoomQueued(queue) + RoomPosting(tasks)
  BY DEF Balance
<1>4. \A a, b \in Nat : a + b \in Nat
  OBVIOUS
<1> QED
  BY <1>1, <1>2, <1>3, <1>4, IdsFacts

LEMMA BalanceNext ==
  ASSUME Typed'
  PROVE  /\ RoomQueued(queue') \in Nat /\ RoomPosting(tasks') \in Nat
         /\ Balance' = RoomQueued(queue') + RoomPosting(tasks') /\ Balance' \in Nat
<1>1. RoomQueued(queue') \in Nat /\ RoomPosting(tasks') \in Nat
  BY RoomQueuedNat, RoomPostingNat DEF Typed, TasksTyped, ActionsInv, QueueTyped
<1>2. Balance' = RoomQueued(queue') + RoomPosting(tasks')
  BY DEF Balance
<1>3. \A a, b \in Nat : a + b \in Nat
  OBVIOUS
<1> QED
  BY <1>1, <1>2, <1>3

\* No more runs than did.
LEMMA RunsOn ==
  ASSUME ActionsInv, I!Next
  PROVE  I!Runs' => I!Runs
<1>1. CASE UNCHANGED thread
  BY <1>1 DEF I!Runs
<1>2. CASE thread \in {"call", "wait"} \/ thread' \in {"drain", "drop", "gone"}
  BY <1>2 DEF I!Runs
<1>3. CASE I!Thread
  BY <1>2, <1>3 DEF I!Thread, I!TakeAction, I!TakeOpen, I!TakeMessage, I!TakeClosed, I!TakeHttp,
     I!TakeTimer, I!Takes, I!Return, I!Breaks, I!Exits, I!Refuses, I!Gone
<1>4. CASE I!Stop
  BY <1>1, <1>4 DEF I!Stop
<1>5. CASE \E a \in Actions : I!PostAction(a)
  BY <1>1, <1>5 DEF I!PostAction, I!life
<1>6. CASE I!Guest
  BY <1>1, <1>6 DEF I!Guest, I!OpenSocket, I!Fetch, I!Send, I!Close, I!SetTimer, I!CancelTimer, I!life
<1>7. CASE I!Task
  BY <1>1, <1>7 DEF I!Task, I!Check, I!Freed, I!Post, I!Connected, I!Ends, I!Sends, I!Writes, I!Finish,
     I!GivesUp, I!Drain, I!DrainFails, I!Closing, I!Receives, I!Answered, I!Fires, I!life
<1> QED
  BY <1>3, <1>4, <1>5, <1>6, <1>7 DEF I!Next

\* The books move together.
LEMMA AccountMoves ==
  ASSUME AccountInv, Typed, Typed', I!Runs' => I!Runs, Len(queue') =< Places,
         used' \in 0..Room, used' + Balance = used + Balance', \A i \in I!Ids : Asleep(i)'
  PROVE  AccountInv'
<1>1. Balance \in Nat /\ Balance' \in Nat /\ used \in Nat /\ used' \in Nat /\ Balance =< used
  <2>1. used \in 0..Room /\ used' \in 0..Room /\ Balance =< used /\ Room \in Nat
    BY IdsFacts DEF AccountInv
  <2> QED
    BY <2>1, BalanceNat, BalanceNext
<1>2. Balance' =< used' /\ (used = Balance => used' = Balance')
  BY <1>1
<1> QED
  BY <1>2 DEF AccountInv

\* Nothing happens to the room, and no task falls asleep.
LEMMA AccountStands ==
  ASSUME AccountInv, Typed, Typed', I!Runs' => I!Runs, Len(queue') =< Places,
         used' = used, Balance' = Balance,
         \A i \in I!Ids : tasks'[i].step = "asleep" /\ "notified" \notin tasks'[i].marks
             => /\ tasks[i].step = "asleep" /\ "notified" \notin tasks[i].marks
                /\ tasks'[i].size = tasks[i].size
  PROVE  AccountInv'
<1>1. ASSUME NEW i \in I!Ids PROVE Asleep(i)'
  <2>1. Asleep(i)
    BY DEF AccountInv
  <2> QED
    BY <2>1 DEF Asleep
<1>2. used' \in 0..Room /\ used' + Balance = used + Balance'
  BY DEF AccountInv
<1> QED
  BY <1>1, <1>2, AccountMoves

\* Room is given back, and every task that sleeps is notified.
LEMMA AccountReleases ==
  ASSUME AccountInv, Typed, Typed', I!Runs' => I!Runs, Len(queue') =< Places,
         NEW n \in Nat, used' = used - n, Balance = Balance' + n,
         \A i \in I!Ids : tasks'[i].step = "asleep" => "notified" \in tasks'[i].marks
  PROVE  AccountInv'
<1>1. \A i \in I!Ids : Asleep(i)'
  BY DEF Asleep
<1>2. Balance \in Nat /\ Balance' \in Nat /\ Balance =< used /\ used \in 0..Room
  BY BalanceNat, BalanceNext DEF AccountInv
<1>3. used' \in 0..Room /\ used' + Balance = used + Balance'
  <2>1. PICK a \in Nat, b \in Nat, u \in 0..Room : a = Balance /\ b = Balance' /\ u = used
    BY <1>2
  <2>2. a =< u /\ a = b + n /\ used' = u - n /\ Room \in Nat
    BY <1>2, <2>1, IdsFacts
  <2>3. u - n \in 0..Room /\ (u - n) + a = u + b
    BY <2>2
  <2> QED
    BY <2>1, <2>2, <2>3
<1> QED
  BY <1>1, <1>3, AccountMoves

LEMMA PostedFits ==
  ASSUME Len(queue) =< Places, NEW e, Posted(e), QueueTyped
  PROVE  Len(queue') =< Places
<1>1. Len(queue) \in Nat /\ Places \in Nat
  BY IdsFacts, LenProperties DEF QueueTyped
<1> QED
  BY <1>1 DEF Posted, I!Full

LEMMA TakenFits ==
  ASSUME Len(queue) =< Places, NEW e, TakenOut(e), QueueTyped
  PROVE  Len(queue') =< Places
<1>1. Len(queue) \in Nat /\ Places \in Nat
  BY IdsFacts, LenProperties DEF QueueTyped
<1> QED
  BY <1>1 DEF TakenOut

\* A task that is not about to post moves to a step where it is not either.
LEMMA AccountSteps ==
  ASSUME AccountInv, Typed, Typed', I!Runs' => I!Runs, NEW i \in I!Ids,
         NEW to, NEW data, NEW pending, NEW size, NEW marks,
         Becoming(tasks', i, to, data, pending, size, marks),
         tasks[i].step # "post", to # "post", to # "asleep", used' = used,
         RoomQueued(queue') = RoomQueued(queue), Len(queue') =< Places
  PROVE  AccountInv'
<1>1. /\ tasks \in [I!Ids -> TaskRecord] /\ tasks' \in [I!Ids -> TaskRecord]
      /\ \A j \in I!Ids \ {i} : tasks'[j] = tasks[j]
      /\ tasks'[i].step = to
  BY DEF Typed, TasksTyped, Becoming
<1>2. Posting(tasks)[i] = 0 /\ Posting(tasks')[i] = 0
  BY <1>1 DEF Posting
<1>3. RoomPosting(tasks') + 0 = RoomPosting(tasks) + 0
  <2>1. \A j \in I!Ids \ {i} : tasks'[j].step = tasks[j].step /\ tasks'[j].size = tasks[j].size
    BY <1>1
  <2> QED
    BY <1>1, <1>2, <2>1, RoomOfOne
<1>4. Balance' = Balance
  <2>1. RoomPosting(tasks) \in Nat /\ RoomPosting(tasks') \in Nat
    BY <1>1, RoomPostingNat
  <2> QED
    BY <1>3, <2>1 DEF Balance
<1>5. ASSUME NEW j \in I!Ids, tasks'[j].step = "asleep" /\ "notified" \notin tasks'[j].marks
      PROVE  /\ tasks[j].step = "asleep" /\ "notified" \notin tasks[j].marks
             /\ tasks'[j].size = tasks[j].size
  BY <1>1, <1>5
<1> QED
  BY <1>4, <1>5, AccountStands

\* The same, and something without data is posted.
LEMMA AccountPosts ==
  ASSUME AccountInv, Typed, Typed', I!Runs' => I!Runs, NEW e \in Events, I!Posts(e), e.n = 0
  PROVE  RoomQueued(queue') = RoomQueued(queue) /\ Len(queue') =< Places
<1>1. QueueTyped /\ RoomQueued(queue) \in Nat
  BY BalanceNat
<1>2. Posted(e)
  BY <1>1, PostsEvent
<1> QED
  BY <1>1, <1>2, RoomPosted, PostedFits DEF AccountInv

LEMMA AccountCheck ==
  ASSUME AccountInv, Typed, Typed', I!Runs' => I!Runs, NEW i \in I!Ids, I!Check(i)
  PROVE  AccountInv'
<1>1. tasks[i].step = "check" /\ queue' = queue /\ thread' = thread
  BY DEF I!Check, I!life
<1>2. PICK n \in 0..Room : n = tasks[i].size
  BY BalanceNat
<1>3. /\ Balance = RoomQueued(queue) + RoomPosting(tasks)
      /\ Balance' = RoomQueued(queue) + RoomPosting(tasks')
      /\ RoomQueued(queue) \in Nat /\ RoomPosting(tasks) \in Nat /\ RoomPosting(tasks') \in Nat
      /\ used \in 0..Room /\ Room \in Nat /\ Len(queue') =< Places
  <2>1. used \in 0..Room /\ Len(queue') =< Places
    BY <1>1 DEF AccountInv
  <2>2. Balance' = RoomQueued(queue) + RoomPosting(tasks') /\ RoomPosting(tasks') \in Nat
    BY <1>1, BalanceNext
  <2> QED
    BY <2>1, <2>2, BalanceNat
<1>4. ASSUME NEW to \in {"post", "asleep"}, Steps(i, to, tasks[i].size, tasks[i].marks)
      PROVE  /\ \A j \in I!Ids \ {i} : tasks'[j] = tasks[j]
             /\ RoomPosting(tasks') = RoomPosting(tasks) + (IF to = "post" THEN n ELSE 0)
             /\ tasks'[i].step = to /\ tasks'[i].size = n
  <2>1. /\ tasks \in [I!Ids -> TaskRecord] /\ tasks' \in [I!Ids -> TaskRecord]
        /\ \A j \in I!Ids \ {i} : tasks'[j] = tasks[j]
        /\ tasks'[i].step = to /\ tasks'[i].size = n
    BY <1>2, <1>4 DEF Typed, TasksTyped, Steps, Becoming
  <2>2. Posting(tasks)[i] = 0 /\ Posting(tasks')[i] = IF to = "post" THEN n ELSE 0
    BY <1>1, <2>1 DEF Posting
  <2>3. RoomPosting(tasks') + 0 = RoomPosting(tasks) + (IF to = "post" THEN n ELSE 0)
    <3>1. \A j \in I!Ids \ {i} : tasks'[j].step = tasks[j].step /\ tasks'[j].size = tasks[j].size
      BY <2>1
    <3> QED
      BY <2>1, <2>2, <3>1, RoomOfOne
  <2> QED
    BY <1>3, <2>1, <2>3
<1>5. CASE /\ Steps(i, "post", tasks[i].size, tasks[i].marks)
           /\ used + tasks[i].size <= Room /\ used' = used + tasks[i].size
  <2>1. RoomPosting(tasks') = RoomPosting(tasks) + n /\ \A j \in I!Ids \ {i} : tasks'[j] = tasks[j]
    BY <1>4, <1>5
  <2>2. used' = used + n /\ used' \in 0..Room /\ Balance' = Balance + n
    <3>1. PICK u \in 0..Room : u = used
      BY <1>3
    <3>2. used' = u + n /\ u + n =< Room
      BY <1>2, <1>5, <3>1
    <3>3. u + n \in 0..Room
      BY <1>3, <3>2
    <3>4. Balance' = Balance + n
      <4>1. PICK a \in Nat, b \in Nat, c \in Nat :
              a = RoomQueued(queue) /\ b = RoomPosting(tasks) /\ c = RoomPosting(tasks')
        BY <1>3
      <4>2. Balance = a + b /\ Balance' = a + c /\ c = b + n
        BY <1>3, <2>1, <4>1
      <4> QED
        BY <4>2
    <3> QED
      BY <3>1, <3>2, <3>3, <3>4
  <2>3. used' + Balance = used + Balance'
    BY <1>3, <2>2
  <2>4. ASSUME NEW j \in I!Ids PROVE Asleep(j)'
    <3>1. CASE j = i
      BY <1>4, <1>5, <3>1 DEF Asleep
    <3>2. CASE j # i
      <4>1. Asleep(j) /\ tasks'[j] = tasks[j] /\ tasks[j].size \in 0..Room
        BY <2>1, <3>2, BalanceNat DEF AccountInv
      <4>2. used + tasks[j].size > Room => used' + tasks[j].size > Room
        <5>1. PICK u \in 0..Room, z \in 0..Room : u = used /\ z = tasks[j].size
          BY <1>3, <4>1
        <5>2. u + z > Room => (u + n) + z > Room
          BY <1>3
        <5> QED
          BY <2>2, <5>1, <5>2
      <4> QED
        BY <4>1, <4>2 DEF Asleep
    <3> QED
      BY <3>1, <3>2
  <2> QED
    BY <1>3, <2>2, <2>3, <2>4, AccountMoves
<1>6. CASE /\ Steps(i, "asleep", tasks[i].size, tasks[i].marks)
           /\ ~(used + tasks[i].size <= Room) /\ used' = used
  <2>1. Balance' = Balance
    BY <1>3, <1>4, <1>6
  <2>2. used' \in 0..Room /\ used' + Balance = used + Balance'
    BY <1>3, <1>6, <2>1
  <2>3. ASSUME NEW j \in I!Ids PROVE Asleep(j)'
    <3>1. CASE j = i
      <4>1. used' + tasks'[i].size > Room
        BY <1>2, <1>3, <1>4, <1>6
      <4> QED
        BY <3>1, <4>1 DEF Asleep
    <3>2. CASE j # i
      <4>1. Asleep(j) /\ tasks'[j] = tasks[j]
        BY <1>4, <1>6, <3>2 DEF AccountInv
      <4> QED
        BY <1>6, <4>1 DEF Asleep
    <3> QED
      BY <3>1, <3>2
  <2> QED
    BY <1>3, <2>2, <2>3, AccountMoves
<1> QED
  BY <1>5, <1>6, CheckTask DEF Typed

LEMMA AccountPost ==
  ASSUME AccountInv, Typed, Typed', I!Runs' => I!Runs, NEW i \in I!Ids, I!Post(i)
  PROVE  AccountInv'
<1>1. PICK n \in 0..Room : n = tasks[i].size
  BY BalanceNat
<1>2. PICK e \in Events : I!Posts(e) /\ e.n = n
  <2>1. I!Posts(I!Event(IF i \in Sockets THEN "message" ELSE "http", i, tasks[i].size))
    BY DEF I!Post
  <2>2. I!Event(IF i \in Sockets THEN "message" ELSE "http", i, tasks[i].size) \in Events
    BY EventsTyped DEF Typed
  <2>3. I!Event(IF i \in Sockets THEN "message" ELSE "http", i, tasks[i].size).n = n
    BY <1>1 DEF I!Event
  <2> QED
    BY <2>1, <2>2, <2>3
<1>3. Posted(e) /\ Len(queue') =< Places
  BY <1>2, PostsEvent, PostedFits, BalanceNat DEF AccountInv
<1>4. PICK T \in [I!Ids -> TaskRecord] :
        /\ Becoming(T, i, IF i \in Sockets THEN "relay" ELSE "done", tasks[i].data,
                    tasks[i].pending, 0, tasks[i].marks)
        /\ I!Full => Notified(T) /\ used' = used - tasks[i].size
        /\ ~I!Full => tasks' = T /\ used' = used
  BY PostTask DEF Typed
<1>5. RoomPosting(T) + n = RoomPosting(tasks)
  <2>1. \A j \in I!Ids \ {i} : T[j].step = tasks[j].step /\ T[j].size = tasks[j].size
    BY <1>4 DEF Becoming
  <2>2. Posting(T)[i] = 0 /\ Posting(tasks)[i] = n
    BY <1>1, <1>4 DEF Becoming, Posting, I!Post
  <2>3. RoomPosting(T) + n = RoomPosting(tasks) + 0
    BY <2>1, <2>2, RoomOfOne DEF Typed, TasksTyped
  <2> QED
    BY <2>3, BalanceNat
<1>6. RoomPosting(T) \in Nat /\ RoomPosting(tasks) \in Nat /\ RoomQueued(queue) \in Nat
  BY <1>4, RoomPostingNat, BalanceNat
<1>7. CASE I!Full
  <2>1. RoomQueued(queue') = RoomQueued(queue) /\ used' = used - n /\ Notified(T)
    BY <1>1, <1>3, <1>4, <1>7, RoomPosted, BalanceNat
  <2>2. RoomPosting(tasks') = RoomPosting(T)
    BY <2>1, RoomOfNone DEF Notified
  <2>3. Balance = Balance' + n
    BY <1>5, <1>6, <2>1, <2>2 DEF Balance
  <2>4. \A j \in I!Ids : tasks'[j].step = "asleep" => "notified" \in tasks'[j].marks
    BY <2>1 DEF Notified
  <2>5. n \in Nat
    OBVIOUS
  <2> QED
    BY <1>3, <2>1, <2>3, <2>4, <2>5, AccountReleases
<1>8. CASE ~I!Full
  <2>1. RoomQueued(queue') = RoomQueued(queue) + n /\ used' = used /\ tasks' = T
    BY <1>2, <1>3, <1>4, <1>8, RoomPosted, BalanceNat
  <2>2. Balance' = Balance
    BY <1>5, <1>6, <2>1 DEF Balance
  <2>3. ASSUME NEW j \in I!Ids, tasks'[j].step = "asleep" /\ "notified" \notin tasks'[j].marks
        PROVE  /\ tasks[j].step = "asleep" /\ "notified" \notin tasks[j].marks
               /\ tasks'[j].size = tasks[j].size
    BY <1>4, <2>1, <2>3 DEF Becoming
  <2> QED
    BY <1>3, <2>1, <2>2, <2>3, AccountStands
<1> QED
  BY <1>7, <1>8

LEMMA AccountTask ==
  ASSUME AccountInv, Typed, Typed', I!Runs' => I!Runs, I!Task
  PROVE  AccountInv'
<1>1. ASSUME NEW i \in I!Ids, NEW to, NEW data, NEW pending, NEW size, NEW marks,
             Becoming(tasks', i, to, data, pending, size, marks),
             tasks[i].step # "post", to # "post", to # "asleep", UNCHANGED <<used, queue>>
      PROVE  AccountInv'
  <2>1. RoomQueued(queue') = RoomQueued(queue) /\ Len(queue') =< Places
    BY <1>1 DEF AccountInv
  <2> QED
    BY <1>1, <2>1, AccountSteps
<1>2. ASSUME NEW i \in I!Ids, I!Freed(i) PROVE AccountInv'
  <2>1. tasks[i].step = "asleep" /\ UNCHANGED <<used, queue>>
    BY <1>2 DEF I!Freed
  <2> QED
    BY <1>1, <1>2, <2>1, FreedTask DEF Typed, Steps
<1>3. ASSUME NEW s \in Sockets, I!Connected(s) PROVE AccountInv'
  <2>1. tasks[s].step = "opening" /\ used' = used /\ I!Posts(I!Event("open", s, 0)) /\ s \in I!Ids
    BY <1>3, IdsFacts DEF I!Connected
  <2>2. RoomQueued(queue') = RoomQueued(queue) /\ Len(queue') =< Places
    BY <2>1, EventsTyped, AccountPosts DEF Typed, I!Event
  <2> QED
    BY <1>3, <2>1, <2>2, ConnectedTask, AccountSteps DEF Typed, Steps
<1>4. ASSUME NEW s \in Sockets, I!Closing(s) PROVE AccountInv'
  <2>1. tasks[s].step = "closing" /\ used' = used /\ I!Posts(I!Event("closed", s, 0)) /\ s \in I!Ids
    BY <1>4, IdsFacts DEF I!Closing
  <2>2. RoomQueued(queue') = RoomQueued(queue) /\ Len(queue') =< Places
    BY <2>1, EventsTyped, AccountPosts DEF Typed, I!Event
  <2>3. PICK marks : Steps(s, "done", tasks[s].size, marks)
    BY <1>4, ClosingTask DEF Typed
  <2> QED
    BY <2>1, <2>2, <2>3, AccountSteps DEF Steps
<1>5. ASSUME NEW s \in Sockets, I!Ends(s) PROVE AccountInv'
  <2>1. tasks[s].step # "post" /\ UNCHANGED <<used, queue>> /\ s \in I!Ids
    BY <1>5, IdsFacts DEF I!Ends
  <2> QED
    BY <1>1, <1>5, <2>1, EndsTask DEF Typed
<1>6. ASSUME NEW s \in Sockets, I!Sends(s) PROVE AccountInv'
  <2>1. tasks[s].step # "post" /\ UNCHANGED <<used, queue>> /\ s \in I!Ids
    BY <1>6, IdsFacts DEF I!Sends
  <2>2. PICK p \in Int, to \in {"write", "drain"} :
          Becoming(tasks', s, to, Tail(tasks[s].data), <<2 * p - 1, 2 * p>>,
                   tasks[s].size, tasks[s].marks)
    BY <1>6, SendsTask DEF Typed
  <2> QED
    BY <1>1, <2>1, <2>2
<1>7. ASSUME NEW s \in Sockets, I!Writes(s) PROVE AccountInv'
  <2>1. tasks[s].step # "post" /\ UNCHANGED <<used, queue>> /\ s \in I!Ids
    BY <1>7, IdsFacts DEF I!Writes
  <2>2. PICK p \in Int, rest \in Seq(Int), to \in {"relay", "write", "drain"} :
          Becoming(tasks', s, to, tasks[s].data, rest, tasks[s].size, tasks[s].marks)
    BY <1>7, WritesTask DEF Typed
  <2> QED
    BY <1>1, <2>1, <2>2
<1>8. ASSUME NEW s \in Sockets, I!Finish(s) PROVE AccountInv'
  <2>1. tasks[s].step # "post" /\ UNCHANGED <<used, queue>> /\ s \in I!Ids
    BY <1>8, IdsFacts DEF I!Finish
  <2> QED
    BY <1>1, <1>8, <2>1, FinishTask DEF Typed, Steps
<1>9. ASSUME NEW s \in Sockets, I!GivesUp(s) PROVE AccountInv'
  <2>1. tasks[s].step # "post" /\ UNCHANGED <<used, queue>> /\ s \in I!Ids
    BY <1>9, IdsFacts DEF I!GivesUp
  <2> QED
    BY <1>1, <1>9, <2>1, GivesUpTask DEF Typed
<1>10. ASSUME NEW s \in Sockets, I!Drain(s) PROVE AccountInv'
  <2>1. tasks[s].step # "post" /\ UNCHANGED <<used, queue>> /\ s \in I!Ids
    BY <1>10, IdsFacts DEF I!Drain
  <2> QED
    BY <1>1, <1>10, <2>1, DrainTask DEF Typed, Steps
<1>11. ASSUME NEW s \in Sockets, I!DrainFails(s) PROVE AccountInv'
  <2>1. tasks[s].step # "post" /\ UNCHANGED <<used, queue>> /\ s \in I!Ids
    BY <1>11, IdsFacts DEF I!DrainFails
  <2> QED
    BY <1>1, <1>11, <2>1, DrainFailsTask DEF Typed
<1>12. ASSUME NEW s \in Sockets, NEW n \in Sizes, I!Receives(s, n) PROVE AccountInv'
  <2>1. tasks[s].step # "post" /\ UNCHANGED <<used, queue>> /\ s \in I!Ids
    BY <1>12, IdsFacts DEF I!Receives
  <2> QED
    BY <1>1, <1>12, <2>1, ReceivesTask DEF Typed, Steps
<1>13. ASSUME NEW r \in Requests, NEW n \in Sizes \cup {0}, I!Answered(r, n) PROVE AccountInv'
  <2>1. tasks[r].step # "post" /\ UNCHANGED <<used, queue>> /\ r \in I!Ids
    BY <1>13, IdsFacts DEF I!Answered
  <2> QED
    BY <1>1, <1>13, <2>1, AnsweredTask DEF Typed, Steps
<1>14. ASSUME NEW t \in Timers, I!Fires(t) PROVE AccountInv'
  <2>1. UNCHANGED <<used, tasks>> /\ I!Posts(I!Event("timer", t, 0))
    BY <1>14 DEF I!Fires, I!net
  <2>2. RoomQueued(queue') = RoomQueued(queue) /\ Len(queue') =< Places
    BY <2>1, EventsTyped, AccountPosts DEF Typed, I!Event
  <2> QED
    BY <2>1, <2>2, AccountStands DEF Balance
<1> QED
  BY <1>2, <1>3, <1>4, <1>5, <1>6, <1>7, <1>8, <1>9, <1>10, <1>11, <1>12, <1>13, <1>14,
     AccountCheck, AccountPost DEF I!Task

LEMMA AccountGuest ==
  ASSUME AccountInv, Typed, Typed', I!Runs' => I!Runs, I!Guest
  PROVE  AccountInv'
<1>1. UNCHANGED <<used, queue>>
  BY DEF I!Guest, I!OpenSocket, I!Fetch, I!Send, I!Close, I!SetTimer, I!CancelTimer, I!net
<1>2. Len(queue') =< Places /\ RoomQueued(queue') = RoomQueued(queue)
  BY <1>1 DEF AccountInv
<1>3. CASE tasks' = tasks
  BY <1>1, <1>2, <1>3, AccountStands DEF Balance
<1>4. ASSUME NEW i \in I!Ids, tasks[i].step = "unused",
             Steps(i, "opening", tasks[i].size, tasks[i].marks)
      PROVE  AccountInv'
  BY <1>1, <1>2, <1>4, AccountSteps DEF Steps
<1>5. CASE I!OpenSocket
  BY <1>3, <1>4, <1>5, OpenSocketTask, IdsFacts DEF Typed
<1>6. CASE I!Fetch
  BY <1>3, <1>4, <1>6, FetchTask, IdsFacts DEF Typed
<1>7. ASSUME NEW s \in Sockets, I!Send(s) PROVE AccountInv'
  <2>1. tasks' = [tasks EXCEPT ![s].data = Append(@, sent'[s])]
    BY <1>7 DEF I!Send
  <2>2. \A j \in I!Ids : /\ tasks'[j].step = tasks[j].step /\ tasks'[j].size = tasks[j].size
                         /\ tasks'[j].marks = tasks[j].marks
    BY <2>1 DEF Typed, TasksTyped, TaskRecord
  <2>3. RoomPosting(tasks') = RoomPosting(tasks)
    BY <2>2, RoomOfNone
  <2> QED
    BY <1>1, <1>2, <2>2, <2>3, AccountStands DEF Balance
<1>8. CASE tasks' # tasks
  BY <1>5, <1>6, <1>7, <1>8 DEF I!Guest, I!Close, I!SetTimer, I!CancelTimer, I!net
<1> QED
  BY <1>3, <1>8

LEMMA AccountTake ==
  ASSUME AccountInv, Typed, Typed', I!Runs' => I!Runs, NEW kind, I!Takes(kind),
         UNCHANGED <<used, tasks>>, Head(queue).n = 0
  PROVE  AccountInv'
<1>1. TakenOut(Head(queue)) /\ Len(queue') =< Places
  BY TakesEvent, TakenFits, BalanceNat DEF AccountInv
<1>2. RoomQueued(queue) = RoomQueued(queue') + 0 /\ RoomQueued(queue') \in Nat
  BY <1>1, RoomTaken, BalanceNat, BalanceNext
<1>3. Balance' = Balance
  BY <1>2 DEF Balance
<1> QED
  BY <1>1, <1>3, AccountStands

LEMMA AccountTakeData ==
  ASSUME AccountInv, Typed, Typed', I!Runs' => I!Runs, NEW kind, I!Takes(kind),
         I!Releases(Head(queue).n, tasks)
  PROVE  AccountInv'
<1>1. TakenOut(Head(queue)) /\ Len(queue') =< Places
  BY TakesEvent, TakenFits, BalanceNat DEF AccountInv
<1>2. PICK n \in 0..Room : n = Head(queue).n /\ RoomQueued(queue) = RoomQueued(queue') + n
  BY <1>1, RoomTaken, BalanceNat
<1>3. Notified(tasks) /\ used' = used - n
  BY <1>2, ReleasesTasks DEF Typed, TasksTyped
<1>4. RoomPosting(tasks') = RoomPosting(tasks)
  BY <1>3, RoomOfNone DEF Notified
<1>5. Balance = Balance' + n
  <2>1. PICK a \in Nat, b \in Nat : a = RoomQueued(queue') /\ b = RoomPosting(tasks)
    BY BalanceNat, BalanceNext
  <2>2. Balance = (a + n) + b /\ Balance' = a + b
    BY <1>2, <1>4, <2>1, BalanceNat, BalanceNext
  <2> QED
    BY <2>2
<1>6. \A j \in I!Ids : tasks'[j].step = "asleep" => "notified" \in tasks'[j].marks
  BY <1>3 DEF Notified
<1>7. n \in Nat
  OBVIOUS
<1> QED
  BY <1>1, <1>3, <1>5, <1>6, <1>7, AccountReleases

LEMMA AccountThread ==
  ASSUME AccountInv, Typed, Typed', I!Runs' => I!Runs, I!Thread
  PROVE  AccountInv'
<1>1. ASSUME NEW kind, I!Takes(kind), kind \notin {"message", "http"}, UNCHANGED <<used, tasks>>
      PROVE  AccountInv'
  <2>1. Head(queue) \in Events /\ Head(queue).kind = kind
    BY <1>1, TakesEvent, BalanceNat DEF TakenOut
  <2>2. Head(queue).n = 0
    BY <1>1, <2>1 DEF Events
  <2> QED
    BY <1>1, <2>2, AccountTake
<1>2. CASE I!TakeAction
  BY <1>1, <1>2 DEF I!TakeAction, I!net
<1>3. CASE I!TakeOpen
  BY <1>1, <1>3 DEF I!TakeOpen, I!net
<1>4. CASE I!TakeMessage
  BY <1>4, AccountTakeData DEF I!TakeMessage
<1>5. CASE I!TakeClosed
  BY <1>1, <1>5 DEF I!TakeClosed
<1>6. CASE I!TakeHttp
  BY <1>6, AccountTakeData DEF I!TakeHttp
<1>7. CASE I!TakeTimer
  BY <1>1, <1>7 DEF I!TakeTimer, I!net
<1>8. CASE UNCHANGED <<used, tasks, queue>>
  BY <1>8, AccountStands DEF AccountInv, Balance
<1>9. CASE I!Return \/ I!Breaks \/ I!Exits
  BY <1>8, <1>9 DEF I!Return, I!Breaks, I!Exits, I!net
<1>10. CASE I!Refuses
  <2>1. thread' = "drop" /\ queue' = <<>> /\ UNCHANGED <<used, tasks>>
    BY <1>10 DEF I!Refuses, I!net
  <2>2. RoomQueued(queue') = 0 /\ RoomPosting(tasks') = RoomPosting(tasks)
    BY <2>1, RoomOfEmpty
  <2>3. Balance' =< used
    <3>1. PICK a \in Nat, b \in Nat : a = RoomQueued(queue) /\ b = RoomPosting(tasks)
      BY BalanceNat
    <3>2. Balance = a + b /\ Balance' = 0 + b /\ Balance =< used /\ used \in 0..Room /\ Room \in Nat
      BY <2>2, <3>1, BalanceNat, BalanceNext DEF AccountInv
    <3> QED
      BY <3>2
  <2>4. Len(queue') =< Places
    BY <2>1, IdsFacts
  <2> QED
    BY <2>1, <2>3, <2>4 DEF AccountInv, I!Runs, Asleep
<1>11. CASE I!Gone
  <2>1. thread' = "gone" /\ queue' = <<>> /\ used' = 0 /\ tasks' = [i \in I!Ids |-> I!Unused]
    BY <1>11 DEF I!Gone
  <2>2. RoomQueued(queue') = 0 /\ RoomPosting(tasks') = 0
    BY <2>1, RoomOfEmpty
  <2>3. Len(queue') =< Places /\ Balance' = 0 /\ 0 \in 0..Room
    BY <2>1, <2>2, IdsFacts DEF Balance
  <2> QED
    BY <2>1, <2>3 DEF AccountInv, I!Runs, Asleep
<1> QED
  BY <1>2, <1>3, <1>4, <1>5, <1>6, <1>7, <1>9, <1>10, <1>11 DEF I!Thread

LEMMA AccountStep ==
  ASSUME AccountInv, Typed, Typed', I!Next
  PROVE  AccountInv'
<1>1. I!Runs' => I!Runs
  BY RunsOn DEF Typed
<1>2. ASSUME NEW e \in Events, I!Posts(e), e.n = 0, UNCHANGED <<used, tasks>>
      PROVE  AccountInv'
  <2>1. RoomQueued(queue') = RoomQueued(queue) /\ Len(queue') =< Places
    BY <1>1, <1>2, AccountPosts
  <2> QED
    BY <1>1, <1>2, <2>1, AccountStands DEF Balance
<1>3. CASE I!Stop
  BY <1>2, <1>3, EventsTyped DEF I!Stop, I!net, I!Event, Typed
<1>4. CASE \E a \in Actions : I!PostAction(a)
  BY <1>2, <1>4, EventsTyped DEF I!PostAction, I!net, I!Event, Typed
<1> QED
  BY <1>1, <1>3, <1>4, AccountTask, AccountGuest, AccountThread DEF I!Next

LEMMA AccountStart ==
  ASSUME I!Init
  PROVE  AccountInv
<1>1. queue = <<>> /\ used = 0 /\ tasks = [i \in I!Ids |-> I!Unused]
  BY DEF I!Init
<1>2. RoomQueued(queue) = 0 /\ RoomPosting(tasks) = 0
  BY <1>1, RoomOfEmpty
<1>3. \A i \in I!Ids : Asleep(i)
  BY <1>1, UnusedTyped DEF Asleep
<1>4. Len(queue) =< Places /\ used \in 0..Room /\ Balance = 0
  BY <1>1, <1>2, IdsFacts DEF Balance
<1> QED
  BY <1>1, <1>3, <1>4 DEF AccountInv

LEMMA RoomComesBack ==
  ASSUME AccountInv, Typed
  PROVE  I!RoomIsAccounted /\ I!NoSleepWithRoom
<1>1. I!InQueue = Held(Queued(queue))
  BY DEF I!InQueue, Held, Queued
<1>2. I!AboutToPost = Held(Posting(tasks))
  <2>1. DOMAIN Posting(tasks) = I!Ids
    BY DEF Posting
  <2>2. ASSUME NEW x \in I!Ids \X (1..Room)
        PROVE  x[2] =< Posting(tasks)[x[1]] <=> tasks[x[1]].step = "post" /\ x[2] =< tasks[x[1]].size
    <3>1. x[1] \in I!Ids /\ x[2] \in 1..Room
      OBVIOUS
    <3>2. CASE tasks[x[1]].step = "post"
      BY <3>1, <3>2 DEF Posting
    <3>3. CASE tasks[x[1]].step # "post"
      <4>1. Posting(tasks)[x[1]] = 0
        BY <3>1, <3>3 DEF Posting
      <4>2. ~(x[2] =< 0)
        BY <3>1, IdsFacts
      <4> QED
        BY <3>3, <4>1, <4>2
    <3> QED
      BY <3>2, <3>3
  <2> QED
    BY <2>1, <2>2 DEF I!AboutToPost, Held
<1>3. I!RoomIsAccounted
  BY <1>1, <1>2, SameSize DEF I!RoomIsAccounted, AccountInv, Balance, RoomQueued, RoomPosting
<1>4. I!NoSleepWithRoom
  BY DEF I!NoSleepWithRoom, AccountInv, Asleep
<1> QED
  BY <1>3, <1>4

-----------------------------------------------------------------------------
(* Places come back: what is kept of the sockets, requests and timers.     *)

ClosedQueued(s, q) == \E k \in DOMAIN q : q[k].kind = "closed" /\ q[k].id = s

\* A task at work has a place, one that drains was closed, and what is said to
\* have ended has; an end is reported, or marked as lost.
PlaceKept(s) ==
  /\ tasks[s].step \notin {"unused", "done"} => s \in DOMAIN sockets
  /\ tasks[s].step = "drain" => ~I!Open(s)
  /\ ClosedQueued(s, queue) => tasks[s].step = "done"
  /\ I!Runs /\ tasks[s].step = "done" /\ I!Open(s) /\ "lost" \notin tasks[s].marks
       => ClosedQueued(s, queue)

SocketsFit(f) ==
  /\ DOMAIN f \subseteq Sockets /\ f \in [DOMAIN f -> {"open", "closed"}]
  /\ Cardinality(DOMAIN f) =< MaxSockets

PlacesInv == SocketsFit(sockets) /\ \A s \in Sockets : PlaceKept(s)

LEMMA ClosedPosted ==
  ASSUME QueueTyped, NEW e, Posted(e), NEW s
  PROVE  /\ ClosedQueued(s, queue) => ClosedQueued(s, queue')
         /\ ClosedQueued(s, queue') =>
              ClosedQueued(s, queue) \/ (e.kind = "closed" /\ e.id = s)
         /\ ~I!Full /\ e.kind = "closed" /\ e.id = s => ClosedQueued(s, queue')
<1>1. PICK q \in Seq(Events), r \in Seq(Events) : q = queue /\ r = queue'
  BY DEF QueueTyped, Posted
<1>2. PICK m \in Nat : m = Len(q) /\ DOMAIN q = 1..m
  BY LenProperties
<1>3. CASE I!Full
  BY <1>3 DEF Posted
<1>4. CASE ~I!Full
  <2>1. /\ Len(r) = m + 1 /\ DOMAIN r = 1..(m + 1) /\ r[m + 1] = e
        /\ \A k \in 1..m : r[k] = q[k]
    BY <1>1, <1>2, <1>4, LenProperties DEF Posted
  <2>2. \A k \in 1..(m + 1) : k \in 1..m \/ k = m + 1
    OBVIOUS
  <2>3. m + 1 \in 1..(m + 1) /\ \A k \in 1..m : k \in 1..(m + 1)
    OBVIOUS
  <2> QED
    BY <1>1, <1>2, <1>4, <2>1, <2>2, <2>3 DEF ClosedQueued
<1> QED
  BY <1>3, <1>4

LEMMA ClosedTaken ==
  ASSUME QueueTyped, NEW e, TakenOut(e), NEW s
  PROVE  /\ ClosedQueued(s, queue') => ClosedQueued(s, queue)
         /\ ~(e.kind = "closed" /\ e.id = s) /\ ClosedQueued(s, queue) => ClosedQueued(s, queue')
         /\ e.kind = "closed" /\ e.id = s => ClosedQueued(s, queue)
<1>1. PICK q \in Seq(Events), r \in Seq(Events) : q = queue /\ r = queue'
  BY DEF QueueTyped, TakenOut
<1>2. PICK m \in Nat : m = Len(r) /\ DOMAIN r = 1..m /\ DOMAIN q = 1..(m + 1) /\ e = q[1]
  BY <1>1, LenProperties DEF TakenOut
<1>3. \A k \in 1..m : r[k] = q[k + 1] /\ k + 1 \in 1..(m + 1)
  BY <1>1, <1>2 DEF TakenOut
<1>4. \A k \in 1..(m + 1) : k # 1 => k - 1 \in 1..m /\ r[k - 1] = q[k]
  BY <1>1, <1>2 DEF TakenOut
<1>5. 1 \in 1..(m + 1)
  OBVIOUS
<1>6. /\ ClosedQueued(s, queue) <=> \E k \in 1..(m + 1) : q[k].kind = "closed" /\ q[k].id = s
      /\ ClosedQueued(s, queue') <=> \E k \in 1..m : r[k].kind = "closed" /\ r[k].id = s
  BY <1>1, <1>2 DEF ClosedQueued
<1>7. ClosedQueued(s, queue') => ClosedQueued(s, queue)
  BY <1>3, <1>6
<1>8. ~(e.kind = "closed" /\ e.id = s) /\ ClosedQueued(s, queue) => ClosedQueued(s, queue')
  BY <1>2, <1>4, <1>6
<1> QED
  BY <1>2, <1>5, <1>6, <1>7, <1>8

\* Nothing happens to the place of a socket.
LEMMA PlaceStands ==
  ASSUME NEW s \in Sockets, PlaceKept(s), I!Runs' => I!Runs,
         tasks'[s].step = tasks[s].step, "lost" \in tasks[s].marks => "lost" \in tasks'[s].marks,
         s \in DOMAIN sockets => s \in DOMAIN sockets' \/ tasks[s].step = "done",
         I!Open(s)' => I!Open(s), ClosedQueued(s, queue') <=> ClosedQueued(s, queue)
  PROVE  PlaceKept(s)'
BY DEF PlaceKept

LEMMA PlacesStand ==
  ASSUME PlacesInv, I!Runs' => I!Runs, UNCHANGED sockets,
         \A s \in Sockets : ClosedQueued(s, queue') <=> ClosedQueued(s, queue),
         \A s \in Sockets : /\ tasks'[s].step = tasks[s].step
                            /\ "lost" \in tasks[s].marks => "lost" \in tasks'[s].marks
  PROVE  PlacesInv'
<1>1. ASSUME NEW s \in Sockets PROVE PlaceKept(s)'
  <2>1. PlaceKept(s) /\ (I!Open(s)' => I!Open(s))
    BY DEF PlacesInv, I!Open
  <2> QED
    BY <2>1, PlaceStands
<1> QED
  BY <1>1 DEF PlacesInv

\* A task of a socket moves; it ends only with nothing to report.
LEMMA PlacesMove ==
  ASSUME PlacesInv, I!Runs' => I!Runs, UNCHANGED sockets, NEW i \in I!Ids,
         NEW to, NEW data, NEW pending, NEW size, NEW marks,
         Becoming(tasks', i, to, data, pending, size, marks),
         \A s \in Sockets : ClosedQueued(s, queue') <=> ClosedQueued(s, queue),
         i \in Sockets => /\ tasks[i].step \notin {"unused", "done"}
                          /\ to = "drain" => tasks[i].step = "drain" \/ ~I!Open(i)
                          /\ to = "done" => tasks[i].step = "drain" \/ ~I!Open(i) \/ "lost" \in marks
  PROVE  PlacesInv'
<1>1. ASSUME NEW s \in Sockets PROVE PlaceKept(s)'
  <2>1. PlaceKept(s) /\ (I!Open(s)' <=> I!Open(s)) /\ sockets' = sockets
    BY DEF PlacesInv, I!Open
  <2>2. CASE s # i
    <3>1. tasks'[s] = tasks[s]
      BY <2>2, IdsFacts DEF Becoming
    <3> QED
      BY <2>1, <3>1, PlaceStands
  <2>3. CASE s = i
    <3>1. tasks'[s].step = to /\ tasks'[s].marks = marks
      BY <2>3 DEF Becoming
    <3>2. ~ClosedQueued(s, queue) /\ ~ClosedQueued(s, queue') /\ s \in DOMAIN sockets
      BY <2>1, <2>3 DEF PlaceKept
    <3>3. to = "drain" => ~I!Open(s)
      BY <2>1, <2>3 DEF PlaceKept
    <3>4. to = "done" => ~I!Open(s) \/ "lost" \in marks
      BY <2>1, <2>3 DEF PlaceKept
    <3> QED
      BY <2>1, <3>1, <3>2, <3>3, <3>4 DEF PlaceKept
  <2> QED
    BY <2>2, <2>3
<1> QED
  BY <1>1 DEF PlacesInv

LEMMA PlacesClosing ==
  ASSUME PlacesInv, Typed, I!Runs' => I!Runs, NEW s \in Sockets, I!Closing(s)
  PROVE  PlacesInv'
<1>1. /\ tasks[s].step = "closing" /\ UNCHANGED sockets /\ s \in I!Ids
      /\ I!Posts(I!Event("closed", s, 0))
  BY IdsFacts DEF I!Closing
<1>2. Posted(I!Event("closed", s, 0)) /\ QueueTyped
  BY <1>1, PostsEvent, EventsTyped, BalanceNat DEF Typed
<1>3. PICK e : e = I!Event("closed", s, 0) /\ Posted(e) /\ e.kind = "closed" /\ e.id = s
  BY <1>2 DEF I!Event
<1>4. PICK marks : /\ Steps(s, "done", tasks[s].size, marks)
                   /\ I!Full => "lost" \in marks
  <2>1. PICK marks : marks = IF I!Full THEN tasks[s].marks \cup {"lost"} ELSE tasks[s].marks
    OBVIOUS
  <2>2. Steps(s, "done", tasks[s].size, marks)
    BY <2>1, ClosingTask DEF Typed
  <2>3. I!Full => "lost" \in marks
    BY <2>1
  <2> QED
    BY <2>2, <2>3
<1>5. ASSUME NEW x \in Sockets PROVE PlaceKept(x)'
  <2>1. PlaceKept(x) /\ (I!Open(x)' <=> I!Open(x)) /\ sockets' = sockets
    BY <1>1 DEF PlacesInv, I!Open
  <2>2. CASE x # s
    <3>1. tasks'[x] = tasks[x]
      BY <1>4, <2>2, IdsFacts DEF Steps, Becoming
    <3>2. ClosedQueued(x, queue') <=> ClosedQueued(x, queue)
      BY <1>2, <1>3, <2>2, ClosedPosted
    <3> QED
      BY <2>1, <3>1, <3>2, PlaceStands
  <2>3. CASE x = s
    <3>1. tasks'[x].step = "done" /\ tasks'[x].marks = marks
      BY <1>4, <2>3 DEF Steps, Becoming
    <3>2. ~I!Full => ClosedQueued(x, queue')
      BY <1>2, <1>3, <2>3, ClosedPosted
    <3> QED
      BY <1>4, <3>1, <3>2 DEF PlaceKept
  <2> QED
    BY <2>2, <2>3
<1> QED
  BY <1>1, <1>5 DEF PlacesInv

LEMMA PlacesTask ==
  ASSUME PlacesInv, Typed, I!Runs' => I!Runs, I!Task
  PROVE  PlacesInv'
<1>1. ASSUME NEW i \in I!Ids, NEW to, NEW data, NEW pending, NEW size, NEW marks,
             Becoming(tasks', i, to, data, pending, size, marks), UNCHANGED <<sockets, queue>>,
             i \in Sockets => /\ tasks[i].step \notin {"unused", "done"}
                              /\ to = "drain" => tasks[i].step = "drain" \/ ~I!Open(i)
                              /\ to = "done" => \/ tasks[i].step = "drain" \/ ~I!Open(i)
                                                \/ "lost" \in marks
      PROVE  PlacesInv'
  <2>1. \A s \in Sockets : ClosedQueued(s, queue') <=> ClosedQueued(s, queue)
    BY <1>1
  <2> QED
    BY <1>1, <2>1, PlacesMove
<1>2. ASSUME NEW e \in Events, I!Posts(e), e.kind # "closed"
      PROVE  \A s \in Sockets : ClosedQueued(s, queue') <=> ClosedQueued(s, queue)
  BY <1>2, PostsEvent, ClosedPosted, BalanceNat
<1>3. ASSUME NEW i \in I!Ids, I!Check(i) PROVE PlacesInv'
  <2>1. tasks[i].step = "check" /\ UNCHANGED <<sockets, queue>>
    BY <1>3 DEF I!Check
  <2>2. PICK to \in {"post", "asleep"} : Steps(i, to, tasks[i].size, tasks[i].marks)
    BY <1>3, CheckTask DEF Typed
  <2> QED
    BY <1>1, <2>1, <2>2 DEF Steps
<1>4. ASSUME NEW i \in I!Ids, I!Freed(i) PROVE PlacesInv'
  <2>1. tasks[i].step = "asleep" /\ UNCHANGED <<sockets, queue>>
    BY <1>4 DEF I!Freed
  <2> QED
    BY <1>1, <1>4, <2>1, FreedTask DEF Typed, Steps
<1>5. ASSUME NEW i \in I!Ids, I!Post(i) PROVE PlacesInv'
  <2>1. PICK T \in [I!Ids -> TaskRecord] :
          /\ Becoming(T, i, IF i \in Sockets THEN "relay" ELSE "done", tasks[i].data,
                      tasks[i].pending, 0, tasks[i].marks)
          /\ I!Full => Notified(T)
          /\ ~I!Full => tasks' = T
    BY <1>5, PostTask DEF Typed
  <2>2. tasks[i].step = "post" /\ UNCHANGED sockets
    BY <1>5 DEF I!Post
  <2>3. PICK kind \in {"message", "http"} : kind = IF i \in Sockets THEN "message" ELSE "http"
    OBVIOUS
  <2>4. I!Posts(I!Event(kind, i, tasks[i].size)) /\ I!Event(kind, i, tasks[i].size) \in Events
    BY <1>5, <2>3, EventsTyped DEF I!Post, Typed
  <2>5. \A s \in Sockets : ClosedQueued(s, queue') <=> ClosedQueued(s, queue)
    BY <1>2, <2>4 DEF I!Event
  <2>6. ASSUME NEW s \in Sockets
        PROVE  /\ tasks'[s].step = T[s].step
               /\ "lost" \in T[s].marks => "lost" \in tasks'[s].marks
    BY <2>1, IdsFacts DEF Notified
  <2>7. ASSUME NEW s \in Sockets PROVE PlaceKept(s)'
    <3>1. PlaceKept(s) /\ (I!Open(s)' <=> I!Open(s)) /\ sockets' = sockets
      BY <2>2 DEF PlacesInv, I!Open
    <3>2. CASE s # i
      <4>1. T[s] = tasks[s]
        BY <2>1, <3>2, IdsFacts DEF Becoming
      <4> QED
        BY <2>5, <2>6, <3>1, <4>1, PlaceStands
    <3>3. CASE s = i
      <4>1. tasks'[s].step = "relay" /\ tasks[s].step = "post"
        BY <2>1, <2>2, <2>6, <3>3 DEF Becoming
      <4> QED
        BY <2>5, <3>1, <4>1 DEF PlaceKept
    <3> QED
      BY <3>2, <3>3
  <2> QED
    BY <2>2, <2>7 DEF PlacesInv
<1>6. ASSUME NEW s \in Sockets, I!Connected(s) PROVE PlacesInv'
  <2>1. /\ tasks[s].step = "opening" /\ UNCHANGED sockets /\ s \in I!Ids
        /\ I!Posts(I!Event("open", s, 0))
    BY <1>6, IdsFacts DEF I!Connected
  <2>2. \A x \in Sockets : ClosedQueued(x, queue') <=> ClosedQueued(x, queue)
    BY <1>2, <2>1, EventsTyped DEF I!Event, Typed
  <2> QED
    BY <1>6, <2>1, <2>2, ConnectedTask, PlacesMove DEF Typed, Steps
<1>7. ASSUME NEW s \in Sockets, I!Ends(s) PROVE PlacesInv'
  <2>1. tasks[s].step \notin {"unused", "done"} /\ UNCHANGED <<sockets, queue>> /\ s \in I!Ids
    BY <1>7, IdsFacts DEF I!Ends
  <2> QED
    BY <1>1, <1>7, <2>1, EndsTask DEF Typed
<1>8. ASSUME NEW s \in Sockets, I!Sends(s) PROVE PlacesInv'
  <2>1. tasks[s].step \in {"relay", "drain"} /\ UNCHANGED <<sockets, queue>> /\ s \in I!Ids
    BY <1>8, IdsFacts DEF I!Sends
  <2>2. PICK p \in Int, to \in {"write", "drain"} :
          /\ to = IF tasks[s].step = "relay" THEN "write" ELSE "drain"
          /\ Becoming(tasks', s, to, Tail(tasks[s].data), <<2 * p - 1, 2 * p>>,
                      tasks[s].size, tasks[s].marks)
    BY <1>8, SendsTask DEF Typed
  <2>3. tasks[s].step \notin {"unused", "done"} /\ (to = "drain" => tasks[s].step = "drain")
    BY <2>1, <2>2
  <2> QED
    BY <1>1, <2>1, <2>2, <2>3
<1>9. ASSUME NEW s \in Sockets, I!Writes(s) PROVE PlacesInv'
  <2>1. tasks[s].step \in {"write", "drain"} /\ UNCHANGED <<sockets, queue>> /\ s \in I!Ids
    BY <1>9, IdsFacts DEF I!Writes
  <2>2. PICK p \in Int, rest \in Seq(Int), to \in {"relay", "write", "drain"} :
          /\ to = IF tasks[s].step = "write" /\ rest = <<>> THEN "relay" ELSE tasks[s].step
          /\ Becoming(tasks', s, to, tasks[s].data, rest, tasks[s].size, tasks[s].marks)
    BY <1>9, WritesTask DEF Typed
  <2>3. tasks[s].step \notin {"unused", "done"} /\ (to = "drain" => tasks[s].step = "drain")
    BY <2>1, <2>2
  <2> QED
    BY <1>1, <2>1, <2>2, <2>3
<1>10. ASSUME NEW s \in Sockets, I!Finish(s) PROVE PlacesInv'
  <2>1. /\ tasks[s].step \notin {"unused", "done"} /\ ~I!Open(s)
        /\ UNCHANGED <<sockets, queue>> /\ s \in I!Ids
    BY <1>10, IdsFacts DEF I!Finish
  <2> QED
    BY <1>1, <1>10, <2>1, FinishTask DEF Typed, Steps
<1>11. ASSUME NEW s \in Sockets, I!GivesUp(s) PROVE PlacesInv'
  <2>1. /\ tasks[s].step \notin {"unused", "done"} /\ ~I!Open(s)
        /\ UNCHANGED <<sockets, queue>> /\ s \in I!Ids
    BY <1>11, IdsFacts DEF I!GivesUp
  <2> QED
    BY <1>1, <1>11, <2>1, GivesUpTask DEF Typed
<1>12. ASSUME NEW s \in Sockets, I!Drain(s) PROVE PlacesInv'
  <2>1. tasks[s].step = "drain" /\ UNCHANGED <<sockets, queue>> /\ s \in I!Ids
    BY <1>12, IdsFacts DEF I!Drain
  <2> QED
    BY <1>1, <1>12, <2>1, DrainTask DEF Typed, Steps
<1>13. ASSUME NEW s \in Sockets, I!DrainFails(s) PROVE PlacesInv'
  <2>1. tasks[s].step = "drain" /\ UNCHANGED <<sockets, queue>> /\ s \in I!Ids
    BY <1>13, IdsFacts DEF I!DrainFails
  <2> QED
    BY <1>1, <1>13, <2>1, DrainFailsTask DEF Typed
<1>14. ASSUME NEW s \in Sockets, NEW n \in Sizes, I!Receives(s, n) PROVE PlacesInv'
  <2>1. tasks[s].step = "relay" /\ UNCHANGED <<sockets, queue>> /\ s \in I!Ids
    BY <1>14, IdsFacts DEF I!Receives
  <2> QED
    BY <1>1, <1>14, <2>1, ReceivesTask DEF Typed, Steps
<1>15. ASSUME NEW r \in Requests, NEW n \in Sizes \cup {0}, I!Answered(r, n) PROVE PlacesInv'
  <2>1. UNCHANGED <<sockets, queue>> /\ r \in I!Ids /\ r \notin Sockets
    BY <1>15, IdsFacts DEF I!Answered
  <2> QED
    BY <1>1, <1>15, <2>1, AnsweredTask DEF Typed, Steps
<1>16. ASSUME NEW t \in Timers, I!Fires(t) PROVE PlacesInv'
  <2>1. UNCHANGED <<sockets, tasks>> /\ I!Posts(I!Event("timer", t, 0))
    BY <1>16 DEF I!Fires, I!net
  <2>2. \A x \in Sockets : ClosedQueued(x, queue') <=> ClosedQueued(x, queue)
    BY <1>2, <2>1, EventsTyped DEF I!Event, Typed
  <2> QED
    BY <2>1, <2>2, PlacesStand
<1> QED
  BY <1>3, <1>4, <1>5, <1>6, <1>7, <1>8, <1>9, <1>10, <1>11, <1>12, <1>13, <1>14, <1>15, <1>16,
     PlacesClosing DEF I!Task

\* What OpenSocket keeps of the sockets: all, or all but those with nothing to report.
LEMMA KeptSockets ==
  ASSUME SocketsFit(sockets), NEW kept \in {sockets, I!Pruned}
  PROVE  /\ SocketsFit(kept) /\ IsFiniteSet(DOMAIN kept) /\ DOMAIN kept \subseteq DOMAIN sockets
         /\ \A s \in DOMAIN kept : kept[s] = sockets[s]
         /\ \A s \in DOMAIN sockets : s \in DOMAIN kept \/ tasks[s].step = "done"
<1>1. IsFiniteSet(DOMAIN sockets)
  BY FS_Subset, IdsFacts DEF SocketsFit
<1>2. CASE kept = sockets
  BY <1>1, <1>2
<1>3. CASE kept = I!Pruned
  <2>1. PICK D \in SUBSET DOMAIN sockets :
          D = {s \in DOMAIN sockets :
                 ~(tasks[s].step = "done" /\ (~I!Open(s) \/ "lost" \in tasks[s].marks))}
    OBVIOUS
  <2>2. kept = [s \in D |-> sockets[s]]
    BY <1>3, <2>1 DEF I!Pruned, I!Restrict
  <2>3. IsFiniteSet(D) /\ Cardinality(D) =< Cardinality(DOMAIN sockets)
        /\ Cardinality(D) \in Nat /\ Cardinality(DOMAIN sockets) \in Nat
    BY <1>1, FS_Subset, FS_CardinalityType
  <2>4. Cardinality(D) =< MaxSockets
    BY <2>3, IdsFacts DEF SocketsFit
  <2>5. kept \in [D -> {"open", "closed"}] /\ DOMAIN kept = D
    BY <2>2 DEF SocketsFit
  <2> QED
    BY <2>1, <2>2, <2>3, <2>4, <2>5 DEF SocketsFit
<1> QED
  BY <1>2, <1>3

LEMMA PlacesOpen ==
  ASSUME PlacesInv, Typed, I!Runs' => I!Runs, I!OpenSocket
  PROVE  PlacesInv'
<1>1. UNCHANGED queue
  BY DEF I!OpenSocket
<1>2. PICK kept \in {sockets, I!Pruned} :
        \/ tasks' = tasks /\ sockets' = kept
        \/ \E s \in Sockets :
             /\ tasks[s].step = "unused" /\ Steps(s, "opening", tasks[s].size, tasks[s].marks)
             /\ sockets' = I!With(kept, s, "open") /\ ~(Cardinality(DOMAIN kept) >= MaxSockets)
  BY OpenSocketTask DEF Typed
<1>3. /\ SocketsFit(kept) /\ IsFiniteSet(DOMAIN kept) /\ DOMAIN kept \subseteq DOMAIN sockets
      /\ \A s \in DOMAIN kept : kept[s] = sockets[s]
      /\ \A s \in DOMAIN sockets : s \in DOMAIN kept \/ tasks[s].step = "done"
  BY KeptSockets DEF PlacesInv
<1>4. CASE tasks' = tasks /\ sockets' = kept
  <2>1. ASSUME NEW s \in Sockets PROVE PlaceKept(s)'
    <3>1. PlaceKept(s) /\ (I!Open(s)' => I!Open(s))
      BY <1>3, <1>4 DEF PlacesInv, I!Open
    <3>2. s \in DOMAIN sockets => s \in DOMAIN sockets' \/ tasks[s].step = "done"
      BY <1>3, <1>4
    <3> QED
      BY <1>1, <1>4, <3>1, <3>2, PlaceStands
  <2> QED
    BY <1>3, <1>4, <2>1 DEF PlacesInv
<1>5. ASSUME NEW s \in Sockets, tasks[s].step = "unused",
             Steps(s, "opening", tasks[s].size, tasks[s].marks),
             sockets' = I!With(kept, s, "open"), ~(Cardinality(DOMAIN kept) >= MaxSockets)
      PROVE  PlacesInv'
  <2>1. /\ DOMAIN sockets' = DOMAIN kept \cup {s} /\ sockets'[s] = "open"
        /\ \A x \in DOMAIN kept : x # s => sockets'[x] = kept[x]
        /\ sockets' \in [DOMAIN sockets' -> {"open", "closed"}]
    <3>1. sockets' = [y \in DOMAIN kept \cup {s} |-> IF y = s THEN "open" ELSE kept[y]]
      BY <1>5 DEF I!With
    <3>2. \A y \in DOMAIN kept : kept[y] \in {"open", "closed"}
      BY <1>3 DEF SocketsFit
    <3> QED
      BY <3>1, <3>2
  <2>2. Cardinality(DOMAIN sockets') =< MaxSockets
    <3>1. PICK c \in Nat : c = Cardinality(DOMAIN kept) /\ c + 1 =< MaxSockets
      BY <1>3, <1>5, FS_CardinalityType, IdsFacts
    <3>2. Cardinality(DOMAIN kept \cup {s}) = IF s \in DOMAIN kept THEN c ELSE c + 1
      BY <1>3, <3>1, FS_AddElement
    <3> QED
      BY <2>1, <3>1, <3>2, IdsFacts
  <2>3. SocketsFit(sockets')
    BY <1>3, <2>1, <2>2 DEF SocketsFit
  <2>4. ASSUME NEW x \in Sockets PROVE PlaceKept(x)'
    <3>1. PlaceKept(x)
      BY DEF PlacesInv
    <3>2. CASE x # s
      <4>1. tasks'[x] = tasks[x]
        BY <1>5, <3>2, IdsFacts DEF Steps, Becoming
      <4>2. I!Open(x)' => I!Open(x)
        BY <1>3, <2>1, <3>2 DEF I!Open
      <4>3. x \in DOMAIN sockets => x \in DOMAIN sockets' \/ tasks[x].step = "done"
        BY <1>3, <2>1
      <4> QED
        BY <1>1, <3>1, <4>1, <4>2, <4>3, PlaceStands
    <3>3. CASE x = s
      <4>1. tasks'[x].step = "opening" /\ ~ClosedQueued(x, queue') /\ x \in DOMAIN sockets'
        BY <1>1, <1>5, <2>1, <3>1, <3>3 DEF PlaceKept, Steps, Becoming
      <4> QED
        BY <4>1 DEF PlaceKept
    <3> QED
      BY <3>2, <3>3
  <2> QED
    BY <2>3, <2>4 DEF PlacesInv
<1> QED
  BY <1>2, <1>4, <1>5

LEMMA PlacesGuest ==
  ASSUME PlacesInv, Typed, I!Runs' => I!Runs, I!Guest
  PROVE  PlacesInv'
<1>1. UNCHANGED queue
  BY DEF I!Guest, I!OpenSocket, I!Fetch, I!Send, I!Close, I!SetTimer, I!CancelTimer, I!net
<1>2. CASE UNCHANGED <<sockets, tasks>>
  BY <1>1, <1>2, PlacesStand
<1>3. CASE I!Fetch
  <2>1. UNCHANGED sockets
    BY <1>3 DEF I!Fetch
  <2>2. \/ tasks' = tasks
        \/ \E r \in Requests : Steps(r, "opening", tasks[r].size, tasks[r].marks)
    BY <1>3, FetchTask DEF Typed
  <2>3. ASSUME NEW r \in Requests, Steps(r, "opening", tasks[r].size, tasks[r].marks)
        PROVE  PlacesInv'
    <3>1. \A s \in Sockets : tasks'[s] = tasks[s]
      BY <2>3, IdsFacts DEF Steps, Becoming
    <3> QED
      BY <1>1, <2>1, <3>1, PlacesStand
  <2> QED
    BY <1>2, <2>1, <2>2, <2>3
<1>4. ASSUME NEW s \in Sockets, I!Send(s) PROVE PlacesInv'
  <2>1. tasks' = [tasks EXCEPT ![s].data = Append(@, sent'[s])] /\ UNCHANGED sockets
    BY <1>4 DEF I!Send
  <2>2. \A x \in Sockets : tasks'[x].step = tasks[x].step /\ tasks'[x].marks = tasks[x].marks
    BY <2>1, IdsFacts DEF Typed, TasksTyped, TaskRecord
  <2> QED
    BY <1>1, <2>1, <2>2, PlacesStand
<1>5. ASSUME NEW s \in Sockets, I!Close(s) PROVE PlacesInv'
  <2>1. sockets' = [sockets EXCEPT ![s] = "closed"] /\ UNCHANGED tasks
    BY <1>5 DEF I!Close
  <2>2. /\ DOMAIN sockets' = DOMAIN sockets /\ sockets' \in [DOMAIN sockets -> {"open", "closed"}]
        /\ \A x \in Sockets : I!Open(x)' => I!Open(x)
    BY <2>1 DEF PlacesInv, SocketsFit, I!Open
  <2>3. ASSUME NEW x \in Sockets PROVE PlaceKept(x)'
    BY <1>1, <2>1, <2>2, PlaceStands DEF PlacesInv
  <2> QED
    BY <2>2, <2>3 DEF PlacesInv, SocketsFit
<1>6. ASSUME NEW repeat \in BOOLEAN, I!SetTimer(repeat) PROVE PlacesInv'
  BY <1>2, <1>6 DEF I!SetTimer, I!net
<1>7. ASSUME NEW t \in Timers, I!CancelTimer(t) PROVE PlacesInv'
  BY <1>2, <1>7 DEF I!CancelTimer, I!net
<1> QED
  BY <1>3, <1>4, <1>5, <1>6, <1>7, PlacesOpen DEF I!Guest

LEMMA PlacesThread ==
  ASSUME PlacesInv, Typed, I!Runs' => I!Runs, I!Thread
  PROVE  PlacesInv'
<1>1. ASSUME NEW kind, I!Takes(kind), kind # "closed"
      PROVE  \A s \in Sockets : ClosedQueued(s, queue') <=> ClosedQueued(s, queue)
  BY <1>1, TakesEvent, ClosedTaken, BalanceNat
<1>2. ASSUME NEW kind, I!Takes(kind), kind # "closed", UNCHANGED <<sockets, tasks>>
      PROVE  PlacesInv'
  BY <1>1, <1>2, PlacesStand
<1>3. ASSUME NEW kind, I!Takes(kind), kind # "closed", UNCHANGED sockets,
             I!Releases(Head(queue).n, tasks)
      PROVE  PlacesInv'
  <2>1. Notified(tasks)
    BY <1>3, ReleasesTasks DEF Typed, TasksTyped
  <2>2. ASSUME NEW s \in Sockets
        PROVE  /\ tasks'[s].step = tasks[s].step
               /\ "lost" \in tasks[s].marks => "lost" \in tasks'[s].marks
    BY <2>1, IdsFacts DEF Notified
  <2> QED
    BY <1>1, <1>3, <2>2, PlacesStand
<1>4. CASE I!TakeAction
  BY <1>2, <1>4 DEF I!TakeAction, I!net
<1>5. CASE I!TakeOpen
  BY <1>2, <1>5 DEF I!TakeOpen, I!net
<1>6. CASE I!TakeMessage
  BY <1>3, <1>6 DEF I!TakeMessage
<1>7. CASE I!TakeClosed
  <2>1. PICK e : e = Head(queue) /\ TakenOut(e) /\ e.kind = "closed"
    BY <1>7, TakesEvent, BalanceNat DEF I!TakeClosed
  <2>2. sockets' = [x \in DOMAIN sockets \ {e.id} |-> sockets[x]] /\ UNCHANGED tasks
    BY <1>7, <2>1 DEF I!TakeClosed, I!Restrict
  <2>3. SocketsFit(sockets')
    <3>1. /\ DOMAIN sockets' = DOMAIN sockets \ {e.id}
          /\ sockets' \in [DOMAIN sockets' -> {"open", "closed"}]
      BY <2>2 DEF PlacesInv, SocketsFit
    <3>2. IsFiniteSet(DOMAIN sockets)
      BY FS_Subset, IdsFacts DEF PlacesInv, SocketsFit
    <3>3. /\ Cardinality(DOMAIN sockets \ {e.id}) =< Cardinality(DOMAIN sockets)
          /\ Cardinality(DOMAIN sockets \ {e.id}) \in Nat /\ Cardinality(DOMAIN sockets) \in Nat
      BY <3>2, FS_Subset, FS_CardinalityType
    <3>4. Cardinality(DOMAIN sockets) =< MaxSockets /\ DOMAIN sockets \subseteq Sockets
      BY DEF PlacesInv, SocketsFit
    <3> QED
      BY <3>1, <3>3, <3>4, IdsFacts DEF SocketsFit
  <2>4. ASSUME NEW s \in Sockets PROVE PlaceKept(s)'
    <3>1. PlaceKept(s) /\ (I!Open(s)' => I!Open(s))
      BY <2>2 DEF PlacesInv, I!Open
    <3>2. CASE s = e.id
      <4>1. tasks'[s].step = "done" /\ ~I!Open(s)'
        BY <2>1, <2>2, <3>1, <3>2, ClosedTaken, BalanceNat DEF PlaceKept, I!Open
      <4> QED
        BY <4>1 DEF PlaceKept
    <3>3. CASE s # e.id
      <4>1. ClosedQueued(s, queue') <=> ClosedQueued(s, queue)
        BY <2>1, <3>3, ClosedTaken, BalanceNat
      <4> QED
        BY <2>2, <3>1, <3>3, <4>1, PlaceStands
    <3> QED
      BY <3>2, <3>3
  <2> QED
    BY <2>3, <2>4 DEF PlacesInv
<1>8. CASE I!TakeHttp
  BY <1>3, <1>8 DEF I!TakeHttp
<1>9. CASE I!TakeTimer
  BY <1>2, <1>9 DEF I!TakeTimer, I!net
<1>10. CASE I!Return \/ I!Breaks \/ I!Exits
  BY <1>10, PlacesStand DEF I!Return, I!Breaks, I!Exits, I!net
<1>11. CASE I!Refuses
  <2>1. thread' = "drop" /\ queue' = <<>> /\ UNCHANGED <<sockets, tasks>>
    BY <1>11 DEF I!Refuses, I!net
  <2>2. ASSUME NEW s \in Sockets PROVE PlaceKept(s)'
    <3>1. PlaceKept(s) /\ (I!Open(s)' <=> I!Open(s)) /\ ~ClosedQueued(s, queue')
      BY <2>1 DEF PlacesInv, I!Open, ClosedQueued
    <3> QED
      BY <2>1, <3>1 DEF PlaceKept, I!Runs
  <2> QED
    BY <2>1, <2>2 DEF PlacesInv
<1>12. CASE I!Gone
  <2>1. /\ queue' = <<>> /\ tasks' = [i \in I!Ids |-> I!Unused] /\ sockets' = [s \in {} |-> "open"]
    BY <1>12 DEF I!Gone
  <2>2. SocketsFit(sockets')
    BY <2>1, FS_EmptySet, IdsFacts DEF SocketsFit
  <2>3. ASSUME NEW s \in Sockets PROVE PlaceKept(s)'
    <3>1. ~ClosedQueued(s, queue')
      BY <2>1 DEF ClosedQueued
    <3>2. tasks'[s].step = "unused"
      BY <2>1, UnusedTyped, IdsFacts
    <3> QED
      BY <3>1, <3>2 DEF PlaceKept
  <2> QED
    BY <2>2, <2>3 DEF PlacesInv
<1> QED
  BY <1>4, <1>5, <1>6, <1>7, <1>8, <1>9, <1>10, <1>11, <1>12 DEF I!Thread

LEMMA PlacesStep ==
  ASSUME PlacesInv, Typed, I!Next
  PROVE  PlacesInv'
<1>1. I!Runs' => I!Runs
  BY RunsOn DEF Typed
<1>2. ASSUME NEW e \in Events, I!Posts(e), e.kind # "closed", UNCHANGED <<sockets, tasks>>
      PROVE  PlacesInv'
  <2>1. \A s \in Sockets : ClosedQueued(s, queue') <=> ClosedQueued(s, queue)
    BY <1>2, PostsEvent, ClosedPosted, BalanceNat
  <2> QED
    BY <1>1, <1>2, <2>1, PlacesStand
<1>3. CASE I!Stop
  BY <1>2, <1>3, EventsTyped DEF I!Stop, I!net, I!Event, Typed
<1>4. CASE \E a \in Actions : I!PostAction(a)
  BY <1>2, <1>4, EventsTyped DEF I!PostAction, I!net, I!Event, Typed
<1> QED
  BY <1>1, <1>3, <1>4, PlacesTask, PlacesGuest, PlacesThread DEF I!Next

LEMMA PlacesStart ==
  ASSUME I!Init
  PROVE  PlacesInv
<1>1. queue = <<>> /\ tasks = [i \in I!Ids |-> I!Unused] /\ sockets = [s \in {} |-> "open"]
  BY DEF I!Init
<1>2. SocketsFit(sockets)
  BY <1>1, FS_EmptySet, IdsFacts DEF SocketsFit
<1>3. ASSUME NEW s \in Sockets PROVE PlaceKept(s)
  <2>1. ~ClosedQueued(s, queue)
    BY <1>1 DEF ClosedQueued
  <2>2. tasks[s].step = "unused"
    BY <1>1, UnusedTyped, IdsFacts
  <2> QED
    BY <2>1, <2>2 DEF PlaceKept
<1> QED
  BY <1>2, <1>3 DEF PlacesInv

LEMMA PlacesComeBack ==
  ASSUME PlacesInv
  PROVE  I!PlacesAreKept
<1>1. PICK A \in SUBSET DOMAIN sockets :
        A = {s \in Sockets : tasks[s].step \notin {"unused", "done"}}
  BY DEF PlacesInv, PlaceKept
<1>2. IsFiniteSet(DOMAIN sockets)
  BY FS_Subset, IdsFacts DEF PlacesInv, SocketsFit
<1>3. /\ Cardinality(A) =< Cardinality(DOMAIN sockets)
      /\ Cardinality(A) \in Nat /\ Cardinality(DOMAIN sockets) \in Nat
  BY <1>1, <1>2, FS_Subset, FS_CardinalityType
<1>4. Cardinality(DOMAIN sockets) =< MaxSockets /\ MaxSockets \in Nat
  BY IdsFacts DEF PlacesInv, SocketsFit
<1>5. I!Cardinality(A) =< MaxSockets
  BY <1>3, <1>4, SameSize
<1>6. ASSUME NEW s \in DOMAIN sockets PROVE PlaceKept(s)
  BY DEF PlacesInv, SocketsFit
<1> QED
  BY <1>1, <1>5, <1>6 DEF I!PlacesAreKept, PlaceKept, ClosedQueued

ListsInv ==
  /\ stop \in BOOLEAN
  /\ fetches \subseteq Requests /\ Cardinality(fetches) =< MaxFetches
  /\ started \subseteq Timers
  /\ DOMAIN timers \subseteq started /\ timers \in [DOMAIN timers -> {"once", "repeats", "fired"}]

\* A part of what is kept is kept.
LEMMA ListsStand ==
  ASSUME ListsInv, stop' \in {stop, TRUE}, fetches' \subseteq fetches, started' = started,
         DOMAIN timers' \subseteq DOMAIN timers,
         timers' \in [DOMAIN timers' -> {"once", "repeats", "fired"}]
  PROVE  ListsInv'
<1>1. IsFiniteSet(fetches)
  BY FS_Subset, IdsFacts DEF ListsInv
<1>2. /\ Cardinality(fetches') =< Cardinality(fetches)
      /\ Cardinality(fetches') \in Nat /\ Cardinality(fetches) \in Nat
  BY <1>1, FS_Subset, FS_CardinalityType
<1>3. stop' \in BOOLEAN
  BY DEF ListsInv
<1> QED
  BY <1>2, <1>3, IdsFacts DEF ListsInv

LEMMA TimersKept ==
  ASSUME ListsInv, NEW D \in SUBSET DOMAIN timers
  PROVE  /\ I!Restrict(timers, D) \in [D -> {"once", "repeats", "fired"}]
         /\ DOMAIN I!Restrict(timers, D) = D
BY DEF I!Restrict, ListsInv

LEMMA ListsFetch ==
  ASSUME ListsInv, TasksTyped, I!Fetch
  PROVE  ListsInv'
<1>1. UNCHANGED <<stop, started, timers>>
  BY DEF I!Fetch, I!life
<1>2. PICK kept \in SUBSET fetches :
        \/ fetches' = kept
        \/ \E r \in Requests : fetches' = kept \cup {r} /\ ~(Cardinality(kept) >= MaxFetches)
  BY FetchTask
<1>3. CASE fetches' = kept
  BY <1>1, <1>3, ListsStand DEF ListsInv
<1>4. ASSUME NEW r \in Requests, fetches' = kept \cup {r}, ~(Cardinality(kept) >= MaxFetches)
      PROVE  ListsInv'
  <2>1. IsFiniteSet(kept)
    BY FS_Subset, IdsFacts DEF ListsInv
  <2>2. PICK c \in Nat : c = Cardinality(kept) /\ c + 1 =< MaxFetches
    BY <1>4, <2>1, FS_CardinalityType, IdsFacts
  <2>3. Cardinality(kept \cup {r}) = IF r \in kept THEN c ELSE c + 1
    BY <2>1, <2>2, FS_AddElement
  <2>4. Cardinality(fetches') =< MaxFetches
    BY <1>4, <2>2, <2>3, IdsFacts
  <2>5. fetches' \subseteq Requests
    BY <1>4 DEF ListsInv
  <2> QED
    BY <1>1, <2>4, <2>5 DEF ListsInv
<1> QED
  BY <1>2, <1>3, <1>4

LEMMA ListsSetTimer ==
  ASSUME ListsInv, NEW repeat \in BOOLEAN, I!SetTimer(repeat)
  PROVE  ListsInv'
<1>1. UNCHANGED <<stop, fetches>>
  BY DEF I!SetTimer, I!life, I!net
<1>2. PICK kept, fresh :
        /\ kept = (IF I!Cardinality(DOMAIN timers) >= MaxTimers
                   THEN I!Restrict(timers, {t \in DOMAIN timers : timers[t] # "fired"}) ELSE timers)
        /\ fresh = {t \in Timers : t \notin started}
  BY Zenon
<1>3. DOMAIN kept \subseteq DOMAIN timers /\ kept \in [DOMAIN kept -> {"once", "repeats", "fired"}]
  <2>1. CASE kept = timers
    BY <2>1 DEF ListsInv
  <2>2. CASE kept = I!Restrict(timers, {t \in DOMAIN timers : timers[t] # "fired"})
    BY <2>2, TimersKept
  <2> QED
    BY <1>2, <2>1, <2>2
<1>4. PICK how \in {"repeats", "once"} : how = IF repeat THEN "repeats" ELSE "once"
  OBVIOUS
<1>5. /\ fresh # {}
      /\ IF I!Cardinality(DOMAIN kept) >= MaxTimers
         THEN timers' = kept /\ started' = started
         ELSE /\ timers' = I!With(kept, I!Min(fresh), how)
              /\ started' = started \cup {I!Min(fresh)}
  BY <1>2, <1>4, Zenon DEF I!SetTimer
<1>6. CASE timers' = kept /\ started' = started
  BY <1>1, <1>3, <1>6, ListsStand
<1>7. ASSUME NEW t \in Timers, timers' = I!With(kept, t, how), started' = started \cup {t}
      PROVE  ListsInv'
  <2>1. timers' = [y \in DOMAIN kept \cup {t} |-> IF y = t THEN how ELSE kept[y]]
    BY <1>7 DEF I!With
  <2>2. /\ DOMAIN timers' = DOMAIN kept \cup {t}
        /\ timers' \in [DOMAIN timers' -> {"once", "repeats", "fired"}]
    BY <1>3, <2>1
  <2> QED
    BY <1>1, <1>3, <1>7, <2>2 DEF ListsInv
<1>8. I!Min(fresh) \in Timers
  <2>1. fresh \in SUBSET Nat
    BY <1>2, InstanceAssumption
  <2>2. fresh \subseteq Timers
    BY <1>2
  <2> QED
    BY <1>5, <2>1, <2>2, LeastExists DEF I!Min
<1> QED
  BY <1>5, <1>6, <1>7, <1>8

LEMMA ListsStep ==
  ASSUME ListsInv, TasksTyped, I!Next
  PROVE  ListsInv'
<1>1. CASE stop' \in {stop, TRUE} /\ UNCHANGED <<fetches, started, timers>>
  BY <1>1, ListsStand DEF ListsInv
<1>2. CASE I!TakeHttp
  BY <1>2, ListsStand DEF I!TakeHttp, I!Calls, ListsInv
<1>3. CASE I!TakeTimer
  <2>1. UNCHANGED <<stop, fetches, started>>
    BY <1>3 DEF I!TakeTimer, I!Calls, I!net
  <2>2. timers' = timers \/ timers' = I!Restrict(timers, DOMAIN timers \ {Head(queue).id})
    BY <1>3 DEF I!TakeTimer
  <2> QED
    BY <2>1, <2>2, TimersKept, ListsStand DEF ListsInv
<1>4. CASE I!Gone
  <2>1. stop' = stop /\ fetches' = {} /\ started' = started /\ timers' = [t \in {} |-> "once"]
    BY <1>4 DEF I!Gone
  <2> QED
    BY <2>1, ListsStand
<1>5. CASE I!Thread
  BY <1>1, <1>2, <1>3, <1>4, <1>5
     DEF I!Thread, I!TakeAction, I!TakeOpen, I!TakeMessage, I!TakeClosed, I!Calls, I!Return, I!Breaks,
         I!Exits, I!Refuses, I!net
<1>6. ASSUME NEW t \in Timers, I!CancelTimer(t) PROVE ListsInv'
  <2>1. UNCHANGED <<stop, fetches, started>> /\ timers' = I!Restrict(timers, DOMAIN timers \ {t})
    BY <1>6 DEF I!CancelTimer, I!life, I!net
  <2> QED
    BY <2>1, TimersKept, ListsStand
<1>7. CASE I!Guest
  BY <1>1, <1>6, <1>7, ListsFetch, ListsSetTimer
     DEF I!Guest, I!OpenSocket, I!Send, I!Close, I!life
<1>8. ASSUME NEW t \in Timers, I!Fires(t) PROVE ListsInv'
  <2>1. PICK next \in {"once", "repeats", "fired"} : timers' = [timers EXCEPT ![t] = next]
    <3>1. t \in DOMAIN timers /\ timers' = [timers EXCEPT ![t] = IF @ = "once" THEN "fired" ELSE @]
      BY <1>8 DEF I!Fires
    <3>2. (IF timers[t] = "once" THEN "fired" ELSE timers[t]) \in {"once", "repeats", "fired"}
      BY <3>1 DEF ListsInv
    <3> QED
      BY <3>1, <3>2
  <2>2. DOMAIN timers' = DOMAIN timers /\ timers' \in [DOMAIN timers -> {"once", "repeats", "fired"}]
    BY <2>1 DEF ListsInv
  <2>3. UNCHANGED <<stop, fetches, started>>
    BY <1>8 DEF I!Fires, I!life, I!net
  <2> QED
    BY <2>2, <2>3, ListsStand
<1>9. CASE I!Task
  <2>1. UNCHANGED <<stop, fetches, started, timers>> \/ \E t \in Timers : I!Fires(t)
    <3>1. ASSUME NEW i \in I!Ids, I!Check(i) \/ I!Freed(i) \/ I!Post(i)
          PROVE  UNCHANGED <<stop, fetches, started, timers>>
      BY <3>1 DEF I!Check, I!Freed, I!Post, I!life
    <3>2. ASSUME NEW s \in Sockets,
                 \/ I!Connected(s) \/ I!Ends(s) \/ I!Sends(s) \/ I!Writes(s) \/ I!Finish(s)
                 \/ I!GivesUp(s) \/ I!Drain(s) \/ I!DrainFails(s) \/ I!Closing(s)
                 \/ \E n \in Sizes : I!Receives(s, n)
          PROVE  UNCHANGED <<stop, fetches, started, timers>>
      BY <3>2
         DEF I!Connected, I!Ends, I!Sends, I!Writes, I!Finish, I!GivesUp, I!Drain, I!DrainFails,
             I!Closing, I!Receives, I!life
    <3>3. ASSUME NEW r \in Requests, NEW n \in Sizes \cup {0}, I!Answered(r, n)
          PROVE  UNCHANGED <<stop, fetches, started, timers>>
      BY <3>3 DEF I!Answered, I!life
    <3> QED
      BY <1>9, <3>1, <3>2, <3>3 DEF I!Task
  <2> QED
    BY <1>1, <1>8, <2>1
<1>10. CASE I!Stop
  BY <1>1, <1>10 DEF I!Stop, I!net
<1>11. CASE \E a \in Actions : I!PostAction(a)
  BY <1>1, <1>11 DEF I!PostAction, I!life, I!net
<1> QED
  BY <1>5, <1>7, <1>9, <1>10, <1>11 DEF I!Next

LEMMA ListsStart ==
  ASSUME I!Init
  PROVE  ListsInv
<1>1. stop = FALSE /\ fetches = {} /\ started = {} /\ timers = [t \in {} |-> "once"]
  BY DEF I!Init
<1>2. DOMAIN timers = {} /\ timers \in [DOMAIN timers -> {"once", "repeats", "fired"}]
  BY <1>1
<1>3. Cardinality(fetches) =< MaxFetches
  BY <1>1, FS_EmptySet, IdsFacts
<1> QED
  BY <1>1, <1>2, <1>3 DEF ListsInv

LEMMA InstanceTyped ==
  ASSUME Typed, sent \in [Sockets -> Nat], AccountInv, PlacesInv, ListsInv
  PROVE  I!TypeOK
<1>1. /\ thread \in {"call", "wait", "drain", "drop", "gone"}
      /\ serving \in Actions \cup {"none"}
      /\ answers \in [Actions -> {"none", "waiting", "over"}]
  BY DEF Typed, ActionsInv
<1>2. sockets \in UNION {[D -> {"open", "closed"}] : D \in SUBSET Sockets}
  <2>1. DOMAIN sockets \in SUBSET Sockets /\ sockets \in [DOMAIN sockets -> {"open", "closed"}]
    BY DEF PlacesInv, SocketsFit
  <2> QED
    BY <2>1
<1>3. timers \in UNION {[D -> {"once", "repeats", "fired"}] : D \in SUBSET started}
  <2>1. DOMAIN timers \in SUBSET started /\ timers \in [DOMAIN timers -> {"once", "repeats", "fired"}]
    BY DEF ListsInv
  <2> QED
    BY <2>1
<1>4. I!Cardinality(DOMAIN sockets) <= MaxSockets /\ I!Cardinality(fetches) <= MaxFetches
  BY SameSize DEF PlacesInv, SocketsFit, ListsInv
<1>5. \A i \in I!Ids : tasks[i].step \in I!TaskSteps /\ tasks[i].size \in 0..Room
  BY DEF Typed, TasksTyped, TaskRecord
<1> QED
  BY <1>1, <1>2, <1>3, <1>4, <1>5 DEF I!TypeOK, ListsInv, AccountInv

RoomInv == SendingInv /\ ActionsInv /\ AccountInv /\ PlacesInv /\ ListsInv

LEMMA RoomStep ==
  ASSUME RoomInv, I!Next
  PROVE  RoomInv'
<1>1. SendingInv' /\ ActionsInv'
  BY SendingStep, ActionsStep DEF RoomInv, SendingInv
<1>2. Typed /\ Typed' /\ TasksTyped
  BY <1>1 DEF RoomInv, SendingInv, Typed, TasksTyped
<1> QED
  BY <1>1, <1>2, AccountStep, PlacesStep, ListsStep DEF RoomInv

ApartRoom == part = "instance" => RoomInv

\* Room that data takes comes back, whatever becomes of its event, and a task
\* that waits for room is woken; sockets that ended take no place for ever; and
\* every list stays within its limit (net.rs, Budget; instance.rs).
THEOREM RoomAndPlacesComeBack == ApartSpec => []RoomIsKept
<1>1. ApartInit => ApartRoom
  BY SendingStart, ActionsStart, AccountStart, PlacesStart, ListsStart
     DEF ApartInit, ApartRoom, RoomInv
<1>2. ApartRoom /\ [InEditor \/ InInstance]_<<part, editor, instance>> => ApartRoom'
  <2>1. ASSUME ApartRoom, InEditor PROVE ApartRoom'
    BY <2>1 DEF InEditor, ApartRoom
  <2>2. ASSUME ApartRoom, InInstance PROVE ApartRoom'
    BY <2>2, RoomStep DEF InInstance, ApartRoom
  <2>3. ASSUME ApartRoom, UNCHANGED <<part, editor, instance>> PROVE ApartRoom'
    BY <2>3
       DEF instance, ApartRoom, RoomInv, SendingInv, TasksTyped, ActionsInv, QueueTyped, ActionKept,
           Waits, AccountInv, Balance, Asleep, I!Runs, PlacesInv, PlaceKept, I!Open, ListsInv
  <2> QED
    BY <2>1, <2>2, <2>3
<1>3. ApartRoom => RoomIsKept
  <2>1. SUFFICES ASSUME RoomInv PROVE I!RoomIsKept
    BY DEF ApartRoom, RoomIsKept
  <2>2. Typed /\ sent \in [Sockets -> Nat]
    BY <2>1 DEF RoomInv, SendingInv, Typed
  <2> QED
    BY <2>1, <2>2, InstanceTyped, RoomComesBack, PlacesComeBack DEF RoomInv, I!RoomIsKept
<1> QED
  BY <1>1, <1>2, <1>3, PTL DEF ApartSpec
=============================================================================
