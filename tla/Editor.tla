------------------------------- MODULE Editor -------------------------------
(***************************************************************************)
(* The editor of the app (ulanzi-core/src/edit/mod.rs): a profile and the  *)
(* macro library, the edits the app makes to them (ui/), undo and redo.    *)
(*                                                                         *)
(* Every control of a page is a slot: the keys are 0 to NKeys - 1, then    *)
(* one dial; Small stands for the controls every page shares.  What a slot *)
(* does is an action or a macro, followed or a copy of its own; looks and  *)
(* names, which are edited in the same way, are left out.  A macro is the  *)
(* set of macros it runs.  Parts of the profile this version does not know *)
(* are `foreign`: a page's id, or 0, and a slot.                           *)
(***************************************************************************)
EXTENDS Naturals, SequencesExt

CONSTANTS
  Macros,
  Contents,     \* what slots are given: an action or a macro, and its own copy
  NKeys,
  PageIds,      \* ids for pages, from 1: bounds how many are made
  Loaded,       \* the profile as loaded
  Library,      \* the library as loaded
  Outside,      \* libraries other clients save
  Groups,       \* sets of keys the app offers, one group a device
  Limit,        \* HISTORY_LIMIT
  MaxEdits      \* bound: edits

ASSUME SizesAssumption == {NKeys, Limit} \subseteq Nat \ {0} /\ MaxEdits \in Nat
ASSUME PageIdsAssumption == PageIds \subseteq Nat \ {0} /\ IsFiniteSet(PageIds)

VARIABLES
  ed,      \* Editor, with the clipboard's keys by their distance from the first
  edits    \* edits made, for the bound

vars == <<ed, edits>>

Keys == 0..(NKeys - 1)
Dial == NKeys
Small == NKeys + 1
Slots == 0..Small

Plain(a) == [does |-> a, own |-> {}]
Own(m, body) == [does |-> m, own |-> {body}]

\* All that slots come to do, pages, profiles and libraries.
Known ==
  Contents \cup {Plain(m) : m \in Macros}
    \cup Loaded.small \cup (UNION {Range(Loaded.pages[k].slots) : k \in DOMAIN Loaded.pages})
    \cup UNION {UNION {Range(g[j]) : j \in DOMAIN g} : g \in Groups}
Page == [id : PageIds, slots : UNION {[D -> Known] : D \in SUBSET (0..Dial)}]
Profile == [pages : Seq(Page), small : SUBSET Known,
            foreign : SUBSET (({0} \cup PageIds) \X Slots)]
AnyLibrary == UNION {[D -> SUBSET Macros] : D \in SUBSET Macros}

Init ==
  /\ ed = [profile |-> Loaded, library |-> Library, page |-> 1, undo |-> <<>>, redo |-> <<>>,
           mergeNext |-> FALSE, merge |-> "none", lastMerge |-> "none", clip |-> {}]
  /\ edits = 0

(***************************************************************************)
(* Profiles                                                                *)
(***************************************************************************)
Place(p, k, s) == <<IF s = Small THEN 0 ELSE p.pages[k].id, s>>

\* What `new` has, and what `old` has elsewhere.
Over(new, old) ==
  [x \in DOMAIN new \cup DOMAIN old |-> IF x \in DOMAIN new THEN new[x] ELSE old[x]]

\* Something of a newer version, "which edits must leave alone".
Taken(p, k, s) == Place(p, k, s) \in p.foreign

Put(p, k, s, c) ==
  IF s = Small THEN [p EXCEPT !.small = {c}]
  ELSE [p EXCEPT !.pages[k].slots = Over([x \in {s} |-> c], @)]

PutUnlessTaken(p, k, s, c) == IF Taken(p, k, s) THEN p ELSE Put(p, k, s, c)

Does(p, k, s) ==
  IF s = Small THEN p.small
  ELSE {p.pages[k].slots[x] : x \in {s} \cap DOMAIN p.pages[k].slots}

PagesOf(p) == {p.pages[k].id : k \in DOMAIN p.pages}

\* No key and no control all pages share is where something of a newer version
\* is, and what there is of those is on a page that is there.
Unmixed(p) ==
  /\ \A f \in p.foreign : f[1] = 0 \/ f[1] \in PagesOf(p)
  /\ \A k \in DOMAIN p.pages, s \in Slots \ {Dial} : Taken(p, k, s) => Does(p, k, s) = {}

\* No macro runs itself, directly or through others.
NeverLoops(l) == \A S \in (SUBSET DOMAIN l) \ {{}} : \E m \in S : l[m] \cap S = {}

\* What is loaded has a page (Profile::normalize), and is as the app writes it:
\* no two pages of an id, no macro that runs itself.
ASSUME LoadedAssumption ==
  /\ Loaded \in Profile /\ Loaded.pages # <<>> /\ Unmixed(Loaded)
  /\ \A j, k \in DOMAIN Loaded.pages : Loaded.pages[j].id = Loaded.pages[k].id => j = k
\* Keys are offered for one device or for two.
ASSUME GroupsAssumption == \A g \in Groups : g \in Seq(Seq(Known)) /\ Len(g) \in {1, 2}
ASSUME LibrariesAssumption ==
  \A l \in {Library} \cup Outside : l \in AnyLibrary /\ NeverLoops(l)

Without(p, k, S) == [p EXCEPT !.pages[k].slots = Restrict(@, DOMAIN @ \ S)]

Free(p, k) == {i \in Keys : Does(p, k, i) = {} /\ ~Taken(p, k, i)}
\* Key `i` is the Rank-th of the keys F.
Rank(F, i) == Cardinality({j \in F : j <= i})

\* Keys of page `k` become what `new` has for them.
PutAll(p, k, new) == [p EXCEPT !.pages[k].slots = Over(new, @)]

\* `group` into the first free keys of page `k`, as far as there are any.
Fill(p, k, group) ==
  LET F == Free(p, k)
  IN PutAll(p, k, [i \in {j \in F : Rank(F, j) <= Len(group)} |-> group[Rank(F, i)]])

Unused == PageIds \ (PagesOf(ed.profile) \cup
  (UNION {PagesOf(ed.undo[k].profile) : k \in DOMAIN ed.undo}) \cup
  UNION {PagesOf(ed.redo[k].profile) : k \in DOMAIN ed.redo})

\* A page after page `k`, with the dials of the current one.
WithPage(p, k) ==
  LET dials == Restrict(ed.profile.pages[ed.page].slots,
                        {Dial} \cap DOMAIN ed.profile.pages[ed.page].slots)
      id == Min(Unused \ PagesOf(p))
  IN [p EXCEPT !.pages = InsertAt(@, k + 1, [id |-> id, slots |-> dials])]

(***************************************************************************)
(* Undo and redo                                                           *)
(***************************************************************************)
\* Mutant: what was undone can still be redone after another edit.
EditedKeepsRedo(e, p, l) ==
  IF p = e.profile /\ l = e.library THEN e
  ELSE LET step == [profile |-> e.profile, library |-> {x \in {e.library} : x # l}]
       IN [e EXCEPT !.profile = p, !.library = l, !.undo = Append(@, step)]

\* edit_with_library: the editor after an edit to profile `p` and library `l`.
\* One without effect changes nothing.  The library is kept only for a step
\* that changed it.
Edited(e, p, l) ==
  LET joins == (e.mergeNext \/ (e.merge # "none" /\ e.merge = e.lastMerge)) /\ e.undo # <<>>
      step == [profile |-> e.profile, library |-> {x \in {e.library} : x # l}]
      undo == IF joins THEN e.undo ELSE Append(e.undo, step)
  IN IF p = e.profile /\ l = e.library THEN e
     ELSE [e EXCEPT !.profile = p, !.library = l, !.redo = <<>>,
                    !.mergeNext = FALSE, !.lastMerge = e.merge,
                    !.undo = IF Len(undo) > Limit THEN Tail(undo) ELSE undo]

Least(i, j) == IF i <= j THEN i ELSE j

SetMerge(e, key) ==
  [e EXCEPT !.merge = key, !.lastMerge = IF key = "none" THEN "none" ELSE @]

\* AppState::edit and edit_merged: an edit of the profile.
Becomes(e) ==
  /\ edits < MaxEdits
  /\ ed' = e /\ edits' = IF <<e.profile, e.library>> # <<ed.profile, ed.library>>
                         THEN edits + 1 ELSE edits

Edit(p) == Becomes(Edited(SetMerge(ed, "none"), p, ed.library))

\* restore: what the step has is put back, and what that replaces is returned.
Restored(step) ==
  [ed EXCEPT !.profile = step.profile,
             !.library = IF step.library = {} THEN @ ELSE CHOOSE l \in step.library : TRUE,
             !.page = Least(@, Len(step.profile.pages)),
             !.lastMerge = "none"]
Replaced(step) ==
  [profile |-> ed.profile, library |-> IF step.library = {} THEN {} ELSE {ed.library}]

Undo ==
  /\ ed.undo # <<>>
  /\ ed' = [Restored(Last(ed.undo)) EXCEPT !.undo = Front(@),
                                           !.redo = Append(@, Replaced(Last(ed.undo)))]
  /\ UNCHANGED edits

Redo ==
  /\ ed.redo # <<>>
  /\ ed' = [Restored(Last(ed.redo)) EXCEPT !.redo = Front(@),
                                           !.undo = Append(@, Replaced(Last(ed.redo)))]
  /\ UNCHANGED edits

(***************************************************************************)
(* Edits of the profile                                                    *)
(***************************************************************************)
Drop(e, s, c) == Edited(e, PutUnlessTaken(e.profile, e.page, s, c), e.library)

\* drop_action, set_slot_action and the setters of a slot; those of a text
\* field share a step while it is typed in.
SetSlot(s, c, key) == Becomes(Drop(SetMerge(ed, key), s, c))

\* An action for every selected slot, in one step; two stand for any number.
Assign(a, b, c) ==
  LET start == SetMerge(SetMerge(ed, "none"), "assign")
  IN Becomes(SetMerge(Drop(Drop(start, a, c), b, c), "none"))

\* The dial's setup goes to every page, taken or not.
AllDials(p, dial) ==
  [k \in DOMAIN p.pages |->
     [p.pages[k] EXCEPT !.slots = Over([s \in {x \in {Dial} : dial # {}} |-> CHOOSE d \in dial : TRUE],
                                       Restrict(@, DOMAIN @ \ {Dial}))]]

DialToAllPages ==
  Edit([ed.profile EXCEPT !.pages = AllDials(ed.profile, Does(ed.profile, ed.page, Dial))])

Swap(a, b) ==
  LET Other(s) == IF s = a THEN b ELSE IF s = b THEN a ELSE s
      old == ed.profile.pages[ed.page].slots
  IN IF Taken(ed.profile, ed.page, a) \/ Taken(ed.profile, ed.page, b)
     THEN Edit(ed.profile)
     ELSE Edit([ed.profile EXCEPT !.pages[ed.page].slots =
                  [s \in {Other(x) : x \in DOMAIN old} |-> old[Other(s)]]])

\* Only while something can be pasted.
CopyKeys(K) ==
  /\ edits < MaxEdits
  /\ ed' = [ed EXCEPT !.clip =
       UNION {{<<i - Min(K), c>> : c \in Does(ed.profile, ed.page, i)} : i \in K}]
  /\ UNCHANGED edits

\* What is on the clipboard for the keys K, from key `i` on.
Pasted(i, K) ==
  [s \in K \cap {i + x[1] : x \in ed.clip} |-> (CHOOSE x \in ed.clip : i + x[1] = s)[2]]

\* Mutant: keys are pasted over what a newer version left.
PasteOver(i) == Edit(PutAll(ed.profile, ed.page, Pasted(i, Keys)))

\* Keys past the last one are dropped.
PasteKeys(i) ==
  LET open == {s \in Keys : ~Taken(ed.profile, ed.page, s)}
  IN Edit(PutAll(ed.profile, ed.page, Pasted(i, open)))

Clear(K) ==
  Edit([Without(ed.profile, ed.page, K) EXCEPT
          !.foreign = @ \ {Place(ed.profile, ed.page, i) : i \in K}])

ClearForeign(s) == Edit([ed.profile EXCEPT !.foreign = @ \ {Place(ed.profile, ed.page, s)}])

\* The first of the keys goes into the first free slot of page `k`, and so on;
\* keys that find none are gone.
MoveToPage(K, k) ==
  LET old == ed.profile.pages[ed.page].slots
      moving == K \cap DOMAIN old
      F == Free(ed.profile, k)
      For(i) == {j \in moving : Rank(moving, j) = Rank(F, i)}
      new == [i \in {f \in F : For(f) # {}} |-> old[CHOOSE j \in For(i) : TRUE]]
  IN k # ed.page /\ Edit(PutAll(Without(ed.profile, ed.page, K), k, new))

AddPage == Unused # {} /\ Edit(WithPage(ed.profile, ed.page))

\* A place is a profile and a page of it: a new page after it, and a group on
\* it, or on a new page where it does not fit.
NextPage(x) == [p |-> WithPage(x.p, x.at), at |-> x.at + 1]
AddGroup(x, g) ==
  LET y == IF Cardinality(Free(x.p, x.at)) < Len(g) THEN NextPage(x) ELSE x
  IN [p |-> Fill(y.p, y.at, g), at |-> y.at]

\* Two groups stand for any number.
AddKeys(groups, fresh) ==
  LET here == [p |-> ed.profile, at |-> ed.page]
      one == AddGroup(IF fresh THEN NextPage(here) ELSE here, groups[1])
      all == IF Len(groups) = 1 THEN one ELSE AddGroup(one, groups[2])
  IN Cardinality(Unused) > Len(groups) /\ Edit(all.p)

RemovePage(k) ==
  LET gone == ed.profile.pages[k].id
      e == Edited(SetMerge(ed, "none"),
             [ed.profile EXCEPT !.pages = RemoveAt(@, k), !.foreign = {f \in @ : f[1] # gone}],
             ed.library)
  IN /\ Len(ed.profile.pages) > 1
     /\ Becomes([e EXCEPT !.page = Least(@, Len(e.profile.pages))])

\* The page that was open stays open.
MovePage(from, to) ==
  LET moved == InsertAt(RemoveAt(ed.profile.pages, from), to, ed.profile.pages[from])
      e == Edited(SetMerge(ed, "none"), [ed.profile EXCEPT !.pages = moved], ed.library)
  IN /\ from # to
     /\ Becomes([e EXCEPT !.page = CHOOSE k \in DOMAIN moved :
                                     moved[k].id = ed.profile.pages[ed.page].id])

SetPage(k) == ed' = [ed EXCEPT !.page = k] /\ UNCHANGED edits

(***************************************************************************)
(* The macro library                                                       *)
(***************************************************************************)
\* Mutant: only what a macro runs itself is looked at.
WouldLoopAtOnce(l, m, body) == m \in body

\* Whether macro `m` would run itself, through others it runs too: whatever
\* holds what `body` runs, and what that runs, holds `m`.
WouldLoop(l, m, body) ==
  \A S \in SUBSET Macros :
    body \subseteq S /\ (\A x \in S \cap DOMAIN l : l[x] \subseteq S) => m \in S

\* save_macro: refused when it would make a macro run itself.
SavedMacro(e, m, body) ==
  IF WouldLoop(e.library, m, body) THEN e
  ELSE Edited(e, e.profile, Over([x \in {m} |-> body], e.library))

\* The macro editor saves to the library and makes the next edit part of that
\* step; opened from a slot, it then has the slot follow the macro.
Saved(m, body) == [SavedMacro(SetMerge(ed, "none"), m, body) EXCEPT !.mergeNext = TRUE]

SaveMacro(m, body) == Becomes(Saved(m, body))

SaveAndFollow(m, body, s) ==
  IF WouldLoop(ed.library, m, body) THEN SaveMacro(m, body)
  ELSE Becomes(Drop(SetMerge(Saved(m, body), "none"), s, Plain(m)))

\* A macro duplicated, or put back as it was before the last save.
StoreMacro(m, body) == Becomes(SavedMacro(SetMerge(ed, "none"), m, body))

DeleteMacro(m) ==
  Becomes(Edited(SetMerge(ed, "none"), ed.profile, Restrict(ed.library, DOMAIN ed.library \ {m})))

\* Another client saved the library; bounded by the edits too.
SetLibrary(l) == edits < MaxEdits /\ ed' = [ed EXCEPT !.library = l] /\ UNCHANGED edits

-----------------------------------------------------------------------------
Pages == DOMAIN ed.profile.pages
Bodies == SUBSET Macros
\* A slot whose macro the editor may be open on.
MacroSlots == {s \in Slots : \E c \in Does(ed.profile, ed.page, s) : c.does \in Macros}

ProfileEdits ==
  \/ \E s \in Slots, c \in Contents, key \in {"none", "typing"} : SetSlot(s, c, key)
  \/ \E c \in Contents, a, b \in Slots : a < b /\ Assign(a, b, c)
  \/ DialToAllPages
  \/ \E a, b \in Keys : a < b /\ Swap(a, b)
  \/ \E K \in (SUBSET Keys) \ {{}} : CopyKeys(K) \/ Clear(K) \/ \E k \in Pages : MoveToPage(K, k)
  \/ \E i \in Keys : PasteKeys(i)
  \/ \E s \in Slots : ClearForeign(s)
  \/ AddPage \/ (\E g \in Groups, fresh \in BOOLEAN : AddKeys(g, fresh))
  \/ \E k \in Pages : RemovePage(k) \/ SetPage(k) \/ \E j \in Pages : MovePage(k, j)

LibraryEdits ==
  \/ \E m \in Macros, b \in Bodies : SaveMacro(m, b) \/ StoreMacro(m, b)
  \/ \E s \in MacroSlots, m \in Macros, b \in Bodies : SaveAndFollow(m, b, s)
  \/ \E m \in DOMAIN ed.library : DeleteMacro(m)
  \/ \E l \in Outside : SetLibrary(l)

Next == ProfileEdits \/ LibraryEdits \/ Undo \/ Redo

Spec == Init /\ [][Next]_vars

-----------------------------------------------------------------------------
(* Properties                                                              *)

Profiles(steps) == [k \in DOMAIN steps |-> steps[k].profile]

History == INSTANCE EditHistory WITH
  versions <- Profiles(ed.undo) \o <<ed.profile>> \o Reverse(Profiles(ed.redo)),
  at <- Len(ed.undo) + 1

\* Undo and redo walk the profile along one line of versions, whatever edits
\* are merged, without effect, or too many to keep.
ImplementsEditHistory == History!Spec

\* The editor never puts a key, or a control all pages share, where something
\* of a newer version is, which would be saved over it; and what it keeps of
\* newer versions belongs to a page that is there, or it would be dropped.
ForeignUnmixed == ed.page \in Pages /\ Unmixed(ed.profile)

\* No macro of the library runs itself, directly or through others, after any
\* order of saves, deletions, undone steps and libraries saved elsewhere.
LibraryNeverLoops == NeverLoops(ed.library)

\* What is edited stays fit to be saved and played.
StaysSound == ForeignUnmixed /\ LibraryNeverLoops

\* "Ctrl+Z and Ctrl+Shift+Z undo and redo any change" (docs/user-guide.md:134):
\* with everything undone, profile and library are as they were loaded (while
\* HISTORY_LIMIT is not reached and no other client saves macros).
AnyChangeIsUndone == ed.undo = <<>> => ed.profile = Loaded /\ ed.library = Library

=============================================================================
