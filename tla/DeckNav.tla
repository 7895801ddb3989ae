------------------------------ MODULE DeckNav -------------------------------
(***************************************************************************)
(* Which profile and page the deck shows (ulanzi-deckd/src/deck/mod.rs,    *)
(* nav.rs, ulanzi-core/src/autoswitch.rs): keys and messages that switch   *)
(* pages, folders and profiles, automatic switching by the window in       *)
(* front, and profiles edited, added and removed meanwhile.                *)
(*                                                                         *)
(* The deck refers to the profile it shows, to its page and to the folders *)
(* it came through by their positions in lists that edits change under it. *)
(* A page is its kind; a profile follows one application at most; the      *)
(* names of windows and the order of the profiles in the settings are left *)
(* out (rules are tried in the actor's order), and so are ties of priority *)
(* with it.                                                                *)
(***************************************************************************)
EXTENDS Naturals, Sequences, SequencesExt

CONSTANTS
  Ids,         \* profiles there may be
  Apps,        \* applications a profile may follow
  Layouts,     \* the pages of a profile: sequences of kinds
  None,
  MaxDepth,    \* bound: folders opened in one another
  MaxChanges   \* bound: profiles applied and removed

Kinds == {"page", "folder"}
Profile == [id : Ids, pages : Layouts, app : Apps \cup {None}]

\* Windows: of an application, of one that no profile could follow, of the
\* desktop shell (IGNORED).
Windows == Apps \cup {"other", "shell"}

VARIABLES
  profiles,   \* Deck.profiles
  active,     \* the position of the one shown
  page,       \* NavState.page
  stack,      \* NavState.stack
  focused,    \* the window in front
  auto,       \* settings.auto_switch
  auto_from,  \* the profile automatic switching left
  changes,    \* profiles applied and removed so far
  chosen,     \* the profile the user chose last (history)
  restored    \* since then, the one in auto_from was removed and came back (history)

nav == <<page, stack>>
vars == <<profiles, active, nav, focused, auto, auto_from, changes, chosen, restored>>

Present == {profiles[i].id : i \in DOMAIN profiles}
At(id) == CHOOSE i \in DOMAIN profiles : profiles[i].id = id
Current == profiles[active].id
Shown == profiles[active].pages

Init ==
  /\ \E s \in [1..2 -> Profile] : s[1].id # s[2].id /\ profiles = s
  /\ active \in 1..2
  /\ page = 1 /\ stack = <<>>
  /\ focused = None /\ auto \in BOOLEAN /\ auto_from = None
  /\ changes = 0
  /\ chosen = Current /\ restored = FALSE

-----------------------------------------------------------------------------
(* Shown.                                                                  *)

Stays == UNCHANGED <<profiles, active, focused, auto, auto_from, changes, chosen, restored>>

\* NavState::step: on from the page the first folder was opened on, or from
\* the first page when that is a folder itself, and around the ends.
Step(forward) ==
  /\ LET normal == {i \in DOMAIN Shown : Shown[i] = "page"}
         from   == IF stack = <<>> THEN page ELSE stack[1]
         here   == IF from \in normal THEN from ELSE Min(normal)
         beyond == {i \in normal : IF forward THEN i > here ELSE i < here}
         around == IF beyond = {} THEN normal ELSE beyond
     IN IF normal = {} THEN UNCHANGED nav
        ELSE /\ page' \in around
             /\ \A i \in around : IF forward THEN page' <= i ELSE page' >= i
             /\ stack' = <<>>
  /\ Stays

\* GoToPage, of a page the profile has, and SetPage, of any.
GoTo(i) ==
  /\ IF i \in DOMAIN Shown THEN page' = i /\ stack' = <<>> ELSE UNCHANGED nav
  /\ Stays

OpenFolder(i) ==
  /\ i \in DOMAIN Shown /\ i # page /\ Len(stack) < MaxDepth
  /\ stack' = Append(stack, page)
  /\ page' = i
  /\ Stays

Back ==
  /\ IF stack = <<>> THEN UNCHANGED nav
     ELSE page' = Last(stack) /\ stack' = Front(stack)
  /\ Stays

-----------------------------------------------------------------------------
(* Profiles.                                                                *)

\* switch_profile.
SwitchTo(i) == active' = i /\ page' = 1 /\ stack' = <<>>

\* Action::SwitchProfile and DeckMsg::SwitchProfile: the user chose, also when
\* the profile is gone.
SwitchProfile(id) ==
  /\ auto_from' = None /\ restored' = FALSE
  /\ IF id \in Present THEN SwitchTo(At(id)) /\ chosen' = id
     ELSE chosen' = Current /\ UNCHANGED <<active, nav>>
  /\ UNCHANGED <<profiles, focused, auto, changes>>

\* Mutant of Clamp: the folders are kept.
ClampPage(n) ==
  /\ page' = IF page > n THEN 1 ELSE page
  /\ UNCHANGED stack

\* NavState::clamp: the folders that are left, in their order.
Clamp(n) ==
  IF page > n THEN page' = 1 /\ stack' = <<>>
  ELSE LET left == {k \in DOMAIN stack : stack[k] <= n}
       IN /\ UNCHANGED page
          /\ \E m \in 0..Len(stack) : \E nth \in [1..m -> left] :
               /\ left = {nth[k] : k \in 1..m}
               /\ \A i, j \in 1..m : i < j => nth[i] < nth[j]
               /\ stack' = [k \in 1..m |-> stack[nth[k]]]

\* DeckMsg::Apply.
Apply(p) ==
  /\ changes < MaxChanges /\ changes' = changes + 1
  /\ profiles' = IF p.id \in Present THEN [profiles EXCEPT ![At(p.id)] = p]
                 ELSE Append(profiles, p)
  /\ Clamp(Len(profiles'[active].pages))
  /\ restored' = (restored \/ (p.id = auto_from /\ p.id \notin Present))
  /\ UNCHANGED <<active, focused, auto, auto_from, chosen>>

\* DeckMsg::RemoveProfile.  When the profile shown goes, the one before it is
\* shown; that is the user's as the one that went was.
RemoveProfile(id) ==
  /\ changes < MaxChanges /\ changes' = changes + 1
  /\ id \in Present /\ Len(profiles) > 1
  /\ LET i == At(id)
         now == IF active >= i /\ active > 1 THEN active - 1 ELSE active
     IN /\ profiles' = RemoveAt(profiles, i)
        /\ IF i = active THEN SwitchTo(now) ELSE active' = now /\ UNCHANGED nav
        /\ chosen' = IF i = active /\ chosen = id THEN profiles'[now].id ELSE chosen
  /\ UNCHANGED <<focused, auto, auto_from, restored>>

-----------------------------------------------------------------------------
(* Automatic switching.                                                    *)

Following(w) == {i \in DOMAIN profiles : profiles[i].app = w}
Rules == {i \in DOMAIN profiles : profiles[i].app # None}

\* pick_profile, of the rules there are: the first that follows w.
Pick(w, back) ==
  IF Following(w) = {} THEN back
  ELSE profiles[CHOOSE i \in Following(w) : \A j \in Following(w) : i <= j].id

\* Mutant of AutoSwitch: what it leaves is where it goes back to.
AutoSwitchFromHere(w, on) ==
  LET target == Pick(w, IF auto_from \in Present THEN auto_from ELSE Current)
  IN IF w \in {None, "shell"} \/ ~on \/ Rules = {} \/ target = Current
     THEN UNCHANGED <<active, nav, auto_from, chosen>>
     ELSE /\ auto_from' = Current
          /\ SwitchTo(At(target))
          /\ UNCHANGED chosen

\* auto_switch, for the window w.  A profile that is gone is not gone back to,
\* and then the one shown is as good as chosen.
AutoSwitch(w, on) ==
  LET back   == IF auto_from \in Present THEN auto_from ELSE Current
      target == Pick(w, back)
  IN IF w \in {None, "shell"} \/ ~on \/ Rules = {} \/ target = Current
     THEN UNCHANGED <<active, nav, auto_from, chosen>>
     ELSE /\ auto_from' = IF target = back THEN None ELSE back
          /\ SwitchTo(At(target))
          /\ chosen' = IF chosen \in Present THEN chosen ELSE Current

\* DeckMsg::Focus.
Focus(w) ==
  /\ focused' = w
  /\ AutoSwitch(w, auto)
  /\ UNCHANGED <<profiles, auto, changes, restored>>

\* Action::AutoProfile and DeckMsg::ToggleAutoSwitch.
Toggle ==
  /\ auto' = ~auto
  /\ AutoSwitch(focused, ~auto)
  /\ UNCHANGED <<profiles, focused, changes, restored>>

\* DeckMsg::Settings: no switch until the next window comes to the front.
Settings ==
  /\ auto' = ~auto
  /\ UNCHANGED <<profiles, active, nav, focused, auto_from, changes, chosen, restored>>

Next ==
  \/ \E forward \in BOOLEAN : Step(forward)
  \/ \E i \in 1..Len(Shown) + 1 : GoTo(i) \/ OpenFolder(i)
  \/ Back
  \/ \E id \in Ids : SwitchProfile(id) \/ RemoveProfile(id)
  \/ \E p \in Profile : Apply(p)
  \/ \E w \in Windows : Focus(w)
  \/ Toggle \/ Settings

Spec == Init /\ [][Next]_vars

-----------------------------------------------------------------------------

TypeOK ==
  /\ profiles \in Seq(Profile) /\ profiles # <<>>
  /\ focused \in Windows \cup {None} /\ auto \in BOOLEAN
  /\ auto_from \in Ids \cup {None} /\ chosen \in Ids /\ restored \in BOOLEAN
  /\ changes \in 0..MaxChanges /\ Len(stack) <= MaxDepth

\* Whatever was removed, added or cut down under the deck, the profile it shows
\* is there (profile() would panic), the page it shows is one of that profile's
\* (a page that is not there has no keys), and so are the folders to go back
\* through; no profile is there twice.
InPlace ==
  /\ TypeOK
  /\ active \in DOMAIN profiles
  /\ page \in DOMAIN Shown
  /\ stack \in Seq(Nat)
  /\ \A k \in DOMAIN stack : stack[k] \in DOMAIN Shown
  /\ \A i, j \in DOMAIN profiles : profiles[i].id = profiles[j].id => i = j

\* A window w comes to the front that no profile follows, others being followed.
Unfollowed(w) ==
  /\ w # "shell" /\ auto /\ Rules # {} /\ Following(w) = {}
  /\ Focus(w)

\* "When you leave that app, the deck returns to the profile you were on.  An
\* app with no profile changes nothing, so a profile you chose yourself stays
\* until you change it" (docs/user-guide.md:317): a window no profile follows
\* brings back the profile that the user chose last, if it is still there,
\* over any number of switches, edits and removals in between.  The exception:
\* removing the profile shown leaves auto_from as it is, also when that is the
\* one removed, so that when it comes back (a snapshot is restored) the deck goes
\* there from a profile it was not switched to by itself.
BackToChosen ==
  [][\A w \in Windows :
       Unfollowed(w) /\ ~restored => Current' = IF chosen \in Present THEN chosen ELSE Current]_vars
=============================================================================
