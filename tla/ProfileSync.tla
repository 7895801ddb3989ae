---------------------------- MODULE ProfileSync ----------------------------
(***************************************************************************)
(* How an edit gets from the window to the disk: the app's editor          *)
(* (ulanzi-deck/src/state.rs, ui/window.rs), its D-Bus client with the     *)
(* debounced save (client.rs) and the service's revisions (ulanzi-deckd/   *)
(* src/dbus.rs).                                                           *)
(*                                                                         *)
(* A profile is the set of changes it holds.  The app saves the profile    *)
(* it shows, whole, 300 ms after the last edit, with the revision it last  *)
(* saw; the service, which is stopped and started in between, refuses      *)
(* another revision, and the app then takes the current one and saves      *)
(* over it.  An import replaces a profile behind the app's back.  A call   *)
(* of the service runs beside others, so its check and its save are two    *)
(* steps.  The deck's copy, snapshots and the list of profiles are left    *)
(* out.                                                                    *)
(*                                                                         *)
(* The app does not keep every edit: one place is for the edits of all     *)
(* profiles, a profile may be read while a text of it waits to be saved,   *)
(* and closing the window waits for nothing.  `risked` records the edits   *)
(* that such a step puts at risk, in the step that does.                   *)
(***************************************************************************)
EXTENDS Naturals

CONSTANTS
  Profiles,    \* the profiles of the store
  MaxEdits,  \* bound: edits made in the window
  MaxTurns,  \* bound: profiles opened, imports, and ends of the service
  None

Edits == 1..MaxEdits
Imports == MaxEdits + 1..MaxEdits + MaxTurns
Text == SUBSET (Edits \cup Imports)
Revision == Nat \ {0}

VARIABLES
  \* the service
  up,        \* it owns its bus name
  disk,      \* the profiles' files
  revision,  \* DeckService.revisions, 1 for a profile it has no entry of
  import,    \* the profile whose new file has no new revision yet
  turns,     \* how often one ended, a profile was imported or opened
  \* the app
  open,      \* the profile in the editor
  text,      \* what the editor holds
  edits,     \* edits made so far
  pending,   \* Client.pending
  due,       \* the debounce timer runs, or Client.kick holds a permit
  returned,  \* watch_owner has a new owner to handle
  seen,      \* Client.revisions
  opening,   \* open_profile
  save,      \* save_pending, with Client.saving
  \* history
  made,      \* the edits made to each profile
  told,      \* edits of a save that failed, of which the user was told
  gone,      \* edits an import replaced
  risked     \* edits that another text or a closed window may undo

service == <<up, disk, revision, import>>
client == <<pending, due, returned, seen, save>>
editor == <<open, text, edits, opening>>
history == <<made, told, gone, risked>>
vars == <<service, turns, client, editor, history>>

\* Who saves: the debounce timer, a flush or the service's return, and what is
\* saved at once.  The first two take Client.saving.
Locking == {"timer", "flush"}
Savers == Locking \cup {"now"}

\* One save and how far it is: fetching the text and its revision (apply_now),
\* one call of ApplyProfile and what became of it: sent, past the check,
\* answered with a new revision or with StaleRevision, asking for the current
\* revision; `again` is the second attempt.
NoSave == [at |-> "no", id |-> None, text |-> {}, rev |-> 1, again |-> FALSE]
NotOpening == [at |-> "no", id |-> None, text |-> {}]

Init ==
  /\ up = TRUE /\ turns = 0
  /\ disk = [p \in Profiles |-> {}]
  /\ revision = [p \in Profiles |-> 1]
  /\ import = None
  /\ open \in Profiles /\ text = {} /\ edits = 0
  /\ pending = None /\ due = FALSE /\ returned = FALSE
  /\ seen = [p \in Profiles |-> 1]
  /\ opening = NotOpening /\ save = [s \in Savers |-> NoSave]
  /\ made = [p \in Profiles |-> {}]
  /\ told = {} /\ gone = {} /\ risked = {}

(***************************************************************************)
(* The editor                                                              *)
(***************************************************************************)
\* Nothing waits to be saved.
Settled == pending = None /\ \A s \in Savers : save[s].at = "no"

\* What is queued or under way for p, without what is saved at once.
Waiting(p) ==
  (IF pending # None /\ pending.id = p THEN {pending.text} ELSE {})
    \cup {save[s].text : s \in {s \in Locking : save[s].id = p}}

\* The texts of p in the app.
Texts(p) == Waiting(p) \cup (IF open = p THEN {text} ELSE {})

\* A text of p, read before, is on its way to the disk beside the queue.
Racing(p) ==
  save["now"].id = p /\ save["now"].at \in {"revision", "sent", "checked", "stale"}

\* The edits not on the disk that are lost with the queue's place.
Dropped(id) == IF pending = None \/ pending.id = id THEN {} ELSE pending.text \ disk[pending.id]

\* Client::apply: one place, for the newest edit of whichever profile.
Apply(p, t) == pending' = [id |-> p, text |-> t] /\ due' = TRUE

\* AppState::edit, undo and redo.
Edit ==
  /\ open # None /\ edits < MaxEdits
  /\ edits' = edits + 1
  /\ text' = text \cup {edits + 1}
  /\ Apply(open, text')
  /\ made' = [made EXCEPT ![open] = @ \cup {edits + 1}]
  /\ risked' = risked \cup (Dropped(open) \cap Edits)
                      \cup (IF Racing(open) THEN {edits + 1} ELSE {})
  /\ UNCHANGED <<service, turns, open, opening, returned, seen, save, told, gone>>

\* open_profile, asked for in the sidebar, by the deck or after an import; one at
\* a time (a bound).
OpenProfile(p) ==
  /\ opening.at = "no" /\ turns < MaxTurns
  /\ turns' = turns + 1
  /\ opening' = [at |-> "text", id |-> p, text |-> {}]
  /\ UNCHANGED <<service, client, open, text, edits, history>>

\* Client::profile asks for the text and then for its revision.
OpenText ==
  /\ opening.at = "text"
  /\ IF up
     THEN opening' = [opening EXCEPT !.at = "revision", !.text = disk[opening.id]]
     ELSE opening' = NotOpening
  /\ UNCHANGED <<service, turns, client, open, text, edits, history>>

OpenRevision ==
  /\ opening.at = "revision"
  /\ IF up
     THEN /\ seen' = [seen EXCEPT ![opening.id] = revision[opening.id]]
          /\ opening' = [opening EXCEPT !.at = "load"]
     ELSE opening' = NotOpening /\ UNCHANGED seen
  /\ UNCHANGED <<service, turns, pending, due, returned, save, open, text, edits, history>>

\* What of the profile is elsewhere, and not in the text that was read, is at risk.
LoadProfile ==
  LET id == opening.id
      known == disk[id] \cup (UNION Texts(id))
                 \cup (IF save["now"].id = id THEN save["now"].text ELSE {}) IN
  /\ opening.at = "load"
  /\ open' = id /\ text' = opening.text
  /\ opening' = NotOpening
  /\ risked' = risked \cup ((known \ opening.text) \cap Edits)
  /\ UNCHANGED <<service, turns, client, edits, made, told, gone>>

\* The window is closed, and opened again with a new client.  What is queued or
\* on its way goes with it, but for a call that the service has: the window is
\* opened again when that is done (a bound).
Quit ==
  /\ \A s \in Savers : save[s].at \notin {"sent", "checked"}
  /\ open # None
  /\ open' = None /\ text' = {}
  /\ pending' = None /\ due' = FALSE /\ returned' = FALSE
  /\ seen' = [p \in Profiles |-> 1]
  /\ opening' = NotOpening /\ save' = [s \in Savers |-> NoSave]
  /\ risked' = risked \cup (Edits \cap UNION {
       ((UNION Waiting(p)) \cup (IF save["now"].id = p THEN save["now"].text ELSE {}))
         \ disk[p] : p \in Profiles})
  /\ UNCHANGED <<service, turns, edits, made, told, gone>>

(***************************************************************************)
(* Saving                                                                  *)
(***************************************************************************)
\* Mutant: a flush and the timer do not wait for each other.
UnlockedAlways(s) == save[s].at = "no"

\* save_pending with Client.saving: what is queued, if anything, is sent.
Unlocked(s) == \A t \in Locking : save[t].at = "no"

Take(s) ==
  /\ Unlocked(s)
  /\ pending' = None
  /\ save' = IF pending = None THEN save
             ELSE [save EXCEPT ![s] =
                     [at |-> "sent", id |-> pending.id, text |-> pending.text,
                      rev |-> seen[pending.id], again |-> FALSE]]

\* debounce_loop
Debounced ==
  /\ due /\ Take("timer") /\ due' = FALSE
  /\ UNCHANGED <<service, turns, editor, returned, seen, history>>

\* Client::flush, before another page is shown.
Flush ==
  /\ pending # None /\ Take("flush")
  /\ UNCHANGED <<service, turns, editor, due, returned, seen, history>>

\* Mutant: the owner's return is only told to the window.
OwnerSeen ==
  /\ returned /\ returned' = FALSE
  /\ UNCHANGED <<service, turns, editor, pending, save, due, seen, history>>

\* watch_owner
OwnerReturned ==
  /\ returned /\ Take("flush") /\ returned' = FALSE
  /\ UNCHANGED <<service, turns, editor, due, seen, history>>

\* A profile that is not open is renamed, gets a rule, or loses its label
\* overrides: profile and apply_now, without the lock; one at a time (a bound).
ApplyNow(p) ==
  /\ open \notin {None, p} /\ edits < MaxEdits /\ save["now"].at = "no"
  /\ edits' = edits + 1
  /\ made' = [made EXCEPT ![p] = @ \cup {edits + 1}]
  /\ save' = [save EXCEPT !["now"] =
                [NoSave EXCEPT !.at = "text", !.id = p, !.text = {edits + 1}]]
  /\ UNCHANGED <<service, turns, pending, due, returned, seen, open, text, opening,
                 told, gone, risked>>

\* What this text and another one of the profile do not both have is at risk.
Fetch ==
  /\ up
  /\ \/ LET id == save["now"].id
            new == save["now"].text \cup disk[id] IN
        /\ save["now"].at = "text"
        /\ save' = [save EXCEPT !["now"].at = "revision", !["now"].text = new]
        /\ risked' = risked \cup
             (Edits \cap UNION {(new \ other) \cup (other \ new) : other \in Texts(id)})
        /\ UNCHANGED seen
     \/ /\ save["now"].at = "revision"
        /\ seen' = [seen EXCEPT ![save["now"].id] = revision[save["now"].id]]
        /\ save' = [save EXCEPT !["now"].at = "sent", !["now"].rev = revision[save["now"].id]]
        /\ UNCHANGED risked
  /\ UNCHANGED <<service, turns, editor, pending, due, returned, made, told, gone>>

\* apply_profile with a revision: the check, then the file and the revision.
Check(s) ==
  /\ save[s].at = "sent" /\ up
  /\ save' = [save EXCEPT ![s].at =
                IF save[s].rev = revision[save[s].id] THEN "checked" ELSE "stale"]
  /\ UNCHANGED <<service, turns, pending, due, returned, seen, editor, history>>

SaveProfile(s) ==
  LET id == save[s].id IN
  /\ save[s].at = "checked" /\ up
  /\ disk' = [disk EXCEPT ![id] = save[s].text]
  /\ revision' = [revision EXCEPT ![id] = save[s].rev + 1]
  /\ save' = [save EXCEPT ![s].at = "saved"]
  /\ UNCHANGED <<up, turns, import, pending, due, returned, seen, editor,
                 history>>

\* The answer arrives.
Saved(s) ==
  /\ save[s].at = "saved"
  /\ seen' = [seen EXCEPT ![save[s].id] = save[s].rev + 1]
  /\ save' = [save EXCEPT ![s] = NoSave]
  /\ UNCHANGED <<service, turns, editor, pending, due, returned, history>>

\* SaveFailed, or the toast of the dialog that saved at once.
SaveFailed(s) ==
  /\ told' = told \cup (save[s].text \cap Edits)
  /\ save' = [save EXCEPT ![s] = NoSave]
  /\ UNCHANGED <<service, turns, editor, pending, due, returned, seen, made, gone, risked>>

\* The first StaleRevision is met with the current revision (and a Conflict
\* event), the second is an error.
TakeRevision(s) ==
  /\ save[s].at = "stale" /\ up /\ ~save[s].again
  /\ seen' = [seen EXCEPT ![save[s].id] = revision[save[s].id]]
  /\ save' = [save EXCEPT ![s].at = "sent", ![s].rev = revision[save[s].id],
                          ![s].again = TRUE]
  /\ UNCHANGED <<service, turns, editor, pending, due, returned, history>>

StaleAgain(s) == save[s].at = "stale" /\ save[s].again /\ SaveFailed(s)

\* Mutant: what was queued goes back, over a newer edit too.
NotRunningPutBack(s) ==
  /\ ~up
  /\ save[s].at \in {"text", "revision", "sent", "stale"}
  /\ IF s \in Locking
     THEN /\ pending' = [id |-> save[s].id, text |-> save[s].text]
          /\ save' = [save EXCEPT ![s] = NoSave]
          /\ UNCHANGED <<service, turns, editor, due, returned, seen, history>>
     ELSE SaveFailed(s)

\* No service to call: a profile that was queued is queued again, unless a
\* newer edit is, be it of another profile.
NotRunning(s) ==
  /\ ~up
  /\ \/ save[s].at \in {"text", "revision", "sent"}
     \/ save[s].at = "stale" /\ ~save[s].again
  /\ IF s \in Locking
     THEN /\ pending' = (IF pending = None
                         THEN [id |-> save[s].id, text |-> save[s].text] ELSE pending)
          /\ save' = [save EXCEPT ![s] = NoSave]
          /\ risked' = IF pending = None \/ pending.id = save[s].id THEN risked
                       ELSE risked \cup ((save[s].text \ disk[save[s].id]) \cap Edits)
          /\ UNCHANGED <<service, turns, editor, due, returned, seen, made, told, gone>>
     ELSE SaveFailed(s)

(***************************************************************************)
(* The service's own                                                       *)
(***************************************************************************)
\* import_bundle and restore_snapshot: the file, then bump.
Import(p) ==
  /\ up /\ import = None /\ turns < MaxTurns
  /\ turns' = turns + 1 /\ import' = p
  /\ gone' = gone \cup (disk[p] \cap Edits)
  /\ disk' = [disk EXCEPT ![p] = {MaxEdits + turns + 1}]
  /\ UNCHANGED <<up, revision, client, editor, made, told, risked>>

Bump ==
  /\ up /\ import # None
  /\ revision' = [revision EXCEPT ![import] = @ + 1]
  /\ import' = None
  /\ UNCHANGED <<up, turns, disk, client, editor, history>>

\* The service ends: a call it has, or has answered in vain, gets NoReply.
\* Revisions are not kept.
Stop ==
  /\ up /\ turns < MaxTurns
  /\ up' = FALSE /\ turns' = turns + 1
  /\ revision' = [p \in Profiles |-> 1] /\ import' = None /\ returned' = FALSE
  /\ \E lost \in SUBSET {s \in Savers : save[s].at \in {"sent", "checked", "saved"}} :
       /\ \A s \in Savers : save[s].at = "checked" => s \in lost
       /\ save' = [s \in Savers |-> IF s \in lost THEN NoSave ELSE save[s]]
       /\ told' = told \cup (Edits \cap UNION {save[s].text : s \in lost})
  /\ UNCHANGED <<disk, pending, due, seen, editor, made, gone, risked>>

Start ==
  /\ ~up /\ up' = TRUE /\ returned' = TRUE
  /\ UNCHANGED <<turns, disk, revision, import, pending, due, seen, save,
                 editor, history>>

Answered(s) ==
  \/ Check(s) \/ SaveProfile(s) \/ Saved(s)
  \/ TakeRevision(s) \/ StaleAgain(s) \/ NotRunning(s)

Next ==
  \/ Edit \/ \E p \in Profiles : OpenProfile(p)
  \/ OpenText \/ OpenRevision \/ LoadProfile \/ Quit
  \/ Debounced \/ Flush \/ OwnerReturned
  \/ \E p \in Profiles : ApplyNow(p)
  \/ Fetch
  \/ \E s \in Savers : Answered(s)
  \/ \E p \in Profiles : Import(p)
  \/ Bump \/ Stop \/ Start

Spec == Init /\ [][Next]_vars

\* The timer fires, calls are answered or fail, and a service that is needed
\* is started again.
Fairness ==
  /\ WF_vars(Debounced) /\ WF_vars(OwnerReturned) /\ WF_vars(Start)
  /\ WF_vars(Fetch) /\ \A s \in Savers : WF_vars(Answered(s))

LiveSpec == Spec /\ Fairness

(***************************************************************************)
(* Properties                                                              *)
(***************************************************************************)
Queued == [id : Profiles, text : Text]

\* The state has the declared types.
TypeOK ==
  /\ up \in BOOLEAN /\ turns \in 0..MaxTurns
  /\ disk \in [Profiles -> Text] /\ revision \in [Profiles -> Revision]
  /\ import \in Profiles \cup {None}
  /\ open \in Profiles \cup {None} /\ text \in Text /\ edits \in 0..MaxEdits
  /\ pending \in Queued \cup {None}
  /\ due \in BOOLEAN /\ returned \in BOOLEAN
  /\ seen \in [Profiles -> Revision]
  /\ opening \in [at : {"no", "text", "revision", "load"},
                  id : Profiles \cup {None}, text : Text]
  /\ save \in [Savers -> [at : {"no", "text", "revision", "sent", "checked",
                                 "saved", "stale"},
                          id : Profiles \cup {None}, text : Text,
                          rev : Revision, again : BOOLEAN]]
  /\ made \in [Profiles -> SUBSET Edits] /\ told \subseteq Edits
  /\ gone \subseteq Edits /\ risked \subseteq Edits

\* "so every change is saved" (state.rs:2) is true but for the edits in `risked`:
\* with nothing queued or on its way, every other edit is in its profile's file,
\* or the user was told that it is not, or an import replaced it.  Stopping the
\* service, a save put back and a revision refused lose none.
EveryEditSaved ==
  Settled => \A p \in Profiles : made[p] \subseteq disk[p] \cup told \cup gone \cup risked

\* The values of the variables, and no edit lost.
NothingLost == TypeOK /\ EveryEditSaved

\* A save never takes an edit off the disk that an earlier save put there, but
\* one in `risked`, or one of a text from before an import: a queued profile put
\* back does not come after a newer one, and two saves do not overtake each other.
NewestWins ==
  [][\A s \in Savers :
       SaveProfile(s) =>
         disk[save[s].id] \cap Edits \subseteq save[s].text \cup risked \cup gone]_vars

\* What is queued is sent, or its failure told, once the service stays:
\* an edit made while it was away is not forgotten when it returns.
PendingIsSent == pending # None ~> Settled
=============================================================================
