----------------------------- MODULE DeckUpload -----------------------------
(***************************************************************************)
(* The deck actor's uploads (ulanzi-deckd/src/deck/mod.rs): one task owns  *)
(* the deck, queues packets for it, and decides when the page it shows is  *)
(* uploaded again, as a whole or only the keys that changed.               *)
(*                                                                         *)
(* The task handles one event at a time, so a handler is one action.  The  *)
(* fields of `struct Deck` the uploads use are the fields of the record    *)
(* `deck`; the calls a handler makes are functions on that record, applied *)
(* in the order the handler makes them.                                    *)
(*                                                                         *)
(* Pictures, labels and file names are abstracted to a "look" per key.     *)
(* Time is abstracted to what the code asks of it: whether the moment of   *)
(* `next_upload_at` is still ahead ("wait") or has come ("due").           *)
(***************************************************************************)
EXTENDS Integers, Sequences, FiniteSets

CONSTANTS
  Keys,         \* the slots of a page: keys, and the wide screen
  Looks,        \* what a slot can look like
  Pages,        \* the pages of the profiles
  Nothing,      \* no upload; a deck that shows nothing of ours
  FullPackets,  \* packets of a whole page; a partial update takes one
  MaxChanges,   \* bound: changes of the page or of what it shows
  MaxConnects   \* bound: connections made

ASSUME KeysAssumption == IsFiniteSet(Keys)
ASSUME PagesAssumption == Pages # {}
ASSUME PacketsAssumption == FullPackets \in Nat \ {0}
ASSUME BoundsAssumption == MaxChanges \in Nat /\ MaxConnects \in Nat

VARIABLES
  deck,      \* the actor's fields
  device,    \* what the deck on the desk shows (external)
  changes,   \* changes made so far, for MaxChanges
  connects,  \* connections so far, for MaxConnects
  whole      \* where the page last sent whole is, until a press (history)

vars == <<deck, device, changes, connects, whole>>

Entry == Looks \X BOOLEAN          \* a look, and whether it is drawn pressed
Entries == UNION {[S -> Entry] : S \in SUBSET Keys}
Page == [at : Pages, entries : [Keys -> Entry]]
Upload == [full : {TRUE}, at : Pages, entries : [Keys -> Entry]]
          \cup [full : {FALSE}, at : Pages, entries : Entries]
Packet == [upload : {Nothing} \cup Upload, left : Nat]

ASSUME NothingAssumption == Nothing \notin Upload

\* A command is a packet of its own.
Msg == [upload |-> Nothing, left |-> 0]
IsUpload(p) == p.upload # Nothing
Uploads(q) == {i \in DOMAIN q : IsUpload(q[i])}

-----------------------------------------------------------------------------
(* Calls the handlers make.                                                *)

\* Queue a command for the deck; nothing happens with no deck to send to.
\* Commands queued one after another are modelled as one packet.
Send(d) ==
  IF ~d.transport \/ (d.outgoing # <<>> /\ d.outgoing[Len(d.outgoing)] = Msg)
  THEN d
  ELSE [d EXCEPT !.outgoing = Append(@, Msg)]

\* What the current page shows with the keys in `held` drawn pressed.
Built(d) == [k \in Keys |-> <<d.look[k], k \in d.held>>]

\* The packets of an upload, each with how many of it are `left` after it.
FilePackets(u) ==
  LET n == IF u.full THEN FullPackets ELSE 1
  IN  [i \in 1..n |-> [upload |-> u, left |-> n - i]]

\* A key held through a page change is let go.
LetGoElsewhere(d) ==
  IF d.shown # Nothing /\ d.shown.at # d.page
  THEN [d EXCEPT !.held = {}, !.pressing = {}]
  ELSE d

\* Effects no picture exists for yet go to a drawing job, one job at a time.
StartDrawing(d) ==
  IF d.missing /\ ~d.drawing
  THEN [d EXCEPT !.drawing = TRUE, !.missing = FALSE]
  ELSE d

\* The upload the deck needs, from what it was last sent.
NextUpload(d, force) ==
  IF d.shown # Nothing /\ ~force /\ d.shown.at = d.page
  THEN [full |-> FALSE, at |-> d.page,
        entries |-> LET b == Built(d)
                    IN  [k \in {k \in Keys : d.shown.entries[k] # b[k]} |-> b[k]]]
  ELSE [full |-> TRUE, at |-> d.page, entries |-> Built(d)]

\* Mutant: any upload a press caused goes without its gap.
QueuePressFree(d, u, press) ==
  [d EXCEPT !.outgoing = @ \o FilePackets(u),
            !.upload_gap = IF press THEN "zero" ELSE "cooldown",
            !.next_upload_at = "none",
            !.shown = [at |-> d.page, entries |-> Built(d)]]

\* Queue an upload: its gap starts at the last packet (packet_sent).
Queue(d, u, press) ==
  [d EXCEPT !.outgoing = @ \o FilePackets(u),
            !.upload_gap = IF press /\ ~u.full THEN "zero" ELSE "cooldown",
            !.next_upload_at = "none",
            !.shown = [at |-> d.page, entries |-> Built(d)]]

\* The part of push_page past its early returns: the flags are taken, the
\* page is built, and what changed is queued.
UploadNow(d, force) ==
  \* `force || take(pending_full)`: a forced upload leaves pending_full as it is
  LET taken == [d EXCEPT !.pending_full = IF force THEN @ ELSE FALSE,
                         !.press_upload = FALSE,
                         !.upload_pending = FALSE]
      built == StartDrawing(LetGoElsewhere(taken))
      u == NextUpload(built, force \/ d.pending_full)
  IN  IF ~u.full /\ DOMAIN u.entries = {} THEN built ELSE Queue(built, u, d.press_upload)

\* Mutant: only the gap is looked at, not an upload still going out.
MustWaitForGapOnly(d) == d.next_upload_at = "wait" /\ ~d.press_upload

\* An upload has to wait: one is still going out, or the deck is still
\* unpacking one and this is not a press.
MustWait(d) ==
  \/ d.upload_gap # "none"
  \/ d.next_upload_at = "wait" /\ ~d.press_upload

\* Mutant: a request that has to wait is dropped.
PushPageForgets(d, force) ==
  IF ~d.transport \/ d.awaiting_info \/ MustWait(d) THEN d
  ELSE UploadNow(d, force)

PushPage(d, force) ==
  IF ~d.transport \/ d.awaiting_info THEN d
  ELSE IF MustWait(d)
  THEN [d EXCEPT !.upload_pending = TRUE, !.pending_full = @ \/ force]
  ELSE UploadNow(d, force)

\* Mutant: what the last connection showed is taken for shown.
ConfigureKeepsShown(d) == [Send(d) EXCEPT !.awaiting_info = TRUE]

\* Setup after connecting; the commands go out as one burst.
Configure(d) ==
  [Send([d EXCEPT !.shown = Nothing]) EXCEPT !.awaiting_info = TRUE]

\* The deck is ready, or is not waited for any longer: the page, then the
\* wide screen's mode.
DeckReady(d) == Send(PushPage([d EXCEPT !.awaiting_info = FALSE], TRUE))

-----------------------------------------------------------------------------
(* Init and the events of the loop in `run`.                               *)

\* An upload is queued by the step, and it is a whole page.
StartsUpload == Uploads(deck.outgoing) = {} /\ Uploads(deck'.outgoing) # {}
StartsPage ==
  StartsUpload /\ \E i \in Uploads(deck'.outgoing) : deck'.outgoing[i].upload.full

\* History of a step that may queue an upload: a page is on its way, or what
\* was said of the one before is now `before`.
Remember(before) == whole' = IF StartsPage THEN "going" ELSE before

Init ==
  /\ deck \in [transport : {FALSE}, awaiting_info : {FALSE}, outgoing : {<<>>},
               upload_gap : {"none"}, next_upload_at : {"none"},
               upload_pending : {FALSE}, pending_full : {FALSE},
               press_upload : {FALSE}, page : Pages, look : [Keys -> Looks],
               pressing : {{}}, held : {{}}, shown : {Nothing},
               drawing : {FALSE}, missing : BOOLEAN]
  /\ device = Nothing
  /\ changes = 0
  /\ connects = 0
  /\ whole = "none"

\* DeckMsg::DeviceUp.  The hot-plug task may open the deck again while the
\* actor still holds a connection (it re-probes after missing events), so the
\* old connection need not be gone.
DeviceUp ==
  /\ connects < MaxConnects
  /\ deck' = Configure([deck EXCEPT !.transport = TRUE])
  /\ device' = Nothing
  /\ connects' = connects + 1
  /\ whole' = "none"
  /\ UNCHANGED changes

\* Mutant: a request outlives the connection.
DeviceDownKeepsPending ==
  /\ deck' = [deck EXCEPT !.held = {}, !.pressing = {}, !.transport = FALSE,
                          !.outgoing = <<>>, !.upload_gap = "none"]
  /\ whole' = "none"
  /\ UNCHANGED <<device, changes, connects>>

\* DeckMsg::DeviceDown.
DeviceDown ==
  /\ deck' = [deck EXCEPT !.held = {}, !.pressing = {}, !.transport = FALSE,
                          !.outgoing = <<>>, !.upload_gap = "none",
                          !.upload_pending = FALSE]
  /\ whole' = "none"
  /\ UNCHANGED <<device, changes, connects>>

\* A read or a write failed.
Lost ==
  /\ deck.transport
  /\ deck' = [deck EXCEPT !.held = {}, !.press_upload = FALSE, !.pressing = {},
                          !.transport = FALSE, !.outgoing = <<>>,
                          !.upload_gap = "none", !.shown = Nothing,
                          !.upload_pending = FALSE]
  /\ whole' = "none"
  /\ UNCHANGED <<device, changes, connects>>

\* A device-info report; only one that is waited for does anything here.
DeviceInfo ==
  /\ deck.transport /\ deck.awaiting_info
  /\ deck' = DeckReady(deck)
  /\ Remember(whole)
  /\ UNCHANGED <<device, changes, connects>>

\* What the current page shows becomes `look` on page `p`; pictures of its
\* animations may have to be drawn first.
Changed(d, p, look) ==
  {[d EXCEPT !.page = p, !.look = look, !.missing = m] : m \in BOOLEAN}

\* A message, a dial or a key that changes the page or what it shows: apply,
\* settings, live values, a plugin's value, a profile or page switch, a
\* macro's step, a cycle.  Some send a command first (send_window).
Change ==
  /\ changes < MaxChanges
  /\ \E p \in Pages, look \in [Keys -> Looks], says \in BOOLEAN :
       \E d \in Changed(deck, p, look) :
         deck' = PushPage(IF says THEN Send(d) ELSE d, FALSE)
  /\ changes' = changes + 1
  /\ Remember(whole)
  /\ UNCHANGED <<device, connects>>

\* The once-a-second tick: stop waiting for the deck's answer when INFO_TIMEOUT
\* is over, redraw the wide screen, send its mode.
Tick ==
  /\ \E over \in BOOLEAN, redrawn \in BOOLEAN :
       /\ over => deck.awaiting_info
       /\ redrawn => changes < MaxChanges
       /\ changes' = IF redrawn THEN changes + 1 ELSE changes
       /\ LET ready == IF over THEN DeckReady(deck) ELSE deck
          IN  IF redrawn
              THEN \E k \in Keys, l \in Looks, mode \in BOOLEAN :
                     LET drawn == [ready EXCEPT !.look[k] = l]
                     IN  deck' = Send(PushPage(IF mode THEN Send(drawn) ELSE drawn,
                                               FALSE))
              ELSE deck' = Send(ready)
  /\ Remember(whole)
  /\ UNCHANGED <<device, connects>>

\* Handlers that only send a command: brightness, label style, waking up, and
\* the keep-awake message while nothing else is going out.
Command ==
  /\ deck.transport
  /\ deck' = Send(deck)
  /\ UNCHANGED <<device, changes, connects, whole>>

\* A key that shows its press goes down.
KeyDown(k) ==
  /\ deck.transport
  /\ k \notin deck.pressing
  /\ deck' = [deck EXCEPT !.pressing = @ \cup {k}]
  /\ UNCHANGED <<device, changes, connects, whole>>

\* Keys held for PRESS_SETTLE show their pressed look.
PressesSettled ==
  /\ \E due \in SUBSET deck.pressing \ {{}} :
       deck' = PushPage([deck EXCEPT !.pressing = @ \ due, !.held = @ \cup due,
                                     !.press_upload = TRUE], FALSE)
  /\ Remember("none")
  /\ UNCHANGED <<device, changes, connects>>

\* A key comes back up.
KeyUp(k) ==
  /\ deck.transport
  /\ k \in deck.pressing \cup deck.held
  /\ LET up == [deck EXCEPT !.pressing = @ \ {k}, !.held = @ \ {k}]
     IN  deck' = IF k \in deck.held
                 THEN PushPage([up EXCEPT !.press_upload = TRUE], FALSE)
                 ELSE up
  /\ Remember(IF k \in deck.held THEN "none" ELSE whole)
  /\ UNCHANGED <<device, changes, connects>>

\* The drawing job is done: its pictures replace the still ones.
Drawn ==
  /\ deck.drawing
  /\ \E k \in Keys, l \in Looks :
       deck' = PushPage([deck EXCEPT !.drawing = FALSE, !.look[k] = l], FALSE)
  /\ Remember(whole)
  /\ UNCHANGED <<device, changes, connects>>

\* The moment `next_upload_at` comes.
GapOver ==
  /\ deck.next_upload_at = "wait"
  /\ deck' = [deck EXCEPT !.next_upload_at = "due"]
  /\ whole' = "none"
  /\ UNCHANGED <<device, changes, connects>>

\* `run` arms the upload timer only when an upload can happen.
UploadArmed ==
  /\ deck.upload_pending /\ deck.transport
  /\ ~deck.awaiting_info /\ deck.upload_gap = "none"

UploadTimer ==
  /\ UploadArmed
  /\ deck.next_upload_at = "due"
  /\ deck' = PushPage(deck, FALSE)
  /\ Remember(whole)
  /\ UNCHANGED <<device, changes, connects>>

\* What the deck shows once the last packet of `u` arrived.
Shows(dev, u) ==
  IF u.full THEN [at |-> u.at, entries |-> u.entries]
  ELSE IF dev = Nothing THEN Nothing
  ELSE [dev EXCEPT !.entries = [k \in Keys |-> IF k \in DOMAIN u.entries
                                               THEN u.entries[k] ELSE @[k]]]

\* packet_sent's fields: after an upload's last packet its gap starts.
Sent(d) ==
  LET rest == [d EXCEPT !.outgoing = Tail(@)]
  IN  IF rest.outgoing = <<>> /\ d.upload_gap # "none"
      THEN [rest EXCEPT !.upload_gap = "none",
                        !.next_upload_at = IF d.upload_gap = "zero" THEN "due" ELSE "wait"]
      ELSE rest

\* The transport wrote a packet, and the deck has it.
PacketSent ==
  /\ deck.transport
  /\ deck.outgoing # <<>>
  /\ LET p == Head(deck.outgoing)
     IN  device' = IF IsUpload(p) /\ p.left = 0 THEN Shows(device, p.upload) ELSE device
  /\ whole' = IF whole = "going" /\ IsUpload(Head(deck.outgoing)) /\ Head(deck.outgoing).left = 0
              THEN "unpacking" ELSE whole
  /\ deck' = Sent(deck)
  /\ UNCHANGED <<changes, connects>>

Next ==
  \/ DeviceUp \/ DeviceDown \/ Lost
  \/ DeviceInfo \/ Change \/ Tick \/ Command
  \/ \E k \in Keys : KeyDown(k) \/ KeyUp(k)
  \/ PressesSettled \/ Drawn \/ GapOver \/ UploadTimer \/ PacketSent

Spec == Init /\ [][Next]_vars

\* The tick that stops waiting for the deck's answer.
InfoTimeout ==
  /\ deck.awaiting_info
  /\ deck' = Send(DeckReady(deck))
  /\ Remember(whole)
  /\ UNCHANGED <<device, changes, connects>>

(***************************************************************************)
(* Fairness.  The loop's select polls every source, so an event that stays *)
(* there is handled; a connected deck takes packets; time passes.          *)
(***************************************************************************)
Fairness ==
  /\ WF_vars(PacketSent)
  /\ WF_vars(GapOver)
  /\ WF_vars(UploadTimer)
  /\ WF_vars(Drawn)
  /\ WF_vars(PressesSettled)
  /\ WF_vars(InfoTimeout)

FairSpec == Spec /\ Fairness

-----------------------------------------------------------------------------
(* Properties.                                                             *)

DeckRecord ==
  [transport : BOOLEAN, awaiting_info : BOOLEAN, outgoing : Seq(Packet),
   upload_gap : {"none", "zero", "cooldown"},
   next_upload_at : {"none", "wait", "due"},
   upload_pending : BOOLEAN, pending_full : BOOLEAN,
   press_upload : BOOLEAN, page : Pages, look : [Keys -> Looks],
   pressing : SUBSET Keys, held : SUBSET Keys, shown : {Nothing} \cup Page,
   drawing : BOOLEAN, missing : BOOLEAN]

\* The values of the variables.
TypeOK ==
  /\ deck \in DeckRecord
  /\ device \in {Nothing} \cup Page
  /\ changes \in 0..MaxChanges
  /\ connects \in 0..MaxConnects
  /\ whole \in {"none", "going", "unpacking"}

\* The upload packets of a queue belong to one upload, the last one behind.
OneUpload(q) ==
  \A i, j \in Uploads(q) : q[i].upload = q[j].upload /\ (q[i].left = 0 => j <= i)

\* push_page never queues an upload behind another: while no gap is owed no
\* upload packet is waiting, and those waiting are of one upload, its last
\* packet behind the others ("a second upload while the deck unpacks crashes
\* it").
OneUploadAtATime ==
  /\ deck.upload_gap = "none" => Uploads(deck.outgoing) = {}
  /\ OneUpload(deck.outgoing)

\* A request push_page put off is never stranded: the upload it waits for is
\* still going out and its last packet will set `next_upload_at`, or that is
\* set and the upload timer has a moment to fire at.
NoStrandedRequest ==
  deck.upload_pending =>
    /\ deck.transport
    /\ \/ deck.upload_gap # "none" /\ deck.outgoing # <<>>
       \/ deck.next_upload_at # "none"

\* What every handler keeps, and what OneUploadAtATime and NoStrandedRequest
\* rest on: with no deck nothing is queued, owed or put off, and a gap is owed
\* only while something is still going out.
Orderly(d) ==
  /\ d.upload_gap = "none" => Uploads(d.outgoing) = {}
  /\ d.upload_gap # "none" => d.outgoing # <<>>
  /\ OneUpload(d.outgoing)
  /\ ~d.transport => d.outgoing = <<>> /\ d.upload_gap = "none" /\ ~d.upload_pending
  /\ d.upload_pending => d.upload_gap # "none" \/ d.next_upload_at # "none"

UploadsOrderly == Orderly(deck)

\* `shown` is what the deck shows once the packets queued for it arrive, so a
\* partial update built from it leaves no key with an old look, across lost
\* connections too.
ShownIsShown ==
  deck.transport /\ deck.shown # Nothing =>
    LET left == {i \in Uploads(deck.outgoing) : deck.outgoing[i].left = 0}
    IN  deck.shown = IF left = {} THEN device
                     ELSE Shows(device, deck.outgoing[CHOOSE i \in left : TRUE].upload)

\* A key that shows its press settled, or was let go.
PressAsks == PressesSettled \/ \E k \in deck.held : KeyUp(k)

\* While the deck unpacks a whole page no other upload is queued, whichever
\* handler wants one ("a second upload while the deck unpacks crashes it"),
\* unless a key was pressed or let go since that page was queued: a press goes
\* without the pause, and what follows it too.
UnpacksInPeace == [][StartsUpload /\ whole = "unpacking" => PressAsks]_vars

\* A deck that stays connected comes to show the current page, with the latest
\* state of every key, once changes and presses end.
Converges ==
  <>[](deck.transport /\ deck.pressing = {} /\ deck.held = {})
    => <>[](device = [at |-> deck.page, entries |-> Built(deck)])

=============================================================================
