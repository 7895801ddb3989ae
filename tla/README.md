# Ulanzi Deck: verification project

TLA+ models of the parts of Ulanzi Deck whose correctness depends on the order things happen in,
the TLC runs that check them on small instances, and proofs (TLAPS) of what matters most for every
instance. Paths below are relative to `crates/ulanzi-deckd/src/` unless they name another crate.
`PROJECT.json` maps every definition to the lines it stands for.

## The system

Ulanzi Deck drives a key deck over hidraw. A daemon (`ulanzi-deckd`) owns the device; a GTK app
(`ulanzi-deck`) and a command-line tool (`ulanzictl`) talk to it over D-Bus; plugins are WebAssembly
guests that run inside it.

| Component | State it keeps | Operations | Talks to |
|---|---|---|---|
| Deck loop: uploads (`deck/mod.rs`, `deck/push.rs`) | what the deck shows (`shown`), packets going out, the gap and the moment of the next upload, put-off requests, missing animations | messages (`on_msg`), reports, the packet, upload and tick timers | device, effect job, plugins' values |
| Deck loop: input (`deck/mod.rs`, `press.rs`, `sleep.rs`) | keys held and settling, gestures, the sleeping screen, macros playing | key reports, ticks, settings, disconnections | macro player, actions, uploads |
| Deck loop: pages and profiles (`deck/nav.rs`, `deck/mod.rs`) | profile shown, page, folder stack, profile to return to | steps, folders, profile switches, windows coming to the front, edits | focus trackers, service |
| Wide screen (`deck/screen_rt.rs`, `widgets/`) | widget shown, rotation, music, timer | draw, tap, next, timer actions | deck loop, sampler |
| Macro player (`macros/player.rs`) | runs per control and macro, their signals, keys that are down | press, release, stop_all; a task per run | input device, deck loop |
| Plugin host (`plugins/supervisor.rs`, `install.rs`) | entry per plugin: status, enabled, settings, current start attempt, instance, draining instance | set_secret, apply_settings, restart, remove, install, shutdown, actions; start tasks and supervisors | instances, secret store, deck queue, files |
| Plugin deck queue (`plugins/deck_queue.rs`) | slots waiting and their latest values | state, cleared, drop; a forwarding task | plugin host, deck loop |
| Plugin instance (`plugins/instance.rs`, `engine.rs`, `net.rs`) | event queue, timers, sockets, requests, room for data, the guest | one guest call per event, a task per socket, request and timer | plugin host, network |
| Plugin files (`plugins/install.rs`, `package.rs`, `signature.rs`, `store.rs`) | plugin folders, staging folders | unpack, check, swap in, remove, scan | plugin host |
| Secret store (`plugins/secrets.rs`) | keyring or a private file | load, save | plugin host |
| Transport (`transport/`) and hot-plug (`main.rs`) | open device, back-off | probe, open, read, write, unplug | deck loop |
| D-Bus service (`dbus.rs`) | profiles and their revisions, settings | apply, import, settings, plugin calls | everything |
| Updates (`updates/`) | `updates.toml`, downloaded releases, the AppImage | check, skip, download, apply | GitHub, app |
| Editor (`ulanzi-core/src/edit/`) | profile, macro library, history, clipboard | every edit of the app, undo, redo | app |
| App (`ulanzi-deck`: `state.rs`, `client.rs`, `ui/`) | the open profile, the queued save | edit, open, debounce, flush | editor, service |
| Focus, actions, tray, sysinfo | adapters to the desktop | one system call each | deck loop |
| Protocol (`ulanzi-proto`), core (`ulanzi-core`), SDK, `ulanzictl` | data types, encoding, rendering, bindings | pure functions, command line | |

### What is hard, and what makes each part correct

* **Uploads.** Two uploads over each other crash the deck. Whether one may go out depends on three
  fields that six handlers set, across lost connections; a request put off must come back; `shown`
  must stay what the deck shows, because later uploads are the difference to it.
* **Input.** The release of a press may be swallowed, lost with the connection, or belong to a
  gesture that ended; a macro key must not stay down.
* **Pages and profiles.** They are referred to by positions, which edits and removals change.
* **Wide screen.** A tap is decided from what was drawn last, and any time passes between looks.
* **Macro player.** A key a macro pressed must come up again whatever ends the macro, with the device
  and the list of keys behind two locks and tasks on many threads.
* **Plugin host.** Operations hold one lock for seconds while they wait for instances, files and
  the keyring; start tasks, supervisors, crashes and actions run on meanwhile. At most one instance,
  off stays off, no earlier instance's values or secrets, nobody waits for ever.
* **Deck queue.** Coalescing must not lose the last value, mix it up with a clear, or sleep over it.
* **Plugin instance.** Room and places taken for data must come back on every path; what was sent
  goes out before a close; every action gets an answer.
* **Install and scan.** A crash between two renames must leave one usable version of a plugin.
* **Hot-plug.** The task learns of connections from events it may miss or that are about an earlier
  one.
* **Settings and profiles.** Several writers read, change and save whole files; a service that
  stops, a refused revision or a late answer must not cost an edit.
* **Editor.** Undo over merged, limited and foreign steps must put back what was.
* **Updates.** A check works on an old copy for 30 s; the file that runs is exchanged in place.

## Modules

| Module | Models |
|---|---|
| `DeckUpload` | the upload half of the deck's loop |
| `DeckInput` | the input half: presses, holds, macro keys, sleep, connections |
| `DeckNav` | which profile and page the deck shows |
| `Countdown` | abstract: what a timer promises |
| `SmallScreen` | the wide screen; its timer implements `Countdown` |
| `PluginValues` | abstract: the deck's view of plugin values, what a queue to it must do |
| `DeckQueue` | `plugins/deck_queue.rs`; implements `PluginValues` |
| `PluginHost` | `plugins/supervisor.rs` and `install_checked`, for one plugin |
| `PluginInstall` | the folders of one plugin, with failures and crashes |
| `PluginInstance` | `plugins/instance.rs` and `net.rs`, one instance from the inside |
| `MacroPlayer` | `macros/player.rs` |
| `HotPlug` | the hotplug task of `main.rs` and the device messages of the deck's loop |
| `Settings` | who writes `settings.toml` |
| `ProfileSync` | how an edit gets from the window to the disk |
| `EditHistory` | abstract: what undo and redo promise |
| `Editor` | `ulanzi-core/src/edit/mod.rs` and how the app uses it; implements `EditHistory` |
| `Updates` | `updates/` and the update calls of `dbus.rs` |
| `*Proofs` | theorems about the module they are named after; `PluginHostProofs` also has `PluginInstall`, `ApartProofs` the editor and a plugin's instance |
| `MC*` | instances for TLC |

Modules that share state are one module, or meet at an interface both have: `DeckQueue` is what
stands between `PluginHost`'s outputs and the values a `Change` of `DeckUpload` shows;
`PluginInstance` is what `PluginHost` has as an instance that runs, exits or crashes; `MacroPlayer`
appears in `DeckInput` as the runs that wait for their key; `HotPlug` sends the `DeviceUp` and
`DeviceDown` of `DeckUpload` and `DeckInput`, which take them at any time.

Five MC modules are sums of two or three parts that share no variable (`MCPlugin`, `MCService`,
`MCDeckInput`, `MCDaemon`, `MCApart`). A variable `part` names the one that moves; the others stay
at one initial state. State spaces so add up instead of multiplying, which is sound because no
part reads what another writes, and fairness and properties are those of the part that moves.

### DeckUpload

`deck` is the record of the fields of `struct Deck` that the uploads use; `device` is what the screen
shows. One action per handler: `Change` (every message that changes a page or its look), `KeyDown`,
`KeyUp`, `PressesSettled`, `UploadTimer`, `Tick`, `Command`, `PacketSent`, `Drawn` (an effect job
ends), `DeviceUp`, `DeviceDown`, `Lost`, `DeviceInfo`. A handler that ends in `push_page` calls
`PushPage` inside its action. What a key shows is a model value, a page a function from keys to
looks; times are what the code compares them for: the moment of the next upload is `none`, `wait` or
`due`.

* `OneUploadAtATime`: an upload is only queued when none is on its way.
* `NoStrandedRequest`: a put-off request has an upload still going out, or a moment it is retried.
* `ShownIsShown`: `shown` is the screen once the queued packets arrive, across reconnections.
* `UnpacksInPeace`: while the deck unpacks a whole page no handler queues another upload, unless a key
  was pressed or let go since that page was queued; the code lets such a press go at once, and what
  follows it no longer waits either (see below). History `whole`: where the page last sent whole is
  (`going`, `unpacking`), until its pause is over or a press asks for an upload.
* `Converges` (liveness): a deck that stays connected shows the latest page.

Fairness: the loop's packets and timers and the effect job are weakly fair, since `run` polls all of
them and none is disabled by others for ever. Nothing is assumed of the user or the cable.

### DeckInput

`press` is the tracker's entry of each control (`no`, `tap`, `hold` until its threshold, `due`,
`fired`), `swallowed` and `macro_down` count the entries of the two vectors, `asleep` and `idle` are
the sleep timer, `finger` the fingers. `Press`, `Release` and `Turn` are `on_input`, with one
disjunct for each of its ways out, in the code's order; `HoldDue` is the hold timer, `Disconnect`
both `DeviceDown` and `lost`. `DeviceUp` may replace a connection, and what was not read of the old
one is never seen. A page is a map from controls to actions and may change between any two events.
`waiting` is the player seen from here: runs that end with their key's release. History: `ran`
counts a press's gestures, `woke` has the presses that woke the deck.

* `OneGesturePerPress`: the timer and the release do not both report a hold, whatever happened to
  the press in between.
* `RunHasItsRelease`, and `NoSleepUnderMacro` (proved only): a macro that waits for its key hears of
  it, and keeps the deck awake.
* `WakingPressIsNoTap`: the release of a press that woke the deck is swallowed.

### DeckNav

`active`, `page` and `stack` are positions in `profiles` and in the pages of the profile shown, as in
`NavState`. `Step`, `GoTo`, `OpenFolder`, `Back` and `SwitchProfile` are keys and messages; `Apply` and
`RemoveProfile` what the service tells of edits; `Focus` a window coming to the front, the desktop's
shell among them; `Toggle` and `Settings` turn automatic switching on and off. History: `chosen`.

* `InPlace`: profile, page and folders are always there, under any order of edits and switches.
* `BackToChosen`: a window no profile follows brings back the profile the user chose last. History
  `restored`: the profile to return to was removed meanwhile and came back (see below).

### SmallScreen and Countdown

Instants are times since or until, which `Second` moves on; the actor looks (`Look`, and after
`Sampled`, `Other` for another profile or settings, `ScreenNext` and the timer's actions) after any
number of seconds. Every handler ends in `Draw`, as the code ends in `update_screen`: media takeover,
rotation and timer settings are part of the action. An empty widget list also stands for the modes
the firmware draws by itself.

* `TapFollowsScreen`: a tap acts on what is shown, or steps the list. The list must not be empty.
* `ImplementsCountdown`: the timer refines `Countdown`: seconds are counted once and not while paused.

### PluginValues and DeckQueue

`PluginValues` has two variables: what was last said of every key, and what is shown; a step says
something or makes the deck catch up. `DeckQueue` has the queue (slots in order, latest values), the
task (looking, sending, waiting), the permit of `Notify`, the bounded channel and the deck, which may
stop. The queue is a function from growing positions to slots, so that removal leaves places alone.
`ImplementsPluginValues` is the refinement, `LatestWins` that coalescing loses nothing, `Drains` that
the queue empties: the task does not sleep over a value that came between its look and its wait.
Fairness: sender's notify, task and deck run on.

### PluginHost

One plugin, since operations on different plugins share only the `ops` lock. Each section under the
state mutex is an action; an operation is a record in `op` that steps from section to section.
`inst[a]` is start attempt `a` with its task, guest and supervisor; `stored` the secret in the
store; `said` whose values the deck shows; `waiter` an action in `running`, with the watch channel's
`changed`. History: `raced` (started while a secret was being set). Attempt numbers are used again
once nothing carries them, which makes the state finite without a bound on the number of operations.

* `HostCoherent`: types; status, current attempt and instances agree; one instance at a time; off
  stays off; an action that waits has a change to notice or something to wait for.
* `ValuesHaveAnOwner`: the deck never shows what an ended instance said.
* `SecretsKept`: the running instance has the stored secrets; deleted ones stay deleted. Instances
  that an action started while a secret was being set are spared (see below).
* `SettingsReachInstance`: settings changed while a start waits for the keyring are not lost.
* `NothingHangs` (liveness): operations end, and a plugin does not stay Starting.

Fairness: start tasks, supervisors, operations and waiting actions are weakly fair (tokio tasks; the
keyring and file system answer, with an error or not). An instance exits only once it was detached:
`stop` interrupts a guest call within the epoch (50 ms), and the thread then returns, so that
`STOP_WAIT` does not run out in the model.

### PluginInstall

Three folders (`target`, `staged`, `aside`), each absent or a version that is whole or a part, with
or without the host's marker. Every call on the file system of `swap_in`, `remove`, `restore_interrupted`
and `scan` is an action, and each may fail or be the last before a crash (`Crash`), up to
`MaxFailures` in all; `promised` (history) has the versions one of which a start must find.

* `Survives`: after no more than two failures, a start finds a promised version.
* `ListedIsInPlace`: after no more than one, what is listed and runs is what the folder holds.
* `TrustIsEarned`: a folder marked signed holds a version that was.

### PluginInstance

The thread (`wait`, `call`, `drain`, `drop`) takes an event at a time; in a call the guest opens and
closes sockets, sends, starts requests and timers. Tasks are records that connect, reserve room, post,
write, sleep (`asleep`, with the notification of `Budget`), and end. The queue drops what finds it full.
A payload is two bytes, so that a write may stop half way; after a close, what was sent before goes out
a byte at a time until it is all out, the network breaks or `CLOSE_TIMEOUT` passes.

* `RoomIsKept`: types; the room used is that of the data in the queue and on its way there; nobody
  sleeps over free room; a socket that ended gives its place back.
* `NothingForgotten`: what was sent goes out in order and before a close; no action is left without
  an answer, through traps and stops.

### MacroPlayer

`runs` and `held` are the two maps of `Inner`, `down` the keys at the device; `run[r]` is a run's
signals and the place of its task, with a place between the device and the list (`book`), and one
after the last look at the stop signal (`ending`). `stop_all` takes three steps of the deck's loop.
Steps are key events or others (text, actions, waits: they may fail); nested macros are more steps.
A macro may be of any type at every press, because a press takes a copy. History `crossed`: keys that
one run took off the list after another had pressed them again, until they are up or listed again.

* `MacrosCoherent`: types; a slot plays once at a time; what is down is on the list, or about to be,
  but for `crossed`. The run's two macros share a key; that `crossed` stays empty for macros with keys
  of their own is proved (`OwnKeysNeverLost`).
* `CutShortHoldsNothing`: a run that failed or was stopped holds nothing once it ends.
* `RunsEnd` (liveness): stops and releases end runs.

Fairness: tasks are weakly fair; delays are finite and devices answer.

### HotPlug

The task's loop with its beliefs (`connected`, `young`, `waiting`, `last`), the time between `probe`
and `open`, the actor's queue of bounded length, and the broadcast of its states, which may overflow.
A connection dies with its node or by itself. The node changes between what `probe` tells apart.

* `ConnectionCoherent`: types; the task never rests in a false belief that it is connected; the actor
  shows ready exactly while it has a connection.
* `ShownInTheEnd` (liveness): what the node stays in is connected, or shown.

Fairness: the ticks, the queues on both sides, the end of a wait, and the keep-awake packet that
notices a dead connection. Nothing of the cable.

### Settings

Calls and the start of the plugin host are tasks that step through load, save, handing over to the
host, the secret store and sending to the actor, under `settings_lock` where the code holds it; the
actor saves its own copy without it (`DeckSaves`); the window sends back what it once read. `Stop`
ends the service anywhere. History: `said`, `given`, `overwrote` (the deck saved something else than
the file says), and `behind` (calls with a text that the app read before the plugin was switched).

* `ServiceLosesNothing`: no save of the service undoes another's, but for calls in `behind`: the lock
  keeps two calls apart, and nothing tells the service that a text it gets is an old one (see below).
* `AllDoAsSaid`: between calls the file, the host and the deck agree.
* `SecretsStay`: a secret given to the app stays in the store. All three until `overwrote`.

### ProfileSync

A profile is the set of edits it holds. The app has one queued save (`pending`), the timer, the savers
that take it (timer, flush, returning service, under `saving`) and the dialogs that save at once; the
service checks a revision and replaces the file in two steps, stops and is started again; an import
comes in between. Profiles are opened, by the user or the deck (`ulanzi-deck/src/ui/window.rs:810`),
edited and renamed, and windows closed, at any moment. The app does not keep every edit then.
History `risked` records the edits put at risk, in the step that does:

1. an edit of one profile takes the queue's place from an unsaved text of another;
2. so does a queued text for one that comes back from a service that was away (`NotRunning`);
3. a profile is loaded into the editor from a text read before an edit, or while one waits: the next
   save of the editor lacks it;
4. a dialog that saves at once reads a profile which the queue, a save or the editor has another text
   of, or which is edited before it is done;
5. the window is closed with something queued or not yet sent.

* `NothingLost`: types; with nothing under way every edit is on disk, or the user was told, or an
  import replaced it, or it is in `risked`.
* `NewestWins`: no save takes an edit off the disk that an earlier one put there, but for `risked` and
  what an import replaced.
* `PendingIsSent` (liveness): what is queued is sent.

One profile is opened at a time, one dialog saves at a time, and a window closed with a call at the
service is opened again when that is done; these are bounds, not guards of the code.

Fairness: the timer fires, calls are answered or fail, and D-Bus activation starts the service again.

### Editor and EditHistory

`ed` is the record of `Editor`. An edit is built from the same parts as in the code: `Record` with its
merging, the change, and what the edit does to the selection and clipboard. What a control does is an
action or a macro; the library maps a macro to those it runs; parts of a file of a newer version are
`foreign`, a page and a slot. A macro runs itself when it is in every set that has what it runs and what
that runs (`WouldLoop`). Edits of several controls assign them at once; two slots of a copy, and a group
for one device or two, stand for any number. Copies and other clients' libraries come as long as edits
may follow.

* `ImplementsEditHistory`: the profile moves along one line of versions (refinement).
* `StaysSound`: nothing is put over what a newer version left; no macro runs itself.

### Updates

Tasks (the daily check and calls) have a copy of `updates.toml` between reading and writing it.
Releases are numbers; files are absent, whole or `Half`. `Restart` may come anywhere.

* `NewComesUp` (liveness): a release newer than all that ran here is offered, unless skipped,
  installed or checks are off. Fairness: a day passes, GitHub answers one day or other (strong, as
  it may refuse any number of times), and what was answered is saved.
* `ImageIsWhole`: the AppImage and what waits to be installed are whole. One `UpdateApply` at a time,
  as the window, whose dialog cannot be closed meanwhile (`ulanzi-deck/src/ui/updates.rs:307`), makes it.

## Runs

| Run | Question | Bounds |
|---|---|---|
| `deck_upload` | safety and progress of uploads | 1 key, 2 looks, 2 pages, 2 packets for a page, 1 change of looks, 2 connections |
| `deck_input` | presses, holds, macros and sleep; pages and profiles; the wide screen | 1 key, 1 dial, 2 pages, 2 stale entries; 3 profiles of 1 or 3 pages, 1 app, 2 folders deep, 2 changes; 4 screens, times up to 4 |
| `deck_queue` | order, coalescing, refinement, progress | 2 plugins, 2 keys, 2 values, 3 slots pushed, channel of 1 |
| `plugin` | a plugin's folders; the safety of its life | 2 versions, 1 signed, 3 failures; 3 attempts at once (symmetric), 1 table, 1 secret |
| `plugin_host_live` | settings and progress of the host | 2 attempts at once, 2 tables, no secret |
| `macro_player` | keys, the list of them, progress | 2 macros on one control that share a key, 2 runs at once, 1 press queued |
| `service` | settings, profiles | 2 calls at once, 2 secrets, 1 stop, 1 message; 2 profiles, 2 edits, 2 in all of profiles opened, imports and stops |
| `daemon` | hot-plug, updates | 3 changes of the node, 2 deaths, 1 overflow, queue of 2; 3 releases, 2 calls, 1 stop, 1 install |
| `editor` | the editor; a plugin instance | 2 keys, a dial, 3 page ids, 2 macros, 3 edits, history of 2; 2 sockets, 1 request, 1 timer, 1 action, queue of 2, room for 1, 2 payloads |
| `editor_undo` | *violated*: any change can be undone | 1 page, 3 edits, history of 3 |
| `settings_old_secret` | *violated*: an old copy cannot win | as `service`, 3 calls |
| `update_skip` | *violated*: what was skipped is hidden | 2 releases, 2 calls |

Why the bounds are enough: a second key, page or plugin shows what one does to another, a third
would show nothing new, since none of the conditions counts them. Three attempts let an instance
stop, a cancelled start linger and a new start be on its way. Two connections allow a reconnection
with packets still queued. Two stale entries of a control let one be consumed and one stay. Three
pushed slots are a value, a clear and a value again. Three edits over a history of two forget the
oldest. Three failures are one more than `Survives` allows for, and its theorem has no bound. A room of
one makes every second message wait. Three releases are one that runs, one that is skipped or
downloaded, and one after it. Each property has a mutant of the code's translation that breaks it
(`PROJECT.json`, "mutants"; the definitions are beside the ones they change), so the interesting cases
do happen within the bounds.

`CHECK_DEADLOCK FALSE` is in the cfgs of models that may come to rest: the queue's task ends with its
sender, an instance ends, and the folders, the hotplug task, the updates and the editor stop when their
bounds are used up; in `service` the window may be closed with everything saved.

### What the violated runs show

* `ulanzi-core/src/edit/mod.rs:228`: `merge_next` is only taken by an edit that changes something. The
  macro editor sets it after every save; after one without a change, the next edit of anything joins
  the step before, which may have been recorded without the library, and a macro deleted then cannot
  be brought back.
* `dbus.rs:192`: an adoption of a plain secret takes it out of the file and tells the host, but not
  the deck actor, whose next save of brightness or automatic switching puts it back; the next start
  adopts the old secret over a newer one.
* `updates/check.rs:74`: a check writes `updates.toml` as it read it before it asked GitHub; a release
  skipped meanwhile is offered again.

### Met while modelling and not run

Deck loop:
* `deck/mod.rs:855`: with a press among the reasons for an upload, `push_page` skips the pause, also
  when the upload is a whole page; the comment at `:853` says "Even a forced (full) upload waits".
  The rest of the pause that was running is gone too: a press's partial upload sets a gap of nothing
  (`:938`), and what follows goes at once. `UnpacksInPeace` says what is left.
  `force || take(pending_full)` at `:861` does not take the flag when forced, so that a later change
  of one key sends the whole page.
* `deck/mod.rs:1063`: the entry of a waking press in `swallowed` outlives a lost connection, and a deck
  that falls asleep under it, and the control's next tap is lost. A release that wakes the deck, or is
  lost, leaves its press in the tracker, and the hold action runs with nothing held (`:1067`). A hold
  bound to sleep is undone by its own release (`:1060`). When a connection is replaced and a release
  missed, `macro_down` keeps its control, and the deck no longer falls asleep by itself (`:997`).
* Pages are positions: an edit that removes or moves pages moves the deck to another page. Folders
  that open each other grow the stack without bound. From a folder opened by a jump, a step counts from
  page 0. With no rule left the deck never returns to the chosen profile, and settings that switch
  automatic switching on, or an edit of the rules, only act at the next window. A switch to a profile
  that is not there forgets the one to return to. Removing the profile shown leaves `auto_from`
  (`deck/mod.rs:621`): when that one was removed and comes back with a snapshot, the deck goes there
  from a profile it was not switched to by itself (`docs/user-guide.md:317`).
* Wide screen: an alarm is lost when time is added or the timer paused between its end and the next
  look; a Pomodoro catches up one phase a look; a timer that stopped is not redrawn on keys before the
  sampler's next values (`:1011`); a profile with another timer resets one that runs; with an empty list
  of widgets music stays what a tap plays and pauses.

Plugins:
* `supervisor.rs:464`: a plugin that is `Ready` is left `Ready` while its secret is being saved; an
  action starts it with the old secret, it is not restarted, and its next `set_secret` writes the old
  one back (comment at `:471`; `docs/plugins.md:482-485`).
* `supervisor.rs:626`: whether an instance may save its secrets is checked under the lock, the save
  awaited after it; a `remove` that gave up on the supervisor after `STOP_WAIT` deletes them first
  (comment at `:617`).
* `supervisor.rs:186`: an old version that could not be deleted comes back at the start after the
  plugin was removed. With three failures a plugin can be lost.
* `instance.rs:351`: at `MAX_TIMERS` a timer whose event is queued is forgotten. Data sent before a
  socket connects is lost if it is closed then; `on-open` may be dropped by a full queue and messages
  arrive all the same; a large body can starve behind small ones, as room is not given in order.
* `deck_queue.rs:43`: every clear takes a place, so the queue is not bounded by the distinct keys.

Macros: `player.rs:332` looks at the stop signal once after the steps; a `stop_all` between that look
and the end of the task spares the run's keys and nobody lets go of them. A press counted on a run that
has decided to end is lost (`:353`). Macros that share a key can
lose it from `held` (one lets go of it, the other presses it, and the first takes it off the list): a
stop then leaves it down. `crossed` is that moment.

Service, app and updates:
* `ulanzi-deck/src/client.rs:304` has one place for a queued save, and `ulanzi-deck/src/state.rs:2`
  says "so every change is saved". Another profile edited within 300 ms loses the edit, and no hasty
  user is needed: a page turned on the deck opens its profile in the editor
  (`ulanzi-deck/src/ui/window.rs:810`). The same profile opened again then loads the text from before
  the edit, and a rename that read it before (`ulanzi-deck/src/ui/sidebar.rs:845`) saves over it. A
  closed window drops what is queued. `ProfileSync` has all of these; `risked` has their edits.
* `ulanzi-deck/src/client.rs:801`: a save that found no service is dropped when another profile's waits
  by then; the user is not told.
* The window sends back the settings it read (`dbus.rs:144`): a plugin switched on or off meanwhile,
  by `ulanzictl` say, is switched back (`behind`).
* `dbus.rs:371`: a save checked before an import replaces
  it. `dbus.rs:1175` counts profiles before it deletes one: two calls can remove the last two files.
* A change of brightness on the deck between a call's load and save is undone by that save; reloads read
  the file without the lock; imports write settings without it; `write_secret` takes the plain copy away
  before the store can fail.
* Two overlapping `UpdateApply` share `.name.new`, and half an AppImage is possible
  (`updates/download.rs:169`). After a downgrade GitHub's 304 leaves nothing on offer until a newer
  release (`highest` in `NewComesUp`). `SetChecking` and What's New are undone like a skip.
* `main.rs:299` says the back-off starts at 1 s; the first wait is 2 s.
* Editor: `move_to_page` drops keys that find no free slot; `dial_to_all_pages` writes to dials of newer
  versions in memory.

## Proofs

| Theorem | States | Rests on |
|---|---|---|
| `DeckUploadProofs!TypeCorrect`, `DeckOrderly` | types, `UploadsOrderly` | one lemma per handler |
| `DeckUploadProofs!UploadsNeverOverlap`, `RequestsNeverStranded` | `OneUploadAtATime`, `NoStrandedRequest` | `DeckOrderly` |
| `DeckUploadProofs!PagesUnpackInPeace` | `UnpacksInPeace` | `DeckOrderly` and `Calm` |
| `DeckUploadProofs!WhatIsShown` | `ShownIsShown` | `DeckOrderly` and `Good`, `Fine`, `Faithful` |
| `DeckInputProofs!TypeCorrect`, `OneGesture`, `ReleaseComes` | types, `OneGesturePerPress`, `RunHasItsRelease` | the inductive invariant `IInv` of that module |
| `DeckInputProofs!AwakeUnderMacro`, `WakingPressOnlyWakes` | `NoSleepUnderMacro`, `WakingPressIsNoTap` | `IInv` |
| `DeckQueueProofs!TypeCorrect`, `QueueCorrect` | types, order, coalescing, nothing lost | the inductive invariant `Inv` of that module |
| `DeckQueueProofs!QueueImplementsPluginValues` | every step is a step of `PluginValues` or a stutter | `QueueCorrect` |
| `PluginHostProofs!HostAgrees`, `ValuesOwned`, `SettingsArrive` | `HostCoherent`, `ValuesHaveAnOwner`, `SettingsReachInstance` | `IInv` of that module |
| `PluginHostProofs!SecretsHold` | `SecretsKept` | `IInv` and `SecretsInv` |
| `PluginHostProofs!FolderTypes`, `TrustEarned`, `ListedInPlace`, `InstallSurvives` | types, `TrustIsEarned`, `ListedIsInPlace`, `Survives` | `Placed` and `Kept` |
| `ApartProofs!EditorStaysSound` | `StaysSound` | `EditorInv` |
| `ApartProofs!EditorImplementsEditHistory` | every step of the editor is a step of `EditHistory` or a stutter | `EditorInv`, `EditorSteps` |
| `ApartProofs!NothingIsForgotten` | `NothingForgotten` | `SendingInv`, `ActionsInv` |
| `ApartProofs!RoomAndPlacesComeBack` | `RoomIsKept` | both, `AccountInv`, `PlacesInv`, `ListsInv` |
| `MacroPlayerProofs!RunsInLine`, `OneRunPlays` | types; a slot plays once at a time | `IInv`: `Placed`, `WaitInLine` |
| `MacroPlayerProofs!CutShortLetsGo` | `CutShortHoldsNothing` | `RunsInLine`, `LetGo` |
| `MacroPlayerProofs!HeldKeysTracked` | `MacrosCoherent` | `RunsInLine`, `Listed` |
| `MacroPlayerProofs!OwnKeysNeverLost` | `crossed` stays empty, if macros have keys of their own | `RunsInLine`, `Uncrossed` |
| `DeckInputProofs!AlwaysInPlace`, `ComesBack` | `InPlace`, `BackToChosen` | `NavInv` |
| `DeckInputProofs!TapFollows` | `TapFollowsScreen` | `ScreenInv` |
| `DeckInputProofs!TimerCountsDown` | every step of the screen is a step of `Countdown` or a stutter | `ScreenInv` |
| `HotPlugProofs!AlwaysCoherent` | `ConnectionCoherent` | `IInv` of that module |
| `HotPlugProofs!AlwaysWhole` | `ImageIsWhole` of `Updates` | the places of `Swap` and what each leaves in the files |
| `SettingsProofs!SecretsRemain`, `AllDo` | `SecretsStay`, `AllDoAsSaid` | `IInv` of that module |
| `SettingsProofs!NothingUndone` | `ServiceLosesNothing` | `IInv` and `Current` |
| `SettingsProofs!NoEditLost`, `NewestIsKept` | `NothingLost`, `NewestWins` of `ProfileSync`, in any order of what user, app and service do | `SyncInv` |

The proofs about two parts of one run are in one module, because a run's properties are those of the
sum (`MCDeckInput`, `MCDaemon`, `MCPlugin`, `MCService`, `MCApart`): `part` does not change, and with
the other part's name the property says nothing. Only `SettingsReachInstance` is proved, as its run
checks it, of `PluginHost` by itself.

Why the inductive invariants say more than the properties:

* **Uploads.** `OneUploadAtATime` alone is not inductive: a handler that queues an upload looks at
  `upload_gap`, not at the queue. `UploadsOrderly` adds that a gap is owed exactly while an upload
  goes out, and that a deck that is not there has neither. For `ShownIsShown`, `Faithful` says what the
  screen will be after any part of the queue, so that losing the rest of it is covered too. `Calm`: as
  long as a page sent whole goes out or is unpacked and no press came, no press asks for an upload, and
  the pause is owed or runs; each handler either queues no upload and asks for none (`Quiet`), or queues
  one when none has to wait (`Begins`).
* **Input.** A press that may still become a gesture has not been one; a finger that woke the deck has
  an entry in `swallowed` as long as it is down.
* **Pages.** The profile to return to is the one chosen last, or none and then the one shown is, unless
  it was removed; profiles are distinct, and every folder on the stack is a page that is there.
* **Wide screen.** Every way through a handler ends in one drawing, which makes what is shown and what a
  tap does agree again; that a phase of the timer is never empty makes each step of it one of `Countdown`.
* **Queue.** A value in a slot behind a clear is the latest; slots are distinct and in order (`InOrder`).
* **Plugin host.** `EntryInv` ties the status to the attempt, and to the operation that is to settle it;
  `OpInv` says what an operation between two locks has put aside; `InstInv` that every instance alive is
  the entry's or is being stopped by the operation. Together they give that one runs at a time, though no
  section looks at the others. For the secrets, `SecretsInv` follows what a start under way loaded:
  a start that began before a secret was stored is either restarted, or marked `raced`.
* **Plugin files.** `Placed` says, for each step of an operation, what is where whatever failed
  before; `Kept` that a promised version can still be found while the failures allow.
* **Editor.** `Settled` says that every step kept for undo and redo has a profile and a library as sound
  as those edited now, whatever other clients save meanwhile, and that both stacks together have no more
  steps than the limit, so undo and redo need not look at it. For the refinement, the line of
  `EditHistory` is what is undone, the profile, and what is to be redone turned round (`Line`), and the
  editor is on it after what is undone (`At`): an edit cuts the line there and adds to it or changes its
  end, undo and redo move along it, and `EditorSteps` shows that nothing does anything else.
* **Instance, what goes out.** `Sending`: the bytes written are the first of those sent, those in the
  task's hands come next, then the payloads left in its queue, in order. So when a task ends that neither
  the network nor the time limit cut off, there is nothing left.
* **Instance, actions.** `ActionsInv` adds that only a thread in a call serves an action.
* **Instance, room.** `AccountInv`: `Balance`, the size of all data in the queue and of what is being
  posted, is never more than `used`, and is `used` while the instance runs; an end leaves some counted,
  and nobody waits any more. The sum is the number of bytes, as a set (`Held`): what is added to or taken
  out of the queue adds or takes out as many. `Asleep`: a task that sleeps without a notification saw
  less room than it needs, and whoever gave room back notified everybody.
* **Instance, places.** `PlaceKept`: a task at work has its place; only a closed socket drains; and
  the end of a socket is in the queue only after its task is done, so the place that its event gives back
  is nobody's.
* **Macros.** A press finds only the youngest run of its slot. `WaitInLine` says that the others wait
  each for the one before, that no two wait for the same, and that who plays waits for nobody, so one
  plays. `LetGo`: a run that let go has nothing on the list. `Listed`: a key that is down and not on
  the list is at a run between the device and the list, about to be let go of, or in `crossed`.
  `Uncrossed`: with keys of its own a run that takes a key off the list finds it up.
* **Hot-plug.** `MessagesSay` and `EventsEndInDevice` relate the queues on both sides to what the actor
  will show and last told; `BeliefHolds` then keeps the task's belief true or about to be corrected.
* **Updates.** What is put beside the AppImage is whole before it is renamed over it, and only the call
  that put it there writes it.
* **Settings.** `Alone`: whoever is under way holds the lock; `Kept`: what it works with is what the
  file, the host and the actor will have once it and the messages are done. `Current`: an app's text that
  is not in `behind` says of the plugin what the file says, until it is saved.
* **Profiles.** A text of a profile may be with a save of the queue, the queue, the editor and a save at
  once, all at a time. `Chain`: in that order each has the edits of those before it, a save at once has
  those of all and they have its, and none lacks an edit of the file, but for `risked` and what an
  import replaced (`Slack`). A save then takes nothing off the disk, which is `NewestWins`, and puts
  there what the later ones have. It needs that saves of the queue go one by one (`OneByOne`) and that a
  profile read to be opened has what the file has (`Opened`). `MadeKept`: every edit is in the file, with
  the queue or a save, or recorded; with nothing under way that is `NothingLost`.

The theorems hold for any keys, pages, packets, plugins, values, versions, calls, capacity, controls,
bindings, profiles, screens, macros and attempts. Their assumptions are named in the modules:

* model values differ (`None` is no key, attempt, record of the queue, ...) and bounds are natural
  numbers; the bounds of the runs are constants of the theorems, so they may be any number;
* `MCDeckInput!NavAssumption`: a profile has at least one page (`Profile::normalize`);
  `ScreenAssumption`: breaks and music's time on the screen are at least a minute and a second, as the
  app's spin buttons have it;
* `MCPlugin!VersionsAssumption`: what stands for no folder, no version and one that does not load differ
  from versions;
* `Editor`: there are keys and a history, pages have numbers, and what is loaded or comes from outside
  is as the app writes it: a profile has a page (`Profile::normalize`) and no two of an id, no macro of a
  library runs itself (`LoadedAssumption`, `LibrariesAssumption`). A file changed by hand may break the
  last two, which nothing looks for when it is read; the player stops at `MAX_DEPTH`;
* `MCApart!InstanceAssumption`: sockets and requests have ids of one count, and nothing that comes in is
  larger than the room there is (`MAX_MESSAGE`, `READ_CHUNK` and `MAX_BODY` are below `QUEUED_NET`, and
  `Budget` counts no more than that);
* those about settings hold while the deck saves nothing else than the file says:
  `settings_old_secret` is why;
* only `OwnKeysNeverLost` has macros press keys of their own (`KeysApart`), as its name says.

Only model-checked:

* Liveness (`Converges`, `Drains`, `NothingHangs`, `RunsEnd`, `ShownInTheEnd`, `NewComesUp`,
  `PendingIsSent`): fairness and ENABLED are outside the prover. All invariants and action properties of
  the runs, and the three refinements, are theorems.

## Not modelled

The map covers a small part of the lines (about 9 %), because most of the code has no order of
events to check: the GTK app (`ulanzi-deck/src/ui`, nearly half of the lines) builds widgets, and its
edits are in `Editor`; `ulanzi-core` is rendering, file formats and migrations; adapters parse what
desktops and services say and make one call each.

* Pure functions: the packet zipper of `ulanzi-proto`, label layout and caches, TOML and migrations,
  looks and names in the editor, ties of rules' priority.
* Sequential I/O: packages and their signatures, the registry, weather, commands, pictures, snapshots
  and their restoring, `PluginSlot` (waits for the scan, then passes calls on), start and shutdown,
  the tray.
* Parts of modelled components: cycles of actions, pings, ticks and cached responses of an instance,
  `list_items`, the macro player's reports, packages other than the AppImage, `replace_profile` and the
  operations between a profile and the library for a single key in the editor, the order of the deck's
  copy of a profile, two profiles opened or two dialogs saving at once in the app, other clients that
  apply profiles, loss of power.

Worth doing next: the entry in `swallowed` that outlives its press, and the old copy of a plugin that
comes back (both above), as runs of their own; two profiles opened at once in `ProfileSync`;
`PluginSlot` and the start of the service; the zipper as a function against its definition.
