----------------------------- MODULE PluginHost -----------------------------
(***************************************************************************)
(* The plugin host (plugins/supervisor.rs, install_checked of install.rs): *)
(* the life of one plugin, from the operations on it down to its instances,*)
(* the deck's view of its values and its stored secrets.                   *)
(*                                                                         *)
(* State behind the mutex is changed in short sections; each is an action. *)
(* Between them the operations, which hold the `ops` lock for as long as   *)
(* they run, wait for instances, files and the keyring, and start tasks,   *)
(* instances, their supervisors and actions run on.                        *)
(*                                                                         *)
(* A start attempt's number is only ever compared for equality, so numbers *)
(* nobody carries any more are used again.  The deck's queue is what       *)
(* PluginValues promises: only what was last said counts.                  *)
(***************************************************************************)
CONSTANTS
  Attempts,   \* numbers of start attempts, and of their instances
  Tables,     \* settings tables of the plugin
  Secrets,    \* values of its secret
  None,       \* no attempt, entry, operation, output or secret
  Broken      \* what loading secrets returns when the keyring fails

ASSUME NoneAssumption ==
  None \notin Attempts \cup Secrets /\ Broken \notin Secrets \cup {None}

VARIABLES
  plugin,   \* State.plugins: the plugin's Entry, or None
  cfg,      \* State.settings: the latest enabled flag and table
  closed,   \* State.closed
  inst,     \* each attempt's start task, instance and supervisor
  op,       \* the operation holding the ops lock
  stored,   \* the secret store's value of the plugin's secret (external)
  said,     \* the instance whose values the deck shows, last said
  waiter,   \* where an action waiting in `running` is
  changed   \* the watch channel has a version the waiter has not seen

vars == <<plugin, cfg, closed, inst, op, stored, said, waiter, changed>>

Idle == [life |-> "free", has |-> None, table |-> None,
         out |-> None, saving |-> FALSE, raced |-> FALSE]

Listed == plugin # None
IsRun(a) == Listed /\ plugin.run = a
\* Everyone watching is told; a version nobody watches for is not kept.
Told(news) == changed' = (changed \/ (news /\ waiter # "none"))
Bump == Told(TRUE)

\* Numbers nobody carries.
Fresh ==
  {a \in Attempts : /\ inst[a].life = "free" /\ a # said
                    /\ op # None => a # op.run
                    /\ Listed => a \notin {plugin.attempt, plugin.run, plugin.draining}}

\* take_run: detach the instance, cancel a start in progress.
TakeRun(e) == [e EXCEPT !.attempt = None, !.draining = e.run, !.run = None]

\* launch: entry `e` with a start attempt of its own.
Launch(e) ==
  IF ~e.compatible
  THEN plugin' = [e EXCEPT !.draining = None] /\ UNCHANGED <<inst, changed>>
  ELSE \E a \in Fresh :
         /\ plugin' = [e EXCEPT !.draining = None, !.attempt = a, !.status = "Starting"]
         /\ inst' = [inst EXCEPT ![a] = [Idle EXCEPT
                       !.life = "loading", !.raced = op # None /\ op.kind = "set_secret"]]
         /\ Bump

Resting(e) == IF e.enabled THEN "Ready" ELSE "Off"
NewEntry(c, wanted) ==
  [status |-> Resting(c), compatible |-> TRUE, enabled |-> c.enabled,
   table |-> c.table, wanted |-> wanted, attempt |-> None, run |-> None,
   draining |-> None, crashed |-> FALSE]

-----------------------------------------------------------------------------
(* `Host::start`: what the scan found.  A plugin already wanted is launched.*)

Init ==
  /\ cfg \in [enabled : BOOLEAN, table : Tables]
  /\ \/ /\ \/ plugin = None
           \/ plugin = NewEntry(cfg, FALSE)
           \/ ~cfg.enabled /\ plugin = NewEntry(cfg, TRUE)
           \/ plugin = [NewEntry(cfg, FALSE) EXCEPT !.status = "Incompatible",
                                                    !.compatible = FALSE]
        /\ inst = [a \in Attempts |-> Idle]
     \/ /\ cfg.enabled
        /\ \E first \in Attempts :
             /\ plugin = [NewEntry(cfg, TRUE) EXCEPT !.status = "Starting", !.attempt = first]
             /\ inst = [a \in Attempts |-> IF a = first THEN [Idle EXCEPT !.life = "loading"]
                                           ELSE Idle]
  /\ closed = FALSE /\ op = None
  /\ stored \in Secrets \cup {None}
  /\ said = None /\ waiter = "none" /\ changed = FALSE

-----------------------------------------------------------------------------
(* Start tasks.                                                            *)

\* The keyring answers a start task's load.
SecretsLoaded(a) ==
  /\ inst[a].life = "loading"
  /\ \E got \in {stored, Broken} :
       inst' = [inst EXCEPT ![a].life = "loaded", ![a].has = got]
  /\ UNCHANGED <<plugin, cfg, closed, op, stored, said, waiter, changed>>

Starts(a) ==
  Listed /\ ~closed /\ plugin.attempt = a /\ plugin.run = None

\* Mutant: the attempt's number is not compared.
StartInstanceAnyway(a) ==
  /\ inst[a].life = "loaded"
  /\ IF Listed /\ ~closed /\ plugin.run = None /\ inst[a].has # Broken
     THEN /\ plugin' = [plugin EXCEPT !.run = a, !.status = "Running"]
          /\ inst' = [inst EXCEPT ![a].life = "running", ![a].table = plugin.table]
          /\ Bump
     ELSE /\ inst' = [inst EXCEPT ![a] = Idle]
          /\ UNCHANGED <<plugin, changed>>
  /\ UNCHANGED <<cfg, closed, op, stored, said, waiter>>

\* start_instance, under the lock: given up when stopped, turned off or
\* replaced meanwhile; the first Init event carries the current settings.
StartInstance(a) ==
  /\ inst[a].life = "loaded"
  /\ \/ /\ ~Starts(a)
        /\ inst' = [inst EXCEPT ![a] = Idle]
        /\ UNCHANGED <<plugin, changed>>
     \/ /\ Starts(a)   \* no secrets, no engine, or no instance
        /\ plugin' = [plugin EXCEPT !.status = "Failed"]
        /\ inst' = [inst EXCEPT ![a] = Idle]
        /\ Bump
     \/ /\ Starts(a) /\ inst[a].has # Broken
        /\ plugin' = [plugin EXCEPT !.run = a, !.status = "Running"]
        /\ inst' = [inst EXCEPT ![a].life = "running", ![a].table = plugin.table]
        /\ Bump
  /\ UNCHANGED <<cfg, closed, op, stored, said, waiter>>

-----------------------------------------------------------------------------
(* Instances (external: the guest, on a thread of its own) and supervisors.*)

\* The guest sets a value, its status or its secrets.
Outputs(a) ==
  /\ inst[a].life = "running" /\ inst[a].out = None
  /\ \E o \in {"state", "problem", "ok", "secrets"} : inst' = [inst EXCEPT ![a].out = o]
  /\ UNCHANGED <<plugin, cfg, closed, op, stored, said, waiter, changed>>

\* It stops when asked to, or crashes.
Exits(a) ==
  /\ inst[a].life = "running"
  /\ inst' = [inst EXCEPT ![a].life = "exited", ![a].table = None]
  /\ UNCHANGED <<plugin, cfg, closed, op, stored, said, waiter, changed>>

\* output: a value goes to the deck, whichever instance set it.
HandleState(a) ==
  /\ inst[a].out = "state"
  /\ said' = a
  /\ inst' = [inst EXCEPT ![a].out = None]
  /\ UNCHANGED <<plugin, cfg, closed, op, stored, waiter, changed>>

\* output: only the current instance's status counts.
HandleStatus(a) ==
  /\ inst[a].out \in {"problem", "ok"}
  /\ inst' = [inst EXCEPT ![a].out = None]
  /\ LET status == IF inst[a].out = "ok" THEN "Running" ELSE "Problem"
     IN  IF IsRun(a) /\ plugin.status # status
         THEN plugin' = [plugin EXCEPT !.status = status] /\ Bump
         ELSE UNCHANGED <<plugin, changed>>
  /\ UNCHANGED <<cfg, closed, op, stored, said, waiter>>

\* output: secrets of the current instance, or of the one last detached, are
\* going to be saved; others are ignored.
HandleSecrets(a) ==
  /\ inst[a].out = "secrets" /\ ~inst[a].saving
  /\ inst' = IF Listed /\ a \in {plugin.run, plugin.draining}
             THEN [inst EXCEPT ![a].saving = TRUE]
             ELSE [inst EXCEPT ![a].out = None]
  /\ UNCHANGED <<plugin, cfg, closed, op, stored, said, waiter, changed>>

\* The save reaches the store, or fails.  The map holds what the instance
\* loaded, with its own changes.
SecretsSaved(a) ==
  /\ inst[a].saving
  /\ stored' \in {stored, inst[a].has}
  /\ inst' = [inst EXCEPT ![a].saving = FALSE, ![a].out = None]
  /\ UNCHANGED <<plugin, cfg, closed, op, said, waiter, changed>>

\* Mutant: values of an ended instance stay.
EndedKeepsValues(a) ==
  /\ inst[a].life = "exited" /\ inst[a].out = None
  /\ inst' = [inst EXCEPT ![a] = Idle]
  /\ IF IsRun(a) /\ ~closed
     THEN plugin' = [plugin EXCEPT !.run = None, !.status = "Failed"] /\ Bump
     ELSE UNCHANGED <<plugin, changed>>
  /\ UNCHANGED <<cfg, closed, op, stored, said, waiter>>

\* Mutant: only the end of the current instance is reported.
EndedOnlyCurrent(a) ==
  /\ inst[a].life = "exited" /\ inst[a].out = None /\ IsRun(a)
  /\ plugin' = [plugin EXCEPT !.run = None, !.status = "Failed"]
  /\ inst' = [inst EXCEPT ![a] = Idle] /\ said' = None /\ Bump
  /\ UNCHANGED <<cfg, closed, op, stored, waiter>>

\* ended: the supervisor drained the outputs and reports the end.  A crash
\* restarts the instance once; the second one in CRASH_WINDOW leaves it failed.
\* The deck is told to forget the plugin's values either way.
Ended(a) ==
  /\ inst[a].life = "exited" /\ inst[a].out = None
  /\ \/ /\ ~IsRun(a) \/ closed
        /\ inst' = [inst EXCEPT ![a] = Idle]
        /\ UNCHANGED <<plugin, changed>>
     \/ /\ IsRun(a) /\ ~closed /\ plugin.crashed
        /\ plugin' = [plugin EXCEPT !.run = None, !.status = "Failed"]
        /\ inst' = [inst EXCEPT ![a] = Idle]
        /\ Bump
     \/ /\ IsRun(a) /\ ~closed /\ ~plugin.crashed
        /\ \E b \in Fresh :
             /\ plugin' = [plugin EXCEPT !.run = None, !.crashed = TRUE, !.draining = None,
                                         !.attempt = b, !.status = "Starting"]
             /\ inst' = [inst EXCEPT ![a] = Idle,
                           ![b] = [Idle EXCEPT !.life = "loading",
                                     !.raced = op # None /\ op.kind = "set_secret"]]
        /\ Bump
  /\ said' = None
  /\ UNCHANGED <<cfg, closed, op, stored, waiter>>

\* CRASH_WINDOW passes.
WindowOver ==
  /\ Listed /\ plugin.crashed
  /\ plugin' = [plugin EXCEPT !.crashed = FALSE]
  /\ UNCHANGED <<cfg, closed, inst, op, stored, said, waiter, changed>>

-----------------------------------------------------------------------------
(* An action (or list-items) in `running`.                                 *)

\* borrow_and_update marks the latest version as seen; the state is looked at
\* only after that.
Asks ==
  /\ waiter = "none"
  /\ waiter' = "looking"
  /\ UNCHANGED <<plugin, cfg, closed, inst, op, stored, said, changed>>

\* Under the lock: start it when it is Ready, wait while it is Starting.
Looks ==
  /\ waiter = "looking"
  /\ \/ /\ Listed /\ plugin.status = "Ready" /\ ~closed
        /\ Launch(plugin)
        /\ waiter' = "waiting"
     \/ /\ Listed /\ plugin.status = "Starting"
        /\ waiter' = "waiting"
        /\ UNCHANGED <<plugin, inst, changed>>
     \/ /\ Listed => plugin.status \notin
                       (IF closed THEN {"Starting"} ELSE {"Ready", "Starting"})
        /\ waiter' = "none" /\ changed' = FALSE
        /\ UNCHANGED <<plugin, inst>>
  /\ UNCHANGED <<cfg, closed, op, stored, said>>

\* Something changed: mark it as seen and look again.
Notices ==
  /\ waiter = "waiting" /\ changed
  /\ waiter' = "looking" /\ changed' = FALSE
  /\ UNCHANGED <<plugin, cfg, closed, inst, op, stored, said>>

\* START_WAIT is over: "is still starting".
GivesUp ==
  /\ waiter = "waiting"
  /\ waiter' = "none" /\ changed' = FALSE
  /\ UNCHANGED <<plugin, cfg, closed, inst, op, stored, said>>

-----------------------------------------------------------------------------
(* Operations.  Each holds the ops lock from Begin to Done.                *)

\* The operation goes on at `pc`, after waiting for instance `a` to end.
Begin(kind, a, pc, relaunch, value, entry) ==
  /\ op' = [kind |-> kind, run |-> a, pc |-> IF a = None THEN pc ELSE "stop",
            then |-> pc, relaunch |-> relaunch, value |-> value, entry |-> entry]
  /\ UNCHANGED inst

Held(kind, pc) == op # None /\ op.kind = kind /\ op.pc = pc
Done == op' = None

\* Mutant: the operation does not wait.
StoppedAtOnce ==
  /\ op # None /\ op.pc = "stop"
  /\ op' = [op EXCEPT !.pc = op.then, !.run = None]
  /\ UNCHANGED <<plugin, cfg, closed, inst, stored, said, waiter, changed>>

\* stop_run: wait for the instance's supervisor.  Giving up after STOP_WAIT is
\* left out: the guest is cut short long before.
Stopped ==
  /\ op # None /\ op.pc = "stop"
  /\ inst[op.run].life = "free"
  /\ op' = [op EXCEPT !.pc = op.then, !.run = None]
  /\ UNCHANGED <<plugin, cfg, closed, inst, stored, said, waiter, changed>>

SetSecret(v) ==
  /\ op = None /\ Listed /\ plugin.compatible
  /\ LET relaunch == plugin.enabled /\ plugin.status \in {"Starting", "Running", "Problem"}
     IN  /\ plugin' = IF relaunch THEN [TakeRun(plugin) EXCEPT !.status = "Starting"]
                                  ELSE TakeRun(plugin)
         /\ Begin("set_secret", plugin.run, "save", relaunch, v, None)
         /\ Told(relaunch)
  /\ UNCHANGED <<cfg, closed, stored, said, waiter>>

\* The keyring saved the user's secret, or failed.
SetSecretSaves ==
  /\ Held("set_secret", "save")
  /\ \E saved \in BOOLEAN :
       stored' = IF saved THEN op.value ELSE stored
  /\ op' = [op EXCEPT !.pc = "relaunch"]
  /\ UNCHANGED <<plugin, cfg, closed, inst, said, waiter, changed>>

Relaunches ==
  op.relaunch /\ ~closed /\ Listed /\ plugin.enabled

\* set_secret and restart: start the instance again.
Relaunch ==
  /\ Held("set_secret", "relaunch") \/ Held("restart", "relaunch")
  /\ IF Relaunches
     THEN Launch([plugin EXCEPT !.crashed = FALSE])
     ELSE UNCHANGED <<plugin, inst, changed>>
  /\ Done
  /\ UNCHANGED <<cfg, closed, stored, said, waiter>>

\* Mutant: an action finds the plugin Ready while the old instance stops.
RestartLeavesReady ==
  /\ op = None /\ Listed /\ plugin.status \notin {"Incompatible", "Off"}
  /\ plugin' = [TakeRun(plugin) EXCEPT !.status = "Ready"]
  /\ Begin("restart", plugin.run, "relaunch", TRUE, None, None)
  /\ UNCHANGED <<cfg, closed, stored, said, waiter, changed>>

Restart ==
  /\ op = None /\ Listed /\ plugin.status \notin {"Incompatible", "Off"}
  /\ plugin' = IF plugin.enabled THEN [TakeRun(plugin) EXCEPT !.status = "Starting"]
                                 ELSE TakeRun(plugin)
  /\ Begin("restart", plugin.run, "relaunch", TRUE, None, None)
  /\ Told(plugin.enabled)
  /\ UNCHANGED <<cfg, closed, stored, said, waiter>>

\* Mutant: a start in progress is not given the new settings.
ApplySettingsOnlyRunning(c) ==
  /\ op = None /\ cfg' = c
  /\ IF Listed /\ plugin.compatible /\ plugin.enabled = c.enabled /\ plugin.run # None
     THEN /\ plugin' = [plugin EXCEPT !.table = c.table]
          /\ inst' = [inst EXCEPT ![plugin.run].table = c.table]
     ELSE UNCHANGED <<plugin, inst>>
  /\ UNCHANGED <<closed, op, stored, said, waiter, changed>>

\* The instance gets the settings, or its event queue is full and nobody knows.
PostInit(table) ==
  \E got \in {table, None} : inst' = [inst EXCEPT ![plugin.run].table = got]

ApplySettings(c) ==
  /\ op = None
  /\ cfg' = c
  /\ LET e == [plugin EXCEPT !.enabled = c.enabled, !.table = c.table]
     IN  \/ ~Listed /\ UNCHANGED <<plugin, inst, op, changed>>
         \/ /\ Listed /\ ~plugin.compatible
            /\ plugin' = e /\ UNCHANGED <<inst, op, changed>>
         \/ /\ Listed /\ plugin.compatible /\ plugin.enabled /\ ~c.enabled
            /\ plugin' = [TakeRun(e) EXCEPT !.status = "Off"]
            /\ Begin("apply_settings", plugin.run, "done", FALSE, None, None)
            /\ Bump
         \/ /\ Listed /\ plugin.compatible /\ ~plugin.enabled /\ c.enabled
            /\ LET ready == [e EXCEPT !.status = "Ready", !.crashed = FALSE]
               IN  IF plugin.wanted /\ ~closed THEN Launch(ready)
                   ELSE plugin' = ready /\ UNCHANGED inst /\ Bump
            /\ UNCHANGED op
         \/ /\ Listed /\ plugin.compatible /\ plugin.enabled = c.enabled
            /\ plugin' = e
            /\ IF plugin.table # c.table /\ plugin.run # None THEN PostInit(c.table)
               ELSE UNCHANGED inst
            /\ UNCHANGED <<op, changed>>
  /\ UNCHANGED <<closed, stored, said, waiter>>

\* remove: unlisted first, so that actions find nothing to start.
Remove ==
  /\ op = None /\ Listed
  /\ plugin' = None
  /\ Begin("remove", plugin.run, "delete", FALSE, None, TakeRun(plugin))
  /\ Bump
  /\ UNCHANGED <<cfg, closed, stored, said, waiter>>

\* The folder is deleted, or cannot be: then it is listed again, stopped.
RemoveDeletes ==
  /\ Held("remove", "delete")
  /\ \/ op' = [op EXCEPT !.pc = "forget"] /\ UNCHANGED <<plugin, changed>>
     \/ /\ plugin' = IF op.entry.compatible
                     THEN [op.entry EXCEPT !.status = Resting(op.entry)]
                     ELSE op.entry
        /\ Bump
        /\ Done
  /\ UNCHANGED <<cfg, closed, inst, stored, said, waiter>>

\* The secrets go too; the user is told when they do not.
RemoveForgets ==
  /\ Held("remove", "forget")
  /\ stored' \in {None, stored}
  /\ Done
  /\ UNCHANGED <<plugin, cfg, closed, inst, said, waiter, changed>>

\* install_checked: detach the old instance, before its folder is replaced.
Install ==
  /\ op = None
  /\ LET starting == Listed /\ plugin.compatible /\ plugin.enabled
     IN  /\ plugin' = IF starting THEN [TakeRun(plugin) EXCEPT !.status = "Starting"]
                      ELSE IF Listed THEN TakeRun(plugin) ELSE None
         /\ Begin("install", IF Listed THEN plugin.run ELSE None, "swap", FALSE, None, None)
         /\ Told(starting)
  /\ UNCHANGED <<cfg, closed, stored, said, waiter>>

\* The folder was replaced: register the plugin and start it when enabled.
Installed ==
  /\ Held("install", "swap")
  /\ IF cfg.enabled /\ ~closed THEN Launch(NewEntry(cfg, TRUE))
     ELSE plugin' = NewEntry(cfg, TRUE) /\ UNCHANGED inst /\ Bump
  /\ Done
  /\ UNCHANGED <<cfg, closed, stored, said, waiter>>

\* Mutant: a failed install leaves the entry as it is.
ResumeForgets ==
  /\ Held("install", "swap")
  /\ Done
  /\ UNCHANGED <<plugin, cfg, closed, inst, stored, said, waiter, changed>>

\* It could not be replaced: the old plugin starts again.
Resume ==
  /\ Held("install", "swap")
  /\ IF ~Listed \/ ~plugin.compatible \/ plugin.run # None
     THEN UNCHANGED <<plugin, inst, changed>>
     ELSE IF plugin.enabled /\ ~closed THEN Launch(plugin)
     ELSE /\ plugin' = [plugin EXCEPT !.status = Resting(plugin)]
          /\ UNCHANGED inst /\ Bump
  /\ Done
  /\ UNCHANGED <<cfg, closed, stored, said, waiter>>

Shutdown ==
  /\ op = None
  /\ closed' = TRUE
  /\ LET loaded == Listed /\ plugin.compatible
     IN  /\ plugin' = IF loaded THEN [TakeRun(plugin) EXCEPT !.status = "Off"] ELSE plugin
         /\ Begin("shutdown", IF loaded THEN plugin.run ELSE None, "done", FALSE, None, None)
  /\ UNCHANGED <<cfg, stored, said, waiter, changed>>

\* apply_settings and shutdown end when the instance has.
Finish ==
  /\ Held("apply_settings", "done") \/ Held("shutdown", "done")
  /\ Told(op.kind = "shutdown")
  /\ Done
  /\ UNCHANGED <<plugin, cfg, closed, inst, stored, said, waiter>>

-----------------------------------------------------------------------------
StartTask(a) == SecretsLoaded(a) \/ StartInstance(a)
Supervisor(a) ==
  HandleState(a) \/ HandleStatus(a) \/ HandleSecrets(a) \/ SecretsSaved(a) \/ Ended(a)

Steps == Stopped \/ SetSecretSaves \/ Relaunch \/ RemoveDeletes \/ RemoveForgets
         \/ Installed \/ Resume \/ Finish

Operations ==
  \/ \E v \in Secrets \cup {None} : SetSecret(v)
  \/ \E c \in [enabled : BOOLEAN, table : Tables] : ApplySettings(c)
  \/ Restart \/ Remove \/ Install \/ Shutdown

Action == Asks \/ Looks \/ Notices \/ GivesUp

Next ==
  \/ Operations \/ Steps \/ Action \/ WindowOver
  \/ \E a \in Attempts : StartTask(a) \/ Outputs(a) \/ Exits(a) \/ Supervisor(a)

Spec == Init /\ [][Next]_vars

\* Tasks of the daemon run on; the keyring answers; an instance that was
\* detached, and so asked to stop, does (a guest call is cut short within 50 ms).
FairSpec ==
  /\ Spec
  /\ \A a \in Attempts :
       WF_vars(StartTask(a)) /\ WF_vars(Supervisor(a)) /\ WF_vars(~IsRun(a) /\ Exits(a))
  /\ WF_vars(Steps) /\ WF_vars(Looks \/ Notices)

-----------------------------------------------------------------------------
(* Properties.                                                             *)

Lives == {"free", "loading", "loaded", "running", "exited"}
Statuses == {"Off", "Ready", "Starting", "Running", "Problem", "Failed", "Incompatible"}
Outs == {"state", "problem", "ok", "secrets"}
Entries ==
  [status : Statuses, compatible : BOOLEAN, enabled : BOOLEAN, table : Tables,
   wanted : BOOLEAN, attempt : Attempts \cup {None}, run : Attempts \cup {None},
   draining : Attempts \cup {None}, crashed : BOOLEAN]
Instances ==
  [life : Lives, has : Secrets \cup {None, Broken}, table : Tables \cup {None},
   out : Outs \cup {None}, saving : BOOLEAN, raced : BOOLEAN]
Ops ==
  [kind : {"set_secret", "restart", "apply_settings", "remove", "install", "shutdown"},
   pc : {"stop", "save", "relaunch", "delete", "forget", "swap", "done"},
   then : {"save", "relaunch", "delete", "swap", "done"},
   run : Attempts \cup {None}, relaunch : BOOLEAN,
   value : Secrets \cup {None}, entry : Entries \cup {None}]

ASSUME NothingAssumption == None \notin Entries \cup Ops \cup Outs

\* The values of the variables.
TypeOK ==
  /\ plugin \in Entries \cup {None}
  /\ cfg \in [enabled : BOOLEAN, table : Tables]
  /\ closed \in BOOLEAN /\ changed \in BOOLEAN
  /\ inst \in [Attempts -> Instances]
  /\ op \in Ops \cup {None}
  /\ stored \in Secrets \cup {None}
  /\ said \in Attempts \cup {None}
  /\ waiter \in {"none", "looking", "waiting"}

\* A plugin is listed as running exactly while it has an instance that its
\* supervisor has not reported the end of, and that is of the current attempt.
StatusMatchesRun ==
  Listed =>
    /\ plugin.status \in {"Running", "Problem"} <=> plugin.run # None
    /\ plugin.run # None => /\ plugin.attempt = plugin.run
                            /\ inst[plugin.run].life \in {"running", "exited"}
                            /\ plugin.enabled /\ ~closed

\* A plugin is never left Starting with nothing that will start it: a start
\* task carries its attempt, or an operation will launch or settle it (a
\* restart asked of a host already shut down leaves it so).
StartingIsStarting ==
  Listed /\ ~closed /\ plugin.status = "Starting" =>
    \/ /\ plugin.attempt # None
       /\ inst[plugin.attempt].life \in {"loading", "loaded"}
    \/ op # None /\ op.kind \in {"set_secret", "restart", "install"}

\* Turned off stays off: neither an action nor a crash nor an operation starts
\* a plugin that is off, or any plugin once the host is shut down.
OffMeansOff ==
  /\ Listed /\ ~plugin.enabled =>
       plugin.run = None /\ plugin.status \notin {"Starting", "Running", "Problem"}
  /\ Listed /\ closed => plugin.run = None
  /\ closed /\ op = None => \A a \in Attempts : inst[a].life # "running"

\* Two instances of the plugin never run at the same time.
OneInstance ==
  \A a, b \in Attempts : inst[a].life = "running" /\ inst[b].life = "running" => a = b

\* The deck shows values of a plugin only while the instance that set them is
\* there; whatever ends it, they are cleared, and never those of a newer one.
ValuesHaveAnOwner == said # None => inst[said].life \in {"running", "exited"}

\* The running instance has been given the latest settings, also when they
\* change while it starts ("At start and when the plugin's settings change");
\* only a full event queue can cost it some.
SettingsReachInstance ==
  Listed /\ plugin.run # None => inst[plugin.run].table \in {cfg.table, None}

\* The running instance has the stored secrets, unless an action started it
\* while one was being set.
SecretsFresh ==
  Listed /\ plugin.run # None =>
    inst[plugin.run].has = stored \/ inst[plugin.run].raced

\* "A removed plugin, or an instance that outlived its stop, must not write its
\* secrets back": once a removal is over no save of the plugin's is on its way.
DeletedStayDeleted ==
  ~Listed /\ op = None => \A a \in Attempts : ~inst[a].saving

\* What is stored outlives neither a newer value nor the plugin.
SecretsKept == SecretsFresh /\ DeletedStayDeleted

\* An action waiting for the plugin to start is never left asleep once it is
\* no longer starting; at shutdown it may be told only when that is over.
WaiterNoticed ==
  waiter = "waiting" /\ ~changed =>
    \/ Listed /\ plugin.status = "Starting"
    \/ op # None /\ op.kind = "shutdown"

\* The status, the instances, the start tasks and the actions waiting for them
\* agree, and what was turned off or shut down stays so.
HostCoherent ==
  /\ TypeOK /\ StatusMatchesRun /\ StartingIsStarting /\ OneInstance
  /\ WaiterNoticed /\ OffMeansOff

\* Every operation ends and lets go of the ops lock.
OperationsEnd == op # None ~> op = None

\* A plugin does not stay Starting once no more operations come.
StartingEnds ==
  <>[](op = None) => []<>(Listed /\ ~closed => plugin.status # "Starting")

\* Neither an operation nor a start is left hanging: an operation waits for
\* instances with the ops lock held, and a start ends in another task.
NothingHangs == OperationsEnd /\ StartingEnds

=============================================================================
