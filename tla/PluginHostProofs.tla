-------------------------- MODULE PluginHostProofs --------------------------
(***************************************************************************)
(* Proofs about PluginHost, for any numbers of attempts, settings tables   *)
(* and secrets, and, in the last section, about PluginInstall (F), for any *)
(* versions and any number of failures.                                    *)
(*                                                                         *)
(* What makes the properties inductive is where an instance may be: it is  *)
(* the plugin's, or the one that the operation under way waits for, and    *)
(* while an operation has the plugin to itself nothing else starts it.     *)
(***************************************************************************)
EXTENDS MCPlugin, TLAPS

\* The operation under way has taken the start and the instance there were,
\* and will start the plugin again or leave it as it is: only a secret set for
\* a plugin that is not started lets an action start it meanwhile.
Settles == op # None /\ (op.kind # "set_secret" \/ op.relaunch)
Alive(a) == inst[a].life \in {"running", "exited"}
Starting(a) == inst[a].life \in {"loading", "loaded"}

\* An entry agrees with itself and with the settings.
Sound(e) ==
  /\ e.compatible <=> e.status # "Incompatible"
  /\ e.enabled = cfg.enabled /\ e.table = cfg.table
  /\ e.compatible /\ ~e.enabled => e.status = "Off"

\* What is listed, with the start and the instance it names.
EntryInv ==
  Listed =>
    /\ Sound(plugin)
    /\ plugin.attempt # None =>
         /\ plugin.compatible /\ plugin.enabled /\ ~closed /\ ~Settles
         /\ plugin.status \in {"Starting", "Running", "Problem", "Failed"}
    /\ plugin.run # None => plugin.attempt = plugin.run /\ Alive(plugin.run)
    /\ plugin.status \in {"Running", "Problem"} <=> plugin.run # None
    /\ Settles => plugin.status \in {"Starting", "Off", "Incompatible"}
    /\ ~closed /\ plugin.status = "Starting" =>
         \/ plugin.attempt # None /\ Starting(plugin.attempt)
         \/ Settles /\ op.kind \in {"set_secret", "restart", "install"}

\* The operation, and what it put aside.
OpInv ==
  op # None =>
    /\ op.pc = "stop" <=> op.run # None
    /\ op.run # None => Settles
    /\ op.kind = "restart" => op.relaunch
    /\ op.kind = "remove" =>
         /\ ~Listed /\ op.entry \in Entries /\ Sound(op.entry)
         /\ op.entry.attempt = None /\ op.entry.run = None

\* Every instance is somebody's, and has come to what it does.
InstInv ==
  \A a \in Attempts :
    /\ Alive(a) => (IsRun(a) \/ (op # None /\ op.run = a)) /\ inst[a].has # Broken
    /\ inst[a].out # None => Alive(a)
    /\ inst[a].saving => inst[a].out = "secrets"

\* A start under way, and the instance, have the secret that is stored.
SecretsInv ==
  Listed /\ plugin.attempt # None =>
    LET i == inst[plugin.attempt] IN
    /\ i.life = "loaded" => i.has \in {stored, Broken} \/ i.raced
    /\ i.life \in {"running", "exited"} => i.has = stored \/ i.raced
    /\ i.life # "free" /\ op # None /\ op.kind = "set_secret" => i.raced

IInv ==
  /\ TypeOK /\ EntryInv /\ OpInv /\ InstInv
  /\ WaiterNoticed /\ ValuesHaveAnOwner /\ SettingsReachInstance

-----------------------------------------------------------------------------
(* Entries, instances and operations.                                      *)

LEMMA Types ==
  ASSUME TypeOK
  PROVE  /\ Listed => plugin \in Entries
         /\ op # None => op \in Ops
         /\ \A a \in Attempts : inst[a] \in Instances
         /\ plugin \in Entries => Listed
  BY NothingAssumption DEF TypeOK, Listed

LEMMA IdleType ==
  /\ Idle \in Instances /\ Idle.life = "free" /\ Idle.out = None /\ ~Idle.saving
  /\ \A raced \in BOOLEAN :
       LET i == [Idle EXCEPT !.life = "loading", !.raced = raced]
       IN  i \in Instances /\ i.life = "loading" /\ i.out = None /\ ~i.saving /\ i.raced = raced
  BY DEF Idle, Instances, Lives

LEMMA NewEntryFacts ==
  ASSUME TypeOK, NEW wanted \in BOOLEAN
  PROVE  LET e == NewEntry(cfg, wanted) IN
         /\ e \in Entries /\ e.compatible /\ e.enabled = cfg.enabled /\ e.table = cfg.table
         /\ e.status = Resting(cfg) /\ e.attempt = None /\ e.run = None
         /\ Sound(e)
  BY DEF TypeOK, NewEntry, Resting, Entries, Statuses, Sound

\* Taking the instance leaves the rest of an entry as it is.
LEMMA TakeRunFacts ==
  ASSUME NEW e \in Entries
  PROVE  LET t == TakeRun(e) IN
         /\ t \in Entries /\ t.attempt = None /\ t.run = None
         /\ t.status = e.status /\ t.compatible = e.compatible /\ t.enabled = e.enabled
         /\ t.table = e.table
         /\ \A st \in Statuses :
              LET u == [t EXCEPT !.status = st] IN
              /\ u \in Entries /\ u.attempt = None /\ u.run = None
              /\ u.status = st /\ u.compatible = e.compatible /\ u.enabled = e.enabled
              /\ u.table = e.table
  BY DEF TakeRun, Entries

\* Launching starts nothing for an entry of another version; else there is a
\* start, of a number that nobody carries.
LEMMA LaunchFacts ==
  ASSUME TypeOK, NEW e \in Entries, Launch(e)
  PROVE  /\ plugin' \in Entries /\ changed' \in BOOLEAN /\ inst' \in [Attempts -> Instances]
         /\ plugin'.run = e.run /\ plugin'.compatible = e.compatible
         /\ plugin'.enabled = e.enabled /\ plugin'.table = e.table
         /\ \/ /\ ~e.compatible /\ inst' = inst /\ changed' = changed
               /\ plugin'.status = e.status /\ plugin'.attempt = e.attempt
            \/ \E a \in Fresh :
                 /\ e.compatible /\ plugin'.attempt = a /\ plugin'.status = "Starting"
                 /\ inst'[a].life = "loading" /\ inst'[a].out = None /\ ~inst'[a].saving
                 /\ inst'[a].raced = (op # None /\ op.kind = "set_secret")
                 /\ \A b \in Attempts : b # a => inst'[b] = inst[b]
                 /\ changed' = (changed \/ waiter # "none")
<1>1. CASE ~e.compatible
  BY <1>1 DEF Launch, TypeOK, Entries
<1>2. CASE e.compatible
  <2>1. PICK a \in Fresh :
          /\ plugin' = [e EXCEPT !.draining = None, !.attempt = a, !.status = "Starting"]
          /\ inst' = [inst EXCEPT ![a] = [Idle EXCEPT
                        !.life = "loading", !.raced = op # None /\ op.kind = "set_secret"]]
          /\ Bump
    BY <1>2 DEF Launch
  <2>2. a \in Attempts
    BY DEF Fresh
  <2>3. /\ plugin' \in Entries
        /\ plugin'.run = e.run /\ plugin'.compatible = e.compatible
        /\ plugin'.enabled = e.enabled /\ plugin'.table = e.table
        /\ plugin'.attempt = a /\ plugin'.status = "Starting"
    BY <2>1, <2>2 DEF Entries, Statuses
  <2> DEFINE raced == op # None /\ op.kind = "set_secret"
             i == [Idle EXCEPT !.life = "loading", !.raced = raced]
  <2>4. /\ i \in Instances /\ i.life = "loading" /\ i.out = None /\ ~i.saving
        /\ i.raced = raced
    BY IdleType
  <2>5. inst' = [inst EXCEPT ![a] = i]
    BY <2>1
  <2>6. i.raced = (op # None /\ op.kind = "set_secret")
    BY <2>4
  <2>7. changed' = (changed \/ waiter # "none") /\ changed' \in BOOLEAN
    BY <2>1 DEF Bump, Told
  <2> HIDE DEF i
  <2>8. /\ inst' \in [Attempts -> Instances] /\ inst'[a] = i
        /\ \A b \in Attempts : b # a => inst'[b] = inst[b]
    BY <2>2, <2>4, <2>5 DEF TypeOK
  <2>9. /\ e.compatible /\ plugin'.attempt = a /\ plugin'.status = "Starting"
        /\ inst'[a].life = "loading" /\ inst'[a].out = None /\ ~inst'[a].saving
        /\ \A b \in Attempts : b # a => inst'[b] = inst[b]
        /\ changed' = (changed \/ waiter # "none")
    BY <1>2, <2>3, <2>4, <2>7, <2>8
  <2>10. inst'[a].raced = (op # None /\ op.kind = "set_secret")
    BY <2>6, <2>8, Zenon
  <2>11. \E b \in Fresh :
           /\ e.compatible /\ plugin'.attempt = b /\ plugin'.status = "Starting"
           /\ inst'[b].life = "loading" /\ inst'[b].out = None /\ ~inst'[b].saving
           /\ inst'[b].raced = (op # None /\ op.kind = "set_secret")
           /\ \A c \in Attempts : c # b => inst'[c] = inst[c]
           /\ changed' = (changed \/ waiter # "none")
    BY <2>9, <2>10, Zenon
  <2>12. /\ plugin' \in Entries /\ changed' \in BOOLEAN /\ inst' \in [Attempts -> Instances]
         /\ plugin'.run = e.run /\ plugin'.compatible = e.compatible
         /\ plugin'.enabled = e.enabled /\ plugin'.table = e.table
    BY <2>3, <2>7, <2>8
  <2> QED
    BY <2>11, <2>12, Zenon
<1> QED
  BY <1>1, <1>2

LEMMA FreshFacts ==
  ASSUME IInv, NEW a \in Fresh
  PROVE  /\ a \in Attempts /\ inst[a].life = "free" /\ a # said /\ a # None
         /\ op # None => a # op.run
         /\ Listed => a # plugin.attempt /\ a # plugin.run
  BY NoneAssumption DEF Fresh

\* An instance is of the start last named, or no start is.
LEMMA WhoIsAlive ==
  ASSUME IInv, NEW a \in Attempts, Alive(a)
  PROVE  \/ Listed /\ plugin.run = a /\ plugin.attempt = a
         \/ op # None /\ op.run = a /\ Settles /\ (Listed => plugin.attempt = None /\ plugin.run = None)
<1>1. CASE IsRun(a)
  BY <1>1, NoneAssumption DEF IInv, EntryInv, IsRun
<1>2. CASE op # None /\ op.run = a
  BY <1>2, NoneAssumption DEF IInv, EntryInv, OpInv
<1> QED
  BY <1>1, <1>2 DEF IInv, InstInv

-----------------------------------------------------------------------------
(* Start tasks, instances and their supervisors.                           *)

\* A step of one instance that neither starts it nor lets go of it.
LEMMA InstanceStep ==
  ASSUME IInv, NEW a \in Attempts, NEW new \in Instances, inst' = [inst EXCEPT ![a] = new],
         UNCHANGED <<plugin, cfg, closed, op, waiter, changed>>,
         new.life \in {"running", "exited"} <=> Alive(a),
         new.life \in {"loading", "loaded"} <=> Starting(a),
         Alive(a) => new.has = inst[a].has,
         new.out # None => Alive(a),
         new.saving => new.out = "secrets",
         new.table \in {inst[a].table, None},
         stored' \in Secrets \cup {None},
         said' = said \/ (said' = a /\ Alive(a))
  PROVE  IInv'
<1>1. /\ inst' \in [Attempts -> Instances] /\ inst'[a] = new
      /\ \A b \in Attempts : b # a => inst'[b] = inst[b]
  BY DEF IInv, TypeOK
<1>2. \A b \in Attempts : (Alive(b)' <=> Alive(b)) /\ (Starting(b)' <=> Starting(b))
  BY <1>1 DEF Alive, Starting
<1>3. Listed' = Listed /\ Settles' = Settles /\ \A e : Sound(e)' = Sound(e)
  BY DEF Listed, Settles, Sound
<1>4. TypeOK'
  BY <1>1 DEF IInv, TypeOK
<1>5. Listed /\ plugin.attempt # None => plugin.attempt \in Attempts
      /\ (plugin.run # None => plugin.run \in Attempts)
  BY Types DEF IInv, Entries
<1>11. Listed /\ plugin.run # None => plugin.run \in Attempts
  BY Types DEF IInv, Entries
<1>6. EntryInv'
  BY <1>2, <1>3, <1>5, <1>11 DEF IInv, EntryInv
<1>7. OpInv'
  BY <1>3 DEF IInv, OpInv
<1>8. InstInv'
  BY <1>1, <1>2 DEF IInv, InstInv, IsRun, Listed, Alive
<1>9. WaiterNoticed' /\ ValuesHaveAnOwner'
  <2>1. WaiterNoticed'
    BY DEF IInv, WaiterNoticed, Listed
  <2>2. ValuesHaveAnOwner'
    BY <1>2 DEF IInv, TypeOK, ValuesHaveAnOwner, Alive
  <2> QED
    BY <2>1, <2>2
<1>10. SettingsReachInstance'
  BY <1>1, <1>11 DEF IInv, SettingsReachInstance, Listed
<1> QED
  BY <1>4, <1>6, <1>7, <1>8, <1>9, <1>10 DEF IInv

LEMMA InstanceInv ==
  ASSUME IInv, NEW a \in Attempts,
         \/ SecretsLoaded(a) \/ Outputs(a) \/ Exits(a) \/ HandleState(a) \/ HandleSecrets(a)
         \/ SecretsSaved(a)
  PROVE  IInv'
<1>1. /\ inst[a] \in Instances /\ inst \in [Attempts -> Instances]
      /\ stored \in Secrets \cup {None}
  BY DEF IInv, TypeOK
<1>2. UNCHANGED <<plugin, cfg, closed, op, waiter, changed>>
  BY DEF SecretsLoaded, Outputs, Exits, HandleState, HandleSecrets, SecretsSaved
<1>3. /\ inst[a].out # None => Alive(a)
      /\ inst[a].saving => inst[a].out = "secrets"
      /\ Alive(a) => inst[a].has # Broken
  BY DEF IInv, InstInv
<1>4. \A o \in Outs : o # None
  BY NothingAssumption
<1> USE DEF Alive, Starting
<1>5. CASE SecretsLoaded(a)
  <2>1. PICK got \in {stored, Broken} :
          inst' = [inst EXCEPT ![a] = [inst[a] EXCEPT !.life = "loaded", !.has = got]]
    BY <1>1, <1>5 DEF SecretsLoaded
  <2> DEFINE new == [inst[a] EXCEPT !.life = "loaded", !.has = got]
  <2>2. /\ new \in Instances /\ new.life = "loaded" /\ new.out = inst[a].out
        /\ new.saving = inst[a].saving /\ new.table = inst[a].table
    BY <1>1 DEF Instances, Lives
  <2> HIDE DEF new
  <2>3. inst[a].life = "loading" /\ said' = said /\ stored' = stored
    BY <1>5 DEF SecretsLoaded
  <2> QED
    BY <1>1, <1>2, <1>3, <2>1, <2>2, <2>3, InstanceStep DEF new
<1>6. CASE Outputs(a)
  <2>1. PICK o \in Outs : inst' = [inst EXCEPT ![a] = [inst[a] EXCEPT !.out = o]]
    BY <1>1, <1>6 DEF Outputs, Outs
  <2> DEFINE new == [inst[a] EXCEPT !.out = o]
  <2>2. /\ new \in Instances /\ new.life = inst[a].life /\ new.out = o /\ new.has = inst[a].has
        /\ new.saving = inst[a].saving /\ new.table = inst[a].table
    BY <1>1 DEF Instances
  <2> HIDE DEF new
  <2>3. inst[a].life = "running" /\ inst[a].out = None /\ said' = said /\ stored' = stored
    BY <1>6 DEF Outputs
  <2>4. ~inst[a].saving
    BY <1>3, <2>3, NothingAssumption DEF Outs
  <2> QED
    BY <1>1, <1>2, <2>1, <2>2, <2>3, <2>4, InstanceStep DEF new
<1>7. CASE Exits(a)
  <2>1. inst' = [inst EXCEPT ![a] = [inst[a] EXCEPT !.life = "exited", !.table = None]]
    BY <1>1, <1>7 DEF Exits
  <2> DEFINE new == [inst[a] EXCEPT !.life = "exited", !.table = None]
  <2>2. /\ new \in Instances /\ new.life = "exited" /\ new.out = inst[a].out
        /\ new.has = inst[a].has /\ new.saving = inst[a].saving /\ new.table = None
    BY <1>1 DEF Instances, Lives
  <2> HIDE DEF new
  <2>3. inst[a].life = "running" /\ said' = said /\ stored' = stored
    BY <1>7 DEF Exits
  <2> QED
    BY <1>1, <1>2, <1>3, <2>1, <2>2, <2>3, InstanceStep DEF new
<1>8. CASE HandleState(a) \/ (HandleSecrets(a) /\ inst' = [inst EXCEPT ![a].out = None])
  <2>1. inst' = [inst EXCEPT ![a] = [inst[a] EXCEPT !.out = None]]
    BY <1>1, <1>8 DEF HandleState
  <2> DEFINE new == [inst[a] EXCEPT !.out = None]
  <2>2. /\ new \in Instances /\ new.life = inst[a].life /\ new.out = None
        /\ new.has = inst[a].has /\ new.saving = inst[a].saving /\ new.table = inst[a].table
    BY <1>1 DEF Instances
  <2> HIDE DEF new
  <2>3. /\ inst[a].out \in Outs /\ ~inst[a].saving /\ stored' = stored
        /\ said' = said \/ said' = a
    BY <1>3, <1>8 DEF HandleState, HandleSecrets, Outs
  <2>4. Alive(a)
    BY <1>3, <1>4, <2>3
  <2> QED
    BY <1>1, <1>2, <2>1, <2>2, <2>3, <2>4, InstanceStep DEF new
<1>9. CASE HandleSecrets(a) /\ inst' = [inst EXCEPT ![a].saving = TRUE]
  <2>1. inst' = [inst EXCEPT ![a] = [inst[a] EXCEPT !.saving = TRUE]]
    BY <1>1, <1>9
  <2> DEFINE new == [inst[a] EXCEPT !.saving = TRUE]
  <2>2. /\ new \in Instances /\ new.life = inst[a].life /\ new.out = inst[a].out
        /\ new.has = inst[a].has /\ new.table = inst[a].table
    BY <1>1 DEF Instances
  <2> HIDE DEF new
  <2>3. inst[a].out = "secrets" /\ said' = said /\ stored' = stored
    BY <1>9 DEF HandleSecrets
  <2> QED
    BY <1>1, <1>2, <1>3, <2>1, <2>2, <2>3, InstanceStep DEF new
<1>10. CASE SecretsSaved(a)
  <2>1. inst' = [inst EXCEPT ![a] = [inst[a] EXCEPT !.saving = FALSE, !.out = None]]
    BY <1>1, <1>10 DEF SecretsSaved
  <2> DEFINE new == [inst[a] EXCEPT !.saving = FALSE, !.out = None]
  <2>2. /\ new \in Instances /\ new.life = inst[a].life /\ new.out = None /\ ~new.saving
        /\ new.has = inst[a].has /\ new.table = inst[a].table
    BY <1>1 DEF Instances
  <2> HIDE DEF new
  <2>3. inst[a].saving /\ said' = said /\ stored' \in {stored, inst[a].has}
    BY <1>10 DEF SecretsSaved
  <2>4. inst[a].has # Broken
    BY <1>3, <2>3, NothingAssumption DEF Outs
  <2>5. stored' \in Secrets \cup {None}
    BY <1>1, <2>3, <2>4 DEF Instances
  <2> QED
    BY <1>1, <1>2, <2>1, <2>2, <2>3, <2>5, InstanceStep DEF new
<1>11. HandleSecrets(a) =>
         inst' = [inst EXCEPT ![a].saving = TRUE] \/ inst' = [inst EXCEPT ![a].out = None]
  BY DEF HandleSecrets
<1> QED
  BY <1>5, <1>6, <1>7, <1>8, <1>9, <1>10, <1>11

\* An instance or a start that is over, and that nothing names as running.
LEMMA OverStep ==
  ASSUME IInv, NEW a \in Attempts, inst' = [inst EXCEPT ![a] = Idle],
         UNCHANGED <<plugin, cfg, closed, op, stored, waiter, changed>>,
         Alive(a) => ~IsRun(a), said' \in {said, None}, said' # a,
         Starting(a) /\ Listed /\ plugin.attempt = a =>
           closed \/ plugin.status # "Starting"
  PROVE  IInv'
<1>1. /\ inst' \in [Attempts -> Instances] /\ inst'[a] = Idle
      /\ \A b \in Attempts : b # a => inst'[b] = inst[b]
  BY IdleType DEF IInv, TypeOK
<1>2. Listed' = Listed /\ Settles' = Settles /\ \A e : Sound(e)' = Sound(e)
  BY DEF Listed, Settles, Sound
<1>3. TypeOK'
  BY <1>1 DEF IInv, TypeOK
<1>4. Listed => (plugin.attempt # None => plugin.attempt \in Attempts)
                /\ (plugin.run # None => plugin.run \in Attempts)
  BY Types DEF IInv, Entries
<1>5. Listed /\ plugin.run # None => plugin.run # a
  BY DEF IInv, EntryInv, IsRun
<1>6. EntryInv'
  BY <1>1, <1>2, <1>4, <1>5 DEF IInv, EntryInv, Alive, Starting
<1>7. OpInv'
  BY <1>2 DEF IInv, OpInv
<1>8. InstInv'
  BY <1>1, IdleType DEF IInv, InstInv, IsRun, Listed, Alive
<1>9. WaiterNoticed'
  BY DEF IInv, WaiterNoticed, Listed
<1>10. ValuesHaveAnOwner'
  BY <1>1 DEF IInv, TypeOK, ValuesHaveAnOwner, Alive
<1>11. SettingsReachInstance'
  BY <1>1, <1>4, <1>5 DEF IInv, SettingsReachInstance, Listed
<1> QED
  BY <1>3, <1>6, <1>7, <1>8, <1>9, <1>10, <1>11 DEF IInv

\* A start that comes to its end.
LEMMA StartInv ==
  ASSUME IInv, NEW a \in Attempts, StartInstance(a)
  PROVE  IInv'
<1>1. /\ inst[a].life = "loaded" /\ inst[a] \in Instances /\ inst \in [Attempts -> Instances]
      /\ UNCHANGED <<cfg, closed, op, stored, said, waiter>>
  BY DEF StartInstance, IInv, TypeOK
<1>2. said # a /\ inst[a].out = None /\ ~inst[a].saving /\ a # None
  BY <1>1, NothingAssumption, NoneAssumption
     DEF IInv, ValuesHaveAnOwner, InstInv, Alive, Outs
<1>3. CASE ~Starts(a) /\ inst' = [inst EXCEPT ![a] = Idle] /\ UNCHANGED <<plugin, changed>>
  <2>1. Listed /\ plugin.attempt = a => closed \/ plugin.status # "Starting"
    BY <1>3 DEF Starts, IInv, EntryInv
  <2> QED
    BY <1>1, <1>2, <1>3, <2>1, OverStep, NoneAssumption DEF Alive
<1>4. CASE Starts(a) /\ (\/ /\ plugin' = [plugin EXCEPT !.status = "Failed"]
                            /\ inst' = [inst EXCEPT ![a] = Idle]
                         \/ /\ plugin' = [plugin EXCEPT !.run = a, !.status = "Running"]
                            /\ inst[a].has # Broken
                            /\ inst' = [inst EXCEPT ![a].life = "running",
                                                    ![a].table = plugin.table]) /\ Bump
  <2>1. /\ Listed /\ ~closed /\ plugin.attempt = a /\ plugin.run = None
        /\ plugin \in Entries /\ plugin.attempt # None
    BY <1>2, <1>4, Types DEF Starts, IInv
  <2>2. /\ plugin' \in Entries /\ Listed' /\ plugin'.attempt = a
        /\ plugin'.compatible = plugin.compatible /\ plugin'.enabled = plugin.enabled
        /\ plugin'.table = plugin.table
        /\ \/ plugin'.run = None /\ plugin'.status = "Failed"
           \/ plugin'.run = a /\ plugin'.status = "Running"
    <3>1. /\ plugin' \in Entries /\ plugin'.attempt = a
          /\ plugin'.compatible = plugin.compatible /\ plugin'.enabled = plugin.enabled
          /\ plugin'.table = plugin.table
          /\ \/ plugin'.run = None /\ plugin'.status = "Failed"
             \/ plugin'.run = a /\ plugin'.status = "Running"
      BY <1>4, <2>1 DEF Entries, Statuses
    <3> QED
      BY <3>1, NothingAssumption DEF Listed
  <2>3. /\ inst' \in [Attempts -> Instances] /\ inst'[a].out = None /\ ~inst'[a].saving
        /\ \A b \in Attempts : b # a => inst'[b] = inst[b]
        /\ plugin'.run = a => /\ inst'[a].life = "running" /\ inst'[a].has # Broken
                              /\ inst'[a].table = plugin.table
        /\ plugin'.run = None => inst'[a].life = "free"
    <3>1. CASE inst' = [inst EXCEPT ![a] = Idle] /\ plugin'.run = None
      BY <1>1, <1>2, <3>1, IdleType
    <3>2. CASE /\ inst' = [inst EXCEPT ![a].life = "running", ![a].table = plugin.table]
               /\ inst[a].has # Broken /\ plugin'.run = a
      <4>1. plugin.table \in Tables
        BY <2>1 DEF Entries
      <4>2. /\ [inst[a] EXCEPT !.life = "running", !.table = plugin.table] \in Instances
            /\ inst' = [inst EXCEPT ![a] = [inst[a] EXCEPT !.life = "running",
                                                           !.table = plugin.table]]
        BY <1>1, <3>2, <4>1 DEF Instances, Lives
      <4> QED
        BY <1>1, <1>2, <3>2, <4>2 DEF Instances
    <3> QED
      BY <1>4, <2>1, <2>2, <3>1, <3>2 DEF Entries
  <2>4. ~Settles /\ plugin.compatible /\ plugin.enabled /\ Sound(plugin)
    BY <2>1 DEF IInv, EntryInv
  <2>5. \A b \in Attempts : Alive(b) => b # a /\ Alive(b)' /\ ~IsRun(b)
    BY <1>1, <2>1, <2>3, NoneAssumption DEF Alive, IsRun
  <2>6. TypeOK'
    BY <1>1, <1>4, <2>2, <2>3 DEF IInv, TypeOK, Bump, Told
  <2>7. EntryInv'
    <3>1. Sound(plugin)'
      BY <1>1, <2>2, <2>4 DEF Sound
    <3>2. Settles' = Settles /\ closed' = closed
      BY <1>1 DEF Settles
    <3>3. plugin'.run # None => Alive(a)' /\ plugin'.run = a
      BY <1>2, <2>2, <2>3 DEF Alive
    <3> QED
      BY <1>2, <2>1, <2>2, <2>4, <3>1, <3>2, <3>3 DEF EntryInv
  <2>8. OpInv'
    BY <1>1, <2>1 DEF IInv, OpInv, Settles, Sound
  <2>9. InstInv'
    <3>1. \A b \in Attempts : b # a /\ Alive(b)' => op' # None /\ op'.run = b /\ inst'[b].has # Broken
      BY <1>1, <2>3, <2>5 DEF IInv, InstInv, Alive
    <3>2. Alive(a)' => IsRun(a)' /\ inst'[a].has # Broken
      BY <1>2, <2>2, <2>3 DEF Alive, IsRun
    <3> QED
      BY <2>3, <3>1, <3>2 DEF IInv, InstInv, Alive
  <2>10. WaiterNoticed'
    BY <1>4, <1>1, <2>1 DEF IInv, TypeOK, WaiterNoticed, Bump, Told
  <2>11. ValuesHaveAnOwner'
    BY <1>1, <1>2, <2>3 DEF IInv, TypeOK, ValuesHaveAnOwner
  <2>12. SettingsReachInstance'
    BY <1>1, <1>2, <2>2, <2>3, <2>4 DEF SettingsReachInstance, Sound
  <2> QED
    BY <2>6, <2>7, <2>8, <2>9, <2>10, <2>11, <2>12 DEF IInv
<1> QED
  BY <1>3, <1>4 DEF StartInstance

\* A status that the plugin reports, and the end of the time in which a crash
\* counts, change nothing else of its entry.
LEMMA ReportInv ==
  ASSUME IInv, WindowOver \/ \E a \in Attempts : HandleStatus(a)
  PROVE  IInv'
<1>1. \A b \in Attempts : inst[b] \in Instances
  BY Types DEF IInv
<1>2. /\ UNCHANGED <<cfg, closed, op, stored, said, waiter>>
      /\ inst' \in [Attempts -> Instances]
      /\ \A b \in Attempts : /\ inst'[b].life = inst[b].life /\ inst'[b].has = inst[b].has
                             /\ inst'[b].table = inst[b].table
                             /\ inst'[b].saving = inst[b].saving
                             /\ inst'[b].out = inst[b].out \/
                                  (inst'[b].out = None /\ inst[b].out \in {"problem", "ok"})
  <2>1. CASE WindowOver
    BY <2>1 DEF WindowOver, IInv, TypeOK
  <2>2. ASSUME NEW a \in Attempts, HandleStatus(a)
        PROVE  /\ UNCHANGED <<cfg, closed, op, stored, said, waiter>>
               /\ inst' \in [Attempts -> Instances]
               /\ \A b \in Attempts :
                    /\ inst'[b].life = inst[b].life /\ inst'[b].has = inst[b].has
                    /\ inst'[b].table = inst[b].table
                    /\ inst'[b].saving = inst[b].saving
                    /\ inst'[b].out = inst[b].out \/
                         (inst'[b].out = None /\ inst[b].out \in {"problem", "ok"})
    <3>1. inst[a] \in Instances /\ inst \in [Attempts -> Instances]
      BY DEF IInv, TypeOK
    <3>2. /\ inst' = [inst EXCEPT ![a] = [inst[a] EXCEPT !.out = None]]
          /\ inst[a].out \in {"problem", "ok"}
          /\ UNCHANGED <<cfg, closed, op, stored, said, waiter>>
      BY <2>2, <3>1 DEF HandleStatus
    <3>3. [inst[a] EXCEPT !.out = None] \in Instances
      BY <3>1 DEF Instances
    <3> QED
      BY <3>1, <3>2, <3>3 DEF Instances
  <2> QED
    BY <2>1, <2>2
<1>3. /\ plugin' = plugin \/ (/\ Listed /\ plugin' \in Entries
                              /\ plugin'.compatible = plugin.compatible
                              /\ plugin'.enabled = plugin.enabled
                              /\ plugin'.table = plugin.table
                              /\ plugin'.attempt = plugin.attempt /\ plugin'.run = plugin.run
                              /\ \/ plugin'.status = plugin.status
                                 \/ /\ plugin.run # None
                                    /\ plugin'.status \in {"Running", "Problem"})
      /\ changed' \in BOOLEAN /\ (changed => changed')
  <2>1. Listed => plugin \in Entries
    BY Types DEF IInv
  <2>2. CASE WindowOver
    BY <2>1, <2>2 DEF WindowOver, Entries, IInv, TypeOK
  <2>3. ASSUME NEW a \in Attempts, HandleStatus(a), NEW st \in {"Running", "Problem"},
               IsRun(a), plugin' = [plugin EXCEPT !.status = st], Bump
        PROVE  /\ Listed /\ plugin' \in Entries
               /\ plugin'.compatible = plugin.compatible
               /\ plugin'.enabled = plugin.enabled /\ plugin'.table = plugin.table
               /\ plugin'.attempt = plugin.attempt /\ plugin'.run = plugin.run
               /\ plugin.run # None /\ plugin'.status \in {"Running", "Problem"}
               /\ changed' \in BOOLEAN /\ (changed => changed')
    BY <2>1, <2>3, NoneAssumption DEF IsRun, Entries, Statuses, Bump, Told
  <2>4. ASSUME NEW a \in Attempts, HandleStatus(a)
        PROVE  \/ UNCHANGED <<plugin, changed>>
               \/ /\ IsRun(a) /\ Bump
                  /\ \E st \in {"Running", "Problem"} : plugin' = [plugin EXCEPT !.status = st]
    BY <2>4 DEF HandleStatus
  <2>5. changed \in BOOLEAN
    BY DEF IInv, TypeOK
  <2> QED
    BY <2>2, <2>3, <2>4, <2>5
<1>4. Listed' = Listed /\ (Listed => plugin \in Entries)
  BY <1>3, Types, NothingAssumption DEF Listed, IInv
<1>5. \A b \in Attempts : (Alive(b)' <=> Alive(b)) /\ (Starting(b)' <=> Starting(b))
  BY <1>2 DEF Alive, Starting
<1>6. Settles' = Settles /\ \A e : Sound(e)' = Sound(e)
  BY <1>2 DEF Settles, Sound
<1>7. TypeOK'
  BY <1>2, <1>3 DEF IInv, TypeOK
<1>8. EntryInv'
  <2>1. CASE plugin' = plugin
    BY <1>2, <1>4, <1>5, <1>6, <2>1 DEF IInv, EntryInv, Entries
  <2>2. CASE plugin' # plugin
    <3>1. Sound(plugin) => Sound(plugin')
      BY <1>3, <2>2 DEF Sound, IInv, EntryInv
    <3>2. Listed' => Sound(plugin)'
      BY <1>2, <1>4, <3>1 DEF IInv, EntryInv, Sound
    <3> QED
      BY <1>2, <1>3, <1>4, <1>5, <1>6, <2>2, <3>2 DEF IInv, EntryInv, Entries
  <2> QED
    BY <2>1, <2>2
<1>9. OpInv'
  BY <1>2, <1>4, <1>6 DEF IInv, OpInv
<1>10. InstInv'
  BY <1>2, <1>3, <1>4, <1>5 DEF IInv, InstInv, IsRun
<1>11. WaiterNoticed'
  BY <1>2, <1>3, <1>4 DEF IInv, EntryInv, WaiterNoticed
<1>12. ValuesHaveAnOwner'
  BY <1>2 DEF IInv, TypeOK, ValuesHaveAnOwner
<1>13. SettingsReachInstance'
  BY <1>2, <1>3, <1>4 DEF IInv, SettingsReachInstance, Entries
<1> QED
  BY <1>7, <1>8, <1>9, <1>10, <1>11, <1>12, <1>13 DEF IInv

\* The end of the instance that is listed: it is over, or starts once more.
LEMMA EndedInv ==
  ASSUME IInv, NEW a \in Attempts, Ended(a)
  PROVE  IInv'
<1>1. /\ inst[a].life = "exited" /\ inst[a].out = None /\ Alive(a) /\ a # None
      /\ said' = None /\ UNCHANGED <<cfg, closed, op, stored, waiter>>
      /\ inst \in [Attempts -> Instances]
  BY NoneAssumption DEF Ended, Alive, IInv, TypeOK
<1>2. CASE (~IsRun(a) \/ closed) /\ inst' = [inst EXCEPT ![a] = Idle] /\ UNCHANGED <<plugin, changed>>
  <2>1. ~IsRun(a)
    BY <1>1, <1>2, WhoIsAlive DEF IsRun, IInv, EntryInv
  <2> QED
    BY <1>1, <1>2, <2>1, OverStep DEF Starting
<1>3. CASE IsRun(a) /\ ~closed /\ Bump /\
           (\/ /\ plugin' = [plugin EXCEPT !.run = None, !.status = "Failed"]
               /\ inst' = [inst EXCEPT ![a] = Idle]
            \/ \E b \in Fresh :
                 /\ plugin' = [plugin EXCEPT !.run = None, !.crashed = TRUE, !.draining = None,
                                             !.attempt = b, !.status = "Starting"]
                 /\ inst' = [inst EXCEPT ![a] = Idle,
                               ![b] = [Idle EXCEPT !.life = "loading",
                                         !.raced = op # None /\ op.kind = "set_secret"]])
  <2>1. /\ Listed /\ plugin.run = a /\ plugin.attempt = a /\ plugin \in Entries
        /\ plugin.compatible /\ plugin.enabled /\ ~Settles /\ Sound(plugin)
        /\ plugin.status \in {"Running", "Problem"}
    BY <1>1, <1>3, Types DEF IsRun, IInv, EntryInv
  <2>2. /\ plugin' \in Entries /\ plugin'.run = None
        /\ plugin'.compatible /\ plugin'.enabled /\ plugin'.table = plugin.table
        /\ plugin'.compatible = plugin.compatible /\ plugin'.enabled = plugin.enabled
        /\ inst' \in [Attempts -> Instances] /\ inst'[a] = Idle
        /\ \A c \in Attempts : c # a =>
             \/ inst'[c] = inst[c]
             \/ inst[c].life = "free" /\ inst'[c].life = "loading" /\ inst'[c].out = None
                  /\ ~inst'[c].saving
        /\ \/ plugin'.status = "Failed" /\ plugin'.attempt = a
           \/ /\ plugin'.status = "Starting" /\ plugin'.attempt \in Attempts
              /\ inst'[plugin'.attempt].life = "loading"
    <3>1. CASE /\ plugin' = [plugin EXCEPT !.run = None, !.status = "Failed"]
               /\ inst' = [inst EXCEPT ![a] = Idle]
      <4>1. /\ inst' \in [Attempts -> Instances] /\ inst'[a] = Idle
            /\ \A c \in Attempts : c # a => inst'[c] = inst[c]
        BY <1>1, <3>1, IdleType
      <4> QED
        BY <2>1, <3>1, <4>1 DEF Entries, Statuses
    <3>2. ASSUME NEW b \in Fresh,
                 plugin' = [plugin EXCEPT !.run = None, !.crashed = TRUE, !.draining = None,
                                          !.attempt = b, !.status = "Starting"],
                 inst' = [inst EXCEPT ![a] = Idle,
                            ![b] = [Idle EXCEPT !.life = "loading",
                                      !.raced = op # None /\ op.kind = "set_secret"]]
          PROVE  /\ plugin' \in Entries /\ plugin'.run = None
                 /\ plugin'.compatible = plugin.compatible /\ plugin'.enabled = plugin.enabled
                 /\ plugin'.table = plugin.table
                 /\ inst' \in [Attempts -> Instances] /\ inst'[a] = Idle
                 /\ \A c \in Attempts : c # a =>
                      \/ inst'[c] = inst[c]
                      \/ inst[c].life = "free" /\ inst'[c].life = "loading" /\ inst'[c].out = None
                           /\ ~inst'[c].saving
                 /\ plugin'.status = "Starting" /\ plugin'.attempt \in Attempts
                 /\ inst'[plugin'.attempt].life = "loading"
      <4>1. b \in Attempts /\ inst[b].life = "free"
        BY DEF Fresh
      <4>2. b # a
        BY <1>1, <4>1
      <4> DEFINE i == [Idle EXCEPT !.life = "loading",
                                   !.raced = op # None /\ op.kind = "set_secret"]
      <4>3. i \in Instances /\ i.life = "loading" /\ i.out = None /\ ~i.saving
        BY IdleType
      <4>4. inst' = [inst EXCEPT ![a] = Idle, ![b] = i]
        BY <3>2
      <4> HIDE DEF i
      <4>5. /\ inst' \in [Attempts -> Instances] /\ inst'[a] = Idle /\ inst'[b] = i
            /\ \A c \in Attempts : c # a /\ c # b => inst'[c] = inst[c]
        BY <1>1, <4>1, <4>2, <4>3, <4>4, IdleType
      <4>6. /\ plugin' \in Entries /\ plugin'.run = None
            /\ plugin'.compatible = plugin.compatible /\ plugin'.enabled = plugin.enabled
            /\ plugin'.table = plugin.table
            /\ plugin'.status = "Starting" /\ plugin'.attempt = b
        BY <2>1, <3>2, <4>1 DEF Entries, Statuses
      <4>7. \A c \in Attempts : c # a =>
              \/ inst'[c] = inst[c]
              \/ inst[c].life = "free" /\ inst'[c].life = "loading" /\ inst'[c].out = None
                   /\ ~inst'[c].saving
        BY <4>1, <4>3, <4>5
      <4> QED
        BY <4>1, <4>3, <4>5, <4>6, <4>7
    <3> QED
      BY <1>3, <2>1, <3>1, <3>2
  <2>3. Listed' /\ (Listed' => Sound(plugin)')
    <3>1. Listed'
      BY <2>2, NothingAssumption DEF Listed
    <3>2. Sound(plugin)'
      BY <1>1, <2>1, <2>2 DEF Sound
    <3> QED
      BY <3>1, <3>2
  <2>4. \A c \in Attempts : Alive(c)' => c # a /\ Alive(c) /\ inst'[c] = inst[c]
    BY <2>2, IdleType DEF Alive
  <2>5. TypeOK'
    BY <1>1, <1>3, <2>2 DEF IInv, TypeOK, Bump, Told
  <2>6. EntryInv'
    <3>1. Settles' = Settles /\ closed' = closed
      BY <1>1 DEF Settles
    <3>2. plugin'.attempt # None => plugin'.status \in {"Starting", "Failed"}
      BY <2>2
    <3>3. plugin'.status = "Starting" => plugin'.attempt # None /\ Starting(plugin.attempt)'
      BY <2>2, NoneAssumption DEF Starting
    <3>4. plugin'.status \notin {"Running", "Problem"}
      BY <2>2
    <3> QED
      BY <1>3, <2>1, <2>2, <2>3, <3>1, <3>2, <3>3, <3>4 DEF EntryInv
  <2>7. OpInv'
    BY <1>1, <2>1 DEF IInv, OpInv, Settles, Sound
  <2>8. InstInv'
    <3>1. ASSUME NEW c \in Attempts
          PROVE  /\ Alive(c)' => op' # None /\ op'.run = c /\ inst'[c].has # Broken
                 /\ inst'[c].out # None => Alive(c)'
                 /\ inst'[c].saving => inst'[c].out = "secrets"
      <4>1. CASE c = a
        BY <2>2, <4>1, IdleType DEF Alive
      <4>2. CASE c # a /\ inst'[c] = inst[c]
        BY <1>1, <2>1, <4>2 DEF Alive, IInv, InstInv, IsRun
      <4>3. CASE inst'[c].life = "loading" /\ inst'[c].out = None /\ ~inst'[c].saving
        BY <4>3 DEF Alive
      <4> QED
        BY <2>2, <4>1, <4>2, <4>3
    <3> QED
      BY <3>1 DEF InstInv
  <2>9. WaiterNoticed'
    BY <1>1, <1>3, <2>1 DEF IInv, TypeOK, WaiterNoticed, Bump, Told
  <2>10. ValuesHaveAnOwner'
    BY <1>1 DEF ValuesHaveAnOwner
  <2>11. SettingsReachInstance'
    BY <2>2 DEF SettingsReachInstance
  <2> QED
    BY <2>5, <2>6, <2>7, <2>8, <2>9, <2>10, <2>11 DEF IInv
<1>4. \/ (~IsRun(a) \/ closed) /\ inst' = [inst EXCEPT ![a] = Idle] /\ UNCHANGED <<plugin, changed>>
      \/ /\ IsRun(a) /\ ~closed /\ Bump
         /\ plugin' = [plugin EXCEPT !.run = None, !.status = "Failed"]
         /\ inst' = [inst EXCEPT ![a] = Idle]
      \/ /\ IsRun(a) /\ ~closed /\ Bump
         /\ \E b \in Fresh :
              /\ plugin' = [plugin EXCEPT !.run = None, !.crashed = TRUE, !.draining = None,
                                          !.attempt = b, !.status = "Starting"]
              /\ inst' = [inst EXCEPT ![a] = Idle,
                            ![b] = [Idle EXCEPT !.life = "loading",
                                      !.raced = op # None /\ op.kind = "set_secret"]]
  BY Zenon DEF Ended
<1> QED
  BY <1>2, <1>3, <1>4

-----------------------------------------------------------------------------
(* Starts.                                                                 *)

\* A plugin that is turned on, and has no instance, is launched.
LEMMA LaunchStep ==
  ASSUME IInv, NEW e \in Entries, Launch(e),
         e.compatible, e.enabled, e.run = None,
         cfg' \in [enabled : BOOLEAN, table : Tables], e.enabled = cfg'.enabled,
         e.table = cfg'.table,
         ~closed, UNCHANGED <<closed, stored, said>>,
         Listed => plugin.run = None,
         \/ op' = op /\ ~Settles
         \/ op' = None /\ (op # None => op.run = None),
         waiter' \in {"none", "looking", "waiting"}
  PROVE  IInv'
<1>1. PICK a \in Fresh :
         /\ plugin'.attempt = a /\ plugin'.status = "Starting"
         /\ inst'[a].life = "loading" /\ inst'[a].out = None /\ ~inst'[a].saving
         /\ \A b \in Attempts : b # a => inst'[b] = inst[b]
  BY LaunchFacts DEF IInv
<1>2. /\ plugin' \in Entries /\ changed' \in BOOLEAN /\ inst' \in [Attempts -> Instances]
      /\ plugin'.run = None /\ plugin'.compatible
      /\ plugin'.enabled = e.enabled /\ plugin'.table = e.table /\ Listed'
  BY LaunchFacts, NothingAssumption DEF IInv, Listed
<1>3. a \in Attempts /\ a # None /\ inst[a].life = "free" /\ a # said
  BY FreshFacts
<1>4. ~Settles'
  BY DEF Settles
<1>5. TypeOK'
  BY <1>2 DEF IInv, TypeOK
<1>6. EntryInv'
  <2>1. Sound(plugin)'
    BY <1>1, <1>2 DEF Sound
  <2>2. plugin'.attempt # None /\ Starting(plugin.attempt)'
    BY <1>1, <1>3 DEF Starting
  <2> QED
    BY <1>1, <1>2, <1>4, <2>1, <2>2 DEF EntryInv
<1>7. OpInv'
  <2>1. CASE op' = None
    BY <2>1 DEF OpInv
  <2>2. CASE op' = op /\ ~Settles
    BY <1>4, <2>2 DEF IInv, OpInv, Settles
  <2> QED
    BY <2>1, <2>2
<1>8. InstInv'
  <2>1. ASSUME NEW b \in Attempts, b # a, Alive(b) PROVE FALSE
    <3>1. op # None /\ op.run = b /\ Settles
      BY <2>1, WhoIsAlive, NoneAssumption
    <3> QED
      BY <3>1, NoneAssumption
  <2>2. ~Alive(a)'
    BY <1>1 DEF Alive
  <2>3. \A b \in Attempts : ~Alive(b)'
    BY <1>1, <2>1, <2>2 DEF Alive
  <2>4. \A b \in Attempts : /\ inst'[b].out = None
                            /\ inst'[b].saving => inst'[b].out = "secrets"
    BY <1>1, <2>1, <2>3 DEF IInv, InstInv, Alive
  <2> QED
    BY <2>3, <2>4 DEF InstInv
<1>9. WaiterNoticed'
  BY <1>1, <1>2 DEF WaiterNoticed
<1>10. ValuesHaveAnOwner'
  BY <1>1, <1>3 DEF IInv, TypeOK, ValuesHaveAnOwner
<1>11. SettingsReachInstance'
  BY <1>2 DEF SettingsReachInstance
<1> QED
  BY <1>5, <1>6, <1>7, <1>8, <1>9, <1>10, <1>11 DEF IInv

\* An action in `running` looks, sleeps, wakes and gives up.
LEMMA ActionInv ==
  ASSUME IInv, Action
  PROVE  IInv'
<1>1. CASE Looks /\ Listed /\ plugin.status = "Ready" /\ ~closed /\ Launch(plugin)
  <2>1. /\ UNCHANGED <<cfg, closed, op, stored, said>>
        /\ waiter' \in {"none", "looking", "waiting"}
    BY <1>1 DEF Looks
  <2>2. /\ plugin \in Entries /\ plugin.compatible /\ plugin.enabled /\ plugin.run = None
        /\ plugin.enabled = cfg.enabled /\ plugin.table = cfg.table /\ ~Settles
    BY <1>1, Types DEF IInv, EntryInv, Sound
  <2>3. cfg \in [enabled : BOOLEAN, table : Tables]
    BY DEF IInv, TypeOK
  <2> QED
    BY <1>1, <2>1, <2>2, <2>3, LaunchStep
<1>2. CASE /\ UNCHANGED <<plugin, cfg, closed, inst, op, stored, said>>
           /\ waiter' \in {"none", "looking", "waiting"} /\ changed' \in BOOLEAN
           /\ waiter' = "waiting" => Listed /\ plugin.status = "Starting"
  <2>1. TypeOK'
    BY <1>2 DEF IInv, TypeOK
  <2>2. EntryInv' /\ OpInv'
    BY <1>2 DEF IInv, EntryInv, OpInv, Listed, Settles, Sound, Alive, Starting
  <2>3. InstInv' /\ ValuesHaveAnOwner' /\ SettingsReachInstance'
    BY <1>2 DEF IInv, InstInv, IsRun, Listed, Alive, ValuesHaveAnOwner, SettingsReachInstance
  <2>4. WaiterNoticed'
    BY <1>2 DEF WaiterNoticed, Listed
  <2> QED
    BY <2>1, <2>2, <2>3, <2>4 DEF IInv
<1>3. changed \in BOOLEAN
  BY DEF IInv, TypeOK
<1>4. Asks \/ Notices \/ GivesUp =>
        /\ UNCHANGED <<plugin, cfg, closed, inst, op, stored, said>>
        /\ waiter' \in {"none", "looking"} /\ changed' \in BOOLEAN
  BY <1>3 DEF Asks, Notices, GivesUp
<1>5. Looks =>
        \/ Listed /\ plugin.status = "Ready" /\ ~closed /\ Launch(plugin)
        \/ /\ UNCHANGED <<plugin, cfg, closed, inst, op, stored, said>>
           /\ waiter' = "waiting" /\ changed' \in BOOLEAN
           /\ Listed /\ plugin.status = "Starting"
        \/ /\ UNCHANGED <<plugin, cfg, closed, inst, op, stored, said>>
           /\ waiter' = "none" /\ changed' \in BOOLEAN
  BY <1>3 DEF Looks
<1> QED
  BY <1>1, <1>2, <1>4, <1>5 DEF Action

-----------------------------------------------------------------------------
(* Operations begin.                                                       *)

\* The plugin's start and instance are taken by an operation that knows them.
LEMMA BeginStep ==
  ASSUME IInv, op = None, UNCHANGED <<inst, stored, said, waiter>>,
         cfg' \in [enabled : BOOLEAN, table : Tables], closed' \in BOOLEAN,
         changed' \in BOOLEAN, op' \in Ops,
         op'.pc = "stop" <=> op'.run # None,
         op'.run = IF Listed THEN plugin.run ELSE None,
         op'.run # None => op'.kind # "set_secret" \/ op'.relaunch,
         op'.kind = "restart" => op'.relaunch,
         \/ /\ plugin' = None
            /\ op'.kind = "remove" =>
                 /\ op'.entry \in Entries /\ Sound(op.entry)'
                 /\ op'.entry.attempt = None /\ op'.entry.run = None
         \/ /\ plugin' \in Entries /\ plugin'.attempt = None /\ plugin'.run = None
            /\ Sound(plugin)' /\ op'.kind # "remove"
            /\ plugin'.status \notin {"Running", "Problem"}
            /\ op'.kind # "set_secret" \/ op'.relaunch =>
                 plugin'.status \in {"Starting", "Off", "Incompatible"}
            /\ plugin'.status = "Starting" =>
                 /\ op'.kind # "set_secret" \/ op'.relaunch
                 /\ op'.kind \in {"set_secret", "restart", "install"},
         WaiterNoticed'
  PROVE  IInv'
<1>1. op' # None
  BY NothingAssumption
<1>2. TypeOK'
  BY DEF IInv, TypeOK
<1>3. EntryInv'
  BY <1>1 DEF EntryInv, Listed, Settles
<1>4. OpInv'
  BY <1>1, NothingAssumption DEF OpInv, Listed, Settles
<1>5. InstInv'
  BY <1>1 DEF IInv, InstInv, IsRun, Alive
<1>6. ValuesHaveAnOwner' /\ SettingsReachInstance'
  BY DEF IInv, ValuesHaveAnOwner, SettingsReachInstance, Listed
<1> QED
  BY <1>2, <1>3, <1>4, <1>5, <1>6 DEF IInv

\* What an operation that begins knows.
LEMMA BeginFacts ==
  ASSUME NEW kind, NEW a, NEW at, NEW relaunch, NEW value, NEW entry, Begin(kind, a, at, relaunch, value, entry),
         kind \in {"set_secret", "restart", "apply_settings", "remove", "install", "shutdown"},
         a \in Attempts \cup {None}, at \in {"save", "relaunch", "delete", "swap", "done"},
         relaunch \in BOOLEAN, value \in Secrets \cup {None}, entry \in Entries \cup {None}
  PROVE  /\ op' \in Ops /\ op'.kind = kind /\ op'.run = a /\ op'.relaunch = relaunch
         /\ op'.entry = entry /\ inst' = inst
         /\ op'.pc = "stop" <=> op'.run # None
  BY DEF Begin, Ops

\* Of a plugin that is on, and of one that is not.
LEMMA EntryFacts ==
  ASSUME IInv, Listed
  PROVE  /\ plugin \in Entries /\ Sound(plugin)
         /\ plugin.run \in Attempts \cup {None}
         /\ plugin.run # None => /\ plugin.compatible /\ plugin.enabled /\ ~closed /\ ~Settles
                                 /\ plugin.status \in {"Running", "Problem"}
         /\ plugin.status = "Starting" => plugin.compatible /\ plugin.enabled
         /\ plugin.status \notin {"Incompatible", "Off"} => plugin.compatible /\ plugin.enabled
         /\ plugin.status \in Statuses
<1>1. plugin \in Entries
  BY Types DEF IInv
<1>2. Sound(plugin) /\ plugin.status \in Statuses
  BY <1>1 DEF IInv, EntryInv, Entries
<1>3. plugin.run # None => /\ plugin.compatible /\ plugin.enabled /\ ~closed /\ ~Settles
                           /\ plugin.status \in {"Running", "Problem"}
  BY DEF IInv, EntryInv
<1> QED
  BY <1>1, <1>2, <1>3 DEF Sound, Entries

LEMMA ToldFacts ==
  ASSUME IInv, NEW news \in BOOLEAN, Told(news)
  PROVE  changed' \in BOOLEAN /\ (changed => changed') /\ (news /\ waiter # "none" => changed')
  BY DEF IInv, TypeOK, Told

LEMMA SetSecretInv ==
  ASSUME IInv, NEW v \in Secrets \cup {None}, SetSecret(v)
  PROVE  IInv'
<1> DEFINE relaunch == plugin.enabled /\ plugin.status \in {"Starting", "Running", "Problem"}
<1>1. /\ op = None /\ Listed /\ plugin.compatible
      /\ UNCHANGED <<cfg, closed, stored, said, waiter>>
      /\ plugin' = IF relaunch THEN [TakeRun(plugin) EXCEPT !.status = "Starting"]
                   ELSE TakeRun(plugin)
      /\ Begin("set_secret", plugin.run, "save", relaunch, v, None) /\ Told(relaunch)
  BY DEF SetSecret
<1>2. relaunch \in BOOLEAN
  BY <1>1, EntryFacts DEF Entries
<1>3. /\ op' \in Ops /\ op'.kind = "set_secret" /\ op'.run = plugin.run
      /\ op'.relaunch = relaunch /\ inst' = inst /\ (op'.pc = "stop" <=> op'.run # None)
  <2>1. Begin("set_secret", plugin.run, "save", relaunch, v, None) /\ relaunch \in BOOLEAN
        /\ plugin.run \in Attempts \cup {None}
    BY <1>1, <1>2, EntryFacts
  <2> HIDE DEF relaunch
  <2> QED
    BY <2>1 DEF Begin, Ops
<1>4. plugin.status \in {"Starting", "Running", "Problem"} => relaunch
  BY <1>1, EntryFacts
<1>5. /\ plugin' \in Entries /\ plugin'.attempt = None /\ plugin'.run = None
      /\ plugin'.compatible = plugin.compatible /\ plugin'.enabled = plugin.enabled
      /\ plugin'.table = plugin.table
      /\ relaunch => plugin'.status = "Starting"
      /\ ~relaunch => plugin'.status = plugin.status
  <2>1. plugin \in Entries /\ "Starting" \in Statuses
    BY <1>1, EntryFacts DEF Statuses
  <2>2. ASSUME plugin' = [TakeRun(plugin) EXCEPT !.status = "Starting"]
        PROVE  /\ plugin' \in Entries /\ plugin'.attempt = None /\ plugin'.run = None
               /\ plugin'.compatible = plugin.compatible /\ plugin'.enabled = plugin.enabled
               /\ plugin'.table = plugin.table /\ plugin'.status = "Starting"
    BY <2>1, <2>2, TakeRunFacts
  <2>3. ASSUME plugin' = TakeRun(plugin)
        PROVE  /\ plugin' \in Entries /\ plugin'.attempt = None /\ plugin'.run = None
               /\ plugin'.compatible = plugin.compatible /\ plugin'.enabled = plugin.enabled
               /\ plugin'.table = plugin.table /\ plugin'.status = plugin.status
    BY <2>1, <2>3, TakeRunFacts
  <2> HIDE DEF relaunch
  <2> QED
    BY <1>1, <2>2, <2>3
<1>6. plugin.run # None => relaunch
  BY <1>1, EntryFacts
<1>7. Sound(plugin)'
  <2>1. Sound(plugin) /\ (relaunch => plugin.enabled) /\ cfg' = cfg
    BY <1>1, EntryFacts
  <2> HIDE DEF relaunch
  <2>2. relaunch => Sound(plugin)'
    BY <1>1, <1>5, <2>1 DEF Sound
  <2>3. ~relaunch => Sound(plugin)'
    BY <1>1, <1>5, <2>1 DEF Sound
  <2> QED
    BY <2>2, <2>3
<1>8. changed' \in BOOLEAN /\ (changed => changed') /\ (relaunch /\ waiter # "none" => changed')
  BY <1>1, <1>2, ToldFacts
<1> HIDE DEF relaunch
<1>9. WaiterNoticed'
  <2>1. waiter = "waiting" /\ ~changed => plugin.status = "Starting"
    BY <1>1 DEF IInv, WaiterNoticed
  <2>2. waiter' = waiter /\ (waiter = "waiting" => changed')
    BY <1>1, <1>4, <1>8, <2>1
  <2> QED
    BY <2>2 DEF WaiterNoticed
<1>10. plugin'.status \notin {"Running", "Problem"} /\ (plugin'.status = "Starting" => relaunch)
  BY <1>4, <1>5
<1>11. cfg' \in [enabled : BOOLEAN, table : Tables] /\ closed' \in BOOLEAN
  BY <1>1 DEF IInv, TypeOK
<1>12. relaunch => plugin'.status \in {"Starting", "Off", "Incompatible"}
  BY <1>5
<1> QED
  BY <1>1, <1>3, <1>5, <1>6, <1>7, <1>8, <1>9, <1>10, <1>11, <1>12, BeginStep

LEMMA RestartInv ==
  ASSUME IInv, Restart
  PROVE  IInv'
<1>1. /\ op = None /\ Listed /\ plugin.status \notin {"Incompatible", "Off"}
      /\ UNCHANGED <<cfg, closed, stored, said, waiter>>
      /\ Begin("restart", plugin.run, "relaunch", TRUE, None, None)
  BY DEF Restart
<1>2. plugin.compatible /\ plugin.enabled /\ plugin \in Entries /\ Sound(plugin)
      /\ plugin.run \in Attempts \cup {None}
  BY <1>1, EntryFacts
<1>3. plugin' = [TakeRun(plugin) EXCEPT !.status = "Starting"] /\ Told(TRUE)
  BY <1>2 DEF Restart
<1>4. /\ op' \in Ops /\ op'.kind = "restart" /\ op'.run = plugin.run /\ op'.relaunch
      /\ inst' = inst /\ (op'.pc = "stop" <=> op'.run # None)
  BY <1>1, <1>2, BeginFacts
<1>5. /\ plugin' \in Entries /\ plugin'.attempt = None /\ plugin'.run = None
      /\ plugin'.status = "Starting"
      /\ plugin'.compatible = plugin.compatible /\ plugin'.enabled = plugin.enabled
      /\ plugin'.table = plugin.table
  BY <1>2, <1>3, TakeRunFacts DEF Statuses
<1>6. Sound(plugin)'
  BY <1>1, <1>2, <1>5 DEF Sound
<1>7. changed' \in BOOLEAN /\ (waiter # "none" => changed')
  BY <1>3, ToldFacts
<1>8. WaiterNoticed'
  BY <1>1, <1>7 DEF WaiterNoticed
<1>9. cfg' \in [enabled : BOOLEAN, table : Tables] /\ closed' \in BOOLEAN
  BY <1>1 DEF IInv, TypeOK
<1> QED
  BY <1>1, <1>4, <1>5, <1>6, <1>7, <1>8, <1>9, BeginStep

LEMMA RemoveInv ==
  ASSUME IInv, Remove
  PROVE  IInv'
<1>1. /\ op = None /\ Listed /\ plugin' = None
      /\ UNCHANGED <<cfg, closed, stored, said, waiter>>
      /\ Begin("remove", plugin.run, "delete", FALSE, None, TakeRun(plugin)) /\ Told(TRUE)
  BY DEF Remove, Bump
<1>2. plugin \in Entries /\ Sound(plugin) /\ plugin.run \in Attempts \cup {None}
  BY <1>1, EntryFacts
<1> DEFINE e == TakeRun(plugin)
<1>3. /\ e \in Entries /\ e.attempt = None /\ e.run = None
      /\ e.status = plugin.status /\ e.compatible = plugin.compatible
      /\ e.enabled = plugin.enabled /\ e.table = plugin.table
  BY <1>2, TakeRunFacts
<1>4. Begin("remove", plugin.run, "delete", FALSE, None, e)
  BY <1>1
<1> HIDE DEF e
<1>5. /\ op' \in Ops /\ op'.kind = "remove" /\ op'.run = plugin.run /\ op'.entry = e
      /\ inst' = inst /\ (op'.pc = "stop" <=> op'.run # None)
  BY <1>2, <1>3, <1>4 DEF Begin, Ops
<1>6. Sound(op.entry)'
  BY <1>1, <1>2, <1>3, <1>5 DEF Sound
<1>7. changed' \in BOOLEAN /\ (waiter # "none" => changed')
  BY <1>1, ToldFacts
<1>8. WaiterNoticed'
  BY <1>1, <1>7 DEF WaiterNoticed
<1>9. cfg' \in [enabled : BOOLEAN, table : Tables] /\ closed' \in BOOLEAN
  BY <1>1 DEF IInv, TypeOK
<1> QED
  BY <1>1, <1>3, <1>5, <1>6, <1>7, <1>8, <1>9, BeginStep

LEMMA InstallInv ==
  ASSUME IInv, Install
  PROVE  IInv'
<1> DEFINE starting == Listed /\ plugin.compatible /\ plugin.enabled
           a == IF Listed THEN plugin.run ELSE None
<1>1. /\ op = None /\ UNCHANGED <<cfg, closed, stored, said, waiter>>
      /\ plugin' = IF starting THEN [TakeRun(plugin) EXCEPT !.status = "Starting"]
                   ELSE IF Listed THEN TakeRun(plugin) ELSE None
      /\ Begin("install", a, "swap", FALSE, None, None) /\ Told(starting)
  BY DEF Install
<1>2. a \in Attempts \cup {None} /\ starting \in BOOLEAN
  BY EntryFacts DEF Entries
<1>3. /\ op' \in Ops /\ op'.kind = "install" /\ op'.run = a
      /\ inst' = inst /\ (op'.pc = "stop" <=> op'.run # None)
  <2> HIDE DEF a
  <2> QED
    BY <1>1, <1>2, BeginFacts
<1>4. changed' \in BOOLEAN /\ (changed => changed') /\ (starting /\ waiter # "none" => changed')
  BY <1>1, <1>2, ToldFacts
<1>5. Listed =>
        /\ plugin' \in Entries /\ plugin'.attempt = None /\ plugin'.run = None
        /\ plugin'.status \in {"Starting", "Off", "Incompatible"}
        /\ Sound(plugin)'
  <2> SUFFICES ASSUME Listed
               PROVE  /\ plugin' \in Entries /\ plugin'.attempt = None /\ plugin'.run = None
                      /\ plugin'.status \in {"Starting", "Off", "Incompatible"}
                      /\ Sound(plugin)'
    OBVIOUS
  <2>1. plugin \in Entries /\ Sound(plugin)
    BY EntryFacts
  <2>2. /\ plugin' \in Entries /\ plugin'.attempt = None /\ plugin'.run = None
        /\ plugin'.status = IF starting THEN "Starting" ELSE plugin.status
        /\ plugin'.compatible = plugin.compatible /\ plugin'.enabled = plugin.enabled
        /\ plugin'.table = plugin.table
    <3>1. CASE starting
      <4>1. plugin' = [TakeRun(plugin) EXCEPT !.status = "Starting"] /\ "Starting" \in Statuses
        BY <1>1, <3>1 DEF Statuses
      <4> QED
        BY <2>1, <3>1, <4>1, TakeRunFacts, ZenonT(30)
    <3>2. CASE ~starting
      <4>1. plugin' = TakeRun(plugin)
        BY <1>1, <3>2
      <4> QED
        BY <2>1, <3>2, <4>1, TakeRunFacts, SMT
    <3> QED
      BY <3>1, <3>2
  <2>3. ~starting => plugin.status \in {"Off", "Incompatible"}
    BY <2>1 DEF Sound, Entries
  <2>4. Sound(plugin)'
    BY <1>1, <2>1, <2>2 DEF Sound
  <2> QED
    BY <2>2, <2>3, <2>4
<1>6. ~Listed => plugin' = None
  BY <1>1
<1>7. WaiterNoticed'
  <2>1. waiter = "waiting" /\ ~changed => Listed /\ plugin.status = "Starting"
    BY <1>1 DEF IInv, WaiterNoticed
  <2>2. waiter = "waiting" => changed'
    BY <1>4, <2>1, EntryFacts
  <2> QED
    BY <1>1, <2>2 DEF WaiterNoticed
<1>8. cfg' \in [enabled : BOOLEAN, table : Tables] /\ closed' \in BOOLEAN
  BY <1>1 DEF IInv, TypeOK
<1> HIDE DEF starting
<1> QED
  BY <1>1, <1>3, <1>4, <1>5, <1>6, <1>7, <1>8, BeginStep

LEMMA ShutdownInv ==
  ASSUME IInv, Shutdown
  PROVE  IInv'
<1> DEFINE loaded == Listed /\ plugin.compatible
           a == IF loaded THEN plugin.run ELSE None
<1>1. /\ op = None /\ closed' = TRUE /\ UNCHANGED <<cfg, stored, said, waiter, changed>>
      /\ plugin' = IF loaded THEN [TakeRun(plugin) EXCEPT !.status = "Off"] ELSE plugin
      /\ Begin("shutdown", a, "done", FALSE, None, None)
  BY DEF Shutdown
<1>2. a \in Attempts \cup {None} /\ a = IF Listed THEN plugin.run ELSE None
  BY EntryFacts
<1>3. /\ op' \in Ops /\ op'.kind = "shutdown" /\ op'.run = a
      /\ inst' = inst /\ (op'.pc = "stop" <=> op'.run # None)
  <2> HIDE DEF a
  <2> QED
    BY <1>1, <1>2, BeginFacts
<1>4. Listed =>
        /\ plugin' \in Entries /\ plugin'.attempt = None /\ plugin'.run = None
        /\ plugin'.status \in {"Off", "Incompatible"}
        /\ Sound(plugin)'
  <2> SUFFICES ASSUME Listed
               PROVE  /\ plugin' \in Entries /\ plugin'.attempt = None /\ plugin'.run = None
                      /\ plugin'.status \in {"Off", "Incompatible"}
                      /\ Sound(plugin)'
    OBVIOUS
  <2>1. plugin \in Entries /\ Sound(plugin)
    BY EntryFacts
  <2>2. CASE loaded
    <3>1. /\ plugin' \in Entries /\ plugin'.attempt = None /\ plugin'.run = None
          /\ plugin'.status = "Off"
          /\ plugin'.compatible = plugin.compatible /\ plugin'.enabled = plugin.enabled
          /\ plugin'.table = plugin.table
      BY <1>1, <2>1, <2>2, TakeRunFacts DEF Statuses
    <3> QED
      BY <1>1, <2>1, <2>2, <3>1 DEF Sound
  <2>3. CASE ~loaded
    <3>1. plugin' = plugin /\ ~plugin.compatible /\ cfg' = cfg
      BY <1>1, <2>3
    <3>2. plugin.status = "Incompatible" /\ plugin.attempt = None /\ plugin.run = None
      BY <2>1, <3>1 DEF IInv, EntryInv, Sound, Entries
    <3> QED
      BY <2>1, <3>1, <3>2 DEF Sound
  <2> QED
    BY <2>2, <2>3
<1>5. ~Listed => plugin' = None
  BY <1>1 DEF Listed
<1>6. WaiterNoticed'
  BY <1>3, NothingAssumption DEF WaiterNoticed
<1>7. cfg' \in [enabled : BOOLEAN, table : Tables] /\ changed' \in BOOLEAN
  BY <1>1 DEF IInv, TypeOK
<1> QED
  BY <1>1, <1>2, <1>3, <1>4, <1>5, <1>6, <1>7, BeginStep

-----------------------------------------------------------------------------
(* Operations end, and settings are applied.                               *)

\* Nothing is left to wait for once no instance is the plugin's.
LEMMA NobodyAlive ==
  ASSUME IInv, Listed => plugin.run = None, op # None => op.run = None, NEW a \in Attempts
  PROVE  ~Alive(a)
BY WhoIsAlive, NoneAssumption

\* The plugin is left at rest.
LEMMA RestStep ==
  ASSUME IInv, UNCHANGED <<inst, closed, stored, said, waiter>>, op' = None,
         op # None => op.run = None, Listed => plugin.run = None,
         cfg' \in [enabled : BOOLEAN, table : Tables], changed' \in BOOLEAN,
         plugin' \in Entries, plugin'.attempt = None, plugin'.run = None, Sound(plugin)',
         plugin'.status \notin {"Starting", "Running", "Problem"},
         waiter = "waiting" => changed'
  PROVE  IInv'
<1>1. TypeOK'
  BY DEF IInv, TypeOK
<1>2. EntryInv'
  BY DEF EntryInv, Settles
<1>3. OpInv'
  BY DEF OpInv
<1>4. InstInv'
  BY NobodyAlive DEF IInv, InstInv, Alive
<1>5. WaiterNoticed'
  BY DEF WaiterNoticed
<1>6. ValuesHaveAnOwner' /\ SettingsReachInstance'
  BY DEF IInv, ValuesHaveAnOwner, SettingsReachInstance
<1> QED
  BY <1>1, <1>2, <1>3, <1>4, <1>5, <1>6 DEF IInv

\* The operation lets go of the plugin as it is, and nothing waits for what
\* it would have started.
LEMMA KeepStep ==
  ASSUME IInv, UNCHANGED <<plugin, inst, closed, said, waiter>>, op' = None,
         op # None => op.run = None,
         Settles /\ Listed => closed \/ plugin.status # "Starting",
         cfg' \in [enabled : BOOLEAN, table : Tables], Listed => cfg' = cfg,
         stored' \in Secrets \cup {None}, changed' \in BOOLEAN, WaiterNoticed'
  PROVE  IInv'
<1>1. TypeOK'
  BY DEF IInv, TypeOK
<1>2. EntryInv'
  BY DEF IInv, EntryInv, Settles, Listed, Sound, Alive, Starting
<1>3. OpInv'
  BY DEF OpInv
<1>4. InstInv'
  <2>1. \A a \in Attempts : Alive(a) => IsRun(a)
    BY NoneAssumption DEF IInv, InstInv
  <2> QED
    BY <2>1 DEF IInv, InstInv, IsRun, Listed, Alive
<1>5. ValuesHaveAnOwner' /\ SettingsReachInstance'
  BY DEF IInv, ValuesHaveAnOwner, SettingsReachInstance, Listed
<1> QED
  BY <1>1, <1>2, <1>3, <1>4, <1>5 DEF IInv

\* Settings that neither start nor stop the plugin.
LEMMA NewTableStep ==
  ASSUME IInv, NEW c \in [enabled : BOOLEAN, table : Tables], cfg' = c,
         UNCHANGED <<closed, op, stored, said, waiter, changed>>, op = None, Listed,
         ~plugin.compatible \/ plugin.enabled = c.enabled,
         plugin' = [plugin EXCEPT !.enabled = c.enabled, !.table = c.table],
         \/ inst' = inst /\ (plugin.table = c.table \/ plugin.run = None)
         \/ plugin.run # None /\ PostInit(c.table)
  PROVE  IInv'
<1>1. /\ plugin \in Entries /\ Sound(plugin) /\ plugin.run \in Attempts \cup {None}
      /\ c.enabled \in BOOLEAN /\ c.table \in Tables
  BY EntryFacts
<1>2. /\ plugin' \in Entries /\ plugin'.enabled = c.enabled /\ plugin'.table = c.table
      /\ plugin'.status = plugin.status /\ plugin'.compatible = plugin.compatible
      /\ plugin'.attempt = plugin.attempt /\ plugin'.run = plugin.run
  BY <1>1 DEF Entries
<1>3. Listed' /\ ~Settles /\ ~Settles'
  BY <1>2, NothingAssumption DEF Listed, Settles
<1>4. /\ inst' \in [Attempts -> Instances]
      /\ \A b \in Attempts :
           /\ inst'[b].life = inst[b].life /\ inst'[b].has = inst[b].has
           /\ inst'[b].out = inst[b].out /\ inst'[b].saving = inst[b].saving
      /\ plugin.run # None =>
           inst'[plugin.run].table \in {c.table, None}
  <2>1. inst \in [Attempts -> Instances]
    BY DEF IInv, TypeOK
  <2>2. CASE inst' = inst /\ (plugin.table = c.table \/ plugin.run = None)
    BY <1>1, <2>1, <2>2 DEF IInv, SettingsReachInstance, Sound
  <2>3. CASE plugin.run # None /\ PostInit(c.table)
    <3>1. PICK got \in {c.table, None} : inst' = [inst EXCEPT ![plugin.run].table = got]
      BY <2>3 DEF PostInit
    <3> DEFINE a == plugin.run
               new == [inst[a] EXCEPT !.table = got]
    <3>2. a \in Attempts /\ inst[a] \in Instances
      BY <1>1, <2>1, <2>3
    <3>3. /\ new \in Instances /\ new.life = inst[a].life /\ new.has = inst[a].has
          /\ new.out = inst[a].out /\ new.saving = inst[a].saving /\ new.table = got
      BY <1>1, <3>2 DEF Instances
    <3>4. inst' = [inst EXCEPT ![a] = new]
      BY <2>1, <3>1, <3>2
    <3> HIDE DEF new, a
    <3>5. /\ inst' \in [Attempts -> Instances] /\ inst'[a] = new
          /\ \A b \in Attempts : b # a => inst'[b] = inst[b]
      BY <2>1, <3>2, <3>3, <3>4
    <3> QED
      BY <3>3, <3>5 DEF a
  <2> QED
    BY <2>2, <2>3
<1>5. \A b \in Attempts : (Alive(b)' <=> Alive(b)) /\ (Starting(b)' <=> Starting(b))
  BY <1>4 DEF Alive, Starting
<1>6. TypeOK'
  BY <1>2, <1>4 DEF IInv, TypeOK
<1>7. Sound(plugin)'
  BY <1>1, <1>2 DEF Sound
<1>8. EntryInv'
  <2>1. plugin.attempt # None => plugin.attempt \in Attempts
    BY <1>1 DEF Entries
  <2> QED
    BY <1>1, <1>2, <1>3, <1>5, <1>7, <2>1 DEF IInv, EntryInv
<1>9. OpInv'
  BY DEF OpInv
<1>10. InstInv'
  BY <1>2, <1>3, <1>4, <1>5 DEF IInv, InstInv, IsRun
<1>11. WaiterNoticed'
  BY <1>2, <1>3 DEF IInv, WaiterNoticed
<1>12. ValuesHaveAnOwner' /\ SettingsReachInstance'
  BY <1>2, <1>4 DEF IInv, TypeOK, ValuesHaveAnOwner, SettingsReachInstance
<1> QED
  BY <1>6, <1>8, <1>9, <1>10, <1>11, <1>12 DEF IInv

LEMMA ApplySettingsInv ==
  ASSUME IInv, NEW c \in [enabled : BOOLEAN, table : Tables], ApplySettings(c)
  PROVE  IInv'
<1> DEFINE e == [plugin EXCEPT !.enabled = c.enabled, !.table = c.table]
           ready == [e EXCEPT !.status = "Ready", !.crashed = FALSE]
<1>1. /\ op = None /\ cfg' = c /\ UNCHANGED <<closed, stored, said, waiter>>
      /\ c.enabled \in BOOLEAN /\ c.table \in Tables /\ ~Settles
  BY DEF ApplySettings, Settles
<1>2. Listed =>
        /\ plugin \in Entries /\ e \in Entries /\ Sound(plugin)
        /\ e.status = plugin.status /\ e.compatible = plugin.compatible
        /\ e.enabled = c.enabled /\ e.table = c.table
        /\ e.attempt = plugin.attempt /\ e.run = plugin.run
        /\ plugin.run \in Attempts \cup {None}
  BY <1>1, EntryFacts DEF Entries
<1>3. Listed =>
        /\ ready \in Entries /\ ready.status = "Ready" /\ ready.compatible = plugin.compatible
        /\ ready.enabled = c.enabled /\ ready.table = c.table
        /\ ready.attempt = plugin.attempt /\ ready.run = plugin.run
  BY <1>1, <1>2 DEF Entries, Statuses
<1>4. changed \in BOOLEAN
  BY DEF IInv, TypeOK
<1>5. CASE ~Listed /\ UNCHANGED <<plugin, inst, op, changed>>
  <2>1. WaiterNoticed'
    BY <1>1, <1>5 DEF IInv, WaiterNoticed, Listed
  <2> QED
    BY <1>1, <1>4, <1>5, <2>1, KeepStep DEF IInv, TypeOK
<1>6. CASE Listed /\ ~plugin.compatible /\ plugin' = e /\ UNCHANGED <<inst, op, changed>>
  <2>1. plugin.run = None
    BY <1>6, EntryFacts
  <2> QED
    BY <1>1, <1>6, <2>1, NewTableStep
<1>7. CASE /\ Listed /\ plugin.compatible /\ plugin.enabled = c.enabled /\ plugin' = e
           /\ IF plugin.table # c.table /\ plugin.run # None THEN PostInit(c.table)
              ELSE UNCHANGED inst
           /\ UNCHANGED <<op, changed>>
  BY <1>1, <1>7, NewTableStep
<1>8. CASE /\ Listed /\ plugin.compatible /\ plugin.enabled /\ ~c.enabled
           /\ plugin' = [TakeRun(e) EXCEPT !.status = "Off"]
           /\ Begin("apply_settings", plugin.run, "done", FALSE, None, None) /\ Bump
  <2>1. e \in Entries /\ "Off" \in Statuses
    BY <1>2, <1>8 DEF Statuses
  <2>2. /\ plugin' \in Entries /\ plugin'.attempt = None /\ plugin'.run = None
        /\ plugin'.status = "Off" /\ plugin'.compatible = e.compatible
        /\ plugin'.enabled = e.enabled /\ plugin'.table = e.table
    <3> HIDE DEF e
    <3> QED
      BY <1>8, <2>1, TakeRunFacts
  <2>3. Sound(plugin)'
    BY <1>1, <1>2, <1>8, <2>2 DEF Sound
  <2>4. /\ op' \in Ops /\ op'.kind = "apply_settings" /\ op'.run = plugin.run
        /\ inst' = inst /\ (op'.pc = "stop" <=> op'.run # None)
    BY <1>2, <1>8, BeginFacts, ZenonT(40)
  <2>5. changed' \in BOOLEAN /\ (waiter # "none" => changed')
    BY <1>8, ToldFacts DEF Bump
  <2>6. WaiterNoticed'
    BY <1>1, <2>5 DEF WaiterNoticed
  <2>7. closed' \in BOOLEAN
    BY <1>1 DEF IInv, TypeOK
  <2> QED
    BY <1>1, <1>8, <2>2, <2>3, <2>4, <2>5, <2>6, <2>7, BeginStep
<1>9. CASE /\ Listed /\ plugin.compatible /\ ~plugin.enabled /\ c.enabled
           /\ IF plugin.wanted /\ ~closed THEN Launch(ready)
              ELSE plugin' = ready /\ UNCHANGED inst /\ Bump
           /\ UNCHANGED op
  <2>1. plugin.run = None /\ plugin.attempt = None
    BY <1>9, EntryFacts DEF IInv, EntryInv
  <2> HIDE DEF ready
  <2>2. CASE Launch(ready) /\ ~closed
    <3>1. waiter' \in {"none", "looking", "waiting"}
      BY <1>1 DEF IInv, TypeOK
    <3> QED
      BY <1>1, <1>3, <1>9, <2>1, <2>2, <3>1, LaunchStep
  <2>3. CASE plugin' = ready /\ UNCHANGED inst /\ Bump
    <3>1. changed' \in BOOLEAN /\ (waiter # "none" => changed')
      BY <2>3, ToldFacts DEF Bump
    <3>2. Sound(plugin)'
      BY <1>1, <1>3, <1>9, <2>3 DEF Sound
    <3> QED
      BY <1>1, <1>3, <1>9, <2>1, <2>3, <3>1, <3>2, RestStep
  <2> QED
    BY <1>9, <2>2, <2>3
<1> QED
  BY <1>5, <1>6, <1>7, <1>8, <1>9 DEF ApplySettings

-----------------------------------------------------------------------------
(* Operations go on.                                                       *)

\* The instance is over, the secret is saved, or the folder is deleted: the
\* operation comes to its next step.
LEMMA OpStep ==
  ASSUME IInv, op # None, UNCHANGED <<plugin, cfg, closed, inst, said, waiter, changed>>,
         stored' \in Secrets \cup {None}, op' \in Ops,
         op'.kind = op.kind, op'.relaunch = op.relaunch, op'.entry = op.entry,
         op'.run = None, op'.pc # "stop",
         op.run # None => inst[op.run].life = "free"
  PROVE  IInv'
<1>1. op' # None /\ Settles' = Settles /\ Listed' = Listed /\ \A e : Sound(e)' = Sound(e)
  BY NothingAssumption DEF Settles, Listed, Sound
<1>2. \A a \in Attempts : Alive(a) => IsRun(a)
  BY NoneAssumption DEF IInv, InstInv, Alive
<1>3. TypeOK'
  BY DEF IInv, TypeOK
<1>4. EntryInv'
  BY <1>1 DEF IInv, EntryInv, Alive, Starting
<1>5. OpInv'
  <2>1. op.kind = "remove" => Sound(op.entry)'
    BY <1>1 DEF IInv, OpInv, Sound
  <2> QED
    BY <1>1, <2>1 DEF IInv, OpInv
<1>6. InstInv'
  BY <1>2 DEF IInv, InstInv, IsRun, Listed, Alive
<1>7. WaiterNoticed'
  BY <1>1 DEF IInv, WaiterNoticed
<1>8. ValuesHaveAnOwner' /\ SettingsReachInstance'
  BY DEF IInv, ValuesHaveAnOwner, SettingsReachInstance, Listed
<1> QED
  BY <1>3, <1>4, <1>5, <1>6, <1>7, <1>8 DEF IInv

\* An operation that is at one of its steps does not wait, and the plugin has
\* no instance if the operation is to start or settle it.
LEMMA HeldFacts ==
  ASSUME IInv, NEW kind, NEW at, Held(kind, at), at # "stop"
  PROVE  /\ op # None /\ op \in Ops /\ op.kind = kind /\ op.run = None
         /\ kind # "set_secret" => Settles
         /\ Settles /\ Listed => plugin.run = None /\ plugin.attempt = None
         /\ plugin \in Entries => Listed
<1>1. op # None /\ op.kind = kind /\ op.pc = at /\ op \in Ops
  BY Types DEF Held, IInv
<1>2. op.run = None
  BY <1>1 DEF IInv, OpInv
<1>3. Settles /\ Listed => plugin.attempt = None /\ plugin.run = None
  BY DEF IInv, EntryInv
<1> QED
  BY <1>1, <1>2, <1>3, Types DEF Settles, IInv

LEMMA GoesOnInv ==
  ASSUME IInv,
         \/ Stopped \/ SetSecretSaves
         \/ RemoveDeletes /\ op' = [op EXCEPT !.pc = "forget"] /\ UNCHANGED <<plugin, changed>>
  PROVE  IInv'
<1>1. /\ op # None /\ op \in Ops /\ UNCHANGED <<plugin, cfg, closed, inst, said, waiter, changed>>
      /\ op.run # None => inst[op.run].life = "free"
      /\ stored' \in Secrets \cup {None}
      /\ \/ op' = [op EXCEPT !.pc = op.then, !.run = None]
         \/ op.run = None /\ (op' = [op EXCEPT !.pc = "relaunch"] \/ op' = [op EXCEPT !.pc = "forget"])
  <2>0. stored \in Secrets \cup {None}
    BY DEF IInv, TypeOK
  <2>1. CASE Stopped
    BY <2>0, <2>1, Types DEF Stopped, IInv
  <2>2. CASE SetSecretSaves
    <3>1. op # None /\ op \in Ops /\ op.run = None
      BY <2>2, HeldFacts DEF SetSecretSaves
    <3>2. op.value \in Secrets \cup {None}
      BY <3>1 DEF Ops
    <3> QED
      BY <2>0, <2>2, <3>1, <3>2 DEF SetSecretSaves
  <2>3. CASE RemoveDeletes /\ op' = [op EXCEPT !.pc = "forget"] /\ UNCHANGED <<plugin, changed>>
    BY <2>0, <2>3, HeldFacts DEF RemoveDeletes
  <2> QED
    BY <2>1, <2>2, <2>3
<1>2. op' \in Ops /\ op'.kind = op.kind /\ op'.relaunch = op.relaunch /\ op'.entry = op.entry
      /\ op'.run = None /\ op'.pc # "stop"
  BY <1>1 DEF Ops
<1> QED
  BY <1>1, <1>2, OpStep

\* set_secret and restart start the plugin again, or find it off.
LEMMA RelaunchInv ==
  ASSUME IInv, Relaunch
  PROVE  IInv'
<1>1. /\ op # None /\ op.run = None /\ op.kind \in {"set_secret", "restart"}
      /\ Settles /\ Listed => plugin.run = None /\ plugin.attempt = None
      /\ op' = None /\ UNCHANGED <<cfg, closed, stored, said, waiter>>
      /\ op.kind = "restart" => Settles
  BY HeldFacts DEF Relaunch, Done
<1>2. /\ cfg \in [enabled : BOOLEAN, table : Tables] /\ stored \in Secrets \cup {None}
      /\ changed \in BOOLEAN /\ waiter \in {"none", "looking", "waiting"}
  BY DEF IInv, TypeOK
<1>3. CASE Relaunches
  <2> DEFINE e == [plugin EXCEPT !.crashed = FALSE]
  <2>1. /\ Listed /\ plugin \in Entries /\ plugin.enabled /\ ~closed /\ Sound(plugin) /\ Settles
        /\ plugin.run = None
    BY <1>1, <1>3, EntryFacts DEF Relaunches, Settles
  <2>2. /\ e \in Entries /\ e.status = plugin.status /\ e.compatible = plugin.compatible
        /\ e.enabled = plugin.enabled /\ e.table = plugin.table
        /\ e.attempt = plugin.attempt /\ e.run = plugin.run
    BY <2>1 DEF Entries
  <2>3. Launch(e)
    BY <1>3 DEF Relaunch
  <2> HIDE DEF e
  <2>4. CASE e.compatible
    BY <1>1, <1>2, <2>1, <2>2, <2>3, <2>4, LaunchStep DEF Sound
  <2>5. CASE ~e.compatible
    <3>1. /\ plugin' \in Entries /\ inst' = inst /\ changed' = changed
          /\ plugin'.run = e.run /\ plugin'.compatible = e.compatible
          /\ plugin'.enabled = e.enabled /\ plugin'.table = e.table
          /\ plugin'.status = e.status /\ plugin'.attempt = e.attempt
      BY <2>2, <2>3, <2>5, LaunchFacts DEF IInv
    <3>2. plugin.status = "Incompatible" /\ plugin.attempt = None
      BY <1>1, <2>1, <2>2, <2>5 DEF Sound
    <3>3. Sound(plugin)'
      BY <1>1, <2>1, <2>2, <3>1 DEF Sound
    <3>4. waiter = "waiting" => changed
      BY <1>1, <2>1, <3>2 DEF IInv, WaiterNoticed
    <3> QED
      BY <1>1, <1>2, <2>1, <2>2, <3>1, <3>2, <3>3, <3>4, RestStep
  <2> QED
    BY <2>4, <2>5
<1>4. CASE ~Relaunches /\ UNCHANGED <<plugin, inst, changed>>
  <2>1. Settles /\ Listed => closed \/ plugin.status # "Starting"
    <3> SUFFICES ASSUME Settles, Listed, ~closed, plugin.status = "Starting"
                 PROVE  FALSE
      OBVIOUS
    <3>1. plugin.enabled
      BY EntryFacts
    <3>2. op.relaunch
      BY <1>1, <1>4, <3>1 DEF Settles, IInv, OpInv, Relaunches
    <3> QED
      BY <1>4, <3>1, <3>2 DEF Relaunches
  <2>2. WaiterNoticed'
    BY <1>1, <1>4 DEF IInv, WaiterNoticed, Listed
  <2> QED
    BY <1>1, <1>2, <1>4, <2>1, <2>2, KeepStep
<1> QED
  BY <1>3, <1>4 DEF Relaunch

\* The folder could not be deleted: the plugin is listed again, stopped.
LEMMA ListedAgainInv ==
  ASSUME IInv, RemoveDeletes, op' = None, Bump,
         plugin' = IF op.entry.compatible
                   THEN [op.entry EXCEPT !.status = Resting(op.entry)]
                   ELSE op.entry
  PROVE  IInv'
<1>1. /\ op # None /\ op.kind = "remove" /\ op.run = None
      /\ UNCHANGED <<cfg, closed, inst, stored, said, waiter>>
  BY HeldFacts DEF RemoveDeletes
<1>2. /\ ~Listed /\ op.entry \in Entries /\ Sound(op.entry)
      /\ op.entry.attempt = None /\ op.entry.run = None
  BY <1>1 DEF IInv, OpInv
<1> DEFINE e == op.entry
<1>3. /\ plugin' \in Entries /\ plugin'.attempt = None /\ plugin'.run = None
      /\ plugin'.compatible = e.compatible /\ plugin'.enabled = e.enabled
      /\ plugin'.table = e.table
      /\ e.compatible => plugin'.status = IF e.enabled THEN "Ready" ELSE "Off"
      /\ ~e.compatible => plugin'.status = "Incompatible"
  <2>1. e \in Entries /\ e.attempt = None /\ e.run = None /\ Sound(e)
    BY <1>2
  <2>2. CASE e.compatible
    <3> DEFINE st == IF e.enabled THEN "Ready" ELSE "Off"
    <3>1. plugin' = [e EXCEPT !.status = st] /\ st \in Statuses
      BY <2>2 DEF Resting, Statuses
    <3> HIDE DEF e, st
    <3>2. /\ plugin' \in Entries /\ plugin'.attempt = None /\ plugin'.run = None
          /\ plugin'.compatible = e.compatible /\ plugin'.enabled = e.enabled
          /\ plugin'.table = e.table /\ plugin'.status = st
      BY <2>1, <3>1 DEF Entries
    <3> QED
      BY <2>2, <3>2 DEF st
  <2>3. CASE ~e.compatible
    <3>1. plugin' = e
      BY <2>3
    <3> HIDE DEF e
    <3> QED
      BY <2>1, <2>3, <3>1 DEF Sound
  <2> HIDE DEF e
  <2> QED
    BY <2>2, <2>3
<1>4. Sound(plugin)'
  BY <1>1, <1>2, <1>3 DEF Sound
<1>5. changed' \in BOOLEAN /\ (waiter # "none" => changed')
  BY ToldFacts DEF Bump
<1>6. cfg' \in [enabled : BOOLEAN, table : Tables]
  BY <1>1 DEF IInv, TypeOK
<1>7. plugin'.status \notin {"Starting", "Running", "Problem"}
  BY <1>3
<1> QED
  BY <1>1, <1>2, <1>3, <1>4, <1>5, <1>6, <1>7, RestStep

\* The new version is registered, and starts when it is on.
LEMMA InstalledInv ==
  ASSUME IInv, Installed
  PROVE  IInv'
<1>1. /\ op # None /\ op.run = None /\ op' = None /\ Settles
      /\ UNCHANGED <<cfg, closed, stored, said, waiter>>
      /\ Listed => plugin.run = None
  BY HeldFacts DEF Installed, Done
<1>2. /\ cfg \in [enabled : BOOLEAN, table : Tables] /\ waiter \in {"none", "looking", "waiting"}
  BY DEF IInv, TypeOK
<1> DEFINE e == NewEntry(cfg, TRUE)
<1>3. /\ e \in Entries /\ e.compatible /\ e.enabled = cfg.enabled /\ e.table = cfg.table
      /\ e.status = Resting(cfg) /\ e.attempt = None /\ e.run = None /\ Sound(e)
  BY NewEntryFacts DEF IInv
<1>4. \/ cfg.enabled /\ ~closed /\ Launch(e)
      \/ plugin' = e /\ UNCHANGED inst /\ Bump
  BY DEF Installed
<1> HIDE DEF e
<1>5. CASE cfg.enabled /\ ~closed /\ Launch(e)
  BY <1>1, <1>2, <1>3, <1>5, LaunchStep
<1>6. CASE plugin' = e /\ UNCHANGED inst /\ Bump
  <2>1. changed' \in BOOLEAN /\ (waiter # "none" => changed')
    BY <1>6, ToldFacts DEF Bump
  <2>2. Sound(plugin)'
    BY <1>1, <1>3, <1>6 DEF Sound
  <2>3. plugin'.status \in {"Ready", "Off"}
    BY <1>3, <1>6 DEF Resting
  <2> QED
    BY <1>1, <1>2, <1>3, <1>6, <2>1, <2>2, <2>3, RestStep
<1> QED
  BY <1>4, <1>5, <1>6

\* The old version starts again when it is on.
LEMMA ResumeInv ==
  ASSUME IInv, Resume
  PROVE  IInv'
<1>1. /\ op # None /\ op.run = None /\ op' = None /\ Settles /\ op.kind = "install"
      /\ UNCHANGED <<cfg, closed, stored, said, waiter>>
      /\ Listed => plugin.run = None /\ plugin.attempt = None
  BY HeldFacts DEF Resume, Done
<1>2. /\ cfg \in [enabled : BOOLEAN, table : Tables] /\ stored \in Secrets \cup {None}
      /\ changed \in BOOLEAN /\ waiter \in {"none", "looking", "waiting"}
  BY DEF IInv, TypeOK
<1>3. CASE (~Listed \/ ~plugin.compatible) /\ UNCHANGED <<plugin, inst, changed>>
  <2>1. Listed => plugin.status # "Starting"
    BY <1>3, EntryFacts
  <2>2. WaiterNoticed'
    BY <1>1, <1>3, <2>1 DEF IInv, WaiterNoticed
  <2> QED
    BY <1>1, <1>2, <1>3, <2>1, <2>2, KeepStep
<1>4. CASE Listed /\ plugin.compatible /\ plugin.enabled /\ ~closed /\ Launch(plugin)
  <2>1. /\ plugin \in Entries /\ Sound(plugin)
    BY <1>4, EntryFacts
  <2> QED
    BY <1>1, <1>2, <1>4, <2>1, LaunchStep DEF Sound
<1>5. CASE /\ Listed /\ plugin.compatible /\ UNCHANGED inst /\ Bump
           /\ plugin' = [plugin EXCEPT !.status = Resting(plugin)]
  <2>1. /\ plugin \in Entries /\ Sound(plugin)
    BY <1>5, EntryFacts
  <2>2. /\ plugin' \in Entries /\ plugin'.attempt = plugin.attempt /\ plugin'.run = plugin.run
        /\ plugin'.status = IF plugin.enabled THEN "Ready" ELSE "Off"
        /\ plugin'.compatible = plugin.compatible /\ plugin'.enabled = plugin.enabled
        /\ plugin'.table = plugin.table
    BY <1>5, <2>1 DEF Entries, Statuses, Resting
  <2>3. Sound(plugin)'
    BY <1>1, <1>5, <2>1, <2>2 DEF Sound
  <2>4. changed' \in BOOLEAN /\ (waiter # "none" => changed')
    BY <1>5, ToldFacts DEF Bump
  <2>5. plugin'.status \in {"Ready", "Off"}
    BY <2>2
  <2> QED
    BY <1>1, <1>2, <1>5, <2>2, <2>3, <2>4, <2>5, RestStep
<1> QED
  BY <1>1, <1>3, <1>4, <1>5 DEF Resume

\* A removal, a stop and a shutdown come to their end.
LEMMA FinishInv ==
  ASSUME IInv, RemoveForgets \/ Finish
  PROVE  IInv'
<1>1. /\ op # None /\ op.run = None /\ op' = None /\ Settles /\ op \in Ops
      /\ op.kind \in {"remove", "apply_settings", "shutdown"}
      /\ UNCHANGED <<plugin, cfg, closed, inst, said, waiter>>
  BY HeldFacts DEF RemoveForgets, Finish, Done
<1>2. /\ cfg \in [enabled : BOOLEAN, table : Tables] /\ stored \in Secrets \cup {None}
      /\ changed \in BOOLEAN
  BY DEF IInv, TypeOK
<1>3. stored' \in Secrets \cup {None}
  BY <1>2 DEF RemoveForgets, Finish
<1>4. /\ changed' \in BOOLEAN /\ (changed => changed')
      /\ op.kind = "shutdown" /\ waiter = "waiting" => changed'
  <2>1. CASE RemoveForgets
    <3>1. op.kind = "remove" /\ changed' = changed
      BY <2>1 DEF RemoveForgets, Held
    <3> QED
      BY <1>2, <3>1
  <2>2. CASE Finish
    BY <1>2, <2>2 DEF Finish, Told
  <2> QED
    BY <2>1, <2>2
<1>5. Listed => closed \/ plugin.status # "Starting"
  BY <1>1 DEF IInv, EntryInv
<1>6. WaiterNoticed'
  BY <1>1, <1>4 DEF IInv, WaiterNoticed, Listed
<1> QED
  BY <1>1, <1>2, <1>3, <1>4, <1>5, <1>6, KeepStep

-----------------------------------------------------------------------------
(* The invariant.                                                          *)

LEMMA InitInv ==
  ASSUME Init
  PROVE  IInv
<1>1. /\ cfg \in [enabled : BOOLEAN, table : Tables] /\ closed = FALSE /\ op = None
      /\ stored \in Secrets \cup {None} /\ said = None /\ waiter = "none" /\ changed = FALSE
  BY DEF Init
<1>2. cfg.enabled \in BOOLEAN /\ cfg.table \in Tables
  BY <1>1
<1>3. CASE plugin = None /\ inst = [a \in Attempts |-> Idle]
  <2>1. \A a \in Attempts : inst[a] \in Instances /\ inst[a].life = "free"
                            /\ inst[a].out = None /\ ~inst[a].saving
    BY <1>3, IdleType
  <2>2. TypeOK
    BY <1>1, <1>3, <2>1 DEF TypeOK
  <2> QED
    BY <1>1, <1>3, <2>1, <2>2 DEF IInv, EntryInv, OpInv, InstInv, WaiterNoticed, Alive,
       ValuesHaveAnOwner, SettingsReachInstance, Listed
<1>4. ASSUME plugin \in Entries, Sound(plugin), plugin.attempt = None, plugin.run = None,
             plugin.status \notin {"Starting", "Running", "Problem"},
             inst = [a \in Attempts |-> Idle]
      PROVE  IInv
  <2>1. \A a \in Attempts : inst[a] \in Instances /\ inst[a].life = "free"
                            /\ inst[a].out = None /\ ~inst[a].saving
    BY <1>4, IdleType
  <2>2. TypeOK
    BY <1>1, <1>4, <2>1 DEF TypeOK
  <2> QED
    BY <1>1, <1>4, <2>1, <2>2 DEF IInv, EntryInv, OpInv, InstInv, WaiterNoticed, Alive,
       ValuesHaveAnOwner, SettingsReachInstance, Settles
<1>5. ASSUME NEW wanted \in BOOLEAN,
             LET e == NewEntry(cfg, wanted) IN
             plugin = e \/ plugin = [e EXCEPT !.status = "Incompatible", !.compatible = FALSE]
      PROVE  /\ plugin \in Entries /\ Sound(plugin)
             /\ plugin.attempt = None /\ plugin.run = None
             /\ plugin.status \notin {"Starting", "Running", "Problem"}
  <2> DEFINE e == NewEntry(cfg, wanted)
  <2>1. /\ e \in Entries /\ e.compatible /\ e.enabled = cfg.enabled /\ e.table = cfg.table
        /\ e.status = Resting(cfg) /\ e.attempt = None /\ e.run = None
        /\ Resting(cfg) \in Statuses
    BY <1>2 DEF NewEntry, Entries, Statuses, Resting
  <2>2. e.status \in {"Ready", "Off"} /\ (~e.enabled => e.status = "Off")
    BY <1>2, <2>1 DEF Resting
  <2>3. plugin = e \/ plugin = [e EXCEPT !.status = "Incompatible", !.compatible = FALSE]
    BY <1>5
  <2> HIDE DEF e
  <2>4. CASE plugin = e
    BY <2>1, <2>2, <2>4 DEF Sound
  <2>5. CASE plugin = [e EXCEPT !.status = "Incompatible", !.compatible = FALSE]
    <3>1. /\ plugin \in Entries /\ plugin.status = "Incompatible" /\ ~plugin.compatible
          /\ plugin.enabled = e.enabled /\ plugin.table = e.table
          /\ plugin.attempt = e.attempt /\ plugin.run = e.run
      BY <2>1, <2>5 DEF Entries, Statuses
    <3> QED
      BY <2>1, <3>1 DEF Sound
  <2> QED
    BY <2>3, <2>4, <2>5
<1>6. ASSUME NEW first \in Attempts, cfg.enabled,
             plugin = [NewEntry(cfg, TRUE) EXCEPT !.status = "Starting", !.attempt = first],
             inst = [a \in Attempts |-> IF a = first THEN [Idle EXCEPT !.life = "loading"]
                                        ELSE Idle]
      PROVE  IInv
  <2>1. /\ plugin \in Entries /\ Sound(plugin) /\ plugin.attempt = first /\ plugin.run = None
        /\ plugin.status = "Starting" /\ plugin.compatible /\ plugin.enabled
    BY <1>2, <1>6 DEF NewEntry, Entries, Statuses, Resting, Sound
  <2>2. inst[first].life = "loading"
    BY <1>6 DEF Idle
  <2>3. [Idle EXCEPT !.life = "loading"] \in Instances
    BY DEF Idle, Instances, Lives
  <2>4. inst \in [Attempts -> Instances]
    BY <1>6, <2>3, IdleType
  <2>5. \A a \in Attempts : /\ inst[a].life \in {"free", "loading"}
                            /\ inst[a].out = None /\ ~inst[a].saving
    BY <1>6 DEF Idle
  <2>6. TypeOK
    BY <1>1, <2>1, <2>4 DEF TypeOK
  <2>7. EntryInv
    BY <1>1, <1>6, <2>1, <2>2, NoneAssumption DEF EntryInv, Starting, Settles
  <2>8. OpInv /\ InstInv
    BY <1>1, <2>5 DEF OpInv, InstInv, Alive
  <2>9. WaiterNoticed /\ ValuesHaveAnOwner /\ SettingsReachInstance
    BY <1>1, <2>1 DEF WaiterNoticed, ValuesHaveAnOwner, SettingsReachInstance
  <2> QED
    BY <2>6, <2>7, <2>8, <2>9 DEF IInv
<1> QED
  BY <1>3, <1>4, <1>5, <1>6 DEF Init

LEMMA StutterInv ==
  ASSUME IInv, UNCHANGED vars
  PROVE  IInv'
<1> USE DEF vars
<1>1. TypeOK'
  BY DEF IInv, TypeOK
<1>2. EntryInv' /\ OpInv'
  BY DEF IInv, EntryInv, OpInv, Listed, Settles, Sound, Alive, Starting
<1>3. InstInv' /\ ValuesHaveAnOwner' /\ SettingsReachInstance'
  BY DEF IInv, InstInv, IsRun, Listed, Alive, ValuesHaveAnOwner, SettingsReachInstance
<1>4. WaiterNoticed'
  BY DEF IInv, WaiterNoticed, Listed
<1> QED
  BY <1>1, <1>2, <1>3, <1>4 DEF IInv

LEMMA StepInv ==
  ASSUME IInv, [Next]_vars
  PROVE  IInv'
<1>1. CASE Operations
  BY <1>1, SetSecretInv, ApplySettingsInv, RestartInv, RemoveInv, InstallInv, ShutdownInv
     DEF Operations
<1>2. CASE Steps
  <2>1. CASE RemoveDeletes
    <3>1. \/ op' = [op EXCEPT !.pc = "forget"] /\ UNCHANGED <<plugin, changed>>
          \/ /\ plugin' = IF op.entry.compatible
                          THEN [op.entry EXCEPT !.status = Resting(op.entry)]
                          ELSE op.entry
             /\ Bump /\ op' = None
      BY <2>1 DEF RemoveDeletes, Done
    <3> QED
      BY <2>1, <3>1, GoesOnInv, ListedAgainInv
  <2> QED
    BY <1>2, <2>1, GoesOnInv, RelaunchInv, InstalledInv, ResumeInv, FinishInv DEF Steps
<1>3. CASE Action \/ WindowOver
  BY <1>3, ActionInv, ReportInv
<1>4. ASSUME NEW a \in Attempts, StartTask(a) \/ Outputs(a) \/ Exits(a) \/ Supervisor(a)
      PROVE  IInv'
  BY <1>4, InstanceInv, StartInv, ReportInv, EndedInv DEF StartTask, Supervisor
<1>5. CASE UNCHANGED vars
  BY <1>5, StutterInv
<1> QED
  BY <1>1, <1>2, <1>3, <1>4, <1>5 DEF Next

\* What the invariant says of the status, the starts and the instances.
LEMMA Implied ==
  ASSUME IInv
  PROVE  HostCoherent /\ DeletedStayDeleted
<1>1. StatusMatchesRun
  BY DEF IInv, EntryInv, StatusMatchesRun, Alive
<1>2. StartingIsStarting
  BY DEF IInv, EntryInv, StartingIsStarting, Starting, Settles
<1>3. OneInstance
  <2> SUFFICES ASSUME NEW a \in Attempts, NEW b \in Attempts, Alive(a), Alive(b)
               PROVE  a = b
    BY DEF OneInstance, Alive
  <2> QED
    BY WhoIsAlive, NoneAssumption
<1>4. OffMeansOff
  <2>1. Listed /\ plugin.run # None => plugin.compatible /\ plugin.enabled /\ ~closed
    BY EntryFacts
  <2>2. Listed /\ ~plugin.enabled => plugin.status \in {"Off", "Incompatible"}
    BY EntryFacts DEF Sound
  <2>3. closed /\ op = None => \A a \in Attempts : ~Alive(a)
    BY <2>1, WhoIsAlive, NoneAssumption
  <2> QED
    BY <2>1, <2>2, <2>3 DEF OffMeansOff, Alive
<1>5. DeletedStayDeleted
  <2> SUFFICES ASSUME ~Listed, op = None, NEW a \in Attempts, inst[a].saving
               PROVE  FALSE
    BY DEF DeletedStayDeleted
  <2>1. Alive(a)
    BY NothingAssumption DEF IInv, InstInv, Outs
  <2> QED
    BY <2>1, WhoIsAlive
<1> QED
  BY <1>1, <1>2, <1>3, <1>4, <1>5 DEF HostCoherent, IInv

\* What Host::apply_settings set while start_instance was at work reaches the
\* instance it puts in, for any number of calls: the loop of start_instance
\* looks once more, under the lock, before it lets go.
THEOREM SettingsArrive == Spec => []SettingsReachInstance
<1>1. Init => IInv
  BY InitInv
<1>2. IInv /\ [Next]_vars => IInv'
  BY StepInv
<1>3. IInv => SettingsReachInstance
  BY DEF IInv
<1> QED
  BY <1>1, <1>2, <1>3, PTL DEF Spec

-----------------------------------------------------------------------------
(* The secrets.                                                            *)

SettingSecret == op # None /\ op.kind = "set_secret"

\* A step keeps what is known of the listed start's secret.
SameSecret(a) ==
  /\ inst'[a].raced = inst[a].raced
  /\ \/ inst'[a].has = inst[a].has /\ inst'[a].life = inst[a].life
     \/ /\ inst'[a].has = inst[a].has /\ inst'[a].life \in {"running", "exited"}
        /\ Alive(a) \/ (inst[a].life = "loaded" /\ inst[a].has # Broken)
     \/ inst[a].life = "loading" /\ inst'[a].life = "loaded" /\ inst'[a].has \in {stored, Broken}

LEMMA SecretsStep ==
  ASSUME SecretsInv, stored' = stored, SettingSecret' => SettingSecret,
         Listed' =>
           \/ plugin'.attempt = None
           \/ inst'[plugin'.attempt].life = "free"
           \/ /\ inst'[plugin'.attempt].life = "loading"
              /\ SettingSecret => inst'[plugin'.attempt].raced
           \/ Listed /\ plugin'.attempt = plugin.attempt /\ SameSecret(plugin.attempt)
  PROVE  SecretsInv'
<1>1. CASE ~Listed' \/ plugin'.attempt = None \/ inst'[plugin'.attempt].life = "free"
  BY <1>1 DEF SecretsInv
<1>2. CASE /\ inst'[plugin'.attempt].life = "loading"
           /\ SettingSecret => inst'[plugin'.attempt].raced
  BY <1>2 DEF SecretsInv, SettingSecret
<1>3. CASE Listed /\ plugin'.attempt = plugin.attempt /\ SameSecret(plugin.attempt)
           /\ plugin'.attempt # None /\ inst'[plugin'.attempt].life # "free"
  <2>1. PICK a : a = plugin.attempt
    OBVIOUS
  <2>2. /\ inst[a].life = "loaded" => inst[a].has \in {stored, Broken} \/ inst[a].raced
        /\ Alive(a) => inst[a].has = stored \/ inst[a].raced
        /\ inst[a].life # "free" /\ SettingSecret => inst[a].raced
    BY <1>3, <2>1 DEF SecretsInv, Alive, SettingSecret
  <2>3. plugin'.attempt = a /\ SameSecret(a) /\ inst'[a].life # "free"
    BY <1>3, <2>1
  <2>4. inst[a].life # "free"
    BY <2>3 DEF SameSecret, Alive
  <2>5. /\ inst'[a].life = "loaded" => inst'[a].has \in {stored, Broken} \/ inst'[a].raced
        /\ inst'[a].life \in {"running", "exited"} => inst'[a].has = stored \/ inst'[a].raced
    BY <2>2, <2>3 DEF SameSecret, Alive
  <2>6. SettingSecret => inst'[a].raced
    BY <2>2, <2>3, <2>4 DEF SameSecret
  <2> QED
    BY <2>3, <2>5, <2>6 DEF SecretsInv, SettingSecret
<1> QED
  BY <1>1, <1>2, <1>3

\* A start comes with what it will load, and is told of the secret being set.
LEMMA SecretsLaunch ==
  ASSUME IInv, SecretsInv, NEW e \in Entries, Launch(e), e.attempt = None,
         stored' = stored, SettingSecret' => SettingSecret
  PROVE  SecretsInv'
<1>1. CASE plugin'.attempt = None
  BY <1>1, SecretsStep
<1>2. ASSUME NEW a \in Fresh, plugin'.attempt = a, inst'[a].life = "loading",
             inst'[a].raced = (op # None /\ op.kind = "set_secret")
      PROVE  SecretsInv'
  <2>1. SettingSecret => inst'[a].raced
    BY <1>2 DEF SettingSecret
  <2> QED
    BY <1>2, <2>1, SecretsStep
<1> QED
  BY <1>1, <1>2, LaunchFacts DEF IInv

\* Start tasks, instances and supervisors.
LEMMA SecretsInstance ==
  ASSUME IInv, SecretsInv, NEW a \in Attempts,
         StartTask(a) \/ Outputs(a) \/ Exits(a) \/ Supervisor(a)
  PROVE  SecretsInv'
<1>1. /\ inst \in [Attempts -> Instances] /\ inst[a] \in Instances
      /\ cfg' = cfg /\ op' = op /\ (SettingSecret' => SettingSecret)
      /\ Listed => plugin \in Entries
      /\ plugin' = None => ~Listed'
  BY Types DEF IInv, TypeOK, StartTask, SecretsLoaded, StartInstance, Outputs, Exits, Supervisor,
     HandleState, HandleStatus, HandleSecrets, SecretsSaved, Ended, SettingSecret, Listed
<1>2. CASE SecretsLoaded(a) \/ Outputs(a) \/ Exits(a) \/ HandleState(a) \/ HandleSecrets(a)
  <2>1. /\ UNCHANGED <<plugin, stored>>
        /\ \A b \in Attempts : b # a => inst'[b] = inst[b]
    BY <1>1, <1>2 DEF SecretsLoaded, Outputs, Exits, HandleState, HandleSecrets
  <2>2. SameSecret(a)
    BY <1>1, <1>2 DEF SecretsLoaded, Outputs, Exits, HandleState, HandleSecrets, SameSecret, Alive,
       Instances
  <2>3. \A b \in Attempts : SameSecret(b)
    BY <2>1, <2>2 DEF SameSecret
  <2>4. Listed' => Listed /\ (plugin'.attempt = None \/ plugin'.attempt \in Attempts)
    BY <1>1, <2>1 DEF Listed, Entries
  <2> QED
    BY <1>1, <2>1, <2>3, <2>4, SecretsStep
<1>3. CASE StartInstance(a)
  <2>1. /\ stored' = stored /\ inst[a].life = "loaded"
        /\ \A b \in Attempts : b # a => inst'[b] = inst[b]
        /\ \/ inst'[a].life = "free"
           \/ SameSecret(a)
    BY <1>1, <1>3 DEF StartInstance, SameSecret, Alive, Instances, Idle
  <2>2. Listed' => Listed /\ plugin'.attempt = plugin.attempt
                   /\ (plugin.attempt = None \/ plugin.attempt \in Attempts)
    BY <1>1, <1>3 DEF StartInstance, Starts, Listed, Entries
  <2>3. \A b \in Attempts : inst'[b].life = "free" \/ SameSecret(b)
    BY <2>1 DEF SameSecret
  <2> QED
    BY <1>1, <2>1, <2>2, <2>3, SecretsStep
<1>4. CASE HandleStatus(a)
  <2>1. /\ stored' = stored /\ \A b \in Attempts : SameSecret(b)
    BY <1>1, <1>4 DEF HandleStatus, SameSecret, Instances
  <2>2. Listed' => Listed /\ plugin'.attempt = plugin.attempt
                   /\ (plugin.attempt = None \/ plugin.attempt \in Attempts)
    BY <1>1, <1>4 DEF HandleStatus, IsRun, Listed, Entries
  <2> QED
    BY <1>1, <2>1, <2>2, SecretsStep
<1>5. CASE SecretsSaved(a)
  <2>1. /\ UNCHANGED plugin /\ stored' \in {stored, inst[a].has} /\ inst[a].saving
        /\ \A b \in Attempts : SameSecret(b)
    BY <1>1, <1>5 DEF SecretsSaved, SameSecret, Instances
  <2>2. Alive(a)
    BY <2>1, NothingAssumption DEF IInv, InstInv, Outs
  <2>3. CASE Listed /\ plugin.attempt = a
    <3>1. inst[a].has = stored \/ inst[a].raced
      BY <2>2, <2>3, NoneAssumption DEF SecretsInv, Alive
    <3>2. CASE inst[a].has = stored
      BY <1>1, <2>1, <2>3, <3>2, SecretsStep
    <3>3. CASE inst[a].raced
      BY <1>1, <2>1, <2>3, <3>3 DEF SecretsInv, SameSecret
    <3> QED
      BY <3>1, <3>2, <3>3
  <2>4. CASE Listed => plugin.attempt = None
    BY <2>1, <2>4 DEF SecretsInv, Listed
  <2> QED
    BY <2>2, <2>3, <2>4, WhoIsAlive
<1>6. CASE Ended(a)
  <2>0. stored' = stored
    BY <1>6 DEF Ended
  <2>1. CASE inst' = [inst EXCEPT ![a] = Idle] /\ (Listed' => Listed /\ plugin'.attempt = plugin.attempt)
    <3>1. \A b \in Attempts : inst'[b].life = "free" \/ SameSecret(b)
      BY <1>1, <2>1 DEF SameSecret, Idle
    <3>2. Listed' => plugin.attempt = None \/ plugin.attempt \in Attempts
      BY <1>1, <2>1 DEF Entries
    <3> QED
      BY <1>1, <2>0, <2>1, <3>1, <3>2, SecretsStep
  <2>2. ASSUME NEW b \in Fresh, Listed,
               plugin' = [plugin EXCEPT !.run = None, !.crashed = TRUE, !.draining = None,
                                        !.attempt = b, !.status = "Starting"],
               inst' = [inst EXCEPT ![a] = Idle,
                          ![b] = [Idle EXCEPT !.life = "loading",
                                    !.raced = op # None /\ op.kind = "set_secret"]]
        PROVE  SecretsInv'
    <3>1. plugin'.attempt = b /\ b \in Attempts
      BY <1>1, <2>2 DEF Entries, Fresh
    <3>2. inst'[b].life = "loading" /\ (SettingSecret => inst'[b].raced)
      BY <1>1, <2>2, <3>1 DEF Idle, SettingSecret
    <3> QED
      BY <1>1, <2>0, <3>1, <3>2, SecretsStep
  <2>3. \/ inst' = [inst EXCEPT ![a] = Idle] /\ plugin' = plugin
        \/ /\ IsRun(a) /\ inst' = [inst EXCEPT ![a] = Idle]
           /\ plugin' = [plugin EXCEPT !.run = None, !.status = "Failed"]
        \/ /\ IsRun(a)
           /\ \E b \in Fresh :
                /\ plugin' = [plugin EXCEPT !.run = None, !.crashed = TRUE, !.draining = None,
                                            !.attempt = b, !.status = "Starting"]
                /\ inst' = [inst EXCEPT ![a] = Idle,
                              ![b] = [Idle EXCEPT !.life = "loading",
                                        !.raced = op # None /\ op.kind = "set_secret"]]
    BY <1>6, Zenon DEF Ended
  <2>4. IsRun(a) /\ plugin' = [plugin EXCEPT !.run = None, !.status = "Failed"] =>
          Listed /\ plugin'.attempt = plugin.attempt
    BY <1>1 DEF IsRun, Entries
  <2> QED
    BY <2>1, <2>2, <2>3, <2>4 DEF IsRun, Listed
<1> QED
  BY <1>2, <1>3, <1>4, <1>5, <1>6 DEF StartTask, Supervisor

\* Operations begin by taking the start there was, or leave it and its secret.
LEMMA SecretsOperations ==
  ASSUME IInv, SecretsInv, Operations
  PROVE  SecretsInv'
<1>1. /\ inst \in [Attempts -> Instances] /\ stored' = stored /\ op = None /\ ~SettingSecret
      /\ Listed => plugin \in Entries
  BY Types DEF IInv, TypeOK, SettingSecret, Operations, SetSecret, ApplySettings, Restart, Remove,
     Install, Shutdown
<1>2. CASE Listed' => plugin'.attempt = None
  BY <1>2 DEF SecretsInv
<1>3. ASSUME NEW e \in Entries,
             plugin' = TakeRun(e) \/ \E st \in Statuses : plugin' = [TakeRun(e) EXCEPT !.status = st]
      PROVE  SecretsInv'
  <2>1. ASSUME plugin' = TakeRun(e) PROVE plugin'.attempt = None
    BY <2>1, TakeRunFacts
  <2>2. ASSUME NEW st \in Statuses, plugin' = [TakeRun(e) EXCEPT !.status = st]
        PROVE  plugin'.attempt = None
    BY <2>2, TakeRunFacts
  <2> QED
    BY <1>2, <1>3, <2>1, <2>2
<1>4. CASE \E v \in Secrets \cup {None} : SetSecret(v)
  <2>1. Listed /\ (\/ plugin' = TakeRun(plugin)
                   \/ plugin' = [TakeRun(plugin) EXCEPT !.status = "Starting"])
    BY <1>4 DEF SetSecret
  <2> QED
    BY <1>1, <1>3, <2>1 DEF Statuses
<1>5. CASE Restart \/ Install
  <2>1. \/ Listed /\ (\/ plugin' = TakeRun(plugin)
                      \/ plugin' = [TakeRun(plugin) EXCEPT !.status = "Starting"])
        \/ plugin' = None
    BY <1>5 DEF Restart, Install
  <2> QED
    BY <1>1, <1>2, <1>3, <2>1 DEF Statuses, Listed
<1>6. CASE Remove
  BY <1>2, <1>6 DEF Remove, Listed
<1>7. CASE Shutdown
  <2>1. CASE Listed /\ plugin.compatible
    BY <1>1, <1>3, <1>7, <2>1 DEF Shutdown, Statuses
  <2>2. CASE ~(Listed /\ plugin.compatible)
    <3>1. plugin' = plugin /\ (Listed => plugin.attempt = None)
      BY <1>7, <2>2 DEF Shutdown, IInv, EntryInv
    <3> QED
      BY <1>2, <3>1 DEF Listed
  <2> QED
    BY <2>1, <2>2
<1>8. ASSUME NEW c \in [enabled : BOOLEAN, table : Tables], ApplySettings(c)
      PROVE  SecretsInv'
  <2> DEFINE e == [plugin EXCEPT !.enabled = c.enabled, !.table = c.table]
             ready == [e EXCEPT !.status = "Ready", !.crashed = FALSE]
  <2>1. c.enabled \in BOOLEAN /\ c.table \in Tables
    OBVIOUS
  <2>2. Listed => /\ e \in Entries /\ ready \in Entries
                  /\ e.attempt = plugin.attempt /\ ready.attempt = plugin.attempt
    BY <1>1, <2>1 DEF Entries, Statuses
  <2>3. CASE ~Listed /\ plugin' = plugin
    BY <1>2, <2>3 DEF Listed
  <2>4. CASE Listed /\ plugin' = [TakeRun(e) EXCEPT !.status = "Off"]
    <3> HIDE DEF e
    <3> QED
      BY <1>3, <2>2, <2>4 DEF Statuses
  <2>5. CASE Listed /\ plugin' = e /\ op' = op /\ (inst' = inst \/ PostInit(c.table))
    <3>1. \A a \in Attempts : SameSecret(a)
      BY <1>1, <2>5 DEF PostInit, SameSecret, Instances
    <3>2. plugin.attempt = None \/ plugin.attempt \in Attempts
      BY <1>1, <2>5 DEF Entries
    <3> QED
      BY <1>1, <2>2, <2>5, <3>1, <3>2, SecretsStep DEF SettingSecret
  <2>6. CASE /\ Listed /\ ~plugin.enabled /\ plugin.compatible /\ op' = op
             /\ Launch(ready) \/ plugin' = ready
    <3>1. plugin.attempt = None
      BY <2>6 DEF IInv, EntryInv
    <3> HIDE DEF ready
    <3>2. SettingSecret' => SettingSecret
      BY <2>6 DEF SettingSecret
    <3> QED
      BY <1>1, <1>2, <2>2, <2>6, <3>1, <3>2, SecretsLaunch
  <2> QED
    BY <1>8, <2>3, <2>4, <2>5, <2>6 DEF ApplySettings
<1> QED
  BY <1>4, <1>5, <1>6, <1>7, <1>8 DEF Operations

\* The steps of an operation.  Whatever is started while a secret is being set
\* is told so; what is stored of a removed plugin nobody has.
LEMMA SecretsSteps ==
  ASSUME IInv, SecretsInv, Steps
  PROVE  SecretsInv'
<1>1. /\ inst \in [Attempts -> Instances] /\ op # None /\ op \in Ops
      /\ SettingSecret' => SettingSecret
      /\ Listed => plugin \in Entries
  <2>1. /\ inst \in [Attempts -> Instances] /\ op # None /\ op \in Ops
        /\ Listed => plugin \in Entries
    BY Types DEF IInv, TypeOK, Steps, Stopped, SetSecretSaves, Relaunch, RemoveDeletes, RemoveForgets,
       Installed, Resume, Finish, Held
  <2>2. op' = None \/ op'.kind = op.kind
    BY <2>1 DEF Steps, Stopped, SetSecretSaves, Relaunch, RemoveDeletes, RemoveForgets,
       Installed, Resume, Finish, Done, Ops
  <2> QED
    BY <2>1, <2>2 DEF SettingSecret
<1>2. CASE Listed' => plugin'.attempt = None
  BY <1>2 DEF SecretsInv
<1>3. CASE UNCHANGED <<plugin, inst, stored>>
  BY <1>1, <1>3, SecretsStep DEF SameSecret, Listed
<1>4. CASE SetSecretSaves
  <2>1. SettingSecret /\ UNCHANGED <<plugin, inst>>
    BY <1>4 DEF SetSecretSaves, Held, SettingSecret
  <2> QED
    BY <2>1 DEF SecretsInv, SettingSecret, Listed
<1>5. CASE Relaunch
  <2>0. CASE Relaunches
    <3> DEFINE e == [plugin EXCEPT !.crashed = FALSE]
    <3>1. Listed /\ Settles /\ plugin.attempt = None /\ stored' = stored
      BY <1>5, <2>0, HeldFacts DEF Relaunch, Relaunches, Settles
    <3>2. e \in Entries /\ e.attempt = None
      BY <1>1, <3>1 DEF Entries
    <3>3. Launch(e)
      BY <1>5, <2>0 DEF Relaunch
    <3> HIDE DEF e
    <3> QED
      BY <1>1, <3>1, <3>2, <3>3, SecretsLaunch
  <2> QED
    BY <1>3, <1>5, <2>0 DEF Relaunch
<1>6. CASE RemoveDeletes
  <2>1. op.kind = "remove" /\ stored' = stored /\ inst' = inst
    BY <1>6 DEF RemoveDeletes, Held
  <2>2. op.entry \in Entries /\ op.entry.attempt = None
    BY <1>1, <2>1 DEF IInv, OpInv
  <2>3. plugin' = plugin \/ plugin'.attempt = None
    BY <1>6, <2>2 DEF RemoveDeletes, Entries
  <2> QED
    BY <1>2, <1>3, <2>1, <2>3
<1>7. CASE RemoveForgets
  BY <1>1, <1>2, <1>7 DEF RemoveForgets, Held, IInv, OpInv, Listed
<1>8. CASE Installed
  <2>1. /\ NewEntry(cfg, TRUE) \in Entries /\ NewEntry(cfg, TRUE).attempt = None /\ stored' = stored
    BY <1>8, NewEntryFacts DEF Installed, IInv
  <2> QED
    BY <1>1, <1>2, <1>8, <2>1, SecretsLaunch DEF Installed
<1>9. CASE Resume
  <2>1. stored' = stored /\ (Listed => plugin.attempt = None)
    BY <1>9, HeldFacts DEF Resume
  <2>2. CASE Listed /\ Launch(plugin)
    BY <1>1, <2>1, <2>2, SecretsLaunch
  <2>3. CASE Listed /\ plugin' = [plugin EXCEPT !.status = Resting(plugin)]
    BY <1>1, <1>2, <2>1, <2>3 DEF Entries
  <2> QED
    BY <1>3, <1>9, <2>1, <2>2, <2>3 DEF Resume
<1>10. CASE Stopped \/ Finish
  BY <1>3, <1>10 DEF Stopped, Finish
<1> QED
  BY <1>4, <1>5, <1>6, <1>7, <1>8, <1>9, <1>10 DEF Steps

LEMMA SecretsNext ==
  ASSUME IInv, SecretsInv, [Next]_vars
  PROVE  SecretsInv'
<1>1. CASE UNCHANGED <<plugin, inst, stored, op>>
  BY <1>1 DEF SecretsInv, Listed
<1>2. CASE Action
  <2>1. CASE Listed /\ plugin.status = "Ready" /\ Launch(plugin) /\ UNCHANGED <<stored, op>>
    <3>1. plugin \in Entries /\ plugin.attempt = None
      BY <2>1, Types DEF IInv, EntryInv
    <3> QED
      BY <2>1, <3>1, SecretsLaunch DEF SettingSecret
  <2> QED
    BY <1>1, <1>2, <2>1 DEF Action, Asks, Looks, Notices, GivesUp
<1>3. CASE WindowOver
  <2>1. Listed /\ plugin'.attempt = plugin.attempt /\ UNCHANGED <<inst, stored, op>>
    BY <1>3, Types DEF WindowOver, IInv, Entries
  <2> QED
    BY <2>1 DEF SecretsInv
<1> QED
  BY <1>1, <1>2, <1>3, SecretsInstance, SecretsOperations, SecretsSteps DEF Next, vars

LEMMA InitSecrets ==
  ASSUME Init
  PROVE  IInv /\ SecretsInv
<1>1. op = None /\ \A a \in Attempts : inst[a].life \in {"free", "loading"}
  <2>1. /\ Idle.life = "free"
        /\ [Idle EXCEPT !.life = "loading"].life = "loading"
    BY DEF Idle
  <2>2. CASE inst = [a \in Attempts |-> Idle]
    BY <2>1, <2>2 DEF Init
  <2>3. ASSUME NEW first \in Attempts,
               inst = [a \in Attempts |-> IF a = first THEN [Idle EXCEPT !.life = "loading"]
                                          ELSE Idle]
        PROVE  \A a \in Attempts : inst[a].life \in {"free", "loading"}
    BY <2>1, <2>3
  <2> QED
    BY <2>2, <2>3 DEF Init
<1>2. IInv /\ (Listed => plugin.attempt = None \/ plugin.attempt \in Attempts)
  BY InitInv, Types DEF IInv, Entries
<1> QED
  BY <1>1, <1>2 DEF SecretsInv

LEMMA ImpliedSecrets ==
  ASSUME IInv, SecretsInv
  PROVE  SecretsKept
<1>1. SecretsFresh
  BY DEF SecretsFresh, SecretsInv, IInv, EntryInv, Alive
<1> QED
  BY <1>1, Implied DEF SecretsKept

\* The inductive invariant, with PluginInstall's folders beside the host.
LEMMA HostInvHolds == PluginSpec => [](IInv /\ SecretsInv)
<1>1. PluginInit => IInv /\ SecretsInv
  BY InitSecrets DEF PluginInit
<1>2. ASSUME [InFolders \/ InHost]_<<part, folders, host>>
      PROVE  [Next]_vars
  BY <1>2 DEF InFolders, InHost, host
<1>3. IInv /\ SecretsInv /\ [InFolders \/ InHost]_<<part, folders, host>>
        => (IInv /\ SecretsInv)'
  BY <1>2, StepInv, SecretsNext
<1> QED
  BY <1>1, <1>3, PTL DEF PluginSpec

\* Whatever operations, actions, crashes, start tasks and instances do: the
\* plugin's status, its start and the actions that wait for it agree, one
\* instance runs at a time, and what was turned off stays off (supervisor.rs).
THEOREM HostAgrees == PluginSpec => []HostCoherent
<1>1. IInv => HostCoherent
  BY Implied
<1> QED
  BY <1>1, HostInvHolds, PTL

\* The deck shows no value of an instance that is gone (Host::ended).
THEOREM ValuesOwned == PluginSpec => []ValuesHaveAnOwner
<1>1. IInv => ValuesHaveAnOwner
  BY DEF IInv
<1> QED
  BY <1>1, HostInvHolds, PTL

\* The instance that runs has the secret that is stored, unless it was started
\* while one was being set, and a removed plugin writes none back
\* (Host::set_secret, Host::output, Host::remove).
THEOREM SecretsHold == PluginSpec => []SecretsKept
<1>1. IInv /\ SecretsInv => SecretsKept
  BY ImpliedSecrets
<1> QED
  BY <1>1, HostInvHolds, PTL

-----------------------------------------------------------------------------
(* The folders.  Where a plugin can be found depends on how far the        *)
(* operation is and on how much has failed: Placed says what the folders   *)
(* hold at each step, Kept which of them holds a version that was promised.*)

Installing == {"copy", "clear", "aside", "in", "back", "clean", "mark"}

\* What is where, whatever failed.
Placed ==
  /\ pc \in {"clear", "aside", "in"} => staged = F!Copy(what)
  /\ pc \in {"in", "back"} => target = Absent
  /\ pc \in {"clean", "mark"} =>
       target # Absent /\ target.state = "whole" /\ target.version = what
  /\ aside # Absent /\ pc \notin {"in", "back", "clean"} => failures >= 1
  /\ pc = "back" => failures >= 1
  /\ pc = "scan" /\ target = Absent /\ aside # Absent => failures >= 2
  /\ pc = "delete" => promised = {}
  /\ trust = "signed" => what \in Signed
  /\ pc \notin Installing => trust = "none"

\* A promised version can be found, after no more than two failures.
Kept ==
  promised # {} /\ failures <= 2 =>
    /\ pc \in Installing => what \in promised
    /\ pc \in {"idle", "copy", "clear", "back", "down", "scan"} => F!Found \in promised
    /\ pc \in {"idle", "copy", "clear"} => (listed \in Versions => F!Found = listed)
    /\ pc \in {"idle", "copy", "clear", "aside"} /\ failures <= 1
         => F!Load(target) = listed /\ listed \in promised
    /\ pc = "in" /\ failures <= 1 => F!Load(aside) = listed /\ listed \in promised
    /\ pc = "back" => F!Load(aside) = listed /\ listed \in promised

FoldersInv == F!TypeOK /\ F!TrustIsEarned /\ Placed /\ Kept

Folders == F!Folder \cup {Absent}

-----------------------------------------------------------------------------
(* Folders.                                                                *)

\* A deletion cut short leaves no other version, and no new marker.
LEMMA CutFacts ==
  ASSUME NEW f \in Folders, NEW g \in F!Cut(f)
  PROVE  /\ g \in Folders
         /\ f = Absent <=> g = Absent
         /\ f # Absent => g.version = f.version
         /\ g # Absent /\ g.marker = "signed" => f.marker = "signed"
<1>1. CASE f = Absent
  BY <1>1 DEF F!Cut, Folders
<1>2. CASE f # Absent
  <2>1. f \in F!Folder
    BY <1>2 DEF Folders
  <2>2. PICK st \in {f.state, "part"}, m \in {f.marker, "none"} :
               g = [f EXCEPT !.state = st, !.marker = m]
    BY <1>2 DEF F!Cut
  <2>3. g \in F!Folder /\ g.version = f.version /\ g.marker = m
    BY <2>1, <2>2 DEF F!Folder
  <2> QED
    BY <1>2, <2>2, <2>3, VersionsAssumption DEF Folders
<1> QED
  BY <1>1, <1>2

LEMMA CopyFacts ==
  ASSUME NEW v \in Versions
  PROVE  /\ F!Copy(v) \in F!Folder /\ F!Copy(v) # Absent
         /\ F!Copy(v).version = v /\ F!Copy(v).state = "whole" /\ F!Copy(v).marker = "none"
BY VersionsAssumption DEF F!Copy, F!Folder

LEMMA LoadFacts ==
  ASSUME NEW f \in Folders
  PROVE  /\ F!Load(f) \in Versions \cup {None, Broken}
         /\ F!Load(f) \in Versions => f # Absent /\ f.state = "whole" /\ f.version = F!Load(f)
         /\ f # Absent /\ f.state = "whole" => F!Load(f) = f.version
BY VersionsAssumption DEF F!Load, Folders, F!Folder

\* Of a folder.
Earned(f) == f # Absent /\ f.marker = "signed" => f.version \in Signed

LEMMA CutEarned ==
  ASSUME NEW f \in Folders, NEW g \in F!Cut(f), Earned(f)
  PROVE  Earned(g)
BY CutFacts DEF Earned

LEMMA DroppedStaged ==
  ASSUME F!TypeOK, F!TrustIsEarned, F!DropStaged
  PROVE  staged' \in Folders /\ Earned(staged')
<1>1. staged \in Folders /\ Earned(staged)
  BY DEF F!TypeOK, F!TrustIsEarned, Folders, Earned
<1> QED
  BY <1>1, CutFacts, CutEarned DEF F!DropStaged, Folders, Earned

-----------------------------------------------------------------------------
(* The steps.                                                              *)

LEMMA FoldersNext == FoldersInv /\ [F!Next]_(F!vars) => FoldersInv'
<1> SUFFICES ASSUME FoldersInv, [F!Next]_(F!vars)
             PROVE  FoldersInv'
  OBVIOUS
<1> USE DEF FoldersInv
<1>t. /\ target \in Folders /\ staged \in Folders /\ aside \in Folders
      /\ pc \in F!Steps /\ trust \in {"none", "signed"}
      /\ what \in Versions \cup {None, Broken}
      /\ listed \in Versions \cup {None, Broken}
      /\ failures \in Nat /\ failures \in 0..MaxFailures
      /\ promised \subseteq Versions
      /\ pc \in Installing => what \in Versions
  BY VersionsAssumption DEF F!TypeOK, Folders, Installing
<1>e. Earned(target) /\ Earned(staged) /\ Earned(aside)
  BY DEF F!TrustIsEarned, Earned
<1>f. F!Fails => failures' \in 0..MaxFailures /\ failures' = failures + 1
  BY <1>t, VersionsAssumption DEF F!Fails
<1>w. F!Works => failures' = failures
  BY DEF F!Works
<1>n. ASSUME target' \in Folders, staged' \in Folders, aside' \in Folders,
             Earned(target'), Earned(staged'), Earned(aside'),
             pc' \in F!Steps, trust' \in {"none", "signed"},
             what' \in Versions \cup {None, Broken},
             listed' \in Versions \cup {None, Broken},
             failures' \in 0..MaxFailures, promised' \subseteq Versions,
             pc' \in Installing => what' \in Versions
      PROVE  F!TypeOK' /\ F!TrustIsEarned'
  BY <1>n DEF F!TypeOK, F!TrustIsEarned, Folders, Earned, Installing
<1>1. ASSUME NEW v \in Versions, NEW t \in {"none", "signed"}, F!Install(v, t)
      PROVE  FoldersInv'
  <2>1. F!TypeOK' /\ F!TrustIsEarned'
    BY <1>t, <1>e, <1>n, <1>1, LoadFacts
    DEF F!Install, F!Steps, Installing, F!disk, Folders, Earned
  <2>2. Placed'
    BY <1>1 DEF F!Install, Placed, F!disk, Installing
  <2>3. Kept'
    BY <1>1 DEF F!Install, Kept, F!Found, F!disk, Installing
  <2> QED
    BY <2>1, <2>2, <2>3
<1>2. CASE F!CopyPlugin
  <2>1. F!TypeOK' /\ F!TrustIsEarned'
    BY <1>t, <1>e, <1>f, <1>w, <1>n, <1>2, CutFacts, CopyFacts, LoadFacts
    DEF F!CopyPlugin, F!Steps, Installing, F!Done, F!Refused, Folders, Earned
  <2>2. Placed'
    BY <1>t, <1>f, <1>w, <1>2 DEF F!CopyPlugin, Placed, F!Done, F!Refused, Installing
  <2>3. Kept'
    BY <1>t, <1>f, <1>w, <1>2 DEF F!CopyPlugin, Kept, F!Found, F!Done, F!Refused, Installing
  <2> QED
    BY <2>1, <2>2, <2>3
<1>3. CASE F!ClearAside
  <2>1. F!TypeOK' /\ F!TrustIsEarned'
    BY <1>t, <1>e, <1>f, <1>w, <1>n, <1>3, CutFacts, LoadFacts
    DEF F!ClearAside, F!Steps, Installing, F!Done, F!Refused, Folders, Earned
  <2>2. Placed'
    BY <1>t, <1>f, <1>3 DEF F!ClearAside, Placed, F!Done, F!Refused, Installing
  <2>3. Kept'
    BY <1>t, <1>f, <1>w, <1>3, LoadFacts
    DEF F!ClearAside, Kept, F!Found, F!Done, F!Refused, Installing
  <2> QED
    BY <2>1, <2>2, <2>3
<1>4. CASE F!MoveAside
  <2>1. F!TypeOK' /\ F!TrustIsEarned'
    BY <1>t, <1>e, <1>f, <1>w, <1>n, <1>4, LoadFacts, DroppedStaged
    DEF F!MoveAside, F!Steps, Installing, F!Done, F!Refused, Folders, Earned
  <2>2. Placed'
    BY <1>t, <1>f, <1>4 DEF F!MoveAside, Placed, F!Done, F!Refused, Installing
  <2>3. Kept'
    BY <1>t, <1>f, <1>w, <1>4 DEF F!MoveAside, Kept, F!Found, F!Done, F!Refused, Installing
  <2> QED
    BY <2>1, <2>2, <2>3
<1>5. CASE F!MoveIn
  <2>1. F!TypeOK' /\ F!TrustIsEarned'
    BY <1>t, <1>e, <1>f, <1>w, <1>n, <1>5, LoadFacts, DroppedStaged
    DEF F!MoveIn, F!Steps, Installing, F!Done, F!Refused, Folders, Earned
  <2>2. Placed'
    BY <1>t, <1>f, <1>5, CopyFacts DEF F!MoveIn, Placed, F!Done, F!Refused, Installing
  <2>3. Kept'
    BY <1>t, <1>f, <1>w, <1>5
    DEF F!MoveIn, Kept, F!Found, F!Done, F!Refused, Installing, Placed
  <2> QED
    BY <2>1, <2>2, <2>3
<1>6. CASE F!PutBack
  <2>1. F!TypeOK' /\ F!TrustIsEarned'
    BY <1>t, <1>e, <1>f, <1>w, <1>n, <1>6, LoadFacts, DroppedStaged
    DEF F!PutBack, F!Steps, Installing, F!Done, F!Refused, Folders, Earned
  <2>2. Placed'
    BY <1>t, <1>f, <1>6 DEF F!PutBack, Placed, F!Done, F!Refused, Installing
  <2>3. Kept'
    BY <1>t, <1>f, <1>w, <1>6
    DEF F!PutBack, Kept, F!Found, F!Done, F!Refused, Installing, Placed
  <2> QED
    BY <2>1, <2>2, <2>3
<1>7. CASE F!Clean
  <2>1. F!TypeOK' /\ F!TrustIsEarned'
    BY <1>t, <1>e, <1>f, <1>w, <1>n, <1>7, CutFacts, LoadFacts
    DEF F!Clean, F!Steps, Installing, Folders, Earned
  <2>2. Placed'
    BY <1>t, <1>f, <1>7 DEF F!Clean, Placed, Installing
  <2>3. Kept'
    BY <1>t, <1>f, <1>w, <1>7 DEF F!Clean, Kept, F!Found, Installing
  <2> QED
    BY <2>1, <2>2, <2>3
<1>8. CASE F!Mark
  <2>0. /\ target' \in F!Folder /\ target' # Absent
        /\ target'.version = what /\ target'.state = "whole"
        /\ target'.marker = "signed" => what \in Signed
    <3>1. target \in F!Folder /\ target.version = what /\ target.state = "whole"
      BY <1>t, <1>8 DEF F!Mark, Placed, Folders
    <3>2. CASE UNCHANGED target
      BY <1>e, <3>1, <3>2, VersionsAssumption DEF Earned
    <3>3. CASE target' = [target EXCEPT !.marker = trust]
      <4>1. /\ target' \in F!Folder /\ target'.version = what
            /\ target'.state = "whole" /\ target'.marker = trust
        BY <1>t, <3>1, <3>3 DEF F!Folder
      <4> QED
        BY <4>1, VersionsAssumption DEF Placed
    <3> QED
      BY <1>8, <3>2, <3>3 DEF F!Mark
  <2>a. what \in Versions
    BY <1>t, <1>8 DEF F!Mark, Installing
  <2>1. F!TypeOK' /\ F!TrustIsEarned'
    BY <1>t, <1>e, <1>f, <1>w, <1>n, <1>8, <2>0
    DEF F!Mark, F!Steps, Installing, F!Done, Folders, Earned
  <2>2. Placed'
    BY <1>t, <1>f, <1>w, <1>8 DEF F!Mark, Placed, F!Done
  <2>b. target' \in Folders
    BY <2>0 DEF Folders
  <2>c. F!Load(target)' = what
    BY <2>0 DEF F!Load
  <2>d. F!Found' = what
    BY <2>0, <2>c DEF F!Found
  <2>3. Kept'
    BY <1>8, <2>c, <2>d DEF F!Mark, Kept, F!Done, Installing
  <2> QED
    BY <2>1, <2>2, <2>3
<1>9. CASE F!Remove
  <2>1. F!TypeOK' /\ F!TrustIsEarned'
    BY <1>t, <1>e, <1>n, <1>9, LoadFacts
    DEF F!Remove, F!Steps, Installing, F!disk, Folders, Earned
  <2>2. Placed'
    BY <1>9 DEF F!Remove, Placed, F!disk, Installing
  <2>3. Kept'
    BY <1>9 DEF F!Remove, Kept, F!Found, F!disk, Installing
  <2> QED
    BY <2>1, <2>2, <2>3
<1>10. CASE F!Delete
  <2>1. F!TypeOK' /\ F!TrustIsEarned'
    BY <1>t, <1>e, <1>f, <1>w, <1>n, <1>10, CutFacts, LoadFacts
    DEF F!Delete, F!Steps, Installing, F!Done, Folders, Earned
  <2>2. Placed'
    BY <1>t, <1>f, <1>w, <1>10 DEF F!Delete, Placed, F!Done, Installing
  <2>3. Kept'
    BY <1>10 DEF F!Delete, Kept, F!Found, F!Done, Installing, Placed
  <2> QED
    BY <2>1, <2>2, <2>3
<1>11. CASE F!Stop
  <2>1. F!TypeOK' /\ F!TrustIsEarned'
    BY <1>t, <1>e, <1>n, <1>11, LoadFacts
    DEF F!Stop, F!Steps, Installing, F!disk, Folders, Earned, F!Ends
  <2>2. Placed'
    BY <1>11 DEF F!Stop, Placed, F!disk, F!Ends, Installing
  <2>3. Kept'
    BY <1>11 DEF F!Stop, Kept, F!Found, F!disk, F!Ends, Installing
  <2> QED
    BY <2>1, <2>2, <2>3
<1>12. CASE F!Crash
  <2>1. F!TypeOK' /\ F!TrustIsEarned'
    BY <1>t, <1>e, <1>f, <1>n, <1>12, CutFacts, CopyFacts, LoadFacts
    DEF F!Crash, F!Steps, Installing, Folders, Earned, F!Ends
  <2>2. Placed'
    BY <1>t, <1>f, <1>12 DEF F!Crash, Placed, F!Ends, Installing
  <2>3. Kept'
    <3> SUFFICES ASSUME promised # {}, failures <= 1
                 PROVE  F!Found' \in promised
      BY <1>t, <1>f, <1>12 DEF F!Crash, F!Ends, Kept, Installing
    <3>1. CASE pc \in {"idle", "copy", "clear", "aside"}
      <4>1. F!Load(target) \in promised /\ target' = target
        BY <1>t, <1>12, <3>1 DEF Kept, F!Crash
      <4>2. target # Absent
        BY <1>t, <4>1, LoadFacts
      <4> QED
        BY <4>1, <4>2 DEF F!Found
    <3>2. CASE pc \in {"in", "back"}
      <4>1. F!Load(aside) \in promised /\ target = Absent
        BY <1>t, <3>2 DEF Kept, Placed
      <4>2. aside' = aside /\ target' = target
        BY <1>12, <3>2 DEF F!Crash
      <4> QED
        BY <4>1, <4>2 DEF F!Found
    <3>3. CASE pc \in {"clean", "mark"}
      <4>1. what \in promised /\ target # Absent /\ F!Load(target) = what
        BY <1>t, <3>3, LoadFacts DEF Kept, Placed, Installing
      <4>2. target' = target
        BY <1>12, <3>3 DEF F!Crash
      <4> QED
        BY <4>1, <4>2 DEF F!Found
    <3>4. CASE pc = "scan"
      <4>1. F!Found \in promised
        BY <1>t, <3>4 DEF Kept
      <4>2. aside' = aside /\ target' = target
        BY <1>12, <3>4 DEF F!Crash
      <4> QED
        BY <4>1, <4>2 DEF F!Found
    <3>5. pc # "delete" /\ pc # "down"
      BY <1>12 DEF Placed, F!Crash
    <3> QED
      BY <1>t, <3>1, <3>2, <3>3, <3>4, <3>5 DEF F!Steps
  <2> QED
    BY <2>1, <2>2, <2>3
<1>13. CASE F!RestoreInterrupted
  <2>1. F!TypeOK' /\ F!TrustIsEarned'
    BY <1>t, <1>e, <1>f, <1>w, <1>n, <1>13, LoadFacts
    DEF F!RestoreInterrupted, F!Steps, Installing, Folders, Earned
  <2>2. Placed'
    BY <1>t, <1>f, <1>w, <1>13 DEF F!RestoreInterrupted, Placed, Installing
  <2>3. Kept'
    BY <1>t, <1>f, <1>w, <1>13 DEF F!RestoreInterrupted, Kept, F!Found, Installing
  <2> QED
    BY <2>1, <2>2, <2>3
<1>14. CASE F!Scan
  <2>1. F!TypeOK' /\ F!TrustIsEarned'
    BY <1>t, <1>e, <1>n, <1>14, LoadFacts
    DEF F!Scan, F!Steps, Installing, F!disk, Folders, Earned
  <2>2. Placed'
    BY <1>14 DEF F!Scan, Placed, F!disk, Installing
  <2>3. Kept'
    BY <1>t, <1>14, LoadFacts DEF F!Scan, Kept, F!Found, F!disk, Installing, Placed
  <2> QED
    BY <2>1, <2>2, <2>3
<1>15. CASE UNCHANGED F!vars
  BY <1>15 DEF F!vars, F!disk, F!TypeOK, F!TrustIsEarned, Placed, Kept, F!Found
<1> QED
  BY <1>1, <1>2, <1>3, <1>4, <1>5, <1>6, <1>7, <1>8, <1>9, <1>10, <1>11, <1>12, <1>13, <1>14, <1>15
  DEF F!Next

LEMMA FoldersInit == F!Init => FoldersInv
BY VersionsAssumption
DEF F!Init, FoldersInv, F!TypeOK, F!TrustIsEarned, Placed, Kept, F!Steps, Installing

\* PluginHost's steps leave the folders alone.
LEMMA FoldersHold == PluginSpec => []FoldersInv
<1>1. PluginInit => FoldersInv
  BY FoldersInit DEF PluginInit
<1>2. ASSUME FoldersInv, [InFolders \/ InHost]_<<part, folders, host>>
      PROVE  [F!Next]_(F!vars)
  BY <1>2 DEF InFolders, InHost, folders, F!vars, F!disk
<1>3. FoldersInv /\ [InFolders \/ InHost]_<<part, folders, host>> => FoldersInv'
  BY <1>2, FoldersNext
<1> QED
  BY <1>1, <1>3, PTL DEF PluginSpec

\* The folders, the operation and the list keep their types (install.rs).
THEOREM FolderTypes == PluginSpec => []F!TypeOK
<1>1. FoldersInv => F!TypeOK
  BY DEF FoldersInv
<1> QED
  BY <1>1, FoldersHold, PTL

\* No failure and no crash makes a folder say it was signed when its package
\* was not, for any set of versions and any number of failures.
THEOREM TrustEarned == PluginSpec => []TrustIsEarned
<1>1. FoldersInv => TrustIsEarned
  BY DEF FoldersInv, TrustIsEarned
<1> QED
  BY <1>1, FoldersHold, PTL

\* After no more than one failure, the plugin that runs is the one in its folder.
THEOREM ListedInPlace == PluginSpec => []ListedIsInPlace
<1>1. FoldersInv => ListedIsInPlace
  BY DEF FoldersInv, Kept, ListedIsInPlace, F!ListedIsInPlace, F!TypeOK
<1> QED
  BY <1>1, FoldersHold, PTL

\* After no more than two failures, a start finds a promised version.
THEOREM InstallSurvives == PluginSpec => Survives
<1>1. ASSUME FoldersInv, [InFolders \/ InHost]_<<part, folders, host>>
      PROVE  [pc = "scan" /\ pc' = "idle" /\ promised # {} /\ failures <= 2
                => F!Found \in promised]_(F!vars)
  BY <1>1 DEF FoldersInv, Kept
<1> QED
  BY <1>1, FoldersHold, PTL DEF PluginSpec, Survives, F!Survives

=============================================================================
