------------------------------ MODULE MCPlugin ------------------------------
(***************************************************************************)
(* A plugin in the host (PluginHost) and on disk (PluginInstall), for TLC. *)
(* The modules share no state: a behaviour is one of the part that `part`  *)
(* names, and the other stays as it starts.                                *)
(***************************************************************************)
EXTENDS PluginHost, Naturals, TLC

CONSTANTS
  Versions, Signed, Absent, MaxFailures   \* PluginInstall

VARIABLES
  part,
  target, staged, aside, pc, what, trust, listed, failures, promised

F == INSTANCE PluginInstall

\* What PluginInstall is told of versions, and of what stands for no folder,
\* no version and one that does not load.
ASSUME VersionsAssumption ==
  /\ Signed \subseteq Versions
  /\ None \notin Versions /\ Broken \notin Versions /\ None # Broken
  /\ Absent \notin F!Folder
  /\ MaxFailures \in Nat

\* Three numbers let an old instance stop, a cancelled start linger and a new
\* start be on its way at the same time.
Symmetry == Permutations(Attempts)

host == vars
folders == <<target, staged, aside, pc, what, trust, listed, failures, promised>>

\* Every initial state of the part that moves, one of the other.
PluginInit ==
  /\ part \in {"folders", "host"}
  /\ Init /\ F!Init
  /\ part # "host" => plugin = None /\ cfg.enabled /\ stored = None

InFolders == part = "folders" /\ F!Next /\ UNCHANGED <<part, host>>
InHost == part = "host" /\ Next /\ UNCHANGED <<part, folders>>
PluginSpec ==
  PluginInit /\ [][InFolders \/ InHost]_<<part, folders, host>>

\* PluginInstall: a folder that says it was signed holds a signed version.
TrustIsEarned == F!TrustIsEarned
\* PluginInstall: between operations, what is listed is what is in its folder.
ListedIsInPlace == F!ListedIsInPlace
\* PluginInstall: the next start finds the old version or the new one.
Survives == F!Survives
=============================================================================
