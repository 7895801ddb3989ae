--------------------------- MODULE PluginInstall ---------------------------
(***************************************************************************)
(* The folders of one plugin while it is installed, replaced, removed and  *)
(* found again at the next start (ulanzi-deckd/src/plugins/install.rs,     *)
(* supervisor.rs).                                                         *)
(*                                                                         *)
(* A plugin lives in plugins/<id>.  A new version is copied to <id>.new,   *)
(* the old one moved aside to .<id>.old, the new one moved in and the old  *)
(* one deleted; at start, a folder aside without one in place is moved     *)
(* back.  Every call on the file system may fail, and the service may die  *)
(* between any two of them or within a deletion or a copy.  A rename is    *)
(* atomic.  Packages are unpacked and checked before any of this, and the  *)
(* checked folder does not change while it is copied.  Instances and their *)
(* statuses are in PluginHost.                                             *)
(***************************************************************************)
EXTENDS Naturals

CONSTANTS
  Versions,     \* versions of the plugin
  Signed,       \* those whose package has a good signature
  Absent,       \* no folder
  None,         \* the host does not list the plugin
  Broken,       \* listed, but its folder cannot be loaded (Incompatible)
  MaxFailures   \* bound: calls that fail and crashes, together

\* What is in a folder; VERIFIED_MARKER is the host's note that the package
\* was signed.
Folder == [version : Versions, state : {"whole", "part"},
           marker : {"none", "signed"}]
\* Mutant: every file of the package is copied, a marker too.
CopyAll(v) == [version |-> v, state |-> "whole", marker |-> "signed"]
Copy(v) == [version |-> v, state |-> "whole", marker |-> "none"]

VARIABLES
  target,    \* <id>
  staged,    \* <id>.new
  aside,     \* .<id>.old
  pc,        \* what the operation that holds `ops` does next
  what,      \* what it installs, or what it took off the list
  trust,     \* what the marker will say
  listed,    \* the host's entry
  failures,  \* failed calls and crashes so far
  promised   \* versions one of which a start must find (history)

disk == <<target, staged, aside>>
vars == <<disk, pc, what, trust, listed, failures, promised>>

Steps == {"idle", "copy", "clear", "aside", "in", "back", "clean", "mark",
          "delete", "down", "scan"}

Init ==
  /\ target = Absent /\ staged = Absent /\ aside = Absent
  /\ pc = "idle" /\ what = None /\ trust = "none" /\ listed = None
  /\ failures = 0 /\ promised = {}

(***************************************************************************)
(* Calls on the file system                                                *)
(***************************************************************************)
Works == UNCHANGED failures
Fails == failures < MaxFailures /\ failures' = failures + 1

\* What a deletion cut short leaves: any of its files may be gone, and
\* without plugin.toml or plugin.wasm the folder does not load.
Cut(f) ==
  IF f = Absent THEN {Absent}
  ELSE {[f EXCEPT !.state = s, !.marker = m] :
          s \in {f.state, "part"}, m \in {f.marker, "none"}}

\* load_folder: a folder that is not whole has no manifest or no module.
Load(f) == IF f = Absent THEN None
           ELSE IF f.state = "whole" THEN f.version ELSE Broken

\* What a start finds whose calls on the file system work.
Found == IF target # Absent THEN Load(target) ELSE Load(aside)

\* The operation ends, and drops `ops`.
Done == pc' = "idle" /\ what' = None /\ trust' = "none"

\* It ends with an error: what was listed still is, and is still promised.
Refused == Done /\ promised' = promised \cap {listed} /\ UNCHANGED listed

DropStaged == staged' \in {Absent} \cup Cut(staged)

(***************************************************************************)
(* Installing                                                              *)
(***************************************************************************)
\* install_checked with the lock: a signed package, or an unsigned one or a
\* folder (Developer mode).
Install(v, t) ==
  /\ pc = "idle"
  /\ t = "signed" => v \in Signed
  /\ pc' = "copy" /\ what' = v /\ trust' = t
  /\ promised' = (IF promised = {} THEN {} ELSE promised \cup {v})
  /\ UNCHANGED <<disk, listed, failures>>

CopyPlugin ==
  /\ pc = "copy"
  /\ \/ /\ Works
        /\ staged' = Copy(what)
        /\ pc' = "clear" /\ UNCHANGED <<what, trust, listed, promised>>
     \/ /\ Fails
        /\ staged' \in Cut(Copy(what)) \cup {Absent, staged}
        /\ Refused
  /\ UNCHANGED <<target, aside>>

ClearAside ==
  /\ pc = "clear"
  /\ \/ /\ Works
        /\ aside' = Absent
        /\ pc' = "aside" /\ UNCHANGED <<what, trust, listed, promised>>
     \/ /\ aside # Absent /\ Fails
        /\ aside' \in Cut(aside)
        /\ Refused
  /\ UNCHANGED <<target, staged>>

\* Afterwards had_old is whether there is a folder aside.
MoveAside ==
  /\ pc = "aside"
  /\ \/ /\ Works
        /\ aside' = target /\ target' = Absent
        /\ pc' = "in" /\ UNCHANGED <<what, trust, staged, listed, promised>>
     \/ /\ target # Absent /\ Fails
        /\ DropStaged /\ Refused
        /\ UNCHANGED <<target, aside>>

\* Mutant: the old folder is not put back.
MoveInOnly ==
  /\ pc = "in"
  /\ \/ /\ Works
        /\ target' = staged /\ staged' = Absent
        /\ pc' = "clean" /\ UNCHANGED <<what, trust, listed, promised>>
     \/ Fails /\ DropStaged /\ Refused /\ UNCHANGED target
  /\ UNCHANGED aside

MoveIn ==
  /\ pc = "in"
  /\ \/ /\ Works
        /\ target' = staged /\ staged' = Absent
        /\ pc' = "clean" /\ UNCHANGED <<what, trust, listed, promised>>
     \/ /\ Fails
        /\ IF aside # Absent
           THEN pc' = "back" /\ UNCHANGED <<staged, what, trust, listed, promised>>
           ELSE DropStaged /\ Refused
        /\ UNCHANGED target
  /\ UNCHANGED aside

PutBack ==
  /\ pc = "back"
  /\ \/ Works /\ target' = aside /\ aside' = Absent
     \/ Fails /\ UNCHANGED <<target, aside>>
  /\ DropStaged /\ Refused

\* A failure is only logged.
Clean ==
  /\ pc = "clean"
  /\ \/ Works /\ aside' = Absent
     \/ aside # Absent /\ Fails /\ aside' \in Cut(aside)
  /\ pc' = "mark"
  /\ UNCHANGED <<target, staged, what, trust, listed, promised>>

\* The marker is written, or deleted; installed() lists the new version.
Mark ==
  /\ pc = "mark"
  /\ \/ Works /\ target' = [target EXCEPT !.marker = trust]
     \/ Fails /\ UNCHANGED target
  /\ listed' = what /\ promised' = {what}
  /\ Done
  /\ UNCHANGED <<staged, aside>>

(***************************************************************************)
(* Removing                                                                *)
(***************************************************************************)
Remove ==
  /\ pc = "idle" /\ listed # None
  /\ pc' = "delete" /\ what' = listed /\ listed' = None
  /\ promised' = {}
  /\ UNCHANGED <<disk, trust, failures>>

Delete ==
  /\ pc = "delete"
  /\ \/ /\ Works
        /\ target' = Absent /\ UNCHANGED listed
     \/ /\ target # Absent /\ Fails
        /\ target' \in Cut(target) /\ listed' = what
  /\ Done
  /\ UNCHANGED <<staged, aside, promised>>

(***************************************************************************)
(* The service ends, and starts again                                      *)
(***************************************************************************)
Ends == pc' = "down" /\ what' = None /\ trust' = "none" /\ listed' = None

\* shutdown waits for the operation that runs.
Stop == pc = "idle" /\ Ends /\ UNCHANGED <<disk, failures, promised>>

\* Killed: a copy or a deletion may be half done.
Crash ==
  /\ pc # "down" /\ Fails
  /\ staged' \in (IF pc = "copy" THEN Cut(Copy(what)) \cup {Absent, staged}
                                 ELSE {staged})
  /\ aside' \in (IF pc \in {"clear", "clean"} THEN Cut(aside) ELSE {aside})
  /\ target' \in (IF pc = "delete" THEN Cut(target) ELSE {target})
  /\ Ends
  /\ UNCHANGED promised

\* Mutant: the folder aside is taken for a leftover.
RestoreNothing ==
  /\ pc = "down"
  /\ aside' = Absent /\ pc' = "scan"
  /\ UNCHANGED <<target, staged, what, trust, listed, failures, promised>>

RestoreInterrupted ==
  /\ pc = "down"
  /\ IF aside # Absent /\ target = Absent
     THEN \/ Works /\ target' = aside /\ aside' = Absent
          \/ Fails /\ UNCHANGED <<target, aside>>
     ELSE Works /\ UNCHANGED <<target, aside>>
  /\ pc' = "scan"
  /\ UNCHANGED <<staged, what, trust, listed, promised>>

Scan ==
  /\ pc = "scan"
  /\ listed' = Load(target)
  /\ promised' = {Found} \cap Versions
  /\ pc' = "idle"
  /\ UNCHANGED <<disk, what, trust, failures>>

Next ==
  \/ \E v \in Versions, t \in {"none", "signed"} : Install(v, t)
  \/ CopyPlugin \/ ClearAside \/ MoveAside \/ MoveIn \/ PutBack \/ Clean \/ Mark
  \/ Remove \/ Delete
  \/ Stop \/ Crash \/ RestoreInterrupted \/ Scan

Spec == Init /\ [][Next]_vars

(***************************************************************************)
(* Properties                                                              *)
(***************************************************************************)
\* The state has the declared types.
TypeOK ==
  /\ target \in Folder \cup {Absent}
  /\ staged \in Folder \cup {Absent}
  /\ aside \in Folder \cup {Absent}
  /\ pc \in Steps /\ trust \in {"none", "signed"}
  /\ what \in Versions \cup {None, Broken}
  /\ listed \in Versions \cup {None, Broken}
  /\ failures \in 0..MaxFailures
  /\ promised \subseteq Versions
  /\ pc \in {"copy", "clear", "aside", "in", "back", "clean", "mark"}
       => what \in Versions

\* Whatever fails or dies in an installation, the next start finds the version
\* that was installed or the one that was being installed, and it loads; at the
\* least it is aside for a later start, when this one cannot move it (swap_in
\* puts the old folder back, restore_interrupted does at the start).  That is as
\* long as no more than two calls or starts fail: a new folder that cannot be
\* moved in, the old one that cannot be put back, and the next installation
\* deletes it before it fails too.
Survives ==
  [][pc = "scan" /\ pc' = "idle" /\ promised # {} /\ failures <= 2
       => Found \in promised]_vars

\* A folder that says it was signed holds a version whose package was: the
\* marker is the host's, is written after the folders were exchanged and moves
\* with its folder.
TrustIsEarned ==
  \A f \in {target, staged, aside} :
    f # Absent /\ f.marker = "signed" => f.version \in Signed

\* Between operations, after no more than one failure or crash, the plugin
\* listed and run from memory is the one in its folder: an installation that
\* failed did not leave another, or half a one, for the next start.
ListedIsInPlace ==
  pc = "idle" /\ promised # {} /\ failures <= 1
    => listed \in promised /\ Load(target) = listed
=============================================================================
