------------------------------ MODULE Updates ------------------------------
(***************************************************************************)
(* How a new version of the app is found, downloaded and put in place:     *)
(* ulanzi-deckd/src/updates, the Update calls of dbus.rs, and what is      *)
(* remembered in updates.toml (ulanzi-core/src/update.rs).                 *)
(*                                                                         *)
(* Every change of updates.toml reads the whole file and writes the whole  *)
(* file, on a thread of its own and without a lock; a check asks GitHub in *)
(* between, for up to 30 s.  Releases are numbered in the order they come  *)
(* out.  Abstract: when the last check was, when What's New was shown (the *)
(* window's word, written as setting the check is), what is in a release   *)
(* (each has what this install needs), the signature: a file that is       *)
(* broken or forged fails verify::check.                                   *)
(***************************************************************************)
EXTENDS Naturals

CONSTANTS
  Newest,     \* bound: releases that come out
  MaxCalls,   \* bound: calls of the window that change updates.toml or check
  MaxStops,   \* bound: stops of the service
  MaxInstalls \* bound: versions the user installs by hand

Releases == 1..Newest
None == 0
Half == Newest + 1  \* a file that is not all there

\* The daily check and the window, which makes one call at a time.
Tasks == {"daily", "window"}

VARIABLES
  latest,     \* the latest release on GitHub (external)
  current,    \* the version that runs
  highest,    \* the highest that ever ran
  memory,     \* updates.toml
  calls,      \* what each task is at, and its copy of updates.toml
  dismissed,  \* the version of the last UpdateSkip that returned
  folder,     \* the cache folder of each release: the file in it
  fetching,   \* the release UpdateDownload is downloading
  swap,       \* the release UpdateApply is putting in place
  beside,     \* the file .<name>.new beside the AppImage
  image,      \* the AppImage
  used        \* how much of each bound is used

vars == <<latest, current, highest, memory, calls, dismissed, folder, fetching,
          swap, beside, image, used>>
files == <<folder, fetching, swap, beside, image>>
versions == <<latest, current, highest>>

Idle == [at |-> "idle"]

\* check::to_offer
ToOffer(m) ==
  IF m.offered > current /\ m.offered # m.skipped THEN m.offered ELSE None

Init ==
  /\ latest = 1 /\ current = 1 /\ highest = 1
  /\ memory = [check |-> TRUE, etag |-> None, offered |-> None, skipped |-> None]
  /\ calls = [t \in Tasks |-> Idle]
  /\ dismissed = None
  /\ folder = [r \in Releases |-> None]
  /\ fetching = None /\ swap = None /\ beside = None /\ image = 1
  /\ used = [calls |-> 0, stops |-> 0, installs |-> 0]

(***************************************************************************)
(* updates.toml                                                            *)
(***************************************************************************)
Goes(t, at, m) == calls' = [calls EXCEPT ![t] = [at |-> at, memory |-> m]]

\* A call of the window, counted.
Calls(t) ==
  /\ calls[t] = Idle
  /\ IF t = "window" THEN /\ used.calls < MaxCalls
                          /\ used' = [used EXCEPT !.calls = @ + 1]
                     ELSE UNCHANGED used

\* Once a day while checking is on, and with Check Now.
StartCheck(t) ==
  /\ Calls(t) /\ (t = "daily" => memory.check)
  /\ Goes(t, "asking", memory)
  /\ UNCHANGED <<versions, memory, dismissed, files>>

\* What a 200 puts into the copy: the release if it is newer than this one,
\* else the one this copy is, for What's New.
Answer(m) ==
  LET installed == IF m.offered = current THEN current ELSE None
  IN [m EXCEPT !.etag = latest, !.offered = IF latest > current THEN latest ELSE installed]

\* Mutant: without a new answer nothing is on offer.
AnsweredForgets(t) ==
  /\ calls[t].at = "asking"
  /\ Goes(t, "save", IF calls[t].memory.etag = latest
                     THEN [calls[t].memory EXCEPT !.offered = None]
                     ELSE Answer(calls[t].memory))
  /\ UNCHANGED <<versions, memory, dismissed, files, used>>

\* 304 to the tag of the answer it has, else 200.
Answered(t) ==
  /\ calls[t].at = "asking"
  /\ Goes(t, "save", IF calls[t].memory.etag = latest THEN calls[t].memory
                     ELSE Answer(calls[t].memory))
  /\ UNCHANGED <<versions, memory, dismissed, files, used>>

\* No answer, another status, or half an answer.
NotAnswered(t) ==
  /\ calls[t].at = "asking"
  /\ calls' = [calls EXCEPT ![t] = Idle]
  /\ UNCHANGED <<versions, memory, dismissed, files, used>>

\* The window offers to skip what it shows, and a newer one may be on offer by now.
Skip(v) ==
  /\ Calls("window") /\ current < v /\ v <= memory.offered
  /\ Goes("window", "skip", [memory EXCEPT !.skipped = v])
  /\ UNCHANGED <<versions, memory, dismissed, files>>

SetChecking ==
  /\ Calls("window")
  /\ Goes("window", "save", [memory EXCEPT !.check = ~@])
  /\ UNCHANGED <<versions, memory, dismissed, files>>

Save(t) ==
  /\ calls[t].at \in {"save", "skip"}
  /\ memory' = calls[t].memory
  /\ dismissed' = IF calls[t].at = "skip" THEN memory'.skipped ELSE dismissed
  /\ calls' = [calls EXCEPT ![t] = Idle]
  /\ UNCHANGED <<versions, files, used>>

(***************************************************************************)
(* Download and install                                                    *)
(***************************************************************************)
\* One download at a time; a file that is there and checks out is kept.
Download ==
  LET r == ToOffer(memory)
  IN /\ fetching = None /\ r # None /\ folder[r] # r
     /\ fetching' = r /\ folder' = [folder EXCEPT ![r] = Half]
     /\ UNCHANGED <<versions, memory, calls, dismissed, swap, beside, image, used>>

\* Mutant: what arrived is kept and not verified.
ArrivedUnverified(whole) ==
  /\ fetching # None
  /\ folder' = [folder EXCEPT ![fetching] = IF whole THEN fetching ELSE @]
  /\ fetching' = None
  /\ UNCHANGED <<versions, memory, calls, dismissed, swap, beside, image, used>>

\* The file is whole and verified, or the folder is removed.
Arrived(whole) ==
  /\ fetching # None
  /\ folder' = [folder EXCEPT ![fetching] = IF whole THEN fetching ELSE None]
  /\ fetching' = None
  /\ UNCHANGED <<versions, memory, calls, dismissed, swap, beside, image, used>>

\* UpdateApply, of which the window makes one at a time: what is on offer now
\* must be there and check out.  Mutant: it is copied over the AppImage.
ApplyOver ==
  LET r == ToOffer(memory)
  IN /\ swap = None /\ r # None /\ folder[r] = r
     /\ swap' = r /\ image' = Half
     /\ UNCHANGED <<versions, memory, calls, dismissed, folder, fetching, beside, used>>

Apply ==
  LET r == ToOffer(memory)
  IN /\ swap = None /\ r # None /\ folder[r] = r
     /\ swap' = r /\ beside' = Half
     /\ UNCHANGED <<versions, memory, calls, dismissed, folder, fetching, image, used>>

\* The copy fails, or is there, down to the disk.
Copied(whole) ==
  /\ swap # None /\ beside = Half
  /\ beside' = (IF whole THEN swap ELSE None)
  /\ swap' = (IF whole THEN swap ELSE None)
  /\ UNCHANGED <<versions, memory, calls, dismissed, folder, fetching, image, used>>

Swapped ==
  /\ swap # None /\ beside = swap
  /\ image' = beside /\ beside' = None /\ swap' = None
  /\ UNCHANGED <<versions, memory, calls, dismissed, folder, fetching, used>>

(***************************************************************************)
(* The world                                                               *)
(***************************************************************************)
Released ==
  /\ latest < Newest /\ latest' = latest + 1
  /\ UNCHANGED <<current, highest, memory, calls, dismissed, files, used>>

\* The service stops where it is and starts again from the AppImage.
Restart ==
  /\ used.stops < MaxStops /\ image # Half
  /\ used' = [used EXCEPT !.stops = @ + 1]
  /\ calls' = [t \in Tasks |-> Idle]
  /\ fetching' = None /\ swap' = None
  /\ current' = image /\ highest' = (IF image > highest THEN image ELSE highest)
  /\ UNCHANGED <<latest, memory, dismissed, folder, beside, image>>

\* The user puts another version there, a newer or an older one.
InstallByHand(r) ==
  /\ r <= latest /\ r # image /\ used.installs < MaxInstalls
  /\ used' = [used EXCEPT !.installs = @ + 1]
  /\ image' = r
  /\ UNCHANGED <<versions, memory, calls, dismissed, folder, fetching, swap, beside>>

Next ==
  \/ \E t \in Tasks : StartCheck(t) \/ Answered(t) \/ NotAnswered(t) \/ Save(t)
  \/ SetChecking \/ \E r \in Releases : Skip(r) \/ InstallByHand(r)
  \/ Download \/ Apply \/ Swapped \/ \E whole \in BOOLEAN : Arrived(whole) \/ Copied(whole)
  \/ Released \/ Restart

\* A day passes, GitHub answers one day or other, and a check that was
\* answered saves.
Fairness ==
  /\ WF_vars(StartCheck("daily")) /\ SF_vars(Answered("daily")) /\ WF_vars(Save("daily"))
  /\ WF_vars(Answered("daily") \/ NotAnswered("daily"))

Spec == Init /\ [][Next]_vars /\ Fairness

(***************************************************************************)
(* Properties                                                              *)
(***************************************************************************)
\* A release newer than every version that ran here comes to be offered by the
\* daily check (or a newer one does), however checks, calls that write
\* updates.toml, failures and restarts fall, unless the user turns the check
\* off, skips the release or installs it.
NewComesUp ==
  \A r \in Releases :
    latest = r /\ highest < r ~>
      \/ ToOffer(memory) >= r \/ current >= r \/ ~memory.check \/ memory.skipped >= r

\* The AppImage is a whole, released version at every moment, wherever a
\* download or the swap is broken off; so is what waits to be installed, and
\* nothing but a download that runs, or was stopped with the service, is half.
ImageIsWhole ==
  /\ image \in 1..latest
  /\ \A r \in Releases : folder[r] \in {None, r, Half}
  /\ swap # None => folder[swap] = swap
  /\ used.stops = 0 => \A r \in Releases : folder[r] = Half => fetching = r

\* "Skip This Version: hides the banner until a newer version is out"
\* (docs/user-guide.md:400): what was skipped last is not on offer.
SkippedIsHidden == dismissed # None => ToOffer(memory) # dismissed
=============================================================================
