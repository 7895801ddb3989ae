------------------------------- MODULE MCApart -------------------------------
(***************************************************************************)
(* For TLC, two parts of the system that have nothing to do with each      *)
(* other, or with what the other runs explore: the editor of the app       *)
(* (Editor) and an instance of a plugin (PluginInstance).  A behaviour is  *)
(* one of the part that `part` names, and the other stays as it starts.    *)
(***************************************************************************)
EXTENDS MCEditor

CONSTANTS
  Actions, Sockets, Requests, Timers, Sizes, Places, Room,
  MaxSockets, MaxFetches, MaxTimers, MaxUnsent, MaxSends, MaxStarted

\* Ids of sockets and requests come of one count (Net::next_id), and no message,
\* piece read or body is larger than QUEUED_NET.
ASSUME InstanceAssumption ==
  /\ Sockets \cup Requests \subseteq Nat /\ IsFiniteSet(Sockets \cup Requests)
  /\ Sockets \cap Requests = {} /\ Timers \subseteq Nat
  /\ {Places, Room, MaxSockets, MaxFetches} \subseteq Nat /\ Sizes \subseteq 0..Room
  /\ "none" \notin Actions

VARIABLES
  part,
  thread, stop, serving, answers, queue, used, sockets, fetches, timers, started,
  tasks, sent, wire

I == INSTANCE PluginInstance

editor == vars
instance ==
  <<thread, stop, serving, answers, queue, used, sockets, fetches, timers, started,
    tasks, sent, wire>>

ApartInit == part \in {"editor", "instance"} /\ Init /\ I!Init

InEditor == part = "editor" /\ Next /\ UNCHANGED <<part, instance>>
InInstance == part = "instance" /\ I!Next /\ UNCHANGED <<part, editor>>

ApartSpec == ApartInit /\ [][InEditor \/ InInstance]_<<part, editor, instance>>

\* PluginInstance: room and places come back, and no task sleeps over free room.
RoomIsKept == part = "instance" => I!RoomIsKept
\* PluginInstance: data goes out before a close, an action gets its answer.
NothingForgotten == part = "instance" => I!NothingForgotten
=============================================================================
