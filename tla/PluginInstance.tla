-------------------------- MODULE PluginInstance --------------------------
(***************************************************************************)
(* One instance of a plugin from the inside: its thread, its event queue,  *)
(* and the tasks of its timers, sockets and requests                       *)
(* (ulanzi-deckd/src/plugins/instance.rs and net.rs).                      *)
(*                                                                         *)
(* The thread takes one event at a time and calls the guest, which calls   *)
(* the host in turn; tasks post events of their own.  The queue is bounded *)
(* and an event that finds it full is dropped.  Tasks with network data    *)
(* first reserve room for it (Budget).                                     *)
(*                                                                         *)
(* A payload to send is two bytes, numbered through; what arrives has a    *)
(* size and no content.  Ids are not used twice (they are 32 bits wide).   *)
(* Permissions, TLS and what a message says are left out, and so are state *)
(* values and secrets, which PluginHost has.                               *)
(***************************************************************************)
EXTENDS Naturals, SequencesExt

CONSTANTS
  Actions,     \* actions the host asks for
  Sockets, Requests,   \* ids, disjoint sets of numbers
  Timers,
  Sizes,       \* sizes of what arrives, up to Room
  Places,      \* EVENT_QUEUE
  Room,        \* QUEUED_NET
  MaxSockets, MaxFetches, MaxTimers, MaxUnsent,
  MaxSends,    \* bound: payloads sent
  MaxStarted   \* bound: timers, sockets and requests started

Ids == Sockets \cup Requests

VARIABLES
  thread,    \* of the instance: it starts in a call, to instantiate the guest
  stop,      \* InstanceHandle::stop was called
  serving,   \* the action of the call, or "none"
  answers,   \* what the host knows of each action
  queue,     \* events
  used,      \* Budget.used
  sockets,   \* Net.sockets: of each socket, whether the plugin's end is "open" or "closed"
  fetches,   \* Net.fetches
  timers,    \* HostState.timers: "once", "repeats" or, done, "fired"
  started,   \* timer ids used (HostState.last_timer)
  tasks,     \* of each socket and request
  sent,      \* payloads a socket took from the guest (history)
  wire       \* bytes a socket wrote (history)

net == <<used, sockets, fetches, tasks, sent, wire>>
life == <<thread, stop, serving>>
vars == <<life, answers, queue, net, timers, started>>

\* The steps of a task; "check" to "post" are Budget::post.
TaskSteps == {"unused", "opening", "relay", "write", "check", "asleep", "post",
              "closing", "drain", "done"}

\* pending: bytes taken from the plugin and not yet written; marks: "notified",
\* room was freed since it registered; "lost", the plugin will not hear of the
\* end; "cut", the connection did not come, failed or was not given the time.
Unused == [step |-> "unused", data |-> <<>>, pending |-> <<>>, size |-> 0, marks |-> {}]

Event(kind, id, n) == [kind |-> kind, id |-> id, n |-> n]

Init ==
  /\ thread = "call" /\ stop = FALSE /\ serving = "none"
  /\ answers = [a \in Actions |-> "none"]
  /\ queue = <<>> /\ used = 0
  /\ sockets = [s \in {} |-> "open"] /\ fetches = {} /\ timers = [t \in {} |-> "once"] /\ started = {}
  /\ tasks = [i \in Ids |-> Unused]
  /\ sent = [s \in Sockets |-> 0] /\ wire = [s \in Sockets |-> <<>>]

Full == Len(queue) >= Places

\* Queue::post: an event that finds no place is dropped.
Posts(e) == queue' = IF Full THEN queue ELSE Append(queue, e)

(***************************************************************************)
(* The host                                                                *)
(***************************************************************************)
\* A full queue drops the action: the plugin is busy.
PostAction(a) ==
  /\ answers[a] = "none" /\ thread # "gone"
  /\ Posts(Event("action", a, 0))
  /\ answers' = [answers EXCEPT ![a] = IF Full THEN "over" ELSE "waiting"]
  /\ UNCHANGED <<life, net, timers, started>>

\* The event only wakes the thread up.
Stop ==
  /\ ~stop /\ stop' = TRUE /\ thread # "gone"
  /\ Posts(Event("stop", 0, 0))
  /\ UNCHANGED <<thread, serving, answers, net, timers, started>>

(***************************************************************************)
(* The budget for network data                                             *)
(***************************************************************************)
\* Released room wakes the tasks that sleep; T are the tasks, with what else
\* changes of them.
Releases(n, T) ==
  /\ used' = used - n
  /\ tasks' = [i \in Ids |->
       IF T[i].step = "asleep" THEN [T[i] EXCEPT !.marks = @ \cup {"notified"}] ELSE T[i]]

\* It registers for what is freed before it checks, so nothing comes between
\* checking and falling asleep.
Check(i) ==
  /\ tasks[i].step = "check"
  /\ IF used + tasks[i].size <= Room
     THEN used' = used + tasks[i].size /\ tasks' = [tasks EXCEPT ![i].step = "post"]
     ELSE used' = used /\ tasks' = [tasks EXCEPT ![i].step = "asleep"]
  /\ UNCHANGED <<life, answers, queue, sockets, fetches, timers, started, sent, wire>>

Freed(i) ==
  /\ tasks[i].step = "asleep" /\ "notified" \in tasks[i].marks
  /\ tasks' = [tasks EXCEPT ![i].step = "check", ![i].marks = @ \ {"notified"}]
  /\ UNCHANGED <<life, answers, queue, used, sockets, fetches, timers, started, sent, wire>>

\* Mutant: the room of a dropped event is not returned.
PostKeepsRoom(i) ==
  /\ tasks[i].step = "post"
  /\ Posts(Event(IF i \in Sockets THEN "message" ELSE "http", i, tasks[i].size))
  /\ tasks' = [tasks EXCEPT ![i].step = IF i \in Sockets THEN "relay" ELSE "done",
                            ![i].size = 0]
  /\ UNCHANGED <<life, answers, used, sockets, fetches, timers, started, sent, wire>>

\* Mutant: the room of a dropped event is returned without a word.
PostFreesSilently(i) ==
  /\ tasks[i].step = "post"
  /\ Posts(Event(IF i \in Sockets THEN "message" ELSE "http", i, tasks[i].size))
  /\ used' = IF Full THEN used - tasks[i].size ELSE used
  /\ tasks' = [tasks EXCEPT ![i].step = IF i \in Sockets THEN "relay" ELSE "done",
                            ![i].size = 0]
  /\ UNCHANGED <<life, answers, sockets, fetches, timers, started, sent, wire>>

\* A request is over then; a socket goes on.
Post(i) ==
  /\ tasks[i].step = "post"
  /\ Posts(Event(IF i \in Sockets THEN "message" ELSE "http", i, tasks[i].size))
  /\ LET T == [tasks EXCEPT ![i].step = IF i \in Sockets THEN "relay" ELSE "done",
                            ![i].size = 0]
     IN IF Full THEN Releases(tasks[i].size, T) ELSE used' = used /\ tasks' = T
  /\ UNCHANGED <<life, answers, sockets, fetches, timers, started, sent, wire>>

(***************************************************************************)
(* Sockets                                                                 *)
(***************************************************************************)
Open(s) == s \in DOMAIN sockets /\ sockets[s] = "open"

Connected(s) ==
  /\ tasks[s].step = "opening"
  /\ tasks' = [tasks EXCEPT ![s].step = "relay"]
  /\ Posts(Event("open", s, 0))
  /\ UNCHANGED <<life, answers, used, sockets, fetches, timers, started, sent, wire>>

\* Not connected in time, an error, or closed by the server.
Ends(s) ==
  /\ tasks[s].step \in {"opening", "relay", "write"}
  /\ tasks[s].step = "relay" => tasks[s].data = <<>>
  /\ tasks' = [tasks EXCEPT ![s].step = "closing", ![s].marks = {"cut"},
                            ![s].data = <<>>, ![s].pending = <<>>]
  /\ UNCHANGED <<life, answers, queue, used, sockets, fetches, timers, started, sent, wire>>

\* What the plugin sent comes first, and all of it before a close.
Sends(s) ==
  /\ tasks[s].step \in {"relay", "drain"}
  /\ tasks[s].pending = <<>> /\ tasks[s].data # <<>>
  /\ LET p == Head(tasks[s].data)
     IN tasks' = [tasks EXCEPT ![s].step = IF @ = "relay" THEN "write" ELSE @,
                               ![s].data = Tail(@), ![s].pending = <<2 * p - 1, 2 * p>>]
  /\ UNCHANGED <<life, answers, queue, used, sockets, fetches, timers, started, sent, wire>>

Writes(s) ==
  /\ tasks[s].step \in {"write", "drain"} /\ tasks[s].pending # <<>>
  /\ wire' = [wire EXCEPT ![s] = Append(@, Head(tasks[s].pending))]
  /\ tasks' = [tasks EXCEPT ![s].pending = Tail(@),
                            ![s].step = IF @ = "write" /\ Tail(tasks[s].pending) = <<>>
                                        THEN "relay" ELSE @]
  /\ UNCHANGED <<life, answers, queue, used, sockets, fetches, timers, started, sent>>

Receives(s, n) ==
  /\ tasks[s].step = "relay" /\ tasks[s].data = <<>>
  /\ tasks' = [tasks EXCEPT ![s].step = "check", ![s].size = n]
  /\ UNCHANGED <<life, answers, queue, used, sockets, fetches, timers, started, sent, wire>>

\* Mutant: a payload caught by the close in the middle is given up.
FinishDropsPending(s) ==
  /\ tasks[s].step \in {"relay", "write", "check", "asleep"} /\ ~Open(s)
  /\ tasks[s].step = "relay" => tasks[s].data = <<>>
  /\ tasks' = [tasks EXCEPT ![s].step = "drain", ![s].pending = <<>>,
                            ![s].size = 0, ![s].marks = {}]
  /\ UNCHANGED <<life, answers, queue, used, sockets, fetches, timers, started, sent, wire>>

\* The plugin closed the socket: wherever the task waits, it goes on to send
\* what is left, and a message it was delivering is given up.
Finish(s) ==
  /\ tasks[s].step \in {"relay", "write", "check", "asleep"} /\ ~Open(s)
  /\ tasks[s].step = "relay" => tasks[s].data = <<>>
  /\ tasks' = [tasks EXCEPT ![s].step = "drain", ![s].size = 0, ![s].marks = {}]
  /\ UNCHANGED <<life, answers, queue, used, sockets, fetches, timers, started, sent, wire>>

\* One that was still connecting ends.
GivesUp(s) ==
  /\ tasks[s].step = "opening" /\ ~Open(s)
  /\ tasks' = [tasks EXCEPT ![s].step = "done", ![s].data = <<>>, ![s].marks = {"cut"}]
  /\ UNCHANGED <<life, answers, queue, used, sockets, fetches, timers, started, sent, wire>>

\* All is sent, and the connection closed.
Drain(s) ==
  /\ tasks[s].step = "drain" /\ tasks[s].pending = <<>> /\ tasks[s].data = <<>>
  /\ tasks' = [tasks EXCEPT ![s].step = "done"]
  /\ UNCHANGED <<life, answers, queue, used, sockets, fetches, timers, started, sent, wire>>

\* An error, or CLOSE_TIMEOUT.
DrainFails(s) ==
  /\ tasks[s].step = "drain"
  /\ tasks' = [tasks EXCEPT ![s].step = "done", ![s].data = <<>>, ![s].pending = <<>>,
                            ![s].marks = {"cut"}]
  /\ UNCHANGED <<life, answers, queue, used, sockets, fetches, timers, started, sent, wire>>

\* Mutant: an end that cannot be reported is not noted.
ClosingForgets(s) ==
  /\ tasks[s].step = "closing"
  /\ Posts(Event("closed", s, 0))
  /\ tasks' = [tasks EXCEPT ![s].step = "done"]
  /\ UNCHANGED <<life, answers, used, sockets, fetches, timers, started, sent, wire>>

\* `lost`: the plugin will not hear of the end.
Closing(s) ==
  /\ tasks[s].step = "closing"
  /\ Posts(Event("closed", s, 0))
  /\ tasks' = [tasks EXCEPT ![s].step = "done",
                            ![s].marks = IF Full THEN @ \cup {"lost"} ELSE @]
  /\ UNCHANGED <<life, answers, used, sockets, fetches, timers, started, sent, wire>>

\* A request is answered, or fails with nothing to reserve room for.
Answered(r, n) ==
  /\ tasks[r].step = "opening"
  /\ tasks' = [tasks EXCEPT ![r].step = "check", ![r].size = n]
  /\ UNCHANGED <<life, answers, queue, used, sockets, fetches, timers, started, sent, wire>>

(***************************************************************************)
(* What the guest asks of the host during a call                           *)
(***************************************************************************)
With(f, x, v) == [y \in DOMAIN f \cup {x} |-> IF y = x THEN v ELSE f[y]]

\* Ended sockets with nothing left to report.
Pruned == Restrict(sockets, {s \in DOMAIN sockets :
            ~(tasks[s].step = "done" /\ (~Open(s) \/ "lost" \in tasks[s].marks))})

\* Each of the three opens something new in a call.
MayStart ==
  /\ thread = "call"
  /\ Cardinality(started) + Cardinality({i \in Ids : tasks[i].step # "unused"}) < MaxStarted

OpenSocket ==
  LET kept == IF Cardinality(DOMAIN sockets) >= MaxSockets THEN Pruned ELSE sockets
      fresh == {s \in Sockets : tasks[s].step = "unused"}
  IN /\ MayStart /\ fresh # {}
     /\ IF Cardinality(DOMAIN kept) >= MaxSockets
        THEN sockets' = kept /\ tasks' = tasks
        ELSE /\ sockets' = With(kept, Min(fresh), "open")
             /\ tasks' = [tasks EXCEPT ![Min(fresh)].step = "opening"]
     /\ UNCHANGED <<life, answers, queue, used, fetches, timers, started, sent, wire>>

Send(s) ==
  /\ thread = "call" /\ Open(s)
  /\ Cardinality({x \in Sockets \X (1..MaxSends) : x[2] <= sent[x[1]]}) < MaxSends
  /\ Len(tasks[s].data) < MaxUnsent
  /\ tasks[s].step \notin {"closing", "done"}
  /\ sent' = [sent EXCEPT ![s] = @ + 1]
  /\ tasks' = [tasks EXCEPT ![s].data = Append(@, sent'[s])]
  /\ UNCHANGED <<life, answers, queue, used, sockets, fetches, timers, started, wire>>

Close(s) ==
  /\ thread = "call" /\ Open(s)
  /\ sockets' = [sockets EXCEPT ![s] = "closed"]
  /\ UNCHANGED <<life, answers, queue, used, fetches, timers, started, tasks, sent, wire>>

Fetch ==
  LET kept == IF Cardinality(fetches) >= MaxFetches
              THEN {r \in fetches : tasks[r].step # "done"} ELSE fetches
      fresh == {r \in Requests : tasks[r].step = "unused"}
  IN /\ MayStart /\ fresh # {}
     /\ IF Cardinality(kept) >= MaxFetches
        THEN fetches' = kept /\ tasks' = tasks
        ELSE /\ fetches' = kept \cup {Min(fresh)}
             /\ tasks' = [tasks EXCEPT ![Min(fresh)].step = "opening"]
     /\ UNCHANGED <<life, answers, queue, used, sockets, timers, started, sent, wire>>

\* One-shot timers whose task is over are forgotten to make room.
SetTimer(repeat) ==
  LET kept == IF Cardinality(DOMAIN timers) >= MaxTimers
              THEN Restrict(timers, {t \in DOMAIN timers : timers[t] # "fired"}) ELSE timers
      fresh == {t \in Timers : t \notin started}
  IN /\ MayStart /\ fresh # {}
     /\ IF Cardinality(DOMAIN kept) >= MaxTimers
        THEN timers' = kept /\ started' = started
        ELSE /\ timers' = With(kept, Min(fresh), IF repeat THEN "repeats" ELSE "once")
             /\ started' = started \cup {Min(fresh)}
     /\ UNCHANGED <<life, answers, queue, net>>

CancelTimer(t) ==
  /\ thread = "call" /\ t \in DOMAIN timers
  /\ timers' = Restrict(timers, DOMAIN timers \ {t})
  /\ UNCHANGED <<life, answers, queue, net, started>>

Fires(t) ==
  /\ t \in DOMAIN timers /\ timers[t] # "fired"
  /\ Posts(Event("timer", t, 0))
  /\ timers' = [timers EXCEPT ![t] = IF @ = "once" THEN "fired" ELSE @]
  /\ UNCHANGED <<life, answers, net, started>>

(***************************************************************************)
(* The thread                                                              *)
(***************************************************************************)
Takes(kind) ==
  /\ thread = "wait" /\ ~stop /\ queue # <<>> /\ Head(queue).kind = kind
  /\ queue' = Tail(queue)

\* The guest is called when `heard`.
Calls(heard) == thread' = (IF heard THEN "call" ELSE "wait") /\ UNCHANGED <<stop>>

TakeAction ==
  /\ Takes("action") /\ Calls(TRUE) /\ serving' = Head(queue).id
  /\ UNCHANGED <<answers, net, timers, started>>

TakeOpen ==
  /\ Takes("open") /\ Calls(Open(Head(queue).id))
  /\ UNCHANGED <<serving, answers, net, timers, started>>

\* The room comes back whether the guest hears of it or not.
TakeMessage ==
  /\ Takes("message") /\ Calls(Open(Head(queue).id))
  /\ Releases(Head(queue).n, tasks)
  /\ UNCHANGED <<serving, answers, sockets, fetches, timers, started, sent, wire>>

TakeClosed ==
  /\ Takes("closed") /\ Calls(Open(Head(queue).id))
  /\ sockets' = Restrict(sockets, DOMAIN sockets \ {Head(queue).id})
  /\ UNCHANGED <<serving, answers, used, fetches, tasks, timers, started, sent, wire>>

TakeHttp ==
  /\ Takes("http") /\ Calls(TRUE)
  /\ Releases(Head(queue).n, tasks) /\ fetches' = fetches \ {Head(queue).id}
  /\ UNCHANGED <<serving, answers, sockets, timers, started, sent, wire>>

\* A timer that fires once is forgotten then.
TakeTimer ==
  LET t == Head(queue).id
  IN /\ Takes("timer") /\ Calls(t \in DOMAIN timers)
     /\ timers' = IF t \in DOMAIN timers /\ timers[t] = "fired"
                  THEN Restrict(timers, DOMAIN timers \ {t}) ELSE timers
     /\ UNCHANGED <<serving, answers, net, started>>

\* A result, a refusal or a reply that is dropped: the host hears of each.
Replies(As) == [a \in Actions |-> IF a \in As THEN "over" ELSE answers[a]]

Return ==
  /\ thread = "call" /\ thread' = "wait" /\ serving' = "none"
  /\ answers' = Replies({serving})
  /\ UNCHANGED <<stop, queue, net, timers, started>>

\* Mutant: the action that was being served gets no answer.
BreaksOff ==
  /\ thread = "call" /\ thread' = "drain" /\ serving' = "none"
  /\ UNCHANGED <<stop, answers, queue, net, timers, started>>

\* A trap, or a stop that cuts the call short.
Breaks ==
  /\ thread = "call" /\ thread' = "drain" /\ serving' = "none"
  /\ answers' = Replies({serving})
  /\ UNCHANGED <<stop, queue, net, timers, started>>

\* The flag is looked at before every event and every STOP_POLL.
Exits ==
  /\ thread = "wait" /\ stop
  /\ thread' = "drain"
  /\ UNCHANGED <<stop, serving, answers, queue, net, timers, started>>

\* What is in the queue is refused at one go: tasks put more there more slowly
\* (timers fire every 10 ms at most), and what they do put is as if it came later.
Refuses ==
  /\ thread = "drain" /\ thread' = "drop"
  /\ queue' = <<>>
  /\ answers' = Replies({queue[k].id : k \in {j \in DOMAIN queue : queue[j].kind = "action"}})
  /\ UNCHANGED <<stop, serving, net, timers, started>>

\* Everything of the instance goes: its tasks are aborted, and what was posted
\* since is dropped, the replies with it.
Gone ==
  /\ thread = "drop" /\ thread' = "gone"
  /\ queue' = <<>> /\ used' = 0
  /\ sockets' = [s \in {} |-> "open"] /\ fetches' = {} /\ timers' = [t \in {} |-> "once"]
  /\ tasks' = [i \in Ids |-> Unused]
  /\ sent' = [s \in Sockets |-> 0] /\ wire' = [s \in Sockets |-> <<>>]
  /\ answers' = Replies({queue[k].id : k \in {j \in DOMAIN queue : queue[j].kind = "action"}})
  /\ UNCHANGED <<stop, serving, started>>

Thread ==
  \/ TakeAction \/ TakeOpen \/ TakeMessage \/ TakeClosed \/ TakeHttp \/ TakeTimer
  \/ Return \/ Breaks
  \/ Exits \/ Refuses \/ Gone

Guest ==
  \/ OpenSocket \/ Fetch
  \/ \E s \in Sockets : Send(s) \/ Close(s)
  \/ \E repeat \in BOOLEAN : SetTimer(repeat)
  \/ \E t \in Timers : CancelTimer(t)

Task ==
  \/ \E i \in Ids : Check(i) \/ Freed(i) \/ Post(i)
  \/ \E s \in Sockets : \/ Connected(s) \/ Ends(s) \/ Sends(s) \/ Writes(s) \/ Finish(s)
                         \/ GivesUp(s) \/ Drain(s) \/ DrainFails(s) \/ Closing(s)
                         \/ \E n \in Sizes : Receives(s, n)
  \/ \E r \in Requests, n \in Sizes \cup {0} : Answered(r, n)
  \/ \E t \in Timers : Fires(t)

Next == Stop \/ (\E a \in Actions : PostAction(a)) \/ Thread \/ Guest \/ Task

Spec == Init /\ [][Next]_vars

(***************************************************************************)
(* Properties                                                              *)
(***************************************************************************)
\* The state has the declared types.
TypeOK ==
  /\ thread \in {"call", "wait", "drain", "drop", "gone"} /\ stop \in BOOLEAN
  /\ serving \in Actions \cup {"none"}
  /\ answers \in [Actions -> {"none", "waiting", "over"}]
  /\ Len(queue) <= Places /\ used \in 0..Room
  /\ sockets \in UNION {[D -> {"open", "closed"}] : D \in SUBSET Sockets}
  /\ fetches \subseteq Requests /\ started \subseteq Timers
  /\ timers \in UNION {[D -> {"once", "repeats", "fired"}] : D \in SUBSET started}
  /\ Cardinality(DOMAIN sockets) <= MaxSockets /\ Cardinality(fetches) <= MaxFetches
  /\ \A i \in Ids : tasks[i].step \in TaskSteps /\ tasks[i].size \in 0..Room
  /\ sent \in [Sockets -> Nat]

Runs == thread \in {"call", "wait"}

\* Room that is taken, byte by byte.
InQueue == {x \in (DOMAIN queue) \X (1..Room) : x[2] <= queue[x[1]].n}
AboutToPost == {x \in Ids \X (1..Room) : tasks[x[1]].step = "post" /\ x[2] <= tasks[x[1]].size}

\* The room counted as used is that of the data in the queue and of the task
\* about to put some there: none is lost when an event is dropped or belongs to
\* a socket the plugin has closed, or data would stop for good.
RoomIsAccounted == Runs => used = Cardinality(InQueue) + Cardinality(AboutToPost)

\* A task that sleeps until room is freed does so for want of room.
NoSleepWithRoom ==
  \A i \in Ids : Runs /\ tasks[i].step = "asleep" /\ "notified" \notin tasks[i].marks
                => used + tasks[i].size > Room

\* What the plugin sent goes out in order and without a gap, and all of it
\* before a close, unless the connection fails or CLOSE_TIMEOUT passes ("never
\* lost", net.rs:633).
SentGoesOut ==
  \A s \in Sockets :
    /\ wire[s] = [k \in DOMAIN wire[s] |-> k]
    /\ tasks[s].step = "done" /\ "cut" \notin tasks[s].marks => Len(wire[s]) = 2 * sent[s]

\* A socket that ended takes no place for ever: either its end is in the queue,
\* or it is one that OpenSocket clears away; and no more than MaxSockets tasks
\* have a connection, those of closed sockets included.
PlacesAreKept ==
  /\ \A s \in DOMAIN sockets :
       Runs /\ tasks[s].step = "done" /\ Open(s) /\ "lost" \notin tasks[s].marks
         => \E k \in DOMAIN queue : queue[k].kind = "closed" /\ queue[k].id = s
  /\ Cardinality({s \in Sockets : tasks[s].step \notin {"unused", "done"}}) <= MaxSockets

\* Room comes back and is seen, or data stops for good; so do places; and what
\* is counted stays within its limits.
RoomIsKept == TypeOK /\ RoomIsAccounted /\ NoSleepWithRoom /\ PlacesAreKept

\* No action is forgotten: one that waits for its answer is in the queue or
\* being served, through a trap, a stop and the end of the instance.
NoActionForgotten ==
  \A a \in Actions :
    answers[a] = "waiting" =>
      \/ serving = a
      \/ \E k \in DOMAIN queue : queue[k].kind = "action" /\ queue[k].id = a

\* What the instance took on is not forgotten: data reaches its socket, an
\* action its answer.
NothingForgotten == SentGoesOut /\ NoActionForgotten
=============================================================================
