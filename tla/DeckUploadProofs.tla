-------------------------- MODULE DeckUploadProofs --------------------------
(***************************************************************************)
(* Proofs about DeckUpload, for any keys, looks, pages and upload size.    *)
(*                                                                         *)
(* Every handler is a composition of the calls Send, PushPage, Configure   *)
(* and DeckReady on the record `deck`.  One lemma per call says that it    *)
(* keeps the record Good (of its type, and Orderly), and one that it keeps *)
(* it Fine (Good, and Faithful to what the deck shows); the steps then     *)
(* follow from those lemmas.                                               *)
(***************************************************************************)
EXTENDS DeckUpload, SequenceTheorems, TLAPS

LEMMA EmptyQueue == <<>> \in Seq(Packet) /\ Uploads(<<>>) = {} /\ OneUpload(<<>>)
<1>1. Uploads(<<>>) = {}
  BY DEF Uploads
<1> QED
  BY <1>1, EmptySeq DEF OneUpload

\* The packets of an upload are a nonempty sequence of packets.
LEMMA FilePacketsType ==
  ASSUME NEW u \in Upload
  PROVE  FilePackets(u) \in Seq(Packet) /\ FilePackets(u) # <<>>
<1> DEFINE n == IF u.full THEN FullPackets ELSE 1
<1>1. n \in Nat /\ n # 0
  BY PacketsAssumption
<1>2. FilePackets(u) = [i \in 1..n |-> [upload |-> u, left |-> n - i]]
  BY DEF FilePackets
<1>3. \A i \in 1..n : [upload |-> u, left |-> n - i] \in Packet
  BY <1>1 DEF Packet
<1> HIDE DEF n
<1>4. FilePackets(u) \in [1..n -> Packet]
  BY <1>2, <1>3
<1>5. FilePackets(u) \in Seq(Packet) /\ Len(FilePackets(u)) = n
  BY <1>1, <1>4, LenProperties
<1> QED
  BY <1>1, <1>5, EmptySeq

\* A command added to a queue leaves its uploads where they are.
LEMMA AppendMsg ==
  ASSUME NEW q \in Seq(Packet)
  PROVE  /\ Append(q, Msg) \in Seq(Packet)
         /\ Append(q, Msg) # <<>>
         /\ Uploads(Append(q, Msg)) = Uploads(q)
         /\ OneUpload(q) => OneUpload(Append(q, Msg))
<1>1. Msg \in Packet
  BY DEF Msg, Packet
<1>2. /\ Append(q, Msg) \in Seq(Packet)
      /\ Len(Append(q, Msg)) = Len(q) + 1
      /\ \A i \in 1..Len(q) : Append(q, Msg)[i] = q[i]
      /\ Append(q, Msg)[Len(q) + 1] = Msg
  BY <1>1, AppendProperties
<1>3. ~IsUpload(Msg)
  BY DEF IsUpload, Msg
<1>4. DOMAIN q = 1..Len(q) /\ DOMAIN Append(q, Msg) = 1..(Len(q) + 1) /\ Len(q) \in Nat
  BY <1>2, LenProperties
<1>5. Uploads(Append(q, Msg)) = Uploads(q)
  BY <1>2, <1>3, <1>4 DEF Uploads
<1>6. \A i \in Uploads(q) : Append(q, Msg)[i] = q[i]
  BY <1>2, <1>4 DEF Uploads
<1>7. OneUpload(q) => OneUpload(Append(q, Msg))
  <2> SUFFICES ASSUME OneUpload(q),
                      NEW i \in Uploads(Append(q, Msg)), NEW j \in Uploads(Append(q, Msg))
               PROVE  /\ Append(q, Msg)[i].upload = Append(q, Msg)[j].upload
                      /\ Append(q, Msg)[i].left = 0 => j <= i
    BY DEF OneUpload
  <2>1. i \in Uploads(q) /\ j \in Uploads(q)
    BY <1>5
  <2>2. q[i].upload = q[j].upload /\ (q[i].left = 0 => j <= i)
    BY <2>1 DEF OneUpload
  <2>3. Append(q, Msg)[i] = q[i] /\ Append(q, Msg)[j] = q[j]
    BY <1>6, <2>1
  <2> QED
    BY <2>2, <2>3
<1>8. Append(q, Msg) # <<>>
  BY <1>2, <1>4, EmptySeq
<1> QED
  BY <1>2, <1>5, <1>7, <1>8

\* An upload queued behind commands only is the one upload of the queue.
LEMMA QueueUpload ==
  ASSUME NEW q \in Seq(Packet), NEW u \in Upload, Uploads(q) = {}
  PROVE  /\ q \o FilePackets(u) \in Seq(Packet)
         /\ q \o FilePackets(u) # <<>>
         /\ OneUpload(q \o FilePackets(u))
<1> DEFINE f == FilePackets(u)
           n == IF u.full THEN FullPackets ELSE 1
<1>1. f \in Seq(Packet) /\ f # <<>>
  BY FilePacketsType
<1>2. n \in Nat /\ Len(f) = n /\ \A i \in 1..n : f[i] = [upload |-> u, left |-> n - i]
  <2>1. n \in Nat
    BY PacketsAssumption
  <2>2. f = [i \in 1..n |-> [upload |-> u, left |-> n - i]]
    BY DEF FilePackets
  <2> QED
    BY <1>1, <2>1, <2>2, LenProperties
<1>3. /\ q \o f \in Seq(Packet)
      /\ Len(q \o f) = Len(q) + Len(f)
      /\ \A i \in 1..Len(q) + Len(f) :
           (q \o f)[i] = IF i <= Len(q) THEN q[i] ELSE f[i - Len(q)]
  BY <1>1, ConcatProperties
<1>4. \A i \in Uploads(q \o f) :
        /\ i \in Nat /\ i <= Len(q) + n
        /\ (q \o f)[i] = [upload |-> u, left |-> Len(q) + n - i]
  <2> SUFFICES ASSUME NEW i \in Uploads(q \o f)
               PROVE  /\ i \in Nat /\ i <= Len(q) + n
                      /\ (q \o f)[i] = [upload |-> u, left |-> Len(q) + n - i]
    OBVIOUS
  <2>1. Len(q) \in Nat /\ DOMAIN q = 1..Len(q) /\ DOMAIN (q \o f) = 1..(Len(q) + n)
    BY <1>2, <1>3, LenProperties
  <2>2. i \in 1..(Len(q) + n) /\ IsUpload((q \o f)[i])
    BY <2>1 DEF Uploads
  <2>3. ~(i <= Len(q))
    <3>1. i <= Len(q) => i \in Uploads(q)
      BY <1>2, <1>3, <2>1, <2>2 DEF Uploads
    <3> QED
      BY <3>1
  <2>4. i - Len(q) \in 1..n /\ (q \o f)[i] = f[i - Len(q)]
    BY <1>2, <1>3, <2>1, <2>2, <2>3
  <2>5. f[i - Len(q)] = [upload |-> u, left |-> n - (i - Len(q))]
    BY <1>2, <2>4
  <2>6. n - (i - Len(q)) = Len(q) + n - i
    BY <1>2, <2>1, <2>2
  <2> QED
    BY <2>2, <2>4, <2>5, <2>6, <1>2, <2>1
<1> HIDE DEF f, n
<1>5. OneUpload(q \o f)
  <2> SUFFICES ASSUME NEW i \in Uploads(q \o f), NEW j \in Uploads(q \o f)
               PROVE  /\ (q \o f)[i].upload = (q \o f)[j].upload
                      /\ (q \o f)[i].left = 0 => j <= i
    BY DEF OneUpload
  <2>1. (q \o f)[i] = [upload |-> u, left |-> Len(q) + n - i]
    BY <1>4
  <2>2. (q \o f)[j] = [upload |-> u, left |-> Len(q) + n - j]
    BY <1>4
  <2>3. i \in Nat /\ j \in Nat /\ j <= Len(q) + n /\ Len(q) \in Nat /\ n \in Nat
    BY <1>2, <1>4, LenProperties
  <2>4. (q \o f)[i].upload = u /\ (q \o f)[j].upload = u
    BY <2>1, <2>2
  <2>5. (q \o f)[i].left = Len(q) + n - i
    BY <2>1
  <2>6. Len(q) + n - i = 0 => j <= i
    BY <2>3
  <2> QED
    BY <2>4, <2>5, <2>6
<1>6. q \o f # <<>>
  BY <1>1, <1>3, EmptySeq, LenProperties
<1> QED
  BY <1>3, <1>5, <1>6 DEF f

\* Taking a packet off the front keeps the queue to one upload.
LEMMA TailUpload ==
  ASSUME NEW q \in Seq(Packet), q # <<>>
  PROVE  /\ Tail(q) \in Seq(Packet)
         /\ OneUpload(q) => OneUpload(Tail(q))
         /\ Uploads(q) = {} => Uploads(Tail(q)) = {}
         /\ Tail(q) = <<>> => Uploads(Tail(q)) = {}
<1>1. /\ Tail(q) \in Seq(Packet)
      /\ Len(Tail(q)) = Len(q) - 1
      /\ \A i \in 1..Len(Tail(q)) : Tail(q)[i] = q[i + 1]
  BY HeadTailProperties
<1>2. Len(q) \in Nat /\ DOMAIN q = 1..Len(q) /\ DOMAIN Tail(q) = 1..Len(Tail(q))
  BY <1>1, LenProperties
<1>3. \A i \in Uploads(Tail(q)) : i \in Nat /\ i + 1 \in Uploads(q) /\ Tail(q)[i] = q[i + 1]
  BY <1>1, <1>2 DEF Uploads
<1>4. OneUpload(q) => OneUpload(Tail(q))
  <2> SUFFICES ASSUME OneUpload(q), NEW i \in Uploads(Tail(q)), NEW j \in Uploads(Tail(q))
               PROVE  /\ Tail(q)[i].upload = Tail(q)[j].upload
                      /\ Tail(q)[i].left = 0 => j <= i
    BY DEF OneUpload
  <2>1. /\ q[i + 1].upload = q[j + 1].upload
        /\ q[i + 1].left = 0 => j + 1 <= i + 1
    BY <1>3 DEF OneUpload
  <2>2. Tail(q)[i] = q[i + 1] /\ Tail(q)[j] = q[j + 1]
    BY <1>3
  <2>3. i \in Nat /\ j \in Nat
    BY <1>3
  <2>4. j + 1 <= i + 1 => j <= i
    BY <2>3
  <2> QED
    BY <2>1, <2>2, <2>4
<1>5. Tail(q) = <<>> => Uploads(Tail(q)) = {}
  BY <1>1, <1>2, EmptySeq DEF Uploads
<1> QED
  BY <1>1, <1>3, <1>4, <1>5

-----------------------------------------------------------------------------
(* The calls keep the type of the record and keep it Orderly.              *)

Good(d) == d \in DeckRecord /\ Orderly(d)

LEMMA SendGood ==
  ASSUME NEW d, Good(d)
  PROVE  /\ Good(Send(d))
         /\ Send(d).transport = d.transport
<1>1. CASE Send(d) = d
  BY <1>1
<1>2. CASE Send(d) # d
  <2>1. d.transport /\ Send(d) = [d EXCEPT !.outgoing = Append(@, Msg)]
    BY <1>2 DEF Send
  <2>2. d.outgoing \in Seq(Packet) /\ d \in DeckRecord
    BY DEF Good, DeckRecord
  <2>3. Send(d) \in DeckRecord
    BY <2>1, <2>2, AppendMsg DEF DeckRecord
  <2>4. Orderly(Send(d))
    BY <2>1, <2>2, AppendMsg DEF Good, Orderly, DeckRecord
  <2> QED
    BY <2>1, <2>2, <2>3, <2>4 DEF Good, DeckRecord
<1> QED
  BY <1>1, <1>2

\* What the upload of a page is made of.
LEMMA NextUploadType ==
  ASSUME NEW d \in DeckRecord, NEW force \in BOOLEAN
  PROVE  Built(d) \in [Keys -> Entry] /\ NextUpload(d, force) \in Upload
<1>1. Built(d) \in [Keys -> Entry]
  <2>1. \A k \in Keys : d.look[k] \in Looks /\ (k \in d.held) \in BOOLEAN
    BY DEF DeckRecord
  <2>2. \A k \in Keys : <<d.look[k], k \in d.held>> \in Entry
    BY <2>1 DEF Entry
  <2> QED
    BY <2>2 DEF Built
<1>2. \A S \in SUBSET Keys : [k \in S |-> Built(d)[k]] \in Entries
  BY <1>1 DEF Entries
<1>3. Built(d) \in Entries
  BY <1>1 DEF Entries
<1>4. d.page \in Pages
  BY DEF DeckRecord
<1> QED
  BY <1>1, <1>2, <1>3, <1>4 DEF NextUpload, Upload

\* An upload queued when no gap is owed.
LEMMA QueueGood ==
  ASSUME NEW d, Good(d), d.transport, d.upload_gap = "none", ~d.upload_pending,
         NEW u \in Upload, NEW press \in BOOLEAN
  PROVE  Good(Queue(d, u, press))
<1>1. d \in DeckRecord /\ d.outgoing \in Seq(Packet) /\ Uploads(d.outgoing) = {}
  BY DEF Good, DeckRecord, Orderly
<1>2. /\ d.outgoing \o FilePackets(u) \in Seq(Packet)
      /\ d.outgoing \o FilePackets(u) # <<>>
      /\ OneUpload(d.outgoing \o FilePackets(u))
  BY <1>1, QueueUpload
<1>3. [at |-> d.page, entries |-> Built(d)] \in Page
  BY <1>1, NextUploadType DEF DeckRecord, Page
<1>4. Queue(d, u, press) \in DeckRecord
  BY <1>1, <1>2, <1>3 DEF Queue, DeckRecord
<1>5. /\ Queue(d, u, press).outgoing = d.outgoing \o FilePackets(u)
      /\ Queue(d, u, press).upload_gap # "none"
      /\ Queue(d, u, press).transport
      /\ ~Queue(d, u, press).upload_pending
  BY <1>1 DEF Queue, DeckRecord
<1> QED
  BY <1>2, <1>4, <1>5 DEF Good, Orderly

LEMMA PushPageGood ==
  ASSUME NEW d, Good(d), NEW force \in BOOLEAN
  PROVE  Good(PushPage(d, force)) /\ PushPage(d, force).transport = d.transport
<1>1. CASE ~d.transport \/ d.awaiting_info
  BY <1>1 DEF PushPage
<1>2. CASE d.transport /\ ~d.awaiting_info /\ MustWait(d)
  <2>1. PushPage(d, force) =
          [d EXCEPT !.upload_pending = TRUE, !.pending_full = @ \/ force]
    BY <1>2 DEF PushPage
  <2> QED
    BY <1>2, <2>1, ZenonT(40) DEF Good, DeckRecord, Orderly, MustWait
<1>3. CASE d.transport /\ ~d.awaiting_info /\ ~MustWait(d)
  <2> DEFINE taken == [d EXCEPT !.pending_full = IF force THEN @ ELSE FALSE,
                                !.press_upload = FALSE,
                                !.upload_pending = FALSE]
             built == StartDrawing(LetGoElsewhere(taken))
             u == NextUpload(built, force \/ d.pending_full)
  <2>1. PushPage(d, force) =
          IF ~u.full /\ DOMAIN u.entries = {} THEN built
          ELSE Queue(built, u, d.press_upload)
    BY <1>3 DEF PushPage, UploadNow
  <2>2. d \in DeckRecord /\ d.pending_full \in BOOLEAN /\ d.press_upload \in BOOLEAN
    BY DEF Good, DeckRecord
  <2>3. /\ Good(taken) /\ taken.transport /\ taken.upload_gap = "none"
        /\ ~taken.upload_pending
    BY <1>3, <2>2, ZenonT(40) DEF Good, DeckRecord, Orderly, MustWait
  <2> HIDE DEF taken
  <2>4. /\ Good(LetGoElsewhere(taken)) /\ LetGoElsewhere(taken).transport
        /\ LetGoElsewhere(taken).upload_gap = "none"
        /\ ~LetGoElsewhere(taken).upload_pending
    BY <2>3, ZenonT(40) DEF Good, DeckRecord, Orderly, LetGoElsewhere
  <2>5. /\ Good(built) /\ built.transport /\ built.upload_gap = "none"
        /\ ~built.upload_pending
    BY <2>4, ZenonT(40) DEF Good, DeckRecord, Orderly, StartDrawing
  <2> HIDE DEF built
  <2>6. u \in Upload
    BY <2>2, <2>5, NextUploadType DEF Good
  <2>7. Good(Queue(built, u, d.press_upload))
    BY <2>2, <2>5, <2>6, QueueGood
  <2>8. Queue(built, u, d.press_upload).transport = built.transport
    BY <2>5 DEF Queue, Good, DeckRecord
  <2> QED
    BY <1>3, <2>1, <2>5, <2>7, <2>8
<1> QED
  BY <1>1, <1>2, <1>3

LEMMA SentGood ==
  ASSUME NEW d, Good(d), d.outgoing # <<>>, d.transport
  PROVE  Good(Sent(d))
<1> DEFINE rest == [d EXCEPT !.outgoing = Tail(@)]
<1>1. d \in DeckRecord /\ d.outgoing \in Seq(Packet)
  BY DEF Good, DeckRecord
<1>2. /\ rest \in DeckRecord /\ rest.transport
      /\ rest.outgoing = Tail(d.outgoing) /\ rest.upload_gap = d.upload_gap
      /\ rest.upload_pending = d.upload_pending
      /\ rest.next_upload_at = d.next_upload_at
  BY <1>1, TailUpload DEF DeckRecord
<1>3. OneUpload(rest.outgoing)
  BY <1>1, <1>2, TailUpload DEF Good, Orderly
<1> HIDE DEF rest
<1>4. CASE rest.outgoing = <<>> /\ d.upload_gap # "none"
  <2>1. Sent(d) = [rest EXCEPT !.upload_gap = "none",
                     !.next_upload_at = IF d.upload_gap = "zero" THEN "due" ELSE "wait"]
    BY <1>4 DEF Sent, rest
  <2>2. Uploads(rest.outgoing) = {}
    BY <1>1, <1>2, <1>4, TailUpload
  <2> QED
    BY <1>2, <1>3, <2>1, <2>2, ZenonT(40) DEF Good, DeckRecord, Orderly
<1>5. CASE ~(rest.outgoing = <<>> /\ d.upload_gap # "none")
  <2>1. Sent(d) = rest
    BY <1>5 DEF Sent, rest
  <2>2. d.upload_gap = "none" => Uploads(rest.outgoing) = {}
    BY <1>1, <1>2, TailUpload DEF Good, Orderly
  <2> QED
    BY <1>2, <1>3, <1>5, <2>1, <2>2 DEF Good, Orderly
<1> QED
  BY <1>4, <1>5

\* What the deck shows after a packet.
LEMMA ShowsType ==
  ASSUME NEW dev \in {Nothing} \cup Page, NEW u \in Upload
  PROVE  Shows(dev, u) \in {Nothing} \cup Page
<1>1. CASE u.full
  BY <1>1 DEF Shows, Upload, Page
<1>2. CASE ~u.full /\ dev = Nothing
  BY <1>2 DEF Shows
<1>3. CASE ~u.full /\ dev # Nothing
  <2> DEFINE new == [k \in Keys |-> IF k \in DOMAIN u.entries
                                    THEN u.entries[k] ELSE dev.entries[k]]
  <2>1. Shows(dev, u) = [dev EXCEPT !.entries = new]
    BY <1>3 DEF Shows
  <2>2. dev \in Page /\ dev.entries \in [Keys -> Entry] /\ u.entries \in Entries
    BY <1>3 DEF Page, Upload
  <2>3. \A k \in DOMAIN u.entries : u.entries[k] \in Entry
    BY <2>2 DEF Entries
  <2>4. new \in [Keys -> Entry]
    BY <2>2, <2>3
  <2> HIDE DEF new
  <2> QED
    BY <2>1, <2>2, <2>4 DEF Page
<1> QED
  BY <1>1, <1>2, <1>3

-----------------------------------------------------------------------------
(* What the deck was sent, and how long it gets for it.                    *)

\* A whole page is queued with the pause it needs.
Timed(d) ==
  \A i \in Uploads(d.outgoing) : d.outgoing[i].upload.full => d.upload_gap = "cooldown"

\* ShownIsShown, of a record and of what the deck shows.
Honest(d, dev) ==
  d.transport /\ d.shown # Nothing =>
    /\ (\A i \in Uploads(d.outgoing) : d.outgoing[i].left # 0) => d.shown = dev
    /\ \A i \in Uploads(d.outgoing) :
         d.outgoing[i].left = 0 => d.shown = Shows(dev, d.outgoing[i].upload)

Faithful(d, dev) == Timed(d) /\ Honest(d, dev)
Fine(d, dev) == Good(d) /\ Faithful(d, dev)

\* A handler that leaves these fields alone leaves Faithful alone.
LEMMA Unaffected ==
  ASSUME NEW d, NEW e, NEW dev, Faithful(d, dev),
         e.outgoing = d.outgoing, e.upload_gap = d.upload_gap,
         e.shown = d.shown, e.transport = d.transport
  PROVE  Faithful(e, dev)
<1>1. Timed(e)
  BY DEF Faithful, Timed
<1>2. Honest(e, dev)
  BY DEF Faithful, Honest
<1> QED
  BY <1>1, <1>2 DEF Faithful

\* With nothing queued, and no deck or a deck that shows nothing of ours.
LEMMA NothingShown ==
  ASSUME NEW d, NEW dev, Timed(d), ~d.transport \/ d.shown = Nothing
  PROVE  Faithful(d, dev)
BY DEF Faithful, Honest

\* A command changes no upload, and not what it says.
LEMMA SendFine ==
  ASSUME NEW d, NEW dev, Fine(d, dev)
  PROVE  /\ Fine(Send(d), dev)
         /\ Send(d).transport = d.transport
         /\ Send(d).shown = d.shown
<1>1. Good(Send(d)) /\ Send(d).transport = d.transport
  BY SendGood DEF Fine
<1>2. CASE Send(d) = d
  BY <1>2
<1>3. CASE Send(d) # d
  <2>1. d.transport /\ Send(d) = [d EXCEPT !.outgoing = Append(@, Msg)]
    BY <1>3 DEF Send
  <2>2. d.outgoing \in Seq(Packet) /\ d \in DeckRecord
    BY DEF Fine, Good, DeckRecord
  <2> DEFINE e == Send(d)
  <2>3. /\ e.outgoing = Append(d.outgoing, Msg) /\ e.upload_gap = d.upload_gap
        /\ e.shown = d.shown /\ e.transport = d.transport
    BY <2>1, <2>2 DEF DeckRecord
  <2> HIDE DEF e
  <2>4. Uploads(e.outgoing) = Uploads(d.outgoing)
    BY <2>2, <2>3, AppendMsg
  <2>5. \A i \in Uploads(d.outgoing) : e.outgoing[i] = d.outgoing[i]
    <3>1. Msg \in Packet
      BY DEF Msg, Packet
    <3>2. \A i \in 1..Len(d.outgoing) : Append(d.outgoing, Msg)[i] = d.outgoing[i]
      BY <2>2, <3>1, AppendProperties
    <3>3. DOMAIN d.outgoing = 1..Len(d.outgoing)
      BY <2>2, LenProperties
    <3> QED
      BY <2>3, <3>2, <3>3 DEF Uploads
  <2>6. Timed(e)
    BY <2>3, <2>4, <2>5 DEF Fine, Faithful, Timed
  <2>7. Honest(e, dev)
    BY <2>3, <2>4, <2>5 DEF Fine, Faithful, Honest
  <2> QED
    BY <1>1, <2>3, <2>6, <2>7 DEF Fine, Faithful, e
<1> QED
  BY <1>1, <1>2, <1>3

\* The packets of an upload queued behind commands: all of them are its, and
\* the last one ends it.
LEMMA QueuedPackets ==
  ASSUME NEW q \in Seq(Packet), NEW u \in Upload, Uploads(q) = {}
  PROVE  /\ \A i \in Uploads(q \o FilePackets(u)) : (q \o FilePackets(u))[i].upload = u
         /\ \E i \in Uploads(q \o FilePackets(u)) : (q \o FilePackets(u))[i].left = 0
<1> DEFINE f == FilePackets(u)
           n == IF u.full THEN FullPackets ELSE 1
<1>1. n \in Nat /\ n # 0
  BY PacketsAssumption
<1>2. f \in Seq(Packet)
  BY FilePacketsType
<1>3. Len(f) = n /\ \A i \in 1..n : f[i] = [upload |-> u, left |-> n - i]
  <2>1. f = [i \in 1..n |-> [upload |-> u, left |-> n - i]]
    BY DEF FilePackets
  <2> QED
    BY <1>1, <1>2, <2>1, LenProperties
<1> HIDE DEF n, f
<1>4. /\ q \o f \in Seq(Packet)
      /\ Len(q \o f) = Len(q) + n
      /\ \A i \in 1..Len(q) + n :
           (q \o f)[i] = IF i <= Len(q) THEN q[i] ELSE f[i - Len(q)]
  BY <1>2, <1>3, ConcatProperties
<1>5. /\ Len(q) \in Nat /\ DOMAIN q = 1..Len(q)
      /\ DOMAIN (q \o f) = 1..(Len(q) + n)
  BY <1>1, <1>4, LenProperties
<1>6. ASSUME NEW i \in Uploads(q \o f)
      PROVE  (q \o f)[i].upload = u
  <2>1. i \in 1..(Len(q) + n) /\ IsUpload((q \o f)[i])
    BY <1>5 DEF Uploads
  <2>2. ~(i <= Len(q))
    <3>1. i <= Len(q) => i \in 1..Len(q) /\ (q \o f)[i] = q[i]
      BY <1>4, <1>5, <2>1
    <3>2. i <= Len(q) => i \in Uploads(q)
      BY <1>5, <2>1, <3>1 DEF Uploads
    <3> QED
      BY <3>2
  <2>3. i - Len(q) \in 1..n /\ (q \o f)[i] = f[i - Len(q)]
    BY <1>1, <1>4, <1>5, <2>1, <2>2
  <2>4. (q \o f)[i] = [upload |-> u, left |-> n - (i - Len(q))]
    BY <1>3, <2>3
  <2> QED
    BY <2>4
<1>7. \E i \in Uploads(q \o f) : (q \o f)[i].left = 0
  <2>1. /\ Len(q) + n \in 1..(Len(q) + n) /\ ~(Len(q) + n <= Len(q))
        /\ (Len(q) + n) - Len(q) = n /\ n \in 1..n /\ n - n = 0
    BY <1>1, <1>5
  <2>2. (q \o f)[Len(q) + n] = f[n]
    BY <1>4, <2>1
  <2>3. f[n] = [upload |-> u, left |-> 0]
    BY <1>3, <2>1
  <2>4. (q \o f)[Len(q) + n].left = 0 /\ (q \o f)[Len(q) + n].upload # Nothing
    BY <2>2, <2>3, NothingAssumption
  <2>5. Len(q) + n \in Uploads(q \o f)
    BY <1>5, <2>1, <2>4 DEF Uploads, IsUpload
  <2> QED
    BY <2>4, <2>5
<1> QED
  BY <1>6, <1>7 DEF f

\* What an upload makes the deck show is the page it was built from.
LEMMA NextUploadShows ==
  ASSUME NEW d \in DeckRecord, NEW dev, NEW force \in BOOLEAN,
         d.shown # Nothing => d.shown = dev
  PROVE  /\ Shows(dev, NextUpload(d, force)) = [at |-> d.page, entries |-> Built(d)]
         /\ NextUpload(d, force).at = d.page
<1> DEFINE u == NextUpload(d, force)
           b == Built(d)
<1>0. b \in [Keys -> Entry]
  BY NextUploadType
<1>1. CASE d.shown # Nothing /\ ~force /\ d.shown.at = d.page
  <2> DEFINE S == {k \in Keys : d.shown.entries[k] # b[k]}
  <2>1. u = [full |-> FALSE, at |-> d.page, entries |-> [k \in S |-> b[k]]]
    BY <1>1 DEF NextUpload
  <2>2. dev = d.shown /\ dev \in Page
    BY <1>1 DEF DeckRecord
  <2>3. ~u.full /\ DOMAIN u.entries = S /\ \A k \in S : u.entries[k] = b[k]
    BY <2>1
  <2>4. \A k \in Keys : (IF k \in DOMAIN u.entries THEN u.entries[k] ELSE dev.entries[k]) = b[k]
    BY <2>2, <2>3
  <2>5. [k \in Keys |-> IF k \in DOMAIN u.entries THEN u.entries[k] ELSE dev.entries[k]] = b
    BY <1>0, <2>4
  <2>6. Shows(dev, u) = [dev EXCEPT !.entries = b]
    BY <1>1, <2>2, <2>3, <2>5 DEF Shows
  <2> HIDE DEF b, S, u
  <2>7. Shows(dev, u) = [at |-> d.page, entries |-> b]
    BY <1>1, <2>2, <2>6 DEF Page
  <2> QED
    BY <2>1, <2>7 DEF b, u
<1>2. CASE ~(d.shown # Nothing /\ ~force /\ d.shown.at = d.page)
  <2>1. u = [full |-> TRUE, at |-> d.page, entries |-> b]
    BY <1>2 DEF NextUpload
  <2> QED
    BY <2>1 DEF Shows
<1> QED
  BY <1>1, <1>2

\* An upload goes out when no other does; the deck will show it, and a whole
\* page is given its time.
LEMMA QueueFine ==
  ASSUME NEW d, NEW dev, Fine(d, dev), d.transport, d.upload_gap = "none",
         ~d.upload_pending, NEW force \in BOOLEAN, NEW press \in BOOLEAN
  PROVE  Fine(Queue(d, NextUpload(d, force), press), dev)
<1> DEFINE u == NextUpload(d, force)
           e == Queue(d, u, press)
           q == d.outgoing \o FilePackets(u)
<1>1. d \in DeckRecord /\ d.outgoing \in Seq(Packet) /\ Uploads(d.outgoing) = {}
  BY DEF Fine, Good, DeckRecord, Orderly
<1>2. u \in Upload
  BY <1>1, NextUploadType
<1>3. Good(e)
  BY <1>2, QueueGood DEF Fine
<1>4. /\ e.outgoing = q /\ e.shown = [at |-> d.page, entries |-> Built(d)]
      /\ e.upload_gap = IF press /\ ~u.full THEN "zero" ELSE "cooldown"
  BY <1>1 DEF Queue, DeckRecord
<1>5. d.shown # Nothing => d.shown = dev
  BY <1>1 DEF Fine, Faithful, Honest
<1>6. Shows(dev, u) = e.shown
  BY <1>1, <1>4, <1>5, NextUploadShows
<1>7. /\ \A i \in Uploads(q) : q[i].upload = u
      /\ \E i \in Uploads(q) : q[i].left = 0
  BY <1>1, <1>2, QueuedPackets
<1> HIDE DEF u, e, q
<1>8. Timed(e)
  BY <1>4, <1>7 DEF Timed
<1>9. Honest(e, dev)
  BY <1>4, <1>6, <1>7 DEF Honest
<1> QED
  BY <1>3, <1>8, <1>9 DEF Fine, Faithful, e, u

LEMMA PushPageFine ==
  ASSUME NEW d, NEW dev, Fine(d, dev), NEW force \in BOOLEAN
  PROVE  Fine(PushPage(d, force), dev) /\ PushPage(d, force).transport = d.transport
<1>0. /\ Good(d) /\ Good(PushPage(d, force))
      /\ PushPage(d, force).transport = d.transport
  BY PushPageGood DEF Fine
<1>1. CASE ~d.transport \/ d.awaiting_info
  BY <1>1 DEF PushPage
<1>2. CASE d.transport /\ ~d.awaiting_info /\ MustWait(d)
  <2> DEFINE e == [d EXCEPT !.upload_pending = TRUE, !.pending_full = @ \/ force]
  <2>1. PushPage(d, force) = e
    BY <1>2 DEF PushPage
  <2>2. /\ e.outgoing = d.outgoing /\ e.upload_gap = d.upload_gap
        /\ e.shown = d.shown /\ e.transport = d.transport
    BY <1>0 DEF Good, DeckRecord
  <2> HIDE DEF e
  <2> QED
    BY <1>0, <2>1, <2>2, Unaffected DEF Fine
<1>3. CASE d.transport /\ ~d.awaiting_info /\ ~MustWait(d)
  <2> DEFINE taken == [d EXCEPT !.pending_full = IF force THEN @ ELSE FALSE,
                                !.press_upload = FALSE,
                                !.upload_pending = FALSE]
             gone == LetGoElsewhere(taken)
             built == StartDrawing(gone)
             u == NextUpload(built, force \/ d.pending_full)
  <2>1. PushPage(d, force) =
          IF ~u.full /\ DOMAIN u.entries = {} THEN built
          ELSE Queue(built, u, d.press_upload)
    BY <1>3 DEF PushPage, UploadNow
  <2>2. d \in DeckRecord /\ d.pending_full \in BOOLEAN /\ d.press_upload \in BOOLEAN
    BY <1>0 DEF Good, DeckRecord
  <2>3. /\ Good(taken) /\ taken.transport /\ taken.upload_gap = "none"
        /\ ~taken.upload_pending
    BY <1>0, <1>3, <2>2, ZenonT(40) DEF Good, DeckRecord, Orderly, MustWait
  <2>4. Faithful(taken, dev)
    <3>1. /\ taken.outgoing = d.outgoing /\ taken.upload_gap = d.upload_gap
          /\ taken.shown = d.shown /\ taken.transport = d.transport
      BY <2>2 DEF DeckRecord
    <3> HIDE DEF taken
    <3> QED
      BY <3>1, Unaffected DEF Fine
  <2> HIDE DEF taken
  <2>5. /\ Good(gone) /\ gone.transport
        /\ gone.upload_gap = "none" /\ ~gone.upload_pending
    BY <2>3, ZenonT(40) DEF Good, DeckRecord, Orderly, LetGoElsewhere
  <2>6. Faithful(gone, dev)
    <3>1. /\ gone.outgoing = taken.outgoing /\ gone.upload_gap = taken.upload_gap
          /\ gone.shown = taken.shown /\ gone.transport = taken.transport
      BY <2>3 DEF LetGoElsewhere, Good, DeckRecord
    <3> HIDE DEF gone
    <3> QED
      BY <2>4, <3>1, Unaffected
  <2> HIDE DEF gone
  <2>7. /\ Good(built) /\ built.transport /\ built.upload_gap = "none"
        /\ ~built.upload_pending
    BY <2>5, ZenonT(40) DEF Good, DeckRecord, Orderly, StartDrawing
  <2>8. Faithful(built, dev)
    <3>1. /\ built.outgoing = gone.outgoing /\ built.upload_gap = gone.upload_gap
          /\ built.shown = gone.shown /\ built.transport = gone.transport
      BY <2>5 DEF StartDrawing, Good, DeckRecord
    <3> HIDE DEF built
    <3> QED
      BY <2>6, <3>1, Unaffected
  <2> HIDE DEF built
  <2>9. Fine(Queue(built, u, d.press_upload), dev)
    BY <2>2, <2>7, <2>8, QueueFine DEF Fine
  <2> QED
    BY <1>0, <2>1, <2>7, <2>8, <2>9 DEF Fine
<1> QED
  BY <1>0, <1>1, <1>2, <1>3

LEMMA DeckReadyFine ==
  ASSUME NEW d, NEW dev, Fine(d, dev)
  PROVE  Fine(DeckReady(d), dev) /\ DeckReady(d).transport = d.transport
<1> DEFINE ready == [d EXCEPT !.awaiting_info = FALSE]
<1>1. /\ Good(ready) /\ ready.transport = d.transport
      /\ ready.outgoing = d.outgoing /\ ready.upload_gap = d.upload_gap
      /\ ready.shown = d.shown
  BY DEF Fine, Good, DeckRecord, Orderly
<1>2. DeckReady(d) = Send(PushPage(ready, TRUE))
  BY DEF DeckReady
<1> HIDE DEF ready
<1>3. Fine(ready, dev)
  BY <1>1, Unaffected DEF Fine
<1>4. /\ Fine(PushPage(ready, TRUE), dev)
      /\ PushPage(ready, TRUE).transport = d.transport
  BY <1>1, <1>3, PushPageFine
<1> QED
  BY <1>2, <1>4, SendFine

\* A deck set up again shows nothing of ours.
LEMMA ConfigureFine ==
  ASSUME NEW d, NEW dev, NEW other, Fine(d, dev), d.transport
  PROVE  Fine(Configure(d), other)
<1> DEFINE fresh == [d EXCEPT !.shown = Nothing]
<1>1. /\ Good(fresh) /\ fresh.transport /\ fresh.shown = Nothing
      /\ fresh.outgoing = d.outgoing /\ fresh.upload_gap = d.upload_gap
  BY DEF Fine, Good, DeckRecord, Orderly
<1>2. Configure(d) = [Send(fresh) EXCEPT !.awaiting_info = TRUE]
  BY DEF Configure
<1> HIDE DEF fresh
<1>3. Timed(fresh)
  BY <1>1 DEF Fine, Faithful, Timed
<1>4. Fine(fresh, other)
  BY <1>1, <1>3, NothingShown DEF Fine
<1>5. Fine(Send(fresh), other)
  BY <1>4, SendFine
<1> DEFINE sent == Send(fresh)
<1>6. Fine(sent, other)
  BY <1>5
<1> HIDE DEF sent
<1>7. Good([sent EXCEPT !.awaiting_info = TRUE])
  BY <1>6, ZenonT(40) DEF Fine, Good, DeckRecord, Orderly
<1>8. Faithful([sent EXCEPT !.awaiting_info = TRUE], other)
  <2> DEFINE e == [sent EXCEPT !.awaiting_info = TRUE]
  <2>1. /\ e.outgoing = sent.outgoing /\ e.upload_gap = sent.upload_gap
        /\ e.shown = sent.shown /\ e.transport = sent.transport
    BY <1>6 DEF Fine, Good, DeckRecord
  <2> HIDE DEF e
  <2>2. Faithful(e, other)
    BY <1>6, <2>1, Unaffected DEF Fine
  <2> QED
    BY <2>2 DEF e
<1> QED
  BY <1>2, <1>7, <1>8 DEF Fine, sent

\* The last packet of an upload makes the deck show it.
LEMMA SentFine ==
  ASSUME NEW d, NEW dev, Fine(d, dev), d.outgoing # <<>>, d.transport,
         NEW new,
         new = IF IsUpload(Head(d.outgoing)) /\ Head(d.outgoing).left = 0
               THEN Shows(dev, Head(d.outgoing).upload) ELSE dev
  PROVE  Fine(Sent(d), new)
<1> DEFINE q == d.outgoing
           e == Sent(d)
<1>1. d \in DeckRecord /\ q \in Seq(Packet) /\ OneUpload(q)
  BY DEF Fine, Good, DeckRecord, Orderly
<1>2. /\ e.outgoing = Tail(q) /\ e.shown = d.shown /\ e.transport
      /\ e.outgoing # <<>> => e.upload_gap = d.upload_gap
  BY <1>1 DEF Sent, DeckRecord
<1>3. Good(e)
  BY SentGood DEF Fine
<1>4. Faithful(d, dev)
  BY DEF Fine
<1>5. /\ Tail(q) \in Seq(Packet) /\ Len(Tail(q)) = Len(q) - 1
      /\ \A i \in 1..Len(Tail(q)) : Tail(q)[i] = q[i + 1]
      /\ Head(q) = q[1] /\ Len(q) \in Nat /\ Len(q) > 0
      /\ DOMAIN q = 1..Len(q) /\ DOMAIN Tail(q) = 1..Len(Tail(q))
  BY <1>1, HeadTailProperties, LenProperties, EmptySeq
<1> HIDE DEF e, q
<1>6. \A i \in Uploads(Tail(q)) :
        i \in Nat /\ i > 0 /\ i + 1 \in Uploads(q) /\ Tail(q)[i] = q[i + 1]
  BY <1>5 DEF Uploads
<1>7. \A i \in Uploads(q) : i = 1 \/ (i - 1 \in Uploads(Tail(q)) /\ Tail(q)[i - 1] = q[i])
  BY <1>5 DEF Uploads
<1>8. Uploads(Tail(q)) # {} => e.outgoing # <<>>
  BY <1>2, EmptyQueue
<1>9. Timed(e)
  <2>1. \A i \in Uploads(q) : q[i].upload.full => d.upload_gap = "cooldown"
    BY <1>4 DEF Faithful, Timed, q
  <2> QED
    BY <1>2, <1>6, <1>8, <2>1 DEF Timed
<1>10. Honest(e, new)
  <2> SUFFICES ASSUME d.shown # Nothing
               PROVE  /\ (\A i \in Uploads(Tail(q)) : Tail(q)[i].left # 0) => d.shown = new
                      /\ \A i \in Uploads(Tail(q)) :
                           Tail(q)[i].left = 0 => d.shown = Shows(new, Tail(q)[i].upload)
    BY <1>2 DEF Honest
  <2>1. /\ (\A i \in Uploads(q) : q[i].left # 0) => d.shown = dev
        /\ \A i \in Uploads(q) : q[i].left = 0 => d.shown = Shows(dev, q[i].upload)
    BY <1>4 DEF Faithful, Honest, q
  <2>2. CASE IsUpload(q[1]) /\ q[1].left = 0
    <3>1. 1 \in Uploads(q)
      BY <1>5, <2>2 DEF Uploads
    <3>2. new = d.shown
      BY <1>5, <2>1, <2>2, <3>1 DEF q
    <3>3. Uploads(Tail(q)) = {}
      BY <1>1, <1>6, <2>2, <3>1 DEF OneUpload
    <3> QED
      BY <3>2, <3>3
  <2>3. CASE ~(IsUpload(q[1]) /\ q[1].left = 0)
    <3>1. new = dev
      BY <1>5, <2>3 DEF q
    <3>2. 1 \in Uploads(q) => q[1].left # 0
      BY <2>3 DEF Uploads
    <3>3. (\A i \in Uploads(Tail(q)) : Tail(q)[i].left # 0)
            => \A i \in Uploads(q) : q[i].left # 0
      BY <1>7, <3>2
    <3>4. \A i \in Uploads(Tail(q)) : i + 1 \in Uploads(q) /\ Tail(q)[i] = q[i + 1]
      BY <1>6
    <3> QED
      BY <2>1, <3>1, <3>3, <3>4
  <2> QED
    BY <2>2, <2>3
<1> QED
  BY <1>3, <1>9, <1>10 DEF Fine, Faithful, e

-----------------------------------------------------------------------------
(* The steps.                                                              *)

\* Every step keeps the types, keeps the deck Orderly, and keeps it Faithful.
LEMMA StepGood ==
  ASSUME TypeOK, UploadsOrderly, Faithful(deck, device), [Next]_vars
  PROVE  TypeOK' /\ UploadsOrderly' /\ Faithful(deck, device)'
<1> USE DEF TypeOK, UploadsOrderly
<1>0. Fine(deck, device) /\ Good(deck)
  BY DEF Fine, Good
<1> DEFINE Stays(e) == /\ e.outgoing = deck.outgoing /\ e.upload_gap = deck.upload_gap
                       /\ e.shown = deck.shown /\ e.transport = deck.transport
<1>a. \A e : Good(e) /\ Stays(e) => Fine(e, device)
  BY <1>0, Unaffected DEF Fine
<1>b. \A e : Good(e) /\ e.outgoing = <<>> /\ ~e.transport => Fine(e, device)
  <2> SUFFICES ASSUME NEW e, Good(e), e.outgoing = <<>>, ~e.transport
               PROVE  Fine(e, device)
    OBVIOUS
  <2>1. Timed(e)
    BY EmptyQueue DEF Timed
  <2> QED
    BY <2>1, NothingShown DEF Fine
<1> HIDE DEF Stays
<1> SUFFICES Fine(deck, device)' /\ (device \in {Nothing} \cup Page)'
             /\ (changes \in 0..MaxChanges)' /\ (connects \in 0..MaxConnects)'
  <2>1. (whole \in {"none", "going", "unpacking"})'
    BY DEF Next, vars, Remember, DeviceUp, DeviceDown, Lost, DeviceInfo, Change, Tick,
       Command, KeyDown, KeyUp, PressesSettled, Drawn, GapOver, UploadTimer, PacketSent
  <2> QED
    BY <2>1 DEF Fine, Good
<1>1. CASE DeviceUp
  <2> DEFINE up == [deck EXCEPT !.transport = TRUE]
  <2>1. /\ Good(up) /\ up.transport
        /\ up.outgoing = deck.outgoing /\ up.upload_gap = deck.upload_gap
    BY <1>0 DEF Good, DeckRecord, Orderly
  <2>2. deck' = Configure(up)
    BY <1>1 DEF DeviceUp
  <2>3. Configure(up) = Configure([up EXCEPT !.shown = Nothing])
    BY <1>0 DEF Configure, Good, DeckRecord
  <2> DEFINE bare == [up EXCEPT !.shown = Nothing]
  <2> HIDE DEF up
  <2>4. /\ Good(bare) /\ bare.transport /\ bare.shown = Nothing
        /\ bare.outgoing = deck.outgoing /\ bare.upload_gap = deck.upload_gap
    BY <2>1 DEF Good, DeckRecord, Orderly
  <2> HIDE DEF bare
  <2>5. Timed(bare)
    BY <1>0, <2>4 DEF Fine, Faithful, Timed
  <2>6. Fine(bare, device)
    BY <2>4, <2>5, NothingShown DEF Fine
  <2>7. Fine(deck', device')
    BY <2>2, <2>3, <2>4, <2>6, ConfigureFine DEF bare
  <2> QED
    BY <1>1, <2>7, BoundsAssumption DEF DeviceUp
<1>2. CASE DeviceDown
  <2>1. Good(deck') /\ deck'.outgoing = <<>> /\ ~deck'.transport
    BY <1>0, <1>2, EmptyQueue DEF DeviceDown, Good, DeckRecord, Orderly
  <2>2. Fine(deck', device)
    BY <2>1, <1>b
  <2> QED
    BY <1>2, <2>2 DEF DeviceDown
<1>3. CASE Lost
  <2>1. Good(deck') /\ deck'.outgoing = <<>> /\ ~deck'.transport
    BY <1>0, <1>3, EmptyQueue DEF Lost, Good, DeckRecord, Orderly
  <2>2. Fine(deck', device)
    BY <2>1, <1>b
  <2> QED
    BY <1>3, <2>2 DEF Lost
<1>4. CASE DeviceInfo
  BY <1>0, <1>4, DeckReadyFine DEF DeviceInfo
<1>5. CASE Change
  <2>0. PICK p \in Pages, look \in [Keys -> Looks], says \in BOOLEAN :
               \E d \in Changed(deck, p, look) :
                 deck' = PushPage(IF says THEN Send(d) ELSE d, FALSE)
    BY <1>5 DEF Change
  <2>1. PICK d \in Changed(deck, p, look) :
               deck' = PushPage(IF says THEN Send(d) ELSE d, FALSE)
    BY <2>0
  <2>2. Good(d) /\ Stays(d)
    <3>1. PICK m \in BOOLEAN :
                 d = [deck EXCEPT !.page = p, !.look = look, !.missing = m]
      BY DEF Changed
    <3> QED
      BY <1>0, <3>1 DEF Good, DeckRecord, Orderly, Stays
  <2>3. Fine(IF says THEN Send(d) ELSE d, device)
    BY <1>a, <2>2, SendFine
  <2>4. Fine(deck', device)
    BY <2>1, <2>3, PushPageFine
  <2>5. changes' = changes + 1 /\ changes < MaxChanges /\ UNCHANGED <<device, connects>>
    BY <1>5 DEF Change
  <2> QED
    BY <2>4, <2>5, BoundsAssumption
<1>6. CASE Tick
  <2>1. PICK over \in BOOLEAN, redrawn \in BOOLEAN :
          /\ redrawn => changes < MaxChanges
          /\ changes' = IF redrawn THEN changes + 1 ELSE changes
          /\ LET ready == IF over THEN DeckReady(deck) ELSE deck
             IN  IF redrawn
                 THEN \E k \in Keys, l \in Looks, mode \in BOOLEAN :
                        LET drawn == [ready EXCEPT !.look[k] = l]
                        IN  deck' = Send(PushPage(IF mode THEN Send(drawn) ELSE drawn,
                                                  FALSE))
                 ELSE deck' = Send(ready)
    BY <1>6 DEF Tick
  <2> DEFINE ready == IF over THEN DeckReady(deck) ELSE deck
  <2>2. Fine(ready, device)
    BY <1>0, DeckReadyFine
  <2> HIDE DEF ready
  <2>3. ASSUME redrawn PROVE Fine(deck', device)
    <3>1. PICK k \in Keys, l \in Looks, mode \in BOOLEAN :
            deck' = Send(PushPage(IF mode THEN Send([ready EXCEPT !.look[k] = l])
                                  ELSE [ready EXCEPT !.look[k] = l], FALSE))
      BY <2>1, <2>3 DEF ready
    <3> DEFINE drawn == [ready EXCEPT !.look[k] = l]
    <3>2. /\ Good(drawn)
          /\ drawn.outgoing = ready.outgoing /\ drawn.upload_gap = ready.upload_gap
          /\ drawn.shown = ready.shown /\ drawn.transport = ready.transport
      BY <2>2 DEF Fine, Good, DeckRecord, Orderly
    <3> HIDE DEF drawn
    <3>3. deck' = Send(PushPage(IF mode THEN Send(drawn) ELSE drawn, FALSE))
      BY <3>1 DEF drawn
    <3>4. Fine(drawn, device)
      BY <2>2, <3>2, Unaffected DEF Fine
    <3>5. Fine(IF mode THEN Send(drawn) ELSE drawn, device)
      BY <3>4, SendFine
    <3> QED
      BY <3>3, <3>5, PushPageFine, SendFine
  <2>4. ASSUME ~redrawn PROVE Fine(deck', device)
    <3>1. deck' = Send(ready)
      BY <2>1, <2>4 DEF ready
    <3> QED
      BY <2>2, <3>1, SendFine
  <2>5. UNCHANGED <<device, connects>>
    BY <1>6 DEF Tick
  <2>6. changes' \in 0..MaxChanges
    BY <2>1, BoundsAssumption
  <2> QED
    BY <2>3, <2>4, <2>5, <2>6
<1>7. CASE Command
  BY <1>0, <1>7, SendFine DEF Command
<1>8. ASSUME NEW k \in Keys, KeyDown(k)
      PROVE  Fine(deck', device) /\ UNCHANGED <<device, changes, connects>>
  <2>1. Good(deck') /\ Stays(deck')
    BY <1>0, <1>8 DEF KeyDown, Good, DeckRecord, Orderly, Stays
  <2> QED
    BY <1>8, <1>a, <2>1 DEF KeyDown
<1>9. ASSUME NEW k \in Keys, KeyUp(k)
      PROVE  Fine(deck', device) /\ UNCHANGED <<device, changes, connects>>
  <2> DEFINE up == [deck EXCEPT !.pressing = @ \ {k}, !.held = @ \ {k}]
             up2 == [up EXCEPT !.press_upload = TRUE]
  <2>1. Good(up) /\ Stays(up) /\ Good(up2) /\ Stays(up2)
    BY <1>0 DEF Good, DeckRecord, Orderly, Stays
  <2>2. deck' = IF k \in deck.held THEN PushPage(up2, FALSE) ELSE up
    BY <1>9 DEF KeyUp
  <2> HIDE DEF up, up2
  <2>3. Fine(deck', device)
    BY <1>a, <2>1, <2>2, PushPageFine
  <2> QED
    BY <1>9, <2>3 DEF KeyUp
<1>10. CASE PressesSettled
  <2>1. PICK due \in SUBSET deck.pressing :
          deck' = PushPage([deck EXCEPT !.pressing = @ \ due, !.held = @ \cup due,
                                        !.press_upload = TRUE], FALSE)
    BY <1>10 DEF PressesSettled
  <2> DEFINE down == [deck EXCEPT !.pressing = @ \ due, !.held = @ \cup due,
                                  !.press_upload = TRUE]
  <2>2. Good(down) /\ Stays(down)
    BY <1>0 DEF Good, DeckRecord, Orderly, Stays
  <2> HIDE DEF down
  <2>3. deck' = PushPage(down, FALSE)
    BY <2>1 DEF down
  <2>4. Fine(deck', device)
    BY <1>a, <2>2, <2>3, PushPageFine
  <2> QED
    BY <1>10, <2>4 DEF PressesSettled
<1>11. CASE Drawn
  <2>1. PICK k \in Keys, l \in Looks :
          deck' = PushPage([deck EXCEPT !.drawing = FALSE, !.look[k] = l], FALSE)
    BY <1>11 DEF Drawn
  <2> DEFINE drawn == [deck EXCEPT !.drawing = FALSE, !.look[k] = l]
  <2>2. Good(drawn) /\ Stays(drawn)
    BY <1>0 DEF Good, DeckRecord, Orderly, Stays
  <2> HIDE DEF drawn
  <2>3. deck' = PushPage(drawn, FALSE)
    BY <2>1 DEF drawn
  <2>4. Fine(deck', device)
    BY <1>a, <2>2, <2>3, PushPageFine
  <2> QED
    BY <1>11, <2>4 DEF Drawn
<1>12. CASE GapOver
  <2>1. Good(deck') /\ Stays(deck')
    BY <1>0, <1>12 DEF GapOver, Good, DeckRecord, Orderly, Stays
  <2>2. Fine(deck', device)
    BY <1>a, <2>1
  <2> QED
    BY <1>12, <2>2 DEF GapOver
<1>13. CASE UploadTimer
  BY <1>0, <1>13, PushPageFine DEF UploadTimer
<1>14. CASE PacketSent
  <2>1. Fine(deck', device')
    BY <1>0, <1>14, SentFine DEF PacketSent
  <2>2. Head(deck.outgoing) \in Packet
    BY <1>0, <1>14, HeadTailProperties DEF PacketSent, Good, DeckRecord
  <2>3. device' \in {Nothing} \cup Page
    BY <1>14, <2>2, ShowsType DEF PacketSent, Packet, IsUpload
  <2> QED
    BY <1>14, <2>1, <2>3 DEF PacketSent
<1>15. CASE UNCHANGED vars
  BY <1>0, <1>15 DEF vars
<1> QED
  BY <1>1, <1>2, <1>3, <1>4, <1>5, <1>6, <1>7, <1>8, <1>9, <1>10, <1>11,
     <1>12, <1>13, <1>14, <1>15 DEF Next

LEMMA InitGood == Init => TypeOK /\ UploadsOrderly /\ Faithful(deck, device)
<1> SUFFICES ASSUME Init PROVE TypeOK /\ UploadsOrderly /\ Faithful(deck, device)
  OBVIOUS
<1>1. deck \in DeckRecord
  BY EmptyQueue DEF Init, DeckRecord
<1>2. /\ deck.outgoing = <<>> /\ deck.upload_gap = "none"
      /\ ~deck.upload_pending /\ ~deck.transport
  BY DEF Init
<1>3. UploadsOrderly
  BY <1>2, EmptyQueue DEF UploadsOrderly, Orderly
<1>4. Faithful(deck, device)
  BY <1>2, EmptyQueue, NothingShown DEF Timed
<1> QED
  BY <1>1, <1>3, <1>4, BoundsAssumption DEF Init, TypeOK

LEMMA AlwaysGood == Spec => [](TypeOK /\ UploadsOrderly /\ Faithful(deck, device))
<1> DEFINE Inv == TypeOK /\ UploadsOrderly /\ Faithful(deck, device)
<1>1. Init => Inv
  BY InitGood
<1>2. Inv /\ [Next]_vars => Inv'
  BY StepGood
<1> HIDE DEF Inv
<1>3. Spec => []Inv
  BY <1>1, <1>2, PTL DEF Spec
<1> QED
  BY <1>3 DEF Inv

\* The variables keep their types (struct Deck and the deck it drives).
THEOREM TypeCorrect == Spec => []TypeOK
BY AlwaysGood, PTL

\* With no deck nothing is queued or owed, and whatever is put off is awaited,
\* for any page and upload size: the invariant the next two theorems rest on.
THEOREM DeckOrderly == Spec => []UploadsOrderly
BY AlwaysGood, PTL

\* push_page never queues an upload while another is still going out.
THEOREM UploadsNeverOverlap == Spec => []OneUploadAtATime
<1>1. UploadsOrderly => OneUploadAtATime
  BY DEF UploadsOrderly, Orderly, OneUploadAtATime
<1> QED
  BY <1>1, DeckOrderly, PTL

\* A request push_page put off always has something that takes it up again.
THEOREM RequestsNeverStranded == Spec => []NoStrandedRequest
<1>1. UploadsOrderly => NoStrandedRequest
  BY DEF UploadsOrderly, Orderly, NoStrandedRequest
<1> QED
  BY <1>1, DeckOrderly, PTL

\* `shown` is what the deck shows once the packets queued for it arrive,
\* across connections lost and made, for any keys, looks and pages.
THEOREM WhatIsShown == Spec => []ShownIsShown
<1>1. Faithful(deck, device) => ShownIsShown
  <2> SUFFICES ASSUME Faithful(deck, device), deck.transport, deck.shown # Nothing
               PROVE  LET left == {i \in Uploads(deck.outgoing) : deck.outgoing[i].left = 0}
                      IN  deck.shown =
                            IF left = {} THEN device
                            ELSE Shows(device, deck.outgoing[CHOOSE i \in left : TRUE].upload)
    BY DEF ShownIsShown
  <2> DEFINE left == {i \in Uploads(deck.outgoing) : deck.outgoing[i].left = 0}
  <2>1. left = {} => deck.shown = device
    BY DEF Faithful, Honest
  <2>2. left # {} => (CHOOSE i \in left : TRUE) \in left
    OBVIOUS
  <2>3. \A i \in left : deck.shown = Shows(device, deck.outgoing[i].upload)
    BY DEF Faithful, Honest
  <2> HIDE DEF left
  <2>4. deck.shown = IF left = {} THEN device
                     ELSE Shows(device, deck.outgoing[CHOOSE i \in left : TRUE].upload)
    BY <2>1, <2>2, <2>3
  <2> QED
    BY <2>4 DEF left
<1> QED
  BY <1>1, AlwaysGood, PTL

-----------------------------------------------------------------------------
(* What follows a whole page.                                              *)

\* A handler that queues no upload and asks for none.
Quiet(d, e) ==
  /\ Uploads(e.outgoing) = Uploads(d.outgoing)
  /\ \A i \in Uploads(d.outgoing) : e.outgoing[i] = d.outgoing[i]
  /\ e.upload_gap = d.upload_gap /\ e.next_upload_at = d.next_upload_at
  /\ e.press_upload => d.press_upload

\* One that queues an upload; the press that asked for it has been heard.
Begins(d, e) ==
  /\ ~MustWait(d)
  /\ ~e.press_upload
  /\ \E i \in Uploads(e.outgoing) : e.outgoing[i].left = 0

Handled(d, e) == Quiet(d, e) \/ Begins(d, e)

\* Nothing asks for an upload while a whole page goes out or is unpacked, and
\* the pause it needs is owed or runs.
Calm(d, w) ==
  /\ w = "going" =>
       /\ ~d.press_upload /\ d.upload_gap = "cooldown"
       /\ \A i \in Uploads(d.outgoing) : d.outgoing[i].upload.full
       /\ \E i \in Uploads(d.outgoing) : d.outgoing[i].left = 0
  /\ w = "unpacking" =>
       /\ ~d.press_upload /\ Uploads(d.outgoing) = {}
       /\ \/ d.upload_gap = "cooldown"
          \/ d.upload_gap = "none" /\ d.next_upload_at = "wait"

LEMMA QuietTwice ==
  ASSUME NEW d, NEW e, NEW f
  PROVE  /\ Quiet(d, d)
         /\ Quiet(d, e) /\ Handled(e, f) => Handled(d, f)
         /\ Handled(d, e) /\ Quiet(e, f) => Handled(d, f)
<1>1. Quiet(d, e) /\ Quiet(e, f) => Quiet(d, f)
  BY DEF Quiet
<1>2. Quiet(d, e) /\ Begins(e, f) => Begins(d, f)
  BY DEF Quiet, Begins, MustWait
<1>3. Begins(d, e) /\ Quiet(e, f) => Begins(d, f)
  BY DEF Quiet, Begins
<1>4. Quiet(d, d)
  BY DEF Quiet
<1> QED
  BY <1>1, <1>2, <1>3, <1>4 DEF Handled

LEMMA SendQuiet ==
  ASSUME NEW d \in DeckRecord
  PROVE  Quiet(d, Send(d))
<1>1. CASE Send(d) = d
  BY <1>1, QuietTwice
<1>2. CASE Send(d) # d
  <2> DEFINE e == Send(d)
  <2>1. e = [d EXCEPT !.outgoing = Append(@, Msg)]
    BY <1>2 DEF Send
  <2>2. d.outgoing \in Seq(Packet)
    BY DEF DeckRecord
  <2>3. /\ e.outgoing = Append(d.outgoing, Msg) /\ e.upload_gap = d.upload_gap
        /\ e.next_upload_at = d.next_upload_at /\ e.press_upload = d.press_upload
    BY <2>1 DEF DeckRecord
  <2> HIDE DEF e
  <2>4. Uploads(e.outgoing) = Uploads(d.outgoing)
    BY <2>2, <2>3, AppendMsg
  <2>5. \A i \in Uploads(d.outgoing) : e.outgoing[i] = d.outgoing[i]
    <3>1. Msg \in Packet
      BY DEF Msg, Packet
    <3>2. \A i \in 1..Len(d.outgoing) : Append(d.outgoing, Msg)[i] = d.outgoing[i]
      BY <2>2, <3>1, AppendProperties
    <3>3. DOMAIN d.outgoing = 1..Len(d.outgoing)
      BY <2>2, LenProperties
    <3> QED
      BY <2>3, <3>2, <3>3 DEF Uploads
  <2>6. Quiet(d, e)
    BY <2>3, <2>4, <2>5 DEF Quiet
  <2> QED
    BY <2>6 DEF e
<1> QED
  BY <1>1, <1>2

\* push_page waits, finds nothing changed, or queues an upload.
LEMMA PushPageHandled ==
  ASSUME NEW d, Good(d), NEW force \in BOOLEAN
  PROVE  Handled(d, PushPage(d, force))
<1> DEFINE e == PushPage(d, force)
<1>0. d \in DeckRecord
  BY DEF Good
<1>1. CASE ~d.transport \/ d.awaiting_info
  BY <1>1, QuietTwice DEF PushPage, Handled
<1>2. CASE d.transport /\ ~d.awaiting_info /\ MustWait(d)
  <2>1. e = [d EXCEPT !.upload_pending = TRUE, !.pending_full = @ \/ force]
    BY <1>2 DEF PushPage
  <2>2. /\ e.outgoing = d.outgoing /\ e.upload_gap = d.upload_gap
        /\ e.next_upload_at = d.next_upload_at /\ e.press_upload = d.press_upload
    BY <1>0, <2>1 DEF DeckRecord
  <2> HIDE DEF e
  <2>3. Quiet(d, e)
    BY <2>2 DEF Quiet
  <2> QED
    BY <2>3 DEF Handled, e
<1>3. CASE d.transport /\ ~d.awaiting_info /\ ~MustWait(d)
  <2> DEFINE taken == [d EXCEPT !.pending_full = IF force THEN @ ELSE FALSE,
                                !.press_upload = FALSE,
                                !.upload_pending = FALSE]
             gone == LetGoElsewhere(taken)
             built == StartDrawing(gone)
             u == NextUpload(built, force \/ d.pending_full)
             queued == Queue(built, u, d.press_upload)
  <2>1. e = IF ~u.full /\ DOMAIN u.entries = {} THEN built ELSE queued
    BY <1>3 DEF PushPage, UploadNow
  <2>2. /\ taken \in DeckRecord /\ ~taken.press_upload
        /\ taken.outgoing = d.outgoing /\ taken.upload_gap = d.upload_gap
        /\ taken.next_upload_at = d.next_upload_at
    BY <1>0, ZenonT(40) DEF DeckRecord
  <2> HIDE DEF taken
  <2>3. /\ gone \in DeckRecord /\ ~gone.press_upload
        /\ gone.outgoing = d.outgoing /\ gone.upload_gap = d.upload_gap
        /\ gone.next_upload_at = d.next_upload_at
    BY <2>2, ZenonT(40) DEF DeckRecord, LetGoElsewhere
  <2> HIDE DEF gone
  <2>4. /\ built \in DeckRecord /\ ~built.press_upload
        /\ built.outgoing = d.outgoing /\ built.upload_gap = d.upload_gap
        /\ built.next_upload_at = d.next_upload_at
    BY <2>3, ZenonT(40) DEF DeckRecord, StartDrawing
  <2> HIDE DEF built
  <2>5. Quiet(d, built)
    BY <2>4 DEF Quiet
  <2>6. u \in Upload
    BY <1>0, <2>4, NextUploadType DEF DeckRecord
  <2>7. Uploads(built.outgoing) = {} /\ built.outgoing \in Seq(Packet)
    BY <1>3, <2>4 DEF Good, Orderly, MustWait, DeckRecord
  <2> HIDE DEF u
  <2>8. queued.outgoing = built.outgoing \o FilePackets(u) /\ ~queued.press_upload
    BY <2>4 DEF Queue, DeckRecord
  <2> HIDE DEF queued
  <2>9. \E i \in Uploads(built.outgoing \o FilePackets(u)) :
           (built.outgoing \o FilePackets(u))[i].left = 0
    BY <2>6, <2>7, QueuedPackets
  <2>10. \E i \in Uploads(queued.outgoing) : queued.outgoing[i].left = 0
    BY <2>8, <2>9
  <2>11. Begins(d, queued)
    BY <1>3, <2>8, <2>10 DEF Begins
  <2> QED
    BY <2>1, <2>5, <2>11 DEF Handled
<1> QED
  BY <1>1, <1>2, <1>3

LEMMA DeckReadyHandled ==
  ASSUME NEW d, Good(d)
  PROVE  Handled(d, DeckReady(d)) /\ Good(DeckReady(d))
<1> DEFINE ready == [d EXCEPT !.awaiting_info = FALSE]
           pushed == PushPage(ready, TRUE)
<1>1. Good(ready)
  BY DEF Good, DeckRecord, Orderly
<1>2. Quiet(d, ready)
  BY DEF Quiet, Good, DeckRecord
<1>3. DeckReady(d) = Send(pushed)
  BY DEF DeckReady
<1> HIDE DEF ready
<1>4. Good(pushed) /\ Handled(ready, pushed)
  BY <1>1, PushPageGood, PushPageHandled
<1> HIDE DEF pushed
<1>5. Handled(d, pushed)
  BY <1>2, <1>4, QuietTwice
<1>6. Quiet(pushed, Send(pushed)) /\ Good(Send(pushed))
  BY <1>4, SendQuiet, SendGood DEF Good
<1> QED
  BY <1>3, <1>5, <1>6, QuietTwice

\* What a handler makes of a calm deck, and of the history.
LEMMA HandledCalm ==
  ASSUME Good(deck), Good(deck'), Timed(deck'), NEW d, NEW w,
         Uploads(d.outgoing) = Uploads(deck.outgoing), d.upload_gap = deck.upload_gap,
         Calm(d, w), Handled(d, deck'), Remember(w)
  PROVE  Calm(deck', whole') /\ (StartsUpload => w # "unpacking")
<1>1. CASE Quiet(d, deck')
  <2>1. ~StartsUpload /\ whole' = w
    BY <1>1 DEF Quiet, StartsUpload, StartsPage, Remember
  <2>2. Calm(deck', w)
    BY <1>1 DEF Quiet, Calm
  <2> QED
    BY <2>1, <2>2
<1>2. CASE Begins(d, deck')
  <2>1. d.upload_gap = "none" /\ ~(d.next_upload_at = "wait" /\ ~d.press_upload)
    BY <1>2 DEF Begins, MustWait
  <2>2. w # "going" /\ w # "unpacking"
    BY <2>1 DEF Calm
  <2>3. whole' = "going" => \E i \in Uploads(deck'.outgoing) : deck'.outgoing[i].upload.full
    BY <2>2 DEF Remember, StartsPage
  <2>4. \A i, j \in Uploads(deck'.outgoing) :
          deck'.outgoing[i].upload = deck'.outgoing[j].upload
    BY DEF Good, Orderly, OneUpload
  <2>5. whole' # "unpacking"
    BY <2>2 DEF Remember
  <2>6. whole' = "going" => \A i \in Uploads(deck'.outgoing) : deck'.outgoing[i].upload.full
    BY <2>3, <2>4
  <2>7. whole' = "going" => deck'.upload_gap = "cooldown"
    BY <2>3 DEF Timed
  <2> QED
    BY <1>2, <2>2, <2>5, <2>6, <2>7 DEF Calm, Begins
<1> QED
  BY <1>1, <1>2 DEF Handled

\* The last packet of a whole page starts the pause, or owes it to the commands
\* behind.
LEMMA PacketSentCalm ==
  ASSUME Good(deck), Calm(deck, whole), PacketSent
  PROVE  Calm(deck', whole') /\ ~StartsUpload
<1> DEFINE q == deck.outgoing
           p == Head(q)
<1>1. deck \in DeckRecord /\ q \in Seq(Packet) /\ q # <<>> /\ OneUpload(q)
  BY DEF Good, DeckRecord, Orderly, PacketSent
<1>2. /\ Len(Tail(q)) = Len(q) - 1 /\ Tail(q) \in Seq(Packet)
      /\ \A i \in 1..Len(Tail(q)) : Tail(q)[i] = q[i + 1]
      /\ p = q[1] /\ Len(q) \in Nat /\ Len(q) > 0
      /\ DOMAIN q = 1..Len(q) /\ DOMAIN Tail(q) = 1..Len(Tail(q))
  BY <1>1, HeadTailProperties, LenProperties, EmptySeq
<1>3. /\ deck'.outgoing = Tail(q) /\ deck'.press_upload = deck.press_upload
      /\ deck'.upload_gap = IF Tail(q) = <<>> THEN "none" ELSE deck.upload_gap
      /\ deck'.next_upload_at =
           IF Tail(q) = <<>> /\ deck.upload_gap # "none"
           THEN IF deck.upload_gap = "zero" THEN "due" ELSE "wait"
           ELSE deck.next_upload_at
  BY <1>1 DEF PacketSent, Sent, DeckRecord
<1>4. whole' = IF whole = "going" /\ IsUpload(p) /\ p.left = 0 THEN "unpacking" ELSE whole
  BY DEF PacketSent
<1> HIDE DEF q, p
<1>5. \A i \in Uploads(Tail(q)) : i \in Nat /\ i > 0 /\ i + 1 \in Uploads(q) /\ Tail(q)[i] = q[i + 1]
  BY <1>2 DEF Uploads
<1>6. \A i \in Uploads(q) : i = 1 \/ (i - 1 \in Uploads(Tail(q)) /\ Tail(q)[i - 1] = q[i])
  BY <1>2 DEF Uploads
<1>7. ~StartsUpload
  BY <1>3, <1>5 DEF StartsUpload, q
<1>8. CASE whole = "going" /\ IsUpload(p) /\ p.left = 0
  <2>1. 1 \in Uploads(q) /\ q[1].left = 0
    BY <1>2, <1>8 DEF Uploads
  <2>2. Uploads(Tail(q)) = {}
    BY <1>1, <1>5, <2>1 DEF OneUpload
  <2>3. deck.upload_gap = "cooldown" /\ ~deck.press_upload
    BY <1>8 DEF Calm
  <2> QED
    BY <1>3, <1>4, <1>7, <1>8, <2>2, <2>3 DEF Calm
<1>9. CASE whole = "going" /\ ~(IsUpload(p) /\ p.left = 0)
  <2>1. PICK i \in Uploads(q) : q[i].left = 0
    BY <1>9 DEF Calm, q
  <2>2. i # 1
    BY <1>2, <1>9, <2>1 DEF Uploads
  <2>3. i - 1 \in Uploads(Tail(q)) /\ Tail(q)[i - 1].left = 0
    BY <1>6, <2>1, <2>2
  <2>4. Tail(q) # <<>>
    BY <2>3, EmptyQueue
  <2>5. \A j \in Uploads(Tail(q)) : Tail(q)[j].upload.full
    BY <1>5, <1>9 DEF Calm, q
  <2> QED
    BY <1>3, <1>4, <1>7, <1>9, <2>3, <2>4, <2>5 DEF Calm
<1>10. CASE whole = "unpacking"
  <2>1. Uploads(Tail(q)) = {}
    BY <1>5, <1>10 DEF Calm, q
  <2> QED
    BY <1>3, <1>4, <1>7, <1>10, <2>1 DEF Calm
<1>11. CASE whole \notin {"going", "unpacking"}
  BY <1>4, <1>7, <1>11 DEF Calm
<1> QED
  BY <1>8, <1>9, <1>10, <1>11

Sound == TypeOK /\ UploadsOrderly /\ Faithful(deck, device)

LEMMA HandledTwice ==
  ASSUME NEW d, NEW e, NEW f, Good(e), Handled(d, e), Handled(e, f)
  PROVE  Handled(d, f)
<1>1. CASE Begins(d, e)
  <2>1. MustWait(e)
    BY <1>1 DEF Begins, Good, Orderly, MustWait
  <2>2. Quiet(e, f)
    BY <2>1 DEF Handled, Begins
  <2> QED
    BY <2>2, QuietTwice
<1>2. CASE Quiet(d, e)
  BY <1>2, QuietTwice
<1> QED
  BY <1>1, <1>2 DEF Handled

\* A step that drops what is queued, or queues no upload, forgetting the page.
LEMMA ForgottenCalm ==
  ASSUME whole' = "none", Uploads(deck'.outgoing) \subseteq Uploads(deck.outgoing)
  PROVE  Calm(deck', whole') /\ ~StartsUpload
BY DEF Calm, StartsUpload

LEMMA StepCalm ==
  ASSUME Sound, Sound', Calm(deck, whole), [Next]_vars
  PROVE  Calm(deck', whole') /\ (StartsUpload /\ whole = "unpacking" => PressAsks)
<1>0. /\ Good(deck) /\ deck \in DeckRecord
      /\ Good(deck') /\ Timed(deck')
  BY DEF Sound, TypeOK, UploadsOrderly, Good, Faithful
<1> DEFINE Same(e) == /\ e.outgoing = deck.outgoing /\ e.upload_gap = deck.upload_gap
                      /\ e.next_upload_at = deck.next_upload_at
                      /\ e.press_upload = deck.press_upload
           Goal == Calm(deck', whole') /\ (StartsUpload => whole # "unpacking")
<1>a. ASSUME Handled(deck, deck'), Remember(whole) PROVE Goal
  BY <1>0, <1>a, HandledCalm
<1>b. \A e : Same(e) => Quiet(deck, e)
  BY DEF Quiet
<1>c. ASSUME NEW e, Same(e), Handled(e, deck'), Remember(whole) PROVE Goal
  BY <1>a, <1>b, <1>c, QuietTwice
<1>d. ASSUME Quiet(deck, deck'), whole' = whole PROVE Goal
  BY <1>d DEF Quiet, Calm, StartsUpload
<1>e. ASSUME NEW e, e.outgoing = deck.outgoing, e.upload_gap = deck.upload_gap,
             Handled(e, deck'), Remember("none")
      PROVE  Calm(deck', whole')
  <2>1. Calm(e, "none")
    BY DEF Calm
  <2>2. Uploads(e.outgoing) = Uploads(deck.outgoing)
    BY <1>e
  <2> QED
    BY <1>0, <1>e, <2>1, <2>2, HandledCalm
<1> HIDE DEF Goal, Same
<1> SUFFICES Goal \/ (Calm(deck', whole') /\ PressAsks)
  BY DEF Goal
<1>1. CASE DeviceUp
  <2> DEFINE up == [[deck EXCEPT !.transport = TRUE] EXCEPT !.shown = Nothing]
  <2>1. Good(up) /\ up \in DeckRecord /\ up.outgoing = deck.outgoing
    BY <1>0 DEF Good, DeckRecord, Orderly
  <2>2. deck' = [Send(up) EXCEPT !.awaiting_info = TRUE]
    BY <1>1 DEF DeviceUp, Configure
  <2> HIDE DEF up
  <2>3. Uploads(Send(up).outgoing) = Uploads(deck.outgoing) /\ Send(up) \in DeckRecord
    BY <2>1, SendQuiet, SendGood DEF Quiet, Good
  <2>4. deck'.outgoing = Send(up).outgoing
    BY <2>2, <2>3 DEF DeckRecord
  <2> QED
    BY <1>1, <2>3, <2>4, ForgottenCalm DEF DeviceUp, Goal
<1>2. CASE DeviceDown \/ Lost
  <2>1. deck'.outgoing = <<>> /\ whole' = "none"
    BY <1>0, <1>2 DEF DeviceDown, Lost, DeckRecord
  <2> QED
    BY <2>1, EmptyQueue, ForgottenCalm DEF Goal
<1>4. CASE DeviceInfo
  BY <1>0, <1>4, <1>a, DeckReadyHandled DEF DeviceInfo
<1>5. CASE Change
  <2>0. PICK p \in Pages, look \in [Keys -> Looks], says \in BOOLEAN :
               \E d \in Changed(deck, p, look) :
                 deck' = PushPage(IF says THEN Send(d) ELSE d, FALSE)
    BY <1>5 DEF Change
  <2>1. PICK d \in Changed(deck, p, look) :
               deck' = PushPage(IF says THEN Send(d) ELSE d, FALSE)
    BY <2>0
  <2>2. Good(d) /\ Same(d)
    <3>1. PICK m \in BOOLEAN :
                 d = [deck EXCEPT !.page = p, !.look = look, !.missing = m]
      BY DEF Changed
    <3> QED
      BY <1>0, <3>1 DEF Good, DeckRecord, Orderly, Same
  <2> DEFINE said == IF says THEN Send(d) ELSE d
  <2>3. Good(said) /\ Quiet(d, said)
    BY <2>2, SendGood, SendQuiet, QuietTwice DEF Good
  <2>4. deck' = PushPage(said, FALSE)
    BY <2>1
  <2> HIDE DEF said
  <2>5. Handled(d, deck')
    BY <2>3, <2>4, PushPageHandled, QuietTwice
  <2>6. Remember(whole)
    BY <1>5 DEF Change
  <2> QED
    BY <1>c, <2>2, <2>5, <2>6
<1>6. CASE Tick
  <2>1. PICK over \in BOOLEAN, redrawn \in BOOLEAN :
          LET ready == IF over THEN DeckReady(deck) ELSE deck
          IN  IF redrawn
              THEN \E k \in Keys, l \in Looks, mode \in BOOLEAN :
                     LET drawn == [ready EXCEPT !.look[k] = l]
                     IN  deck' = Send(PushPage(IF mode THEN Send(drawn) ELSE drawn,
                                               FALSE))
              ELSE deck' = Send(ready)
    BY <1>6 DEF Tick
  <2> DEFINE ready == IF over THEN DeckReady(deck) ELSE deck
  <2>2. Good(ready) /\ Handled(deck, ready)
    BY <1>0, DeckReadyHandled, QuietTwice DEF Handled
  <2> HIDE DEF ready
  <2>3. ASSUME redrawn PROVE Handled(ready, deck')
    <3>1. PICK k \in Keys, l \in Looks, mode \in BOOLEAN :
            deck' = Send(PushPage(IF mode THEN Send([ready EXCEPT !.look[k] = l])
                                  ELSE [ready EXCEPT !.look[k] = l], FALSE))
      BY <2>1, <2>3 DEF ready
    <3> DEFINE drawn == [ready EXCEPT !.look[k] = l]
    <3>2. Good(drawn) /\ Quiet(ready, drawn)
      BY <2>2 DEF Good, DeckRecord, Orderly, Quiet
    <3> HIDE DEF drawn
    <3> DEFINE said == IF mode THEN Send(drawn) ELSE drawn
    <3>3. Good(said) /\ Quiet(drawn, said)
      BY <3>2, SendGood, SendQuiet, QuietTwice DEF Good
    <3>4. deck' = Send(PushPage(said, FALSE))
      BY <3>1 DEF drawn
    <3> HIDE DEF said
    <3>5. Good(PushPage(said, FALSE)) /\ Handled(said, PushPage(said, FALSE))
      BY <3>3, PushPageGood, PushPageHandled
    <3>6. Handled(ready, PushPage(said, FALSE))
      BY <3>2, <3>3, <3>5, QuietTwice
    <3>7. Quiet(PushPage(said, FALSE), deck')
      BY <3>4, <3>5, SendQuiet DEF Good
    <3> QED
      BY <3>6, <3>7, QuietTwice
  <2>4. ASSUME ~redrawn PROVE Quiet(ready, deck')
    <3>1. deck' = Send(ready)
      BY <2>1, <2>4 DEF ready
    <3> QED
      BY <2>2, <3>1, SendQuiet DEF Good
  <2>5. Remember(whole)
    BY <1>6 DEF Tick
  <2>6. Handled(ready, deck')
    BY <2>3, <2>4 DEF Handled
  <2>7. Handled(deck, deck')
    BY <2>2, <2>6, HandledTwice
  <2> QED
    BY <1>a, <2>5, <2>7
<1>7. CASE Command
  <2>1. Quiet(deck, deck') /\ whole' = whole
    BY <1>0, <1>7, SendQuiet DEF Command
  <2> QED
    BY <1>d, <2>1
<1>8. ASSUME NEW k \in Keys, KeyDown(k)
      PROVE  Goal
  <2>1. Same(deck') /\ whole' = whole
    BY <1>0, <1>8 DEF KeyDown, DeckRecord, Same
  <2> QED
    BY <1>b, <1>d, <2>1
<1>9. ASSUME NEW k \in Keys, KeyUp(k)
      PROVE  Goal \/ (Calm(deck', whole') /\ PressAsks)
  <2> DEFINE up == [deck EXCEPT !.pressing = @ \ {k}, !.held = @ \ {k}]
             up2 == [up EXCEPT !.press_upload = TRUE]
  <2>1. CASE k \in deck.held
    <3>1. Good(up2) /\ up2.outgoing = deck.outgoing /\ up2.upload_gap = deck.upload_gap
      BY <1>0 DEF Good, DeckRecord, Orderly
    <3>2. deck' = PushPage(up2, FALSE) /\ Remember("none")
      BY <1>9, <2>1 DEF KeyUp
    <3> HIDE DEF up2
    <3>3. Handled(up2, deck')
      BY <3>1, <3>2, PushPageHandled
    <3>4. Calm(deck', whole')
      BY <1>e, <3>1, <3>2, <3>3
    <3>5. PressAsks
      BY <1>9, <2>1 DEF PressAsks
    <3> QED
      BY <3>4, <3>5
  <2>2. CASE k \notin deck.held
    <3>1. Same(up)
      BY <1>0 DEF DeckRecord, Same
    <3>2. deck' = up /\ Remember(whole)
      BY <1>9, <2>2 DEF KeyUp
    <3> HIDE DEF up
    <3>3. Handled(up, deck')
      BY <3>2, QuietTwice DEF Handled
    <3> QED
      BY <1>c, <3>1, <3>2, <3>3
  <2> QED
    BY <2>1, <2>2
<1>10. CASE PressesSettled
  <2>1. PICK due \in SUBSET deck.pressing :
          deck' = PushPage([deck EXCEPT !.pressing = @ \ due, !.held = @ \cup due,
                                        !.press_upload = TRUE], FALSE)
    BY <1>10 DEF PressesSettled
  <2> DEFINE down == [deck EXCEPT !.pressing = @ \ due, !.held = @ \cup due,
                                  !.press_upload = TRUE]
  <2>2. Good(down) /\ down.outgoing = deck.outgoing /\ down.upload_gap = deck.upload_gap
    BY <1>0 DEF Good, DeckRecord, Orderly
  <2> HIDE DEF down
  <2>3. deck' = PushPage(down, FALSE)
    BY <2>1 DEF down
  <2>4. Handled(down, deck')
    BY <2>2, <2>3, PushPageHandled
  <2>5. Remember("none")
    BY <1>10 DEF PressesSettled
  <2> QED
    BY <1>e, <1>10, <2>2, <2>4, <2>5 DEF PressAsks
<1>11. CASE Drawn
  <2>1. PICK k \in Keys, l \in Looks :
          deck' = PushPage([deck EXCEPT !.drawing = FALSE, !.look[k] = l], FALSE)
    BY <1>11 DEF Drawn
  <2> DEFINE drawn == [deck EXCEPT !.drawing = FALSE, !.look[k] = l]
  <2>2. Good(drawn) /\ Same(drawn)
    BY <1>0 DEF Good, DeckRecord, Orderly, Same
  <2> HIDE DEF drawn
  <2>3. deck' = PushPage(drawn, FALSE)
    BY <2>1 DEF drawn
  <2>4. Handled(drawn, deck') /\ Remember(whole)
    BY <1>11, <2>2, <2>3, PushPageHandled DEF Drawn
  <2> QED
    BY <1>c, <2>2, <2>4
<1>12. CASE GapOver
  <2>1. deck'.outgoing = deck.outgoing /\ whole' = "none"
    BY <1>0, <1>12 DEF GapOver, DeckRecord
  <2> QED
    BY <2>1, ForgottenCalm DEF Goal
<1>13. CASE UploadTimer
  BY <1>0, <1>13, <1>a, PushPageHandled DEF UploadTimer
<1>14. CASE PacketSent
  BY <1>0, <1>14, PacketSentCalm DEF Goal
<1>15. CASE UNCHANGED vars
  BY <1>15, <1>d, QuietTwice DEF vars
<1> QED
  BY <1>1, <1>2, <1>4, <1>5, <1>6, <1>7, <1>8, <1>9, <1>10, <1>11,
     <1>12, <1>13, <1>14, <1>15 DEF Next

\* While the deck unpacks a whole page no other upload is queued for it, unless
\* a press asks for one, for any page, number of keys and upload size.
THEOREM PagesUnpackInPeace == Spec => UnpacksInPeace
<1>1. Init => Calm(deck, whole)
  BY DEF Init, Calm
<1>2. Spec => []Sound
  BY AlwaysGood, PTL DEF Sound
<1>3. Sound /\ Sound' /\ Calm(deck, whole) /\ [Next]_vars
        => Calm(deck, whole)' /\ [StartsUpload /\ whole = "unpacking" => PressAsks]_vars
  BY StepCalm
<1> QED
  BY <1>1, <1>2, <1>3, PTL DEF Spec, UnpacksInPeace
=============================================================================
