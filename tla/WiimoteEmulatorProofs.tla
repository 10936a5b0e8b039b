----------------------- MODULE WiimoteEmulatorProofs -----------------------
(***************************************************************************)
(* Proofs about WiimoteEmulator, for every set of requests, length of the   *)
(* countdown and bound of the queue.  What a handler does to the state is  *)
(* a composition of operators from record to record; each has a lemma, and *)
(* the step of the task puts them together.                                *)
(***************************************************************************)
EXTENDS WiimoteEmulator, SequenceTheorems, TLAPS

\* An extension that is in is connected and has set the format; one that is
\* out waits for a countdown that has not run below zero.
Plugged(s) ==
  /\ s \in Sys
  /\ s.extension # NoExtension => s.extension_connected
  /\ s.wmp_state # 1 /\ s.extension # NoExtension => s.extension_report_type = s.extension
  /\ s.extension = NoExtension => s.extension_hotplug_timer >= 0

\* The queue tells whether an extension is connected, and is filled.
Filled(q) == \A k \in DOMAIN q : q[k].kind # "blank"

QueueInv == ~overlapped => Told(sys, shown) /\ Filled(sys.queue)

\* An extension that is out has been for as many turns as the countdown has
\* made.
TimerInv ==
  sys.extension = NoExtension =>
    unplugged = HOTPLUG \/ unplugged + sys.extension_hotplug_timer >= HOTPLUG

Inv == TypeOK /\ Plugged(sys) /\ QueueInv /\ TimerInv

-----------------------------------------------------------------------------
(* The reply queue.                                                        *)

LEMMA Replies ==
  /\ Core \in Reply /\ Ack \in Reply /\ Blank \in Reply
  /\ \A c \in BOOLEAN : Status(c) \in Reply
  /\ \A v \in {0, 1, 7, 8} : Memory(v) \in Reply
  /\ Ack.kind = "ack" /\ \A v : Memory(v).kind = "memory"
  /\ \A c \in BOOLEAN : Status(c).kind = "status" /\ (Status(c).val = 1 <=> c)
  BY DEF Core, Ack, Blank, Status, Memory, Reply

\* Replies that say nothing of the extension leave what the queue tells.
LEMMA KeepsTelling ==
  ASSUME NEW s, NEW t, NEW sent, s.queue \in Seq(Reply), NEW rs \in Seq(Reply),
         t.queue = s.queue \o rs, t.extension_connected = s.extension_connected,
         \A k \in 1..Len(rs) : rs[k].kind \notin {"status", "blank"},
         Told(s, sent), Filled(s.queue)
  PROVE  Told(t, sent) /\ Filled(t.queue)
<1>1. /\ DOMAIN s.queue = 1..Len(s.queue) /\ Len(s.queue) \in Nat
      /\ DOMAIN t.queue = 1..(Len(s.queue) + Len(rs)) /\ Len(rs) \in Nat
      /\ \A k \in 1..Len(s.queue) : t.queue[k] = s.queue[k]
      /\ \A k \in 1..Len(rs) : t.queue[Len(s.queue) + k] = rs[k]
  OBVIOUS
<1>2. \A k \in DOMAIN t.queue : k \notin DOMAIN s.queue => t.queue[k].kind \notin {"status", "blank"}
  <2> SUFFICES ASSUME NEW k \in DOMAIN t.queue, k \notin DOMAIN s.queue
               PROVE  t.queue[k].kind \notin {"status", "blank"}
    OBVIOUS
  <2>1. k - Len(s.queue) \in 1..Len(rs) /\ k = Len(s.queue) + (k - Len(s.queue))
    BY <1>1
  <2> QED
    BY <1>1, <2>1
<1>3. Filled(t.queue)
  BY <1>1, <1>2 DEF Filled
<1>4. Statuses(t.queue) = Statuses(s.queue)
  BY <1>1, <1>2 DEF Statuses
<1>5. \A k \in Statuses(s.queue) : t.queue[k] = s.queue[k]
  BY <1>1 DEF Statuses
<1> QED
  BY <1>3, <1>4, <1>5 DEF Told

\* A status report at the end tells whatever was told before.
LEMMA TellsNow ==
  ASSUME NEW s, NEW t, NEW sent, s.queue \in Seq(Reply), NEW rs \in Seq(Reply),
         t.queue = s.queue \o rs, rs # <<>>,
         rs[Len(rs)].kind = "status", t.extension_connected <=> rs[Len(rs)].val = 1,
         \A k \in 1..Len(rs) : rs[k].kind # "blank",
         Filled(s.queue)
  PROVE  Told(t, sent) /\ Filled(t.queue)
<1> DEFINE last == Len(s.queue) + Len(rs)
<1>1. /\ DOMAIN s.queue = 1..Len(s.queue) /\ Len(s.queue) \in Nat
      /\ DOMAIN t.queue = 1..last /\ Len(rs) \in Nat \ {0}
      /\ \A k \in 1..Len(s.queue) : t.queue[k] = s.queue[k]
      /\ \A k \in 1..Len(rs) : t.queue[Len(s.queue) + k] = rs[k]
  OBVIOUS
<1>2. last \in Statuses(t.queue) /\ t.queue[last] = rs[Len(rs)]
  BY <1>1 DEF Statuses
<1>3. \A k \in Statuses(t.queue) : k \in 1..last
  BY <1>1 DEF Statuses
<1>4. Told(t, sent)
  <2> SUFFICES ASSUME NEW k \in Statuses(t.queue), \A j \in Statuses(t.queue) : j <= k
               PROVE  t.extension_connected <=> t.queue[k].val = 1
    BY <1>2 DEF Told
  <2>1. k = last
    BY <1>1, <1>2, <1>3
  <2> QED
    BY <1>2, <2>1
<1>5. Filled(t.queue)
  <2> SUFFICES ASSUME NEW k \in DOMAIN t.queue PROVE t.queue[k].kind # "blank"
    BY DEF Filled
  <2>1. CASE k \in DOMAIN s.queue
    BY <1>1, <2>1 DEF Filled
  <2>2. CASE k \notin DOMAIN s.queue
    <3>1. k - Len(s.queue) \in 1..Len(rs) /\ k = Len(s.queue) + (k - Len(s.queue))
      BY <1>1, <2>2
    <3> QED
      BY <1>1, <3>1
  <2> QED
    BY <2>1, <2>2
<1> QED
  BY <1>4, <1>5

\* What push does: nothing but to append.
LEMMA Pushed ==
  ASSUME NEW s \in Sys, NEW rs \in Seq(Reply)
  PROVE  /\ push(s, rs) \in Sys
         /\ push(s, rs).queue = s.queue \o rs
         /\ push(s, rs).wmp_state = s.wmp_state
         /\ push(s, rs).extension_report_type = s.extension_report_type
         /\ push(s, rs).extension_connected = s.extension_connected
         /\ push(s, rs).extension = s.extension
         /\ push(s, rs).extension_hotplug_timer = s.extension_hotplug_timer
         /\ rs # <<>> => push(s, rs).queue # <<>>
<1>1. s.queue \in Seq(Reply) /\ s.queue \o rs \in Seq(Reply)
  BY DEF Sys
<1>2. push(s, rs) = [s EXCEPT !.queue = s.queue \o rs]
  BY DEF push, Sys
<1>3. rs # <<>> => s.queue \o rs # <<>>
  BY <1>1
<1> HIDE DEF Reply
<1> QED
  BY <1>1, <1>2, <1>3 DEF Sys

\* A read pushes n reports and fills as many at the front: its own if the
\* queue was empty.
LEMMA Packets ==
  ASSUME NEW s \in Sys, NEW n \in Nat, NEW v \in {0, 1, 7, 8}
  PROVE  /\ push_packets(s, n, v) \in Sys
         /\ push_packets(s, n, v).wmp_state = s.wmp_state
         /\ push_packets(s, n, v).extension_report_type = s.extension_report_type
         /\ push_packets(s, n, v).extension_connected = s.extension_connected
         /\ push_packets(s, n, v).extension = s.extension
         /\ push_packets(s, n, v).extension_hotplug_timer = s.extension_hotplug_timer
         /\ n # 0 => push_packets(s, n, v).queue # <<>>
         /\ n = 0 => push_packets(s, n, v).queue = s.queue
         /\ s.queue = <<>> =>
              \A k \in DOMAIN push_packets(s, n, v).queue :
                push_packets(s, n, v).queue[k].kind = "memory"
<1> DEFINE q == s.queue \o [k \in 1..n |-> Blank]
<1> DEFINE f == [k \in DOMAIN q |-> IF k <= n THEN Memory(v) ELSE q[k]]
<1>1. s.queue \in Seq(Reply) /\ [k \in 1..n |-> Blank] \in Seq(Reply)
  BY Replies DEF Sys
<1>2. /\ q \in Seq(Reply) /\ DOMAIN q = 1..(Len(s.queue) + n) /\ Len(s.queue) \in Nat
      /\ \A k \in 1..Len(s.queue) : q[k] = s.queue[k]
  BY <1>1
<1> HIDE DEF q
<1>3. \A k \in DOMAIN q : f[k] \in Reply
  BY <1>2, Replies
<1>4. f \in Seq(Reply)
  <2>1. f \in [1..(Len(s.queue) + n) -> Reply]
    BY <1>2, <1>3
  <2> QED
    BY <1>2, <2>1
<1>5. push_packets(s, n, v) = [s EXCEPT !.queue = f]
  BY DEF push_packets, q
<1>6. n # 0 => f # <<>>
  <2> SUFFICES ASSUME n # 0 PROVE DOMAIN f # {}
    OBVIOUS
  <2> QED
    BY <1>2
<1>7. n = 0 => f = s.queue
  <2> SUFFICES ASSUME n = 0 PROVE f = s.queue
    OBVIOUS
  <2>1. DOMAIN f = DOMAIN s.queue
    BY <1>1, <1>2
  <2>2. \A k \in DOMAIN f : f[k] = s.queue[k]
    BY <1>1, <1>2
  <2> QED
    BY <1>1, <1>4, <2>1, <2>2
<1>8. s.queue = <<>> => \A k \in DOMAIN f : f[k].kind = "memory"
  BY <1>2, Replies
<1> HIDE DEF f, Reply
<1> QED
  BY <1>4, <1>5, <1>6, <1>7, <1>8 DEF Sys

LEMMA ReadTells ==
  ASSUME NEW s \in Sys, NEW n \in Nat, NEW v \in {0, 1, 7, 8}, NEW sent,
         n = 0 \/ s.queue = <<>>, Told(s, sent), Filled(s.queue)
  PROVE  Told(push_packets(s, n, v), sent) /\ Filled(push_packets(s, n, v).queue)
<1> DEFINE t == push_packets(s, n, v)
<1>1. CASE n = 0
  <2>1. t.queue = s.queue /\ t.extension_connected = s.extension_connected
    BY <1>1, Packets
  <2> QED
    BY <2>1 DEF Told
<1>2. CASE s.queue = <<>>
  <2>1. /\ t.extension_connected = s.extension_connected
        /\ \A k \in DOMAIN t.queue : t.queue[k].kind = "memory"
    BY <1>2, Packets
  <2> HIDE DEF t
  <2>2. Statuses(s.queue) = {} /\ Statuses(t.queue) = {}
    BY <1>2, <2>1 DEF Statuses
  <2>3. Told(t, sent)
    BY <2>1, <2>2 DEF Told
  <2>4. Filled(t.queue)
    BY <2>1 DEF Filled
  <2> QED
    BY <2>3, <2>4 DEF t
<1> QED
  BY <1>1, <1>2

-----------------------------------------------------------------------------
(* What the request in the buffer does.                                    *)

LEMMA InitExtension ==
  ASSUME NEW s \in Sys
  PROVE  /\ init_extension(s) \in Sys
         /\ init_extension(s).queue = s.queue
         /\ init_extension(s).wmp_state = s.wmp_state
         /\ init_extension(s).extension_connected = s.extension_connected
         /\ init_extension(s).extension = s.extension
         /\ init_extension(s).extension_hotplug_timer = s.extension_hotplug_timer
         /\ s.wmp_state # 1 /\ s.extension # NoExtension =>
              init_extension(s).extension_report_type = s.extension
<1> USE DEF init_extension
<1> HIDE DEF Reply
<1>1. CASE s.wmp_state = 1
  BY <1>1 DEF Sys
<1>2. CASE s.wmp_state # 1 /\ s.extension = NoExtension
  BY <1>2 DEF Sys
<1>3. CASE s.wmp_state # 1 /\ s.extension # NoExtension
  <2>1. s.extension \in {0, 1}
    BY <1>3 DEF Sys, Extension, Nunchuk, Classic
  <2> QED
    BY <1>3, <2>1 DEF Sys
<1> QED
  BY <1>1, <1>2, <1>3

\* The replies to a change of the extension port, whatever the port was.
LEMMA Replugged ==
  ASSUME NEW s \in Sys
  PROVE  /\ push_replug(s) \in Sys
         /\ push_replug(s).extension_connected
         /\ push_replug(s).wmp_state = s.wmp_state
         /\ push_replug(s).extension_report_type = s.extension_report_type
         /\ push_replug(s).extension = s.extension
         /\ push_replug(s).extension_hotplug_timer = s.extension_hotplug_timer
         /\ push_replug(s).queue # <<>>
         /\ \A sent : Filled(s.queue) =>
              Told(push_replug(s), sent) /\ Filled(push_replug(s).queue)
<1> DEFINE out == [kind |-> "status", val |-> 0]
<1> DEFINE in == [kind |-> "status", val |-> 1]
<1> DEFINE rs == <<Ack, out, in>>
<1> DEFINE t == push_replug(s)
<1>1. /\ rs \in Seq(Reply) /\ rs # <<>> /\ Len(rs) = 3 /\ rs[3].kind = "status" /\ rs[3].val = 1
      /\ \A k \in 1..3 : rs[k].kind # "blank"
  <2>1. Ack \in Reply /\ out \in Reply /\ in \in Reply
    BY Replies DEF Reply
  <2>2. out.kind = "status" /\ in.kind = "status" /\ in.val = 1
    OBVIOUS
  <2> HIDE DEF out, in
  <2>3. Len(rs) = 3 /\ rs \in Seq(Reply) /\ rs[1] = Ack /\ rs[2] = out /\ rs[3] = in
    BY <2>1
  <2>4. rs # <<>>
    BY <2>3
  <2> HIDE DEF rs
  <2>5. \A k \in 1..3 : k = 1 \/ k = 2 \/ k = 3
    OBVIOUS
  <2> QED
    BY <2>2, <2>3, <2>4, <2>5, Replies
<1>2. t = [push(s, rs) EXCEPT !.extension_connected = TRUE]
  BY DEF push_replug, Status
<1> HIDE DEF rs
<1>3. /\ push(s, rs) \in Sys
      /\ push(s, rs).queue = s.queue \o rs
      /\ push(s, rs).wmp_state = s.wmp_state
      /\ push(s, rs).extension_report_type = s.extension_report_type
      /\ push(s, rs).extension = s.extension
      /\ push(s, rs).extension_hotplug_timer = s.extension_hotplug_timer
      /\ push(s, rs).queue # <<>>
  BY <1>1, Pushed
<1>4. /\ t \in Sys /\ t.extension_connected = TRUE
      /\ t.queue = s.queue \o rs
      /\ t.wmp_state = s.wmp_state
      /\ t.extension_report_type = s.extension_report_type
      /\ t.extension = s.extension
      /\ t.extension_hotplug_timer = s.extension_hotplug_timer
      /\ t.queue # <<>>
  <2> HIDE DEF Reply
  <2> QED
    BY <1>2, <1>3 DEF Sys
<1> HIDE DEF t
<1>5. ASSUME NEW sent, Filled(s.queue) PROVE Told(t, sent) /\ Filled(t.queue)
  <2>1. s.queue \in Seq(Reply)
    BY DEF Sys
  <2> QED
    BY <1>1, <1>4, <1>5, <2>1, TellsNow
<1> QED
  BY <1>4, <1>5 DEF t

\* Everything one turn of the task needs to know of the state that a request
\* leads to.
Processed(t) ==
  /\ Plugged(t)
  /\ t.extension = sys.extension
  /\ t.extension_hotplug_timer = sys.extension_hotplug_timer
  /\ ~Overlaps => \A sent : Told(sys, sent) /\ Filled(sys.queue) => Told(t, sent) /\ Filled(t.queue)
  /\ \/ t.queue # <<>>
     \/ buf.op \in {"none", "sent", "silent"}
     \/ buf.op \in {"readEeprom", "readExtension", "readWmp"} /\ buf.packets = 0

\* A request is answered with replies that say nothing of the extension.
LEMMA Answer ==
  ASSUME Plugged(sys), NEW s, Plugged(s), s.queue = sys.queue,
         s.extension = sys.extension, s.extension_hotplug_timer = sys.extension_hotplug_timer,
         s.extension_connected = sys.extension_connected,
         NEW a \in Reply, a.kind \notin {"status", "blank"}
  PROVE  Processed(push(s, <<a>>))
<1> DEFINE t == push(s, <<a>>)
<1>1. s \in Sys /\ <<a>> \in Seq(Reply) /\ <<a>> # <<>> /\ sys.queue \in Seq(Reply)
  BY DEF Plugged, Sys
<1>2. /\ t \in Sys
      /\ t.queue = s.queue \o <<a>>
      /\ t.wmp_state = s.wmp_state
      /\ t.extension_report_type = s.extension_report_type
      /\ t.extension_connected = s.extension_connected
      /\ t.extension = s.extension
      /\ t.extension_hotplug_timer = s.extension_hotplug_timer
      /\ t.queue # <<>>
  BY <1>1, Pushed, Zenon
<1> HIDE DEF t
<1>3. ASSUME NEW sent, Told(sys, sent), Filled(sys.queue)
      PROVE  Told(t, sent) /\ Filled(t.queue)
  <2>1. \A k \in 1..Len(<<a>>) : <<a>>[k].kind \notin {"status", "blank"}
    OBVIOUS
  <2> QED
    BY <1>1, <1>2, <1>3, <2>1, KeepsTelling
<1>4. Plugged(t)
  BY <1>2 DEF Plugged
<1> QED
  BY <1>2, <1>3, <1>4 DEF Processed, t

\* A status report tells what the record says.
LEMMA StatusAnswer ==
  ASSUME NEW s \in Sys
  PROVE  /\ push_status(s) \in Sys
         /\ push_status(s).wmp_state = s.wmp_state
         /\ push_status(s).extension_report_type = s.extension_report_type
         /\ push_status(s).extension_connected = s.extension_connected
         /\ push_status(s).extension = s.extension
         /\ push_status(s).extension_hotplug_timer = s.extension_hotplug_timer
         /\ push_status(s).queue # <<>>
         /\ \A sent : Filled(s.queue) =>
              Told(push_status(s), sent) /\ Filled(push_status(s).queue)
<1> DEFINE a == Status(s.extension_connected)
<1> DEFINE t == push(s, <<a>>)
<1>1. /\ s \in Sys /\ s.queue \in Seq(Reply)
      /\ a \in Reply /\ a.kind = "status" /\ (a.val = 1 <=> s.extension_connected)
  BY Replies DEF Sys
<1> HIDE DEF a
<1>2. <<a>> \in Seq(Reply) /\ <<a>> # <<>> /\ Len(<<a>>) = 1 /\ <<a>>[1] = a
  BY <1>1
<1>3. /\ t \in Sys
      /\ t.queue = s.queue \o <<a>>
      /\ t.wmp_state = s.wmp_state
      /\ t.extension_report_type = s.extension_report_type
      /\ t.extension_connected = s.extension_connected
      /\ t.extension = s.extension
      /\ t.extension_hotplug_timer = s.extension_hotplug_timer
      /\ t.queue # <<>>
  BY <1>1, <1>2, Pushed
<1> HIDE DEF t
<1>4. ASSUME NEW sent, Filled(s.queue) PROVE Told(t, sent) /\ Filled(t.queue)
  <2>1. \A k \in 1..Len(<<a>>) : <<a>>[k].kind # "blank"
    BY <1>1, <1>2
  <2>2. <<a>>[Len(<<a>>)].kind = "status" /\ (t.extension_connected <=> <<a>>[Len(<<a>>)].val = 1)
    BY <1>1, <1>2, <1>3
  <2> QED
    BY <1>1, <1>2, <1>3, <1>4, <2>1, <2>2, TellsNow
<1>5. t = push_status(s)
  BY DEF t, a, push_status
<1> QED
  BY <1>3, <1>4, <1>5

LEMMA ReadAnswer ==
  ASSUME Plugged(sys), NEW n \in Nat, NEW v \in {0, 1, 7, 8}, n = buf.packets,
         buf.op \in {"readEeprom", "readExtension"}
           \/ (buf.op = "readWmp" /\ sys.wmp_state # 1)
  PROVE  Processed(push_packets(sys, n, v))
<1> DEFINE t == push_packets(sys, n, v)
<1>1. /\ t \in Sys
      /\ t.wmp_state = sys.wmp_state
      /\ t.extension_report_type = sys.extension_report_type
      /\ t.extension_connected = sys.extension_connected
      /\ t.extension = sys.extension
      /\ t.extension_hotplug_timer = sys.extension_hotplug_timer
      /\ n # 0 => t.queue # <<>>
  <2>1. sys \in Sys /\ n \in Nat /\ v \in {0, 1, 7, 8}
    BY DEF Plugged
  <2> HIDE DEF t
  <2>2. t = push_packets(sys, n, v)
    BY DEF t
  <2> QED
    BY <2>1, <2>2, Packets, SMTT(60)
<1>2. ~Overlaps => n = 0 \/ sys.queue = <<>>
  BY DEF Overlaps
<1>3. ~Overlaps => \A sent : Told(sys, sent) /\ Filled(sys.queue) => Told(t, sent) /\ Filled(t.queue)
  BY <1>2, ReadTells DEF Plugged
<1> HIDE DEF t
<1>4. Plugged(t)
  BY <1>1 DEF Plugged
<1> QED
  BY <1>1, <1>3, <1>4 DEF Processed, t

\* The Motion Plus starts or stops: an extension that is in sets the format
\* again once nothing hides it.
LEMMA PortAnswer ==
  ASSUME Plugged(sys), NEW s \in Sys, s.queue = sys.queue, s.extension = sys.extension,
         s.extension_hotplug_timer = sys.extension_hotplug_timer
  PROVE  Processed(push_replug(init_extension(s)))
<1> DEFINE i == init_extension(s)
<1>1. /\ i \in Sys /\ i.queue = sys.queue
      /\ i.extension = sys.extension
      /\ i.extension_hotplug_timer = sys.extension_hotplug_timer
      /\ i.wmp_state # 1 /\ i.extension # NoExtension => i.extension_report_type = i.extension
  BY InitExtension
<1> HIDE DEF i
<1> DEFINE t == push_replug(i)
<1>2. /\ t \in Sys
      /\ t.extension_connected
      /\ t.wmp_state = i.wmp_state
      /\ t.extension_report_type = i.extension_report_type
      /\ t.extension = i.extension
      /\ t.extension_hotplug_timer = i.extension_hotplug_timer
      /\ t.queue # <<>>
      /\ \A sent : Filled(sys.queue) => Told(t, sent) /\ Filled(t.queue)
  BY <1>1, Replugged
<1> HIDE DEF t
<1>3. Plugged(t)
  BY <1>1, <1>2 DEF Plugged
<1> QED
  BY <1>1, <1>2, <1>3 DEF Processed, t, i

LEMMA ProcessReport ==
  ASSUME Plugged(sys), buf \in Buffer
  PROVE  Processed(process_report(sys, buf))
<1> DEFINE t == process_report(sys, buf)
<1>1. sys \in Sys
  BY DEF Plugged
<1>2. ASSUME NEW a \in Reply, a.kind \notin {"status", "blank"}
      PROVE  Processed(push(sys, <<a>>))
  BY <1>2, Answer
<1>3. CASE buf.op = "acked"
  <2>1. t = push(sys, <<Ack>>)
    BY <1>3 DEF process_report
  <2> QED
    BY <1>2, <2>1, Replies
<1>4. CASE buf.op = "mode"
  <2> DEFINE s == [sys EXCEPT !.reporting_continuous = buf.continuous, !.reporting_mode = buf.mode]
  <2>1. t = push(s, <<Ack>>)
    BY <1>4 DEF process_report
  <2>2. buf.continuous \in BOOLEAN /\ buf.mode \in ReportMode
    BY <1>4, RequestAssumption DEF Buffer, Requests
  <2>3. /\ s \in Sys /\ s.queue = sys.queue /\ s.extension = sys.extension
        /\ s.extension_hotplug_timer = sys.extension_hotplug_timer
        /\ s.extension_connected = sys.extension_connected
        /\ s.wmp_state = sys.wmp_state /\ s.extension_report_type = sys.extension_report_type
    BY <1>1, <2>2 DEF Sys
  <2> HIDE DEF s
  <2>4. Plugged(s)
    BY <2>3 DEF Plugged
  <2> QED
    BY <2>1, <2>3, <2>4, Answer, Replies
<1>5. CASE buf.op = "status"
  <2>1. t = push_status(sys)
    BY <1>5 DEF process_report
  <2>2. /\ t \in Sys
        /\ t.wmp_state = sys.wmp_state
        /\ t.extension_report_type = sys.extension_report_type
        /\ t.extension_connected = sys.extension_connected
        /\ t.extension = sys.extension
        /\ t.extension_hotplug_timer = sys.extension_hotplug_timer
        /\ t.queue # <<>>
        /\ \A sent : Filled(sys.queue) => Told(t, sent) /\ Filled(t.queue)
    BY <1>1, <2>1, StatusAnswer
  <2> HIDE DEF t
  <2>3. Plugged(t)
    BY <2>2 DEF Plugged
  <2> QED
    BY <2>2, <2>3 DEF Processed, t
<1>6. CASE buf.op = "badEeprom"
  <2>1. t = push(sys, <<Memory(8)>>)
    BY <1>6 DEF process_report
  <2> QED
    BY <1>2, <2>1, Replies
<1>7. CASE buf.op \in {"readEeprom", "readExtension", "readWmp"}
  <2>1. buf.packets \in Nat
    BY <1>7, RequestAssumption DEF Buffer, Requests
  <2>2. CASE buf.op = "readEeprom"
    BY <2>1, <2>2, ReadAnswer DEF process_report
  <2>3. CASE buf.op = "readExtension"
    <3>1. PICK v \in {0, 1} : t = push_packets(sys, buf.packets, v)
      BY <2>3 DEF process_report, read_register
    <3> QED
      BY <2>1, <2>3, <3>1, ReadAnswer
  <2>4. CASE buf.op = "readWmp" /\ sys.wmp_state = 1
    <3>1. t = push(sys, <<Memory(7)>>)
      BY <2>4 DEF process_report, read_register
    <3> QED
      BY <1>2, <3>1, Replies
  <2>5. CASE buf.op = "readWmp" /\ sys.wmp_state # 1
    <3>1. t = push_packets(sys, buf.packets, 0)
      BY <2>5 DEF process_report, read_register
    <3> QED
      BY <2>1, <2>5, <3>1, ReadAnswer
  <2> QED
    BY <1>7, <2>2, <2>3, <2>4, <2>5
<1>8. CASE buf.op \in {"unplugWmp", "stopWmp"} /\ sys.wmp_state = 1
  <2>1. PICK w \in {0, 3} : t = push_replug(init_extension([sys EXCEPT !.wmp_state = w]))
    <3>1. CASE buf.op = "unplugWmp"
      <4>1. t = push_replug(init_extension([sys EXCEPT !.wmp_state = 3]))
        BY <1>8, <3>1 DEF process_report, write_register
      <4> QED
        BY <4>1
    <3>2. CASE buf.op = "stopWmp"
      <4>1. t = push_replug(init_extension([sys EXCEPT !.wmp_state = 0]))
        BY <1>8, <3>2 DEF process_report, write_register
      <4> QED
        BY <4>1
    <3> QED
      BY <1>8, <3>1, <3>2
  <2> DEFINE s == [sys EXCEPT !.wmp_state = w]
  <2>2. /\ s \in Sys /\ s.queue = sys.queue /\ s.extension = sys.extension
        /\ s.extension_hotplug_timer = sys.extension_hotplug_timer
    BY <1>1 DEF Sys
  <2> HIDE DEF s
  <2>3. Processed(push_replug(init_extension(s)))
    BY <2>2, PortAnswer
  <2> QED
    BY <2>1, <2>3 DEF s
<1>9. CASE buf.op = "startWmp"
  <2> DEFINE s == [sys EXCEPT !.wmp_state = 1, !.extension_report_type = buf.type]
  <2>1. t = push_replug(init_extension(s))
    BY <1>9 DEF process_report, write_register
  <2>2. buf.type \in 4..7
    BY <1>9, RequestAssumption DEF Buffer, Requests
  <2>3. /\ s \in Sys /\ s.queue = sys.queue /\ s.extension = sys.extension
        /\ s.extension_hotplug_timer = sys.extension_hotplug_timer
    BY <1>1, <2>2 DEF Sys
  <2> HIDE DEF s
  <2> QED
    BY <2>1, <2>3, PortAnswer
<1>10. CASE buf.op = "stopWmp" /\ sys.wmp_state # 1
  <2>1. t = push(sys, <<Ack>>)
    BY <1>10 DEF process_report, write_register
  <2> QED
    BY <1>2, <2>1, Replies
<1>11. CASE buf.op = "encrypt" \/ (buf.op = "unplugWmp" /\ sys.wmp_state # 1)
  <2>1. PICK c \in BOOLEAN : t = push([sys EXCEPT !.extension_encrypted = c], <<Ack>>)
    BY <1>11 DEF process_report, write_register
  <2> DEFINE s == [sys EXCEPT !.extension_encrypted = c]
  <2>2. /\ s \in Sys /\ s.queue = sys.queue /\ s.extension = sys.extension
        /\ s.extension_hotplug_timer = sys.extension_hotplug_timer
        /\ s.extension_connected = sys.extension_connected
        /\ s.wmp_state = sys.wmp_state /\ s.extension_report_type = sys.extension_report_type
    BY <1>1 DEF Sys
  <2> HIDE DEF s
  <2>3. Plugged(s)
    BY <2>2 DEF Plugged
  <2>4. Processed(push(s, <<Ack>>))
    BY <2>2, <2>3, Answer, Replies
  <2> QED
    BY <2>1, <2>4 DEF s
<1>12. CASE buf.op \in {"none", "sent", "silent"}
  <2>1. t = sys
    BY <1>12 DEF process_report
  <2> QED
    BY <1>12, <2>1 DEF Processed
<1>13. buf.op \in {"acked", "status", "badEeprom", "unplugWmp", "stopWmp", "encrypt", "silent",
                   "mode", "readEeprom", "readExtension", "readWmp", "startWmp", "none", "sent"}
  BY RequestAssumption DEF Buffer, Requests
<1> QED
  BY <1>3, <1>4, <1>5, <1>6, <1>7, <1>8, <1>9, <1>10, <1>11, <1>12, <1>13

-----------------------------------------------------------------------------
(* The hotplug countdown.                                                  *)

LEMMA Unplug ==
  ASSUME NEW s \in Sys
  PROVE  /\ Plugged(unplug(s))
         /\ unplug(s).extension = NoExtension
         /\ unplug(s).extension_hotplug_timer = HOTPLUG
         /\ unplug(s).extension_connected = FALSE
         /\ unplug(s).wmp_state = s.wmp_state
         /\ unplug(s).queue # <<>>
         /\ \A sent : Filled(s.queue) => Told(unplug(s), sent) /\ Filled(unplug(s).queue)
<1> DEFINE u == [s EXCEPT !.extension_connected = FALSE, !.extension = NoExtension,
                          !.extension_hotplug_timer = HOTPLUG]
<1>1. /\ u \in Sys /\ u.queue = s.queue
      /\ u.extension = NoExtension /\ u.extension_hotplug_timer = HOTPLUG
      /\ u.extension_connected = FALSE /\ u.wmp_state = s.wmp_state
  <2>1. HOTPLUG \in -1..HOTPLUG /\ NoExtension \in Extension
    BY HotplugAssumption DEF Extension
  <2> QED
    BY <2>1 DEF Sys
<1>2. unplug(s) = push_status(u)
  BY DEF unplug
<1> HIDE DEF u
<1> DEFINE t == push_status(u)
<1>3. /\ t \in Sys
      /\ t.extension = u.extension
      /\ t.extension_hotplug_timer = u.extension_hotplug_timer
      /\ t.extension_connected = u.extension_connected
      /\ t.wmp_state = u.wmp_state
      /\ t.queue # <<>>
      /\ \A sent : Filled(u.queue) => Told(t, sent) /\ Filled(t.queue)
  BY <1>1, StatusAnswer
<1> HIDE DEF t
<1>4. Plugged(t)
  BY <1>1, <1>3, HotplugAssumption DEF Plugged
<1> QED
  BY <1>1, <1>2, <1>3, <1>4 DEF t

LEMMA Plug ==
  ASSUME NEW s \in Sys, NEW e \in {Nunchuk, Classic}
  PROVE  /\ Plugged(plug(s, e))
         /\ plug(s, e).extension = e
         /\ plug(s, e).wmp_state = s.wmp_state
         /\ plug(s, e).queue # <<>>
         /\ \A sent : Filled(s.queue) => Told(plug(s, e), sent) /\ Filled(plug(s, e).queue)
<1> DEFINE u == [s EXCEPT !.extension_connected = TRUE, !.extension = e]
<1>1. /\ u \in Sys /\ u.queue = s.queue /\ u.extension = e /\ u.extension_connected
      /\ u.wmp_state = s.wmp_state
  BY DEF Sys, Extension
<1>2. plug(s, e) = init_extension(push_status(u))
  BY DEF plug
<1> HIDE DEF u
\* push_status does not look at the format, which is set after it.
<1> DEFINE a == push_status(u)
<1>3. /\ a \in Sys /\ a.extension = e /\ a.extension_connected
      /\ a.wmp_state = s.wmp_state
      /\ a.queue # <<>>
      /\ \A sent : Filled(s.queue) => Told(a, sent) /\ Filled(a.queue)
  BY <1>1, StatusAnswer
<1> HIDE DEF a
<1> DEFINE t == init_extension(a)
<1>4. /\ t \in Sys
      /\ t.queue = a.queue
      /\ t.extension_connected = a.extension_connected
      /\ t.extension = a.extension
      /\ t.wmp_state = a.wmp_state
      /\ a.wmp_state # 1 /\ a.extension # NoExtension => t.extension_report_type = a.extension
  BY <1>3, InitExtension
<1> HIDE DEF t
<1>5. Plugged(t)
  BY <1>3, <1>4 DEF Plugged, Nunchuk, Classic, NoExtension
<1>6. \A sent : Filled(s.queue) => Told(t, sent) /\ Filled(t.queue)
  BY <1>3, <1>4 DEF Told
<1> QED
  BY <1>2, <1>3, <1>4, <1>5, <1>6 DEF a, t

\* A turn of the countdown of an extension that is out.
LEMMA Countdown ==
  ASSUME NEW s, Plugged(s), s.extension = NoExtension, NEW e \in Extension
  PROVE  /\ Plugged(countdown(s, e))
         /\ s.queue # <<>> => countdown(s, e).queue # <<>>
         /\ \A sent : Told(s, sent) /\ Filled(s.queue) =>
              Told(countdown(s, e), sent) /\ Filled(countdown(s, e).queue)
         /\ countdown(s, e).extension = NoExtension =>
              countdown(s, e).extension_hotplug_timer >= s.extension_hotplug_timer - 1
         /\ countdown(s, e).extension # NoExtension => s.extension_hotplug_timer <= 1
<1> DEFINE c == [s EXCEPT !.extension_hotplug_timer = s.extension_hotplug_timer - 1]
<1>1. s \in Sys /\ s.extension_hotplug_timer \in 0..HOTPLUG
  BY DEF Plugged, Sys
<1>2. /\ c \in Sys /\ c.queue = s.queue
      /\ c.extension = NoExtension
      /\ c.extension_connected = s.extension_connected
      /\ c.extension_hotplug_timer = s.extension_hotplug_timer - 1
  <2>1. s.extension_hotplug_timer - 1 \in -1..HOTPLUG
    BY <1>1, HotplugAssumption
  <2> HIDE DEF Reply
  <2> QED
    BY <1>1, <2>1 DEF Sys
<1>3. /\ e = NoExtension => countdown(s, e) = s
      /\ e # NoExtension /\ c.extension_hotplug_timer <= 0 => countdown(s, e) = plug(c, e)
      /\ e # NoExtension /\ ~(c.extension_hotplug_timer <= 0) => countdown(s, e) = c
  BY <1>1 DEF countdown
<1> HIDE DEF c
<1>4. CASE e = NoExtension
  BY <1>1, <1>3, <1>4
<1>5. CASE e # NoExtension /\ c.extension_hotplug_timer <= 0
  <2>1. e \in {Nunchuk, Classic}
    BY <1>5 DEF Extension
  <2> DEFINE t == plug(c, e)
  <2>2. /\ Plugged(t)
        /\ t.extension = e
        /\ t.queue # <<>>
        /\ \A sent : Filled(s.queue) => Told(t, sent) /\ Filled(t.queue)
    BY <1>2, <2>1, Plug
  <2>3. countdown(s, e) = t
    BY <1>3, <1>5
  <2> HIDE DEF t
  <2> QED
    BY <1>1, <1>2, <1>5, <2>2, <2>3
<1>6. CASE e # NoExtension /\ ~(c.extension_hotplug_timer <= 0)
  <2>1. countdown(s, e) = c
    BY <1>3, <1>6
  <2>2. Plugged(c)
    BY <1>1, <1>2, <1>6 DEF Plugged
  <2>3. \A sent : Told(s, sent) => Told(c, sent)
    BY <1>2 DEF Told
  <2> QED
    BY <1>1, <1>2, <2>1, <2>2, <2>3
<1> QED
  BY <1>4, <1>5, <1>6

\* The extension changes only to none and back from none, and back only at the
\* end of its countdown.
LEMMA Hotplug ==
  ASSUME NEW s, Plugged(s), NEW e \in Extension
  PROVE  /\ Plugged(hotplug(s, e))
         /\ s.queue # <<>> => hotplug(s, e).queue # <<>>
         /\ \A sent : Told(s, sent) /\ Filled(s.queue) =>
              Told(hotplug(s, e), sent) /\ Filled(hotplug(s, e).queue)
         /\ hotplug(s, e).extension = NoExtension =>
              hotplug(s, e).extension_hotplug_timer >=
                (IF s.extension = NoExtension THEN s.extension_hotplug_timer ELSE HOTPLUG) - 1
         /\ hotplug(s, e).extension # NoExtension /\ hotplug(s, e).extension # s.extension =>
              s.extension = NoExtension /\ s.extension_hotplug_timer <= 1
<1>1. s \in Sys /\ s.extension_hotplug_timer \in -1..HOTPLUG /\ HOTPLUG \in Nat /\ HOTPLUG > 1
  BY HotplugAssumption DEF Plugged, Sys
<1>2. CASE e = s.extension
  <2>1. hotplug(s, e) = s
    BY <1>2 DEF hotplug
  <2> QED
    BY <1>1, <2>1 DEF Plugged
<1>3. CASE e # s.extension /\ s.extension_connected
  <2> DEFINE u == unplug(s)
  <2>1. /\ Plugged(u)
        /\ u.extension = NoExtension
        /\ u.extension_hotplug_timer = HOTPLUG
        /\ u.queue # <<>>
        /\ \A sent : Filled(s.queue) => Told(u, sent) /\ Filled(u.queue)
    BY <1>1, Unplug
  <2>2. hotplug(s, e) = countdown(u, e)
    BY <1>3 DEF hotplug
  <2> HIDE DEF u
  <2> DEFINE t == countdown(u, e)
  <2>3. /\ Plugged(t)
        /\ t.queue # <<>>
        /\ \A sent : Told(u, sent) /\ Filled(u.queue) => Told(t, sent) /\ Filled(t.queue)
        /\ t.extension = NoExtension => t.extension_hotplug_timer >= HOTPLUG - 1
        /\ t.extension # NoExtension => HOTPLUG <= 1
    BY <2>1, Countdown
  <2> HIDE DEF t
  <2>4. t.extension = NoExtension /\ t.extension_hotplug_timer \in -1..HOTPLUG
    BY <1>1, <2>3 DEF Plugged, Sys
  <2>5. \A sent : Filled(s.queue) => Told(t, sent) /\ Filled(t.queue)
    BY <2>1, <2>3
  <2> QED
    BY <1>1, <2>2, <2>3, <2>4, <2>5 DEF t
<1>4. CASE e # s.extension /\ ~s.extension_connected
  <2>1. s.extension = NoExtension
    BY <1>4 DEF Plugged
  <2>2. hotplug(s, e) = countdown(s, e)
    BY <1>4 DEF hotplug
  <2> QED
    BY <2>1, <2>2, Countdown
<1> QED
  BY <1>2, <1>3, <1>4

-----------------------------------------------------------------------------
(* A turn of the task.                                                     *)

\* The head of the queue is sent: a status report tells from now on.
LEMMA Sending ==
  ASSUME NEW s, NEW t, NEW sent, NEW now, s.queue \in Seq(Reply), s.queue # <<>>,
         t.queue = Tail(s.queue), t.extension_connected = s.extension_connected,
         Head(s.queue).kind = "status" => (now <=> Head(s.queue).val = 1),
         Head(s.queue).kind # "status" => (now <=> sent),
         Told(s, sent), Filled(s.queue)
  PROVE  Told(t, now) /\ Filled(t.queue)
<1>1. /\ DOMAIN s.queue = 1..Len(s.queue) /\ Len(s.queue) \in Nat \ {0}
      /\ DOMAIN t.queue = 1..(Len(s.queue) - 1)
      /\ \A k \in DOMAIN t.queue : k + 1 \in DOMAIN s.queue /\ t.queue[k] = s.queue[k + 1]
      /\ \A k \in DOMAIN s.queue : k # 1 => k - 1 \in DOMAIN t.queue /\ t.queue[k - 1] = s.queue[k]
      /\ Head(s.queue) = s.queue[1]
  OBVIOUS
<1>2. Filled(t.queue)
  BY <1>1 DEF Filled
<1>3. ASSUME NEW k \in Statuses(t.queue), \A j \in Statuses(t.queue) : j <= k
      PROVE  t.extension_connected <=> t.queue[k].val = 1
  <2>1. k + 1 \in Statuses(s.queue) /\ t.queue[k] = s.queue[k + 1] /\ k \in Nat \ {0}
    BY <1>1 DEF Statuses
  <2>2. \A j \in Statuses(s.queue) : j <= k + 1
    <3> SUFFICES ASSUME NEW j \in Statuses(s.queue), j # 1 PROVE j <= k + 1
      BY <2>1
    <3>1. j - 1 \in Statuses(t.queue) /\ j \in Nat
      BY <1>1 DEF Statuses
    <3> QED
      BY <1>3, <2>1, <3>1
  <2> QED
    BY <2>1, <2>2 DEF Told
<1>4. ASSUME Statuses(t.queue) = {} PROVE t.extension_connected <=> now
  <2>1. Statuses(s.queue) \subseteq {1}
    <3> SUFFICES ASSUME NEW j \in Statuses(s.queue), j # 1 PROVE FALSE
      OBVIOUS
    <3>1. j - 1 \in Statuses(t.queue)
      BY <1>1 DEF Statuses
    <3> QED
      BY <1>4, <3>1
  <2>2. CASE Head(s.queue).kind = "status"
    <3>1. 1 \in Statuses(s.queue) /\ \A j \in Statuses(s.queue) : j <= 1
      BY <1>1, <2>1, <2>2 DEF Statuses
    <3> QED
      BY <1>1, <2>2, <3>1 DEF Told
  <2>3. CASE Head(s.queue).kind # "status"
    <3>1. Statuses(s.queue) = {}
      BY <1>1, <2>1, <2>3 DEF Statuses
    <3> QED
      BY <2>3, <3>1 DEF Told
  <2> QED
    BY <2>2, <2>3
<1>5. Told(t, now)
  BY <1>3, <1>4 DEF Told
<1> QED
  BY <1>2, <1>5

LEMMA Initial == Init => Inv
<1> SUFFICES ASSUME Init PROVE Inv
  OBVIOUS
<1>1. sys \in Sys
  <2>1. <<Core>> \in Seq(Reply)
    BY Replies
  <2>2. 0 \in -1..HOTPLUG /\ NoExtension \in Extension /\ 48 \in ReportMode
    BY HotplugAssumption DEF Extension, ReportMode
  <2> QED
    BY <2>1, <2>2 DEF Init, Sys
<1>2. buf \in Buffer /\ usr \in Extension /\ unplugged \in 1..HOTPLUG
  BY HotplugAssumption DEF Init, Buffer, Extension
<1>3. TypeOK
  BY <1>1, <1>2 DEF Init, TypeOK
<1>4. Plugged(sys) /\ TimerInv
  BY <1>1 DEF Init, Plugged, TimerInv
<1>5. QueueInv
  <2>1. sys.queue = <<Core>> /\ Core.kind = "core" /\ sys.extension_connected = FALSE /\ shown = FALSE
    BY DEF Init, Core
  <2>2. Len(<<Core>>) = 1 /\ <<Core>>[1] = Core /\ DOMAIN <<Core>> = {1}
    OBVIOUS
  <2>3. Statuses(sys.queue) = {} /\ Filled(sys.queue)
    BY <2>1, <2>2 DEF Statuses, Filled
  <2> QED
    BY <2>1, <2>3 DEF QueueInv, Told
<1> QED
  BY <1>3, <1>4, <1>5 DEF Inv

\* What send_data keeps, whatever it sends.
LEMMA Turn ==
  ASSUME Inv, NEW e \in Extension, send_data(e)
  PROVE  /\ TypeOK' /\ Plugged(sys') /\ QueueInv'
         /\ sys'.extension = hotplug(process_report(sys, buf), e).extension
         /\ sys'.extension_hotplug_timer = hotplug(process_report(sys, buf), e).extension_hotplug_timer
         /\ sys'.extension_connected = hotplug(process_report(sys, buf), e).extension_connected
         /\ sys'.wmp_state = hotplug(process_report(sys, buf), e).wmp_state
         /\ \/ buf'.op = "sent"
            \/ buf' = buf /\ hotplug(process_report(sys, buf), e).queue = <<>>
<1> DEFINE p == process_report(sys, buf)
<1> DEFINE s == hotplug(p, e)
<1>1. /\ TypeOK /\ Plugged(sys) /\ QueueInv
      /\ buf \in Buffer /\ unplugged \in 1..HOTPLUG /\ HOTPLUG \in Nat
  BY HotplugAssumption DEF Inv, TypeOK
<1>2. Processed(p)
  BY <1>1, ProcessReport
<1> HIDE DEF p
<1>3. /\ Plugged(s)
      /\ \A sent : Told(p, sent) /\ Filled(p.queue) => Told(s, sent) /\ Filled(s.queue)
  BY <1>2, Hotplug DEF Processed
<1>4. /\ usr' = e /\ linked' = linked
      /\ overlapped' = (overlapped \/ Overlaps)
      /\ unplugged' \in 1..HOTPLUG
  BY <1>1 DEF send_data
<1>5. \/ Quiet(s) /\ sys' = s /\ UNCHANGED <<buf, shown>>
      \/ /\ ~Quiet(s) /\ s.queue = <<>> /\ sys' = [s EXCEPT !.reporting_mode = alternate(@)]
         /\ buf' = Sent(DataReport(s)) /\ UNCHANGED shown
      \/ /\ s.queue # <<>> /\ sys' = [s EXCEPT !.queue = Tail(@)]
         /\ buf' = Sent(Head(s.queue))
         /\ shown' = IF Head(s.queue).kind = "status" THEN Head(s.queue).val = 1 ELSE shown
  BY DEF send_data, p, Quiet
<1> HIDE DEF s
<1>6. s \in Sys /\ s.queue \in Seq(Reply) /\ s.reporting_mode \in ReportMode
  BY <1>3 DEF Plugged, Sys
<1>7. ~overlapped' => Told(s, shown) /\ Filled(s.queue)
  BY <1>1, <1>2, <1>3, <1>4 DEF QueueInv, Processed
<1>8. CASE Quiet(s) /\ sys' = s /\ UNCHANGED <<buf, shown>>
  <2>1. s.queue = <<>>
    BY <1>8 DEF Quiet
  <2>2. QueueInv'
    BY <1>7, <1>8 DEF QueueInv
  <2>3. TypeOK'
    BY <1>1, <1>4, <1>6, <1>8 DEF TypeOK
  <2> QED
    BY <1>3, <1>8, <2>1, <2>2, <2>3 DEF s, p
<1>9. CASE /\ s.queue = <<>> /\ sys' = [s EXCEPT !.reporting_mode = alternate(@)]
           /\ buf' = Sent(DataReport(s)) /\ UNCHANGED shown
  <2>1. alternate(s.reporting_mode) \in ReportMode
    BY <1>6 DEF alternate, ReportMode
  <2>2. /\ sys' \in Sys /\ sys'.queue = s.queue
        /\ sys'.extension_connected = s.extension_connected
        /\ sys'.extension = s.extension
        /\ sys'.extension_hotplug_timer = s.extension_hotplug_timer
        /\ sys'.wmp_state = s.wmp_state
        /\ sys'.extension_report_type = s.extension_report_type
    <3> HIDE DEF Reply
    <3> QED
      BY <1>6, <1>9, <2>1 DEF Sys
  <2>3. Plugged(sys')
    BY <1>3, <2>2 DEF Plugged
  <2>4. QueueInv'
    BY <1>7, <1>9, <2>2 DEF QueueInv, Told
  <2>5. buf' \in Buffer /\ buf'.op = "sent"
    <3>1. DataReport(s) \in Data
      BY <1>6 DEF DataReport, Data, appends_extension
    <3> QED
      BY <1>9, <3>1 DEF Buffer, Sent
  <2>6. TypeOK'
    BY <1>1, <1>4, <1>9, <2>2, <2>5 DEF TypeOK
  <2> QED
    BY <2>2, <2>3, <2>4, <2>5, <2>6 DEF s, p
<1>10. CASE /\ s.queue # <<>> /\ sys' = [s EXCEPT !.queue = Tail(@)]
            /\ buf' = Sent(Head(s.queue))
            /\ shown' = IF Head(s.queue).kind = "status" THEN Head(s.queue).val = 1 ELSE shown
  <2>1. Tail(s.queue) \in Seq(Reply) /\ Head(s.queue) \in Reply
    BY <1>6, <1>10
  <2>2. /\ sys' \in Sys /\ sys'.queue = Tail(s.queue)
        /\ sys'.extension_connected = s.extension_connected
        /\ sys'.extension = s.extension
        /\ sys'.extension_hotplug_timer = s.extension_hotplug_timer
        /\ sys'.wmp_state = s.wmp_state
        /\ sys'.extension_report_type = s.extension_report_type
    <3> HIDE DEF Reply
    <3> QED
      BY <1>6, <1>10, <2>1 DEF Sys
  <2>3. Plugged(sys')
    BY <1>3, <2>2 DEF Plugged
  <2>4. /\ Head(s.queue).kind = "status" => (shown' <=> Head(s.queue).val = 1)
        /\ Head(s.queue).kind # "status" => (shown' <=> shown)
        /\ shown' \in BOOLEAN
    BY <1>1, <1>10 DEF TypeOK
  <2>5. ~overlapped' => Told(sys', shown') /\ Filled(sys'.queue)
    BY <1>6, <1>7, <1>10, <2>2, <2>4, Sending
  <2>6. QueueInv'
    BY <2>5 DEF QueueInv
  <2>7. buf' \in Buffer /\ buf'.op = "sent"
    BY <1>10, <2>1 DEF Buffer, Sent
  <2>8. TypeOK'
    BY <1>1, <1>4, <2>2, <2>4, <2>7 DEF TypeOK
  <2> QED
    BY <2>2, <2>3, <2>6, <2>7, <2>8 DEF s, p
<1> QED
  BY <1>5, <1>8, <1>9, <1>10

LEMMA SendStep ==
  ASSUME Inv, NEW e \in Extension, send_data(e)
  PROVE  /\ Inv'
         /\ \/ buf'.op \in {"none", "sent", "silent"}
            \/ buf'.op \in {"readEeprom", "readExtension", "readWmp"} /\ buf'.packets = 0
         /\ sys.extension # sys'.extension /\ sys'.extension # NoExtension =>
              sys.extension = NoExtension /\ unplugged' = HOTPLUG
<1> DEFINE p == process_report(sys, buf)
<1> DEFINE s == hotplug(p, e)
<1>1. /\ Plugged(sys) /\ TimerInv /\ unplugged \in 1..HOTPLUG /\ HOTPLUG \in Nat /\ HOTPLUG > 1
      /\ sys.extension_hotplug_timer \in -1..HOTPLUG
  BY HotplugAssumption DEF Inv, TypeOK, Plugged, Sys
<1>2. Processed(p)
  BY ProcessReport DEF Inv, TypeOK
<1>3. /\ TypeOK' /\ Plugged(sys') /\ QueueInv'
      /\ sys'.extension = s.extension
      /\ sys'.extension_hotplug_timer = s.extension_hotplug_timer
      /\ buf'.op = "sent" \/ (buf' = buf /\ s.queue = <<>>)
  BY Turn
<1> HIDE DEF p
<1>4. /\ p.queue # <<>> => s.queue # <<>>
      /\ s.extension = NoExtension =>
           s.extension_hotplug_timer >=
             (IF sys.extension = NoExtension THEN sys.extension_hotplug_timer ELSE HOTPLUG) - 1
      /\ s.extension # NoExtension /\ s.extension # sys.extension =>
           sys.extension = NoExtension /\ sys.extension_hotplug_timer <= 1
  BY <1>2, Hotplug DEF Processed
<1> HIDE DEF s
<1>5. unplugged' = IF sys.extension # NoExtension /\ sys'.extension = NoExtension THEN 1
                   ELSE IF unplugged < HOTPLUG THEN unplugged + 1 ELSE unplugged
  BY DEF send_data
<1>6. sys'.extension_hotplug_timer \in -1..HOTPLUG
  BY <1>3 DEF Plugged, Sys
<1>7. TimerInv'
  BY <1>1, <1>3, <1>4, <1>5, <1>6 DEF TimerInv
<1>8. \/ buf'.op \in {"none", "sent", "silent"}
      \/ buf'.op \in {"readEeprom", "readExtension", "readWmp"} /\ buf'.packets = 0
  BY <1>2, <1>3, <1>4 DEF Processed
<1>9. sys.extension # sys'.extension /\ sys'.extension # NoExtension =>
        sys.extension = NoExtension /\ unplugged' = HOTPLUG
  BY <1>1, <1>3, <1>4, <1>5 DEF TimerInv
<1>10. Inv'
  BY <1>3, <1>7 DEF Inv, Plugged
<1> QED
  BY <1>8, <1>9, <1>10

\* The link and the requests of the console touch the buffer at most.
LEMMA LinkStep ==
  ASSUME Inv,
         ConnectionOpened \/ ConnectionClosed \/ wiimote_emulator_reset
           \/ \E r \in Request : get_data_wii(r)
  PROVE  Inv' /\ UNCHANGED sys
<1>1. UNCHANGED <<usr, sys, shown, overlapped, unplugged>> /\ linked' \in BOOLEAN /\ buf' \in Buffer
  <2>1. buf \in Buffer /\ linked \in BOOLEAN
    BY DEF Inv, TypeOK
  <2>2. CASE ConnectionOpened \/ ConnectionClosed
    BY <2>1, <2>2 DEF ConnectionOpened, ConnectionClosed
  <2>3. CASE wiimote_emulator_reset
    BY <2>1, <2>3 DEF wiimote_emulator_reset, Buffer
  <2>4. ASSUME NEW r \in Request, get_data_wii(r)
        PROVE  UNCHANGED <<usr, sys, shown, overlapped, unplugged>> /\ linked' \in BOOLEAN
               /\ buf' \in Buffer
    BY <2>1, <2>4 DEF get_data_wii, Buffer
  <2> QED
    BY <2>2, <2>3, <2>4
<1> QED
  BY <1>1 DEF Inv, TypeOK, QueueInv, TimerInv

LEMMA Step == Inv /\ [Next]_vars => Inv'
<1> SUFFICES ASSUME Inv, [Next]_vars PROVE Inv'
  OBVIOUS
<1>1. CASE Next
  BY <1>1, SendStep, LinkStep DEF Next
<1>2. CASE UNCHANGED vars
  BY <1>2 DEF vars, Inv, TypeOK, QueueInv, TimerInv
<1> QED
  BY <1>1, <1>2

-----------------------------------------------------------------------------
\* The types hold for every set of requests, also of the countdown, which goes
\* below zero by one at most (generate_report).
THEOREM TypeCorrect == Spec => []TypeOK
<1>1. Inv => TypeOK
  BY DEF Inv
<1> QED
  BY <1>1, Initial, Step, PTL DEF Spec

\* The format of the extension bytes is that of the extension plugged in,
\* whenever the Motion Plus starts and stops (init_extension).
THEOREM FormatCorrect == Spec => []FormatMatchesExtension
<1>1. Inv => FormatMatchesExtension
  BY DEF Inv, Plugged, FormatMatchesExtension
<1> QED
  BY <1>1, Initial, Step, PTL DEF Spec

\* A queue of any length tells the console of the extension (push_status in
\* wm_reports.c), reads over waiting replies left out.
THEOREM ToldCorrect == Spec => []ConsoleIsTold
<1>1. Inv => ConsoleIsTold
  BY DEF Inv, QueueInv, ConsoleIsTold
<1> QED
  BY <1>1, Initial, Step, PTL DEF Spec

\* Reads of any number of packets are filled (read_eeprom, read_register), if
\* none is executed over waiting replies.
THEOREM FilledCorrect == Spec => []ReadsAreFilled
<1>1. Inv => ReadsAreFilled
  BY DEF Inv, QueueInv, Filled, ReadsAreFilled
<1> QED
  BY <1>1, Initial, Step, PTL DEF Spec

\* A request that was answered has left the buffer (send_data): it is executed
\* once.
THEOREM OnceCorrect == Spec => ExecutedOnce
<1>1. Inv /\ [Next]_vars =>
        [\A e \in Extension : send_data(e) =>
           \/ buf'.op \in {"none", "sent", "silent"}
           \/ buf'.op \in {"readEeprom", "readExtension", "readWmp"} /\ buf'.packets = 0]_vars
  BY SendStep
<1> QED
  BY <1>1, Initial, Step, PTL DEF Spec, ExecutedOnce

\* An extension stays out for the whole countdown, whatever length above one it
\* has (generate_report): the turn that unplugs does not plug in.
THEOREM UnpluggedCorrect == Spec => UnpluggedLongEnough
<1>1. Inv /\ [Next]_vars =>
        [sys.extension # sys'.extension /\ sys'.extension # NoExtension
           => sys.extension = NoExtension /\ unplugged' = HOTPLUG]_vars
  BY SendStep, LinkStep DEF Next, vars
<1> QED
  BY <1>1, Initial, Step, PTL DEF Spec, UnpluggedLongEnough
-----------------------------------------------------------------------------
(* The reply queue as a queue.                                             *)

\* A turn sends the first of the replies that wait and moves the others up as
\* they are, unless it executes a read over them; nothing else touches them.
RepliesInOrder ==
  [][sys.queue # <<>> /\ ~Overlaps =>
       IF \E e \in Extension : send_data(e)
         THEN /\ buf' = Sent(Head(sys.queue))
              /\ \A k \in 1..(Len(sys.queue) - 1) :
                   k \in DOMAIN sys'.queue /\ sys'.queue[k] = sys.queue[k + 1]
         ELSE UNCHANGED sys]_vars

\* The queue of t is that of s with replies behind it.
Behind(s, t) == \E rs \in Seq(Reply) : t.queue = s.queue \o rs

LEMMA SameBehind ==
  ASSUME NEW s \in Sys, NEW t, t.queue = s.queue
  PROVE  Behind(s, t)
<1>1. s.queue \in Seq(Reply) /\ <<>> \in Seq(Reply)
  BY DEF Sys
<1>2. s.queue \o <<>> = s.queue
  BY <1>1
<1> QED
  BY <1>1, <1>2 DEF Behind

LEMMA BehindEach ==
  ASSUME NEW s \in Sys, NEW t \in Sys, NEW u, Behind(s, t), Behind(t, u)
  PROVE  Behind(s, u)
<1>1. PICK a \in Seq(Reply) : t.queue = s.queue \o a
  BY DEF Behind
<1>2. PICK b \in Seq(Reply) : u.queue = t.queue \o b
  BY DEF Behind
<1>3. s.queue \in Seq(Reply)
  BY DEF Sys
<1>4. (s.queue \o a) \o b = s.queue \o (a \o b)
  <2>1. \A x, y, z \in Seq(Reply) : (x \o y) \o z = x \o (y \o z)
    BY ConcatAssociative
  <2> QED
    BY <1>1, <1>2, <1>3, <2>1, Zenon
<1>5. u.queue = s.queue \o (a \o b) /\ a \o b \in Seq(Reply)
  BY <1>1, <1>2, <1>4
<1> QED
  BY <1>5 DEF Behind

LEMMA PushedBehind ==
  ASSUME NEW s \in Sys, NEW rs \in Seq(Reply)
  PROVE  Behind(s, push(s, rs))
  BY Pushed DEF Behind

LEMMA StatusBehind ==
  ASSUME NEW s \in Sys
  PROVE  Behind(s, push_status(s))
<1>1. Status(s.extension_connected) \in Reply
  BY Replies DEF Sys
<1>2. <<Status(s.extension_connected)>> \in Seq(Reply)
  BY <1>1
<1> QED
  BY <1>2, PushedBehind DEF push_status

LEMMA ReplugBehind ==
  ASSUME NEW s \in Sys
  PROVE  Behind(s, push_replug(s))
<1> DEFINE rs == <<Ack, Status(FALSE), Status(TRUE)>>
<1> DEFINE u == push(s, rs)
<1>1. rs \in Seq(Reply)
  <2>1. Ack \in Reply /\ Status(FALSE) \in Reply /\ Status(TRUE) \in Reply
    BY Replies, Zenon
  <2>2. \A x, y, z \in Reply : <<x, y, z>> \in Seq(Reply)
    OBVIOUS
  <2> QED
    BY <2>1, <2>2, Zenon
<1> HIDE DEF rs
<1>2. u \in Sys /\ Behind(s, u)
  BY <1>1, Pushed, PushedBehind
<1>3. push_replug(s) = [u EXCEPT !.extension_connected = TRUE]
  BY DEF push_replug, rs
<1> HIDE DEF u
<1>4. push_replug(s).queue = u.queue
  BY <1>2, <1>3 DEF Sys
<1> QED
  BY <1>2, <1>4 DEF Behind

LEMMA ReportBehind ==
  ASSUME Plugged(sys), buf \in Buffer, ~Overlaps, sys.queue # <<>>
  PROVE  Behind(sys, process_report(sys, buf))
<1> DEFINE t == process_report(sys, buf)
<1>1. sys \in Sys
  BY DEF Plugged
<1>2. ASSUME NEW s \in Sys, s.queue = sys.queue, NEW a \in Reply
      PROVE  Behind(sys, push(s, <<a>>))
  <2>1. <<a>> \in Seq(Reply)
    OBVIOUS
  <2>2. Behind(s, push(s, <<a>>))
    BY <2>1, PushedBehind
  <2> QED
    BY <1>2, <2>2 DEF Behind
<1>3. CASE buf.op \in {"acked", "badEeprom", "readWmp"} /\ (buf.op = "readWmp" => sys.wmp_state = 1)
  <2>1. PICK a \in Reply : t = push(sys, <<a>>)
    BY <1>3, Replies DEF process_report, read_register
  <2> QED
    BY <1>1, <1>2, <2>1
<1>4. CASE buf.op = "mode"
  <2> DEFINE s == [sys EXCEPT !.reporting_continuous = buf.continuous, !.reporting_mode = buf.mode]
  <2>1. t = push(s, <<Ack>>)
    BY <1>4 DEF process_report
  <2>2. buf.continuous \in BOOLEAN /\ buf.mode \in ReportMode
    BY <1>4, RequestAssumption DEF Buffer, Requests
  <2>3. s \in Sys /\ s.queue = sys.queue
    BY <1>1, <2>2 DEF Sys
  <2> HIDE DEF s
  <2> QED
    BY <1>2, <2>1, <2>3, Replies
<1>5. CASE buf.op = "status"
  <2>1. t = push_status(sys)
    BY <1>5 DEF process_report
  <2> QED
    BY <1>1, <2>1, StatusBehind
<1>6. CASE buf.op \in {"readEeprom", "readExtension", "readWmp"}
           /\ (buf.op = "readWmp" => sys.wmp_state # 1)
  <2>1. buf.packets = 0 /\ buf.packets \in Nat
    <3>1. buf.packets \in Nat
      BY <1>6, RequestAssumption DEF Buffer, Requests
    <3>2. ~(buf.packets > 0)
      BY <1>6 DEF Overlaps
    <3> QED
      BY <3>1, <3>2
  <2>2. PICK v \in {0, 1} : t = push_packets(sys, buf.packets, v)
    BY <1>6 DEF process_report, read_register
  <2>3. \A n \in Nat : n = 0 => push_packets(sys, n, v).queue = sys.queue
    <3>1. v \in {0, 1, 7, 8}
      OBVIOUS
    <3> QED
      BY <1>1, <3>1, Packets
  <2>4. t.queue = sys.queue
    BY <2>1, <2>2, <2>3, Zenon
  <2> HIDE DEF t
  <2> QED
    BY <1>1, <2>4, SameBehind DEF t
<1>7. CASE buf.op \in {"unplugWmp", "stopWmp", "startWmp"} /\ (buf.op # "startWmp" => sys.wmp_state = 1)
  <2>1. PICK s \in Sys : s.queue = sys.queue /\ t = push_replug(init_extension(s))
    <3>1. CASE buf.op = "unplugWmp"
      <4>1. t = push_replug(init_extension([sys EXCEPT !.wmp_state = 3]))
        BY <1>7, <3>1 DEF process_report, write_register
      <4>2. [sys EXCEPT !.wmp_state = 3] \in Sys /\ [sys EXCEPT !.wmp_state = 3].queue = sys.queue
        BY <1>1 DEF Sys
      <4> QED
        BY <4>1, <4>2
    <3>2. CASE buf.op = "stopWmp"
      <4>1. t = push_replug(init_extension([sys EXCEPT !.wmp_state = 0]))
        BY <1>7, <3>2 DEF process_report, write_register
      <4>2. [sys EXCEPT !.wmp_state = 0] \in Sys /\ [sys EXCEPT !.wmp_state = 0].queue = sys.queue
        BY <1>1 DEF Sys
      <4> QED
        BY <4>1, <4>2
    <3>3. CASE buf.op = "startWmp"
      <4> DEFINE s == [sys EXCEPT !.wmp_state = 1, !.extension_report_type = buf.type]
      <4>1. t = push_replug(init_extension(s))
        BY <3>3 DEF process_report, write_register
      <4>2. buf.type \in 4..7
        BY <3>3, RequestAssumption DEF Buffer, Requests
      <4>3. s \in Sys /\ s.queue = sys.queue
        BY <1>1, <4>2 DEF Sys
      <4> QED
        BY <4>1, <4>3
    <3> QED
      BY <1>7, <3>1, <3>2, <3>3
  <2>2. init_extension(s) \in Sys /\ init_extension(s).queue = sys.queue
    BY <2>1, InitExtension
  <2>3. Behind(init_extension(s), t)
    BY <2>1, <2>2, ReplugBehind
  <2> QED
    BY <2>2, <2>3 DEF Behind
<1>8. CASE buf.op \in {"unplugWmp", "stopWmp", "encrypt"} /\ (buf.op # "encrypt" => sys.wmp_state # 1)
  <2>1. PICK c \in BOOLEAN : t = push([sys EXCEPT !.extension_encrypted = c], <<Ack>>)
    <3>1. sys = [sys EXCEPT !.extension_encrypted = sys.extension_encrypted]
      BY <1>1 DEF Sys
    <3>2. sys.extension_encrypted \in BOOLEAN
      BY <1>1 DEF Sys
    <3> QED
      BY <1>8, <3>1, <3>2 DEF process_report, write_register
  <2> DEFINE s == [sys EXCEPT !.extension_encrypted = c]
  <2>2. s \in Sys /\ s.queue = sys.queue
    BY <1>1 DEF Sys
  <2> HIDE DEF s
  <2>3. Behind(sys, push(s, <<Ack>>))
    BY <1>2, <2>2, Replies
  <2> QED
    BY <2>1, <2>3 DEF s
<1>9. CASE buf.op \in {"none", "sent", "silent"}
  <2>1. t = sys
    BY <1>9 DEF process_report
  <2> QED
    BY <1>1, <2>1, SameBehind
<1>10. buf.op \in {"acked", "status", "badEeprom", "unplugWmp", "stopWmp", "encrypt", "silent",
                   "mode", "readEeprom", "readExtension", "readWmp", "startWmp", "none", "sent"}
  BY RequestAssumption DEF Buffer, Requests
<1> QED
  BY <1>3, <1>4, <1>5, <1>6, <1>7, <1>8, <1>9, <1>10

LEMMA HotplugBehind ==
  ASSUME NEW s, Plugged(s), NEW e \in Extension
  PROVE  Behind(s, hotplug(s, e))
<1>1. s \in Sys
  BY DEF Plugged
<1>2. CASE e = s.extension
  BY <1>1, <1>2, SameBehind DEF hotplug
<1>3. CASE e # s.extension
  <2> DEFINE u == IF s.extension_connected THEN unplug(s) ELSE s
  <2>1. Plugged(u) /\ u.extension = NoExtension /\ Behind(s, u)
    <3>1. CASE s.extension_connected
      <4> DEFINE v == [s EXCEPT !.extension_connected = FALSE, !.extension = NoExtension,
                                !.extension_hotplug_timer = HOTPLUG]
      <4>1. unplug(s) = push_status(v)
        BY DEF unplug
      <4>2. v \in Sys /\ v.queue = s.queue
        <5>1. HOTPLUG \in -1..HOTPLUG /\ NoExtension \in Extension
          BY HotplugAssumption DEF Extension
        <5> QED
          BY <1>1, <5>1 DEF Sys
      <4> HIDE DEF v
      <4>3. Behind(s, unplug(s))
        BY <4>1, <4>2, StatusBehind DEF Behind
      <4> QED
        BY <1>1, <3>1, <4>3, Unplug
    <3>2. CASE ~s.extension_connected
      BY <1>1, <1>3, <3>2, SameBehind DEF Plugged
    <3> QED
      BY <3>1, <3>2
  <2>2. hotplug(s, e) = countdown(u, e)
    BY <1>3 DEF hotplug
  <2> HIDE DEF u
  <2>3. u \in Sys /\ u.extension_hotplug_timer \in 0..HOTPLUG
    BY <2>1 DEF Plugged, Sys
  <2> DEFINE c == [u EXCEPT !.extension_hotplug_timer = @ - 1]
  <2>4. c \in Sys /\ c.queue = u.queue
    <3>1. u.extension_hotplug_timer - 1 \in -1..HOTPLUG
      BY <2>3, HotplugAssumption
    <3> HIDE DEF Reply
    <3> QED
      BY <2>3, <3>1 DEF Sys
  <2>5. countdown(u, e) = IF e = NoExtension THEN u
                          ELSE IF c.extension_hotplug_timer <= 0 THEN plug(c, e) ELSE c
    BY DEF countdown
  <2> HIDE DEF c
  <2>6. ASSUME e # NoExtension PROVE Behind(c, plug(c, e))
    <3> DEFINE v == [c EXCEPT !.extension_connected = TRUE, !.extension = e]
    <3>1. v \in Sys /\ v.queue = c.queue
      BY <2>4 DEF Sys
    <3>2. plug(c, e) = init_extension(push_status(v))
      BY DEF plug
    <3> HIDE DEF v
    <3>3. push_status(v) \in Sys /\ Behind(v, push_status(v))
      BY <3>1, StatusAnswer, StatusBehind
    <3>4. init_extension(push_status(v)).queue = push_status(v).queue
      BY <3>3, InitExtension
    <3> QED
      BY <3>1, <3>2, <3>3, <3>4 DEF Behind
  <2>7. Behind(u, countdown(u, e))
    <3>1. Behind(u, u) /\ Behind(u, c)
      BY <2>3, <2>4, SameBehind
    <3>2. ASSUME e # NoExtension PROVE Behind(u, plug(c, e))
      BY <2>4, <2>6, <3>2 DEF Behind
    <3> QED
      BY <2>5, <3>1, <3>2
  <2> QED
    BY <1>1, <2>1, <2>2, <2>3, <2>7, BehindEach
<1> QED
  BY <1>2, <1>3

LEMMA MovedUp ==
  ASSUME Inv, NEW e \in Extension, send_data(e), sys.queue # <<>>, ~Overlaps
  PROVE  /\ buf' = Sent(Head(sys.queue))
         /\ \A k \in 1..(Len(sys.queue) - 1) :
              k \in DOMAIN sys'.queue /\ sys'.queue[k] = sys.queue[k + 1]
<1> DEFINE p == process_report(sys, buf)
<1> DEFINE s == hotplug(p, e)
<1>1. Plugged(sys) /\ buf \in Buffer /\ sys \in Sys
  BY DEF Inv, TypeOK
<1>2. Plugged(p) /\ Behind(sys, p)
  BY <1>1, ProcessReport, ReportBehind DEF Processed
<1> HIDE DEF p
<1>3. p \in Sys /\ Behind(p, s) /\ Plugged(s)
  BY <1>2, HotplugBehind, Hotplug DEF Plugged
<1> HIDE DEF s
<1>4. Behind(sys, s) /\ s \in Sys
  BY <1>1, <1>2, <1>3, BehindEach DEF Plugged
<1> HIDE DEF Reply
<1>5. PICK rs \in Seq(Reply) : s.queue = sys.queue \o rs
  BY <1>4 DEF Behind
<1>6. sys.queue \in Seq(Reply)
  BY <1>1 DEF Sys
<1>7. s.queue # <<>> /\ Head(s.queue) = Head(sys.queue) /\ s.queue \in Seq(Reply)
  BY <1>5, <1>6
<1>8. sys' = [s EXCEPT !.queue = Tail(@)] /\ buf' = Sent(Head(s.queue))
  BY <1>7 DEF send_data, s, p, Quiet
<1>9. sys'.queue = Tail(s.queue)
  BY <1>4, <1>8 DEF Sys
<1>10. \A k \in 1..(Len(sys.queue) - 1) :
         k \in DOMAIN Tail(s.queue) /\ Tail(s.queue)[k] = sys.queue[k + 1]
  <2>1. /\ Len(s.queue) = Len(sys.queue) + Len(rs)
        /\ \A k \in 1..Len(sys.queue) : s.queue[k] = sys.queue[k]
    BY <1>5, <1>6
  <2>2. /\ Tail(s.queue) \in Seq(Reply) /\ Len(Tail(s.queue)) = Len(s.queue) - 1
        /\ \A k \in 1..Len(Tail(s.queue)) : Tail(s.queue)[k] = s.queue[k + 1]
    BY <1>7, HeadTailProperties
  <2>3. Len(sys.queue) \in Nat /\ Len(rs) \in Nat
    BY <1>6
  <2> SUFFICES ASSUME NEW k \in 1..(Len(sys.queue) - 1)
               PROVE  k \in DOMAIN Tail(s.queue) /\ Tail(s.queue)[k] = sys.queue[k + 1]
    OBVIOUS
  <2>4. k \in 1..Len(Tail(s.queue)) /\ k + 1 \in 1..Len(sys.queue)
    BY <2>1, <2>2, <2>3
  <2>5. DOMAIN Tail(s.queue) = 1..Len(Tail(s.queue))
    BY <2>2
  <2> QED
    BY <2>1, <2>2, <2>4, <2>5
<1> QED
  BY <1>7, <1>8, <1>9, <1>10

\* The reply queue of the emulator (wm_reports.c) is a queue, of any length and
\* under any requests: replies reach the console unaltered and in the order of
\* their requests, in one turn each, and neither hotplug nor a broken link
\* loses one; only a read executed over them (read_eeprom, read_register) does.
THEOREM OrderCorrect == Spec => RepliesInOrder
<1>1. Inv /\ [Next]_vars =>
        [sys.queue # <<>> /\ ~Overlaps =>
           IF \E e \in Extension : send_data(e)
             THEN /\ buf' = Sent(Head(sys.queue))
                  /\ \A k \in 1..(Len(sys.queue) - 1) :
                       k \in DOMAIN sys'.queue /\ sys'.queue[k] = sys.queue[k + 1]
             ELSE UNCHANGED sys]_vars
  BY MovedUp, LinkStep DEF Next
<1> QED
  BY <1>1, Initial, Step, PTL DEF Spec, RepliesInOrder
-----------------------------------------------------------------------------
(* What the liveness rests on.                                             *)

\* The turns until extension e is plugged in: those of the countdown, after
\* one that unplugs, and those that a Motion Plus about to stop may cost, which
\* leaves extension_connected set whatever is plugged in.
TurnsLeft(e) ==
  (IF sys.wmp_state = 1 THEN HOTPLUG + 3 ELSE 0)
    + (IF sys.extension = e THEN 0
       ELSE IF sys.extension_connected THEN HOTPLUG + 2
       ELSE sys.extension_hotplug_timer + 1)

\* Each turn of a user who stays with extension e brings it nearer, and keeps
\* it once it is in, unless the turn starts the Motion Plus.
EachTurnCounts ==
  [][\A e \in Extension :
       send_data(e) /\ buf.op # "startWmp" =>
         IF sys.extension = e THEN sys'.extension = e /\ TurnsLeft(e)' <= TurnsLeft(e)
         ELSE 0 < TurnsLeft(e) /\ TurnsLeft(e)' < TurnsLeft(e)]_vars

\* What a request does to the extension port: nothing, or the Motion Plus stops.
SamePort(t) ==
  /\ t.extension = sys.extension
  /\ t.extension_hotplug_timer = sys.extension_hotplug_timer
  /\ \/ t.wmp_state = sys.wmp_state /\ t.extension_connected = sys.extension_connected
     \/ t.wmp_state # 1 /\ sys.wmp_state = 1

LEMMA ReportPort ==
  ASSUME Plugged(sys), buf \in Buffer, buf.op # "startWmp"
  PROVE  SamePort(process_report(sys, buf))
<1> DEFINE t == process_report(sys, buf)
<1>1. sys \in Sys
  BY DEF Plugged
<1>2. ASSUME NEW s \in Sys, SamePort(s), NEW a \in Reply PROVE SamePort(push(s, <<a>>))
  <2>1. <<a>> \in Seq(Reply)
    OBVIOUS
  <2> QED
    BY <1>2, <2>1, Pushed DEF SamePort
<1>3. SamePort(sys)
  BY DEF SamePort
<1>4. ASSUME NEW n \in Nat, NEW v \in {0, 1, 7, 8} PROVE SamePort(push_packets(sys, n, v))
  <2> DEFINE r == push_packets(sys, n, v)
  <2>1. /\ r.wmp_state = sys.wmp_state /\ r.extension_connected = sys.extension_connected
        /\ r.extension = sys.extension
        /\ r.extension_hotplug_timer = sys.extension_hotplug_timer
    BY <1>1, Packets
  <2> HIDE DEF r
  <2> QED
    BY <2>1 DEF SamePort, r
<1>5. CASE buf.op \in {"acked", "badEeprom", "readWmp"} /\ (buf.op = "readWmp" => sys.wmp_state = 1)
  <2>1. PICK a \in Reply : t = push(sys, <<a>>)
    BY <1>5, Replies DEF process_report, read_register
  <2> QED
    BY <1>1, <1>2, <1>3, <2>1
<1>6. CASE buf.op = "mode"
  <2> DEFINE s == [sys EXCEPT !.reporting_continuous = buf.continuous, !.reporting_mode = buf.mode]
  <2>1. t = push(s, <<Ack>>)
    BY <1>6 DEF process_report
  <2>2. buf.continuous \in BOOLEAN /\ buf.mode \in ReportMode
    BY <1>6, RequestAssumption DEF Buffer, Requests
  <2>3. s \in Sys /\ SamePort(s)
    BY <1>1, <2>2 DEF Sys, SamePort
  <2> HIDE DEF s
  <2> QED
    BY <1>2, <2>1, <2>3, Replies
<1>7. CASE buf.op = "status"
  <2>1. t = push_status(sys)
    BY <1>7 DEF process_report
  <2> QED
    BY <1>1, <2>1, StatusAnswer DEF SamePort
<1>8. CASE buf.op \in {"readEeprom", "readExtension", "readWmp"}
           /\ (buf.op = "readWmp" => sys.wmp_state # 1)
  <2>1. buf.packets \in Nat
    BY <1>8, RequestAssumption DEF Buffer, Requests
  <2>2. PICK v \in {0, 1} : t = push_packets(sys, buf.packets, v)
    BY <1>8 DEF process_report, read_register
  <2> QED
    BY <1>4, <2>1, <2>2
<1>9. CASE buf.op \in {"unplugWmp", "stopWmp"} /\ sys.wmp_state = 1
  <2>1. PICK w \in {0, 3} : t = push_replug(init_extension([sys EXCEPT !.wmp_state = w]))
    BY <1>9 DEF process_report, write_register
  <2> DEFINE s == [sys EXCEPT !.wmp_state = w]
  <2> DEFINE i == init_extension(s)
  <2>2. /\ s \in Sys /\ s.wmp_state # 1 /\ s.extension = sys.extension
        /\ s.extension_hotplug_timer = sys.extension_hotplug_timer
    BY <1>1 DEF Sys
  <2> HIDE DEF s
  <2>3. /\ i \in Sys /\ i.wmp_state # 1 /\ i.extension = sys.extension
        /\ i.extension_hotplug_timer = sys.extension_hotplug_timer
    BY <2>2, InitExtension
  <2> HIDE DEF i
  <2>4. /\ push_replug(i).wmp_state # 1 /\ push_replug(i).extension = sys.extension
        /\ push_replug(i).extension_hotplug_timer = sys.extension_hotplug_timer
    BY <2>3, Replugged
  <2>5. t = push_replug(i)
    BY <2>1 DEF i, s
  <2> QED
    BY <1>9, <2>4, <2>5 DEF SamePort
<1>10. CASE buf.op \in {"unplugWmp", "stopWmp", "encrypt"} /\ (buf.op # "encrypt" => sys.wmp_state # 1)
  <2>1. PICK c \in BOOLEAN : t = push([sys EXCEPT !.extension_encrypted = c], <<Ack>>)
    <3>1. sys = [sys EXCEPT !.extension_encrypted = sys.extension_encrypted]
      BY <1>1 DEF Sys
    <3>2. sys.extension_encrypted \in BOOLEAN
      BY <1>1 DEF Sys
    <3> QED
      BY <1>10, <3>1, <3>2 DEF process_report, write_register
  <2> DEFINE s == [sys EXCEPT !.extension_encrypted = c]
  <2>2. s \in Sys /\ SamePort(s)
    BY <1>1 DEF Sys, SamePort
  <2> HIDE DEF s
  <2>3. SamePort(push(s, <<Ack>>))
    BY <1>2, <2>2, Replies
  <2> QED
    BY <2>1, <2>3 DEF s
<1>11. CASE buf.op \in {"none", "sent", "silent"}
  <2>1. t = sys
    BY <1>11 DEF process_report
  <2> QED
    BY <1>3, <2>1
<1>12. buf.op \in {"acked", "status", "badEeprom", "unplugWmp", "stopWmp", "encrypt", "silent",
                   "mode", "readEeprom", "readExtension", "readWmp", "none", "sent"}
  BY RequestAssumption DEF Buffer, Requests
<1> QED
  BY <1>5, <1>6, <1>7, <1>8, <1>9, <1>10, <1>11, <1>12

\* What the countdown does to the extension port.
LEMMA HotplugPort ==
  ASSUME NEW s, Plugged(s), NEW e \in Extension, e # s.extension
  PROVE  /\ hotplug(s, e).wmp_state = s.wmp_state
         /\ \/ hotplug(s, e).extension = e
            \/ /\ hotplug(s, e).extension # e
               /\ ~hotplug(s, e).extension_connected
               /\ hotplug(s, e).extension_hotplug_timer =
                    (IF s.extension_connected THEN HOTPLUG ELSE s.extension_hotplug_timer) - 1
<1> DEFINE u == IF s.extension_connected THEN unplug(s) ELSE s
<1>1. s \in Sys
  BY DEF Plugged
<1>2. /\ u \in Sys /\ u.extension = NoExtension /\ ~u.extension_connected
      /\ u.wmp_state = s.wmp_state
      /\ u.extension_hotplug_timer = IF s.extension_connected THEN HOTPLUG
                                     ELSE s.extension_hotplug_timer
  <2>1. CASE s.extension_connected
    BY <1>1, <2>1, Unplug DEF Plugged
  <2>2. CASE ~s.extension_connected
    BY <1>1, <2>2 DEF Plugged
  <2> QED
    BY <2>1, <2>2
<1>3. hotplug(s, e) = countdown(u, e)
  BY DEF hotplug
<1> HIDE DEF u
<1> DEFINE c == [u EXCEPT !.extension_hotplug_timer = @ - 1]
<1>4. /\ c.extension = NoExtension /\ ~c.extension_connected /\ c.wmp_state = s.wmp_state
      /\ c.extension_hotplug_timer = u.extension_hotplug_timer - 1
  BY <1>2 DEF Sys
<1>5. /\ e = NoExtension => countdown(u, e) = u
      /\ e # NoExtension /\ c.extension_hotplug_timer <= 0 => countdown(u, e) = plug(c, e)
      /\ e # NoExtension /\ ~(c.extension_hotplug_timer <= 0) => countdown(u, e) = c
  BY DEF countdown
<1>6. CASE e # NoExtension /\ c.extension_hotplug_timer <= 0
  <2>1. c \in Sys
    <3>1. u.extension_hotplug_timer - 1 \in -1..HOTPLUG
      <4>1. u.extension_hotplug_timer \in 0..HOTPLUG
        BY <1>1, <1>2, HotplugAssumption DEF Plugged, Sys
      <4> QED
        BY <4>1, HotplugAssumption
    <3> HIDE DEF Reply
    <3> QED
      BY <1>2, <3>1 DEF Sys
  <2> HIDE DEF c
  <2>2. e \in {Nunchuk, Classic}
    BY <1>6 DEF Extension
  <2> QED
    BY <1>3, <1>4, <1>5, <1>6, <2>1, <2>2, Plug
<1> HIDE DEF c
<1> QED
  BY <1>2, <1>3, <1>4, <1>5, <1>6

LEMMA TurnCounts ==
  ASSUME Inv, NEW e \in Extension, send_data(e), buf.op # "startWmp"
  PROVE  IF sys.extension = e THEN sys'.extension = e /\ TurnsLeft(e)' <= TurnsLeft(e)
         ELSE 0 < TurnsLeft(e) /\ TurnsLeft(e)' < TurnsLeft(e)
<1> DEFINE p == process_report(sys, buf)
<1> DEFINE s == hotplug(p, e)
<1>1. /\ Plugged(sys) /\ HOTPLUG \in Nat /\ HOTPLUG > 1
      /\ sys.extension_hotplug_timer \in -1..HOTPLUG
      /\ sys.extension # e /\ ~sys.extension_connected => sys.extension_hotplug_timer >= 0
  BY HotplugAssumption DEF Inv, Plugged, Sys
<1>2. Plugged(p) /\ SamePort(p)
  BY ProcessReport, ReportPort DEF Inv, TypeOK, Processed
<1>3. /\ sys'.extension = s.extension
      /\ sys'.extension_hotplug_timer = s.extension_hotplug_timer
      /\ sys'.extension_connected = s.extension_connected
      /\ sys'.wmp_state = s.wmp_state
  BY Turn
<1> HIDE DEF p
<1>4. CASE sys.extension = e
  <2>1. s = p
    BY <1>2, <1>4 DEF hotplug, SamePort
  <2> QED
    BY <1>1, <1>2, <1>3, <1>4, <2>1 DEF SamePort, TurnsLeft
<1>5. CASE sys.extension # e
  <2>1. /\ s.wmp_state = p.wmp_state
        /\ \/ s.extension = e
           \/ /\ s.extension # e /\ ~s.extension_connected
              /\ s.extension_hotplug_timer =
                   (IF p.extension_connected THEN HOTPLUG ELSE p.extension_hotplug_timer) - 1
    BY <1>2, <1>5, HotplugPort DEF SamePort
  <2> HIDE DEF s
  <2> QED
    BY <1>1, <1>2, <1>3, <1>5, <2>1 DEF SamePort, TurnsLeft
<1> QED
  BY <1>4, <1>5

\* Every turn of the task counts, whatever the console asks for other than
\* the start of the Motion Plus and whatever it interrupts: no request winds
\* the countdown of generate_report up again.  With the fairness of the task
\* this is why the extension arrives (ExtensionArrives).
THEOREM TurnsCorrect == Spec => EachTurnCounts
<1>1. Inv /\ [Next]_vars =>
        [\A e \in Extension :
           send_data(e) /\ buf.op # "startWmp" =>
             IF sys.extension = e THEN sys'.extension = e /\ TurnsLeft(e)' <= TurnsLeft(e)
             ELSE 0 < TurnsLeft(e) /\ TurnsLeft(e)' < TurnsLeft(e)]_vars
  BY TurnCounts
<1> QED
  BY <1>1, Initial, Step, PTL DEF Spec, EachTurnCounts
=============================================================================
