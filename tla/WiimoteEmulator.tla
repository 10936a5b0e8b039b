-------------------------- MODULE WiimoteEmulator --------------------------
(***************************************************************************)
(* The emulated Wii remote (wiimote.c, wm_reports.c) and the task that     *)
(* serves it over the HID link (wiimote_btstack.c).                        *)
(*                                                                         *)
(* The link has one buffer.  An output report of the console lands there   *)
(* and waits for the next turn of send_data, which first executes whatever *)
(* the buffer holds, then overwrites it with the next report to the        *)
(* console: the head of the reply queue or, in continuous mode, a data     *)
(* report.  The extension the user selects is unplugged and plugged in     *)
(* with a countdown, and every change of extension_connected is announced  *)
(* with a status report in the same queue.                                 *)
(*                                                                         *)
(* wiimote_state_sys is the record sys; process_report, generate_report    *)
(* and their helpers are operators from record to record.  Payloads are    *)
(* left out: a reply is its kind and the one field that matters.           *)
(***************************************************************************)
EXTENDS Integers, Sequences

CONSTANTS
  Request,   \* output reports the console may send
  HOTPLUG,   \* turns an extension stays unplugged (30 in the code)
  MaxQueue   \* bound: the console is quiet while the queue is longer

Nunchuk     == 0
Classic     == 1
NoExtension == 255

Extension == {Nunchuk, Classic, NoExtension}

ASSUME HotplugAssumption == HOTPLUG \in Nat /\ HOTPLUG > 1

ASSUME QueueAssumption == MaxQueue \in Nat

ReportMode == {48, 50, 53, 62, 63}   \* 0x30, 0x32, 0x35, 0x3e, 0x3f

\* The output reports told apart: those that are only acknowledged (player
\* LEDs, camera, speaker, writes of plain memory), 0x12, 0x15, the reads and
\* the writes that matter, and those without an answer.
Requests ==
  [op : {"acked", "status", "badEeprom", "unplugWmp", "stopWmp", "encrypt",
         "silent"}]
  \cup [op : {"mode"}, mode : ReportMode, continuous : BOOLEAN]
  \cup [op : {"readEeprom", "readExtension", "readWmp"}, packets : Nat]
  \cup [op : {"startWmp"}, type : 4..7]

ASSUME RequestAssumption == Request \subseteq Requests

VARIABLES
  usr,    \* the extension the user selects
  sys,    \* struct wiimote_state_sys
  buf,    \* the buffer of the link: a request, or what was sent last
  linked, \* is the HID channel open?
  \* history: the extension bit of the last status report sent; has a read
  \* been executed on a queue that was not empty; turns since the extension
  \* was unplugged (up to HOTPLUG)
  shown, overlapped, unplugged

vars == <<usr, sys, buf, linked, shown, overlapped, unplugged>>

-----------------------------------------------------------------------------
(* The reply queue (wm_reports.c).                                         *)

Core      == [kind |-> "core",   val |-> 0]   \* the power-on report
Ack       == [kind |-> "ack",    val |-> 0]
Status(c) == [kind |-> "status", val |-> IF c THEN 1 ELSE 0]
Memory(v) == [kind |-> "memory", val |-> v]   \* error, or 1 when encrypted
Blank     == [kind |-> "blank",  val |-> 0]   \* pushed, not yet filled

push(s, reports) == [s EXCEPT !.queue = @ \o reports]

push_status(s) == push(s, <<Status(s.extension_connected)>>)

\* The replies when the extension changes under the console's own write: the
\* acknowledgement, "unplugged", "plugged in".
push_replug(s) ==
  [push(s, <<Ack, Status(FALSE), Status(TRUE)>>) EXCEPT !.extension_connected = TRUE]

\* Faulty: the last report is not filled.
FillAllButLast(s, n, v) ==
  LET q == s.queue \o [k \in 1..n |-> Blank]
  IN  [s EXCEPT !.queue = [k \in DOMAIN q |-> IF k < n THEN Memory(v) ELSE q[k]]]

\* read_eeprom, read_register: n reports are pushed at the end of the queue,
\* and the first n reports of the queue are filled with the packets.
push_packets(s, n, v) ==
  LET q == s.queue \o [k \in 1..n |-> Blank]
  IN  [s EXCEPT !.queue = [k \in DOMAIN q |-> IF k <= n THEN Memory(v) ELSE q[k]]]

-----------------------------------------------------------------------------
(* wiimote.c                                                               *)

\* Faulty: the type stays when an extension is plugged in.
InitExtensionKeepsType(s) ==
  IF s.wmp_state = 1 THEN [s EXCEPT !.extension_encrypted = FALSE] ELSE s

\* A Motion Plus hides the extension; an extension decides the format of the
\* extension bytes, and without one the old format stays.
init_extension(s) ==
  IF s.wmp_state = 1
    THEN [s EXCEPT !.extension_encrypted = FALSE]
    ELSE IF s.extension = NoExtension
           THEN s
           ELSE [s EXCEPT !.extension_report_type = s.extension]

read_register(s, r) ==
  CASE r.op = "readExtension" ->
         push_packets(s, r.packets, IF s.extension_encrypted THEN 1 ELSE 0)
    [] r.op = "readWmp" ->
         IF s.wmp_state = 1 THEN push(s, <<Memory(7)>>) ELSE push_packets(s, r.packets, 0)

write_register(s, r) ==
  CASE r.op = "unplugWmp" /\ s.wmp_state = 1 ->   \* a400f0 = 0x55
         push_replug(init_extension([s EXCEPT !.wmp_state = 3]))
    [] r.op = "stopWmp" /\ s.wmp_state = 1 ->     \* a400fe = 0x00
         push_replug(init_extension([s EXCEPT !.wmp_state = 0]))
    [] r.op = "startWmp" ->                       \* a600fe = 0x04 to 0x07
         push_replug(init_extension([s EXCEPT !.wmp_state = 1,
                                              !.extension_report_type = r.type]))
    [] r.op = "encrypt" ->                        \* a4004c, or a400f0 = 0xaa
         push([s EXCEPT !.extension_encrypted = TRUE], <<Ack>>)
    [] r.op = "unplugWmp" /\ s.wmp_state # 1 ->   \* a400f0 = 0x55
         push([s EXCEPT !.extension_encrypted = FALSE], <<Ack>>)
    [] OTHER -> push(s, <<Ack>>)

process_report(s, r) ==
  CASE r.op = "acked"  -> push(s, <<Ack>>)
    [] r.op = "mode"   -> push([s EXCEPT !.reporting_continuous = r.continuous,
                                         !.reporting_mode = r.mode], <<Ack>>)
    [] r.op = "status" -> push_status(s)
    [] r.op = "badEeprom"  -> push(s, <<Memory(8)>>)   \* beyond 0x16FF
    [] r.op = "readEeprom" -> push_packets(s, r.packets, 0)
    [] r.op \in {"readExtension", "readWmp"} -> read_register(s, r)
    [] r.op \in {"unplugWmp", "stopWmp", "startWmp", "encrypt"} ->
         write_register(s, r)
    [] OTHER -> s

\* Faulty: the countdown is not set again.
UnplugWithoutTimer(s) ==
  push_status([s EXCEPT !.extension_connected = FALSE, !.extension = NoExtension])

\* Faulty: extension_connected stays set.
UnplugStaysConnected(s) ==
  push_status([s EXCEPT !.extension = NoExtension, !.extension_hotplug_timer = HOTPLUG])

unplug(s) ==
  push_status([s EXCEPT !.extension_connected = FALSE, !.extension = NoExtension,
                        !.extension_hotplug_timer = HOTPLUG])

\* Faulty: the status report is pushed before the assignment.
PlugToldTooEarly(s, e) ==
  init_extension([push_status(s) EXCEPT !.extension_connected = TRUE, !.extension = e])

plug(s, e) ==
  init_extension(push_status([s EXCEPT !.extension_connected = TRUE, !.extension = e]))

\* Faulty: plugs in at zero only.
CountdownToZero(s, e) ==
  LET t == [s EXCEPT !.extension_hotplug_timer = @ - 1]
  IN  IF e = NoExtension THEN s
      ELSE IF t.extension_hotplug_timer = 0 THEN plug(t, e) ELSE t

\* The countdown of generate_report, one turn of it.
countdown(s, e) ==
  LET t == [s EXCEPT !.extension_hotplug_timer = @ - 1]
  IN  IF e = NoExtension THEN s
      ELSE IF t.extension_hotplug_timer <= 0 THEN plug(t, e) ELSE t

hotplug(s, e) ==
  IF e = s.extension THEN s
  ELSE countdown(IF s.extension_connected THEN unplug(s) ELSE s, e)

\* report_append_interleaved
alternate(m) == CASE m = 62 -> 63 [] m = 63 -> 62 [] OTHER -> m

\* Does generate_report append the extension bytes in this mode?
appends_extension(m) == m \in {52, 53, 54, 55, 61}

Sent(report) == [op |-> "sent", report |-> report]

DataReport(s) ==
  [kind |-> "data", mode |-> s.reporting_mode,
   extension |-> appends_extension(s.reporting_mode)]

\* Faulty: a queued reply does not count as something to send.
QuietWithoutContinuous(s) == ~s.reporting_continuous

\* The early return of generate_report.
Quiet(s) == ~s.reporting_continuous /\ s.queue = <<>>

-----------------------------------------------------------------------------
Init ==
  /\ usr = NoExtension
  /\ sys = [wmp_state |-> 0, extension_report_type |-> 0,
            extension_encrypted |-> FALSE, extension_connected |-> FALSE,
            extension |-> NoExtension, extension_hotplug_timer |-> 0,
            reporting_mode |-> 48, reporting_continuous |-> FALSE,
            queue |-> <<Core>>]
  /\ buf = [op |-> "none"]
  /\ linked = FALSE
  /\ shown = FALSE
  /\ overlapped = FALSE
  /\ unplugged = HOTPLUG

\* The order in which the HOME + DOWN keys go through the extensions.
NextExtension(e) ==
  CASE e = NoExtension -> Nunchuk [] e = Nunchuk -> Classic [] e = Classic -> NoExtension

\* HID_SUBEVENT_CONNECTION_OPENED and _CLOSED: the timer of the task is added
\* and removed; the state of the emulator, its queue and the buffer stay.
ConnectionOpened ==
  /\ ~linked
  /\ linked' = TRUE
  /\ UNCHANGED <<usr, sys, buf, shown, overlapped, unplugged>>

ConnectionClosed ==
  /\ linked
  /\ linked' = FALSE
  /\ UNCHANGED <<usr, sys, buf, shown, overlapped, unplugged>>

\* wiimote_emulator_reset: the SDP channel of the console is closed.
wiimote_emulator_reset ==
  /\ buf' = [op |-> "none"]
  /\ UNCHANGED <<usr, sys, linked, shown, overlapped, unplugged>>

\* An output report arrives; an earlier one not yet executed is lost.
get_data_wii(r) ==
  /\ linked
  /\ Len(sys.queue) <= MaxQueue
  /\ buf' = r
  /\ UNCHANGED <<usr, sys, linked, shown, overlapped, unplugged>>

\* Executes a read while earlier replies wait.
Overlaps ==
  /\ sys.queue # <<>>
  /\ \/ buf.op \in {"readEeprom", "readExtension"} /\ buf.packets > 0
     \/ buf.op = "readWmp" /\ sys.wmp_state # 1 /\ buf.packets > 0

\* One turn of the task: the user may have moved on to the next extension,
\* the buffer is executed, and the next report is sent (a blank one has length
\* 0 and only clears the buffer).
send_data(e) ==
  LET s == hotplug(process_report(sys, buf), e)
  IN  /\ linked
      /\ e \in {usr, NextExtension(usr)}
      /\ usr' = e
      /\ IF Quiet(s)
           THEN /\ sys' = s
                /\ UNCHANGED <<buf, shown>>
           ELSE IF s.queue = <<>>
           THEN /\ sys' = [s EXCEPT !.reporting_mode = alternate(@)]
                /\ buf' = Sent(DataReport(s))
                /\ UNCHANGED shown
           ELSE /\ sys' = [s EXCEPT !.queue = Tail(@)]
                /\ buf' = Sent(Head(s.queue))
                /\ shown' = IF Head(s.queue).kind = "status" THEN Head(s.queue).val = 1 ELSE shown
      /\ overlapped' = (overlapped \/ Overlaps)
      /\ unplugged' = IF sys.extension # NoExtension /\ sys'.extension = NoExtension THEN 1
                      ELSE IF unplugged < HOTPLUG THEN unplugged + 1 ELSE unplugged
      /\ UNCHANGED linked

Next ==
  \/ ConnectionOpened
  \/ ConnectionClosed
  \/ wiimote_emulator_reset
  \/ \E r \in Request : get_data_wii(r)
  \/ \E e \in Extension : send_data(e)

Spec == Init /\ [][Next]_vars

\* The timer of the task runs every millisecond while the link is open.
FairSpec == Spec /\ WF_vars(\E e \in Extension : send_data(e))

-----------------------------------------------------------------------------
Reply == [kind : {"core", "ack", "status", "memory", "blank"}, val : {0, 1, 7, 8}]

Data == [kind : {"data"}, mode : ReportMode, extension : BOOLEAN]

Buffer == Request \cup [op : {"none"}] \cup [op : {"sent"}, report : Reply \cup Data]

Sys == [wmp_state : {0, 1, 3}, extension_report_type : {0, 1} \cup 4..7,
        extension_encrypted : BOOLEAN, extension_connected : BOOLEAN,
        extension : Extension, extension_hotplug_timer : -1..HOTPLUG,
        reporting_mode : ReportMode, reporting_continuous : BOOLEAN,
        queue : Seq(Reply)]

TypeOK ==
  /\ usr \in Extension
  /\ sys \in Sys
  /\ buf \in Buffer
  /\ linked \in BOOLEAN
  /\ shown \in BOOLEAN
  /\ overlapped \in BOOLEAN
  /\ unplugged \in 1..HOTPLUG

\* The console decodes the extension bytes by the extension it last detected:
\* without an active Motion Plus, the format in use is that of the extension
\* plugged in, although the two change in different handlers, and a Motion
\* Plus can be started and stopped while the extension is out.
FormatMatchesExtension ==
  sys.wmp_state # 1 /\ sys.extension # NoExtension
    => /\ sys.extension_report_type = sys.extension
       /\ sys.extension_connected

\* The last status report of the queue, or else the last one sent, tells the
\* present value of extension_connected.
Statuses(q) == {k \in DOMAIN q : q[k].kind = "status"}

Told(s, sent) ==
  LET at == Statuses(s.queue)
  IN  /\ at = {} => (s.extension_connected <=> sent)
      /\ \A k \in at : (\A j \in at : j <= k) => (s.extension_connected <=> s.queue[k].val = 1)

\* Every change of extension_connected is announced: the last status report
\* in the queue, or else the last one sent, tells its present value, as long
\* as no read was filled in over waiting replies.
ConsoleIsTold == ~overlapped => Told(sys, shown)

\* Each pushed report is filled before the queue moves on, if the console
\* reads memory only when it has got all replies to earlier reports.
ReadsAreFilled ==
  ~overlapped => \A k \in DOMAIN sys.queue : sys.queue[k].kind # "blank"

\* The same whatever the console does: "special output report
\* (acknowledgement, status, or memory read)" says what the default branch of
\* generate_report sends.  A read executed while replies wait fills those and
\* leaves its own reports blank.
NoBlankReport == \A k \in DOMAIN sys.queue : sys.queue[k].kind # "blank"

\* A console that changes its request loses at most the one it overwrites: a
\* request that was executed and answered is not left in the buffer, where
\* the next turn would execute it again.
ExecutedOnce ==
  [][\A e \in Extension : send_data(e) =>
       \/ buf'.op \in {"none", "sent", "silent"}
       \/ buf'.op \in {"readEeprom", "readExtension", "readWmp"} /\ buf'.packets = 0]_vars

\* An extension that was unplugged stays out for HOTPLUG turns whatever the
\* user and the console do: the console sees one extension go before it sees
\* the other come.
UnpluggedLongEnough ==
  [][sys.extension # sys'.extension /\ sys'.extension # NoExtension
       => sys.extension = NoExtension /\ unplugged' = HOTPLUG]_vars

\* If the user stays with an extension, the link stays open and the console
\* stops starting the Motion Plus, the extension gets plugged in.
ExtensionArrives ==
  \A e \in Extension :
    <>[](linked /\ usr = e /\ buf.op # "startWmp")
      => <>[](sys.extension = e)
=============================================================================
