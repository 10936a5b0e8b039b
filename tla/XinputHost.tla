----------------------------- MODULE XinputHost -----------------------------
(***************************************************************************)
(* The USB host driver for Xbox pads (xinput_host.c) and its mount         *)
(* callbacks (main.c).                                                     *)
(*                                                                         *)
(* Mounting a pad sends packets and waits for each in a loop that runs the *)
(* USB stack (wait_for_tx_complete), so transfers of other pads complete   *)
(* and pads are unplugged, this one too, in the middle of a mount.  The    *)
(* stack enumerates one device at a time: there is one mount at a time.    *)
(* A step below runs from one wait to the next.                            *)
(***************************************************************************)
EXTENDS Integers, Sequences

CONSTANTS
  Addr,      \* device addresses
  Type,      \* types of pad that are plugged in
  MaxAir,    \* bound: connection packets on their way from a receiver
  None

Types == {"XBOXONE", "XBOX360_WIRELESS", "XBOX360_WIRED", "XBOXOG"}

ASSUME TypeAssumption == Type \subseteq Types

ASSUME BoundAssumption == MaxAir \in Nat

\* A mount that waits.
Tasks == [addr : Addr, phase : {"init", "leds"}, left : 0..3]

ASSUME NoneAssumption == None \notin Tasks

VARIABLES
  pads,    \* _xinputh_dev: the one instance of each device
  in,      \* IN endpoint: "idle", "busy", or "claimed" without a transfer
  out,     \* is the OUT endpoint busy?
  task,    \* the mount that waits: its device, phase and packets left, or None
  led,     \* the LED on the board
  lit,     \* the player LEDs: "dark", "lit", or "skipped" by the mount
  radio,   \* is the wireless pad of this receiver on?
  air,     \* connection packets the receiver has still to deliver
  played,  \* history: pads a report of which was passed on since the mount
  failed,  \* history: pads a report of which failed or could not be asked for
  refused  \* history: pads a packet to which failed or could not be queued

vars == <<pads, in, out, task, led, lit, radio, air, played, failed, refused>>

Closed == [type |-> "XINPUT_UNKNOWN", connected |-> FALSE]

Open(a) == pads[a].type # "XINPUT_UNKNOWN"

\* Does the mount in progress belong to a?
Mounting(a) == task # None /\ task.addr = a

Init ==
  /\ pads = [a \in Addr |-> Closed]
  /\ in = [a \in Addr |-> "idle"]
  /\ out = [a \in Addr |-> FALSE]
  /\ task = None
  /\ led = FALSE
  /\ lit = [a \in Addr |-> "dark"]
  /\ radio = [a \in Addr |-> FALSE]
  /\ air = [a \in Addr |-> <<>>]
  /\ played = {}
  /\ failed = {}
  /\ refused = {}

-----------------------------------------------------------------------------
(* Transfers.                                                              *)

\* Faulty: a report is asked for once.
receive_never(a) == in' = [in EXCEPT ![a] = "idle"] /\ UNCHANGED failed

\* tuh_xinput_receive_report: a transfer that cannot be queued leaves the
\* endpoint claimed a second time in place of released.
receive_report(a) ==
  \/ in' = [in EXCEPT ![a] = "busy"] /\ UNCHANGED failed
  \/ in' = [in EXCEPT ![a] = "claimed"] /\ failed' = failed \cup {a}

\* The packets before and after the mount callback decides; a 360 pad takes
\* two for its player LEDs and one for the motors, the others one.
InitPackets(t) == CASE t = "XBOX360_WIRELESS" -> {1}
                    [] t = "XBOXONE"          -> {1, 2, 4}
                    [] OTHER                  -> {0}

MountPackets(t) == IF t \in {"XBOX360_WIRED", "XBOX360_WIRELESS"} THEN 3 ELSE 1

\* tuh_xinput_send_report queues a packet, and the mount waits for its end.
Wait(a, phase, left) ==
  /\ out' = [out EXCEPT ![a] = TRUE]
  /\ task' = [addr |-> a, phase |-> phase, left |-> left]
  /\ UNCHANGED <<in, led, failed>>

\* It may not get the endpoint or the transfer; nobody looks at its result, and
\* there is nothing to wait for.
Noted(a, any) == refused' = IF any THEN refused \cup {a} ELSE refused

\* The end of the mount, reached even when the pad has gone meanwhile.
Finish(a, pad) ==
  /\ task' = None
  /\ led' = TRUE
  /\ IF pad.type # "XINPUT_UNKNOWN" THEN receive_report(a) ELSE UNCHANGED <<in, failed>>
  /\ UNCHANGED out

\* A wireless pad that is not connected yet: listen, and leave the LEDs.
Listen(a) ==
  /\ task' = None
  /\ receive_report(a)
  /\ lit' = [lit EXCEPT ![a] = "skipped"]
  /\ UNCHANGED <<out, led>>

\* The packets of tuh_xinput_mount_cb, the last n of them: the next one that is
\* queued, or the end.
Leds(a, pad, n, any) ==
  /\ UNCHANGED lit
  /\ \E p \in 0..n : /\ Noted(a, any \/ p < n)
                    /\ IF p > 0 THEN Wait(a, "leds", p - 1) ELSE Finish(a, pad)

\* Faulty: a pad is listened to before its LEDs are set.
mount_cb_listening(a, pad, any) ==
  IF pad.type = "XINPUT_UNKNOWN" THEN Leds(a, pad, 0, any)
  ELSE task' = None /\ receive_report(a) /\ Noted(a, any) /\ UNCHANGED <<out, led, lit>>

\* tuh_xinput_mount_cb up to its first wait; a pad that has gone takes no
\* packets.
mount_cb(a, pad, any) ==
  CASE pad.type = "XINPUT_UNKNOWN" -> Leds(a, pad, 0, any)
    [] pad.type = "XBOX360_WIRELESS" /\ ~pad.connected -> Listen(a) /\ Noted(a, any)
    [] OTHER -> Leds(a, pad, MountPackets(pad.type), any)

\* The packets of xinputh_set_config, the last n of them, and the callback.
Configure(a, n, pad) ==
  \/ \E p \in 1..n : Wait(a, "init", p - 1) /\ Noted(a, p < n) /\ UNCHANGED lit
  \/ mount_cb(a, pad, n > 0)

-----------------------------------------------------------------------------
(* Enumeration.                                                            *)

\* xinputh_open and xinputh_set_config up to the first wait.
Mount(a, t) ==
  /\ task = None
  /\ ~Open(a)
  /\ LET pad == [type |-> t, connected |-> t # "XBOX360_WIRELESS"]
     IN  /\ pads' = [pads EXCEPT ![a] = pad]
         /\ \E n \in InitPackets(t) : Configure(a, n, pad)
  /\ UNCHANGED <<air, radio, played>>

\* Faulty: the packets are sent whether or not the pad is still there.
LeftAnyway(a) == task.left

\* A pad that is not open takes no packets: their length does not fit the
\* cleared instance.
Left(a) == IF Open(a) THEN task.left ELSE 0

\* The wait is over: the next packet, the callback, or the end.
Resume ==
  /\ task # None
  /\ LET a == task.addr
     IN  /\ ~out[a]
         /\ IF task.phase = "init" THEN Configure(a, Left(a), pads[a])
            ELSE Leds(a, pads[a], Left(a), FALSE)
  /\ UNCHANGED <<pads, air, radio, played>>

\* Faulty: the transfers of an unplugged pad stay pending.
Pending(a) == out[a]

Dropped(a) == FALSE

\* xinputh_close and tuh_xinput_umount_cb, from the main loop or from within a
\* wait; the stack drops the transfers of the device.
Unplug(a) ==
  /\ Open(a)
  /\ pads' = [pads EXCEPT ![a] = Closed]
  /\ in' = [in EXCEPT ![a] = "idle"]
  /\ out' = [out EXCEPT ![a] = Dropped(a)]
  /\ air' = [air EXCEPT ![a] = <<>>]
  /\ led' = FALSE
  /\ lit' = [lit EXCEPT ![a] = "dark"]
  /\ played' = played \ {a}
  /\ failed' = failed \ {a}
  /\ refused' = refused \ {a}
  /\ UNCHANGED <<task, radio>>

-----------------------------------------------------------------------------
(* xinputh_xfer_cb.                                                        *)

\* Faulty: the receiver is not asked which pad is on.
NoAnswer(a) == <<>>

\* A receiver answers xbox360w_inquire_present with the state of its pad.
Answer(a) == <<IF radio[a] THEN "on" ELSE "off">>

\* A packet arrives: the question to a receiver, or the second to last of a
\* 360 pad's mount, which lights the LED of the first player.
OutDone(a) ==
  /\ out[a]
  /\ Open(a)
  /\ out' = [out EXCEPT ![a] = FALSE]
  /\ lit' = IF Mounting(a) /\ task.phase = "leds" /\ task.left = 1
            THEN [lit EXCEPT ![a] = "lit"] ELSE lit
  /\ air' = IF pads[a].type = "XBOX360_WIRELESS" /\ Mounting(a) /\ task.phase = "init"
            THEN [air EXCEPT ![a] = @ \o Answer(a)] ELSE air
  /\ UNCHANGED <<pads, in, task, led, radio, played, failed, refused>>

\* Or it does not, and the wait ends all the same.
OutFails(a) ==
  /\ out[a]
  /\ Open(a)
  /\ out' = [out EXCEPT ![a] = FALSE]
  /\ refused' = refused \cup {a}
  /\ UNCHANGED <<pads, in, task, led, lit, radio, air, played, failed>>

\* A report of the buttons: passed on unless the pad is not connected.
PadData(a) ==
  /\ in[a] = "busy"
  /\ pads[a].type = "XBOX360_WIRELESS" => radio[a]
  /\ played' = IF pads[a].connected THEN played \cup {a} ELSE played
  /\ receive_report(a)
  /\ UNCHANGED <<pads, out, task, led, lit, radio, air, refused>>

\* Any other packet, and the connection packets of a receiver.
OtherPacket(a) ==
  /\ in[a] = "busy"
  /\ receive_report(a)
  /\ IF air[a] = <<>> THEN UNCHANGED <<pads, air>>
     ELSE /\ pads' = [pads EXCEPT ![a].connected = (Head(air[a]) = "on")]
          /\ air' = [air EXCEPT ![a] = Tail(@)]
  /\ UNCHANGED <<out, task, led, lit, radio, played, refused>>

\* A transfer that fails is not asked for again.
InFails(a) ==
  /\ in[a] = "busy"
  /\ in' = [in EXCEPT ![a] = "idle"]
  /\ failed' = failed \cup {a}
  /\ UNCHANGED <<pads, out, task, led, lit, radio, air, played, refused>>

\* The user switches a wireless pad on or off.
Switch(a) ==
  /\ Len(air[a]) < MaxAir
  /\ radio' = [radio EXCEPT ![a] = ~@]
  /\ air' = [air EXCEPT ![a] = IF pads[a].type = "XBOX360_WIRELESS"
                                THEN Append(@, IF radio[a] THEN "off" ELSE "on")
                                ELSE @]
  /\ UNCHANGED <<pads, in, out, task, led, lit, played, failed, refused>>

Next ==
  \/ Resume
  \/ \E a \in Addr : \/ \E t \in Type : Mount(a, t)
                     \/ Unplug(a) \/ OutDone(a) \/ OutFails(a)
                     \/ PadData(a) \/ OtherPacket(a) \/ InFails(a) \/ Switch(a)

Spec == Init /\ [][Next]_vars

\* A packet sent to a pad is taken or fails or the pad is unplugged; a polled
\* pad delivers the packets it has; the main loop runs.
Fairness == /\ WF_vars(Resume)
            /\ \A a \in Addr : /\ WF_vars(OutDone(a) \/ OutFails(a))
                               /\ WF_vars(air[a] # <<>> /\ OtherPacket(a))

LiveSpec == Spec /\ Fairness

-----------------------------------------------------------------------------
(* Properties.                                                             *)

\* Type invariant.
TypeOK ==
  /\ pads \in [Addr -> [type : Types \cup {"XINPUT_UNKNOWN"}, connected : BOOLEAN]]
  /\ in \in [Addr -> {"idle", "busy", "claimed"}]
  /\ out \in [Addr -> BOOLEAN]
  /\ task \in Tasks \cup {None}
  /\ led \in BOOLEAN
  /\ lit \in [Addr -> {"dark", "lit", "skipped"}]
  /\ radio \in [Addr -> BOOLEAN]
  /\ air \in [Addr -> Seq({"on", "off"})]
  /\ played \in SUBSET Addr
  /\ failed \in SUBSET Addr
  /\ refused \in SUBSET Addr

\* A pad whose mount has ended is read for as long as it is plugged in
\* ("just start getting data until a controller is connected", main.c:566):
\* only a transfer that failed or was refused, which nobody repeats
\* (xinput_host.c:68, 290), silences it.
Streaming ==
  \A a \in Addr : (Open(a) /\ ~Mounting(a)) => (in[a] = "busy" <=> a \notin failed)

\* The endpoints of a pad that is gone are free for the next one, also when it
\* went in the middle of its mount or after a refused transfer.
NothingLeftBehind == \A a \in Addr : ~Open(a) => (in[a] = "idle" /\ ~out[a])

\* The LED packet has reached a pad before a report of it is passed on
\* (main.c:564, "before setting LEDs etc."), unless a packet to it failed, whose
\* result nobody looks at, or its mount found a receiver without a pad: nobody
\* sets them when the pad is switched on later.
PlayedIsLit ==
  \A a \in played \ refused :
    pads[a].type \in {"XBOX360_WIRED", "XBOX360_WIRELESS"} => lit[a] # "dark"

\* A mount ends, whatever happens to its pad while it waits
\* (wait_for_tx_complete).
MountEnds == (task # None) ~> (task = None)

\* A wireless pad that stays on, with a receiver that stays plugged in, whose
\* transfers do not fail and which was asked for its pad, gets connected.
WirelessConnects ==
  \A a \in Addr :
    <>[](radio[a] /\ pads[a].type = "XBOX360_WIRELESS" /\ a \notin failed \cup refused) =>
      <>[](pads[a].connected)
=============================================================================
