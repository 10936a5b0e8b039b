-------------------------- MODULE XinputHostProofs --------------------------
(***************************************************************************)
(* Proofs about XinputHost, for any number of devices, of any types, on    *)
(* any number of receivers: what a pad leaves behind when it goes, and     *)
(* which pads are read and lit when their mount is over.                   *)
(***************************************************************************)
EXTENDS XinputHost, SequenceTheorems, TLAPS

Types360 == {"XBOX360_WIRED", "XBOX360_WIRELESS"}

\* A pad that is gone has no transfer and no history.
Gone(a) == /\ in[a] = "idle" /\ ~out[a]
           /\ a \notin failed /\ a \notin played

\* A pad is not read before its mount is over.
Unread(a) == in[a] = "idle" /\ a \notin failed /\ a \notin played

\* Once the LED packet, the second to last, is over or was passed by, it has
\* arrived, or a packet to the pad failed.
Lighting(a) ==
  (/\ task.phase = "leds"
   /\ task.left = 0 \/ (task.left = 1 /\ ~out[a])
   /\ pads[a].type \in Types360
   /\ a \notin refused) => lit[a] # "dark"

\* Afterwards it is read unless a transfer went wrong, and its LEDs were dealt
\* with unless a packet failed.
Mounted(a) == /\ in[a] = "busy" <=> a \notin failed
              /\ pads[a].type \in Types360 /\ a \notin refused => lit[a] # "dark"

PadInv(a) == IF ~Open(a) THEN Gone(a)
             ELSE IF Mounting(a) THEN Unread(a) /\ Lighting(a) ELSE Mounted(a)

Inv == TypeOK /\ \A a \in Addr : PadInv(a)

-----------------------------------------------------------------------------
(* The operators.                                                          *)

\* A waiting mount is told from none.
LEMMA WaitMounts ==
  ASSUME NEW a \in Addr, NEW phase \in {"init", "leds"}, NEW left \in 0..3,
         Wait(a, phase, left)
  PROVE  /\ task' \in Tasks /\ task' # None /\ task'.addr = a
         /\ UNCHANGED <<in, led, failed>>
BY NoneAssumption DEF Wait, Tasks

\* A report is asked for, or the endpoint stays claimed and the pad is one
\* whose transfer went wrong.
LEMMA ReceiveFacts ==
  ASSUME TypeOK, NEW a \in Addr, receive_report(a)
  PROVE  /\ in' \in [Addr -> {"idle", "busy", "claimed"}] /\ failed' \in SUBSET Addr
         /\ \A b \in Addr \ {a} : in'[b] = in[b] /\ (b \in failed' <=> b \in failed)
         /\ a \notin failed => (in'[a] = "busy" <=> a \notin failed')
BY DEF TypeOK, receive_report

\* A mount takes at most five packets, in at most three before a wait.
LEMMA PacketFacts ==
  ASSUME NEW t \in Types
  PROVE  /\ InitPackets(t) \subseteq 0..4
         /\ MountPackets(t) \in 1..3
         /\ t = "XBOX360_WIRELESS" => InitPackets(t) = {1}
BY DEF Types, InitPackets, MountPackets

\* What a step of the mount of an open pad may lead to: a wait for one of its
\* packets, or the end.  Without a refusal no packet is passed by.
Outcome(a, type) ==
  /\ refused' = refused \/ refused' = refused \cup {a}
  /\ \/ /\ lit' = lit
        /\ \E phase \in {"init", "leds"}, left \in 0..3 :
             /\ Wait(a, phase, left)
             /\ (phase = "leds" /\ left = 0 /\ type \in Types360 /\ a \notin refused')
                  => lit[a] # "dark"
     \/ /\ task' = None
        /\ led' \in BOOLEAN
        /\ UNCHANGED out
        /\ receive_report(a)
        /\ lit' = lit \/ lit' = [lit EXCEPT ![a] = "skipped"]
        /\ type \in Types360 /\ a \notin refused' => lit'[a] # "dark"

\* The last n packets of the callback: the next one, or one after it if it is
\* refused.
LEMMA LedsFacts ==
  ASSUME NEW a \in Addr, NEW pad, pad.type # "XINPUT_UNKNOWN", NEW n \in 0..3,
         NEW any \in BOOLEAN, Leds(a, pad, n, any)
  PROVE  /\ lit' = lit
         /\ refused' = refused \/ refused' = refused \cup {a}
         /\ any => a \in refused'
         /\ \/ \E left \in 0..3 : /\ Wait(a, "leds", left) /\ left < n
                                  /\ a \notin refused' => left = n - 1
            \/ /\ task' = None /\ led' = TRUE /\ UNCHANGED out /\ receive_report(a)
               /\ a \notin refused' => n = 0
<1>1. PICK p \in 0..n : /\ Noted(a, any \/ p < n)
                        /\ IF p > 0 THEN Wait(a, "leds", p - 1) ELSE Finish(a, pad)
  BY DEF Leds
<1>2. /\ lit' = lit
      /\ refused' = refused \/ refused' = refused \cup {a}
      /\ any \/ p < n => a \in refused'
  BY <1>1, Zenon DEF Leds, Noted
<1>3. CASE p > 0
  <2>1. Wait(a, "leds", p - 1) /\ p - 1 \in 0..3 /\ p - 1 < n /\ (a \notin refused' => p - 1 = n - 1)
    BY <1>1, <1>2, <1>3
  <2> QED
    BY <1>2, <2>1
<1>4. CASE p = 0
  <2>1. Finish(a, pad) /\ (a \notin refused' => n = 0)
    BY <1>1, <1>2, <1>4
  <2> QED
    BY <1>2, <2>1 DEF Finish
<1>5. p > 0 \/ p = 0
  OBVIOUS
<1> QED
  BY <1>3, <1>4, <1>5, Zenon

\* The callback of an open pad.
LEMMA CallbackOutcome ==
  ASSUME TypeOK, NEW a \in Addr, NEW pad, pad.type \in Types, NEW any \in BOOLEAN,
         mount_cb(a, pad, any)
  PROVE  /\ Outcome(a, pad.type)
         /\ any => a \in refused'
         /\ task' = None \/ \E left \in 0..3 : Wait(a, "leds", left)
<1>1. pad.type # "XINPUT_UNKNOWN"
  BY DEF Types
<1>2. CASE pad.type = "XBOX360_WIRELESS" /\ ~pad.connected
  <2>1. Listen(a) /\ Noted(a, any)
    BY <1>1, <1>2 DEF mount_cb
  <2>2. task' = None /\ led' = led /\ UNCHANGED out /\ receive_report(a)
        /\ lit' = [lit EXCEPT ![a] = "skipped"]
    BY <2>1 DEF Listen
  <2>3. lit'[a] # "dark" /\ led' \in BOOLEAN
    BY <2>2 DEF TypeOK
  <2>4. (refused' = refused \/ refused' = refused \cup {a}) /\ (any => a \in refused')
    BY <2>1, Zenon DEF Noted
  <2> QED
    BY <2>2, <2>3, <2>4 DEF Outcome
<1>3. CASE ~(pad.type = "XBOX360_WIRELESS" /\ ~pad.connected)
  <2>1. PICK n \in 1..3 : Leds(a, pad, n, any) /\ (pad.type \in Types360 => n = 3)
    <3>1. Leds(a, pad, MountPackets(pad.type), any)
      BY <1>1, <1>3 DEF mount_cb
    <3>2. MountPackets(pad.type) \in 1..3 /\ (pad.type \in Types360 => MountPackets(pad.type) = 3)
      BY DEF MountPackets, Types360
    <3> QED
      BY <3>1, <3>2
  <2>2. n \in 0..3
    OBVIOUS
  <2>3. /\ lit' = lit
        /\ refused' = refused \/ refused' = refused \cup {a}
        /\ any => a \in refused'
        /\ \/ \E left \in 0..3 : /\ Wait(a, "leds", left) /\ left < n
                                 /\ a \notin refused' => left = n - 1
           \/ /\ task' = None /\ led' = TRUE /\ UNCHANGED out /\ receive_report(a)
              /\ a \notin refused' => n = 0
    BY <1>1, <2>1, <2>2, LedsFacts
  <2>4. CASE \E left \in 0..3 : /\ Wait(a, "leds", left) /\ left < n
                                /\ a \notin refused' => left = n - 1
    <3>1. PICK left \in 0..3 : /\ Wait(a, "leds", left) /\ left < n
                               /\ a \notin refused' => left = n - 1
      BY <2>4
    <3>2. ~(left = 0 /\ pad.type \in Types360 /\ a \notin refused')
      BY <2>1, <3>1
    <3> QED
      BY <2>3, <3>1, <3>2 DEF Outcome
  <2>5. CASE /\ task' = None /\ led' = TRUE /\ UNCHANGED out /\ receive_report(a)
             /\ a \notin refused' => n = 0
    BY <2>1, <2>3, <2>5 DEF Outcome
  <2> QED
    BY <2>3, <2>4, <2>5
<1> QED
  BY <1>2, <1>3

\* The packets of xinputh_set_config, and then the callback.
LEMMA ConfigureOutcome ==
  ASSUME TypeOK, NEW a \in Addr, NEW pad, pad.type \in Types, NEW n \in 0..4,
         Configure(a, n, pad)
  PROVE  /\ Outcome(a, pad.type)
         /\ \/ task' = None
            \/ \E left \in 0..3 : Wait(a, "init", left) /\ left < n
            \/ \E left \in 0..3 : Wait(a, "leds", left)
         /\ n > 0 => \/ a \in refused'
                     \/ \E left \in 0..3 : Wait(a, "init", left)
<1>1. CASE \E p \in 1..n : Wait(a, "init", p - 1) /\ Noted(a, p < n) /\ UNCHANGED lit
  <2>1. PICK p \in 1..n : Wait(a, "init", p - 1) /\ Noted(a, p < n) /\ UNCHANGED lit
    BY <1>1
  <2>2. p - 1 \in 0..3 /\ p - 1 < n
    OBVIOUS
  <2>3. refused' = refused \/ refused' = refused \cup {a}
    BY <2>1, Zenon DEF Noted
  <2> QED
    BY <2>1, <2>2, <2>3 DEF Outcome
<1>2. CASE mount_cb(a, pad, n > 0)
  <2>1. (n > 0) \in BOOLEAN
    OBVIOUS
  <2> QED
    BY <1>2, <2>1, CallbackOutcome
<1> QED
  BY <1>1, <1>2 DEF Configure

LEMMA Initial == Init => Inv
<1> SUFFICES ASSUME Init PROVE Inv
  OBVIOUS
<1>1. TypeOK
  <2>1. air \in [Addr -> Seq({"on", "off"})]
    BY DEF Init
  <2> QED
    BY <2>1 DEF Init, TypeOK, Closed
<1>2. \A a \in Addr : PadInv(a)
  BY DEF Init, PadInv, Gone, Open, Closed
<1> QED
  BY <1>1, <1>2 DEF Inv

-----------------------------------------------------------------------------
(* The steps.                                                              *)

\* A step of a mount leaves its pad waited for or read, and the others alone.
LEMMA OutcomeKeeps ==
  ASSUME Inv, NEW a \in Addr, NEW type \in Types, Outcome(a, type), Unread(a),
         task = None \/ task.addr = a,
         pads'[a].type = type, UNCHANGED <<played, radio>>,
         \A b \in Addr \ {a} : pads'[b] = pads[b]
  PROVE  /\ in' \in [Addr -> {"idle", "busy", "claimed"}] /\ failed' \in SUBSET Addr
         /\ out' \in [Addr -> BOOLEAN] /\ led' \in BOOLEAN /\ task' \in Tasks \cup {None}
         /\ lit' \in [Addr -> {"dark", "lit", "skipped"}]
         /\ refused' \in SUBSET Addr
         /\ \A b \in Addr : PadInv(b)'
<1>1. TypeOK /\ type # "XINPUT_UNKNOWN"
  BY DEF Inv, Types
<1>2. /\ lit' \in [Addr -> {"dark", "lit", "skipped"}] /\ refused' \in SUBSET Addr
      /\ \A b \in Addr \ {a} : lit'[b] = lit[b] /\ (b \in refused' <=> b \in refused)
  BY <1>1 DEF Outcome, TypeOK
<1>3. ASSUME NEW b \in Addr \ {a},
             in'[b] = in[b], b \in failed' <=> b \in failed, out'[b] = out[b],
             task' = None \/ task'.addr = a
      PROVE  PadInv(b)'
  <2>1. PadInv(b) /\ ~Mounting(b) /\ ~Mounting(b)'
    BY <1>3 DEF Inv, Mounting
  <2> QED
    BY <1>2, <1>3, <2>1 DEF PadInv, Gone, Mounted, Open
<1>4. CASE \E phase \in {"init", "leds"}, left \in 0..3 :
             /\ Wait(a, phase, left) /\ lit' = lit
             /\ (phase = "leds" /\ left = 0 /\ type \in Types360 /\ a \notin refused')
                  => lit[a] # "dark"
  <2>1. PICK phase \in {"init", "leds"}, left \in 0..3 :
             /\ Wait(a, phase, left) /\ lit' = lit
             /\ (phase = "leds" /\ left = 0 /\ type \in Types360 /\ a \notin refused')
                  => lit[a] # "dark"
    BY <1>4
  <2>2. /\ task' \in Tasks /\ task' # None /\ task'.addr = a
        /\ task'.phase = phase /\ task'.left = left
        /\ UNCHANGED <<in, led, failed>> /\ out' = [out EXCEPT ![a] = TRUE]
    BY <2>1, WaitMounts DEF Wait
  <2>3. out' \in [Addr -> BOOLEAN] /\ out'[a] = TRUE /\ \A b \in Addr \ {a} : out'[b] = out[b]
    BY <1>1, <2>2 DEF TypeOK
  <2>4. Open(a)' /\ Mounting(a)' /\ Unread(a)'
    BY <1>1, <2>2 DEF Open, Mounting, Unread
  <2>5. Lighting(a)'
    BY <2>1, <2>2, <2>3 DEF Lighting
  <2>6. PadInv(a)'
    BY <2>4, <2>5 DEF PadInv
  <2>7. \A b \in Addr \ {a} : PadInv(b)'
    BY <1>3, <2>2, <2>3
  <2> QED
    BY <1>1, <1>2, <2>2, <2>3, <2>6, <2>7 DEF TypeOK
<1>5. CASE /\ task' = None /\ led' \in BOOLEAN /\ UNCHANGED out /\ receive_report(a)
           /\ type \in Types360 /\ a \notin refused' => lit'[a] # "dark"
  <2>1. /\ in' \in [Addr -> {"idle", "busy", "claimed"}] /\ failed' \in SUBSET Addr
        /\ \A b \in Addr \ {a} : in'[b] = in[b] /\ (b \in failed' <=> b \in failed)
        /\ in'[a] = "busy" <=> a \notin failed'
    BY <1>1, <1>5, ReceiveFacts DEF Unread
  <2>2. Open(a)' /\ ~Mounting(a)'
    BY <1>1, <1>5 DEF Open, Mounting
  <2>3. PadInv(a)'
    BY <1>5, <2>1, <2>2 DEF PadInv, Mounted
  <2>4. \A b \in Addr \ {a} : PadInv(b)'
    BY <1>3, <1>5, <2>1
  <2> QED
    BY <1>1, <1>2, <1>5, <2>1, <2>3, <2>4 DEF TypeOK
<1> QED
  BY <1>4, <1>5 DEF Outcome

LEMMA MountStep ==
  ASSUME Inv, NEW a \in Addr, NEW t \in Type, Mount(a, t)
  PROVE  Inv'
<1> USE DEF Inv
<1> DEFINE pad == [type |-> t, connected |-> t # "XBOX360_WIRELESS"]
<1>1. t \in Types /\ task = None /\ ~Open(a) /\ UNCHANGED <<air, radio, played>>
      /\ pads' = [pads EXCEPT ![a] = pad] /\ pad.type = t
  BY TypeAssumption DEF Mount
<1>2. PICK n \in 0..4 : Configure(a, n, pad)
  BY <1>1, PacketFacts DEF Mount
<1>3. Outcome(a, t)
  BY <1>1, <1>2, ConfigureOutcome
<1>4. Unread(a)
  BY <1>1 DEF PadInv, Gone, Unread
<1>5. /\ pads' \in [Addr -> [type : Types \cup {"XINPUT_UNKNOWN"}, connected : BOOLEAN]]
      /\ pads'[a].type = t /\ \A b \in Addr \ {a} : pads'[b] = pads[b]
  <2>1. pad.connected \in BOOLEAN
    BY Zenon
  <2>2. pad \in [type : Types \cup {"XINPUT_UNKNOWN"}, connected : BOOLEAN]
    BY <1>1, <2>1
  <2> HIDE DEF pad
  <2> QED
    BY <1>1, <2>2 DEF TypeOK
<1> HIDE DEF pad
<1>6. /\ in' \in [Addr -> {"idle", "busy", "claimed"}] /\ failed' \in SUBSET Addr
      /\ out' \in [Addr -> BOOLEAN] /\ led' \in BOOLEAN /\ task' \in Tasks \cup {None}
      /\ lit' \in [Addr -> {"dark", "lit", "skipped"}] /\ refused' \in SUBSET Addr
      /\ \A b \in Addr : PadInv(b)'
  BY <1>1, <1>3, <1>4, <1>5, OutcomeKeeps
<1> QED
  BY <1>1, <1>5, <1>6 DEF TypeOK

\* Wherever the mount stands, unplugging clears what the pad had.
LEMMA UnplugStep ==
  ASSUME Inv, NEW a \in Addr, Unplug(a)
  PROVE  Inv'
<1> USE DEF Inv
<1>1. TypeOK'
  <2>1. <<>> \in Seq({"on", "off"})
    OBVIOUS
  <2>2. air' \in [Addr -> Seq({"on", "off"})]
    BY <2>1 DEF TypeOK, Unplug
  <2>3. pads' \in [Addr -> [type : Types \cup {"XINPUT_UNKNOWN"}, connected : BOOLEAN]]
    BY DEF TypeOK, Unplug, Closed
  <2> QED
    BY <2>2, <2>3 DEF TypeOK, Unplug, Dropped
<1>2. PadInv(a)'
  BY DEF TypeOK, PadInv, Gone, Open, Closed, Unplug, Dropped
<1>3. ASSUME NEW b \in Addr \ {a} PROVE PadInv(b)'
  BY DEF TypeOK, PadInv, Gone, Unread, Lighting, Mounted, Mounting, Open, Unplug
<1> QED
  BY <1>1, <1>2, <1>3

\* The end of a wait of an open pad: the next packet, the callback or the end.
LEMMA ResumeOutcome ==
  ASSUME TypeOK, Resume, Open(task.addr), Lighting(task.addr)
  PROVE  Outcome(task.addr, pads[task.addr].type)
<1> DEFINE a == task.addr
<1>1. /\ task # None /\ a \in Addr /\ task.left \in 0..3 /\ task.phase \in {"init", "leds"}
      /\ ~out[a] /\ Left(a) = task.left
      /\ pads[a].type \in Types /\ pads[a].type # "XINPUT_UNKNOWN"
  BY DEF TypeOK, Tasks, Resume, Open, Left
<1>2. CASE task.phase = "init"
  <2>1. Configure(a, task.left, pads[a])
    BY <1>1, <1>2 DEF Resume
  <2> QED
    BY <1>1, <2>1, ConfigureOutcome
<1>3. CASE task.phase = "leds"
  <2>1. Leds(a, pads[a], task.left, FALSE)
    BY <1>1, <1>3 DEF Resume
  <2>2. /\ lit' = lit
        /\ refused' = refused \/ refused' = refused \cup {a}
        /\ \/ \E left \in 0..3 : /\ Wait(a, "leds", left) /\ left < task.left
                                 /\ a \notin refused' => left = task.left - 1
           \/ /\ task' = None /\ led' = TRUE /\ UNCHANGED out /\ receive_report(a)
              /\ a \notin refused' => task.left = 0
    BY <1>1, <2>1, LedsFacts
  <2>3. (a \notin refused' /\ task.left \in {0, 1} /\ pads[a].type \in Types360)
           => lit[a] # "dark"
    BY <1>1, <1>3, <2>2 DEF Lighting
  <2>4. CASE \E left \in 0..3 : /\ Wait(a, "leds", left) /\ left < task.left
                                /\ a \notin refused' => left = task.left - 1
    <3>1. PICK left \in 0..3 : /\ Wait(a, "leds", left) /\ left < task.left
                               /\ a \notin refused' => left = task.left - 1
      BY <2>4
    <3>2. (left = 0 /\ a \notin refused') => task.left = 1
      BY <1>1, <3>1
    <3> QED
      BY <2>2, <2>3, <3>1, <3>2 DEF Outcome
  <2>5. CASE /\ task' = None /\ led' = TRUE /\ UNCHANGED out /\ receive_report(a)
             /\ a \notin refused' => task.left = 0
    BY <2>2, <2>3, <2>5 DEF Outcome
  <2> QED
    BY <2>2, <2>4, <2>5
<1> QED
  BY <1>1, <1>2, <1>3

\* The end of the mount of a pad that has gone.
LEMMA ResumeGone ==
  ASSUME TypeOK, Resume, ~Open(task.addr)
  PROVE  task' = None /\ led' = TRUE /\ UNCHANGED <<out, in, failed, lit, refused>>
<1> DEFINE a == task.addr
<1>1. /\ a \in Addr /\ task.phase \in {"init", "leds"}
      /\ Left(a) = 0 /\ pads[a].type = "XINPUT_UNKNOWN"
  BY DEF TypeOK, Tasks, Resume, Open, Left
<1>2. Leds(a, pads[a], 0, FALSE)
  <2>1. CASE task.phase = "leds"
    BY <1>1, <2>1 DEF Resume
  <2>2. CASE task.phase = "init"
    <3>1. Configure(a, 0, pads[a])
      BY <1>1, <2>2 DEF Resume
    <3>2. mount_cb(a, pads[a], 0 > 0)
      BY <3>1 DEF Configure
    <3>3. Leds(a, pads[a], 0, 0 > 0)
      BY <1>1, <3>2 DEF mount_cb
    <3> QED
      BY <3>3 DEF Leds, Noted
  <2> QED
    BY <1>1, <2>1, <2>2
<1>3. Finish(a, pads[a]) /\ Noted(a, FALSE) /\ lit' = lit
  BY <1>2 DEF Leds, Noted
<1> QED
  BY <1>1, <1>3 DEF Finish, Noted

LEMMA ResumeStep ==
  ASSUME Inv, Resume
  PROVE  Inv'
<1> DEFINE a == task.addr
<1>1. /\ TypeOK /\ a \in Addr /\ task # None /\ Mounting(a) /\ PadInv(a)
      /\ UNCHANGED <<pads, air, radio, played>>
  BY DEF Inv, TypeOK, Tasks, Resume, Mounting
<1>2. CASE Open(a)
  <2>1. Unread(a) /\ Lighting(a)
    BY <1>1, <1>2 DEF PadInv
  <2>2. pads[a].type \in Types
    BY <1>1, <1>2 DEF TypeOK, Open
  <2>3. Outcome(a, pads[a].type)
    BY <1>1, <1>2, <2>1, ResumeOutcome
  <2>4. /\ in' \in [Addr -> {"idle", "busy", "claimed"}] /\ failed' \in SUBSET Addr
        /\ out' \in [Addr -> BOOLEAN] /\ led' \in BOOLEAN /\ task' \in Tasks \cup {None}
        /\ lit' \in [Addr -> {"dark", "lit", "skipped"}] /\ refused' \in SUBSET Addr
        /\ \A b \in Addr : PadInv(b)'
    BY <1>1, <2>1, <2>2, <2>3, OutcomeKeeps
  <2> QED
    BY <1>1, <2>4 DEF Inv, TypeOK
<1>3. CASE ~Open(a)
  <2>1. task' = None /\ led' = TRUE /\ UNCHANGED <<out, in, failed, lit, refused>>
    BY <1>1, <1>3, ResumeGone
  <2>2. ASSUME NEW b \in Addr PROVE PadInv(b)'
    <3>1. PadInv(b) /\ ~Mounting(b)' /\ (Open(b) => ~Mounting(b))
      BY <1>3, <2>1 DEF Inv, Mounting
    <3> QED
      BY <1>1, <2>1, <3>1 DEF PadInv, Gone, Mounted, Open
  <2> QED
    BY <1>1, <2>1, <2>2 DEF Inv, TypeOK
<1> QED
  BY <1>2, <1>3

\* The transfers of one pad.  A LED packet that is over has arrived, or else a
\* packet failed.
LEMMA OutStep ==
  ASSUME Inv, NEW a \in Addr, OutDone(a) \/ OutFails(a)
  PROVE  Inv'
<1>1. /\ TypeOK /\ UNCHANGED <<pads, in, task, led, radio, played, failed>>
      /\ out' = [out EXCEPT ![a] = FALSE]
  BY DEF Inv, OutDone, OutFails
<1>2. /\ refused' \in SUBSET Addr
      /\ \A b \in Addr : b \in refused => b \in refused'
      /\ OutFails(a) => a \in refused' /\ lit' = lit
  BY <1>1 DEF TypeOK, OutDone, OutFails
<1>3. /\ lit' \in [Addr -> {"dark", "lit", "skipped"}]
      /\ \A b \in Addr : lit[b] # "dark" => lit'[b] # "dark"
      /\ OutDone(a) /\ Mounting(a) /\ task.phase = "leds" /\ task.left = 1 => lit'[a] # "dark"
  BY <1>1, <1>2 DEF TypeOK, OutDone
<1>4. air' \in [Addr -> Seq({"on", "off"})]
  <2>1. Answer(a) \in Seq({"on", "off"}) /\ air[a] \in Seq({"on", "off"})
    BY <1>1 DEF Answer, TypeOK
  <2>2. air[a] \o Answer(a) \in Seq({"on", "off"})
    BY <2>1, ConcatProperties
  <2> QED
    BY <1>1, <2>2 DEF OutDone, OutFails, TypeOK
<1>5. TypeOK'
  BY <1>1, <1>2, <1>3, <1>4 DEF TypeOK
<1>6. ASSUME NEW b \in Addr PROVE PadInv(b)'
  <2>1. PadInv(b) /\ (out'[b] => out[b]) /\ (b # a => out'[b] = out[b])
    BY <1>1 DEF Inv, TypeOK
  <2>2. ~Open(b) => PadInv(b)'
    BY <1>1, <2>1 DEF PadInv, Gone, Open
  <2>3. (Open(b) /\ ~Mounting(b)) => PadInv(b)'
    BY <1>1, <1>2, <1>3, <2>1 DEF PadInv, Mounted, Mounting, Open
  <2>4. (Open(b) /\ Mounting(b)) => PadInv(b)'
    <3> SUFFICES ASSUME Open(b), Mounting(b) PROVE PadInv(b)'
      OBVIOUS
    <3>1. Unread(b) /\ Lighting(b)
      BY <2>1 DEF PadInv
    <3>2. Lighting(b)'
      <4>1. CASE b # a
        BY <1>1, <1>2, <1>3, <2>1, <3>1, <4>1 DEF Lighting
      <4>2. CASE b = a
        <5>1. CASE OutDone(a)
          <6>1. refused' = refused /\ task' = task /\ pads' = pads
            BY <5>1 DEF OutDone
          <6>2. (task.phase = "leds" /\ task.left = 1) => lit'[a] # "dark"
            BY <1>3, <4>2, <5>1
          <6>3. lit[a] # "dark" => lit'[a] # "dark"
            BY <1>3
          <6> QED
            BY <3>1, <4>2, <6>1, <6>2, <6>3 DEF Lighting
        <5>2. CASE OutFails(a)
          BY <1>2, <4>2, <5>2 DEF Lighting
        <5> QED
          BY <5>1, <5>2
      <4> QED
        BY <4>1, <4>2
    <3> QED
      BY <1>1, <3>1, <3>2 DEF PadInv, Unread, Mounting, Open
  <2> QED
    BY <2>2, <2>3, <2>4
<1> QED
  BY <1>5, <1>6 DEF Inv

\* A pad that is read is plugged in and mounted, and stays so.
LEMMA BusyIsMounted ==
  ASSUME Inv, NEW a \in Addr, in[a] = "busy"
  PROVE  Open(a) /\ ~Mounting(a) /\ Mounted(a) /\ a \notin failed
BY DEF Inv, PadInv, Gone, Unread, Mounted

LEMMA ReadStep ==
  ASSUME Inv, NEW a \in Addr, PadData(a) \/ OtherPacket(a) \/ InFails(a)
  PROVE  Inv'
<1>1. /\ TypeOK /\ Open(a) /\ ~Mounting(a) /\ Mounted(a) /\ a \notin failed
      /\ UNCHANGED <<out, task, led, lit, radio, refused>>
  BY BusyIsMounted DEF Inv, PadData, OtherPacket, InFails
<1>2. /\ in' \in [Addr -> {"idle", "busy", "claimed"}] /\ failed' \in SUBSET Addr
      /\ \A b \in Addr \ {a} : in'[b] = in[b] /\ (b \in failed' <=> b \in failed)
      /\ in'[a] = "busy" <=> a \notin failed'
  <2>1. CASE receive_report(a)
    BY <1>1, <2>1, ReceiveFacts
  <2>2. CASE InFails(a)
    BY <1>1, <2>2 DEF TypeOK, InFails
  <2> QED
    BY <2>1, <2>2 DEF PadData, OtherPacket
<1>3. /\ played' \in SUBSET Addr
      /\ \A b \in Addr \ {a} : b \in played' <=> b \in played
  BY <1>1 DEF TypeOK, PadData, OtherPacket, InFails
<1>4. /\ pads' \in [Addr -> [type : Types \cup {"XINPUT_UNKNOWN"}, connected : BOOLEAN]]
      /\ \A b \in Addr : pads'[b].type = pads[b].type
  <2>1. CASE pads' = pads
    BY <1>1, <2>1 DEF TypeOK
  <2>2. CASE \E on \in BOOLEAN : pads' = [pads EXCEPT ![a].connected = on]
    <3>1. PICK on \in BOOLEAN : pads' = [pads EXCEPT ![a].connected = on]
      BY <2>2
    <3> QED
      BY <1>1, <3>1 DEF TypeOK
  <2>3. pads' = pads \/ \E on \in BOOLEAN : pads' = [pads EXCEPT ![a].connected = on]
    BY Zenon DEF PadData, OtherPacket, InFails
  <2> QED
    BY <2>1, <2>2, <2>3
<1>5. air' \in [Addr -> Seq({"on", "off"})]
  <2>1. air[a] # <<>> => Tail(air[a]) \in Seq({"on", "off"})
    BY <1>1 DEF TypeOK
  <2> QED
    BY <1>1, <2>1 DEF TypeOK, PadData, OtherPacket, InFails
<1>6. TypeOK'
  BY <1>1, <1>2, <1>3, <1>4, <1>5 DEF TypeOK
<1>7. PadInv(a)'
  BY <1>1, <1>2, <1>4 DEF PadInv, Mounted, Mounting, Open
<1>8. ASSUME NEW b \in Addr \ {a} PROVE PadInv(b)'
  BY <1>1, <1>2, <1>3, <1>4 DEF Inv, PadInv, Gone, Unread, Lighting, Mounted, Mounting, Open
<1> QED
  BY <1>6, <1>7, <1>8 DEF Inv

LEMMA SwitchStep ==
  ASSUME Inv, NEW a \in Addr, Switch(a)
  PROVE  Inv'
<1>1. air' \in [Addr -> Seq({"on", "off"})]
  BY DEF Inv, TypeOK, Switch
<1>2. TypeOK'
  BY <1>1 DEF Inv, TypeOK, Switch
<1>3. ASSUME NEW b \in Addr PROVE PadInv(b)'
  BY DEF Inv, PadInv, Gone, Unread, Lighting, Mounted, Mounting, Open, Switch
<1> QED
  BY <1>2, <1>3 DEF Inv

LEMMA InvStep == Inv /\ [Next]_vars => Inv'
<1> SUFFICES ASSUME Inv, [Next]_vars PROVE Inv'
  OBVIOUS
<1>1. CASE Resume
  BY <1>1, ResumeStep
<1>2. ASSUME NEW a \in Addr, NEW t \in Type, Mount(a, t) PROVE Inv'
  BY <1>2, MountStep
<1>3. ASSUME NEW a \in Addr,
             \/ Unplug(a) \/ OutDone(a) \/ OutFails(a)
             \/ PadData(a) \/ OtherPacket(a) \/ InFails(a) \/ Switch(a)
      PROVE  Inv'
  BY <1>3, UnplugStep, OutStep, ReadStep, SwitchStep
<1>4. CASE UNCHANGED vars
  BY <1>4 DEF vars, Inv, TypeOK, PadInv, Gone, Unread, Lighting, Mounted, Mounting, Open
<1> QED
  BY <1>1, <1>2, <1>3, <1>4 DEF Next

-----------------------------------------------------------------------------
(* The theorems.                                                           *)

LEMMA Invariance == Spec => []Inv
BY Initial, InvStep, PTL DEF Spec

\* Every variable keeps its type, for any number of devices.
THEOREM TypeCorrect == Spec => []TypeOK
<1>1. Inv => TypeOK
  BY DEF Inv
<1> QED
  BY <1>1, Invariance, PTL

\* A pad whose mount has ended is read until a transfer of it fails or is
\* refused (xinputh_xfer_cb, tuh_xinput_mount_cb), whatever the other pads do.
THEOREM StreamingCorrect == Spec => []Streaming
<1>1. Inv => Streaming
  BY DEF Inv, PadInv, Mounted, Streaming
<1> QED
  BY <1>1, Invariance, PTL

\* The endpoints of a pad that went, in the middle of its mount too, are free
\* (xinputh_close, wait_for_tx_complete).
THEOREM FreedCorrect == Spec => []NothingLeftBehind
<1>1. Inv => NothingLeftBehind
  BY DEF Inv, PadInv, Gone, NothingLeftBehind
<1> QED
  BY <1>1, Invariance, PTL

\* No report of a 360 pad is passed on before the packet for its LEDs has
\* arrived, unless a packet to it failed or its receiver was found without a pad
\* (tuh_xinput_mount_cb), whenever packets are refused and however transfers of
\* other pads interleave.
THEOREM LitCorrect == Spec => []PlayedIsLit
<1>1. Inv => PlayedIsLit
  BY DEF Inv, TypeOK, PadInv, Gone, Unread, Mounted, Types360, PlayedIsLit
<1> QED
  BY <1>1, Invariance, PTL

-----------------------------------------------------------------------------
(* What the liveness rests on.                                             *)

\* The packets a mount may still wait for: up to three for the player LEDs and
\* the motors, after those of xinputh_set_config.
PacketsLeft ==
  IF task = None THEN 0 ELSE task.left + 1 + (IF task.phase = "init" THEN 4 ELSE 0)

\* A mount that waits goes on with fewer packets to wait for, or ends.
MountGoesOn ==
  [][task # None /\ task' # task
       => PacketsLeft' < PacketsLeft /\ (task' # None => task'.addr = task.addr)]_vars

LEMMA ResumeShortens ==
  ASSUME TypeOK, Resume
  PROVE  PacketsLeft' < PacketsLeft /\ (task' # None => task'.addr = task.addr)
<1> DEFINE a == task.addr
<1>1. /\ task # None /\ a \in Addr /\ task.left \in 0..3 /\ task.phase \in {"init", "leds"}
      /\ pads[a].type \in Types \cup {"XINPUT_UNKNOWN"}
  BY DEF TypeOK, Tasks, Resume
<1>2. ASSUME NEW phase \in {"init", "leds"}, NEW left \in 0..3, Wait(a, phase, left),
             \/ phase = task.phase /\ left < task.left
             \/ phase = "leds" /\ task.phase = "init"
      PROVE  PacketsLeft' < PacketsLeft /\ task'.addr = a
  <2>1. task' # None /\ task'.addr = a /\ task'.phase = phase /\ task'.left = left
    BY <1>1, <1>2, WaitMounts DEF Wait
  <2> QED
    BY <1>1, <1>2, <2>1 DEF PacketsLeft
<1>3. ASSUME task' = None PROVE PacketsLeft' < PacketsLeft
  BY <1>1, <1>3 DEF PacketsLeft
<1>4. CASE ~Open(a)
  BY <1>3, <1>4, ResumeGone
<1>5. CASE Open(a) /\ task.phase = "leds"
  <2>1. Leds(a, pads[a], task.left, FALSE) /\ pads[a].type # "XINPUT_UNKNOWN"
    BY <1>5 DEF Resume, Left, Open
  <2>2. \/ \E left \in 0..3 : Wait(a, "leds", left) /\ left < task.left
        \/ task' = None
    BY <1>1, <2>1, LedsFacts
  <2> QED
    BY <1>1, <1>2, <1>3, <1>5, <2>2
<1>6. CASE Open(a) /\ task.phase = "init"
  <2>1. Configure(a, task.left, pads[a]) /\ pads[a].type \in Types
    BY <1>1, <1>6 DEF Resume, Left, Open
  <2>2. \/ task' = None
        \/ \E left \in 0..3 : Wait(a, "init", left) /\ left < task.left
        \/ \E left \in 0..3 : Wait(a, "leds", left)
    BY <1>1, <2>1, ConfigureOutcome
  <2> QED
    BY <1>1, <1>2, <1>3, <1>6, <2>2
<1> QED
  BY <1>1, <1>4, <1>5, <1>6

\* wait_for_tx_complete is entered at most eight times by a mount, whatever
\* happens to the pad and to other pads in between.  With FreedCorrect (a
\* packet is awaited only of a pad that is there to take it) and the fairness
\* of both steps, this is why every mount ends (MountEnds).
THEOREM MountBounded == Spec => MountGoesOn
<1>1. TypeOK /\ [Next]_vars =>
        [task # None /\ task' # task
           => PacketsLeft' < PacketsLeft /\ (task' # None => task'.addr = task.addr)]_vars
  <2> SUFFICES ASSUME TypeOK, [Next]_vars, task # None, task' # task
               PROVE  PacketsLeft' < PacketsLeft /\ (task' # None => task'.addr = task.addr)
    OBVIOUS
  <2>1. Resume
    BY DEF Next, Mount, Unplug, OutDone, OutFails, PadData, OtherPacket, InFails, Switch, vars
  <2> QED
    BY <2>1, ResumeShortens
<1> QED
  BY <1>1, TypeCorrect, PTL DEF Spec, MountGoesOn

\* What a receiver has said last of its pad, or is about to say.
SaidOn(a) == IF air[a] = <<>> THEN pads[a].connected ELSE air[a][Len(air[a])] = "on"

\* A receiver that is being asked.
Asking(a) == Mounting(a) /\ task.phase = "init" /\ out[a]

\* A receiver that was asked, or whose pad was switched since.
PresenceKnown ==
  \A a \in Addr :
    (pads[a].type = "XBOX360_WIRELESS" /\ a \notin refused /\ ~Asking(a)) =>
      (radio[a] <=> SaidOn(a))

LEMMA LastOfTail ==
  ASSUME NEW S, NEW s \in Seq(S), s # <<>>
  PROVE  s[Len(s)] = IF Tail(s) = <<>> THEN Head(s) ELSE Tail(s)[Len(Tail(s))]
<1>1. /\ Len(Tail(s)) = Len(s) - 1 /\ Tail(s) \in Seq(S) /\ Head(s) = s[1]
      /\ \A i \in 1..Len(Tail(s)) : Tail(s)[i] = s[i + 1]
  BY HeadTailProperties
<1>2. Len(s) \in Nat
  OBVIOUS
<1>3. Tail(s) = <<>> <=> Len(Tail(s)) = 0
  BY <1>1, EmptySeq
<1>4. CASE Tail(s) = <<>>
  BY <1>1, <1>2, <1>3, <1>4
<1>5. CASE Tail(s) # <<>>
  <2>1. Len(s) - 1 \in 1..Len(Tail(s))
    BY <1>1, <1>2, <1>3, <1>5, EmptySeq
  <2> QED
    BY <1>1, <1>2, <1>5, <2>1
<1> QED
  BY <1>4, <1>5

\* The last word of a receiver after one more.
LEMMA LastOfConcat ==
  ASSUME NEW S, NEW s \in Seq(S), NEW w \in S
  PROVE  s \o <<w>> # <<>> /\ (s \o <<w>>)[Len(s \o <<w>>)] = w
<1>1. <<w>> \in Seq(S) /\ Len(<<w>>) = 1 /\ <<w>>[1] = w /\ Len(s) \in Nat
  OBVIOUS
<1>2. s \o <<w>> \in Seq(S) /\ Len(s \o <<w>>) = Len(s) + 1
  BY <1>1, ConcatProperties
<1>3. (s \o <<w>>)[Len(s) + 1] = <<w>>[Len(s) + 1 - Len(s)]
  BY <1>1, ConcatProperties
<1> QED
  BY <1>1, <1>2, <1>3, EmptySeq

\* A receiver is refused once for all; it is being asked from its mount on.
LEMMA MountAsks ==
  ASSUME TypeOK, NEW a \in Addr, NEW t \in Type, t = "XBOX360_WIRELESS", Mount(a, t)
  PROVE  a \in refused' \/ Asking(a)'
<1> DEFINE pad == [type |-> t, connected |-> t # "XBOX360_WIRELESS"]
<1>1. Configure(a, 1, pad) /\ pad.type = t /\ t \in Types
  BY TypeAssumption, PacketFacts DEF Mount
<1>2. a \in refused' \/ \E left \in 0..3 : Wait(a, "init", left)
  BY <1>1, ConfigureOutcome
<1>3. ASSUME NEW left \in 0..3, Wait(a, "init", left) PROVE Asking(a)'
  BY <1>3, WaitMounts DEF Wait, Asking, Mounting, TypeOK
<1> QED
  BY <1>2, <1>3

LEMMA PresenceStep == TypeOK /\ PresenceKnown /\ [Next]_vars => PresenceKnown'
<1> SUFFICES ASSUME TypeOK, PresenceKnown, [Next]_vars, NEW a \in Addr,
                    pads'[a].type = "XBOX360_WIRELESS", a \notin refused', ~Asking(a)'
             PROVE  radio'[a] <=> SaidOn(a)'
  BY DEF PresenceKnown
<1>1. ASSUME NEW b \in Addr, NEW t \in Type, Mount(b, t)
      PROVE  radio'[a] <=> SaidOn(a)'
  <2>1. UNCHANGED <<radio, air>> /\ task = None
    BY <1>1 DEF Mount
  <2>2. a # b
    <3>1. a = b => t = "XBOX360_WIRELESS"
      BY <1>1 DEF Mount, TypeOK
    <3> QED
      BY <1>1, <3>1, MountAsks
  <2>3. pads'[a] = pads[a] /\ ~Asking(a)
    BY <1>1, <2>1, <2>2 DEF Mount, TypeOK, Asking, Mounting
  <2>4. a \notin refused
    <3>1. t \in Types /\ \E n \in 0..4 :
             Configure(b, n, [type |-> t, connected |-> t # "XBOX360_WIRELESS"])
      BY <1>1, TypeAssumption, PacketFacts DEF Mount
    <3>2. Outcome(b, t)
      BY <3>1, ConfigureOutcome
    <3> QED
      BY <2>2, <3>2 DEF Outcome
  <2> QED
    BY <2>1, <2>3, <2>4 DEF PresenceKnown, SaidOn
<1>2. CASE Resume
  <2>1. /\ UNCHANGED <<pads, air, radio>> /\ ~Asking(a)
    BY <1>2 DEF Resume, Asking, Mounting
  <2>2. a \notin refused
    <3>1. CASE Open(task.addr)
      <4> DEFINE b == task.addr
      <4>1. /\ b \in Addr /\ task.left \in 0..3 /\ task.phase \in {"init", "leds"}
            /\ pads[b].type \in Types /\ pads[b].type # "XINPUT_UNKNOWN" /\ Left(b) = task.left
        BY <1>2, <3>1 DEF TypeOK, Tasks, Resume, Open, Left
      <4>2. CASE task.phase = "init"
        <5>1. Configure(b, task.left, pads[b])
          BY <1>2, <4>1, <4>2 DEF Resume
        <5>2. Outcome(b, pads[b].type)
          BY <4>1, <5>1, ConfigureOutcome
        <5> QED
          BY <5>2 DEF Outcome
      <4>3. CASE task.phase = "leds"
        <5>1. Leds(b, pads[b], task.left, FALSE)
          BY <1>2, <4>1, <4>3 DEF Resume
        <5> QED
          BY <4>1, <5>1, LedsFacts
      <4> QED
        BY <4>1, <4>2, <4>3
    <3>2. CASE ~Open(task.addr)
      BY <1>2, <3>2, ResumeGone
    <3> QED
      BY <3>1, <3>2
  <2> QED
    BY <2>1, <2>2 DEF PresenceKnown, SaidOn
<1>3. ASSUME NEW b \in Addr, Unplug(b)
      PROVE  radio'[a] <=> SaidOn(a)'
  <2>1. a # b
    BY <1>3 DEF Unplug, TypeOK, Closed
  <2>2. pads'[a] = pads[a] /\ air'[a] = air[a] /\ a \notin refused /\ ~Asking(a)
    BY <1>3, <2>1 DEF Unplug, TypeOK, Asking, Mounting
  <2> QED
    BY <1>3, <2>1, <2>2 DEF Unplug, PresenceKnown, SaidOn
<1>4. ASSUME NEW b \in Addr, PadData(b) \/ InFails(b)
      PROVE  radio'[a] <=> SaidOn(a)'
  BY <1>4 DEF PadData, InFails, PresenceKnown, SaidOn, Asking, Mounting
<1>5. ASSUME NEW b \in Addr, OtherPacket(b)
      PROVE  radio'[a] <=> SaidOn(a)'
  <2>0. a \notin refused /\ ~Asking(a) /\ UNCHANGED radio
    BY <1>5 DEF OtherPacket, Asking, Mounting
  <2>1. CASE a # b \/ air[b] = <<>>
    <3>1. pads'[a] = pads[a] /\ air'[a] = air[a]
      BY <1>5, <2>1 DEF OtherPacket, TypeOK
    <3> QED
      BY <2>0, <3>1 DEF PresenceKnown, SaidOn
  <2>2. CASE a = b /\ air[b] # <<>>
    <3> DEFINE said == air[a]
    <3>1. /\ pads'[a].type = pads[a].type
          /\ pads'[a].connected = (Head(said) = "on") /\ air'[a] = Tail(said)
      BY <1>5, <2>2 DEF OtherPacket, TypeOK
    <3>2. said \in Seq({"on", "off"}) /\ said # <<>>
      BY <2>2 DEF TypeOK
    <3>3. radio[a] <=> said[Len(said)] = "on"
      BY <2>0, <2>2, <3>1 DEF PresenceKnown, SaidOn
    <3> HIDE DEF said
    <3>4. said[Len(said)] = IF Tail(said) = <<>> THEN Head(said)
                            ELSE Tail(said)[Len(Tail(said))]
      BY <3>2, LastOfTail
    <3> QED
      BY <2>0, <3>1, <3>3, <3>4 DEF SaidOn
  <2> QED
    BY <2>1, <2>2
<1>6. ASSUME NEW b \in Addr, Switch(b)
      PROVE  radio'[a] <=> SaidOn(a)'
  <2>0. a \notin refused /\ ~Asking(a)
    BY <1>6 DEF Switch, Asking, Mounting
  <2>1. CASE a # b
    BY <1>6, <2>0, <2>1 DEF Switch, TypeOK, PresenceKnown, SaidOn
  <2>2. CASE a = b
    <3> DEFINE word == IF radio[a] THEN "off" ELSE "on"
    <3>1. air'[a] = Append(air[a], word) /\ radio'[a] = ~radio[a]
      BY <1>6, <2>2 DEF Switch, TypeOK
    <3>2. air[a] \in Seq({"on", "off"}) /\ radio[a] \in BOOLEAN /\ word \in {"on", "off"}
      BY DEF TypeOK
    <3>3. (word = "on") <=> ~radio[a]
      OBVIOUS
    <3> HIDE DEF word
    <3> DEFINE said == Append(air[a], word)
    <3>4. said # <<>> /\ said[Len(said)] = word
      BY <3>2, AppendProperties
    <3>5. air'[a] = said
      BY <3>1
    <3> HIDE DEF said
    <3> QED
      BY <3>1, <3>3, <3>4, <3>5 DEF SaidOn
  <2> QED
    BY <2>1, <2>2
<1>7. CASE UNCHANGED vars
  BY <1>7 DEF vars, PresenceKnown, SaidOn, Asking, Mounting
<1>8. ASSUME NEW b \in Addr, OutDone(b)
      PROVE  radio'[a] <=> SaidOn(a)'
  <2>1. UNCHANGED <<pads, radio, task, refused>>
    BY <1>8 DEF OutDone
  <2>2. CASE a = b /\ Asking(a)
    <3>1. air'[a] = air[a] \o Answer(a)
      BY <1>8, <2>1, <2>2 DEF OutDone, Asking, TypeOK
    <3> DEFINE word == IF radio[a] THEN "on" ELSE "off"
    <3>2. air'[a] = air[a] \o <<word>> /\ word \in {"on", "off"} /\ (word = "on" <=> radio[a])
      BY <3>1 DEF Answer
    <3> HIDE DEF word
    <3> DEFINE said == air[a] \o <<word>>
    <3>3. said # <<>> /\ said[Len(said)] = word
      BY <3>2, LastOfConcat DEF TypeOK
    <3>4. air'[a] = said
      BY <3>2
    <3> HIDE DEF said
    <3> QED
      BY <2>1, <3>2, <3>3, <3>4 DEF SaidOn
  <2>3. CASE ~(a = b /\ Asking(a))
    <3>1. air'[a] = air[a]
      BY <1>8, <2>1, <2>3 DEF OutDone, Asking, TypeOK
    <3>2. ~Asking(a)
      BY <1>8, <2>1, <2>3 DEF OutDone, Asking, Mounting, TypeOK
    <3> QED
      BY <2>1, <3>1, <3>2 DEF PresenceKnown, SaidOn
  <2> QED
    BY <2>2, <2>3
<1>9. ASSUME NEW b \in Addr, OutFails(b)
      PROVE  radio'[a] <=> SaidOn(a)'
  <2>1. UNCHANGED <<pads, radio, air, task>> /\ a \notin refused /\ a # b
    BY <1>9 DEF OutFails
  <2>2. ~Asking(a)
    BY <1>9, <2>1 DEF OutFails, Asking, Mounting, TypeOK
  <2> QED
    BY <2>1, <2>2 DEF PresenceKnown, SaidOn
<1> QED
  BY <1>1, <1>2, <1>3, <1>4, <1>5, <1>6, <1>7, <1>8, <1>9 DEF Next

\* The driver never loses sight of a wireless pad, once its receiver was asked
\* and while no packet to it failed: when no connection packet is on its way,
\* connected says whether the pad is on, and otherwise the last packet on its
\* way will.  With StreamingCorrect (the receiver is listened to
\* until a transfer fails) this is why a pad gets connected (WirelessConnects).
THEOREM PresenceCorrect == Spec => []PresenceKnown
<1>1. Init => PresenceKnown
  BY DEF Init, PresenceKnown, Closed
<1> QED
  BY <1>1, PresenceStep, TypeCorrect, PTL DEF Spec
=============================================================================
