---------------------------- MODULE LinksProofs ----------------------------
(***************************************************************************)
(* Proofs about links of Links: the report that two cores share for the    *)
(* Wii, the array that the DMA and the interrupt handler share for a       *)
(* PlayStation pad, the descriptors of Bluetooth pads, the line of a PS/2  *)
(* keyboard, the commands of a GameCube, and what the reports of Bluetooth *)
(* pads, of a USB gamepad and of a Nintendo 64 pad need to keep coming.    *)
(***************************************************************************)
EXTENDS Links, SequenceTheorems, TLAPS

-----------------------------------------------------------------------------
(* The Wii.                                                                *)

\* While the run loop is between the read and the clearing, reset_ir is set;
\* with reset_ir clear, the extension differs from the mode only when the
\* other core is about to set it or a change was cleared unseen.
WiiInv ==
  /\ converting \in {"", "first", "second"}
  /\ updating # "" => reset_ir
  /\ converting # "second" /\ ~reset_ir /\ ~lost => extension = mode

LEMMA WiiInitial == Init => WiiInv
  BY DEF Init, Wii!Init, WiiInv

\* The actions of the run loop that leave the shared report alone.
LEMMA LinkKeeps ==
  ASSUME WiiInv, UNCHANGED <<Wii!report, Wii!wiimote>>
  PROVE  WiiInv'
  BY DEF WiiInv, Wii!report, Wii!wiimote

LEMMA WiiStep == WiiInv /\ Wii!Next => WiiInv'
<1> SUFFICES ASSUME WiiInv, Wii!Next PROVE WiiInv'
  OBVIOUS
<1>1. CASE Wii!Working \/ Wii!WriteIacLap \/ Wii!CommandComplete \/ Wii!Incoming
  BY <1>1, LinkKeeps DEF Wii!Working, Wii!WriteIacLap, Wii!CommandComplete, Wii!Incoming
<1>2. CASE Wii!ConnectionOpened \/ Wii!OpenFailed \/ Wii!ConnectionClosed
  BY <1>2, LinkKeeps DEF Wii!ConnectionOpened, Wii!OpenFailed, Wii!ConnectionClosed
<1>3. ASSUME NEW cid \in {1, 2}, Wii!SdpIncoming(cid) \/ Wii!SdpClosed(cid) PROVE WiiInv'
  BY <1>3, LinkKeeps DEF Wii!SdpIncoming, Wii!SdpClosed
<1>4. CASE Wii!SdpRequest \/ Wii!sdp_respond
  BY <1>4, LinkKeeps DEF Wii!SdpRequest, Wii!sdp_respond
<1>5. ASSUME NEW both \in BOOLEAN, Wii!Convert(both) PROVE WiiInv'
  BY <1>5 DEF Wii!Convert, WiiInv, Wii!wiimote
<1>6. CASE Wii!Change
  BY <1>6 DEF Wii!Change, Wii!Writes, WiiInv, Wii!wiimote
<1>7. CASE Wii!Update
  BY <1>7 DEF Wii!Update, WiiInv, Wii!report
<1>8. CASE Wii!ReadMode
  BY <1>8 DEF Wii!ReadMode, WiiInv, Wii!report
<1>9. CASE Wii!ClearReset
  BY <1>9 DEF Wii!ClearReset, WiiInv
<1> QED
  BY <1>1, <1>2, <1>3, <1>4, <1>5, <1>6, <1>7, <1>8, <1>9 DEF Wii!Next

\* A step of another link leaves the report alone.
LEMMA WiiStepOfAny == WiiInv /\ [Next]_vars => WiiInv'
<1> SUFFICES ASSUME WiiInv, [Next]_vars PROVE WiiInv'
  OBVIOUS
<1>1. CASE Step("wii", Wii!Next)
  BY <1>1, WiiStep DEF Step
<1>2. CASE UNCHANGED wii
  BY <1>2 DEF WiiInv, wii
<1> QED
  BY <1>1, <1>2 DEF Next, Step, Elsewhere, vars

\* Whatever the order of the reads and writes of the two cores, the extension
\* follows the mode (input_update_wiimote), changes lost in the window left out.
THEOREM ExtensionCorrect == Spec => []ExtensionFollowsMode
<1>1. WiiInv => ExtensionFollowsMode
  BY DEF WiiInv, ExtensionFollowsMode, Wii!ExtensionFollowsMode
<1> QED
  BY <1>1, WiiInitial, WiiStepOfAny, PTL DEF Spec
-----------------------------------------------------------------------------
(* The PlayStation pad.                                                    *)

ReadWord == [of : 0..2, pressed : BOOLEAN]

PsxTyped ==
  /\ handler \in {"idle", "arm", "convert", "send"}
  /\ data_psx \in [1..Words -> ReadWord]
  /\ stored \in 0..Words
  /\ exchange \in 0..2
  /\ keys \in BOOLEAN
  /\ seen \in Seq(ReadWord)
  /\ Len(seen) <= Words

\* The first n words are of the exchange that was asked for last.
OfExchange(n) == \A k \in 1..n : data_psx[k].of = exchange

\* An exchange runs only outside the handler; the handler finds all words of
\* one exchange and converts them before it asks for the next.
PsxInv ==
  /\ PsxTyped
  /\ handler # "idle" \/ stored = Words => ~clocking
  /\ handler \in {"convert", "send"} => stored = 0
  /\ handler = "idle" => OfExchange(stored)
  /\ handler # "idle" => OfExchange(Words)
  /\ handler = "convert" => \A k \in DOMAIN seen : seen[k].of = exchange
  /\ Psx!OneExchange

LEMMA PsxInitial == Init => PsxInv
<1> SUFFICES ASSUME Psx!Init PROVE PsxInv
  BY DEF Init
<1>1. data_psx \in [1..Words -> ReadWord] /\ stored \in 0..Words /\ exchange \in 0..2
  BY WordsAssumption DEF Psx!Init, ReadWord
<1>2. seen \in Seq(ReadWord) /\ Len(seen) <= Words
  BY WordsAssumption DEF Psx!Init
<1>3. keys \in BOOLEAN /\ handler \in {"idle", "arm", "convert", "send"}
  BY DEF Psx!Init
<1>4. PsxTyped
  BY <1>1, <1>2, <1>3 DEF PsxTyped
<1>5. OfExchange(Words) /\ Psx!OneExchange
  BY DEF Psx!Init, OfExchange, Psx!OneExchange
<1> QED
  BY <1>4, <1>5 DEF Psx!Init, PsxInv

LEMMA PsxStep == PsxInv /\ Psx!Next => PsxInv'
<1> SUFFICES ASSUME PsxInv, Psx!Next PROVE PsxInv'
  OBVIOUS
<1> USE WordsAssumption DEF PsxInv, PsxTyped, OfExchange, Psx!OneExchange
<1>1. CASE Psx!Store
  <2>1. stored + 1 \in 1..Words /\ [of |-> exchange, pressed |-> keys] \in ReadWord
    BY <1>1 DEF Psx!Store, ReadWord
  <2>2. \A k \in 1..stored' : data_psx'[k].of = exchange'
    BY <1>1, <2>1 DEF Psx!Store
  <2>3. PsxTyped'
    BY <1>1, <2>1 DEF Psx!Store
  <2>4. stored' = Words => ~(stored' < Words)
    BY <1>1, <2>1 DEF Psx!Store
  <2> QED
    BY <1>1, <2>2, <2>3, <2>4 DEF Psx!Store
<1>2. CASE Psx!Interrupt
  BY <1>2 DEF Psx!Interrupt
<1>3. CASE Psx!Arm
  BY <1>3 DEF Psx!Arm
<1>4. CASE Psx!Convert
  <2>1. Len(seen) + 1 \in 1..Words /\ data_psx[Len(seen) + 1] \in ReadWord
    BY <1>4 DEF Psx!Convert
  <2>2. \A k \in DOMAIN seen' : seen'[k].of = exchange
    BY <1>4, <2>1 DEF Psx!Convert
  <2> QED
    BY <1>4, <2>1, <2>2 DEF Psx!Convert
<1>5. CASE Psx!set_fast_switch_mode
  BY <1>5 DEF Psx!set_fast_switch_mode
<1>6. CASE Psx!SendCommand
  BY <1>6 DEF Psx!SendCommand
<1>7. CASE Psx!User
  BY <1>7 DEF Psx!User
<1> QED
  BY <1>1, <1>2, <1>3, <1>4, <1>5, <1>6, <1>7 DEF Psx!Next

LEMMA PsxStepOfAny == PsxInv /\ [Next]_vars => PsxInv'
<1> SUFFICES ASSUME PsxInv, [Next]_vars PROVE PsxInv'
  OBVIOUS
<1>1. CASE Step("playstation pad", Psx!Next)
  BY <1>1, PsxStep DEF Step
<1>2. CASE UNCHANGED psx
  BY <1>2 DEF PsxInv, PsxTyped, OfExchange, Psx!OneExchange, psx
<1> QED
  BY <1>1, <1>2 DEF Next, Step, Elsewhere, vars

\* For any number of words the callback reads words of one exchange
\* (dma_handler), although the DMA is armed again before.
THEOREM OneExchangeCorrect == Spec => []OneExchange
<1>1. PsxInv => OneExchange
  BY DEF PsxInv, OneExchange
<1> QED
  BY <1>1, PsxInitial, PsxStepOfAny, PTL DEF Spec
-----------------------------------------------------------------------------
(* The Bluetooth pads.                                                     *)

\* The descriptor is the one of the pad whose link is open.
ParsedInv == first_time => info = hid_host_cid /\ hid_host_cid # "none"

\* The host has the cid of a link from its own opened event to its own closed
\* event, and only while the link has a peer.
CidInv ==
  /\ TYPE \in {"GENERIC", "PS4", "EIGHT_BITDO"}
  /\ link \in {"down", "opening", "up", "lost"}
  /\ hid_host_cid \in {"none", peer}
  /\ link = "down" => hid_host_cid = "none"
  /\ link = "opening" /\ "host" \notin told => hid_host_cid = "none"
  /\ link = "lost" /\ "host" \in told => hid_host_cid = "none"

\* What is in the air is of the pad that is linked, and has begun to send.
AirInv ==
  /\ air \in Seq({peer})
  /\ link \in {"down", "lost"} \/ (link = "opening" /\ "pad" \notin told) => air = <<>>

BlueInv == ParsedInv /\ CidInv /\ AirInv /\ Blue!OwnDescriptor

LEMMA BlueInitial == Init => BlueInv
<1> SUFFICES ASSUME Blue!Init PROVE BlueInv
  BY DEF Init
<1>1. air \in Seq({peer})
  BY DEF Blue!Init
<1> QED
  BY <1>1 DEF Blue!Init, BlueInv, ParsedInv, CidInv, AirInv, Blue!OwnDescriptor, Blue!Nothing

\* A report that is read meets the descriptor of its sender.
LEMMA HandleReportStep ==
  ASSUME BlueInv, Blue!HandleReport
  PROVE  BlueInv'
<1> USE DEF BlueInv
<1>1. /\ air # <<>> /\ hid_host_cid = peer /\ hid_host_cid # "none"
      /\ UNCHANGED <<TYPE, hid_host_cid, hid_host_descriptor_available, link, peer, told>>
      /\ air' = Tail(air)
  BY DEF CidInv, Blue!HandleReport, Blue!device
<1>2. Head(air) = peer /\ air' \in Seq({peer'})
  BY <1>1 DEF AirInv
<1>3. ParsedInv' /\ Blue!OwnDescriptor'
  <2>1. CASE hid_host_descriptor_available
    <3>1. Blue!Relay(peer)
      BY <1>2, <2>1 DEF Blue!HandleReport
    <3>2. CASE TYPE # "GENERIC"
      BY <1>1, <3>1, <3>2 DEF Blue!Relay, ParsedInv, CidInv, Blue!OwnDescriptor
    <3>3. CASE TYPE = "GENERIC" /\ ~first_time /\ hid_host_cid = "odd"
      BY <1>1, <3>1, <3>3 DEF Blue!Relay, ParsedInv, Blue!OwnDescriptor
    <3>4. CASE TYPE = "GENERIC" /\ ~(~first_time /\ hid_host_cid = "odd")
      BY <1>1, <3>1, <3>4 DEF Blue!Relay, ParsedInv, Blue!OwnDescriptor
    <3> QED
      BY <3>2, <3>3, <3>4
  <2>2. CASE ~hid_host_descriptor_available
    BY <1>1, <2>2 DEF Blue!HandleReport, ParsedInv, Blue!OwnDescriptor
  <2> QED
    BY <2>1, <2>2
<1>4. CidInv' /\ AirInv'
  BY <1>1, <1>2 DEF CidInv, AirInv
<1> QED
  BY <1>3, <1>4

\* The link opens: no descriptor is parsed and nothing is in the air.
LEMMA OpeningStep ==
  ASSUME BlueInv,
         (\E p \in Blue!Pads : Blue!Connect(p)) \/ Blue!OpenFailed \/ Blue!HostOpened
           \/ Blue!PadOpened \/ Blue!DescriptorAvailable
  PROVE  BlueInv'
<1> USE DEF BlueInv, Blue!host, Blue!device, Blue!OwnDescriptor
<1>1. ASSUME NEW p \in Blue!Pads, Blue!Connect(p) PROVE BlueInv'
  <2>1. link = "down" /\ air = <<>> /\ air' = <<>> /\ hid_host_cid = "none"
    BY <1>1 DEF Blue!Connect, CidInv, AirInv
  <2>2. AirInv'
    <3>1. <<>> \in Seq({peer'})
      OBVIOUS
    <3> QED
      BY <2>1, <3>1 DEF AirInv
  <2> QED
    BY <1>1, <2>1, <2>2 DEF Blue!Connect, ParsedInv, CidInv
<1>2. CASE Blue!OpenFailed
  <2>1. air = <<>> /\ air' = <<>> /\ hid_host_cid = "none" /\ ~first_time
    BY <1>2 DEF Blue!OpenFailed, CidInv, AirInv, ParsedInv
  <2>2. AirInv'
    <3>1. <<>> \in Seq({peer'})
      OBVIOUS
    <3> QED
      BY <2>1, <3>1 DEF AirInv
  <2> QED
    BY <1>2, <2>1, <2>2 DEF Blue!OpenFailed, ParsedInv, CidInv
<1>3. CASE Blue!HostOpened
  BY <1>3 DEF Blue!HostOpened, Blue!Up, ParsedInv, CidInv, AirInv
<1>4. CASE Blue!PadOpened
  BY <1>4 DEF Blue!PadOpened, Blue!Up, ParsedInv, CidInv, AirInv
<1>5. CASE Blue!DescriptorAvailable
  BY <1>5 DEF Blue!DescriptorAvailable, ParsedInv, CidInv, AirInv
<1> QED
  BY <1>1, <1>2, <1>3, <1>4, <1>5

\* The link is up, or breaks: the host forgets the descriptor with the cid.
LEMMA ClosingStep ==
  ASSUME BlueInv,
         Blue!CanSendNow \/ Blue!Lose \/ Blue!HostClosed \/ Blue!PadClosed
  PROVE  BlueInv'
<1> USE DEF BlueInv, Blue!host, Blue!device, Blue!OwnDescriptor
<1>1. CASE Blue!CanSendNow
  <2>1. air' \in Seq({peer'}) /\ link \in {"opening", "up"} /\ "pad" \in told
        /\ UNCHANGED <<TYPE, hid_host_cid, first_time, info, relayed, link, peer, told>>
    BY <1>1 DEF Blue!CanSendNow, AirInv
  <2> QED
    BY <2>1 DEF ParsedInv, CidInv, AirInv
<1>2. CASE Blue!Lose
  BY <1>2 DEF Blue!Lose, ParsedInv, CidInv, AirInv
<1>3. CASE Blue!HostClosed
  <2>1. link = "lost" /\ air = <<>> /\ air' = <<>> /\ hid_host_cid' = "none" /\ ~first_time'
        /\ link' \in {"lost", "down"} /\ UNCHANGED <<TYPE, relayed>>
    BY <1>3 DEF Blue!HostClosed, Blue!Down, Blue!FreeInfo, AirInv
  <2>2. <<>> \in Seq({peer'})
    OBVIOUS
  <2> QED
    BY <2>1, <2>2 DEF ParsedInv, CidInv, AirInv
<1>4. CASE Blue!PadClosed
  <2>1. link = "lost" /\ air = <<>> /\ air' = <<>>
    BY <1>4 DEF Blue!PadClosed, AirInv
  <2>2. <<>> \in Seq({peer'})
    OBVIOUS
  <2>3. CASE told' = {"host", "pad"}
    <3>1. "host" \in told /\ link' = "down"
      BY <1>4, <2>3 DEF Blue!PadClosed, Blue!Down
    <3> QED
      BY <1>4, <2>1, <2>2, <3>1 DEF Blue!PadClosed, ParsedInv, CidInv, AirInv
  <2>4. CASE told' # {"host", "pad"}
    BY <1>4, <2>1, <2>2, <2>4 DEF Blue!PadClosed, Blue!Down, ParsedInv, CidInv, AirInv
  <2> QED
    BY <2>3, <2>4
<1> QED
  BY <1>1, <1>2, <1>3, <1>4

LEMMA BlueStepOfAny == BlueInv /\ [Next]_vars => BlueInv'
<1> SUFFICES ASSUME BlueInv, [Next]_vars PROVE BlueInv'
  OBVIOUS
<1>1. CASE Step("bluetooth", Blue!Next)
  BY <1>1, HandleReportStep, OpeningStep, ClosingStep DEF Step, Blue!Next
<1>2. CASE UNCHANGED blue
  BY <1>2 DEF BlueInv, ParsedInv, CidInv, AirInv, Blue!OwnDescriptor, blue
<1> QED
  BY <1>1, <1>2 DEF Next, Step, Elsewhere, vars

\* A report is read with the descriptor of the pad that sent it, however often
\* pads come and go and whichever end sees the break first (blue_host.c).
THEOREM DescriptorCorrect == Spec => []OwnDescriptor
<1>1. BlueInv => OwnDescriptor
  BY DEF BlueInv, OwnDescriptor
<1> QED
  BY <1>1, BlueInitial, BlueStepOfAny, PTL DEF Spec
-----------------------------------------------------------------------------
(* The PS/2 keyboard.                                                      *)

\* The keys with a place in the tables.
Coded == Ps2!Keys \ {"Shift"}

Codes == Ps2!Keys \cup {"E0", "F0"}

LineTyped ==
  /\ wire \in Seq(Codes)
  /\ repeating \in (down \cap Ps2!Keys) \cup {"none"}
  /\ release \in BOOLEAN /\ shift \in BOOLEAN

\* The code at place i of the line is the last of its key.
LastOf(i) == \A j \in DOMAIN wire : j > i => wire[j] # wire[i]

\* The code at place i will be read as one of a key that went up.
GoesUp(i) == IF i = 1 THEN release ELSE wire[i - 1] = "F0"

\* The last thing the line says of a key that is not held is that it went up.
LineInv ==
  \A i \in DOMAIN wire :
    wire[i] \in Coded /\ wire[i] \notin down /\ LastOf(i) => GoesUp(i)

\* A bit of the report was set when Shift changed, or is of a key that is held or
\* of which the line has still something to say.  No key sets bit 31.
BitInv ==
  /\ \A b \in keyboard_t \ crossed : \E k \in Coded :
       b \in Ps2!Bits(k, FALSE) /\ (k \in down \/ \E i \in DOMAIN wire : wire[i] = k)
  /\ 31 \notin keyboard_t

Ps2Inv == LineTyped /\ LineInv /\ BitInv

LEMMA Ps2Initial == Init => Ps2Inv
<1> SUFFICES ASSUME Ps2!Init PROVE Ps2Inv
  BY DEF Init
<1>1. wire \in Seq(Codes) /\ DOMAIN wire = {}
  BY DEF Ps2!Init
<1>2. LineTyped
  BY <1>1 DEF Ps2!Init, LineTyped
<1>3. LineInv
  BY <1>1 DEF LineInv
<1>4. BitInv
  BY DEF Ps2!Init, BitInv
<1> QED
  BY <1>2, <1>3, <1>4 DEF Ps2Inv

\* The keyboard says codes of keys: what it said before stays in its place.
LEMMA Appended ==
  ASSUME wire \in Seq(Codes), NEW codes \in Seq(Codes), Ps2!Sends(codes)
  PROVE  /\ wire' \in Seq(Codes)
         /\ DOMAIN wire = 1..Len(wire) /\ Len(wire) \in Nat
         /\ DOMAIN wire' = 1..(Len(wire) + Len(codes))
         /\ \A i \in 1..Len(wire) : wire'[i] = wire[i]
         /\ \A i \in 1..Len(codes) : wire'[Len(wire) + i] = codes[i]
  BY DEF Ps2!Sends

\* The line keeps its promise when only held keys, or keys that go up, say
\* something, and a key that was let go says so.
LEMMA SaysMore ==
  ASSUME Ps2Inv, NEW codes \in Seq(Codes), Ps2!Sends(codes),
         UNCHANGED <<keyboard_t, release, shift, crossed>>,
         \A i \in 1..Len(codes) : codes[i] \in Coded /\ codes[i] \notin down' =>
           i > 1 /\ codes[i - 1] = "F0",
         \A k \in Coded \cap down : k \in down' \/ \E i \in 1..Len(codes) : codes[i] = k
  PROVE  LineInv' /\ BitInv'
<1> USE DEF Ps2Inv, LineTyped
<1> DEFINE n == Len(wire)
<1>1. /\ DOMAIN wire = 1..n /\ n \in Nat
      /\ DOMAIN wire' = 1..(n + Len(codes)) /\ Len(codes) \in Nat
      /\ \A i \in 1..n : wire'[i] = wire[i]
      /\ \A i \in 1..Len(codes) : wire'[n + i] = codes[i]
  BY Appended
<1> HIDE DEF n
<1>2. ASSUME NEW i \in DOMAIN wire', wire'[i] \in Coded, wire'[i] \notin down',
             \A j \in DOMAIN wire' : j > i => wire'[j] # wire'[i]
      PROVE  IF i = 1 THEN release ELSE wire'[i - 1] = "F0"
  <2>1. CASE i \in 1..n
    <3>1. \A m \in 1..Len(codes) : codes[m] # wire[i]
      <4> SUFFICES ASSUME NEW m \in 1..Len(codes) PROVE codes[m] # wire[i]
        OBVIOUS
      <4>1. n + m \in DOMAIN wire' /\ n + m > i
        BY <1>1, <2>1
      <4> QED
        BY <1>1, <1>2, <2>1, <4>1
    <3>2. wire[i] \in Coded /\ wire[i] \notin down
      BY <1>1, <1>2, <2>1, <3>1
    <3>3. \A j \in DOMAIN wire : j > i => wire[j] # wire[i]
      BY <1>1, <1>2, <2>1
    <3>4. IF i = 1 THEN release ELSE wire[i - 1] = "F0"
      BY <1>1, <2>1, <3>2, <3>3 DEF LineInv, LastOf, GoesUp
    <3> QED
      BY <1>1, <2>1, <3>4
  <2>2. CASE i \notin 1..n
    <3>1. PICK m \in 1..Len(codes) : i = n + m
      <4>1. i - n \in 1..Len(codes) /\ i = n + (i - n)
        BY <1>1, <2>2
      <4> QED
        BY <4>1
    <3>2. codes[m] \in Coded /\ codes[m] \notin down'
      BY <1>1, <1>2, <3>1
    <3>3. m > 1 /\ codes[m - 1] = "F0"
      BY <3>2
    <3>4. m - 1 \in 1..Len(codes) /\ i - 1 = n + (m - 1) /\ i # 1
      BY <1>1, <3>1, <3>3
    <3> QED
      BY <1>1, <3>3, <3>4
  <2> QED
    BY <2>1, <2>2
<1>3. LineInv'
  BY <1>2 DEF LineInv, LastOf, GoesUp
<1>4. ASSUME NEW k \in Coded, k \in down \/ \E i \in DOMAIN wire : wire[i] = k
      PROVE  k \in down' \/ \E i \in DOMAIN wire' : wire'[i] = k
  <2>1. CASE k \in down'
    BY <2>1
  <2>2. CASE \E i \in 1..Len(codes) : codes[i] = k
    <3>1. PICK i \in 1..Len(codes) : codes[i] = k
      BY <2>2
    <3>2. n + i \in DOMAIN wire' /\ wire'[n + i] = k
      BY <1>1, <3>1
    <3> QED
      BY <3>2
  <2>3. CASE \E i \in DOMAIN wire : wire[i] = k
    <3>1. PICK i \in 1..n : wire[i] = k
      BY <1>1, <2>3
    <3>2. i \in DOMAIN wire' /\ wire'[i] = k
      BY <1>1, <3>1
    <3> QED
      BY <3>2
  <2> QED
    BY <1>4, <2>1, <2>2, <2>3
<1>5. BitInv'
  BY <1>4 DEF BitInv, Ps2!Bits
<1> QED
  BY <1>3, <1>5

\* A key goes down, is sent again or goes up.
LEMMA KeyStep ==
  ASSUME Ps2Inv, Ps2!Repeat \/ \E k \in Ps2!Keys : Ps2!Press(k) \/ Ps2!Lift(k)
  PROVE  Ps2Inv'
<1> USE DEF Ps2Inv, LineTyped
<1>1. ASSUME NEW k \in Ps2!Keys
      PROVE  /\ Append(Ps2!Prefix(k), k) \in Seq(Codes)
             /\ \A i \in 1..Len(Append(Ps2!Prefix(k), k)) : Append(Ps2!Prefix(k), k)[i] \in {"E0", k}
  <2>1. Ps2!Prefix(k) = <<"E0">> \/ Ps2!Prefix(k) = <<>>
    BY DEF Ps2!Prefix
  <2>2. {"E0", k} \subseteq Codes
    BY DEF Codes
  <2>3. CASE Ps2!Prefix(k) = <<"E0">>
    BY <2>2, <2>3
  <2>4. CASE Ps2!Prefix(k) = <<>>
    BY <2>2, <2>4
  <2> QED
    BY <2>1, <2>3, <2>4
<1>2. ASSUME NEW k \in Ps2!Keys, Ps2!Press(k) PROVE Ps2Inv'
  <2> DEFINE codes == Append(Ps2!Prefix(k), k)
  <2>1. /\ Ps2!Sends(codes) /\ down' = down \cup {k} /\ repeating' = k
        /\ UNCHANGED <<keyboard_t, release, shift, crossed>>
    BY <1>2 DEF Ps2!Press
  <2>2. codes \in Seq(Codes) /\ \A i \in 1..Len(codes) : codes[i] \in {"E0", k}
    BY <1>1
  <2> HIDE DEF codes
  <2>3. LineInv' /\ BitInv'
    BY <2>1, <2>2, SaysMore DEF Coded, Ps2!Keys
  <2>4. wire' \in Seq(Codes)
    BY <2>1, <2>2, Appended
  <2> QED
    BY <2>1, <2>3, <2>4
<1>3. CASE Ps2!Repeat
  <2> DEFINE codes == Append(Ps2!Prefix(repeating), repeating)
  <2>1. /\ Ps2!Sends(codes) /\ repeating \in down \cap Ps2!Keys
        /\ UNCHANGED <<down, repeating, keyboard_t, release, shift, crossed>>
    BY <1>3 DEF Ps2!Repeat
  <2>2. codes \in Seq(Codes) /\ \A i \in 1..Len(codes) : codes[i] \in {"E0", repeating}
    BY <1>1, <2>1
  <2> HIDE DEF codes
  <2>3. LineInv' /\ BitInv'
    BY <2>1, <2>2, SaysMore DEF Coded, Ps2!Keys
  <2>4. wire' \in Seq(Codes)
    BY <2>1, <2>2, Appended
  <2> QED
    BY <2>1, <2>3, <2>4
<1>4. ASSUME NEW k \in Ps2!Keys, Ps2!Lift(k) PROVE Ps2Inv'
  <2> DEFINE codes == Ps2!Prefix(k) \o <<"F0", k>>
  <2>1. /\ Ps2!Sends(codes) /\ down' = down \ {k}
        /\ repeating' = IF repeating = k THEN "none" ELSE repeating
        /\ UNCHANGED <<keyboard_t, release, shift, crossed>>
    BY <1>4 DEF Ps2!Lift
  <2>2. \/ Len(codes) = 3 /\ codes[1] = "E0" /\ codes[2] = "F0" /\ codes[3] = k
        \/ Len(codes) = 2 /\ codes[1] = "F0" /\ codes[2] = k
    <3>1. CASE Ps2!Prefix(k) = <<"E0">>
      BY <3>1
    <3>2. CASE Ps2!Prefix(k) = <<>>
      BY <3>2
    <3> QED
      BY <3>1, <3>2 DEF Ps2!Prefix
  <2>3. /\ codes \in Seq(Codes)
        /\ \A i \in 1..Len(codes) : codes[i] \in Coded => i > 1 /\ codes[i - 1] = "F0"
        /\ \E i \in 1..Len(codes) : codes[i] = k
    <3>1. codes \in Seq(Codes)
      <4>1. Ps2!Prefix(k) \in Seq(Codes) /\ <<"F0", k>> \in Seq(Codes)
        <5>1. {"E0", "F0", k} \subseteq Codes
          BY DEF Codes
        <5>2. <<"E0">> \in Seq(Codes) /\ <<>> \in Seq(Codes) /\ <<"F0", k>> \in Seq(Codes)
          BY <5>1
        <5> QED
          BY <5>2 DEF Ps2!Prefix
      <4> QED
        BY <4>1
    <3> HIDE DEF codes
    <3>2. \A i \in 1..Len(codes) : codes[i] \in Coded => i > 1 /\ codes[i - 1] = "F0"
      BY <2>2 DEF Coded, Ps2!Keys
    <3>3. \E i \in 1..Len(codes) : codes[i] = k
      BY <2>2
    <3> QED
      BY <3>1, <3>2, <3>3
  <2> HIDE DEF codes
  <2>4. LineInv' /\ BitInv'
    BY <2>1, <2>3, SaysMore
  <2>5. wire' \in Seq(Codes)
    BY <2>1, <2>3, Appended
  <2> QED
    BY <2>1, <2>4, <2>5
<1> QED
  BY <1>2, <1>3, <1>4

\* The code that was first is gone; what is left is one place further on.
LEMMA CodeRead ==
  ASSUME Ps2Inv, Ps2!kbd_irq
  PROVE  /\ wire # <<>> /\ wire[1] \in Codes /\ 1 \in DOMAIN wire
         /\ wire' \in Seq(Codes)
         /\ \A i \in DOMAIN wire' : i + 1 \in DOMAIN wire /\ wire'[i] = wire[i + 1]
         /\ \A i \in DOMAIN wire : i # 1 => i - 1 \in DOMAIN wire' /\ wire'[i - 1] = wire[i]
  BY DEF Ps2!kbd_irq, Ps2Inv, LineTyped

\* The handler reads a code: 0xF0 is remembered for the next one, which is of
\* the same key; a code of a key that is not held, read as one of a key that
\* goes down, is not the last of that key.
LEMMA ReadStep ==
  ASSUME Ps2Inv, Ps2!kbd_irq
  PROVE  Ps2Inv'
<1> USE DEF Ps2Inv
<1> DEFINE c == wire[1]
<1>1. /\ UNCHANGED <<down, repeating>> /\ c = Head(wire) /\ c \in Codes
      /\ LineTyped /\ repeating' \in (down' \cap Ps2!Keys) \cup {"none"}
  BY CodeRead DEF Ps2!kbd_irq, LineTyped
<1>2. /\ wire' \in Seq(Codes)
      /\ \A i \in DOMAIN wire' : i \in Nat \ {0} /\ i + 1 \in DOMAIN wire /\ wire'[i] = wire[i + 1]
      /\ \A i \in DOMAIN wire : i # 1 => i - 1 \in DOMAIN wire' /\ wire'[i - 1] = wire[i]
      /\ 1 \in DOMAIN wire /\ DOMAIN wire \subseteq Nat \ {0}
  BY CodeRead DEF LineTyped
<1> HIDE DEF c
<1>3. ASSUME c = "F0" => release' PROVE LineInv'
  <2>1. ASSUME NEW i \in DOMAIN wire', wire'[i] \in Coded, wire'[i] \notin down',
               \A j \in DOMAIN wire' : j > i => wire'[j] # wire'[i]
        PROVE  IF i = 1 THEN release' ELSE wire'[i - 1] = "F0"
    <3>1. i + 1 \in DOMAIN wire /\ wire[i + 1] = wire'[i] /\ i + 1 # 1 /\ i \in Nat \ {0}
      BY <1>2
    <3>2. \A j \in DOMAIN wire : j > i + 1 => wire[j] # wire[i + 1]
      <4> SUFFICES ASSUME NEW j \in DOMAIN wire, j > i + 1 PROVE wire[j] # wire[i + 1]
        OBVIOUS
      <4>1. j # 1 /\ j - 1 \in DOMAIN wire' /\ wire'[j - 1] = wire[j] /\ j - 1 > i
        BY <1>2, <3>1
      <4> QED
        BY <2>1, <3>1, <4>1
    <3>3. wire[i] = "F0"
      BY <1>1, <2>1, <3>1, <3>2 DEF LineInv, LastOf, GoesUp
    <3>4. CASE i = 1
      BY <1>3, <3>3, <3>4 DEF c
    <3>5. CASE i # 1
      <4>1. i \in DOMAIN wire
        BY <1>1, <3>1 DEF LineTyped
      <4> QED
        BY <1>2, <3>3, <3>5, <4>1
    <3> QED
      BY <3>4, <3>5
  <2> QED
    BY <2>1 DEF LineInv, LastOf, GoesUp
\* Only the key of the code that was read has no more to say.
<1>4. ASSUME NEW k \in Coded, k # c, k \in down \/ \E i \in DOMAIN wire : wire[i] = k
      PROVE  k \in down' \/ \E i \in DOMAIN wire' : wire'[i] = k
  <2>1. CASE k \in down
    BY <1>1, <2>1
  <2>2. ASSUME NEW i \in DOMAIN wire, wire[i] = k
        PROVE  \E j \in DOMAIN wire' : wire'[j] = k
    <3>1. i # 1
      BY <1>4, <2>2 DEF c
    <3>2. i - 1 \in DOMAIN wire' /\ wire'[i - 1] = k
      BY <1>2, <2>2, <3>1
    <3> QED
      BY <3>2
  <2> QED
    BY <1>4, <2>1, <2>2
<1>5. CASE c \in {"F0", "E0"}
  <2>1. UNCHANGED <<keyboard_t, shift, crossed>> /\ release' \in BOOLEAN /\ (c = "F0" => release')
    BY <1>1, <1>5 DEF Ps2!kbd_irq, LineTyped
  <2>2. BitInv'
    BY <1>4, <1>5, <2>1 DEF BitInv, Ps2!Bits, Coded, Ps2!Keys
  <2> QED
    BY <1>1, <1>2, <1>3, <2>1, <2>2 DEF LineTyped
<1>6. CASE c = "Shift"
  <2>1. Ps2!ShiftCode
    BY <1>1, <1>6 DEF Ps2!kbd_irq
  <2>2. release' \in BOOLEAN /\ shift' \in BOOLEAN /\ keyboard_t' = keyboard_t
    BY <1>1, <2>1 DEF Ps2!ShiftCode, LineTyped
  <2>3. BitInv'
    <3>1. CASE shift' = shift
      BY <1>4, <1>6, <2>1, <2>2, <3>1 DEF Ps2!ShiftCode, BitInv, Ps2!Bits, Coded
    <3>2. CASE shift' # shift
      <4>1. keyboard_t' \ crossed' = {}
        BY <2>1, <2>2, <3>2 DEF Ps2!ShiftCode
      <4> QED
        BY <2>2, <4>1 DEF BitInv
    <3> QED
      BY <3>1, <3>2
  <2> QED
    BY <1>1, <1>2, <1>3, <1>6, <2>2, <2>3 DEF LineTyped
<1>7. CASE c \in Coded
  <2>1. Ps2!KeyCode(c)
    BY <1>1, <1>7 DEF Ps2!kbd_irq, Coded, Ps2!Keys
  <2>2. UNCHANGED shift /\ release' \in BOOLEAN
    BY <1>1, <2>1 DEF Ps2!KeyCode, LineTyped
  <2>3. \A k \in Coded : Ps2!Bits(k, FALSE)' = Ps2!Bits(k, FALSE)
    BY <2>2 DEF Ps2!Bits
  <2>4. BitInv'
    <3>1. CASE 31 \in Ps2!Bits(c, release)
      <4>1. Ps2!Bits(c, FALSE) = {31} /\ UNCHANGED <<keyboard_t, crossed>>
        BY <2>1, <3>1 DEF Ps2!KeyCode, Ps2!Bits
      <4>2. ASSUME NEW b \in keyboard_t' \ crossed'
            PROVE  \E k \in Coded : b \in Ps2!Bits(k, FALSE)' /\
                     (k \in down' \/ \E i \in DOMAIN wire' : wire'[i] = k)
        <5>1. PICK k \in Coded :
                b \in Ps2!Bits(k, FALSE) /\ (k \in down \/ \E i \in DOMAIN wire : wire[i] = k)
          BY <4>1, <4>2 DEF BitInv
        <5>2. b # 31
          BY <4>1, <4>2 DEF BitInv
        <5> QED
          BY <1>4, <2>3, <4>1, <5>1, <5>2
      <4> QED
        BY <4>1, <4>2 DEF BitInv
    <3>2. CASE 31 \notin Ps2!Bits(c, release)
      <4>1. /\ Ps2!Bits(c, FALSE) = Ps2!Bits(c, release)
            /\ crossed' = crossed \ Ps2!Bits(c, FALSE)
        BY <2>1, <3>2 DEF Ps2!KeyCode, Ps2!Bits
      <4>2. CASE release
        <5>1. keyboard_t' = keyboard_t \ Ps2!Bits(c, FALSE)
          BY <2>1, <3>2, <4>1, <4>2 DEF Ps2!KeyCode
        <5>2. ASSUME NEW b \in keyboard_t' \ crossed'
              PROVE  \E k \in Coded : b \in Ps2!Bits(k, FALSE)' /\
                       (k \in down' \/ \E i \in DOMAIN wire' : wire'[i] = k)
          <6>1. b \in keyboard_t \ crossed /\ b \notin Ps2!Bits(c, FALSE)
            BY <4>1, <5>1, <5>2
          <6>2. PICK k \in Coded :
                  b \in Ps2!Bits(k, FALSE) /\ (k \in down \/ \E i \in DOMAIN wire : wire[i] = k)
            BY <6>1 DEF BitInv
          <6> QED
            BY <1>4, <2>3, <6>1, <6>2
        <5> QED
          BY <5>1, <5>2 DEF BitInv
      <4>3. CASE ~release
        <5>1. keyboard_t' = keyboard_t \cup Ps2!Bits(c, FALSE)
          BY <2>1, <3>2, <4>1, <4>3 DEF Ps2!KeyCode
        <5>2. c \in down' \/ \E i \in DOMAIN wire' : wire'[i] = c
          <6> SUFFICES ASSUME c \notin down PROVE \E i \in DOMAIN wire' : wire'[i] = c
            BY <1>1
          <6>1. PICK j \in DOMAIN wire : j > 1 /\ wire[j] = c
            BY <1>2, <1>7, <4>3 DEF LineInv, LastOf, GoesUp, c
          <6>2. j - 1 \in DOMAIN wire' /\ wire'[j - 1] = c
            BY <1>2, <6>1
          <6> QED
            BY <6>2
        <5>3. ASSUME NEW b \in keyboard_t' \ crossed'
              PROVE  \E k \in Coded : b \in Ps2!Bits(k, FALSE)' /\
                       (k \in down' \/ \E i \in DOMAIN wire' : wire'[i] = k)
          <6>1. CASE b \in Ps2!Bits(c, FALSE)
            BY <1>7, <2>3, <5>2, <6>1
          <6>2. CASE b \notin Ps2!Bits(c, FALSE)
            <7>1. b \in keyboard_t \ crossed
              BY <4>1, <5>1, <5>3, <6>2
            <7>2. PICK k \in Coded :
                    b \in Ps2!Bits(k, FALSE) /\ (k \in down \/ \E i \in DOMAIN wire : wire[i] = k)
              BY <7>1 DEF BitInv
            <7> QED
              BY <1>4, <2>3, <6>2, <7>2
          <6> QED
            BY <6>1, <6>2
        <5>4. 31 \notin keyboard_t'
          BY <3>2, <4>1, <5>1 DEF BitInv
        <5> QED
          BY <5>3, <5>4 DEF BitInv
      <4> QED
        BY <4>2, <4>3
    <3> QED
      BY <3>1, <3>2
  <2> QED
    BY <1>1, <1>2, <1>3, <1>7, <2>2, <2>4 DEF LineTyped, Coded, Ps2!Keys
<1> QED
  BY <1>1, <1>5, <1>6, <1>7 DEF Codes, Coded

LEMMA Ps2StepOfAny == Ps2Inv /\ [Next]_vars => Ps2Inv'
<1> SUFFICES ASSUME Ps2Inv, [Next]_vars PROVE Ps2Inv'
  OBVIOUS
<1>1. CASE Step("keyboard", Ps2!Next)
  BY <1>1, KeyStep, ReadStep DEF Step, Ps2!Next
<1>2. CASE UNCHANGED ps2
  BY <1>2 DEF Ps2Inv, LineTyped, LineInv, LastOf, GoesUp, BitInv, Ps2!Bits, ps2
<1> QED
  BY <1>1, <1>2 DEF Next, Step, Elsewhere, vars

\* However codes pile up on a line of any length, and whatever is read beyond
\* the tables, a bit that is left when all have been read is of a key that is
\* held (kbd_irq); bits that were set when Shift changed are left out.
THEOREM StuckCorrect == Spec => []NothingStuck
<1>1. Ps2Inv => NothingStuck
  <2> SUFFICES ASSUME Ps2Inv, wire = <<>>, NEW b \in keyboard_t \ crossed
               PROVE  \E k \in down \ {"Shift"} : b \in Ps2!Bits(k, FALSE)
    BY DEF NothingStuck, Ps2!NothingStuck
  <2>1. DOMAIN wire = {}
    OBVIOUS
  <2>2. PICK k \in Coded : b \in Ps2!Bits(k, FALSE) /\ k \in down
    BY <2>1 DEF Ps2Inv, BitInv
  <2> QED
    BY <2>2 DEF Coded
<1> QED
  BY <1>1, Ps2Initial, Ps2StepOfAny, PTL DEF Spec
-----------------------------------------------------------------------------
(* The GameCube.                                                           *)
(*                                                                         *)
(* Either core 1 is in step with the console, or a cut is still to be paid *)
(* for.  A poll that fails brings core 1 back in step: on its three bytes  *)
(* core 1 restarts the program, wherever it was, and what is left of the   *)
(* poll after that does not look like one (PollEnds).                      *)

Suffixes ==
  {<<>>, <<0>>, <<65>>, <<64, 3, 0>>, <<3, 0>>, <<66, 3, 64>>, <<3, 64>>, <<64>>}

GcTyped ==
  /\ core1 \in {"first", "second", "third", "deaf"}
  /\ part \in {"in", "off", "id", "origin", "state"}
  /\ core1 = "deaf" <=> part = "off"
  /\ fifo = <<>> \/ \E b \in {0, 3, 64, 65, 66} : fifo = <<b>>
  /\ fifo # <<>> => part = "in"
  /\ line \in Suffixes
  /\ awaiting \in {"none", "id", "origin", "state"}
  /\ missed \in Nat /\ cuts \in Nat

\* The bytes q are what is still to come to core 1.
ToCome(q) ==
  \/ fifo = <<>> /\ line = q
  \/ q # <<>> /\ fifo = <<Head(q)>> /\ line = Tail(q)

\* Core 1 is where the console is, and will answer what it waits for.
InStep ==
  \/ core1 = "deaf" /\ awaiting = "none"
  \/ /\ ~stray /\ core1 = "first" /\ fifo = <<>> /\ line = <<>>
     /\ awaiting = "none" \/ awaiting = part
  \/ /\ ~stray /\ core1 = "first" /\ part = "in"
     /\ \E c \in Gc!Commands : ToCome(c) /\ awaiting = Gc!AnswerTo(c[1])
  \/ ~stray /\ core1 = "second" /\ part = "in" /\ ToCome(<<3, 0>>) /\ awaiting = "state"
  \/ ~stray /\ core1 = "third" /\ part = "in" /\ ToCome(<<0>>) /\ awaiting = "state"

\* Bytes are left for core 1 to come to a restart.
Before ==
  /\ part = "in"
  /\ \/ core1 = "first" /\ ((fifo # <<>> /\ Len(line) = 2) \/ Len(line) = 3)
     \/ core1 = "second" /\ ((fifo # <<>> /\ Len(line) >= 1) \/ Len(line) >= 2)
     \/ core1 = "third" /\ (fifo # <<>> \/ Len(line) >= 1)

\* It has been there.
After ==
  \/ core1 = "deaf"
  \/ /\ core1 = "first" /\ ~stray
     /\ line \in {<<3, 0>>, <<0>>, <<>>} /\ fifo \in {<<>>, <<3>>, <<0>>}

PollEnds ==
  awaiting = "state" =>
    /\ line \in {<<64, 3, 0>>, <<3, 0>>, <<0>>, <<>>}
    /\ line = <<64, 3, 0>> => fifo = <<>>
    /\ Before \/ After

GcInv ==
  /\ GcTyped
  /\ PollEnds
  /\ missed <= cuts
  /\ ~InStep => missed < cuts

\* What the model does with the bytes of a command.
LEMMA Bytes ==
  /\ Head(<<0>>) = 0 /\ Tail(<<0>>) = <<>> /\ Head(<<65>>) = 65 /\ Tail(<<65>>) = <<>>
  /\ Head(<<64>>) = 64 /\ Tail(<<64>>) = <<>> /\ Head(<<3>>) = 3 /\ Tail(<<3>>) = <<>>
  /\ Head(<<66>>) = 66 /\ Tail(<<66>>) = <<>>
  /\ Head(<<3, 0>>) = 3 /\ Tail(<<3, 0>>) = <<0>>
  /\ Head(<<3, 64>>) = 3 /\ Tail(<<3, 64>>) = <<64>>
  /\ Head(<<64, 3, 0>>) = 64 /\ Tail(<<64, 3, 0>>) = <<3, 0>>
  /\ Head(<<66, 3, 64>>) = 66 /\ Tail(<<66, 3, 64>>) = <<3, 64>>
  OBVIOUS

LEMMA Lengths ==
  /\ Len(<<>>) = 0 /\ Len(<<0>>) = 1 /\ Len(<<65>>) = 1 /\ Len(<<64>>) = 1
  /\ Len(<<3, 0>>) = 2 /\ Len(<<3, 64>>) = 2
  /\ Len(<<64, 3, 0>>) = 3 /\ Len(<<66, 3, 64>>) = 3
  OBVIOUS
\* An action that breaks off no command and gives up no answer.
Kept == GcTyped' /\ PollEnds' /\ UNCHANGED <<missed, cuts>> /\ (InStep => InStep')

LEMMA KeptSuffices == ASSUME GcInv, Kept PROVE GcInv'
  BY DEF GcInv, Kept, GcTyped

LEMMA CommandKeeps == ASSUME GcInv, NEW c \in Gc!Commands, Gc!Command(c) PROVE Kept
<1> USE Bytes, Lengths DEF Gc!Command, Gc!Commands, Gc!AnswerTo, GcInv
<1>1. GcTyped'
  BY DEF GcTyped, Suffixes
<1>2. PollEnds'
  BY DEF GcTyped, PollEnds, Before
<1>3. InStep => InStep'
  BY DEF GcTyped, InStep, ToCome
<1> QED
  BY <1>1, <1>2, <1>3 DEF Kept

LEMMA SendByteKeeps == ASSUME GcInv, Gc!SendByte PROVE Kept
<1> USE Bytes, Lengths DEF GcInv
<1>1. /\ line # <<>> /\ fifo = <<>> /\ line' = Tail(line)
      /\ UNCHANGED <<core1, part, stray, awaiting, missed, cuts>>
  BY DEF Gc!SendByte
<1>2. line' \in Suffixes
  BY <1>1 DEF GcTyped, Suffixes
<1>3. CASE part # "in"
  <2>1. fifo' = <<>>
    BY <1>1, <1>3 DEF Gc!SendByte
  <2>2. GcTyped'
    BY <1>1, <1>2, <1>3, <2>1 DEF GcTyped
  <2>3. PollEnds'
    BY <1>1, <1>3, <2>1 DEF PollEnds, Before, After
  <2>4. InStep => InStep'
    BY <1>1, <1>3, <2>1 DEF InStep
  <2> QED
    BY <1>1, <2>2, <2>3, <2>4 DEF Kept
<1>4. CASE part = "in"
  <2>1. PICK b \in Gc!Received(Head(line)) : fifo' = <<b>>
    BY <1>4 DEF Gc!SendByte
  <2>2. b \in {0, 3, 64, 65, 66} /\ (~stray => b = Head(line))
    BY <1>1, <2>1 DEF Gc!Received, GcTyped, Suffixes
  <2>3. GcTyped'
    BY <1>1, <1>2, <1>4, <2>1, <2>2 DEF GcTyped
  <2>4. PollEnds'
    <3>0. <<64, 3, 0>> \notin {<<3, 0>>, <<0>>, <<>>}
      OBVIOUS
    <3> SUFFICES ASSUME awaiting = "state"
                 PROVE  /\ line' \in {<<3, 0>>, <<0>>, <<>>}
                        /\ Before' \/ After'
      BY <1>1, <3>0 DEF PollEnds
    <3>1. line \in {<<64, 3, 0>>, <<3, 0>>, <<0>>}
      BY <1>1 DEF PollEnds
    <3>2. line' \in {<<3, 0>>, <<0>>, <<>>}
      BY <1>1, <3>1
    <3>3. CASE Before
      <4>1. Before'
        BY <1>1, <1>4, <2>1, <3>1, <3>3 DEF Before
      <4> QED
        BY <3>2, <4>1
    <3>4. CASE After
      <4>1. core1 = "first" /\ ~stray /\ line \in {<<3, 0>>, <<0>>}
        BY <1>1, <1>4, <3>1, <3>4 DEF After, GcTyped
      <4>2. After'
        BY <1>1, <2>1, <2>2, <4>1 DEF After
      <4> QED
        BY <3>2, <4>2
    <3> QED
      BY <3>3, <3>4 DEF PollEnds
  <2>5. InStep => InStep'
    BY <1>1, <1>4, <2>1, <2>2 DEF InStep, ToCome, GcTyped, Gc!Commands
  <2> QED
    BY <1>1, <2>3, <2>4, <2>5 DEF Kept
<1> QED
  BY <1>3, <1>4

LEMMA TakeFirstKeeps == ASSUME GcInv, Gc!TakeFirst PROVE Kept
<1> USE Bytes, Lengths DEF GcInv
<1>1. PICK b \in {0, 3, 64, 65, 66} : fifo = <<b>>
  BY DEF Gc!TakeFirst, GcTyped
<1>2. Head(fifo) = b /\ Tail(fifo) = <<>>
  BY <1>1
<1>3. /\ core1 = "first" /\ part = "in" /\ fifo # <<>>
      /\ UNCHANGED <<line, awaiting, missed, cuts>>
  BY <1>1, <1>2 DEF Gc!TakeFirst, GcTyped
<1>4. CASE b \in {0, 65}
  <2>1. core1' = "first" /\ fifo' = <<>> /\ ~stray' /\ part' = Gc!AnswerTo(b)
    BY <1>2, <1>3, <1>4 DEF Gc!TakeFirst, Gc!Restart
  <2>2. part' \in {"id", "origin"}
    BY <1>4, <2>1 DEF Gc!AnswerTo
  <2>3. GcTyped'
    BY <1>3, <2>1, <2>2 DEF GcTyped
  <2>4. PollEnds'
    BY <1>1, <1>3, <1>4, <2>1 DEF PollEnds, Before, After, GcTyped, Suffixes
  <2>5. InStep => line = <<>> /\ awaiting = Gc!AnswerTo(b)
    BY <1>1, <1>3, <1>4 DEF InStep, ToCome, Gc!Commands
  <2>6. InStep => InStep'
    BY <1>3, <2>1, <2>5 DEF InStep
  <2> QED
    BY <1>3, <2>3, <2>4, <2>6 DEF Kept
<1>5. CASE b = 64
  <2>1. core1' = "second" /\ fifo' = <<>> /\ UNCHANGED <<part, stray>>
    BY <1>2, <1>5 DEF Gc!TakeFirst
  <2>2. GcTyped'
    BY <1>3, <2>1 DEF GcTyped
  <2>3. PollEnds'
    BY <1>1, <1>3, <1>5, <2>1 DEF PollEnds, Before, After, GcTyped, Suffixes
  <2>4. InStep => line = <<3, 0>> /\ awaiting = "state" /\ ~stray
    BY <1>1, <1>3, <1>5 DEF InStep, ToCome, Gc!Commands, Gc!AnswerTo
  <2>5. InStep => InStep'
    BY <1>3, <2>1, <2>4 DEF InStep, ToCome
  <2> QED
    BY <1>3, <2>2, <2>3, <2>5 DEF Kept
<1>6. CASE b \notin {0, 64, 65}
  <2>1. core1' = "deaf" /\ part' = "off" /\ fifo' = <<>>
    BY <1>2, <1>6 DEF Gc!TakeFirst
  <2>2. GcTyped'
    BY <1>3, <2>1 DEF GcTyped
  <2>3. PollEnds'
    BY <1>1, <1>3, <2>1 DEF PollEnds, After
  <2>4. InStep => awaiting = "none"
    BY <1>1, <1>3, <1>6 DEF InStep, ToCome, Gc!Commands, Gc!AnswerTo
  <2>5. InStep => InStep'
    BY <1>3, <2>1, <2>4 DEF InStep
  <2> QED
    BY <1>3, <2>2, <2>3, <2>5 DEF Kept
<1> QED
  BY <1>4, <1>5, <1>6

LEMMA TakeSecondKeeps == ASSUME GcInv, Gc!TakeSecond PROVE Kept
<1> USE Bytes, Lengths DEF Gc!TakeSecond, GcInv
<1>1. GcTyped'
  BY DEF GcTyped, Suffixes
<1>2. PollEnds'
  BY DEF GcTyped, Suffixes, PollEnds, Before, After
<1>3. InStep => InStep'
  BY DEF GcTyped, Suffixes, InStep, ToCome, Gc!Commands, Gc!AnswerTo
<1> QED
  BY <1>1, <1>2, <1>3 DEF Kept

LEMMA TakeThirdKeeps == ASSUME GcInv, Gc!TakeThird PROVE Kept
<1> USE Bytes, Lengths DEF Gc!TakeThird, Gc!Restart, GcInv
<1>1. GcTyped'
  BY DEF GcTyped, Suffixes
<1>2. PollEnds'
  BY DEF GcTyped, Suffixes, PollEnds, Before, After
<1>3. InStep => InStep'
  BY DEF GcTyped, Suffixes, InStep, ToCome, Gc!Commands, Gc!AnswerTo
<1> QED
  BY <1>1, <1>2, <1>3 DEF Kept

LEMMA ListenAgainKeeps == ASSUME GcInv, Gc!ListenAgain PROVE Kept
<1> USE Bytes, Lengths DEF Gc!ListenAgain, Gc!Rested, Gc!Restart, GcInv
<1>1. GcTyped'
  BY DEF GcTyped, Suffixes
<1>2. PollEnds'
  BY DEF GcTyped, Suffixes, PollEnds, Before, After
<1>3. InStep => InStep'
  BY DEF GcTyped, Suffixes, InStep, ToCome, Gc!Commands, Gc!AnswerTo
<1> QED
  BY <1>1, <1>2, <1>3 DEF Kept

LEMMA OutputDoneKeeps == ASSUME GcInv, Gc!OutputDone PROVE Kept
<1> USE Bytes, Lengths DEF Gc!OutputDone, GcInv
<1>1. GcTyped'
  BY DEF GcTyped, Suffixes
<1>2. PollEnds'
  BY DEF GcTyped, Suffixes, PollEnds, Before, After
<1>3. InStep => InStep'
  BY DEF GcTyped, Suffixes, InStep, ToCome, Gc!Commands, Gc!AnswerTo
<1> QED
  BY <1>1, <1>2, <1>3 DEF Kept

LEMMA CutPaid == ASSUME GcInv, Gc!Cut PROVE GcInv'
<1> USE DEF Gc!Cut, GcInv
<1>1. GcTyped'
  BY DEF GcTyped, Suffixes
<1>2. PollEnds'
  BY DEF PollEnds
<1>3. missed' < cuts'
  BY DEF GcTyped
<1> QED
  BY <1>1, <1>2, <1>3 DEF GcTyped

LEMMA GiveUpPaid == ASSUME GcInv, Gc!GiveUp PROVE GcInv'
<1> USE Lengths DEF Gc!GiveUp, GcInv
<1>1. GcTyped'
  BY DEF GcTyped
<1>2. PollEnds'
  BY DEF PollEnds
<1>3. ~InStep
  BY DEF InStep, ToCome, GcTyped, Gc!Commands
<1>4. CASE awaiting = "state"
  <2>1. core1 = "first" /\ ~stray
    BY <1>4 DEF PollEnds, Before, After, GcTyped
  <2>2. InStep'
    BY <2>1 DEF InStep
  <2> QED
    BY <1>1, <1>2, <1>3, <1>4, <2>2 DEF GcTyped
<1>5. CASE awaiting # "state"
  BY <1>1, <1>2, <1>3, <1>5 DEF GcTyped
<1> QED
  BY <1>4, <1>5

LEMMA GcInitial == Init => GcInv
<1> SUFFICES ASSUME Gc!Init PROVE GcInv
  BY DEF Init
<1> QED
  BY DEF Gc!Init, GcInv, GcTyped, Suffixes, PollEnds, InStep

LEMMA GcStep == GcInv /\ Gc!Next => GcInv'
  BY KeptSuffices, CommandKeeps, SendByteKeeps, CutPaid, TakeFirstKeeps, TakeSecondKeeps,
     TakeThirdKeeps, ListenAgainKeeps, OutputDoneKeeps, GiveUpPaid DEF Gc!Next

\* A step of another link leaves the GameCube alone.
LEMMA GcStepOfAny == GcInv /\ [Next]_vars => GcInv'
<1> SUFFICES ASSUME GcInv, [Next]_vars PROVE GcInv'
  OBVIOUS
<1>1. CASE Step("gamecube", Gc!Next)
  BY <1>1, GcStep DEF Step
<1>2. CASE UNCHANGED gc
  BY <1>2 DEF GcInv, GcTyped, PollEnds, Before, After, InStep, ToCome, gc
<1> QED
  BY <1>1, <1>2 DEF Next, Step, Elsewhere, vars

\* Each command a console breaks off costs one poll at most (gc_device_main).
THEOREM CutsCorrect == Spec => []CutsCostOnePoll
<1>1. GcInv => CutsCostOnePoll
  BY DEF GcInv, CutsCostOnePoll, Gc!CutsCostOnePoll
<1> QED
  BY <1>1, GcInitial, GcStepOfAny, PTL DEF Spec
-----------------------------------------------------------------------------
(* What the liveness of the Bluetooth link rests on.                       *)

\* An end that has seen the link open, and not yet break, serves it.
ServedInv ==
  /\ link \in {"opening", "up"} =>
       /\ "host" \in told => hid_host_cid = peer
       /\ "pad" \in told /\ peer = "converter" => connected /\ asked
  /\ link = "up" => {"host", "pad"} \subseteq told

\* On a link that is up neither end waits for the other: the host takes the
\* reports of the pad, and a converter has asked for its next turn to send.
Served ==
  link = "up" => /\ hid_host_cid = peer
                 /\ "pad" \in told
                 /\ peer = "converter" => connected /\ asked

LEMMA ServedStep == ServedInv /\ Blue!Next => ServedInv'
<1> SUFFICES ASSUME ServedInv, Blue!Next PROVE ServedInv'
  OBVIOUS
<1> USE DEF ServedInv, Blue!host, Blue!device
<1>1. ASSUME NEW p \in Blue!Pads, Blue!Connect(p) PROVE ServedInv'
  BY <1>1 DEF Blue!Connect
<1>2. CASE Blue!OpenFailed
  BY <1>2 DEF Blue!OpenFailed
<1>3. CASE Blue!HostOpened
  BY <1>3 DEF Blue!HostOpened, Blue!Up
<1>4. CASE Blue!PadOpened
  BY <1>4 DEF Blue!PadOpened, Blue!Up
<1>5. CASE Blue!DescriptorAvailable
  BY <1>5 DEF Blue!DescriptorAvailable
<1>6. CASE Blue!CanSendNow
  BY <1>6 DEF Blue!CanSendNow, Blue!send_report
<1>7. CASE Blue!HandleReport
  BY <1>7 DEF Blue!HandleReport
<1>8. CASE Blue!Lose
  BY <1>8 DEF Blue!Lose
<1>9. CASE Blue!HostClosed
  BY <1>9 DEF Blue!HostClosed, Blue!Down
<1>10. CASE Blue!PadClosed
  BY <1>10 DEF Blue!PadClosed, Blue!Down
<1> QED
  BY <1>1, <1>2, <1>3, <1>4, <1>5, <1>6, <1>7, <1>8, <1>9, <1>10 DEF Blue!Next

LEMMA ServedStepOfAny == ServedInv /\ [Next]_vars => ServedInv'
<1> SUFFICES ASSUME ServedInv, [Next]_vars PROVE ServedInv'
  OBVIOUS
<1>1. CASE Step("bluetooth", Blue!Next)
  BY <1>1, ServedStep DEF Step
<1>2. CASE UNCHANGED blue
  BY <1>2 DEF ServedInv, blue
<1> QED
  BY <1>1, <1>2 DEF Next, Step, Elsewhere, vars

\* Whichever end saw the link open or break first, each is ready once it is up
\* (blue_hid.c, blue_host.c).  With the fairness of the two stacks this is why
\* reports flow (Flows).
THEOREM ServedCorrect == Spec => []Served
<1>1. Init => ServedInv
  BY DEF Init, Blue!Init, ServedInv
<1>2. ServedInv => Served
  BY DEF ServedInv, Served
<1> QED
  BY <1>1, <1>2, ServedStepOfAny, PTL DEF Spec
-----------------------------------------------------------------------------
(* What the liveness of the USB gamepad rests on.                          *)

\* How far the newest state of the gamepad is from the computer: before the
\* report of the gamepad, before its conversion, behind an older report in the
\* endpoint, in or before the endpoint, or there.
Lag ==
  IF reported # holds THEN 4
  ELSE IF device_report # holds THEN 3
  ELSE IF endpoint \notin {holds, "empty"} THEN 2
  ELSE IF computer # holds THEN 1
  ELSE 0

\* While the user holds the same, what the computer knows gets no older.
NeverOlder == [][holds' = holds => Lag' <= Lag]_vars

LEMMA UsbLag == Usb!Next /\ holds' = holds => Lag' <= Lag
<1> SUFFICES ASSUME Usb!Next, holds' = holds PROVE Lag' <= Lag
  OBVIOUS
<1> USE DEF Lag
<1>1. CASE Usb!User
  BY <1>1 DEF Usb!User
<1>2. CASE Usb!Millisecond \/ Usb!Resume \/ Usb!Suspend
  BY <1>2 DEF Usb!Millisecond, Usb!Resume, Usb!Suspend
<1>3. CASE Usb!Report
  BY <1>3 DEF Usb!Report, Usb!Converted
<1>4. CASE Usb!Offer
  BY <1>4 DEF Usb!Offer, Usb!Offered
<1>5. CASE Usb!Fetch
  BY <1>5 DEF Usb!Fetch
<1> QED
  BY <1>1, <1>2, <1>3, <1>4, <1>5 DEF Usb!Next

\* Nothing on the way to the computer brings an older report back, a dropped
\* one, a busy endpoint and a sleeping bus included (sendReportData).  With the
\* fairness of the gamepad and the computer, which shorten the lag in turn,
\* this is why the computer catches up (ComputerCatchesUp).
THEOREM OlderCorrect == Spec => NeverOlder
<1>1. [Next]_vars => [holds' = holds => Lag' <= Lag]_vars
  <2> SUFFICES ASSUME [Next]_vars, holds' = holds PROVE Lag' <= Lag
    OBVIOUS
  <2>1. CASE Step("usb", Usb!Next)
    BY <2>1, UsbLag DEF Step
  <2>2. CASE UNCHANGED usb
    BY <2>2 DEF Lag, usb
  <2> QED
    BY <2>1, <2>2 DEF Next, Step, Elsewhere, vars
<1> QED
  BY <1>1, PTL DEF Spec, NeverOlder
-----------------------------------------------------------------------------
(* What the liveness of the Nintendo 64 pad rests on.                      *)

PadBytes == {"id1", "id2", "id3", "buttons1", "buttons2", "x", "y"}

Stored == PadBytes \cup {"none", "stale"}

\* Byte k of the answer of the pad to the request at hand, and the number of
\* bytes the core takes of it.
Byte(k) == Joybus!Answer[command][k]
Wanted == Joybus!Expected[command]

\* All is quiet between the requests.
Rest == tx = <<>> /\ rx = <<>> /\ pio = 0

\* The core, the program and the pad count the bytes apart and agree: what is
\* taken, what is in the FIFO and what is still awaited make up the answer, in
\* its order, and the pad has yet to send all that is awaited.
Underway ==
  /\ tx = <<>>
  /\ pio \in 0..4 /\ count + Len(rx) + pio = Wanted
  /\ \A k \in 1..Len(rx) : rx[k] = Byte(count + k)
  /\ pio > 0 => /\ Len(sending) = Len(Joybus!Answer[command]) - count - Len(rx)
                /\ \A k \in 1..Len(sending) : sending[k] = Byte(count + Len(rx) + k)
  /\ pio = 0 /\ command = 1 => sending = <<>>

InTurn ==
  /\ core \in {"send", "receive", "settle", "report"}
  /\ command \in {0, 1}
  /\ response \in [1..4 -> Stored]
  /\ rx \in Seq(PadBytes) /\ sending \in Seq(PadBytes)
  /\ core = "send" => Rest /\ sending = <<>>
  /\ core = "receive" =>
       /\ count \in 0..(Wanted - 1)
       /\ \A k \in 1..count : response[k] = Byte(k)
       /\ \/ tx = <<command>> /\ rx = <<>> /\ pio = 0 /\ sending = <<>> /\ count = 0
          \/ Underway
  /\ core = "settle" => command = 0 /\ Rest
  /\ core = "report" => /\ command = 1 /\ Rest /\ sending = <<>>
                        /\ \A k \in 1..4 : response[k] = Byte(k)

LEMMA Answers ==
  /\ Joybus!Expected[0] = 1 /\ Joybus!Expected[1] = 4
  /\ Len(Joybus!Answer[0]) = 3 /\ Len(Joybus!Answer[1]) = 4
  /\ Joybus!Answer[0] \in Seq(PadBytes) /\ Joybus!Answer[1] \in Seq(PadBytes)
<1>1. Joybus!Expected[0] = 1 /\ Joybus!Expected[1] = 4
  BY DEF Joybus!Expected
<1>2. /\ Joybus!Answer[0] = <<"id1", "id2", "id3">>
      /\ Joybus!Answer[1] = <<"buttons1", "buttons2", "x", "y">>
  BY DEF Joybus!Answer
<1> QED
  BY <1>1, <1>2 DEF PadBytes

LEMMA JoyInitial == Init => InTurn
<1>1. <<>> \in Seq(PadBytes)
  OBVIOUS
<1>2. <<"none", "none", "none", "none">> \in [1..4 -> Stored]
  BY DEF Stored
<1> QED
  BY <1>1, <1>2 DEF Init, Joybus!Init, InTurn, Rest

\* The line and the program.
LEMMA LineStep ==
  ASSUME InTurn, plugged, Joybus!SendData \/ Joybus!ReceiveByte
  PROVE  InTurn'
<1> USE DEF InTurn
<1>1. CASE Joybus!SendData
  <2>1. /\ core = "receive" /\ tx = <<command>> /\ rx = <<>> /\ sending = <<>> /\ count = 0
        /\ UNCHANGED <<core, command, count, response, rx>>
    BY <1>1 DEF Joybus!SendData, Rest, Underway
  <2>2. Head(tx) = command /\ Tail(tx) = <<>>
    BY <2>1
  <2>3. pio' = Wanted /\ tx' = <<>> /\ sending' = Joybus!Answer[command]
    BY <1>1, <2>1, <2>2 DEF Joybus!SendData, Wanted
  <2>4. Len(rx) = 0 /\ sending' \in Seq(PadBytes) /\ pio' \in {1, 4}
    BY <2>1, <2>3, Answers DEF Wanted
  <2>5. Underway'
    BY <2>1, <2>3, <2>4, Answers DEF Underway, Wanted, Byte
  <2> QED
    BY <2>1, <2>4, <2>5 DEF Byte, Wanted
<1>2. CASE Joybus!ReceiveByte
  <2>1. /\ core \in {"receive", "settle"} /\ sending # <<>> /\ sending' = Tail(sending)
        /\ UNCHANGED <<core, command, count, response, tx>>
    BY <1>2 DEF Joybus!ReceiveByte
  <2>2. /\ sending' \in Seq(PadBytes) /\ Len(sending) \in Nat \ {0}
        /\ Len(sending') = Len(sending) - 1
        /\ Head(sending) = sending[1] /\ Head(sending) \in PadBytes
        /\ \A k \in 1..Len(sending') : sending'[k] = sending[k + 1]
    BY <2>1, HeadTailProperties, EmptySeq
  <2>3. CASE core = "settle"
    BY <1>2, <2>1, <2>2, <2>3 DEF Joybus!ReceiveByte, Rest
  <2>4. CASE core = "receive" /\ pio = 0
    <3>1. UNCHANGED <<pio, rx>> /\ Underway
      BY <1>2, <2>1, <2>4 DEF Joybus!ReceiveByte
    <3>2. Underway'
      BY <2>1, <2>4, <3>1 DEF Underway, Byte, Wanted
    <3> QED
      BY <2>1, <2>2, <2>4, <3>1, <3>2 DEF Byte, Wanted
  <2>5. CASE core = "receive" /\ pio # 0
    <3>1. pio' = pio - 1 /\ rx' = Append(rx, Head(sending)) /\ Underway
      BY <1>2, <2>5 DEF Joybus!ReceiveByte
    <3>2. /\ rx' \in Seq(PadBytes) /\ Len(rx) \in Nat /\ Len(rx') = Len(rx) + 1
          /\ \A k \in 1..Len(rx) : rx'[k] = rx[k]
          /\ rx'[Len(rx) + 1] = Head(sending)
      BY <2>2, <3>1, AppendProperties
    <3>3. /\ pio \in 1..4 /\ count \in 0..(Wanted - 1) /\ Wanted \in {1, 4}
          /\ command = 0 => Wanted = 1
          /\ command = 1 => Wanted = 4 /\ Len(Joybus!Answer[command]) = 4
          /\ Len(Joybus!Answer[command]) \in {3, 4}
      BY <2>1, <2>5, <3>1, Answers DEF Underway, Wanted
    <3>4. Head(sending) = Byte(count + Len(rx) + 1)
      BY <2>2, <3>1, <3>3 DEF Underway
    <3>5. \A k \in 1..Len(rx') : rx'[k] = Byte(count + k)
      <4> SUFFICES ASSUME NEW k \in 1..Len(rx') PROVE rx'[k] = Byte(count + k)
        OBVIOUS
      <4>1. CASE k <= Len(rx)
        BY <3>1, <3>2, <4>1 DEF Underway
      <4>2. CASE k = Len(rx) + 1
        <5>1. count + k = count + Len(rx) + 1
          BY <3>2, <3>3, <4>2
        <5> QED
          BY <3>2, <3>4, <4>2, <5>1
      <4> QED
        BY <3>2, <4>1, <4>2
    <3>6. \A k \in 1..Len(sending') : sending'[k] = Byte(count + Len(rx') + k)
      <4> SUFFICES ASSUME NEW k \in 1..Len(sending')
                   PROVE  sending'[k] = Byte(count + Len(rx') + k)
        OBVIOUS
      <4>1. k + 1 \in 1..Len(sending) /\ count + Len(rx) + (k + 1) = count + Len(rx') + k
        BY <2>2, <3>2, <3>3
      <4>2. sending[k + 1] = Byte(count + Len(rx) + (k + 1))
        BY <3>1, <3>3, <4>1 DEF Underway
      <4> QED
        BY <2>2, <4>1, <4>2
    <3>7. Len(sending') = Len(Joybus!Answer[command]) - count - Len(rx')
      BY <2>2, <3>1, <3>2, <3>3 DEF Underway
    <3>8. pio' = 0 /\ command = 1 => Len(sending') = 0
      <4> SUFFICES ASSUME pio' = 0, command = 1 PROVE Len(sending') = 0
        OBVIOUS
      <4>1. count + Len(rx) + pio = 4 /\ pio = 1
        BY <3>1, <3>3 DEF Underway
      <4>2. Len(rx') = 4 - count
        BY <3>2, <3>3, <4>1
      <4> QED
        BY <3>3, <3>7, <4>2
    <3>9. Underway'
      <4>1. pio' \in 0..4 /\ count + Len(rx') + pio' = Wanted
        BY <3>1, <3>2, <3>3 DEF Underway
      <4>2. Wanted' = Wanted /\ \A k : Byte(k)' = Byte(k)
        BY <2>1 DEF Wanted, Byte
      <4>3. pio' = 0 /\ command = 1 => sending' = <<>>
        BY <2>2, <3>8, EmptySeq
      <4> QED
        BY <2>1, <3>1, <3>5, <3>6, <3>7, <4>1, <4>2, <4>3 DEF Underway
    <3> QED
      BY <2>1, <2>2, <2>5, <3>2, <3>9 DEF Byte, Wanted
  <2> QED
    BY <2>1, <2>3, <2>4, <2>5
<1> QED
  BY <1>1, <1>2

\* The core takes the next byte.
LEMMA TakeStep == ASSUME InTurn, Joybus!Take PROVE InTurn'
<1> USE DEF InTurn
<1>1. /\ core = "receive" /\ rx # <<>> /\ rx' = Tail(rx) /\ Underway
      /\ UNCHANGED <<command, tx, pio, sending>>
      /\ response' = [response EXCEPT ![count + 1] = Head(rx)] /\ count' = count + 1
      /\ core' = IF count' < Wanted THEN "receive" ELSE IF command = 0 THEN "settle" ELSE "report"
  BY DEF Joybus!Take, Joybus!Store, Wanted
<1>2. /\ rx' \in Seq(PadBytes) /\ Len(rx) \in Nat \ {0} /\ Len(rx') = Len(rx) - 1
      /\ Head(rx) = rx[1] /\ Head(rx) \in PadBytes
      /\ \A k \in 1..Len(rx') : rx'[k] = rx[k + 1]
  BY <1>1, HeadTailProperties, EmptySeq
<1>3. /\ pio \in 0..4 /\ count \in 0..(Wanted - 1) /\ Wanted \in {1, 4}
      /\ count + Len(rx) + pio = Wanted
      /\ Len(Joybus!Answer[command]) \in Nat
      /\ command = 0 => Wanted = 1
      /\ command = 1 => Wanted = 4
  BY <1>1, Answers DEF Underway, Wanted
<1>4. Head(rx) = Byte(count + 1)
  BY <1>1, <1>2, <1>3 DEF Underway
<1>5. response' \in [1..4 -> Stored] /\ \A k \in 1..(count + 1) : response'[k] = Byte(k)
  <2>1. count + 1 \in 1..4 /\ Head(rx) \in Stored
    BY <1>2, <1>3 DEF Stored
  <2> QED
    BY <1>1, <1>3, <1>4, <2>1
<1>6. Wanted' = Wanted /\ \A k : Byte(k)' = Byte(k)
  BY <1>1 DEF Wanted, Byte
<1>7. CASE count + 1 < Wanted
  <2>1. \A k \in 1..Len(rx') : rx'[k] = Byte(count' + k)
    <3> SUFFICES ASSUME NEW k \in 1..Len(rx') PROVE rx'[k] = Byte(count' + k)
      OBVIOUS
    <3>1. k + 1 \in 1..Len(rx) /\ count + (k + 1) = count' + k
      BY <1>1, <1>2, <1>3
    <3>2. rx[k + 1] = Byte(count + (k + 1))
      BY <1>1, <3>1 DEF Underway
    <3> QED
      BY <1>2, <3>1, <3>2
  <2>2. count' + Len(rx') = count + Len(rx)
    BY <1>1, <1>2, <1>3
  <2>3. Len(Joybus!Answer[command]) - count' - Len(rx') = Len(Joybus!Answer[command]) - count - Len(rx)
    BY <1>1, <1>2, <1>3
  <2>4. Underway'
    BY <1>1, <1>3, <1>6, <2>1, <2>2, <2>3 DEF Underway
  <2>5. count' \in 0..(Wanted - 1) /\ core' = "receive"
    BY <1>1, <1>3, <1>7
  <2> QED
    BY <1>1, <1>2, <1>5, <1>6, <2>4, <2>5
<1>8. CASE ~(count + 1 < Wanted)
  <2>1. pio = 0 /\ Len(rx') = 0
    BY <1>1, <1>2, <1>3, <1>8
  <2>2. rx' = <<>>
    BY <1>2, <2>1, EmptySeq
  <2>3. Rest'
    BY <1>1, <2>1, <2>2 DEF Rest, Underway
  <2>4. CASE command = 0
    <3>1. core' = "settle"
      BY <1>1, <1>8, <2>4
    <3> QED
      BY <1>1, <1>2, <1>5, <2>3, <2>4, <3>1
  <2>5. CASE command = 1
    <3>1. core' = "report" /\ count + 1 = 4 /\ sending' = <<>>
      BY <1>1, <1>3, <1>8, <2>1, <2>5 DEF Underway
    <3> QED
      BY <1>1, <1>2, <1>5, <1>6, <2>3, <2>5, <3>1
  <2> QED
    BY <2>4, <2>5
<1> QED
  BY <1>7, <1>8

\* The core never runs out of patience.
LEMMA NeverLate == ASSUME InTurn PROVE ~Joybus!TimedOut
<1> SUFFICES ASSUME Joybus!TimedOut PROVE FALSE
  OBVIOUS
<1>1. core = "receive" /\ rx = <<>> /\ sending = <<>> /\ Len(rx) = 0 /\ Len(sending) = 0
  BY DEF Joybus!TimedOut, Joybus!Quiet
<1>2. ~(tx = <<command>> /\ pio = 0)
  BY DEF Joybus!TimedOut, Joybus!Quiet
<1>3. Underway /\ count \in 0..(Wanted - 1) /\ command \in {0, 1}
  BY <1>1, <1>2 DEF InTurn
<1>4. /\ Wanted \in {1, 4} /\ Len(Joybus!Answer[command]) \in {3, 4}
      /\ Len(Joybus!Answer[command]) >= Wanted
  <2>1. CASE command = 0
    BY <2>1, Answers DEF Wanted
  <2>2. CASE command = 1
    BY <2>2, Answers DEF Wanted
  <2> QED
    BY <1>3, <2>1, <2>2
<1>5. pio = Wanted - count /\ pio > 0
  BY <1>1, <1>3, <1>4 DEF Underway
<1> QED
  BY <1>1, <1>3, <1>4, <1>5 DEF Underway

LEMMA JoyStep ==
  ASSUME InTurn, plugged, plugged', Joybus!Next
  PROVE  InTurn'
<1> USE DEF InTurn
<1>1. CASE Joybus!Put
  <2>1. /\ core = "send" /\ Rest /\ sending = <<>> /\ core' = "receive" /\ count' = 0
        /\ tx' = Append(tx, command) /\ UNCHANGED <<command, response, rx, pio, sending>>
    BY <1>1 DEF Joybus!Put
  <2>2. tx' = <<command>>
    BY <2>1 DEF Rest
  <2>3. Wanted' \in {1, 4}
    BY <2>1, Answers DEF Wanted
  <2>4. count' \in 0..(Wanted' - 1) /\ \A k \in 1..count' : response'[k] = Byte(k)'
    <3>1. 0 \in 0..(Wanted' - 1)
      <4>1. \A w \in {1, 4} : 0 \in 0..(w - 1)
        OBVIOUS
      <4> QED
        BY <2>3, <4>1, Zenon
    <3>2. count' = 0
      BY <2>1
    <3>3. \A k \in 1..0 : response'[k] = Byte(k)'
      OBVIOUS
    <3> QED
      BY <3>1, <3>2, <3>3
  <2>5. tx' = <<command'>> /\ rx' = <<>> /\ pio' = 0 /\ sending' = <<>>
    BY <2>1, <2>2 DEF Rest
  <2> QED
    BY <2>1, <2>4, <2>5
<1>2. CASE Joybus!SendData \/ Joybus!ReceiveByte
  BY <1>2, LineStep
<1>3. CASE Joybus!Take
  BY <1>3, TakeStep
<1>4. CASE Joybus!TimedOut
  BY <1>4, NeverLate
<1>5. CASE Joybus!StartReading
  BY <1>5 DEF Joybus!StartReading, Joybus!Settled, Rest
<1>6. CASE Joybus!Report
  BY <1>6 DEF Joybus!Report, Rest
<1>7. CASE Joybus!Plug
  BY <1>7 DEF Joybus!Plug
<1> QED
  BY <1>1, <1>2, <1>3, <1>4, <1>5, <1>6, <1>7 DEF Joybus!Next, Joybus!Run

LEMMA JoyStepOfAny == InTurn /\ plugged /\ plugged' /\ [Next]_vars => InTurn'
<1> SUFFICES ASSUME InTurn, plugged, plugged', [Next]_vars PROVE InTurn'
  OBVIOUS
<1>1. CASE Step("nintendo 64 pad", Joybus!Next)
  BY <1>1, JoyStep DEF Step
<1>2. CASE UNCHANGED joybus
  BY <1>2 DEF InTurn, Rest, Underway, Byte, Wanted, joybus
<1> QED
  BY <1>1, <1>2 DEF Next, Step, Elsewhere, vars

\* A report is read in full and in order, and none of its bytes is a stale one
\* read off the empty FIFO.
ReadInOrder == core = "report" => response = Joybus!Answer[1]

NeverTimedOut == [][~(watched = "nintendo 64 pad" /\ Joybus!TimedOut)]_vars

\* While the pad is plugged in the core and the PIO program stay in step
\* (joybus_controller.c, controller.pio), although the core asks for one byte of
\* the three of the identity.  With the fairness of both this is why the pad is
\* read for ever (PadIsRead).
THEOREM ReadCorrect == Spec /\ []plugged => []ReadInOrder /\ NeverTimedOut
<1>1. InTurn => ReadInOrder
  <2> SUFFICES ASSUME InTurn, core = "report" PROVE response = Joybus!Answer[1]
    BY DEF ReadInOrder
  <2>1. response \in [1..4 -> Stored] /\ \A k \in 1..4 : response[k] = Joybus!Answer[1][k]
    BY DEF InTurn, Byte
  <2>2. Joybus!Answer[1] \in [1..4 -> PadBytes]
    <3>1. Joybus!Answer[1] \in Seq(PadBytes) /\ Len(Joybus!Answer[1]) = 4
      BY Answers
    <3>2. Joybus!Answer[1] \in [1..Len(Joybus!Answer[1]) -> PadBytes]
      BY <3>1, LenProperties, Zenon
    <3> QED
      BY <3>1, <3>2
  <2> QED
    BY <2>1, <2>2
<1>2. InTurn /\ [Next]_vars => [~(watched = "nintendo 64 pad" /\ Joybus!TimedOut)]_vars
  BY NeverLate
<1> QED
  BY <1>1, <1>2, JoyInitial, JoyStepOfAny, PTL DEF Spec, NeverTimedOut
==============================================================================
