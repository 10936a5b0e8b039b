----------------------------- MODULE MCHidHost -----------------------------
(* An instance of HidHost for TLC: a device is <<unit, interface, kind>>.   *)
EXTENDS HidHost

MCKind == [d \in Device |-> d[3]]
MCUnit == [d \in Device |-> d[1]]

\* Pads: known ones, generic ones, one whose second interface cannot be read,
\* and an Xbox pad.
MCPads == {<<1, 1, "PS4">>, <<2, 1, "GENERIC">>, <<3, 1, "GENERIC">>,
           <<4, 1, "PS3">>, <<4, 2, "UNREADABLE">>, <<5, 1, "XINPUT">>}

\* A keyboard with a built-in mouse and touch pad, and another keyboard.
MCDesk == {<<6, 1, "KEYBOARD">>, <<6, 2, "MOUSE">>, <<6, 3, "GENERIC">>,
           <<7, 1, "KEYBOARD">>}

MCDevices == MCPads \cup MCDesk

MCKey == {"a", "caps"}
=============================================================================
