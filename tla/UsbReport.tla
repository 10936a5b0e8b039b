------------------------------ MODULE UsbReport ------------------------------
(***************************************************************************)
(* The converter as a USB gamepad (sendReportData of main.c,                *)
(* xinput_driver.c, hid_driver.c).  Each report of the gamepad is converted *)
(* into the one report of the device and offered to the endpoint, which     *)
(* holds one report until the computer fetches it.  What cannot be offered  *)
(* is dropped, and nothing offers it again but the next report.  A gamepad   *)
(* reports for ever, or only when something has changed.                    *)
(***************************************************************************)
EXTENDS Integers

CONSTANT MaxSpare  \* bound: milliseconds that passed without a report

VARIABLES
  streams,  \* does the gamepad repeat its reports?
  holds,    \* what the user holds
  reported, \* what the gamepad reported last
  spare,    \* board_millis() - start_ms
  device_report, \* xinputReport, switchReport or hidReport
  offering, \* is sendReportData past the conversion?
  bus,      \* "off", "ready" or "suspended"
  endpoint, \* the report waiting to be fetched, "empty" if none
  computer  \* what the computer has got

usbVars ==
  <<streams, holds, reported, spare, device_report, offering, bus, endpoint, computer>>

Buttons == {"none", "A", "B"}

-----------------------------------------------------------------------------
\* start_ms is 0 while main has waited for three seconds.
Init ==
  /\ streams \in BOOLEAN /\ holds = "none" /\ reported = "none"
  /\ spare = MaxSpare /\ device_report = "none" /\ offering = FALSE
  /\ bus = "off" /\ endpoint = "empty" /\ computer = "none"

User ==
  /\ holds' \in Buttons \ {holds}
  /\ UNCHANGED <<streams, reported, spare, device_report, offering, bus, endpoint, computer>>

Millisecond ==
  /\ spare < MaxSpare
  /\ spare' = spare + 1
  /\ UNCHANGED <<streams, holds, reported, device_report, offering, bus, endpoint, computer>>

\* start_ms advances by one for each report, not to the present.
Paced == spare > 0 /\ spare' = spare - 1

\* Faulty: a report like the one before is not sent.
ConvertedIfNew == device_report' = holds /\ offering' = (holds # device_report)

\* new_report_fun
Converted == device_report' = holds /\ offering' = TRUE

\* sendReportData, up to the second switch; a report that comes too early is
\* forgotten.  Time that passed beyond the bound is forgotten too.
\* tud_remote_wakeup does nothing: the descriptors of the three devices do not
\* offer a remote wake-up.
Report ==
  /\ ~offering
  /\ streams \/ holds # reported
  /\ reported' = holds
  /\ \/ Paced /\ Converted
     \/ spare = 0 /\ UNCHANGED <<spare, device_report, offering>>
  /\ UNCHANGED <<streams, holds, bus, endpoint, computer>>

\* send_xinput_report, send_hid_report
Offered == IF bus = "ready" /\ endpoint = "empty" THEN device_report ELSE endpoint

Offer ==
  /\ offering
  /\ offering' = FALSE /\ endpoint' = Offered
  /\ UNCHANGED <<streams, holds, reported, spare, device_report, bus, computer>>

\* The computer polls the endpoint.
Fetch ==
  /\ bus = "ready" /\ endpoint # "empty"
  /\ computer' = endpoint /\ endpoint' = "empty"
  /\ UNCHANGED <<streams, holds, reported, spare, device_report, offering, bus>>

\* Enumeration, and the end of a suspension, which is the computer's doing.
Resume ==
  /\ bus \in {"off", "suspended"} /\ bus' = "ready"
  /\ UNCHANGED <<streams, holds, reported, spare, device_report, offering, endpoint, computer>>

Suspend ==
  /\ bus = "ready" /\ bus' = "suspended"
  /\ UNCHANGED <<streams, holds, reported, spare, device_report, offering, endpoint, computer>>

Next == User \/ Millisecond \/ Report \/ Offer \/ Fetch \/ Resume \/ Suspend

-----------------------------------------------------------------------------
\* Once the computer is awake for good, it gets to know what the user of a
\* gamepad that repeats its reports holds, whatever the pacing, a busy endpoint
\* or a sleeping bus dropped on the way: sendReportData sends later reports.
ComputerCatchesUp ==
  \A b \in Buttons : <>[](streams /\ holds = b /\ bus = "ready") => <>[](computer = b)
=============================================================================
