--------------------------- MODULE ScanTransaction ---------------------------
(***************************************************************************)
(* shared/wifi/scan_transaction: the OLED is suspended for a Wi-Fi scan.   *)
(* A transaction is [phase, suspended, anchored]; each operator returns    *)
(* what the method of its name leaves.  kScanning and kCollecting are      *)
(* reserved in the code and never rested in.  suspendDisplay, which        *)
(* main.cpp supplies, always succeeds.                                     *)
(***************************************************************************)

ScanPhases == {"Idle", "Preparing", "DisplaySuspended", "Error", "Disconnected"}
Resting == {"Idle", "Error", "Disconnected"}
Transactions == [phase : ScanPhases, suspended : BOOLEAN, anchored : BOOLEAN]

NoTransaction == [phase |-> "Idle", suspended |-> FALSE, anchored |-> FALSE]

\* Every end goes through restoreDisplayOnce and resetWindowClock.
Ended(phase) == [phase |-> phase, suspended |-> FALSE, anchored |-> FALSE]

begin(tx) ==
    IF tx.phase \in Resting
    THEN [phase |-> "Preparing", suspended |-> TRUE, anchored |-> FALSE]
    ELSE tx

onScanStarted(tx, ok) ==
    IF tx.phase # "Preparing" THEN tx
    ELSE IF ok THEN [phase |-> "DisplaySuspended", suspended |-> tx.suspended, anchored |-> FALSE]
    ELSE Ended("Error")

onScanDone(tx, ok) ==
    IF tx.phase # "DisplaySuspended" THEN tx
    ELSE Ended(IF ok THEN "Idle" ELSE "Error")

onTimeout(tx) ==
    IF tx.phase \in {"Preparing", "DisplaySuspended"} THEN Ended("Error") ELSE tx

onDisconnect(tx) == Ended("Disconnected")

\* Mutant of anchor: the window never begins.
NeverAnchored(tx) == tx

\* The first tick in the window only notes when it began.
anchor(tx) == IF tx.phase = "DisplaySuspended" THEN [tx EXCEPT !.anchored = TRUE] ELSE tx
mayTimeOut(tx) == tx.phase = "DisplaySuspended" /\ tx.anchored
=============================================================================
