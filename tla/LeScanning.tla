----------------------------- MODULE LeScanning -----------------------------
(***************************************************************************)
(* LeScanningManager (system/gd/hci/le_scanning_manager.cc) as a client of *)
(* LeAddressManager: it stops and starts scanning, and answers a pause or  *)
(* a resume at once.                                                       *)
(***************************************************************************)
EXTENDS LeAddressManagerApi

InitScan == [is_scanning_ |-> FALSE, scan_on_resume_ |-> FALSE, paused_ |-> FALSE,
             address_manager_registered_ |-> FALSE]

start_scan(s) ==
  IF s.scan.paused_ /\ s.scan.address_manager_registered_
  THEN [s EXCEPT !.scan.scan_on_resume_ = TRUE]
  ELSE LET t == IF s.scan.address_manager_registered_ THEN s ELSE Register(s, "scan")
       IN  PostTo([t EXCEPT !.scan.is_scanning_ = TRUE,
                            !.scan.address_manager_registered_ = TRUE],
                  "hci", "LE_SET_SCAN_ENABLE", TRUE)

stop_scan(s) ==
  IF ~s.scan.is_scanning_ THEN s
  ELSE PostTo([s EXCEPT !.scan.is_scanning_ = FALSE], "hci", "LE_SET_SCAN_ENABLE", FALSE)

\* configure_scan stops the scan before it sets the parameters.
scan(s, start) ==
  LET t == [s EXCEPT !.scan.scan_on_resume_ = FALSE]
  IN  IF start THEN start_scan(stop_scan(t))
      ELSE IF ~t.scan.address_manager_registered_ THEN stop_scan(t)
      ELSE stop_scan([Unregister(t, "scan")
                        EXCEPT !.scan.address_manager_registered_ = FALSE,
                               !.scan.paused_ = FALSE])

ScanOnPause(s) ==
  IF ~s.scan.address_manager_registered_ THEN s
  ELSE AckPause(stop_scan([s EXCEPT !.scan.paused_ = TRUE,
                                    !.scan.scan_on_resume_ = s.scan.is_scanning_]),
                "scan")

ScanOnResume(s) ==
  LET t == [s EXCEPT !.scan.paused_ = FALSE, !.scan.scan_on_resume_ = FALSE]
  IN  IF ~s.scan.address_manager_registered_ THEN s
      ELSE AckResume(IF s.scan.scan_on_resume_ THEN start_scan(t) ELSE t, "scan")
=============================================================================
