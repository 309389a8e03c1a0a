-------------------------- MODULE MCMihDevice -----------------------------
(***************************************************************************)
(* Instances of MihDevice: a report of each kind UpdateParameter tells     *)
(* apart, among them reports equal to a threshold.  A lost LTE link is     *)
(* what LteReport says besides of them.                                    *)
(***************************************************************************)
EXTENDS MihDevice

MCWifiReports == {700, 800, 1000, 20000}
MCWimaxReports == {9800, 9870, 9880}
MCLteRates == {15000}
============================================================================
