------------------------------- MODULE MCWifi -------------------------------
(***************************************************************************)
(* WifiHal for TLC, on the builds that differ in the modes of the chip:    *)
(* the plain one, one with Wi-Fi Aware, and one with a second interface.   *)
(* A client may give a monitor the id -1, and stop one with it.            *)
(***************************************************************************)
EXTENDS WifiHal

Plain == [dual |-> FALSE, aware |-> FALSE, noAp |-> FALSE]

MCBuilds == {Plain, [Plain EXCEPT !.aware = TRUE], [Plain EXCEPT !.dual = TRUE]}

MCRequestId == {1, AnyId}

=============================================================================
