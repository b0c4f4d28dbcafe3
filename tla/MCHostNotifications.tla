------------------------ MODULE MCHostNotifications ------------------------
(* A small instance of HostNotifications for TLC.                           *)
EXTENDS HostNotifications

CONSTANTS n1, n2, n3
=============================================================================
