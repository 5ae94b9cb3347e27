--------------------------- MODULE MCHidKeyboard ---------------------------
(* An instance of HidKeyboard.  The host, the codes and the bounds on the  *)
(* queues are given in the cfg; descriptors 2..LastFd are few enough for   *)
(* the leak of one descriptor per NewConnection to exhaust them.           *)
EXTENDS HidKeyboard

CONSTANTS mac, alt, tab
=============================================================================
