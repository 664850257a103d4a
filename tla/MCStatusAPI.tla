---------------------------- MODULE MCStatusAPI ----------------------------
(* Two running interfaces and one name the manager does not know.         *)
EXTENDS StatusAPI

MCIfaces == {"eth0", "eth1"}
MCNames == {"eth0", "eth1", "lo"}
AllFailures == {"transport", "cancel", "deadline"}
=============================================================================
