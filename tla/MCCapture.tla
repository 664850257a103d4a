----------------------------- MODULE MCCapture -----------------------------
(* Model-checking instance of Capture: two clients, two configs, at most   *)
(* two ring buffer sources, two packets and a threshold of one error.      *)
EXTENDS Capture, TLC

CONSTANTS c1, c2, cfgA, cfgB, e1

MCClients == {c1, c2}
MCConfigs == {cfgA, cfgB}
MCErrKinds == {e1}

ClientSymmetry == Permutations(MCClients)
=============================================================================
