----------------------------- MODULE MCFlowLog -----------------------------
(* One capture's flow log fed with an ICMP echo exchange and an ICMP      *)
(* error of the same endpoints (one key, confident and not), an HTTPS     *)
(* request and response, and a same-port UDP packet (a tie).               *)
EXTENDS FlowLog

MCPkts == {
    [sip |-> 1, dip |-> 2, sport |-> 0, dport |-> 0, proto |-> ICMP, aux |-> 8],
    [sip |-> 2, dip |-> 1, sport |-> 0, dport |-> 0, proto |-> ICMP, aux |-> 0],
    [sip |-> 1, dip |-> 2, sport |-> 0, dport |-> 0, proto |-> ICMP, aux |-> 3],
    [sip |-> 1, dip |-> 3, sport |-> 49152, dport |-> 443, proto |-> TCP, aux |-> 0],
    [sip |-> 3, dip |-> 1, sport |-> 443, dport |-> 49152, proto |-> TCP, aux |-> 0],
    [sip |-> 1, dip |-> 3, sport |-> 33561, dport |-> 33561, proto |-> UDP, aux |-> 0] }
=============================================================================
