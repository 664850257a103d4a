------------------------------ MODULE FlowLog ------------------------------
(***************************************************************************)
(* The flow log of one capture and the packet classifier that keys it.    *)
(* Neither ClassifyPacketDirection nor the FlowLog is under src/: both    *)
(* are modelled from spec.md 4.B and 4.C.  What is under src/ is their     *)
(* test file (src/unnamed/part_002): the common-port test and the table   *)
(* of packets with their expected direction, both translated here and     *)
(* checked against the classifier.                                         *)
(*                                                                         *)
(* A packet is its EPHash fields plus the ICMP type (auxInfo); addresses  *)
(* are small integers, ports and protocol numbers their real values.       *)
(* Byte counters are left out: a flow counts packets per direction.        *)
(***************************************************************************)
EXTENDS Naturals, FiniteSets, Functions, TLC

CONSTANTS
    Pkts,          \* the packets the capture may see
    MaxAdds,       \* bound: Add calls
    MaxRotations   \* bound: Rotate calls

ICMP == 1
TCP == 6
UDP == 17
ICMPv6 == 58

Remains == "remains"
Reverts == "reverts"

-----------------------------------------------------------------------------
(* The classifier (spec 4.C).                                              *)

(* TestPortMergeLogic: 53, 80 and 443 are common TCP ports, 53 and 443    *)
(* common UDP ports, no other port of either protocol is.                  *)
IsCommonPort(port, proto) ==
    \/ proto = TCP /\ port \in {53, 80, 443}
    \/ proto = UDP /\ port \in {53, 443}

Privileged(port) == port < 1024
WellKnown(p, port) == port <= 1024 \/ IsCommonPort(port, p.proto)

(* Rule 1: ICMP echo request and router advertisement keep, echo reply   *)
(* reverts.                                                                *)
IcmpDirection(p) ==
    IF p.proto = ICMP
      THEN (8 :> Remains) @@ (0 :> Reverts)
      ELSE (128 :> Remains) @@ (129 :> Reverts) @@ (134 :> Remains)
IsIcmpRule(p) == p.proto \in {ICMP, ICMPv6} /\ p.aux \in DOMAIN IcmpDirection(p)

(* Rules 2-7, in order; each names the side that is the server.  A rule  *)
(* that makes the destination the server keeps the packet as seen.        *)
ToDst(b) == IF b THEN Remains ELSE Reverts
IsDhcp(p) == p.proto = UDP /\ {p.sport, p.dport} = {67, 68}
OneZeroWellKnown(p) ==
    \/ p.sport = 0 /\ p.dport # 0 /\ WellKnown(p, p.dport)
    \/ p.dport = 0 /\ p.sport # 0 /\ WellKnown(p, p.sport)

(* Mutant: rule 4 only knows the zero source port.                        *)
ClassifyZeroSrcOnly(p) ==
    IF IsIcmpRule(p) THEN [dir |-> IcmpDirection(p)[p.aux], conf |-> TRUE]
    ELSE IF IsCommonPort(p.sport, p.proto) # IsCommonPort(p.dport, p.proto)
      THEN [dir |-> ToDst(IsCommonPort(p.dport, p.proto)), conf |-> TRUE]
    ELSE IF IsDhcp(p) THEN [dir |-> ToDst(p.dport = 67), conf |-> TRUE]
    ELSE IF p.sport = 0 /\ p.dport # 0 /\ WellKnown(p, p.dport)
      THEN [dir |-> Remains, conf |-> TRUE]
    ELSE IF Privileged(p.sport) # Privileged(p.dport)
      THEN [dir |-> ToDst(Privileged(p.dport)), conf |-> TRUE]
    ELSE [dir |-> ToDst(p.sport >= p.dport), conf |-> FALSE]
(* Mutant: rule 6 takes the higher port for the server.                  *)
ClassifyHigherServer(p) ==
    IF IsIcmpRule(p) THEN [dir |-> IcmpDirection(p)[p.aux], conf |-> TRUE]
    ELSE IF IsCommonPort(p.sport, p.proto) # IsCommonPort(p.dport, p.proto)
      THEN [dir |-> ToDst(IsCommonPort(p.dport, p.proto)), conf |-> TRUE]
    ELSE IF IsDhcp(p) THEN [dir |-> ToDst(p.dport = 67), conf |-> TRUE]
    ELSE IF OneZeroWellKnown(p) THEN [dir |-> ToDst(p.sport = 0), conf |-> TRUE]
    ELSE IF Privileged(p.sport) # Privileged(p.dport)
      THEN [dir |-> ToDst(Privileged(p.dport)), conf |-> TRUE]
    ELSE [dir |-> ToDst(p.sport <= p.dport), conf |-> FALSE]
(* ClassifyPacketDirection, with directionConfidenceHigh for rules 1-5.  *)
Classify(p) ==
    IF IsIcmpRule(p) THEN [dir |-> IcmpDirection(p)[p.aux], conf |-> TRUE]
    ELSE IF IsCommonPort(p.sport, p.proto) # IsCommonPort(p.dport, p.proto)
      THEN [dir |-> ToDst(IsCommonPort(p.dport, p.proto)), conf |-> TRUE]
    ELSE IF IsDhcp(p) THEN [dir |-> ToDst(p.dport = 67), conf |-> TRUE]
    ELSE IF OneZeroWellKnown(p) THEN [dir |-> ToDst(p.sport = 0), conf |-> TRUE]
    ELSE IF Privileged(p.sport) # Privileged(p.dport)
      THEN [dir |-> ToDst(Privileged(p.dport)), conf |-> TRUE]
    ELSE [dir |-> ToDst(p.sport >= p.dport), conf |-> FALSE]

(* The EPHash in canonical orientation: src and dst halves swapped when  *)
(* the packet reverts.  auxInfo is not part of the key.                   *)
Key(p) ==
    IF Classify(p).dir = Remains
      THEN [sip |-> p.sip, dip |-> p.dip, sport |-> p.sport, dport |-> p.dport, proto |-> p.proto]
      ELSE [sip |-> p.dip, dip |-> p.sip, sport |-> p.dport, dport |-> p.sport, proto |-> p.proto]

(* The answer to p: endpoints swapped, an echo request becomes a reply.   *)
EchoReply == (8 :> 0) @@ (0 :> 8) @@ (128 :> 129) @@ (129 :> 128)
Answer(p) ==
    [sip |-> p.dip, dip |-> p.sip, sport |-> p.dport, dport |-> p.sport, proto |-> p.proto,
     aux |-> IF p.aux \in DOMAIN EchoReply THEN EchoReply[p.aux] ELSE p.aux]

(* testCases of GPPacket_test: <<sip, dip, sport, dport, proto, auxInfo,  *)
(* expectedDirection>>; addresses numbered 1 (10.0.0.1 / 2c04:4000::6ab), *)
(* 2 (10.0.0.2 / 2c01:2000::3), 3 (4.5.6.7), 4 (0.0.0.0), 5 (broadcast),  *)
(* 6 (fe80::3df3:abbf:3d8d:7f03), 7 (ff02::2).                             *)
TestCases == {
    <<1, 2, 0, 0, ICMPv6, 128, Remains>>,   <<2, 1, 0, 0, ICMPv6, 129, Reverts>>,
    <<6, 7, 0, 0, ICMPv6, 134, Remains>>,   <<1, 2, 0, 0, ICMP, 8, Remains>>,
    <<2, 1, 0, 0, ICMP, 0, Reverts>>,       <<1, 2, 37485, 17500, TCP, 0, Remains>>,
    <<2, 1, 17500, 34000, TCP, 0, Reverts>>, <<1, 3, 33561, 444, UDP, 0, Remains>>,
    <<3, 1, 444, 33561, UDP, 0, Reverts>>,  <<1, 3, 33561, 33560, UDP, 0, Remains>>,
    <<3, 1, 33560, 33561, UDP, 0, Reverts>>, <<1, 3, 445, 444, UDP, 0, Remains>>,
    <<3, 1, 444, 445, UDP, 0, Reverts>>,    <<1, 3, 33561, 33561, UDP, 0, Remains>>,
    <<1, 3, 444, 444, UDP, 0, Remains>>,    <<4, 5, 68, 67, UDP, 0, Remains>>,
    <<1, 2, 67, 68, UDP, 0, Reverts>>,      <<1, 3, 0, 53, UDP, 0, Remains>>,
    <<1, 3, 0, 53, TCP, 0, Remains>>,       <<1, 3, 0, 80, TCP, 0, Remains>>,
    <<1, 3, 0, 443, TCP, 0, Remains>>,      <<1, 1, 33561, 33561, UDP, 0, Remains>>,
    <<1, 1, 444, 444, UDP, 0, Remains>>,    <<1, 1, 0, 53, UDP, 0, Remains>> }
AsPacket(t) == [sip |-> t[1], dip |-> t[2], sport |-> t[3], dport |-> t[4],
                proto |-> t[5], aux |-> t[6]]

-----------------------------------------------------------------------------
(* The flow log (spec 4.B).                                                *)

VARIABLES
    flows,      \* the live map: canonical key -> FlowEntry
    adds,       \* Add calls so far
    rotations,  \* Rotate calls so far
    aggPkts     \* history: packets in all aggregates Rotate returned

vars == <<flows, adds, rotations, aggPkts>>

Keys == {Key(p) : p \in Pkts}
Entry == [orient : {Remains, Reverts}, fwd : 0..MaxAdds, rev : 0..MaxAdds, conf : BOOLEAN]
Count(e) == e.fwd + e.rev
SumPkts(m, S) == FoldFunctionOnSet(+, 0, [k \in S |-> Count(m[k])], S)

TypeOK ==
    /\ DOMAIN flows \subseteq Keys /\ \A k \in DOMAIN flows : flows[k] \in Entry
    /\ adds \in 0..MaxAdds /\ rotations \in 0..MaxRotations
    /\ aggPkts \in 0..MaxAdds

Init ==
    /\ flows = [k \in {} |-> [orient |-> Remains, fwd |-> 0, rev |-> 0, conf |-> FALSE]]
    /\ adds = 0 /\ rotations = 0 /\ aggPkts = 0

(* A known flow counts the packet forward when it has the orientation of  *)
(* the flow's first packet, and becomes confident if the packet is.      *)
AddEntry(e, c) ==
    [e EXCEPT !.fwd = IF c.dir = e.orient THEN @ + 1 ELSE @,
              !.rev = IF c.dir = e.orient THEN @ ELSE @ + 1,
              !.conf = @ \/ c.conf]

(* Add: a new key gets an entry with the packet forward.                   *)
Add(p) ==
    /\ adds < MaxAdds
    /\ LET c == Classify(p)  k == Key(p)
       IN flows' = IF k \in DOMAIN flows
                     THEN [flows EXCEPT ![k] = AddEntry(@, c)]
                     ELSE flows @@ (k :> [orient |-> c.dir, fwd |-> 1, rev |-> 0, conf |-> c.conf])
    /\ adds' = adds + 1
    /\ UNCHANGED <<rotations, aggPkts>>

(* transferAndAggregate as BenchmarkRotation pins it down: every flow     *)
(* with packets since the last rotation goes to the aggregate and stays   *)
(* live with its counters reset (orientation and confidence kept); a flow *)
(* that has been idle for a whole interval is dropped.                     *)
Active(m) == {k \in DOMAIN m : Count(m[k]) > 0}
(* Mutant: the counters of a retained flow are not reset.                 *)
RetainedKeepsCounters(m) == [k \in Active(m) |-> m[k]]
Retained(m) == [k \in Active(m) |-> [m[k] EXCEPT !.fwd = 0, !.rev = 0]]

Rotate ==
    /\ rotations < MaxRotations
    /\ aggPkts' = aggPkts + SumPkts(flows, Active(flows))
    /\ flows' = Retained(flows)
    /\ rotations' = rotations + 1
    /\ UNCHANGED adds

Next == (\E p \in Pkts : Add(p)) \/ Rotate

Spec == Init /\ [][Next]_vars

-----------------------------------------------------------------------------
(* Properties.  Both are about the classifier alone and are evaluated     *)
(* once (they are constants); they are checked in every state after the   *)
(* first Add.                                                              *)

(* ClassifyPacketDirection returns the direction GPPacket_test expects    *)
(* for every packet of its table.                                          *)
TableAgrees == \A t \in TestCases : Classify(AsPacket(t)).dir = t[7]
ClassifierMatchesTests == adds > 0 => TableAgrees

(* Spec 8, bidirectional canonicality: a TCP or UDP packet classified     *)
(* with confidence, or an ICMP echo request or reply, has the key of its  *)
(* answer, so both directions of a connection land in one flow.  (A      *)
(* router advertisement has no answer, and unconfident ties keep the     *)
(* orientation as seen.)                                                   *)
PortValues == {0, 53, 67, 68, 80, 443, 444, 1023, 1024, 1025, 33560, 33561}
CanonicalPackets ==
    {p \in [sip : {1, 2}, dip : {1, 2}, sport : PortValues, dport : PortValues,
            proto : {TCP, UDP}, aux : {0}] : Classify(p).conf}
    \cup {[sip |-> 1, dip |-> 2, sport |-> 0, dport |-> 0, proto |-> pr, aux |-> a] :
            <<pr, a>> \in {<<ICMP, 8>>, <<ICMP, 0>>, <<ICMPv6, 128>>, <<ICMPv6, 129>>}}
AnswersShareKey == \A p \in CanonicalPackets : Key(p) = Key(Answer(p))
ReplySharesKey == adds > 0 => AnswersShareKey
=============================================================================
