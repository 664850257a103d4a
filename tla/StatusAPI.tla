------------------------------ MODULE StatusAPI ------------------------------
(***************************************************************************)
(* The status path from the running captures to gpctl's table: the API     *)
(* handler getStatus (pkg/api/goprobe/server/status.go), the HTTP          *)
(* transport, the client call GetInterfaceStatus, and statusEntrypoint     *)
(* (cmd/gpctl/cmd/status.go), which sums the per-interface stats into the  *)
(* totals and prints the runtime info.                                     *)
(*                                                                         *)
(* Not under src/ and modelled from spec.md: the capture manager's Status  *)
(* (4.F: the named or all captures' stats), the writeout's LastRotation,   *)
(* the client, and gin's c.JSON, which sends no body with a 204 (HTTP      *)
(* forbids one).  Times are natural numbers, 0 being the zero time.        *)
(* CaptureStats keep the five counters gpctl sums: a packet the source   *)
(* receives is counted in ReceivedTotal and Received, and in the           *)
(* Processed counters only if it decodes; a drop counts in Dropped; a      *)
(* writeout zeroes the counters since the last rotation, a source          *)
(* re-initialization those of the source (spec 3, 6).                      *)
(***************************************************************************)
EXTENDS Naturals, FiniteSets, Functions

CONSTANTS
    Ifaces,     \* interfaces the capture manager runs
    Names,      \* interface names a user may pass to gpctl status
    MaxPkts,    \* bound: packets per interface
    MaxTime,    \* bound: clock
    Failures    \* how GetInterfaceStatus may fail: "transport", "cancel", "deadline"

ASSUME /\ Ifaces \subseteq Names
       /\ "" \notin Names
       /\ Failures \subseteq {"transport", "cancel", "deadline"}

Counters == {"ReceivedTotal", "Received", "ProcessedTotal", "Processed", "Dropped"}
ZeroStats == [c \in Counters |-> 0]
NoAnswer == [err |-> "none", code |-> 0, statuses |-> [i \in {} |-> ZeroStats],
             lastWriteout |-> 0, startedAt |-> 0]

VARIABLES
    now,          \* the clock
    startedAt,    \* when goProbe started
    stats,        \* stats[i]: the CaptureStats of interface i
    lastRotation, \* writeoutHandler.LastRotation
    phase,        \* gpctl: "idle", "sent", "answered", "done"
    arg,          \* the interface named on the command line, or "" for all
    sent,         \* history: the LastRotation getStatus read, or -1
    resp,         \* what GetInterfaceStatus returned: an answer, or err # "none"
    out           \* what statusEntrypoint printed and returned

vars == <<now, startedAt, stats, lastRotation, phase, arg, sent, resp, out>>

Output == [exit : {0, 1}, silenceUsage : BOOLEAN, ifaces : SUBSET Ifaces,
           totals : [Counters -> Nat], writeout : {<<>>} \cup {<<t>> : t \in 1..MaxTime},
           since : 0..MaxTime]
NoOutput == [exit |-> 0, silenceUsage |-> FALSE, ifaces |-> {},
             totals |-> ZeroStats, writeout |-> <<>>, since |-> 0]

TypeOK ==
    /\ now \in 1..MaxTime /\ startedAt \in 1..MaxTime
    /\ stats \in [Ifaces -> [Counters -> 0..MaxPkts]]
    /\ lastRotation \in 0..MaxTime
    /\ phase \in {"idle", "sent", "answered", "done"}
    /\ arg \in Names \cup {""}
    /\ sent \in -1..MaxTime
    /\ resp.err \in Failures \cup {"decode", "none"} /\ resp.code \in {0, 200, 204}
    /\ DOMAIN resp.statuses \subseteq Ifaces
    /\ \A i \in DOMAIN resp.statuses : resp.statuses[i] \in [Counters -> 0..MaxPkts]
    /\ resp.lastWriteout \in 0..MaxTime /\ resp.startedAt \in 0..MaxTime
    /\ out \in Output

Init ==
    /\ now = 1 /\ startedAt = 1
    /\ stats = [i \in Ifaces |-> ZeroStats]
    /\ lastRotation = 0
    /\ phase = "idle" /\ arg = "" /\ sent = -1
    /\ resp = NoAnswer /\ out = NoOutput

-----------------------------------------------------------------------------
(* The environment: time passes, packets arrive, the writeout runs.        *)

Tick == now < MaxTime /\ now' = now + 1
        /\ UNCHANGED <<startedAt, stats, lastRotation, phase, arg, sent, resp, out>>

Receive(i, decoded) ==
    /\ stats[i].ReceivedTotal < MaxPkts
    /\ stats' = [stats EXCEPT
                   ![i].ReceivedTotal = @ + 1, ![i].Received = @ + 1,
                   ![i].ProcessedTotal = IF decoded THEN @ + 1 ELSE @,
                   ![i].Processed = IF decoded THEN @ + 1 ELSE @]
    /\ UNCHANGED <<now, startedAt, lastRotation, phase, arg, sent, resp, out>>

Drop(i) ==
    /\ stats[i].Dropped < MaxPkts
    /\ stats' = [stats EXCEPT ![i].Dropped = @ + 1]
    /\ UNCHANGED <<now, startedAt, lastRotation, phase, arg, sent, resp, out>>

Reinit(i) ==
    /\ stats' = [stats EXCEPT ![i].ReceivedTotal = 0, ![i].Received = 0, ![i].Dropped = 0]
    /\ UNCHANGED <<now, startedAt, lastRotation, phase, arg, sent, resp, out>>

Writeout ==
    /\ lastRotation # now /\ lastRotation' = now
    /\ stats' = [i \in Ifaces |-> [stats[i] EXCEPT !.Received = 0, !.Processed = 0, !.Dropped = 0]]
    /\ UNCHANGED <<now, startedAt, phase, arg, sent, resp, out>>

-----------------------------------------------------------------------------
(* gpctl status [IFACE]: the client sends the request.                     *)
Invoke(a) ==
    /\ phase = "idle"
    /\ phase' = "sent" /\ arg' = a /\ sent' = -1
    /\ resp' = NoAnswer /\ out' = NoOutput
    /\ UNCHANGED <<now, startedAt, stats, lastRotation>>

(* captureManager.Status(iface) or Status(): the stats of the named       *)
(* interface if it runs, or of all.                                        *)
ManagerStatus(a) == LET S == IF a = "" THEN Ifaces ELSE {a} \cap Ifaces
                    IN [i \in S |-> stats[i]]

(* c.JSON(code, resp): no body is sent with 204; the client then sees an  *)
(* empty body, which it either decodes to zero values or fails to decode. *)
Delivered(r) ==
    IF r.code = 204 THEN {[NoAnswer EXCEPT !.err = "decode"], [r EXCEPT !.statuses = [i \in {} |-> ZeroStats],
                                              !.lastWriteout = 0, !.startedAt = 0]}
    ELSE {r}

(* getStatus: StatusCode 200, LastWriteout, the statuses, 204 if none.     *)
(* The response's StartedAt is never assigned.                             *)
GetStatusResponse(a) ==
    [err |-> "none", code |-> IF ManagerStatus(a) = [i \in {} |-> ZeroStats] THEN 204 ELSE 200,
     statuses |-> ManagerStatus(a), lastWriteout |-> lastRotation, startedAt |-> 0]

GetStatus ==
    /\ phase = "sent"
    /\ resp' \in Delivered(GetStatusResponse(arg))
    /\ sent' = lastRotation
    /\ phase' = "answered"
    /\ UNCHANGED <<now, startedAt, stats, lastRotation, arg, out>>

(* GetInterfaceStatus returns an error: the server is unreachable, or the *)
(* command's context is cancelled or runs past its deadline.               *)
RequestFails ==
    /\ phase = "sent"
    /\ \E f \in Failures : resp' = [NoAnswer EXCEPT !.err = f]
    /\ phase' = "answered"
    /\ UNCHANGED <<now, startedAt, stats, lastRotation, arg, sent, out>>

(* statusEntrypoint after GetInterfaceStatus returned an error.            *)
ErrorExit ==
    /\ phase = "answered" /\ resp.err # "none"
    /\ out' = [NoOutput EXCEPT !.exit = 1,
                               !.silenceUsage = resp.err \in {"cancel", "deadline"}]
    /\ phase' = "done"
    /\ UNCHANGED <<now, startedAt, stats, lastRotation, arg, sent, resp>>

(* The loop over the sorted interfaces: each counter is added to its total.*)
SumCounter(st, c) == FoldFunctionOnSet(+, 0, [i \in DOMAIN st |-> st[i][c]], DOMAIN st)
Totals(st) == [c \in Counters |-> SumCounter(st, c)]

(* lastWriteoutStr: "-" (here <<>>) for the zero time, else the time.   *)
Shown(t) == IF t = 0 THEN <<>> ELSE <<t>>

Report ==
    /\ phase = "answered" /\ resp.err = "none"
    /\ out' = [exit |-> 0, silenceUsage |-> FALSE, ifaces |-> DOMAIN resp.statuses,
               totals |-> Totals(resp.statuses),
               writeout |-> Shown(resp.lastWriteout),
               since |-> resp.startedAt]
    /\ phase' = "done"
    /\ UNCHANGED <<now, startedAt, stats, lastRotation, arg, sent, resp>>

Next ==
    \/ Tick \/ Writeout
    \/ \E i \in Ifaces : Drop(i) \/ Reinit(i) \/ \E d \in BOOLEAN : Receive(i, d)
    \/ \E a \in Names \cup {""} : Invoke(a)
    \/ GetStatus \/ RequestFails
    \/ ErrorExit \/ Report

Spec == Init /\ [][Next]_vars

-----------------------------------------------------------------------------
(* Properties.                                                             *)

(* Spec 6: gpctl status exits non-zero only on a transport failure or a   *)
(* cancelled or expired context, and its runtime info shows when goProbe  *)
(* started and the last writeout the server reported ("-" if none).        *)
StatusReportFaithful ==
    phase = "done" =>
        /\ out.exit = 1 => resp.err \in Failures
        /\ out.exit = 0 => /\ out.since = startedAt
                           /\ out.writeout = Shown(sent)
=============================================================================
