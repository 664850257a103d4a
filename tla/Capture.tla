------------------------------ MODULE Capture ------------------------------
(***************************************************************************)
(* One Capture of pkg/capture/capture.go: the per-interface state machine  *)
(* run by Run() (stateFns initializing, capturing, inError, closing), the  *)
(* packet goroutine process() that capturing spawns, and the public        *)
(* methods Status/Errors/Flows/Update/Rotate that callers use under        *)
(* c.mutex to hand a command over the unbuffered cmdChan.                  *)
(*                                                                         *)
(* Data is abstracted to what the properties tell apart: a ring buffer     *)
(* source is a generation number, the flow log is the number of packets    *)
(* it holds since the last rotation, CaptureStats is the received count    *)
(* of the source, an error string is a member of ErrKinds.                 *)
(***************************************************************************)
EXTENDS Naturals, FiniteSets, Functions

CONSTANTS
    Clients,        \* goroutines calling the public methods
    Ops,            \* the public methods they call, a subset of AllOps
    ReadOps,        \* Status, Errors, Flows: commands that only reply
    Configs,        \* config.CaptureConfig values
    InitConfig,     \* the config NewCapture is given
    ErrKinds,       \* distinct err.Error() strings of gppacket.Populate
    ErrorThreshold, \* ErrorThreshold (10000 in the code)
    MaxHandles,     \* bound: ring buffer sources created by initializing
    MaxPackets,     \* bound: packets returned by NextPacket over all sources
    NoHandle,       \* c.captureHandle == nil
    NoClient,       \* c.mutex unlocked
    NoConfig        \* the config field of a command that is not Update

AllOps == {"Status", "Errors", "Flows", "Update", "Rotate"}

ASSUME /\ Ops \subseteq AllOps
       /\ ReadOps = Ops \cap {"Status", "Errors", "Flows"}
       /\ InitConfig \in Configs
       /\ ErrorThreshold \in Nat /\ MaxHandles \in Nat \ {0} /\ MaxPackets \in Nat

Handles == 1..MaxHandles

VARIABLES
    fsm,               \* the stateFn Run() executes next, or where it blocks
    state,             \* c.state
    config,            \* c.config
    closed,            \* c.closed; also: cmdChan has been closed
    cancelled,         \* c.ctx is done
    handle,            \* c.captureHandle
    gen,               \* number of sources created so far
    openHandles,       \* sources not yet Close()d
    recv,              \* PacketsReceived of each source
    errMap,            \* c.errMap
    packetsLogged,     \* c.packetsLogged
    flowPkts,          \* packets in c.flowLog since its last Rotate
    lastRotationStats, \* c.lastRotationStats: [recv, logged]
    proc,              \* pc of the process() goroutine spawned for source g
    cur,               \* the source that goroutine passed to NextPacket
    errcount,          \* its local consecutive-error counter
    cpc,               \* pc of each client goroutine
    cmd,               \* the command a client sends
    mutex,             \* holder of c.mutex
    crashed,           \* the Go runtime panicked: "none", "sendOnClosed", "nilHandle"
    rot,               \* Run()'s locals while it executes a Rotate
    statPkts           \* history: sum of Stats.PacketsLogged Rotate returned

fsmVars    == <<fsm, state, config, closed>>
srcVars    == <<handle, gen, openHandles, recv>>
logVars    == <<errMap, packetsLogged, flowPkts, lastRotationStats>>
procVars   == <<proc, cur, errcount>>
clientVars == <<cpc, cmd, mutex>>
histVars   == <<rot, statPkts>>
vars == <<fsmVars, srcVars, logVars, procVars, clientVars, histVars,
          cancelled, crashed>>

FsmPcs  == {"initializing", "capturing", "capSelect", "inError", "errSelect",
            "rotReport", "rotBaseline", "closing", "exited"}
States  == {"Unknown", "StateInitializing", "StateCapturing", "StateClosing",
            "StateError"}
ProcPcs == {"idle", "next", "wait", "add", "logged", "senderr", "done"}
Cmds    == [op : Ops \ {"Update"}, cfg : {NoConfig}]
              \cup [op : Ops \cap {"Update"}, cfg : Configs]

TotalRecv == SumFunction(recv)

TypeOK ==
    /\ fsm \in FsmPcs /\ state \in States
    /\ config \in Configs /\ closed \in BOOLEAN /\ cancelled \in BOOLEAN
    /\ handle \in Handles \cup {NoHandle} /\ gen \in 0..MaxHandles
    /\ openHandles \subseteq 1..gen /\ recv \in [Handles -> 0..MaxPackets]
    /\ errMap \in [ErrKinds -> 0..MaxPackets]
    /\ packetsLogged \in 0..MaxPackets /\ flowPkts \in 0..MaxPackets
    /\ lastRotationStats \in [recv : 0..MaxPackets, logged : 0..MaxPackets]
    /\ proc \in [Handles -> ProcPcs] /\ cur \in [Handles -> Handles \cup {NoHandle}]
    /\ errcount \in [Handles -> 0..MaxPackets]
    /\ cpc \in [Clients -> {"idle", "send", "wait", "reply"}]
    /\ cmd \in [Clients -> Cmds \cup {NoConfig}]
    /\ mutex \in Clients \cup {NoClient}
    /\ crashed \in {"none", "sendOnClosed", "nilHandle"}
    /\ rot \in [recv : 0..MaxPackets, logged : 0..MaxPackets,
                next : {"exited", "errSelect"}]
    /\ statPkts \in 0..MaxPackets

-----------------------------------------------------------------------------
(* NewCapture followed by Run(): the machine starts in initializing.       *)
Init ==
    /\ fsm = "initializing" /\ state = "Unknown" /\ config = InitConfig
    /\ closed = FALSE /\ cancelled = FALSE
    /\ handle = NoHandle /\ gen = 0 /\ openHandles = {}
    /\ recv = [g \in Handles |-> 0]
    /\ errMap = [e \in ErrKinds |-> 0]
    /\ packetsLogged = 0 /\ flowPkts = 0
    /\ lastRotationStats = [recv |-> 0, logged |-> 0]
    /\ proc = [g \in Handles |-> "idle"] /\ cur = [g \in Handles |-> NoHandle]
    /\ errcount = [g \in Handles |-> 0]
    /\ cpc = [c \in Clients |-> "idle"] /\ cmd = [c \in Clients |-> NoConfig]
    /\ mutex = NoClient /\ crashed = "none"
    /\ rot = [recv |-> 0, logged |-> 0, next |-> "exited"]
    /\ statPkts = 0

(* needReinitialization: configs are compared with !=.                     *)
NeedReinitialization(cfg) == config # cfg

(* tryGetCaptureStats: the source's counters, or zero when there is no     *)
(* source or its Stats() call fails (the error is only logged).            *)
TryGetCaptureStats ==
    IF handle = NoHandle THEN {0} ELSE {recv[handle], 0}

(* Bug variant of reset(): the source is not closed.                       *)
ResetKeepsSource ==
    /\ openHandles' = openHandles
    /\ handle' = NoHandle
    /\ lastRotationStats' = [lastRotationStats EXCEPT !.recv = 0]
    /\ errMap' = [e \in ErrKinds |-> 0]

(* reset(): close the source, zero the pcap part of lastRotationStats      *)
(* (PacketsLogged is kept), drop the source, and start a fresh errMap.     *)
Reset ==
    /\ openHandles' = openHandles \ {handle}
    /\ handle' = NoHandle
    /\ lastRotationStats' = [lastRotationStats EXCEPT !.recv = 0]
    /\ errMap' = [e \in ErrKinds |-> 0]

-----------------------------------------------------------------------------
(* The commands, executed by the Run() goroutine when it receives them.    *)
(* nilNext is where Run() goes when execute returns nil.                   *)

(* captureCommandStatus/Errors/Flows: reply with state, errMap, flowLog.   *)
ExecuteRead(c, nilNext) ==
    /\ cmd[c].op \in ReadOps
    /\ fsm' = nilNext
    /\ UNCHANGED <<state, config, closed, srcVars, logVars, histVars>>

(* captureCommandUpdate: reset and re-initialize when the config differs.  *)
ExecuteUpdate(c, nilNext) ==
    /\ cmd[c].op = "Update"
    /\ IF NeedReinitialization(cmd[c].cfg)
         THEN /\ Reset
              /\ config' = cmd[c].cfg
              /\ fsm' = "initializing"
              /\ UNCHANGED <<gen, recv, packetsLogged, flowPkts>>
         ELSE /\ fsm' = nilNext
              /\ UNCHANGED <<config, srcVars, logVars>>
    /\ UNCHANGED <<state, closed, histVars>>

(* captureCommandRotate runs in three steps of the Run() goroutine, which *)
(* process() interleaves with: nothing orders c.packetsLogged++ with them. *)
(* First c.flowLog.Rotate() and tryGetCaptureStats().                      *)
ExecuteRotate(c, nilNext) ==
    /\ cmd[c].op = "Rotate"
    /\ flowPkts' = 0
    /\ \E s \in TryGetCaptureStats :
         rot' = [recv |-> s, logged |-> 0, next |-> nilNext]
    /\ fsm' = "rotReport"
    /\ UNCHANGED <<state, config, closed, srcVars, errMap, packetsLogged,
                   lastRotationStats, statPkts>>

(* result.stats.PacketsLogged = c.packetsLogged - last PacketsLogged.      *)
RotateReport ==
    /\ fsm = "rotReport"
    /\ rot' = [rot EXCEPT !.logged = packetsLogged - lastRotationStats.logged]
    /\ fsm' = "rotBaseline"
    /\ UNCHANGED <<state, config, closed, srcVars, logVars, procVars,
                   clientVars, statPkts, cancelled, crashed>>

(* c.lastRotationStats = {stats, c.packetsLogged}, then the result is sent *)
(* and execute returns nil.  The second read of the racy c.packetsLogged   *)
(* may see a newer value than the first, or the compiler may reuse the     *)
(* first load: both are outcomes of the build.                             *)
(* Bug variant: the baseline stores the reported delta.                    *)
RotateBaselineStoresDelta ==
    /\ fsm = "rotBaseline"
    /\ lastRotationStats' = [recv   |-> rot.recv - lastRotationStats.recv,
                             logged |-> rot.logged]
    /\ cpc' = [cpc EXCEPT ![mutex] = "reply"]
    /\ statPkts' = statPkts + rot.logged
    /\ fsm' = rot.next
    /\ UNCHANGED <<state, config, closed, srcVars, errMap, packetsLogged,
                   flowPkts, procVars, cmd, mutex, rot, cancelled, crashed>>

RotateBaseline ==
    /\ fsm = "rotBaseline"
    /\ \E l \in {lastRotationStats.logged + rot.logged, packetsLogged} :
         lastRotationStats' = [recv |-> rot.recv, logged |-> l]
    /\ cpc' = [cpc EXCEPT ![mutex] = "reply"]
    /\ statPkts' = statPkts + rot.logged
    /\ fsm' = rot.next
    /\ UNCHANGED <<state, config, closed, srcVars, errMap, packetsLogged,
                   flowPkts, procVars, cmd, mutex, rot, cancelled, crashed>>

Execute(c, nilNext) ==
    /\ cpc[c] = "send"
    /\ cpc' = [cpc EXCEPT ![c] = IF cmd[c].op = "Rotate" THEN "wait" ELSE "reply"]
    /\ \/ ExecuteRead(c, nilNext)
       \/ ExecuteUpdate(c, nilNext)
       \/ ExecuteRotate(c, nilNext)
    /\ UNCHANGED <<cmd, mutex, procVars, cancelled, crashed>>

-----------------------------------------------------------------------------
(* The Run() goroutine.                                                    *)

(* initializing: create the ring buffer source; on failure go to inError.  *)
Initializing ==
    /\ fsm = "initializing"
    /\ state' = "StateInitializing"
    /\ \/ /\ gen < MaxHandles
          /\ gen' = gen + 1
          /\ handle' = gen + 1
          /\ openHandles' = openHandles \cup {gen + 1}
          /\ fsm' = "capturing"
       \/ /\ handle' = NoHandle
          /\ fsm' = "inError"
          /\ UNCHANGED <<gen, openHandles>>
    /\ UNCHANGED <<config, closed, recv, logVars, procVars, clientVars,
                   histVars, cancelled, crashed>>

(* capturing: set the state and start process() on the current source.    *)
Capturing ==
    /\ fsm = "capturing"
    /\ state' = "StateCapturing"
    /\ proc' = [proc EXCEPT ![handle] = "next"]
    /\ fsm' = "capSelect"
    /\ UNCHANGED <<config, closed, srcVars, logVars, cur, errcount,
                   clientVars, histVars, cancelled, crashed>>

(* The select of capturing, case <-c.ctx.Done().                           *)
CapturingCancel ==
    /\ fsm = "capSelect" /\ cancelled
    /\ fsm' = "closing"
    /\ UNCHANGED <<state, config, closed, srcVars, logVars, procVars,
                   clientVars, histVars, cancelled, crashed>>

(* Case cmd := <-c.cmdChan. A command that returns nil falls out of the    *)
(* select to `return nil`, which ends Run().                               *)
CapturingCommand(c) ==
    /\ fsm = "capSelect"
    /\ Execute(c, "exited")

(* Case err := <-c.captureErrors: rendezvous with a process() goroutine.   *)
CapturingError(g) ==
    /\ fsm = "capSelect" /\ proc[g] = "senderr"
    /\ proc' = [proc EXCEPT ![g] = "done"]
    /\ fsm' = "inError"
    /\ UNCHANGED <<state, config, closed, srcVars, logVars, cur, errcount,
                   clientVars, histVars, cancelled, crashed>>

(* inError: set the state, then loop on the select.                        *)
InError ==
    /\ fsm = "inError"
    /\ state' = "StateError"
    /\ fsm' = "errSelect"
    /\ UNCHANGED <<config, closed, srcVars, logVars, procVars, clientVars,
                   histVars, cancelled, crashed>>

InErrorCancel ==
    /\ fsm = "errSelect" /\ cancelled
    /\ fsm' = "closing"
    /\ UNCHANGED <<state, config, closed, srcVars, logVars, procVars,
                   clientVars, histVars, cancelled, crashed>>

InErrorCommand(c) ==
    /\ fsm = "errSelect"
    /\ Execute(c, "errSelect")

(* closing: reset, close(cmdChan), closed = true, leave Run().             *)
Closing ==
    /\ fsm = "closing"
    /\ state' = "StateClosing"
    /\ Reset
    /\ closed' = TRUE
    /\ fsm' = "exited"
    /\ UNCHANGED <<config, gen, recv, packetsLogged, flowPkts, procVars,
                   clientVars, histVars, cancelled, crashed>>

-----------------------------------------------------------------------------
(* The process() goroutine spawned for source g. Each call of              *)
(* capturePacket reads the c.captureHandle field anew.                     *)

(* c.captureHandle.NextPacket(&pkt): read the field and block in the call; *)
(* a nil field is a nil-interface method call, which panics.               *)
ProcessNext(g) ==
    /\ proc[g] = "next"
    /\ IF handle = NoHandle
         THEN /\ crashed' = "nilHandle"
              /\ UNCHANGED <<proc, cur>>
         ELSE /\ cur' = [cur EXCEPT ![g] = handle]
              /\ proc' = [proc EXCEPT ![g] = "wait"]
              /\ UNCHANGED crashed
    /\ UNCHANGED <<fsmVars, srcVars, logVars, errcount, clientVars, histVars,
                   cancelled>>

(* NextPacket returns ErrCaptureStopped once its source is closed: return. *)
ProcessStopped(g) ==
    /\ proc[g] = "wait" /\ cur[g] \notin openHandles
    /\ proc' = [proc EXCEPT ![g] = "done"]
    /\ UNCHANGED <<fsmVars, srcVars, logVars, cur, errcount, clientVars,
                   histVars, cancelled, crashed>>

(* NextPacket returns a packet; Populate decodes it or fails with an error *)
(* string that is counted in errMap; more than ErrorThreshold consecutive  *)
(* failures make process() report to the Run() goroutine.                  *)
ProcessPacket(g) ==
    /\ proc[g] = "wait" /\ cur[g] \in openHandles
    /\ TotalRecv < MaxPackets
    /\ recv' = [recv EXCEPT ![cur[g]] = @ + 1]
    /\ \/ /\ proc' = [proc EXCEPT ![g] = "add"]
          /\ UNCHANGED <<errMap, errcount>>
       \/ \E e \in ErrKinds :
            /\ errcount' = [errcount EXCEPT ![g] = @ + 1]
            /\ errMap' = [errMap EXCEPT ![e] = @ + 1]
            /\ proc' = [proc EXCEPT ![g] = IF errcount[g] + 1 > ErrorThreshold
                                            THEN "senderr" ELSE "next"]
    /\ UNCHANGED <<fsmVars, handle, gen, openHandles, packetsLogged, flowPkts,
                   lastRotationStats, cur, clientVars, histVars, cancelled,
                   crashed>>

(* NextPacket fails with another error: report it on captureErrors.        *)
ProcessCaptureError(g) ==
    /\ proc[g] = "wait" /\ cur[g] \in openHandles
    /\ proc' = [proc EXCEPT ![g] = "senderr"]
    /\ UNCHANGED <<fsmVars, srcVars, logVars, cur, errcount, clientVars,
                   histVars, cancelled, crashed>>

(* c.flowLog.Add(&gppacket)                                                *)
ProcessAdd(g) ==
    /\ proc[g] = "add"
    /\ flowPkts' = flowPkts + 1
    /\ proc' = [proc EXCEPT ![g] = "logged"]
    /\ UNCHANGED <<fsmVars, srcVars, errMap, packetsLogged, lastRotationStats,
                   cur, errcount, clientVars, histVars, cancelled, crashed>>

(* errcount = 0; c.packetsLogged++                                         *)
ProcessLogged(g) ==
    /\ proc[g] = "logged"
    /\ errcount' = [errcount EXCEPT ![g] = 0]
    /\ packetsLogged' = packetsLogged + 1
    /\ proc' = [proc EXCEPT ![g] = "next"]
    /\ UNCHANGED <<fsmVars, srcVars, errMap, flowPkts, lastRotationStats, cur,
                   clientVars, histVars, cancelled, crashed>>

-----------------------------------------------------------------------------
(* The public methods. Each locks c.mutex, returns early on a closed       *)
(* capture (all but Rotate, which has no such check), sends its command on *)
(* the unbuffered cmdChan and waits for the reply (Update: for done()).    *)

Call(c, k) ==
    /\ cpc[c] = "idle" /\ mutex = NoClient
    /\ k.op = "Rotate" \/ ~closed
    /\ mutex' = c
    /\ cmd' = [cmd EXCEPT ![c] = k]
    /\ cpc' = [cpc EXCEPT ![c] = "send"]
    /\ UNCHANGED <<fsmVars, srcVars, logVars, procVars, histVars, cancelled,
                   crashed>>

(* A send on a closed channel, or a sender blocked when it is closed,      *)
(* panics.                                                                 *)
SendOnClosed(c) ==
    /\ cpc[c] = "send" /\ closed
    /\ crashed' = "sendOnClosed"
    /\ UNCHANGED <<fsmVars, srcVars, logVars, procVars, clientVars, histVars,
                   cancelled>>

(* Receive the reply (or done()) and unlock.                               *)
Return(c) ==
    /\ cpc[c] = "reply"
    /\ cpc' = [cpc EXCEPT ![c] = "idle"]
    /\ mutex' = NoClient
    /\ UNCHANGED <<fsmVars, srcVars, logVars, procVars, cmd, histVars,
                   cancelled, crashed>>

(* The owner of the Capture's context cancels it.                          *)
CancelContext ==
    /\ ~cancelled
    /\ cancelled' = TRUE
    /\ UNCHANGED <<fsmVars, srcVars, logVars, procVars, clientVars, histVars,
                   crashed>>

-----------------------------------------------------------------------------
RunStep ==
    \/ Initializing \/ Capturing \/ CapturingCancel \/ InError
    \/ InErrorCancel \/ Closing \/ RotateReport \/ RotateBaseline
    \/ \E c \in Clients : CapturingCommand(c) \/ InErrorCommand(c)
    \/ \E g \in Handles : CapturingError(g)

ProcessStep(g) ==
    \/ ProcessNext(g) \/ ProcessStopped(g) \/ ProcessPacket(g)
    \/ ProcessCaptureError(g) \/ ProcessAdd(g) \/ ProcessLogged(g)

ClientStep(c) ==
    \/ \E k \in Cmds : Call(c, k)
    \/ SendOnClosed(c)
    \/ Return(c)

(* After a panic the program is gone: nothing takes another step.          *)
Next ==
    /\ crashed = "none"
    /\ \/ RunStep
       \/ \E g \in Handles : ProcessStep(g)
       \/ \E c \in Clients : ClientStep(c)
       \/ CancelContext

(* The Go scheduler eventually runs every runnable goroutine; a source's   *)
(* Close() unblocks NextPacket, and close(cmdChan) makes a blocked sender  *)
(* panic. Arrival of packets is not assumed.                               *)
Fairness ==
    /\ WF_vars(RunStep)
    /\ \A g \in Handles : WF_vars(ProcessNext(g) \/ ProcessStopped(g)
                                  \/ ProcessAdd(g) \/ ProcessLogged(g))
    /\ \A c \in Clients : WF_vars(Return(c)) /\ WF_vars(SendOnClosed(c))

Spec == Init /\ [][Next]_vars
FairSpec == Spec /\ Fairness

-----------------------------------------------------------------------------
(* Properties.                                                             *)

(* Only the current ring buffer source may be open: reset() must close a   *)
(* source before initializing creates the next, and closing closes the     *)
(* last one, whatever order updates, errors and cancellation come in.      *)
HandlesNotLeaked ==
    /\ openHandles \subseteq {handle}
    /\ closed => openHandles = {}

(* The PacketsLogged deltas reported by all Rotates, plus the delta Status *)
(* would report now, add up to packetsLogged: every packet process()       *)
(* logged is reported once, by the next Rotate (capture.go 420-424, 525).  *)
PacketsReportedOnce ==
    statPkts + (packetsLogged - lastRotationStats.logged) = packetsLogged

(* Run() leaves its loop only through closing: otherwise the next public   *)
(* call blocks on cmdChan forever, holding c.mutex.                        *)
CommandLoopAlive == fsm = "exited" => closed

(* No public method sends on the closed cmdChan (a Go panic).              *)
NoSendOnClosedChannel == crashed # "sendOnClosed"

(* The process() goroutine started for source g acts only on g: whenever  *)
(* it reads c.captureHandle for NextPacket, the field still holds g (not   *)
(* nil, not a newer source), and its capture error is received only while *)
(* g is the current source. An Update or error path that replaces the      *)
(* source while the goroutine runs breaks this.                            *)
ProcessConfinedToItsSource ==
    [][\A g \in Handles :
         /\ (proc[g] = "next" /\ (proc'[g] = "wait" \/ crashed' = "nilHandle"))
                => handle = g
         /\ (proc[g] = "senderr" /\ proc'[g] = "done") => handle = g]_vars

(* Once the capture is closed, every process() goroutine ends (unless the  *)
(* program has panicked).                                                  *)
ProcessTerminates ==
    closed ~> (crashed # "none" \/ \A g \in Handles : proc[g] \in {"idle", "done"})
=============================================================================
