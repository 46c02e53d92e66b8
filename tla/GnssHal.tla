------------------------------ MODULE GnssHal ------------------------------
(***************************************************************************)
(* The GNSS HIDL service (MtkGnss.cpp and the extensions) over the GPS HAL *)
(* (gps_hal: gpsinf.c, gpshal.c, gpshal_worker.c, hal2mnl_interface.c) and *)
(* its datagram link to mnld.  Two threads of the service write the HAL's  *)
(* state: the binder thread that runs the framework's calls, and the       *)
(* worker that handles mnld's messages and, after a reboot of mnld, sends  *)
(* the calls again.  The mutex that gpshal.h declares for them is not      *)
(* taken by any of them.  mnld, the service and the framework may die, and *)
(* safe_sendto may give up on a datagram although its receiver lives.      *)
(*                                                                         *)
(* mnld is here what its hal_* handlers and mnld_fsm do for this one       *)
(* client with offload off; MnldSystem has the rest of it.                 *)
(***************************************************************************)
EXTENDS Naturals, Sequences, Functions

CONSTANTS MaxCalls,        \* bound: calls of the framework
          MaxFaults,       \* bound: deaths of mnld, the service and the framework, NMEA
                           \* timeouts, datagrams given up on
          MaxReports       \* bound: measurement reports of mnld

ASSUME BoundsAssumption == /\ MaxCalls \in Nat
                           /\ MaxFaults \in Nat
                           /\ MaxReports \in Nat

VARIABLES hal,    \* g_gpshal_ctx: intent and state, the socket, meas_cbs
          todo,   \* what each thread of the service has still to do
          gnss,   \* MtkGnss: sGnssCbIface and the two wakelock flags
          fw,     \* the framework: its wakelock, the session status it was told, its own view
          mnld,   \* the daemon as far as the HAL client goes
          h2m,    \* datagrams to mnld
          m2h,    \* datagrams to the HAL
          lost,   \* history: the datagrams given up on, and those nothing has made good since
          past    \* history: bounded counters and what has happened so far

vars == <<hal, todo, gnss, fw, mnld, h2m, m2h, lost, past>>

Thread == {"binder", "worker"}
GpsState == {"unknown", "resource", "cleanup", "init", "stop", "start"}
Cmd == {"reboot", "init", "start", "stop", "cleanup", "measOn", "measOff"}
Note == {"reboot", "request", "release", "begin", "end", "meas"}
Op == ({"intent", "cmd", "mark"} \X {"init", "start", "stop", "cleanup"})
      \cup ({"forward"} \X {"measOn", "measOff"})
      \cup {<<"null", "iface">>}

HalBoot == [intent |-> "unknown", state |-> "unknown", bound |-> FALSE, meas |-> FALSE]
GnssBoot == [iface |-> FALSE, gnss |-> FALSE, held |-> FALSE]
FwBoot == [alive |-> FALSE, lock |-> FALSE, session |-> FALSE, enabled |-> FALSE]
MnldBoot == [up |-> TRUE, init |-> FALSE, used |-> FALSE, openAck |-> FALSE,
             closeAck |-> FALSE, engine |-> "idle", meas |-> FALSE]

Init ==
    /\ hal = HalBoot
    /\ todo = [t \in Thread |-> <<>>]
    /\ gnss = GnssBoot
    /\ fw = FwBoot
    /\ mnld = MnldBoot
    /\ h2m = <<>>
    /\ m2h = <<>>
    /\ lost = [count |-> 0, of |-> {}]
    /\ past = [calls |-> 0, mnldDeaths |-> 0, halDeaths |-> 0, fwDeaths |-> 0,
               reports |-> 0, raced |-> FALSE, died |-> FALSE, null |-> FALSE]

Faults == past.mnldDeaths + past.halDeaths + past.fwDeaths + lost.count

\* safe_sendto fails if mnld is down, and gives up on a live mnld after ten EAGAINs: of is what
\* was lost before
ToMnld(c, sent, of) ==
    /\ sent => mnld.up
    /\ h2m' = IF sent THEN Append(h2m, c) ELSE h2m
    /\ lost' = IF sent \/ ~mnld.up THEN [lost EXCEPT !.of = of]
               ELSE [count |-> lost.count + 1, of |-> of \cup {c}]
    /\ Faults' <= MaxFaults

\* What may get through of the at most two datagrams of a handler of mnld
Part(ms) == {<<>>, ms} \cup {<<ms[i]>> : i \in DOMAIN ms}

\* The datagrams that a later one of mnld makes good: a status replaces the one before it
Topic(m) == IF m \in {"request", "release"} THEN {"request", "release"}
            ELSE IF m \in {"begin", "end"} THEN {"begin", "end"} ELSE {}

\* mnld ignores the result of its safe_sendto, and nobody gets what is sent before the HAL has
\* its socket
ToHal(ms) ==
    \E q \in IF hal.bound THEN Part(ms) ELSE {<<>>} :
        /\ m2h' = m2h \o q
        /\ lost' = IF hal.bound
                   THEN [count |-> lost.count + Len(ms) - Len(q),
                         of |-> (lost.of \ UNION {Topic(m) : m \in Range(q)})
                                   \cup (Range(ms) \ Range(q))]
                   ELSE lost
        /\ Faults' <= MaxFaults

-----------------------------------------------------------------------------
\* The framework's calls, as what the binder thread will do

Mut_Gpsinf(c) == <<<<"cmd", c>>, <<"intent", c>>>>
Gpsinf(c) == <<<<"intent", c>>, <<"cmd", c>>>>

Call(ops) ==
    /\ todo.binder = <<>>
    /\ past.calls < MaxCalls
    /\ todo' = [todo EXCEPT !.binder = ops]
    /\ past' = [past EXCEPT !.calls = @ + 1]

\* MtkGnss::setCallback and gpsinf_init.  gpshal_resource_init makes the socket and the
\* worker at most once, and a failure is never retried.
SetCallback ==
    /\ ~fw.enabled
    /\ Call(Gpsinf("init"))
    /\ fw' = [fw EXCEPT !.enabled = TRUE, !.alive = TRUE]
    /\ gnss' = [gnss EXCEPT !.iface = TRUE]
    /\ \E ok \in BOOLEAN :
          hal' = IF hal.intent = "unknown" /\ ok
                 THEN [hal EXCEPT !.bound = TRUE, !.state = "resource"]
                 ELSE hal
    /\ UNCHANGED <<mnld, h2m, m2h, lost>>

StartStop ==
    /\ fw.enabled
    /\ \E c \in {"start", "stop"} : Call(Gpsinf(c))
    /\ UNCHANGED <<hal, gnss, fw, mnld, h2m, m2h, lost>>

\* The framework disables the provider: stop, then cleanup
Disable ==
    /\ fw.enabled
    /\ Call(Gpsinf("stop") \o Gpsinf("cleanup"))
    /\ fw' = [fw EXCEPT !.enabled = FALSE]
    /\ UNCHANGED <<hal, gnss, mnld, h2m, m2h, lost>>

\* measinf_init, measinf_close: the callbacks are stored, the setting is sent on
Measure(on) ==
    /\ fw.enabled
    /\ Call(<<<<"forward", IF on THEN "measOn" ELSE "measOff">>>>)
    /\ hal' = [hal EXCEPT !.meas = @ \/ on]
    /\ UNCHANGED <<gnss, fw, mnld, h2m, m2h, lost>>

Mut_FwDie ==
    /\ gnss.iface
    /\ todo.binder = <<>>
    /\ Faults < MaxFaults
    /\ past' = [past EXCEPT !.fwDeaths = @ + 1]
    /\ fw' = FwBoot
    /\ todo' = [todo EXCEPT !.binder = <<<<"null", "iface">>>> \o Gpsinf("stop")
                                       \o <<<<"forward", "measOff">>>> \o Gpsinf("cleanup")]
    /\ UNCHANGED <<gnss, mnld, h2m, m2h, lost>>
    /\ hal' = [hal EXCEPT !.meas = FALSE]

\* The framework dies; MtkGnss::handleHidlDeath runs on a binder thread
FwDie ==
    /\ gnss.iface
    /\ todo.binder = <<>>
    /\ Faults < MaxFaults
    /\ past' = [past EXCEPT !.fwDeaths = @ + 1]
    /\ fw' = FwBoot
    /\ todo' = [todo EXCEPT !.binder = <<<<"null", "iface">>>> \o Gpsinf("stop")
                                       \o <<<<"forward", "measOff">>>> \o Gpsinf("cleanup")]
    /\ UNCHANGED <<hal, gnss, mnld, h2m, m2h, lost>>

-----------------------------------------------------------------------------
\* One step of a thread of the service

\* gpshal2mnl_gps_*: nothing is sent before the resources are there, and gps_state follows
\* only a datagram that was sent
SendCmd(t, c) ==
    /\ \E sent \in BOOLEAN :
          /\ IF hal.state # "unknown" THEN ToMnld(c, sent, lost.of)
             ELSE ~sent /\ UNCHANGED <<h2m, lost>>
          /\ todo' = [todo EXCEPT ![t] = IF sent THEN <<<<"mark", c>>>> \o Tail(@) ELSE Tail(@)]
    /\ UNCHANGED <<hal, gnss>>

Run(t, op) ==
    \/ /\ op[1] = "intent"
       /\ hal' = [hal EXCEPT !.intent = op[2]]
       /\ todo' = [todo EXCEPT ![t] = Tail(@)]
       /\ UNCHANGED <<gnss, h2m, lost>>
    \/ /\ op[1] = "cmd"
       /\ SendCmd(t, op[2])
    \/ /\ op[1] = "mark"
       /\ hal' = [hal EXCEPT !.state = op[2]]
       /\ todo' = [todo EXCEPT ![t] = Tail(@)]
       /\ UNCHANGED <<gnss, h2m, lost>>
    \/ /\ op[1] = "forward"
       /\ \E sent \in BOOLEAN : ToMnld(op[2], sent, lost.of)
       /\ todo' = [todo EXCEPT ![t] = Tail(@)]
       /\ UNCHANGED <<hal, gnss>>
    \/ /\ op[1] = "null"
       /\ gnss' = [gnss EXCEPT !.iface = FALSE]
       /\ todo' = [todo EXCEPT ![t] = Tail(@)]
       /\ UNCHANGED <<hal, h2m, lost>>

Step(t) ==
    /\ todo[t] # <<>>
    /\ past' = [past EXCEPT !.raced = @ \/ \A u \in Thread : todo[u] # <<>>]
    /\ Run(t, Head(todo[t]))
    /\ UNCHANGED <<fw, mnld, m2h>>

\* update_mnld_reboot: the intent is read once, then acted on
Resend ==
    CASE hal.intent \in {"init", "stop"} -> <<<<"cmd", "init">>>>
      [] hal.intent = "start"            -> <<<<"cmd", "init">>, <<"cmd", "start">>>>
      [] OTHER                           -> <<>>

\* A callback reaches the framework
Heard == gnss.iface /\ fw.alive

Mut_UpdateWakelock(want) ==
    /\ gnss' = [gnss EXCEPT !.gnss = want, !.held = @ \/ (gnss.iface /\ want)]
    /\ fw' = [fw EXCEPT !.lock = IF ~Heard \/ (want /\ gnss.held) THEN @ ELSE want]

\* updateWakelock: held is the static flag that remembers the last request
UpdateWakelock(want) ==
    /\ gnss' = [gnss EXCEPT !.gnss = want, !.held = IF gnss.iface THEN want ELSE @]
    /\ fw' = [fw EXCEPT !.lock = IF ~Heard \/ (want /\ gnss.held) THEN @ ELSE want]

Report(m) ==
    \/ /\ m = "reboot"
       /\ todo' = [todo EXCEPT !.worker = Resend]
       /\ UNCHANGED <<gnss, fw, past>>
    \/ /\ m \in {"request", "release"}
       /\ UpdateWakelock(m = "request")
       /\ UNCHANGED <<todo, past>>
    \/ /\ m \in {"begin", "end"}
       /\ fw' = IF Heard THEN [fw EXCEPT !.session = (m = "begin")] ELSE fw
       /\ UNCHANGED <<todo, gnss, past>>
    \/ /\ m = "meas"
       /\ past' = [past EXCEPT !.null = @ \/ ~hal.meas]
       /\ UNCHANGED <<todo, gnss, fw>>

\* mnl2hal_hdlr on the worker thread
WorkerRecv ==
    /\ hal.bound
    /\ todo.worker = <<>>
    /\ m2h # <<>>
    /\ Report(Head(m2h))
    /\ m2h' = Tail(m2h)
    /\ UNCHANGED <<hal, mnld, h2m, lost>>

-----------------------------------------------------------------------------
\* mnld

\* do_gps_started_hdlr, do_gps_stopped_hdlr for the HAL client: the state after, and the
\* status pair that is sent
StartedHdlr(d) == IF d.openAck THEN <<[d EXCEPT !.openAck = FALSE], <<"begin">>>>
                               ELSE <<d, <<>>>>
StoppedHdlr(d) == IF d.closeAck THEN <<[d EXCEPT !.closeAck = FALSE], <<"end">>>>
                                ELSE <<d, <<>>>>

\* mnld_fsm on START and on STOP
FsmStart(d) ==
    CASE d.engine = "idle"    -> <<[d EXCEPT !.engine = "starting"], <<"request">>>>
      [] d.engine = "started" -> StartedHdlr(d)
      [] OTHER                -> <<d, <<>>>>

FsmStop(d) ==
    CASE d.engine = "idle"                 -> StoppedHdlr(d)
      [] d.engine = "started" /\ ~d.used   -> <<[d EXCEPT !.engine = "stopping"], <<>>>>
      [] d.engine = "started" /\ d.used    -> StoppedHdlr(d)
      [] OTHER                             -> <<d, <<>>>>

\* hal_reboot, hal_gps_*, hal_set_gps_measurement
Handle(c) ==
    CASE c = "reboot"  -> FsmStop([mnld EXCEPT !.used = FALSE, !.openAck = FALSE,
                                               !.closeAck = FALSE])
      [] c = "init"    -> <<[mnld EXCEPT !.init = TRUE], <<>>>>
      [] c = "start"   -> FsmStart([mnld EXCEPT !.used = TRUE, !.openAck = TRUE,
                                                !.closeAck = FALSE])
      [] c = "stop"    -> FsmStop([mnld EXCEPT !.used = FALSE, !.openAck = FALSE,
                                               !.closeAck = TRUE])
      [] c = "cleanup" -> <<[mnld EXCEPT !.init = FALSE], <<>>>>
      [] OTHER         -> <<[mnld EXCEPT !.meas = (c = "measOn")], <<>>>>

MnldRecv ==
    /\ mnld.up
    /\ h2m # <<>>
    /\ UNCHANGED <<hal, todo, gnss, fw, past>>
    /\ LET r == Handle(Head(h2m)) IN mnld' = r[1] /\ ToHal(r[2])
    /\ h2m' = Tail(h2m)

\* START_DONE and STOP_DONE
Mut_StartDone(d) == IF d.used THEN StartedHdlr(d)
                    ELSE <<[d EXCEPT !.engine = "stopping"], <<>>>>
StartDone(d) ==
    LET r == StartedHdlr(d)
    IN  <<[r[1] EXCEPT !.engine = IF d.used THEN "started" ELSE "stopping"], r[2]>>
Mut_StopDone(d) ==
    LET r == StoppedHdlr(d)
    IN  <<[r[1] EXCEPT !.engine = IF d.used THEN "starting" ELSE "idle"], r[2]>>
StopDone(d) ==
    LET r == StoppedHdlr(d)
    IN  IF d.used THEN <<[r[1] EXCEPT !.engine = "starting"], r[2]>>
                  ELSE <<[r[1] EXCEPT !.engine = "idle"], Append(r[2], "release")>>

EngineDone ==
    /\ mnld.up
    /\ mnld.engine \in {"starting", "stopping"}
    /\ UNCHANGED <<hal, todo, gnss, fw, h2m, past>>
    /\ LET r == IF mnld.engine = "starting" THEN StartDone(mnld) ELSE StopDone(mnld)
       IN  mnld' = r[1] /\ ToHal(r[2])

\* Measurements go up while the engine runs and they are enabled
MnldReport ==
    /\ mnld.up /\ mnld.engine = "started" /\ mnld.meas
    /\ past.reports < MaxReports
    /\ past' = [past EXCEPT !.reports = @ + 1]
    /\ ToHal(<<"meas">>)
    /\ UNCHANGED <<hal, todo, gnss, fw, mnld, h2m>>

\* GPS2MAIN_EVENT_NMEA_TIMEOUT: every user is dropped, and told that mnld rebooted
NmeaTimeout ==
    /\ mnld.up /\ mnld.engine = "started"
    /\ Faults < MaxFaults
    /\ past' = [past EXCEPT !.mnldDeaths = @ + 1]
    /\ LET r == FsmStop([mnld EXCEPT !.used = FALSE])
       IN  mnld' = r[1] /\ ToHal(Append(r[2], "reboot"))
    /\ UNCHANGED <<hal, todo, gnss, fw, h2m>>

\* mnld dies with what its socket held, and mnld_init of the next one reports the reboot: what
\* did not arrive at the dead one, or from it, counts no more
MnldDie ==
    /\ mnld.up
    /\ Faults < MaxFaults
    /\ past' = [past EXCEPT !.mnldDeaths = @ + 1, !.died = TRUE]
    /\ mnld' = [MnldBoot EXCEPT !.up = FALSE]
    /\ h2m' = <<>>
    /\ lost' = [lost EXCEPT !.of = {}]
    /\ UNCHANGED <<hal, todo, gnss, fw, m2h>>

MnldInit ==
    /\ ~mnld.up
    /\ mnld' = MnldBoot
    /\ UNCHANGED <<hal, todo, gnss, fw, h2m, past>>
    /\ ToHal(<<"reboot">>)

\* The service dies and is started again: gps_device__get_gps_interface reports it, and the
\* framework connects anew.  What the dead one did not send or get counts no more
HalDie ==
    /\ Faults < MaxFaults
    /\ past' = [past EXCEPT !.halDeaths = @ + 1, !.raced = FALSE]
    /\ hal' = HalBoot
    /\ gnss' = GnssBoot
    /\ todo' = [t \in Thread |-> <<>>]
    /\ fw' = FwBoot
    /\ m2h' = <<>>
    /\ \E sent \in BOOLEAN : ToMnld("reboot", sent, {})
    /\ UNCHANGED mnld

Next ==
    \/ SetCallback \/ StartStop \/ Disable \/ Measure(TRUE) \/ Measure(FALSE) \/ FwDie
    \/ Step("binder") \/ Step("worker") \/ WorkerRecv
    \/ MnldRecv \/ EngineDone \/ MnldReport
    \/ NmeaTimeout \/ MnldDie \/ MnldInit \/ HalDie

Spec == Init /\ [][Next]_vars

\* Threads that have work run, mnld handles what it is sent, its engine completes, and init
\* restarts it
FairSpec ==
    /\ Spec
    /\ WF_vars(Step("binder")) /\ WF_vars(Step("worker")) /\ WF_vars(WorkerRecv)
    /\ WF_vars(MnldRecv) /\ WF_vars(EngineDone) /\ WF_vars(MnldInit)

-----------------------------------------------------------------------------
HalContext == [intent : GpsState \ {"resource"}, state : GpsState, bound : BOOLEAN, meas : BOOLEAN]
Service == [iface : BOOLEAN, gnss : BOOLEAN, held : BOOLEAN]
Framework == [alive : BOOLEAN, lock : BOOLEAN, session : BOOLEAN, enabled : BOOLEAN]
Daemon == [up : BOOLEAN, init : BOOLEAN, used : BOOLEAN, openAck : BOOLEAN, closeAck : BOOLEAN,
           engine : {"idle", "starting", "started", "stopping"}, meas : BOOLEAN]
Losses == [count : Nat, of : SUBSET (Cmd \cup Note)]
Past == [calls : Nat, mnldDeaths : Nat, halDeaths : Nat, fwDeaths : Nat, reports : Nat,
         raced : BOOLEAN, died : BOOLEAN, null : BOOLEAN]

\* The variables of the HAL, the service, the framework and mnld have their types: in
\* particular gps_state_intent is never the resource state, which only gps_state passes through.
TypeOK ==
    /\ hal \in HalContext
    /\ todo \in [Thread -> Seq(Op)]
    /\ gnss \in Service
    /\ fw \in Framework
    /\ mnld \in Daemon
    /\ h2m \in Seq(Cmd)
    /\ m2h \in Seq(Note)
    /\ lost \in Losses
    /\ past \in Past

\* Nobody has anything left to do
Quiet ==
    /\ \A t \in Thread : todo[t] = <<>>
    /\ h2m = <<>> /\ m2h = <<>>
    /\ mnld.up /\ mnld.engine \in {"idle", "started"}

\* No request of the HAL and no report of a reboot was given up on, or mnld or the service has
\* died since
Told == lost.of \cap {"reboot", "init", "start", "stop", "cleanup"} = {}

\* Whatever died, and whatever else was given up on, once everything is quiet mnld runs the
\* engine for the HAL exactly if that is what the HAL's intent says, and the HAL is in the state
\* in which it passes locations on.  Not promised if a call of the framework overlapped the
\* handling of a reboot message (both write gps_state and send, without a lock), nor if
\* safe_sendto gave up on a request or a reboot message between live peers: neither is sent
\* again before one of the two dies.
Agreement ==
    Quiet /\ ~past.raced /\ Told /\ (hal.state # "unknown" \/ hal.intent = "unknown") =>
        /\ mnld.used <=> hal.intent = "start"
        /\ mnld.engine = "started" <=> hal.intent = "start"
        /\ hal.intent = "start" => hal.state = "start"
        /\ hal.intent # "unknown" => (mnld.init <=> hal.intent # "cleanup")

\* While mnld runs the engine, the framework holds the wakelock mnld asked for
\* (mnl2hal_request_wakelock through updateWakelock), even if mnld died on the way.  After a
\* death of the framework the static flag of updateWakelock still says "held", and after one
\* of the service a restart out of STOPPING asks for nothing.  A request that safe_sendto gave
\* up on is not made again before the engine has been off.
WakelockHeld ==
    Quiet /\ past.fwDeaths + past.halDeaths = 0 /\ gnss.iface
        => (mnld.engine = "started" => fw.lock \/ "request" \in lost.of)

\* The framework keeps neither the wakelock nor an open session once the engine is off,
\* unless mnld died (its successor owes nobody a release or a SESSION_END) or the service did
\* (hal_reboot forgets the owed SESSION_END of a start that is still under way).  A session may
\* stay open after a race of a stop with the handling of a reboot message: the engine then runs
\* against the intent, and if its NMEA times out nobody asks for the end of the session.  The
\* same holds of a stop that was given up on; a release or a SESSION_END that was is itself
\* what is missing, until a later notice of its kind arrives.
NothingKept ==
    Quiet /\ ~past.died /\ past.fwDeaths + past.halDeaths = 0 /\ mnld.engine = "idle" =>
        /\ fw.lock => "release" \in lost.of
        /\ fw.session => past.raced \/ ~Told \/ "end" \in lost.of

\* A measurement message finds meas_cbs set: measinf_init stores them before it asks for
\* measurements.  After a restart of the service mnld may still have them enabled.
NoNullCallback == past.null => past.halDeaths > 0

\* A framework that leaves GPS started gets it running, whichever datagrams died with mnld and
\* whatever was given up on before it did.
Recovers ==
    <>[](hal.intent = "start" /\ hal.state # "unknown" /\ ~past.raced /\ Told)
        => <>[](mnld.engine = "started" /\ hal.state = "start")

=============================================================================
