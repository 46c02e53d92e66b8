------------------------------ MODULE WifiHal ------------------------------
(***************************************************************************)
(* The Wi-Fi HIDL service (wifi.cpp, wifi_chip.cpp, wifi_sta_iface.cpp)    *)
(* over its legacy HAL object (wifi_legacy_hal.cpp) and the vendor library *)
(* (wifi_hal.cpp, common.cpp).                                             *)
(*                                                                         *)
(* One binder thread runs the HIDL calls, each under the global lock.  The *)
(* library's event loop is a detached thread, which takes that lock for    *)
(* every callback and once more when it ends.  A stop hands "Exit" and     *)
(* "Done" to and fro with the loop while it holds the lock, and then gives *)
(* the lock up for at most 100 ms for the loop's thread to end.            *)
(***************************************************************************)
EXTENDS Integers, Sequences, FiniteSets

CONSTANTS Builds,       \* feature flags of the builds considered
          RequestId,    \* ids that clients give to monitors
          MaxCalls,     \* bound: HIDL calls
          MaxFaults,    \* bound: failing driver operations, late loops, hangups of the socket
          MaxEvents     \* bound: RSSI events of the driver

ASSUME WifiAssumption == /\ Builds \subseteq [dual : BOOLEAN, aware : BOOLEAN, noAp : BOOLEAN]
                         /\ RequestId \subseteq Int
                         /\ MaxCalls \in Nat
                         /\ MaxFaults \in Nat
                         /\ MaxEvents \in Nat

VARIABLES build,    \* feature_flags_
          wifi,     \* Wifi: run_state_; and whether the driver is loaded
          chip,     \* WifiChip: current_mode_id_, interfaces of each type, its STA object
          legacy,   \* WifiLegacyHal: is_started_, awaiting..., the RSSI callback's object
          hal,      \* hal_info: outstanding commands, event handlers, the cleanup sockets
          refs,     \* mRefs of each SetRSSIMonitorCommand
          binder,   \* the binder thread
          loop,     \* the event loop's thread
          past      \* history: bounded counters and what has happened so far

vars == <<build, wifi, chip, legacy, hal, refs, binder, loop, past>>

IfaceType == {"STA", "AP", "P2P", "NAN"}
NoMode == "none"
Mode == {"V1Sta", "V1Ap", "V2"}

\* wifi_request_id is an int: a client's cmd_id 0xFFFFFFFF is -1, which stopRssiMonitoring takes
\* for any monitor
AnyId == -1

NoChip == [exists |-> FALSE, mode |-> NoMode, ifaces |-> [t \in IfaceType |-> 0], sta |-> 0]
NoLegacy == [started |-> FALSE, awaiting |-> FALSE, cb |-> 0]
NoHal == [alive |-> FALSE, cmds |-> <<>>, cbs |-> <<>>, events |-> 0,
          exit |-> FALSE, done |-> FALSE]
Idle == [pc |-> "idle", op |-> "none", mode |-> NoMode]
NoLoop == [pc |-> "none", cmd |-> 0]

Init ==
    /\ build \in Builds
    /\ wifi = [run |-> "stopped", driver |-> FALSE]
    /\ chip = NoChip
    /\ legacy = NoLegacy
    /\ hal = NoHal
    /\ refs = [c \in 1 .. MaxCalls |-> 0]
    /\ binder = Idle
    /\ loop = NoLoop
    /\ past = [calls |-> 0, faults |-> 0, events |-> 0, botched |-> FALSE, late |-> FALSE,
               strayId |-> FALSE, hup |-> FALSE, abort |-> "no"]

-----------------------------------------------------------------------------
\* Modes and interface combinations

\* populateModes: the modes of a build, and of a mode the limits: of the types in a limit there
\* may be one interface
P2pOrNan(b) == IF b.aware THEN {"P2P", "NAN"} ELSE {"P2P"}
Modes == IF build.dual THEN {"V2"} ELSE IF build.noAp THEN {"V1Sta"} ELSE {"V1Sta", "V1Ap"}
Limits(b, m) ==
    CASE m = "V1Sta" -> {{"STA"}, P2pOrNan(b)}
      [] m = "V1Ap"  -> {{"AP"}}
      [] m = "V2"    -> {{"STA"}, P2pOrNan(b)} \cup (IF b.noAp THEN {} ELSE {{"AP"}})
      [] OTHER       -> {}

\* expandIfaceCombinations: every way to use the limits, as the number of interfaces of each type
Combinations(b, m) ==
    {[t \in IfaceType |-> Cardinality({l \in Limits(b, m) : pick[l] = t})] :
        pick \in {p \in [Limits(b, m) -> IfaceType] : \A l \in Limits(b, m) : p[l] \in l}}

Fits(b, ifaces, m) == \E combo \in Combinations(b, m) : \A t \in IfaceType : ifaces[t] <= combo[t]

\* canCurrentModeSupportIfaceOfType
CanSupport(t) == chip.mode # NoMode /\ Fits(build, [chip.ifaces EXCEPT ![t] = @ + 1], chip.mode)

-----------------------------------------------------------------------------
\* HIDL calls

Called == /\ binder.pc = "idle"
          /\ past.calls < MaxCalls

\* A past that counts the call, or a failure as well
Counted == [past EXCEPT !.calls = @ + 1]
Failed == [past EXCEPT !.faults = @ + 1]
CanFail == past.faults < MaxFaults

\* WifiNanIface::invalidate uses legacy_hal_, which the constructor of a NAN interface has
\* reset: the vendor library does not support NAN
Crashes(p) == [p EXCEPT !.abort = IF chip.ifaces["NAN"] > 0 THEN "nan" ELSE @]

\* Wifi::start loads the driver and creates the chip
Start ==
    /\ Called /\ wifi.run = "stopped"
    /\ \/ /\ wifi' = [run |-> "started", driver |-> TRUE]
          /\ chip' = [NoChip EXCEPT !.exists = TRUE]
          /\ past' = Counted
       \/ /\ CanFail
          /\ past' = [Counted EXCEPT !.faults = @ + 1]
          /\ UNCHANGED <<wifi, chip>>
    /\ UNCHANGED <<build, legacy, hal, refs, binder, loop>>

Mut_LegacyStop(op, m) ==
    /\ binder' = [pc |-> IF legacy.started THEN "read" ELSE "tail", op |-> op, mode |-> m]
    /\ hal' = [hal EXCEPT !.exit = legacy.started]
    /\ UNCHANGED legacy

\* WifiLegacyHal::stop up to wifi_cleanup's write of "Exit".  A legacy HAL that is not started
\* calls back at once.
LegacyStop(op, m) ==
    /\ binder' = [pc |-> IF legacy.started THEN "read" ELSE "tail", op |-> op, mode |-> m]
    /\ legacy' = [legacy EXCEPT !.awaiting = @ \/ legacy.started]
    /\ hal' = [hal EXCEPT !.exit = legacy.started]

\* Wifi::stop
Stop ==
    /\ Called /\ wifi.run = "started"
    /\ wifi' = [wifi EXCEPT !.run = IF legacy.started THEN "stopping" ELSE "stopped"]
    /\ chip' = NoChip
    /\ past' = [Crashes(Counted) EXCEPT !.botched = FALSE]
    /\ LegacyStop("stop", NoMode)
    /\ UNCHANGED <<build, refs, loop>>

Mut_Reconfigure(m) ==
    /\ Called /\ chip.exists /\ m \in Modes \ {chip.mode}
    /\ chip.mode # NoMode
    /\ past' = Crashes(Counted)
    /\ LegacyStop("configure", m)
    /\ UNCHANGED <<build, wifi, chip, refs, loop>>

\* WifiChip::configureChip, for a chip in another mode: the interfaces go, the legacy HAL stops
Reconfigure(m) ==
    /\ Called /\ chip.exists /\ m \in Modes \ {chip.mode}
    /\ chip.mode # NoMode
    /\ chip' = [chip EXCEPT !.ifaces = NoChip.ifaces, !.sta = 0]
    /\ past' = Crashes(Counted)
    /\ LegacyStop("configure", m)
    /\ UNCHANGED <<build, wifi, refs, loop>>

\* WifiChip::configureChip, for a chip that is in no mode yet
Configure(m) ==
    /\ Called /\ chip.exists /\ m \in Modes
    /\ chip.mode = NoMode
    /\ past' = Counted
    /\ binder' = [pc |-> "tail", op |-> "configure", mode |-> m]
    /\ UNCHANGED <<build, wifi, chip, legacy, hal, refs, loop>>

\* createStaIface, createApIface, createP2pIface, createNanIface
Create(t) ==
    /\ Called /\ chip.exists /\ CanSupport(t)
    /\ chip' = [chip EXCEPT !.ifaces[t] = @ + 1,
                            !.sta = IF t = "STA" THEN past.calls + 1 ELSE @]
    /\ past' = Counted
    /\ UNCHANGED <<build, wifi, legacy, hal, refs, binder, loop>>

\* removeStaIface ... removeNanIface: what the legacy HAL does for the interface goes on
Remove(t) ==
    /\ Called /\ chip.exists /\ chip.ifaces[t] > 0
    /\ chip' = [chip EXCEPT !.ifaces[t] = @ - 1, !.sta = IF t = "STA" THEN 0 ELSE @]
    /\ past' = IF t = "NAN" THEN Crashes(Counted) ELSE Counted
    /\ UNCHANGED <<build, wifi, legacy, hal, refs, binder, loop>>

-----------------------------------------------------------------------------
\* RSSI monitoring

\* wifi_unregister_cmd: the first command with the id
Index(cmds, id) == CHOOSE k \in DOMAIN cmds : cmds[k].id = id /\ \A j \in 1 .. k - 1 : cmds[j].id # id
Without(s, k) == SubSeq(s, 1, k - 1) \o SubSeq(s, k + 1, Len(s))

Mut_StartRssi(id) ==
    /\ Called /\ chip.ifaces["STA"] > 0 /\ legacy.cb = 0
    /\ LET c == past.calls + 1
           cmds == Append(hal.cmds, [id |-> id, cmd |-> c])
       IN  \/ /\ legacy.started
              /\ legacy' = [legacy EXCEPT !.cb = chip.sta]
              /\ hal' = [hal EXCEPT !.cmds = cmds, !.cbs = Append(@, c)]
              /\ refs' = [refs EXCEPT ![c] = 1]
              /\ past' = Counted
           \/ /\ legacy.started /\ CanFail
              /\ hal' = [hal EXCEPT !.cmds = cmds]
              /\ past' = [Counted EXCEPT !.faults = @ + 1]
              /\ UNCHANGED <<legacy, refs>>
           \/ /\ ~legacy.started
              /\ past' = [Counted EXCEPT !.abort = "null"]
              /\ UNCHANGED <<legacy, hal, refs>>
    /\ UNCHANGED <<build, wifi, chip, binder, loop>>

\* startRssiMonitoring on the STA interface.  The driver may refuse.  Without a started legacy
\* HAL the interface's handle is null, and the library uses it.
StartRssi(id) ==
    /\ Called /\ chip.ifaces["STA"] > 0 /\ legacy.cb = 0
    /\ LET c == past.calls + 1
           cmds == Append(hal.cmds, [id |-> id, cmd |-> c])
       IN  \/ /\ legacy.started
              /\ legacy' = [legacy EXCEPT !.cb = chip.sta]
              /\ hal' = [hal EXCEPT !.cmds = cmds, !.cbs = Append(@, c)]
              /\ refs' = [refs EXCEPT ![c] = 1]
              /\ past' = Counted
           \/ /\ legacy.started /\ CanFail
              /\ hal' = [hal EXCEPT !.cmds = Without(cmds, Index(cmds, id))]
              /\ past' = [Counted EXCEPT !.faults = @ + 1]
              /\ UNCHANGED <<legacy, refs>>
           \/ /\ ~legacy.started
              /\ past' = [Counted EXCEPT !.abort = "null"]
              /\ UNCHANGED <<legacy, hal, refs>>
    /\ UNCHANGED <<build, wifi, chip, binder, loop>>

\* stopRssiMonitoring: wifi_cancel_cmd takes the first RSSI handler away, whosever it is, and
\* drops the command's reference.  It answers INVALID_ARGS to an id it does not know.  For -1 a
\* command made for the purpose takes the handler away: the one registered stays.
StopRssi(id) ==
    /\ Called /\ chip.ifaces["STA"] > 0 /\ legacy.cb # 0
    /\ legacy' = [legacy EXCEPT !.cb = 0]
    /\ \/ /\ id # AnyId
          /\ \E k \in DOMAIN hal.cmds : hal.cmds[k].id = id
          /\ LET k == Index(hal.cmds, id)
                 c == hal.cmds[k].cmd
             IN  /\ hal' = [hal EXCEPT !.cmds = Without(@, k),
                                       !.cbs = IF @ = <<>> THEN @ ELSE Tail(@)]
                 /\ refs' = [refs EXCEPT ![c] = IF @ = 0 THEN 0 ELSE @ - 1]
                 /\ past' = [Counted EXCEPT !.abort = IF refs[c] = 0 THEN "freed" ELSE @]
       \/ /\ id # AnyId
          /\ \A k \in DOMAIN hal.cmds : hal.cmds[k].id # id
          /\ past' = [Counted EXCEPT !.strayId = TRUE]
          /\ UNCHANGED <<hal, refs>>
       \/ /\ id = AnyId
          /\ hal' = [hal EXCEPT !.cbs = IF @ = <<>> THEN @ ELSE Tail(@)]
          /\ past' = [Counted EXCEPT !.strayId = TRUE]
          /\ UNCHANGED refs
    /\ UNCHANGED <<build, wifi, chip, binder, loop>>

-----------------------------------------------------------------------------
\* The rest of a stop and of a configuration, on the binder thread

Mut_CleanUp ==
    /\ binder.pc = "read" /\ hal.done
    /\ LET commands == {hal.cmds[k].cmd : k \in DOMAIN hal.cmds}
       IN  /\ refs' = [c \in DOMAIN refs |-> IF c \in commands /\ refs[c] > 0 THEN refs[c] - 1 ELSE refs[c]]
           /\ past' = [past EXCEPT !.abort = IF \E c \in commands : refs[c] = 0 THEN "freed" ELSE @]
    /\ hal' = NoHal
    /\ legacy' = [legacy EXCEPT !.started = FALSE, !.cb = 0]
    /\ binder' = [binder EXCEPT !.pc = "wait"]
    /\ UNCHANGED <<build, wifi, chip, loop>>

\* "Done" is read: the library cancels and releases its commands, calls onAsyncStopComplete and
\* frees its state; then the lock is given up
CleanUp ==
    /\ binder.pc = "read" /\ hal.done
    /\ LET commands == {hal.cmds[k].cmd : k \in DOMAIN hal.cmds}
       IN  /\ refs' = [c \in DOMAIN refs |-> IF c \in commands /\ refs[c] > 0 THEN refs[c] - 1 ELSE refs[c]]
           /\ past' = [past EXCEPT !.abort = IF \E c \in commands : refs[c] = 0 THEN "freed" ELSE @]
    /\ hal' = NoHal
    /\ legacy' = [legacy EXCEPT !.started = FALSE, !.cb = 0]
    /\ wifi' = [wifi EXCEPT !.run = IF binder.op = "stop" THEN "stopped" ELSE @]
    /\ binder' = [binder EXCEPT !.pc = "wait"]
    /\ UNCHANGED <<build, chip, loop>>

\* stop_wait_cv_ is signalled ...
StopDone ==
    /\ binder.pc = "wait" /\ ~legacy.awaiting
    /\ binder' = [binder EXCEPT !.pc = "tail"]
    /\ UNCHANGED <<build, wifi, chip, legacy, hal, refs, loop, past>>

\* ... or the 100 ms pass: the call ends with an error
StopTimeout ==
    /\ binder.pc = "wait" /\ legacy.awaiting /\ CanFail
    /\ past' = [Failed EXCEPT !.late = TRUE, !.botched = binder.op = "configure"]
    /\ binder' = Idle
    /\ UNCHANGED <<build, wifi, chip, legacy, hal, refs, loop>>

\* stopLegacyHalAndDeinitializeModeController: the driver is unloaded, or not
Deinitialize ==
    /\ binder.pc = "tail" /\ binder.op = "stop"
    /\ \/ /\ wifi' = [wifi EXCEPT !.driver = FALSE]
          /\ UNCHANGED past
       \/ /\ CanFail
          /\ past' = Failed
          /\ UNCHANGED wifi
    /\ binder' = Idle
    /\ UNCHANGED <<build, chip, legacy, hal, refs, loop>>

\* The firmware's mode cannot be changed, or the interface not brought up, or wifi_initialize
\* fails: the chip keeps the mode it had
ConfigureFails ==
    /\ binder.pc = "tail" /\ binder.op = "configure" /\ CanFail
    /\ past' = [Failed EXCEPT !.botched = chip.mode # NoMode]
    /\ binder' = Idle
    /\ UNCHANGED <<build, wifi, chip, legacy, hal, refs, loop>>

\* WifiLegacyHal::start, with its CHECK that the last event loop is over
LegacyStart ==
    /\ binder.pc = "tail" /\ binder.op = "configure"
    /\ \/ /\ legacy.awaiting
          /\ past' = [past EXCEPT !.abort = "check"]
          /\ UNCHANGED <<chip, legacy, hal, loop>>
       \/ /\ ~legacy.awaiting
          /\ legacy' = [legacy EXCEPT !.started = TRUE]
          /\ hal' = [NoHal EXCEPT !.alive = TRUE]
          /\ loop' = [NoLoop EXCEPT !.pc = "poll"]
          /\ past' = [past EXCEPT !.botched = FALSE]
          /\ chip' = [chip EXCEPT !.mode = binder.mode]
    /\ binder' = Idle
    /\ UNCHANGED <<build, wifi, refs>>

BinderStep == CleanUp \/ StopDone \/ StopTimeout \/ Deinitialize \/ ConfigureFails \/ LegacyStart

-----------------------------------------------------------------------------
\* The event loop's thread

LockFree == binder.pc \in {"idle", "wait"}

\* The driver has an event for a monitor that it knows of
DriverEvent ==
    /\ hal.cmds # <<>> /\ past.events < MaxEvents
    /\ hal' = [hal EXCEPT !.events = @ + 1]
    /\ past' = [past EXCEPT !.events = @ + 1]
    /\ UNCHANGED <<build, wifi, chip, legacy, refs, binder, loop>>

\* wifi_event_loop, internal_valid_message_handler: the first handler's command is kept alive
\* for the callback; without a handler the event is dropped
LoopEvent ==
    /\ loop.pc = "poll" /\ hal.events > 0
    /\ hal' = [hal EXCEPT !.events = @ - 1]
    /\ IF hal.cbs = <<>>
       THEN UNCHANGED <<refs, loop, past>>
       ELSE LET c == Head(hal.cbs)
            IN  /\ refs' = [refs EXCEPT ![c] = @ + 1]
                /\ loop' = [pc |-> "lock", cmd |-> c]
                /\ past' = [past EXCEPT !.abort = IF refs[c] = 0 THEN "freed" ELSE @]
    /\ UNCHANGED <<build, wifi, chip, legacy, binder>>

\* onAsyncRssiThresholdBreached takes the lock and calls back; then the reference is dropped
LoopCallback ==
    /\ loop.pc = "lock" /\ LockFree
    /\ refs' = [refs EXCEPT ![loop.cmd] = @ - 1]
    /\ loop' = [pc |-> "poll", cmd |-> 0]
    /\ UNCHANGED <<build, wifi, chip, legacy, hal, binder, past>>

Mut_LoopExit ==
    /\ loop.pc = "poll" /\ hal.exit /\ hal.events = 0
    /\ loop' = [loop EXCEPT !.pc = "tail"]
    /\ UNCHANGED <<build, wifi, chip, legacy, hal, refs, binder, past>>

\* "Exit" is read once no event is left; "Done" is the answer
LoopExit ==
    /\ loop.pc = "poll" /\ hal.exit /\ hal.events = 0
    /\ hal' = [hal EXCEPT !.exit = FALSE, !.done = TRUE]
    /\ loop' = [loop EXCEPT !.pc = "tail"]
    /\ UNCHANGED <<build, wifi, chip, legacy, refs, binder, past>>

\* POLLHUP on the event socket ends the loop as well, whether it has been asked to end or not
LoopHangup ==
    /\ loop.pc = "poll" /\ CanFail
    /\ loop' = [loop EXCEPT !.pc = "tail"]
    /\ past' = [Failed EXCEPT !.hup = TRUE]
    /\ UNCHANGED <<build, wifi, chip, legacy, hal, refs, binder>>

\* The end of runEventLoop: fatal, if no stop waits for it
LoopEnd ==
    /\ loop.pc = "tail" /\ LockFree
    /\ legacy' = [legacy EXCEPT !.awaiting = FALSE]
    /\ past' = [past EXCEPT !.abort = IF legacy.awaiting THEN @ ELSE "loop"]
    /\ loop' = NoLoop
    /\ UNCHANGED <<build, wifi, chip, hal, refs, binder>>

LoopStep == LoopEvent \/ LoopCallback \/ LoopExit \/ LoopEnd

\* init starts an aborted service again; the driver stays as it is
Restart ==
    /\ past.abort # "no"
    /\ wifi' = [wifi EXCEPT !.run = "stopped"]
    /\ chip' = NoChip /\ legacy' = NoLegacy /\ hal' = NoHal
    /\ refs' = [c \in 1 .. MaxCalls |-> 0]
    /\ binder' = Idle /\ loop' = NoLoop
    /\ past' = [past EXCEPT !.botched = FALSE, !.late = FALSE, !.strayId = FALSE, !.hup = FALSE,
                           !.abort = "no"]
    /\ UNCHANGED build

Call ==
    \/ Start \/ Stop
    \/ \E m \in Mode : Reconfigure(m) \/ Configure(m)
    \/ \E t \in IfaceType : Create(t) \/ Remove(t)
    \/ \E id \in RequestId : StartRssi(id) \/ StopRssi(id)

Next ==
    \/ past.abort = "no" /\ (Call \/ BinderStep \/ DriverEvent \/ LoopStep \/ LoopHangup)
    \/ Restart

Spec == Init /\ [][Next]_vars

\* The service's threads run and init restarts the service
FairSpec == /\ Spec
            /\ WF_vars(past.abort = "no" /\ BinderStep)
            /\ WF_vars(past.abort = "no" /\ LoopStep)
            /\ WF_vars(Restart)

-----------------------------------------------------------------------------
\* The interfaces of the chip are ones that its mode allows together, through mode changes that
\* fail half way and stops.
IfacesFit == Fits(build, chip.ifaces, chip.mode)

\* Between calls the service is stopped or started, never stopping, with a chip exactly if it is
\* started, so that a stop that timed out can be followed by a start; and the legacy HAL runs
\* exactly if the chip has a mode.  The exception is a mode change that failed: getMode and
\* configureChip then speak of a mode in which nothing runs.
Settled ==
    binder.pc = "idle" /\ past.abort = "no" =>
        /\ wifi.run = IF chip.exists THEN "started" ELSE "stopped"
        /\ legacy.started <=> chip.mode # NoMode /\ ~past.botched

\* Every monitoring command is referenced once while it is registered, with its handler, and
\* once by a callback under way, so none is freed too early or leaked; unless a client has
\* stopped a monitor with an id that the library did not know, or with -1.
RefsExact ==
    ~past.strayId /\ past.abort = "no" =>
        /\ hal.cbs = [k \in DOMAIN hal.cmds |-> hal.cmds[k].cmd]
        /\ legacy.cb # 0 <=> hal.cmds # <<>>
        /\ \A c \in DOMAIN refs :
              refs[c] = Cardinality({k \in DOMAIN hal.cmds : hal.cmds[k].cmd = c})
                        + (IF loop.pc = "lock" /\ loop.cmd = c THEN 1 ELSE 0)

\* The service aborts in known ways only: a NAN interface that the library does not support; a
\* monitor started in a mode whose change failed; a command freed after a stop with a wrong id
\* or with -1; a start while the last loop still overstays its stop; a loop that ends because its
\* socket hung up.
AbortsKnown ==
    /\ past.abort = "nan" => build.aware
    /\ past.abort = "null" => past.botched
    /\ past.abort = "freed" => past.strayId
    /\ past.abort = "check" => past.late
    /\ past.abort = "loop" => past.hup

\* A call returns, unless the loop is in a callback when the stop begins, or ends for a hangup
\* and never answers: then the loop's thread waits for the lock that the stop holds, and the
\* stop for the loop.
StopReturns ==
    binder.pc # "idle" ~>
        \/ binder.pc = "idle" \/ past.abort # "no"
        \/ /\ binder.pc = "read" /\ ~hal.done
           /\ \/ loop.pc = "lock"
              \/ loop.pc = "tail" /\ past.hup

=============================================================================
