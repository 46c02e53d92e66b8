------------------------------ MODULE MnldFsm ------------------------------
(***************************************************************************)
(* The GPS state machine of mnld (gps/mtk_mnld/mnld_entity/src/mnld.c).    *)
(*                                                                         *)
(* The daemon keeps one context, g_mnld_ctx, here the record ctx.  Seven   *)
(* clients share one GPS engine; every request updates the client's entry  *)
(* and then runs mnld_fsm, which decides when the engine is really started *)
(* or stopped and which clients are acknowledged.  The handlers are        *)
(* operators from context to context, in the order of the code, so that a  *)
(* handler that calls another (mnld_fsm inside fsm_gps_state_ofl_stopping) *)
(* is the composition of the two.                                          *)
(*                                                                         *)
(* Abstracted: delete_aiding_flag to whether it is nonzero, the session    *)
(* ids of the FLP and geofence links (both ends run in this process), time *)
(* stamps, logging and the payload of the messages.                        *)
(*                                                                         *)
(* An operator Mut_X is a plausible wrong version of the definition X that *)
(* follows it.  No other definition uses it: it exists to show that a      *)
(* property notices the error when X is replaced by it.                    *)
(***************************************************************************)
EXTENDS Naturals, Sequences

AllClients == {"hal", "agps", "flp", "flp_test", "geofence", "at_cmd_test", "factory"}
AllUpdates == {"qepo", "qepo_bd", "qepo_ga", "mtknav"}

CONSTANTS Clients,      \* the clients present
          OffloadMode,  \* OFFLOAD_enabled and OFFLOAD_switchMode
          Updates,      \* the assistance files that are downloaded
          QueueCap      \* datagrams a socket holds before a send is dropped

ASSUME FsmAssumption ==
    /\ Clients \subseteq AllClients
    /\ OffloadMode \in {"off", "auto", "always"}
    /\ Updates \subseteq AllUpdates
    /\ QueueCap \in Nat \ {0}

VARIABLE ctx            \* g_mnld_ctx, the two link sessions and the sockets' queue

GpsStates == {"IDLE", "STARTING", "STARTED", "STOPPING",
              "OFL_STARTING", "OFL_STARTED", "OFL_STOPPING"}
Events    == {"START", "STOP", "RESET", "START_DONE", "STOP_DONE", "OFFLOAD_START"}
Timers    == {"start", "stop", "reset", "nmea", "switch_ofl"}
Commands  == {"START", "STOP", "RESET", "NMEA"}
Links     == {"flp", "geofence"}
LinkTypes == {"AP", "OFL", "AP_OFL"}

Kinds     == {"off", "hbd", "ofl"}
PowerFlags == {"wakelock",   \* the framework wakelock is requested
               "lp_mode",    \* mnld_fsm_offload_lp_mode
               "fwk",        \* mnld_fsm_offload_fwk_wakelock
               "kernel"}     \* gps_kernel_wakelock_to_take

Context ==
    [gps_state : GpsStates,              \* gps_status.gps_state
     used      : SUBSET Clients,         \* the clients with gps_used,
     open      : SUBSET Clients,         \*   with need_open_ack,
     close     : SUBSET Clients,         \*   with need_close_ack
     reset_ack : BOOLEAN,                \* agps.need_reset_ack
     aiding    : BOOLEAN,                \* delete_aiding_flag # 0
     timers    : SUBSET Timers,          \* the armed POSIX timers
     type      : [Links -> LinkTypes],   \* mnld_flp_session.type, mnld_gfc_session.type
     pre_type  : [Links -> LinkTypes],   \* and their pre_type
     view      : [Links -> LinkTypes],   \* the type the link was last told
     power     : SUBSET PowerFlags,
     pending   : SUBSET AllUpdates,      \* qepo_update_flag, mtknav_update_flag, ...
     told      : [Clients -> Kinds],     \* the last ack sent to the client
     gpsQ      : Seq(Commands),          \* datagrams for the GPS control thread
     dead      : {"no", "exit", "crash"}] \* a watchdog's exit, CRASH_TO_DEBUG

----------------------------------------------------------------------------
\* Offload predicates (gps_controller.c)

AutoSwitch == OffloadMode = "auto"

mnld_offload_is_auto_mode(g) ==
    AutoSwitch /\ \E l \in Links : g.type[l] = "OFL"

\* mnl_offload_is_enabled() && (auto mode || always-on mode)
OffloadActive(g) == OffloadMode = "always" \/ mnld_offload_is_auto_mode(g)

----------------------------------------------------------------------------
\* Client predicates

HbdClients == {"hal", "agps", "at_cmd_test", "factory"}
LpClients  == {"flp", "flp_test", "geofence"}

Mut_AllExit(g) == "hal" \notin g.used      \* forgets the other clients
AllExit(g)   == g.used = {}
HbdExist(g)  == g.used \cap HbdClients # {}
LinkExist(g) == g.used \cap Links # {}
OnlyLp(g)    == g.used \subseteq LpClients

\* The users for which a restart is not watched and NMEA is not monitored
Unwatched(g) == OnlyLp(g) /\ OffloadActive(g)

mtk_gps_clear_gps_user(g) == [g EXCEPT !.used = {}]

----------------------------------------------------------------------------
\* Commands to the GPS control thread: safe_sendto gives up on a full socket

Send(q, m) == IF Len(q) < QueueCap THEN Append(q, m) ELSE q

gps_control_gps_start(g) == [g EXCEPT !.gpsQ = Send(@, "START"), !.aiding = FALSE]

Mut_StopUnwatched(g, st) == [g EXCEPT !.gpsQ = Send(@, "STOP"), !.gps_state = st]
Mut_StopToIdle(g, st) ==
    [g EXCEPT !.gpsQ = Send(@, "STOP"), !.gps_state = "IDLE", !.timers = @ \cup {"stop"}]

\* every caller also sets the state and starts timer_stop
gps_control_gps_stop(g, st) ==
    [g EXCEPT !.gpsQ = Send(@, "STOP"), !.gps_state = st, !.timers = @ \cup {"stop"}]

Mut_ResetUnwatched(g) ==
    IF g.aiding THEN [g EXCEPT !.gpsQ = Send(@, "RESET"), !.aiding = FALSE] ELSE g

\* only if delete_aiding_flag is set, and with timer_reset started
gps_control_gps_reset(g) ==
    IF g.aiding
    THEN [g EXCEPT !.gpsQ = Send(@, "RESET"), !.aiding = FALSE,
                   !.timers = @ \cup {"reset"}]
    ELSE g

CRASH_TO_DEBUG(g) == [g EXCEPT !.dead = "crash"]

----------------------------------------------------------------------------
\* Acknowledgements

do_gps_reset_hdlr(g) == [g EXCEPT !.reset_ack = FALSE]

\* The kind of open/close ack a link client gets
AckKind(g, c) == IF c \in Links /\ mnld_offload_is_auto_mode(g) THEN "ofl" ELSE "hbd"

do_gps_started_hdlr(g) ==
    gps_control_gps_reset(do_gps_reset_hdlr(
        [g EXCEPT !.told = [c \in Clients |-> IF c \in g.open THEN AckKind(g, c) ELSE @[c]],
                  !.open = {}]))

do_gps_stopped_hdlr(g) ==
    do_gps_reset_hdlr(
        [g EXCEPT !.told = [c \in Clients |-> IF c \in g.close THEN "off" ELSE @[c]],
                  !.close = {}])

----------------------------------------------------------------------------
\* Link sessions: a changed type makes a new session, drops the link's use of
\* the GPS and tells the FLP / geofence side the new type

Changed(g, type) == {l \in Links : g.pre_type[l] # type}

SwitchSession(g, type) ==
    [g EXCEPT !.type     = [l \in Links |-> type],
              !.pre_type = [l \in Links |-> type],
              !.view     = [l \in Links |-> IF l \in Changed(g, type) THEN type ELSE @[l]],
              !.used     = @ \ Changed(g, type),
              !.told     = [c \in Clients |-> IF c \in Changed(g, type) THEN "off" ELSE @[c]]]

\* Both sessions to AP mode without telling anyone (the else branch of START_DONE)
SilentApSession(g) ==
    [g EXCEPT !.type = [l \in Links |-> "AP"], !.pre_type = [l \in Links |-> "AP"]]

RequestWakelock(g) ==
    IF OffloadActive(g) THEN g ELSE [g EXCEPT !.power = @ \cup {"wakelock"}]
Mut_ReleaseWakelock(g) == g
ReleaseWakelock(g) ==
    IF OffloadActive(g) THEN g ELSE [g EXCEPT !.power = @ \ {"wakelock"}]

\* "if no other users except FLP ...": a restart in low-power offload is not timed
ArmRestart(g) ==
    IF Unwatched(g) THEN g ELSE [g EXCEPT !.timers = @ \cup {"start"}]

----------------------------------------------------------------------------
\* The state handlers

Mut_StartUntimed(g, st) ==
    gps_control_gps_start([RequestWakelock(g) EXCEPT !.gps_state = st])
Mut_StartWrongState(g, st) == gps_control_gps_start([g EXCEPT !.gps_state = "START"])

\* GPS_EVENT_START and GPS_EVENT_OFFLOAD_START in IDLE
StartFromIdle(g, st) ==
    gps_control_gps_start([RequestWakelock(g) EXCEPT !.gps_state = st,
                                                     !.timers = @ \cup {"start"}])

fsm_gps_state_idle(g, ev) ==
    CASE ev = "START"         -> StartFromIdle(g, "STARTING")
      [] ev = "OFFLOAD_START" -> StartFromIdle(g, "OFL_STARTING")
      [] ev = "STOP"          -> do_gps_stopped_hdlr(g)
      [] ev = "RESET"         -> do_gps_reset_hdlr(g)
      [] OTHER                -> CRASH_TO_DEBUG(g)

Mut_StartedUnused(g) ==
    LET s == do_gps_started_hdlr([g EXCEPT !.timers = @ \ {"start"}])
    IN  SwitchSession([s EXCEPT !.gps_state = "STARTED", !.pending = {}], "AP")

\* GPS_EVENT_START_DONE in STARTING; the pending assistance files are injected
StartingDone(g) ==
    LET s == do_gps_started_hdlr([g EXCEPT !.timers = @ \ {"start"}])
        r == [s EXCEPT !.gps_state = "STARTED", !.pending = {}]
    IN  CASE AllExit(s) -> gps_control_gps_stop(s, "STOPPING")
          [] ~AllExit(s) /\ (HbdExist(s) \/ ~AutoSwitch) -> SwitchSession(r, "AP")
          [] OTHER -> [SilentApSession(r) EXCEPT !.timers = @ \cup {"switch_ofl"}]

fsm_gps_state_starting(g, ev) ==
    CASE ev \in {"START", "STOP", "RESET", "OFFLOAD_START"} -> g
      [] ev = "START_DONE" -> StartingDone(g)
      [] OTHER -> CRASH_TO_DEBUG(g)

fsm_gps_state_started(g, ev) ==
    CASE ev = "START" -> do_gps_started_hdlr(g)
      [] ev = "STOP" /\ AllExit(g) ->
           gps_control_gps_stop([g EXCEPT !.timers = @ \ {"switch_ofl"}], "STOPPING")
      [] ev = "STOP" /\ ~AllExit(g) ->
           LET s == do_gps_stopped_hdlr(g)
           IN  IF ~HbdExist(s) /\ AutoSwitch
               THEN [s EXCEPT !.timers = @ \cup {"switch_ofl"}]
               ELSE s
      [] ev = "RESET" -> gps_control_gps_reset(g)
      [] ev \in {"START_DONE", "OFFLOAD_START"} -> g
      [] OTHER -> CRASH_TO_DEBUG(g)

Mut_NoRestart(g) ==
    [ReleaseWakelock(do_gps_stopped_hdlr([g EXCEPT !.timers = @ \ {"stop"}]))
        EXCEPT !.gps_state = "IDLE"]

\* GPS_EVENT_STOP_DONE in STOPPING: restart for a client that came back meanwhile
StoppingDone(g) ==
    LET s == do_gps_stopped_hdlr([g EXCEPT !.timers = @ \ {"stop"}])
        r == [ReleaseWakelock(s) EXCEPT !.gps_state = "IDLE"]
    IN  CASE ~AllExit(s) ->
               gps_control_gps_start(ArmRestart([s EXCEPT !.gps_state = "STARTING"]))
          [] AllExit(s) /\ AutoSwitch -> SwitchSession(r, "AP_OFL")
          [] OTHER -> r

Mut_StartWhileStopping(g, ev) ==
    CASE ev = "START" -> gps_control_gps_start(ArmRestart([g EXCEPT !.gps_state = "STARTING"]))
      [] ev \in {"STOP", "OFFLOAD_START", "START_DONE"} -> g
      [] ev = "RESET" -> do_gps_reset_hdlr(g)
      [] OTHER -> StoppingDone(g)

fsm_gps_state_stopping(g, ev) ==
    CASE ev \in {"START", "STOP", "OFFLOAD_START", "START_DONE"} -> g
      [] ev = "RESET" -> do_gps_reset_hdlr(g)
      [] OTHER -> StoppingDone(g)

Mut_OflStartingDone(g) ==
    LET s == do_gps_started_hdlr([g EXCEPT !.timers = @ \ {"start"}])
    IN  IF AllExit(s) THEN gps_control_gps_stop(s, "OFL_STOPPING")
        ELSE [s EXCEPT !.gps_state = "OFL_STARTED", !.type = [l \in Links |-> "OFL"]]

\* GPS_EVENT_START_DONE in OFL_STARTING: offload mode is left at once for an HBD client
OflStartingDone(g) ==
    LET s == do_gps_started_hdlr([g EXCEPT !.timers = @ \ {"start"}])
    IN  IF AllExit(s) \/ HbdExist(s)
        THEN gps_control_gps_stop(s, "OFL_STOPPING")
        ELSE [s EXCEPT !.gps_state = "OFL_STARTED", !.type = [l \in Links |-> "OFL"]]

fsm_gps_state_ofl_starting(g, ev) ==
    CASE ev \in {"START", "STOP", "RESET", "OFFLOAD_START"} -> g
      [] ev = "START_DONE" -> OflStartingDone(g)
      [] OTHER -> CRASH_TO_DEBUG(g)

\* Forget the link clients without an acknowledgement
DropLinks(g) ==
    [g EXCEPT !.used = @ \ Links, !.open = @ \ Links, !.close = @ \ Links]

fsm_gps_state_ofl_started(g, ev) ==
    CASE ev = "START" ->
           LET s == do_gps_started_hdlr(g)
           IN  IF HbdExist(s) THEN gps_control_gps_stop(DropLinks(s), "OFL_STOPPING") ELSE s
      [] ev = "STOP" /\ LinkExist(g)  -> do_gps_stopped_hdlr(g)
      [] ev = "STOP" /\ ~LinkExist(g) -> gps_control_gps_stop(g, "OFL_STOPPING")
      [] ev \in {"RESET", "START_DONE", "OFFLOAD_START"} -> g
      [] OTHER -> CRASH_TO_DEBUG(g)

\* GPS_EVENT_STOP_DONE in OFL_STOPPING.  The nested mnld_fsm(GPS_EVENT_START) runs in
\* IDLE with an HBD user and both sessions in AP mode, where the power switch of
\* mnld_fsm has nothing left to do.
OflStoppingDone(g) ==
    LET s == do_gps_stopped_hdlr([g EXCEPT !.timers = @ \ {"stop"}])
        r == [ReleaseWakelock(s) EXCEPT !.gps_state = "IDLE"]
    IN  CASE LinkExist(s) /\ ~HbdExist(s) ->
               gps_control_gps_start(ArmRestart([s EXCEPT !.gps_state = "OFL_STARTING"]))
          [] HbdExist(s) -> fsm_gps_state_idle(SwitchSession(r, "AP"), "START")
          [] ~LinkExist(s) /\ ~HbdExist(s) /\ AutoSwitch -> SwitchSession(r, "AP_OFL")
          [] OTHER -> r

fsm_gps_state_ofl_stopping(g, ev) ==
    CASE ev \in {"START", "STOP", "OFFLOAD_START", "START_DONE"} -> g
      [] ev = "RESET" -> do_gps_reset_hdlr(g)
      [] OTHER -> OflStoppingDone(g)

----------------------------------------------------------------------------
\* mnld_fsm: the power switch for offload users, then the state's handler.
\* The state is read once, at entry (st).

EnterLp(g) == OffloadActive(g) /\ OnlyLp(g) /\ "lp_mode" \notin g.power
LeaveLp(g) == OffloadActive(g) /\ ~OnlyLp(g) /\ "lp_mode" \in g.power

\* Entering gives the framework wakelock back only if leaving had taken it
PowerSwitch(g) ==
    CASE EnterLp(g) ->
           [g EXCEPT !.timers = @ \ {"nmea"},
                     !.power = {"lp_mode"} \cup
                               (IF "fwk" \in @ THEN {} ELSE @ \cap {"wakelock"})]
      [] LeaveLp(g) ->
           [g EXCEPT !.timers = @ \cup {"nmea"}, !.power = {"wakelock", "fwk", "kernel"}]
      [] OTHER -> g

mnld_fsm_from(st, ev, g0) ==
    LET g == PowerSwitch(g0) IN
    CASE st = "IDLE"         -> fsm_gps_state_idle(g, ev)
      [] st = "STARTING"     -> fsm_gps_state_starting(g, ev)
      [] st = "STARTED"      -> fsm_gps_state_started(g, ev)
      [] st = "STOPPING"     -> fsm_gps_state_stopping(g, ev)
      [] st = "OFL_STARTING" -> fsm_gps_state_ofl_starting(g, ev)
      [] st = "OFL_STARTED"  -> fsm_gps_state_ofl_started(g, ev)
      [] OTHER               -> fsm_gps_state_ofl_stopping(g, ev)

mnld_fsm(ev, g) == mnld_fsm_from(g.gps_state, ev, g)

----------------------------------------------------------------------------
\* Requests of the clients

\* hal, agps, flp and geofence are acknowledged; the test clients are not
Acked == {"hal", "agps", "flp", "geofence"}

Opened(g, c) ==
    [g EXCEPT !.used = @ \cup {c}, !.open = @ \cup ({c} \cap Acked), !.close = @ \ {c}]

Mut_Closed(g, c) == [g EXCEPT !.used = @ \ {c}, !.close = @ \cup ({c} \cap Acked)]
Closed(g, c) ==
    [g EXCEPT !.used = @ \ {c}, !.open = @ \ {c}, !.close = @ \cup ({c} \cap Acked)]

\* hal_gps_start, agps_open_gps_req, mnld_flp_hbd_gps_open, at_test2mnl_gps_start, ...
OpenGps(g, c) == mnld_fsm("START", Opened(g, c))

\* hal_gps_stop, agps_close_gps_req, mnld_flp_hbd_gps_close, mnld_flp_ofl_link_close, ...
CloseGps(g, c) == mnld_fsm("STOP", Closed(g, c))

\* mnld_flp_ofl_link_open, mnld_gfc_ofl_link_open
OpenLink(g, c) ==
    mnld_fsm("OFFLOAD_START", [Opened(g, c) EXCEPT !.type[c] = "OFL"])

\* hal_reboot, agps_reboot: the peer restarted and has forgotten everything
Reboot(g, c) ==
    mnld_fsm("STOP",
        [g EXCEPT !.used = @ \ {c}, !.open = @ \ {c}, !.close = @ \ {c},
                  !.told[c] = "off",
                  !.reset_ack = @ /\ c # "agps"])

hal_gps_delete_aiding_data(g) == mnld_fsm("RESET", [g EXCEPT !.aiding = TRUE])

agps_reset_gps_req(g) == mnld_fsm("RESET", [g EXCEPT !.aiding = TRUE, !.reset_ack = TRUE])

----------------------------------------------------------------------------
\* Internal events (main_event_hdlr)

OnResetDone(g) == do_gps_reset_hdlr([g EXCEPT !.timers = @ \ {"reset"}])

\* mnl2hal_mnld_reboot and its siblings: every peer learns the GPS is off, the
\* links also the current session type
RebootNotices(g) ==
    [g EXCEPT !.told = [c \in Clients |-> IF c \in Acked THEN "off" ELSE @[c]],
              !.view = g.type]

OnNmeaTimeout(g) ==
    IF g.gps_state = "STARTED"
    THEN RebootNotices(mnld_fsm("STOP", mtk_gps_clear_gps_user(g)))
    ELSE g

\* QEPO2MAIN_EVENT_*_DONE, MTKNAV2MAIN_EVENT_MTKNAV_DONE: applied at once or kept
OnDownloadDone(g, u) ==
    IF g.gps_state \in {"STARTED", "OFL_STARTED"} THEN g
    ELSE [g EXCEPT !.pending = @ \cup {u}]

----------------------------------------------------------------------------
\* Boot state: memset of g_mnld_ctx, mnld_offload_check_capability, mnld_init

BootType == IF AutoSwitch THEN "AP_OFL" ELSE "AP"

BootContext ==
    [gps_state |-> "IDLE",
     used      |-> {},
     open      |-> {},
     close     |-> {},
     reset_ack |-> FALSE,
     aiding    |-> FALSE,
     timers    |-> {},
     type      |-> [l \in Links |-> BootType],
     pre_type  |-> [l \in Links |-> BootType],
     view      |-> [l \in Links |-> BootType],
     power     |-> {"kernel"},
     pending   |-> {},
     told      |-> [c \in Clients |-> "off"],
     gpsQ      |-> << >>,
     dead      |-> "no"]
=============================================================================
