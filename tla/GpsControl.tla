----------------------------- MODULE GpsControl -----------------------------
(***************************************************************************)
(* The GPS control thread of mnld (gps_controller.c) and, as far as mnld   *)
(* sees it, the vendor library libmnl that it starts and stops.            *)
(*                                                                         *)
(* The thread takes one datagram at a time from ctx.gpsQ.  START and STOP  *)
(* run the library; RESET asks it for a restart and then waits on the      *)
(* M_RESTART condition, which the library's callback thread releases.      *)
(* Completion is reported to the main thread by datagrams in mainQ.        *)
(***************************************************************************)
EXTENDS MnldFsm

CONSTANTS LibMayFail,   \* mtk_gps_mnl_run and mtk_gps_sys_uninit may return an error
          MaxRestarts,  \* restarts the library does of its own accord
          MaxNotifies   \* FIX_READY callbacks and recovery requests

ASSUME ControlAssumption ==
    /\ LibMayFail \in BOOLEAN
    /\ MaxRestarts \in Nat
    /\ MaxNotifies \in Nat

VARIABLES gps,    \* the control thread: pc, gps_restart, lock_for_sync[M_RESTART]
          lib,    \* libmnl
          mainQ   \* datagrams for the main thread

MainEvents == {"START_DONE", "STOP_DONE", "RESET_DONE", "NMEA_TIMEOUT",
               "EPO_OK", "EPO_FAIL"} \cup AllUpdates

GpsThread == [pc          : {"idle", "param", "wait", "woken"},
              gps_restart : BOOLEAN,
              condtion    : BOOLEAN]  \* lock_for_sync[M_RESTART].condtion

Library == [on       : BOOLEAN,            \* between mtk_gps_mnl_run and mtk_gps_mnl_stop
            offload  : BOOLEAN,            \* MNL_OFL_OPTION_ENALBE_OFFLOAD
            starting : BOOLEAN,            \* a start or restart has not called back yet
            cb       : {"idle", "post"},   \* inside the START_REQ callback
            restarts : 0..MaxRestarts,
            notifies : 0..MaxNotifies]

ControlInit ==
    /\ gps = [pc |-> "idle", gps_restart |-> FALSE, condtion |-> FALSE]
    /\ lib = [on |-> FALSE, offload |-> FALSE, starting |-> FALSE, cb |-> "idle",
              restarts |-> 0, notifies |-> 0]
    /\ mainQ = << >>

Post(m) == mainQ' = Send(mainQ, m)

Outcomes == IF LibMayFail THEN BOOLEAN ELSE {TRUE}

----------------------------------------------------------------------------
\* gps_control_event_hdlr: the thread takes the command m

Take(m) ==
    /\ ctx.dead = "no"
    /\ gps.pc = "idle"
    /\ ctx.gpsQ # << >>
    /\ Head(ctx.gpsQ) = m

Taken == [ctx EXCEPT !.gpsQ = Tail(@)]

\* mnld_gps_start: a failed start stops the library again and reports nothing.
\* The offload option is read from the sessions as they are now.
GpsStart ==
    /\ Take("START")
    /\ ctx' = Taken
    /\ \E ok \in Outcomes :
         lib' = [lib EXCEPT !.on = ok, !.starting = ok, !.offload = OffloadActive(ctx)]
    /\ UNCHANGED <<gps, mainQ>>

\* mnld_gps_stop: mtk_gps_mnl_stop returns when no callback is running
GpsStop ==
    /\ Take("STOP")
    /\ lib.cb = "idle"
    /\ ctx' = [Taken EXCEPT !.timers = @ \ {"nmea"}]
    /\ lib' = [lib EXCEPT !.on = FALSE, !.starting = FALSE]
    /\ \E ok \in Outcomes : mainQ' = IF ok THEN Send(mainQ, "STOP_DONE") ELSE mainQ
    /\ UNCHANGED gps

\* mnld_gps_delete_aiding_data, in its steps: the restart request ...
GpsResetParam ==
    /\ Take("RESET")
    /\ ctx' = Taken
    /\ lib' = [lib EXCEPT !.starting = @ \/ lib.on]
    /\ gps' = [gps EXCEPT !.pc = "param"]
    /\ UNCHANGED mainQ

\* ... gps_restart = 1 and get_condition ...
GpsResetWait ==
    /\ ctx.dead = "no"
    /\ gps.pc = "param"
    /\ gps' = [gps EXCEPT !.pc = "wait", !.gps_restart = TRUE]
    /\ UNCHANGED <<ctx, lib, mainQ>>

\* ... which returns once the condition is set and takes it back ...
GpsResetWoken ==
    /\ ctx.dead = "no"
    /\ gps.pc = "wait"
    /\ gps.condtion
    /\ gps' = [gps EXCEPT !.pc = "woken", !.condtion = FALSE]
    /\ UNCHANGED <<ctx, lib, mainQ>>

\* ... gps_restart = 0 and mnld_gps_reset_done
GpsResetDone ==
    /\ ctx.dead = "no"
    /\ gps.pc = "woken"
    /\ gps' = [gps EXCEPT !.pc = "idle", !.gps_restart = FALSE]
    /\ Post("RESET_DONE")
    /\ UNCHANGED <<ctx, lib>>

Mut_GpsNmea ==
    /\ Take("NMEA")
    /\ ctx' = [Taken EXCEPT !.timers = @ \cup {"nmea"}]
    /\ UNCHANGED <<gps, lib, mainQ>>

\* GPS2GPS_NMEA_DATA_TIMEOUT: re-arm the NMEA monitor unless only LINK users are left
GpsNmea ==
    /\ Take("NMEA")
    /\ ctx' = IF Unwatched(ctx) THEN Taken ELSE [Taken EXCEPT !.timers = @ \cup {"nmea"}]
    /\ UNCHANGED <<gps, lib, mainQ>>

\* gps_control_thread_timeout: a handler that does not return ends the process
GpsThreadTimeout ==
    /\ ctx.dead = "no"
    /\ gps.pc = "wait"
    /\ ctx' = [ctx EXCEPT !.dead = "exit"]
    /\ UNCHANGED <<gps, lib, mainQ>>

----------------------------------------------------------------------------
\* libmnl's own threads

\* MTK_AGPS_CB_START_REQ: release_condition if somebody announced a restart ...
StartReq ==
    /\ ctx.dead = "no"
    /\ lib.on /\ lib.cb = "idle"
    /\ gps' = [gps EXCEPT !.condtion = @ \/ gps.gps_restart]
    /\ UNCHANGED <<ctx, mainQ>>

\* ... after a start or a requested restart
LibStartReq ==
    /\ lib.starting
    /\ lib' = [lib EXCEPT !.cb = "post", !.starting = FALSE]
    /\ StartReq

\* ... or after a restart of the library's own accord
LibRestartReq ==
    /\ ~lib.starting
    /\ lib.restarts < MaxRestarts
    /\ lib' = [lib EXCEPT !.cb = "post", !.restarts = @ + 1]
    /\ StartReq

\* ... and mnld_gps_start_done
LibStartDone ==
    /\ ctx.dead = "no"
    /\ lib.cb = "post"
    /\ lib' = [lib EXCEPT !.cb = "idle"]
    /\ Post("START_DONE")
    /\ UNCHANGED <<ctx, gps>>

\* mtk_gps_ofl_sys_mnl_offload_callback: the first heart beat of an offload start
\* or restart also reports the start
LibHeartBeat ==
    /\ ctx.dead = "no"
    /\ lib.on /\ lib.offload
    /\ lib.restarts < MaxRestarts
    /\ lib' = [lib EXCEPT !.restarts = @ + 1]
    /\ mainQ' = IF OffloadActive(ctx) THEN Send(mainQ, "START_DONE") ELSE mainQ
    /\ UNCHANGED <<ctx, gps>>

\* mtk_gps_ofl_sys_rst_stpgps_req: the offload kernel asks for a recovery
LibRecovery ==
    /\ ctx.dead = "no"
    /\ lib.on /\ lib.offload
    /\ lib.notifies < MaxNotifies
    /\ lib' = [lib EXCEPT !.notifies = @ + 1]
    /\ Post("NMEA_TIMEOUT")
    /\ UNCHANGED <<ctx, gps>>

\* MTK_GPS_MSG_FIX_READY: send_active_notify
LibNotify ==
    /\ ctx.dead = "no"
    /\ lib.on /\ ~lib.starting
    /\ lib.notifies < MaxNotifies
    /\ ~Unwatched(ctx)
    /\ lib' = [lib EXCEPT !.notifies = @ + 1]
    /\ ctx' = [ctx EXCEPT !.gpsQ = Send(@, "NMEA")]
    /\ UNCHANGED <<gps, mainQ>>
=============================================================================
