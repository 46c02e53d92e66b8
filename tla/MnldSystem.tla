----------------------------- MODULE MnldSystem -----------------------------
(***************************************************************************)
(* The daemon as a whole: the main thread with the requests of its clients *)
(* (mnld.c), the GPS control thread and libmnl (GpsControl), the POSIX     *)
(* timers, whose callbacks run on threads of their own, and the threads    *)
(* that download assistance data.                                          *)
(*                                                                         *)
(* A handler of the main thread is one step.  mnld_fsm is also called from *)
(* other threads, without a lock: from the timer that switches to offload  *)
(* mode, and from libmnl's thread when the offload FLP confirms its stop.  *)
(* Such a call is split where the main thread can come between: after its  *)
(* check, after its update of the clients and after mnld_fsm has read      *)
(* gps_state.                                                              *)
(***************************************************************************)
EXTENDS GpsControl

CONSTANT WithEpo        \* EPO downloads are enabled

ASSUME SystemAssumption == WithEpo \in BOOLEAN

VARIABLES aux,    \* the foreign thread inside mnld_fsm
          epo     \* g_mnld_ctx.epo_status, the EPO downloader, and how far a start of the
                  \* GPS is with the file; history: whether the download was begun behind
                  \* the check of that start, and then lost its file to it

vars == <<ctx, gps, lib, mainQ, aux, epo>>

Aux == [pc : {"none", "check", "clear", "read", "run"}, st : GpsStates]
Epo == [is_epo_downloading : BOOLEAN, busy : BOOLEAN, file : BOOLEAN,
        start : {"none", "check", "inject", "unlink"},
        crossed : {"no", "begun", "removed"}]

Init ==
    /\ ctx = BootContext
    /\ ControlInit
    /\ aux = [pc |-> "none", st |-> "IDLE"]
    /\ epo = [is_epo_downloading |-> FALSE, busy |-> FALSE, file |-> FALSE,
              start |-> "none", crossed |-> "no"]

Alive == ctx.dead = "no"

----------------------------------------------------------------------------
\* Main thread: requests from the clients' sockets

Unmoved == UNCHANGED <<gps, lib, mainQ, aux>>

\* epo_downloader_start, when the file is found to be invalid
EpoTrigger ==
    IF WithEpo /\ ~epo.is_epo_downloading
    THEN \/ UNCHANGED epo
         \/ epo' = [epo EXCEPT !.is_epo_downloading = TRUE, !.busy = TRUE,
                               !.crossed = IF epo.start \in {"inject", "unlink"}
                                           THEN "begun" ELSE "no"]
    ELSE UNCHANGED epo

hal_gps_start ==
    /\ Alive /\ "hal" \in Clients
    /\ ctx' = OpenGps(ctx, "hal")
    /\ EpoTrigger
    /\ Unmoved

\* The other clients' start requests; a link asks for the host-based GPS only
\* when it was last told AP mode
ClientOpen(c) ==
    /\ Alive
    /\ c \in Links => ctx.view[c] = "AP"
    /\ ctx' = OpenGps(ctx, c)
    /\ UNCHANGED epo /\ Unmoved

ClientClose(c) ==
    /\ Alive
    /\ ctx' = CloseGps(ctx, c)
    /\ UNCHANGED epo /\ Unmoved

LinkOpen(c) ==
    /\ Alive
    /\ ctx.view[c] # "AP"
    /\ ctx' = OpenLink(ctx, c)
    /\ UNCHANGED epo /\ Unmoved

ClientReboot(c) ==
    /\ Alive
    /\ ctx' = Reboot(ctx, c)
    /\ UNCHANGED epo /\ Unmoved

HalDeleteAiding ==
    /\ Alive /\ "hal" \in Clients
    /\ ctx' = hal_gps_delete_aiding_data(ctx)
    /\ UNCHANGED epo /\ Unmoved

AgpsReset ==
    /\ Alive /\ "agps" \in Clients
    /\ ctx' = agps_reset_gps_req(ctx)
    /\ UNCHANGED epo /\ Unmoved

\* hal_update_network_state: a connection may start the EPO download
HalNetwork ==
    /\ Alive /\ WithEpo /\ "hal" \in Clients
    /\ EpoTrigger
    /\ UNCHANGED ctx /\ Unmoved

----------------------------------------------------------------------------
\* Main thread: main_event_hdlr

OnEvent(m) ==
    CASE m \in {"START_DONE", "STOP_DONE"} -> mnld_fsm(m, ctx)
      [] m = "RESET_DONE"                  -> OnResetDone(ctx)
      [] m = "NMEA_TIMEOUT"                -> OnNmeaTimeout(ctx)
      [] m \in AllUpdates                  -> OnDownloadDone(ctx, m)
      [] OTHER                             -> ctx

\* EPO2MAIN_EVENT_EPO_DONE; the library accepts the file (injected) or not
OnEpoDone(m, injected) ==
    CASE m = "EPO_OK" ->
           [epo EXCEPT !.is_epo_downloading = FALSE,
                       !.file = @ /\ ~(injected /\ ctx.gps_state \in {"STARTED", "OFL_STARTED"})]
      [] m = "EPO_FAIL" -> [epo EXCEPT !.is_epo_downloading = FALSE, !.file = FALSE]
      [] OTHER -> epo

main_event_hdlr ==
    /\ Alive
    /\ mainQ # << >>
    /\ ctx' = OnEvent(Head(mainQ))
    /\ \E injected \in BOOLEAN : epo' = OnEpoDone(Head(mainQ), injected)
    /\ mainQ' = Tail(mainQ)
    /\ UNCHANGED <<gps, lib, aux>>

----------------------------------------------------------------------------
\* Timers

\* mnld_gps_start_timeout, mnld_gps_stop_timeout, mnld_gps_reset_timeout
Watchdog(t) ==
    /\ Alive
    /\ t \in ctx.timers
    /\ ctx' = [ctx EXCEPT !.dead = "exit"]
    /\ UNCHANGED <<gps, lib, mainQ, aux, epo>>

\* gps_mnld_restart_mnl_process
NmeaTimeout ==
    /\ Alive
    /\ "nmea" \in ctx.timers
    /\ ctx' = [ctx EXCEPT !.timers = @ \ {"nmea"}]
    /\ Post("NMEA_TIMEOUT")
    /\ UNCHANGED <<gps, lib, aux, epo>>

\* mnld_gps_switch_ofl_mode_timeout starts on the timer's thread
SwitchTimeout ==
    /\ Alive
    /\ aux.pc = "none"
    /\ "switch_ofl" \in ctx.timers
    /\ ctx' = [ctx EXCEPT !.timers = @ \ {"switch_ofl"}]
    /\ aux' = [aux EXCEPT !.pc = "check"]
    /\ UNCHANGED <<gps, lib, mainQ, epo>>

SwitchCheck ==
    /\ Alive
    /\ aux.pc = "check"
    /\ aux' = [aux EXCEPT !.pc = IF HbdExist(ctx) THEN "none" ELSE "clear"]
    /\ UNCHANGED <<ctx, gps, lib, mainQ, epo>>

SwitchClear ==
    /\ Alive
    /\ aux.pc = "clear"
    /\ ctx' = DropLinks(ctx)
    /\ aux' = [aux EXCEPT !.pc = "read"]
    /\ UNCHANGED <<gps, lib, mainQ, epo>>

\* MTK_FLP_MSG_HAL_STOP_RSP on libmnl's thread: mnld_flp_ofl_link_close
LibLinkClose ==
    /\ Alive
    /\ aux.pc = "none"
    /\ "flp" \in Clients
    /\ lib.on
    /\ ctx.told["flp"] = "ofl"
    /\ ctx' = Closed(ctx, "flp")
    /\ aux' = [aux EXCEPT !.pc = "read"]
    /\ UNCHANGED <<gps, lib, mainQ, epo>>

\* mnld_fsm(GPS_EVENT_STOP) of either thread: gps_state is read ...
AuxRead ==
    /\ Alive
    /\ aux.pc = "read"
    /\ aux' = [pc |-> "run", st |-> ctx.gps_state]
    /\ UNCHANGED <<ctx, gps, lib, mainQ, epo>>

\* ... and the handler of the state that was read runs
AuxRun ==
    /\ Alive
    /\ aux.pc = "run"
    /\ ctx' = mnld_fsm_from(aux.st, "STOP", ctx)
    /\ aux' = [pc |-> "none", st |-> "IDLE"]
    /\ UNCHANGED <<gps, lib, mainQ, epo>>

----------------------------------------------------------------------------
\* Downloaders

\* epo_file_download_impl removes the old EPOHAL.DAT and merges the pieces into a new one
EpoWrite ==
    /\ Alive
    /\ epo.busy
    /\ epo' = [epo EXCEPT !.file = ~@]
    /\ UNCHANGED <<ctx, gps, lib, mainQ, aux>>

\* mnld_epo_download_done: a success has merged at least one piece, which a start of the GPS
\* may have removed since
EpoDone ==
    /\ Alive
    /\ epo.busy
    /\ \E ok \in BOOLEAN :
         /\ ok => epo.file \/ epo.crossed = "removed"
         /\ epo' = [epo EXCEPT !.busy = FALSE,
                               !.crossed = IF @ = "removed" THEN "no" ELSE @]
         /\ Post(IF ok THEN "EPO_OK" ELSE "EPO_FAIL")
    /\ UNCHANGED <<ctx, gps, lib, aux>>

DownloadDone(u) ==
    /\ Alive
    /\ lib.on
    /\ u \notin ctx.pending
    /\ \A i \in 1..Len(mainQ) : mainQ[i] # u
    /\ Post(u)
    /\ UNCHANGED <<ctx, gps, lib, aux, epo>>

----------------------------------------------------------------------------
\* init starts the daemon again
Restart ==
    /\ ~Alive
    /\ ctx' = BootContext
    /\ gps' = [pc |-> "idle", gps_restart |-> FALSE, condtion |-> FALSE]
    /\ lib' = [lib EXCEPT !.on = FALSE, !.offload = FALSE, !.starting = FALSE, !.cb = "idle"]
    /\ mainQ' = << >>
    /\ aux' = [pc |-> "none", st |-> "IDLE"]
    /\ epo' = [epo EXCEPT !.is_epo_downloading = FALSE, !.busy = FALSE,
                          !.start = "none", !.crossed = "no"]

\* The end of linux_gps_init: the start leaves the file alone
EpoLeft == [epo EXCEPT !.start = "none", !.crossed = IF @ = "begun" THEN "no" ELSE @]

Mut_EpoCheck ==
    /\ Alive /\ epo.start = "check"
    /\ epo' = IF epo.file THEN [epo EXCEPT !.start = "inject"] ELSE EpoLeft
    /\ UNCHANGED <<ctx, gps, lib, mainQ>>

\* A downloaded EPO file is injected at a good start: there is one, and it is not being
\* downloaded.  The main thread may begin a download from here on.
EpoCheck ==
    /\ Alive /\ epo.start = "check"
    /\ epo' = IF epo.file /\ ~epo.is_epo_downloading
              THEN [epo EXCEPT !.start = "inject"] ELSE EpoLeft
    /\ UNCHANGED <<ctx, gps, lib, mainQ>>

\* mtk_agps_agent_epo_file_update
EpoInject ==
    /\ Alive /\ epo.start = "inject"
    /\ \E injected \in BOOLEAN :
         epo' = IF injected THEN [epo EXCEPT !.start = "unlink"] ELSE EpoLeft
    /\ UNCHANGED <<ctx, gps, lib, mainQ>>

EpoUnlink ==
    /\ Alive /\ epo.start = "unlink"
    /\ epo' = [epo EXCEPT !.start = "none", !.file = FALSE,
                          !.crossed = IF @ = "begun" /\ epo.busy THEN "removed" ELSE "no"]
    /\ UNCHANGED <<ctx, gps, lib, mainQ>>

EpoAtStart == EpoCheck \/ EpoInject \/ EpoUnlink

GpsThreadStep ==
    /\ \/ /\ epo.start = "none"
          /\ GpsStart
          /\ epo' = [epo EXCEPT !.start = IF lib'.on THEN "check" ELSE "none"]
       \/ EpoAtStart
       \/ /\ epo.start = "none"
          /\ \/ GpsStop \/ GpsNmea
             \/ GpsResetParam \/ GpsResetWait \/ GpsResetWoken \/ GpsResetDone
          /\ UNCHANGED epo
    /\ UNCHANGED aux

LibStep ==
    /\ \/ LibStartReq \/ LibRestartReq \/ LibStartDone
       \/ LibNotify \/ LibHeartBeat \/ LibRecovery
    /\ UNCHANGED <<aux, epo>>

SwitchStep == SwitchTimeout \/ SwitchCheck \/ SwitchClear \/ AuxRead \/ AuxRun

Requests ==
    \/ hal_gps_start \/ HalDeleteAiding \/ HalNetwork \/ AgpsReset
    \/ \E c \in Clients \ {"hal"} : ClientOpen(c)
    \/ \E c \in Clients : ClientClose(c)
    \/ \E c \in Clients \cap Links : LinkOpen(c)
    \/ \E c \in Clients \cap {"hal", "agps"} : ClientReboot(c)

Watchdogs == {"start", "stop", "reset"}

Next ==
    \/ Requests
    \/ main_event_hdlr
    \/ GpsThreadStep
    \/ LibStep
    \/ GpsThreadTimeout /\ UNCHANGED <<aux, epo>>
    \/ \E t \in Watchdogs : Watchdog(t)
    \/ NmeaTimeout \/ SwitchStep \/ LibLinkClose
    \/ EpoWrite \/ EpoDone
    \/ \E u \in Updates : DownloadDone(u)
    \/ Restart

Spec == Init /\ [][Next]_vars

\* The daemon's own threads run, an armed timer expires, and init restarts a
\* dead daemon.  Nothing is assumed of libmnl (it may never call back), of the
\* clients or of the network.
Fairness ==
    /\ WF_vars(main_event_hdlr)
    /\ WF_vars(GpsThreadStep)
    /\ WF_vars(LibStartDone /\ UNCHANGED <<aux, epo>>)
    /\ WF_vars(GpsThreadTimeout /\ UNCHANGED <<aux, epo>>)
    /\ \A t \in Watchdogs : WF_vars(Watchdog(t))
    /\ WF_vars(NmeaTimeout)
    /\ WF_vars(SwitchStep)
    /\ WF_vars(Restart)

FairSpec == Spec /\ Fairness

----------------------------------------------------------------------------
\* The variables have their types.
TypeOK ==
    /\ ctx \in Context
    /\ gps \in GpsThread
    /\ lib \in Library
    /\ mainQ \in Seq(MainEvents)
    /\ aux \in Aux
    /\ epo \in Epo

\* CRASH_TO_DEBUG is never reached: no state handler meets an event it calls
\* unexpected, whatever the order in which requests, commands and completions
\* interleave.
NoCrash == ctx.dead # "crash"

Ons  == {"STARTED", "OFL_STARTED"}

\* The engine follows the state machine, although commands and completions travel
\* through queues: while gps_state says started the library runs, and in IDLE,
\* where nothing would ever stop it, it does not.
EngineFollows ==
    /\ ctx.gps_state \in Ons => lib.on
    /\ ctx.gps_state = "IDLE" => ~lib.on

\* A start, a stop and a reset that somebody waits for are always watched by their
\* timer, and a timer never outlives its state (it would kill a healthy daemon).
WatchdogArmed ==
    /\ ctx.gps_state = "STARTING" <=> "start" \in ctx.timers
    /\ ctx.gps_state = "STOPPING" <=> "stop" \in ctx.timers
    /\ ctx.reset_ack => ctx.timers \cap {"start", "reset"} # {}

\* Acknowledgements are owed to the right clients only: an open ack to a user, a
\* close ack to a former user, no open ack once started, and in IDLE nothing is
\* owed, nobody uses the GPS and every client has been told that it is off.
AckDiscipline ==
    /\ ctx.open \subseteq ctx.used
    /\ ctx.close \cap ctx.used = {}
    /\ ctx.gps_state = "STARTED" => ctx.open = {} /\ ctx.used # {}
    /\ ctx.gps_state = "IDLE" =>
         /\ ctx.used = {} /\ ctx.close = {} /\ ~ctx.reset_ack
         /\ \A c \in Clients : ctx.told[c] = "off"

\* The framework wakelock is held exactly while the GPS is not idle: every request
\* is matched by a release, also across stop-then-start and recovery.
WakelockBalanced == "wakelock" \in ctx.power <=> ctx.gps_state # "IDLE"

\* Offload mode is exclusive: the GPS is never started in offload mode while a
\* host-based client uses it, and low-power mode never holds while offload is
\* active and a host-based client uses the GPS.
OffloadExclusive ==
    HbdExist(ctx) =>
        /\ ctx.gps_state # "OFL_STARTED"
        /\ OffloadActive(ctx) => "lp_mode" \notin ctx.power

\* Nobody is stranded: in IDLE, where only a new request starts the GPS, no client
\* is registered as a user.
NobodyStranded == ctx.gps_state = "IDLE" => ctx.used = {}

\* While the downloader is writing the EPO file nobody else removes it, neither the main
\* thread nor a start of the GPS, but for the one start whose check of is_epo_downloading the
\* download's begin has followed: check, injection and unlink hold no lock.
EpoNotTorn ==
    [][epo.busy /\ epo.file # epo'.file
       => EpoWrite \/ (EpoUnlink /\ epo.crossed = "begun")]_vars

\* The NMEA monitor does not run in low-power offload: the FIX_READY notification
\* that was sent before the last host-based client left must not re-arm it.
NmeaMonitorOff == Unwatched(ctx) => "nmea" \notin ctx.timers

\* mnld keeps the promises of GpsService: the engine is not turned off under an
\* open session, no session is confirmed without a running engine, and none
\* changes behind the client's back.
Session(c) ==
    CASE c \in ctx.open            -> "opening"
      [] c \in ctx.used \ ctx.open -> "open"
      [] c \in ctx.close \ ctx.used -> "closing"
      [] OTHER                     -> "closed"

Service == INSTANCE GpsService
    WITH Sharers <- Clients \cap Acked,
         engine  <- lib.on,
         session <- [c \in Clients \cap Acked |-> Session(c)]

HonoursService == Service!Spec

----------------------------------------------------------------------------
\* Liveness

\* Every open request is answered: acknowledged, withdrawn by the client, or
\* cancelled by a restart of the daemon, even if libmnl never calls back.
OpenAnswered == \A c \in Clients : (c \in ctx.open) ~> (c \notin ctx.open)

\* The same for the reset request of the AGPS daemon.
ResetAnswered == ctx.reset_ack ~> ~ctx.reset_ack

\* When nobody uses the GPS any more the library does not keep running.
EngineReleased == AllExit(ctx) ~> (~AllExit(ctx) \/ ~lib.on)
=============================================================================
