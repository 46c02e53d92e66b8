----------------------------- MODULE MnldProofs -----------------------------
(***************************************************************************)
(* Proofs about MnldSystem, for every set of clients, queue capacity and   *)
(* number of restarts.                                                     *)
(***************************************************************************)
EXTENDS MnldSystem, TLAPS

----------------------------------------------------------------------------
\* Type correctness: every operator of the state machine maps contexts to contexts

\* A dropped or appended datagram leaves a sequence of the same messages.
LEMMA SendType ==
    ASSUME NEW S, NEW q \in Seq(S), NEW m \in S
    PROVE  Send(q, m) \in Seq(S)
  BY DEF Send

\* The commands to the GPS control thread and the crash keep the context's type.
LEMMA CommandType ==
    ASSUME NEW g \in Context
    PROVE  /\ gps_control_gps_start(g) \in Context
           /\ \A st \in GpsStates : gps_control_gps_stop(g, st) \in Context
           /\ gps_control_gps_reset(g) \in Context
           /\ CRASH_TO_DEBUG(g) \in Context
  <1>q. g.gpsQ \in Seq(Commands)
    BY DEF Context
  <1>1. /\ Send(g.gpsQ, "START") \in Seq(Commands)
        /\ Send(g.gpsQ, "STOP") \in Seq(Commands)
        /\ Send(g.gpsQ, "RESET") \in Seq(Commands)
    BY <1>q, SendType DEF Commands
  <1>2. gps_control_gps_start(g) \in Context
    BY <1>1 DEF gps_control_gps_start, Context
  <1>3. ASSUME NEW st \in GpsStates
        PROVE  gps_control_gps_stop(g, st) \in Context
    BY <1>1 DEF gps_control_gps_stop, Context, Timers
  <1>4. gps_control_gps_reset(g) \in Context
    BY <1>1 DEF gps_control_gps_reset, Context, Timers
  <1>5. CRASH_TO_DEBUG(g) \in Context
    BY DEF CRASH_TO_DEBUG, Context
  <1> QED BY <1>2, <1>3, <1>4, <1>5

\* Acknowledging keeps the context's type.
LEMMA AckType ==
    ASSUME NEW g \in Context
    PROVE  /\ do_gps_reset_hdlr(g) \in Context
           /\ do_gps_started_hdlr(g) \in Context
           /\ do_gps_stopped_hdlr(g) \in Context
  <1>1. ASSUME NEW h \in Context PROVE do_gps_reset_hdlr(h) \in Context
    BY DEF do_gps_reset_hdlr, Context
  <1>2. \A c \in Clients : AckKind(g, c) \in Kinds
    BY DEF AckKind, Kinds
  <1>3. [g EXCEPT !.told = [c \in Clients |-> IF c \in g.open THEN AckKind(g, c) ELSE @[c]],
                  !.open = {}] \in Context
    BY <1>2 DEF Context
  <1>4. do_gps_started_hdlr(g) \in Context
    BY <1>1, <1>3, CommandType DEF do_gps_started_hdlr
  <1>5. [g EXCEPT !.told = [c \in Clients |-> IF c \in g.close THEN "off" ELSE @[c]],
                  !.close = {}] \in Context
    BY DEF Context, Kinds
  <1>6. do_gps_stopped_hdlr(g) \in Context
    BY <1>1, <1>5 DEF do_gps_stopped_hdlr
  <1> QED BY <1>1, <1>4, <1>6

\* Switching the link sessions, the wakelock, arming a restart and dropping the
\* links keep the context's type.
LEMMA SessionType ==
    ASSUME NEW g \in Context
    PROVE  /\ \A type \in LinkTypes : SwitchSession(g, type) \in Context
           /\ SilentApSession(g) \in Context
           /\ RequestWakelock(g) \in Context
           /\ ReleaseWakelock(g) \in Context
           /\ ArmRestart(g) \in Context
           /\ DropLinks(g) \in Context
           /\ PowerSwitch(g) \in Context
  <1>1. ASSUME NEW type \in LinkTypes PROVE SwitchSession(g, type) \in Context
    BY DEF SwitchSession, Context, Kinds
  <1>2. SilentApSession(g) \in Context
    BY DEF SilentApSession, Context, LinkTypes
  <1>3. RequestWakelock(g) \in Context
    BY DEF RequestWakelock, Context, PowerFlags
  <1>4. ReleaseWakelock(g) \in Context
    BY DEF ReleaseWakelock, Context
  <1>5. ArmRestart(g) \in Context
    BY DEF ArmRestart, Context, Timers
  <1>6. DropLinks(g) \in Context
    BY DEF DropLinks, Context
  <1>7. PowerSwitch(g) \in Context
    BY DEF PowerSwitch, Context, Timers, PowerFlags
  <1> QED BY <1>1, <1>2, <1>3, <1>4, <1>5, <1>6, <1>7

\* The completions of a start and of a stop keep the context's type.
LEMMA DoneType ==
    ASSUME NEW g \in Context
    PROVE  /\ \A st \in GpsStates : StartFromIdle(g, st) \in Context
           /\ StartingDone(g) \in Context
           /\ StoppingDone(g) \in Context
           /\ OflStartingDone(g) \in Context
           /\ OflStoppingDone(g) \in Context
  <1>1. ASSUME NEW h \in Context, NEW st \in GpsStates
        PROVE  StartFromIdle(h, st) \in Context
    <2>1. RequestWakelock(h) \in Context
      BY SessionType
    <2>2. [RequestWakelock(h) EXCEPT !.gps_state = st, !.timers = @ \cup {"start"}] \in Context
      BY <2>1 DEF Context, Timers
    <2> QED BY <2>2, CommandType DEF StartFromIdle
  <1>2. StartingDone(g) \in Context
    <2> DEFINE s == do_gps_started_hdlr([g EXCEPT !.timers = @ \ {"start"}])
               r == [s EXCEPT !.gps_state = "STARTED", !.pending = {}]
    <2>1. [g EXCEPT !.timers = @ \ {"start"}] \in Context
      BY DEF Context
    <2>2. s \in Context
      BY <2>1, AckType
    <2> HIDE DEF s
    <2>3. r \in Context
      BY <2>2 DEF Context, GpsStates
    <2>4. gps_control_gps_stop(s, "STOPPING") \in Context
      BY <2>2, CommandType DEF GpsStates
    <2> HIDE DEF r
    <2>5. SwitchSession(r, "AP") \in Context /\ SilentApSession(r) \in Context
      BY <2>3, SessionType DEF LinkTypes
    <2>6. [SilentApSession(r) EXCEPT !.timers = @ \cup {"switch_ofl"}] \in Context
      BY <2>5 DEF Context, Timers
    <2> QED BY <2>4, <2>5, <2>6 DEF StartingDone, s, r
  <1>3. StoppingDone(g) \in Context /\ OflStoppingDone(g) \in Context
    <2> DEFINE s == do_gps_stopped_hdlr([g EXCEPT !.timers = @ \ {"stop"}])
               r == [ReleaseWakelock(s) EXCEPT !.gps_state = "IDLE"]
               a(st) == [s EXCEPT !.gps_state = st]
    <2>1. [g EXCEPT !.timers = @ \ {"stop"}] \in Context
      BY DEF Context
    <2>2. s \in Context
      BY <2>1, AckType
    <2> HIDE DEF s
    <2>3. ReleaseWakelock(s) \in Context
      BY <2>2, SessionType
    <2>4. r \in Context
      BY <2>3 DEF Context, GpsStates
    <2>5. a("STARTING") \in Context /\ a("OFL_STARTING") \in Context
      BY <2>2 DEF Context, GpsStates
    <2> HIDE DEF r, a
    <2>6. /\ gps_control_gps_start(ArmRestart(a("STARTING"))) \in Context
          /\ gps_control_gps_start(ArmRestart(a("OFL_STARTING"))) \in Context
      BY <2>5, SessionType, CommandType
    <2>7. SwitchSession(r, "AP") \in Context /\ SwitchSession(r, "AP_OFL") \in Context
      BY <2>4, SessionType DEF LinkTypes
    <2>8. fsm_gps_state_idle(SwitchSession(r, "AP"), "START") \in Context
      BY <2>7, <1>1 DEF fsm_gps_state_idle, GpsStates
    <2>9. StoppingDone(g) \in Context
      BY <2>4, <2>6, <2>7 DEF StoppingDone, s, r, a
    <2>10. OflStoppingDone(g) \in Context
      BY <2>4, <2>6, <2>7, <2>8 DEF OflStoppingDone, s, r, a
    <2> QED BY <2>9, <2>10
  <1>4. OflStartingDone(g) \in Context
    <2> DEFINE s == do_gps_started_hdlr([g EXCEPT !.timers = @ \ {"start"}])
    <2>1. [g EXCEPT !.timers = @ \ {"start"}] \in Context
      BY DEF Context
    <2>2. s \in Context
      BY <2>1, AckType
    <2> HIDE DEF s
    <2>3. [s EXCEPT !.gps_state = "OFL_STARTED", !.type = [l \in Links |-> "OFL"]] \in Context
      BY <2>2 DEF Context, GpsStates, LinkTypes
    <2>4. gps_control_gps_stop(s, "OFL_STOPPING") \in Context
      BY <2>2, CommandType DEF GpsStates
    <2> QED BY <2>3, <2>4 DEF OflStartingDone, s
  <1> QED BY <1>1, <1>2, <1>3, <1>4

\* mnld_fsm keeps the context's type, whichever state was read at its entry.
LEMMA FsmType ==
    ASSUME NEW g0 \in Context, NEW st \in GpsStates, NEW ev \in Events
    PROVE  mnld_fsm_from(st, ev, g0) \in Context
  <1> DEFINE g == PowerSwitch(g0)
  <1>0. g \in Context
    BY SessionType
  <1> HIDE DEF g
  <1>1. fsm_gps_state_idle(g, ev) \in Context
    BY <1>0, DoneType, AckType, CommandType DEF fsm_gps_state_idle, GpsStates
  <1>2. fsm_gps_state_starting(g, ev) \in Context
    BY <1>0, DoneType, CommandType DEF fsm_gps_state_starting
  <1>3. fsm_gps_state_started(g, ev) \in Context
    <2>1. [g EXCEPT !.timers = @ \ {"switch_ofl"}] \in Context
      BY <1>0 DEF Context
    <2>2. gps_control_gps_stop([g EXCEPT !.timers = @ \ {"switch_ofl"}], "STOPPING") \in Context
      BY <2>1, CommandType DEF GpsStates
    <2>3. do_gps_stopped_hdlr(g) \in Context
      BY <1>0, AckType
    <2>4. [do_gps_stopped_hdlr(g) EXCEPT !.timers = @ \cup {"switch_ofl"}] \in Context
      BY <2>3 DEF Context, Timers
    <2> QED
      BY <1>0, <2>2, <2>3, <2>4, AckType, CommandType DEF fsm_gps_state_started
  <1>4. fsm_gps_state_stopping(g, ev) \in Context
    BY <1>0, DoneType, AckType DEF fsm_gps_state_stopping
  <1>5. fsm_gps_state_ofl_starting(g, ev) \in Context
    BY <1>0, DoneType, CommandType DEF fsm_gps_state_ofl_starting
  <1>6. fsm_gps_state_ofl_started(g, ev) \in Context
    <2>1. do_gps_started_hdlr(g) \in Context
      BY <1>0, AckType
    <2>2. gps_control_gps_stop(DropLinks(do_gps_started_hdlr(g)), "OFL_STOPPING") \in Context
      BY <2>1, SessionType, CommandType DEF GpsStates
    <2>3. gps_control_gps_stop(g, "OFL_STOPPING") \in Context
      BY <1>0, CommandType DEF GpsStates
    <2> QED
      BY <1>0, <2>1, <2>2, <2>3, AckType, CommandType DEF fsm_gps_state_ofl_started
  <1>7. fsm_gps_state_ofl_stopping(g, ev) \in Context
    BY <1>0, DoneType, AckType DEF fsm_gps_state_ofl_stopping
  <1> QED
    BY <1>1, <1>2, <1>3, <1>4, <1>5, <1>6, <1>7 DEF mnld_fsm_from, g

\* A call of mnld_fsm keeps the context's type.
LEMMA CallType ==
    ASSUME NEW g \in Context, NEW ev \in Events
    PROVE  mnld_fsm(ev, g) \in Context
  <1>1. g.gps_state \in GpsStates
    BY DEF Context
  <1> QED BY <1>1, FsmType DEF mnld_fsm

\* Every request of a client keeps the context's type.
LEMMA RequestType ==
    ASSUME NEW g \in Context, NEW c \in Clients
    PROVE  /\ Opened(g, c) \in Context
           /\ Closed(g, c) \in Context
           /\ OpenGps(g, c) \in Context
           /\ CloseGps(g, c) \in Context
           /\ c \in Links => OpenLink(g, c) \in Context
           /\ Reboot(g, c) \in Context
           /\ hal_gps_delete_aiding_data(g) \in Context
           /\ agps_reset_gps_req(g) \in Context
  <1>1. Opened(g, c) \in Context
    BY DEF Opened, Context
  <1>2. Closed(g, c) \in Context
    BY DEF Closed, Context
  <1>3. OpenGps(g, c) \in Context
    BY CallType, <1>1 DEF OpenGps, Events
  <1>4. CloseGps(g, c) \in Context
    BY CallType, <1>2 DEF CloseGps, Events
  <1>5. ASSUME c \in Links PROVE OpenLink(g, c) \in Context
    <2>1. [Opened(g, c) EXCEPT !.type[c] = "OFL"] \in Context
      BY <1>1, <1>5 DEF Context, LinkTypes
    <2> QED BY CallType, <2>1 DEF OpenLink, Events
  <1>6. Reboot(g, c) \in Context
    <2>1. [g EXCEPT !.used = @ \ {c}, !.open = @ \ {c}, !.close = @ \ {c},
                    !.told[c] = "off",
                    !.reset_ack = @ /\ c # "agps"] \in Context
      BY DEF Context, Kinds
    <2> QED BY CallType, <2>1 DEF Reboot, Events
  <1>7. hal_gps_delete_aiding_data(g) \in Context
    <2>1. [g EXCEPT !.aiding = TRUE] \in Context
      BY DEF Context
    <2> QED BY CallType, <2>1 DEF hal_gps_delete_aiding_data, Events
  <1>8. agps_reset_gps_req(g) \in Context
    <2>1. [g EXCEPT !.aiding = TRUE, !.reset_ack = TRUE] \in Context
      BY DEF Context
    <2> QED BY CallType, <2>1 DEF agps_reset_gps_req, Events
  <1> QED BY <1>1, <1>2, <1>3, <1>4, <1>5, <1>6, <1>7, <1>8

\* Every internal event keeps the context's type.
LEMMA EventType ==
    ASSUME ctx \in Context, NEW m \in MainEvents
    PROVE  OnEvent(m) \in Context
  <1>1. m \in {"START_DONE", "STOP_DONE"} => mnld_fsm(m, ctx) \in Context
    BY CallType DEF Events
  <1>2. OnResetDone(ctx) \in Context
    <2>1. [ctx EXCEPT !.timers = @ \ {"reset"}] \in Context
      BY DEF Context
    <2> QED BY <2>1, AckType DEF OnResetDone
  <1>3. OnNmeaTimeout(ctx) \in Context
    <2>1. mtk_gps_clear_gps_user(ctx) \in Context
      BY DEF mtk_gps_clear_gps_user, Context
    <2>2. mnld_fsm("STOP", mtk_gps_clear_gps_user(ctx)) \in Context
      BY CallType, <2>1 DEF Events
    <2>3. ASSUME NEW h \in Context PROVE RebootNotices(h) \in Context
      BY DEF RebootNotices, Context, Kinds
    <2> QED BY <2>2, <2>3 DEF OnNmeaTimeout
  <1>4. m \in AllUpdates => OnDownloadDone(ctx, m) \in Context
    BY DEF OnDownloadDone, Context
  <1> QED BY <1>1, <1>2, <1>3, <1>4 DEF OnEvent

----------------------------------------------------------------------------
\* The initial state, and one lemma for each thread of the daemon

\* The boot context is a context.
LEMMA BootTyped ==
    BootContext \in Context
  <1>1. << >> \in Seq(Commands)
    OBVIOUS
  <1> QED BY <1>1 DEF BootContext, Context, GpsStates, BootType, LinkTypes, PowerFlags, Kinds

\* A posted event is one of the main thread's events.
LEMMA PostType ==
    ASSUME mainQ \in Seq(MainEvents), NEW m \in MainEvents, Post(m)
    PROVE  mainQ' \in Seq(MainEvents)
  BY SendType DEF Post

\* Every request keeps the types.
LEMMA RequestsTyped ==
    ASSUME TypeOK, Requests
    PROVE  TypeOK'
  <1> USE DEF TypeOK, Unmoved
  <1>e. EpoTrigger => epo' \in Epo
    BY DEF EpoTrigger, Epo
  <1>1. CASE hal_gps_start
    BY <1>1, <1>e, RequestType DEF hal_gps_start
  <1>2. CASE HalDeleteAiding
    BY <1>2, RequestType DEF HalDeleteAiding
  <1>3. CASE HalNetwork
    BY <1>3, <1>e DEF HalNetwork
  <1>4. CASE AgpsReset
    BY <1>4, RequestType DEF AgpsReset
  <1>5. CASE \E c \in Clients \ {"hal"} : ClientOpen(c)
    BY <1>5, RequestType DEF ClientOpen
  <1>6. CASE \E c \in Clients : ClientClose(c)
    BY <1>6, RequestType DEF ClientClose
  <1>7. CASE \E c \in Clients \cap Links : LinkOpen(c)
    BY <1>7, RequestType DEF LinkOpen
  <1>8. CASE \E c \in Clients \cap {"hal", "agps"} : ClientReboot(c)
    BY <1>8, RequestType DEF ClientReboot
  <1> QED BY <1>1, <1>2, <1>3, <1>4, <1>5, <1>6, <1>7, <1>8 DEF Requests

\* The main thread's events keep the types.
LEMMA MainTyped ==
    ASSUME TypeOK, main_event_hdlr
    PROVE  TypeOK'
  <1>1. Head(mainQ) \in MainEvents /\ Tail(mainQ) \in Seq(MainEvents)
    BY DEF TypeOK, main_event_hdlr
  <1>2. ctx' \in Context
    BY <1>1, EventType DEF TypeOK, main_event_hdlr
  <1>3. epo' \in Epo
    BY DEF TypeOK, main_event_hdlr, OnEpoDone, Epo
  <1> QED BY <1>1, <1>2, <1>3 DEF TypeOK, main_event_hdlr

\* The GPS control thread keeps the types.
LEMMA GpsThreadTyped ==
    ASSUME TypeOK, GpsThreadStep
    PROVE  TypeOK'
  <1>a. aux' \in Aux
    BY DEF TypeOK, GpsThreadStep
  <1>t. ASSUME ctx.gpsQ # << >> PROVE Taken \in Context
    <2>1. ctx.gpsQ \in Seq(Commands)
      BY DEF TypeOK, Context
    <2>2. Tail(ctx.gpsQ) \in Seq(Commands)
      BY <2>1, <1>t
    <2> QED BY <2>2 DEF TypeOK, Taken, Context
  <1>p. Outcomes \subseteq BOOLEAN /\ OffloadActive(ctx) \in BOOLEAN
    BY DEF Outcomes, OffloadActive
  <1>1. CASE GpsStart /\ epo' = [epo EXCEPT !.start = IF lib'.on THEN "check" ELSE "none"]
    <2>1. lib' \in Library
      BY <1>1, <1>p DEF TypeOK, GpsStart, Library
    <2>2. epo' \in Epo
      BY <1>1 DEF TypeOK, Epo
    <2> QED BY <1>1, <1>a, <1>t, <2>1, <2>2 DEF TypeOK, GpsStart, Take
  <1>8. CASE EpoAtStart
    <2>1. EpoLeft \in Epo
      BY DEF TypeOK, EpoLeft, Epo
    <2>2. epo' \in Epo
      BY <1>8, <2>1 DEF TypeOK, EpoAtStart, EpoCheck, EpoInject, EpoUnlink, Epo
    <2> QED BY <1>8, <1>a, <2>2 DEF TypeOK, EpoAtStart, EpoCheck, EpoInject, EpoUnlink
  <1>2. CASE GpsStop /\ UNCHANGED epo
    <2>1. ctx' \in Context
      BY <1>2, <1>t DEF GpsStop, Take, Context
    <2>2. lib' \in Library
      BY <1>2 DEF TypeOK, GpsStop, Library
    <2>3. mainQ' \in Seq(MainEvents)
      BY <1>2, SendType DEF TypeOK, GpsStop, MainEvents
    <2> QED BY <1>2, <1>a, <2>1, <2>2, <2>3 DEF TypeOK, GpsStop
  <1>3. CASE GpsNmea /\ UNCHANGED epo
    <2>1. ctx' \in Context
      BY <1>3, <1>t DEF GpsNmea, Take, Context, Timers
    <2> QED BY <1>3, <1>a, <2>1 DEF TypeOK, GpsNmea
  <1>4. CASE GpsResetParam /\ UNCHANGED epo
    <2>1. lib' \in Library /\ gps' \in GpsThread
      BY <1>4 DEF TypeOK, GpsResetParam, Library, GpsThread
    <2> QED BY <1>4, <1>a, <1>t, <2>1 DEF TypeOK, GpsResetParam, Take
  <1>5. CASE GpsResetWait /\ UNCHANGED epo
    BY <1>5, <1>a DEF TypeOK, GpsResetWait, GpsThread
  <1>6. CASE GpsResetWoken /\ UNCHANGED epo
    BY <1>6, <1>a DEF TypeOK, GpsResetWoken, GpsThread
  <1>7. CASE GpsResetDone /\ UNCHANGED epo
    <2>1. mainQ' \in Seq(MainEvents)
      BY <1>7, PostType DEF TypeOK, GpsResetDone, MainEvents
    <2> QED BY <1>7, <1>a, <2>1 DEF TypeOK, GpsResetDone, GpsThread
  <1> QED BY <1>1, <1>2, <1>3, <1>4, <1>5, <1>6, <1>7, <1>8 DEF GpsThreadStep

\* The library's threads keep the types.
LEMMA LibTyped ==
    ASSUME TypeOK, LibStep
    PROVE  TypeOK'
  <1>a. aux' \in Aux /\ epo' \in Epo
    BY DEF TypeOK, LibStep
  <1>g. StartReq => gps' \in GpsThread /\ ctx' \in Context /\ mainQ' \in Seq(MainEvents)
    BY DEF StartReq, TypeOK, GpsThread
  <1>n. MaxRestarts \in Nat /\ MaxNotifies \in Nat
    BY ControlAssumption
  <1>1. CASE LibStartReq
    BY <1>1, <1>a, <1>g DEF TypeOK, LibStartReq, Library
  <1>2. CASE LibRestartReq
    <2>1. lib' \in Library
      <3>1. lib.restarts + 1 \in 0..MaxRestarts
        BY <1>2, <1>n DEF TypeOK, LibRestartReq, Library
      <3> QED BY <1>2, <3>1 DEF TypeOK, LibRestartReq, Library
    <2> QED BY <1>2, <1>a, <1>g, <2>1 DEF TypeOK, LibRestartReq
  <1>3. CASE LibStartDone
    <2>1. mainQ' \in Seq(MainEvents)
      BY <1>3, PostType DEF TypeOK, LibStartDone, MainEvents
    <2> QED BY <1>3, <1>a, <2>1 DEF TypeOK, LibStartDone, Library
  <1>4. CASE LibNotify
    <2>1. ctx.gpsQ \in Seq(Commands)
      BY DEF TypeOK, Context
    <2>2. Send(ctx.gpsQ, "NMEA") \in Seq(Commands)
      BY <2>1, SendType DEF Commands
    <2>3. ctx' \in Context
      BY <1>4, <2>2 DEF TypeOK, LibNotify, Context
    <2>4. lib.notifies + 1 \in 0..MaxNotifies
      BY <1>4, <1>n DEF TypeOK, LibNotify, Library
    <2>5. lib' \in Library
      BY <1>4, <2>4 DEF TypeOK, LibNotify, Library
    <2> QED BY <1>4, <1>a, <2>3, <2>5 DEF TypeOK, LibNotify
  <1>5. CASE LibHeartBeat
    <2>1. mainQ' \in Seq(MainEvents)
      BY <1>5, SendType DEF TypeOK, LibHeartBeat, MainEvents
    <2>2. lib.restarts + 1 \in 0..MaxRestarts
      BY <1>5, <1>n DEF TypeOK, LibHeartBeat, Library
    <2>3. lib' \in Library
      BY <1>5, <2>2 DEF TypeOK, LibHeartBeat, Library
    <2> QED BY <1>5, <1>a, <2>1, <2>3 DEF TypeOK, LibHeartBeat
  <1>6. CASE LibRecovery
    <2>1. mainQ' \in Seq(MainEvents)
      BY <1>6, PostType DEF TypeOK, LibRecovery, MainEvents
    <2>2. lib.notifies + 1 \in 0..MaxNotifies
      BY <1>6, <1>n DEF TypeOK, LibRecovery, Library
    <2>3. lib' \in Library
      BY <1>6, <2>2 DEF TypeOK, LibRecovery, Library
    <2> QED BY <1>6, <1>a, <2>1, <2>3 DEF TypeOK, LibRecovery
  <1> QED BY <1>1, <1>2, <1>3, <1>4, <1>5, <1>6 DEF LibStep

\* The timers and the foreign calls of mnld_fsm keep the types.
LEMMA TimersTyped ==
    ASSUME TypeOK,
           \/ GpsThreadTimeout /\ UNCHANGED <<aux, epo>>
           \/ \E t \in Watchdogs : Watchdog(t)
           \/ NmeaTimeout \/ SwitchStep \/ LibLinkClose
    PROVE  TypeOK'
  <1>1. CASE GpsThreadTimeout /\ UNCHANGED <<aux, epo>>
    BY <1>1 DEF TypeOK, GpsThreadTimeout, Context
  <1>2. CASE \E t \in Watchdogs : Watchdog(t)
    <2>1. ctx' = [ctx EXCEPT !.dead = "exit"] /\ UNCHANGED <<gps, lib, mainQ, aux, epo>>
      BY <1>2 DEF Watchdog
    <2>2. ctx' \in Context
      BY <2>1 DEF TypeOK, Context
    <2> QED BY <2>1, <2>2 DEF TypeOK
  <1>3. CASE NmeaTimeout
    <2>1. mainQ' \in Seq(MainEvents)
      BY <1>3, PostType DEF TypeOK, NmeaTimeout, MainEvents
    <2> QED BY <1>3, <2>1 DEF TypeOK, NmeaTimeout, Context
  <1>4. CASE SwitchTimeout
    BY <1>4 DEF TypeOK, SwitchTimeout, Context, Aux
  <1>5. CASE SwitchCheck
    BY <1>5 DEF TypeOK, SwitchCheck, Aux
  <1>6. CASE SwitchClear
    BY <1>6, SessionType DEF TypeOK, SwitchClear, Aux
  <1>7. CASE LibLinkClose
    BY <1>7, RequestType DEF TypeOK, LibLinkClose, Aux
  <1>8. CASE AuxRead
    BY <1>8 DEF TypeOK, AuxRead, Aux, Context
  <1>9. CASE AuxRun
    <2>1. aux.st \in GpsStates
      BY DEF TypeOK, Aux
    <2>2. ctx' \in Context
      BY <1>9, <2>1, FsmType DEF TypeOK, AuxRun, Events
    <2> QED BY <1>9, <2>2 DEF TypeOK, AuxRun, Aux, GpsStates
  <1> QED BY <1>1, <1>2, <1>3, <1>4, <1>5, <1>6, <1>7, <1>8, <1>9 DEF SwitchStep

\* The downloaders and the restart of the daemon keep the types.
LEMMA OtherTyped ==
    ASSUME TypeOK, EpoWrite \/ EpoDone \/ (\E u \in Updates : DownloadDone(u)) \/ Restart
    PROVE  TypeOK'
  <1>1. CASE EpoDone
    <2>1. mainQ' \in Seq(MainEvents)
      BY <1>1, PostType DEF TypeOK, EpoDone, MainEvents
    <2> QED BY <1>1, <2>1 DEF TypeOK, EpoDone, Epo
  <1>2. CASE \E u \in Updates : DownloadDone(u)
    <2>1. mainQ' \in Seq(MainEvents)
      BY <1>2, PostType, FsmAssumption DEF TypeOK, DownloadDone, MainEvents
    <2> QED BY <1>2, <2>1 DEF TypeOK, DownloadDone
  <1>3. CASE Restart
    <2>1. ctx' \in Context /\ mainQ' \in Seq(MainEvents)
      BY <1>3, BootTyped DEF Restart
    <2>2. gps' \in GpsThread /\ aux' \in Aux
      BY <1>3 DEF Restart, GpsThread, Aux, GpsStates
    <2>3. lib' \in Library
      BY <1>3 DEF TypeOK, Restart, Library
    <2>4. epo' \in Epo
      BY <1>3 DEF TypeOK, Restart, Epo
    <2> QED BY <2>1, <2>2, <2>3, <2>4 DEF TypeOK
  <1>4. CASE EpoWrite
    BY <1>4 DEF TypeOK, EpoWrite, Epo
  <1> QED BY <1>1, <1>2, <1>3, <1>4

\* The variables keep their types: every field of g_mnld_ctx, the control thread,
\* the library and the queues, whatever the clients, the library and the timers do.
THEOREM TypeCorrect == Spec => []TypeOK
  <1>1. Init => TypeOK
    BY BootTyped, ControlAssumption
       DEF Init, ControlInit, TypeOK, GpsThread, Library, Aux, GpsStates, Epo
  <1>2. TypeOK /\ [Next]_vars => TypeOK'
    <2>1. TypeOK /\ Next => TypeOK'
      BY RequestsTyped, MainTyped, GpsThreadTyped, LibTyped, TimersTyped, OtherTyped DEF Next
    <2>2. TypeOK /\ UNCHANGED vars => TypeOK'
      BY DEF TypeOK, vars
    <2> QED BY <2>1, <2>2
  <1> QED BY <1>1, <1>2, PTL DEF Spec

----------------------------------------------------------------------------
\* What a queue holds

\* No message of S is in the queue.
Absent(q, S) == \A i \in 1..Len(q) : q[i] \notin S

\* At most one message of S is in the queue.
Once(q, S) == \A i, j \in 1..Len(q) : (q[i] \in S /\ q[j] \in S) => i = j

\* The messages of a queue after a send, which a full socket drops.
LEMMA Sent ==
    ASSUME NEW T, NEW q \in Seq(T), NEW m \in T
    PROVE  /\ Send(q, m) \in Seq(T)
           /\ Len(q) \in Nat
           /\ Len(Send(q, m)) \in {Len(q), Len(q) + 1}
           /\ \A i \in 1..Len(Send(q, m)) : \/ i \in 1..Len(q) /\ Send(q, m)[i] = q[i]
                                            \/ i = Len(q) + 1 /\ Send(q, m)[i] = m
  <1>1. /\ Send(q, m) \in Seq(T)
        /\ Len(q) \in Nat
        /\ Len(Send(q, m)) \in {Len(q), Len(q) + 1}
        /\ \A i \in 1..Len(Send(q, m)) : Send(q, m)[i] = IF i <= Len(q) THEN q[i] ELSE m
    BY DEF Send
  <1> QED BY <1>1

\* The messages of a queue after its first one is taken.
LEMMA Rest ==
    ASSUME NEW T, NEW q \in Seq(T), q # << >>
    PROVE  /\ Head(q) = q[1] /\ Head(q) \in T /\ Tail(q) \in Seq(T)
           /\ 1 \in 1..Len(q) /\ Len(q) \in Nat \ {0} /\ Len(Tail(q)) = Len(q) - 1
           /\ \A i \in 1..Len(Tail(q)) : Tail(q)[i] = q[i + 1] /\ i + 1 \in 1..Len(q)
  OBVIOUS

\* What a send leaves absent or unique.
LEMMA SendKeeps ==
    ASSUME NEW T, NEW q \in Seq(T), NEW m \in T
    PROVE  /\ \A S : Absent(q, S) /\ m \notin S => Absent(Send(q, m), S)
           /\ \A S : Once(q, S) /\ m \notin S => Once(Send(q, m), S)
           /\ \A S : Absent(q, S) => Once(Send(q, m), S)
  <1> DEFINE r == Send(q, m)
  <1>1. \A i \in 1..Len(r) : \/ i \in 1..Len(q) /\ r[i] = q[i]
                             \/ i = Len(q) + 1 /\ r[i] = m
    BY Sent
  <1> HIDE DEF r
  <1>2. ASSUME NEW S, Absent(q, S), m \notin S PROVE Absent(r, S)
    BY <1>1, <1>2 DEF Absent
  <1>3. ASSUME NEW S, Once(q, S), m \notin S PROVE Once(r, S)
    BY <1>1, <1>3 DEF Once
  <1>4. ASSUME NEW S, Absent(q, S) PROVE Once(r, S)
    BY <1>1, <1>4 DEF Once, Absent
  <1> QED BY <1>2, <1>3, <1>4 DEF r

\* What taking the first message leaves absent or unique.
LEMMA TailKeeps ==
    ASSUME NEW T, NEW q \in Seq(T), q # << >>
    PROVE  /\ \A S : Absent(q, S) => Absent(Tail(q), S) /\ Head(q) \notin S
           /\ \A S : Once(q, S) => Once(Tail(q), S)
           /\ \A S : Once(q, S) /\ Head(q) \in S => Absent(Tail(q), S)
  <1> DEFINE r == Tail(q)
  <1>1. /\ Head(q) = q[1] /\ Len(q) \in Nat \ {0} /\ Len(r) = Len(q) - 1 /\ 1 \in 1..Len(q)
        /\ \A i \in 1..Len(r) : r[i] = q[i + 1] /\ i + 1 \in 1..Len(q)
    BY Rest
  <1> HIDE DEF r
  <1>2. ASSUME NEW S, Absent(q, S) PROVE Absent(r, S) /\ Head(q) \notin S
    BY <1>1, <1>2 DEF Absent
  <1>3. ASSUME NEW S, Once(q, S) PROVE Once(r, S)
    <2> SUFFICES ASSUME NEW i \in 1..Len(r), NEW j \in 1..Len(r), r[i] \in S, r[j] \in S
                 PROVE  i = j
      BY DEF Once
    <2>1. /\ i + 1 \in 1..Len(q) /\ q[i + 1] \in S
          /\ j + 1 \in 1..Len(q) /\ q[j + 1] \in S
      BY <1>1
    <2>2. i + 1 = j + 1
      BY <1>3, <2>1 DEF Once
    <2> QED BY <2>2
  <1>4. ASSUME NEW S, Once(q, S), Head(q) \in S PROVE Absent(r, S)
    BY <1>1, <1>4 DEF Once, Absent
  <1> QED BY <1>2, <1>3, <1>4 DEF r

\* Absence of fewer messages.
LEMMA AbsentPart ==
    ASSUME NEW q, NEW S, NEW R, R \subseteq S, Absent(q, S)
    PROVE  Absent(q, R)
  BY DEF Absent

----------------------------------------------------------------------------
\* The EPO file, in every offload mode

EpoReports == {"EPO_OK", "EPO_FAIL"}

\* The handshake of the EPO download: while the downloader works, is_epo_downloading is
\* set and no report is under way; there is at most one report, and it finds the flag set.
EpoHandshake ==
    /\ epo.busy => epo.is_epo_downloading /\ Absent(mainQ, EpoReports)
    /\ ~epo.is_epo_downloading => Absent(mainQ, EpoReports)
    /\ Once(mainQ, EpoReports)

\* EpoHandshake is inductive.
LEMMA EpoHandshakeStep ==
    ASSUME TypeOK, EpoHandshake, [Next]_vars
    PROVE  EpoHandshake'
  <1>0. epo \in Epo /\ mainQ \in Seq(MainEvents)
    BY DEF TypeOK
  <1>s. \A m \in MainEvents \ EpoReports :
          /\ Absent(mainQ, EpoReports) => Absent(Send(mainQ, m), EpoReports)
          /\ Once(Send(mainQ, m), EpoReports)
    BY <1>0, SendKeeps DEF EpoHandshake
  <1>k. ASSUME \/ mainQ' = mainQ
               \/ \E m \in MainEvents \ EpoReports : mainQ' = Send(mainQ, m)
        PROVE  /\ Absent(mainQ, EpoReports) => Absent(mainQ', EpoReports)
               /\ Once(mainQ', EpoReports)
    BY <1>s, <1>k DEF EpoHandshake
  <1>1. ASSUME \/ mainQ' = mainQ
               \/ \E m \in MainEvents \ EpoReports : mainQ' = Send(mainQ, m),
               epo'.busy = epo.busy, epo'.is_epo_downloading = epo.is_epo_downloading
        PROVE  EpoHandshake'
    BY <1>1, <1>k DEF EpoHandshake, Absent, Once, EpoReports
  <1>2. CASE Requests
    <2>1. mainQ' = mainQ
      BY <1>2 DEF Requests, hal_gps_start, HalDeleteAiding, HalNetwork, AgpsReset,
                  ClientOpen, ClientClose, LinkOpen, ClientReboot, Unmoved
    <2>2. \/ epo' = epo
          \/ ~epo.is_epo_downloading /\ epo'.is_epo_downloading /\ epo'.busy
      BY <1>0, <1>2
         DEF Requests, hal_gps_start, HalDeleteAiding, HalNetwork, AgpsReset,
             ClientOpen, ClientClose, LinkOpen, ClientReboot, EpoTrigger, Epo
    <2>3. CASE epo' = epo
      BY <1>1, <2>1, <2>3
    <2>4. CASE ~epo.is_epo_downloading /\ epo'.is_epo_downloading /\ epo'.busy
      BY <2>1, <2>4 DEF EpoHandshake, Absent, Once, EpoReports
    <2> QED BY <2>2, <2>3, <2>4
  <1>3. CASE main_event_hdlr
    <2> DEFINE m == Head(mainQ)
    <2>1. /\ mainQ # << >> /\ mainQ' = Tail(mainQ)
          /\ \E injected \in BOOLEAN : epo' = OnEpoDone(m, injected)
      BY <1>3 DEF main_event_hdlr
    <2>2. /\ Absent(mainQ, EpoReports) => Absent(mainQ', EpoReports) /\ m \notin EpoReports
          /\ Once(mainQ', EpoReports)
          /\ m \in EpoReports => Absent(mainQ', EpoReports)
      BY <1>0, <2>1, TailKeeps DEF EpoHandshake
    <2> HIDE DEF m
    <2>3. CASE m \in EpoReports
      <3>1. epo'.is_epo_downloading = FALSE /\ epo'.busy = epo.busy
        BY <1>0, <2>1, <2>3 DEF OnEpoDone, EpoReports, Epo
      <3>2. ~epo.busy
        BY <2>2, <2>3 DEF EpoHandshake
      <3> QED BY <2>2, <2>3, <3>1, <3>2 DEF EpoHandshake, Absent, Once, EpoReports
    <2>4. CASE m \notin EpoReports
      <3>1. epo' = epo
        BY <2>1, <2>4 DEF OnEpoDone, EpoReports
      <3> QED BY <2>2, <3>1 DEF EpoHandshake, Absent, Once, EpoReports
    <2> QED BY <2>3, <2>4
  <1>4. CASE GpsThreadStep
    <2>1. {"STOP_DONE", "RESET_DONE"} \subseteq MainEvents \ EpoReports
      BY DEF MainEvents, EpoReports
    <2>2. mainQ' = mainQ \/ \E m \in MainEvents \ EpoReports : mainQ' = Send(mainQ, m)
      BY <1>4, <2>1 DEF GpsThreadStep, GpsStart, GpsStop, GpsNmea, GpsResetParam,
                        GpsResetWait, GpsResetWoken, GpsResetDone, Post,
                        EpoAtStart, EpoCheck, EpoInject, EpoUnlink
    <2>3. epo'.busy = epo.busy /\ epo'.is_epo_downloading = epo.is_epo_downloading
      BY <1>0, <1>4 DEF GpsThreadStep, EpoAtStart, EpoCheck, EpoInject, EpoUnlink, EpoLeft, Epo
    <2> QED BY <1>1, <2>2, <2>3
  <1>5. CASE LibStep
    <2>1. {"START_DONE", "NMEA_TIMEOUT"} \subseteq MainEvents \ EpoReports
      BY DEF MainEvents, EpoReports
    <2>2. mainQ' = mainQ \/ \E m \in MainEvents \ EpoReports : mainQ' = Send(mainQ, m)
      BY <1>5, <2>1 DEF LibStep, LibStartReq, LibRestartReq, StartReq, LibStartDone,
                        LibNotify, LibHeartBeat, LibRecovery, Post
    <2>3. epo' = epo
      BY <1>5 DEF LibStep
    <2> QED BY <1>1, <2>2, <2>3
  <1>6. CASE \/ GpsThreadTimeout /\ UNCHANGED <<aux, epo>>
             \/ \E x \in Watchdogs : Watchdog(x)
             \/ SwitchStep \/ LibLinkClose \/ UNCHANGED vars
    <2>1. mainQ' = mainQ /\ epo' = epo
      BY <1>6 DEF GpsThreadTimeout, Watchdog, SwitchStep, SwitchTimeout, SwitchCheck,
                  SwitchClear, AuxRead, AuxRun, LibLinkClose, vars
    <2> QED BY <1>1, <2>1
  <1>7. CASE NmeaTimeout \/ \E u \in Updates : DownloadDone(u)
    <2>1. {"NMEA_TIMEOUT"} \cup Updates \subseteq MainEvents \ EpoReports
      BY FsmAssumption DEF MainEvents, EpoReports, AllUpdates
    <2>2. /\ \E m \in MainEvents \ EpoReports : mainQ' = Send(mainQ, m)
          /\ epo' = epo
      BY <1>7, <2>1 DEF NmeaTimeout, DownloadDone, Post
    <2> QED BY <1>1, <2>2
  <1>8. CASE EpoWrite
    <2>1. /\ mainQ' = mainQ /\ epo'.busy = epo.busy
          /\ epo'.is_epo_downloading = epo.is_epo_downloading
      BY <1>0, <1>8 DEF EpoWrite, Epo
    <2> QED BY <1>1, <2>1
  <1>9. CASE EpoDone
    <2>1. PICK m \in EpoReports :
             /\ epo.busy /\ mainQ' = Send(mainQ, m)
             /\ epo'.busy = FALSE /\ epo'.is_epo_downloading = epo.is_epo_downloading
      BY <1>0, <1>9 DEF EpoDone, Post, EpoReports, Epo
    <2>2. epo.is_epo_downloading /\ Absent(mainQ, EpoReports)
      BY <2>1 DEF EpoHandshake
    <2>3. m \in MainEvents
      BY DEF EpoReports, MainEvents
    <2>4. Once(mainQ', EpoReports)
      BY <1>0, <2>1, <2>2, <2>3, SendKeeps
    <2> QED BY <2>1, <2>2, <2>4 DEF EpoHandshake, Absent, Once, EpoReports
  <1>10. CASE Restart
    <2>1. /\ mainQ' = << >> /\ epo'.busy = FALSE
      BY <1>0, <1>10 DEF Restart, Epo
    <2> QED BY <2>1 DEF EpoHandshake, Absent, Once
  <1> QED BY <1>2, <1>3, <1>4, <1>5, <1>6, <1>7, <1>8, <1>9, <1>10 DEF Next

\* A start of the GPS that is past its check while a download is on was crossed by it: the
\* check saw is_epo_downloading clear, so the download began after it.
EpoBehind == epo.busy /\ epo.start \in {"inject", "unlink"} => epo.crossed = "begun"

\* EpoBehind is inductive, given EpoHandshake.
LEMMA EpoBehindStep ==
    ASSUME TypeOK, EpoHandshake, EpoBehind, [Next]_vars
    PROVE  EpoBehind'
  <1>0. epo \in Epo
    BY DEF TypeOK
  <1> USE DEF EpoBehind
  <1>1. CASE Requests
    <2>1. epo' = epo \/ EpoTrigger
      BY <1>1 DEF Requests, hal_gps_start, HalDeleteAiding, HalNetwork, AgpsReset,
                  ClientOpen, ClientClose, LinkOpen, ClientReboot
    <2> QED BY <1>0, <2>1 DEF EpoTrigger, Epo
  <1>2. CASE main_event_hdlr
    BY <1>0, <1>2 DEF main_event_hdlr, OnEpoDone, Epo
  <1>3. CASE GpsThreadStep
    <2>1. CASE epo' = epo \/ epo' = [epo EXCEPT !.start = IF lib'.on THEN "check" ELSE "none"]
      BY <1>0, <2>1 DEF Epo
    <2>2. CASE EpoCheck
      BY <1>0, <2>2 DEF EpoCheck, EpoLeft, EpoHandshake, Epo
    <2>3. CASE EpoInject
      BY <1>0, <2>3 DEF EpoInject, EpoLeft, Epo
    <2>4. CASE EpoUnlink
      BY <1>0, <2>4 DEF EpoUnlink, Epo
    <2> QED BY <1>3, <2>1, <2>2, <2>3, <2>4 DEF GpsThreadStep, EpoAtStart
  <1>4. CASE EpoWrite \/ EpoDone \/ Restart
    BY <1>0, <1>4 DEF EpoWrite, EpoDone, Restart, Epo
  <1>5. CASE \/ LibStep
             \/ GpsThreadTimeout /\ UNCHANGED <<aux, epo>>
             \/ \E t \in Watchdogs : Watchdog(t)
             \/ NmeaTimeout \/ SwitchStep \/ LibLinkClose
             \/ \E u \in Updates : DownloadDone(u)
             \/ UNCHANGED vars
    <2>1. epo' = epo
      BY <1>5 DEF LibStep, Watchdog, NmeaTimeout, SwitchStep, SwitchTimeout, SwitchCheck,
                  SwitchClear, AuxRead, AuxRun, LibLinkClose, DownloadDone, vars
    <2> QED BY <2>1
  <1> QED BY <1>1, <1>2, <1>3, <1>4, <1>5 DEF Next

\* While the downloader is writing the EPO file neither the main thread nor a start of the GPS
\* removes it, whatever else goes on, but for a start whose check of is_epo_downloading the
\* begin of that download followed.
THEOREM EpoFileSafe == Spec => EpoNotTorn
  <1> DEFINE Inv == EpoHandshake /\ EpoBehind
  <1>1. Init => Inv
    BY DEF Init, ControlInit, EpoHandshake, EpoBehind, Absent, Once
  <1>2. TypeOK /\ Inv /\ [Next]_vars => Inv'
    BY EpoHandshakeStep, EpoBehindStep
  <1>3. TypeOK /\ Inv /\ [Next]_vars
        => [epo.busy /\ epo.file # epo'.file
            => EpoWrite \/ (EpoUnlink /\ epo.crossed = "begun")]_vars
    <2> SUFFICES ASSUME TypeOK, EpoHandshake, EpoBehind, Next, epo.busy, ~EpoWrite,
                        ~(EpoUnlink /\ epo.crossed = "begun")
                 PROVE  epo'.file = epo.file
      OBVIOUS
    <2>0. epo \in Epo /\ mainQ \in Seq(MainEvents) /\ epo.is_epo_downloading
      BY DEF TypeOK, EpoHandshake
    <2>1. CASE main_event_hdlr
      <3>1. mainQ # << >> /\ \E injected \in BOOLEAN : epo' = OnEpoDone(Head(mainQ), injected)
        BY <2>1 DEF main_event_hdlr
      <3>2. Head(mainQ) \notin EpoReports
        BY <2>0, <3>1, TailKeeps DEF EpoHandshake
      <3> QED BY <3>1, <3>2 DEF OnEpoDone, EpoReports
    <2>2. CASE GpsThreadStep
      <3>1. ~EpoUnlink
        BY <2>0 DEF EpoUnlink, EpoBehind
      <3> QED BY <2>0, <2>2, <3>1
              DEF GpsThreadStep, EpoAtStart, EpoCheck, EpoInject, EpoLeft, Epo
    <2>3. CASE Requests
      BY <2>0, <2>3
         DEF Requests, hal_gps_start, HalDeleteAiding, HalNetwork, AgpsReset,
             ClientOpen, ClientClose, LinkOpen, ClientReboot, EpoTrigger
    <2>4. CASE EpoDone \/ Restart
      BY <2>0, <2>4 DEF EpoDone, Restart, Epo
    <2>5. CASE \/ LibStep
               \/ GpsThreadTimeout /\ UNCHANGED <<aux, epo>>
               \/ \E x \in Watchdogs : Watchdog(x)
               \/ NmeaTimeout \/ SwitchStep \/ LibLinkClose
               \/ \E u \in Updates : DownloadDone(u)
      BY <2>5 DEF LibStep, Watchdog, NmeaTimeout, SwitchStep, SwitchTimeout, SwitchCheck,
                  SwitchClear, AuxRead, AuxRun, LibLinkClose, DownloadDone
    <2> QED BY <2>1, <2>2, <2>3, <2>4, <2>5 DEF Next
  <1> QED BY <1>1, <1>2, <1>3, TypeCorrect, PTL DEF Spec, EpoNotTorn

----------------------------------------------------------------------------
\* Offload mode: what the state handlers keep, in every mode

\* A step from g to h that ends in state st: it drops no user but a link, leaves the
\* low-power flag and the NMEA timer alone, and turns the sessions to offload only when
\* no host-based client uses the GPS.
Goes(g, h, st) ==
    /\ h \in Context /\ h.gps_state = st
    /\ h.used \subseteq g.used /\ g.used \ h.used \subseteq Links
    /\ "lp_mode" \in h.power <=> "lp_mode" \in g.power
    /\ "nmea" \in h.timers <=> "nmea" \in g.timers
    /\ HbdExist(h) => h.type \in {g.type, [l \in Links |-> "AP"], [l \in Links |-> "AP_OFL"]}

\* Dropping links neither adds nor removes a host-based client.
LEMMA GoesUsers ==
    ASSUME NEW g, NEW h, NEW st, Goes(g, h, st)
    PROVE  (HbdExist(h) <=> HbdExist(g)) /\ (OnlyLp(h) <=> OnlyLp(g))
  BY DEF Goes, HbdExist, OnlyLp, HbdClients, LpClients, Links

\* Steps compose.
LEMMA GoesTwice ==
    ASSUME NEW g, NEW h, NEW k, NEW a, NEW b, Goes(g, h, a), Goes(h, k, b)
    PROVE  Goes(g, k, b)
  <1>1. HbdExist(k) => HbdExist(h)
    BY GoesUsers
  <1> QED BY <1>1 DEF Goes

\* Assigning the state, the pending downloads or a watchdog is such a step.
LEMMA EditGoes ==
    ASSUME NEW g \in Context
    PROVE  /\ Goes(g, g, g.gps_state)
           /\ \A st \in GpsStates :
                /\ Goes(g, [g EXCEPT !.gps_state = st], st)
                /\ Goes(g, [g EXCEPT !.gps_state = st, !.pending = {}], st)
           /\ \A t \in Timers \ {"nmea"} :
                /\ Goes(g, [g EXCEPT !.timers = @ \ {t}], g.gps_state)
                /\ Goes(g, [g EXCEPT !.timers = @ \cup {t}], g.gps_state)
  <1>1. Goes(g, g, g.gps_state)
    BY DEF Goes
  <1>2. ASSUME NEW st \in GpsStates
        PROVE  /\ Goes(g, [g EXCEPT !.gps_state = st], st)
               /\ Goes(g, [g EXCEPT !.gps_state = st, !.pending = {}], st)
    BY DEF Goes, Context
  <1>3. ASSUME NEW t \in Timers \ {"nmea"}
        PROVE  /\ Goes(g, [g EXCEPT !.timers = @ \ {t}], g.gps_state)
               /\ Goes(g, [g EXCEPT !.timers = @ \cup {t}], g.gps_state)
    BY DEF Goes, Context
  <1> QED BY <1>1, <1>2, <1>3

\* So are the commands to the GPS control thread and the crash.
LEMMA CommandGoes ==
    ASSUME NEW g \in Context
    PROVE  /\ Goes(g, gps_control_gps_start(g), g.gps_state)
           /\ \A st \in GpsStates : Goes(g, gps_control_gps_stop(g, st), st)
           /\ Goes(g, gps_control_gps_reset(g), g.gps_state)
           /\ Goes(g, CRASH_TO_DEBUG(g), g.gps_state)
  <1>1. Goes(g, gps_control_gps_start(g), g.gps_state)
    BY CommandType DEF Goes, gps_control_gps_start, Context
  <1>2. ASSUME NEW st \in GpsStates PROVE Goes(g, gps_control_gps_stop(g, st), st)
    BY CommandType DEF Goes, gps_control_gps_stop, Context
  <1>3. Goes(g, gps_control_gps_reset(g), g.gps_state)
    BY CommandType DEF Goes, gps_control_gps_reset, Context
  <1>4. Goes(g, CRASH_TO_DEBUG(g), g.gps_state)
    BY CommandType DEF Goes, CRASH_TO_DEBUG, Context
  <1> QED BY <1>1, <1>2, <1>3, <1>4

\* So are the acknowledgements.
LEMMA AckGoes ==
    ASSUME NEW g \in Context
    PROVE  /\ Goes(g, do_gps_reset_hdlr(g), g.gps_state)
           /\ Goes(g, do_gps_started_hdlr(g), g.gps_state)
           /\ Goes(g, do_gps_stopped_hdlr(g), g.gps_state)
  <1>1. ASSUME NEW h \in Context PROVE Goes(h, do_gps_reset_hdlr(h), h.gps_state)
    BY AckType DEF Goes, do_gps_reset_hdlr, Context
  <1>2. Goes(g, do_gps_started_hdlr(g), g.gps_state)
    <2> DEFINE t == [c \in Clients |-> IF c \in g.open THEN AckKind(g, c) ELSE g.told[c]]
               a == [g EXCEPT !.told = t, !.open = {}]
               b == do_gps_reset_hdlr(a)
    <2>1. \A c \in Clients : AckKind(g, c) \in Kinds
      BY DEF AckKind, Kinds
    <2>2. t \in [Clients -> Kinds]
      BY <2>1 DEF Context
    <2> HIDE DEF t
    <2>3. Goes(g, a, g.gps_state)
      BY <2>2 DEF Goes, Context
    <2>4. a \in Context /\ a.gps_state = g.gps_state
      BY <2>3 DEF Goes
    <2> HIDE DEF a
    <2>5. Goes(a, b, g.gps_state) /\ b \in Context /\ b.gps_state = g.gps_state
      BY <1>1, <2>4 DEF Goes
    <2>6. Goes(b, gps_control_gps_reset(b), g.gps_state)
      BY <2>5, CommandGoes
    <2>7. do_gps_started_hdlr(g) = gps_control_gps_reset(b)
      BY DEF do_gps_started_hdlr, a, t
    <2> QED BY <2>3, <2>5, <2>6, <2>7, GoesTwice
  <1>3. Goes(g, do_gps_stopped_hdlr(g), g.gps_state)
    BY AckType DEF Goes, do_gps_stopped_hdlr, do_gps_reset_hdlr, Context
  <1> QED BY <1>1, <1>2, <1>3

\* So are the session switches, the wakelock, the restart timer and dropping the links.
LEMMA SessionGoes ==
    ASSUME NEW g \in Context
    PROVE  /\ \A type \in {"AP", "AP_OFL"} : Goes(g, SwitchSession(g, type), g.gps_state)
           /\ Goes(g, SilentApSession(g), g.gps_state)
           /\ Goes(g, RequestWakelock(g), g.gps_state)
           /\ Goes(g, ReleaseWakelock(g), g.gps_state)
           /\ Goes(g, ArmRestart(g), g.gps_state)
           /\ Goes(g, DropLinks(g), g.gps_state)
  <1>1. ASSUME NEW type \in {"AP", "AP_OFL"}
        PROVE  Goes(g, SwitchSession(g, type), g.gps_state)
    <2> DEFINE h == SwitchSession(g, type)
    <2>1. h \in Context
      BY SessionType DEF LinkTypes
    <2>2. /\ h.gps_state = g.gps_state /\ h.power = g.power /\ h.timers = g.timers
          /\ h.used = g.used \ Changed(g, type) /\ h.type = [l \in Links |-> type]
      BY DEF SwitchSession, Context
    <2>3. Changed(g, type) \subseteq Links
      BY DEF Changed
    <2> HIDE DEF h
    <2> QED BY <2>1, <2>2, <2>3 DEF Goes, h
  <1>2. Goes(g, SilentApSession(g), g.gps_state)
    BY SessionType DEF Goes, SilentApSession, Context
  <1>3. Goes(g, RequestWakelock(g), g.gps_state)
    <2> DEFINE h == RequestWakelock(g)
    <2>1. h \in Context
      BY SessionType
    <2>2. /\ h.gps_state = g.gps_state /\ h.used = g.used /\ h.type = g.type /\ h.timers = g.timers
          /\ h.power \in {g.power, g.power \cup {"wakelock"}, g.power \ {"wakelock"}}
      BY DEF RequestWakelock, Context
    <2> HIDE DEF h
    <2> QED BY <2>1, <2>2 DEF Goes, h
  <1>4. Goes(g, ReleaseWakelock(g), g.gps_state)
    <2> DEFINE h == ReleaseWakelock(g)
    <2>1. h \in Context
      BY SessionType
    <2>2. /\ h.gps_state = g.gps_state /\ h.used = g.used /\ h.type = g.type /\ h.timers = g.timers
          /\ h.power \in {g.power, g.power \cup {"wakelock"}, g.power \ {"wakelock"}}
      BY DEF ReleaseWakelock, Context
    <2> HIDE DEF h
    <2> QED BY <2>1, <2>2 DEF Goes, h
  <1>5. Goes(g, ArmRestart(g), g.gps_state)
    <2> DEFINE h == ArmRestart(g)
    <2>1. h \in Context
      BY SessionType
    <2>2. /\ h.gps_state = g.gps_state /\ h.used = g.used /\ h.type = g.type /\ h.power = g.power
          /\ h.timers \in {g.timers, g.timers \cup {"start"}}
      BY DEF ArmRestart, Context
    <2> HIDE DEF h
    <2> QED BY <2>1, <2>2 DEF Goes, h
  <1>6. Goes(g, DropLinks(g), g.gps_state)
    <2> DEFINE h == DropLinks(g)
    <2>1. h \in Context
      BY SessionType
    <2>2. /\ h.gps_state = g.gps_state /\ h.used = g.used \ Links /\ h.type = g.type
          /\ h.power = g.power /\ h.timers = g.timers
      BY DEF DropLinks, Context
    <2> HIDE DEF h
    <2> QED BY <2>1, <2>2 DEF Goes, h
  <1> QED BY <1>1, <1>2, <1>3, <1>4, <1>5, <1>6

\* The outcome h of the handler of state st for the event ev: nobody but the disabled
\* FLP test client is left behind in IDLE, and OFL_STARTED is entered, and kept by a
\* start request, only without a host-based client.
Outcome(g, h, st, ev) ==
    /\ Goes(g, h, h.gps_state)
    /\ h.gps_state = "IDLE" =>
         \/ h.used \subseteq {"flp_test"}
         \/ g.gps_state = "IDLE" /\ ~(st = "IDLE" /\ ev \in {"START", "OFFLOAD_START"})
    /\ (h.gps_state = "OFL_STARTED" /\ HbdExist(h)) =>
         g.gps_state = "OFL_STARTED" /\ ~(st = "OFL_STARTED" /\ ev = "START")

\* A handler that stays in the state it finds, or goes to one that is neither IDLE nor
\* OFL_STARTED.
LEMMA PlainOutcome ==
    ASSUME NEW g, NEW h, NEW st, NEW ev, NEW x, Goes(g, h, x),
           \/ x \notin {"IDLE", "OFL_STARTED"}
           \/ /\ x = g.gps_state
              /\ ~(st = "IDLE" /\ ev \in {"START", "OFFLOAD_START"})
              /\ ~(st = "OFL_STARTED" /\ ev = "START")
    PROVE  Outcome(g, h, st, ev)
  BY DEF Outcome, Goes

\* The handler of IDLE.
LEMMA IdleOutcome ==
    ASSUME NEW g \in Context, NEW ev \in Events
    PROVE  Outcome(g, fsm_gps_state_idle(g, ev), "IDLE", ev)
  <1> DEFINE h == fsm_gps_state_idle(g, ev)
  <1>1. ASSUME NEW st \in GpsStates PROVE Goes(g, StartFromIdle(g, st), st)
    <2> DEFINE a == RequestWakelock(g)
               b == [a EXCEPT !.gps_state = st, !.timers = @ \cup {"start"}]
    <2>1. Goes(g, a, g.gps_state) /\ a \in Context
      BY SessionGoes DEF Goes
    <2> HIDE DEF a
    <2>2. Goes(a, b, st) /\ b \in Context /\ b.gps_state = st
      BY <2>1 DEF Goes, Context, Timers
    <2> HIDE DEF b
    <2>3. Goes(b, gps_control_gps_start(b), st)
      BY <2>2, CommandGoes
    <2> QED BY <2>1, <2>2, <2>3, GoesTwice DEF StartFromIdle, a, b
  <1>2. CASE ev \in {"START", "OFFLOAD_START"}
    <2>1. \E st \in {"STARTING", "OFL_STARTING"} : h = StartFromIdle(g, st)
      BY <1>2 DEF fsm_gps_state_idle
    <2> QED BY <1>1, <2>1, PlainOutcome DEF GpsStates
  <1>3. CASE ev \notin {"START", "OFFLOAD_START"}
    <2>1. h \in {do_gps_stopped_hdlr(g), do_gps_reset_hdlr(g), CRASH_TO_DEBUG(g)}
      BY <1>3 DEF fsm_gps_state_idle
    <2>2. Goes(g, h, g.gps_state)
      BY <2>1, AckGoes, CommandGoes
    <2> QED BY <1>3, <2>2, PlainOutcome
  <1> QED BY <1>2, <1>3

\* The handler of STARTING.
LEMMA StartingOutcome ==
    ASSUME NEW g \in Context, NEW ev \in Events
    PROVE  Outcome(g, fsm_gps_state_starting(g, ev), "STARTING", ev)
  <1> DEFINE h == fsm_gps_state_starting(g, ev)
  <1>1. CASE ev # "START_DONE"
    <2>1. h \in {g, CRASH_TO_DEBUG(g)}
      BY <1>1 DEF fsm_gps_state_starting
    <2>2. Goes(g, h, g.gps_state)
      BY <2>1, EditGoes, CommandGoes
    <2> QED BY <2>2, PlainOutcome
  <1>2. CASE ev = "START_DONE"
    <2> DEFINE d == [g EXCEPT !.timers = @ \ {"start"}]
               s == do_gps_started_hdlr(d)
               r == [s EXCEPT !.gps_state = "STARTED", !.pending = {}]
               k == SilentApSession(r)
    <2>0. "start" \in Timers \ {"nmea"} /\ "switch_ofl" \in Timers \ {"nmea"}
          /\ "STARTED" \in GpsStates /\ "STOPPING" \in GpsStates
      BY DEF Timers, GpsStates
    <2>1. Goes(g, d, g.gps_state) /\ d \in Context
      BY <2>0, EditGoes DEF Goes
    <2> HIDE DEF d
    <2>2. Goes(d, s, d.gps_state) /\ s \in Context
      BY <2>1, AckGoes DEF Goes
    <2> HIDE DEF s
    <2>3. Goes(g, s, d.gps_state)
      BY <2>1, <2>2, GoesTwice
    <2>4. Goes(s, r, "STARTED") /\ r \in Context /\ r.gps_state = "STARTED"
      <3>1. Goes(s, r, "STARTED")
        BY <2>0, <2>2, EditGoes
      <3> QED BY <3>1 DEF Goes
    <2> HIDE DEF r
    <2>5. Goes(r, SwitchSession(r, "AP"), "STARTED")
      BY <2>4, SessionGoes
    <2>6. Goes(r, k, "STARTED") /\ k \in Context /\ k.gps_state = "STARTED"
      BY <2>4, SessionGoes DEF Goes
    <2>7. Goes(k, [k EXCEPT !.timers = @ \cup {"switch_ofl"}], "STARTED")
      BY <2>0, <2>6, EditGoes
    <2>8. Goes(s, gps_control_gps_stop(s, "STOPPING"), "STOPPING")
      BY <2>0, <2>2, CommandGoes
    <2>9. h \in {gps_control_gps_stop(s, "STOPPING"), SwitchSession(r, "AP"),
                 [k EXCEPT !.timers = @ \cup {"switch_ofl"}]}
      BY <1>2 DEF fsm_gps_state_starting, StartingDone, r, s, d
    <2>10. Goes(g, h, "STARTED") \/ Goes(g, h, "STOPPING")
      <3>1. CASE h = gps_control_gps_stop(s, "STOPPING")
        BY <2>3, <2>8, <3>1, GoesTwice
      <3>2. CASE h = SwitchSession(r, "AP")
        BY <2>3, <2>4, <2>5, <3>2, GoesTwice
      <3>3. CASE h = [k EXCEPT !.timers = @ \cup {"switch_ofl"}]
        BY <2>3, <2>4, <2>6, <2>7, <3>3, GoesTwice
      <3> QED BY <2>9, <3>1, <3>2, <3>3
    <2> QED BY <2>10, PlainOutcome
  <1> QED BY <1>1, <1>2

\* The handler of STARTED.
LEMMA StartedOutcome ==
    ASSUME NEW g \in Context, NEW ev \in Events
    PROVE  Outcome(g, fsm_gps_state_started(g, ev), "STARTED", ev)
  <1> DEFINE h == fsm_gps_state_started(g, ev)
             d == [g EXCEPT !.timers = @ \ {"switch_ofl"}]
             s == do_gps_stopped_hdlr(g)
  <1>0. "switch_ofl" \in Timers \ {"nmea"} /\ "STOPPING" \in GpsStates
    BY DEF Timers, GpsStates
  <1>1. Goes(g, d, g.gps_state) /\ d \in Context
    BY <1>0, EditGoes DEF Goes
  <1>2. Goes(d, gps_control_gps_stop(d, "STOPPING"), "STOPPING")
    BY <1>0, <1>1, CommandGoes
  <1>3. Goes(g, s, g.gps_state) /\ s \in Context /\ s.gps_state = g.gps_state
    BY AckGoes DEF Goes
  <1>4. Goes(s, [s EXCEPT !.timers = @ \cup {"switch_ofl"}], g.gps_state)
    BY <1>0, <1>3, EditGoes
  <1>5. h \in {do_gps_started_hdlr(g), gps_control_gps_stop(d, "STOPPING"), s,
               [s EXCEPT !.timers = @ \cup {"switch_ofl"}], gps_control_gps_reset(g), g,
               CRASH_TO_DEBUG(g)}
    BY DEF fsm_gps_state_started, Events
  <1> HIDE DEF h, d, s
  <1>6. Goes(g, h, g.gps_state) \/ Goes(g, h, "STOPPING")
    <2>1. Goes(g, gps_control_gps_stop(d, "STOPPING"), "STOPPING")
      BY <1>1, <1>2, GoesTwice
    <2>2. Goes(g, [s EXCEPT !.timers = @ \cup {"switch_ofl"}], g.gps_state)
      BY <1>3, <1>4, GoesTwice
    <2>3. /\ Goes(g, do_gps_started_hdlr(g), g.gps_state)
          /\ Goes(g, gps_control_gps_reset(g), g.gps_state)
          /\ Goes(g, CRASH_TO_DEBUG(g), g.gps_state) /\ Goes(g, g, g.gps_state)
      BY AckGoes, CommandGoes, EditGoes
    <2> QED BY <1>3, <1>5, <2>1, <2>2, <2>3
  <1> QED BY <1>6, PlainOutcome DEF h

\* The end of a stop in the two stopping states: after the acknowledgements.
LEMMA StoppedGoes ==
    ASSUME NEW g \in Context
    PROVE  LET s == do_gps_stopped_hdlr([g EXCEPT !.timers = @ \ {"stop"}])
               r == [ReleaseWakelock(s) EXCEPT !.gps_state = "IDLE"]
           IN  /\ s \in Context /\ r \in Context /\ r.gps_state = "IDLE"
               /\ Goes(g, s, g.gps_state) /\ Goes(s, r, "IDLE")
               /\ \A st \in GpsStates :
                    Goes(s, gps_control_gps_start(ArmRestart([s EXCEPT !.gps_state = st])), st)
  <1> DEFINE d == [g EXCEPT !.timers = @ \ {"stop"}]
             s == do_gps_stopped_hdlr(d)
             w == ReleaseWakelock(s)
             r == [w EXCEPT !.gps_state = "IDLE"]
  <1>0. "stop" \in Timers \ {"nmea"} /\ "IDLE" \in GpsStates
    BY DEF Timers, GpsStates
  <1>1. Goes(g, d, g.gps_state) /\ d \in Context /\ d.gps_state = g.gps_state
    BY <1>0, EditGoes DEF Goes
  <1> HIDE DEF d
  <1>2. Goes(d, s, g.gps_state) /\ s \in Context
    BY <1>1, AckGoes DEF Goes
  <1> HIDE DEF s
  <1>3. Goes(g, s, g.gps_state)
    BY <1>1, <1>2, GoesTwice
  <1>4. Goes(s, w, s.gps_state) /\ w \in Context
    BY <1>2, SessionGoes DEF Goes
  <1> HIDE DEF w
  <1>5. Goes(w, r, "IDLE")
    BY <1>0, <1>4, EditGoes
  <1>6. Goes(s, r, "IDLE") /\ r \in Context /\ r.gps_state = "IDLE"
    <2>1. Goes(s, r, "IDLE")
      BY <1>4, <1>5, GoesTwice
    <2> QED BY <2>1 DEF Goes
  <1>7. ASSUME NEW st \in GpsStates
        PROVE  Goes(s, gps_control_gps_start(ArmRestart([s EXCEPT !.gps_state = st])), st)
    <2> DEFINE a == [s EXCEPT !.gps_state = st]
               b == ArmRestart(a)
    <2>1. Goes(s, a, st) /\ a \in Context /\ a.gps_state = st
      BY <1>2, EditGoes DEF Goes
    <2> HIDE DEF a
    <2>2. Goes(a, b, st) /\ b \in Context /\ b.gps_state = st
      BY <2>1, SessionGoes DEF Goes
    <2> HIDE DEF b
    <2>3. Goes(b, gps_control_gps_start(b), st)
      BY <2>2, CommandGoes
    <2> QED BY <2>1, <2>2, <2>3, GoesTwice DEF a, b
  <1> QED BY <1>2, <1>3, <1>6, <1>7 DEF s, d, w

\* The handler of STOPPING.
LEMMA StoppingOutcome ==
    ASSUME NEW g \in Context, NEW ev \in Events
    PROVE  Outcome(g, fsm_gps_state_stopping(g, ev), "STOPPING", ev)
  <1> DEFINE h == fsm_gps_state_stopping(g, ev)
             s == do_gps_stopped_hdlr([g EXCEPT !.timers = @ \ {"stop"}])
             r == [ReleaseWakelock(s) EXCEPT !.gps_state = "IDLE"]
  <1>1. CASE ev # "STOP_DONE"
    <2>1. h \in {g, do_gps_reset_hdlr(g)}
      BY <1>1 DEF fsm_gps_state_stopping, Events
    <2>2. Goes(g, h, g.gps_state)
      BY <2>1, EditGoes, AckGoes
    <2> QED BY <2>2, PlainOutcome
  <1>2. CASE ev = "STOP_DONE"
    <2>0. h = StoppingDone(g)
      BY <1>2 DEF fsm_gps_state_stopping
    <2>1. /\ r \in Context /\ r.gps_state = "IDLE"
          /\ Goes(g, s, g.gps_state) /\ Goes(s, r, "IDLE")
          /\ Goes(s, gps_control_gps_start(ArmRestart([s EXCEPT !.gps_state = "STARTING"])),
                  "STARTING")
      BY StoppedGoes DEF GpsStates
    <2>2. CASE ~AllExit(s)
      <3>1. h = gps_control_gps_start(ArmRestart([s EXCEPT !.gps_state = "STARTING"]))
        BY <2>0, <2>2 DEF StoppingDone
      <3> HIDE DEF h, s
      <3>2. Goes(g, h, "STARTING")
        BY <2>1, <3>1, GoesTwice
      <3> QED BY <3>2, PlainOutcome DEF h
    <2>3. CASE AllExit(s)
      <3>1. h \in {r, SwitchSession(r, "AP_OFL")}
        BY <2>0, <2>3 DEF StoppingDone
      <3> HIDE DEF h, r, s
      <3>2. Goes(r, SwitchSession(r, "AP_OFL"), "IDLE")
        BY <2>1, SessionGoes
      <3>3. Goes(s, h, "IDLE")
        BY <2>1, <3>1, <3>2, GoesTwice
      <3>4. Goes(g, h, "IDLE")
        BY <2>1, <3>3, GoesTwice
      <3>5. h.used = {}
        BY <2>3, <3>3 DEF Goes, AllExit
      <3> QED BY <3>4, <3>5 DEF Outcome, Goes, h
    <2> QED BY <2>2, <2>3
  <1> QED BY <1>1, <1>2

\* The handler of OFL_STARTING.
LEMMA OflStartingOutcome ==
    ASSUME NEW g \in Context, NEW ev \in Events
    PROVE  Outcome(g, fsm_gps_state_ofl_starting(g, ev), "OFL_STARTING", ev)
  <1> DEFINE h == fsm_gps_state_ofl_starting(g, ev)
  <1>1. CASE ev # "START_DONE"
    <2>1. h \in {g, CRASH_TO_DEBUG(g)}
      BY <1>1 DEF fsm_gps_state_ofl_starting
    <2>2. Goes(g, h, g.gps_state)
      BY <2>1, EditGoes, CommandGoes
    <2> QED BY <2>2, PlainOutcome
  <1>2. CASE ev = "START_DONE"
    <2> DEFINE d == [g EXCEPT !.timers = @ \ {"start"}]
               s == do_gps_started_hdlr(d)
    <2>0. "start" \in Timers \ {"nmea"} /\ "OFL_STOPPING" \in GpsStates
      BY DEF Timers, GpsStates
    <2>1. Goes(g, d, g.gps_state) /\ d \in Context
      BY <2>0, EditGoes DEF Goes
    <2> HIDE DEF d
    <2>2. Goes(d, s, d.gps_state) /\ s \in Context
      BY <2>1, AckGoes DEF Goes
    <2> HIDE DEF s
    <2>3. Goes(g, s, d.gps_state)
      BY <2>1, <2>2, GoesTwice
    <2>4. CASE AllExit(s) \/ HbdExist(s)
      <3>1. h = gps_control_gps_stop(s, "OFL_STOPPING")
        BY <1>2, <2>4 DEF fsm_gps_state_ofl_starting, OflStartingDone, s, d
      <3> HIDE DEF h
      <3>2. Goes(s, h, "OFL_STOPPING")
        BY <2>0, <2>2, <3>1, CommandGoes
      <3>3. Goes(g, h, "OFL_STOPPING")
        BY <2>3, <3>2, GoesTwice
      <3> QED BY <3>3, PlainOutcome DEF h
    <2>5. CASE ~(AllExit(s) \/ HbdExist(s))
      <3>1. h = [s EXCEPT !.gps_state = "OFL_STARTED", !.type = [l \in Links |-> "OFL"]]
        BY <1>2, <2>5 DEF fsm_gps_state_ofl_starting, OflStartingDone, s, d
      <3> HIDE DEF h
      <3>2. /\ h \in Context /\ h.gps_state = "OFL_STARTED"
            /\ h.used = s.used /\ h.power = s.power /\ h.timers = s.timers
        BY <2>2, <3>1 DEF Context, GpsStates, LinkTypes
      <3>3. ~HbdExist(h)
        BY <2>5, <3>2 DEF HbdExist
      <3>4. Goes(s, h, "OFL_STARTED")
        BY <3>2, <3>3 DEF Goes
      <3>5. Goes(g, h, "OFL_STARTED")
        BY <2>3, <3>4, GoesTwice
      <3> QED BY <3>2, <3>3, <3>5 DEF Outcome, h
    <2> QED BY <2>4, <2>5
  <1> QED BY <1>1, <1>2

\* The handler of OFL_STARTED.
LEMMA OflStartedOutcome ==
    ASSUME NEW g \in Context, NEW ev \in Events
    PROVE  Outcome(g, fsm_gps_state_ofl_started(g, ev), "OFL_STARTED", ev)
  <1> DEFINE h == fsm_gps_state_ofl_started(g, ev)
             s == do_gps_started_hdlr(g)
             d == DropLinks(s)
  <1>0. "OFL_STOPPING" \in GpsStates
    BY DEF GpsStates
  <1>1. Goes(g, s, g.gps_state) /\ s \in Context
    BY AckGoes DEF Goes
  <1>2. CASE ev = "START" /\ HbdExist(s)
    <2>1. h = gps_control_gps_stop(d, "OFL_STOPPING")
      BY <1>2 DEF fsm_gps_state_ofl_started
    <2> HIDE DEF s, h
    <2>2. Goes(s, d, s.gps_state) /\ d \in Context
      BY <1>1, SessionGoes DEF Goes
    <2> HIDE DEF d
    <2>3. Goes(d, h, "OFL_STOPPING")
      BY <1>0, <2>1, <2>2, CommandGoes
    <2>4. Goes(s, h, "OFL_STOPPING")
      BY <2>2, <2>3, GoesTwice
    <2>5. Goes(g, h, "OFL_STOPPING")
      BY <1>1, <2>4, GoesTwice
    <2> QED BY <2>5, PlainOutcome DEF h
  <1>3. CASE ev = "START" /\ ~HbdExist(s)
    <2>1. h = s
      BY <1>3 DEF fsm_gps_state_ofl_started
    <2>2. ~HbdExist(h)
      BY <1>3, <2>1
    <2> HIDE DEF h, s
    <2>3. Goes(g, h, g.gps_state)
      BY <1>1, <2>1
    <2> QED BY <2>2, <2>3 DEF Outcome, Goes, h
  <1>4. CASE ev # "START"
    <2>1. h \in {do_gps_stopped_hdlr(g), gps_control_gps_stop(g, "OFL_STOPPING"), g,
                 CRASH_TO_DEBUG(g)}
      BY <1>4 DEF fsm_gps_state_ofl_started, Events
    <2>2. /\ Goes(g, do_gps_stopped_hdlr(g), g.gps_state) /\ Goes(g, g, g.gps_state)
          /\ Goes(g, CRASH_TO_DEBUG(g), g.gps_state)
          /\ Goes(g, gps_control_gps_stop(g, "OFL_STOPPING"), "OFL_STOPPING")
      BY <1>0, AckGoes, CommandGoes, EditGoes
    <2>3. Goes(g, h, g.gps_state) \/ Goes(g, h, "OFL_STOPPING")
      BY <2>1, <2>2
    <2> QED BY <1>4, <2>3, PlainOutcome
  <1> QED BY <1>2, <1>3, <1>4

\* The handler of OFL_STOPPING, with the nested start for a host-based client.
LEMMA OflStoppingOutcome ==
    ASSUME NEW g \in Context, NEW ev \in Events
    PROVE  Outcome(g, fsm_gps_state_ofl_stopping(g, ev), "OFL_STOPPING", ev)
  <1> DEFINE h == fsm_gps_state_ofl_stopping(g, ev)
             s == do_gps_stopped_hdlr([g EXCEPT !.timers = @ \ {"stop"}])
             r == [ReleaseWakelock(s) EXCEPT !.gps_state = "IDLE"]
  <1>1. CASE ev # "STOP_DONE"
    <2>1. h \in {g, do_gps_reset_hdlr(g)}
      BY <1>1 DEF fsm_gps_state_ofl_stopping, Events
    <2>2. Goes(g, h, g.gps_state)
      BY <2>1, EditGoes, AckGoes
    <2> QED BY <2>2, PlainOutcome
  <1>2. CASE ev = "STOP_DONE"
    <2>0. h = OflStoppingDone(g)
      BY <1>2 DEF fsm_gps_state_ofl_stopping
    <2>1. /\ s \in Context /\ r \in Context /\ r.gps_state = "IDLE"
          /\ Goes(g, s, g.gps_state) /\ Goes(s, r, "IDLE")
          /\ Goes(s, gps_control_gps_start(ArmRestart([s EXCEPT !.gps_state = "OFL_STARTING"])),
                  "OFL_STARTING")
      BY StoppedGoes DEF GpsStates
    <2>2. CASE LinkExist(s) /\ ~HbdExist(s)
      <3>1. h = gps_control_gps_start(ArmRestart([s EXCEPT !.gps_state = "OFL_STARTING"]))
        BY <2>0, <2>2 DEF OflStoppingDone
      <3> HIDE DEF h, s
      <3>2. Goes(g, h, "OFL_STARTING")
        BY <2>1, <3>1, GoesTwice
      <3> QED BY <3>2, PlainOutcome DEF h
    <2>3. CASE HbdExist(s)
      <3> DEFINE a == SwitchSession(r, "AP")
      <3>1. h = fsm_gps_state_idle(a, "START")
        BY <2>0, <2>3 DEF OflStoppingDone
      <3> HIDE DEF h, r, s
      <3>2. Goes(r, a, "IDLE") /\ a \in Context
        BY <2>1, SessionGoes DEF Goes
      <3>3. Goes(s, a, "IDLE")
        BY <2>1, <3>2, GoesTwice
      <3>4. Goes(g, a, "IDLE")
        BY <2>1, <3>3, GoesTwice
      <3> HIDE DEF a
      <3>5. Outcome(a, h, "IDLE", "START")
        BY <3>1, <3>2, IdleOutcome DEF Events
      <3>6. HbdExist(a) /\ a.gps_state = "IDLE"
        BY <2>3, <3>3, GoesUsers DEF Goes
      <3>7. Goes(a, h, h.gps_state) /\ h.gps_state \notin {"IDLE", "OFL_STARTED"}
        <4>1. Goes(a, h, h.gps_state)
          BY <3>5 DEF Outcome
        <4>2. HbdExist(h)
          BY <3>6, <4>1, GoesUsers
        <4>3. ~(h.used \subseteq {"flp_test"})
          BY <4>2 DEF HbdExist, HbdClients
        <4> QED BY <3>5, <3>6, <4>1, <4>2, <4>3 DEF Outcome
      <3>8. Goes(g, h, h.gps_state)
        BY <3>4, <3>7, GoesTwice
      <3> QED BY <3>7, <3>8, PlainOutcome DEF h
    <2>4. CASE ~LinkExist(s) /\ ~HbdExist(s)
      <3>1. h \in {r, SwitchSession(r, "AP_OFL")}
        BY <2>0, <2>4 DEF OflStoppingDone
      <3> HIDE DEF h, r, s
      <3>2. Goes(r, SwitchSession(r, "AP_OFL"), "IDLE")
        BY <2>1, SessionGoes
      <3>3. Goes(s, h, "IDLE")
        BY <2>1, <3>1, <3>2, GoesTwice
      <3>4. Goes(g, h, "IDLE")
        BY <2>1, <3>3, GoesTwice
      <3>5. s.used \subseteq AllClients
        BY <2>1, FsmAssumption DEF Context
      <3>6. h.used \subseteq {"flp_test"}
        BY <2>4, <3>3, <3>5 DEF Goes, LinkExist, HbdExist, Links, HbdClients, AllClients
      <3> QED BY <3>4, <3>6 DEF Outcome, Goes, h
    <2> QED BY <2>2, <2>3, <2>4
  <1> QED BY <1>1, <1>2

\* mnld_fsm, also when it runs the handler of a state that is no longer the current one.
LEMMA FsmOutcome ==
    ASSUME NEW g \in Context, NEW st \in GpsStates, NEW ev \in Events
    PROVE  Outcome(PowerSwitch(g), mnld_fsm_from(st, ev, g), st, ev)
  <1> DEFINE p == PowerSwitch(g)
  <1>1. p \in Context
    BY SessionType
  <1> HIDE DEF p
  <1>2. /\ Outcome(p, fsm_gps_state_idle(p, ev), "IDLE", ev)
        /\ Outcome(p, fsm_gps_state_starting(p, ev), "STARTING", ev)
        /\ Outcome(p, fsm_gps_state_started(p, ev), "STARTED", ev)
        /\ Outcome(p, fsm_gps_state_stopping(p, ev), "STOPPING", ev)
        /\ Outcome(p, fsm_gps_state_ofl_starting(p, ev), "OFL_STARTING", ev)
        /\ Outcome(p, fsm_gps_state_ofl_started(p, ev), "OFL_STARTED", ev)
        /\ Outcome(p, fsm_gps_state_ofl_stopping(p, ev), "OFL_STOPPING", ev)
    BY <1>1, IdleOutcome, StartingOutcome, StartedOutcome, StoppingOutcome,
       OflStartingOutcome, OflStartedOutcome, OflStoppingOutcome
  <1> QED BY <1>2 DEF mnld_fsm_from, GpsStates, p

----------------------------------------------------------------------------
\* Offload mode: the steps of the daemon, in every mode

\* A step from g to h outside mnld_fsm: it drops no user but a link, keeps the state, the
\* sessions and the power flags, and arms the NMEA monitor only for users it watches.
Slight(g, h) ==
    /\ h.gps_state = g.gps_state /\ h.type = g.type /\ h.power = g.power
    /\ h.used \subseteq g.used /\ g.used \ h.used \subseteq Links
    /\ "nmea" \in h.timers => "nmea" \in g.timers \/ ~Unwatched(g)

\* What a caller of mnld_fsm makes of the context before the call: it may register a
\* client with a start event, a link with an offload start, and otherwise only drop users.
Prepared(g, o, st, ev) ==
    /\ o \in Context /\ st \in GpsStates /\ ev \in Events
    /\ o.gps_state = g.gps_state /\ o.power = g.power /\ o.timers = g.timers
    /\ \/ st = g.gps_state /\ ev = "START"
       \/ st = g.gps_state /\ ev = "OFFLOAD_START" /\ o.used \subseteq g.used \cup Links
       \/ o.used \subseteq g.used

\* A step from g to h that calls mnld_fsm.
Called(g, h) ==
    \E o, st, ev : Prepared(g, o, st, ev) /\ Slight(mnld_fsm_from(st, ev, o), h)

\* Nothing follows the call.
LEMMA CalledPlain ==
    ASSUME NEW g, NEW o, NEW st, NEW ev, Prepared(g, o, st, ev)
    PROVE  /\ Called(g, mnld_fsm_from(st, ev, o))
           /\ st = g.gps_state => Called(g, mnld_fsm(ev, o))
  <1>1. \A h : Slight(h, h)
    BY DEF Slight
  <1>2. o.gps_state = g.gps_state
    BY DEF Prepared
  <1>3. Called(g, mnld_fsm_from(st, ev, o))
    BY <1>1 DEF Called
  <1> QED BY <1>2, <1>3 DEF mnld_fsm

\* A request calls mnld_fsm.
LEMMA RequestCall ==
    ASSUME NEW g \in Context, NEW c \in Clients
    PROVE  /\ Called(g, OpenGps(g, c))
           /\ Called(g, CloseGps(g, c))
           /\ c \in Links => Called(g, OpenLink(g, c))
           /\ Called(g, Reboot(g, c))
           /\ Called(g, hal_gps_delete_aiding_data(g))
           /\ Called(g, agps_reset_gps_req(g))
  <1>0. g.gps_state \in GpsStates
    BY DEF Context
  <1>1. Called(g, OpenGps(g, c))
    <2>1. Prepared(g, Opened(g, c), g.gps_state, "START")
      BY <1>0 DEF Prepared, Opened, Context, Events
    <2> QED BY <2>1, CalledPlain DEF OpenGps
  <1>2. Called(g, CloseGps(g, c))
    <2>1. Prepared(g, Closed(g, c), g.gps_state, "STOP")
      BY <1>0 DEF Prepared, Closed, Context, Events
    <2> QED BY <2>1, CalledPlain DEF CloseGps
  <1>3. ASSUME c \in Links PROVE Called(g, OpenLink(g, c))
    <2> DEFINE o == [Opened(g, c) EXCEPT !.type[c] = "OFL"]
    <2>0. Opened(g, c) \in Context
      BY RequestType
    <2>1. o \in Context
      BY <1>3, <2>0 DEF Context, LinkTypes
    <2>2. o.gps_state = g.gps_state /\ o.power = g.power /\ o.timers = g.timers
      BY DEF Opened, Context
    <2>3. o.used \subseteq g.used \cup Links
      BY <1>3 DEF Opened, Context
    <2>4. Prepared(g, o, g.gps_state, "OFFLOAD_START")
      BY <1>0, <2>1, <2>2, <2>3 DEF Prepared, Events
    <2> QED BY <2>4, CalledPlain DEF OpenLink
  <1>4. Called(g, Reboot(g, c))
    <2> DEFINE o == [g EXCEPT !.used = @ \ {c}, !.open = @ \ {c}, !.close = @ \ {c},
                              !.told[c] = "off", !.reset_ack = @ /\ c # "agps"]
    <2>1. o \in Context
      BY DEF Context, Kinds
    <2>2. /\ o.gps_state = g.gps_state /\ o.power = g.power /\ o.timers = g.timers
          /\ o.used \subseteq g.used
      BY DEF Context
    <2>3. Prepared(g, o, g.gps_state, "STOP")
      BY <1>0, <2>1, <2>2 DEF Prepared, Events
    <2> QED BY <2>3, CalledPlain DEF Reboot
  <1>5. Called(g, hal_gps_delete_aiding_data(g))
    <2>1. Prepared(g, [g EXCEPT !.aiding = TRUE], g.gps_state, "RESET")
      BY <1>0 DEF Prepared, Context, Events
    <2> QED BY <2>1, CalledPlain DEF hal_gps_delete_aiding_data
  <1>6. Called(g, agps_reset_gps_req(g))
    <2>1. Prepared(g, [g EXCEPT !.aiding = TRUE, !.reset_ack = TRUE], g.gps_state, "RESET")
      BY <1>0 DEF Prepared, Context, Events
    <2> QED BY <2>1, CalledPlain DEF agps_reset_gps_req
  <1> QED BY <1>1, <1>2, <1>3, <1>4, <1>5, <1>6

\* An internal event calls mnld_fsm or is slight.
LEMMA EventCall ==
    ASSUME ctx \in Context, NEW m \in MainEvents
    PROVE  Called(ctx, OnEvent(m)) \/ Slight(ctx, OnEvent(m))
  <1>0. ctx.gps_state \in GpsStates
    BY DEF Context
  <1>1. CASE m \in {"START_DONE", "STOP_DONE"}
    <2>1. Prepared(ctx, ctx, ctx.gps_state, m)
      BY <1>0, <1>1 DEF Prepared, Events
    <2>2. OnEvent(m) = mnld_fsm(m, ctx)
      BY <1>1 DEF OnEvent, AllUpdates
    <2> QED BY <2>1, <2>2, CalledPlain
  <1>2. CASE m = "RESET_DONE"
    <2>1. OnEvent(m) = OnResetDone(ctx)
      BY <1>2 DEF OnEvent, AllUpdates
    <2>2. Slight(ctx, OnResetDone(ctx))
      BY DEF Slight, OnResetDone, do_gps_reset_hdlr, Context
    <2> QED BY <2>1, <2>2
  <1>3. CASE m = "NMEA_TIMEOUT"
    <2> DEFINE o == mtk_gps_clear_gps_user(ctx)
               h == mnld_fsm("STOP", o)
    <2>1. OnEvent(m) = IF ctx.gps_state = "STARTED" THEN RebootNotices(h) ELSE ctx
      BY <1>3 DEF OnEvent, OnNmeaTimeout, AllUpdates
    <2>2. Prepared(ctx, o, ctx.gps_state, "STOP")
      BY <1>0 DEF Prepared, mtk_gps_clear_gps_user, Context, Events
    <2>3. h = mnld_fsm_from(ctx.gps_state, "STOP", o) /\ h \in Context
      BY <1>0, <2>2, FsmType DEF mnld_fsm, Prepared
    <2> HIDE DEF o, h
    <2>4. Slight(h, RebootNotices(h)) /\ Slight(ctx, ctx)
      BY <2>3 DEF Slight, RebootNotices, Context
    <2>5. Called(ctx, RebootNotices(h))
      BY <2>2, <2>3, <2>4 DEF Called
    <2> QED BY <2>1, <2>4, <2>5
  <1>4. CASE m \in AllUpdates \cup {"EPO_OK", "EPO_FAIL"}
    <2>1. OnEvent(m) \in {ctx, OnDownloadDone(ctx, m)}
      BY <1>4 DEF OnEvent, AllUpdates
    <2>2. Slight(ctx, ctx) /\ Slight(ctx, OnDownloadDone(ctx, m))
      BY DEF Slight, OnDownloadDone, Context
    <2> QED BY <2>1, <2>2
  <1> QED BY <1>1, <1>2, <1>3, <1>4 DEF MainEvents

\* Every step of the daemon is slight, or a restart, or calls mnld_fsm.
LEMMA StepCalls ==
    ASSUME TypeOK, [Next]_vars
    PROVE  Slight(ctx, ctx') \/ ctx' = BootContext \/ Called(ctx, ctx')
  <1>0. ctx \in Context /\ ctx.gps_state \in GpsStates /\ mainQ \in Seq(MainEvents)
    BY DEF TypeOK, Context
  <1>s. Slight(ctx, ctx)
    BY DEF Slight
  <1>1. CASE Requests
    <2>1. \/ ctx' = ctx
          \/ \E c \in Clients :
               \/ ctx' \in {OpenGps(ctx, c), CloseGps(ctx, c), Reboot(ctx, c)}
               \/ c \in Links /\ ctx' = OpenLink(ctx, c)
               \/ ctx' \in {hal_gps_delete_aiding_data(ctx), agps_reset_gps_req(ctx)}
      BY <1>1 DEF Requests, hal_gps_start, HalDeleteAiding, HalNetwork, AgpsReset,
                  ClientOpen, ClientClose, LinkOpen, ClientReboot
    <2> QED BY <1>0, <1>s, <2>1, RequestCall
  <1>2. CASE main_event_hdlr
    <2>1. mainQ # << >> /\ ctx' = OnEvent(Head(mainQ))
      BY <1>2 DEF main_event_hdlr
    <2>2. Head(mainQ) \in MainEvents
      BY <1>0, <2>1, Rest
    <2> QED BY <1>0, <2>1, <2>2, EventCall
  <1>3. CASE GpsThreadStep
    <2>1. \/ ctx' = ctx \/ ctx' = Taken
          \/ ctx' = [Taken EXCEPT !.timers = @ \ {"nmea"}]
          \/ ~Unwatched(ctx) /\ ctx' = [Taken EXCEPT !.timers = @ \cup {"nmea"}]
      BY <1>3 DEF GpsThreadStep, GpsStart, GpsStop, GpsNmea, GpsResetParam, GpsResetWait,
                  GpsResetWoken, GpsResetDone, EpoAtStart, EpoCheck, EpoInject, EpoUnlink
    <2>2. Slight(ctx, Taken)
      BY <1>0 DEF Slight, Taken, Context
    <2>3. Slight(ctx, [Taken EXCEPT !.timers = @ \ {"nmea"}])
      BY <1>0 DEF Slight, Taken, Context
    <2>4. ~Unwatched(ctx) => Slight(ctx, [Taken EXCEPT !.timers = @ \cup {"nmea"}])
      BY <1>0 DEF Slight, Taken, Context
    <2> QED BY <1>s, <2>1, <2>2, <2>3, <2>4
  <1>4. CASE LibStep
    <2>1. ctx' = ctx \/ ctx' = [ctx EXCEPT !.gpsQ = Send(@, "NMEA")]
      BY <1>4 DEF LibStep, LibStartReq, LibRestartReq, LibStartDone, LibNotify, LibHeartBeat,
                  LibRecovery, StartReq
    <2> QED BY <1>0, <1>s, <2>1 DEF Slight, Context
  <1>5. CASE \/ GpsThreadTimeout /\ UNCHANGED <<aux, epo>>
             \/ \E t \in Watchdogs : Watchdog(t)
             \/ NmeaTimeout \/ SwitchTimeout \/ SwitchCheck \/ SwitchClear \/ AuxRead
             \/ EpoWrite \/ EpoDone
             \/ \E u \in Updates : DownloadDone(u)
    <2>1. \/ ctx' = ctx
          \/ ctx' = [ctx EXCEPT !.dead = "exit"]
          \/ ctx' = [ctx EXCEPT !.timers = @ \ {"nmea"}]
          \/ ctx' = [ctx EXCEPT !.timers = @ \ {"switch_ofl"}]
          \/ ctx' = DropLinks(ctx)
      BY <1>5 DEF GpsThreadTimeout, Watchdog, NmeaTimeout, SwitchTimeout, SwitchCheck,
                  SwitchClear, AuxRead, EpoWrite, EpoDone, DownloadDone
    <2>2. Slight(ctx, [ctx EXCEPT !.dead = "exit"])
      BY <1>0 DEF Slight, Context
    <2>3. \A t \in Timers : Slight(ctx, [ctx EXCEPT !.timers = @ \ {t}])
      BY <1>0 DEF Slight, Context
    <2>4. Slight(ctx, DropLinks(ctx))
      BY <1>0 DEF Slight, DropLinks, Context
    <2>5. {"nmea", "switch_ofl"} \subseteq Timers
      BY DEF Timers
    <2> QED BY <1>s, <2>1, <2>2, <2>3, <2>4, <2>5
  <1>6. CASE LibLinkClose
    <2>1. ctx' = Closed(ctx, "flp")
      BY <1>6 DEF LibLinkClose
    <2> QED BY <1>0, <2>1 DEF Slight, Closed, Links, Context
  <1>7. CASE AuxRun
    <2>1. ctx' = mnld_fsm_from(aux.st, "STOP", ctx)
      BY <1>7 DEF AuxRun
    <2>2. Prepared(ctx, ctx, aux.st, "STOP")
      BY <1>0 DEF Prepared, TypeOK, Aux, Events
    <2> QED BY <2>1, <2>2, CalledPlain
  <1>8. CASE Restart
    BY <1>8 DEF Restart
  <1>9. CASE UNCHANGED vars
    BY <1>s, <1>9 DEF vars
  <1> QED
    BY <1>1, <1>2, <1>3, <1>4, <1>5, <1>6, <1>7, <1>8, <1>9 DEF Next, SwitchStep

\* The power switch decides on the users and the sessions, and changes neither.
LEMMA SwitchKeeps ==
    ASSUME NEW g \in Context
    PROVE  LET p == PowerSwitch(g)
           IN  /\ p \in Context
               /\ p.gps_state = g.gps_state /\ p.used = g.used /\ p.type = g.type
               /\ OffloadActive(g) => ("lp_mode" \in p.power <=> OnlyLp(g))
               /\ \/ OffloadActive(g) /\ OnlyLp(g) /\ "lp_mode" \notin g.power
                     /\ "nmea" \notin p.timers
                  \/ OffloadActive(g) /\ ~OnlyLp(g)
                  \/ p = g
  <1>0. PowerSwitch(g) \in Context
    BY SessionType
  <1>1. CASE EnterLp(g)
    <2>1. PowerSwitch(g) =
            [g EXCEPT !.timers = @ \ {"nmea"},
                      !.power = {"lp_mode"} \cup
                                (IF "fwk" \in @ THEN {} ELSE @ \cap {"wakelock"})]
      BY <1>1 DEF PowerSwitch, EnterLp, LeaveLp
    <2> QED BY <1>0, <1>1, <2>1 DEF EnterLp, Context
  <1>2. CASE LeaveLp(g)
    <2>1. PowerSwitch(g) = [g EXCEPT !.timers = @ \cup {"nmea"},
                                     !.power = {"wakelock", "fwk", "kernel"}]
      BY <1>2 DEF PowerSwitch, EnterLp, LeaveLp
    <2> QED BY <1>0, <1>2, <2>1 DEF LeaveLp, Context
  <1>3. CASE ~EnterLp(g) /\ ~LeaveLp(g)
    <2>1. PowerSwitch(g) = g
      BY <1>3 DEF PowerSwitch
    <2> QED BY <1>3, <2>1 DEF EnterLp, LeaveLp
  <1> QED BY <1>1, <1>2, <1>3

\* OffloadExclusive of a context.
Exclusive(g) ==
    HbdExist(g) =>
        /\ g.gps_state # "OFL_STARTED"
        /\ OffloadActive(g) => "lp_mode" \notin g.power

\* A call of mnld_fsm leaves offload mode exclusive: the power switch at its entry has seen
\* every host-based client, and only a start request may meet one in OFL_STARTED.
LEMMA FsmExclusive ==
    ASSUME NEW g \in Context, NEW st \in GpsStates, NEW ev \in Events,
           \/ ~HbdExist(g)
           \/ g.gps_state # "OFL_STARTED"
           \/ st = "OFL_STARTED" /\ ev = "START"
    PROVE  Exclusive(mnld_fsm_from(st, ev, g))
  <1> DEFINE p == PowerSwitch(g)
             h == mnld_fsm_from(st, ev, g)
  <1>1. Outcome(p, h, st, ev)
    BY FsmOutcome
  <1>2. /\ p.gps_state = g.gps_state /\ p.used = g.used /\ p.type = g.type
        /\ OffloadActive(g) => ("lp_mode" \in p.power <=> OnlyLp(g))
    BY SwitchKeeps
  <1> HIDE DEF p, h
  <1> SUFFICES ASSUME HbdExist(h)
               PROVE  /\ h.gps_state # "OFL_STARTED"
                      /\ OffloadActive(h) => "lp_mode" \notin h.power
    BY DEF Exclusive, h
  <1>3. Goes(p, h, h.gps_state)
    BY <1>1 DEF Outcome
  <1>4. HbdExist(p) /\ HbdExist(g) /\ ~OnlyLp(g)
    BY <1>2, <1>3, GoesUsers DEF HbdExist, OnlyLp, HbdClients, LpClients
  <1>5. h.gps_state # "OFL_STARTED"
    BY <1>1, <1>2, <1>4 DEF Outcome
  <1>6. ASSUME OffloadActive(h) PROVE "lp_mode" \notin h.power
    <2>1. /\ h.type \in {g.type, [l \in Links |-> "AP"], [l \in Links |-> "AP_OFL"]}
          /\ "lp_mode" \in h.power <=> "lp_mode" \in p.power
      BY <1>2, <1>3 DEF Goes
    <2>2. OffloadActive(g)
      BY <1>6, <2>1 DEF OffloadActive, mnld_offload_is_auto_mode
    <2> QED BY <1>2, <1>4, <2>1, <2>2
  <1> QED BY <1>5, <1>6

\* In every offload mode gps_state is never OFL_STARTED, and low-power mode is off while offload
\* is active, as long as a host-based client uses the GPS; mnld_fsm may run on three threads.
THEOREM OffloadStaysExclusive == Spec => []OffloadExclusive
  <1>1. Init => OffloadExclusive
    BY DEF Init, BootContext, OffloadExclusive, HbdExist
  <1>2. TypeOK /\ OffloadExclusive /\ [Next]_vars => OffloadExclusive'
    <2> SUFFICES ASSUME TypeOK, Exclusive(ctx), [Next]_vars
                 PROVE  Exclusive(ctx')
      BY DEF OffloadExclusive, Exclusive, HbdExist, OffloadActive, mnld_offload_is_auto_mode
    <2>1. CASE Slight(ctx, ctx')
      BY <2>1 DEF Slight, Exclusive, HbdExist, OffloadActive, mnld_offload_is_auto_mode
    <2>2. CASE ctx' = BootContext
      BY <2>2 DEF BootContext, Exclusive, HbdExist
    <2>3. CASE Called(ctx, ctx')
      <3>1. PICK o, st, ev : /\ Prepared(ctx, o, st, ev)
                             /\ Slight(mnld_fsm_from(st, ev, o), ctx')
        BY <2>3 DEF Called
      <3>2. o \in Context /\ st \in GpsStates /\ ev \in Events
        BY <3>1 DEF Prepared
      <3>3. \/ ~HbdExist(o)
            \/ o.gps_state # "OFL_STARTED"
            \/ st = "OFL_STARTED" /\ ev = "START"
        BY <3>1 DEF Prepared, Exclusive, HbdExist, HbdClients, Links
      <3>4. Exclusive(mnld_fsm_from(st, ev, o))
        BY <3>2, <3>3, FsmExclusive
      <3> QED BY <3>1, <3>4
            DEF Slight, Exclusive, HbdExist, OffloadActive, mnld_offload_is_auto_mode
    <2> QED BY <2>1, <2>2, <2>3, StepCalls
  <1> QED BY <1>1, <1>2, TypeCorrect, PTL DEF Spec

\* A call of mnld_fsm strands nobody: a handler that ends in IDLE has no user left, and in
\* IDLE a start request leaves it.
LEMMA FsmStrands ==
    ASSUME NEW g \in Context, NEW st \in GpsStates, NEW ev \in Events,
           "flp_test" \notin Clients,
           \/ g.gps_state # "IDLE"
           \/ g.used = {}
           \/ st = "IDLE" /\ ev \in {"START", "OFFLOAD_START"},
           mnld_fsm_from(st, ev, g).gps_state = "IDLE"
    PROVE  mnld_fsm_from(st, ev, g).used = {}
  <1> DEFINE p == PowerSwitch(g)
             h == mnld_fsm_from(st, ev, g)
  <1>1. Outcome(p, h, st, ev) /\ h.gps_state = "IDLE"
    BY FsmOutcome
  <1>2. p.gps_state = g.gps_state /\ p.used = g.used
    BY SwitchKeeps
  <1> HIDE DEF p, h
  <1>3. h \in Context /\ h.used \subseteq g.used
    BY <1>1, <1>2 DEF Outcome, Goes
  <1>4. h.used \subseteq Clients
    BY <1>3 DEF Context
  <1> QED BY <1>1, <1>2, <1>3, <1>4 DEF Outcome, h

\* In every offload mode, in IDLE, where only a new request starts the GPS, no client is
\* registered as a user.  The FLP test client is left out: the code that would register it
\* is compiled out.
THEOREM NobodyIsStranded ==
    ASSUME "flp_test" \notin Clients
    PROVE  Spec => []NobodyStranded
  <1>1. Init => NobodyStranded
    BY DEF Init, BootContext, NobodyStranded
  <1>2. TypeOK /\ NobodyStranded /\ [Next]_vars => NobodyStranded'
    <2> SUFFICES ASSUME TypeOK, NobodyStranded, [Next]_vars, ctx'.gps_state = "IDLE"
                 PROVE  ctx'.used = {}
      BY DEF NobodyStranded
    <2>1. CASE Slight(ctx, ctx')
      BY <2>1 DEF Slight, NobodyStranded
    <2>2. CASE ctx' = BootContext
      BY <2>2 DEF BootContext
    <2>3. CASE Called(ctx, ctx')
      <3>1. PICK o, st, ev : /\ Prepared(ctx, o, st, ev)
                             /\ Slight(mnld_fsm_from(st, ev, o), ctx')
        BY <2>3 DEF Called
      <3>2. o \in Context /\ st \in GpsStates /\ ev \in Events
        BY <3>1 DEF Prepared
      <3>3. \/ o.gps_state # "IDLE"
            \/ o.used = {}
            \/ st = "IDLE" /\ ev \in {"START", "OFFLOAD_START"}
        BY <3>1 DEF Prepared, NobodyStranded
      <3>4. mnld_fsm_from(st, ev, o).gps_state = "IDLE"
        BY <3>1 DEF Slight
      <3>5. mnld_fsm_from(st, ev, o).used = {}
        BY <3>2, <3>3, <3>4, FsmStrands
      <3> QED BY <3>1, <3>5 DEF Slight
    <2> QED BY <2>1, <2>2, <2>3, StepCalls
  <1> QED BY <1>1, <1>2, TypeCorrect, PTL DEF Spec

\* The NMEA monitor and low-power mode exclude each other: the one runs only with a
\* host-based client, the other holds only without.
Monitored(g) ==
    /\ "nmea" \in g.timers => ~OnlyLp(g)
    /\ "lp_mode" \in g.power => OnlyLp(g)

\* A call of mnld_fsm brings the two in line with the users of the GPS.
LEMMA FsmMonitors ==
    ASSUME NEW g \in Context, NEW st \in GpsStates, NEW ev \in Events,
           OffloadMode = "always",
           "lp_mode" \in g.power => "nmea" \notin g.timers
    PROVE  Monitored(mnld_fsm_from(st, ev, g))
  <1> DEFINE p == PowerSwitch(g)
             h == mnld_fsm_from(st, ev, g)
  <1>1. Outcome(p, h, st, ev)
    BY FsmOutcome
  <1>2. Monitored(p)
    <2>1. OffloadActive(g)
      BY DEF OffloadActive
    <2>2. /\ p.used = g.used
          /\ "lp_mode" \in p.power <=> OnlyLp(g)
          /\ \/ OnlyLp(g) /\ "nmea" \notin p.timers
             \/ ~OnlyLp(g)
             \/ p = g
      BY <2>1, SwitchKeeps
    <2> HIDE DEF p
    <2> QED BY <2>2 DEF Monitored, OnlyLp
  <1> HIDE DEF p, h
  <1>3. /\ OnlyLp(h) <=> OnlyLp(p)
        /\ Goes(p, h, h.gps_state)
    BY <1>1, GoesUsers DEF Outcome
  <1> QED BY <1>2, <1>3 DEF Monitored, Goes, h

\* With offload always on the NMEA monitor does not run in low-power offload, although
\* FIX_READY notifications and users come and go in any order.
THEOREM MonitorStaysOff ==
    ASSUME OffloadMode = "always"
    PROVE  Spec => []NmeaMonitorOff
  <1> DEFINE Inv == Monitored(ctx)
  <1>1. Init => Inv
    BY DEF Init, BootContext, Monitored
  <1>2. TypeOK /\ Inv /\ [Next]_vars => Inv'
    <2> SUFFICES ASSUME TypeOK, Monitored(ctx), [Next]_vars
                 PROVE  Monitored(ctx')
      BY DEF Monitored, OnlyLp
    <2>1. CASE Slight(ctx, ctx')
      BY <2>1 DEF Slight, Monitored, Unwatched, OffloadActive, OnlyLp, Links, LpClients
    <2>2. CASE ctx' = BootContext
      BY <2>2 DEF BootContext, Monitored
    <2>3. CASE Called(ctx, ctx')
      <3>1. PICK o, st, ev : /\ Prepared(ctx, o, st, ev)
                             /\ Slight(mnld_fsm_from(st, ev, o), ctx')
        BY <2>3 DEF Called
      <3>2. o \in Context /\ st \in GpsStates /\ ev \in Events
        BY <3>1 DEF Prepared
      <3>3. "lp_mode" \in o.power => "nmea" \notin o.timers
        BY <3>1 DEF Prepared, Monitored
      <3>4. Monitored(mnld_fsm_from(st, ev, o))
        BY <3>2, <3>3, FsmMonitors
      <3> QED BY <3>1, <3>4
            DEF Slight, Monitored, Unwatched, OffloadActive, OnlyLp, Links, LpClients
    <2> QED BY <2>1, <2>2, <2>3, StepCalls
  <1>3. Inv => NmeaMonitorOff
    BY DEF Monitored, NmeaMonitorOff, Unwatched
  <1> QED BY <1>1, <1>2, <1>3, TypeCorrect, PTL DEF Spec

=============================================================================
