----------------------------- MODULE HostProofs -----------------------------
(***************************************************************************)
(* Proofs about the daemon without GPS offload (OffloadMode = "off", the   *)
(* default of the build), for every set of clients, queue capacity and     *)
(* number of restarts.                                                     *)
(*                                                                         *)
(* The inductive invariant speaks of the context alone: an event that the  *)
(* state machine does not expect only sets dead, and every timeout also,   *)
(* so neither the order of the queues nor the library can disturb it.      *)
(***************************************************************************)
EXTENDS MnldProofs

AllAp == [l \in Links |-> "AP"]

\* Without offload both links stay in AP mode and the offload states are unreachable.
ApOnly(g) ==
    /\ g.gps_state \in {"IDLE", "STARTING", "STARTED", "STOPPING"}
    /\ g.type = AllAp /\ g.pre_type = AllAp /\ g.view = AllAp
    /\ "switch_ofl" \notin g.timers
    /\ \A c \in Clients : g.told[c] # "ofl"

\* The watchdogs of WatchdogArmed; a reset outlives its start only with its own timer.
Watched(g) ==
    /\ g.gps_state = "STARTING" <=> "start" \in g.timers
    /\ g.gps_state = "STOPPING" <=> "stop" \in g.timers
    /\ g.reset_ack => g.gps_state # "IDLE"
    /\ (g.reset_ack /\ g.gps_state # "STARTING") => "reset" \in g.timers

\* The acknowledgements of AckDiscipline; who was last told "on" is a user or still
\* waits for a close acknowledgement, and only acknowledged clients are told anything.
Owed(g) ==
    /\ g.open \subseteq g.used \cap Acked
    /\ g.close \cap g.used = {}
    /\ \A c \in Clients : g.told[c] # "off" => c \in Acked \cap (g.used \cup g.close)
    /\ g.gps_state = "STARTED" => g.open = {} /\ g.used # {}
    /\ g.gps_state = "IDLE" => g.used = {} /\ g.close = {}

\* The wakelock of WakelockBalanced.
Awake(g) == "wakelock" \in g.power <=> g.gps_state # "IDLE"

HostContext(g) == ApOnly(g) /\ Watched(g) /\ Owed(g) /\ Awake(g)

HostInv ==
    /\ TypeOK
    /\ HostContext(ctx)
    /\ aux.pc = "none"

----------------------------------------------------------------------------
\* Without offload the power switch does nothing, the wakelock is always requested
\* and released, every restart is watched and every acknowledgement is host-based.
LEMMA HostMode ==
    ASSUME OffloadMode = "off", NEW g \in Context
    PROVE  /\ ~AutoSwitch
           /\ ~OffloadActive(g)
           /\ PowerSwitch(g) = g
           /\ RequestWakelock(g) = [g EXCEPT !.power = @ \cup {"wakelock"}]
           /\ ReleaseWakelock(g) = [g EXCEPT !.power = @ \ {"wakelock"}]
           /\ ArmRestart(g) = [g EXCEPT !.timers = @ \cup {"start"}]
           /\ \A c \in Clients : AckKind(g, c) = "hbd"
  <1>1. ~AutoSwitch
    BY DEF AutoSwitch
  <1>2. ~mnld_offload_is_auto_mode(g)
    BY <1>1 DEF mnld_offload_is_auto_mode
  <1>3. ~OffloadActive(g)
    BY <1>2 DEF OffloadActive
  <1>4. PowerSwitch(g) = g
    BY <1>3 DEF PowerSwitch, EnterLp, LeaveLp
  <1>5. ~Unwatched(g)
    BY <1>3 DEF Unwatched
  <1> QED BY <1>1, <1>2, <1>3, <1>4, <1>5
          DEF RequestWakelock, ReleaseWakelock, ArmRestart, AckKind

\* The fields of the context after do_gps_started_hdlr.
LEMMA StartedFields ==
    ASSUME OffloadMode = "off", NEW g \in Context
    PROVE  LET h == do_gps_started_hdlr(g) IN
           /\ h \in Context
           /\ h.gps_state = g.gps_state /\ h.used = g.used /\ h.close = g.close
           /\ h.open = {} /\ h.reset_ack = FALSE
           /\ h.timers \in {g.timers, g.timers \cup {"reset"}}
           /\ h.type = g.type /\ h.pre_type = g.pre_type /\ h.view = g.view
           /\ h.power = g.power
           /\ h.told = [c \in Clients |-> IF c \in g.open THEN "hbd" ELSE g.told[c]]
  <1> DEFINE h == do_gps_started_hdlr(g)
  <1>1. h \in Context
    BY AckType
  <1> DEFINE t == [c \in Clients |-> IF c \in g.open THEN "hbd" ELSE g.told[c]]
             a == [g EXCEPT !.told = t, !.open = {}]
             b == [a EXCEPT !.reset_ack = FALSE]
  <1>2. [c \in Clients |-> IF c \in g.open THEN AckKind(g, c) ELSE g.told[c]] = t
    BY HostMode
  <1>3. h = gps_control_gps_reset(b)
    BY <1>2 DEF do_gps_started_hdlr, do_gps_reset_hdlr
  <1>4. t \in [Clients -> Kinds]
    BY DEF Context, Kinds
  <1>5. b \in Context /\ b.told = t
    BY <1>4 DEF Context
  <1>6. /\ b.gps_state = g.gps_state /\ b.used = g.used /\ b.close = g.close
        /\ b.open = {} /\ b.reset_ack = FALSE /\ b.timers = g.timers
        /\ b.type = g.type /\ b.pre_type = g.pre_type /\ b.view = g.view
        /\ b.power = g.power
    BY DEF Context
  <1> HIDE DEF b
  <1> QED BY <1>1, <1>3, <1>5, <1>6 DEF gps_control_gps_reset, Context

\* The fields of the context after do_gps_stopped_hdlr.
LEMMA StoppedFields ==
    ASSUME NEW g \in Context
    PROVE  LET h == do_gps_stopped_hdlr(g) IN
           /\ h \in Context
           /\ h.gps_state = g.gps_state /\ h.used = g.used /\ h.open = g.open
           /\ h.close = {} /\ h.reset_ack = FALSE /\ h.timers = g.timers
           /\ h.type = g.type /\ h.pre_type = g.pre_type /\ h.view = g.view
           /\ h.power = g.power
           /\ h.told = [c \in Clients |-> IF c \in g.close THEN "off" ELSE g.told[c]]
  <1>1. do_gps_stopped_hdlr(g) \in Context
    BY AckType
  <1> QED BY <1>1 DEF do_gps_stopped_hdlr, do_gps_reset_hdlr, Context

\* The fields of the context after a start from IDLE.
LEMMA StartFields ==
    ASSUME OffloadMode = "off", NEW g \in Context
    PROVE  LET h == StartFromIdle(g, "STARTING") IN
           /\ h \in Context
           /\ h.gps_state = "STARTING" /\ h.timers = g.timers \cup {"start"}
           /\ h.power = g.power \cup {"wakelock"}
           /\ h.used = g.used /\ h.open = g.open /\ h.close = g.close
           /\ h.reset_ack = g.reset_ack /\ h.told = g.told
           /\ h.type = g.type /\ h.pre_type = g.pre_type /\ h.view = g.view
  <1>1. StartFromIdle(g, "STARTING") \in Context
    BY DoneType DEF GpsStates
  <1>2. RequestWakelock(g) = [g EXCEPT !.power = @ \cup {"wakelock"}]
    BY HostMode
  <1> QED BY <1>1, <1>2 DEF StartFromIdle, gps_control_gps_start, Context

\* The fields of the context after a stop command.
LEMMA StopFields ==
    ASSUME NEW g \in Context
    PROVE  LET h == gps_control_gps_stop(g, "STOPPING") IN
           /\ h.gps_state = "STOPPING" /\ h.timers = g.timers \cup {"stop"}
           /\ h.power = g.power
           /\ h.used = g.used /\ h.open = g.open /\ h.close = g.close
           /\ h.reset_ack = g.reset_ack /\ h.told = g.told
           /\ h.type = g.type /\ h.pre_type = g.pre_type /\ h.view = g.view
  BY DEF gps_control_gps_stop, Context

\* Without offload mnld_fsm is the handler of the current state.
LEMMA FsmHost ==
    ASSUME OffloadMode = "off", NEW g \in Context, NEW ev \in Events
    PROVE  /\ g.gps_state = "IDLE"     => mnld_fsm(ev, g) = fsm_gps_state_idle(g, ev)
           /\ g.gps_state = "STARTING" => mnld_fsm(ev, g) = fsm_gps_state_starting(g, ev)
           /\ g.gps_state = "STARTED"  => mnld_fsm(ev, g) = fsm_gps_state_started(g, ev)
           /\ g.gps_state = "STOPPING" => mnld_fsm(ev, g) = fsm_gps_state_stopping(g, ev)
  BY HostMode DEF mnld_fsm, mnld_fsm_from

----------------------------------------------------------------------------
\* Completions

\* The end of a start keeps the invariant, whether the clients are still there or
\* have all closed meanwhile.
LEMMA StartingDoneHost ==
    ASSUME OffloadMode = "off", NEW g \in Context, HostContext(g), g.gps_state = "STARTING"
    PROVE  HostContext(StartingDone(g))
  <1> DEFINE d == [g EXCEPT !.timers = @ \ {"start"}]
             s == do_gps_started_hdlr(d)
             r == [s EXCEPT !.gps_state = "STARTED", !.pending = {}]
  <1>1. /\ d \in Context /\ d.timers = g.timers \ {"start"}
        /\ d.gps_state = g.gps_state /\ d.used = g.used /\ d.open = g.open
        /\ d.close = g.close /\ d.told = g.told /\ d.power = g.power
        /\ d.type = g.type /\ d.pre_type = g.pre_type /\ d.view = g.view
    BY DEF Context
  <1> HIDE DEF d
  <1>2. /\ s \in Context
        /\ s.used = g.used /\ s.close = g.close
        /\ s.open = {} /\ s.reset_ack = FALSE
        /\ s.timers \in {g.timers \ {"start"}, (g.timers \ {"start"}) \cup {"reset"}}
        /\ s.type = g.type /\ s.pre_type = g.pre_type /\ s.view = g.view
        /\ s.power = g.power
        /\ s.told = [c \in Clients |-> IF c \in g.open THEN "hbd" ELSE g.told[c]]
    <2>1. /\ s \in Context
          /\ s.used = d.used /\ s.close = d.close
          /\ s.open = {} /\ s.reset_ack = FALSE
          /\ s.timers \in {d.timers, d.timers \cup {"reset"}}
          /\ s.type = d.type /\ s.pre_type = d.pre_type /\ s.view = d.view
          /\ s.power = d.power
          /\ s.told = [c \in Clients |-> IF c \in d.open THEN "hbd" ELSE d.told[c]]
      BY <1>1, StartedFields
    <2> QED BY <1>1, <2>1
  <1> HIDE DEF s
  <1>c. /\ "stop" \notin s.timers /\ "start" \notin s.timers /\ "switch_ofl" \notin s.timers
        /\ "wakelock" \in s.power
        /\ s.type = AllAp /\ s.pre_type = AllAp /\ s.view = AllAp
        /\ s.close \cap s.used = {}
    BY <1>2 DEF HostContext, ApOnly, Watched, Owed, Awake
  <1>t. \A c \in Clients : /\ s.told[c] # "ofl"
                           /\ s.told[c] # "off" => c \in Acked \cap (s.used \cup s.close)
    BY <1>2 DEF HostContext, ApOnly, Owed
  <1>3. CASE AllExit(s)
    <2> DEFINE h == gps_control_gps_stop(s, "STOPPING")
    <2>1. StartingDone(g) = h
      BY <1>3 DEF StartingDone, s, d
    <2>2. /\ h.gps_state = "STOPPING" /\ h.timers = s.timers \cup {"stop"}
          /\ h.power = s.power
          /\ h.used = s.used /\ h.open = s.open /\ h.close = s.close
          /\ h.reset_ack = s.reset_ack /\ h.told = s.told
          /\ h.type = s.type /\ h.pre_type = s.pre_type /\ h.view = s.view
      BY <1>2, StopFields
    <2> HIDE DEF h
    <2>3. ApOnly(h)
      BY <1>c, <1>t, <2>2 DEF ApOnly
    <2>4. Watched(h) /\ Awake(h)
      BY <1>2, <1>c, <2>2 DEF Watched, Awake
    <2>5. Owed(h)
      BY <1>2, <1>c, <1>t, <2>2 DEF Owed
    <2> QED BY <2>1, <2>3, <2>4, <2>5 DEF HostContext
  <1>4. CASE ~AllExit(s)
    <2> DEFINE h == SwitchSession(r, "AP")
    <2>1. StartingDone(g) = h
      BY <1>4, HostMode DEF StartingDone, s, d
    <2>2. /\ r \in Context /\ r.gps_state = "STARTED"
          /\ r.timers = s.timers /\ r.power = s.power
          /\ r.used = s.used /\ r.open = s.open /\ r.close = s.close
          /\ r.reset_ack = s.reset_ack /\ r.told = s.told
          /\ r.type = s.type /\ r.pre_type = s.pre_type /\ r.view = s.view
      BY <1>2 DEF Context, GpsStates
    <2> HIDE DEF r
    <2>3. Changed(r, "AP") = {}
      BY <1>c, <2>2 DEF Changed, AllAp
    <2>4. /\ h.gps_state = "STARTED"
          /\ h.timers = s.timers /\ h.power = s.power
          /\ h.used = s.used /\ h.open = s.open /\ h.close = s.close
          /\ h.reset_ack = s.reset_ack
      BY <2>2, <2>3 DEF SwitchSession, Context
    <2>5. h.type = AllAp /\ h.pre_type = AllAp /\ h.view = AllAp
      BY <1>c, <2>2, <2>3 DEF SwitchSession, Context, AllAp
    <2>6. \A c \in Clients : h.told[c] = s.told[c]
      BY <2>2, <2>3 DEF SwitchSession, Context
    <2> HIDE DEF h
    <2>7. ApOnly(h)
      BY <1>c, <1>t, <2>4, <2>5, <2>6 DEF ApOnly
    <2>8. Watched(h) /\ Awake(h)
      BY <1>2, <1>c, <2>4 DEF Watched, Awake
    <2>9. Owed(h)
      BY <1>2, <1>4, <1>c, <1>t, <2>4, <2>6 DEF Owed, AllExit
    <2> QED BY <2>1, <2>7, <2>8, <2>9 DEF HostContext
  <1> QED BY <1>3, <1>4

\* The end of a stop keeps the invariant, whether the GPS stays off or is restarted
\* for a client that came back meanwhile.
LEMMA StoppingDoneHost ==
    ASSUME OffloadMode = "off", NEW g \in Context, HostContext(g), g.gps_state = "STOPPING"
    PROVE  HostContext(StoppingDone(g))
  <1> DEFINE d == [g EXCEPT !.timers = @ \ {"stop"}]
             s == do_gps_stopped_hdlr(d)
  <1>1. /\ d \in Context /\ d.timers = g.timers \ {"stop"}
        /\ d.gps_state = g.gps_state /\ d.used = g.used /\ d.open = g.open
        /\ d.close = g.close /\ d.told = g.told /\ d.power = g.power
        /\ d.type = g.type /\ d.pre_type = g.pre_type /\ d.view = g.view
    BY DEF Context
  <1> HIDE DEF d
  <1>d. d \in Context
    BY <1>1
  <1>s. /\ s \in Context
        /\ s.used = d.used /\ s.open = d.open
        /\ s.close = {} /\ s.reset_ack = FALSE /\ s.timers = d.timers
        /\ s.type = d.type /\ s.pre_type = d.pre_type /\ s.view = d.view
        /\ s.power = d.power
        /\ s.told = [c \in Clients |-> IF c \in d.close THEN "off" ELSE d.told[c]]
    BY <1>d, StoppedFields, Zenon
  <1> HIDE DEF s
  <1>2. /\ s \in Context
        /\ s.used = g.used /\ s.open = g.open
        /\ s.close = {} /\ s.reset_ack = FALSE /\ s.timers = g.timers \ {"stop"}
        /\ s.type = g.type /\ s.pre_type = g.pre_type /\ s.view = g.view
        /\ s.power = g.power
        /\ s.told = [c \in Clients |-> IF c \in g.close THEN "off" ELSE g.told[c]]
    BY <1>1, <1>s
  <1>c. /\ "stop" \notin s.timers /\ "start" \notin s.timers /\ "switch_ofl" \notin s.timers
        /\ "wakelock" \in s.power
        /\ s.type = AllAp /\ s.pre_type = AllAp /\ s.view = AllAp
        /\ s.open \subseteq s.used \cap Acked
    BY <1>2 DEF HostContext, ApOnly, Watched, Owed, Awake
  <1>t. \A c \in Clients : /\ s.told[c] # "ofl"
                           /\ s.told[c] # "off" => c \in Acked \cap s.used
    BY <1>2 DEF HostContext, ApOnly, Owed
  <1>3. CASE AllExit(s)
    <2> DEFINE h == [s EXCEPT !.power = @ \ {"wakelock"}, !.gps_state = "IDLE"]
    <2>1. StoppingDone(g) = h
      BY <1>2, <1>3, HostMode DEF StoppingDone, s, d
    <2>2. /\ h.gps_state = "IDLE" /\ h.timers = s.timers
          /\ h.power = s.power \ {"wakelock"}
          /\ h.used = s.used /\ h.open = s.open /\ h.close = s.close
          /\ h.reset_ack = s.reset_ack /\ h.told = s.told
          /\ h.type = s.type /\ h.pre_type = s.pre_type /\ h.view = s.view
      BY <1>2 DEF Context
    <2> HIDE DEF h
    <2>3. ApOnly(h)
      BY <1>c, <1>t, <2>2 DEF ApOnly
    <2>4. Watched(h) /\ Awake(h)
      BY <1>2, <1>c, <2>2 DEF Watched, Awake
    <2>5. Owed(h)
      BY <1>2, <1>3, <1>c, <1>t, <2>2 DEF Owed, AllExit
    <2> QED BY <2>1, <2>3, <2>4, <2>5 DEF HostContext
  <1>4. CASE ~AllExit(s)
    <2> DEFINE a == [s EXCEPT !.gps_state = "STARTING"]
               h == gps_control_gps_start(ArmRestart(a))
    <2>1. StoppingDone(g) = h
      BY <1>4 DEF StoppingDone, s, d
    <2>2. a \in Context
      BY <1>2 DEF Context, GpsStates
    <2>3. h = gps_control_gps_start([a EXCEPT !.timers = @ \cup {"start"}])
      BY <2>2, HostMode
    <2>4. /\ h.gps_state = "STARTING" /\ h.timers = s.timers \cup {"start"}
          /\ h.power = s.power
          /\ h.used = s.used /\ h.open = s.open /\ h.close = s.close
          /\ h.reset_ack = s.reset_ack /\ h.told = s.told
          /\ h.type = s.type /\ h.pre_type = s.pre_type /\ h.view = s.view
      BY <1>2, <2>3 DEF gps_control_gps_start, Context
    <2> HIDE DEF h
    <2>5. ApOnly(h)
      BY <1>c, <1>t, <2>4 DEF ApOnly
    <2>6. Watched(h) /\ Awake(h)
      BY <1>2, <1>c, <2>4 DEF Watched, Awake
    <2>7. Owed(h)
      BY <1>2, <1>c, <1>t, <2>4 DEF Owed
    <2> QED BY <2>1, <2>5, <2>6, <2>7 DEF HostContext
  <1> QED BY <1>3, <1>4

----------------------------------------------------------------------------
\* Requests

\* A start request keeps the invariant in each of the four states.
LEMMA OpenHost ==
    ASSUME OffloadMode = "off", NEW g \in Context, HostContext(g), NEW c \in Clients
    PROVE  HostContext(OpenGps(g, c))
  <1> DEFINE o == Opened(g, c)
             h == OpenGps(g, c)
  <1>0. o \in Context
    BY RequestType
  <1>1. /\ o \in Context
        /\ o.used = g.used \cup {c} /\ o.open = g.open \cup ({c} \cap Acked)
        /\ o.close = g.close \ {c} /\ o.gps_state = g.gps_state
        /\ o.timers = g.timers /\ o.power = g.power
        /\ o.reset_ack = g.reset_ack /\ o.told = g.told
        /\ o.type = g.type /\ o.pre_type = g.pre_type /\ o.view = g.view
    BY <1>0 DEF Opened, Context
  <1>2. h = mnld_fsm("START", o)
    BY DEF OpenGps
  <1> HIDE DEF o, h
  <1>s. g.gps_state \in {"IDLE", "STARTING", "STARTED", "STOPPING"}
    BY DEF HostContext, ApOnly
  <1>t. \A d \in Clients : /\ o.told[d] # "ofl"
                           /\ o.told[d] # "off" => d \in Acked \cap (o.used \cup o.close)
    BY <1>1 DEF HostContext, ApOnly, Owed
  <1>o. o.open \subseteq o.used \cap Acked /\ o.close \cap o.used = {} /\ o.used # {}
    BY <1>1 DEF HostContext, Owed
  <1>3. CASE g.gps_state = "IDLE"
    <2>1. h = StartFromIdle(o, "STARTING")
      BY <1>1, <1>2, <1>3, FsmHost DEF fsm_gps_state_idle, Events
    <2>2. /\ h.gps_state = "STARTING" /\ h.timers = o.timers \cup {"start"}
          /\ h.power = o.power \cup {"wakelock"}
          /\ h.used = o.used /\ h.open = o.open /\ h.close = o.close
          /\ h.reset_ack = o.reset_ack /\ h.told = o.told
          /\ h.type = o.type /\ h.pre_type = o.pre_type /\ h.view = o.view
      BY <1>1, <2>1, StartFields
    <2>3. ApOnly(h)
      BY <1>1, <1>t, <2>2 DEF HostContext, ApOnly
    <2>4. Watched(h) /\ Awake(h)
      BY <1>1, <1>3, <2>2 DEF HostContext, Watched, Awake
    <2>5. Owed(h)
      BY <1>1, <1>t, <1>o, <2>2 DEF Owed
    <2> QED BY <2>3, <2>4, <2>5 DEF HostContext, h
  <1>4. CASE g.gps_state \in {"STARTING", "STOPPING"}
    <2>1. h = o
      BY <1>1, <1>2, <1>4, FsmHost DEF fsm_gps_state_starting, fsm_gps_state_stopping, Events
    <2>2. ApOnly(h) /\ Watched(h) /\ Awake(h)
      BY <1>1, <1>4, <1>t, <2>1 DEF HostContext, ApOnly, Watched, Awake
    <2>3. Owed(h)
      BY <1>1, <1>4, <1>t, <1>o, <2>1 DEF Owed
    <2> QED BY <2>2, <2>3 DEF HostContext, h
  <1>5. CASE g.gps_state = "STARTED"
    <2>1. h = do_gps_started_hdlr(o)
      BY <1>1, <1>2, <1>5, FsmHost DEF fsm_gps_state_started, Events
    <2>2. /\ h.gps_state = o.gps_state /\ h.used = o.used /\ h.close = o.close
          /\ h.open = {} /\ h.reset_ack = FALSE
          /\ h.timers \in {o.timers, o.timers \cup {"reset"}}
          /\ h.type = o.type /\ h.pre_type = o.pre_type /\ h.view = o.view
          /\ h.power = o.power
          /\ h.told = [d \in Clients |-> IF d \in o.open THEN "hbd" ELSE o.told[d]]
      BY <1>1, <2>1, StartedFields
    <2>3. ApOnly(h)
      BY <1>1, <1>t, <2>2 DEF HostContext, ApOnly
    <2>4. Watched(h) /\ Awake(h)
      BY <1>1, <1>5, <2>2 DEF HostContext, Watched, Awake
    <2>5. Owed(h)
      BY <1>1, <1>5, <1>t, <1>o, <2>2 DEF Owed
    <2> QED BY <2>3, <2>4, <2>5 DEF HostContext, h
  <1> QED BY <1>s, <1>3, <1>4, <1>5

\* A stop event keeps the invariant once the client that leaves is recorded: the
\* common part of close and reboot.
LEMMA LeaveHost ==
    ASSUME OffloadMode = "off", NEW g \in Context, HostContext(g),
           NEW o \in Context, o.gps_state = g.gps_state, o.timers = g.timers,
           o.power = g.power, o.reset_ack => g.reset_ack,
           o.type = g.type, o.pre_type = g.pre_type, o.view = g.view,
           o.used \subseteq g.used,
           o.open \subseteq o.used \cap Acked, o.close \cap o.used = {},
           o.gps_state = "STARTED" => o.open = {},
           \A d \in Clients : /\ o.told[d] # "ofl"
                              /\ o.told[d] # "off" => d \in Acked \cap (o.used \cup o.close)
    PROVE  HostContext(mnld_fsm("STOP", o))
  <1> DEFINE h == mnld_fsm("STOP", o)
  <1>s. g.gps_state \in {"IDLE", "STARTING", "STARTED", "STOPPING"}
    BY DEF HostContext, ApOnly
  <1>x. "STOP" \in Events
    BY DEF Events
  <1>1. CASE g.gps_state \in {"STARTING", "STOPPING"}
    <2>1. h = o
      BY <1>1, <1>x, FsmHost DEF fsm_gps_state_starting, fsm_gps_state_stopping
    <2> HIDE DEF h
    <2>2. ApOnly(h) /\ Watched(h) /\ Awake(h)
      BY <1>1, <2>1 DEF HostContext, ApOnly, Watched, Awake
    <2>3. Owed(h)
      BY <1>1, <2>1 DEF Owed
    <2> QED BY <2>2, <2>3 DEF HostContext, h
  <1>2. CASE g.gps_state = "IDLE" \/ (g.gps_state = "STARTED" /\ ~AllExit(o))
    <2>1. h = do_gps_stopped_hdlr(o)
      BY <1>2, <1>x, FsmHost, HostMode DEF fsm_gps_state_idle, fsm_gps_state_started
    <2> HIDE DEF h
    <2>2. /\ h.gps_state = o.gps_state /\ h.used = o.used /\ h.open = o.open
          /\ h.close = {} /\ h.reset_ack = FALSE /\ h.timers = o.timers
          /\ h.type = o.type /\ h.pre_type = o.pre_type /\ h.view = o.view
          /\ h.power = o.power
          /\ h.told = [c \in Clients |-> IF c \in o.close THEN "off" ELSE o.told[c]]
      BY <2>1, StoppedFields
    <2>3. ApOnly(h)
      BY <2>2 DEF HostContext, ApOnly
    <2>4. Watched(h) /\ Awake(h)
      BY <1>2, <2>2 DEF HostContext, Watched, Awake
    <2>5. Owed(h)
      BY <1>2, <2>2 DEF HostContext, Owed, AllExit
    <2> QED BY <2>3, <2>4, <2>5 DEF HostContext, h
  <1>3. CASE g.gps_state = "STARTED" /\ AllExit(o)
    <2> DEFINE d == [o EXCEPT !.timers = @ \ {"switch_ofl"}]
    <2>1. h = gps_control_gps_stop(d, "STOPPING")
      BY <1>3, <1>x, FsmHost DEF fsm_gps_state_started
    <2>2. /\ d \in Context
          /\ d.timers = o.timers \ {"switch_ofl"} /\ d.power = o.power
          /\ d.used = o.used /\ d.open = o.open /\ d.close = o.close
          /\ d.reset_ack = o.reset_ack /\ d.told = o.told
          /\ d.type = o.type /\ d.pre_type = o.pre_type /\ d.view = o.view
      BY DEF Context
    <2> HIDE DEF h, d
    <2>3. /\ h.gps_state = "STOPPING" /\ h.timers = d.timers \cup {"stop"}
          /\ h.power = d.power
          /\ h.used = d.used /\ h.open = d.open /\ h.close = d.close
          /\ h.reset_ack = d.reset_ack /\ h.told = d.told
          /\ h.type = d.type /\ h.pre_type = d.pre_type /\ h.view = d.view
      BY <2>1, <2>2, StopFields
    <2>4. ApOnly(h)
      BY <2>2, <2>3 DEF HostContext, ApOnly
    <2>5. Watched(h) /\ Awake(h)
      BY <1>3, <2>2, <2>3 DEF HostContext, Watched, Awake
    <2>6. Owed(h)
      BY <2>2, <2>3 DEF Owed
    <2> QED BY <2>4, <2>5, <2>6 DEF HostContext, h
  <1> QED BY <1>s, <1>1, <1>2, <1>3

\* A stop request keeps the invariant.
LEMMA CloseHost ==
    ASSUME OffloadMode = "off", NEW g \in Context, HostContext(g), NEW c \in Clients
    PROVE  HostContext(CloseGps(g, c))
  <1> DEFINE o == Closed(g, c)
  <1>0. o \in Context
    BY RequestType
  <1>1. /\ o \in Context
        /\ o.used = g.used \ {c} /\ o.open = g.open \ {c}
        /\ o.close = g.close \cup ({c} \cap Acked) /\ o.gps_state = g.gps_state
        /\ o.timers = g.timers /\ o.power = g.power
        /\ o.reset_ack = g.reset_ack /\ o.told = g.told
        /\ o.type = g.type /\ o.pre_type = g.pre_type /\ o.view = g.view
    BY <1>0 DEF Closed, Context
  <1> HIDE DEF o
  <1>2. \A d \in Clients : /\ o.told[d] # "ofl"
                           /\ o.told[d] # "off" => d \in Acked \cap (o.used \cup o.close)
    BY <1>1 DEF HostContext, ApOnly, Owed
  <1>3. /\ o.open \subseteq o.used \cap Acked /\ o.close \cap o.used = {}
        /\ o.gps_state = "STARTED" => o.open = {}
    BY <1>1 DEF HostContext, Owed
  <1> QED BY <1>1, <1>2, <1>3, LeaveHost DEF CloseGps, o

\* The reboot of a peer keeps the invariant.
LEMMA RebootHost ==
    ASSUME OffloadMode = "off", NEW g \in Context, HostContext(g), NEW c \in Clients
    PROVE  HostContext(Reboot(g, c))
  <1> DEFINE o == [g EXCEPT !.used = @ \ {c}, !.open = @ \ {c}, !.close = @ \ {c},
                            !.told[c] = "off",
                            !.reset_ack = @ /\ c # "agps"]
  <1>1. /\ o \in Context
        /\ o.used = g.used \ {c} /\ o.open = g.open \ {c}
        /\ o.close = g.close \ {c} /\ o.gps_state = g.gps_state
        /\ o.timers = g.timers /\ o.power = g.power
        /\ o.reset_ack => g.reset_ack
        /\ o.type = g.type /\ o.pre_type = g.pre_type /\ o.view = g.view
    BY DEF Context, Kinds
  <1>2. \A d \in Clients : o.told[d] = IF d = c THEN "off" ELSE g.told[d]
    BY DEF Context
  <1>3. Reboot(g, c) = mnld_fsm("STOP", o)
    BY DEF Reboot
  <1> HIDE DEF o
  <1>4. \A d \in Clients : /\ o.told[d] # "ofl"
                           /\ o.told[d] # "off" => d \in Acked \cap (o.used \cup o.close)
    BY <1>1, <1>2 DEF HostContext, ApOnly, Owed
  <1>5. /\ o.open \subseteq o.used \cap Acked /\ o.close \cap o.used = {}
        /\ o.gps_state = "STARTED" => o.open = {}
    BY <1>1 DEF HostContext, Owed
  <1> QED BY <1>1, <1>3, <1>4, <1>5, LeaveHost

\* A request to delete aiding data keeps the invariant, with or without a reset
\* acknowledgement.
LEMMA ResetHost ==
    ASSUME OffloadMode = "off", NEW g \in Context, HostContext(g),
           NEW o \in Context, o.aiding = TRUE, o.gps_state = g.gps_state,
           o.timers = g.timers, o.power = g.power,
           o.type = g.type, o.pre_type = g.pre_type, o.view = g.view,
           o.used = g.used, o.open = g.open, o.close = g.close, o.told = g.told
    PROVE  HostContext(mnld_fsm("RESET", o))
  <1> DEFINE h == mnld_fsm("RESET", o)
  <1>s. g.gps_state \in {"IDLE", "STARTING", "STARTED", "STOPPING"}
    BY DEF HostContext, ApOnly
  <1>x. "RESET" \in Events
    BY DEF Events
  <1>1. CASE g.gps_state = "STARTING"
    <2>1. h = o
      BY <1>1, <1>x, FsmHost DEF fsm_gps_state_starting
    <2> HIDE DEF h
    <2> QED BY <1>1, <2>1 DEF HostContext, ApOnly, Watched, Owed, Awake, h
  <1>2. CASE g.gps_state \in {"IDLE", "STOPPING"}
    <2>1. h = [o EXCEPT !.reset_ack = FALSE]
      BY <1>2, <1>x, FsmHost DEF fsm_gps_state_idle, fsm_gps_state_stopping, do_gps_reset_hdlr
    <2>2. /\ h.gps_state = o.gps_state /\ h.timers = o.timers /\ h.power = o.power
          /\ h.used = o.used /\ h.open = o.open /\ h.close = o.close
          /\ h.reset_ack = FALSE /\ h.told = o.told
          /\ h.type = o.type /\ h.pre_type = o.pre_type /\ h.view = o.view
      BY <2>1 DEF Context
    <2> HIDE DEF h
    <2> QED BY <1>2, <2>2 DEF HostContext, ApOnly, Watched, Owed, Awake, h
  <1>3. CASE g.gps_state = "STARTED"
    <2>1. h = [o EXCEPT !.gpsQ = Send(@, "RESET"), !.aiding = FALSE,
                        !.timers = @ \cup {"reset"}]
      BY <1>3, <1>x, FsmHost DEF fsm_gps_state_started, gps_control_gps_reset
    <2> HIDE DEF h
    <2>2. /\ h.gps_state = o.gps_state /\ h.timers = o.timers \cup {"reset"}
          /\ h.power = o.power
          /\ h.used = o.used /\ h.open = o.open /\ h.close = o.close
          /\ h.reset_ack = o.reset_ack /\ h.told = o.told
          /\ h.type = o.type /\ h.pre_type = o.pre_type /\ h.view = o.view
      BY <2>1 DEF Context
    <2>3. ApOnly(h) /\ Awake(h)
      BY <2>2 DEF HostContext, ApOnly, Awake
    <2>4. Watched(h)
      BY <1>3, <2>2 DEF HostContext, Watched
    <2>5. Owed(h)
      BY <2>2 DEF HostContext, Owed
    <2> QED BY <2>3, <2>4, <2>5 DEF HostContext, h
  <1> QED BY <1>s, <1>1, <1>2, <1>3

\* The two requests of that kind.
LEMMA AidingHost ==
    ASSUME OffloadMode = "off", NEW g \in Context, HostContext(g)
    PROVE  /\ HostContext(hal_gps_delete_aiding_data(g))
           /\ HostContext(agps_reset_gps_req(g))
  <1>1. HostContext(hal_gps_delete_aiding_data(g))
    <2> DEFINE o == [g EXCEPT !.aiding = TRUE]
    <2>1. /\ o \in Context /\ o.aiding = TRUE /\ o.gps_state = g.gps_state
          /\ o.timers = g.timers /\ o.power = g.power
          /\ o.type = g.type /\ o.pre_type = g.pre_type /\ o.view = g.view
          /\ o.used = g.used /\ o.open = g.open /\ o.close = g.close /\ o.told = g.told
      BY DEF Context
    <2>2. hal_gps_delete_aiding_data(g) = mnld_fsm("RESET", o)
      BY DEF hal_gps_delete_aiding_data
    <2> HIDE DEF o
    <2> QED BY <2>1, <2>2, ResetHost
  <1>2. HostContext(agps_reset_gps_req(g))
    <2> DEFINE o == [g EXCEPT !.aiding = TRUE, !.reset_ack = TRUE]
    <2>1. /\ o \in Context /\ o.aiding = TRUE /\ o.gps_state = g.gps_state
          /\ o.timers = g.timers /\ o.power = g.power
          /\ o.type = g.type /\ o.pre_type = g.pre_type /\ o.view = g.view
          /\ o.used = g.used /\ o.open = g.open /\ o.close = g.close /\ o.told = g.told
      BY DEF Context
    <2>2. agps_reset_gps_req(g) = mnld_fsm("RESET", o)
      BY DEF agps_reset_gps_req
    <2> HIDE DEF o
    <2> QED BY <2>1, <2>2, ResetHost
  <1> QED BY <1>1, <1>2

----------------------------------------------------------------------------
\* Internal events

\* The end of a reset, the recovery after an NMEA timeout and a finished download
\* keep the invariant; a start or stop completion does so even where the state
\* machine does not expect it.
LEMMA EventHost ==
    ASSUME OffloadMode = "off", ctx \in Context, HostContext(ctx), NEW m \in MainEvents
    PROVE  HostContext(OnEvent(m))
  <1>s. ctx.gps_state \in {"IDLE", "STARTING", "STARTED", "STOPPING"}
    BY DEF HostContext, ApOnly
  <1>c. HostContext(CRASH_TO_DEBUG(ctx))
    BY DEF CRASH_TO_DEBUG, Context, HostContext, ApOnly, Watched, Owed, Awake
  <1>1. CASE m = "START_DONE"
    <2>1. OnEvent(m) = mnld_fsm("START_DONE", ctx) /\ "START_DONE" \in Events
      BY <1>1 DEF OnEvent, AllUpdates, Events
    <2>2. OnEvent(m) \in {CRASH_TO_DEBUG(ctx), ctx}
             \/ (ctx.gps_state = "STARTING" /\ OnEvent(m) = StartingDone(ctx))
      BY <1>s, <2>1, FsmHost DEF fsm_gps_state_idle, fsm_gps_state_starting,
                                 fsm_gps_state_started, fsm_gps_state_stopping
    <2> QED BY <1>c, <2>2, StartingDoneHost
  <1>2. CASE m = "STOP_DONE"
    <2>1. OnEvent(m) = mnld_fsm("STOP_DONE", ctx) /\ "STOP_DONE" \in Events
      BY <1>2 DEF OnEvent, AllUpdates, Events
    <2>2. OnEvent(m) = CRASH_TO_DEBUG(ctx)
             \/ (ctx.gps_state = "STOPPING" /\ OnEvent(m) = StoppingDone(ctx))
      BY <1>s, <2>1, FsmHost DEF fsm_gps_state_idle, fsm_gps_state_starting,
                                 fsm_gps_state_started, fsm_gps_state_stopping
    <2> QED BY <1>c, <2>2, StoppingDoneHost
  <1>3. CASE m = "RESET_DONE"
    <2> DEFINE h == [ctx EXCEPT !.timers = @ \ {"reset"}, !.reset_ack = FALSE]
    <2>1. OnEvent(m) = h
      BY <1>3 DEF OnEvent, AllUpdates, OnResetDone, do_gps_reset_hdlr
    <2>2. /\ h.gps_state = ctx.gps_state /\ h.timers = ctx.timers \ {"reset"}
          /\ h.power = ctx.power
          /\ h.used = ctx.used /\ h.open = ctx.open /\ h.close = ctx.close
          /\ h.reset_ack = FALSE /\ h.told = ctx.told
          /\ h.type = ctx.type /\ h.pre_type = ctx.pre_type /\ h.view = ctx.view
      BY DEF Context
    <2> HIDE DEF h
    <2> QED BY <2>1, <2>2 DEF HostContext, ApOnly, Watched, Owed, Awake
  <1>4. CASE m = "NMEA_TIMEOUT"
    <2>1. OnEvent(m) = OnNmeaTimeout(ctx)
      BY <1>4 DEF OnEvent, AllUpdates
    <2>2. CASE ctx.gps_state # "STARTED"
      BY <2>1, <2>2 DEF OnNmeaTimeout
    <2>3. CASE ctx.gps_state = "STARTED"
      <3> DEFINE o == mtk_gps_clear_gps_user(ctx)
                 d == [o EXCEPT !.timers = @ \ {"switch_ofl"}]
                 k == gps_control_gps_stop(d, "STOPPING")
                 h == RebootNotices(k)
      <3>1. /\ o \in Context /\ o.used = {} /\ o.gps_state = "STARTED"
            /\ o.timers = ctx.timers /\ o.power = ctx.power
            /\ o.open = ctx.open /\ o.close = ctx.close
            /\ o.reset_ack = ctx.reset_ack /\ o.told = ctx.told
            /\ o.type = ctx.type /\ o.pre_type = ctx.pre_type /\ o.view = ctx.view
        BY <2>3 DEF mtk_gps_clear_gps_user, Context
      <3>2. mnld_fsm("STOP", o) = k
        BY <3>1, FsmHost DEF fsm_gps_state_started, AllExit, Events
      <3>3. OnEvent(m) = h
        BY <2>1, <2>3, <3>2 DEF OnNmeaTimeout
      <3> HIDE DEF o
      <3>4. /\ d \in Context
            /\ d.timers = o.timers \ {"switch_ofl"} /\ d.power = o.power
            /\ d.used = o.used /\ d.open = o.open /\ d.close = o.close
            /\ d.reset_ack = o.reset_ack /\ d.told = o.told
            /\ d.type = o.type /\ d.pre_type = o.pre_type /\ d.view = o.view
        BY <3>1 DEF Context
      <3> HIDE DEF d
      <3>5. /\ k \in Context
            /\ k.gps_state = "STOPPING" /\ k.timers = d.timers \cup {"stop"}
            /\ k.power = d.power
            /\ k.used = d.used /\ k.open = d.open /\ k.close = d.close
            /\ k.reset_ack = d.reset_ack /\ k.told = d.told
            /\ k.type = d.type /\ k.pre_type = d.pre_type /\ k.view = d.view
        BY <3>4, StopFields, CommandType DEF GpsStates
      <3> HIDE DEF k
      <3>6. /\ h.gps_state = k.gps_state /\ h.timers = k.timers /\ h.power = k.power
            /\ h.used = k.used /\ h.open = k.open /\ h.close = k.close
            /\ h.reset_ack = k.reset_ack
            /\ h.type = k.type /\ h.pre_type = k.pre_type /\ h.view = k.type
        BY <3>5 DEF RebootNotices, Context
      <3>7. \A c \in Clients : h.told[c] = IF c \in Acked THEN "off" ELSE ctx.told[c]
        BY <3>1, <3>4, <3>5 DEF RebootNotices, Context
      <3> HIDE DEF h
      <3>8. ApOnly(h)
        BY <3>1, <3>4, <3>5, <3>6, <3>7 DEF HostContext, ApOnly
      <3>9. Watched(h) /\ Awake(h)
        BY <2>3, <3>1, <3>4, <3>5, <3>6 DEF HostContext, Watched, Awake
      <3>10. Owed(h)
        BY <2>3, <3>1, <3>4, <3>5, <3>6, <3>7 DEF HostContext, Owed
      <3> QED BY <3>3, <3>8, <3>9, <3>10 DEF HostContext
    <2> QED BY <2>2, <2>3
  <1>5. CASE m \in AllUpdates
    <2>1. OnEvent(m) \in {ctx, [ctx EXCEPT !.pending = @ \cup {m}]}
      BY <1>5 DEF OnEvent, OnDownloadDone, AllUpdates
    <2>2. HostContext([ctx EXCEPT !.pending = @ \cup {m}])
      BY DEF Context, HostContext, ApOnly, Watched, Owed, Awake
    <2> QED BY <2>1, <2>2
  <1>6. CASE m \in {"EPO_OK", "EPO_FAIL"}
    BY <1>6 DEF OnEvent, AllUpdates
  <1> QED BY <1>1, <1>2, <1>3, <1>4, <1>5, <1>6 DEF MainEvents

\* The boot context satisfies the invariant.
LEMMA BootHost ==
    ASSUME OffloadMode = "off"
    PROVE  HostContext(BootContext)
  <1>1. BootType = "AP"
    BY DEF BootType, AutoSwitch
  <1> QED BY <1>1 DEF BootContext, HostContext, ApOnly, Watched, Owed, Awake, AllAp

\* Fields that the invariant does not mention, and the NMEA timer, may change freely.
LEMMA IrrelevantHost ==
    ASSUME NEW g \in Context, HostContext(g)
    PROVE  /\ \A q : HostContext([g EXCEPT !.gpsQ = q])
           /\ \A x : HostContext([g EXCEPT !.dead = x])
           /\ HostContext([g EXCEPT !.timers = @ \ {"nmea"}])
           /\ HostContext([g EXCEPT !.timers = @ \cup {"nmea"}])
  <1>1. ASSUME NEW q PROVE HostContext([g EXCEPT !.gpsQ = q])
    BY DEF Context, HostContext, ApOnly, Watched, Owed, Awake
  <1>2. ASSUME NEW x PROVE HostContext([g EXCEPT !.dead = x])
    BY DEF Context, HostContext, ApOnly, Watched, Owed, Awake
  <1>3. HostContext([g EXCEPT !.timers = @ \ {"nmea"}])
    BY DEF Context, HostContext, ApOnly, Watched, Owed, Awake
  <1>4. HostContext([g EXCEPT !.timers = @ \cup {"nmea"}])
    BY DEF Context, HostContext, ApOnly, Watched, Owed, Awake
  <1> QED BY <1>1, <1>2, <1>3, <1>4

----------------------------------------------------------------------------
\* HostInv is inductive: one step for each action of Next.
LEMMA HostStep ==
    ASSUME OffloadMode = "off", HostInv, [Next]_vars
    PROVE  HostInv'
  <1>t. TypeOK'
    <2>1. CASE Next
      BY <2>1, RequestsTyped, MainTyped, GpsThreadTyped, LibTyped, TimersTyped, OtherTyped
         DEF HostInv, Next
    <2>2. CASE UNCHANGED vars
      BY <2>2 DEF HostInv, TypeOK, vars
    <2> QED BY <2>1, <2>2
  <1>c. ctx \in Context /\ mainQ \in Seq(MainEvents) /\ HostContext(ctx) /\ aux.pc = "none"
    BY DEF HostInv, TypeOK
  <1> SUFFICES HostContext(ctx') /\ aux'.pc = "none"
    BY <1>t DEF HostInv, HostContext, ApOnly, Watched, Owed, Awake
  <1>1. CASE Requests
    <2>0. aux' = aux
      BY <1>1 DEF Requests, hal_gps_start, HalDeleteAiding, HalNetwork, AgpsReset,
                  ClientOpen, ClientClose, LinkOpen, ClientReboot, Unmoved
    <2>1. CASE hal_gps_start \/ \E c \in Clients \ {"hal"} : ClientOpen(c)
      BY <1>c, <2>0, <2>1, OpenHost DEF hal_gps_start, ClientOpen
    <2>2. CASE \E c \in Clients : ClientClose(c)
      BY <1>c, <2>0, <2>2, CloseHost DEF ClientClose
    <2>3. CASE \E c \in Clients \cap {"hal", "agps"} : ClientReboot(c)
      BY <1>c, <2>0, <2>3, RebootHost DEF ClientReboot
    <2>4. CASE HalDeleteAiding \/ AgpsReset
      BY <1>c, <2>0, <2>4, AidingHost DEF HalDeleteAiding, AgpsReset
    <2>5. CASE HalNetwork
      BY <1>c, <2>0, <2>5 DEF HalNetwork
    <2>6. ~ \E c \in Clients \cap Links : LinkOpen(c)
      BY <1>c DEF LinkOpen, HostContext, ApOnly, AllAp
    <2> QED BY <1>1, <2>1, <2>2, <2>3, <2>4, <2>5, <2>6 DEF Requests
  <1>2. CASE main_event_hdlr
    <2>1. Head(mainQ) \in MainEvents
      BY <1>2, <1>c DEF main_event_hdlr
    <2> QED BY <1>2, <1>c, <2>1, EventHost DEF main_event_hdlr
  <1>3. CASE GpsThreadStep
    <2>0. aux' = aux
      BY <1>3 DEF GpsThreadStep
    <2>t. HostContext(Taken)
      BY <1>c, IrrelevantHost DEF Taken
    <2>1. CASE GpsStart \/ GpsResetParam
      BY <1>c, <2>0, <2>t, <2>1 DEF GpsStart, GpsResetParam
    <2>2. CASE GpsStop \/ GpsNmea
      <3>1. Taken \in Context
        <4>1. ctx.gpsQ \in Seq(Commands) /\ ctx.gpsQ # << >>
          BY <1>c, <2>2 DEF Context, GpsStop, GpsNmea, Take
        <4>2. Tail(ctx.gpsQ) \in Seq(Commands)
          BY <4>1
        <4> QED BY <1>c, <4>2 DEF Taken, Context
      <3> QED BY <1>c, <2>0, <2>t, <2>2, <3>1, IrrelevantHost DEF GpsStop, GpsNmea
    <2>3. CASE GpsResetWait \/ GpsResetWoken \/ GpsResetDone
      BY <1>c, <2>0, <2>3 DEF GpsResetWait, GpsResetWoken, GpsResetDone
    <2>4. CASE EpoAtStart
      BY <1>c, <2>0, <2>4 DEF EpoAtStart, EpoCheck, EpoInject, EpoUnlink
    <2> QED BY <1>3, <2>1, <2>2, <2>3, <2>4 DEF GpsThreadStep
  <1>4. CASE LibStep
    <2>1. ctx' = ctx \/ ctx' = [ctx EXCEPT !.gpsQ = Send(@, "NMEA")]
      BY <1>4 DEF LibStep, LibStartReq, LibRestartReq, StartReq, LibStartDone,
                  LibNotify, LibHeartBeat, LibRecovery
    <2>2. HostContext([ctx EXCEPT !.gpsQ = Send(@, "NMEA")])
      BY <1>c, IrrelevantHost
    <2>3. aux' = aux
      BY <1>4 DEF LibStep
    <2> QED BY <1>c, <2>1, <2>2, <2>3
  <1>5. CASE \/ GpsThreadTimeout /\ UNCHANGED <<aux, epo>>
             \/ \E x \in Watchdogs : Watchdog(x)
    <2>1. ctx' = [ctx EXCEPT !.dead = "exit"] /\ aux' = aux
      BY <1>5 DEF GpsThreadTimeout, Watchdog
    <2>2. HostContext([ctx EXCEPT !.dead = "exit"])
      BY <1>c, IrrelevantHost
    <2> QED BY <1>c, <2>1, <2>2
  <1>6. CASE NmeaTimeout
    BY <1>c, <1>6, IrrelevantHost DEF NmeaTimeout
  <1>7. ~SwitchStep /\ ~LibLinkClose
    BY <1>c DEF SwitchStep, SwitchTimeout, SwitchCheck, SwitchClear, AuxRead, AuxRun,
                LibLinkClose, HostContext, ApOnly
  <1>8. CASE EpoWrite \/ EpoDone \/ \E u \in Updates : DownloadDone(u)
    BY <1>c, <1>8 DEF EpoWrite, EpoDone, DownloadDone
  <1>9. CASE Restart
    BY <1>9, BootHost DEF Restart
  <1>10. CASE UNCHANGED vars
    BY <1>c, <1>10 DEF vars
  <1> QED BY <1>1, <1>2, <1>3, <1>4, <1>5, <1>6, <1>7, <1>8, <1>9, <1>10 DEF Next

\* Without offload HostInv holds in every reachable state.
THEOREM HostInvariant ==
    ASSUME OffloadMode = "off"
    PROVE  Spec => []HostInv
  <1>1. Init => HostInv
    <2>1. Init => TypeOK
      BY BootTyped, ControlAssumption
         DEF Init, ControlInit, TypeOK, GpsThread, Library, Aux, GpsStates, Epo
    <2> QED BY <2>1, BootHost DEF Init, HostInv
  <1>2. HostInv /\ [Next]_vars => HostInv'
    BY HostStep
  <1> QED BY <1>1, <1>2, PTL DEF Spec

\* Without offload a start, a stop and an awaited reset are always watched by their
\* timers, and no watchdog outlives its state.
THEOREM WatchdogsCorrect ==
    ASSUME OffloadMode = "off"
    PROVE  Spec => []WatchdogArmed
  <1>1. HostInv => WatchdogArmed
    BY DEF HostInv, HostContext, Watched, WatchdogArmed
  <1> QED BY <1>1, HostInvariant, PTL

\* Without offload acknowledgements are owed to the right clients only, and in IDLE
\* nothing is owed and every client knows that the GPS is off.
THEOREM AcksCorrect ==
    ASSUME OffloadMode = "off"
    PROVE  Spec => []AckDiscipline
  <1>1. HostInv => AckDiscipline
    BY DEF HostInv, HostContext, Watched, Owed, AckDiscipline
  <1> QED BY <1>1, HostInvariant, PTL

\* Without offload the framework wakelock is held exactly while the GPS is not idle.
THEOREM WakelockCorrect ==
    ASSUME OffloadMode = "off"
    PROVE  Spec => []WakelockBalanced
  <1>1. HostInv => WakelockBalanced
    BY DEF HostInv, HostContext, Awake, WakelockBalanced
  <1> QED BY <1>1, HostInvariant, PTL
=============================================================================
