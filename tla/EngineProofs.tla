---------------------------- MODULE EngineProofs ----------------------------
(***************************************************************************)
(* Proofs about the two message queues between mnld's main thread and the  *)
(* GPS control thread, without GPS offload (OffloadMode = "off"), for every *)
(* set of clients and every queue capacity: although commands and          *)
(* completions are delayed, and dropped by a full socket, the engine       *)
(* follows the state machine, no completion is unexpected, and the clients *)
(* see the service of GpsService.                                          *)
(***************************************************************************)
EXTENDS HostProofs

----------------------------------------------------------------------------
\* What a queue holds

Dones == {"START_DONE", "STOP_DONE"}

\* Nothing is reported after the end of a stop
StopLast(q) ==
    \A i, j \in 1..Len(q) : (i < j /\ q[i] = "STOP_DONE") => q[j] \notin Dones

\* What the queues and the library may hold in each state of the state machine: st is
\* gps_state, q the commands under way, on whether the engine runs, mq the reports.
Tracks(st, q, on, mq) ==
    /\ st = "IDLE" =>
         ~on /\ Absent(q, {"START", "STOP"}) /\ Absent(mq, Dones)
    /\ st = "STARTING" =>
         /\ Absent(q, {"STOP"}) /\ Once(q, {"START"}) /\ Absent(mq, {"STOP_DONE"})
         /\ on => Absent(q, {"START"})
         /\ ~on => Absent(mq, Dones)
    /\ st = "STARTED" =>
         on /\ Absent(q, {"START", "STOP"}) /\ Absent(mq, {"STOP_DONE"})
    /\ st = "STOPPING" =>
         /\ Absent(q, {"START"}) /\ Once(q, {"STOP"}) /\ StopLast(mq)
         /\ on => Absent(mq, {"STOP_DONE"})
         /\ ~on => Absent(q, {"STOP"})

HostStates == {"IDLE", "STARTING", "STARTED", "STOPPING"}

----------------------------------------------------------------------------
\* Sending and taking messages

\* A completion may follow where no end of a stop waits, anything else at any time.
LEMMA SendStopLast ==
    ASSUME NEW T, NEW q \in Seq(T), NEW m \in T
    PROVE  /\ StopLast(q) /\ m \notin Dones => StopLast(Send(q, m))
           /\ Absent(q, {"STOP_DONE"}) => StopLast(Send(q, m))
  <1> DEFINE r == Send(q, m)
  <1>1. /\ Len(q) \in Nat /\ Len(r) \in {Len(q), Len(q) + 1}
        /\ \A i \in 1..Len(r) : \/ i \in 1..Len(q) /\ r[i] = q[i]
                                \/ i = Len(q) + 1 /\ r[i] = m
    BY Sent
  <1> HIDE DEF r
  <1>2. ASSUME StopLast(q), m \notin Dones PROVE StopLast(r)
    BY <1>1, <1>2 DEF StopLast
  <1>3. ASSUME Absent(q, {"STOP_DONE"}) PROVE StopLast(r)
    BY <1>1, <1>3 DEF StopLast, Absent
  <1> QED BY <1>2, <1>3 DEF r

\* After the end of a stop is taken no completion is left.
LEMMA TailStopLast ==
    ASSUME NEW T, NEW q \in Seq(T), q # << >>, StopLast(q)
    PROVE  /\ StopLast(Tail(q))
           /\ Head(q) = "STOP_DONE" => Absent(Tail(q), Dones)
  <1> DEFINE r == Tail(q)
  <1>1. /\ Head(q) = q[1] /\ Len(q) \in Nat \ {0} /\ Len(r) = Len(q) - 1 /\ 1 \in 1..Len(q)
        /\ \A i \in 1..Len(r) : r[i] = q[i + 1] /\ i + 1 \in 1..Len(q)
    BY Rest
  <1> HIDE DEF r
  <1>2. StopLast(r)
    BY <1>1 DEF StopLast
  <1>3. ASSUME Head(q) = "STOP_DONE" PROVE Absent(r, Dones)
    BY <1>1, <1>3 DEF StopLast, Absent
  <1> QED BY <1>2, <1>3 DEF r

----------------------------------------------------------------------------
\* How Tracks moves with the threads

\* A command other than START and STOP, and a report other than a completion, may be
\* sent at any time.
LEMMA TracksSend ==
    ASSUME NEW st, NEW on, NEW q \in Seq(Commands), NEW mq \in Seq(MainEvents),
           Tracks(st, q, on, mq)
    PROVE  /\ \A m \in Commands \ {"START", "STOP"} : Tracks(st, Send(q, m), on, mq)
           /\ \A m \in MainEvents \ Dones : Tracks(st, q, on, Send(mq, m))
  <1>1. ASSUME NEW m \in Commands \ {"START", "STOP"}
        PROVE  Tracks(st, Send(q, m), on, mq)
    <2>1. /\ \A S : Absent(q, S) /\ m \notin S => Absent(Send(q, m), S)
          /\ \A S : Once(q, S) /\ m \notin S => Once(Send(q, m), S)
      BY SendKeeps
    <2> QED BY <2>1 DEF Tracks
  <1>2. ASSUME NEW m \in MainEvents \ Dones PROVE Tracks(st, q, on, Send(mq, m))
    <2>1. /\ \A S : Absent(mq, S) /\ m \notin S => Absent(Send(mq, m), S)
          /\ StopLast(mq) => StopLast(Send(mq, m))
      BY SendKeeps, SendStopLast
    <2> QED BY <2>1 DEF Tracks, Dones
  <1> QED BY <1>1, <1>2

\* The start of an idle engine and the stop of a started one are commanded.
LEMMA TracksCommand ==
    ASSUME NEW on, NEW q \in Seq(Commands), NEW mq \in Seq(MainEvents)
    PROVE  /\ Tracks("IDLE", q, on, mq) => Tracks("STARTING", Send(q, "START"), on, mq)
           /\ Tracks("STARTED", q, on, mq) => Tracks("STOPPING", Send(q, "STOP"), on, mq)
  <1>0. "START" \in Commands /\ "STOP" \in Commands
    BY DEF Commands
  <1>1. ASSUME Tracks("IDLE", q, on, mq)
        PROVE  Tracks("STARTING", Send(q, "START"), on, mq)
    <2>1. ~on /\ Absent(q, {"START", "STOP"}) /\ Absent(mq, Dones)
      BY <1>1 DEF Tracks
    <2>2. Absent(q, {"STOP"}) /\ Absent(q, {"START"}) /\ Absent(mq, {"STOP_DONE"})
      BY <2>1, AbsentPart DEF Dones
    <2>3. Absent(Send(q, "START"), {"STOP"}) /\ Once(Send(q, "START"), {"START"})
      BY <1>0, <2>2, SendKeeps
    <2> QED BY <2>1, <2>2, <2>3 DEF Tracks
  <1>2. ASSUME Tracks("STARTED", q, on, mq)
        PROVE  Tracks("STOPPING", Send(q, "STOP"), on, mq)
    <2>1. on /\ Absent(q, {"START", "STOP"}) /\ Absent(mq, {"STOP_DONE"})
      BY <1>2 DEF Tracks
    <2>2. Absent(q, {"STOP"}) /\ Absent(q, {"START"})
      BY <2>1, AbsentPart
    <2>3. Absent(Send(q, "STOP"), {"START"}) /\ Once(Send(q, "STOP"), {"STOP"})
      BY <1>0, <2>2, SendKeeps
    <2>4. StopLast(mq)
      BY <2>1 DEF StopLast, Absent
    <2> QED BY <2>1, <2>3, <2>4 DEF Tracks
  <1> QED BY <1>1, <1>2

\* The GPS control thread takes a command.  START is met only by a stopped engine that
\* is being started, STOP only by a running one that is being stopped.
LEMMA TracksTake ==
    ASSUME NEW st \in HostStates, NEW on \in BOOLEAN,
           NEW q \in Seq(Commands), NEW mq \in Seq(MainEvents),
           Tracks(st, q, on, mq), q # << >>
    PROVE  /\ Tracks(st, Tail(q), on, mq)
           /\ Head(q) = "START" =>
                /\ st = "STARTING" /\ ~on
                /\ \A ok \in BOOLEAN : Tracks(st, Tail(q), ok, mq)
           /\ Head(q) = "STOP" =>
                /\ st = "STOPPING" /\ on
                /\ Tracks(st, Tail(q), FALSE, mq)
                /\ Tracks(st, Tail(q), FALSE, Send(mq, "STOP_DONE"))
  <1>0. "STOP_DONE" \in MainEvents
    BY DEF MainEvents
  <1>k. /\ \A S : Absent(q, S) => Absent(Tail(q), S) /\ Head(q) \notin S
        /\ \A S : Once(q, S) => Once(Tail(q), S)
        /\ \A S : Once(q, S) /\ Head(q) \in S => Absent(Tail(q), S)
    BY TailKeeps
  <1>1. Tracks(st, Tail(q), on, mq)
    BY <1>k DEF Tracks
  <1>2. ASSUME Head(q) = "START"
        PROVE  /\ st = "STARTING" /\ ~on
               /\ \A ok \in BOOLEAN : Tracks(st, Tail(q), ok, mq)
    <2>1. ~Absent(q, {"START", "STOP"}) /\ ~Absent(q, {"START"})
      BY <1>2, <1>k
    <2>2. st = "STARTING" /\ ~on
      BY <2>1 DEF Tracks, HostStates
    <2>3. Absent(Tail(q), {"START"}) /\ Absent(mq, Dones)
      BY <1>2, <1>k, <2>2 DEF Tracks
    <2> QED BY <1>1, <2>2, <2>3 DEF Tracks
  <1>3. ASSUME Head(q) = "STOP"
        PROVE  /\ st = "STOPPING" /\ on
               /\ Tracks(st, Tail(q), FALSE, mq)
               /\ Tracks(st, Tail(q), FALSE, Send(mq, "STOP_DONE"))
    <2>1. ~Absent(q, {"START", "STOP"}) /\ ~Absent(q, {"STOP"})
      BY <1>3, <1>k
    <2>2. st = "STOPPING" /\ on
      BY <2>1 DEF Tracks, HostStates
    <2>3. Absent(Tail(q), {"STOP"}) /\ Absent(mq, {"STOP_DONE"})
      BY <1>3, <1>k, <2>2 DEF Tracks
    <2>4. StopLast(Send(mq, "STOP_DONE"))
      BY <1>0, <2>3, SendStopLast
    <2> QED BY <1>1, <2>2, <2>3, <2>4 DEF Tracks
  <1> QED BY <1>1, <1>2, <1>3

\* A running library may report a start at any time.
LEMMA TracksStarted ==
    ASSUME NEW st, NEW q \in Seq(Commands), NEW mq \in Seq(MainEvents),
           Tracks(st, q, TRUE, mq)
    PROVE  Tracks(st, q, TRUE, Send(mq, "START_DONE"))
  <1>0. "START_DONE" \in MainEvents
    BY DEF MainEvents
  <1>1. /\ \A S : Absent(mq, S) /\ "START_DONE" \notin S => Absent(Send(mq, "START_DONE"), S)
        /\ Absent(mq, {"STOP_DONE"}) => StopLast(Send(mq, "START_DONE"))
    BY <1>0, SendKeeps, SendStopLast
  <1>2. "START_DONE" \notin {"STOP_DONE"}
    OBVIOUS
  <1> QED BY <1>1, <1>2 DEF Tracks

\* The main thread reads a report.  No completion is read in IDLE, the end of a start
\* only while the engine runs or stops, the end of a stop only while STOPPING, when
\* the engine is off and no command or completion is left.
LEMMA TracksRead ==
    ASSUME NEW st \in HostStates, NEW on \in BOOLEAN,
           NEW q \in Seq(Commands), NEW mq \in Seq(MainEvents),
           Tracks(st, q, on, mq), mq # << >>
    PROVE  /\ Tracks(st, q, on, Tail(mq))
           /\ Head(mq) = "START_DONE" =>
                /\ st # "IDLE"
                /\ st = "STARTING" => on /\ Tracks("STARTED", q, on, Tail(mq))
           /\ Head(mq) = "STOP_DONE" =>
                /\ st = "STOPPING" /\ ~on
                /\ Tracks("IDLE", q, on, Tail(mq))
  <1>k. /\ \A S : Absent(mq, S) => Absent(Tail(mq), S) /\ Head(mq) \notin S
        /\ StopLast(mq) => StopLast(Tail(mq))
        /\ StopLast(mq) /\ Head(mq) = "STOP_DONE" => Absent(Tail(mq), Dones)
    BY TailKeeps, TailStopLast
  <1>1. Tracks(st, q, on, Tail(mq))
    BY <1>k DEF Tracks
  <1>2. ASSUME Head(mq) = "START_DONE"
        PROVE  /\ st # "IDLE"
               /\ st = "STARTING" => on /\ Tracks("STARTED", q, on, Tail(mq))
    <2>1. ~Absent(mq, Dones)
      BY <1>2, <1>k DEF Dones
    <2>2. st # "IDLE"
      BY <2>1 DEF Tracks
    <2>3. ASSUME st = "STARTING" PROVE on /\ Tracks("STARTED", q, on, Tail(mq))
      <3>1. on /\ Absent(q, {"STOP"}) /\ Absent(q, {"START"}) /\ Absent(Tail(mq), {"STOP_DONE"})
        BY <1>k, <2>1, <2>3 DEF Tracks
      <3>2. Absent(q, {"START", "STOP"})
        BY <3>1 DEF Absent
      <3> QED BY <3>1, <3>2 DEF Tracks
    <2> QED BY <2>2, <2>3
  <1>3. ASSUME Head(mq) = "STOP_DONE"
        PROVE  st = "STOPPING" /\ ~on /\ Tracks("IDLE", q, on, Tail(mq))
    <2>1. ~Absent(mq, Dones) /\ ~Absent(mq, {"STOP_DONE"})
      BY <1>3, <1>k DEF Dones
    <2>2. st = "STOPPING" /\ ~on
      BY <2>1 DEF Tracks, HostStates
    <2>3. Absent(q, {"START"}) /\ Absent(q, {"STOP"}) /\ Absent(Tail(mq), Dones)
      BY <1>3, <1>k, <2>2 DEF Tracks
    <2>4. Absent(q, {"START", "STOP"})
      BY <2>3 DEF Absent
    <2> QED BY <2>2, <2>3, <2>4 DEF Tracks
  <1> QED BY <1>1, <1>2, <1>3

----------------------------------------------------------------------------
\* What each handler commands, and what it does to the clients' sessions

\* A step of the main thread that starts and stops nothing
Quiet(g, h) ==
    /\ h.gps_state = g.gps_state /\ h.dead = g.dead
    /\ h.gpsQ \in {g.gpsQ, Send(g.gpsQ, "RESET")}

Begins(g, h) ==
    /\ h.gps_state = "STARTING" /\ h.dead = g.dead
    /\ h.gpsQ = Send(g.gpsQ, "START")

Ends(g, h) ==
    /\ h.gps_state = "STOPPING" /\ h.dead = g.dead
    /\ h.gpsQ \in {Send(g.gpsQ, "STOP"), Send(Send(g.gpsQ, "RESET"), "STOP")}

\* Acknowledging commands at most a reset.
LEMMA AckEffect ==
    ASSUME OffloadMode = "off", NEW g \in Context
    PROVE  /\ Quiet(g, do_gps_started_hdlr(g))
           /\ do_gps_stopped_hdlr(g).gpsQ = g.gpsQ
           /\ do_gps_stopped_hdlr(g).dead = g.dead
           /\ Quiet(g, do_gps_stopped_hdlr(g))
  <1>1. Quiet(g, do_gps_started_hdlr(g))
    <2> DEFINE t == [c \in Clients |-> IF c \in g.open THEN AckKind(g, c) ELSE g.told[c]]
               b == [[g EXCEPT !.told = t, !.open = {}] EXCEPT !.reset_ack = FALSE]
    <2>1. do_gps_started_hdlr(g) = gps_control_gps_reset(b)
      BY DEF do_gps_started_hdlr, do_gps_reset_hdlr
    <2>2. /\ b.gps_state = g.gps_state /\ b.gpsQ = g.gpsQ /\ b.dead = g.dead
          /\ DOMAIN b = DOMAIN g
      BY DEF Context
    <2>3. {"gps_state", "gpsQ", "dead", "aiding", "timers"} \subseteq DOMAIN b
      BY <2>2 DEF Context
    <2> HIDE DEF b
    <2> QED BY <2>1, <2>2, <2>3 DEF gps_control_gps_reset, Quiet
  <1>2. /\ do_gps_stopped_hdlr(g).gpsQ = g.gpsQ
        /\ do_gps_stopped_hdlr(g).dead = g.dead
        /\ do_gps_stopped_hdlr(g).gps_state = g.gps_state
    BY DEF do_gps_stopped_hdlr, do_gps_reset_hdlr, Context
  <1> QED BY <1>1, <1>2 DEF Quiet

\* A start request begins a start in IDLE; in STARTED it is confirmed at once.
LEMMA OpenEffect ==
    ASSUME OffloadMode = "off", NEW g \in Context, g.gps_state \in HostStates,
           NEW c \in Clients
    PROVE  LET h == OpenGps(g, c) IN
           /\ Quiet(g, h) \/ (g.gps_state = "IDLE" /\ Begins(g, h))
           /\ h.used = g.used \cup {c} /\ h.close = g.close \ {c}
           /\ h.open = IF g.gps_state = "STARTED" THEN {}
                       ELSE g.open \cup ({c} \cap Acked)
  <1> DEFINE o == Opened(g, c)
             h == OpenGps(g, c)
  <1>0. o \in Context
    BY RequestType
  <1>1. /\ o \in Context
        /\ o.used = g.used \cup {c} /\ o.open = g.open \cup ({c} \cap Acked)
        /\ o.close = g.close \ {c} /\ o.gps_state = g.gps_state
        /\ o.gpsQ = g.gpsQ /\ o.dead = g.dead
    BY <1>0 DEF Opened, Context
  <1>2. h = mnld_fsm("START", o)
    BY DEF OpenGps
  <1> HIDE DEF o, h
  <1>3. CASE g.gps_state = "IDLE"
    <2>1. h = StartFromIdle(o, "STARTING")
      BY <1>1, <1>2, <1>3, FsmHost DEF fsm_gps_state_idle, Events
    <2>2. /\ h.gps_state = "STARTING"
          /\ h.used = o.used /\ h.open = o.open /\ h.close = o.close
      BY <1>1, <2>1, StartFields
    <2>3. RequestWakelock(o) = [o EXCEPT !.power = @ \cup {"wakelock"}]
      BY <1>1, HostMode
    <2>4. h.gpsQ = Send(o.gpsQ, "START") /\ h.dead = o.dead
      BY <1>1, <2>1, <2>3 DEF StartFromIdle, gps_control_gps_start, Context
    <2> QED BY <1>1, <1>3, <2>2, <2>4 DEF Begins, h
  <1>4. CASE g.gps_state \in {"STARTING", "STOPPING"}
    <2>1. h = o
      BY <1>1, <1>2, <1>4, FsmHost DEF fsm_gps_state_starting, fsm_gps_state_stopping, Events
    <2> QED BY <1>1, <1>4, <2>1 DEF Quiet, h
  <1>5. CASE g.gps_state = "STARTED"
    <2>1. h = do_gps_started_hdlr(o)
      BY <1>1, <1>2, <1>5, FsmHost DEF fsm_gps_state_started, Events
    <2>2. h.used = o.used /\ h.close = o.close /\ h.open = {}
      BY <1>1, <2>1, StartedFields
    <2>3. Quiet(o, h)
      BY <1>1, <2>1, AckEffect
    <2> QED BY <1>1, <1>5, <2>2, <2>3 DEF Quiet, h
  <1> QED BY <1>3, <1>4, <1>5 DEF HostStates

\* A stop event ends a started engine that has no user left; otherwise it only
\* acknowledges.
LEMMA LeaveEffect ==
    ASSUME OffloadMode = "off", NEW o \in Context, o.gps_state \in HostStates
    PROVE  LET h == mnld_fsm("STOP", o) IN
           /\ Quiet(o, h) \/ (o.gps_state = "STARTED" /\ o.used = {} /\ Ends(o, h))
           /\ h.used = o.used /\ h.open = o.open /\ h.close \in {o.close, {}}
  <1> DEFINE h == mnld_fsm("STOP", o)
  <1>x. "STOP" \in Events
    BY DEF Events
  <1>1. CASE o.gps_state \in {"STARTING", "STOPPING"}
    <2>1. h = o
      BY <1>1, <1>x, FsmHost DEF fsm_gps_state_starting, fsm_gps_state_stopping
    <2> QED BY <2>1 DEF Quiet
  <1>2. CASE o.gps_state = "IDLE" \/ (o.gps_state = "STARTED" /\ ~AllExit(o))
    <2>1. h = do_gps_stopped_hdlr(o)
      BY <1>2, <1>x, FsmHost, HostMode DEF fsm_gps_state_idle, fsm_gps_state_started
    <2> HIDE DEF h
    <2>2. h.used = o.used /\ h.open = o.open /\ h.close = {}
      BY <2>1, StoppedFields
    <2>3. Quiet(o, h)
      BY <2>1, AckEffect
    <2> QED BY <2>2, <2>3 DEF h
  <1>3. CASE o.gps_state = "STARTED" /\ AllExit(o)
    <2> DEFINE d == [o EXCEPT !.timers = @ \ {"switch_ofl"}]
    <2>1. h = gps_control_gps_stop(d, "STOPPING")
      BY <1>3, <1>x, FsmHost DEF fsm_gps_state_started
    <2>2. /\ d \in Context /\ d.gpsQ = o.gpsQ /\ d.dead = o.dead
          /\ d.used = o.used /\ d.open = o.open /\ d.close = o.close
      BY DEF Context
    <2> HIDE DEF h, d
    <2>3. /\ h.gps_state = "STOPPING"
          /\ h.used = d.used /\ h.open = d.open /\ h.close = d.close
      BY <2>1, <2>2, StopFields
    <2>4. h.gpsQ = Send(d.gpsQ, "STOP") /\ h.dead = d.dead
      BY <2>1, <2>2 DEF gps_control_gps_stop, Context
    <2> QED BY <1>3, <2>2, <2>3, <2>4 DEF Ends, AllExit, h
  <1> QED BY <1>1, <1>2, <1>3 DEF HostStates

\* A reset event commands at most a reset and touches no session.
LEMMA ResetEffect ==
    ASSUME OffloadMode = "off", NEW o \in Context, o.gps_state \in HostStates
    PROVE  LET h == mnld_fsm("RESET", o) IN
           /\ Quiet(o, h)
           /\ h.used = o.used /\ h.open = o.open /\ h.close = o.close
  <1> DEFINE h == mnld_fsm("RESET", o)
  <1>x. "RESET" \in Events
    BY DEF Events
  <1>1. CASE o.gps_state = "STARTING"
    <2>1. h = o
      BY <1>1, <1>x, FsmHost DEF fsm_gps_state_starting
    <2> QED BY <2>1 DEF Quiet
  <1>2. CASE o.gps_state \in {"IDLE", "STOPPING"}
    <2>1. h = [o EXCEPT !.reset_ack = FALSE]
      BY <1>2, <1>x, FsmHost DEF fsm_gps_state_idle, fsm_gps_state_stopping, do_gps_reset_hdlr
    <2> HIDE DEF h
    <2> QED BY <2>1 DEF Quiet, Context, h
  <1>3. CASE o.gps_state = "STARTED"
    <2>1. h = gps_control_gps_reset(o)
      BY <1>3, <1>x, FsmHost DEF fsm_gps_state_started
    <2> HIDE DEF h
    <2> QED BY <2>1 DEF gps_control_gps_reset, Quiet, Context, h
  <1> QED BY <1>1, <1>2, <1>3 DEF HostStates

\* The end of a start: the engine is started, or stopped again if everybody left.
LEMMA StartingDoneEffect ==
    ASSUME OffloadMode = "off", NEW g \in Context, HostContext(g), g.gps_state = "STARTING"
    PROVE  LET h == StartingDone(g) IN
           /\ h.used = g.used /\ h.close = g.close /\ h.open = {}
           /\ \/ Quiet([g EXCEPT !.gps_state = "STARTED"], h)
              \/ g.used = {} /\ Ends(g, h)
  <1> DEFINE d == [g EXCEPT !.timers = @ \ {"start"}]
             s == do_gps_started_hdlr(d)
             r == [s EXCEPT !.gps_state = "STARTED", !.pending = {}]
             k == [g EXCEPT !.gps_state = "STARTED"]
             h == StartingDone(g)
  <1>1. /\ d \in Context /\ d.gps_state = g.gps_state /\ d.used = g.used
        /\ d.open = g.open /\ d.close = g.close /\ d.pre_type = g.pre_type
        /\ d.gpsQ = g.gpsQ /\ d.dead = g.dead
    BY DEF Context
  <1>k. k.gps_state = "STARTED" /\ k.gpsQ = g.gpsQ /\ k.dead = g.dead
    BY DEF Context
  <1> HIDE DEF d, k
  <1>2. /\ s \in Context /\ s.used = d.used /\ s.close = d.close /\ s.open = {}
        /\ s.pre_type = d.pre_type
    BY <1>1, StartedFields
  <1>3. Quiet(d, s)
    BY <1>1, AckEffect
  <1> HIDE DEF s
  <1>4. CASE AllExit(s)
    <2>1. h = gps_control_gps_stop(s, "STOPPING")
      BY <1>4 DEF StartingDone, s, d
    <2> HIDE DEF h
    <2>2. /\ h.gps_state = "STOPPING"
          /\ h.used = s.used /\ h.open = s.open /\ h.close = s.close
      BY <1>2, <2>1, StopFields
    <2>3. h.gpsQ = Send(s.gpsQ, "STOP") /\ h.dead = s.dead
      BY <1>2, <2>1 DEF gps_control_gps_stop, Context
    <2>4. g.used = {} /\ Ends(g, h)
      BY <1>1, <1>2, <1>3, <1>4, <2>2, <2>3 DEF Quiet, Ends, AllExit
    <2> QED BY <1>1, <1>2, <2>2, <2>4 DEF h
  <1>5. CASE ~AllExit(s)
    <2>1. h = SwitchSession(r, "AP")
      BY <1>5, HostMode DEF StartingDone, s, d
    <2>2. /\ r \in Context /\ r.gps_state = "STARTED"
          /\ r.used = s.used /\ r.open = s.open /\ r.close = s.close
          /\ r.pre_type = s.pre_type /\ r.gpsQ = s.gpsQ /\ r.dead = s.dead
      BY <1>2 DEF Context, GpsStates
    <2> HIDE DEF r, h
    <2>3. Changed(r, "AP") = {}
      BY <1>1, <1>2, <2>2 DEF Changed, HostContext, ApOnly, AllAp
    <2>4. /\ h.gps_state = r.gps_state /\ h.gpsQ = r.gpsQ /\ h.dead = r.dead
          /\ h.used = r.used /\ h.open = r.open /\ h.close = r.close
      BY <2>1, <2>2, <2>3 DEF SwitchSession, Context
    <2>5. Quiet(k, h)
      BY <1>1, <1>k, <1>3, <2>2, <2>4 DEF Quiet
    <2> QED BY <1>1, <1>2, <2>2, <2>4, <2>5 DEF h, k
  <1> QED BY <1>4, <1>5

\* The end of a stop: the GPS is idle, or started again for a client that came back.
LEMMA StoppingDoneEffect ==
    ASSUME OffloadMode = "off", NEW g \in Context, g.gps_state = "STOPPING"
    PROVE  LET h == StoppingDone(g) IN
           /\ h.used = g.used /\ h.open = g.open /\ h.close = {}
           /\ \/ Begins(g, h)
              \/ h.gps_state = "IDLE" /\ h.gpsQ = g.gpsQ /\ h.dead = g.dead
  <1> DEFINE d == [g EXCEPT !.timers = @ \ {"stop"}]
             s == do_gps_stopped_hdlr(d)
             h == StoppingDone(g)
  <1>1. /\ d \in Context /\ d.used = g.used /\ d.open = g.open
        /\ d.gpsQ = g.gpsQ /\ d.dead = g.dead
    BY DEF Context
  <1> HIDE DEF d
  <1>2. s \in Context /\ s.used = d.used /\ s.open = d.open /\ s.close = {}
    BY <1>1, StoppedFields
  <1>3. s.gpsQ = d.gpsQ /\ s.dead = d.dead
    BY <1>1, AckEffect
  <1> HIDE DEF s
  <1>4. CASE AllExit(s)
    <2>1. h = [s EXCEPT !.power = @ \ {"wakelock"}, !.gps_state = "IDLE"]
      BY <1>2, <1>4, HostMode DEF StoppingDone, s, d
    <2> HIDE DEF h
    <2>2. /\ h.gps_state = "IDLE" /\ h.gpsQ = s.gpsQ /\ h.dead = s.dead
          /\ h.used = s.used /\ h.open = s.open /\ h.close = s.close
      BY <1>2, <2>1 DEF Context
    <2> QED BY <1>1, <1>2, <1>3, <2>2 DEF h
  <1>5. CASE ~AllExit(s)
    <2> DEFINE a == [s EXCEPT !.gps_state = "STARTING"]
    <2>1. h = gps_control_gps_start(ArmRestart(a))
      BY <1>5 DEF StoppingDone, s, d
    <2>2. a \in Context
      BY <1>2 DEF Context, GpsStates
    <2>3. h = gps_control_gps_start([a EXCEPT !.timers = @ \cup {"start"}])
      BY <2>1, <2>2, HostMode
    <2> HIDE DEF h
    <2>4. /\ h.gps_state = "STARTING" /\ h.gpsQ = Send(s.gpsQ, "START") /\ h.dead = s.dead
          /\ h.used = s.used /\ h.open = s.open /\ h.close = s.close
      BY <1>2, <2>3 DEF gps_control_gps_start, Context
    <2> QED BY <1>1, <1>2, <1>3, <2>4 DEF Begins, h
  <1> QED BY <1>4, <1>5

----------------------------------------------------------------------------
\* The invariant

\* Only a running library calls back.
Callbacks(l) == (l.cb = "post" \/ l.starting) => l.on

\* A client whose start request met a start or stop under way has not been confirmed.
Waiting(g) ==
    g.gps_state \in {"STARTING", "STOPPING"} => g.used \cap Acked \subseteq g.open

EngineInv ==
    /\ HostInv
    /\ ctx.dead # "crash"
    /\ Tracks(ctx.gps_state, ctx.gpsQ, lib.on, mainQ)
    /\ Callbacks(lib)
    /\ Waiting(ctx)

\* What EngineInv says of the types.
LEMMA EngineTypes ==
    ASSUME EngineInv
    PROVE  /\ ctx \in Context /\ lib \in Library /\ mainQ \in Seq(MainEvents)
           /\ ctx.gpsQ \in Seq(Commands) /\ lib.on \in BOOLEAN
           /\ ctx.gps_state \in HostStates /\ HostContext(ctx)
           /\ ctx.open \subseteq Clients /\ ctx.used \subseteq Clients
           /\ aux.pc = "none"
  <1>1. /\ ctx \in Context /\ lib \in Library /\ mainQ \in Seq(MainEvents)
        /\ HostContext(ctx) /\ aux.pc = "none"
    BY DEF EngineInv, HostInv, TypeOK
  <1> QED BY <1>1 DEF Context, Library, HostContext, ApOnly, HostStates

\* The three effects on the queues agree with the states they lead to.
LEMMA EffectTracks ==
    ASSUME NEW g, NEW h, NEW on, NEW mq \in Seq(MainEvents), g.gpsQ \in Seq(Commands),
           Tracks(g.gps_state, g.gpsQ, on, mq)
    PROVE  /\ Quiet(g, h) => Tracks(h.gps_state, h.gpsQ, on, mq)
           /\ g.gps_state = "IDLE" /\ Begins(g, h) => Tracks(h.gps_state, h.gpsQ, on, mq)
           /\ g.gps_state = "STARTED" /\ Ends(g, h) => Tracks(h.gps_state, h.gpsQ, on, mq)
  <1> DEFINE r == Send(g.gpsQ, "RESET")
  <1>0. "RESET" \in Commands \ {"START", "STOP"}
    BY DEF Commands
  <1>1. Tracks(g.gps_state, r, on, mq) /\ r \in Seq(Commands)
    BY <1>0, TracksSend, Sent
  <1> HIDE DEF r
  <1>2. ASSUME Quiet(g, h) PROVE Tracks(h.gps_state, h.gpsQ, on, mq)
    BY <1>1, <1>2 DEF Quiet, r
  <1>3. ASSUME g.gps_state = "IDLE", Begins(g, h) PROVE Tracks(h.gps_state, h.gpsQ, on, mq)
    BY <1>3, TracksCommand DEF Begins
  <1>4. ASSUME g.gps_state = "STARTED", Ends(g, h) PROVE Tracks(h.gps_state, h.gpsQ, on, mq)
    BY <1>1, <1>4, TracksCommand DEF Ends, r
  <1> QED BY <1>2, <1>3, <1>4

\* A client request: what it commands, and that it changes no other session except by
\* an acknowledgement.
LEMMA RequestEffect ==
    ASSUME OffloadMode = "off", EngineInv, Requests
    PROVE  /\ lib' = lib /\ mainQ' = mainQ
           /\ \/ Quiet(ctx, ctx')
              \/ ctx.gps_state = "IDLE" /\ Begins(ctx, ctx')
              \/ ctx.gps_state = "STARTED" /\ ctx'.used = {} /\ Ends(ctx, ctx')
           /\ Waiting(ctx')
           /\ \E c \in Clients :
                /\ ctx'.used \ {c} = ctx.used \ {c} /\ ctx'.open \ {c} = ctx.open \ {c}
                /\ ctx'.close \ {c} \in {ctx.close \ {c}, {}}
  <1>0. /\ ctx \in Context /\ ctx.gps_state \in HostStates /\ HostContext(ctx)
        /\ Waiting(ctx) /\ Owed(ctx)
    BY EngineTypes DEF EngineInv, HostContext
  <1>q. lib' = lib /\ mainQ' = mainQ
    BY <1>0 DEF Requests, hal_gps_start, HalDeleteAiding, HalNetwork, AgpsReset,
                ClientOpen, ClientClose, LinkOpen, ClientReboot, Unmoved
  <1>1. ASSUME NEW c \in Clients, ctx' = OpenGps(ctx, c)
        PROVE  /\ Quiet(ctx, ctx') \/ (ctx.gps_state = "IDLE" /\ Begins(ctx, ctx'))
               /\ Waiting(ctx')
               /\ ctx'.used \ {c} = ctx.used \ {c} /\ ctx'.open \ {c} = ctx.open \ {c}
               /\ ctx'.close \ {c} = ctx.close \ {c}
    <2>1. /\ Quiet(ctx, ctx') \/ (ctx.gps_state = "IDLE" /\ Begins(ctx, ctx'))
          /\ ctx'.used = ctx.used \cup {c} /\ ctx'.close = ctx.close \ {c}
          /\ ctx'.open = IF ctx.gps_state = "STARTED" THEN {}
                         ELSE ctx.open \cup ({c} \cap Acked)
      BY <1>0, <1>1, OpenEffect
    <2>2. Waiting(ctx')
      BY <1>0, <2>1 DEF Waiting, Owed, Quiet, Begins
    <2> QED BY <1>0, <2>1, <2>2 DEF Owed
  <1>2. ASSUME NEW c \in Clients, NEW o \in Context, ctx' = mnld_fsm("STOP", o),
               o.gps_state = ctx.gps_state, o.gpsQ = ctx.gpsQ, o.dead = ctx.dead,
               o.used = ctx.used \ {c}, o.open = ctx.open \ {c},
               o.close \ {c} = ctx.close \ {c}
        PROVE  /\ \/ Quiet(ctx, ctx')
                  \/ ctx.gps_state = "STARTED" /\ ctx'.used = {} /\ Ends(ctx, ctx')
               /\ Waiting(ctx')
               /\ ctx'.used \ {c} = ctx.used \ {c} /\ ctx'.open \ {c} = ctx.open \ {c}
               /\ ctx'.close \ {c} \in {ctx.close \ {c}, {}}
    <2>1. /\ Quiet(o, ctx') \/ (o.gps_state = "STARTED" /\ o.used = {} /\ Ends(o, ctx'))
          /\ ctx'.used = o.used /\ ctx'.open = o.open /\ ctx'.close \in {o.close, {}}
      BY <1>0, <1>2, LeaveEffect
    <2>2. \/ Quiet(ctx, ctx')
          \/ ctx.gps_state = "STARTED" /\ ctx'.used = {} /\ Ends(ctx, ctx')
      BY <1>2, <2>1 DEF Quiet, Ends
    <2>3. Waiting(ctx')
      BY <1>0, <1>2, <2>1, <2>2 DEF Waiting, Quiet
    <2> QED BY <1>2, <2>1, <2>2, <2>3
  <1>3. ASSUME NEW o \in Context, ctx' = mnld_fsm("RESET", o),
               o.gps_state = ctx.gps_state, o.gpsQ = ctx.gpsQ, o.dead = ctx.dead,
               o.used = ctx.used, o.open = ctx.open, o.close = ctx.close
        PROVE  /\ Quiet(ctx, ctx') /\ Waiting(ctx')
               /\ ctx'.used = ctx.used /\ ctx'.open = ctx.open /\ ctx'.close = ctx.close
    <2>1. Quiet(o, ctx') /\ ctx'.used = o.used /\ ctx'.open = o.open /\ ctx'.close = o.close
      BY <1>0, <1>3, ResetEffect
    <2> QED BY <1>0, <1>3, <2>1 DEF Quiet, Waiting
  <1>4. CASE hal_gps_start \/ \E c \in Clients \ {"hal"} : ClientOpen(c)
    <2>1. \E c \in Clients : ctx' = OpenGps(ctx, c)
      BY <1>4 DEF hal_gps_start, ClientOpen
    <2> QED BY <1>q, <1>1, <2>1
  <1>5. CASE \E c \in Clients : ClientClose(c)
    <2>1. PICK c \in Clients : ctx' = CloseGps(ctx, c)
      BY <1>5 DEF ClientClose
    <2> DEFINE o == Closed(ctx, c)
    <2>2. o \in Context
      BY <1>0, RequestType
    <2>3. /\ o.gps_state = ctx.gps_state /\ o.gpsQ = ctx.gpsQ /\ o.dead = ctx.dead
          /\ o.used = ctx.used \ {c} /\ o.open = ctx.open \ {c}
          /\ o.close \ {c} = ctx.close \ {c}
      BY <1>0 DEF Closed, Context
    <2>4. ctx' = mnld_fsm("STOP", o)
      BY <2>1 DEF CloseGps
    <2> HIDE DEF o
    <2> QED BY <1>q, <1>2, <2>2, <2>3, <2>4
  <1>6. CASE \E c \in Clients \cap {"hal", "agps"} : ClientReboot(c)
    <2>1. PICK c \in Clients : ctx' = Reboot(ctx, c)
      BY <1>6 DEF ClientReboot
    <2> DEFINE o == [ctx EXCEPT !.used = @ \ {c}, !.open = @ \ {c}, !.close = @ \ {c},
                                !.told[c] = "off",
                                !.reset_ack = @ /\ c # "agps"]
    <2>2. o \in Context
      BY <1>0 DEF Context, Kinds
    <2>3. /\ o.gps_state = ctx.gps_state /\ o.gpsQ = ctx.gpsQ /\ o.dead = ctx.dead
          /\ o.used = ctx.used \ {c} /\ o.open = ctx.open \ {c}
          /\ o.close \ {c} = ctx.close \ {c}
      BY <1>0 DEF Context
    <2>4. ctx' = mnld_fsm("STOP", o)
      BY <2>1 DEF Reboot
    <2> HIDE DEF o
    <2> QED BY <1>q, <1>2, <2>2, <2>3, <2>4
  <1>7. CASE HalDeleteAiding
    <2> DEFINE o == [ctx EXCEPT !.aiding = TRUE]
    <2>1. /\ o \in Context
          /\ o.gps_state = ctx.gps_state /\ o.gpsQ = ctx.gpsQ /\ o.dead = ctx.dead
          /\ o.used = ctx.used /\ o.open = ctx.open /\ o.close = ctx.close
      BY <1>0 DEF Context
    <2>2. ctx' = mnld_fsm("RESET", o) /\ "hal" \in Clients
      BY <1>7 DEF HalDeleteAiding, hal_gps_delete_aiding_data
    <2> HIDE DEF o
    <2> QED BY <1>q, <1>3, <2>1, <2>2
  <1>8. CASE AgpsReset
    <2> DEFINE o == [ctx EXCEPT !.aiding = TRUE, !.reset_ack = TRUE]
    <2>1. /\ o \in Context
          /\ o.gps_state = ctx.gps_state /\ o.gpsQ = ctx.gpsQ /\ o.dead = ctx.dead
          /\ o.used = ctx.used /\ o.open = ctx.open /\ o.close = ctx.close
      BY <1>0 DEF Context
    <2>2. ctx' = mnld_fsm("RESET", o) /\ "agps" \in Clients
      BY <1>8 DEF AgpsReset, agps_reset_gps_req
    <2> HIDE DEF o
    <2> QED BY <1>q, <1>3, <2>1, <2>2
  <1>9. CASE HalNetwork
    <2>1. ctx' = ctx /\ "hal" \in Clients
      BY <1>9 DEF HalNetwork
    <2> QED BY <1>0, <1>q, <2>1 DEF Quiet
  <1>10. ~ \E c \in Clients \cap Links : LinkOpen(c)
    BY <1>0 DEF LinkOpen, HostContext, ApOnly, AllAp
  <1> QED BY <1>4, <1>5, <1>6, <1>7, <1>8, <1>9, <1>10 DEF Requests

\* An internal event: what it commands, that it is never unexpected, and that it
\* changes the sessions by acknowledgements only, unless it gives every client up.
LEMMA EventEffect ==
    ASSUME OffloadMode = "off", EngineInv, main_event_hdlr
    PROVE  /\ lib' = lib
           /\ Tracks(ctx'.gps_state, ctx'.gpsQ, lib.on, mainQ')
           /\ ctx'.dead # "crash"
           /\ Waiting(ctx')
           /\ \/ /\ ctx'.used = ctx.used
                 /\ ctx'.open \in {ctx.open, {}} /\ ctx'.close \in {ctx.close, {}}
              \/ ctx'.used = {} /\ ctx'.open = {} /\ ctx'.close = ctx.close
  <1> DEFINE m == Head(mainQ)
             on == lib.on
             q == ctx.gpsQ
             r == Tail(mainQ)
             st == ctx.gps_state
  <1>0. /\ ctx \in Context /\ st \in HostStates /\ HostContext(ctx)
        /\ Waiting(ctx) /\ Owed(ctx) /\ ctx.dead # "crash"
        /\ q \in Seq(Commands) /\ mainQ \in Seq(MainEvents) /\ on \in BOOLEAN
        /\ Tracks(st, q, on, mainQ)
    BY EngineTypes DEF EngineInv, HostContext
  <1>1. mainQ # << >> /\ ctx' = OnEvent(m) /\ mainQ' = r /\ lib' = lib
    BY DEF main_event_hdlr
  <1>2. m \in MainEvents /\ r \in Seq(MainEvents)
    BY <1>0, <1>1, Rest
  <1>3. /\ Tracks(st, q, on, r)
        /\ m = "START_DONE" => /\ st # "IDLE"
                               /\ st = "STARTING" => on /\ Tracks("STARTED", q, on, r)
        /\ m = "STOP_DONE" => st = "STOPPING" /\ ~on /\ Tracks("IDLE", q, on, r)
    BY <1>0, <1>1, TracksRead
  <1> HIDE DEF m, on, q, r, st
  <1>q. ASSUME ctx'.gps_state = ctx.gps_state, ctx'.gpsQ = ctx.gpsQ, ctx'.dead = ctx.dead,
               ctx'.used = ctx.used, ctx'.open = ctx.open, ctx'.close \in {ctx.close, {}}
        PROVE  /\ Tracks(ctx'.gps_state, ctx'.gpsQ, lib.on, mainQ')
               /\ ctx'.dead # "crash" /\ Waiting(ctx')
    BY <1>0, <1>1, <1>3, <1>q DEF Waiting, on, q, st
  <1>4. CASE m = "START_DONE"
    <2>1. OnEvent(m) = mnld_fsm("START_DONE", ctx) /\ "START_DONE" \in Events
      BY <1>4 DEF OnEvent, AllUpdates, Events
    <2>2. CASE st # "STARTING"
      <3>1. ctx' = ctx
        <4>1. st \in {"STARTED", "STOPPING"}
          BY <1>0, <1>3, <1>4, <2>2 DEF HostStates
        <4>2. fsm_gps_state_started(ctx, "START_DONE") = ctx
          BY DEF fsm_gps_state_started
        <4>3. fsm_gps_state_stopping(ctx, "START_DONE") = ctx
          BY DEF fsm_gps_state_stopping
        <4> QED BY <1>0, <1>1, <2>1, <4>1, <4>2, <4>3, FsmHost DEF st
      <3> QED BY <1>1, <1>q, <3>1
    <2>3. CASE st = "STARTING"
      <3>1. ctx' = StartingDone(ctx)
        BY <1>0, <1>1, <2>1, <2>3, FsmHost DEF fsm_gps_state_starting, st
      <3> DEFINE k == [ctx EXCEPT !.gps_state = "STARTED"]
      <3>2. /\ ctx'.used = ctx.used /\ ctx'.close = ctx.close /\ ctx'.open = {}
            /\ Quiet(k, ctx') \/ (ctx.used = {} /\ Ends(ctx, ctx'))
        BY <1>0, <2>3, <3>1, StartingDoneEffect DEF st
      <3>3. k.gps_state = "STARTED" /\ k.gpsQ = q /\ k.dead = ctx.dead
        BY <1>0 DEF Context, q
      <3> HIDE DEF k
      <3>4. Quiet(k, ctx') \/ (ctx.used = {} /\ Ends(k, ctx'))
        BY <3>2, <3>3 DEF Ends, q
      <3>5. Tracks("STARTED", q, on, r)
        BY <1>3, <1>4, <2>3
      <3>6. Tracks(ctx'.gps_state, ctx'.gpsQ, on, r)
        BY <1>0, <1>2, <3>3, <3>4, <3>5, EffectTracks
      <3>7. ctx'.dead # "crash" /\ Waiting(ctx')
        BY <1>0, <3>2, <3>3, <3>4 DEF Quiet, Ends, Waiting
      <3> QED BY <1>1, <3>2, <3>6, <3>7 DEF on
    <2> QED BY <2>2, <2>3
  <1>5. CASE m = "STOP_DONE"
    <2>1. OnEvent(m) = mnld_fsm("STOP_DONE", ctx) /\ "STOP_DONE" \in Events
      BY <1>5 DEF OnEvent, AllUpdates, Events
    <2>2. st = "STOPPING" /\ Tracks("IDLE", q, on, r)
      BY <1>3, <1>5
    <2>3. ctx' = StoppingDone(ctx)
      BY <1>0, <1>1, <2>1, <2>2, FsmHost DEF fsm_gps_state_stopping, st
    <2>4. /\ ctx'.used = ctx.used /\ ctx'.open = ctx.open /\ ctx'.close = {}
          /\ \/ Begins(ctx, ctx')
             \/ ctx'.gps_state = "IDLE" /\ ctx'.gpsQ = ctx.gpsQ /\ ctx'.dead = ctx.dead
      BY <1>0, <2>2, <2>3, StoppingDoneEffect DEF st
    <2>5. Tracks(ctx'.gps_state, ctx'.gpsQ, on, r)
      BY <1>0, <1>2, <2>2, <2>4, TracksCommand DEF Begins, q
    <2>6. ctx'.dead # "crash" /\ Waiting(ctx')
      BY <1>0, <2>2, <2>4 DEF Begins, Waiting, st
    <2> QED BY <1>1, <2>4, <2>5, <2>6 DEF on
  <1>6. CASE m = "RESET_DONE"
    <2>1. ctx' = [ctx EXCEPT !.timers = @ \ {"reset"}, !.reset_ack = FALSE]
      BY <1>1, <1>6 DEF OnEvent, AllUpdates, OnResetDone, do_gps_reset_hdlr
    <2>2. /\ ctx'.gps_state = ctx.gps_state /\ ctx'.gpsQ = ctx.gpsQ /\ ctx'.dead = ctx.dead
          /\ ctx'.used = ctx.used /\ ctx'.open = ctx.open /\ ctx'.close = ctx.close
      BY <1>0, <2>1 DEF Context
    <2> QED BY <1>1, <1>q, <2>2
  <1>7. CASE m = "NMEA_TIMEOUT"
    <2>1. ctx' = OnNmeaTimeout(ctx)
      BY <1>1, <1>7 DEF OnEvent, AllUpdates
    <2>2. CASE st # "STARTED"
      <3>1. ctx' = ctx
        BY <2>1, <2>2 DEF OnNmeaTimeout, st
      <3> QED BY <1>1, <1>q, <3>1
    <2>3. CASE st = "STARTED"
      <3> DEFINE o == mtk_gps_clear_gps_user(ctx)
                 k == mnld_fsm("STOP", o)
      <3>1. /\ o \in Context /\ o.used = {} /\ o.gps_state = "STARTED"
            /\ o.open = ctx.open /\ o.close = ctx.close
            /\ o.gpsQ = ctx.gpsQ /\ o.dead = ctx.dead
        BY <1>0, <2>3 DEF mtk_gps_clear_gps_user, Context, st
      <3>2. ctx' = RebootNotices(k)
        BY <2>1, <2>3 DEF OnNmeaTimeout, st
      <3> HIDE DEF o
      <3> DEFINE d == [o EXCEPT !.timers = @ \ {"switch_ofl"}]
      <3>3. k = gps_control_gps_stop(d, "STOPPING")
        BY <3>1, FsmHost DEF fsm_gps_state_started, AllExit, Events
      <3>4. /\ k.gps_state = "STOPPING" /\ k.gpsQ = Send(o.gpsQ, "STOP") /\ k.dead = o.dead
            /\ k.used = o.used /\ k.open = o.open /\ k.close = o.close
            /\ {"gps_state", "gpsQ", "dead", "used", "open", "close"} \subseteq DOMAIN k
        BY <3>1, <3>3 DEF gps_control_gps_stop, Context
      <3> HIDE DEF k
      <3>5. /\ ctx'.gps_state = k.gps_state /\ ctx'.gpsQ = k.gpsQ /\ ctx'.dead = k.dead
            /\ ctx'.used = k.used /\ ctx'.open = k.open /\ ctx'.close = k.close
        BY <3>2, <3>4 DEF RebootNotices
      <3>6. ctx.open = {}
        BY <1>0, <2>3 DEF Owed, st
      <3>7. Tracks(ctx'.gps_state, ctx'.gpsQ, on, r)
        BY <1>0, <1>2, <1>3, <2>3, <3>1, <3>4, <3>5, TracksCommand DEF q
      <3>8. ctx'.dead # "crash" /\ Waiting(ctx')
        BY <1>0, <3>1, <3>4, <3>5 DEF Waiting
      <3> QED BY <1>1, <3>1, <3>4, <3>5, <3>6, <3>7, <3>8 DEF on
    <2> QED BY <2>2, <2>3
  <1>8. CASE m \in AllUpdates \cup {"EPO_OK", "EPO_FAIL"}
    <2>1. ctx' \in {ctx, [ctx EXCEPT !.pending = @ \cup {m}]}
      BY <1>1, <1>8 DEF OnEvent, OnDownloadDone, AllUpdates
    <2>2. /\ ctx'.gps_state = ctx.gps_state /\ ctx'.gpsQ = ctx.gpsQ /\ ctx'.dead = ctx.dead
          /\ ctx'.used = ctx.used /\ ctx'.open = ctx.open /\ ctx'.close = ctx.close
      BY <1>0, <2>1 DEF Context
    <2> QED BY <1>1, <1>q, <2>2
  <1> QED BY <1>2, <1>4, <1>5, <1>6, <1>7, <1>8 DEF MainEvents

\* A step of the GPS control thread keeps the queues in step with the state machine.
LEMMA GpsThreadEffect ==
    ASSUME OffloadMode = "off", EngineInv, GpsThreadStep
    PROVE  /\ Tracks(ctx'.gps_state, ctx'.gpsQ, lib'.on, mainQ') /\ Callbacks(lib')
           /\ ctx'.gps_state = ctx.gps_state /\ ctx'.dead = ctx.dead
           /\ ctx'.used = ctx.used /\ ctx'.open = ctx.open /\ ctx'.close = ctx.close
  <1> DEFINE q == ctx.gpsQ
             st == ctx.gps_state
  <1>0. /\ ctx \in Context /\ st \in HostStates /\ lib \in Library
        /\ q \in Seq(Commands) /\ mainQ \in Seq(MainEvents) /\ lib.on \in BOOLEAN
        /\ Tracks(st, q, lib.on, mainQ) /\ Callbacks(lib)
    BY EngineTypes DEF EngineInv
  <1>1. ASSUME q # << >>
        PROVE  /\ Tracks(st, Tail(q), lib.on, mainQ)
               /\ Head(q) = "START" =>
                    ~lib.on /\ \A ok \in BOOLEAN : Tracks(st, Tail(q), ok, mainQ)
               /\ Head(q) = "STOP" =>
                    /\ Tracks(st, Tail(q), FALSE, mainQ)
                    /\ Tracks(st, Tail(q), FALSE, Send(mainQ, "STOP_DONE"))
    <2> HIDE DEF q, st
    <2>1. /\ Tracks(st, Tail(q), lib.on, mainQ)
          /\ Head(q) = "START" =>
               /\ st = "STARTING" /\ ~lib.on
               /\ \A ok \in BOOLEAN : Tracks(st, Tail(q), ok, mainQ)
          /\ Head(q) = "STOP" =>
               /\ st = "STOPPING" /\ lib.on
               /\ Tracks(st, Tail(q), FALSE, mainQ)
               /\ Tracks(st, Tail(q), FALSE, Send(mainQ, "STOP_DONE"))
      BY <1>0, <1>1, TracksTake, Zenon
    <2> QED BY <2>1
  <1> DEFINE Same(g) ==
        /\ g.gps_state = st /\ g.dead = ctx.dead
        /\ g.used = ctx.used /\ g.open = ctx.open /\ g.close = ctx.close
  <1>2. Same(Taken) /\ Taken.gpsQ = Tail(q)
    BY <1>0 DEF Taken, Context
  <1>3. CASE GpsStart
    <2>1. q # << >> /\ Head(q) = "START" /\ ctx' = Taken /\ mainQ' = mainQ
      BY <1>3 DEF GpsStart, Take
    <2>2. PICK ok \in BOOLEAN :
             lib' = [lib EXCEPT !.on = ok, !.starting = ok, !.offload = OffloadActive(ctx)]
      BY <1>3 DEF GpsStart, Outcomes
    <2>3. lib'.on = ok /\ lib'.starting = ok /\ lib'.cb = lib.cb
      BY <1>0, <2>2 DEF Library
    <2>4. lib.cb # "post"
      BY <1>0, <1>1, <2>1 DEF Callbacks
    <2>5. Callbacks(lib')
      BY <2>3, <2>4 DEF Callbacks
    <2>6. Tracks(st, Tail(q), lib'.on, mainQ')
      BY <1>1, <2>1, <2>3
    <2> QED BY <1>2, <2>1, <2>5, <2>6
  <1>4. CASE GpsStop
    <2>1. /\ q # << >> /\ Head(q) = "STOP" /\ lib.cb = "idle"
          /\ ctx' = [Taken EXCEPT !.timers = @ \ {"nmea"}]
          /\ lib' = [lib EXCEPT !.on = FALSE, !.starting = FALSE]
          /\ mainQ' \in {Send(mainQ, "STOP_DONE"), mainQ}
      BY <1>4 DEF GpsStop, Take
    <2>2. lib'.on = FALSE /\ Callbacks(lib')
      BY <1>0, <2>1 DEF Library, Callbacks
    <2>3. Same(ctx') /\ ctx'.gpsQ = Tail(q)
      BY <1>0, <2>1 DEF Taken, Context
    <2>4. Tracks(st, Tail(q), lib'.on, mainQ')
      BY <1>1, <2>1, <2>2
    <2> QED BY <2>2, <2>3, <2>4
  <1>5. CASE GpsNmea
    <2>1. /\ q # << >> /\ lib' = lib /\ mainQ' = mainQ
          /\ ctx' \in {Taken, [Taken EXCEPT !.timers = @ \cup {"nmea"}]}
      BY <1>5 DEF GpsNmea, Take
    <2>2. Same(ctx') /\ ctx'.gpsQ = Tail(q)
      BY <1>0, <2>1 DEF Taken, Context
    <2> QED BY <1>0, <1>1, <2>1, <2>2
  <1>6. CASE GpsResetParam
    <2>1. /\ q # << >> /\ ctx' = Taken /\ mainQ' = mainQ
          /\ lib' = [lib EXCEPT !.starting = @ \/ lib.on]
      BY <1>6 DEF GpsResetParam, Take
    <2>2. lib'.on = lib.on /\ Callbacks(lib')
      BY <1>0, <2>1 DEF Library, Callbacks
    <2> QED BY <1>1, <1>2, <2>1, <2>2
  <1>7. CASE GpsResetWait \/ GpsResetWoken
    BY <1>0, <1>7 DEF GpsResetWait, GpsResetWoken
  <1>8. CASE GpsResetDone
    <2>1. ctx' = ctx /\ lib' = lib /\ mainQ' = Send(mainQ, "RESET_DONE")
      BY <1>8 DEF GpsResetDone, Post
    <2>2. "RESET_DONE" \in MainEvents \ Dones
      BY DEF MainEvents, Dones
    <2>3. Tracks(st, q, lib.on, Send(mainQ, "RESET_DONE"))
      BY <1>0, <2>2, TracksSend
    <2> QED BY <1>0, <2>1, <2>3
  <1>9. CASE EpoAtStart
    BY <1>0, <1>9 DEF EpoAtStart, EpoCheck, EpoInject, EpoUnlink
  <1> QED BY <1>3, <1>4, <1>5, <1>6, <1>7, <1>8, <1>9 DEF GpsThreadStep

\* The same for the library's threads.
LEMMA LibEffect ==
    ASSUME OffloadMode = "off", EngineInv, LibStep
    PROVE  /\ Tracks(ctx'.gps_state, ctx'.gpsQ, lib'.on, mainQ') /\ Callbacks(lib')
           /\ ctx'.gps_state = ctx.gps_state /\ ctx'.dead = ctx.dead
           /\ ctx'.used = ctx.used /\ ctx'.open = ctx.open /\ ctx'.close = ctx.close
  <1> DEFINE q == ctx.gpsQ
             st == ctx.gps_state
  <1>0. /\ ctx \in Context /\ st \in HostStates /\ lib \in Library
        /\ q \in Seq(Commands) /\ mainQ \in Seq(MainEvents) /\ lib.on \in BOOLEAN
        /\ Tracks(st, q, lib.on, mainQ) /\ Callbacks(lib)
    BY EngineTypes DEF EngineInv
  <1>1. CASE LibStartReq \/ LibRestartReq
    <2>1. /\ ctx' = ctx /\ mainQ' = mainQ /\ lib.on
          /\ lib' \in {[lib EXCEPT !.cb = "post", !.starting = FALSE],
                       [lib EXCEPT !.cb = "post", !.restarts = @ + 1]}
      BY <1>1 DEF LibStartReq, LibRestartReq, StartReq
    <2>2. lib'.on = lib.on
      BY <1>0, <2>1 DEF Library
    <2> QED BY <1>0, <2>1, <2>2 DEF Callbacks
  <1>2. CASE LibStartDone
    <2>1. /\ ctx' = ctx /\ mainQ' = Send(mainQ, "START_DONE") /\ lib.cb = "post"
          /\ lib' = [lib EXCEPT !.cb = "idle"]
      BY <1>2 DEF LibStartDone, Post
    <2>2. lib'.on = lib.on /\ Callbacks(lib') /\ lib.on = TRUE
      BY <1>0, <2>1 DEF Library, Callbacks
    <2>3. Tracks(st, q, lib.on, Send(mainQ, "START_DONE"))
      BY <1>0, <2>2, TracksStarted
    <2> QED BY <2>1, <2>2, <2>3
  <1>3. CASE LibHeartBeat
    <2>1. ctx' = ctx /\ mainQ' = mainQ /\ lib' = [lib EXCEPT !.restarts = @ + 1]
      BY <1>0, <1>3, HostMode DEF LibHeartBeat
    <2>2. lib'.on = lib.on /\ Callbacks(lib')
      BY <1>0, <2>1 DEF Library, Callbacks
    <2> QED BY <1>0, <2>1, <2>2
  <1>4. CASE LibRecovery
    <2>1. /\ ctx' = ctx /\ mainQ' = Send(mainQ, "NMEA_TIMEOUT")
          /\ lib' = [lib EXCEPT !.notifies = @ + 1]
      BY <1>4 DEF LibRecovery, Post
    <2>2. lib'.on = lib.on /\ Callbacks(lib')
      BY <1>0, <2>1 DEF Library, Callbacks
    <2>3. "NMEA_TIMEOUT" \in MainEvents \ Dones
      BY DEF MainEvents, Dones
    <2>4. Tracks(st, q, lib.on, Send(mainQ, "NMEA_TIMEOUT"))
      BY <1>0, <2>3, TracksSend
    <2> QED BY <2>1, <2>2, <2>4
  <1>5. CASE LibNotify
    <2>1. /\ ctx' = [ctx EXCEPT !.gpsQ = Send(@, "NMEA")] /\ mainQ' = mainQ
          /\ lib' = [lib EXCEPT !.notifies = @ + 1]
      BY <1>5 DEF LibNotify
    <2>2. lib'.on = lib.on /\ Callbacks(lib')
      BY <1>0, <2>1 DEF Library, Callbacks
    <2>3. "NMEA" \in Commands \ {"START", "STOP"}
      BY DEF Commands
    <2>4. Tracks(st, Send(q, "NMEA"), lib.on, mainQ)
      BY <1>0, <2>3, TracksSend
    <2>5. /\ ctx'.gpsQ = Send(q, "NMEA") /\ ctx'.gps_state = st /\ ctx'.dead = ctx.dead
          /\ ctx'.used = ctx.used /\ ctx'.open = ctx.open /\ ctx'.close = ctx.close
      BY <1>0, <2>1 DEF Context
    <2> QED BY <2>1, <2>2, <2>4, <2>5
  <1> QED BY <1>1, <1>2, <1>3, <1>4, <1>5 DEF LibStep

\* The timeouts, the downloaders and the daemon's death.
OtherStep ==
    \/ GpsThreadTimeout /\ UNCHANGED <<aux, epo>>
    \/ \E t \in Watchdogs : Watchdog(t)
    \/ NmeaTimeout \/ EpoWrite \/ EpoDone
    \/ \E u \in Updates : DownloadDone(u)

\* They command nothing and report no completion.
LEMMA OtherEffect ==
    ASSUME OffloadMode = "off", EngineInv, OtherStep
    PROVE  /\ Tracks(ctx'.gps_state, ctx'.gpsQ, lib'.on, mainQ') /\ lib' = lib
           /\ ctx'.gps_state = ctx.gps_state /\ ctx'.dead \in {ctx.dead, "exit"}
           /\ ctx'.used = ctx.used /\ ctx'.open = ctx.open /\ ctx'.close = ctx.close
  <1> DEFINE q == ctx.gpsQ
             st == ctx.gps_state
  <1>0. /\ ctx \in Context /\ st \in HostStates
        /\ q \in Seq(Commands) /\ mainQ \in Seq(MainEvents)
        /\ Tracks(st, q, lib.on, mainQ)
    BY EngineTypes DEF EngineInv
  <1>1. \A m \in MainEvents \ Dones : Tracks(st, q, lib.on, Send(mainQ, m))
    BY <1>0, TracksSend
  <1>2. ctx' \in {ctx, [ctx EXCEPT !.dead = "exit"], [ctx EXCEPT !.timers = @ \ {"nmea"}]}
    BY DEF OtherStep, GpsThreadTimeout, Watchdog, NmeaTimeout, EpoWrite, EpoDone, DownloadDone
  <1>3. /\ ctx'.gps_state = st /\ ctx'.gpsQ = q /\ ctx'.dead \in {ctx.dead, "exit"}
        /\ ctx'.used = ctx.used /\ ctx'.open = ctx.open /\ ctx'.close = ctx.close
    BY <1>0, <1>2 DEF Context
  <1>4. lib' = lib
    BY DEF OtherStep, GpsThreadTimeout, Watchdog, NmeaTimeout, EpoWrite, EpoDone, DownloadDone
  <1>5. mainQ' = mainQ \/ \E m \in MainEvents \ Dones : mainQ' = Send(mainQ, m)
    <2>1. {"NMEA_TIMEOUT", "EPO_OK", "EPO_FAIL"} \cup Updates \subseteq MainEvents \ Dones
      BY FsmAssumption DEF MainEvents, Dones, AllUpdates
    <2> QED BY <2>1 DEF OtherStep, GpsThreadTimeout, Watchdog, NmeaTimeout, EpoWrite, EpoDone,
                        DownloadDone, Post
  <1> QED BY <1>0, <1>1, <1>3, <1>4, <1>5

\* In the boot state every queue is empty and the engine is off.
LEMMA BootTracks ==
    /\ Tracks(BootContext.gps_state, BootContext.gpsQ, FALSE, << >>)
    /\ BootContext.dead # "crash" /\ Waiting(BootContext)
    /\ BootContext.used = {} /\ BootContext.open = {} /\ BootContext.close = {}
  BY DEF BootContext, Tracks, Absent, Waiting

\* EngineInv is inductive: one step for each part of Next.
LEMMA EngineStep ==
    ASSUME OffloadMode = "off", EngineInv, [Next]_vars
    PROVE  EngineInv'
  <1>0. HostInv'
    BY HostStep DEF EngineInv
  <1>t. /\ ctx \in Context /\ lib \in Library /\ mainQ \in Seq(MainEvents)
        /\ ctx.gpsQ \in Seq(Commands) /\ ctx.dead # "crash"
        /\ Tracks(ctx.gps_state, ctx.gpsQ, lib.on, mainQ)
        /\ Callbacks(lib) /\ Waiting(ctx) /\ HostContext(ctx) /\ aux.pc = "none"
    BY EngineTypes DEF EngineInv
  <1> SUFFICES /\ ctx'.dead # "crash"
               /\ Tracks(ctx'.gps_state, ctx'.gpsQ, lib'.on, mainQ')
               /\ Callbacks(lib') /\ Waiting(ctx')
    BY <1>0 DEF EngineInv, Tracks, Callbacks, Waiting, Absent, Once, StopLast
  <1>1. CASE Requests
    <2>1. /\ lib' = lib /\ mainQ' = mainQ
          /\ \/ Quiet(ctx, ctx')
             \/ ctx.gps_state = "IDLE" /\ Begins(ctx, ctx')
             \/ ctx.gps_state = "STARTED" /\ Ends(ctx, ctx')
          /\ Waiting(ctx')
      BY <1>1, RequestEffect
    <2>2. Tracks(ctx'.gps_state, ctx'.gpsQ, lib.on, mainQ)
      BY <1>t, <2>1, EffectTracks
    <2> QED BY <1>t, <2>1, <2>2 DEF Quiet, Begins, Ends
  <1>2. CASE main_event_hdlr
    BY <1>t, <1>2, EventEffect
  <1>3. CASE GpsThreadStep
    BY <1>t, <1>3, GpsThreadEffect DEF Waiting
  <1>4. CASE LibStep
    BY <1>t, <1>4, LibEffect DEF Waiting
  <1>5. CASE OtherStep
    BY <1>t, <1>5, OtherEffect DEF Waiting
  <1>6. ~SwitchStep /\ ~LibLinkClose
    BY <1>t DEF SwitchStep, SwitchTimeout, SwitchCheck, SwitchClear, AuxRead, AuxRun,
                LibLinkClose, HostContext, ApOnly
  <1>7. CASE Restart
    <2>1. ctx' = BootContext /\ mainQ' = << >> /\ lib'.on = FALSE
          /\ lib'.starting = FALSE /\ lib'.cb = "idle"
      BY <1>t, <1>7 DEF Restart, Library
    <2> QED BY <2>1, BootTracks DEF Callbacks
  <1>8. CASE UNCHANGED vars
    BY <1>t, <1>8 DEF vars
  <1> QED BY <1>1, <1>2, <1>3, <1>4, <1>5, <1>6, <1>7, <1>8 DEF Next, OtherStep

\* Without offload EngineInv holds in every reachable state.
THEOREM EngineInvariant ==
    ASSUME OffloadMode = "off"
    PROVE  Spec => []EngineInv
  <1>1. Init => HostInv
    <2>1. Init => TypeOK
      BY BootTyped, ControlAssumption
         DEF Init, ControlInit, TypeOK, GpsThread, Library, Aux, GpsStates, Epo
    <2> QED BY <2>1, BootHost DEF Init, HostInv
  <1>2. Init => EngineInv
    <2> SUFFICES ASSUME Init PROVE EngineInv
      OBVIOUS
    <2>1. /\ ctx = BootContext /\ mainQ = << >> /\ lib.on = FALSE
          /\ lib.cb = "idle" /\ lib.starting = FALSE
      BY DEF Init, ControlInit
    <2>2. Tracks(ctx.gps_state, ctx.gpsQ, lib.on, mainQ) /\ ctx.dead # "crash" /\ Waiting(ctx)
      BY <2>1, BootTracks
    <2> QED BY <1>1, <2>1, <2>2 DEF EngineInv, Callbacks
  <1>3. EngineInv /\ [Next]_vars => EngineInv'
    BY EngineStep
  <1> QED BY <1>2, <1>3, PTL DEF Spec

\* Without offload CRASH_TO_DEBUG is never reached: no state handler meets an event it
\* calls unexpected, in whatever order requests, commands and completions interleave.
THEOREM NeverCrashes ==
    ASSUME OffloadMode = "off"
    PROVE  Spec => []NoCrash
  <1>1. EngineInv => NoCrash
    BY DEF EngineInv, NoCrash
  <1> QED BY <1>1, EngineInvariant, PTL

\* Without offload the library runs while gps_state says started, and does not in IDLE.
THEOREM EngineInStep ==
    ASSUME OffloadMode = "off"
    PROVE  Spec => []EngineFollows
  <1>1. EngineInv => EngineFollows
    BY EngineTypes DEF EngineInv, EngineFollows, Tracks, Ons, HostStates
  <1> QED BY <1>1, EngineInvariant, PTL

----------------------------------------------------------------------------
\* The refinement of GpsService

Sharers == Clients \cap Acked

\* The session of client c in the context g.
SessionIn(g, c) ==
    CASE c \in g.open             -> "opening"
      [] c \in g.used \ g.open    -> "open"
      [] c \in g.close \ g.used   -> "closing"
      [] OTHER                    -> "closed"

\* What an acknowledgement may do to a session.
AckMove(from, to) ==
    to = from \/ (from = "opening" /\ to = "open") \/ (from = "closing" /\ to = "closed")

\* A session is open only while the engine runs.
LEMMA OpenRuns ==
    ASSUME NEW g, NEW on, g.gps_state \in HostStates,
           Owed(g), Waiting(g), g.gps_state = "STARTED" => on
    PROVE  \A c \in Sharers : SessionIn(g, c) = "open" => on
  <1> SUFFICES ASSUME NEW c \in Sharers, SessionIn(g, c) = "open"
               PROVE  on
    OBVIOUS
  <1>1. c \in g.used /\ c \notin g.open /\ c \in Acked
    BY DEF SessionIn, Sharers
  <1>2. g.gps_state = "STARTED"
    BY <1>1 DEF HostStates, Owed, Waiting
  <1> QED BY <1>2

\* Sessions whose entries only acknowledgements clear.
LEMMA AckedSession ==
    ASSUME NEW g, NEW h, NEW d,
           d \in h.used <=> d \in g.used, d \in h.open => d \in g.open,
           d \in h.close => d \in g.close, d \in g.open => d \in g.used
    PROVE  AckMove(SessionIn(g, d), SessionIn(h, d))
  BY DEF AckMove, SessionIn

\* The others' sessions when a request touches only one.
LEMMA OthersMove ==
    ASSUME NEW g, NEW h, NEW c, NEW d, d # c, Owed(g),
           h.used \ {c} = g.used \ {c}, h.open \ {c} = g.open \ {c},
           h.close \ {c} \in {g.close \ {c}, {}}
    PROVE  AckMove(SessionIn(g, d), SessionIn(h, d))
  <1>1. /\ d \in h.used <=> d \in g.used
        /\ d \in h.open => d \in g.open
        /\ d \in h.close => d \in g.close
        /\ d \in g.open => d \in g.used
    BY DEF Owed
  <1> QED BY <1>1, AckedSession

\* The sessions when a completion acknowledges.
LEMMA AcksMove ==
    ASSUME NEW g, NEW h, NEW d, Owed(g),
           h.used = g.used, h.open \in {g.open, {}}, h.close \in {g.close, {}}
    PROVE  AckMove(SessionIn(g, d), SessionIn(h, d))
  <1>1. /\ d \in h.used <=> d \in g.used
        /\ d \in h.open => d \in g.open
        /\ d \in h.close => d \in g.close
        /\ d \in g.open => d \in g.used
    BY DEF Owed
  <1> QED BY <1>1, AckedSession

\* A step that keeps the engine and moves at most one session freely is a step of
\* GpsService: Serve of that client, or of any client that was acknowledged.
LEMMA ServeStep ==
    ASSUME lib'.on = lib.on, NEW c,
           \A d \in Sharers : SessionIn(ctx', d) = "open" => lib.on,
           \A d \in Sharers \ {c} : AckMove(SessionIn(ctx, d), SessionIn(ctx', d))
    PROVE  Service!Next \/ UNCHANGED <<lib.on, [d \in Clients \cap Acked |-> Session(d)]>>
  <1> DEFINE s == [d \in Clients \cap Acked |-> Session(d)]
  <1>1. \A d \in Sharers : s[d] = SessionIn(ctx, d) /\ s'[d] = SessionIn(ctx', d)
    BY DEF Session, SessionIn, Sharers
  <1>2. s' \in [Sharers -> Service!States]
    BY DEF Session, Sharers, Service!States
  <1>3. s \in [Sharers -> Service!States]
    BY DEF Session, Sharers, Service!States
  <1>4. \A d \in Sharers \ {c} : Service!Acked(s[d], s'[d])
    BY <1>1 DEF Service!Acked, AckMove
  <1>5. ASSUME NEW e \in Sharers, \A d \in Sharers \ {e} : Service!Acked(s[d], s'[d])
        PROVE  Service!Serve(e)
    BY <1>1, <1>2, <1>5 DEF Service!Serve, Sharers
  <1>6. CASE c \in Sharers
    BY <1>4, <1>5, <1>6 DEF Service!Next, Sharers
  <1>7. CASE c \notin Sharers /\ \E e \in Sharers : s'[e] # s[e]
    BY <1>4, <1>5, <1>7 DEF Service!Next, Sharers
  <1>8. CASE \A e \in Sharers : s'[e] = s[e]
    <2>1. s' = s
      BY <1>2, <1>3, <1>8
    <2> QED BY <2>1
  <1> QED BY <1>6, <1>7, <1>8

\* A step that leaves every session alone is TurnOn, TurnOff or nothing.
LEMMA TurnStep ==
    ASSUME lib.on \in BOOLEAN, lib'.on \in BOOLEAN,
           ctx'.used = ctx.used, ctx'.open = ctx.open, ctx'.close = ctx.close,
           \A d \in Sharers : SessionIn(ctx', d) = "open" => lib'.on
    PROVE  Service!Next \/ UNCHANGED <<lib.on, [d \in Clients \cap Acked |-> Session(d)]>>
  <1> DEFINE s == [d \in Clients \cap Acked |-> Session(d)]
  <1>1. s' = s
    BY DEF Session
  <1>2. \A d \in Sharers : s[d] = SessionIn(ctx', d)
    BY DEF Session, SessionIn, Sharers
  <1>3. CASE lib'.on = TRUE
    BY <1>1, <1>3 DEF Service!Next, Service!TurnOn
  <1>4. CASE lib'.on = FALSE
    BY <1>1, <1>2, <1>4 DEF Service!Next, Service!TurnOff, Sharers
  <1> QED BY <1>3, <1>4

\* Giving every client up, with the engine as it is or with the daemon's death.
LEMMA GiveUpStep ==
    ASSUME ctx'.used = {}, ctx'.open = {}, Owed(ctx),
           \/ ctx'.close = ctx.close /\ lib'.on = lib.on
           \/ ctx'.close = {} /\ lib'.on = FALSE
    PROVE  Service!GiveUp
  <1>1. CASE ctx'.close = ctx.close /\ lib'.on = lib.on
    <2>1. ASSUME NEW d \in Clients \cap Acked
          PROVE  Session(d)' = IF Session(d) = "closing" THEN "closing" ELSE "closed"
      <3>1. d \in ctx.close => d \notin ctx.used /\ d \notin ctx.open
        BY DEF Owed
      <3>2. Session(d)' = IF d \in ctx.close THEN "closing" ELSE "closed"
        BY <1>1 DEF Session
      <3>3. Session(d) = "closing" <=> d \in ctx.close
        BY <3>1 DEF Session
      <3> QED BY <3>2, <3>3
    <2> QED BY <1>1, <2>1 DEF Service!GiveUp
  <1>2. CASE ctx'.close = {} /\ lib'.on = FALSE
    <2>1. ASSUME NEW d \in Clients \cap Acked PROVE Session(d)' = "closed"
      BY <1>2 DEF Session
    <2> QED BY <1>2, <2>1 DEF Service!GiveUp
  <1> QED BY <1>1, <1>2

\* Without offload mnld implements GpsService: the engine is not turned off under an
\* open session, no session is confirmed without a running engine, and none changes
\* behind the client's back.
THEOREM ServiceRefined ==
    ASSUME OffloadMode = "off"
    PROVE  Spec => HonoursService
  <1>1. Init => Service!Init
    BY DEF Init, ControlInit, BootContext, Service!Init, Session
  <1>2. EngineInv /\ EngineInv' /\ [Next]_vars
        => [Service!Next]_<<lib.on, [c \in Clients \cap Acked |-> Session(c)]>>
    <2> SUFFICES ASSUME EngineInv, EngineInv', [Next]_vars
                 PROVE  \/ Service!Next
                        \/ UNCHANGED <<lib.on, [c \in Clients \cap Acked |-> Session(c)]>>
      OBVIOUS
    <2>t. /\ ctx \in Context /\ lib.on \in BOOLEAN /\ Owed(ctx)
          /\ HostContext(ctx) /\ aux.pc = "none"
      BY EngineTypes DEF HostContext
    <2>p. /\ ctx'.gps_state \in HostStates /\ lib' \in Library /\ Owed(ctx') /\ Waiting(ctx')
          /\ Tracks(ctx'.gps_state, ctx'.gpsQ, lib'.on, mainQ')
      BY DEF EngineInv, HostInv, TypeOK, HostContext, ApOnly, Owed, Waiting, HostStates,
             Tracks, Absent, Once, StopLast, Library
    <2>b. lib'.on \in BOOLEAN
      BY <2>p DEF Library
    <2>o. \A c \in Sharers : SessionIn(ctx', c) = "open" => lib'.on
      <3>1. ctx'.gps_state = "STARTED" => lib'.on
        BY <2>p DEF Tracks
      <3> QED BY <2>p, <3>1, OpenRuns
    <2>1. CASE Requests
      <3>1. PICK c \in Clients :
               /\ lib' = lib
               /\ ctx'.used \ {c} = ctx.used \ {c} /\ ctx'.open \ {c} = ctx.open \ {c}
               /\ ctx'.close \ {c} \in {ctx.close \ {c}, {}}
        BY <2>1, RequestEffect
      <3>2. \A d \in Sharers \ {c} : AckMove(SessionIn(ctx, d), SessionIn(ctx', d))
        BY <2>t, <2>p, <3>1, OthersMove
      <3> QED BY <2>o, <3>1, <3>2, ServeStep
    <2>2. CASE main_event_hdlr
      <3>1. /\ lib' = lib
            /\ \/ /\ ctx'.used = ctx.used
                  /\ ctx'.open \in {ctx.open, {}} /\ ctx'.close \in {ctx.close, {}}
               \/ ctx'.used = {} /\ ctx'.open = {} /\ ctx'.close = ctx.close
        BY <2>2, EventEffect
      <3>2. CASE /\ ctx'.used = ctx.used
                 /\ ctx'.open \in {ctx.open, {}} /\ ctx'.close \in {ctx.close, {}}
        <4>1. \A d : AckMove(SessionIn(ctx, d), SessionIn(ctx', d))
          BY <2>t, <2>p, <3>2, AcksMove
        <4> QED BY <2>o, <3>1, <4>1, ServeStep
      <3>3. CASE ctx'.used = {} /\ ctx'.open = {} /\ ctx'.close = ctx.close
        BY <2>t, <3>1, <3>3, GiveUpStep DEF Service!Next
      <3> QED BY <3>1, <3>2, <3>3
    <2>3. CASE GpsThreadStep \/ LibStep \/ OtherStep \/ UNCHANGED vars
      <3>1. ctx'.used = ctx.used /\ ctx'.open = ctx.open /\ ctx'.close = ctx.close
        BY <2>3, GpsThreadEffect, LibEffect, OtherEffect DEF vars
      <3> QED BY <2>t, <2>b, <2>o, <3>1, TurnStep
    <2>4. ~SwitchStep /\ ~LibLinkClose
      BY <2>t DEF SwitchStep, SwitchTimeout, SwitchCheck, SwitchClear, AuxRead, AuxRun,
                  LibLinkClose, HostContext, ApOnly
    <2>5. CASE Restart
      <3>1. lib \in Library
        BY EngineTypes
      <3>2. /\ ctx'.used = {} /\ ctx'.open = {} /\ ctx'.close = {} /\ lib'.on = FALSE
        BY <2>5, <3>1, BootTracks DEF Restart, Library
      <3> QED BY <2>t, <3>2, GiveUpStep DEF Service!Next
    <2> QED BY <2>1, <2>2, <2>3, <2>4, <2>5 DEF Next, OtherStep
  <1> QED BY <1>1, <1>2, EngineInvariant, PTL DEF Spec, HonoursService, Service!Spec

=============================================================================
