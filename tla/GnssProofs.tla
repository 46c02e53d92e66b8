---------------------------- MODULE GnssProofs ----------------------------
(***************************************************************************)
(* TLAPS proofs about GnssHal, for every number of calls, deaths and       *)
(* measurement reports: the types; that no measurement message finds       *)
(* meas_cbs unset while the service lives; that the framework's wakelock   *)
(* follows the engine; that the HAL and mnld agree once everything is      *)
(* quiet; and that the framework keeps nothing when the engine is off.     *)
(*                                                                         *)
(* The properties speak of quiet states, the invariants of what the work   *)
(* still to be done leads to.  After(q, u, on, off) is a setting u once    *)
(* everything in the queue q has been done, where the entries of on set it *)
(* and those of off reset it: a step that takes an entry out of a queue    *)
(* and does what it says leaves After alone, and so does one that moves    *)
(* an entry from one queue to the end of the next.                         *)
(***************************************************************************)
EXTENDS GnssHal, SequenceTheorems, TLAPS

QuietOp == Op \ {<<"forward", "measOn">>}
QuietCmd == Cmd \ {"measOn"}
QuietNote == Note \ {"meas"}

\* Nothing under way, in either thread, on the link or in mnld, can lead to a measurement
Silent ==
    /\ todo \in [Thread -> Seq(QuietOp)]
    /\ h2m \in Seq(QuietCmd)
    /\ m2h \in Seq(QuietNote)
    /\ ~mnld.meas

\* Until measinf_init has stored the callbacks nothing asks for them; meas_cbs is never unset
\* again, except with the service
MeasKnown ==
    past.halDeaths = 0 => /\ ~past.null
                          /\ ~hal.meas => Silent

GnssInv == TypeOK /\ MeasKnown

-----------------------------------------------------------------------------
\* Sequences over a set stay sequences over it, whatever a step does to them
LEMMA Queue ==
    ASSUME NEW S, NEW q \in Seq(S)
    PROVE  /\ \A e \in S : Append(q, e) \in Seq(S)
           /\ \A r \in Seq(S) : q \o r \in Seq(S)
           /\ q # <<>> => Head(q) \in S /\ Tail(q) \in Seq(S)
  <1>1. \A e \in S : Append(q, e) \in Seq(S)
    BY AppendProperties
  <1>2. \A r \in Seq(S) : q \o r \in Seq(S)
    BY ConcatProperties
  <1>3. q # <<>> => Head(q) \in S /\ Tail(q) \in Seq(S)
    BY HeadTailProperties
  <1> QED
    BY <1>1, <1>2, <1>3

\* The sequences the code builds: none, one or two entries
LEMMA Short ==
    ASSUME NEW S
    PROVE  /\ <<>> \in Seq(S)
           /\ \A e \in S : <<e>> \in Seq(S)
           /\ \A e, f \in S : <<e, f>> \in Seq(S)
  OBVIOUS

\* What a call makes the binder thread do
LEMMA GpsinfType ==
    ASSUME NEW c \in {"init", "start", "stop", "cleanup"}
    PROVE  Gpsinf(c) \in Seq(QuietOp)
  <1>1. <<"intent", c>> \in QuietOp /\ <<"cmd", c>> \in QuietOp
    BY DEF QuietOp, Op
  <1> QED
    BY <1>1, Short DEF Gpsinf

\* A quiet sequence is a sequence
LEMMA QuietIsTyped ==
    /\ \A q \in Seq(QuietOp) : q \in Seq(Op)
    /\ \A q \in Seq(QuietCmd) : q \in Seq(Cmd)
    /\ \A q \in Seq(QuietNote) : q \in Seq(Note)
  BY DEF QuietOp, QuietCmd, QuietNote

\* mnld's handlers of the HAL client: what they send is no measurement, and only
\* hal_set_gps_measurement changes the setting
LEMMA AckTypes ==
    ASSUME NEW d \in Daemon
    PROVE  /\ StartedHdlr(d)[1] \in Daemon /\ StartedHdlr(d)[2] \in Seq(QuietNote)
           /\ StartedHdlr(d)[1].meas = d.meas
           /\ StoppedHdlr(d)[1] \in Daemon /\ StoppedHdlr(d)[2] \in Seq(QuietNote)
           /\ StoppedHdlr(d)[1].meas = d.meas
  <1>1. /\ <<"begin">> \in Seq(QuietNote) /\ <<"end">> \in Seq(QuietNote)
        /\ <<>> \in Seq(QuietNote)
    BY Short DEF QuietNote, Note
  <1> QED
    BY <1>1 DEF StartedHdlr, StoppedHdlr, Daemon

\* mnld_fsm on START and STOP keeps the types and the setting
LEMMA FsmTypes ==
    ASSUME NEW d \in Daemon
    PROVE  /\ FsmStart(d)[1] \in Daemon /\ FsmStart(d)[2] \in Seq(QuietNote)
           /\ FsmStart(d)[1].meas = d.meas
           /\ FsmStop(d)[1] \in Daemon /\ FsmStop(d)[2] \in Seq(QuietNote)
           /\ FsmStop(d)[1].meas = d.meas
  <1>1. <<"request">> \in Seq(QuietNote) /\ <<>> \in Seq(QuietNote)
    BY Short DEF QuietNote, Note
  <1>2. /\ FsmStart(d)[1] \in Daemon /\ FsmStart(d)[2] \in Seq(QuietNote)
        /\ FsmStart(d)[1].meas = d.meas
    <2>1. CASE d.engine = "started"
      BY <2>1, AckTypes DEF FsmStart
    <2>2. CASE d.engine = "idle"
      BY <2>2, <1>1 DEF FsmStart, Daemon
    <2>3. CASE d.engine \notin {"idle", "started"}
      BY <2>3, <1>1 DEF FsmStart
    <2> QED
      BY <2>1, <2>2, <2>3
  <1>3. /\ FsmStop(d)[1] \in Daemon /\ FsmStop(d)[2] \in Seq(QuietNote)
        /\ FsmStop(d)[1].meas = d.meas
    <2>1. CASE d.engine = "idle" \/ (d.engine = "started" /\ d.used)
      BY <2>1, AckTypes DEF FsmStop, Daemon
    <2>2. CASE d.engine = "started" /\ ~d.used
      BY <2>2, <1>1 DEF FsmStop, Daemon
    <2>3. CASE d.engine \notin {"idle", "started"}
      BY <2>3, <1>1 DEF FsmStop
    <2> QED
      BY <2>1, <2>2, <2>3 DEF Daemon
  <1> QED
    BY <1>2, <1>3

\* hal_set_gps_measurement alone enables measurements, on request
LEMMA HandleType ==
    ASSUME mnld \in Daemon, NEW c \in Cmd
    PROVE  /\ Handle(c)[1] \in Daemon /\ Handle(c)[2] \in Seq(QuietNote)
           /\ c # "measOn" /\ ~mnld.meas => ~Handle(c)[1].meas
  <1>1. <<>> \in Seq(QuietNote)
    BY Short
  <1>2. CASE c = "reboot"
    <2> DEFINE d == [mnld EXCEPT !.used = FALSE, !.openAck = FALSE, !.closeAck = FALSE]
    <2>1. d \in Daemon /\ d.meas = mnld.meas
      BY DEF Daemon
    <2>2. Handle(c) = FsmStop(d)
      BY <1>2 DEF Handle
    <2> HIDE DEF d
    <2> QED
      BY <2>1, <2>2, FsmTypes
  <1>3. CASE c = "start"
    <2> DEFINE d == [mnld EXCEPT !.used = TRUE, !.openAck = TRUE, !.closeAck = FALSE]
    <2>1. d \in Daemon /\ d.meas = mnld.meas
      BY DEF Daemon
    <2>2. Handle(c) = FsmStart(d)
      BY <1>3 DEF Handle
    <2> HIDE DEF d
    <2> QED
      BY <2>1, <2>2, FsmTypes
  <1>4. CASE c = "stop"
    <2> DEFINE d == [mnld EXCEPT !.used = FALSE, !.openAck = FALSE, !.closeAck = TRUE]
    <2>1. d \in Daemon /\ d.meas = mnld.meas
      BY DEF Daemon
    <2>2. Handle(c) = FsmStop(d)
      BY <1>4 DEF Handle
    <2> HIDE DEF d
    <2> QED
      BY <2>1, <2>2, FsmTypes
  <1>5. CASE c \in {"init", "cleanup"}
    BY <1>5, <1>1 DEF Handle, Daemon
  <1>6. CASE c \in {"measOn", "measOff"}
    BY <1>6, <1>1 DEF Handle, Daemon
  <1> QED
    BY <1>2, <1>3, <1>4, <1>5, <1>6 DEF Cmd

\* The completions keep the types and the setting
LEMMA DoneTypes ==
    ASSUME NEW d \in Daemon
    PROVE  /\ StartDone(d)[1] \in Daemon /\ StartDone(d)[2] \in Seq(QuietNote)
           /\ StartDone(d)[1].meas = d.meas
           /\ StopDone(d)[1] \in Daemon /\ StopDone(d)[2] \in Seq(QuietNote)
           /\ StopDone(d)[1].meas = d.meas
  <1>1. \A q \in Seq(QuietNote) : Append(q, "release") \in Seq(QuietNote)
    BY Queue DEF QuietNote, Note
  <1>2. \A r \in Daemon, e \in {"idle", "starting", "started", "stopping"} :
           /\ [r EXCEPT !.engine = e] \in Daemon
           /\ [r EXCEPT !.engine = e].meas = r.meas
    BY DEF Daemon
  <1>3. /\ StartDone(d)[1] \in Daemon /\ StartDone(d)[2] \in Seq(QuietNote)
        /\ StartDone(d)[1].meas = d.meas
    <2> DEFINE r == StartedHdlr(d)
    <2>1. r[1] \in Daemon /\ r[2] \in Seq(QuietNote) /\ r[1].meas = d.meas
      BY AckTypes
    <2>2. StartDone(d) = <<[r[1] EXCEPT !.engine = IF d.used THEN "started" ELSE "stopping"], r[2]>>
      BY DEF StartDone
    <2> HIDE DEF r
    <2> DEFINE e == IF d.used THEN "started" ELSE "stopping"
    <2>3. e \in {"idle", "starting", "started", "stopping"}
      OBVIOUS
    <2> DEFINE n == [r[1] EXCEPT !.engine = e]
    <2>4. StartDone(d) = <<n, r[2]>>
      BY <2>2
    <2> HIDE DEF e
    <2>5. n \in Daemon /\ n.meas = r[1].meas
      BY <1>2, <2>1, <2>3
    <2> HIDE DEF n
    <2> QED
      BY <2>1, <2>4, <2>5
  <1>4. /\ StopDone(d)[1] \in Daemon /\ StopDone(d)[2] \in Seq(QuietNote)
        /\ StopDone(d)[1].meas = d.meas
    BY <1>1, <1>2, AckTypes DEF StopDone
  <1> QED
    BY <1>3, <1>4

-----------------------------------------------------------------------------
\* The two queues, when something is sent
LEMMA PartType ==
    ASSUME NEW S, NEW ms \in Seq(S), NEW q \in Part(ms)
    PROVE  q \in Seq(S) /\ Len(ms) - Len(q) \in Nat /\ Range(ms) \subseteq S
  <1>1. Len(ms) \in Nat /\ DOMAIN ms = 1 .. Len(ms) /\ \A i \in DOMAIN ms : ms[i] \in S
    OBVIOUS
  <1>2. CASE q = <<>>
    BY <1>1, <1>2, Short DEF Range
  <1>3. CASE q = ms
    BY <1>1, <1>3 DEF Range
  <1>4. ASSUME NEW i \in DOMAIN ms, q = <<ms[i]>>
        PROVE  q \in Seq(S) /\ Len(ms) - Len(q) \in Nat /\ Range(ms) \subseteq S
    <2>1. PICK m \in S : m = ms[i]
      BY <1>1
    <2>2. q \in Seq(S) /\ Len(q) = 1
      BY <1>4, <2>1
    <2>3. Len(ms) - 1 \in Nat
      BY <1>1
    <2> QED BY <1>1, <2>2, <2>3 DEF Range
  <1> QED
    BY <1>2, <1>3, <1>4 DEF Part

\* What is sent to the HAL, and what is lost of it
LEMMA ToHalType ==
    ASSUME NEW ms, ToHal(ms), NEW S \in SUBSET Note, m2h \in Seq(S), ms \in Seq(S)
    PROVE  m2h' \in Seq(S) /\ (lost \in Losses => lost' \in Losses)
  <1>1. PICK q \in IF hal.bound THEN Part(ms) ELSE {<<>>} :
          /\ m2h' = m2h \o q
          /\ lost' = IF hal.bound
                     THEN [count |-> lost.count + Len(ms) - Len(q),
                           of |-> (lost.of \ UNION {Topic(m) : m \in Range(q)})
                                     \cup (Range(ms) \ Range(q))]
                     ELSE lost
    BY DEF ToHal
  <1>2. CASE hal.bound
    <2>1. q \in Seq(S) /\ Len(ms) - Len(q) \in Nat /\ Range(ms) \subseteq S
      BY <1>1, <1>2, PartType
    <2>2. PICK k : k = Len(ms)
      OBVIOUS
    <2>3. PICK l : l = Len(q)
      OBVIOUS
    <2>4. PICK o : o = (lost.of \ UNION {Topic(m) : m \in Range(q)}) \cup (Range(ms) \ Range(q))
      OBVIOUS
    <2>5. k \in Nat /\ l \in Nat /\ k - l \in Nat
      BY <2>1, <2>2, <2>3
    <2>6. lost' = [count |-> lost.count + k - l, of |-> o]
      BY <1>1, <1>2, <2>2, <2>3, <2>4
    <2>7. ASSUME lost \in Losses PROVE lost' \in Losses
      <3>1. lost.count \in Nat /\ lost.of \subseteq Cmd \cup Note
        BY <2>7 DEF Losses
      <3>2. o \subseteq Cmd \cup Note
        BY <2>1, <2>4, <3>1
      <3>3. lost.count + k - l \in Nat
        BY <2>5, <3>1
      <3> QED BY <2>6, <3>2, <3>3 DEF Losses
    <2> QED BY <1>1, <2>1, <2>7, Queue
  <1>3. CASE ~hal.bound
    BY <1>1, <1>3, Queue, Short
  <1> QED
    BY <1>2, <1>3

\* The same towards mnld
LEMMA ToMnldType ==
    ASSUME NEW c \in Cmd, NEW sent, NEW of \in SUBSET (Cmd \cup Note), ToMnld(c, sent, of)
    PROVE  /\ \A S \in SUBSET Cmd : h2m \in Seq(S) /\ c \in S => h2m' \in Seq(S)
           /\ lost \in Losses => lost' \in Losses
  <1>1. \A S \in SUBSET Cmd : h2m \in Seq(S) /\ c \in S => h2m' \in Seq(S)
    BY Queue DEF ToMnld
  <1>2. lost \in Losses => lost' \in Losses
    BY DEF ToMnld, Losses
  <1> QED
    BY <1>1, <1>2

\* The initial state
LEMMA GnssInit == Init => GnssInv
  <1> SUFFICES ASSUME Init PROVE GnssInv
    OBVIOUS
  <1>1. TypeOK
    BY Short DEF Init, TypeOK, HalBoot, GnssBoot, FwBoot, MnldBoot, HalContext, Service,
                 Framework, Daemon, Losses, Past, GpsState
  <1>2. MeasKnown
    BY Short DEF Init, MeasKnown, Silent, MnldBoot
  <1> QED
    BY <1>1, <1>2 DEF GnssInv

\* A call of the framework: MaxCalls only bounds how many there are
LEMMA CallTypes ==
    ASSUME GnssInv, NEW ops, Call(ops)
    PROVE  /\ past' \in Past /\ past'.halDeaths = past.halDeaths /\ past'.null = past.null
           /\ ops \in Seq(Op) => todo' \in [Thread -> Seq(Op)]
           /\ ops \in Seq(QuietOp) /\ todo \in [Thread -> Seq(QuietOp)]
                => todo' \in [Thread -> Seq(QuietOp)]
  <1>1. past' \in Past /\ past'.halDeaths = past.halDeaths /\ past'.null = past.null
    <2>1. past \in Past /\ past' = [past EXCEPT !.calls = @ + 1]
      BY DEF Call, GnssInv, TypeOK
    <2> QED BY <2>1 DEF Past
  <1>2. todo' = [todo EXCEPT !.binder = ops]
    BY DEF Call
  <1> QED
    BY <1>1, <1>2 DEF GnssInv, TypeOK, Thread

\* Calls other than the measurement interface's ask for no measurement
LEMMA CallInv ==
    ASSUME GnssInv
    PROVE  /\ SetCallback => GnssInv'
           /\ StartStop => GnssInv'
           /\ Disable => GnssInv'
  <1>1. ASSUME SetCallback PROVE GnssInv'
    <2>1. Gpsinf("init") \in Seq(QuietOp) /\ Gpsinf("init") \in Seq(Op)
      BY GpsinfType, QuietIsTyped
    <2>2. hal' \in HalContext /\ hal'.meas = hal.meas
      BY <1>1 DEF SetCallback, GnssInv, TypeOK, HalContext, GpsState
    <2>3. fw' \in Framework /\ gnss' \in Service
      BY <1>1 DEF SetCallback, GnssInv, TypeOK, Framework, Service
    <2>4. Call(Gpsinf("init")) /\ UNCHANGED <<mnld, h2m, m2h, lost>>
      BY <1>1 DEF SetCallback
    <2> QED
      BY <2>1, <2>2, <2>3, <2>4, CallTypes DEF GnssInv, TypeOK, MeasKnown, Silent
  <1>2. ASSUME StartStop PROVE GnssInv'
    <2>1. PICK c \in {"start", "stop"} : Call(Gpsinf(c))
      BY <1>2 DEF StartStop
    <2>2. Gpsinf(c) \in Seq(QuietOp) /\ Gpsinf(c) \in Seq(Op)
      BY GpsinfType, QuietIsTyped
    <2>3. UNCHANGED <<hal, gnss, fw, mnld, h2m, m2h, lost>>
      BY <1>2 DEF StartStop
    <2> QED
      BY <2>1, <2>2, <2>3, CallTypes DEF GnssInv, TypeOK, MeasKnown, Silent
  <1>3. ASSUME Disable PROVE GnssInv'
    <2> DEFINE ops == Gpsinf("stop") \o Gpsinf("cleanup")
    <2>1. ops \in Seq(QuietOp) /\ ops \in Seq(Op)
      BY GpsinfType, Queue, QuietIsTyped
    <2>2. Call(ops) /\ UNCHANGED <<hal, gnss, mnld, h2m, m2h, lost>>
      BY <1>3 DEF Disable
    <2>3. fw' \in Framework
      BY <1>3 DEF Disable, GnssInv, TypeOK, Framework
    <2> HIDE DEF ops
    <2> QED
      BY <2>1, <2>2, <2>3, CallTypes DEF GnssInv, TypeOK, MeasKnown, Silent
  <1> QED
    BY <1>1, <1>2, <1>3

\* measinf_init stores the callbacks in the step that first asks for measurements
LEMMA MeasureInv ==
    ASSUME GnssInv, NEW on \in BOOLEAN, Measure(on)
    PROVE  GnssInv'
  <1> DEFINE ops == <<<<"forward", IF on THEN "measOn" ELSE "measOff">>>>
  <1>1. ops \in Seq(Op) /\ (~on => ops \in Seq(QuietOp))
    <2>1. <<"forward", IF on THEN "measOn" ELSE "measOff">> \in Op
      BY DEF Op
    <2>2. ~on => <<"forward", IF on THEN "measOn" ELSE "measOff">> \in QuietOp
      BY DEF Op, QuietOp
    <2> QED
      BY <2>1, <2>2, Short
  <1>2. Call(ops) /\ UNCHANGED <<gnss, fw, mnld, h2m, m2h, lost>>
    BY DEF Measure
  <1>3. hal' \in HalContext /\ hal'.meas = (hal.meas \/ on)
    BY DEF Measure, GnssInv, TypeOK, HalContext
  <1> HIDE DEF ops
  <1> QED
    BY <1>1, <1>2, <1>3, CallTypes DEF GnssInv, TypeOK, MeasKnown, Silent

\* handleHidlDeath asks for no measurements
LEMMA FwDieInv == ASSUME GnssInv, FwDie PROVE GnssInv'
  <1> DEFINE ops == <<<<"null", "iface">>>> \o Gpsinf("stop")
                      \o <<<<"forward", "measOff">>>> \o Gpsinf("cleanup")
  <1>1. ops \in Seq(QuietOp) /\ ops \in Seq(Op)
    <2>1. <<"null", "iface">> \in QuietOp /\ <<"forward", "measOff">> \in QuietOp
      BY DEF QuietOp, Op
    <2>2. <<<<"null", "iface">>>> \in Seq(QuietOp) /\ <<<<"forward", "measOff">>>> \in Seq(QuietOp)
      BY <2>1, Short
    <2>3. Gpsinf("stop") \in Seq(QuietOp) /\ Gpsinf("cleanup") \in Seq(QuietOp)
      BY GpsinfType
    <2> QED
      BY <2>2, <2>3, Queue, QuietIsTyped
  <1>2. todo' = [todo EXCEPT !.binder = ops] /\ UNCHANGED <<hal, gnss, mnld, h2m, m2h, lost>>
    BY DEF FwDie
  <1>3. /\ past' \in Past /\ fw' \in Framework
        /\ past'.halDeaths = past.halDeaths /\ past'.null = past.null
    <2>1. past' = [past EXCEPT !.fwDeaths = @ + 1] /\ fw' = FwBoot
      BY DEF FwDie
    <2>2. past \in Past
      BY DEF GnssInv, TypeOK
    <2> QED
      BY <2>1, <2>2 DEF FwBoot, Framework, Past
  <1> HIDE DEF ops
  <1>4. /\ todo' \in [Thread -> Seq(Op)]
        /\ todo \in [Thread -> Seq(QuietOp)] => todo' \in [Thread -> Seq(QuietOp)]
    BY <1>1, <1>2 DEF GnssInv, TypeOK, Thread
  <1> QED
    BY <1>2, <1>3, <1>4 DEF GnssInv, TypeOK, MeasKnown, Silent

-----------------------------------------------------------------------------
\* One step of a thread: only a forwarded request reaches the measurement setting
LEMMA StepInv == ASSUME GnssInv, NEW t \in Thread, Step(t) PROVE GnssInv'
  <1> DEFINE op == Head(todo[t])
  <1>0. lost.of \in SUBSET (Cmd \cup Note) /\ lost \in Losses
    BY DEF GnssInv, TypeOK, Losses
  <1>1. /\ UNCHANGED <<fw, mnld, m2h>> /\ past' \in Past
        /\ past'.halDeaths = past.halDeaths /\ past'.null = past.null
    BY DEF Step, GnssInv, TypeOK, Past
  <1>2. /\ todo[t] # <<>> /\ todo[t] \in Seq(Op) /\ op \in Op /\ Tail(todo[t]) \in Seq(Op)
        /\ todo \in [Thread -> Seq(QuietOp)] =>
             op \in QuietOp /\ Tail(todo[t]) \in Seq(QuietOp)
    BY Queue DEF Step, GnssInv, TypeOK
  <1>3. Run(t, op)
    BY DEF Step
  <1> HIDE DEF op
  <1>4. SUFFICES /\ hal' \in HalContext /\ hal'.meas = hal.meas
                 /\ gnss' \in Service
                 /\ h2m' \in Seq(Cmd) /\ lost' \in Losses
                 /\ todo' \in [Thread -> Seq(Op)]
                 /\ todo \in [Thread -> Seq(QuietOp)] /\ h2m \in Seq(QuietCmd) =>
                      todo' \in [Thread -> Seq(QuietOp)] /\ h2m' \in Seq(QuietCmd)
    BY <1>1 DEF GnssInv, TypeOK, MeasKnown, Silent
  <1>5. todo' = [todo EXCEPT ![t] = Tail(@)] =>
          /\ todo' \in [Thread -> Seq(Op)]
          /\ todo \in [Thread -> Seq(QuietOp)] => todo' \in [Thread -> Seq(QuietOp)]
    BY <1>2 DEF GnssInv, TypeOK
  <1>6. CASE op[1] = "intent"
    <2>1. op[2] \in {"init", "start", "stop", "cleanup"}
      BY <1>2, <1>6 DEF Op
    <2>2. /\ hal' = [hal EXCEPT !.intent = op[2]] /\ UNCHANGED <<gnss, h2m, lost>>
          /\ todo' = [todo EXCEPT ![t] = Tail(@)]
      BY <1>3, <1>6 DEF Run
    <2> QED
      BY <1>5, <2>1, <2>2 DEF GnssInv, TypeOK, HalContext, GpsState
  <1>7. CASE op[1] = "mark"
    <2>1. op[2] \in {"init", "start", "stop", "cleanup"}
      BY <1>2, <1>7 DEF Op
    <2>2. /\ hal' = [hal EXCEPT !.state = op[2]] /\ UNCHANGED <<gnss, h2m, lost>>
          /\ todo' = [todo EXCEPT ![t] = Tail(@)]
      BY <1>3, <1>7 DEF Run
    <2> QED
      BY <1>5, <2>1, <2>2 DEF GnssInv, TypeOK, HalContext, GpsState
  <1>8. CASE op[1] = "forward"
    <2>1. op = <<"forward", op[2]>> /\ op[2] \in {"measOn", "measOff"}
      BY <1>2, <1>8 DEF Op
    <2>2. /\ \E sent \in BOOLEAN : ToMnld(op[2], sent, lost.of)
          /\ UNCHANGED <<hal, gnss>> /\ todo' = [todo EXCEPT ![t] = Tail(@)]
      BY <1>3, <1>8 DEF Run
    <2>3. op[2] \in Cmd /\ (op \in QuietOp => op[2] \in QuietCmd)
      BY <2>1 DEF Cmd, QuietCmd, QuietOp
    <2>4. /\ h2m' \in Seq(Cmd) /\ lost' \in Losses
          /\ op \in QuietOp /\ h2m \in Seq(QuietCmd) => h2m' \in Seq(QuietCmd)
      BY <1>0, <2>2, <2>3, ToMnldType DEF GnssInv, TypeOK, QuietCmd
    <2> QED
      BY <1>2, <1>5, <2>2, <2>4 DEF GnssInv, TypeOK
  <1>9. CASE op[1] = "null"
    <2>1. /\ gnss' = [gnss EXCEPT !.iface = FALSE] /\ UNCHANGED <<hal, h2m, lost>>
          /\ todo' = [todo EXCEPT ![t] = Tail(@)]
      BY <1>3, <1>9 DEF Run
    <2> QED
      BY <1>5, <2>1 DEF GnssInv, TypeOK, Service
  <1>10. CASE op[1] = "cmd"
    <2>1. op[2] \in {"init", "start", "stop", "cleanup"}
      BY <1>2, <1>10 DEF Op
    <2>2. SendCmd(t, op[2])
      BY <1>3, <1>10 DEF Run
    <2>3. op[2] \in Cmd /\ op[2] \in QuietCmd
      BY <2>1 DEF Cmd, QuietCmd
    <2>4. /\ h2m' \in Seq(Cmd) /\ lost' \in Losses
          /\ h2m \in Seq(QuietCmd) => h2m' \in Seq(QuietCmd)
      <3>1. CASE hal.state # "unknown"
        <4>1. PICK sent \in BOOLEAN : ToMnld(op[2], sent, lost.of)
          BY <2>2, <3>1 DEF SendCmd
        <4> QED
          BY <1>0, <4>1, <2>3, ToMnldType DEF GnssInv, TypeOK, QuietCmd
      <3>2. CASE hal.state = "unknown"
        BY <2>2, <3>2 DEF SendCmd, GnssInv, TypeOK
      <3> QED
        BY <3>1, <3>2
    <2>5. UNCHANGED <<hal, gnss>>
      BY <2>2 DEF SendCmd
    <2> DEFINE mark == <<"mark", op[2]>>
    <2>6. mark \in Op /\ mark \in QuietOp
      BY <2>1 DEF Op, QuietOp
    <2>7. \/ todo' = [todo EXCEPT ![t] = <<mark>> \o Tail(@)]
          \/ todo' = [todo EXCEPT ![t] = Tail(@)]
      BY <2>2 DEF SendCmd
    <2> HIDE DEF mark
    <2>8. /\ <<mark>> \o Tail(todo[t]) \in Seq(Op)
          /\ todo \in [Thread -> Seq(QuietOp)] => <<mark>> \o Tail(todo[t]) \in Seq(QuietOp)
      BY <1>2, <2>6, Short, Queue
    <2>9. /\ todo' \in [Thread -> Seq(Op)]
          /\ todo \in [Thread -> Seq(QuietOp)] => todo' \in [Thread -> Seq(QuietOp)]
      BY <1>5, <2>7, <2>8 DEF GnssInv, TypeOK
    <2> QED
      BY <2>4, <2>5, <2>9 DEF GnssInv, TypeOK
  <1> QED
    BY <1>3, <1>6, <1>7, <1>8, <1>9, <1>10 DEF Run

\* A message of mnld: a measurement was queued only once the callbacks were set
LEMMA WorkerInv == ASSUME GnssInv, WorkerRecv PROVE GnssInv'
  <1> DEFINE m == Head(m2h)
  <1>1. /\ m2h' = Tail(m2h) /\ UNCHANGED <<hal, mnld, h2m, lost>> /\ Report(m) /\ m2h # <<>>
    BY DEF WorkerRecv
  <1>2. /\ m \in Note /\ m2h' \in Seq(Note)
        /\ m2h \in Seq(QuietNote) => m \in QuietNote /\ m2h' \in Seq(QuietNote)
    BY <1>1, Queue DEF GnssInv, TypeOK
  <1> HIDE DEF m
  <1>3. /\ Resend \in Seq(QuietOp) /\ Resend \in Seq(Op)
    <2>1. <<"cmd", "init">> \in QuietOp /\ <<"cmd", "start">> \in QuietOp
      BY DEF QuietOp, Op
    <2>2. Resend \in Seq(QuietOp)
      BY <2>1, Short DEF Resend
    <2> QED
      BY <2>2, QuietIsTyped
  <1>4. CASE m = "reboot"
    <2>1. todo' = [todo EXCEPT !.worker = Resend] /\ UNCHANGED <<gnss, fw, past>>
      BY <1>1, <1>4 DEF Report
    <2>2. /\ todo' \in [Thread -> Seq(Op)]
          /\ todo \in [Thread -> Seq(QuietOp)] => todo' \in [Thread -> Seq(QuietOp)]
      BY <1>3, <2>1 DEF GnssInv, TypeOK, Thread
    <2> QED
      BY <1>1, <1>2, <2>1, <2>2 DEF GnssInv, TypeOK, MeasKnown, Silent
  <1>5. CASE m \in {"request", "release"}
    <2>1. UpdateWakelock(m = "request") /\ UNCHANGED <<todo, past>>
      BY <1>1, <1>5 DEF Report
    <2>2. gnss' \in Service /\ fw' \in Framework
      BY <2>1 DEF UpdateWakelock, GnssInv, TypeOK, Service, Framework
    <2> QED
      BY <1>1, <1>2, <2>1, <2>2 DEF GnssInv, TypeOK, MeasKnown, Silent
  <1>6. CASE m \in {"begin", "end"}
    <2>1. /\ fw' = (IF Heard THEN [fw EXCEPT !.session = (m = "begin")] ELSE fw)
          /\ UNCHANGED <<todo, gnss, past>>
      BY <1>1, <1>6 DEF Report
    <2>2. fw' \in Framework
      BY <2>1 DEF GnssInv, TypeOK, Framework
    <2> QED
      BY <1>1, <1>2, <2>1, <2>2 DEF GnssInv, TypeOK, MeasKnown, Silent
  <1>7. CASE m = "meas"
    <2>1. past' = [past EXCEPT !.null = @ \/ ~hal.meas] /\ UNCHANGED <<todo, gnss, fw>>
      BY <1>1, <1>7 DEF Report
    <2>2. /\ past' \in Past /\ past'.halDeaths = past.halDeaths
          /\ past'.null = (past.null \/ ~hal.meas)
      BY <2>1 DEF GnssInv, TypeOK, Past, HalContext
    <2>3. m \notin QuietNote
      BY <1>7 DEF QuietNote
    <2>4. TypeOK'
      BY <1>1, <1>2, <2>1, <2>2 DEF GnssInv, TypeOK
    <2>5. MeasKnown'
      BY <1>1, <1>2, <2>1, <2>2, <2>3 DEF GnssInv, MeasKnown, Silent
    <2> QED
      BY <2>4, <2>5 DEF GnssInv
  <1> QED
    BY <1>2, <1>4, <1>5, <1>6, <1>7 DEF Note

-----------------------------------------------------------------------------
\* Steps of mnld: they leave the service alone
LEMMA MnldInv ==
    ASSUME GnssInv, UNCHANGED <<hal, todo, gnss, fw>>,
           mnld' \in Daemon, h2m' \in Seq(Cmd), m2h' \in Seq(Note), lost' \in Losses, past' \in Past,
           past'.halDeaths = past.halDeaths, past'.null = past.null,
           h2m \in Seq(QuietCmd) /\ m2h \in Seq(QuietNote) /\ ~mnld.meas =>
             h2m' \in Seq(QuietCmd) /\ m2h' \in Seq(QuietNote) /\ ~mnld'.meas
    PROVE  GnssInv'
  BY DEF GnssInv, TypeOK, MeasKnown, Silent

\* What mnld sends is no measurement, unless it reports one
LEMMA SendsQuietly ==
    ASSUME GnssInv, NEW ms \in Seq(QuietNote), ToHal(ms)
    PROVE  /\ m2h' \in Seq(Note) /\ lost' \in Losses
           /\ m2h \in Seq(QuietNote) => m2h' \in Seq(QuietNote)
  <1>1. ms \in Seq(Note) /\ QuietNote \in SUBSET Note
    BY QuietIsTyped DEF QuietNote
  <1> QED
    BY <1>1, ToHalType DEF GnssInv, TypeOK

\* mnld handles a request of the HAL
LEMMA MnldRecvInv == ASSUME GnssInv, MnldRecv PROVE GnssInv'
  <1> DEFINE c == Head(h2m)
  <1>1. /\ mnld' = Handle(c)[1] /\ ToHal(Handle(c)[2]) /\ h2m' = Tail(h2m)
        /\ UNCHANGED <<hal, todo, gnss, fw, past>>
    BY DEF MnldRecv
  <1>2. /\ c \in Cmd /\ h2m' \in Seq(Cmd)
        /\ h2m \in Seq(QuietCmd) => c \in QuietCmd /\ h2m' \in Seq(QuietCmd)
    BY <1>1, Queue DEF MnldRecv, GnssInv, TypeOK
  <1> HIDE DEF c
  <1>3. /\ mnld' \in Daemon /\ Handle(c)[2] \in Seq(QuietNote) /\ Handle(c)[2] \in Seq(Note)
        /\ c \in QuietCmd /\ ~mnld.meas => ~mnld'.meas
    BY <1>1, <1>2, HandleType, QuietIsTyped DEF GnssInv, TypeOK, QuietCmd
  <1>4. /\ m2h' \in Seq(Note) /\ lost' \in Losses
        /\ m2h \in Seq(QuietNote) => m2h' \in Seq(QuietNote)
    BY <1>1, <1>3, SendsQuietly
  <1> QED
    BY <1>1, <1>2, <1>3, <1>4, MnldInv DEF GnssInv, TypeOK

\* A start or a stop completes
LEMMA EngineDoneInv == ASSUME GnssInv, EngineDone PROVE GnssInv'
  <1> DEFINE r == IF mnld.engine = "starting" THEN StartDone(mnld) ELSE StopDone(mnld)
  <1>1. mnld' = r[1] /\ ToHal(r[2]) /\ UNCHANGED <<hal, todo, gnss, fw, h2m, past>>
    BY DEF EngineDone
  <1>2. r[1] \in Daemon /\ r[2] \in Seq(QuietNote) /\ r[2] \in Seq(Note) /\ r[1].meas = mnld.meas
    BY DoneTypes, QuietIsTyped DEF GnssInv, TypeOK
  <1> HIDE DEF r
  <1>3. /\ m2h' \in Seq(Note) /\ lost' \in Losses
        /\ m2h \in Seq(QuietNote) => m2h' \in Seq(QuietNote)
    BY <1>1, <1>2, SendsQuietly
  <1> QED
    BY <1>1, <1>2, <1>3, MnldInv DEF GnssInv, TypeOK

\* A measurement goes up only from a mnld that has them enabled
LEMMA ReportInv == ASSUME GnssInv, MnldReport PROVE GnssInv'
  <1>1. mnld.meas /\ ToHal(<<"meas">>) /\ UNCHANGED <<hal, todo, gnss, fw, mnld, h2m>>
    BY DEF MnldReport
  <1>2. past' \in Past /\ past'.halDeaths = past.halDeaths /\ past'.null = past.null
    <2>1. past' = [past EXCEPT !.reports = @ + 1]
      BY DEF MnldReport
    <2>2. past \in Past
      BY DEF GnssInv, TypeOK
    <2> QED
      BY <2>1, <2>2 DEF Past
  <1>3. <<"meas">> \in Seq(Note)
    BY Short DEF Note
  <1>4. m2h' \in Seq(Note) /\ lost' \in Losses
    BY <1>1, <1>3, ToHalType DEF GnssInv, TypeOK
  <1> QED
    BY <1>1, <1>2, <1>4, MnldInv DEF GnssInv, TypeOK

\* The NMEA timeout drops the user, not the setting
LEMMA TimeoutInv == ASSUME GnssInv, NmeaTimeout PROVE GnssInv'
  <1> DEFINE d == [mnld EXCEPT !.used = FALSE]
             ms == Append(FsmStop(d)[2], "reboot")
  <1>1. mnld' = FsmStop(d)[1] /\ ToHal(ms) /\ UNCHANGED <<hal, todo, gnss, fw, h2m>>
    BY DEF NmeaTimeout
  <1>2. past' \in Past /\ past'.halDeaths = past.halDeaths /\ past'.null = past.null
    <2>1. past' = [past EXCEPT !.mnldDeaths = @ + 1]
      BY DEF NmeaTimeout
    <2>2. past \in Past
      BY DEF GnssInv, TypeOK
    <2> QED
      BY <2>1, <2>2 DEF Past
  <1>3. d \in Daemon /\ d.meas = mnld.meas
    BY DEF GnssInv, TypeOK, Daemon
  <1>4. ms \in Seq(QuietNote) /\ ms \in Seq(Note)
    BY <1>3, FsmTypes, Queue, QuietIsTyped DEF QuietNote, Note
  <1> HIDE DEF ms
  <1>5. /\ m2h' \in Seq(Note) /\ lost' \in Losses
        /\ m2h \in Seq(QuietNote) => m2h' \in Seq(QuietNote)
    BY <1>1, <1>4, SendsQuietly
  <1> HIDE DEF d
  <1> QED
    BY <1>1, <1>2, <1>3, <1>5, FsmTypes, MnldInv DEF GnssInv, TypeOK

\* A new mnld has measurements off
LEMMA DeathInv == ASSUME GnssInv, MnldDie \/ MnldInit PROVE GnssInv'
  <1>1. MnldBoot \in Daemon /\ [MnldBoot EXCEPT !.up = FALSE] \in Daemon
        /\ ~MnldBoot.meas /\ ~[MnldBoot EXCEPT !.up = FALSE].meas
    BY DEF MnldBoot, Daemon
  <1>2. CASE MnldDie
    <2>1. past' \in Past /\ past'.halDeaths = past.halDeaths /\ past'.null = past.null
      <3>1. past' = [past EXCEPT !.mnldDeaths = @ + 1, !.died = TRUE]
        BY <1>2 DEF MnldDie
      <3>2. past \in Past
        BY DEF GnssInv, TypeOK
      <3> DEFINE p == [past EXCEPT !.mnldDeaths = @ + 1]
      <3>3. past' \in Past
        <4>1. past' = [p EXCEPT !.died = TRUE]
          BY <3>1
        <4>2. p \in Past
          BY <3>2 DEF Past
        <4> HIDE DEF p
        <4> QED
          BY <4>1, <4>2 DEF Past
      <3>4. past'.halDeaths = past.halDeaths /\ past'.null = past.null
        BY <3>1, <3>2 DEF Past
      <3> QED
        BY <3>3, <3>4
    <2>2. lost' \in Losses
      BY <1>2 DEF MnldDie, GnssInv, TypeOK, Losses
    <2> QED
      BY <1>1, <1>2, <2>1, <2>2, MnldInv, Short DEF MnldDie, GnssInv, TypeOK
  <1>3. CASE MnldInit
    <2>1. <<"reboot">> \in Seq(Note) /\ <<"reboot">> \in Seq(QuietNote)
      BY Short DEF Note, QuietNote
    <2>2. /\ m2h' \in Seq(Note) /\ lost' \in Losses
          /\ m2h \in Seq(QuietNote) => m2h' \in Seq(QuietNote)
      BY <1>3, <2>1, SendsQuietly DEF MnldInit
    <2> QED
      BY <1>1, <1>3, <2>2, MnldInv DEF MnldInit, GnssInv, TypeOK
  <1> QED
    BY <1>2, <1>3

\* After a death of the service MeasKnown says nothing
LEMMA HalDieInv == ASSUME GnssInv, HalDie PROVE GnssInv'
  <1>1. past' \in Past /\ past'.halDeaths # 0
    <2>1. past' = [past EXCEPT !.halDeaths = @ + 1, !.raced = FALSE]
      BY DEF HalDie
    <2>2. past \in Past
      BY DEF GnssInv, TypeOK
    <2> DEFINE p == [past EXCEPT !.halDeaths = @ + 1]
    <2>3. past' \in Past
      <3>1. past' = [p EXCEPT !.raced = FALSE]
        BY <2>1
      <3>2. p \in Past
        BY <2>2 DEF Past
      <3> HIDE DEF p
      <3> QED
        BY <3>1, <3>2 DEF Past
    <2>4. past'.halDeaths = past.halDeaths + 1 /\ past.halDeaths \in Nat
      BY <2>1, <2>2 DEF Past
    <2> QED
      BY <2>3, <2>4
  <1>2. h2m' \in Seq(Cmd) /\ lost' \in Losses
    <2>1. PICK sent \in BOOLEAN : ToMnld("reboot", sent, {})
      BY DEF HalDie
    <2>2. "reboot" \in Cmd /\ {} \in SUBSET (Cmd \cup Note)
      BY DEF Cmd
    <2> QED
      BY <2>1, <2>2, ToMnldType DEF GnssInv, TypeOK
  <1>3. /\ hal' \in HalContext /\ gnss' \in Service /\ fw' \in Framework
        /\ todo' \in [Thread -> Seq(Op)] /\ m2h' \in Seq(Note) /\ mnld' \in Daemon
    BY Short DEF HalDie, HalBoot, GnssBoot, FwBoot, HalContext, GpsState, Service, Framework,
                 GnssInv, TypeOK
  <1> QED
    BY <1>1, <1>2, <1>3 DEF GnssInv, TypeOK, MeasKnown

\* Every step, or stutter, preserves the invariant
LEMMA GnssStep == GnssInv /\ [Next]_vars => GnssInv'
  <1> SUFFICES ASSUME GnssInv, [Next]_vars PROVE GnssInv'
    OBVIOUS
  <1>1. CASE UNCHANGED vars
    BY <1>1 DEF vars, GnssInv, TypeOK, MeasKnown, Silent
  <1>2. CASE Next
    <2>1. CASE SetCallback \/ StartStop \/ Disable
      BY <2>1, CallInv
    <2>2. CASE Measure(TRUE) \/ Measure(FALSE)
      BY <2>2, MeasureInv
    <2>3. CASE Step("binder") \/ Step("worker")
      BY <2>3, StepInv DEF Thread
    <2>4. CASE FwDie \/ WorkerRecv \/ HalDie
      BY <2>4, FwDieInv, WorkerInv, HalDieInv
    <2>5. CASE MnldRecv \/ EngineDone \/ MnldReport
      BY <2>5, MnldRecvInv, EngineDoneInv, ReportInv
    <2>6. CASE NmeaTimeout \/ MnldDie \/ MnldInit
      BY <2>6, TimeoutInv, DeathInv
    <2> QED
      BY <1>2, <2>1, <2>2, <2>3, <2>4, <2>5, <2>6 DEF Next
  <1> QED
    BY <1>1, <1>2

\* Types and MeasKnown hold in every reachable state, for any number of calls and deaths.
THEOREM GnssInvariant == Spec => []GnssInv
  BY GnssInit, GnssStep, PTL DEF Spec

\* A measurement message of mnld finds meas_cbs set (measinf_init), whatever the binder and
\* the worker thread interleave and however often mnld and the framework die.
THEOREM NullCorrect == Spec => []NoNullCallback
  <1>1. GnssInv => NoNullCallback
    BY DEF GnssInv, TypeOK, MeasKnown, NoNullCallback, Past
  <1> QED
    BY <1>1, GnssInvariant, PTL

-----------------------------------------------------------------------------
\* What a queue leads to

\* A setting u after the entry e: those of on set it, those of off reset it.
Turn(e, u, on, off) == e \in on \/ (u /\ e \notin off)

\* A setting u after all entries of the queue q.
After(q, u, on, off) ==
    \/ \E i \in 1 .. Len(q) : q[i] \in on /\ \A j \in i + 1 .. Len(q) : q[j] \notin off
    \/ u /\ \A i \in 1 .. Len(q) : q[i] \notin off

\* z has the entries of p and then those of q.
Joined(z, p, q) ==
    /\ Len(z) = Len(p) + Len(q)
    /\ \A i \in 1 .. Len(p) : z[i] = p[i]
    /\ \A i \in 1 .. Len(q) : z[Len(p) + i] = q[i]

\* One queue after the other.
LEMMA AfterJoined ==
    ASSUME NEW z, NEW p, NEW q, Joined(z, p, q), Len(p) \in Nat, Len(q) \in Nat,
           NEW u \in BOOLEAN, NEW on, NEW off
    PROVE  After(z, u, on, off) <=> After(q, After(p, u, on, off), on, off)
  <1> DEFINE n == Len(p)
             m == Len(q)
             a == After(p, u, on, off)
             None(s) == \A i \in 1 .. Len(s) : s[i] \notin off
             Some(s) == \E i \in 1 .. Len(s) :
                            s[i] \in on /\ \A j \in i + 1 .. Len(s) : s[j] \notin off
  <1>1. n \in Nat /\ m \in Nat /\ Len(z) = n + m
    BY DEF Joined
  <1>2. \A i \in 1 .. n : z[i] = p[i]
    BY DEF Joined
  <1>3. \A i \in 1 .. m : z[n + i] = q[i]
    BY DEF Joined
  <1>4. \A i \in 1 .. n + m : i > n => i - n \in 1 .. m /\ z[i] = q[i - n]
    <2>1. ASSUME NEW i \in 1 .. n + m, i > n PROVE i - n \in 1 .. m /\ z[i] = q[i - n]
      <3>1. i - n \in 1 .. m /\ n + (i - n) = i
        BY <1>1, <2>1
      <3> QED BY <1>3, <3>1
    <2> QED BY <2>1
  <1>5. /\ a <=> (Some(p) \/ (u /\ None(p)))
        /\ After(z, u, on, off) <=> (Some(z) \/ (u /\ None(z)))
        /\ After(q, a, on, off) <=> (Some(q) \/ (a /\ None(q)))
    BY DEF After
  <1>6. None(z) <=> None(p) /\ None(q)
    <2>1. ASSUME None(z) PROVE None(p)
      BY <1>1, <1>2, <2>1
    <2>2. ASSUME None(z) PROVE None(q)
      <3>1. ASSUME NEW i \in 1 .. m PROVE q[i] \notin off
        <4>1. n + i \in 1 .. Len(z) /\ z[n + i] = q[i]
          BY <1>1, <1>3
        <4> QED BY <2>2, <4>1
      <3> QED BY <3>1
    <2>3. ASSUME None(p), None(q) PROVE None(z)
      <3>1. ASSUME NEW i \in 1 .. n + m PROVE z[i] \notin off
        <4>1. CASE i > n
          BY <1>4, <2>3, <4>1
        <4>2. CASE ~(i > n)
          <5>1. i \in 1 .. n
            BY <1>1, <4>2
          <5> QED BY <1>2, <2>3, <5>1
        <4> QED BY <4>1, <4>2
      <3> QED BY <1>1, <3>1
    <2> QED BY <2>1, <2>2, <2>3
  <1>7. Some(z) => Some(q) \/ (Some(p) /\ None(q))
    <2>1. SUFFICES ASSUME NEW i \in 1 .. n + m, z[i] \in on,
                          \A j \in i + 1 .. n + m : z[j] \notin off
                   PROVE  Some(q) \/ (Some(p) /\ None(q))
      BY <1>1
    <2>2. CASE i > n
      <3>1. i - n \in 1 .. m /\ q[i - n] \in on
        BY <1>4, <2>1, <2>2
      <3>2. ASSUME NEW j \in i - n + 1 .. m PROVE q[j] \notin off
        <4>1. n + j \in i + 1 .. n + m /\ j \in 1 .. m
          BY <1>1, <2>2
        <4> QED BY <1>3, <2>1, <4>1
      <3> QED BY <3>1, <3>2
    <2>3. CASE ~(i > n)
      <3>1. i \in 1 .. n /\ p[i] \in on
        BY <1>1, <1>2, <2>1, <2>3
      <3>2. ASSUME NEW j \in i + 1 .. n PROVE p[j] \notin off
        <4>1. j \in i + 1 .. n + m /\ j \in 1 .. n
          BY <1>1, <3>1
        <4> QED BY <1>2, <2>1, <4>1
      <3>3. ASSUME NEW j \in 1 .. m PROVE q[j] \notin off
        <4>1. n + j \in i + 1 .. n + m
          BY <1>1, <3>1
        <4> QED BY <1>3, <2>1, <4>1
      <3> QED BY <3>1, <3>2, <3>3
    <2> QED BY <2>2, <2>3
  <1>8. Some(q) => Some(z)
    <2>1. SUFFICES ASSUME NEW i \in 1 .. m, q[i] \in on, \A j \in i + 1 .. m : q[j] \notin off
                   PROVE  Some(z)
      OBVIOUS
    <2>2. n + i \in 1 .. n + m /\ z[n + i] \in on
      BY <1>1, <1>3, <2>1
    <2>3. ASSUME NEW j \in n + i + 1 .. n + m PROVE z[j] \notin off
      <3>1. j \in 1 .. n + m /\ j > n /\ j - n \in i + 1 .. m
        BY <1>1
      <3> QED BY <1>4, <2>1, <3>1
    <2> QED BY <1>1, <2>2, <2>3
  <1>9. Some(p) /\ None(q) => Some(z)
    <2>1. SUFFICES ASSUME None(q), NEW i \in 1 .. n, p[i] \in on,
                          \A j \in i + 1 .. n : p[j] \notin off
                   PROVE  Some(z)
      OBVIOUS
    <2>2. i \in 1 .. n + m /\ z[i] \in on
      BY <1>1, <1>2, <2>1
    <2>3. ASSUME NEW j \in i + 1 .. n + m PROVE z[j] \notin off
      <3>1. CASE j > n
        <4>1. j \in 1 .. n + m
          BY <1>1
        <4> QED BY <1>4, <2>1, <3>1, <4>1
      <3>2. CASE ~(j > n)
        <4>1. j \in 1 .. n /\ j \in i + 1 .. n
          BY <1>1, <3>2
        <4> QED BY <1>2, <2>1, <4>1
      <3> QED BY <3>1, <3>2
    <2> QED BY <1>1, <2>2, <2>3
  <1> HIDE DEF None, Some, a
  <1> QED BY <1>5, <1>6, <1>7, <1>8, <1>9 DEF a

\* A queue of one.
LEMMA AfterOne ==
    ASSUME NEW w, Len(w) = 1, NEW u \in BOOLEAN, NEW on, NEW off
    PROVE  After(w, u, on, off) <=> Turn(w[1], u, on, off)
  BY DEF After, Turn

\* An empty queue changes nothing, and more follows from more.
LEMMA AfterNone ==
    ASSUME NEW u \in BOOLEAN, NEW on, NEW off
    PROVE  After(<<>>, u, on, off) <=> u
  BY DEF After

\* More follows from more.
LEMMA AfterMore ==
    ASSUME NEW q, NEW u \in BOOLEAN, NEW v \in BOOLEAN, u => v, NEW on, NEW off,
           After(q, u, on, off)
    PROVE  After(q, v, on, off)
  BY DEF After

\* After and Turn are truth values.
LEMMA AfterBoolean ==
    ASSUME NEW q, NEW u, NEW on, NEW off
    PROVE  After(q, u, on, off) \in BOOLEAN /\ Turn(q, u, on, off) \in BOOLEAN
  BY DEF After, Turn

\* The first entry, a new last entry, and a new first entry.
LEMMA AfterHead ==
    ASSUME NEW S, NEW q \in Seq(S), q # <<>>, NEW u \in BOOLEAN, NEW on, NEW off
    PROVE  After(q, u, on, off) <=> After(Tail(q), Turn(Head(q), u, on, off), on, off)
  <1>1. PICK w : w = <<Head(q)>>
    OBVIOUS
  <1>2. Len(w) = 1 /\ w[1] = Head(q)
    BY <1>1
  <1>3. /\ Len(q) \in Nat /\ Len(Tail(q)) \in Nat /\ Len(q) = 1 + Len(Tail(q)) /\ Head(q) = q[1]
        /\ \A i \in 1 .. Len(Tail(q)) : Tail(q)[i] = q[i + 1]
    BY HeadTailProperties
  <1>4. Joined(q, w, Tail(q))
    BY <1>2, <1>3 DEF Joined
  <1>5. After(q, u, on, off) <=> After(Tail(q), After(w, u, on, off), on, off)
    BY <1>2, <1>3, <1>4, AfterJoined
  <1>6. After(w, u, on, off) = Turn(Head(q), u, on, off)
    BY <1>2, AfterOne, AfterBoolean
  <1> QED BY <1>5, <1>6

\* A new last entry.
LEMMA AfterAppend ==
    ASSUME NEW S, NEW q \in Seq(S), NEW e \in S, NEW u \in BOOLEAN, NEW on, NEW off
    PROVE  After(Append(q, e), u, on, off) <=> Turn(e, After(q, u, on, off), on, off)
  <1>1. PICK w : w = <<e>>
    OBVIOUS
  <1>2. Len(w) = 1 /\ w[1] = e
    BY <1>1
  <1>3. /\ Len(q) \in Nat /\ Len(Append(q, e)) = Len(q) + 1 /\ Append(q, e)[Len(q) + 1] = e
        /\ \A i \in 1 .. Len(q) : Append(q, e)[i] = q[i]
    BY AppendProperties
  <1>4. Joined(Append(q, e), q, w)
    BY <1>2, <1>3 DEF Joined
  <1>5. After(Append(q, e), u, on, off) <=> After(w, After(q, u, on, off), on, off)
    BY <1>2, <1>3, <1>4, AfterJoined
  <1>6. After(w, After(q, u, on, off), on, off) <=> Turn(e, After(q, u, on, off), on, off)
    BY <1>2, AfterOne, AfterBoolean
  <1> QED BY <1>5, <1>6

\* A queue and what is put behind it.
LEMMA AfterConcat ==
    ASSUME NEW S, NEW p \in Seq(S), NEW q \in Seq(S), NEW u \in BOOLEAN, NEW on, NEW off
    PROVE  After(p \o q, u, on, off) <=> After(q, After(p, u, on, off), on, off)
  <1>1. /\ Len(p) \in Nat /\ Len(q) \in Nat /\ Len(p \o q) = Len(p) + Len(q)
        /\ \A i \in 1 .. Len(p) + Len(q) :
              (p \o q)[i] = IF i <= Len(p) THEN p[i] ELSE q[i - Len(p)]
    BY ConcatProperties
  <1>2. ASSUME NEW i \in 1 .. Len(p) PROVE (p \o q)[i] = p[i]
    BY <1>1
  <1>3. ASSUME NEW i \in 1 .. Len(q) PROVE (p \o q)[Len(p) + i] = q[i]
    <2>1. Len(p) + i \in 1 .. Len(p) + Len(q) /\ ~(Len(p) + i <= Len(p)) /\ Len(p) + i - Len(p) = i
      BY <1>1
    <2> QED BY <1>1, <2>1
  <1>4. Joined(p \o q, p, q)
    BY <1>1, <1>2, <1>3 DEF Joined
  <1> QED BY <1>1, <1>4, AfterJoined

\* A new first entry.
LEMMA AfterPush ==
    ASSUME NEW S, NEW e \in S, NEW q \in Seq(S), NEW u \in BOOLEAN, NEW on, NEW off
    PROVE  After(<<e>> \o q, u, on, off) <=> After(q, Turn(e, u, on, off), on, off)
  <1>1. PICK w : w = <<e>>
    OBVIOUS
  <1>2. w \in Seq(S) /\ Len(w) = 1 /\ w[1] = e
    BY <1>1
  <1>3. After(w \o q, u, on, off) <=> After(q, After(w, u, on, off), on, off)
    BY <1>2, AfterConcat
  <1>4. After(w, u, on, off) = Turn(e, u, on, off)
    BY <1>2, AfterOne, AfterBoolean
  <1> QED BY <1>1, <1>3, <1>4

\* Two entries.
LEMMA AfterPair ==
    ASSUME NEW d, NEW e, NEW u \in BOOLEAN, NEW on, NEW off
    PROVE  After(<<d, e>>, u, on, off) <=> Turn(e, Turn(d, u, on, off), on, off)
  <1>1. PICK w : w = <<d, e>>
    OBVIOUS
  <1>2. Len(w) = 2 /\ w[1] = d /\ w[2] = e
    BY <1>1
  <1>3. After(w, u, on, off) <=> Turn(w[2], Turn(w[1], u, on, off), on, off)
    BY <1>2 DEF After, Turn
  <1> QED BY <1>1, <1>2, <1>3

-----------------------------------------------------------------------------
\* mnld's messages: what they leave the framework's wakelock and session with

LockAfter(q, u) == After(q, u, {"request"}, {"release"})
SessionAfter(q, u) == After(q, u, {"begin"}, {"end"})

\* A queue holds the report of a reboot.
Reboots(q) == \E i \in 1 .. Len(q) : q[i] = "reboot"

\* A note is one of the other kinds, or no note.
LEMMA OneNote ==
    ASSUME NEW e, NEW u \in BOOLEAN
    PROVE  /\ LockAfter(<<e>>, u) <=> (e = "request" \/ (u /\ e # "release"))
           /\ SessionAfter(<<e>>, u) <=> (e = "begin" \/ (u /\ e # "end"))
           /\ LockAfter(<<>>, u) <=> u
           /\ SessionAfter(<<>>, u) <=> u
           /\ Reboots(<<e>>) <=> e = "reboot"
           /\ ~Reboots(<<>>)
  <1>1. PICK w : w = <<e>>
    OBVIOUS
  <1>2. Len(w) = 1 /\ w[1] = e
    BY <1>1
  <1>3. LockAfter(w, u) <=> (e = "request" \/ (u /\ e # "release"))
    BY <1>2, AfterOne DEF LockAfter, Turn
  <1>4. SessionAfter(w, u) <=> (e = "begin" \/ (u /\ e # "end"))
    BY <1>2, AfterOne DEF SessionAfter, Turn
  <1>5. Reboots(w) <=> e = "reboot"
    BY <1>2 DEF Reboots
  <1>6. (LockAfter(<<>>, u) <=> u) /\ (SessionAfter(<<>>, u) <=> u)
    BY AfterNone DEF LockAfter, SessionAfter
  <1>7. ~Reboots(<<>>)
    BY DEF Reboots
  <1> QED BY <1>1, <1>3, <1>4, <1>5, <1>6, <1>7

\* One more note at the end.
LEMMA NoteAppend ==
    ASSUME NEW q \in Seq(Note), NEW e \in Note, NEW u \in BOOLEAN
    PROVE  /\ LockAfter(Append(q, e), u) <=> (e = "request" \/ (LockAfter(q, u) /\ e # "release"))
           /\ SessionAfter(Append(q, e), u) <=> (e = "begin" \/ (SessionAfter(q, u) /\ e # "end"))
           /\ Reboots(Append(q, e)) <=> Reboots(q) \/ e = "reboot"
  <1>1. LockAfter(Append(q, e), u) <=> Turn(e, LockAfter(q, u), {"request"}, {"release"})
    BY AfterAppend DEF LockAfter
  <1>2. SessionAfter(Append(q, e), u) <=> Turn(e, SessionAfter(q, u), {"begin"}, {"end"})
    BY AfterAppend DEF SessionAfter
  <1>3. /\ Len(q) \in Nat /\ Len(Append(q, e)) = Len(q) + 1 /\ Append(q, e)[Len(q) + 1] = e
        /\ \A i \in 1 .. Len(q) : Append(q, e)[i] = q[i]
    BY AppendProperties
  <1>4. Reboots(Append(q, e)) <=> Reboots(q) \/ e = "reboot"
    <2>1. PICK w : w = Append(q, e)
      OBVIOUS
    <2>2. /\ Len(q) \in Nat /\ Len(w) = Len(q) + 1 /\ w[Len(q) + 1] = e
          /\ \A i \in 1 .. Len(q) : w[i] = q[i]
      BY <1>3, <2>1
    <2>3. ASSUME Reboots(w) PROVE Reboots(q) \/ e = "reboot"
      BY <2>2, <2>3 DEF Reboots
    <2>4. ASSUME Reboots(q) PROVE Reboots(w)
      BY <2>2, <2>4 DEF Reboots
    <2>5. ASSUME e = "reboot" PROVE Reboots(w)
      <3>1. Len(q) + 1 \in 1 .. Len(w)
        BY <2>2
      <3> QED BY <2>2, <2>5, <3>1 DEF Reboots
    <2> QED BY <2>1, <2>3, <2>4, <2>5
  <1> QED BY <1>1, <1>2, <1>4 DEF Turn

\* The first note.
LEMMA NoteHead ==
    ASSUME NEW q \in Seq(Note), q # <<>>, NEW u \in BOOLEAN
    PROVE  /\ LockAfter(q, u)
                <=> LockAfter(Tail(q), Head(q) = "request" \/ (u /\ Head(q) # "release"))
           /\ SessionAfter(q, u)
                <=> SessionAfter(Tail(q), Head(q) = "begin" \/ (u /\ Head(q) # "end"))
           /\ Reboots(q) <=> Head(q) = "reboot" \/ Reboots(Tail(q))
  <1>1. LockAfter(q, u) <=> LockAfter(Tail(q), Turn(Head(q), u, {"request"}, {"release"}))
    BY AfterHead DEF LockAfter
  <1>2. SessionAfter(q, u) <=> SessionAfter(Tail(q), Turn(Head(q), u, {"begin"}, {"end"}))
    BY AfterHead DEF SessionAfter
  <1>3. Turn(Head(q), u, {"request"}, {"release"}) =
          (Head(q) = "request" \/ (u /\ Head(q) # "release"))
    BY DEF Turn
  <1>4. Turn(Head(q), u, {"begin"}, {"end"}) = (Head(q) = "begin" \/ (u /\ Head(q) # "end"))
    BY DEF Turn
  <1>5. Reboots(q) <=> Head(q) = "reboot" \/ Reboots(Tail(q))
    <2>1. /\ Len(q) \in Nat /\ Len(Tail(q)) \in Nat /\ Len(q) = 1 + Len(Tail(q)) /\ Head(q) = q[1]
          /\ \A i \in 1 .. Len(Tail(q)) : Tail(q)[i] = q[i + 1]
      BY HeadTailProperties
    <2>2. PICK w : w = Tail(q)
      OBVIOUS
    <2>3. /\ Len(q) \in Nat /\ Len(w) \in Nat /\ Len(q) = 1 + Len(w) /\ Head(q) = q[1]
          /\ \A i \in 1 .. Len(w) : w[i] = q[i + 1]
      BY <2>1, <2>2
    <2>4. ASSUME NEW i \in 1 .. Len(q), q[i] = "reboot" PROVE Head(q) = "reboot" \/ Reboots(w)
      <3>1. CASE i = 1
        BY <2>3, <2>4, <3>1
      <3>2. CASE i # 1
        <4>1. i - 1 \in 1 .. Len(w) /\ i - 1 + 1 = i
          BY <2>3, <3>2
        <4>2. w[i - 1] = "reboot"
          BY <2>3, <2>4, <4>1
        <4> QED BY <4>1, <4>2 DEF Reboots
      <3> QED BY <3>1, <3>2
    <2>5. ASSUME Head(q) = "reboot" PROVE Reboots(q)
      <3>1. 1 \in 1 .. Len(q)
        BY <2>3
      <3> QED BY <2>3, <2>5, <3>1 DEF Reboots
    <2>6. ASSUME NEW i \in 1 .. Len(w), w[i] = "reboot" PROVE Reboots(q)
      <3>1. i + 1 \in 1 .. Len(q) /\ q[i + 1] = "reboot"
        BY <2>3, <2>6
      <3> QED BY <3>1 DEF Reboots
    <2> QED BY <2>2, <2>4, <2>5, <2>6 DEF Reboots
  <1> QED BY <1>1, <1>2, <1>3, <1>4, <1>5

\* Notes that are sent while the socket is there.
LEMMA NoteConcat ==
    ASSUME NEW p \in Seq(Note), NEW q \in Seq(Note), NEW u \in BOOLEAN
    PROVE  /\ LockAfter(p \o q, u) <=> LockAfter(q, LockAfter(p, u))
           /\ SessionAfter(p \o q, u) <=> SessionAfter(q, SessionAfter(p, u))
           /\ Reboots(p \o q) <=> Reboots(p) \/ Reboots(q)
  <1>1. LockAfter(p \o q, u) <=> LockAfter(q, LockAfter(p, u))
    BY AfterConcat DEF LockAfter
  <1>2. SessionAfter(p \o q, u) <=> SessionAfter(q, SessionAfter(p, u))
    BY AfterConcat DEF SessionAfter
  <1>3. Reboots(p \o q) <=> Reboots(p) \/ Reboots(q)
    <2>1. /\ Len(p) \in Nat /\ Len(q) \in Nat /\ Len(p \o q) = Len(p) + Len(q)
          /\ \A i \in 1 .. Len(p) + Len(q) :
                (p \o q)[i] = IF i <= Len(p) THEN p[i] ELSE q[i - Len(p)]
      BY ConcatProperties
    <2>2. PICK w : w = p \o q
      OBVIOUS
    <2>3. /\ Len(p) \in Nat /\ Len(q) \in Nat /\ Len(w) = Len(p) + Len(q)
          /\ \A i \in 1 .. Len(p) + Len(q) : w[i] = IF i <= Len(p) THEN p[i] ELSE q[i - Len(p)]
      BY <2>1, <2>2
    <2>4. ASSUME NEW i \in 1 .. Len(w), w[i] = "reboot" PROVE Reboots(p) \/ Reboots(q)
      <3>1. CASE i <= Len(p)
        BY <2>3, <2>4, <3>1 DEF Reboots
      <3>2. CASE ~(i <= Len(p))
        <4>1. i - Len(p) \in 1 .. Len(q) /\ q[i - Len(p)] = "reboot"
          BY <2>3, <2>4, <3>2
        <4> QED BY <4>1 DEF Reboots
      <3> QED BY <3>1, <3>2
    <2>5. ASSUME NEW i \in 1 .. Len(p), p[i] = "reboot" PROVE Reboots(w)
      <3>1. i \in 1 .. Len(w) /\ w[i] = "reboot"
        BY <2>3, <2>5
      <3> QED BY <3>1 DEF Reboots
    <2>6. ASSUME NEW i \in 1 .. Len(q), q[i] = "reboot" PROVE Reboots(w)
      <3>1. Len(p) + i \in 1 .. Len(w) /\ ~(Len(p) + i <= Len(p)) /\ Len(p) + i - Len(p) = i
        BY <2>3
      <3>2. w[Len(p) + i] = "reboot"
        BY <2>3, <2>6, <3>1
      <3> QED BY <3>1, <3>2 DEF Reboots
    <2> QED BY <2>2, <2>4, <2>5, <2>6 DEF Reboots
  <1> QED BY <1>1, <1>2, <1>3

-----------------------------------------------------------------------------
\* What mnld's handlers do to the client's record and what they tell it

\* The engine and the client's flags: an idle engine owes nobody a SESSION_END, a started one
\* has its user and has told it, and a SESSION_BEGIN is owed to a user only.
EngineOf(d) ==
    /\ d.engine = "idle" => ~d.used /\ ~d.closeAck
    /\ d.engine = "started" => d.used /\ ~d.openAck
    /\ d.openAck => d.used

\* What mnld sends in one step.
Brief(q) ==
    \/ q = <<>>
    \/ \E n \in Note : q = <<n>>
    \/ q = <<"end", "release">>

\* A handler took d to e and sent q: the wakelock notes tell exactly whether the engine runs.
Tells(d, e, q) ==
    /\ q \in Seq(Note) /\ ~Reboots(q) /\ Brief(q)
    /\ LockAfter(q, d.engine # "idle") <=> e.engine # "idle"
    /\ EngineOf(e)
    /\ e.up = d.up /\ e.used = d.used /\ e.init = d.init

\* The messages that handlers send.
LEMMA NoteTypes ==
    /\ <<>> \in Seq(Note) /\ Brief(<<>>)
    /\ \A e \in Note : <<e>> \in Seq(Note) /\ Brief(<<e>>)
  BY Short DEF Brief

\* Two messages of one handler.
LEMMA AppendOne == ASSUME NEW d, NEW e PROVE Append(<<d>>, e) = <<d, e>>
  <1>1. PICK z : z = Append(<<d>>, e)
    OBVIOUS
  <1>2. PICK y : y = <<d, e>>
    OBVIOUS
  <1>3. <<d>> \in Seq({d, e}) /\ Len(<<d>>) = 1
    OBVIOUS
  <1>4. z \in Seq({d, e}) /\ Len(z) = 2 /\ z[1] = d /\ z[2] = e
    BY <1>1, <1>3, AppendProperties
  <1>5. y \in Seq({d, e}) /\ Len(y) = 2 /\ y[1] = d /\ y[2] = e
    BY <1>2
  <1>6. \A i \in 1 .. Len(z) : z[i] = y[i]
    BY <1>4, <1>5
  <1> QED BY <1>1, <1>2, <1>4, <1>5, <1>6, SeqEqual

\* mnld_fsm on START, for a client that has just asked for it
LEMMA FsmStartTells ==
    ASSUME NEW d \in Daemon, d.used, d.openAck, ~d.closeAck
    PROVE  Tells(d, FsmStart(d)[1], FsmStart(d)[2])
  <1>1. CASE d.engine = "idle"
    <2> DEFINE e == [d EXCEPT !.engine = "starting"]
    <2>1. FsmStart(d)[1] = e /\ FsmStart(d)[2] = <<"request">>
      BY <1>1 DEF FsmStart
    <2>2. EngineOf(e) /\ e.up = d.up /\ e.used = d.used /\ e.init = d.init /\ e.engine # "idle"
      BY DEF EngineOf, Daemon
    <2>3. LockAfter(<<"request">>, d.engine # "idle") /\ ~Reboots(<<"request">>)
      BY OneNote
    <2>4. <<"request">> \in Seq(Note) /\ Brief(<<"request">>)
      BY NoteTypes DEF Note
    <2> HIDE DEF e
    <2> QED BY <2>1, <2>2, <2>3, <2>4 DEF Tells
  <1>2. CASE d.engine = "started"
    <2> DEFINE e == [d EXCEPT !.openAck = FALSE]
    <2>1. FsmStart(d)[1] = e /\ FsmStart(d)[2] = <<"begin">>
      BY <1>2 DEF FsmStart, StartedHdlr
    <2>2. /\ EngineOf(e) /\ e.up = d.up /\ e.used = d.used /\ e.init = d.init
          /\ e.engine # "idle"
      BY <1>2 DEF EngineOf, Daemon
    <2>3. LockAfter(<<"begin">>, d.engine # "idle") /\ ~Reboots(<<"begin">>)
      BY <1>2, OneNote
    <2>4. <<"begin">> \in Seq(Note) /\ Brief(<<"begin">>)
      BY NoteTypes DEF Note
    <2> HIDE DEF e
    <2> QED BY <2>1, <2>2, <2>3, <2>4 DEF Tells
  <1>3. CASE d.engine \notin {"idle", "started"}
    <2>1. FsmStart(d)[1] = d /\ FsmStart(d)[2] = <<>>
      BY <1>3 DEF FsmStart
    <2>2. EngineOf(d) /\ d.engine # "idle"
      BY <1>3 DEF EngineOf
    <2>3. LockAfter(<<>>, d.engine # "idle") /\ ~Reboots(<<>>)
      BY <1>3, OneNote
    <2> QED BY <2>1, <2>2, <2>3, NoteTypes DEF Tells
  <1> QED BY <1>1, <1>2, <1>3

\* mnld_fsm on STOP, for a client that has just gone: an owed SESSION_END is sent, or stays
\* owed.
LEMMA FsmStopTells ==
    ASSUME NEW d \in Daemon, ~d.used, ~d.openAck
    PROVE  /\ Tells(d, FsmStop(d)[1], FsmStop(d)[2])
           /\ \A u \in BOOLEAN : d.closeAck /\ SessionAfter(FsmStop(d)[2], u)
                                   => FsmStop(d)[1].closeAck
  <1>1. CASE d.engine = "idle" /\ d.closeAck
    <2> DEFINE e == [d EXCEPT !.closeAck = FALSE]
    <2>1. FsmStop(d)[1] = e /\ FsmStop(d)[2] = <<"end">>
      BY <1>1 DEF FsmStop, StoppedHdlr
    <2>2. EngineOf(e) /\ e.up = d.up /\ e.used = d.used /\ e.init = d.init /\ e.engine = "idle"
      BY <1>1 DEF EngineOf, Daemon
    <2>3. ~LockAfter(<<"end">>, d.engine # "idle") /\ ~Reboots(<<"end">>)
      BY <1>1, OneNote
    <2>4. \A u \in BOOLEAN : ~SessionAfter(<<"end">>, u)
      BY OneNote
    <2>5. <<"end">> \in Seq(Note) /\ Brief(<<"end">>)
      BY NoteTypes DEF Note
    <2> HIDE DEF e
    <2> QED BY <2>1, <2>2, <2>3, <2>4, <2>5 DEF Tells
  <1>2. CASE d.engine = "started"
    <2> DEFINE e == [d EXCEPT !.engine = "stopping"]
    <2>1. FsmStop(d)[1] = e /\ FsmStop(d)[2] = <<>>
      BY <1>2 DEF FsmStop
    <2>2. /\ EngineOf(e) /\ e.up = d.up /\ e.used = d.used /\ e.init = d.init
          /\ e.engine # "idle" /\ e.closeAck = d.closeAck
      BY <1>2 DEF EngineOf, Daemon
    <2>3. LockAfter(<<>>, d.engine # "idle") /\ ~Reboots(<<>>)
      BY <1>2, OneNote
    <2> HIDE DEF e
    <2> QED BY <2>1, <2>2, <2>3, NoteTypes DEF Tells
  <1>3. CASE d.engine # "started" /\ ~(d.engine = "idle" /\ d.closeAck)
    <2>1. FsmStop(d)[1] = d /\ FsmStop(d)[2] = <<>>
      BY <1>3 DEF FsmStop, StoppedHdlr
    <2>2. EngineOf(d)
      BY <1>3 DEF EngineOf
    <2>3. (LockAfter(<<>>, d.engine # "idle") <=> d.engine # "idle") /\ ~Reboots(<<>>)
      BY OneNote
    <2> QED BY <2>1, <2>2, <2>3, NoteTypes DEF Tells
  <1> QED BY <1>1, <1>2, <1>3

\* A start completes: the session begins for a user.
LEMMA StartDoneTells ==
    ASSUME NEW d \in Daemon, EngineOf(d), d.engine = "starting"
    PROVE  /\ Tells(d, StartDone(d)[1], StartDone(d)[2])
           /\ \A u \in BOOLEAN : SessionAfter(StartDone(d)[2], u)
                => (u /\ StartDone(d)[1].closeAck = d.closeAck) \/ StartDone(d)[1].used
  <1> DEFINE e == StartDone(d)[1]
  <1>1. /\ e.engine = (IF d.used THEN "started" ELSE "stopping") /\ ~e.openAck
        /\ e.up = d.up /\ e.used = d.used /\ e.init = d.init /\ e.closeAck = d.closeAck
    <2>1. CASE d.openAck
      <3> DEFINE f == [d EXCEPT !.openAck = FALSE]
      <3>1. StartedHdlr(d) = <<f, <<"begin">>>>
        BY <2>1 DEF StartedHdlr
      <3>2. e = [f EXCEPT !.engine = IF d.used THEN "started" ELSE "stopping"]
        BY <3>1 DEF StartDone
      <3> QED BY <3>2 DEF Daemon
    <2>2. CASE ~d.openAck
      <3>1. StartedHdlr(d) = <<d, <<>>>>
        BY <2>2 DEF StartedHdlr
      <3>2. e = [d EXCEPT !.engine = IF d.used THEN "started" ELSE "stopping"]
        BY <3>1 DEF StartDone
      <3> QED BY <2>2, <3>2 DEF Daemon
    <2> QED BY <2>1, <2>2
  <1> HIDE DEF e
  <1>2. EngineOf(e) /\ e.engine # "idle"
    BY <1>1 DEF EngineOf
  <1>3. CASE d.openAck
    <2>1. StartDone(d)[2] = <<"begin">>
      BY <1>3 DEF StartDone, StartedHdlr
    <2>2. LockAfter(<<"begin">>, d.engine # "idle") /\ ~Reboots(<<"begin">>)
      BY OneNote
    <2>3. d.used
      BY <1>3 DEF EngineOf
    <2>4. <<"begin">> \in Seq(Note) /\ Brief(<<"begin">>)
      BY NoteTypes DEF Note
    <2> QED BY <1>1, <1>2, <2>1, <2>2, <2>3, <2>4 DEF Tells, e
  <1>4. CASE ~d.openAck
    <2>1. StartDone(d)[2] = <<>>
      BY <1>4 DEF StartDone, StartedHdlr
    <2>2. LockAfter(<<>>, d.engine # "idle") /\ ~Reboots(<<>>)
      BY OneNote
    <2>3. \A u \in BOOLEAN : SessionAfter(<<>>, u) => u
      BY OneNote
    <2> QED BY <1>1, <1>2, <2>1, <2>2, <2>3, NoteTypes DEF Tells, e
  <1> QED BY <1>3, <1>4 DEF Daemon

\* A stop completes: an owed SESSION_END is sent, and the wakelock is released unless a new
\* user waits.
LEMMA StopDoneTells ==
    ASSUME NEW d \in Daemon, EngineOf(d), d.engine = "stopping"
    PROVE  /\ Tells(d, StopDone(d)[1], StopDone(d)[2])
           /\ \A u \in BOOLEAN : SessionAfter(StopDone(d)[2], u)
                => (u /\ StopDone(d)[1].closeAck = d.closeAck) \/ StopDone(d)[1].used
  <1> DEFINE e == StopDone(d)[1]
             q == StoppedHdlr(d)[2]
  <1>1. /\ e.engine = (IF d.used THEN "starting" ELSE "idle") /\ ~e.closeAck
        /\ e.up = d.up /\ e.used = d.used /\ e.init = d.init /\ e.openAck = d.openAck
    <2> DEFINE f == StoppedHdlr(d)[1]
    <2>1. /\ f \in Daemon /\ ~f.closeAck
          /\ f.up = d.up /\ f.used = d.used /\ f.init = d.init /\ f.openAck = d.openAck
      BY AckTypes DEF StoppedHdlr, Daemon
    <2> HIDE DEF f
    <2>2. CASE d.used
      <3>1. e = [f EXCEPT !.engine = "starting"]
        BY <2>2 DEF StopDone, f
      <3> QED BY <2>1, <2>2, <3>1 DEF Daemon
    <2>3. CASE ~d.used
      <3>1. e = [f EXCEPT !.engine = "idle"]
        BY <2>3 DEF StopDone, f
      <3> QED BY <2>1, <2>3, <3>1 DEF Daemon
    <2> QED BY <2>2, <2>3
  <1> HIDE DEF e
  <1>2. EngineOf(e) /\ (e.engine # "idle" <=> d.used)
    BY <1>1 DEF EngineOf
  <1>3. q = IF d.closeAck THEN <<"end">> ELSE <<>>
    BY DEF StoppedHdlr
  <1>4. /\ q \in Seq(Note) /\ ~Reboots(q) /\ LockAfter(q, TRUE)
        /\ Brief(q) /\ Brief(Append(q, "release"))
        /\ \A u \in BOOLEAN : SessionAfter(q, u) => u /\ ~d.closeAck
    <2>1. CASE d.closeAck
      <3>1. q = <<"end">>
        BY <1>3, <2>1
      <3>2. /\ ~Reboots(<<"end">>) /\ LockAfter(<<"end">>, TRUE)
            /\ \A u \in BOOLEAN : ~SessionAfter(<<"end">>, u)
        BY OneNote
      <3>3. <<"end">> \in Seq(Note) /\ Brief(<<"end">>)
        BY NoteTypes DEF Note
      <3>4. Brief(Append(<<"end">>, "release"))
        <4>1. Append(<<"end">>, "release") = <<"end", "release">>
          BY AppendOne
        <4> QED BY <4>1 DEF Brief
      <3> HIDE DEF q
      <3> QED BY <3>1, <3>2, <3>3, <3>4
    <2>2. CASE ~d.closeAck
      <3>1. q = <<>>
        BY <1>3, <2>2
      <3>2. /\ ~Reboots(<<>>) /\ LockAfter(<<>>, TRUE)
            /\ \A u \in BOOLEAN : SessionAfter(<<>>, u) => u
        BY OneNote
      <3>3. Append(<<>>, "release") = <<"release">> /\ "release" \in Note
        BY DEF Note
      <3> HIDE DEF q
      <3> QED BY <2>2, <3>1, <3>2, <3>3, NoteTypes
    <2> QED BY <2>1, <2>2
  <1>5. StopDone(d)[2] = IF d.used THEN q ELSE Append(q, "release")
    BY DEF StopDone
  <1> HIDE DEF q
  <1>6. "release" \in Note
    BY DEF Note
  <1>7. /\ Append(q, "release") \in Seq(Note) /\ ~Reboots(Append(q, "release"))
        /\ Brief(Append(q, "release"))
        /\ ~LockAfter(Append(q, "release"), TRUE)
        /\ \A u \in BOOLEAN : SessionAfter(Append(q, "release"), u) => SessionAfter(q, u)
    <2>1. Append(q, "release") \in Seq(Note)
      BY <1>4, <1>6, Queue
    <2>2. /\ ~Reboots(Append(q, "release")) /\ ~LockAfter(Append(q, "release"), TRUE)
      BY <1>4, <1>6, NoteAppend
    <2>3. \A u \in BOOLEAN : SessionAfter(Append(q, "release"), u) => SessionAfter(q, u)
      BY <1>4, <1>6, NoteAppend
    <2> QED BY <1>4, <2>1, <2>2, <2>3
  <1>8. d.engine # "idle"
    OBVIOUS
  <1>9. \A u \in BOOLEAN : SessionAfter(StopDone(d)[2], u) => u /\ ~d.closeAck
    BY <1>4, <1>5, <1>7
  <1>10. Tells(d, e, StopDone(d)[2])
    <2>1. CASE d.used
      BY <1>1, <1>2, <1>4, <1>5, <1>8, <2>1 DEF Tells
    <2>2. CASE ~d.used
      BY <1>1, <1>2, <1>5, <1>7, <1>8, <2>2 DEF Tells
    <2> QED BY <2>1, <2>2 DEF Daemon
  <1>11. d.closeAck \in BOOLEAN /\ e.closeAck \in BOOLEAN
    BY DoneTypes DEF Daemon, e
  <1> QED BY <1>1, <1>9, <1>10, <1>11 DEF e

\* What a request of the HAL sets in mnld's record, apart from what the notes tell.
Serves(c, d, e, q) ==
    /\ q \in Seq(Note) /\ ~Reboots(q) /\ Brief(q)
    /\ LockAfter(q, d.engine # "idle") <=> e.engine # "idle"
    /\ EngineOf(e)
    /\ e.up = d.up
    /\ e.used <=> Turn(c, d.used, {"start"}, {"stop", "reboot"})
    /\ e.init <=> Turn(c, d.init, {"init"}, {"cleanup"})
    /\ c \in {"measOn", "measOff"} => e.engine = d.engine /\ q = <<>>
    /\ \A u \in BOOLEAN : c # "reboot" /\ SessionAfter(q, u) =>
          \/ e.used \/ e.closeAck
          \/ u /\ c \notin {"start", "stop"} /\ e.used = d.used /\ e.closeAck = d.closeAck

\* hal_reboot, hal_gps_* and hal_set_gps_measurement
LEMMA HandleServes ==
    ASSUME mnld \in Daemon, EngineOf(mnld), NEW c \in Cmd
    PROVE  Serves(c, mnld, Handle(c)[1], Handle(c)[2])
  <1>1. CASE c = "reboot"
    <2> DEFINE d == [mnld EXCEPT !.used = FALSE, !.openAck = FALSE, !.closeAck = FALSE]
    <2>1. d \in Daemon /\ ~d.used /\ ~d.openAck /\ d.engine = mnld.engine /\ d.up = mnld.up
          /\ d.init = mnld.init
      BY DEF Daemon
    <2>2. Handle(c) = FsmStop(d)
      BY <1>1 DEF Handle
    <2> HIDE DEF d
    <2>3. Tells(d, Handle(c)[1], Handle(c)[2])
      BY <2>1, <2>2, FsmStopTells
    <2> QED BY <1>1, <2>1, <2>3 DEF Serves, Tells, Turn
  <1>2. CASE c = "start"
    <2> DEFINE d == [mnld EXCEPT !.used = TRUE, !.openAck = TRUE, !.closeAck = FALSE]
    <2>1. d \in Daemon /\ d.used /\ d.openAck /\ ~d.closeAck /\ d.engine = mnld.engine
          /\ d.up = mnld.up /\ d.init = mnld.init
      BY DEF Daemon
    <2>2. Handle(c) = FsmStart(d)
      BY <1>2 DEF Handle
    <2> HIDE DEF d
    <2>3. Tells(d, Handle(c)[1], Handle(c)[2])
      BY <2>1, <2>2, FsmStartTells
    <2> QED BY <1>2, <2>1, <2>3 DEF Serves, Tells, Turn
  <1>3. CASE c = "stop"
    <2> DEFINE d == [mnld EXCEPT !.used = FALSE, !.openAck = FALSE, !.closeAck = TRUE]
    <2>1. d \in Daemon /\ ~d.used /\ ~d.openAck /\ d.closeAck /\ d.engine = mnld.engine
          /\ d.up = mnld.up /\ d.init = mnld.init
      BY DEF Daemon
    <2>2. Handle(c) = FsmStop(d)
      BY <1>3 DEF Handle
    <2> HIDE DEF d
    <2>3. /\ Tells(d, Handle(c)[1], Handle(c)[2])
          /\ \A u \in BOOLEAN : SessionAfter(Handle(c)[2], u) => Handle(c)[1].closeAck
      BY <2>1, <2>2, FsmStopTells
    <2> QED BY <1>3, <2>1, <2>3 DEF Serves, Tells, Turn
  <1>4. CASE c \in {"init", "cleanup", "measOn", "measOff"}
    <2> DEFINE e == Handle(c)[1]
    <2>1. /\ e.up = mnld.up /\ e.used = mnld.used /\ e.closeAck = mnld.closeAck
          /\ e.engine = mnld.engine /\ e.openAck = mnld.openAck
          /\ e.init <=> Turn(c, mnld.init, {"init"}, {"cleanup"})
      BY <1>4 DEF Handle, Daemon, Turn
    <2>2. Handle(c)[2] = <<>>
      BY <1>4 DEF Handle
    <2> HIDE DEF e
    <2>3. EngineOf(e)
      BY <2>1 DEF EngineOf
    <2>4. /\ LockAfter(<<>>, mnld.engine # "idle") <=> mnld.engine # "idle"
          /\ ~Reboots(<<>>)
          /\ \A u \in BOOLEAN : SessionAfter(<<>>, u) => u
      BY OneNote
    <2>5. e.used <=> Turn(c, mnld.used, {"start"}, {"stop", "reboot"})
      BY <1>4, <2>1 DEF Turn, Daemon
    <2>6. Serves(c, mnld, e, <<>>)
      BY <1>4, <2>1, <2>3, <2>4, <2>5, NoteTypes DEF Serves
    <2> QED BY <2>2, <2>6 DEF e
  <1> QED BY <1>1, <1>2, <1>3, <1>4 DEF Cmd

-----------------------------------------------------------------------------
\* One step of a thread of the service, as what it changes

Names == {"init", "start", "stop", "cleanup"}
MeasCmd == {"measOn", "measOff"}

\* The operations of some kinds, with some arguments.
Ops(kinds, names) == {o \in Op : o[1] \in kinds /\ o[2] \in names}

\* What the kind of an operation says of its argument.
LEMMA OpParts ==
    ASSUME NEW o \in Op
    PROVE  /\ o[1] \in {"intent", "cmd", "mark"} => o[2] \in Names
           /\ o[1] = "forward" => o[2] \in MeasCmd
           /\ o[1] \in {"intent", "cmd", "mark", "forward", "null"}
  BY DEF Op, Names, MeasCmd

\* The operations the code builds.
LEMMA OpTypes ==
    ASSUME NEW c \in Names
    PROVE  /\ <<"intent", c>> \in Op /\ <<"intent", c>>[1] = "intent" /\ <<"intent", c>>[2] = c
           /\ <<"cmd", c>> \in Op /\ <<"cmd", c>>[1] = "cmd" /\ <<"cmd", c>>[2] = c
           /\ <<"mark", c>> \in Op /\ <<"mark", c>>[1] = "mark" /\ <<"mark", c>>[2] = c
  BY DEF Op, Names

\* Thread t runs the operation op: sent says whether its datagram got through.
Ran(t, op, sent) ==
    /\ op \in Op /\ op = Head(todo[t]) /\ todo[t] # <<>> /\ todo[t] \in Seq(Op)
    /\ Tail(todo[t]) \in Seq(Op)
    /\ sent \in BOOLEAN
    /\ sent => mnld.up /\ (op[1] = "forward" \/ (op[1] = "cmd" /\ hal.state # "unknown"))
    /\ ~sent => todo' = [todo EXCEPT ![t] = Tail(@)] /\ UNCHANGED h2m
    /\ sent => h2m' = Append(h2m, op[2])
    /\ sent /\ op[1] = "cmd" => todo' = [todo EXCEPT ![t] = <<<<"mark", op[2]>>>> \o Tail(@)]
    /\ op[1] # "cmd" => todo' = [todo EXCEPT ![t] = Tail(@)]
    /\ hal'.bound = hal.bound
    /\ hal'.intent = IF op[1] = "intent" THEN op[2] ELSE hal.intent
    /\ hal'.state = IF op[1] = "mark" THEN op[2] ELSE hal.state
    /\ gnss'.iface = (gnss.iface /\ op[1] # "null") /\ gnss'.held = gnss.held
    /\ UNCHANGED <<fw, mnld, m2h>>
    /\ past'.fwDeaths = past.fwDeaths /\ past'.halDeaths = past.halDeaths
    /\ past'.died = past.died
    /\ past'.raced = (past.raced \/ \A u \in Thread : todo[u] # <<>>)

\* What the step does to the datagrams given up on: a request that is not lost was sent, or
\* mnld is down, or the HAL has no resources.
Misses(op, sent) ==
    /\ Told' => Told
    /\ Told' /\ op[1] = "cmd" /\ hal.state # "unknown" /\ mnld.up => sent
    /\ \A n \in {"request", "release", "end"} : n \in lost'.of <=> n \in lost.of

\* What sending, or not being able to, does to the datagrams given up on.
LEMMA MissesSent ==
    ASSUME lost \in Losses, NEW c \in Cmd \ {"reboot"}, NEW sent \in BOOLEAN,
           ToMnld(c, sent, lost.of)
    PROVE  /\ Told' => Told
           /\ Told' /\ c \in {"init", "start", "stop", "cleanup"} /\ mnld.up => sent
           /\ \A n \in {"request", "release", "end"} : n \in lost'.of <=> n \in lost.of
  <1>1. PICK o : o = lost'.of
    OBVIOUS
  <1>2. \/ o = lost.of
        \/ o = lost.of \cup {c} /\ ~sent /\ mnld.up
    BY <1>1 DEF ToMnld, Losses
  <1>3. (sent \/ ~mnld.up) \/ o = lost.of \cup {c}
    BY <1>1 DEF ToMnld
  <1>4. \A n \in {"request", "release", "end"} : n # c
    BY DEF Cmd
  <1>5. Told' <=> o \cap {"reboot", "init", "start", "stop", "cleanup"} = {}
    BY <1>1 DEF Told
  <1> QED BY <1>1, <1>2, <1>3, <1>4, <1>5 DEF Told

\* A step of a thread runs the first operation of its work.
LEMMA StepEffect ==
    ASSUME TypeOK, NEW t \in Thread, Step(t)
    PROVE  \E sent : Ran(t, Head(todo[t]), sent) /\ Misses(Head(todo[t]), sent)
  <1> DEFINE op == Head(todo[t])
  <1>1. /\ UNCHANGED <<fw, mnld, m2h>> /\ Run(t, op)
        /\ past'.fwDeaths = past.fwDeaths /\ past'.halDeaths = past.halDeaths
        /\ past'.died = past.died
        /\ past'.raced = (past.raced \/ \A u \in Thread : todo[u] # <<>>)
    BY DEF Step, TypeOK, Past
  <1>2. /\ op \in Op /\ todo[t] # <<>> /\ todo[t] \in Seq(Op) /\ Tail(todo[t]) \in Seq(Op)
    BY Queue DEF Step, TypeOK
  <1>3. hal \in HalContext /\ gnss \in Service /\ lost \in Losses
    BY DEF TypeOK
  <1> HIDE DEF op
  <1>4. CASE op[1] = "intent"
    <2>1. /\ hal' = [hal EXCEPT !.intent = op[2]] /\ UNCHANGED <<gnss, h2m, lost>>
          /\ todo' = [todo EXCEPT ![t] = Tail(@)]
      BY <1>1, <1>4 DEF Run
    <2>2. /\ hal'.bound = hal.bound /\ hal'.intent = op[2] /\ hal'.state = hal.state
          /\ gnss'.iface = gnss.iface /\ gnss'.held = gnss.held /\ gnss.iface \in BOOLEAN
      BY <1>3, <2>1 DEF HalContext, Service
    <2>3. Ran(t, op, FALSE)
      BY <1>1, <1>2, <1>4, <2>1, <2>2 DEF Ran, op
    <2>4. Misses(op, FALSE)
      BY <1>4, <2>1 DEF Misses, Told
    <2> QED BY <2>3, <2>4 DEF op
  <1>5. CASE op[1] = "mark"
    <2>1. /\ hal' = [hal EXCEPT !.state = op[2]] /\ UNCHANGED <<gnss, h2m, lost>>
          /\ todo' = [todo EXCEPT ![t] = Tail(@)]
      BY <1>1, <1>5 DEF Run
    <2>2. /\ hal'.bound = hal.bound /\ hal'.intent = hal.intent /\ hal'.state = op[2]
          /\ gnss'.iface = gnss.iface /\ gnss'.held = gnss.held /\ gnss.iface \in BOOLEAN
      BY <1>3, <2>1 DEF HalContext, Service
    <2>3. Ran(t, op, FALSE)
      BY <1>1, <1>2, <1>5, <2>1, <2>2 DEF Ran, op
    <2>4. Misses(op, FALSE)
      BY <1>5, <2>1 DEF Misses, Told
    <2> QED BY <2>3, <2>4 DEF op
  <1>6. CASE op[1] = "forward"
    <2>1. PICK sent \in BOOLEAN :
             /\ ToMnld(op[2], sent, lost.of) /\ UNCHANGED <<hal, gnss>>
             /\ todo' = [todo EXCEPT ![t] = Tail(@)]
      BY <1>1, <1>6 DEF Run
    <2>2. (sent => mnld.up) /\ h2m' = IF sent THEN Append(h2m, op[2]) ELSE h2m
      BY <2>1 DEF ToMnld
    <2>3. gnss.iface \in BOOLEAN
      BY <1>3 DEF Service
    <2>4. Ran(t, op, sent)
      BY <1>1, <1>2, <1>6, <2>1, <2>2, <2>3 DEF Ran, op
    <2>5. op[2] \in Cmd \ {"reboot"}
      BY <1>2, <1>6, OpParts DEF MeasCmd, Cmd
    <2>6. Misses(op, sent)
      BY <1>3, <1>6, <2>1, <2>5, MissesSent DEF Misses
    <2> QED BY <2>4, <2>6 DEF op
  <1>7. CASE op[1] = "null"
    <2>1. /\ gnss' = [gnss EXCEPT !.iface = FALSE] /\ UNCHANGED <<hal, h2m, lost>>
          /\ todo' = [todo EXCEPT ![t] = Tail(@)]
      BY <1>1, <1>7 DEF Run
    <2>2. gnss'.iface = FALSE /\ gnss'.held = gnss.held
      BY <1>3, <2>1 DEF Service
    <2>3. Ran(t, op, FALSE)
      BY <1>1, <1>2, <1>7, <2>1, <2>2 DEF Ran, op
    <2>4. Misses(op, FALSE)
      BY <1>7, <2>1 DEF Misses, Told
    <2> QED BY <2>3, <2>4 DEF op
  <1>8. CASE op[1] = "cmd"
    <2>1. PICK sent \in BOOLEAN :
             /\ IF hal.state # "unknown" THEN ToMnld(op[2], sent, lost.of)
                ELSE ~sent /\ UNCHANGED <<h2m, lost>>
             /\ todo' = [todo EXCEPT ![t] = IF sent THEN <<<<"mark", op[2]>>>> \o Tail(@)
                                                    ELSE Tail(@)]
             /\ UNCHANGED <<hal, gnss>>
      BY <1>1, <1>8 DEF Run, SendCmd
    <2>2. /\ sent => mnld.up /\ hal.state # "unknown" /\ h2m' = Append(h2m, op[2])
          /\ ~sent => h2m' = h2m
      BY <2>1 DEF ToMnld
    <2>3. gnss.iface \in BOOLEAN
      BY <1>3 DEF Service
    <2>4. Ran(t, op, sent)
      BY <1>1, <1>2, <1>8, <2>1, <2>2, <2>3 DEF Ran, op
    <2>5. op[2] \in Cmd \ {"reboot"} /\ op[2] \in {"init", "start", "stop", "cleanup"}
      BY <1>2, <1>8, OpParts DEF Names, Cmd
    <2>6. Misses(op, sent)
      <3>1. CASE hal.state # "unknown"
        <4>1. ToMnld(op[2], sent, lost.of)
          BY <2>1, <3>1
        <4> QED BY <1>3, <2>5, <4>1, MissesSent DEF Misses
      <3>2. CASE hal.state = "unknown"
        <4>1. UNCHANGED lost
          BY <2>1, <3>2
        <4> QED BY <3>2, <4>1 DEF Misses, Told
      <3> QED BY <3>1, <3>2
    <2> QED BY <2>4, <2>6 DEF op
  <1> QED BY <1>2, <1>4, <1>5, <1>6, <1>7, <1>8, OpParts DEF op

\* The other thread's work is left alone, and this one's loses its first operation or has it
\* replaced by the mark.
LEMMA RanTodo ==
    ASSUME TypeOK, NEW t \in Thread, NEW op, NEW sent, Ran(t, op, sent), NEW S \in SUBSET Op,
           op[1] = "cmd" => <<"mark", op[2]>> \in S
    PROVE  /\ \A u \in Thread : u # t => todo'[u] = todo[u]
           /\ todo[t] \in Seq(S) => op \in S /\ todo'[t] \in Seq(S)
  <1>1. todo \in [Thread -> Seq(Op)]
    BY DEF TypeOK
  <1>2. op = Head(todo[t]) /\ todo[t] # <<>>
    BY DEF Ran
  <1>3. CASE todo' = [todo EXCEPT ![t] = Tail(@)]
    BY <1>1, <1>2, <1>3, Queue
  <1>4. CASE op[1] = "cmd" /\ todo' = [todo EXCEPT ![t] = <<<<"mark", op[2]>>>> \o Tail(@)]
    <2>1. PICK m : m = <<"mark", op[2]>>
      OBVIOUS
    <2>2. todo' = [todo EXCEPT ![t] = <<m>> \o Tail(@)] /\ m \in S
      BY <1>4, <2>1
    <2>3. <<m>> \in Seq(S)
      BY <2>2, Short
    <2>4. todo[t] \in Seq(S) => op \in S /\ <<m>> \o Tail(todo[t]) \in Seq(S)
      BY <1>2, <2>3, Queue
    <2> QED BY <1>1, <2>2, <2>4
  <1> QED BY <1>3, <1>4 DEF Ran

\* A sent request leaves its mark behind.
Sends(op, sent) == op[1] = "cmd" /\ sent

\* An operation that sends nothing leaves the rest to the thread.
LEMMA RanTail ==
    ASSUME TypeOK, NEW t \in Thread, NEW op, NEW sent, Ran(t, op, sent), ~Sends(op, sent)
    PROVE  todo'[t] = Tail(todo[t])
  BY DEF Ran, Sends, TypeOK

\* What a thread's work leads to, before and after an operation of it.
LEMMA RanAfter ==
    ASSUME TypeOK, NEW t \in Thread, NEW op, NEW sent, Ran(t, op, sent),
           NEW u \in BOOLEAN, NEW on, NEW off
    PROVE  /\ After(todo[t], u, on, off) <=> After(Tail(todo[t]), Turn(op, u, on, off), on, off)
           /\ ~Sends(op, sent) => (After(todo'[t], u, on, off) <=> After(Tail(todo[t]), u, on, off))
           /\ Sends(op, sent) => (After(todo'[t], u, on, off)
                   <=> After(Tail(todo[t]), Turn(<<"mark", op[2]>>, u, on, off), on, off))
  <1>1. todo \in [Thread -> Seq(Op)]
    BY DEF TypeOK
  <1>2. /\ op = Head(todo[t]) /\ todo[t] # <<>> /\ todo[t] \in Seq(Op) /\ op \in Op
        /\ Tail(todo[t]) \in Seq(Op)
    BY DEF Ran
  <1>3. After(todo[t], u, on, off) <=> After(Tail(todo[t]), Turn(op, u, on, off), on, off)
    BY <1>2, AfterHead
  <1>4. ASSUME ~Sends(op, sent)
        PROVE  After(todo'[t], u, on, off) <=> After(Tail(todo[t]), u, on, off)
    <2>1. todo'[t] = Tail(todo[t])
      BY <1>1, <1>4 DEF Ran, Sends
    <2> QED BY <2>1
  <1>5. ASSUME Sends(op, sent)
        PROVE  After(todo'[t], u, on, off)
                 <=> After(Tail(todo[t]), Turn(<<"mark", op[2]>>, u, on, off), on, off)
    <2>1. PICK m : m = <<"mark", op[2]>>
      OBVIOUS
    <2>2. m \in Op
      BY <1>2, <1>5, <2>1, OpParts, OpTypes DEF Sends
    <2>3. todo'[t] = <<m>> \o Tail(todo[t])
      BY <1>1, <1>5, <2>1 DEF Ran, Sends
    <2>4. After(<<m>> \o Tail(todo[t]), u, on, off)
            <=> After(Tail(todo[t]), Turn(m, u, on, off), on, off)
      BY <1>2, <2>2, AfterPush
    <2> QED BY <2>1, <2>3, <2>4
  <1> QED BY <1>3, <1>4, <1>5

-----------------------------------------------------------------------------
\* The intent once the binder thread has done what it has to do

\* The intent i becomes c by the operations of q.
Means(q, i, c) == After(q, i = c, Ops({"intent"}, {c}), Ops({"intent"}, Names \ {c}))

\* An operation of the binder thread does not change what its call means.
LEMMA MeansKept ==
    ASSUME TypeOK, NEW op, NEW sent, Ran("binder", op, sent), NEW c
    PROVE  Means(todo'.binder, hal'.intent, c) <=> Means(todo.binder, hal.intent, c)
  <1> DEFINE on == Ops({"intent"}, {c})
             off == Ops({"intent"}, Names \ {c})
  <1>1. op \in Op
    BY DEF Ran
  <1>2. Turn(op, hal.intent = c, on, off) = (hal'.intent = c)
    <2>1. CASE op[1] = "intent"
      BY <1>1, <2>1, OpParts DEF Ran, Turn, Ops
    <2>2. CASE op[1] # "intent"
      BY <1>1, <2>2 DEF Ran, Turn, Ops
    <2> QED BY <2>1, <2>2
  <1>3. Sends(op, sent) => Turn(<<"mark", op[2]>>, hal'.intent = c, on, off) = (hal'.intent = c)
    <2>1. ASSUME Sends(op, sent) PROVE <<"mark", op[2]>> \notin on /\ <<"mark", op[2]>> \notin off
      BY DEF Ops
    <2> QED BY <2>1 DEF Turn
  <1> HIDE DEF on, off
  <1>4. "binder" \in Thread
    BY DEF Thread
  <1>5. PICK u \in BOOLEAN : u = (hal.intent = c)
    OBVIOUS
  <1>6. PICK v \in BOOLEAN : v = (hal'.intent = c)
    OBVIOUS
  <1>7. After(todo["binder"], u, on, off) <=> After(Tail(todo["binder"]), v, on, off)
    <2>1. Turn(op, u, on, off) = v
      BY <1>2, <1>5, <1>6
    <2>2. After(todo["binder"], u, on, off)
            <=> After(Tail(todo["binder"]), Turn(op, u, on, off), on, off)
      BY <1>4, RanAfter
    <2> QED BY <2>1, <2>2
  <1>8. After(todo'["binder"], v, on, off) <=> After(Tail(todo["binder"]), v, on, off)
    <2>1. CASE Sends(op, sent)
      <3>1. Turn(<<"mark", op[2]>>, v, on, off) = v
        BY <1>3, <1>6, <2>1
      <3>2. After(todo'["binder"], v, on, off)
              <=> After(Tail(todo["binder"]), Turn(<<"mark", op[2]>>, v, on, off), on, off)
        BY <1>4, <2>1, RanAfter
      <3> QED BY <3>1, <3>2
    <2>2. CASE ~Sends(op, sent)
      BY <1>4, <2>2, RanAfter
    <2> QED BY <2>1, <2>2
  <1> QED BY <1>5, <1>6, <1>7, <1>8 DEF Means, on, off

\* The sequences of operations of the calls.
DisableOps == Gpsinf("stop") \o Gpsinf("cleanup")
DeathOps == <<<<"null", "iface">>>> \o Gpsinf("stop")
              \o <<<<"forward", "measOff">>>> \o Gpsinf("cleanup")

\* gpsinf_*: the intent, then the request.
LEMMA GpsinfParts ==
    ASSUME NEW c \in Names
    PROVE  /\ Gpsinf(c) # <<>> /\ Gpsinf(c) \in Seq(Op)
           /\ Head(Gpsinf(c)) = <<"intent", c>> /\ Tail(Gpsinf(c)) = <<<<"cmd", c>>>>
           /\ \A S : <<"intent", c>> \in S /\ <<"cmd", c>> \in S => Gpsinf(c) \in Seq(S)
  <1>1. PICK i : i = <<"intent", c>>
    OBVIOUS
  <1>2. PICK d : d = <<"cmd", c>>
    OBVIOUS
  <1>3. Gpsinf(c) = <<i, d>>
    BY <1>1, <1>2 DEF Gpsinf
  <1>4. i \in Op /\ d \in Op
    BY <1>1, <1>2, OpTypes
  <1>5. <<i, d>> # <<>> /\ Head(<<i, d>>) = i /\ Tail(<<i, d>>) = <<d>>
    OBVIOUS
  <1>6. \A S : i \in S /\ d \in S => <<i, d>> \in Seq(S)
    BY Short
  <1> QED BY <1>1, <1>2, <1>3, <1>4, <1>5, <1>6

\* What a call leads to.
LEMMA AfterGpsinf ==
    ASSUME NEW c \in Names, NEW u \in BOOLEAN, NEW on, NEW off
    PROVE  After(Gpsinf(c), u, on, off)
             <=> Turn(<<"cmd", c>>, Turn(<<"intent", c>>, u, on, off), on, off)
  BY AfterPair DEF Gpsinf

\* A disable is a stop and then a cleanup.
LEMMA AfterDisable ==
    ASSUME NEW u \in BOOLEAN, NEW on, NEW off
    PROVE  After(DisableOps, u, on, off)
             <=> After(Gpsinf("cleanup"), After(Gpsinf("stop"), u, on, off), on, off)
  <1>1. Gpsinf("stop") \in Seq(Op) /\ Gpsinf("cleanup") \in Seq(Op)
    BY GpsinfParts DEF Names
  <1> QED BY <1>1, AfterConcat DEF DisableOps

\* handleHidlDeath is the same as far as only those two count.
LEMMA AfterDeath ==
    ASSUME NEW u \in BOOLEAN, NEW on, NEW off,
           <<"null", "iface">> \notin on, <<"null", "iface">> \notin off,
           <<"forward", "measOff">> \notin on, <<"forward", "measOff">> \notin off
    PROVE  After(DeathOps, u, on, off) <=> After(DisableOps, u, on, off)
  <1>1. PICK n : n = <<"null", "iface">>
    OBVIOUS
  <1>2. PICK f : f = <<"forward", "measOff">>
    OBVIOUS
  <1>3. PICK p : p = <<n>>
    OBVIOUS
  <1>4. PICK r : r = <<f>>
    OBVIOUS
  <1>5. n \in Op /\ f \in Op
    BY <1>1, <1>2 DEF Op
  <1>6. p \in Seq(Op) /\ r \in Seq(Op) /\ Len(p) = 1 /\ p[1] = n /\ Len(r) = 1 /\ r[1] = f
    BY <1>3, <1>4, <1>5
  <1>7. PICK s : s = Gpsinf("stop")
    OBVIOUS
  <1>8. PICK k : k = Gpsinf("cleanup")
    OBVIOUS
  <1>9. s \in Seq(Op) /\ k \in Seq(Op)
    BY <1>7, <1>8, GpsinfParts DEF Names
  <1>10. DeathOps = ((p \o s) \o r) \o k
    BY <1>1, <1>2, <1>3, <1>4, <1>7, <1>8 DEF DeathOps
  <1>11. p \o s \in Seq(Op) /\ (p \o s) \o r \in Seq(Op)
    BY <1>6, <1>9, Queue
  <1>12. After(DeathOps, u, on, off) <=> After(k, After((p \o s) \o r, u, on, off), on, off)
    BY <1>9, <1>10, <1>11, AfterConcat
  <1>13. After((p \o s) \o r, u, on, off) = After(r, After(p \o s, u, on, off), on, off)
    <2>1. After((p \o s) \o r, u, on, off) <=> After(r, After(p \o s, u, on, off), on, off)
      BY <1>6, <1>11, AfterConcat
    <2> QED BY <2>1, AfterBoolean
  <1>14. After(p \o s, u, on, off) = After(s, After(p, u, on, off), on, off)
    <2>1. After(p \o s, u, on, off) <=> After(s, After(p, u, on, off), on, off)
      BY <1>6, <1>9, AfterConcat
    <2> QED BY <2>1, AfterBoolean
  <1>15. \A v \in BOOLEAN : After(p, v, on, off) = v /\ After(r, v, on, off) = v
    <2>1. \A v \in BOOLEAN : Turn(n, v, on, off) = v /\ Turn(f, v, on, off) = v
      BY <1>1, <1>2 DEF Turn
    <2> QED BY <1>6, <2>1, AfterOne, AfterBoolean
  <1>16. After(DeathOps, u, on, off) <=> After(k, After(s, u, on, off), on, off)
    BY <1>12, <1>13, <1>14, <1>15, AfterBoolean
  <1> QED BY <1>7, <1>8, <1>16, AfterDisable

\* A call means its own name; after a disable or a death the intent is cleanup.
LEMMA MeansCall ==
    ASSUME NEW i, NEW c, NEW d \in Names
    PROVE  /\ Means(Gpsinf(d), i, c) <=> c = d
           /\ Means(DisableOps, i, c) <=> c = "cleanup"
           /\ Means(DeathOps, i, c) <=> c = "cleanup"
           /\ Means(<<>>, i, c) <=> i = c
  <1> DEFINE on == Ops({"intent"}, {c})
             off == Ops({"intent"}, Names \ {c})
  <1>1. ASSUME NEW e \in Names, NEW u \in BOOLEAN
        PROVE  After(Gpsinf(e), u, on, off) <=> c = e
    <2>1. Turn(<<"intent", e>>, u, on, off) = (c = e)
      BY OpTypes DEF Turn, Ops
    <2>2. \A v \in BOOLEAN : Turn(<<"cmd", e>>, v, on, off) = v
      BY OpTypes DEF Turn, Ops
    <2> HIDE DEF on, off
    <2>3. Turn(<<"cmd", e>>, Turn(<<"intent", e>>, u, on, off), on, off) = (c = e)
      BY <2>1, <2>2
    <2> QED BY <2>3, AfterGpsinf
  <1>2. /\ <<"null", "iface">> \notin on /\ <<"null", "iface">> \notin off
        /\ <<"forward", "measOff">> \notin on /\ <<"forward", "measOff">> \notin off
    BY DEF Ops
  <1> HIDE DEF on, off
  <1>3. "stop" \in Names /\ "cleanup" \in Names
    BY DEF Names
  <1>4. After(DisableOps, i = c, on, off) <=> c = "cleanup"
    BY <1>1, <1>3, AfterDisable, AfterBoolean
  <1>5. After(DeathOps, i = c, on, off) <=> c = "cleanup"
    BY <1>2, <1>4, AfterDeath
  <1>6. After(<<>>, i = c, on, off) <=> i = c
    BY AfterNone
  <1> QED BY <1>1, <1>4, <1>5, <1>6 DEF Means, on, off

\* The intent is one thing.
LEMMA MeansOne ==
    ASSUME NEW q \in Seq(Op), NEW i, NEW c, NEW d, c # d, Means(q, i, c)
    PROVE  ~Means(q, i, d)
  <1>1. ASSUME Means(q, i, d) PROVE FALSE
    <2> DEFINE I(j) == q[j][1] = "intent"
    <2>1. \A j \in 1 .. Len(q) : q[j] \in Op
      OBVIOUS
    <2>2. \A j \in 1 .. Len(q) : \A e : q[j] \in Ops({"intent"}, {e}) <=> I(j) /\ q[j][2] = e
      BY <2>1 DEF Ops
    <2>3. \A j \in 1 .. Len(q) : \A e :
             q[j] \in Ops({"intent"}, Names \ {e}) <=> I(j) /\ q[j][2] # e
      BY <2>1, OpParts DEF Ops
    <2> HIDE DEF I
    <2>4. ASSUME NEW e, Means(q, i, e)
          PROVE  \/ \E j \in 1 .. Len(q) : I(j) /\ q[j][2] = e /\
                       \A k \in j + 1 .. Len(q) : ~(I(k) /\ q[k][2] # e)
                 \/ i = e /\ \A j \in 1 .. Len(q) : ~(I(j) /\ q[j][2] # e)
      <3> DEFINE on == Ops({"intent"}, {e})
                 off == Ops({"intent"}, Names \ {e})
      <3>1. After(q, i = e, on, off)
        BY <2>4 DEF Means
      <3>2. \A j \in 1 .. Len(q) : q[j] \in on => I(j) /\ q[j][2] = e
        BY <2>2
      <3>3. \A j \in 1 .. Len(q) : I(j) /\ q[j][2] # e => q[j] \in off
        BY <2>3
      <3>4. \A j \in 1 .. Len(q) : \A k \in j + 1 .. Len(q) : k \in 1 .. Len(q)
        OBVIOUS
      <3> HIDE DEF on, off
      <3>5. CASE \E j \in 1 .. Len(q) : q[j] \in on /\ \A k \in j + 1 .. Len(q) : q[k] \notin off
        BY <3>2, <3>3, <3>4, <3>5
      <3>6. CASE i = e /\ \A j \in 1 .. Len(q) : q[j] \notin off
        BY <3>3, <3>6
      <3> QED BY <3>1, <3>5, <3>6 DEF After
    <2>5. \/ \E j \in 1 .. Len(q) : I(j) /\ q[j][2] = c /\
                   \A k \in j + 1 .. Len(q) : ~(I(k) /\ q[k][2] # c)
          \/ i = c /\ \A j \in 1 .. Len(q) : ~(I(j) /\ q[j][2] # c)
      BY <2>4
    <2>6. \/ \E j \in 1 .. Len(q) : I(j) /\ q[j][2] = d /\
                   \A k \in j + 1 .. Len(q) : ~(I(k) /\ q[k][2] # d)
          \/ i = d /\ \A j \in 1 .. Len(q) : ~(I(j) /\ q[j][2] # d)
      BY <1>1, <2>4
    <2> QED BY <2>5, <2>6
  <1> QED BY <1>1

-----------------------------------------------------------------------------
\* The order the threads keep, whoever dies

NoMark == {o \in Op : o[1] # "mark"}
WorkOp == {o \in Op : o[1] \in {"cmd", "mark"}}
NoIntent == {o \in Op : o[1] # "intent"}

\* The worker and the marks need the socket, and the worker only sends again.
Sockets ==
    /\ hal.bound <=> hal.state # "unknown"
    /\ ~hal.bound => todo.worker = <<>> /\ todo.binder \in Seq(NoMark)
    /\ todo.worker \in Seq(WorkOp)

\* Before the first setCallback has run, nothing has.
FirstCall ==
    hal.intent = "unknown" =>
        /\ todo.worker = <<>>
        /\ \/ todo.binder = Gpsinf("init")
           \/ todo.binder = <<>> /\ ~fw.enabled /\ ~gnss.iface

\* Once the framework has enabled the provider, the intent is to have it initialised.
EnabledCall ==
    fw.enabled =>
        \/ todo.binder = Gpsinf("init")
        \/ /\ hal.intent \in {"init", "start", "stop"}
           /\ \/ todo.binder \in {Gpsinf("start"), Gpsinf("stop")}
              \/ todo.binder \in Seq(NoIntent)

\* Once it has disabled it, cleanup is the last word.
DisabledCall ==
    ~fw.enabled => \/ Means(todo.binder, hal.intent, "cleanup")
                   \/ hal.intent = "unknown" /\ todo.binder = <<>>

\* A dead mnld has forgotten its client, and its socket is gone.
DaemonDown ==
    ~mnld.up => /\ h2m = <<>> /\ mnld.engine = "idle"
                /\ ~mnld.used /\ ~mnld.init /\ ~mnld.openAck /\ ~mnld.closeAck

ServiceShape == Sockets /\ FirstCall /\ EnabledCall /\ DisabledCall
DaemonShape == DaemonDown /\ EngineOf(mnld)

\* The framework calls when the binder thread has nothing to do.
LEMMA IdleBinder ==
    ASSUME TypeOK, ServiceShape, todo.binder = <<>>
    PROVE  /\ fw.enabled => hal.intent \in {"init", "start", "stop"}
           /\ ~fw.enabled => hal.intent \in {"cleanup", "unknown"}
           /\ gnss.iface => hal.intent # "unknown"
  <1>1. Gpsinf("init") # <<>> /\ Gpsinf("start") # <<>> /\ Gpsinf("stop") # <<>>
    BY GpsinfParts DEF Names
  <1>2. Means(<<>>, hal.intent, "cleanup") <=> hal.intent = "cleanup"
    BY MeansCall DEF Names
  <1> QED BY <1>1, <1>2 DEF ServiceShape, FirstCall, EnabledCall, DisabledCall

\* Operations of a call, none of which is a mark.
LEMMA CallOps ==
    /\ \A c \in Names : Gpsinf(c) \in Seq(NoMark)
    /\ DisableOps \in Seq(NoMark) /\ DeathOps \in Seq(NoMark)
    /\ \A c \in Names : <<<<"cmd", c>>>> \in Seq(NoIntent)
    /\ \A c \in MeasCmd : <<<<"forward", c>>>> \in Seq(NoIntent) /\ <<<<"forward", c>>>> \in Seq(NoMark)
  <1>1. \A c \in Names : /\ <<"intent", c>> \in NoMark /\ <<"cmd", c>> \in NoMark
                         /\ <<"cmd", c>> \in NoIntent
    BY OpTypes DEF NoMark, NoIntent
  <1>2. \A c \in MeasCmd : <<"forward", c>> \in NoMark /\ <<"forward", c>> \in NoIntent
    BY DEF NoMark, NoIntent, Op, MeasCmd
  <1>3. <<"null", "iface">> \in NoMark
    BY DEF NoMark, Op
  <1>4. \A c \in Names : Gpsinf(c) \in Seq(NoMark)
    BY <1>1, GpsinfParts
  <1>5. \A c \in MeasCmd : <<<<"forward", c>>>> \in Seq(NoIntent) /\ <<<<"forward", c>>>> \in Seq(NoMark)
    BY <1>2, Short
  <1>6. \A c \in Names : <<<<"cmd", c>>>> \in Seq(NoIntent)
    BY <1>1, Short
  <1>7. "stop" \in Names /\ "cleanup" \in Names /\ "measOff" \in MeasCmd
    BY DEF Names, MeasCmd
  <1>8. DisableOps \in Seq(NoMark)
    BY <1>4, <1>7, Queue DEF DisableOps
  <1>9. DeathOps \in Seq(NoMark)
    <2>1. <<<<"null", "iface">>>> \in Seq(NoMark)
      BY <1>3, Short
    <2>2. <<<<"null", "iface">>>> \o Gpsinf("stop") \in Seq(NoMark)
      BY <1>4, <1>7, <2>1, Queue
    <2>3. <<<<"null", "iface">>>> \o Gpsinf("stop") \o <<<<"forward", "measOff">>>> \in Seq(NoMark)
      BY <1>5, <1>7, <2>2, Queue
    <2> QED BY <1>4, <1>7, <2>3, Queue DEF DeathOps
  <1> QED BY <1>4, <1>5, <1>6, <1>8, <1>9

\* A call: the worker's part stays, the binder's is the call's.
LEMMA CallParts ==
    ASSUME TypeOK, NEW ops, Call(ops)
    PROVE  /\ todo.binder = <<>> /\ todo'.binder = ops /\ todo'.worker = todo.worker
           /\ past'.fwDeaths = past.fwDeaths /\ past'.halDeaths = past.halDeaths
           /\ past'.died = past.died /\ past'.raced = past.raced
  <1>1. todo.binder = <<>> /\ todo' = [todo EXCEPT !.binder = ops]
    BY DEF Call
  <1>2. todo \in [Thread -> Seq(Op)] /\ past \in Past
    BY DEF TypeOK
  <1>3. past' = [past EXCEPT !.calls = @ + 1]
    BY DEF Call
  <1>4. todo'.binder = ops /\ todo'.worker = todo.worker
    BY <1>1, <1>2 DEF Thread
  <1>5. /\ past'.fwDeaths = past.fwDeaths /\ past'.halDeaths = past.halDeaths
        /\ past'.died = past.died /\ past'.raced = past.raced
    BY <1>2, <1>3 DEF Past
  <1> QED BY <1>1, <1>4, <1>5

\* The framework's calls keep the order.
LEMMA CallShape ==
    ASSUME TypeOK, ServiceShape,
           SetCallback \/ StartStop \/ Disable \/ Measure(TRUE) \/ Measure(FALSE)
    PROVE  ServiceShape'
  <1>1. CASE SetCallback
    <2>1. /\ todo.binder = <<>> /\ todo'.binder = Gpsinf("init") /\ todo'.worker = todo.worker
      BY <1>1, CallParts DEF SetCallback
    <2>2. ~fw.enabled /\ fw'.enabled
      BY <1>1 DEF SetCallback, TypeOK, Framework
    <2>3. /\ hal'.intent = hal.intent
          /\ \/ hal'.bound = hal.bound /\ hal'.state = hal.state
             \/ hal.intent = "unknown" /\ hal'.bound /\ hal'.state = "resource"
      BY <1>1 DEF SetCallback, TypeOK, HalContext
    <2>4. Gpsinf("init") \in Seq(NoMark)
      BY CallOps DEF Names
    <2>5. Sockets'
      BY <2>1, <2>3, <2>4 DEF Sockets, ServiceShape
    <2>6. FirstCall' /\ EnabledCall' /\ DisabledCall'
      BY <2>1, <2>2, <2>3 DEF ServiceShape, FirstCall, EnabledCall, DisabledCall
    <2> QED BY <2>5, <2>6 DEF ServiceShape
  <1>2. CASE StartStop
    <2>1. PICK c \in {"start", "stop"} : Call(Gpsinf(c))
      BY <1>2 DEF StartStop
    <2>2. /\ todo.binder = <<>> /\ todo'.binder = Gpsinf(c) /\ todo'.worker = todo.worker
      BY <2>1, CallParts
    <2>3. fw.enabled /\ UNCHANGED <<hal, fw, gnss>>
      BY <1>2 DEF StartStop
    <2>4. hal.intent \in {"init", "start", "stop"}
      BY <2>2, <2>3, IdleBinder
    <2>5. Gpsinf(c) \in Seq(NoMark)
      BY CallOps DEF Names
    <2>6. Sockets'
      BY <2>2, <2>3, <2>5 DEF Sockets, ServiceShape
    <2>7. FirstCall' /\ EnabledCall' /\ DisabledCall'
      BY <2>2, <2>3, <2>4 DEF FirstCall, EnabledCall, DisabledCall
    <2> QED BY <2>6, <2>7 DEF ServiceShape
  <1>3. CASE Disable
    <2>1. Call(DisableOps)
      BY <1>3 DEF Disable, DisableOps
    <2>2. /\ todo.binder = <<>> /\ todo'.binder = DisableOps /\ todo'.worker = todo.worker
      BY <2>1, CallParts
    <2>3. fw.enabled /\ ~fw'.enabled /\ UNCHANGED <<hal, gnss>>
      BY <1>3 DEF Disable, TypeOK, Framework
    <2>4. hal.intent # "unknown"
      BY <2>2, <2>3, IdleBinder
    <2>5. Sockets'
      BY <2>2, <2>3, CallOps DEF Sockets, ServiceShape
    <2>6. Means(DisableOps, hal.intent, "cleanup")
      BY MeansCall DEF Names
    <2>7. FirstCall' /\ EnabledCall' /\ DisabledCall'
      BY <2>2, <2>3, <2>4, <2>6 DEF FirstCall, EnabledCall, DisabledCall
    <2> QED BY <2>5, <2>7 DEF ServiceShape
  <1>4. ASSUME NEW on \in BOOLEAN, Measure(on) PROVE ServiceShape'
    <2> DEFINE c == IF on THEN "measOn" ELSE "measOff"
    <2>1. Call(<<<<"forward", c>>>>)
      BY <1>4 DEF Measure
    <2>2. c \in MeasCmd
      BY DEF MeasCmd
    <2> HIDE DEF c
    <2>3. /\ todo.binder = <<>> /\ todo'.binder = <<<<"forward", c>>>>
          /\ todo'.worker = todo.worker
      BY <2>1, CallParts
    <2>4. /\ fw.enabled /\ UNCHANGED <<fw, gnss>>
          /\ hal'.intent = hal.intent /\ hal'.bound = hal.bound /\ hal'.state = hal.state
      BY <1>4 DEF Measure, TypeOK, HalContext
    <2>5. hal.intent \in {"init", "start", "stop"}
      BY <2>3, <2>4, IdleBinder
    <2>6. todo'.binder \in Seq(NoMark) /\ todo'.binder \in Seq(NoIntent)
      BY <2>2, <2>3, CallOps
    <2>7. Sockets'
      BY <2>3, <2>4, <2>6 DEF Sockets, ServiceShape
    <2>8. FirstCall' /\ EnabledCall' /\ DisabledCall'
      BY <2>4, <2>5, <2>6 DEF FirstCall, EnabledCall, DisabledCall
    <2> QED BY <2>7, <2>8 DEF ServiceShape
  <1> QED BY <1>1, <1>2, <1>3, <1>4

\* The deaths of the framework and of the service.
LEMMA DeathShape ==
    ASSUME TypeOK, ServiceShape, FwDie \/ HalDie
    PROVE  ServiceShape'
  <1>1. CASE FwDie
    <2>1. /\ todo.binder = <<>> /\ gnss.iface /\ UNCHANGED <<hal, gnss>> /\ ~fw'.enabled
          /\ todo' = [todo EXCEPT !.binder = DeathOps]
      BY <1>1 DEF FwDie, FwBoot, DeathOps
    <2>2. todo'.binder = DeathOps /\ todo'.worker = todo.worker
      BY <2>1 DEF TypeOK, Thread
    <2>3. hal.intent # "unknown"
      BY <2>1, IdleBinder
    <2>4. Sockets'
      BY <2>1, <2>2, CallOps DEF Sockets, ServiceShape
    <2>5. Means(DeathOps, hal.intent, "cleanup")
      BY MeansCall DEF Names
    <2>6. FirstCall' /\ EnabledCall' /\ DisabledCall'
      BY <2>1, <2>2, <2>3, <2>5 DEF FirstCall, EnabledCall, DisabledCall
    <2> QED BY <2>4, <2>6 DEF ServiceShape
  <1>2. CASE HalDie
    <2>1. /\ hal'.intent = "unknown" /\ hal'.state = "unknown" /\ ~hal'.bound
          /\ ~gnss'.iface /\ ~fw'.enabled /\ todo'.binder = <<>> /\ todo'.worker = <<>>
      BY <1>2 DEF HalDie, HalBoot, GnssBoot, FwBoot, Thread
    <2> QED BY <2>1, Short DEF ServiceShape, Sockets, FirstCall, EnabledCall, DisabledCall
  <1> QED BY <1>1, <1>2

\* An operation of a thread.
LEMMA StepShape ==
    ASSUME TypeOK, ServiceShape, NEW t \in Thread, Step(t)
    PROVE  ServiceShape'
  <1> DEFINE op == Head(todo[t])
  <1>1. PICK sent : Ran(t, op, sent) /\ Misses(op, sent)
    BY StepEffect
  <1>2. op \in Op /\ op = Head(todo[t]) /\ todo[t] # <<>>
    BY <1>1 DEF Ran
  <1> HIDE DEF op
  <1>3. op[1] = "cmd" => <<"mark", op[2]>> \in WorkOp /\ <<"mark", op[2]>> \in NoIntent
    BY <1>2, OpParts, OpTypes DEF WorkOp, NoIntent
  <1>4. Sockets'
    <2>1. CASE hal.bound
      <3>1. hal.state # "unknown" /\ hal'.bound /\ hal'.state # "unknown"
        BY <1>1, <1>2, <2>1, OpParts DEF Ran, ServiceShape, Sockets, Names
      <3>2. todo'.worker \in Seq(WorkOp)
        <4>1. CASE t = "worker"
          BY <1>1, <1>3, <4>1, RanTodo DEF ServiceShape, Sockets, WorkOp
        <4>2. CASE t = "binder"
          BY <1>1, <1>3, <4>2, RanTodo DEF ServiceShape, Sockets, WorkOp, Thread
        <4> QED BY <4>1, <4>2 DEF Thread
      <3> QED BY <3>1, <3>2 DEF Sockets
    <2>2. CASE ~hal.bound
      <3>1. t = "binder" /\ todo.binder \in Seq(NoMark) /\ hal.state = "unknown"
            /\ todo.worker = <<>>
        BY <1>2, <2>2 DEF ServiceShape, Sockets, Thread
      <3>2. todo' = [todo EXCEPT !.binder = Tail(@)]
        BY <1>1, <3>1 DEF Ran
      <3>3. todo'.binder = Tail(todo.binder) /\ todo'.worker = <<>>
        BY <3>1, <3>2 DEF TypeOK, Thread
      <3>4. todo'.binder \in Seq(NoMark) /\ op \in NoMark
        BY <1>2, <3>1, <3>3, Queue
      <3>5. ~hal'.bound /\ hal'.state = "unknown"
        BY <1>1, <2>2, <3>1, <3>4 DEF Ran, NoMark
      <3> QED BY <3>3, <3>4, <3>5, Short DEF Sockets
    <2> QED BY <2>1, <2>2
  <1>5. CASE t = "worker"
    <2>1. op \in WorkOp
      BY <1>2, <1>5, Queue DEF ServiceShape, Sockets
    <2>2. todo'.binder = todo.binder /\ hal'.intent = hal.intent /\ UNCHANGED fw
      BY <1>1, <1>3, <1>5, <2>1, RanTodo DEF Ran, WorkOp, Thread
    <2>3. hal.intent # "unknown"
      BY <1>2, <1>5 DEF ServiceShape, FirstCall
    <2>4. FirstCall' /\ EnabledCall' /\ DisabledCall'
      BY <2>2, <2>3 DEF ServiceShape, FirstCall, EnabledCall, DisabledCall
    <2> QED BY <1>4, <2>4 DEF ServiceShape
  <1>6. CASE t = "binder"
    <2>1. UNCHANGED fw
      BY <1>1 DEF Ran
    <2>2. DisabledCall'
      <3>1. Means(todo'.binder, hal'.intent, "cleanup") <=> Means(todo.binder, hal.intent, "cleanup")
        BY <1>1, <1>6, MeansKept
      <3> QED BY <1>2, <1>6, <2>1, <3>1 DEF ServiceShape, DisabledCall
    <2>3. ASSUME NEW c \in {"init", "start", "stop"}, todo.binder = Gpsinf(c)
          PROVE  hal'.intent = c /\ todo'.binder \in Seq(NoIntent)
      <3>1. op = <<"intent", c>> /\ Tail(todo.binder) = <<<<"cmd", c>>>>
        BY <1>2, <1>6, <2>3, GpsinfParts DEF Names
      <3>2. op[1] = "intent" /\ op[2] = c
        BY <3>1
      <3>3. todo' = [todo EXCEPT !.binder = Tail(@)] /\ hal'.intent = c
        BY <1>1, <1>6, <3>2 DEF Ran
      <3>4. todo'.binder = Tail(todo.binder)
        BY <3>3 DEF TypeOK, Thread
      <3> QED BY <3>1, <3>3, <3>4, CallOps DEF Names
    <2>4. FirstCall'
      <3>1. CASE hal.intent = "unknown"
        <4>1. todo.binder = Gpsinf("init")
          BY <1>2, <1>6, <3>1 DEF ServiceShape, FirstCall
        <4> QED BY <2>3, <4>1 DEF FirstCall
      <3>2. CASE hal.intent # "unknown"
        <4>1. hal'.intent # "unknown"
          BY <1>1, <1>2, <3>2, OpParts DEF Ran, Names
        <4> QED BY <4>1 DEF FirstCall
      <3> QED BY <3>1, <3>2
    <2>5. EnabledCall'
      <3>1. SUFFICES ASSUME fw.enabled
                     PROVE  /\ hal'.intent \in {"init", "start", "stop"}
                            /\ todo'.binder \in Seq(NoIntent)
        BY <2>1 DEF EnabledCall
      <3>2. CASE todo.binder \in {Gpsinf("init"), Gpsinf("start"), Gpsinf("stop")}
        BY <2>3, <3>2
      <3>3. CASE hal.intent \in {"init", "start", "stop"} /\ todo.binder \in Seq(NoIntent)
        <4>1. op \in NoIntent /\ todo'.binder \in Seq(NoIntent)
          BY <1>1, <1>3, <1>6, <3>3, RanTodo DEF NoIntent
        <4>2. hal'.intent = hal.intent
          BY <1>1, <4>1 DEF Ran, NoIntent
        <4> QED BY <3>3, <4>1, <4>2
      <3> QED BY <3>1, <3>2, <3>3 DEF ServiceShape, EnabledCall
    <2> QED BY <1>4, <2>2, <2>4, <2>5 DEF ServiceShape
  <1> QED BY <1>5, <1>6 DEF Thread

\* What update_mnld_reboot sends again.
LEMMA ResendParts ==
    ASSUME TypeOK
    PROVE  /\ Resend \in Seq(WorkOp)
           /\ hal.intent \in {"cleanup", "unknown"} <=> Resend = <<>>
           /\ hal.intent = "start" => Resend = <<<<"cmd", "init">>, <<"cmd", "start">>>>
           /\ hal.intent \in {"init", "stop"} => Resend = <<<<"cmd", "init">>>>
  <1>1. PICK i : i = <<"cmd", "init">>
    OBVIOUS
  <1>2. PICK s : s = <<"cmd", "start">>
    OBVIOUS
  <1>3. i \in WorkOp /\ s \in WorkOp
    BY <1>1, <1>2, OpTypes DEF WorkOp, Names
  <1>4. <<i>> # <<>> /\ <<i, s>> # <<>>
    OBVIOUS
  <1>5. <<i>> \in Seq(WorkOp) /\ <<i, s>> \in Seq(WorkOp) /\ <<>> \in Seq(WorkOp)
    BY <1>3, Short
  <1>6. hal.intent \in {"cleanup", "unknown", "start", "init", "stop"}
    BY DEF TypeOK, HalContext, GpsState
  <1>7. Resend = (CASE hal.intent \in {"init", "stop"} -> <<i>>
                    [] hal.intent = "start" -> <<i, s>>
                    [] OTHER -> <<>>)
    BY <1>1, <1>2 DEF Resend
  <1> QED BY <1>1, <1>2, <1>4, <1>5, <1>6, <1>7

\* The worker handles the note m.
Heeds(m) ==
    /\ hal.bound /\ todo.worker = <<>> /\ m2h # <<>> /\ m = Head(m2h) /\ m \in Note
    /\ m2h' = Tail(m2h)
    /\ UNCHANGED <<hal, mnld, h2m, lost>>
    /\ todo'.binder = todo.binder
    /\ todo'.worker = IF m = "reboot" THEN Resend ELSE <<>>
    /\ gnss'.iface = gnss.iface /\ fw'.alive = fw.alive /\ fw'.enabled = fw.enabled
    /\ gnss'.held = IF m \in {"request", "release"} /\ gnss.iface THEN m = "request" ELSE gnss.held
    /\ fw'.lock = IF m \in {"request", "release"} /\ Heard /\ ~(m = "request" /\ gnss.held)
                  THEN m = "request" ELSE fw.lock
    /\ fw'.session = IF m \in {"begin", "end"} /\ Heard THEN m = "begin" ELSE fw.session
    /\ past'.fwDeaths = past.fwDeaths /\ past'.halDeaths = past.halDeaths
    /\ past'.died = past.died /\ past'.raced = past.raced

\* mnl2hal_hdlr handles the first message of mnld.
LEMMA WorkerEffect == ASSUME TypeOK, WorkerRecv PROVE Heeds(Head(m2h))
  <1> DEFINE m == Head(m2h)
  <1>1. /\ hal.bound /\ todo.worker = <<>> /\ m2h # <<>>
        /\ m2h' = Tail(m2h) /\ UNCHANGED <<hal, mnld, h2m, lost>> /\ Report(m)
    BY DEF WorkerRecv
  <1>2. m \in Note
    BY <1>1, Queue DEF TypeOK
  <1> HIDE DEF m
  <1>3. /\ gnss \in Service /\ fw \in Framework /\ past \in Past /\ todo \in [Thread -> Seq(Op)]
    BY DEF TypeOK
  <1>4. CASE m = "reboot"
    <2>1. todo' = [todo EXCEPT !.worker = Resend] /\ UNCHANGED <<gnss, fw, past>>
      BY <1>1, <1>4 DEF Report
    <2>2. todo'.binder = todo.binder /\ todo'.worker = Resend
      BY <1>3, <2>1 DEF Thread
    <2> QED BY <1>1, <1>2, <1>4, <2>1, <2>2 DEF Heeds, m
  <1>5. CASE m \in {"request", "release"}
    <2>1. UpdateWakelock(m = "request") /\ UNCHANGED <<todo, past>>
      BY <1>1, <1>5 DEF Report
    <2>2. /\ gnss'.iface = gnss.iface
          /\ gnss'.held = IF gnss.iface THEN m = "request" ELSE gnss.held
      BY <1>3, <2>1 DEF UpdateWakelock, Service
    <2>3. /\ fw'.alive = fw.alive /\ fw'.enabled = fw.enabled /\ fw'.session = fw.session
          /\ fw'.lock = IF Heard /\ ~(m = "request" /\ gnss.held) THEN m = "request" ELSE fw.lock
      BY <1>3, <2>1 DEF UpdateWakelock, Framework
    <2> QED BY <1>1, <1>2, <1>5, <2>1, <2>2, <2>3 DEF Heeds, m
  <1>6. CASE m \in {"begin", "end"}
    <2>1. /\ fw' = (IF Heard THEN [fw EXCEPT !.session = (m = "begin")] ELSE fw)
          /\ UNCHANGED <<todo, gnss, past>>
      BY <1>1, <1>6 DEF Report
    <2>2. /\ fw'.alive = fw.alive /\ fw'.enabled = fw.enabled /\ fw'.lock = fw.lock
          /\ fw'.session = IF Heard THEN m = "begin" ELSE fw.session
      BY <1>3, <2>1 DEF Framework
    <2> QED BY <1>1, <1>2, <1>6, <2>1, <2>2 DEF Heeds, m
  <1>7. CASE m = "meas"
    <2>1. past' = [past EXCEPT !.null = @ \/ ~hal.meas] /\ UNCHANGED <<todo, gnss, fw>>
      BY <1>1, <1>7 DEF Report
    <2>2. /\ past'.fwDeaths = past.fwDeaths /\ past'.halDeaths = past.halDeaths
          /\ past'.died = past.died /\ past'.raced = past.raced
      BY <1>3, <2>1 DEF Past
    <2> QED BY <1>1, <1>2, <1>7, <2>1, <2>2 DEF Heeds, m
  <1> QED BY <1>2, <1>4, <1>5, <1>6, <1>7 DEF Note, m

\* The worker keeps the order.
LEMMA WorkerShape == ASSUME TypeOK, ServiceShape, WorkerRecv PROVE ServiceShape'
  <1> DEFINE m == Head(m2h)
  <1>1. Heeds(m)
    BY WorkerEffect
  <1> HIDE DEF m
  <1>2. /\ todo'.binder = todo.binder /\ UNCHANGED hal /\ hal.bound
        /\ gnss'.iface = gnss.iface /\ fw'.enabled = fw.enabled
        /\ todo'.worker \in {Resend, <<>>}
    BY <1>1 DEF Heeds
  <1>3. todo'.worker \in Seq(WorkOp) /\ (hal.intent = "unknown" => todo'.worker = <<>>)
    BY <1>2, ResendParts, Short
  <1> QED BY <1>2, <1>3 DEF ServiceShape, Sockets, FirstCall, EnabledCall, DisabledCall

-----------------------------------------------------------------------------
\* Steps of mnld, as what they change

\* Of q, which mnld sends, p arrives.
Arrives(q, p) ==
    /\ p \in Part(q) /\ m2h' = m2h \o p
    /\ lost'.of = (lost.of \ UNION {Topic(m) : m \in Range(p)}) \cup (Range(q) \ Range(p))

\* mnld goes to e, and q is sent to the HAL.
Daemons(e, q) ==
    /\ mnld' = e /\ q \in Seq(Note) /\ Brief(q)
    /\ hal.bound => \E p : Arrives(q, p)
    /\ ~hal.bound => UNCHANGED <<m2h, lost>>
    /\ UNCHANGED <<hal, todo, gnss, fw>>
    /\ past'.fwDeaths = past.fwDeaths /\ past'.halDeaths = past.halDeaths
    /\ past'.died = past.died /\ past'.raced = past.raced

\* What is sent to the HAL arrives, or is lost, if the HAL has its socket.
LEMMA HalSends ==
    ASSUME TypeOK, NEW q, ToHal(q)
    PROVE  /\ hal.bound => \E p : Arrives(q, p)
           /\ ~hal.bound => UNCHANGED <<m2h, lost>>
  <1>1. CASE hal.bound
    <2>1. PICK p \in Part(q) :
            /\ m2h' = m2h \o p
            /\ lost' = [count |-> lost.count + Len(q) - Len(p),
                        of |-> (lost.of \ UNION {Topic(m) : m \in Range(p)})
                                 \cup (Range(q) \ Range(p))]
      BY <1>1 DEF ToHal
    <2>2. lost'.of = (lost.of \ UNION {Topic(m) : m \in Range(p)}) \cup (Range(q) \ Range(p))
      BY <2>1
    <2> QED BY <1>1, <2>1, <2>2 DEF Arrives
  <1>2. CASE ~hal.bound
    <2>1. m2h' = m2h \o <<>> /\ lost' = lost
      BY <1>2 DEF ToHal
    <2>2. m2h \o <<>> = m2h
      BY DEF TypeOK
    <2> QED BY <1>2, <2>1, <2>2
  <1> QED BY <1>1, <1>2

\* Whatever of q arrives as p: a wakelock or a session that q changes and p does not is one whose
\* note is lost, and so is a report of a reboot.
Ways(q, p) ==
    /\ p \in Seq(Note) /\ m2h' = m2h \o p
    /\ Reboots(p) => Reboots(q)
    /\ Told' => Told /\ (Reboots(q) => Reboots(p))
    /\ \A w, g \in BOOLEAN :
          /\ (g => w \/ "request" \in lost.of) /\ LockAfter(q, g)
                => LockAfter(p, w) \/ "request" \in lost'.of
          /\ (w => g \/ "release" \in lost.of) /\ LockAfter(p, w)
                => LockAfter(q, g) \/ "release" \in lost'.of
          /\ SessionAfter(p, w) /\ "end" \notin lost'.of
                => SessionAfter(q, w /\ "end" \notin lost.of)

LEMMA DaemonWays ==
    ASSUME NEW q, Brief(q), NEW p, Arrives(q, p)
    PROVE  Ways(q, p)
  <1>1. PICK o : o = lost.of
    OBVIOUS
  <1>2. PICK x : x = lost'.of
    OBVIOUS
  <1>3. /\ p \in Part(q) /\ m2h' = m2h \o p
        /\ x = (o \ UNION {Topic(m) : m \in Range(p)}) \cup (Range(q) \ Range(p))
    BY <1>1, <1>2 DEF Arrives
  <1> DEFINE Hal == {"reboot", "init", "start", "stop", "cleanup"}
  <1>4. (Told <=> o \cap Hal = {}) /\ (Told' <=> x \cap Hal = {})
    BY <1>1, <1>2 DEF Told
  <1> DEFINE Held(w, g) ==
          /\ (g => w \/ "request" \in o) /\ LockAfter(q, g) => LockAfter(p, w) \/ "request" \in x
          /\ (w => g \/ "release" \in o) /\ LockAfter(p, w) => LockAfter(q, g) \/ "release" \in x
          /\ SessionAfter(p, w) /\ "end" \notin x => SessionAfter(q, w /\ "end" \notin o)
  <1>5. SUFFICES /\ p \in Seq(Note)
                 /\ Reboots(p) => Reboots(q)
                 /\ x \cap Hal = {} => o \cap Hal = {} /\ (Reboots(q) => Reboots(p))
                 /\ \A w, g \in BOOLEAN : Held(w, g)
    BY <1>1, <1>2, <1>3, <1>4 DEF Ways
  <1>6. /\ Range(<<>>) = {} /\ \A n : Range(<<n>>) = {n}
        /\ Range(<<"end", "release">>) = {"end", "release"}
    <2>1. Range(<<>>) = {}
      BY DEF Range
    <2>2. ASSUME NEW n PROVE Range(<<n>>) = {n}
      <3>1. DOMAIN <<n>> = {1} /\ <<n>>[1] = n
        OBVIOUS
      <3> QED BY <3>1 DEF Range
    <2>3. Range(<<"end", "release">>) = {"end", "release"}
      <3>1. /\ DOMAIN <<"end", "release">> = {1, 2} /\ <<"end", "release">>[1] = "end"
            /\ <<"end", "release">>[2] = "release"
        OBVIOUS
      <3> QED BY <3>1 DEF Range
    <2> QED BY <2>1, <2>2, <2>3
  <1>7. UNION {Topic(m) : m \in {}} = {} /\ \A n : UNION {Topic(m) : m \in {n}} = Topic(n)
    OBVIOUS
  <1>8. ASSUME NEW n \in Note, q = <<n>>, p \in {<<>>, <<n>>}
        PROVE  /\ p \in Seq(Note)
               /\ Reboots(p) => Reboots(q)
               /\ x \cap Hal = {} => o \cap Hal = {} /\ (Reboots(q) => Reboots(p))
               /\ \A w, g \in BOOLEAN : Held(w, g)
    <2>1. /\ \A u \in BOOLEAN : LockAfter(q, u) <=> (n = "request" \/ (u /\ n # "release"))
          /\ \A u \in BOOLEAN : SessionAfter(q, u) <=> (n = "begin" \/ (u /\ n # "end"))
          /\ Reboots(q) <=> n = "reboot"
      BY <1>8, OneNote
    <2>2. CASE p = <<>>
      <3>1. /\ \A u \in BOOLEAN : LockAfter(p, u) <=> u
            /\ \A u \in BOOLEAN : SessionAfter(p, u) <=> u
            /\ ~Reboots(p)
        BY <2>2, OneNote
      <3>2. x = o \cup {n}
        BY <1>3, <1>6, <1>7, <1>8, <2>2
      <3>3. p \in Seq(Note)
        BY <2>2, Short
      <3>4. x \cap Hal = {} => o \cap Hal = {} /\ ~Reboots(q)
        BY <2>1, <3>2
      <3> QED BY <2>1, <3>1, <3>2, <3>3, <3>4
    <2>3. CASE p = <<n>>
      <3>1. x = o \ Topic(n)
        BY <1>3, <1>6, <1>7, <1>8, <2>3
      <3>2. p \in Seq(Note) /\ p = q
        BY <1>8, <2>3, Short
      <3>3. x \cap Hal = {} => o \cap Hal = {}
        BY <3>1 DEF Topic
      <3>4. \A w, g \in BOOLEAN : Held(w, g)
        BY <2>1, <3>1, <3>2 DEF Topic
      <3> QED BY <3>2, <3>3, <3>4
    <2> QED BY <1>8, <2>2, <2>3
  <1>9. CASE q = <<"end", "release">>
    <2>1. /\ \A u \in BOOLEAN : ~LockAfter(q, u) /\ ~SessionAfter(q, u)
          /\ ~Reboots(q) /\ q \in Seq(Note)
      <3>1. \A u \in BOOLEAN : ~LockAfter(q, u)
        BY <1>9, AfterPair DEF LockAfter, Turn
      <3>2. \A u \in BOOLEAN : ~SessionAfter(q, u)
        BY <1>9, AfterPair DEF SessionAfter, Turn
      <3>3. ~Reboots(q)
        <4>1. /\ Len(<<"end", "release">>) = 2 /\ <<"end", "release">>[1] = "end"
              /\ <<"end", "release">>[2] = "release"
          OBVIOUS
        <4> QED BY <1>9, <4>1 DEF Reboots
      <3> QED BY <1>9, <3>1, <3>2, <3>3, Short DEF Note
    <2>2. ASSUME p \in {<<>>, <<"end">>, <<"release">>, q} PROVE ~Reboots(p) /\ p \in Seq(Note)
      BY <2>1, <2>2, OneNote, Short DEF Note
    <2>3. CASE p = <<>>
      <3>1. x = o \cup {"end", "release"}
        BY <1>3, <1>6, <1>7, <1>9, <2>3
      <3> QED BY <2>1, <2>2, <2>3, <3>1
    <2>4. CASE p = <<"end">>
      <3>1. x = (o \ Topic("end")) \cup {"release"}
        BY <1>3, <1>6, <1>7, <1>9, <2>4
      <3>2. x \cap Hal = {} => o \cap Hal = {}
        BY <3>1 DEF Topic
      <3>3. \A u \in BOOLEAN : ~SessionAfter(p, u)
        BY <2>4, OneNote
      <3> QED BY <2>1, <2>2, <2>4, <3>1, <3>2, <3>3
    <2>5. CASE p = <<"release">>
      <3>1. x = (o \ Topic("release")) \cup {"end"}
        BY <1>3, <1>6, <1>7, <1>9, <2>5
      <3>2. x \cap Hal = {} => o \cap Hal = {}
        BY <3>1 DEF Topic
      <3>3. \A u \in BOOLEAN : ~LockAfter(p, u)
        BY <2>5, OneNote
      <3> QED BY <2>1, <2>2, <2>5, <3>1, <3>2, <3>3
    <2>6. CASE p = q
      <3>1. x = o \ UNION {Topic(m) : m \in {"end", "release"}}
        BY <1>3, <1>6, <1>9, <2>6
      <3>2. x \cap Hal = {} => o \cap Hal = {}
        BY <3>1 DEF Topic
      <3> QED BY <2>1, <2>2, <2>6, <3>2
    <2>7. p \in {<<>>, <<"end">>, <<"release">>, q}
      <3>1. /\ DOMAIN <<"end", "release">> = {1, 2} /\ <<"end", "release">>[1] = "end"
            /\ <<"end", "release">>[2] = "release"
        OBVIOUS
      <3> QED BY <1>3, <1>9, <3>1 DEF Part
    <2> QED BY <2>3, <2>4, <2>5, <2>6, <2>7
  <1>10. CASE q = <<>>
    <2>1. p = <<>>
      <3>1. DOMAIN <<>> = {}
        OBVIOUS
      <3> QED BY <1>3, <1>10, <3>1 DEF Part
    <2>2. x = o
      BY <1>3, <1>6, <1>7, <1>10, <2>1
    <2> QED BY <1>10, <2>1, <2>2, OneNote, Short
  <1>11. ASSUME NEW n \in Note, q = <<n>> PROVE p \in {<<>>, <<n>>}
    <2>1. \A i \in DOMAIN <<n>> : <<n>>[i] = n
      OBVIOUS
    <2> QED BY <1>3, <1>11, <2>1 DEF Part
  <1> QED BY <1>8, <1>9, <1>10, <1>11 DEF Brief

\* mnld handles a request.
LEMMA RecvEffect ==
    ASSUME TypeOK, EngineOf(mnld), MnldRecv
    PROVE  \E e, q : /\ Daemons(e, q) /\ mnld.up /\ h2m # <<>> /\ Head(h2m) \in Cmd
                     /\ h2m' = Tail(h2m) /\ Serves(Head(h2m), mnld, e, q)
  <1> DEFINE r == Handle(Head(h2m))
  <1>1. /\ mnld.up /\ h2m # <<>> /\ mnld' = r[1] /\ ToHal(r[2]) /\ h2m' = Tail(h2m)
        /\ UNCHANGED <<hal, todo, gnss, fw, past>>
    BY DEF MnldRecv
  <1>2. Head(h2m) \in Cmd
    BY <1>1, Queue DEF TypeOK
  <1>3. Serves(Head(h2m), mnld, r[1], r[2])
    BY <1>2, HandleServes DEF TypeOK
  <1> HIDE DEF r
  <1>4. Daemons(r[1], r[2])
    BY <1>1, <1>3, HalSends DEF Daemons, Serves
  <1> QED BY <1>1, <1>2, <1>3, <1>4

\* The engine has started or stopped.
LEMMA DoneEffect ==
    ASSUME TypeOK, EngineOf(mnld), EngineDone
    PROVE  \E e, q : /\ Daemons(e, q) /\ mnld.up /\ UNCHANGED h2m /\ Tells(mnld, e, q)
                     /\ \A u \in BOOLEAN : SessionAfter(q, u)
                          => (u /\ e.closeAck = mnld.closeAck) \/ e.used
                     /\ mnld.engine # "idle"
  <1> DEFINE r == IF mnld.engine = "starting" THEN StartDone(mnld) ELSE StopDone(mnld)
  <1>1. /\ mnld.up /\ mnld' = r[1] /\ ToHal(r[2]) /\ UNCHANGED <<hal, todo, gnss, fw, h2m, past>>
        /\ mnld.engine \in {"starting", "stopping"}
    BY DEF EngineDone
  <1>2. mnld \in Daemon
    BY DEF TypeOK
  <1>3. /\ Tells(mnld, r[1], r[2])
        /\ \A u \in BOOLEAN : SessionAfter(r[2], u)
             => (u /\ r[1].closeAck = mnld.closeAck) \/ r[1].used
    <2>1. CASE mnld.engine = "starting"
      BY <1>2, <2>1, StartDoneTells
    <2>2. CASE mnld.engine = "stopping"
      BY <1>2, <2>2, StopDoneTells
    <2> QED BY <1>1, <2>1, <2>2
  <1> HIDE DEF r
  <1>4. Daemons(r[1], r[2])
    BY <1>1, <1>3, HalSends DEF Daemons, Tells
  <1> QED BY <1>1, <1>3, <1>4

\* A measurement goes up.
LEMMA ReportEffect ==
    ASSUME TypeOK, MnldReport
    PROVE  Daemons(mnld, <<"meas">>) /\ UNCHANGED h2m /\ mnld.up /\ mnld.engine # "idle"
  <1>1. /\ ToHal(<<"meas">>) /\ UNCHANGED <<hal, todo, gnss, fw, mnld, h2m>> /\ mnld.up
        /\ past' = [past EXCEPT !.reports = @ + 1] /\ mnld.engine = "started"
    BY DEF MnldReport
  <1>2. /\ past'.fwDeaths = past.fwDeaths /\ past'.halDeaths = past.halDeaths
        /\ past'.died = past.died /\ past'.raced = past.raced
    BY <1>1 DEF TypeOK, Past
  <1>3. <<"meas">> \in Seq(Note) /\ Brief(<<"meas">>)
    BY NoteTypes DEF Note
  <1> QED BY <1>1, <1>2, <1>3, HalSends DEF Daemons

\* An NMEA timeout.
LEMMA TimeoutEffect ==
    ASSUME TypeOK, EngineOf(mnld), NmeaTimeout
    PROVE  \E e : /\ Daemons(e, <<"reboot">>) /\ UNCHANGED h2m /\ mnld.up
                  /\ mnld.engine # "idle" /\ e.engine # "idle" /\ EngineOf(e) /\ ~e.used
                  /\ e.up /\ e.init = mnld.init /\ e.closeAck = mnld.closeAck
  <1> DEFINE d == [mnld EXCEPT !.used = FALSE]
             e == [d EXCEPT !.engine = "stopping"]
  <1>1. /\ mnld.up /\ mnld.engine = "started" /\ UNCHANGED <<hal, todo, gnss, fw, h2m>>
        /\ past' = [past EXCEPT !.mnldDeaths = @ + 1]
        /\ mnld' = FsmStop(d)[1] /\ ToHal(Append(FsmStop(d)[2], "reboot"))
    BY DEF NmeaTimeout
  <1>2. d \in Daemon /\ d.engine = "started" /\ ~d.used /\ ~d.openAck
        /\ d.up = mnld.up /\ d.init = mnld.init /\ d.closeAck = mnld.closeAck
    BY <1>1 DEF TypeOK, Daemon, EngineOf
  <1>3. FsmStop(d) = <<e, <<>>>>
    BY <1>2 DEF FsmStop
  <1>4. /\ e.engine = "stopping" /\ ~e.used /\ ~e.openAck /\ e.up = d.up /\ e.init = d.init
        /\ e.closeAck = d.closeAck
    BY <1>2 DEF Daemon
  <1>5. Append(<<>>, "reboot") = <<"reboot">>
    OBVIOUS
  <1> HIDE DEF e, d
  <1>6. mnld' = e /\ ToHal(<<"reboot">>)
    BY <1>1, <1>3, <1>5
  <1>7. /\ past'.fwDeaths = past.fwDeaths /\ past'.halDeaths = past.halDeaths
        /\ past'.died = past.died /\ past'.raced = past.raced
    BY <1>1 DEF TypeOK, Past
  <1>8. <<"reboot">> \in Seq(Note) /\ Brief(<<"reboot">>)
    BY NoteTypes DEF Note
  <1>9. Daemons(e, <<"reboot">>)
    BY <1>1, <1>6, <1>7, <1>8, HalSends DEF Daemons
  <1>10. EngineOf(e)
    BY <1>4 DEF EngineOf
  <1> QED BY <1>1, <1>2, <1>4, <1>9, <1>10

\* mnld is back.
LEMMA InitEffect ==
    ASSUME TypeOK, MnldInit
    PROVE  /\ Daemons(MnldBoot, <<"reboot">>) /\ UNCHANGED h2m /\ ~mnld.up
           /\ MnldBoot.up /\ ~MnldBoot.used /\ ~MnldBoot.init /\ MnldBoot.engine = "idle"
           /\ ~MnldBoot.closeAck /\ EngineOf(MnldBoot)
  <1>1. ~mnld.up /\ mnld' = MnldBoot /\ ToHal(<<"reboot">>)
        /\ UNCHANGED <<hal, todo, gnss, fw, h2m, past>>
    BY DEF MnldInit
  <1>2. <<"reboot">> \in Seq(Note) /\ Brief(<<"reboot">>)
    BY NoteTypes DEF Note
  <1>3. Daemons(MnldBoot, <<"reboot">>)
    BY <1>1, <1>2, HalSends DEF Daemons
  <1> QED BY <1>1, <1>3 DEF MnldBoot, EngineOf

\* mnld dies.
LEMMA DieEffect ==
    ASSUME TypeOK, MnldDie
    PROVE  /\ mnld.up /\ h2m' = <<>> /\ UNCHANGED <<hal, todo, gnss, fw, m2h>>
           /\ ~mnld'.up /\ ~mnld'.used /\ ~mnld'.init /\ ~mnld'.openAck /\ ~mnld'.closeAck
           /\ mnld'.engine = "idle" /\ lost'.of = {}
           /\ past'.fwDeaths = past.fwDeaths /\ past'.halDeaths = past.halDeaths
           /\ past'.died /\ past'.raced = past.raced
  <1>0. lost'.of = {}
    BY DEF MnldDie, TypeOK, Losses
  <1>1. /\ mnld.up /\ h2m' = <<>> /\ UNCHANGED <<hal, todo, gnss, fw, m2h>>
        /\ mnld' = [MnldBoot EXCEPT !.up = FALSE]
        /\ past' = [past EXCEPT !.mnldDeaths = @ + 1, !.died = TRUE]
    BY DEF MnldDie
  <1>2. /\ past'.fwDeaths = past.fwDeaths /\ past'.halDeaths = past.halDeaths
        /\ past'.died /\ past'.raced = past.raced
    BY <1>1 DEF TypeOK, Past
  <1> QED BY <1>0, <1>1, <1>2 DEF MnldBoot

\* The steps outside mnld leave its record alone, and send to it only while it is up.
LEMMA OtherSteps ==
    ASSUME TypeOK,
           \/ SetCallback \/ StartStop \/ Disable \/ Measure(TRUE) \/ Measure(FALSE) \/ FwDie
           \/ Step("binder") \/ Step("worker") \/ WorkerRecv \/ HalDie
    PROVE  UNCHANGED mnld /\ (~mnld.up => UNCHANGED h2m)
  <1>1. ASSUME NEW t \in Thread, Step(t) PROVE UNCHANGED mnld /\ (~mnld.up => UNCHANGED h2m)
    BY <1>1, StepEffect DEF Ran
  <1>2. CASE HalDie
    BY <1>2 DEF HalDie, ToMnld
  <1>3. CASE SetCallback \/ StartStop \/ Disable \/ Measure(TRUE) \/ Measure(FALSE) \/ FwDie
             \/ WorkerRecv
    BY <1>3 DEF SetCallback, StartStop, Disable, Measure, FwDie, WorkerRecv
  <1> QED BY <1>1, <1>2, <1>3 DEF Thread

\* The steps of mnld leave the service alone.
LEMMA MnldSteps ==
    ASSUME TypeOK, EngineOf(mnld),
           MnldRecv \/ EngineDone \/ MnldReport \/ NmeaTimeout \/ MnldDie \/ MnldInit
    PROVE  /\ UNCHANGED <<hal, todo, gnss, fw>> /\ past'.raced = past.raced
           /\ DaemonShape'
  <1>1. CASE MnldRecv
    <2>1. PICK e, q : Daemons(e, q) /\ mnld.up /\ Serves(Head(h2m), mnld, e, q)
      BY <1>1, RecvEffect
    <2> QED BY <2>1 DEF Daemons, Serves, DaemonShape, DaemonDown
  <1>2. CASE EngineDone
    <2>1. PICK e, q : Daemons(e, q) /\ mnld.up /\ Tells(mnld, e, q)
      BY <1>2, DoneEffect
    <2> QED BY <2>1 DEF Daemons, Tells, DaemonShape, DaemonDown
  <1>3. CASE MnldReport
    BY <1>3, ReportEffect DEF Daemons, DaemonShape, DaemonDown
  <1>4. CASE NmeaTimeout
    <2>1. PICK e : Daemons(e, <<"reboot">>) /\ EngineOf(e) /\ e.up
      BY <1>4, TimeoutEffect
    <2> QED BY <2>1 DEF Daemons, DaemonShape, DaemonDown
  <1>5. CASE MnldDie
    BY <1>5, DieEffect DEF DaemonShape, DaemonDown, EngineOf
  <1>6. CASE MnldInit
    BY <1>6, InitEffect DEF Daemons, DaemonShape, DaemonDown
  <1> QED BY <1>1, <1>2, <1>3, <1>4, <1>5, <1>6

Shape == ServiceShape /\ DaemonShape

\* Every step keeps the order,
LEMMA ShapeStep == ASSUME TypeOK, Shape, [Next]_vars PROVE Shape'
  <1>1. CASE \/ SetCallback \/ StartStop \/ Disable \/ Measure(TRUE) \/ Measure(FALSE) \/ FwDie
             \/ Step("binder") \/ Step("worker") \/ WorkerRecv \/ HalDie
    <2>1. ServiceShape'
      BY <1>1, CallShape, DeathShape, StepShape, WorkerShape DEF Shape, Thread
    <2>2. DaemonShape'
      BY <1>1, OtherSteps DEF Shape, DaemonShape, DaemonDown
    <2> QED BY <2>1, <2>2 DEF Shape
  <1>2. CASE MnldRecv \/ EngineDone \/ MnldReport \/ NmeaTimeout \/ MnldDie \/ MnldInit
    <2>1. UNCHANGED <<hal, todo, gnss, fw>> /\ DaemonShape'
      BY <1>2, MnldSteps DEF Shape, DaemonShape
    <2>2. ServiceShape'
      BY <2>1 DEF Shape, ServiceShape, Sockets, FirstCall, EnabledCall, DisabledCall
    <2> QED BY <2>1, <2>2 DEF Shape
  <1>3. CASE UNCHANGED vars
    BY <1>3 DEF vars, Shape, ServiceShape, Sockets, FirstCall, EnabledCall, DisabledCall,
                DaemonShape, DaemonDown
  <1> QED BY <1>1, <1>2, <1>3 DEF Next

\* which the initial state has.
LEMMA ShapeInit == Init => Shape
  <1> SUFFICES ASSUME Init PROVE Shape
    OBVIOUS
  <1>1. ServiceShape
    BY Short DEF Init, HalBoot, GnssBoot, FwBoot, Thread, ServiceShape, Sockets, FirstCall,
                 EnabledCall, DisabledCall
  <1>2. DaemonShape
    BY DEF Init, MnldBoot, DaemonShape, DaemonDown, EngineOf
  <1> QED BY <1>1, <1>2 DEF Shape

\* The order the binder and the worker thread keep, and mnld's record of its client, whoever
\* dies: marks and the worker need the socket, an enabled provider is initialised and never
\* cleaned up, a disabled one is, and a dead mnld has forgotten its client.
THEOREM ShapeInvariant == Spec => []Shape
  <1>1. GnssInv /\ Shape /\ [Next]_vars => Shape'
    BY ShapeStep DEF GnssInv
  <1> QED BY <1>1, ShapeInit, GnssInvariant, PTL DEF Spec

-----------------------------------------------------------------------------
\* The wakelock

LiveOp == {o \in Op : o[1] # "null"}
LiveCmd == Cmd \ {"reboot"}

\* Neither the framework nor the service has died.
Alive == past.fwDeaths = 0 /\ past.halDeaths = 0

\* The static flag of updateWakelock is the framework's wakelock, and once the worker has
\* handled the notes on the way the wakelock is held exactly while the engine is not idle, or
\* the request or the release that was last needed was given up on; if mnld died, it is held at
\* least then.
Locks ==
    /\ todo.binder \in Seq(LiveOp) /\ h2m \in Seq(LiveCmd)
    /\ gnss.iface <=> fw.alive
    /\ fw.lock <=> gnss.held
    /\ hal.bound => gnss.iface
    /\ ~hal.bound => /\ h2m \in Seq(MeasCmd) /\ mnld.engine = "idle"
                     /\ m2h = <<>> /\ ~fw.session /\ ~fw.lock
    /\ mnld.engine # "idle" => LockAfter(m2h, fw.lock) \/ "request" \in lost.of
    /\ LockAfter(m2h, fw.lock) /\ ~past.died => mnld.engine # "idle" \/ "release" \in lost.of

\* A step of mnld whose notes tell what it does to the engine.
LEMMA DaemonLocks ==
    ASSUME TypeOK, Locks, NEW e, NEW q, Daemons(e, q),
           LockAfter(q, mnld.engine # "idle") <=> e.engine # "idle",
           ~hal.bound => e.engine = "idle" /\ h2m' \in Seq(MeasCmd),
           h2m' \in Seq(LiveCmd)
    PROVE  Locks'
  <1>1. /\ UNCHANGED <<hal, todo, gnss, fw>> /\ mnld' = e /\ Brief(q)
        /\ past'.died = past.died
    BY DEF Daemons
  <1>2. PICK w : w = LockAfter(m2h, fw.lock)
    OBVIOUS
  <1>3. PICK g : g = (mnld.engine # "idle")
    OBVIOUS
  <1>4. /\ w \in BOOLEAN /\ g \in BOOLEAN
        /\ g => w \/ "request" \in lost.of
        /\ w /\ ~past.died => g \/ "release" \in lost.of
    BY <1>2, <1>3, AfterBoolean DEF Locks, LockAfter
  <1>5. CASE hal.bound
    <2>1. PICK p : Arrives(q, p)
      BY <1>5 DEF Daemons
    <2>2. Ways(q, p)
      BY <1>1, <2>1, DaemonWays
    <2>3. p \in Seq(Note) /\ m2h' = m2h \o p
      BY <2>2 DEF Ways
    <2>4. LockAfter(m2h', fw'.lock) <=> LockAfter(p, w)
      <3>1. m2h \in Seq(Note) /\ fw.lock \in BOOLEAN
        BY DEF TypeOK, Framework
      <3>2. LockAfter(m2h \o p, fw.lock) <=> LockAfter(p, LockAfter(m2h, fw.lock))
        BY <2>3, <3>1, NoteConcat
      <3> QED BY <1>1, <1>2, <2>3, <3>2
    <2>5. LockAfter(q, g) <=> e.engine # "idle"
      BY <1>3
    <2>6. LockAfter(q, g) => LockAfter(p, w) \/ "request" \in lost'.of
      BY <1>4, <2>2 DEF Ways
    <2>7. ~past.died /\ LockAfter(p, w) => LockAfter(q, g) \/ "release" \in lost'.of
      BY <1>4, <2>2 DEF Ways
    <2> QED BY <1>1, <1>5, <2>4, <2>5, <2>6, <2>7 DEF Locks
  <1>6. CASE ~hal.bound
    <2>1. m2h' = <<>> /\ ~fw'.lock
      BY <1>1, <1>6 DEF Locks, Daemons
    <2>2. ~LockAfter(<<>>, fw'.lock)
      BY <2>1, OneNote, <1>1 DEF TypeOK, Framework
    <2> QED BY <1>1, <1>6, <2>1, <2>2 DEF Locks
  <1> QED BY <1>5, <1>6

\* A queue of measurement requests is a queue of requests that are no reboot.
LEMMA MeasIsLive == \A q \in Seq(MeasCmd) : q \in Seq(LiveCmd)
  BY DEF MeasCmd, LiveCmd, Cmd

\* mnld's steps: the notes tell what becomes of the engine.
LEMMA MnldLocks ==
    ASSUME TypeOK, Shape, Locks,
           MnldRecv \/ EngineDone \/ MnldReport \/ NmeaTimeout \/ MnldDie \/ MnldInit
    PROVE  Locks'
  <1>0. EngineOf(mnld)
    BY DEF Shape, DaemonShape
  <1>1. CASE MnldRecv
    <2>1. PICK e, q : /\ Daemons(e, q) /\ h2m # <<>> /\ h2m' = Tail(h2m)
                      /\ Serves(Head(h2m), mnld, e, q)
      BY <1>0, <1>1, RecvEffect
    <2>2. h2m' \in Seq(LiveCmd)
      BY <2>1, Queue DEF Locks
    <2>3. ASSUME ~hal.bound PROVE e.engine = "idle" /\ h2m' \in Seq(MeasCmd)
      <3>1. h2m \in Seq(MeasCmd) /\ mnld.engine = "idle"
        BY <2>3 DEF Locks
      <3>2. Head(h2m) \in MeasCmd /\ h2m' \in Seq(MeasCmd)
        BY <2>1, <3>1, Queue
      <3> QED BY <2>1, <3>1, <3>2 DEF Serves, MeasCmd
    <2>4. LockAfter(q, mnld.engine # "idle") <=> e.engine # "idle"
      BY <2>1 DEF Serves
    <2> QED BY <2>1, <2>2, <2>3, <2>4, DaemonLocks
  <1>2. CASE EngineDone
    <2>1. PICK e, q : /\ Daemons(e, q) /\ UNCHANGED h2m /\ Tells(mnld, e, q)
                      /\ mnld.engine # "idle"
      BY <1>0, <1>2, DoneEffect
    <2>2. LockAfter(q, mnld.engine # "idle") <=> e.engine # "idle"
      BY <2>1 DEF Tells
    <2>3. h2m' \in Seq(LiveCmd) /\ hal.bound
      BY <2>1 DEF Locks
    <2> QED BY <2>1, <2>2, <2>3, DaemonLocks
  <1>3. CASE MnldReport
    <2>1. Daemons(mnld, <<"meas">>) /\ UNCHANGED h2m /\ mnld.engine # "idle"
      BY <1>3, ReportEffect
    <2>2. LockAfter(<<"meas">>, mnld.engine # "idle") <=> mnld.engine # "idle"
      BY <2>1, OneNote
    <2>3. h2m' \in Seq(LiveCmd) /\ hal.bound
      BY <2>1 DEF Locks
    <2> QED BY <2>1, <2>2, <2>3, DaemonLocks
  <1>4. CASE NmeaTimeout
    <2>1. PICK e : /\ Daemons(e, <<"reboot">>) /\ UNCHANGED h2m /\ mnld.engine # "idle"
                   /\ e.engine # "idle"
      BY <1>0, <1>4, TimeoutEffect
    <2>2. LockAfter(<<"reboot">>, mnld.engine # "idle") <=> e.engine # "idle"
      BY <2>1, OneNote
    <2>3. h2m' \in Seq(LiveCmd) /\ hal.bound
      BY <2>1 DEF Locks
    <2> QED BY <2>1, <2>2, <2>3, DaemonLocks
  <1>5. CASE MnldDie
    <2>1. /\ h2m' = <<>> /\ UNCHANGED <<hal, todo, gnss, fw, m2h>> /\ mnld'.engine = "idle"
          /\ past'.died
      BY <1>5, DieEffect
    <2> QED BY <2>1, Short DEF Locks
  <1>6. CASE MnldInit
    <2>1. Daemons(MnldBoot, <<"reboot">>) /\ UNCHANGED h2m /\ ~mnld.up /\ MnldBoot.engine = "idle"
      BY <1>6, InitEffect
    <2>2. mnld.engine = "idle"
      BY <2>1 DEF Shape, DaemonShape, DaemonDown
    <2>3. LockAfter(<<"reboot">>, mnld.engine # "idle") <=> MnldBoot.engine # "idle"
      BY <2>1, <2>2, OneNote
    <2>4. h2m' \in Seq(LiveCmd) /\ (~hal.bound => h2m' \in Seq(MeasCmd))
      BY <2>1 DEF Locks
    <2> QED BY <2>1, <2>3, <2>4, DaemonLocks
  <1> QED BY <1>1, <1>2, <1>3, <1>4, <1>5, <1>6

\* The calls: the framework that sets the callback is alive.
LEMMA CallLocks ==
    ASSUME TypeOK, Shape, Locks,
           SetCallback \/ StartStop \/ Disable \/ Measure(TRUE) \/ Measure(FALSE)
    PROVE  Locks'
  <1>1. \A c \in Names : Gpsinf(c) \in Seq(LiveOp)
    <2>1. \A c \in Names : <<"intent", c>> \in LiveOp /\ <<"cmd", c>> \in LiveOp
      BY OpTypes DEF LiveOp
    <2> QED BY <2>1, GpsinfParts
  <1>2. CASE SetCallback
    <2>1. todo'.binder = Gpsinf("init")
      BY <1>2, CallParts DEF SetCallback
    <2>2. /\ fw'.alive /\ gnss'.iface /\ fw'.lock = fw.lock /\ gnss'.held = gnss.held
          /\ fw'.session = fw.session /\ (hal.bound => hal'.bound)
          /\ UNCHANGED <<mnld, h2m, m2h, lost>>
      BY <1>2 DEF SetCallback, TypeOK, Framework, Service, HalContext
    <2>3. past'.died = past.died
      BY <1>2, CallParts DEF SetCallback
    <2>4. todo'.binder \in Seq(LiveOp)
      BY <1>1, <2>1 DEF Names
    <2> QED BY <2>2, <2>3, <2>4 DEF Locks
  <1>3. CASE StartStop
    <2>1. PICK c \in {"start", "stop"} : Call(Gpsinf(c))
      BY <1>3 DEF StartStop
    <2>2. todo'.binder = Gpsinf(c) /\ past'.died = past.died
      BY <2>1, CallParts
    <2>3. UNCHANGED <<hal, gnss, fw, mnld, h2m, m2h, lost>>
      BY <1>3 DEF StartStop
    <2>4. todo'.binder \in Seq(LiveOp)
      BY <1>1, <2>2 DEF Names
    <2> QED BY <2>2, <2>3, <2>4 DEF Locks
  <1>4. CASE Disable
    <2>1. Call(DisableOps)
      BY <1>4 DEF Disable, DisableOps
    <2>2. todo'.binder = DisableOps /\ past'.died = past.died
      BY <2>1, CallParts
    <2>3. /\ UNCHANGED <<hal, gnss, mnld, h2m, m2h, lost>>
          /\ fw'.alive = fw.alive /\ fw'.lock = fw.lock /\ fw'.session = fw.session
      BY <1>4 DEF Disable, TypeOK, Framework
    <2>4. todo'.binder \in Seq(LiveOp)
      BY <1>1, <2>2, Queue DEF Names, DisableOps
    <2> QED BY <2>2, <2>3, <2>4 DEF Locks
  <1>5. ASSUME NEW on \in BOOLEAN, Measure(on) PROVE Locks'
    <2> DEFINE c == IF on THEN "measOn" ELSE "measOff"
    <2>1. Call(<<<<"forward", c>>>>)
      BY <1>5 DEF Measure
    <2>2. <<"forward", c>> \in LiveOp
      BY DEF LiveOp, Op
    <2> HIDE DEF c
    <2>3. todo'.binder = <<<<"forward", c>>>> /\ past'.died = past.died
      BY <2>1, CallParts
    <2>4. UNCHANGED <<gnss, fw, mnld, h2m, m2h, lost>> /\ hal'.bound = hal.bound
      BY <1>5 DEF Measure, TypeOK, HalContext
    <2>5. todo'.binder \in Seq(LiveOp)
      BY <2>2, <2>3, Short
    <2> QED BY <2>3, <2>4, <2>5 DEF Locks
  <1> QED BY <1>2, <1>3, <1>4, <1>5

\* The threads.
LEMMA ThreadLocks ==
    ASSUME TypeOK, Shape, Locks, Step("binder") \/ Step("worker") \/ WorkerRecv
    PROVE  Locks'
  <1>1. ASSUME NEW t \in Thread, Step(t) PROVE Locks'
    <2> DEFINE op == Head(todo[t])
    <2>1. PICK sent : Ran(t, op, sent) /\ Misses(op, sent)
      BY <1>1, StepEffect
    <2>2. op \in Op /\ op = Head(todo[t]) /\ todo[t] # <<>>
      BY <2>1 DEF Ran
    <2> HIDE DEF op
    <2>3. op[1] = "cmd" => <<"mark", op[2]>> \in LiveOp
      BY <2>2, OpParts, OpTypes DEF LiveOp
    <2>4. op \in LiveOp /\ todo'.binder \in Seq(LiveOp)
      <3>1. CASE t = "worker"
        <4>1. op \in WorkOp
          BY <2>2, <3>1, Queue DEF Shape, ServiceShape, Sockets
        <4> QED BY <2>1, <2>3, <3>1, <4>1, RanTodo DEF Locks, LiveOp, WorkOp, Thread
      <3>2. CASE t = "binder"
        BY <2>1, <2>3, <3>2, RanTodo DEF Locks, LiveOp
      <3> QED BY <3>1, <3>2 DEF Thread
    <2>5. /\ hal'.bound = hal.bound /\ gnss'.iface = gnss.iface /\ gnss'.held = gnss.held
          /\ UNCHANGED <<fw, mnld, m2h>> /\ past'.died = past.died
      BY <2>1, <2>4 DEF Ran, LiveOp, TypeOK, Service
    <2>8. \A n \in {"request", "release"} : n \in lost'.of <=> n \in lost.of
      BY <2>1 DEF Misses
    <2>9. \/ UNCHANGED h2m
          \/ /\ op[1] = "forward" \/ (op[1] = "cmd" /\ hal.state # "unknown")
             /\ h2m' = Append(h2m, op[2])
      BY <2>1 DEF Ran
    <2>6. h2m' \in Seq(LiveCmd)
      <3>1. op[1] \in {"forward", "cmd"} => op[2] \in LiveCmd
        BY <2>2, OpParts DEF LiveCmd, Cmd, Names, MeasCmd
      <3>2. h2m \in Seq(LiveCmd)
        BY DEF Locks
      <3> QED BY <2>9, <3>1, <3>2, Queue
    <2>7. ASSUME ~hal.bound PROVE h2m' \in Seq(MeasCmd)
      <3>1. hal.state = "unknown" /\ h2m \in Seq(MeasCmd)
        BY <2>7 DEF Shape, ServiceShape, Sockets, Locks
      <3>2. op[1] = "forward" => op[2] \in MeasCmd
        BY <2>2, OpParts
      <3> QED BY <2>9, <3>1, <3>2, Queue
    <2> QED BY <2>4, <2>5, <2>6, <2>7, <2>8 DEF Locks
  <1>2. CASE WorkerRecv
    <2> DEFINE m == Head(m2h)
    <2>1. Heeds(m)
      BY <1>2, WorkerEffect
    <2>2. /\ hal.bound /\ UNCHANGED <<hal, mnld, h2m, lost>> /\ todo'.binder = todo.binder
          /\ gnss'.iface = gnss.iface /\ fw'.alive = fw.alive /\ past'.died = past.died
          /\ m2h' = Tail(m2h) /\ m2h # <<>> /\ m2h \in Seq(Note) /\ fw.lock \in BOOLEAN
      BY <2>1 DEF Heeds, TypeOK, Framework
    <2>3. Heard /\ gnss.iface /\ fw.alive
      BY <2>2 DEF Locks, Heard
    <2>4. /\ fw'.lock = (m = "request" \/ (fw.lock /\ m # "release"))
          /\ gnss'.held <=> fw'.lock
      BY <2>1, <2>3 DEF Heeds, Locks, TypeOK, Framework, Service
    <2>5. LockAfter(m2h, fw.lock) <=> LockAfter(m2h', fw'.lock)
      BY <2>2, <2>4, NoteHead
    <2> HIDE DEF m
    <2> QED BY <2>2, <2>4, <2>5 DEF Locks
  <1> QED BY <1>1, <1>2 DEF Thread

\* Nobody dies twice for once: the counters of deaths only grow.
LEMMA DeathsStay == ASSUME TypeOK, [Next]_vars, Alive' PROVE Alive /\ ~FwDie /\ ~HalDie
  <1>1. past.fwDeaths \in Nat /\ past.halDeaths \in Nat
    BY DEF TypeOK, Past
  <1>2. ASSUME FwDie PROVE FALSE
    <2>1. past'.fwDeaths = past.fwDeaths + 1
      BY <1>2 DEF FwDie, TypeOK, Past
    <2> QED BY <1>1, <2>1 DEF Alive
  <1>3. ASSUME HalDie PROVE FALSE
    <2>1. past'.halDeaths = past.halDeaths + 1
      BY <1>3 DEF HalDie, TypeOK, Past
    <2> QED BY <1>1, <2>1 DEF Alive
  <1>4. past'.fwDeaths = past.fwDeaths /\ past'.halDeaths = past.halDeaths
    <2>1. CASE SetCallback \/ StartStop \/ Disable \/ Measure(TRUE) \/ Measure(FALSE)
      BY <2>1, CallParts DEF SetCallback, StartStop, Disable, Measure
    <2>2. CASE Step("binder") \/ Step("worker")
      BY <2>2, StepEffect DEF Ran, Thread
    <2>3. CASE WorkerRecv
      BY <2>3, WorkerEffect DEF Heeds
    <2>4. CASE MnldRecv \/ EngineDone \/ MnldInit
      BY <2>4 DEF MnldRecv, EngineDone, MnldInit
    <2>5. CASE MnldReport \/ NmeaTimeout
      BY <2>5 DEF MnldReport, NmeaTimeout, TypeOK, Past
    <2>6. CASE MnldDie
      BY <2>6, DieEffect
    <2>7. CASE UNCHANGED vars
      BY <2>7 DEF vars
    <2> QED BY <1>2, <1>3, <2>1, <2>2, <2>3, <2>4, <2>5, <2>6, <2>7 DEF Next
  <1> QED BY <1>2, <1>3, <1>4 DEF Alive

\* Every step keeps the wakelock with the engine,
LEMMA LocksStep == ASSUME TypeOK, Shape, Alive => Locks, [Next]_vars PROVE (Alive => Locks)'
  <1> SUFFICES ASSUME Alive' PROVE Locks'
    OBVIOUS
  <1>1. Alive /\ ~FwDie /\ ~HalDie /\ Locks
    BY DeathsStay
  <1>2. CASE UNCHANGED vars
    BY <1>1, <1>2 DEF vars, Locks
  <1>3. CASE Next
    BY <1>1, <1>3, CallLocks, ThreadLocks, MnldLocks DEF Next
  <1> QED BY <1>2, <1>3

\* where it is at the start.
LEMMA LocksInit == Init => Locks
  <1> SUFFICES ASSUME Init PROVE Locks
    OBVIOUS
  <1>1. ~fw.lock /\ fw.lock \in BOOLEAN /\ m2h = <<>>
    BY DEF Init, FwBoot
  <1>2. ~LockAfter(m2h, fw.lock)
    BY <1>1, OneNote
  <1> QED BY <1>1, <1>2, Short DEF Init, HalBoot, GnssBoot, FwBoot, MnldBoot, Thread, Locks

\* While neither the framework nor the service has died, the static flag of updateWakelock is
\* the framework's wakelock, and the notes under way lead it to follow the engine, except for
\* a request or a release that safe_sendto gave up on.
THEOREM LocksInvariant == Spec => [](Alive => Locks)
  <1>1. GnssInv /\ Shape /\ (Alive => Locks) /\ [Next]_vars => (Alive => Locks)'
    BY LocksStep DEF GnssInv
  <1>2. Init => (Alive => Locks)
    BY LocksInit
  <1> QED BY <1>1, <1>2, GnssInvariant, ShapeInvariant, PTL DEF Spec

\* While mnld runs the engine, the framework holds the wakelock mnld asked for
\* (mnl2hal_request_wakelock, updateWakelock), however often mnld died on the way, unless that
\* request is one safe_sendto gave up on.
THEOREM WakelockCorrect == Spec => []WakelockHeld
  <1>1. GnssInv /\ (Alive => Locks) => WakelockHeld
    <2> SUFFICES ASSUME GnssInv, Alive => Locks, Quiet, past.fwDeaths + past.halDeaths = 0,
                        mnld.engine = "started"
                 PROVE  fw.lock \/ "request" \in lost.of
      BY DEF WakelockHeld
    <2>1. Alive
      BY DEF GnssInv, TypeOK, Past, Alive
    <2>2. m2h = <<>> /\ fw.lock \in BOOLEAN
      BY DEF Quiet, GnssInv, TypeOK, Framework
    <2> QED BY <2>1, <2>2, OneNote DEF Locks
  <1> QED BY <1>1, GnssInvariant, LocksInvariant, PTL

-----------------------------------------------------------------------------
\* The agreement of the HAL with mnld

\* A setting u once both threads have done what they have to do.
Worked(td, u, on, off) == After(td.worker, After(td.binder, u, on, off), on, off)

\* A flag u of mnld's record, set by the request a and reset by those of B, once mnld has
\* handled the requests of q and those the threads will still send.
Flag(td, q, u, a, B) ==
    Worked(td, After(q, u, {a}, B), Ops({"cmd"}, {a}), Ops({"cmd"}, B))

\* Whether mnld will have the HAL as a user and as initialised, whether gps_state will be
\* start, and what the intent will be.
WillUse == Flag(todo, h2m, mnld.used, "start", {"stop", "reboot"})
WillInit == Flag(todo, h2m, mnld.init, "init", {"cleanup"})
Started(td, s) ==
    Worked(td, s = "start", Ops({"cmd", "mark"}, {"start"}),
                            Ops({"cmd", "mark"}, Names \ {"start"}))
WillBe(c) == Means(todo.binder, hal.intent, c)

\* A report of a reboot that the worker has still to handle is on the way, or will be.
Coming == ~mnld.up \/ Reboots(m2h)

\* No call overlapped the handling of a reboot, and the HAL has its resources if it needs them.
Calm ==
    /\ ~past.raced
    /\ todo.binder = <<>> \/ todo.worker = <<>>
    /\ hal.state # "unknown" \/ (hal.intent = "unknown" /\ todo.binder = <<>>)

\* What the threads alone, whatever mnld knows, make of a successor of mnld.
FreshUse == Flag(todo, <<>>, FALSE, "start", {"stop", "reboot"})
FreshInit == Flag(todo, <<>>, FALSE, "init", {"cleanup"})

\* The threads ask for nothing against the intent: a mnld that dies may have lost what it was
\* told, and what was given up on does not matter to the next one.
Meant ==
    /\ FreshUse => WillBe("start")
    /\ WillBe("cleanup") => ~FreshInit

\* And no request or report of a reboot between live peers was given up on.
Sound == Calm /\ Told

\* mnld will do nothing against the intent, and unless a reboot is still to be handled it will
\* do all that the intent asks for.
InStep ==
    /\ WillUse => WillBe("start")
    /\ WillBe("cleanup") => ~WillInit
    /\ ~Coming => /\ WillBe("start") => WillUse /\ Started(todo, hal.state)
                  /\ WillInit \/ WillBe("cleanup") \/ WillBe("unknown")

\* One thread has nothing to do.
LEMMA Alone ==
    ASSUME NEW td, NEW t \in Thread, \A s \in Thread : s # t => td[s] = <<>>,
           NEW u \in BOOLEAN, NEW on, NEW off
    PROVE  Worked(td, u, on, off) <=> After(td[t], u, on, off)
  <1>1. CASE t = "binder"
    <2>1. td.worker = <<>>
      BY <1>1 DEF Thread
    <2>2. After(<<>>, After(td.binder, u, on, off), on, off) <=> After(td.binder, u, on, off)
      BY AfterBoolean, AfterNone
    <2> QED BY <1>1, <2>1, <2>2 DEF Worked
  <1>2. CASE t = "worker"
    <2>1. td.binder = <<>>
      BY <1>2 DEF Thread
    <2>2. After(<<>>, u, on, off) = u
      BY AfterBoolean, AfterNone
    <2> QED BY <1>2, <2>1, <2>2 DEF Worked
  <1> QED BY <1>1, <1>2 DEF Thread

\* More follows from more.
LEMMA WorkedMore ==
    ASSUME NEW td, NEW u \in BOOLEAN, NEW v \in BOOLEAN, u => v, NEW on, NEW off,
           Worked(td, u, on, off)
    PROVE  Worked(td, v, on, off)
  <1>1. After(td.binder, u, on, off) => After(td.binder, v, on, off)
    BY AfterMore
  <1>2. After(td.binder, u, on, off) \in BOOLEAN /\ After(td.binder, v, on, off) \in BOOLEAN
    BY AfterBoolean
  <1> QED BY <1>1, <1>2, AfterMore DEF Worked

\* The calls.
LEMMA GpsinfTurns ==
    ASSUME NEW kinds, "cmd" \in kinds, "intent" \notin kinds, NEW A, NEW B, NEW u \in BOOLEAN,
           NEW c \in Names
    PROVE  After(Gpsinf(c), u, Ops(kinds, A), Ops(kinds, B)) <=> c \in A \/ (u /\ c \notin B)
  <1> DEFINE on == Ops(kinds, A)
             off == Ops(kinds, B)
  <1>1. PICK i : i = <<"intent", c>>
    OBVIOUS
  <1>2. PICK d : d = <<"cmd", c>>
    OBVIOUS
  <1>3. i \in Op /\ i[1] = "intent" /\ d \in Op /\ d[1] = "cmd" /\ d[2] = c
    BY <1>1, <1>2, OpTypes
  <1>4. Turn(i, u, on, off) = u
    BY <1>3 DEF Turn, Ops
  <1>5. Turn(d, u, on, off) <=> c \in A \/ (u /\ c \notin B)
    BY <1>3 DEF Turn, Ops
  <1>6. After(Gpsinf(c), u, on, off) <=> Turn(d, Turn(i, u, on, off), on, off)
    BY <1>1, <1>2, AfterGpsinf
  <1> HIDE DEF on, off
  <1> QED BY <1>4, <1>5, <1>6 DEF on, off

\* The measurement requests turn nothing.
LEMMA MeasTurns ==
    ASSUME NEW kinds, "forward" \notin kinds, NEW A, NEW B, NEW u \in BOOLEAN, NEW c \in MeasCmd
    PROVE  After(<<<<"forward", c>>>>, u, Ops(kinds, A), Ops(kinds, B)) <=> u
  <1> DEFINE on == Ops(kinds, A)
             off == Ops(kinds, B)
  <1>1. PICK f : f = <<"forward", c>>
    OBVIOUS
  <1>2. PICK w : w = <<f>>
    OBVIOUS
  <1>3. Len(w) = 1 /\ w[1] = f
    BY <1>2
  <1>4. f[1] = "forward"
    BY <1>1
  <1>5. Turn(f, u, on, off) = u
    BY <1>4 DEF Turn, Ops
  <1> HIDE DEF on, off
  <1>6. After(w, u, on, off) <=> Turn(w[1], u, on, off)
    BY <1>3, AfterOne
  <1> QED BY <1>1, <1>2, <1>3, <1>5, <1>6 DEF on, off

\* Disable and handleHidlDeath.
LEMMA DisableTurns ==
    ASSUME NEW kinds, "cmd" \in kinds, "intent" \notin kinds, "null" \notin kinds,
           "forward" \notin kinds, NEW A, NEW B, NEW u \in BOOLEAN, NEW ops \in {DisableOps, DeathOps}
    PROVE  After(ops, u, Ops(kinds, A), Ops(kinds, B))
             <=> "cleanup" \in A \/ (("stop" \in A \/ (u /\ "stop" \notin B)) /\ "cleanup" \notin B)
  <1> DEFINE on == Ops(kinds, A)
             off == Ops(kinds, B)
  <1>1. /\ <<"null", "iface">> \notin on /\ <<"null", "iface">> \notin off
        /\ <<"forward", "measOff">> \notin on /\ <<"forward", "measOff">> \notin off
    BY DEF Ops
  <1>2. PICK v \in BOOLEAN : v = After(Gpsinf("stop"), u, on, off)
    BY AfterBoolean
  <1>3. v <=> "stop" \in A \/ (u /\ "stop" \notin B)
    BY <1>2, GpsinfTurns DEF Names
  <1>4. After(Gpsinf("cleanup"), v, on, off) <=> "cleanup" \in A \/ (v /\ "cleanup" \notin B)
    BY GpsinfTurns DEF Names
  <1> HIDE DEF on, off
  <1>5. After(DisableOps, u, on, off) <=> After(Gpsinf("cleanup"), v, on, off)
    BY <1>2, AfterDisable
  <1>6. After(DeathOps, u, on, off) <=> After(DisableOps, u, on, off)
    BY <1>1, AfterDeath
  <1> QED BY <1>3, <1>4, <1>5, <1>6 DEF on, off

\* Sending again.
LEMMA ResendTurns ==
    ASSUME TypeOK, NEW kinds, "cmd" \in kinds, NEW A, NEW B, NEW u \in BOOLEAN
    PROVE  /\ hal.intent = "start" =>
                (After(Resend, u, Ops(kinds, A), Ops(kinds, B))
                   <=> "start" \in A \/ (("init" \in A \/ (u /\ "init" \notin B)) /\ "start" \notin B))
           /\ hal.intent \in {"init", "stop"} =>
                (After(Resend, u, Ops(kinds, A), Ops(kinds, B)) <=> "init" \in A \/ (u /\ "init" \notin B))
  <1> DEFINE on == Ops(kinds, A)
             off == Ops(kinds, B)
  <1>1. PICK i : i = <<"cmd", "init">>
    OBVIOUS
  <1>2. PICK s : s = <<"cmd", "start">>
    OBVIOUS
  <1>3. i \in Op /\ s \in Op /\ i[1] = "cmd" /\ i[2] = "init" /\ s[1] = "cmd" /\ s[2] = "start"
    BY <1>1, <1>2, OpTypes DEF Names
  <1>4. \A v \in BOOLEAN : /\ Turn(i, v, on, off) <=> "init" \in A \/ (v /\ "init" \notin B)
                           /\ Turn(s, v, on, off) <=> "start" \in A \/ (v /\ "start" \notin B)
    BY <1>3 DEF Turn, Ops
  <1> HIDE DEF on, off
  <1>5. Turn(i, u, on, off) \in BOOLEAN
    BY AfterBoolean
  <1>6. ASSUME hal.intent = "start"
        PROVE  After(Resend, u, on, off) <=> Turn(s, Turn(i, u, on, off), on, off)
    <2>1. Resend = <<i, s>>
      BY <1>1, <1>2, <1>6, ResendParts
    <2> QED BY <2>1, AfterPair
  <1>7. ASSUME hal.intent \in {"init", "stop"}
        PROVE  After(Resend, u, on, off) <=> Turn(i, u, on, off)
    <2>1. PICK w : w = <<i>>
      OBVIOUS
    <2>2. Len(w) = 1 /\ w[1] = i
      BY <2>1
    <2>3. Resend = w
      BY <1>1, <1>7, <2>1, ResendParts
    <2> QED BY <2>2, <2>3, AfterOne
  <1> QED BY <1>4, <1>5, <1>6, <1>7 DEF on, off

\* The other thread stays without work.
LEMMA StaysAlone ==
    ASSUME TypeOK, NEW t \in Thread, NEW op, NEW sent, Ran(t, op, sent),
           \A s \in Thread : s # t => todo[s] = <<>>
    PROVE  \A s \in Thread : s # t => todo'[s] = <<>>
  <1>1. op[1] = "cmd" => <<"mark", op[2]>> \in Op
    BY OpParts, OpTypes DEF Ran
  <1>2. \A s \in Thread : s # t => todo'[s] = todo[s]
    BY <1>1, RanTodo
  <1> QED BY <1>2

\* An operation of a thread whose request is sent: it goes from the thread to the link.
LEMMA FlagKept ==
    ASSUME TypeOK, NEW t \in Thread, NEW op, NEW sent, Ran(t, op, sent),
           \A s \in Thread : s # t => todo[s] = <<>>, op[1] = "cmd" => sent,
           NEW u \in BOOLEAN, NEW a \in Names, NEW B, \A c \in MeasCmd : c \notin B
    PROVE  Flag(todo', h2m', u, a, B) <=> Flag(todo, h2m, u, a, B)
  <1> DEFINE on == Ops({"cmd"}, {a})
             off == Ops({"cmd"}, B)
  <1>1. op \in Op /\ h2m \in Seq(Cmd)
    BY DEF Ran, TypeOK
  <1>2. PICK v \in BOOLEAN : v = After(h2m, u, {a}, B)
    BY AfterBoolean
  <1>3. PICK w \in BOOLEAN : w = After(h2m', u, {a}, B)
    BY AfterBoolean
  <1>4. Turn(op, v, on, off) = w
    <2>1. CASE op[1] = "cmd"
      <3>1. h2m' = Append(h2m, op[2]) /\ op[2] \in Cmd
        BY <1>1, <2>1, OpParts DEF Ran, Names, Cmd
      <3>2. w <=> Turn(op[2], v, {a}, B)
        <4>1. After(Append(h2m, op[2]), u, {a}, B) <=> Turn(op[2], After(h2m, u, {a}, B), {a}, B)
          BY <1>1, <3>1, AfterAppend
        <4> QED BY <1>2, <1>3, <3>1, <4>1
      <3>3. Turn(op, v, on, off) <=> Turn(op[2], v, {a}, B)
        BY <1>1, <2>1 DEF Turn, Ops
      <3> HIDE DEF on, off
      <3> QED BY <3>2, <3>3, AfterBoolean
    <2>2. CASE op[1] = "forward"
      <3>1. op[2] \in Cmd /\ op[2] \in MeasCmd
        BY <1>1, <2>2, OpParts DEF MeasCmd, Cmd
      <3>2. CASE ~sent
        <4>1. h2m' = h2m
          BY <3>2 DEF Ran
        <4>2. Turn(op, v, on, off) = v
          BY <1>1, <2>2 DEF Turn, Ops
        <4> QED BY <1>2, <1>3, <4>1, <4>2
      <3>3. CASE sent
        <4>1. h2m' = Append(h2m, op[2])
          BY <3>3 DEF Ran
        <4>2. w <=> Turn(op[2], v, {a}, B)
          <5>1. After(Append(h2m, op[2]), u, {a}, B) <=> Turn(op[2], After(h2m, u, {a}, B), {a}, B)
            BY <1>1, <3>1, AfterAppend
          <5> QED BY <1>2, <1>3, <4>1, <5>1
        <4>3. Turn(op[2], v, {a}, B) = v
          BY <3>1 DEF Turn, Names, MeasCmd
        <4>4. Turn(op, v, on, off) = v
          BY <1>1, <2>2 DEF Turn, Ops
        <4> HIDE DEF on, off
        <4> QED BY <4>2, <4>3, <4>4
      <3>4. sent \in BOOLEAN
        BY DEF Ran
      <3> HIDE DEF on, off
      <3> QED BY <3>2, <3>3, <3>4
    <2>3. CASE op[1] \notin {"cmd", "forward"}
      <3>1. h2m' = h2m
        BY <2>3 DEF Ran
      <3>2. Turn(op, v, on, off) = v
        BY <1>1, <2>3 DEF Turn, Ops
      <3> QED BY <1>2, <1>3, <3>1, <3>2
    <2> QED BY <2>1, <2>2, <2>3
  <1>5. Sends(op, sent) => Turn(<<"mark", op[2]>>, w, on, off) = w
    <2>1. <<"mark", op[2]>> \notin on /\ <<"mark", op[2]>> \notin off
      BY DEF Ops
    <2> QED BY <2>1 DEF Turn
  <1> HIDE DEF on, off
  <1>6. After(todo[t], v, on, off) <=> After(Tail(todo[t]), w, on, off)
    <2>1. After(todo[t], v, on, off) <=> After(Tail(todo[t]), Turn(op, v, on, off), on, off)
      BY RanAfter
    <2> QED BY <1>4, <2>1
  <1>7. After(todo'[t], w, on, off) <=> After(Tail(todo[t]), w, on, off)
    <2>1. CASE Sends(op, sent)
      <3>1. After(todo'[t], w, on, off)
              <=> After(Tail(todo[t]), Turn(<<"mark", op[2]>>, w, on, off), on, off)
        BY <2>1, RanAfter
      <3> QED BY <1>5, <2>1, <3>1
    <2>2. CASE ~Sends(op, sent)
      <3>1. todo'[t] = Tail(todo[t])
        BY <2>2, RanTail
      <3> QED BY <3>1
    <2> QED BY <2>1, <2>2
  <1>8. Worked(todo, v, on, off) <=> After(todo[t], v, on, off)
    BY Alone
  <1>9. Worked(todo', w, on, off) <=> After(todo'[t], w, on, off)
    <2>1. \A s \in Thread : s # t => todo'[s] = <<>>
      BY StaysAlone
    <2> QED BY <2>1, Alone
  <1> QED BY <1>2, <1>3, <1>6, <1>7, <1>8, <1>9 DEF Flag, on, off

\* To a successor of mnld a request is lost: what the threads still have to do leads to less.
LEMMA FlagLess ==
    ASSUME TypeOK, NEW t \in Thread, NEW op, NEW sent, Ran(t, op, sent),
           \A s \in Thread : s # t => todo[s] = <<>>, NEW a, NEW B,
           Flag(todo', <<>>, FALSE, a, B)
    PROVE  Flag(todo, <<>>, FALSE, a, B)
  <1> DEFINE on == Ops({"cmd"}, {a})
             off == Ops({"cmd"}, B)
  <1>1. Sends(op, sent) => Turn(<<"mark", op[2]>>, FALSE, on, off) = FALSE
    <2>1. <<"mark", op[2]>> \notin on /\ <<"mark", op[2]>> \notin off
      BY DEF Ops
    <2> QED BY <2>1 DEF Turn
  <1> HIDE DEF on, off
  <1>2. After(<<>>, FALSE, {a}, B) = FALSE
    <2>1. ~After(<<>>, FALSE, {a}, B)
      BY AfterNone
    <2> QED BY <2>1, AfterBoolean
  <1>3. \A s \in Thread : s # t => todo'[s] = <<>>
    BY StaysAlone
  <1>4. Worked(todo', FALSE, on, off)
    BY <1>2 DEF Flag, on, off
  <1>5. After(Tail(todo[t]), FALSE, on, off)
    <2>1. After(todo'[t], FALSE, on, off)
      BY <1>3, <1>4, Alone
    <2>2. CASE Sends(op, sent)
      <3>1. After(todo'[t], FALSE, on, off)
              <=> After(Tail(todo[t]), Turn(<<"mark", op[2]>>, FALSE, on, off), on, off)
        BY <2>2, RanAfter
      <3> QED BY <1>1, <2>1, <2>2, <3>1
    <2>3. CASE ~Sends(op, sent)
      BY <2>1, <2>3, RanAfter
    <2> QED BY <2>2, <2>3
  <1>6. PICK v \in BOOLEAN : v = Turn(op, FALSE, on, off)
    BY AfterBoolean
  <1>7. After(Tail(todo[t]), v, on, off)
    BY <1>5, AfterMore
  <1>8. After(todo[t], FALSE, on, off)
    BY <1>6, <1>7, RanAfter
  <1>9. Worked(todo, FALSE, on, off)
    BY <1>8, Alone
  <1> QED BY <1>2, <1>9 DEF Flag, on, off

\* gps_state follows what was sent.
LEMMA StartedKept ==
    ASSUME TypeOK, NEW t \in Thread, NEW op, NEW sent, Ran(t, op, sent),
           \A s \in Thread : s # t => todo[s] = <<>>, op[1] = "cmd" => sent
    PROVE  Started(todo', hal'.state) <=> Started(todo, hal.state)
  <1> DEFINE on == Ops({"cmd", "mark"}, {"start"})
             off == Ops({"cmd", "mark"}, Names \ {"start"})
  <1>1. op \in Op
    BY DEF Ran
  <1>2. PICK v \in BOOLEAN : v = (hal.state = "start")
    OBVIOUS
  <1>3. PICK w \in BOOLEAN : w = (hal'.state = "start")
    OBVIOUS
  <1>4. CASE Sends(op, sent)
    <2>1. op[1] = "cmd" /\ op[2] \in Names
      BY <1>1, <1>4, OpParts DEF Sends
    <2>2. v = w
      BY <1>2, <1>3, <2>1 DEF Ran
    <2>3. Turn(op, v, on, off) <=> op[2] = "start"
      BY <1>1, <2>1 DEF Turn, Ops
    <2>4. PICK m : m = <<"mark", op[2]>>
      OBVIOUS
    <2>5. m \in Op /\ m[1] = "mark" /\ m[2] = op[2]
      BY <2>1, <2>4, OpTypes
    <2>6. Turn(m, w, on, off) <=> op[2] = "start"
      BY <2>1, <2>5 DEF Turn, Ops
    <2> HIDE DEF on, off
    <2>7. Turn(op, v, on, off) = Turn(m, w, on, off)
      BY <2>3, <2>6, AfterBoolean
    <2>8. After(todo[t], v, on, off) <=> After(Tail(todo[t]), Turn(op, v, on, off), on, off)
      BY RanAfter
    <2>9. After(todo'[t], w, on, off) <=> After(Tail(todo[t]), Turn(m, w, on, off), on, off)
      BY <1>4, <2>4, RanAfter
    <2>10. After(todo'[t], w, on, off) <=> After(todo[t], v, on, off)
      BY <2>7, <2>8, <2>9
    <2>11. Worked(todo, v, on, off) <=> After(todo[t], v, on, off)
      BY Alone
    <2>12. Worked(todo', w, on, off) <=> After(todo'[t], w, on, off)
      BY StaysAlone, Alone
    <2> QED BY <1>2, <1>3, <2>10, <2>11, <2>12 DEF Started, on, off
  <1>5. CASE ~Sends(op, sent)
    <2>1. op[1] # "cmd"
      BY <1>5 DEF Sends
    <2>2. Turn(op, v, on, off) = w
      <3>1. CASE op[1] = "mark"
        <4>1. w <=> op[2] = "start"
          BY <1>3, <3>1 DEF Ran
        <4>2. op[2] \in Names
          BY <1>1, <3>1, OpParts
        <4>3. Turn(op, v, on, off) <=> op[2] = "start"
          BY <1>1, <3>1, <4>2 DEF Turn, Ops
        <4> HIDE DEF on, off
        <4> QED BY <4>1, <4>3, AfterBoolean
      <3>2. CASE op[1] # "mark"
        <4>1. v = w
          BY <1>2, <1>3, <3>2 DEF Ran
        <4>2. Turn(op, v, on, off) = v
          BY <1>1, <2>1, <3>2 DEF Turn, Ops
        <4> QED BY <4>1, <4>2
      <3> QED BY <3>1, <3>2
    <2> HIDE DEF on, off
    <2>3. After(todo[t], v, on, off) <=> After(Tail(todo[t]), Turn(op, v, on, off), on, off)
      BY RanAfter
    <2>4. After(todo'[t], w, on, off) <=> After(Tail(todo[t]), w, on, off)
      <3>1. todo'[t] = Tail(todo[t])
        BY <1>5, RanTail
      <3> QED BY <3>1
    <2>5. After(todo'[t], w, on, off) <=> After(todo[t], v, on, off)
      BY <2>2, <2>3, <2>4
    <2>6. Worked(todo, v, on, off) <=> After(todo[t], v, on, off)
      BY Alone
    <2>7. Worked(todo', w, on, off) <=> After(todo'[t], w, on, off)
      BY StaysAlone, Alone
    <2> QED BY <1>2, <1>3, <2>5, <2>6, <2>7 DEF Started, on, off
  <1> QED BY <1>4, <1>5

\* A thread with work, of which the other has none, has the resources.
LEMMA CalmStep ==
    ASSUME TypeOK, Shape, NEW t \in Thread, Step(t), Calm'
    PROVE  Calm /\ hal.state # "unknown" /\ \A s \in Thread : s # t => todo[s] = <<>>
  <1> DEFINE op == Head(todo[t])
  <1>1. PICK sent : Ran(t, op, sent) /\ Misses(op, sent)
    BY StepEffect
  <1>2. op \in Op /\ todo[t] # <<>> /\ op = Head(todo[t])
    BY <1>1 DEF Ran
  <1> HIDE DEF op
  <1>3. ~past.raced /\ ~(\A u \in Thread : todo[u] # <<>>)
    BY <1>1 DEF Ran, Calm, TypeOK, Past
  <1>4. \A s \in Thread : s # t => todo[s] = <<>>
    BY <1>2, <1>3 DEF Thread
  <1>5. hal.state # "unknown"
    <2>1. SUFFICES ASSUME hal.state = "unknown" PROVE FALSE
      OBVIOUS
    <2>2. /\ ~hal.bound /\ t = "binder" /\ todo.binder \in Seq(NoMark)
      BY <1>2, <2>1 DEF Shape, ServiceShape, Sockets, Thread
    <2>3. op[1] # "mark"
      BY <1>2, <2>2, Queue DEF NoMark
    <2>4. hal'.state = "unknown" /\ hal'.intent = "unknown"
      BY <1>1, <2>1, <2>3 DEF Ran, Calm
    <2>5. op[1] # "intent" /\ hal.intent = "unknown"
      BY <1>1, <1>2, <2>4, OpParts DEF Ran, Names
    <2>6. todo.binder = Gpsinf("init")
      BY <1>2, <2>2, <2>5 DEF Shape, ServiceShape, FirstCall
    <2>7. op = <<"intent", "init">>
      BY <1>2, <2>2, <2>6, GpsinfParts DEF Names
    <2> QED BY <2>5, <2>7
  <1> QED BY <1>3, <1>4, <1>5 DEF Calm, Thread

\* What mnld will do is what it would have done, or less if a reboot is to be handled.
LEMMA InStepKept ==
    ASSUME InStep, \A c : WillBe(c)' <=> WillBe(c),
           WillUse' => WillUse, WillInit' => WillInit,
           \/ Coming'
           \/ /\ ~Coming
              /\ WillUse' <=> WillUse
              /\ WillInit' <=> WillInit
              /\ Started(todo', hal'.state) <=> Started(todo, hal.state)
    PROVE  InStep'
  BY DEF InStep

\* An operation of a thread leaves what the binder's call means.
LEMMA StepWill ==
    ASSUME TypeOK, Shape, NEW t \in Thread, NEW op, NEW sent, Ran(t, op, sent),
           \A s \in Thread : s # t => todo[s] = <<>>, NEW c
    PROVE  WillBe(c)' <=> WillBe(c)
  <1>1. CASE t = "binder"
    BY <1>1, MeansKept DEF WillBe
  <1>2. CASE t = "worker"
    <2>1. op \in WorkOp
      BY <1>2, Queue DEF Ran, Shape, ServiceShape, Sockets
    <2>2. hal'.intent = hal.intent
      BY <2>1 DEF Ran, WorkOp
    <2>3. todo'.binder = <<>> /\ todo.binder = <<>>
      BY <1>2, StaysAlone DEF Thread
    <2> QED BY <2>2, <2>3 DEF WillBe
  <1> QED BY <1>1, <1>2 DEF Thread

\* A step of a thread moves its request on to the link, or loses it with mnld.
LEMMA StepInStep ==
    ASSUME TypeOK, Shape, Sound => InStep, NEW t \in Thread, Step(t), Sound'
    PROVE  InStep'
  <1> DEFINE op == Head(todo[t])
  <1>1. PICK sent : Ran(t, op, sent) /\ Misses(op, sent)
    BY StepEffect
  <1> HIDE DEF op
  <1>2. InStep /\ hal.state # "unknown" /\ \A s \in Thread : s # t => todo[s] = <<>>
    <2>1. Calm /\ hal.state # "unknown" /\ \A s \in Thread : s # t => todo[s] = <<>>
      BY CalmStep DEF Sound
    <2> QED BY <1>1, <2>1 DEF Misses, Sound
  <1>3. \A c : WillBe(c)' <=> WillBe(c)
    BY <1>1, <1>2, StepWill
  <1>4. UNCHANGED <<mnld, m2h>> /\ mnld.used \in BOOLEAN /\ mnld.init \in BOOLEAN
    BY <1>1 DEF Ran, TypeOK, Daemon
  <1>5. CASE mnld.up
    <2>1. /\ "start" \in Names /\ "init" \in Names
          /\ \A c \in MeasCmd : c \notin {"stop", "reboot"} /\ c \notin {"cleanup"}
      BY DEF Names, MeasCmd
    <2>6. op[1] = "cmd" => sent
      BY <1>1, <1>2, <1>5 DEF Misses, Sound
    <2>2. WillUse' <=> WillUse
      BY <1>1, <1>2, <1>4, <2>1, <2>6, FlagKept DEF WillUse
    <2>3. WillInit' <=> WillInit
      BY <1>1, <1>2, <1>4, <2>1, <2>6, FlagKept DEF WillInit
    <2>4. Started(todo', hal'.state) <=> Started(todo, hal.state)
      BY <1>1, <1>2, <2>6, StartedKept
    <2>5. Coming' <=> Coming
      BY <1>4 DEF Coming
    <2> QED BY <1>2, <1>3, <2>2, <2>3, <2>4, <2>5, InStepKept
  <1>6. CASE ~mnld.up
    <2>1. h2m = <<>> /\ h2m' = <<>> /\ mnld.used = FALSE /\ mnld.init = FALSE
      BY <1>1, <1>4, <1>6 DEF Ran, Shape, DaemonShape, DaemonDown
    <2>2. WillUse' => WillUse
      BY <1>1, <1>2, <1>4, <2>1, FlagLess DEF WillUse
    <2>3. WillInit' => WillInit
      BY <1>1, <1>2, <1>4, <2>1, FlagLess DEF WillInit
    <2>4. Coming'
      BY <1>4, <1>6 DEF Coming
    <2> QED BY <1>2, <1>3, <2>2, <2>3, <2>4, InStepKept
  <1> QED BY <1>5, <1>6

\* A call, with both threads without work: what mnld will do is what the call makes of it.
LEMMA CallFlags ==
    ASSUME todo.binder = <<>>, todo.worker = <<>>, todo'.worker = <<>>,
           NEW q, NEW u \in BOOLEAN, NEW a, NEW B
    PROVE  /\ Flag(todo, q, u, a, B) <=> After(q, u, {a}, B)
           /\ Flag(todo', q, u, a, B)
                <=> After(todo'.binder, After(q, u, {a}, B), Ops({"cmd"}, {a}), Ops({"cmd"}, B))
  <1>1. PICK v \in BOOLEAN : v = After(q, u, {a}, B)
    BY AfterBoolean
  <1>2. PICK on : on = Ops({"cmd"}, {a})
    OBVIOUS
  <1>3. PICK off : off = Ops({"cmd"}, B)
    OBVIOUS
  <1>4. "binder" \in Thread /\ \A t \in Thread : t # "binder" => todo'[t] = <<>> /\ todo[t] = <<>>
    BY DEF Thread
  <1>5. Worked(todo', v, on, off) <=> After(todo'["binder"], v, on, off)
    BY <1>4, Alone
  <1>6. Worked(todo, v, on, off) <=> After(todo["binder"], v, on, off)
    BY <1>4, Alone
  <1>7. After(<<>>, v, on, off) <=> v
    BY AfterNone
  <1>8. Flag(todo, q, u, a, B) <=> Worked(todo, v, on, off)
    BY <1>1, <1>2, <1>3 DEF Flag
  <1>9. Flag(todo', q, u, a, B) <=> Worked(todo', v, on, off)
    BY <1>1, <1>2, <1>3 DEF Flag
  <1> QED BY <1>1, <1>2, <1>3, <1>5, <1>6, <1>7, <1>8, <1>9

\* The same for gps_state.
LEMMA CallStarted ==
    ASSUME todo.binder = <<>>, todo.worker = <<>>, todo'.worker = <<>>, NEW s
    PROVE  /\ Started(todo', s)
                <=> After(todo'.binder, s = "start", Ops({"cmd", "mark"}, {"start"}),
                                                     Ops({"cmd", "mark"}, Names \ {"start"}))
           /\ Started(todo, s) <=> s = "start"
  <1>1. PICK v \in BOOLEAN : v = (s = "start")
    OBVIOUS
  <1>2. PICK on : on = Ops({"cmd", "mark"}, {"start"})
    OBVIOUS
  <1>3. PICK off : off = Ops({"cmd", "mark"}, Names \ {"start"})
    OBVIOUS
  <1>4. "binder" \in Thread /\ \A t \in Thread : t # "binder" => todo'[t] = <<>> /\ todo[t] = <<>>
    BY DEF Thread
  <1>5. Worked(todo', v, on, off) <=> After(todo'["binder"], v, on, off)
    BY <1>4, Alone
  <1>6. Worked(todo, v, on, off) <=> After(todo["binder"], v, on, off)
    BY <1>4, Alone
  <1>7. After(<<>>, v, on, off) <=> v
    BY AfterNone
  <1>8. /\ Started(todo, s) <=> Worked(todo, v, on, off)
        /\ Started(todo', s) <=> Worked(todo', v, on, off)
    BY <1>1, <1>2, <1>3 DEF Started
  <1> QED BY <1>1, <1>2, <1>3, <1>5, <1>6, <1>7, <1>8

\* What a call makes of mnld's record, of gps_state and of the intent.
LEMMA CallWill ==
    ASSUME TypeOK, NEW ops, todo.binder = <<>>, todo.worker = <<>>,
           todo'.binder = ops, todo'.worker = <<>>, UNCHANGED <<mnld, h2m>>
    PROVE  /\ \A c \in {"init", "start", "stop"} : ops = Gpsinf(c) =>
                 /\ WillUse' <=> c = "start" \/ (WillUse /\ c # "stop")
                 /\ WillInit' <=> c = "init" \/ WillInit
                 /\ Started(todo', hal'.state) <=> c = "start"
                 /\ \A d : WillBe(d)' <=> d = c
           /\ ops \in {DisableOps, DeathOps} =>
                 /\ ~WillUse' /\ ~WillInit'
                 /\ \A d : WillBe(d)' <=> d = "cleanup"
           /\ \A c \in MeasCmd : ops = <<<<"forward", c>>>> =>
                 /\ WillUse' <=> WillUse
                 /\ WillInit' <=> WillInit
                 /\ Started(todo', hal'.state) <=> hal'.state = "start"
                 /\ \A d : WillBe(d)' <=> hal'.intent = d
           /\ Started(todo, hal.state) <=> hal.state = "start"
           /\ \A d : WillBe(d) <=> hal.intent = d
  <1>1. mnld.used \in BOOLEAN /\ mnld.init \in BOOLEAN
    BY DEF TypeOK, Daemon
  <1>2. PICK K : K = {"cmd"}
    OBVIOUS
  <1>3. PICK M : M = {"cmd", "mark"}
    OBVIOUS
  <1>4. PICK A : A = {"start"}
    OBVIOUS
  <1>5. PICK B : B = {"stop", "reboot"}
    OBVIOUS
  <1>6. PICK C : C = {"init"}
    OBVIOUS
  <1>7. PICK D : D = {"cleanup"}
    OBVIOUS
  <1>8. PICK E : E = Names \ {"start"}
    OBVIOUS
  <1>9. /\ "cmd" \in K /\ "intent" \notin K /\ "null" \notin K /\ "forward" \notin K
        /\ "cmd" \in M /\ "intent" \notin M /\ "null" \notin M /\ "forward" \notin M
    BY <1>2, <1>3
  <1>10. PICK u \in BOOLEAN : u = After(h2m, mnld.used, {"start"}, B)
    BY AfterBoolean
  <1>11. PICK i \in BOOLEAN : i = After(h2m, mnld.init, {"init"}, D)
    BY AfterBoolean
  <1>12. PICK g \in BOOLEAN : g = (hal'.state = "start")
    OBVIOUS
  <1>13. (WillUse <=> u) /\ (WillUse' <=> After(ops, u, Ops(K, A), Ops(K, B)))
    <2>1. PICK w \in BOOLEAN : w = mnld.used
      BY <1>1
    <2>2. /\ Flag(todo, h2m, w, "start", B) <=> After(h2m, w, {"start"}, B)
          /\ Flag(todo', h2m, w, "start", B)
               <=> After(todo'.binder, After(h2m, w, {"start"}, B),
                         Ops({"cmd"}, {"start"}), Ops({"cmd"}, B))
      BY CallFlags
    <2>3. WillUse <=> Flag(todo, h2m, w, "start", B)
      BY <1>5, <2>1 DEF WillUse
    <2>4. WillUse' <=> Flag(todo', h2m, w, "start", B)
      BY <1>5, <2>1 DEF WillUse
    <2> QED BY <1>2, <1>4, <1>10, <2>1, <2>2, <2>3, <2>4
  <1>14. (WillInit <=> i) /\ (WillInit' <=> After(ops, i, Ops(K, C), Ops(K, D)))
    <2>1. PICK w \in BOOLEAN : w = mnld.init
      BY <1>1
    <2>2. /\ Flag(todo, h2m, w, "init", D) <=> After(h2m, w, {"init"}, D)
          /\ Flag(todo', h2m, w, "init", D)
               <=> After(todo'.binder, After(h2m, w, {"init"}, D),
                         Ops({"cmd"}, {"init"}), Ops({"cmd"}, D))
      BY CallFlags
    <2>3. WillInit <=> Flag(todo, h2m, w, "init", D)
      BY <1>7, <2>1 DEF WillInit
    <2>4. WillInit' <=> Flag(todo', h2m, w, "init", D)
      BY <1>7, <2>1 DEF WillInit
    <2> QED BY <1>2, <1>6, <1>11, <2>1, <2>2, <2>3, <2>4
  <1>15. /\ Started(todo', hal'.state) <=> After(ops, g, Ops(M, A), Ops(M, E))
         /\ Started(todo, hal.state) <=> hal.state = "start"
    BY <1>3, <1>4, <1>8, <1>12, CallStarted
  <1>16. \A d : /\ WillBe(d)' <=> Means(ops, hal'.intent, d)
                /\ WillBe(d) <=> hal.intent = d
    BY MeansCall DEF WillBe, Names
  <1>17. ASSUME NEW c \in {"init", "start", "stop"}, ops = Gpsinf(c)
         PROVE  /\ WillUse' <=> c = "start" \/ (WillUse /\ c # "stop")
                /\ WillInit' <=> c = "init" \/ WillInit
                /\ Started(todo', hal'.state) <=> c = "start"
                /\ \A d : WillBe(d)' <=> d = c
    <2>1. c \in Names
      BY DEF Names
    <2>2. After(Gpsinf(c), u, Ops(K, A), Ops(K, B)) <=> c \in A \/ (u /\ c \notin B)
      BY <1>9, <2>1, GpsinfTurns
    <2>3. After(Gpsinf(c), i, Ops(K, C), Ops(K, D)) <=> c \in C \/ (i /\ c \notin D)
      BY <1>9, <2>1, GpsinfTurns
    <2>4. After(Gpsinf(c), g, Ops(M, A), Ops(M, E)) <=> c \in A \/ (g /\ c \notin E)
      BY <1>9, <2>1, GpsinfTurns
    <2>5. \A d : Means(Gpsinf(c), hal'.intent, d) <=> d = c
      BY <2>1, MeansCall
    <2>6. /\ c \in A <=> c = "start"
          /\ c \notin B <=> c # "stop"
          /\ c \in C <=> c = "init"
          /\ c \notin D
          /\ c \notin E <=> c = "start"
      BY <1>4, <1>5, <1>6, <1>7, <1>8, <2>1
    <2> QED BY <1>13, <1>14, <1>15, <1>16, <1>17, <2>2, <2>3, <2>4, <2>5, <2>6
  <1>18. ASSUME ops \in {DisableOps, DeathOps}
         PROVE  ~WillUse' /\ ~WillInit' /\ \A d : WillBe(d)' <=> d = "cleanup"
    <2>1. /\ "cleanup" \notin A /\ "stop" \notin A /\ "stop" \in B
          /\ "cleanup" \notin C /\ "cleanup" \in D
      BY <1>4, <1>5, <1>6, <1>7
    <2>2. /\ ~After(DisableOps, u, Ops(K, A), Ops(K, B))
          /\ ~After(DeathOps, u, Ops(K, A), Ops(K, B))
      BY <1>9, <2>1, DisableTurns
    <2>3. /\ ~After(DisableOps, i, Ops(K, C), Ops(K, D))
          /\ ~After(DeathOps, i, Ops(K, C), Ops(K, D))
      BY <1>9, <2>1, DisableTurns
    <2>4. \A d : /\ Means(DisableOps, hal'.intent, d) <=> d = "cleanup"
                 /\ Means(DeathOps, hal'.intent, d) <=> d = "cleanup"
      BY MeansCall DEF Names
    <2> QED BY <1>13, <1>14, <1>16, <1>18, <2>2, <2>3, <2>4
  <1>19. ASSUME NEW c \in MeasCmd, ops = <<<<"forward", c>>>>
         PROVE  /\ WillUse' <=> WillUse
                /\ WillInit' <=> WillInit
                /\ Started(todo', hal'.state) <=> hal'.state = "start"
                /\ \A d : WillBe(d)' <=> hal'.intent = d
    <2>1. After(<<<<"forward", c>>>>, u, Ops(K, A), Ops(K, B)) <=> u
      BY <1>9, MeasTurns
    <2>2. After(<<<<"forward", c>>>>, i, Ops(K, C), Ops(K, D)) <=> i
      BY <1>9, MeasTurns
    <2>3. After(<<<<"forward", c>>>>, g, Ops(M, A), Ops(M, E)) <=> g
      BY <1>9, MeasTurns
    <2>4. ASSUME NEW d PROVE Means(ops, hal'.intent, d) <=> hal'.intent = d
      <3> DEFINE on == Ops({"intent"}, {d})
                 off == Ops({"intent"}, Names \ {d})
      <3>1. PICK f : f = <<"forward", c>>
        OBVIOUS
      <3>2. PICK w : w = <<f>>
        OBVIOUS
      <3>3. Len(w) = 1 /\ w[1] = f /\ ops = w
        BY <1>19, <3>1, <3>2
      <3>4. \A v \in BOOLEAN : Turn(f, v, on, off) <=> v
        BY <3>1 DEF Turn, Ops
      <3> HIDE DEF on, off
      <3>5. PICK v \in BOOLEAN : v = (hal'.intent = d)
        OBVIOUS
      <3>6. After(w, v, on, off) <=> Turn(w[1], v, on, off)
        BY <3>3, AfterOne
      <3>7. After(ops, v, on, off) <=> v
        BY <3>3, <3>4, <3>6
      <3> QED BY <3>5, <3>7 DEF Means, on, off
    <2> QED BY <1>12, <1>13, <1>14, <1>15, <1>16, <1>19, <2>1, <2>2, <2>3, <2>4
  <1> QED BY <1>15, <1>16, <1>17, <1>18, <1>19

\* A call that leaves the two threads calm found them calm.
LEMMA CalmCall ==
    ASSUME Calm', todo.binder = <<>>, todo'.binder # <<>>, todo'.worker = todo.worker,
           past'.raced = past.raced, hal'.state = hal.state \/ hal.intent = "unknown"
    PROVE  Calm /\ todo.worker = <<>> /\ todo'.worker = <<>>
  BY DEF Calm

\* And the same of what was given up on.
LEMMA SoundCall ==
    ASSUME Sound', todo.binder = <<>>, todo'.binder # <<>>, todo'.worker = todo.worker,
           past'.raced = past.raced, hal'.state = hal.state \/ hal.intent = "unknown",
           UNCHANGED lost
    PROVE  Sound /\ todo.worker = <<>> /\ todo'.worker = <<>>
  <1>1. Calm' /\ Told' /\ (Told' <=> Told)
    BY DEF Sound, Told
  <1>2. Calm /\ todo.worker = <<>> /\ todo'.worker = <<>>
    BY <1>1, CalmCall
  <1> QED BY <1>1, <1>2 DEF Sound

\* The calls make the binder thread do something.
LEMMA CallsNotEmpty ==
    /\ \A c \in Names : Gpsinf(c) # <<>>
    /\ DisableOps # <<>> /\ DeathOps # <<>>
    /\ \A c \in MeasCmd : <<<<"forward", c>>>> # <<>>
  <1>1. \A c \in Names : Gpsinf(c) # <<>>
    BY GpsinfParts
  <1>2. "init" \in Names
    BY DEF Names
  <1>3. Means(DisableOps, "init", "cleanup") /\ Means(DeathOps, "init", "cleanup")
    BY <1>2, MeansCall
  <1>4. ~Means(<<>>, "init", "cleanup")
    BY <1>2, MeansCall
  <1>5. \A c \in MeasCmd : <<<<"forward", c>>>> # <<>>
    OBVIOUS
  <1> QED BY <1>1, <1>3, <1>4, <1>5

\* Nothing leaves a flag that is not set as it is.
LEMMA AfterNothing == ASSUME NEW on, NEW off PROVE After(<<>>, FALSE, on, off) = FALSE
  <1>1. ~After(<<>>, FALSE, on, off)
    BY AfterNone
  <1> QED BY <1>1, AfterBoolean

\* Threads without work ask a successor of mnld for nothing.
LEMMA NoFlag ==
    ASSUME NEW td, td.binder = <<>>, td.worker = <<>>, NEW a, NEW B
    PROVE  ~Flag(td, <<>>, FALSE, a, B)
  BY AfterNothing DEF Flag, Worked

\* A call asks a successor of mnld for what the binder thread has to send.
LEMMA CallMeant ==
    ASSUME TypeOK, Calm', NEW ops, todo.binder = <<>>, todo'.binder = ops,
           todo'.worker = todo.worker, past'.raced = past.raced,
           hal'.state = hal.state \/ hal.intent = "unknown",
           \/ \E c \in {"init", "start", "stop"} : ops = Gpsinf(c)
           \/ ops \in {DisableOps, DeathOps}
           \/ \E c \in MeasCmd : ops = <<<<"forward", c>>>>
    PROVE  Meant'
  <1>1. ops # <<>>
    BY CallsNotEmpty DEF Names
  <1>2. todo.worker = <<>> /\ todo'.worker = <<>>
    BY <1>1, CalmCall
  <1>3. PICK K : K = {"cmd"}
    OBVIOUS
  <1>4. PICK A : A = {"start"}
    OBVIOUS
  <1>5. PICK B : B = {"stop", "reboot"}
    OBVIOUS
  <1>6. PICK C : C = {"init"}
    OBVIOUS
  <1>7. PICK D : D = {"cleanup"}
    OBVIOUS
  <1>8. \A on, off : After(<<>>, FALSE, on, off) = FALSE
    BY AfterNothing
  <1>9. FreshUse' <=> After(ops, FALSE, Ops(K, A), Ops(K, B))
    <2>1. Flag(todo', <<>>, FALSE, "start", B)
            <=> After(todo'.binder, After(<<>>, FALSE, {"start"}, B),
                      Ops({"cmd"}, {"start"}), Ops({"cmd"}, B))
      BY <1>2, CallFlags
    <2> QED BY <1>3, <1>4, <1>5, <1>8, <2>1 DEF FreshUse
  <1>10. FreshInit' <=> After(ops, FALSE, Ops(K, C), Ops(K, D))
    <2>1. Flag(todo', <<>>, FALSE, "init", D)
            <=> After(todo'.binder, After(<<>>, FALSE, {"init"}, D),
                      Ops({"cmd"}, {"init"}), Ops({"cmd"}, D))
      BY <1>2, CallFlags
    <2> QED BY <1>3, <1>6, <1>7, <1>8, <2>1 DEF FreshInit
  <1>11. "cmd" \in K /\ "intent" \notin K /\ "null" \notin K /\ "forward" \notin K
    BY <1>3
  <1>12. ASSUME NEW c \in {"init", "start", "stop"}, ops = Gpsinf(c) PROVE Meant'
    <2>1. c \in Names /\ "cleanup" # c
      BY DEF Names
    <2>2. FreshUse' => c = "start"
      <3>1. After(Gpsinf(c), FALSE, Ops(K, A), Ops(K, B)) <=> c \in A
        BY <1>11, <2>1, GpsinfTurns
      <3> QED BY <1>4, <1>9, <1>12, <3>1
    <2>3. \A d : WillBe(d)' <=> d = c
      BY <1>12, <2>1, MeansCall DEF WillBe
    <2> QED BY <2>1, <2>2, <2>3 DEF Meant
  <1>13. ASSUME ops \in {DisableOps, DeathOps} PROVE Meant'
    <2>1. ~FreshUse'
      <3>1. "stop" \notin A /\ "cleanup" \notin A /\ "stop" \in B
        BY <1>4, <1>5
      <3>2. /\ ~After(DisableOps, FALSE, Ops(K, A), Ops(K, B))
            /\ ~After(DeathOps, FALSE, Ops(K, A), Ops(K, B))
        BY <1>11, <3>1, DisableTurns
      <3> QED BY <1>9, <1>13, <3>2
    <2>2. ~FreshInit'
      <3>1. "cleanup" \notin C /\ "cleanup" \in D
        BY <1>6, <1>7
      <3>2. /\ ~After(DisableOps, FALSE, Ops(K, C), Ops(K, D))
            /\ ~After(DeathOps, FALSE, Ops(K, C), Ops(K, D))
        BY <1>11, <3>1, DisableTurns
      <3> QED BY <1>10, <1>13, <3>2
    <2> QED BY <2>1, <2>2 DEF Meant
  <1>14. ASSUME NEW c \in MeasCmd, ops = <<<<"forward", c>>>> PROVE Meant'
    <2>1. ~FreshUse'
      BY <1>9, <1>11, <1>14, MeasTurns
    <2>2. ~FreshInit'
      BY <1>10, <1>11, <1>14, MeasTurns
    <2> QED BY <2>1, <2>2 DEF Meant
  <1> QED BY <1>12, <1>13, <1>14

\* The calls are such calls.
LEMMA CallsMeant ==
    ASSUME TypeOK, Calm',
           SetCallback \/ StartStop \/ Disable \/ Measure(TRUE) \/ Measure(FALSE) \/ FwDie
    PROVE  Meant'
  <1>1. CASE SetCallback
    <2>1. Call(Gpsinf("init")) /\ (hal'.state = hal.state \/ hal.intent = "unknown")
      BY <1>1 DEF SetCallback
    <2> QED BY <2>1, CallParts, CallMeant
  <1>2. CASE StartStop
    <2>1. PICK c \in {"start", "stop"} : Call(Gpsinf(c)) /\ UNCHANGED hal
      BY <1>2 DEF StartStop
    <2> QED BY <2>1, CallParts, CallMeant
  <1>3. CASE Disable
    <2>1. Call(DisableOps) /\ UNCHANGED hal
      BY <1>3 DEF Disable, DisableOps
    <2> QED BY <2>1, CallParts, CallMeant
  <1>4. ASSUME NEW on \in BOOLEAN, Measure(on) PROVE Meant'
    <2>1. PICK c \in MeasCmd : Call(<<<<"forward", c>>>>)
      BY <1>4 DEF Measure, MeasCmd
    <2>2. hal'.state = hal.state
      BY <1>4 DEF Measure, TypeOK, HalContext
    <2> QED BY <2>1, <2>2, CallParts, CallMeant
  <1>5. CASE FwDie
    <2>1. /\ todo.binder = <<>> /\ todo' = [todo EXCEPT !.binder = DeathOps]
          /\ UNCHANGED hal /\ past' = [past EXCEPT !.fwDeaths = @ + 1]
      BY <1>5 DEF FwDie, DeathOps
    <2>2. todo'.binder = DeathOps /\ todo'.worker = todo.worker /\ past'.raced = past.raced
      BY <2>1 DEF TypeOK, Thread, Past
    <2> QED BY <2>1, <2>2, CallMeant
  <1> QED BY <1>1, <1>2, <1>3, <1>4, <1>5

\* What the worker sends again is what the intent says.
LEMMA WorkerMeant ==
    ASSUME TypeOK, Calm => Meant, Calm', WorkerRecv
    PROVE  Meant'
  <1> DEFINE m == Head(m2h)
  <1>1. Heeds(m)
    BY WorkerEffect
  <1> HIDE DEF m
  <1>2. /\ UNCHANGED hal /\ todo.worker = <<>> /\ todo'.binder = todo.binder
        /\ past'.raced = past.raced /\ todo'.worker = (IF m = "reboot" THEN Resend ELSE <<>>)
    BY <1>1 DEF Heeds
  <1>3. Meant
    BY <1>2 DEF Calm
  <1>4. CASE todo'.worker = <<>>
    <2>1. (FreshUse' <=> FreshUse) /\ (FreshInit' <=> FreshInit)
      BY <1>2, <1>4 DEF FreshUse, FreshInit, Flag, Worked
    <2>2. \A c : WillBe(c)' <=> WillBe(c)
      BY <1>2 DEF WillBe
    <2> QED BY <1>3, <2>1, <2>2 DEF Meant
  <1>5. CASE todo'.worker # <<>>
    <2>1. todo'.worker = Resend /\ Resend # <<>> /\ todo'.binder = <<>>
      BY <1>2, <1>5 DEF Calm
    <2>2. hal.intent \in {"init", "start", "stop"}
      BY <2>1, ResendParts DEF TypeOK, HalContext, GpsState
    <2>3. \A c : WillBe(c)' <=> hal.intent = c
      BY <1>2, <2>1, MeansCall DEF WillBe, Names
    <2>4. ASSUME FreshUse', hal.intent # "start" PROVE FALSE
      <3>1. PICK B : B = {"stop", "reboot"}
        OBVIOUS
      <3>2. PICK A : A = {"start"}
        OBVIOUS
      <3>3. PICK K : K = {"cmd"}
        OBVIOUS
      <3>4. "cmd" \in K /\ "init" \notin A
        BY <3>2, <3>3
      <3>5. \A on, off : After(<<>>, FALSE, on, off) = FALSE
        BY AfterNothing
      <3>6. After(Resend, FALSE, Ops(K, A), Ops(K, B))
        BY <2>1, <2>4, <3>1, <3>2, <3>3, <3>5 DEF FreshUse, Flag, Worked
      <3> QED BY <2>2, <2>4, <3>4, <3>6, ResendTurns
    <2> QED BY <2>2, <2>3, <2>4 DEF Meant
  <1> QED BY <1>4, <1>5

\* The threads ask for nothing against the intent.
LEMMA MeantStep ==
    ASSUME TypeOK, Shape, Calm => Meant, [Next]_vars
    PROVE  (Calm => Meant)'
  <1>1. SUFFICES ASSUME Calm' PROVE Meant'
    OBVIOUS
  <1>2. ASSUME UNCHANGED <<todo, hal>>, past'.raced = past.raced PROVE Meant'
    <2>1. Meant
      BY <1>1, <1>2 DEF Calm
    <2> QED BY <1>2, <2>1 DEF Meant, FreshUse, FreshInit, WillBe
  <1>3. CASE UNCHANGED vars
    BY <1>2, <1>3 DEF vars
  <1>4. CASE SetCallback \/ StartStop \/ Disable \/ Measure(TRUE) \/ Measure(FALSE) \/ FwDie
    BY <1>1, <1>4, CallsMeant
  <1>5. ASSUME NEW t \in Thread, Step(t) PROVE Meant'
    <2>1. PICK sent : Ran(t, Head(todo[t]), sent)
      BY <1>5, StepEffect
    <2>2. Calm /\ \A s \in Thread : s # t => todo[s] = <<>>
      BY <1>1, <1>5, CalmStep
    <2>3. (FreshUse' => FreshUse) /\ (FreshInit' => FreshInit)
      BY <2>1, <2>2, FlagLess DEF FreshUse, FreshInit
    <2>4. \A c : WillBe(c)' <=> WillBe(c)
      BY <2>1, <2>2, StepWill
    <2> QED BY <2>2, <2>3, <2>4 DEF Meant
  <1>6. CASE WorkerRecv
    BY <1>1, <1>6, WorkerMeant
  <1>7. CASE MnldRecv \/ EngineDone \/ MnldReport \/ NmeaTimeout \/ MnldDie \/ MnldInit
    BY <1>2, <1>7, MnldSteps DEF Shape, DaemonShape
  <1>8. CASE HalDie
    <2>1. todo'.binder = <<>> /\ todo'.worker = <<>>
      BY <1>8 DEF HalDie, Thread
    <2> QED BY <2>1, NoFlag DEF Meant, FreshUse, FreshInit
  <1> QED BY <1>3, <1>4, <1>5, <1>6, <1>7, <1>8 DEF Next, Thread

\* As long as no call overlaps the handling of a reboot, what the threads of the HAL still have
\* to send asks for nothing against gps_state_intent, whatever was given up on.
LEMMA MeantInvariant == Spec => [](Calm => Meant)
  <1>1. Init => (Calm => Meant)
    <2>1. SUFFICES ASSUME Init PROVE Meant
      OBVIOUS
    <2>2. todo.binder = <<>> /\ todo.worker = <<>>
      BY <2>1 DEF Init, Thread
    <2> QED BY <2>2, NoFlag DEF Meant, FreshUse, FreshInit
  <1>2. TypeOK /\ Shape /\ (Calm => Meant) /\ [Next]_vars => (Calm => Meant)'
    BY MeantStep
  <1>3. GnssInv => TypeOK
    BY DEF GnssInv
  <1> QED BY <1>1, <1>2, <1>3, GnssInvariant, ShapeInvariant, PTL DEF Spec

\* The framework's calls.
LEMMA CallInStep ==
    ASSUME TypeOK, Shape, Sound => InStep, Sound',
           SetCallback \/ StartStop \/ Disable \/ Measure(TRUE) \/ Measure(FALSE) \/ FwDie
    PROVE  InStep'
  <1>0. ServiceShape
    BY DEF Shape
  <1>1. CASE SetCallback
    <2>1. /\ todo.binder = <<>> /\ todo'.binder = Gpsinf("init") /\ todo'.worker = todo.worker
          /\ past'.raced = past.raced
      BY <1>1, CallParts DEF SetCallback
    <2>2. /\ UNCHANGED <<mnld, h2m, m2h, lost>> /\ ~fw.enabled
          /\ hal'.state = hal.state \/ hal.intent = "unknown"
      BY <1>1 DEF SetCallback
    <2>3. Gpsinf("init") # <<>>
      BY CallsNotEmpty DEF Names
    <2>4. Sound /\ todo.worker = <<>> /\ todo'.worker = <<>>
      BY <2>1, <2>2, <2>3, SoundCall
    <2>5. hal.intent \in {"cleanup", "unknown"}
      BY <1>0, <2>1, <2>2, IdleBinder
    <2>6. /\ WillUse' <=> WillUse
          /\ WillInit'
          /\ \A d : WillBe(d)' <=> d = "init"
          /\ \A d : WillBe(d) <=> hal.intent = d
      BY <2>1, <2>2, <2>4, CallWill
    <2>7. ~WillUse
      BY <2>4, <2>5, <2>6 DEF InStep
    <2> QED BY <2>6, <2>7 DEF InStep
  <1>2. CASE StartStop
    <2>1. PICK c \in {"start", "stop"} : Call(Gpsinf(c))
      BY <1>2 DEF StartStop
    <2>2. /\ todo.binder = <<>> /\ todo'.binder = Gpsinf(c) /\ todo'.worker = todo.worker
          /\ past'.raced = past.raced
      BY <2>1, CallParts
    <2>3. UNCHANGED <<hal, mnld, h2m, m2h, lost>> /\ fw.enabled
      BY <1>2 DEF StartStop
    <2>4. Gpsinf(c) # <<>>
      BY CallsNotEmpty DEF Names
    <2>5. Sound /\ todo.worker = <<>> /\ todo'.worker = <<>>
      BY <2>2, <2>3, <2>4, SoundCall
    <2>6. hal.intent \in {"init", "start", "stop"}
      BY <1>0, <2>2, <2>3, IdleBinder
    <2>7. /\ WillUse' <=> c = "start"
          /\ WillInit' <=> WillInit
          /\ Started(todo', hal'.state) <=> c = "start"
          /\ \A d : WillBe(d)' <=> d = c
          /\ \A d : WillBe(d) <=> hal.intent = d
      BY <2>2, <2>3, <2>5, CallWill
    <2>8. ~Coming' => WillInit
      BY <2>3, <2>5, <2>6, <2>7 DEF InStep, Coming
    <2> QED BY <2>7, <2>8 DEF InStep
  <1>3. ASSUME NEW ops \in {DisableOps, DeathOps}, todo.binder = <<>>, todo'.binder = ops,
               todo'.worker = todo.worker, past'.raced = past.raced,
               UNCHANGED <<hal, mnld, h2m, lost>>
        PROVE  InStep'
    <2>1. ops # <<>>
      BY CallsNotEmpty
    <2>2. todo.worker = <<>> /\ todo'.worker = <<>>
      BY <1>3, <2>1, SoundCall
    <2>3. ~WillUse' /\ ~WillInit' /\ \A d : WillBe(d)' <=> d = "cleanup"
      BY <1>3, <2>2, CallWill
    <2> QED BY <2>3 DEF InStep
  <1>4. CASE Disable
    <2>1. Call(DisableOps) /\ UNCHANGED <<hal, mnld, h2m, lost>>
      BY <1>4 DEF Disable, DisableOps
    <2> QED BY <1>3, <2>1, CallParts
  <1>5. CASE FwDie
    <2>1. /\ todo.binder = <<>> /\ todo' = [todo EXCEPT !.binder = DeathOps]
          /\ UNCHANGED <<hal, mnld, h2m, lost>> /\ past' = [past EXCEPT !.fwDeaths = @ + 1]
      BY <1>5 DEF FwDie, DeathOps
    <2>2. todo'.binder = DeathOps /\ todo'.worker = todo.worker /\ past'.raced = past.raced
      BY <2>1 DEF TypeOK, Thread, Past
    <2> QED BY <1>3, <2>1, <2>2
  <1>6. ASSUME NEW on \in BOOLEAN, Measure(on) PROVE InStep'
    <2>1. PICK c \in MeasCmd : Call(<<<<"forward", c>>>>)
      BY <1>6 DEF Measure, MeasCmd
    <2>2. /\ todo.binder = <<>> /\ todo'.binder = <<<<"forward", c>>>>
          /\ todo'.worker = todo.worker /\ past'.raced = past.raced
      BY <2>1, CallParts
    <2>3. /\ UNCHANGED <<mnld, h2m, m2h, lost>>
          /\ hal'.intent = hal.intent /\ hal'.state = hal.state
      BY <1>6 DEF Measure, TypeOK, HalContext
    <2>4. <<<<"forward", c>>>> # <<>>
      BY CallsNotEmpty
    <2>5. Sound /\ todo.worker = <<>> /\ todo'.worker = <<>>
      BY <2>2, <2>3, <2>4, SoundCall
    <2>6. /\ WillUse' <=> WillUse
          /\ WillInit' <=> WillInit
          /\ Started(todo', hal'.state) <=> hal'.state = "start"
          /\ \A d : WillBe(d)' <=> hal'.intent = d
          /\ Started(todo, hal.state) <=> hal.state = "start"
          /\ \A d : WillBe(d) <=> hal.intent = d
      BY <2>2, <2>3, <2>5, CallWill
    <2>7. Coming' <=> Coming
      BY <2>3 DEF Coming
    <2> QED BY <2>3, <2>5, <2>6, <2>7, InStepKept
  <1> QED BY <1>1, <1>2, <1>4, <1>5, <1>6

\* A death of the service: the next one has no intent yet, and mnld is told to forget it.
LEMMA HalDieInStep == ASSUME TypeOK, Shape, Sound', HalDie PROVE InStep'
  <1>1. /\ todo'.binder = <<>> /\ todo'.worker = <<>> /\ hal'.intent = "unknown"
        /\ UNCHANGED mnld /\ h2m' = IF mnld.up THEN Append(h2m, "reboot") ELSE h2m
    <2>1. PICK sent \in BOOLEAN : ToMnld("reboot", sent, {})
      BY DEF HalDie
    <2>2. ASSUME ~sent, mnld.up PROVE FALSE
      <3>1. lost' = [count |-> lost.count + 1, of |-> {} \cup {"reboot"}]
        BY <2>1, <2>2 DEF ToMnld
      <3>2. "reboot" \in lost'.of
        BY <3>1
      <3> QED BY <3>2 DEF Sound, Told
    <2>3. h2m' = IF mnld.up THEN Append(h2m, "reboot") ELSE h2m
      BY <2>1, <2>2 DEF ToMnld
    <2> QED BY <2>3 DEF HalDie, HalBoot, Thread
  <1>2. \A d : WillBe(d)' <=> d = "unknown"
    BY <1>1, MeansCall DEF WillBe, Names
  <1>3. After(h2m', mnld.used, {"start"}, {"stop", "reboot"}) = FALSE
    <2>1. mnld.used \in BOOLEAN /\ h2m \in Seq(Cmd) /\ "reboot" \in Cmd
      BY DEF TypeOK, Daemon, Cmd
    <2>2. CASE mnld.up
      <3>1. After(Append(h2m, "reboot"), mnld.used, {"start"}, {"stop", "reboot"})
              <=> Turn("reboot", After(h2m, mnld.used, {"start"}, {"stop", "reboot"}),
                       {"start"}, {"stop", "reboot"})
        BY <2>1, AfterAppend
      <3> QED BY <1>1, <2>2, <3>1, AfterBoolean DEF Turn
    <2>3. CASE ~mnld.up
      <3>1. h2m' = <<>> /\ mnld.used = FALSE
        BY <1>1, <2>1, <2>3 DEF Shape, DaemonShape, DaemonDown
      <3>2. ~After(<<>>, FALSE, {"start"}, {"stop", "reboot"})
        BY AfterNone
      <3> QED BY <3>1, <3>2, AfterBoolean
    <2> QED BY <2>2, <2>3
  <1>4. ~WillUse'
    <2>1. PICK on : on = Ops({"cmd"}, {"start"})
      OBVIOUS
    <2>2. PICK off : off = Ops({"cmd"}, {"stop", "reboot"})
      OBVIOUS
    <2>3. ~After(<<>>, FALSE, on, off)
      BY AfterNone
    <2>4. After(<<>>, FALSE, on, off) = FALSE
      BY <2>3, AfterBoolean
    <2>5. ~Worked(todo', FALSE, on, off)
      BY <1>1, <2>4 DEF Worked
    <2> QED BY <1>1, <1>3, <2>1, <2>2, <2>5 DEF WillUse, Flag
  <1> QED BY <1>2, <1>4 DEF InStep

\* A flag that mnld resets leads to less.
LEMMA FlagMore ==
    ASSUME NEW td, NEW q, NEW r, NEW u, NEW v, NEW a, NEW B,
           After(q, u, {a}, B) => After(r, v, {a}, B), Flag(td, q, u, a, B)
    PROVE  Flag(td, r, v, a, B)
  <1>1. After(q, u, {a}, B) \in BOOLEAN /\ After(r, v, {a}, B) \in BOOLEAN
    BY AfterBoolean
  <1> QED BY <1>1, WorkedMore DEF Flag

\* A step of mnld that does what it was asked, or that makes it forget and report a reboot.
LEMMA DaemonInStep ==
    ASSUME TypeOK, Shape, Sound, InStep, UNCHANGED <<hal, todo>>,
           WillUse' => WillUse, WillInit' => WillInit,
           \/ (WillUse' <=> WillUse) /\ (WillInit' <=> WillInit) /\ (Coming' <=> Coming)
           \/ hal.bound => Coming'
    PROVE  InStep'
  <1>1. \A c : WillBe(c)' <=> WillBe(c)
    BY DEF WillBe
  <1>2. Started(todo', hal'.state) <=> Started(todo, hal.state)
    OBVIOUS
  <1>3. CASE (WillUse' <=> WillUse) /\ (WillInit' <=> WillInit) /\ (Coming' <=> Coming)
    BY <1>1, <1>2, <1>3, InStepKept
  <1>4. CASE hal.bound /\ Coming'
    BY <1>1, <1>4, InStepKept
  <1>5. CASE ~hal.bound
    <2>1. hal.intent = "unknown" /\ todo.binder = <<>>
      BY <1>5 DEF Sound, Calm, Shape, ServiceShape, Sockets
    <2>2. \A c : WillBe(c) <=> c = "unknown"
      BY <2>1, MeansCall DEF WillBe, Names
    <2> QED BY <1>1, <2>2 DEF InStep
  <1> QED BY <1>3, <1>4, <1>5

\* mnld's steps.
LEMMA MnldInStep ==
    ASSUME TypeOK, TypeOK', Shape, Sound => InStep, Calm => Meant, Sound',
           MnldRecv \/ EngineDone \/ MnldReport \/ NmeaTimeout \/ MnldDie \/ MnldInit
    PROVE  InStep'
  <1>0. /\ EngineOf(mnld) /\ mnld.used \in BOOLEAN /\ mnld.init \in BOOLEAN /\ m2h \in Seq(Note)
        /\ mnld'.used \in BOOLEAN /\ mnld'.init \in BOOLEAN /\ h2m \in Seq(Cmd)
    BY DEF Shape, DaemonShape, TypeOK, Daemon
  <1>1. ASSUME NEW e, NEW q, Daemons(e, q) PROVE InStep /\ Sound /\ UNCHANGED <<hal, todo>>
    <2>1. UNCHANGED <<hal, todo>> /\ past'.raced = past.raced /\ Brief(q)
      BY <1>1 DEF Daemons
    <2>2. Told
      <3>1. CASE ~hal.bound
        BY <1>1, <3>1 DEF Daemons, Sound, Told
      <3>2. CASE hal.bound
        <4>1. PICK p : Arrives(q, p)
          BY <1>1, <3>2 DEF Daemons
        <4> QED BY <2>1, <4>1, DaemonWays DEF Ways, Sound
      <3> QED BY <3>1, <3>2
    <2>3. Calm
      BY <2>1 DEF Sound, Calm
    <2> QED BY <2>1, <2>2, <2>3 DEF Sound
  <1>2. ASSUME NEW e, NEW q, Daemons(e, q), hal.bound, Reboots(q) PROVE Coming'
    <2>1. PICK p : Arrives(q, p)
      BY <1>2 DEF Daemons
    <2>2. Ways(q, p)
      BY <1>2, <2>1, DaemonWays DEF Daemons
    <2>3. p \in Seq(Note) /\ m2h' = m2h \o p /\ Reboots(p)
      BY <1>2, <2>2 DEF Ways, Sound
    <2>4. Reboots(m2h \o p)
      BY <1>0, <2>3, NoteConcat
    <2> QED BY <2>3, <2>4 DEF Coming
  <1>3. ASSUME NEW e, NEW q, Daemons(e, q), ~Reboots(q), e.up = mnld.up PROVE Coming' <=> Coming
    <2>1. mnld' = e
      BY <1>3 DEF Daemons
    <2>2. CASE ~hal.bound
      BY <1>3, <2>1, <2>2 DEF Daemons, Coming
    <2>3. CASE hal.bound
      <3>1. PICK p : Arrives(q, p)
        BY <1>3, <2>3 DEF Daemons
      <3>2. Ways(q, p)
        BY <1>3, <3>1, DaemonWays DEF Daemons
      <3>3. p \in Seq(Note) /\ m2h' = m2h \o p /\ ~Reboots(p)
        BY <1>3, <3>2 DEF Ways
      <3>4. Reboots(m2h \o p) <=> Reboots(m2h)
        BY <1>0, <3>3, NoteConcat
      <3> QED BY <1>3, <2>1, <3>3, <3>4 DEF Coming
    <2> QED BY <2>2, <2>3
  <1>4. CASE MnldRecv
    <2>1. PICK e, q : /\ Daemons(e, q) /\ h2m # <<>> /\ h2m' = Tail(h2m)
                      /\ Serves(Head(h2m), mnld, e, q)
      BY <1>0, <1>4, RecvEffect
    <2>2. PICK B : B = {"stop", "reboot"}
      OBVIOUS
    <2>3. PICK D : D = {"cleanup"}
      OBVIOUS
    <2>4. /\ mnld' = e /\ ~Reboots(q) /\ e.up = mnld.up /\ UNCHANGED todo
          /\ mnld'.used = Turn(Head(h2m), mnld.used, {"start"}, B)
          /\ mnld'.init = Turn(Head(h2m), mnld.init, {"init"}, D)
      BY <1>0, <2>1, <2>2, <2>3, AfterBoolean DEF Daemons, Serves
    <2>5. After(h2m, mnld.used, {"start"}, B) <=> After(h2m', mnld'.used, {"start"}, B)
      <3>1. After(h2m, mnld.used, {"start"}, B)
              <=> After(Tail(h2m), Turn(Head(h2m), mnld.used, {"start"}, B), {"start"}, B)
        BY <1>0, <2>1, AfterHead
      <3> QED BY <2>1, <2>4, <3>1
    <2>6. After(h2m, mnld.init, {"init"}, D) <=> After(h2m', mnld'.init, {"init"}, D)
      <3>1. After(h2m, mnld.init, {"init"}, D)
              <=> After(Tail(h2m), Turn(Head(h2m), mnld.init, {"init"}, D), {"init"}, D)
        BY <1>0, <2>1, AfterHead
      <3> QED BY <2>1, <2>4, <3>1
    <2>7. WillUse' <=> WillUse
      BY <2>2, <2>4, <2>5, FlagMore DEF WillUse
    <2>8. WillInit' <=> WillInit
      BY <2>3, <2>4, <2>6, FlagMore DEF WillInit
    <2>9. Coming' <=> Coming
      BY <1>3, <2>1, <2>4
    <2> QED BY <1>1, <2>1, <2>7, <2>8, <2>9, DaemonInStep
  <1>5. CASE EngineDone \/ MnldReport
    <2>1. PICK e, q : /\ Daemons(e, q) /\ UNCHANGED h2m /\ ~Reboots(q)
                      /\ e.up = mnld.up /\ e.used = mnld.used /\ e.init = mnld.init
      <3>1. CASE EngineDone
        <4>1. PICK e, q : Daemons(e, q) /\ UNCHANGED h2m /\ Tells(mnld, e, q)
          BY <1>0, <3>1, DoneEffect
        <4> QED BY <4>1 DEF Tells
      <3>2. CASE MnldReport
        <4>1. Daemons(mnld, <<"meas">>) /\ UNCHANGED h2m
          BY <3>2, ReportEffect
        <4>2. ~Reboots(<<"meas">>)
          BY OneNote
        <4> QED BY <4>1, <4>2
      <3> QED BY <1>5, <3>1, <3>2
    <2>2. mnld' = e /\ UNCHANGED todo
      BY <2>1 DEF Daemons
    <2>3. (WillUse' <=> WillUse) /\ (WillInit' <=> WillInit)
      BY <2>1, <2>2 DEF WillUse, WillInit
    <2>4. Coming' <=> Coming
      BY <1>3, <2>1
    <2> QED BY <1>1, <2>1, <2>3, <2>4, DaemonInStep
  <1>6. CASE NmeaTimeout
    <2>1. PICK e : /\ Daemons(e, <<"reboot">>) /\ UNCHANGED h2m /\ ~e.used /\ e.init = mnld.init
      BY <1>0, <1>6, TimeoutEffect
    <2>2. mnld' = e /\ UNCHANGED todo /\ Reboots(<<"reboot">>)
      BY <2>1, OneNote DEF Daemons
    <2>3. WillUse' => WillUse
      <3>1. PICK B : B = {"stop", "reboot"}
        OBVIOUS
      <3>2. After(h2m, mnld'.used, {"start"}, B) => After(h2m, mnld.used, {"start"}, B)
        BY <1>0, <2>1, <2>2, AfterMore
      <3> QED BY <2>1, <2>2, <3>1, <3>2, FlagMore DEF WillUse
    <2>4. WillInit' => WillInit
      BY <2>1, <2>2 DEF WillInit
    <2>5. hal.bound => Coming'
      BY <1>2, <2>1, <2>2
    <2> QED BY <1>1, <2>1, <2>3, <2>4, <2>5, DaemonInStep
  <1>7. ASSUME UNCHANGED todo, h2m' = <<>>, ~mnld'.used, ~mnld'.init
        PROVE  (WillUse' => WillUse) /\ (WillInit' => WillInit)
    <2>1. PICK B : B = {"stop", "reboot"}
      OBVIOUS
    <2>2. PICK D : D = {"cleanup"}
      OBVIOUS
    <2>3. ~After(<<>>, mnld'.used, {"start"}, B) /\ ~After(<<>>, mnld'.init, {"init"}, D)
      BY <1>0, <1>7, AfterNone
    <2>4. WillUse' => WillUse
      BY <1>7, <2>1, <2>3, FlagMore DEF WillUse
    <2>5. WillInit' => WillInit
      BY <1>7, <2>2, <2>3, FlagMore DEF WillInit
    <2> QED BY <2>4, <2>5
  <1>8. CASE MnldDie
    <2>1. /\ h2m' = <<>> /\ ~mnld'.used /\ ~mnld'.init /\ ~mnld'.up /\ UNCHANGED <<hal, todo>>
          /\ past'.raced = past.raced
      BY <1>8, DieEffect
    <2>2. Coming' /\ Calm
      BY <2>1 DEF Coming, Sound, Calm
    <2>3. Meant
      BY <2>2
    <2>4. mnld'.used = FALSE /\ mnld'.init = FALSE
      BY <1>0, <2>1
    <2>5. (WillUse' <=> FreshUse) /\ (WillInit' <=> FreshInit)
      BY <2>1, <2>4 DEF WillUse, WillInit, FreshUse, FreshInit
    <2>6. \A c : WillBe(c)' <=> WillBe(c)
      BY <2>1 DEF WillBe
    <2> QED BY <2>2, <2>3, <2>5, <2>6 DEF Meant, InStep
  <1>9. CASE MnldInit
    <2>1. /\ Daemons(MnldBoot, <<"reboot">>) /\ UNCHANGED h2m /\ ~mnld.up
          /\ ~MnldBoot.used /\ ~MnldBoot.init
      BY <1>9, InitEffect
    <2>2. h2m' = <<>> /\ ~mnld'.used /\ ~mnld'.init /\ Reboots(<<"reboot">>)
      BY <2>1, OneNote DEF Daemons, Shape, DaemonShape, DaemonDown
    <2>3. hal.bound => Coming'
      BY <1>2, <2>1, <2>2
    <2> QED BY <1>1, <1>7, <2>1, <2>2, <2>3, DaemonInStep
  <1> QED BY <1>4, <1>5, <1>6, <1>8, <1>9

\* A binder call of setCallback alone makes mnld initialise the client.
LEMMA InitAlone ==
    ASSUME todo.binder = Gpsinf("init"), todo.worker = <<>>
    PROVE  WillInit
  <1>1. PICK D : D = {"cleanup"}
    OBVIOUS
  <1>2. PICK A : A = {"init"}
    OBVIOUS
  <1>3. PICK K : K = {"cmd"}
    OBVIOUS
  <1>4. PICK v \in BOOLEAN : v = After(h2m, mnld.init, {"init"}, D)
    BY AfterBoolean
  <1>5. "cmd" \in K /\ "intent" \notin K /\ "init" \in A /\ "init" \in Names
    BY <1>2, <1>3 DEF Names
  <1>6. After(Gpsinf("init"), v, Ops(K, A), Ops(K, D))
    BY <1>5, GpsinfTurns
  <1>7. "binder" \in Thread /\ \A t \in Thread : t # "binder" => todo[t] = <<>>
    BY DEF Thread
  <1>8. Worked(todo, v, Ops(K, A), Ops(K, D)) <=> After(todo["binder"], v, Ops(K, A), Ops(K, D))
    BY <1>7, Alone
  <1>9. Worked(todo, v, Ops(K, A), Ops(K, D))
    BY <1>6, <1>8
  <1> QED BY <1>1, <1>2, <1>3, <1>4, <1>9 DEF WillInit, Flag

\* The worker has nothing to send again: the intent is not to have GPS, or a call is about to
\* change it.
LEMMA NothingAgain ==
    ASSUME TypeOK, Shape, hal.intent \in {"cleanup", "unknown"}, todo.worker = <<>>
    PROVE  ~WillBe("start") /\ (WillInit \/ WillBe("cleanup") \/ WillBe("unknown"))
  <1>0. todo.binder \in Seq(Op)
    BY DEF TypeOK, Thread
  <1>1. CASE fw.enabled
    <2>1. todo.binder = Gpsinf("init")
      BY <1>1 DEF Shape, ServiceShape, EnabledCall
    <2>2. ~WillBe("start")
      BY <2>1, MeansCall DEF WillBe, Names
    <2> QED BY <2>1, <2>2, InitAlone
  <1>2. CASE ~fw.enabled
    <2>1. CASE WillBe("cleanup")
      <3>1. ~WillBe("start")
        BY <1>0, <2>1, MeansOne DEF WillBe
      <3> QED BY <2>1, <3>1
    <2>2. CASE hal.intent = "unknown" /\ todo.binder = <<>>
      <3>1. \A c : WillBe(c) <=> c = "unknown"
        BY <2>2, MeansCall DEF WillBe, Names
      <3> QED BY <3>1
    <2> QED BY <1>2, <2>1, <2>2 DEF Shape, ServiceShape, DisabledCall, WillBe
  <1> QED BY <1>1, <1>2

\* What the worker sends again makes mnld do what the intent says.
LEMMA SendsAgain ==
    ASSUME TypeOK, InStep, UNCHANGED <<hal, mnld, h2m>>, todo.binder = <<>>, todo.worker = <<>>,
           todo'.binder = <<>>, todo'.worker = Resend, hal.intent \in {"init", "start", "stop"}
    PROVE  InStep'
  <1>1. \A c : (WillBe(c) <=> hal.intent = c) /\ (WillBe(c)' <=> hal.intent = c)
    BY MeansCall DEF WillBe, Names
  <1>2. "worker" \in Thread /\ \A t \in Thread : t # "worker" => todo'[t] = <<>> /\ todo[t] = <<>>
    BY DEF Thread
  <1>3. WillInit'
    <2>1. PICK D : D = {"cleanup"}
      OBVIOUS
    <2>2. PICK A : A = {"init"}
      OBVIOUS
    <2>3. PICK K : K = {"cmd"}
      OBVIOUS
    <2>4. PICK v \in BOOLEAN : v = After(h2m', mnld'.init, {"init"}, D)
      BY AfterBoolean
    <2>5. "cmd" \in K /\ "init" \in A /\ "start" \notin D
      BY <2>1, <2>2, <2>3
    <2>6. After(Resend, v, Ops(K, A), Ops(K, D))
      BY <2>5, ResendTurns
    <2>7. Worked(todo', v, Ops(K, A), Ops(K, D)) <=> After(todo'["worker"], v, Ops(K, A), Ops(K, D))
      BY <1>2, Alone
    <2>8. Worked(todo', v, Ops(K, A), Ops(K, D))
      BY <2>6, <2>7
    <2> QED BY <2>1, <2>2, <2>3, <2>4, <2>8 DEF WillInit, Flag
  <1>4. (hal.intent = "start" => WillUse') /\ (hal.intent # "start" => (WillUse' <=> WillUse))
    <2>1. PICK B : B = {"stop", "reboot"}
      OBVIOUS
    <2>2. PICK A : A = {"start"}
      OBVIOUS
    <2>3. PICK K : K = {"cmd"}
      OBVIOUS
    <2>4. PICK v \in BOOLEAN : v = After(h2m, mnld.used, {"start"}, B)
      BY AfterBoolean
    <2>5. "cmd" \in K /\ "start" \in A /\ "init" \notin A /\ "init" \notin B
      BY <2>1, <2>2, <2>3
    <2>6. /\ hal.intent = "start" => After(Resend, v, Ops(K, A), Ops(K, B))
          /\ hal.intent # "start" => (After(Resend, v, Ops(K, A), Ops(K, B)) <=> v)
      BY <2>5, ResendTurns
    <2>7. Worked(todo', v, Ops(K, A), Ops(K, B)) <=> After(todo'["worker"], v, Ops(K, A), Ops(K, B))
      BY <1>2, Alone
    <2>8. Worked(todo, v, Ops(K, A), Ops(K, B)) <=> After(todo["worker"], v, Ops(K, A), Ops(K, B))
      BY <1>2, Alone
    <2>9. After(<<>>, v, Ops(K, A), Ops(K, B)) <=> v
      BY AfterNone
    <2>10. (WillUse' <=> Worked(todo', v, Ops(K, A), Ops(K, B)))
      BY <2>1, <2>2, <2>3, <2>4 DEF WillUse, Flag
    <2>11. (WillUse <=> Worked(todo, v, Ops(K, A), Ops(K, B)))
      BY <2>1, <2>2, <2>3, <2>4 DEF WillUse, Flag
    <2> QED BY <2>6, <2>7, <2>8, <2>9, <2>10, <2>11
  <1>5. hal.intent = "start" => Started(todo', hal'.state)
    <2>1. PICK B : B = Names \ {"start"}
      OBVIOUS
    <2>2. PICK A : A = {"start"}
      OBVIOUS
    <2>3. PICK K : K = {"cmd", "mark"}
      OBVIOUS
    <2>4. PICK v \in BOOLEAN : v = (hal'.state = "start")
      OBVIOUS
    <2>5. "cmd" \in K /\ "start" \in A
      BY <2>2, <2>3
    <2>6. hal.intent = "start" => After(Resend, v, Ops(K, A), Ops(K, B))
      BY <2>5, ResendTurns
    <2>7. Worked(todo', v, Ops(K, A), Ops(K, B)) <=> After(todo'["worker"], v, Ops(K, A), Ops(K, B))
      BY <1>2, Alone
    <2>8. Started(todo', hal'.state) <=> Worked(todo', v, Ops(K, A), Ops(K, B))
      BY <2>1, <2>2, <2>3, <2>4 DEF Started
    <2> QED BY <2>6, <2>7, <2>8
  <1>6. WillUse' => hal.intent = "start"
    BY <1>1, <1>4 DEF InStep
  <1> QED BY <1>1, <1>3, <1>4, <1>5, <1>6 DEF InStep

\* The worker handles a message of mnld.
LEMMA WorkerInStep ==
    ASSUME TypeOK, Shape, Sound => InStep, Sound', WorkerRecv
    PROVE  InStep'
  <1> DEFINE m == Head(m2h)
  <1>1. Heeds(m)
    BY WorkerEffect
  <1> HIDE DEF m
  <1>2. /\ UNCHANGED <<hal, mnld, h2m>> /\ m2h' = Tail(m2h) /\ m = Head(m2h) /\ m2h # <<>>
        /\ todo.worker = <<>> /\ todo'.binder = todo.binder /\ past'.raced = past.raced
        /\ todo'.worker = IF m = "reboot" THEN Resend ELSE <<>>
    BY <1>1 DEF Heeds
  <1>3. Sound /\ InStep
    BY <1>1, <1>2 DEF Sound, Calm, Told, Heeds
  <1>4. m2h \in Seq(Note)
    BY DEF TypeOK
  <1>5. \A c : WillBe(c)' <=> WillBe(c)
    BY <1>2 DEF WillBe
  <1>6. ASSUME todo'.worker = <<>>
        PROVE  /\ WillUse' <=> WillUse
               /\ WillInit' <=> WillInit
               /\ Started(todo', hal'.state) <=> Started(todo, hal.state)
    BY <1>2, <1>6 DEF WillUse, WillInit, Started, Flag, Worked
  <1>7. CASE m # "reboot"
    <2>1. Coming' <=> Coming
      BY <1>2, <1>4, <1>7, NoteHead DEF Coming
    <2> QED BY <1>2, <1>3, <1>5, <1>6, <1>7, <2>1, InStepKept
  <1>8. CASE m = "reboot" /\ hal.intent \in {"cleanup", "unknown"}
    <2>1. todo'.worker = <<>>
      BY <1>2, <1>8, ResendParts
    <2>2. ~WillBe("start") /\ (WillInit \/ WillBe("cleanup") \/ WillBe("unknown"))
      BY <1>2, <1>8, NothingAgain
    <2> QED BY <1>3, <1>5, <1>6, <2>1, <2>2 DEF InStep
  <1>9. CASE m = "reboot" /\ hal.intent \notin {"cleanup", "unknown"}
    <2>1. todo'.worker = Resend /\ Resend # <<>>
      BY <1>2, <1>9, ResendParts
    <2>2. todo.binder = <<>> /\ todo'.binder = <<>>
      BY <1>2, <2>1 DEF Sound, Calm
    <2>3. hal.intent \in {"init", "start", "stop"}
      BY <1>9 DEF TypeOK, HalContext, GpsState
    <2> QED BY <1>2, <1>3, <2>1, <2>2, <2>3, SendsAgain
  <1> QED BY <1>7, <1>8, <1>9

\* Every step keeps the HAL and mnld in step.
LEMMA InStepStep ==
    ASSUME TypeOK, TypeOK', Shape, Sound => InStep, Calm => Meant, [Next]_vars
    PROVE  (Sound => InStep)'
  <1>1. SUFFICES ASSUME Sound' PROVE InStep'
    OBVIOUS
  <1>2. CASE UNCHANGED vars
    BY <1>2, <1>1 DEF vars, Sound, Calm, Told, InStep, WillUse, WillInit, WillBe, Coming
  <1>3. CASE SetCallback \/ StartStop \/ Disable \/ Measure(TRUE) \/ Measure(FALSE) \/ FwDie
    BY <1>1, <1>3, CallInStep
  <1>4. CASE Step("binder") \/ Step("worker")
    BY <1>1, <1>4, StepInStep DEF Thread
  <1>5. CASE WorkerRecv
    BY <1>1, <1>5, WorkerInStep
  <1>6. CASE MnldRecv \/ EngineDone \/ MnldReport \/ NmeaTimeout \/ MnldDie \/ MnldInit
    BY <1>1, <1>6, MnldInStep
  <1>7. CASE HalDie
    BY <1>1, <1>7, HalDieInStep
  <1> QED BY <1>2, <1>3, <1>4, <1>5, <1>6, <1>7 DEF Next

\* Nothing has been asked for at the start.
LEMMA InStepInit == Init => InStep
  <1> SUFFICES ASSUME Init PROVE InStep
    OBVIOUS
  <1>1. /\ todo.binder = <<>> /\ todo.worker = <<>> /\ hal.intent = "unknown"
        /\ h2m = <<>> /\ mnld.used = FALSE
    BY DEF Init, Thread, HalBoot, MnldBoot
  <1>2. \A c : WillBe(c) <=> c = "unknown"
    BY <1>1, MeansCall DEF WillBe, Names
  <1>3. ~WillUse
    <2>1. ASSUME NEW on, NEW off PROVE After(<<>>, FALSE, on, off) = FALSE
      <3>1. ~After(<<>>, FALSE, on, off)
        BY AfterNone
      <3> QED BY <3>1, AfterBoolean
    <2> QED BY <1>1, <2>1 DEF WillUse, Flag, Worked
  <1> QED BY <1>2, <1>3 DEF InStep

\* However messages and deaths fall, as long as no call overlaps the handling of a reboot and
\* no request or report of a reboot between live peers is given up on (Sound), mnld is on the
\* way to what gps_state_intent asks for, or will be told to start over.  A death of mnld or of
\* the service puts right what was given up on before it, for the threads ask for nothing
\* against the intent (MeantInvariant).
THEOREM AgreementInvariant == Spec => [](Sound => InStep)
  <1>1. Init => (Sound => InStep)
    BY InStepInit
  <1>2. /\ TypeOK /\ TypeOK' /\ Shape /\ (Sound => InStep) /\ (Calm => Meant) /\ [Next]_vars
        => (Sound => InStep)'
    BY InStepStep
  <1>3. GnssInv => TypeOK
    BY DEF GnssInv
  <1> QED BY <1>1, <1>2, <1>3, GnssInvariant, ShapeInvariant, MeantInvariant, PTL DEF Spec

\* The HAL and mnld agree whenever nobody has anything left to do (Agreement).
THEOREM AgreementCorrect == Spec => []Agreement
  <1>1. TypeOK /\ Shape /\ (Sound => InStep) => Agreement
    <2> SUFFICES ASSUME TypeOK, Shape, Sound => InStep, Quiet, ~past.raced, Told,
                        hal.state # "unknown" \/ hal.intent = "unknown"
                 PROVE  /\ mnld.used <=> hal.intent = "start"
                        /\ mnld.engine = "started" <=> hal.intent = "start"
                        /\ hal.intent = "start" => hal.state = "start"
                        /\ hal.intent # "unknown" => (mnld.init <=> hal.intent # "cleanup")
      BY DEF Agreement
    <2>1. /\ todo.binder = <<>> /\ todo.worker = <<>> /\ h2m = <<>> /\ m2h = <<>>
          /\ mnld.up /\ mnld.engine \in {"idle", "started"}
      BY DEF Quiet, Thread
    <2>2. InStep
      BY <2>1 DEF Sound, Calm
    <2>3. ~Coming
      BY <2>1, OneNote DEF Coming
    <2>4. \A c : WillBe(c) <=> hal.intent = c
      BY <2>1, MeansCall DEF WillBe, Names
    <2>5. \A u \in BOOLEAN : \A on, off : After(<<>>, u, on, off) = u
      BY AfterNone, AfterBoolean
    <2>6. mnld.used \in BOOLEAN /\ mnld.init \in BOOLEAN
      BY DEF TypeOK, Daemon
    <2>7. WillUse <=> mnld.used
      BY <2>1, <2>5, <2>6 DEF WillUse, Flag, Worked
    <2>8. WillInit <=> mnld.init
      BY <2>1, <2>5, <2>6 DEF WillInit, Flag, Worked
    <2>9. Started(todo, hal.state) <=> hal.state = "start"
      BY <2>1, <2>5 DEF Started, Worked
    <2>10. mnld.engine = "started" <=> mnld.used
      BY <2>1 DEF Shape, DaemonShape, EngineOf
    <2> QED BY <2>2, <2>3, <2>4, <2>7, <2>8, <2>9, <2>10 DEF InStep
  <1>2. GnssInv => TypeOK
    BY DEF GnssInv
  <1> QED BY <1>1, <1>2, GnssInvariant, ShapeInvariant, AgreementInvariant, PTL

-----------------------------------------------------------------------------
\* What the framework keeps

\* The request c is on the link or will be sent.
Asked(c) == Flag(todo, h2m, FALSE, c, {})

\* The session the framework will have been told of, unless its end was given up on.
WillSession == SessionAfter(m2h, fw.session) /\ "end" \notin lost.of

\* Somebody will see to the session: the HAL has asked for a start or a stop that mnld has not
\* handled yet, or will ask again once it hears of the reboot.
Owed == Asked("start") \/ Asked("stop") \/ (hal.intent = "start" /\ Reboots(m2h))

\* An open session has a user of the engine, an owed SESSION_END, or somebody to see to it.
Attended == WillSession => mnld.used \/ mnld.closeAck \/ Owed

NoStart == {o \in Op : ~(o[1] = "intent" /\ o[2] = "start")}

\* The intent becomes start only with the request to follow, and leaves it by a stop or another
\* start only.
Orderly ==
    /\ todo.binder = Gpsinf("start") \/ todo.binder \in Seq(NoStart)
    /\ hal.intent = "start" => \/ todo.binder \in {Gpsinf("start"), Gpsinf("stop"), DisableOps}
                               \/ todo.binder \in Seq(NoIntent)

Kept == mnld.up /\ Orderly /\ (Sound => Attended)

\* The heads of the calls.
LEMMA CallHeads ==
    /\ \A c \in Names : Head(Gpsinf(c))[1] = "intent" /\ Head(Gpsinf(c))[2] = c
    /\ Head(DisableOps)[1] = "intent" /\ Head(DisableOps)[2] = "stop"
  <1>1. ASSUME NEW c \in Names PROVE Head(Gpsinf(c))[1] = "intent" /\ Head(Gpsinf(c))[2] = c
    <2>1. Head(Gpsinf(c)) = <<"intent", c>>
      BY GpsinfParts
    <2> QED BY <2>1
  <1>2. Head(DisableOps) = Head(Gpsinf("stop"))
    <2>1. PICK p : p = Gpsinf("stop")
      OBVIOUS
    <2>2. PICK q : q = Gpsinf("cleanup")
      OBVIOUS
    <2>3. p \in Seq(Op) /\ q \in Seq(Op) /\ p # <<>>
      BY <2>1, <2>2, GpsinfParts DEF Names
    <2>4. Head(p \o q) = Head(p)
      BY <2>3
    <2> QED BY <2>1, <2>2, <2>4 DEF DisableOps
  <1>3. "stop" \in Names
    BY DEF Names
  <1> QED BY <1>1, <1>2, <1>3

\* The calls that make no start.
LEMMA CallStarts ==
    /\ \A c \in Names \ {"start"} : Gpsinf(c) \in Seq(NoStart)
    /\ DisableOps \in Seq(NoStart)
    /\ \A c \in Names : <<<<"cmd", c>>>> \in Seq(NoStart)
    /\ \A c \in MeasCmd : <<<<"forward", c>>>> \in Seq(NoStart)
  <1>1. \A c \in Names \ {"start"} : <<"intent", c>> \in NoStart
    BY OpTypes DEF NoStart
  <1>2. \A c \in Names : <<"cmd", c>> \in NoStart
    BY OpTypes DEF NoStart
  <1>3. \A c \in MeasCmd : <<"forward", c>> \in NoStart
    BY DEF NoStart, Op, MeasCmd
  <1>4. \A c \in Names \ {"start"} : Gpsinf(c) \in Seq(NoStart)
    BY <1>1, <1>2, GpsinfParts
  <1>5. DisableOps \in Seq(NoStart)
    BY <1>4, Queue DEF DisableOps, Names
  <1>6. \A c \in Names : <<<<"cmd", c>>>> \in Seq(NoStart)
    BY <1>2, Short
  <1>7. \A c \in MeasCmd : <<<<"forward", c>>>> \in Seq(NoStart)
    BY <1>3, Short
  <1> QED BY <1>4, <1>5, <1>6, <1>7

\* The framework's calls.
LEMMA CallOrderly ==
    ASSUME TypeOK, Shape, Orderly,
           SetCallback \/ StartStop \/ Disable \/ Measure(TRUE) \/ Measure(FALSE)
    PROVE  Orderly'
  <1>1. CASE SetCallback
    <2>1. todo.binder = <<>> /\ todo'.binder = Gpsinf("init")
      BY <1>1, CallParts DEF SetCallback
    <2>2. hal'.intent = hal.intent /\ ~fw.enabled
      BY <1>1 DEF SetCallback, TypeOK, HalContext
    <2>3. hal.intent # "start"
      BY <2>1, <2>2, IdleBinder DEF Shape
    <2> QED BY <2>1, <2>2, <2>3, CallStarts DEF Orderly, Names
  <1>2. CASE StartStop
    <2>1. PICK c \in {"start", "stop"} : Call(Gpsinf(c))
      BY <1>2 DEF StartStop
    <2>2. todo'.binder = Gpsinf(c)
      BY <2>1, CallParts
    <2>3. Gpsinf("stop") \in Seq(NoStart)
      BY CallStarts DEF Names
    <2> QED BY <2>2, <2>3 DEF Orderly
  <1>3. CASE Disable
    <2>1. Call(DisableOps)
      BY <1>3 DEF Disable, DisableOps
    <2>2. todo'.binder = DisableOps
      BY <2>1, CallParts
    <2> QED BY <2>2, CallStarts DEF Orderly
  <1>4. ASSUME NEW on \in BOOLEAN, Measure(on) PROVE Orderly'
    <2>1. PICK c \in MeasCmd : Call(<<<<"forward", c>>>>)
      BY <1>4 DEF Measure, MeasCmd
    <2>2. todo'.binder = <<<<"forward", c>>>>
      BY <2>1, CallParts
    <2>3. todo'.binder \in Seq(NoIntent) /\ todo'.binder \in Seq(NoStart)
      BY <2>2, CallOps, CallStarts
    <2> QED BY <2>3 DEF Orderly
  <1> QED BY <1>1, <1>2, <1>3, <1>4

\* The operations of the threads.
LEMMA StepOrderly ==
    ASSUME TypeOK, Shape, Orderly, NEW t \in Thread, Step(t)
    PROVE  Orderly'
  <1> DEFINE op == Head(todo[t])
  <1>1. PICK sent : Ran(t, op, sent) /\ Misses(op, sent)
    BY StepEffect
  <1>2. op \in Op /\ op = Head(todo[t]) /\ todo[t] # <<>>
    BY <1>1 DEF Ran
  <1> HIDE DEF op
  <1>3. NoStart \in SUBSET Op /\ NoIntent \in SUBSET Op
    BY DEF NoStart, NoIntent
  <1>4. op[1] = "cmd" => <<"mark", op[2]>> \in NoStart /\ <<"mark", op[2]>> \in NoIntent
    BY <1>2, OpParts, OpTypes DEF NoStart, NoIntent
  <1>5. CASE t = "worker"
    <2>1. op \in WorkOp
      BY <1>2, <1>5, Queue DEF Shape, ServiceShape, Sockets
    <2>2. hal'.intent = hal.intent
      BY <1>1, <2>1 DEF Ran, WorkOp
    <2>3. todo'.binder = todo.binder
      BY <1>1, <1>3, <1>4, <1>5, RanTodo DEF Thread
    <2> QED BY <2>2, <2>3 DEF Orderly
  <1>6. CASE t = "binder"
    <2>1. ASSUME todo.binder \in Seq(NoStart)
          PROVE  op \in NoStart /\ todo'.binder \in Seq(NoStart)
      BY <1>1, <1>3, <1>4, <1>6, <2>1, RanTodo
    <2>2. ASSUME todo.binder \in Seq(NoIntent)
          PROVE  op \in NoIntent /\ todo'.binder \in Seq(NoIntent)
      BY <1>1, <1>3, <1>4, <1>6, <2>2, RanTodo
    <2>3. CASE op[1] = "intent" /\ todo.binder = Gpsinf("start")
      <3>1. todo' = [todo EXCEPT !.binder = Tail(@)] /\ todo \in [Thread -> Seq(Op)]
        BY <1>1, <1>6, <2>3 DEF Ran, TypeOK
      <3>2. todo'.binder = Tail(Gpsinf("start"))
        BY <2>3, <3>1 DEF Thread
      <3>3. todo'.binder = <<<<"cmd", "start">>>>
        BY <3>2, GpsinfParts DEF Names
      <3>4. todo'.binder \in Seq(NoIntent) /\ todo'.binder \in Seq(NoStart)
        BY <3>3, CallOps, CallStarts DEF Names
      <3> QED BY <3>4 DEF Orderly
    <2>4. CASE op[1] = "intent" /\ todo.binder \in Seq(NoStart)
      <3>1. op \in NoStart /\ todo'.binder \in Seq(NoStart)
        BY <2>1, <2>4
      <3>2. hal'.intent # "start"
        BY <1>1, <2>4, <3>1 DEF Ran, NoStart
      <3> QED BY <3>1, <3>2 DEF Orderly
    <2>5. CASE op[1] # "intent"
      <3>1. todo.binder \notin {Gpsinf("start"), Gpsinf("stop"), DisableOps}
        BY <1>2, <1>6, <2>5, CallHeads DEF Names
      <3>2. hal'.intent = hal.intent
        BY <1>1, <2>5 DEF Ran
      <3>3. todo'.binder \in Seq(NoStart)
        BY <2>1, <3>1 DEF Orderly
      <3>4. hal.intent = "start" => todo'.binder \in Seq(NoIntent)
        BY <2>2, <3>1 DEF Orderly
      <3> QED BY <3>2, <3>3, <3>4 DEF Orderly
    <2> QED BY <2>3, <2>4, <2>5 DEF Orderly
  <1> QED BY <1>5, <1>6 DEF Thread

\* What is asked for stays asked for, and what is not was never in the queue.
LEMMA AskedOnce ==
    ASSUME NEW q, NEW u \in BOOLEAN, NEW on, NEW off, off = {}
    PROVE  /\ u => After(q, u, on, off)
           /\ ~After(q, u, on, off) => ~u /\ \A i \in 1 .. Len(q) : q[i] \notin on
  BY DEF After

\* A setting that nothing resets.
LEMMA AfterStays ==
    ASSUME NEW q, NEW on, NEW off, \A i \in 1 .. Len(q) : q[i] \notin off
    PROVE  After(q, TRUE, on, off)
  BY DEF After

\* A call adds to what is asked for.
LEMMA CallAsked ==
    ASSUME todo.binder = <<>>, todo.worker = <<>>, todo'.worker = <<>>, UNCHANGED h2m,
           NEW c, Asked(c)
    PROVE  Asked(c)'
  <1>1. PICK off : off = Ops({"cmd"}, {})
    OBVIOUS
  <1>2. off = {}
    BY <1>1 DEF Ops
  <1>3. PICK none : none = {}
    OBVIOUS
  <1>4. PICK v \in BOOLEAN : v = After(h2m, FALSE, {c}, none)
    BY AfterBoolean
  <1>5. /\ Flag(todo, h2m, FALSE, c, none) <=> After(h2m, FALSE, {c}, none)
        /\ Flag(todo', h2m, FALSE, c, none)
             <=> After(todo'.binder, After(h2m, FALSE, {c}, none), Ops({"cmd"}, {c}), Ops({"cmd"}, none))
    BY CallFlags
  <1>6. v
    BY <1>3, <1>4, <1>5 DEF Asked
  <1>7. After(todo'.binder, v, Ops({"cmd"}, {c}), off)
    BY <1>2, <1>6, AskedOnce
  <1> QED BY <1>1, <1>3, <1>4, <1>5, <1>7 DEF Asked

\* An operation of a thread moves the request on to the link.
LEMMA StepAttended ==
    ASSUME TypeOK, Shape, Kept, NEW t \in Thread, Step(t), Sound'
    PROVE  Attended'
  <1> DEFINE op == Head(todo[t])
  <1>1. PICK sent : Ran(t, op, sent) /\ Misses(op, sent)
    BY StepEffect
  <1>2. op \in Op /\ op = Head(todo[t]) /\ todo[t] # <<>> /\ UNCHANGED <<fw, mnld, m2h>>
    BY <1>1 DEF Ran
  <1> HIDE DEF op
  <1>3. Sound /\ hal.state # "unknown" /\ \A s \in Thread : s # t => todo[s] = <<>>
    <2>1. Calm /\ hal.state # "unknown" /\ \A s \in Thread : s # t => todo[s] = <<>>
      BY CalmStep DEF Sound
    <2> QED BY <1>1, <2>1 DEF Misses, Sound
  <1>4. mnld.up /\ Orderly /\ Attended
    BY <1>3 DEF Kept
  <1>5. (WillSession' <=> WillSession) /\ (Reboots(m2h') <=> Reboots(m2h))
    BY <1>1, <1>2 DEF Misses, WillSession
  <1>6. ASSUME NEW c \in Names PROVE Asked(c)' <=> Asked(c)
    <2>1. PICK none : none = {}
      OBVIOUS
    <2>2. op[1] = "cmd" => sent
      BY <1>1, <1>3, <1>4 DEF Misses, Sound
    <2>3. Flag(todo', h2m', FALSE, c, none) <=> Flag(todo, h2m, FALSE, c, none)
      BY <1>1, <1>3, <2>1, <2>2, FlagKept
    <2> QED BY <2>1, <2>3 DEF Asked
  <1>7. ASSUME hal.intent = "start", hal'.intent # "start" PROVE Asked("stop")
    <2>1. op[1] = "intent" /\ op[2] # "start"
      BY <1>1, <1>7 DEF Ran
    <2>2. t = "binder"
      <3>1. t = "worker" => op \in WorkOp
        BY <1>2, Queue DEF Shape, ServiceShape, Sockets
      <3> QED BY <2>1, <3>1 DEF WorkOp, Thread
    <2>3. todo.binder \notin Seq(NoIntent)
      BY <1>2, <2>1, <2>2, Queue DEF NoIntent
    <2>4. todo.binder # Gpsinf("start")
      BY <1>2, <2>1, <2>2, CallHeads DEF Names
    <2>5. todo.binder \in {Gpsinf("stop"), DisableOps}
      BY <1>4, <1>7, <2>3, <2>4 DEF Orderly
    <2>6. PICK K : K = {"cmd"}
      OBVIOUS
    <2>7. PICK A : A = {"stop"}
      OBVIOUS
    <2>8. PICK B : B = {}
      OBVIOUS
    <2>9. PICK v \in BOOLEAN : v = After(h2m, FALSE, {"stop"}, B)
      BY AfterBoolean
    <2>10. /\ "cmd" \in K /\ "intent" \notin K /\ "null" \notin K /\ "forward" \notin K
           /\ "stop" \in A /\ "stop" \notin B /\ "cleanup" \notin B /\ "stop" \in Names
      BY <2>6, <2>7, <2>8 DEF Names
    <2>11. After(todo["binder"], v, Ops(K, A), Ops(K, B))
      <3>1. CASE todo.binder = Gpsinf("stop")
        BY <2>10, <3>1, GpsinfTurns
      <3>2. CASE todo.binder = DisableOps
        BY <2>10, <3>2, DisableTurns
      <3> QED BY <2>5, <3>1, <3>2
    <2>12. Worked(todo, v, Ops(K, A), Ops(K, B)) <=> After(todo["binder"], v, Ops(K, A), Ops(K, B))
      BY <1>3, <2>2, Alone
    <2> QED BY <2>6, <2>7, <2>8, <2>9, <2>11, <2>12 DEF Asked, Flag
  <1>8. "start" \in Names /\ "stop" \in Names
    BY DEF Names
  <1>9. Owed => Owed'
    BY <1>5, <1>6, <1>7, <1>8 DEF Owed
  <1> QED BY <1>2, <1>4, <1>5, <1>9 DEF Attended

\* The calls change nothing that mnld was asked before.
LEMMA CallAttended ==
    ASSUME TypeOK, Shape, Kept, Sound',
           SetCallback \/ StartStop \/ Disable \/ Measure(TRUE) \/ Measure(FALSE)
    PROVE  Attended'
  <1>1. PICK ops : /\ Call(ops) /\ ops # <<>>
                   /\ UNCHANGED <<mnld, h2m, m2h, lost>> /\ hal'.intent = hal.intent
                   /\ fw'.session = fw.session
                   /\ hal'.state = hal.state \/ hal.intent = "unknown"
    <2>1. CASE SetCallback
      <3>1. /\ Call(Gpsinf("init")) /\ UNCHANGED <<mnld, h2m, m2h, lost>> /\ hal'.intent = hal.intent
            /\ fw'.session = fw.session /\ (hal'.state = hal.state \/ hal.intent = "unknown")
        BY <2>1 DEF SetCallback, TypeOK, HalContext, Framework
      <3> QED BY <3>1, CallsNotEmpty DEF Names
    <2>2. CASE StartStop
      <3>1. PICK c \in {"start", "stop"} : Call(Gpsinf(c))
        BY <2>2 DEF StartStop
      <3>2. UNCHANGED <<hal, fw, mnld, h2m, m2h, lost>>
        BY <2>2 DEF StartStop
      <3> QED BY <3>1, <3>2, CallsNotEmpty DEF Names
    <2>3. CASE Disable
      <3>1. Call(DisableOps) /\ UNCHANGED <<hal, mnld, h2m, m2h, lost>> /\ fw'.session = fw.session
        BY <2>3 DEF Disable, DisableOps, TypeOK, Framework
      <3> QED BY <3>1, CallsNotEmpty
    <2>4. ASSUME NEW on \in BOOLEAN, Measure(on)
          PROVE  \E c \in MeasCmd : Call(<<<<"forward", c>>>>) /\ UNCHANGED <<mnld, h2m, m2h, lost, fw>>
                   /\ hal'.intent = hal.intent /\ hal'.state = hal.state
      BY <2>4 DEF Measure, MeasCmd, TypeOK, HalContext
    <2>5. CASE Measure(TRUE) \/ Measure(FALSE)
      <3>1. PICK c \in MeasCmd : Call(<<<<"forward", c>>>>) /\ UNCHANGED <<mnld, h2m, m2h, lost, fw>>
                   /\ hal'.intent = hal.intent /\ hal'.state = hal.state
        BY <2>4, <2>5
      <3> QED BY <3>1, CallsNotEmpty
    <2> QED BY <2>1, <2>2, <2>3, <2>5
  <1>2. /\ todo.binder = <<>> /\ todo'.binder = ops /\ todo'.worker = todo.worker
        /\ past'.raced = past.raced
    BY <1>1, CallParts
  <1>3. Sound /\ todo.worker = <<>> /\ todo'.worker = <<>>
    BY <1>1, <1>2, SoundCall
  <1>4. \A c : Asked(c) => Asked(c)'
    BY <1>1, <1>2, <1>3, CallAsked
  <1>5. (WillSession' <=> WillSession) /\ (Reboots(m2h') <=> Reboots(m2h))
    BY <1>1 DEF WillSession
  <1>6. Owed => Owed'
    BY <1>1, <1>4, <1>5 DEF Owed
  <1> QED BY <1>1, <1>3, <1>5, <1>6 DEF Attended, Kept

\* The worker: a reboot is answered with a new start.
LEMMA WorkerAttended ==
    ASSUME TypeOK, Shape, Locks, Kept, WorkerRecv, Sound'
    PROVE  Attended'
  <1> DEFINE m == Head(m2h)
  <1>1. Heeds(m)
    BY WorkerEffect
  <1> HIDE DEF m
  <1>2. /\ UNCHANGED <<hal, mnld, h2m, lost>> /\ m2h' = Tail(m2h) /\ m = Head(m2h) /\ m2h # <<>>
        /\ todo.worker = <<>> /\ todo'.binder = todo.binder /\ past'.raced = past.raced
        /\ todo'.worker = (IF m = "reboot" THEN Resend ELSE <<>>) /\ hal.bound
        /\ fw'.session = IF m \in {"begin", "end"} /\ Heard THEN m = "begin" ELSE fw.session
    BY <1>1 DEF Heeds
  <1>3. Sound /\ Attended
    BY <1>2 DEF Sound, Calm, Told, Kept
  <1>4. m2h \in Seq(Note) /\ fw.session \in BOOLEAN
    BY DEF TypeOK, Framework
  <1>5. Heard
    BY <1>2 DEF Heard, Locks
  <1>6. fw'.session = (m = "begin" \/ (fw.session /\ m # "end"))
    BY <1>2, <1>4, <1>5
  <1>7. WillSession' <=> WillSession
    BY <1>2, <1>4, <1>6, NoteHead DEF WillSession
  <1>8. ASSUME NEW c
        PROVE  /\ Asked(c) => Asked(c)'
               /\ c = "start" /\ hal.intent = "start" /\ m = "reboot" => Asked(c)'
    <2>1. PICK K : K = {"cmd"}
      OBVIOUS
    <2>2. PICK A : A = {c}
      OBVIOUS
    <2>3. PICK B : B = {}
      OBVIOUS
    <2>4. Ops(K, B) = {} /\ "cmd" \in K
      BY <2>1, <2>3 DEF Ops
    <2>5. PICK v \in BOOLEAN : v = After(todo.binder, After(h2m, FALSE, {c}, B), Ops(K, A), Ops(K, B))
      BY AfterBoolean
    <2>6. After(<<>>, v, Ops(K, A), Ops(K, B)) <=> v
      BY AfterNone
    <2>7. Asked(c) <=> v
      BY <1>2, <2>1, <2>2, <2>3, <2>5, <2>6 DEF Asked, Flag, Worked
    <2>8. Asked(c)' <=> After(todo'.worker, v, Ops(K, A), Ops(K, B))
      BY <1>2, <2>1, <2>2, <2>3, <2>5 DEF Asked, Flag, Worked
    <2>9. v => After(todo'.worker, v, Ops(K, A), Ops(K, B))
      BY <2>4, AskedOnce
    <2>10. c = "start" /\ hal.intent = "start" /\ m = "reboot"
             => After(todo'.worker, v, Ops(K, A), Ops(K, B))
      <3>1. c = "start" => "start" \in A
        BY <2>2
      <3>2. hal.intent = "start" /\ "start" \in A => After(Resend, v, Ops(K, A), Ops(K, B))
        BY <2>4, ResendTurns
      <3> QED BY <1>2, <3>1, <3>2
    <2> QED BY <2>7, <2>8, <2>9, <2>10
  <1>9. Reboots(m2h) => m = "reboot" \/ Reboots(m2h')
    BY <1>2, <1>4, NoteHead
  <1>10. Owed => Owed'
    BY <1>2, <1>8, <1>9 DEF Owed
  <1> QED BY <1>2, <1>3, <1>7, <1>10 DEF Attended

\* Without an operation that sets it to start, the intent has been start all along.
LEMMA MeansNoStart ==
    ASSUME NEW q \in Seq(NoStart), NEW i, Means(q, i, "start")
    PROVE  i = "start"
  <1>1. \A j \in 1 .. Len(q) : q[j] \notin Ops({"intent"}, {"start"})
    <2>1. \A j \in 1 .. Len(q) : q[j] \in NoStart
      OBVIOUS
    <2> QED BY <2>1 DEF NoStart, Ops
  <1> QED BY <1>1 DEF Means, After

\* A user of the engine for which nothing is under way is what the intent says.
LEMMA UserMeant ==
    ASSUME TypeOK, Shape, Locks, Orderly, Sound, InStep, mnld.used,
           ~Asked("start"), ~Asked("stop")
    PROVE  hal.intent = "start" /\ hal.bound
  <1>0. todo.binder \in Seq(Op) /\ todo.worker \in Seq(Op) /\ h2m \in Seq(LiveCmd)
    BY DEF TypeOK, Thread, Locks
  <1>1. PICK K : K = {"cmd"}
    OBVIOUS
  <1>2. PICK B : B = {}
    OBVIOUS
  <1>3. Ops(K, B) = {} /\ "cmd" \in K /\ "intent" \notin K
    BY <1>1, <1>2 DEF Ops
  <1>4. WillUse
    <2>1. PICK A : A = {"stop"}
      OBVIOUS
    <2>2. PICK v \in BOOLEAN : v = After(h2m, FALSE, A, B)
      BY AfterBoolean
    <2>3. PICK w \in BOOLEAN : w = After(todo.binder, v, Ops(K, A), Ops(K, B))
      BY AfterBoolean
    <2>4. ~After(todo.worker, w, Ops(K, A), Ops(K, B))
      BY <1>1, <1>2, <2>1, <2>2, <2>3 DEF Asked, Flag, Worked
    <2>5. ~w /\ \A i \in 1 .. Len(todo.worker) : todo.worker[i] \notin Ops(K, A)
      BY <1>3, <2>4, AskedOnce
    <2>6. ~v /\ \A i \in 1 .. Len(todo.binder) : todo.binder[i] \notin Ops(K, A)
      BY <1>3, <2>3, <2>5, AskedOnce
    <2>7. \A i \in 1 .. Len(h2m) : h2m[i] \notin A
      BY <1>2, <2>2, <2>6, AskedOnce
    <2>8. PICK D : D = {"stop", "reboot"}
      OBVIOUS
    <2>9. \A i \in 1 .. Len(h2m) : h2m[i] \notin D
      <3>1. \A i \in 1 .. Len(h2m) : h2m[i] \in LiveCmd
        BY <1>0
      <3> QED BY <2>1, <2>7, <2>8, <3>1 DEF LiveCmd
    <2>10. \A o \in Op : o \notin Ops(K, A) => o \notin Ops(K, D)
      BY <1>1, <2>1, <2>8, OpParts DEF Ops, Names
    <2>11. \A i \in 1 .. Len(todo.binder) : todo.binder[i] \notin Ops(K, D)
      BY <1>0, <2>6, <2>10
    <2>12. \A i \in 1 .. Len(todo.worker) : todo.worker[i] \notin Ops(K, D)
      BY <1>0, <2>5, <2>10
    <2>13. PICK on : on = Ops(K, {"start"})
      OBVIOUS
    <2>14. After(h2m, TRUE, {"start"}, D) = TRUE
      BY <2>9, AfterStays, AfterBoolean
    <2>15. After(todo.binder, TRUE, on, Ops(K, D)) = TRUE
      BY <2>11, AfterStays, AfterBoolean
    <2>16. After(todo.worker, TRUE, on, Ops(K, D))
      BY <2>12, AfterStays
    <2>17. mnld.used = TRUE
      BY DEF TypeOK, Daemon
    <2> QED BY <1>1, <2>8, <2>13, <2>14, <2>15, <2>16, <2>17 DEF WillUse, Flag, Worked
  <1>5. WillBe("start")
    BY <1>4 DEF InStep
  <1>6. ASSUME todo.binder = Gpsinf("start") PROVE FALSE
    <2>1. PICK A : A = {"start"}
      OBVIOUS
    <2>2. PICK v \in BOOLEAN : v = After(h2m, FALSE, {"start"}, B)
      BY AfterBoolean
    <2>3. "start" \in A /\ "start" \in Names
      BY <2>1 DEF Names
    <2>4. After(todo["binder"], v, Ops(K, A), Ops(K, B))
      <3>1. After(Gpsinf("start"), v, Ops(K, A), Ops(K, B))
        BY <1>3, <2>3, GpsinfTurns
      <3> QED BY <1>6, <3>1
    <2>5. PICK w \in BOOLEAN : w = After(todo["binder"], v, Ops(K, A), Ops(K, B))
      BY AfterBoolean
    <2>6. After(todo.worker, w, Ops(K, A), Ops(K, B))
      BY <1>3, <2>4, <2>5, AskedOnce
    <2> QED BY <1>1, <1>2, <2>1, <2>2, <2>5, <2>6 DEF Asked, Flag, Worked
  <1>7. hal.intent = "start"
    BY <1>5, <1>6, MeansNoStart DEF Orderly, WillBe
  <1>8. hal.bound
    BY <1>7 DEF Sound, Calm, Shape, ServiceShape, Sockets
  <1> QED BY <1>7, <1>8

\* A step of mnld and what is under way for the session.
LEMMA DaemonSession ==
    ASSUME TypeOK, Locks, NEW e, NEW q, Daemons(e, q)
    PROVE  /\ hal.bound /\ WillSession' => SessionAfter(q, WillSession)
           /\ ~hal.bound => ~WillSession'
           /\ Reboots(m2h) => Reboots(m2h')
           /\ hal.bound /\ Reboots(q) /\ Told' => Reboots(m2h')
           /\ Told' => Told
           /\ WillSession \in BOOLEAN
  <1>1. /\ UNCHANGED fw /\ q \in Seq(Note) /\ Brief(q)
        /\ m2h \in Seq(Note) /\ fw.session \in BOOLEAN
    BY DEF Daemons, TypeOK, Framework
  <1>2. WillSession \in BOOLEAN
    BY DEF WillSession
  <1>3. CASE ~hal.bound
    <2>1. UNCHANGED <<m2h, lost>>
      BY <1>3 DEF Daemons
    <2>2. m2h' = <<>> /\ ~fw.session
      BY <1>3, <2>1 DEF Locks
    <2>3. ~SessionAfter(<<>>, fw.session)
      BY <1>1, <2>2, OneNote
    <2> QED BY <1>1, <1>2, <1>3, <2>1, <2>2, <2>3 DEF WillSession, Told
  <1>4. CASE hal.bound
    <2>1. PICK p : Arrives(q, p)
      BY <1>4 DEF Daemons
    <2>2. Ways(q, p)
      BY <1>1, <2>1, DaemonWays
    <2>3. p \in Seq(Note) /\ m2h' = m2h \o p
      BY <2>2 DEF Ways
    <2>4. PICK w \in BOOLEAN : w = SessionAfter(m2h, fw.session)
      BY AfterBoolean DEF SessionAfter
    <2>5. /\ SessionAfter(m2h', fw.session) <=> SessionAfter(p, w)
          /\ Reboots(m2h') <=> Reboots(m2h) \/ Reboots(p)
      BY <1>1, <2>3, <2>4, NoteConcat
    <2>6. SessionAfter(p, w) /\ "end" \notin lost'.of => SessionAfter(q, w /\ "end" \notin lost.of)
      BY <2>2 DEF Ways
    <2>7. WillSession = (w /\ "end" \notin lost.of)
      BY <2>4 DEF WillSession
    <2>8. WillSession' => SessionAfter(q, WillSession)
      BY <1>1, <2>5, <2>6, <2>7 DEF WillSession
    <2>9. (Told' => Told) /\ (Told' /\ Reboots(q) => Reboots(p))
      BY <2>2 DEF Ways
    <2> QED BY <1>2, <1>4, <2>5, <2>8, <2>9
  <1> QED BY <1>3, <1>4

\* mnld's own steps.
LEMMA MnldAttended ==
    ASSUME TypeOK, Shape, Locks, Sound => InStep, Kept, Sound', ~past'.died,
           MnldRecv \/ EngineDone \/ MnldReport \/ NmeaTimeout \/ MnldDie \/ MnldInit
    PROVE  Attended'
  <1>0. /\ EngineOf(mnld) /\ h2m \in Seq(Cmd) /\ mnld.used \in BOOLEAN /\ mnld.up /\ Orderly
        /\ h2m \in Seq(LiveCmd)
    BY DEF Shape, DaemonShape, TypeOK, Daemon, Kept, Locks
  <1>1. ASSUME NEW e, NEW q, Daemons(e, q)
        PROVE  Sound /\ Attended /\ InStep /\ UNCHANGED <<hal, todo>> /\ mnld' = e
    <2>1. UNCHANGED <<hal, todo>> /\ past'.raced = past.raced /\ mnld' = e
      BY <1>1 DEF Daemons
    <2>2. Told
      BY <1>1, DaemonSession DEF Sound
    <2>3. Sound
      BY <2>1, <2>2 DEF Sound, Calm
    <2> QED BY <2>1, <2>3 DEF Kept
  <1>2. CASE MnldRecv
    <2>1. PICK e, q : /\ Daemons(e, q) /\ h2m # <<>> /\ h2m' = Tail(h2m)
                      /\ Serves(Head(h2m), mnld, e, q)
      BY <1>0, <1>2, RecvEffect
    <2>2. Head(h2m) # "reboot"
      BY <1>0, <2>1, Queue DEF LiveCmd
    <2>3. hal.bound /\ WillSession' =>
            \/ e.used \/ e.closeAck
            \/ WillSession /\ Head(h2m) \notin {"start", "stop"}
                 /\ e.used = mnld.used /\ e.closeAck = mnld.closeAck
      BY <2>1, <2>2, DaemonSession DEF Serves
    <2>4. ASSUME NEW c \in {"start", "stop"}, Head(h2m) \notin {"start", "stop"}, Asked(c)
          PROVE  Asked(c)'
      <3>1. PICK none : none = {}
        OBVIOUS
      <3>2. Turn(Head(h2m), FALSE, {c}, none) = FALSE
        BY <2>4 DEF Turn
      <3>3. After(h2m, FALSE, {c}, none)
              <=> After(Tail(h2m), Turn(Head(h2m), FALSE, {c}, none), {c}, none)
        BY <1>0, <2>1, AfterHead
      <3>4. After(h2m, FALSE, {c}, none) => After(h2m', FALSE, {c}, none)
        BY <2>1, <3>2, <3>3
      <3>5. Flag(todo, h2m, FALSE, c, none) => Flag(todo, h2m', FALSE, c, none)
        BY <3>4, FlagMore
      <3>6. UNCHANGED todo
        BY <1>1, <2>1
      <3> QED BY <2>4, <3>1, <3>5, <3>6 DEF Asked
    <2>5. Reboots(m2h) => Reboots(m2h')
      BY <2>1, DaemonSession
    <2>6. Head(h2m) \notin {"start", "stop"} /\ Owed => Owed'
      BY <1>1, <2>1, <2>4, <2>5 DEF Owed
    <2>7. ~hal.bound => ~WillSession'
      BY <2>1, DaemonSession
    <2> QED BY <1>1, <2>1, <2>3, <2>6, <2>7 DEF Attended
  <1>3. ASSUME NEW e, NEW q, Daemons(e, q), UNCHANGED h2m, Owed PROVE Owed'
    <2>1. UNCHANGED <<hal, todo>> /\ (Reboots(m2h) => Reboots(m2h'))
      BY <1>1, <1>3, DaemonSession
    <2> QED BY <1>3, <2>1 DEF Owed, Asked
  <1>4. CASE EngineDone
    <2>1. PICK e, q : /\ Daemons(e, q) /\ UNCHANGED h2m /\ Tells(mnld, e, q)
                      /\ \A u \in BOOLEAN : SessionAfter(q, u)
                           => (u /\ e.closeAck = mnld.closeAck) \/ e.used
      BY <1>0, <1>4, DoneEffect
    <2>2. e.used = mnld.used
      BY <2>1 DEF Tells
    <2>3. WillSession' => (WillSession /\ e.closeAck = mnld.closeAck) \/ e.used
      BY <2>1, DaemonSession
    <2> QED BY <1>1, <1>3, <2>1, <2>2, <2>3 DEF Attended
  <1>5. CASE MnldReport
    <2>1. Daemons(mnld, <<"meas">>) /\ UNCHANGED h2m
      BY <1>5, ReportEffect
    <2>2. WillSession \in BOOLEAN /\ (WillSession' => SessionAfter(<<"meas">>, WillSession))
      BY <2>1, DaemonSession
    <2>3. WillSession' => WillSession
      BY <2>2, OneNote
    <2> QED BY <1>1, <1>3, <2>1, <2>3 DEF Attended
  <1>6. CASE NmeaTimeout
    <2>1. PICK e : Daemons(e, <<"reboot">>) /\ UNCHANGED h2m /\ e.closeAck = mnld.closeAck
      BY <1>0, <1>6, TimeoutEffect
    <2>2. WillSession \in BOOLEAN /\ (WillSession' => SessionAfter(<<"reboot">>, WillSession))
      BY <2>1, DaemonSession
    <2>3. WillSession' => WillSession
      BY <2>2, OneNote
    <2>4. ASSUME mnld.used, ~Owed PROVE Owed'
      <3>1. hal.intent = "start" /\ hal.bound
        BY <1>0, <1>1, <2>1, <2>4, UserMeant DEF Owed
      <3>2. Reboots(m2h')
        BY <2>1, <3>1, DaemonSession, OneNote DEF Sound
      <3> QED BY <1>1, <2>1, <3>1, <3>2 DEF Owed
    <2> QED BY <1>1, <1>3, <2>1, <2>3, <2>4 DEF Attended
  <1>7. ~MnldDie /\ ~MnldInit
    BY <1>0, DieEffect, InitEffect
  <1> QED BY <1>2, <1>4, <1>5, <1>6, <1>7

\* As long as nobody dies.
LEMMA KeptStep ==
    ASSUME TypeOK, Shape, Alive => Locks, Sound => InStep, Alive /\ ~past.died => Kept, [Next]_vars
    PROVE  (Alive /\ ~past.died => Kept)'
  <1> SUFFICES ASSUME Alive', ~past'.died PROVE Kept'
    OBVIOUS
  <1>1. Alive /\ ~FwDie /\ ~HalDie /\ Locks
    BY DeathsStay
  <1>2. past.died \in BOOLEAN
    BY DEF TypeOK, Past
  <1>3. CASE UNCHANGED vars
    BY <1>1, <1>3 DEF vars, Kept, Orderly, Sound, Calm, Told, Attended, WillSession, Owed, Asked
  <1>4. CASE SetCallback \/ StartStop \/ Disable \/ Measure(TRUE) \/ Measure(FALSE)
    <2>1. UNCHANGED mnld /\ past'.died = past.died
      BY <1>4, CallParts DEF SetCallback, StartStop, Disable, Measure
    <2>2. Kept
      BY <1>1, <2>1
    <2> QED BY <1>4, <2>1, <2>2, CallOrderly, CallAttended DEF Kept
  <1>5. ASSUME NEW t \in Thread, Step(t) PROVE Kept'
    <2>1. UNCHANGED mnld /\ past'.died = past.died
      BY <1>5, StepEffect DEF Ran
    <2>2. Kept
      BY <1>1, <2>1
    <2> QED BY <1>5, <2>1, <2>2, StepOrderly, StepAttended DEF Kept
  <1>6. CASE WorkerRecv
    <2>1. /\ UNCHANGED <<mnld, hal>> /\ todo'.binder = todo.binder /\ past'.died = past.died
      BY <1>6, WorkerEffect DEF Heeds
    <2>2. Kept
      BY <1>1, <2>1
    <2>3. Sound' => Attended'
      BY <1>1, <1>6, <2>2, WorkerAttended
    <2> QED BY <2>1, <2>2, <2>3 DEF Kept, Orderly
  <1>7. CASE MnldRecv \/ EngineDone \/ MnldReport \/ NmeaTimeout \/ MnldDie \/ MnldInit
    <2>0. EngineOf(mnld)
      BY DEF Shape, DaemonShape
    <2>1. ~MnldDie
      BY DieEffect
    <2>2. PICK e, q : Daemons(e, q) /\ (mnld.up => e.up)
      <3>1. CASE MnldRecv
        BY <2>0, <3>1, RecvEffect DEF Serves
      <3>2. CASE EngineDone
        BY <2>0, <3>2, DoneEffect DEF Tells
      <3>3. CASE MnldReport
        BY <3>3, ReportEffect
      <3>4. CASE NmeaTimeout
        BY <2>0, <3>4, TimeoutEffect
      <3>5. CASE MnldInit
        BY <3>5, InitEffect
      <3> QED BY <1>7, <2>1, <3>1, <3>2, <3>3, <3>4, <3>5
    <2>3. /\ UNCHANGED <<hal, todo>> /\ past'.died = past.died /\ mnld' = e
      BY <2>2 DEF Daemons
    <2>4. Kept
      BY <1>1, <2>3
    <2>5. Sound' => Attended'
      BY <1>1, <1>7, <2>4, MnldAttended
    <2> QED BY <2>2, <2>3, <2>4, <2>5 DEF Kept, Orderly
  <1> QED BY <1>1, <1>3, <1>4, <1>5, <1>6, <1>7 DEF Next, Thread

\* Nothing is open at the start.
LEMMA KeptInit == Init => Kept
  <1> SUFFICES ASSUME Init PROVE Kept
    OBVIOUS
  <1>1. /\ mnld.up /\ todo.binder = <<>> /\ hal.intent # "start" /\ m2h = <<>>
        /\ fw.session = FALSE
    BY DEF Init, MnldBoot, Thread, HalBoot, FwBoot
  <1>2. ~WillSession
    BY <1>1, OneNote DEF WillSession
  <1> QED BY <1>1, <1>2, Short DEF Kept, Orderly, Attended

\* While nobody has died, an open session has a user of the engine, an owed SESSION_END, or a
\* request of the HAL that is still to come.
THEOREM KeptInvariant == Spec => [](Alive /\ ~past.died => Kept)
  <1>1. /\ TypeOK /\ Shape /\ (Alive => Locks) /\ (Sound => InStep)
        /\ (Alive /\ ~past.died => Kept) /\ [Next]_vars
        => (Alive /\ ~past.died => Kept)'
    BY KeptStep
  <1>2. Init => (Alive /\ ~past.died => Kept)
    BY KeptInit
  <1>3. GnssInv => TypeOK
    BY DEF GnssInv
  <1> QED
    BY <1>1, <1>2, <1>3, GnssInvariant, ShapeInvariant, LocksInvariant, AgreementInvariant, PTL
       DEF Spec

\* The framework keeps neither the wakelock nor an open session once the engine is off
\* (updateWakelock, do_gps_stopped_hdlr), as far as NothingKept promises it.
THEOREM NothingKeptCorrect == Spec => []NothingKept
  <1>1. TypeOK /\ Shape /\ (Alive => Locks) /\ (Alive /\ ~past.died => Kept) => NothingKept
    <2> SUFFICES ASSUME TypeOK, Shape, Alive => Locks, Alive /\ ~past.died => Kept,
                        Quiet, ~past.died, past.fwDeaths + past.halDeaths = 0,
                        mnld.engine = "idle"
                 PROVE  /\ fw.lock => "release" \in lost.of
                        /\ fw.session => past.raced \/ ~Told \/ "end" \in lost.of
      BY DEF NothingKept
    <2>1. Locks /\ Kept
      <3>1. Alive
        BY DEF TypeOK, Past, Alive
      <3> QED BY <3>1
    <2>2. /\ todo.binder = <<>> /\ todo.worker = <<>> /\ h2m = <<>> /\ m2h = <<>>
          /\ fw.lock \in BOOLEAN /\ fw.session \in BOOLEAN
      BY DEF Quiet, Thread, TypeOK, Framework
    <2>3. fw.lock => "release" \in lost.of
      BY <2>1, <2>2, OneNote DEF Locks
    <2>4. ASSUME fw.session, ~past.raced, Told, "end" \notin lost.of PROVE FALSE
      <3>1. hal.bound
        BY <2>1, <2>4 DEF Locks
      <3>2. Sound
        BY <2>2, <2>4, <3>1 DEF Sound, Calm, Shape, ServiceShape, Sockets
      <3>3. WillSession
        BY <2>2, <2>4, OneNote DEF WillSession
      <3>4. ~mnld.used /\ ~mnld.closeAck
        BY DEF Shape, DaemonShape, EngineOf
      <3>5. ~Reboots(m2h)
        BY <2>2, OneNote
      <3>6. ASSUME NEW c PROVE ~Asked(c)
        <4>1. ASSUME NEW on, NEW off PROVE After(<<>>, FALSE, on, off) = FALSE
          <5>1. ~After(<<>>, FALSE, on, off)
            BY AfterNone
          <5> QED BY <5>1, AfterBoolean
        <4> QED BY <2>2, <4>1 DEF Asked, Flag, Worked
      <3> QED BY <2>1, <3>2, <3>3, <3>4, <3>5, <3>6 DEF Kept, Attended, Owed
    <2> QED BY <2>3, <2>4
  <1>2. GnssInv => TypeOK
    BY DEF GnssInv
  <1> QED BY <1>1, <1>2, GnssInvariant, ShapeInvariant, LocksInvariant, KeptInvariant, PTL

=============================================================================
