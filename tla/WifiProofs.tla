----------------------------- MODULE WifiProofs -----------------------------
(***************************************************************************)
(* Proofs about WifiHal, for every set of builds and every number of       *)
(* calls, failures and events.                                             *)
(***************************************************************************)
EXTENDS WifiHal, FiniteSetTheorems, TLAPS

-----------------------------------------------------------------------------
\* The inductive invariant

Service == [run : {"stopped", "started", "stopping"}, driver : BOOLEAN]
Chip == [exists : BOOLEAN, mode : Mode \cup {NoMode}, ifaces : [IfaceType -> Nat], sta : Nat]
LegacyHal == [started : BOOLEAN, awaiting : BOOLEAN, cb : Nat]
Binder == [pc : {"idle", "read", "wait", "tail"}, op : {"none", "stop", "configure"},
           mode : Mode \cup {NoMode}]
Past == [calls : Nat, faults : Nat, events : Nat, botched : BOOLEAN, late : BOOLEAN,
         strayId : BOOLEAN, hup : BOOLEAN, abort : {"no", "nan", "null", "freed", "check", "loop"}]

Typed ==
    /\ wifi \in Service
    /\ chip \in Chip
    /\ legacy \in LegacyHal
    /\ binder \in Binder
    /\ past \in Past

Zero == [t \in IfaceType |-> 0]

\* Where a stop or a mode change is, and what it has torn down so far.
UnderWay ==
    /\ binder.op = "none" <=> binder.pc = "idle"
    /\ binder.op = "configure" => binder.mode \in Mode /\ chip.ifaces = Zero
    /\ ~chip.exists => chip.mode = NoMode
    /\ binder.pc # "idle" /\ binder.op = "stop" => ~chip.exists
    /\ binder.pc # "idle" /\ binder.op = "configure" => chip.exists /\ wifi.run = "started"
    /\ binder.pc \in {"read", "wait"} /\ binder.op = "configure" => chip.mode # NoMode
    /\ binder.pc = "read" /\ binder.op = "stop" => wifi.run = "stopping"
    /\ binder.pc \in {"wait", "tail"} /\ binder.op = "stop" => wifi.run = "stopped"
    /\ binder.pc \in {"wait", "tail"} => ~legacy.started

WifiInv == Typed /\ IfacesFit /\ (past.abort = "no" => UnderWay /\ Settled)

-----------------------------------------------------------------------------
\* Interface combinations

\* A mode has finitely many limits, and each allows a type.
LEMMA LimitsFinite ==
    ASSUME NEW b, NEW m
    PROVE  /\ IsFiniteSet(Limits(b, m))
           /\ \A l \in Limits(b, m) : \E t \in IfaceType : t \in l
  <1> DEFINE All == {{"STA"}, P2pOrNan(b), {"AP"}}
  <1>1. Limits(b, m) \subseteq All
    <2>1. CASE m = "V1Sta"
      BY <2>1 DEF Limits
    <2>2. CASE m = "V1Ap"
      BY <2>2 DEF Limits
    <2>3. CASE m = "V2"
      BY <2>3 DEF Limits
    <2>4. CASE m \notin {"V1Sta", "V1Ap", "V2"}
      BY <2>4 DEF Limits
    <2> QED BY <2>1, <2>2, <2>3, <2>4
  <1>2. IsFiniteSet(All)
    <2>1. IsFiniteSet({{"STA"}})
      BY FS_Singleton
    <2>2. IsFiniteSet({{"STA"}} \cup {P2pOrNan(b)})
      BY <2>1, FS_AddElement
    <2>3. IsFiniteSet(({{"STA"}} \cup {P2pOrNan(b)}) \cup {{"AP"}})
      BY <2>2, FS_AddElement
    <2>4. All = ({{"STA"}} \cup {P2pOrNan(b)}) \cup {{"AP"}}
      OBVIOUS
    <2> QED BY <2>3, <2>4
  <1>3. IsFiniteSet(Limits(b, m))
    BY <1>1, <1>2, FS_Subset
  <1>4. \A l \in All : \E t \in IfaceType : t \in l
    BY DEF IfaceType, P2pOrNan
  <1> QED BY <1>1, <1>3, <1>4

\* A combination counts interfaces.
LEMMA ComboType ==
    ASSUME NEW b, NEW m, NEW combo \in Combinations(b, m)
    PROVE  combo \in [IfaceType -> Nat]
  <1>1. PICK pick : combo = [t \in IfaceType |-> Cardinality({l \in Limits(b, m) : pick[l] = t})]
    BY DEF Combinations
  <1>2. ASSUME NEW t \in IfaceType
        PROVE  Cardinality({l \in Limits(b, m) : pick[l] = t}) \in Nat
    <2>1. IsFiniteSet({l \in Limits(b, m) : pick[l] = t})
      BY LimitsFinite, FS_Subset
    <2> QED BY <2>1, FS_CardinalityType
  <1> QED BY <1>1, <1>2

\* Every mode allows no interfaces at all.
LEMMA ZeroFits ==
    ASSUME NEW b, NEW m
    PROVE  Fits(b, Zero, m)
  <1> DEFINE Picks == {p \in [Limits(b, m) -> IfaceType] : \A l \in Limits(b, m) : p[l] \in l}
  <1>1. PICK pick \in Picks : TRUE
    <2> DEFINE first == [l \in Limits(b, m) |-> CHOOSE t \in IfaceType : t \in l]
    <2>1. first \in Picks
      BY LimitsFinite
    <2> QED BY <2>1
  <1> DEFINE combo == [t \in IfaceType |-> Cardinality({l \in Limits(b, m) : pick[l] = t})]
  <1>2. combo \in Combinations(b, m)
    BY <1>1, Zenon DEF Combinations
  <1> HIDE DEF combo
  <1>3. \A t \in IfaceType : Zero[t] <= combo[t]
    BY <1>2, ComboType DEF Zero
  <1> QED BY <1>2, <1>3 DEF Fits

\* Fewer interfaces fit as well.
LEMMA FewerFits ==
    ASSUME NEW b, NEW m, NEW f \in [IfaceType -> Nat], NEW g \in [IfaceType -> Nat],
           Fits(b, g, m), \A t \in IfaceType : f[t] <= g[t]
    PROVE  Fits(b, f, m)
  <1>1. PICK combo \in Combinations(b, m) : \A t \in IfaceType : g[t] <= combo[t]
    BY DEF Fits
  <1>2. \A t \in IfaceType : f[t] <= combo[t]
    BY <1>1, ComboType
  <1> QED BY <1>2 DEF Fits

\* Without a mode there are no interfaces.
LEMMA NoModeFits ==
    ASSUME NEW b, NEW f \in [IfaceType -> Nat], Fits(b, f, NoMode)
    PROVE  f = Zero
  <1>1. PICK combo \in Combinations(b, NoMode) : \A t \in IfaceType : f[t] <= combo[t]
    BY DEF Fits
  <1>2. Limits(b, NoMode) = {}
    BY DEF Limits, NoMode
  <1>3. PICK pick : combo = [t \in IfaceType |-> Cardinality({l \in Limits(b, NoMode) : pick[l] = t})]
    BY DEF Combinations
  <1>4. \A t \in IfaceType : {l \in Limits(b, NoMode) : pick[l] = t} = {}
    BY <1>2
  <1>5. \A t \in IfaceType : combo[t] = 0
    BY <1>3, <1>4, FS_EmptySet
  <1>6. \A t \in IfaceType : f[t] = 0
    BY <1>1, <1>5
  <1> QED BY <1>6 DEF Zero

-----------------------------------------------------------------------------
\* The steps

\* Counting a call, a failure, or a call that fails.
LEMMA PastType ==
    ASSUME past \in Past, NEW p \in {Counted, Failed, [Counted EXCEPT !.faults = @ + 1]}
    PROVE  p \in Past /\ p.abort = past.abort /\ p.botched = past.botched
  <1>1. past.calls + 1 \in Nat /\ past.faults + 1 \in Nat
    BY DEF Past
  <1>2. CASE p = Counted
    BY <1>1, <1>2 DEF Past, Counted
  <1>3. CASE p = Failed
    BY <1>1, <1>3 DEF Past, Failed
  <1>4. CASE p = [Counted EXCEPT !.faults = @ + 1]
    <2>1. /\ Counted \in Past /\ Counted.faults = past.faults
          /\ Counted.abort = past.abort /\ Counted.botched = past.botched
      BY <1>1 DEF Past, Counted
    <2> HIDE DEF Counted
    <2> QED BY <1>1, <1>4, <2>1 DEF Past
  <1> QED BY <1>2, <1>3, <1>4

\* A history stays one when its flags or its abort change, or a call is counted.
LEMMA PastFields ==
    ASSUME NEW p \in Past
    PROVE  /\ [p EXCEPT !.calls = @ + 1] \in Past
           /\ \A v \in BOOLEAN : [p EXCEPT !.botched = v] \in Past
           /\ \A v \in BOOLEAN : [p EXCEPT !.strayId = v] \in Past
           /\ \A v, w \in BOOLEAN : [p EXCEPT !.late = v, !.botched = w] \in Past
           /\ \A a \in {p.abort, "no", "nan", "null", "freed", "check", "loop"} :
                 [p EXCEPT !.abort = a] \in Past
           /\ Crashes(p) \in Past /\ Crashes(p).botched = p.botched
  <1>1. p.calls + 1 \in Nat
    BY DEF Past
  <1>2. Crashes(p) \in Past /\ Crashes(p).botched = p.botched
    BY DEF Crashes, Past
  <1> QED BY <1>1, <1>2 DEF Past

\* No chip, a new chip and an idle binder thread are what they should be.
LEMMA Constants ==
    /\ NoChip \in Chip /\ ~NoChip.exists /\ NoChip.mode = NoMode /\ NoChip.ifaces = Zero
    /\ Idle \in Binder /\ Idle.pc = "idle" /\ Idle.op = "none"
    /\ NoLegacy \in LegacyHal /\ ~NoLegacy.started
  <1>1. Zero \in [IfaceType -> Nat]
    BY DEF Zero
  <1> QED BY <1>1 DEF NoChip, Chip, Zero, Idle, Binder, NoLegacy, LegacyHal

\* A step that leaves the service, the chip and the binder thread alone keeps the invariant.
LEMMA Elsewhere ==
    ASSUME WifiInv, past.abort = "no", UNCHANGED <<build, wifi, chip, binder>>,
           legacy' \in LegacyHal, legacy'.started = legacy.started,
           past' \in Past, past'.botched = past.botched
    PROVE  WifiInv'
  BY DEF WifiInv, Typed, IfacesFit, UnderWay, Settled

\* RSSI monitoring touches the legacy HAL's callback only.
LEMMA RssiGood ==
    ASSUME WifiInv, past.abort = "no", NEW id \in RequestId, StartRssi(id) \/ StopRssi(id)
    PROVE  WifiInv'
  <1>1. past \in Past /\ chip \in Chip /\ legacy \in LegacyHal
    BY DEF WifiInv, Typed
  <1>2. ASSUME NEW p \in {Counted, [Counted EXCEPT !.faults = @ + 1]}
        PROVE  p \in Past /\ p.abort = past.abort /\ p.botched = past.botched
    BY <1>1, PastType
  <1>3. past' \in Past /\ past'.botched = past.botched
    <2> DEFINE c == Counted
               d == [Counted EXCEPT !.faults = @ + 1]
    <2>1. /\ c \in Past /\ c.abort = past.abort /\ c.botched = past.botched
          /\ d \in Past /\ d.botched = past.botched
      BY <1>2
    <2>2. \/ past' = c \/ past' = d
          \/ \E a \in {past.abort, "null", "freed"} : past' = [c EXCEPT !.abort = a]
          \/ past' = [c EXCEPT !.strayId = TRUE]
      <3>1. CASE StartRssi(id)
        BY <2>1, <3>1 DEF StartRssi
      <3>2. CASE StopRssi(id)
        BY <2>1, <3>2 DEF StopRssi
      <3> QED BY <3>1, <3>2
    <2> HIDE DEF c, d
    <2> QED BY <1>1, <2>1, <2>2 DEF Past
  <1>4. legacy' \in LegacyHal /\ legacy'.started = legacy.started
    <2>1. legacy' = legacy \/ \E v \in {chip.sta, 0} : legacy' = [legacy EXCEPT !.cb = v]
      BY DEF StartRssi, StopRssi
    <2>2. chip.sta \in Nat
      BY <1>1 DEF Chip
    <2> QED BY <1>1, <2>1, <2>2 DEF LegacyHal
  <1>5. UNCHANGED <<build, wifi, chip, binder>>
    BY DEF StartRssi, StopRssi
  <1> QED BY <1>3, <1>4, <1>5, Elsewhere

\* Neither do the driver's events and the loop.
LEMMA LoopGood ==
    ASSUME WifiInv, past.abort = "no", DriverEvent \/ LoopStep \/ LoopHangup
    PROVE  WifiInv'
  <1>1. past \in Past /\ legacy \in LegacyHal
    BY DEF WifiInv, Typed
  <1>2. past' \in Past /\ past'.botched = past.botched
    <2>1. \/ past' = past
          \/ past' = [past EXCEPT !.events = @ + 1]
          \/ \E a \in {past.abort, "loop", "freed"} : past' = [past EXCEPT !.abort = a]
          \/ past' = [Failed EXCEPT !.hup = TRUE]
      BY DEF DriverEvent, LoopStep, LoopEvent, LoopCallback, LoopExit, LoopEnd, LoopHangup
    <2>2. past.events + 1 \in Nat
      BY <1>1 DEF Past
    <2>3. Failed \in Past /\ Failed.botched = past.botched
      BY <1>1, PastType
    <2> QED BY <1>1, <2>1, <2>2, <2>3 DEF Past
  <1>3. legacy' \in LegacyHal /\ legacy'.started = legacy.started
    BY <1>1 DEF DriverEvent, LoopStep, LoopEvent, LoopCallback, LoopExit, LoopEnd, LoopHangup,
       LegacyHal
  <1>4. UNCHANGED <<build, wifi, chip, binder>>
    BY DEF DriverEvent, LoopStep, LoopEvent, LoopCallback, LoopExit, LoopEnd, LoopHangup
  <1> QED BY <1>2, <1>3, <1>4, Elsewhere

\* Starting the service.
LEMMA StartGood ==
    ASSUME WifiInv, past.abort = "no", Start
    PROVE  WifiInv'
  <1>1. Typed /\ UnderWay /\ Settled /\ IfacesFit
    BY DEF WifiInv
  <1>2. past' \in Past /\ past'.botched = past.botched
    BY <1>1, PastType DEF Start, Typed
  <1>3. CASE UNCHANGED <<wifi, chip>>
    BY <1>1, <1>2, <1>3, Elsewhere DEF Start, Typed
  <1>4. CASE /\ wifi' = [run |-> "started", driver |-> TRUE]
             /\ chip' = [NoChip EXCEPT !.exists = TRUE]
    <2>1. /\ chip' \in Chip /\ chip'.exists /\ chip'.mode = NoMode /\ chip'.ifaces = Zero
      BY <1>4, Constants DEF Chip
    <2>2. wifi' \in Service /\ wifi'.run = "started"
      BY <1>4 DEF Service
    <2>3. UNCHANGED <<build, legacy, binder>> /\ binder.pc = "idle" /\ ~chip.exists
      BY <1>1 DEF Start, Called, Settled
    <2>4. ~legacy.started
      BY <1>1, <2>3 DEF UnderWay, Settled
    <2>5. IfacesFit'
      BY <2>1, ZeroFits DEF IfacesFit
    <2>6. Typed'
      BY <1>1, <1>2, <2>1, <2>2, <2>3 DEF Typed
    <2>7. UnderWay' /\ Settled'
      BY <1>1, <2>1, <2>2, <2>3, <2>4 DEF UnderWay, Settled
    <2> QED BY <2>5, <2>6, <2>7 DEF WifiInv
  <1> QED BY <1>3, <1>4 DEF Start

\* WifiLegacyHal::stop gives the binder thread its work.
LEMMA LegacyStopType ==
    ASSUME legacy \in LegacyHal, NEW op \in {"stop", "configure"}, NEW m \in Mode \cup {NoMode},
           LegacyStop(op, m)
    PROVE  /\ legacy' \in LegacyHal /\ legacy'.started = legacy.started
           /\ binder' \in Binder /\ binder'.op = op /\ binder'.mode = m
           /\ binder'.pc = IF legacy.started THEN "read" ELSE "tail"
  BY DEF LegacyStop, LegacyHal, Binder

\* Stopping the service.
LEMMA StopGood ==
    ASSUME WifiInv, past.abort = "no", Stop
    PROVE  WifiInv'
  <1>1. Typed /\ UnderWay /\ Settled
    BY DEF WifiInv
  <1>2. past' \in Past
    <2>1. Counted \in Past
      BY <1>1, PastType DEF Typed
    <2>2. Crashes(Counted) \in Past
      BY <2>1, PastFields
    <2> QED BY <2>2, PastFields DEF Stop
  <1>3. /\ legacy' \in LegacyHal /\ legacy'.started = legacy.started
        /\ binder' \in Binder /\ binder'.op = "stop"
        /\ binder'.pc = IF legacy.started THEN "read" ELSE "tail"
    BY <1>1, LegacyStopType DEF Stop, Typed
  <1>4. /\ chip' = NoChip /\ UNCHANGED build
        /\ wifi' \in Service
        /\ wifi'.run = IF legacy.started THEN "stopping" ELSE "stopped"
    BY <1>1 DEF Stop, Typed, Service
  <1>5. IfacesFit'
    BY <1>4, Constants, ZeroFits DEF IfacesFit
  <1>6. Typed'
    BY <1>2, <1>3, <1>4, Constants DEF Typed
  <1>7. UnderWay' /\ Settled'
    BY <1>3, <1>4, Constants DEF UnderWay, Settled
  <1> QED BY <1>5, <1>6, <1>7 DEF WifiInv

\* Asking for a mode.
LEMMA ConfigureGood ==
    ASSUME WifiInv, past.abort = "no", NEW m \in Mode, Reconfigure(m) \/ Configure(m)
    PROVE  WifiInv'
  <1>1. Typed /\ UnderWay /\ Settled /\ IfacesFit
    BY DEF WifiInv
  <1>2. past' \in Past /\ past'.botched = past.botched
    <2>1. Counted \in Past /\ Counted.botched = past.botched
      BY <1>1, PastType DEF Typed
    <2>2. Crashes(Counted) \in Past /\ Crashes(Counted).botched = past.botched
      BY <2>1, PastFields
    <2> QED BY <2>1, <2>2 DEF Reconfigure, Configure
  <1>3. chip.exists /\ wifi.run = "started" /\ binder.pc = "idle" /\ UNCHANGED <<build, wifi>>
    BY <1>1 DEF Reconfigure, Configure, Called, Settled
  <1>4. CASE Reconfigure(m)
    <2>1. /\ legacy' \in LegacyHal /\ legacy'.started = legacy.started
          /\ binder' \in Binder /\ binder'.op = "configure" /\ binder'.mode = m
          /\ binder'.pc = IF legacy.started THEN "read" ELSE "tail"
      BY <1>1, <1>4, LegacyStopType DEF Reconfigure, Typed
    <2>2. /\ chip' \in Chip /\ chip'.exists /\ chip'.mode = chip.mode /\ chip.mode # NoMode
          /\ chip'.ifaces = Zero
      BY <1>1, <1>3, <1>4, Constants DEF Reconfigure, Typed, Chip
    <2>3. IfacesFit'
      BY <1>3, <2>2, ZeroFits DEF IfacesFit
    <2>4. Typed'
      BY <1>1, <1>2, <1>3, <2>1, <2>2 DEF Typed
    <2>5. UnderWay' /\ Settled'
      BY <1>3, <2>1, <2>2 DEF UnderWay, Settled
    <2> QED BY <2>3, <2>4, <2>5 DEF WifiInv
  <1>5. CASE Configure(m)
    <2>1. /\ binder' \in Binder /\ binder'.op = "configure" /\ binder'.mode = m
          /\ binder'.pc = "tail"
      BY <1>5 DEF Configure, Binder
    <2>2. UNCHANGED <<chip, legacy>> /\ chip.mode = NoMode
      BY <1>5 DEF Configure
    <2>3. ~legacy.started
      BY <1>1, <1>3, <2>2 DEF Settled, WifiInv
    <2>4. chip.ifaces = Zero
      BY <1>1, <2>2, NoModeFits DEF IfacesFit, Typed, Chip
    <2>5. IfacesFit'
      BY <1>1, <1>3, <2>2 DEF IfacesFit
    <2>6. Typed'
      BY <1>1, <1>2, <1>3, <2>1, <2>2 DEF Typed
    <2>7. UnderWay' /\ Settled'
      BY <1>3, <2>1, <2>2, <2>3, <2>4 DEF UnderWay, Settled
    <2> QED BY <2>5, <2>6, <2>7 DEF WifiInv
  <1> QED BY <1>4, <1>5

\* Creating and removing interfaces.
LEMMA IfaceGood ==
    ASSUME WifiInv, past.abort = "no", NEW t \in IfaceType, Create(t) \/ Remove(t)
    PROVE  WifiInv'
  <1>1. Typed /\ UnderWay /\ Settled /\ IfacesFit
    BY DEF WifiInv
  <1>2. past' \in Past /\ past'.botched = past.botched
    <2>1. Counted \in Past /\ Counted.botched = past.botched
      BY <1>1, PastType DEF Typed
    <2>2. Crashes(Counted) \in Past /\ Crashes(Counted).botched = past.botched
      BY <2>1, PastFields
    <2> QED BY <2>1, <2>2 DEF Create, Remove
  <1>3. /\ UNCHANGED <<build, wifi, legacy, binder>> /\ binder.pc = "idle"
        /\ chip \in Chip /\ chip.ifaces \in [IfaceType -> Nat]
    BY <1>1 DEF Create, Remove, Called, Typed, Chip
  <1>4. /\ chip' \in Chip /\ chip'.exists = chip.exists /\ chip'.mode = chip.mode
        /\ Fits(build, chip'.ifaces, chip.mode)
    <2>1. CASE Create(t)
      <3> DEFINE f == [chip.ifaces EXCEPT ![t] = @ + 1]
      <3>1. f \in [IfaceType -> Nat] /\ past.calls + 1 \in Nat
        BY <1>1, <1>3 DEF Typed, Past
      <3>2. \E v \in {chip.sta, past.calls + 1} : chip' = [chip EXCEPT !.ifaces = f, !.sta = v]
        BY <1>3, <2>1 DEF Create
      <3>3. Fits(build, f, chip.mode)
        BY <2>1 DEF Create, CanSupport
      <3> HIDE DEF f
      <3> QED BY <1>3, <3>1, <3>2, <3>3 DEF Chip
    <2>2. CASE Remove(t)
      <3> DEFINE f == [chip.ifaces EXCEPT ![t] = @ - 1]
      <3>1. f \in [IfaceType -> Nat] /\ \A u \in IfaceType : f[u] <= chip.ifaces[u]
        <4>1. chip.ifaces[t] \in Nat /\ chip.ifaces[t] > 0
          BY <1>3, <2>2 DEF Remove
        <4> QED BY <1>3, <4>1
      <3>2. \E v \in {chip.sta, 0} : chip' = [chip EXCEPT !.ifaces = f, !.sta = v]
        BY <1>3, <2>2 DEF Remove
      <3> HIDE DEF f
      <3>3. Fits(build, f, chip.mode)
        BY <1>1, <1>3, <3>1, FewerFits DEF IfacesFit
      <3>4. PICK v \in Nat : chip' = [chip EXCEPT !.ifaces = f, !.sta = v]
        BY <1>3, <3>2 DEF Chip
      <3> QED BY <1>3, <3>1, <3>3, <3>4 DEF Chip
    <2> QED BY <2>1, <2>2
  <1>5. IfacesFit'
    BY <1>3, <1>4 DEF IfacesFit
  <1>6. Typed'
    BY <1>1, <1>2, <1>3, <1>4 DEF Typed
  <1>7. binder.op # "configure"
    BY <1>1, <1>3 DEF UnderWay
  <1>8. UnderWay' /\ (past'.abort = "no" => Settled')
    BY <1>1, <1>2, <1>3, <1>4, <1>7 DEF UnderWay, Settled
  <1> QED BY <1>5, <1>6, <1>8 DEF WifiInv

\* The end of the legacy HAL's stop.
LEMMA StopDoneGood ==
    ASSUME WifiInv, past.abort = "no", CleanUp \/ StopDone \/ StopTimeout \/ Deinitialize
    PROVE  WifiInv'
  <1>1. /\ Typed /\ UnderWay /\ Settled /\ IfacesFit
        /\ wifi \in Service /\ legacy \in LegacyHal /\ binder \in Binder /\ past \in Past
    BY DEF WifiInv, Typed
  <1>2. UNCHANGED <<build, chip>> /\ IfacesFit'
    BY <1>1 DEF CleanUp, StopDone, StopTimeout, Deinitialize, IfacesFit
  <1>3. CASE CleanUp
    <2>1. \E a \in {past.abort, "freed"} : past' = [past EXCEPT !.abort = a]
      BY <1>3 DEF CleanUp
    <2>2. past' \in Past
      BY <1>1, <2>1, PastFields
    <2>3. legacy' \in LegacyHal /\ ~legacy'.started
      BY <1>1, <1>3 DEF CleanUp, LegacyHal
    <2>4. binder' \in Binder /\ binder'.pc = "wait" /\ binder'.op = binder.op
          /\ binder'.mode = binder.mode /\ binder.pc = "read"
      BY <1>1, <1>3 DEF CleanUp, Binder
    <2>5. /\ wifi' \in Service
          /\ wifi'.run = IF binder.op = "stop" THEN "stopped" ELSE wifi.run
      BY <1>1, <1>3 DEF CleanUp, Service
    <2>6. UnderWay' /\ Settled'
      BY <1>1, <1>2, <2>3, <2>4, <2>5 DEF UnderWay, Settled
    <2> QED BY <1>1, <1>2, <2>2, <2>3, <2>4, <2>5, <2>6 DEF WifiInv, Typed
  <1>4. CASE StopDone
    <2>1. /\ binder' \in Binder /\ binder'.pc = "tail" /\ binder'.op = binder.op
          /\ binder'.mode = binder.mode /\ binder.pc = "wait"
          /\ UNCHANGED <<wifi, legacy, past>>
      BY <1>1, <1>4 DEF StopDone, Binder
    <2>2. UnderWay' /\ Settled'
      BY <1>1, <1>2, <2>1 DEF UnderWay, Settled
    <2> QED BY <1>1, <1>2, <2>1, <2>2 DEF WifiInv, Typed
  <1>5. CASE StopTimeout
    <2>1. binder' = Idle /\ UNCHANGED <<wifi, legacy>> /\ binder.pc = "wait"
      BY <1>5 DEF StopTimeout
    <2>2. Failed \in Past
      BY <1>1, PastType
    <2>3. past' \in Past /\ past'.botched = (binder.op = "configure")
      BY <1>5, <2>2 DEF StopTimeout, Past
    <2>4. binder.op \in {"stop", "configure"} /\ ~legacy.started
      BY <1>1, <2>1 DEF Binder, UnderWay
    <2>5. UnderWay' /\ Settled'
      BY <1>1, <1>2, <2>1, <2>3, <2>4, Constants DEF UnderWay, Settled
    <2> QED BY <1>1, <1>2, <2>1, <2>3, <2>5, Constants DEF WifiInv, Typed
  <1>6. CASE Deinitialize
    <2>1. binder' = Idle /\ UNCHANGED legacy /\ binder.pc = "tail" /\ binder.op = "stop"
      BY <1>6 DEF Deinitialize
    <2>2. past' \in Past
      BY <1>1, <1>6, PastType DEF Deinitialize
    <2>3. wifi' \in Service /\ wifi'.run = wifi.run
      BY <1>1, <1>6 DEF Deinitialize, Service
    <2>4. UnderWay' /\ Settled'
      BY <1>1, <1>2, <2>1, <2>3, Constants DEF UnderWay, Settled
    <2> QED BY <1>1, <1>2, <2>1, <2>2, <2>3, <2>4, Constants DEF WifiInv, Typed
  <1> QED BY <1>3, <1>4, <1>5, <1>6

\* The end of a mode change.
LEMMA ModeGood ==
    ASSUME WifiInv, past.abort = "no", ConfigureFails \/ LegacyStart
    PROVE  WifiInv'
  <1>1. /\ Typed /\ UnderWay /\ Settled /\ IfacesFit
        /\ chip \in Chip /\ legacy \in LegacyHal /\ binder \in Binder /\ past \in Past
    BY DEF WifiInv, Typed
  <1>2. /\ binder' = Idle /\ UNCHANGED <<build, wifi>>
        /\ binder.pc = "tail" /\ binder.op = "configure"
    BY DEF ConfigureFails, LegacyStart
  <1>3. /\ chip.exists /\ wifi.run = "started" /\ ~legacy.started
        /\ binder.mode \in Mode /\ chip.ifaces = Zero
    BY <1>1, <1>2 DEF UnderWay
  <1>4. CASE ConfigureFails
    <2>1. Failed \in Past
      BY <1>1, PastType
    <2>2. past' \in Past /\ past'.botched = (chip.mode # NoMode)
      BY <1>4, <2>1 DEF ConfigureFails, Past
    <2>3. UNCHANGED <<chip, legacy>>
      BY <1>4 DEF ConfigureFails
    <2>4. UnderWay' /\ Settled'
      BY <1>1, <1>2, <1>3, <2>2, <2>3, Constants DEF UnderWay, Settled
    <2>5. IfacesFit'
      BY <1>1, <1>2, <2>3 DEF IfacesFit
    <2> QED BY <1>1, <1>2, <2>2, <2>3, <2>4, <2>5, Constants DEF WifiInv, Typed
  <1>5. CASE LegacyStart /\ legacy.awaiting
    <2>1. UNCHANGED <<chip, legacy>> /\ past' = [past EXCEPT !.abort = "check"]
      BY <1>5 DEF LegacyStart
    <2>2. past' \in Past /\ past'.abort # "no"
      BY <1>1, <2>1 DEF Past
    <2>3. IfacesFit'
      BY <1>1, <1>2, <2>1 DEF IfacesFit
    <2> QED BY <1>1, <1>2, <2>1, <2>2, <2>3, Constants DEF WifiInv, Typed
  <1>6. CASE LegacyStart /\ ~legacy.awaiting
    <2>1. legacy' \in LegacyHal /\ legacy'.started
      BY <1>1, <1>6 DEF LegacyStart, LegacyHal
    <2>2. past' \in Past /\ ~past'.botched
      BY <1>1, <1>6 DEF LegacyStart, Past
    <2>3. /\ chip' \in Chip /\ chip'.mode = binder.mode /\ chip'.exists /\ chip'.ifaces = Zero
      BY <1>1, <1>3, <1>6 DEF LegacyStart, Chip
    <2>4. binder.mode # NoMode
      BY <1>3 DEF Mode, NoMode
    <2>5. UnderWay' /\ Settled'
      BY <1>2, <1>3, <2>1, <2>2, <2>3, <2>4, Constants DEF UnderWay, Settled
    <2>6. IfacesFit'
      BY <1>2, <2>3, ZeroFits DEF IfacesFit
    <2> QED BY <1>1, <1>2, <2>1, <2>2, <2>3, <2>5, <2>6, Constants DEF WifiInv, Typed
  <1> QED BY <1>4, <1>5, <1>6

\* init restarts the service.
LEMMA RestartGood ==
    ASSUME WifiInv, Restart
    PROVE  WifiInv'
  <1>1. wifi \in Service /\ past \in Past
    BY DEF WifiInv, Typed
  <1>2. wifi' \in Service /\ wifi'.run = "stopped"
    BY <1>1 DEF Restart, Service
  <1>3. past' \in Past
    BY <1>1 DEF Restart, Past
  <1>4. chip' = NoChip /\ legacy' = NoLegacy /\ binder' = Idle
    BY DEF Restart
  <1>5. IfacesFit'
    BY <1>4, Constants, ZeroFits DEF IfacesFit
  <1>6. UnderWay' /\ Settled'
    BY <1>2, <1>4, Constants DEF UnderWay, Settled
  <1> QED BY <1>2, <1>3, <1>4, <1>5, <1>6, Constants DEF WifiInv, Typed

-----------------------------------------------------------------------------
\* In every behaviour of the service the invariant holds.
THEOREM WifiInvariant == Spec => []WifiInv
  <1>1. Init => WifiInv
    <2>1. SUFFICES ASSUME Init PROVE WifiInv
      OBVIOUS
    <2>2. /\ wifi \in Service /\ wifi.run = "stopped"
          /\ past \in Past /\ chip = NoChip /\ legacy = NoLegacy /\ binder = Idle
      BY <2>1 DEF Init, Service, Past
    <2>3. IfacesFit
      BY <2>2, Constants, ZeroFits DEF IfacesFit
    <2>4. UnderWay /\ Settled
      BY <2>2, Constants DEF UnderWay, Settled
    <2> QED BY <2>2, <2>3, <2>4, Constants DEF WifiInv, Typed
  <1>2. WifiInv /\ Next => WifiInv'
    <2>1. ASSUME WifiInv, past.abort = "no", Call PROVE WifiInv'
      BY <2>1, StartGood, StopGood, ConfigureGood, IfaceGood, RssiGood DEF Call
    <2>2. ASSUME WifiInv, past.abort = "no", BinderStep PROVE WifiInv'
      BY <2>2, StopDoneGood, ModeGood DEF BinderStep
    <2> QED BY <2>1, <2>2, LoopGood, RestartGood DEF Next
  <1>3. WifiInv /\ UNCHANGED vars => WifiInv'
    BY DEF WifiInv, Typed, IfacesFit, UnderWay, Settled, vars
  <1> QED BY <1>1, <1>2, <1>3, PTL DEF Spec

\* The chip never has interfaces that its mode does not allow together.
THEOREM IfacesCorrect == Spec => []IfacesFit
  <1>1. WifiInv => IfacesFit
    BY DEF WifiInv
  <1> QED BY <1>1, WifiInvariant, PTL

\* Between calls the run state, the chip and the legacy HAL agree, whatever timed out or failed.
THEOREM SettledCorrect == Spec => []Settled
  <1>1. WifiInv => Settled
    BY DEF WifiInv, Settled
  <1> QED BY <1>1, WifiInvariant, PTL

-----------------------------------------------------------------------------
\* The binder thread and the event loop

Records ==
    /\ hal = [alive |-> hal.alive, cmds |-> hal.cmds, cbs |-> hal.cbs, events |-> hal.events,
              exit |-> hal.exit, done |-> hal.done]
    /\ hal.exit \in BOOLEAN /\ hal.done \in BOOLEAN
    /\ loop = [pc |-> loop.pc, cmd |-> loop.cmd]

\* How a stop and the loop hand over to each other.  A legacy HAL that is not started has no
\* library state, and its last loop has ended or is about to; a loop ends for a stop, which then
\* waits for it, unless one that waited has timed out, or because its socket hung up.
Handover ==
    /\ Records
    /\ ~legacy.started => /\ hal = NoHal /\ legacy.cb = 0 /\ binder.pc # "read"
                          /\ loop.pc = IF legacy.awaiting THEN "tail" ELSE "none"
    /\ legacy.started /\ binder.pc # "read" => /\ ~legacy.awaiting
                                               /\ \/ loop.pc \in {"poll", "lock"}
                                                  \/ loop.pc = "tail" /\ past.hup
                                               /\ ~hal.exit /\ ~hal.done
    /\ legacy.started /\ binder.pc = "read" => /\ legacy.awaiting
                                               /\ loop.pc \in {"poll", "lock", "tail"}
                                               /\ hal.done => loop.pc = "tail"
    /\ legacy.awaiting /\ binder.pc \notin {"read", "wait"} => past.late

HandoverInv == past.abort = "no" => Handover

\* The histories after a call and what they keep.
LEMMA PastKeeps ==
    ASSUME past \in Past
    PROVE  /\ Counted \in Past /\ Counted.calls = past.calls + 1
           /\ \A f \in {"faults", "events", "botched", "late", "strayId", "hup", "abort"} :
                 Counted[f] = past[f]
           /\ Failed \in Past
           /\ \A f \in {"calls", "events", "botched", "late", "strayId", "hup", "abort"} :
                 Failed[f] = past[f]
  <1>1. past.calls + 1 \in Nat /\ past.faults + 1 \in Nat
    BY DEF Past
  <1> QED BY <1>1 DEF Past, Counted, Failed

\* No legacy HAL, no library state and no loop are what they should be.
LEMMA Nothing ==
    /\ ~NoLegacy.started /\ ~NoLegacy.awaiting /\ NoLegacy.cb = 0
    /\ NoHal = [alive |-> NoHal.alive, cmds |-> NoHal.cmds, cbs |-> NoHal.cbs,
                events |-> NoHal.events, exit |-> NoHal.exit, done |-> NoHal.done]
    /\ ~NoHal.exit /\ ~NoHal.done /\ NoHal.exit \in BOOLEAN /\ NoHal.done \in BOOLEAN
    /\ NoHal.cmds = <<>> /\ NoHal.cbs = <<>> /\ NoHal.events = 0
    /\ NoLoop = [pc |-> NoLoop.pc, cmd |-> NoLoop.cmd] /\ NoLoop.pc = "none" /\ NoLoop.cmd = 0
    /\ Idle.pc = "idle"
  BY DEF NoLegacy, NoHal, NoLoop, Idle

\* A call that begins nothing with the loop keeps the handover.
LEMMA HandoverApart ==
    ASSUME Handover, binder.pc = "idle", binder'.pc \in {"idle", "tail"}, UNCHANGED loop,
           legacy'.started = legacy.started, legacy'.awaiting = legacy.awaiting,
           ~legacy.started => hal' = hal /\ legacy'.cb = legacy.cb,
           hal' = [hal EXCEPT !.cmds = hal'.cmds, !.cbs = hal'.cbs],
           past'.late = past.late, past'.hup = past.hup
    PROVE  Handover'
  BY DEF Handover, Records

\* Calls that neither stop nor start the legacy HAL.
LEMMA HandoverCalls ==
    ASSUME WifiInv, past.abort = "no", Handover,
           \/ Start
           \/ \E m \in Mode : Configure(m)
           \/ \E t \in IfaceType : Create(t) \/ Remove(t)
    PROVE  Handover'
  <1>1. past \in Past
    BY DEF WifiInv, Typed
  <1>2. /\ binder.pc = "idle" /\ binder'.pc \in {"idle", "tail"}
        /\ UNCHANGED <<legacy, hal, loop>>
    <2>1. CASE Start
      BY <2>1 DEF Start, Called
    <2>2. CASE \E m \in Mode : Configure(m)
      BY <2>2 DEF Configure, Called
    <2>3. CASE \E t \in IfaceType : Create(t) \/ Remove(t)
      BY <2>3 DEF Create, Remove, Called
    <2> QED BY <2>1, <2>2, <2>3
  <1>3. past'.late = past.late /\ past'.hup = past.hup
    <2> DEFINE c == Counted
    <2>1. c \in Past /\ c.late = past.late /\ c.hup = past.hup
      BY <1>1, PastKeeps
    <2>2. past' = c \/ past' = [c EXCEPT !.faults = @ + 1] \/ past' = Crashes(c)
      BY DEF Start, Configure, Create, Remove
    <2> HIDE DEF c
    <2> QED BY <2>1, <2>2 DEF Past, Crashes
  <1>4. hal' = [hal EXCEPT !.cmds = hal'.cmds, !.cbs = hal'.cbs]
    BY <1>2 DEF Handover, Records
  <1> QED BY <1>2, <1>3, <1>4, HandoverApart

\* Monitors are the library's business.
LEMMA HandoverRssi ==
    ASSUME WifiInv, past.abort = "no", Handover, NEW id \in RequestId,
           StartRssi(id) \/ StopRssi(id)
    PROVE  Handover'
  <1>1. past \in Past /\ legacy \in LegacyHal
    BY DEF WifiInv, Typed
  <1>2. binder.pc = "idle" /\ UNCHANGED <<binder, loop>>
    BY DEF StartRssi, StopRssi, Called
  <1>3. past'.late = past.late /\ past'.hup = past.hup
    <2> DEFINE c == Counted
    <2>1. c \in Past /\ c.late = past.late /\ c.hup = past.hup
      BY <1>1, PastKeeps
    <2>2. \/ past' = c \/ past' = [c EXCEPT !.faults = @ + 1]
          \/ \E a : past' = [c EXCEPT !.abort = a]
          \/ past' = [c EXCEPT !.strayId = TRUE]
      <3>1. CASE StartRssi(id)
        BY <3>1 DEF StartRssi
      <3>2. CASE StopRssi(id)
        BY <3>2 DEF StopRssi
      <3> QED BY <3>1, <3>2
    <2> HIDE DEF c
    <2> QED BY <2>1, <2>2 DEF Past
  <1>4. legacy' = legacy \/ \E v : legacy' = [legacy EXCEPT !.cb = v]
    BY DEF StartRssi, StopRssi
  <1>5. legacy'.started = legacy.started /\ legacy'.awaiting = legacy.awaiting
    BY <1>1, <1>4 DEF LegacyHal
  <1>6. ~legacy.started => hal' = hal /\ legacy'.cb = legacy.cb
    BY DEF StartRssi, StopRssi, Handover
  <1>7. hal' = [hal EXCEPT !.cmds = hal'.cmds, !.cbs = hal'.cbs]
    <2>1. \/ hal' = hal
          \/ \E u, v : hal' = [hal EXCEPT !.cmds = u, !.cbs = v]
          \/ \E u : hal' = [hal EXCEPT !.cmds = u]
          \/ \E v : hal' = [hal EXCEPT !.cbs = v]
      <3>1. CASE StartRssi(id)
        <4> DEFINE c == past.calls + 1
                   a == Append(hal.cmds, [id |-> id, cmd |-> c])
        <4>1. \/ hal' = [hal EXCEPT !.cmds = a, !.cbs = Append(hal.cbs, c)]
              \/ hal' = [hal EXCEPT !.cmds = Without(a, Index(a, id))]
              \/ hal' = hal
          BY <3>1 DEF StartRssi
        <4> QED BY <4>1, Zenon
      <3>2. CASE StopRssi(id)
        <4>1. \/ \E k : hal' = [hal EXCEPT !.cmds = Without(@, k),
                                           !.cbs = IF @ = <<>> THEN @ ELSE Tail(@)]
              \/ hal' = hal
              \/ hal' = [hal EXCEPT !.cbs = IF @ = <<>> THEN @ ELSE Tail(@)]
          BY <3>2 DEF StopRssi
        <4> QED BY <4>1, Zenon
      <3> QED BY <3>1, <3>2
    <2> DEFINE al == hal.alive  cm == hal.cmds  cb == hal.cbs  ev == hal.events
               ex == hal.exit  dn == hal.done
    <2>2. hal = [alive |-> al, cmds |-> cm, cbs |-> cb, events |-> ev, exit |-> ex, done |-> dn]
      BY DEF Handover, Records
    <2> HIDE DEF al, cm, cb, ev, ex, dn
    <2>3. CASE hal' = hal
      BY <2>2, <2>3
    <2>4. CASE \E u, v : hal' = [hal EXCEPT !.cmds = u, !.cbs = v]
      BY <2>2, <2>4
    <2>5. CASE \E u : hal' = [hal EXCEPT !.cmds = u]
      BY <2>2, <2>5
    <2>6. CASE \E v : hal' = [hal EXCEPT !.cbs = v]
      BY <2>2, <2>6
    <2> QED BY <2>1, <2>3, <2>4, <2>5, <2>6
  <1> QED BY <1>2, <1>3, <1>5, <1>6, <1>7, HandoverApart

\* A stop begins: the loop is asked to end, or has been before.
LEMMA HandoverStop ==
    ASSUME WifiInv, past.abort = "no", Handover, Stop \/ \E m \in Mode : Reconfigure(m)
    PROVE  Handover'
  <1>1. past \in Past /\ legacy \in LegacyHal
    BY DEF WifiInv, Typed
  <1>2. PICK op, m : LegacyStop(op, m)
    BY DEF Stop, Reconfigure
  <1>3. binder.pc = "idle" /\ UNCHANGED loop
    BY DEF Stop, Reconfigure, Called
  <1>4. past'.late = past.late /\ past'.hup = past.hup
    <2> DEFINE c == Counted
    <2>1. c \in Past /\ c.late = past.late /\ c.hup = past.hup
      BY <1>1, PastKeeps
    <2>2. past' = Crashes(c) \/ past' = [Crashes(c) EXCEPT !.botched = FALSE]
      BY DEF Stop, Reconfigure
    <2> HIDE DEF c
    <2>3. Crashes(c) \in Past /\ Crashes(c).late = c.late /\ Crashes(c).hup = c.hup
      BY <2>1 DEF Past, Crashes
    <2> QED BY <2>1, <2>2, <2>3 DEF Past
  <1>5. /\ binder'.pc = IF legacy.started THEN "read" ELSE "tail"
        /\ legacy'.started = legacy.started
        /\ legacy'.awaiting = (legacy.awaiting \/ legacy.started)
        /\ legacy'.cb = legacy.cb
    BY <1>1, <1>2 DEF LegacyStop, LegacyHal
  <1>6. CASE legacy.started
    BY <1>1, <1>2, <1>3, <1>4, <1>5, <1>6 DEF Handover, Records, LegacyStop, LegacyHal
  <1>7. CASE ~legacy.started
    <2>1. hal' = hal
      BY <1>1, <1>2, <1>7, Nothing DEF Handover, Records, LegacyStop, LegacyHal
    <2> QED BY <1>1, <1>3, <1>4, <1>5, <1>7, <2>1 DEF Handover, Records
  <1> QED BY <1>6, <1>7

\* The rest of a stop.
LEMMA HandoverEnd ==
    ASSUME WifiInv, past.abort = "no", Handover,
           CleanUp \/ StopDone \/ StopTimeout \/ Deinitialize \/ ConfigureFails
    PROVE  past'.abort = "no" => Handover'
  <1>1. /\ past \in Past /\ legacy \in LegacyHal /\ binder \in Binder
        /\ UnderWay
    BY DEF WifiInv, Typed
  <1>2. CASE CleanUp
    <2>1. \E a : past' = [past EXCEPT !.abort = a]
      BY <1>2 DEF CleanUp
    <2>2. past'.late = past.late /\ past'.hup = past.hup
      BY <1>1, <2>1 DEF Past
    <2>3. /\ binder.pc = "read" /\ binder'.pc = "wait" /\ hal.done
          /\ hal' = NoHal /\ UNCHANGED loop
          /\ ~legacy'.started /\ legacy'.cb = 0 /\ legacy'.awaiting = legacy.awaiting
      BY <1>1, <1>2 DEF CleanUp, LegacyHal, Binder
    <2> QED BY <2>2, <2>3, Nothing DEF Handover, Records
  <1>3. CASE StopDone
    <2>1. /\ binder.pc = "wait" /\ binder'.pc = "tail" /\ ~legacy.awaiting
          /\ UNCHANGED <<hal, loop, legacy, past>>
      BY <1>1, <1>3 DEF StopDone, Binder
    <2> QED BY <1>1, <2>1 DEF Handover, Records, UnderWay
  <1>4. CASE StopTimeout
    <2>1. past'.late
      <3> DEFINE f == Failed
      <3>1. f \in Past
        BY <1>1, PastKeeps
      <3>2. past' = [f EXCEPT !.late = TRUE, !.botched = (binder.op = "configure")]
        BY <1>4 DEF StopTimeout
      <3> HIDE DEF f
      <3> QED BY <3>1, <3>2 DEF Past
    <2>2. binder.pc = "wait" /\ binder'.pc = "idle" /\ UNCHANGED <<hal, loop, legacy>>
      BY <1>4, Nothing DEF StopTimeout
    <2> QED BY <1>1, <2>1, <2>2 DEF Handover, Records, UnderWay
  <1>5. CASE Deinitialize \/ ConfigureFails
    <2>1. past'.late = past.late /\ past'.hup = past.hup
      <3> DEFINE f == Failed
      <3>1. f \in Past /\ f.late = past.late /\ f.hup = past.hup
        BY <1>1, PastKeeps
      <3>2. \/ past' = past \/ past' = f
            \/ past' = [f EXCEPT !.botched = (chip.mode # NoMode)]
        BY <1>5 DEF Deinitialize, ConfigureFails
      <3> HIDE DEF f
      <3> QED BY <3>1, <3>2 DEF Past
    <2>2. binder.pc = "tail" /\ binder'.pc = "idle" /\ UNCHANGED <<hal, loop, legacy>>
      BY <1>5, Nothing DEF Deinitialize, ConfigureFails
    <2> QED BY <2>1, <2>2 DEF Handover, Records
  <1> QED BY <1>2, <1>3, <1>4, <1>5

\* A new loop is started only when the last one is over.
LEMMA HandoverStart ==
    ASSUME WifiInv, past.abort = "no", Handover, LegacyStart, past'.abort = "no"
    PROVE  Handover'
  <1>1. /\ past \in Past /\ legacy \in LegacyHal /\ ~legacy.awaiting
    BY DEF WifiInv, Typed, LegacyStart, Past
  <1>2. /\ hal' = [NoHal EXCEPT !.alive = TRUE] /\ binder'.pc = "idle"
        /\ loop' = [NoLoop EXCEPT !.pc = "poll"]
        /\ legacy' = [legacy EXCEPT !.started = TRUE]
    BY <1>1, Nothing DEF LegacyStart
  <1>3. legacy'.started /\ ~legacy'.awaiting
    BY <1>1, <1>2 DEF LegacyHal
  <1>4. Records' /\ ~hal'.exit /\ ~hal'.done /\ loop'.pc = "poll"
    BY <1>2 DEF Records, NoHal, NoLoop
  <1> QED BY <1>2, <1>3, <1>4 DEF Handover

\* The loop's own steps and the driver's events.
LEMMA HandoverLoop ==
    ASSUME WifiInv, past.abort = "no", Handover, DriverEvent \/ LoopStep \/ LoopHangup
    PROVE  past'.abort = "no" => Handover'
  <1>1. /\ past \in Past /\ legacy \in LegacyHal /\ binder \in Binder
    BY DEF WifiInv, Typed
  <1>2. UNCHANGED binder
    BY DEF DriverEvent, LoopStep, LoopEvent, LoopCallback, LoopExit, LoopEnd, LoopHangup
  <1>3. past'.late = past.late /\ (past.hup => past'.hup)
    <2>0. Failed \in Past /\ Failed.late = past.late
      BY <1>1, PastKeeps
    <2>1. \/ past' = past
          \/ past' = [past EXCEPT !.events = @ + 1]
          \/ \E a : past' = [past EXCEPT !.abort = a]
          \/ past' = [Failed EXCEPT !.hup = TRUE]
      BY DEF DriverEvent, LoopStep, LoopEvent, LoopCallback, LoopExit, LoopEnd, LoopHangup
    <2> QED BY <1>1, <2>0, <2>1 DEF Past
  <1>4. CASE DriverEvent
    <2>1. legacy.started /\ UNCHANGED <<legacy, loop>>
      BY <1>1, <1>4, Nothing DEF DriverEvent, Handover, LegacyHal
    <2>2. \E n : hal' = [hal EXCEPT !.events = n]
      BY <1>4 DEF DriverEvent
    <2> QED BY <1>2, <1>3, <2>1, <2>2 DEF Handover, Records
  <1>5. CASE LoopEvent
    <2>1. legacy.started /\ loop.pc = "poll" /\ UNCHANGED legacy
      BY <1>1, <1>5 DEF LoopEvent, Handover, LegacyHal
    <2>2. \E n : hal' = [hal EXCEPT !.events = n]
      BY <1>5 DEF LoopEvent
    <2>3. loop' = loop \/ \E c : loop' = [pc |-> "lock", cmd |-> c]
      BY <1>5 DEF LoopEvent
    <2> QED BY <1>2, <1>3, <2>1, <2>2, <2>3 DEF Handover, Records
  <1>6. CASE LoopCallback
    <2>1. legacy.started /\ loop.pc = "lock" /\ loop'.pc = "poll" /\ UNCHANGED <<legacy, hal>>
      BY <1>1, <1>6 DEF LoopCallback, Handover, LegacyHal
    <2>2. loop' = [pc |-> loop'.pc, cmd |-> loop'.cmd]
      BY <1>6 DEF LoopCallback
    <2> QED BY <1>2, <1>3, <2>1, <2>2 DEF Handover, Records
  <1>7. CASE LoopExit
    <2>1. legacy.started /\ loop.pc = "poll" /\ UNCHANGED legacy /\ binder.pc = "read"
      BY <1>1, <1>7 DEF LoopExit, Handover, LegacyHal
    <2>2. loop' = [loop EXCEPT !.pc = "tail"] /\ hal' = [hal EXCEPT !.exit = FALSE, !.done = TRUE]
      BY <1>7 DEF LoopExit
    <2> QED BY <1>2, <1>3, <2>1, <2>2 DEF Handover, Records
  <1>8. CASE LoopEnd
    <2>1. binder.pc # "read" /\ loop.pc = "tail" /\ loop' = NoLoop /\ UNCHANGED hal
          /\ legacy' = [legacy EXCEPT !.awaiting = FALSE]
      BY <1>8 DEF LoopEnd, LockFree
    <2>0. CASE ~legacy.awaiting
      <3>1. past' = [past EXCEPT !.abort = "loop"]
        BY <1>8, <2>0 DEF LoopEnd
      <3>2. past'.abort = "loop"
        BY <1>1, <3>1 DEF Past
      <3> QED BY <3>2
    <2> SUFFICES ASSUME legacy.awaiting PROVE Handover'
      BY <2>0
    <2>2. ~legacy.started
      BY <1>1, <2>1 DEF Handover, LegacyHal
    <2>3. ~legacy'.started /\ ~legacy'.awaiting /\ legacy'.cb = legacy.cb
      BY <1>1, <2>1, <2>2 DEF LegacyHal
    <2> QED BY <1>2, <1>3, <2>1, <2>2, <2>3, Nothing DEF Handover, Records
  <1>9. CASE LoopHangup
    <2>1. loop.pc = "poll" /\ loop' = [loop EXCEPT !.pc = "tail"] /\ UNCHANGED <<legacy, hal>>
      BY <1>9 DEF LoopHangup
    <2>2. legacy.started
      BY <1>1, <2>1 DEF Handover, LegacyHal
    <2>3. past'.hup
      <3>1. Failed \in Past /\ past' = [Failed EXCEPT !.hup = TRUE]
        BY <1>1, <1>9, PastKeeps DEF LoopHangup
      <3> QED BY <3>1 DEF Past
    <2> QED BY <1>2, <1>3, <2>1, <2>2, <2>3 DEF Handover, Records
  <1> QED BY <1>4, <1>5, <1>6, <1>7, <1>8, <1>9 DEF LoopStep

\* Every step keeps the handover.
LEMMA HandoverStep ==
    ASSUME WifiInv, HandoverInv, Next
    PROVE  HandoverInv'
  <1>1. CASE Restart
    <2>1. legacy' = NoLegacy /\ hal' = NoHal /\ binder' = Idle /\ loop' = NoLoop
      BY <1>1 DEF Restart
    <2> QED BY <2>1, Nothing DEF HandoverInv, Handover, Records
  <1>2. CASE past.abort = "no" /\ (Call \/ BinderStep \/ DriverEvent \/ LoopStep \/ LoopHangup)
    <2>1. Handover
      BY <1>2 DEF HandoverInv
    <2>2. CASE Call
      BY <1>2, <2>1, <2>2, HandoverCalls, HandoverRssi, HandoverStop DEF Call, HandoverInv
    <2>3. CASE BinderStep
      BY <1>2, <2>1, <2>3, HandoverEnd, HandoverStart DEF BinderStep, HandoverInv
    <2>4. CASE DriverEvent \/ LoopStep \/ LoopHangup
      BY <1>2, <2>1, <2>4, HandoverLoop DEF HandoverInv
    <2> QED BY <1>2, <2>2, <2>3, <2>4
  <1> QED BY <1>1, <1>2 DEF Next

\* A loop ends for a stop or a hangup, and nothing of the library is left after a stop.
THEOREM HandoverInvariant == Spec => []HandoverInv
  <1>1. Init => HandoverInv
    BY Nothing DEF Init, HandoverInv, Handover, Records
  <1>2. HandoverInv /\ UNCHANGED vars => HandoverInv'
    BY DEF HandoverInv, Handover, Records, vars
  <1>3. WifiInv /\ HandoverInv /\ [Next]_vars => HandoverInv'
    BY <1>2, HandoverStep
  <1> QED BY <1>1, <1>3, WifiInvariant, PTL DEF Spec

-----------------------------------------------------------------------------
\* Monitors

\* The command of the monitor that is registered, and the one in a callback; 0 for none.
Monitored == IF hal.cmds = <<>> THEN 0 ELSE hal.cmds[1].cmd
InCallback == IF loop.pc = "lock" THEN loop.cmd ELSE 0

\* The references of a command.
Held(c, monitored, running) ==
    (IF monitored = c THEN 1 ELSE 0) + (IF running = c THEN 1 ELSE 0)

Quiet == hal.cmds = <<>> /\ hal.cbs = <<>> /\ legacy.cb = 0
Watching(c) == /\ \E id \in RequestId : hal.cmds = <<[id |-> id, cmd |-> c]>>
               /\ hal.cbs = <<c>> /\ legacy.cb # 0

\* There is one monitor at most, and its command's references are exact.
Monitors ==
    /\ Quiet \/ \E c \in 1 .. past.calls : Watching(c)
    /\ InCallback \in 0 .. past.calls
    /\ refs \in [1 .. MaxCalls -> Nat]
    /\ \A c \in 1 .. MaxCalls : refs[c] = Held(c, Monitored, InCallback)

\* A STA interface is there with its object, which is what keeps the callback of a monitor.
MonitorsInv ==
    /\ past.calls <= MaxCalls
    /\ chip.ifaces["STA"] > 0 => chip.sta # 0
    /\ past.abort = "no" /\ ~past.strayId => Monitors

\* What a mode allows: one STA interface, and a NAN interface with Wi-Fi Aware only.
LEMMA ModeAllows ==
    ASSUME NEW b, NEW m, NEW f \in [IfaceType -> Nat], Fits(b, f, m)
    PROVE  /\ f["STA"] <= 1
           /\ f["NAN"] > 0 => b.aware
  <1>1. PICK combo \in Combinations(b, m) : \A t \in IfaceType : f[t] <= combo[t]
    BY DEF Fits
  <1>2. PICK pick : /\ combo = [t \in IfaceType |-> Cardinality({l \in Limits(b, m) : pick[l] = t})]
                    /\ \A l \in Limits(b, m) : pick[l] \in l
    BY DEF Combinations
  <1>3. \A l \in Limits(b, m) : l \in {{"STA"}, P2pOrNan(b), {"AP"}}
    <2>1. CASE m = "V1Sta"
      BY <2>1 DEF Limits
    <2>2. CASE m = "V1Ap"
      BY <2>2 DEF Limits
    <2>3. CASE m = "V2"
      BY <2>3 DEF Limits
    <2>4. CASE m \notin {"V1Sta", "V1Ap", "V2"}
      BY <2>4 DEF Limits
    <2> QED BY <2>1, <2>2, <2>3, <2>4
  <1>4. "STA" \in IfaceType /\ "NAN" \in IfaceType
    BY DEF IfaceType
  <1>5. f["STA"] <= 1
    <2> DEFINE S == {l \in Limits(b, m) : pick[l] = "STA"}
    <2>1. S \subseteq {{"STA"}}
      BY <1>2, <1>3 DEF P2pOrNan
    <2> HIDE DEF S
    <2>2. Cardinality(S) <= 1 /\ IsFiniteSet(S)
      <3> DEFINE T == {{"STA"}}
      <3>1. IsFiniteSet(T) /\ Cardinality(T) = 1 /\ S \in SUBSET T
        BY <2>1, FS_Singleton
      <3> HIDE DEF T
      <3> QED BY <3>1, FS_Subset
    <2>3. combo["STA"] = Cardinality(S) /\ f["STA"] <= combo["STA"]
      BY <1>1, <1>2, <1>4 DEF S
    <2>4. Cardinality(S) \in Nat /\ f["STA"] \in Nat
      BY <1>4, <2>2, FS_CardinalityType
    <2> QED BY <2>2, <2>3, <2>4
  <1>6. ASSUME ~b.aware PROVE ~(f["NAN"] > 0)
    <2> DEFINE S == {l \in Limits(b, m) : pick[l] = "NAN"}
    <2>1. S = {}
      BY <1>2, <1>3, <1>6 DEF P2pOrNan
    <2>2. combo["NAN"] = Cardinality(S) /\ f["NAN"] <= combo["NAN"]
      BY <1>1, <1>2, <1>4
    <2>3. f["NAN"] \in Nat
      BY <1>4
    <2>4. Cardinality(S) = 0
      BY <2>1, FS_EmptySet
    <2> HIDE DEF S
    <2> QED BY <2>2, <2>3, <2>4
  <1> QED BY <1>5, <1>6

\* Exact references are what RefsExact says.
LEMMA ExactRefs ==
    ASSUME MonitorsInv
    PROVE  RefsExact
  <1> SUFFICES ASSUME ~past.strayId, past.abort = "no"
               PROVE  /\ hal.cbs = [k \in DOMAIN hal.cmds |-> hal.cmds[k].cmd]
                      /\ legacy.cb # 0 <=> hal.cmds # <<>>
                      /\ \A c \in DOMAIN refs :
                            refs[c] = Cardinality({k \in DOMAIN hal.cmds : hal.cmds[k].cmd = c})
                                      + (IF loop.pc = "lock" /\ loop.cmd = c THEN 1 ELSE 0)
    BY DEF RefsExact
  <1>1. Monitors
    BY DEF MonitorsInv
  <1>2. ASSUME NEW c \in DOMAIN refs
        PROVE  /\ c # 0
               /\ refs[c] = (IF Monitored = c THEN 1 ELSE 0)
                            + (IF loop.pc = "lock" /\ loop.cmd = c THEN 1 ELSE 0)
    <2>1. c \in 1 .. MaxCalls /\ c # 0
      BY <1>1 DEF Monitors
    <2>2. refs[c] = Held(c, Monitored, InCallback)
      BY <1>1, <2>1 DEF Monitors
    <2> QED BY <2>1, <2>2 DEF Held, InCallback
  <1>3. CASE Quiet
    <2>1. hal.cmds = <<>> /\ hal.cbs = <<>> /\ legacy.cb = 0 /\ Monitored = 0
      BY <1>3 DEF Quiet, Monitored
    <2>2. hal.cbs = [k \in DOMAIN hal.cmds |-> hal.cmds[k].cmd]
      BY <2>1
    <2>3. \A c : {k \in DOMAIN hal.cmds : hal.cmds[k].cmd = c} = {}
      BY <2>1
    <2>4. \A c : Cardinality({k \in DOMAIN hal.cmds : hal.cmds[k].cmd = c}) = 0
      BY <2>3, FS_EmptySet
    <2> QED BY <1>2, <2>1, <2>2, <2>4
  <1>4. ASSUME NEW w \in 1 .. past.calls, Watching(w) PROVE
            /\ hal.cbs = [k \in DOMAIN hal.cmds |-> hal.cmds[k].cmd]
            /\ legacy.cb # 0 <=> hal.cmds # <<>>
            /\ \A c \in DOMAIN refs :
                  refs[c] = Cardinality({k \in DOMAIN hal.cmds : hal.cmds[k].cmd = c})
                            + (IF loop.pc = "lock" /\ loop.cmd = c THEN 1 ELSE 0)
    <2>1. PICK id \in RequestId : hal.cmds = <<[id |-> id, cmd |-> w]>>
      BY <1>4 DEF Watching
    <2>2. /\ hal.cmds # <<>> /\ DOMAIN hal.cmds = {1} /\ hal.cmds[1].cmd = w
          /\ legacy.cb # 0 /\ hal.cbs = <<w>> /\ Monitored = w
      BY <1>4, <2>1 DEF Watching, Monitored
    <2>3. hal.cbs = [k \in DOMAIN hal.cmds |-> hal.cmds[k].cmd]
      BY <2>2
    <2>4. ASSUME NEW c
          PROVE  Cardinality({k \in DOMAIN hal.cmds : hal.cmds[k].cmd = c})
                 = IF Monitored = c THEN 1 ELSE 0
      <3>1. CASE w = c
        <4>1. {k \in DOMAIN hal.cmds : hal.cmds[k].cmd = c} = {1}
          BY <2>2, <3>1
        <4> QED BY <2>2, <3>1, <4>1, FS_Singleton
      <3>2. CASE w # c
        <4>1. {k \in DOMAIN hal.cmds : hal.cmds[k].cmd = c} = {}
          BY <2>2, <3>2
        <4> QED BY <2>2, <3>2, <4>1, FS_EmptySet
      <3> QED BY <3>1, <3>2
    <2>5. \A c \in DOMAIN refs :
             refs[c] = Cardinality({k \in DOMAIN hal.cmds : hal.cmds[k].cmd = c})
                       + (IF loop.pc = "lock" /\ loop.cmd = c THEN 1 ELSE 0)
      BY <1>2, <2>4
    <2> QED BY <2>2, <2>3, <2>5
  <1> QED BY <1>1, <1>3, <1>4 DEF Monitors

\* Every step counts calls within the bound and forgets no stop with a wrong id or -1.
LEMMA PastGrows ==
    ASSUME WifiInv, WifiInv', past.abort = "no", past.calls <= MaxCalls,
           Call \/ BinderStep \/ DriverEvent \/ LoopStep \/ LoopHangup
    PROVE  /\ past'.calls <= MaxCalls /\ past.calls <= past'.calls
           /\ past'.calls \in Nat /\ past.calls \in Nat
           /\ past.strayId => past'.strayId
  <1>1. past \in Past /\ past' \in Past /\ past.calls \in Nat /\ past'.calls \in Nat
    BY DEF WifiInv, Typed, Past
  <1> DEFINE c == Counted
             f == Failed
  <1>2. /\ c \in Past /\ c.calls = past.calls + 1 /\ c.strayId = past.strayId
        /\ f \in Past /\ f.calls = past.calls /\ f.strayId = past.strayId
    BY <1>1, PastKeeps
  <1>3. CASE Call
    <2>1. Called
      BY <1>3 DEF Call, Start, Stop, Reconfigure, Configure, Create, Remove, StartRssi, StopRssi
    <2>2. past.calls + 1 <= MaxCalls
      BY <1>1, <2>1, WifiAssumption DEF Called
    <2>3. \/ past' = c \/ past' = [c EXCEPT !.faults = @ + 1]
          \/ past' = Crashes(c) \/ past' = [Crashes(c) EXCEPT !.botched = FALSE]
          \/ \E a : past' = [c EXCEPT !.abort = a]
          \/ past' = [c EXCEPT !.strayId = TRUE]
      <3>1. CASE Start \/ Stop
        BY <3>1 DEF Start, Stop
      <3>2. CASE \E m \in Mode : Reconfigure(m) \/ Configure(m)
        BY <3>2 DEF Reconfigure, Configure
      <3>3. CASE \E t \in IfaceType : Create(t) \/ Remove(t)
        BY <3>3 DEF Create, Remove
      <3>4. CASE \E id \in RequestId : StartRssi(id)
        BY <3>4 DEF StartRssi
      <3>5. CASE \E id \in RequestId : StopRssi(id)
        BY <3>5 DEF StopRssi
      <3> QED BY <1>3, <3>1, <3>2, <3>3, <3>4, <3>5 DEF Call
    <2> HIDE DEF c, f
    <2>4. /\ Crashes(c) \in Past /\ Crashes(c).calls = c.calls
          /\ Crashes(c).strayId = c.strayId
      BY <1>2 DEF Crashes, Past
    <2>5. past'.calls = c.calls /\ (c.strayId => past'.strayId)
      BY <1>2, <2>3, <2>4 DEF Past
    <2> QED BY <1>1, <1>2, <2>2, <2>5
  <1>4. CASE BinderStep \/ DriverEvent \/ LoopStep \/ LoopHangup
    <2>1. \/ past' = past \/ past' = f
          \/ past' = [past EXCEPT !.events = @ + 1]
          \/ \E a : past' = [past EXCEPT !.abort = a]
          \/ \E v : past' = [f EXCEPT !.late = TRUE, !.botched = v]
          \/ \E v : past' = [f EXCEPT !.botched = v]
          \/ \E v : past' = [past EXCEPT !.botched = v]
          \/ past' = [f EXCEPT !.hup = TRUE]
      <3>1. CASE CleanUp \/ StopDone \/ StopTimeout
        BY <3>1 DEF CleanUp, StopDone, StopTimeout
      <3>2. CASE Deinitialize \/ ConfigureFails \/ LegacyStart
        BY <3>2 DEF Deinitialize, ConfigureFails, LegacyStart
      <3>3. CASE DriverEvent \/ LoopStep \/ LoopHangup
        BY <3>3 DEF DriverEvent, LoopStep, LoopEvent, LoopCallback, LoopExit, LoopEnd, LoopHangup
      <3> QED BY <1>4, <3>1, <3>2, <3>3 DEF BinderStep
    <2> HIDE DEF c, f
    <2>2. past'.calls = past.calls /\ past'.strayId = past.strayId
      <3>1. CASE \/ past' = past \/ past' = [past EXCEPT !.events = @ + 1]
                 \/ \E a : past' = [past EXCEPT !.abort = a]
                 \/ \E v : past' = [past EXCEPT !.botched = v]
        BY <1>1, <3>1 DEF Past
      <3>2. CASE \/ past' = f \/ past' = [f EXCEPT !.hup = TRUE]
                 \/ \E v : past' = [f EXCEPT !.late = TRUE, !.botched = v]
                 \/ \E v : past' = [f EXCEPT !.botched = v]
        BY <1>2, <3>2 DEF Past
      <3> QED BY <2>1, <3>1, <3>2
    <2> QED BY <1>1, <2>2
  <1> QED BY <1>3, <1>4

\* A step that leaves the monitor, the callback and the references alone.
LEMMA MonitorsApart ==
    ASSUME Monitors, past.calls \in Nat, past'.calls \in Nat, past.calls <= past'.calls,
           hal'.cmds = hal.cmds, hal'.cbs = hal.cbs, legacy'.cb = legacy.cb,
           InCallback' = InCallback, UNCHANGED refs
    PROVE  Monitors'
  <1>1. Monitored' = Monitored
    BY DEF Monitored
  <1>2. Quiet' \/ \E c \in 1 .. past'.calls : Watching(c)'
    <2>1. CASE Quiet
      BY <2>1 DEF Quiet
    <2>2. ASSUME NEW c \in 1 .. past.calls, Watching(c) PROVE c \in 1 .. past'.calls /\ Watching(c)'
      BY <2>2 DEF Watching
    <2> QED BY <2>1, <2>2 DEF Monitors
  <1>3. InCallback' \in 0 .. past'.calls
    BY DEF Monitors
  <1>4. /\ refs' \in [1 .. MaxCalls -> Nat]
        /\ \A c \in 1 .. MaxCalls : refs'[c] = Held(c, Monitored', InCallback')
    BY <1>1 DEF Monitors
  <1> QED BY <1>2, <1>3, <1>4 DEF Monitors

\* Calls other than those about monitors, the end of a stop, and a start that succeeds.
LEMMA MonitorsElse ==
    ASSUME WifiInv, Handover, Monitors, past.abort = "no", past'.abort = "no",
           past.calls \in Nat, past'.calls \in Nat, past.calls <= past'.calls,
           \/ Start \/ Stop
           \/ \E m \in Mode : Reconfigure(m) \/ Configure(m)
           \/ \E t \in IfaceType : Create(t) \/ Remove(t)
           \/ StopDone \/ StopTimeout \/ Deinitialize \/ ConfigureFails \/ LegacyStart
           \/ DriverEvent \/ LoopExit \/ LoopHangup \/ LoopEnd
    PROVE  Monitors'
  <1>1. /\ legacy \in LegacyHal /\ Records /\ past \in Past /\ UnderWay
    BY DEF WifiInv, Typed, Handover
  <1>2. CASE \/ Start \/ \E m \in Mode : Configure(m)
             \/ \E t \in IfaceType : Create(t) \/ Remove(t)
    <2>1. UNCHANGED <<legacy, hal, loop, refs>>
      BY <1>2 DEF Start, Configure, Create, Remove
    <2> QED BY <2>1, MonitorsApart DEF InCallback
  <1>3. CASE Stop \/ \E m \in Mode : Reconfigure(m)
    <2>1. PICK op, m : LegacyStop(op, m)
      BY <1>3 DEF Stop, Reconfigure
    <2>2. UNCHANGED <<loop, refs>>
      BY <1>3 DEF Stop, Reconfigure
    <2>3. hal'.cmds = hal.cmds /\ hal'.cbs = hal.cbs /\ legacy'.cb = legacy.cb
      BY <1>1, <2>1 DEF LegacyStop, LegacyHal, Records
    <2> QED BY <2>2, <2>3, MonitorsApart DEF InCallback
  <1>4. CASE StopDone \/ StopTimeout \/ Deinitialize \/ ConfigureFails
    <2>1. UNCHANGED <<legacy, hal, loop, refs>>
      BY <1>4 DEF StopDone, StopTimeout, Deinitialize, ConfigureFails
    <2> QED BY <2>1, MonitorsApart DEF InCallback
  <1>5. CASE LegacyStart
    <2>1. ~legacy.awaiting /\ ~legacy.started
      BY <1>1, <1>5 DEF LegacyStart, Past, UnderWay
    <2>2. hal = NoHal /\ legacy.cb = 0 /\ loop.pc = "none"
      BY <2>1 DEF Handover
    <2>3. /\ hal'.cmds = NoHal.cmds /\ hal'.cbs = NoHal.cbs /\ loop'.pc = "poll"
          /\ UNCHANGED refs /\ legacy'.cb = legacy.cb
      BY <1>1, <1>5, <2>1 DEF LegacyStart, NoHal, NoLoop, LegacyHal
    <2> QED BY <2>2, <2>3, MonitorsApart DEF InCallback
  <1>6. CASE DriverEvent
    <2>1. hal'.cmds = hal.cmds /\ hal'.cbs = hal.cbs /\ UNCHANGED <<legacy, loop, refs>>
      BY <1>1, <1>6 DEF DriverEvent, Records
    <2> QED BY <2>1, MonitorsApart DEF InCallback
  <1>7. CASE LoopExit
    <2>1. /\ hal'.cmds = hal.cmds /\ hal'.cbs = hal.cbs /\ UNCHANGED <<legacy, refs>>
          /\ loop.pc = "poll" /\ loop'.pc = "tail"
      BY <1>1, <1>7 DEF LoopExit, Records
    <2> QED BY <2>1, MonitorsApart DEF InCallback
  <1>8. CASE LoopEnd
    <2>1. UNCHANGED <<hal, refs>> /\ legacy'.cb = legacy.cb /\ loop.pc = "tail" /\ loop' = NoLoop
      BY <1>1, <1>8 DEF LoopEnd, LegacyHal
    <2>2. InCallback' = InCallback
      BY <2>1, Nothing DEF InCallback
    <2> QED BY <2>1, <2>2, MonitorsApart
  <1>9. CASE LoopHangup
    <2>1. /\ UNCHANGED <<legacy, hal, refs>> /\ loop.pc = "poll"
          /\ loop' = [loop EXCEPT !.pc = "tail"]
      BY <1>9 DEF LoopHangup
    <2>2. InCallback' = InCallback
      BY <1>1, <2>1 DEF InCallback, Records
    <2> QED BY <2>1, <2>2, MonitorsApart
  <1> QED BY <1>2, <1>3, <1>4, <1>5, <1>6, <1>7, <1>8, <1>9

\* Taking the only command out.
LEMMA WithoutOnly ==
    ASSUME NEW x, NEW id, x.id = id
    PROVE  Index(<<x>>, id) = 1 /\ Without(<<x>>, 1) = <<>>
  <1> DEFINE s == <<x>>
  <1>1. s \in Seq({x}) /\ Len(s) = 1 /\ DOMAIN s = {1} /\ s[1] = x
    OBVIOUS
  <1>2. Index(s, id) = 1
    BY <1>1 DEF Index
  <1>3. Without(s, 1) = <<>>
    <2>1. SubSeq(s, 1, 0) = <<>> /\ SubSeq(s, 2, 1) = <<>>
      BY <1>1
    <2> QED BY <1>1, <2>1 DEF Without
  <1> QED BY <1>2, <1>3

\* Starting a monitor.
LEMMA MonitorsStart ==
    ASSUME WifiInv, Handover, MonitorsInv, Monitors, past.abort = "no", past'.abort = "no",
           past'.calls \in Nat, past'.calls <= MaxCalls,
           NEW id \in RequestId, StartRssi(id)
    PROVE  Monitors'
  <1>1. /\ legacy \in LegacyHal /\ Records /\ past \in Past /\ past.calls \in Nat
        /\ chip \in Chip /\ chip.sta # 0
    BY DEF WifiInv, Typed, Handover, Past, MonitorsInv, StartRssi
  <1>0. PICK c \in Nat : c = past.calls + 1
    BY <1>1
  <1> DEFINE x == [id |-> id, cmd |-> c]
  <1>2. Quiet /\ UNCHANGED loop /\ legacy.cb = 0
    BY DEF StartRssi, Monitors, Watching
  <1>3. past'.calls = c
    <2> DEFINE p == Counted
    <2>1. p \in Past /\ p.calls = c
      BY <1>0, <1>1, PastKeeps
    <2>2. \/ past' = p \/ past' = [p EXCEPT !.faults = @ + 1]
          \/ past' = [p EXCEPT !.abort = "null"]
      BY DEF StartRssi
    <2> HIDE DEF p
    <2> QED BY <2>1, <2>2 DEF Past
  <1>4. Append(hal.cmds, x) = <<x>> /\ Append(hal.cbs, c) = <<c>>
    BY <1>2 DEF Quiet
  <1>5. legacy.started
    <2>1. ASSUME ~legacy.started PROVE FALSE
      <3>1. past' = [Counted EXCEPT !.abort = "null"]
        BY <2>1 DEF StartRssi
      <3> QED BY <1>1, <3>1, PastKeeps DEF Past
    <2> QED BY <2>1
  <1>6. CASE /\ legacy' = [legacy EXCEPT !.cb = chip.sta]
             /\ hal' = [hal EXCEPT !.cmds = <<x>>, !.cbs = <<c>>]
             /\ refs' = [refs EXCEPT ![c] = 1]
    <2>1. legacy'.cb # 0 /\ hal'.cmds = <<x>> /\ hal'.cbs = <<c>>
      BY <1>1, <1>6 DEF LegacyHal, Records
    <2>2. Watching(c)' /\ Monitored' = c
      BY <2>1 DEF Watching, Monitored
    <2>3. InCallback' = InCallback /\ InCallback \in 0 .. past.calls /\ Monitored = 0
      BY <1>2 DEF InCallback, Monitors, Monitored, Quiet
    <2>4. c \in 1 .. MaxCalls /\ c # InCallback /\ c \in 1 .. past'.calls
      BY <1>0, <1>1, <1>3, <2>3, WifiAssumption
    <2>5. refs' \in [1 .. MaxCalls -> Nat]
      BY <1>6 DEF Monitors
    <2>6. ASSUME NEW d \in 1 .. MaxCalls PROVE refs'[d] = Held(d, c, InCallback)
      <3>1. refs[d] = Held(d, 0, InCallback)
        BY <2>3 DEF Monitors
      <3>2. CASE d = c
        BY <1>6, <2>4, <3>2 DEF Monitors, Held
      <3>3. CASE d # c
        BY <1>6, <3>1, <3>3 DEF Monitors, Held
      <3> QED BY <3>2, <3>3
    <2>7. InCallback' \in 0 .. past'.calls
      BY <1>0, <1>1, <1>3, <2>3
    <2> QED BY <2>2, <2>3, <2>4, <2>5, <2>6, <2>7 DEF Monitors
  <1>7. CASE hal' = [hal EXCEPT !.cmds = Without(<<x>>, Index(<<x>>, id))] /\ UNCHANGED <<legacy, refs>>
    <2>1. Without(<<x>>, Index(<<x>>, id)) = <<>>
      BY WithoutOnly
    <2>2. hal'.cmds = hal.cmds /\ hal'.cbs = hal.cbs
      BY <1>1, <1>2, <1>7, <2>1 DEF Records, Quiet
    <2> QED BY <1>0, <1>1, <1>2, <1>3, <1>7, <2>2, MonitorsApart DEF InCallback
  <1> QED BY <1>0, <1>4, <1>5, <1>6, <1>7 DEF StartRssi

\* Stopping a monitor, with its id, which is not -1.
LEMMA MonitorsStop ==
    ASSUME WifiInv, Handover, Monitors, past.abort = "no", ~past'.strayId,
           past.calls \in Nat, past'.calls \in Nat, past.calls <= past'.calls,
           past.calls <= MaxCalls, NEW id \in RequestId, StopRssi(id)
    PROVE  Monitors' /\ past'.abort = "no"
  <1>1. legacy \in LegacyHal /\ Records /\ past \in Past
    BY DEF WifiInv, Typed, Handover
  <1>2. PICK w \in 1 .. past.calls : Watching(w)
    BY DEF StopRssi, Monitors, Quiet
  <1>3. PICK i \in RequestId : hal.cmds = <<[id |-> i, cmd |-> w]>>
    BY <1>2 DEF Watching
  <1> DEFINE x == [id |-> i, cmd |-> w]
  <1>4. hal.cbs = <<w>> /\ DOMAIN hal.cmds = {1} /\ hal.cmds[1] = x /\ Monitored = w
    BY <1>2, <1>3 DEF Watching, Monitored
  <1>5. id # AnyId /\ ~(\A k \in DOMAIN hal.cmds : hal.cmds[k].id # id)
    <2>1. Counted \in Past
      BY <1>1, PastKeeps
    <2>2. [Counted EXCEPT !.strayId = TRUE].strayId
      BY <2>1 DEF Past
    <2> QED BY <2>2 DEF StopRssi
  <1>6. i = id
    BY <1>4, <1>5
  <1>7. Index(hal.cmds, id) = 1 /\ Without(hal.cmds, 1) = <<>>
    BY <1>3, <1>6, WithoutOnly
  <1>8. /\ legacy' = [legacy EXCEPT !.cb = 0] /\ UNCHANGED loop
        /\ hal' = [hal EXCEPT !.cmds = <<>>, !.cbs = Tail(hal.cbs)]
        /\ refs' = [refs EXCEPT ![w] = IF refs[w] = 0 THEN 0 ELSE refs[w] - 1]
        /\ past' = [Counted EXCEPT !.abort = IF refs[w] = 0 THEN "freed" ELSE Counted.abort]
    <2>1. hal.cmds[1].cmd = w /\ hal.cbs # <<>>
      BY <1>4
    <2> HIDE DEF x
    <2> QED BY <1>4, <1>5, <1>7, <2>1 DEF StopRssi
  <1>9. Tail(hal.cbs) = <<>>
    BY <1>4
  <1>10. Quiet' /\ Monitored' = 0
    BY <1>1, <1>8, <1>9 DEF Quiet, Monitored, LegacyHal, Records
  <1>11. InCallback' = InCallback /\ InCallback \in 0 .. past'.calls
    BY <1>8 DEF InCallback, Monitors
  <1>12. w \in 1 .. MaxCalls /\ refs \in [1 .. MaxCalls -> Nat] /\ w # 0
    BY WifiAssumption DEF Monitors
  <1>13. /\ refs[w] = Held(w, w, InCallback)
         /\ \A d \in 1 .. MaxCalls : refs[d] = Held(d, w, InCallback)
    BY <1>4, <1>12 DEF Monitors
  <1>14. refs[w] > 0 /\ refs[w] \in Nat /\ refs[w] - 1 \in Nat
    BY <1>12, <1>13 DEF Held
  <1>15. past'.abort = "no"
    <2> DEFINE p == Counted
    <2>1. p \in Past /\ p.abort = "no"
      BY <1>1, PastKeeps
    <2>2. past' = [p EXCEPT !.abort = p.abort]
      BY <1>8, <1>14
    <2> HIDE DEF p
    <2> QED BY <2>1, <2>2 DEF Past
  <1>16. ASSUME NEW d \in 1 .. MaxCalls PROVE refs'[d] = Held(d, 0, InCallback)
    <2>1. CASE d = w
      BY <1>8, <1>12, <1>13, <1>14, <2>1 DEF Held
    <2>2. CASE d # w
      BY <1>8, <1>12, <1>13, <2>2 DEF Held
    <2> QED BY <2>1, <2>2
  <1>17. refs' \in [1 .. MaxCalls -> Nat]
    BY <1>8, <1>12, <1>14
  <1> QED BY <1>10, <1>11, <1>15, <1>16, <1>17 DEF Monitors

\* A callback begins: the command is referenced once more, and is not freed yet.
LEMMA MonitorsEvent ==
    ASSUME WifiInv, Handover, Monitors, past.abort = "no", past.calls \in Nat,
           past.calls <= MaxCalls, LoopEvent
    PROVE  Monitors' /\ past'.abort = "no"
  <1>1. Records /\ past \in Past /\ loop.pc = "poll" /\ UNCHANGED legacy
    BY DEF WifiInv, Typed, Handover, LoopEvent
  <1>2. hal'.cmds = hal.cmds /\ hal'.cbs = hal.cbs
    BY <1>1 DEF LoopEvent, Records
  <1>3. CASE hal.cbs = <<>>
    <2>1. UNCHANGED <<refs, loop, past>>
      BY <1>3 DEF LoopEvent
    <2> QED BY <1>1, <1>2, <2>1, MonitorsApart DEF InCallback
  <1>4. ASSUME NEW w \in 1 .. past.calls, Watching(w) PROVE Monitors' /\ past'.abort = "no"
    <2>1. hal.cbs = <<w>> /\ Monitored = w /\ Monitored' = w /\ InCallback = 0
      BY <1>1, <1>2, <1>4 DEF Watching, Monitored, InCallback
    <2>2. Head(hal.cbs) = w /\ hal.cbs # <<>>
      BY <2>1
    <2>3. /\ refs' = [refs EXCEPT ![w] = refs[w] + 1]
          /\ loop' = [pc |-> "lock", cmd |-> w]
          /\ past' = [past EXCEPT !.abort = IF refs[w] = 0 THEN "freed" ELSE past.abort]
      BY <2>2 DEF LoopEvent
    <2>4. w \in 1 .. MaxCalls /\ w # 0
      BY WifiAssumption
    <2>5. /\ refs \in [1 .. MaxCalls -> Nat]
          /\ \A d \in 1 .. MaxCalls : refs[d] = Held(d, w, 0)
      BY <2>1 DEF Monitors
    <2>6. refs[w] = 1
      BY <2>4, <2>5 DEF Held
    <2>7. past'.abort = "no" /\ past'.calls = past.calls
      BY <1>1, <2>3, <2>6 DEF Past
    <2>8. InCallback' = w
      BY <2>3 DEF InCallback
    <2>9. ASSUME NEW d \in 1 .. MaxCalls PROVE refs'[d] = Held(d, w, w)
      <3>1. CASE d = w
        BY <2>3, <2>4, <2>5, <2>6, <3>1 DEF Held
      <3>2. CASE d # w
        BY <2>3, <2>4, <2>5, <3>2 DEF Held
      <3> QED BY <3>1, <3>2
    <2>10. refs' \in [1 .. MaxCalls -> Nat]
      BY <2>3, <2>4, <2>5, <2>6
    <2>11. Watching(w)'
      BY <1>1, <1>2, <1>4 DEF Watching
    <2>12. InCallback' \in 0 .. past'.calls /\ w \in 1 .. past'.calls
      BY <2>7, <2>8
    <2> QED BY <2>1, <2>7, <2>8, <2>9, <2>10, <2>11, <2>12 DEF Monitors
  <1> QED BY <1>3, <1>4 DEF Monitors, Quiet

\* A callback ends: its reference goes.
LEMMA MonitorsCallback ==
    ASSUME Monitors, past.calls \in Nat, past.calls <= MaxCalls, LoopCallback
    PROVE  Monitors'
  <1>1. UNCHANGED <<hal, legacy, past>> /\ InCallback = loop.cmd /\ InCallback' = 0
    BY DEF LoopCallback, InCallback
  <1>2. PICK w : w = loop.cmd /\ refs' = [refs EXCEPT ![w] = refs[w] - 1]
    BY DEF LoopCallback
  <1>3. /\ refs \in [1 .. MaxCalls -> Nat] /\ Monitored' = Monitored
        /\ \A d \in 1 .. MaxCalls : refs[d] = Held(d, Monitored, w)
    BY <1>1, <1>2 DEF Monitors, Monitored
  <1>4. ASSUME NEW d \in 1 .. MaxCalls
        PROVE  refs'[d] = Held(d, Monitored, 0) /\ refs'[d] \in Nat
    <2>1. d # 0 /\ refs[d] = Held(d, Monitored, w)
      BY <1>3
    <2>2. CASE d = w
      <3>1. refs'[d] = refs[d] - 1
        BY <1>2, <1>3, <2>2
      <3>2. Held(d, Monitored, w) = Held(d, Monitored, 0) + 1 /\ Held(d, Monitored, 0) \in Nat
        BY <2>1, <2>2 DEF Held
      <3> QED BY <2>1, <3>1, <3>2
    <2>3. CASE d # w
      <3>1. refs'[d] = refs[d]
        BY <1>2, <1>3, <2>3
      <3>2. Held(d, Monitored, w) = Held(d, Monitored, 0) /\ Held(d, Monitored, 0) \in Nat
        BY <2>1, <2>3 DEF Held
      <3> QED BY <2>1, <3>1, <3>2
    <2> QED BY <2>2, <2>3
  <1>5. refs' \in [1 .. MaxCalls -> Nat]
    <2>1. refs' = [d \in 1 .. MaxCalls |-> refs'[d]]
      BY <1>2, <1>3
    <2> QED BY <1>4, <2>1
  <1>6. Quiet' \/ \E c \in 1 .. past'.calls : Watching(c)'
    <2>1. CASE Quiet
      BY <1>1, <2>1 DEF Quiet
    <2>2. ASSUME NEW c \in 1 .. past.calls, Watching(c) PROVE c \in 1 .. past'.calls /\ Watching(c)'
      BY <1>1, <2>2 DEF Watching
    <2> QED BY <2>1, <2>2 DEF Monitors
  <1>7. InCallback' \in 0 .. past'.calls
    BY <1>1
  <1> QED BY <1>1, <1>3, <1>4, <1>5, <1>6, <1>7 DEF Monitors

\* The library releases its commands, when no callback is under way.
LEMMA MonitorsCleanUp ==
    ASSUME WifiInv, Handover, Monitors, past.abort = "no", past.calls \in Nat,
           past.calls <= MaxCalls, CleanUp
    PROVE  Monitors' /\ past'.abort = "no"
  <1>1. Records /\ past \in Past /\ legacy \in LegacyHal /\ binder.pc = "read" /\ hal.done
    BY DEF WifiInv, Typed, Handover, CleanUp
  <1>2. loop.pc = "tail" /\ UNCHANGED loop
    BY <1>1 DEF Handover, CleanUp, LegacyHal
  <1>3. InCallback = 0 /\ InCallback' = 0
    BY <1>2 DEF InCallback
  <1>4. Quiet' /\ Monitored' = 0
    BY <1>1, Nothing DEF CleanUp, Quiet, Monitored, LegacyHal
  <1> DEFINE commands == {hal.cmds[k].cmd : k \in DOMAIN hal.cmds}
  <1>5. /\ refs \in [1 .. MaxCalls -> Nat]
        /\ \A d \in 1 .. MaxCalls : refs[d] = Held(d, Monitored, 0)
    BY <1>3 DEF Monitors
  <1>6. /\ commands = IF Monitored = 0 THEN {} ELSE {Monitored}
        /\ Monitored \in 0 .. MaxCalls
    <2>1. CASE Quiet
      <3>1. hal.cmds = <<>> /\ Monitored = 0
        BY <2>1 DEF Quiet, Monitored
      <3>2. DOMAIN hal.cmds = {}
        BY <3>1
      <3> QED BY <3>1, <3>2, WifiAssumption
    <2>2. ASSUME NEW w \in 1 .. past.calls, Watching(w)
          PROVE  commands = {w} /\ Monitored = w /\ w \in 1 .. MaxCalls /\ w # 0
      <3>1. DOMAIN hal.cmds = {1} /\ hal.cmds[1].cmd = w /\ hal.cmds # <<>>
        BY <2>2 DEF Watching
      <3> QED BY <3>1, WifiAssumption DEF Monitored
    <2> HIDE DEF commands
    <2>3. ASSUME NEW w \in 1 .. past.calls, Watching(w)
          PROVE  /\ commands = IF Monitored = 0 THEN {} ELSE {Monitored}
                 /\ Monitored \in 0 .. MaxCalls
      BY <2>2, <2>3, WifiAssumption
    <2> QED BY <2>1, <2>3 DEF Monitors
  <1> HIDE DEF commands
  <1>7. /\ refs' = [c \in DOMAIN refs |-> IF c \in commands /\ refs[c] > 0 THEN refs[c] - 1 ELSE refs[c]]
        /\ past' = [past EXCEPT !.abort = IF \E c \in commands : refs[c] = 0 THEN "freed" ELSE past.abort]
    BY DEF CleanUp, commands
  <1>8. \A c \in commands : refs[c] = 1
    BY <1>5, <1>6 DEF Held
  <1>9. past'.abort = "no" /\ past'.calls = past.calls
    BY <1>1, <1>7, <1>8 DEF Past
  <1>10. ASSUME NEW d \in 1 .. MaxCalls PROVE refs'[d] = 0
    <2>1. CASE d \in commands
      BY <1>5, <1>7, <1>8, <2>1
    <2>2. CASE d \notin commands
      <3>1. d # Monitored /\ d # 0
        BY <1>6, <2>2
      <3> QED BY <1>5, <1>7, <2>2, <3>1 DEF Held
    <2> QED BY <2>1, <2>2
  <1>11. ASSUME NEW d \in 1 .. MaxCalls PROVE refs'[d] = Held(d, 0, 0)
    BY <1>10 DEF Held
  <1>12. refs' \in [1 .. MaxCalls -> Nat]
    <2>1. refs' = [d \in 1 .. MaxCalls |-> refs'[d]]
      BY <1>5, <1>7
    <2> QED BY <1>10, <2>1
  <1>13. InCallback' \in 0 .. past'.calls
    BY <1>3, <1>9
  <1> QED BY <1>3, <1>4, <1>9, <1>11, <1>12, <1>13 DEF Monitors

\* The interface object: there is one STA interface at most, and it is kept until removed.
LEMMA StaKept ==
    ASSUME WifiInv, past.abort = "no", chip.ifaces["STA"] > 0 => chip.sta # 0,
           Call \/ BinderStep \/ DriverEvent \/ LoopStep \/ LoopHangup
    PROVE  chip'.ifaces["STA"] > 0 => chip'.sta # 0
  <1>1. /\ chip \in Chip /\ past.calls \in Nat /\ chip.ifaces \in [IfaceType -> Nat]
        /\ IfacesFit /\ UnderWay
    BY DEF WifiInv, Typed, Chip, Past
  <1>2. "STA" \in IfaceType
    BY DEF IfaceType
  <1>3. CASE UNCHANGED chip
    BY <1>3
  <1>4. CASE \/ chip' = [NoChip EXCEPT !.exists = TRUE]
             \/ Stop \/ \E m \in Mode : Reconfigure(m)
    <2>1. chip'.ifaces = Zero
      <3>1. CASE chip' = [NoChip EXCEPT !.exists = TRUE]
        BY <3>1, Constants DEF Chip
      <3>2. CASE Stop
        BY <3>2, Constants DEF Stop
      <3>3. CASE \E m \in Mode : Reconfigure(m)
        BY <1>1, <3>3, Constants DEF Reconfigure, Chip
      <3> QED BY <1>4, <3>1, <3>2, <3>3
    <2> QED BY <1>2, <2>1 DEF Zero
  <1>5. ASSUME NEW t \in IfaceType, Create(t) \/ Remove(t)
        PROVE  chip'.ifaces["STA"] > 0 => chip'.sta # 0
    <2>1. CASE t # "STA"
      <3>1. chip'.ifaces["STA"] = chip.ifaces["STA"] /\ chip'.sta = chip.sta
        BY <1>1, <1>2, <1>5, <2>1 DEF Create, Remove, Chip
      <3> QED BY <3>1
    <2>2. CASE t = "STA" /\ Create(t)
      <3>1. chip'.sta = past.calls + 1
        BY <1>1, <2>2 DEF Create, Chip
      <3> QED BY <1>1, <3>1
    <2>3. CASE t = "STA" /\ Remove(t)
      <3>1. chip'.ifaces["STA"] = chip.ifaces["STA"] - 1
        BY <1>1, <1>2, <2>3 DEF Remove, Chip
      <3>2. chip.ifaces["STA"] <= 1 /\ chip.ifaces["STA"] \in Nat
        BY <1>1, <1>2, ModeAllows DEF IfacesFit
      <3> QED BY <3>1, <3>2
    <2> QED BY <1>5, <2>1, <2>2, <2>3
  <1>6. CASE LegacyStart
    <2>1. chip'.ifaces = chip.ifaces /\ chip'.sta = chip.sta
      BY <1>1, <1>6 DEF LegacyStart, Chip
    <2> QED BY <2>1
  <1>7. CASE \/ \E m \in Mode : Configure(m)
             \/ \E id \in RequestId : StartRssi(id) \/ StopRssi(id)
             \/ CleanUp \/ StopDone \/ StopTimeout \/ Deinitialize \/ ConfigureFails
    <2>1. UNCHANGED chip
      BY <1>7 DEF Configure, StartRssi, StopRssi, CleanUp, StopDone, StopTimeout, Deinitialize,
                  ConfigureFails
    <2> QED BY <1>3, <2>1
  <1>8. CASE DriverEvent \/ LoopStep \/ LoopHangup
    <2>1. UNCHANGED chip
      BY <1>8 DEF DriverEvent, LoopStep, LoopEvent, LoopCallback, LoopExit, LoopEnd, LoopHangup
    <2> QED BY <1>3, <2>1
  <1>9. CASE Start
    BY <1>3, <1>4, <1>9 DEF Start
  <1> QED BY <1>4, <1>5, <1>6, <1>7, <1>8, <1>9 DEF Call, BinderStep

\* Every step keeps the references of the monitors exact.
LEMMA MonitorsStep ==
    ASSUME WifiInv, WifiInv', HandoverInv, MonitorsInv, Next
    PROVE  MonitorsInv'
  <1>1. CASE Restart
    <2>1. /\ chip' = NoChip /\ legacy' = NoLegacy /\ hal' = NoHal /\ loop' = NoLoop
          /\ refs' = [c \in 1 .. MaxCalls |-> 0]
          /\ past'.calls = past.calls /\ past.calls \in Nat
      BY <1>1 DEF Restart, WifiInv, Typed, Past
    <2>2. Quiet' /\ Monitored' = 0 /\ InCallback' = 0
      BY <2>1, Nothing DEF Quiet, Monitored, InCallback
    <2>3. ASSUME NEW d \in 1 .. MaxCalls PROVE refs'[d] = Held(d, 0, 0)
      BY <2>1 DEF Held
    <2>4. InCallback' \in 0 .. past'.calls /\ refs' \in [1 .. MaxCalls -> Nat]
      BY <2>1, <2>2
    <2>5. Monitors'
      BY <2>2, <2>3, <2>4 DEF Monitors
    <2>6. chip'.ifaces["STA"] = 0
      BY <2>1, Constants DEF Zero, IfaceType
    <2> QED BY <2>1, <2>5, <2>6 DEF MonitorsInv
  <1>2. CASE past.abort = "no" /\ (Call \/ BinderStep \/ DriverEvent \/ LoopStep \/ LoopHangup)
    <2>1. Handover /\ past.calls <= MaxCalls
      BY <1>2 DEF HandoverInv, MonitorsInv
    <2>2. /\ past'.calls <= MaxCalls /\ past.calls <= past'.calls
          /\ past'.calls \in Nat /\ past.calls \in Nat
          /\ past.strayId => past'.strayId
      BY <1>2, <2>1, PastGrows
    <2>3. chip'.ifaces["STA"] > 0 => chip'.sta # 0
      BY <1>2, StaKept DEF MonitorsInv
    <2>4. ASSUME past'.abort = "no", ~past'.strayId PROVE Monitors'
      <3>1. Monitors
        BY <1>2, <2>2, <2>4 DEF MonitorsInv
      <3>2. CASE Call
        BY <1>2, <2>1, <2>2, <2>4, <3>1, <3>2, MonitorsElse, MonitorsStart, MonitorsStop DEF Call
      <3>3. CASE BinderStep
        BY <1>2, <2>1, <2>2, <2>4, <3>1, <3>3, MonitorsElse, MonitorsCleanUp DEF BinderStep
      <3>4. CASE DriverEvent \/ LoopStep \/ LoopHangup
        BY <1>2, <2>1, <2>2, <2>4, <3>1, <3>4, MonitorsElse, MonitorsEvent, MonitorsCallback
           DEF LoopStep
      <3> QED BY <1>2, <3>2, <3>3, <3>4
    <2> QED BY <2>2, <2>3, <2>4 DEF MonitorsInv
  <1> QED BY <1>1, <1>2 DEF Next

\* There is one monitor at most, unless one was stopped with a wrong id or -1.
THEOREM MonitorsInvariant == Spec => []MonitorsInv
  <1>1. Init => MonitorsInv
    <2>1. SUFFICES ASSUME Init PROVE MonitorsInv
      OBVIOUS
    <2>2. /\ chip = NoChip /\ legacy = NoLegacy /\ hal = NoHal /\ loop = NoLoop
          /\ refs = [c \in 1 .. MaxCalls |-> 0] /\ past.calls = 0
      BY <2>1 DEF Init
    <2>3. Quiet /\ Monitored = 0 /\ InCallback = 0
      BY <2>2, Nothing DEF Quiet, Monitored, InCallback
    <2>4. ASSUME NEW d \in 1 .. MaxCalls PROVE refs[d] = Held(d, 0, 0)
      BY <2>2 DEF Held
    <2>5. InCallback \in 0 .. past.calls /\ refs \in [1 .. MaxCalls -> Nat]
      BY <2>2, <2>3
    <2>6. Monitors
      BY <2>3, <2>4, <2>5 DEF Monitors
    <2>7. chip.ifaces["STA"] = 0
      BY <2>2, Constants DEF Zero, IfaceType
    <2> QED BY <2>2, <2>6, <2>7, WifiAssumption DEF MonitorsInv
  <1>2. MonitorsInv /\ UNCHANGED vars => MonitorsInv'
    BY DEF MonitorsInv, Monitors, Quiet, Watching, Monitored, InCallback, vars
  <1>3. WifiInv /\ WifiInv' /\ HandoverInv /\ MonitorsInv /\ [Next]_vars => MonitorsInv'
    BY <1>2, MonitorsStep
  <1> QED BY <1>1, <1>3, WifiInvariant, HandoverInvariant, PTL DEF Spec

\* Every monitoring command is referenced once while it is registered and once by a callback
\* under way, so that stopping a monitor, an event and a stop of the library never free it too
\* early or leak it; unless a client has stopped a monitor with a wrong id
\* or with -1.
THEOREM RefsCorrect == Spec => []RefsExact
  <1>1. MonitorsInv => RefsExact
    BY ExactRefs
  <1> QED BY <1>1, MonitorsInvariant, PTL

-----------------------------------------------------------------------------
\* Aborts

\* A teardown meets a NAN interface only with Wi-Fi Aware.
LEMMA CrashKnown ==
    ASSUME WifiInv, NEW p \in Past, p.abort = "no"
    PROVE  Crashes(p).abort = "no" \/ (Crashes(p).abort = "nan" /\ build.aware)
  <1>1. chip.ifaces \in [IfaceType -> Nat] /\ Fits(build, chip.ifaces, chip.mode)
    BY DEF WifiInv, Typed, Chip, IfacesFit
  <1>2. chip.ifaces["NAN"] > 0 => build.aware
    BY <1>1, ModeAllows
  <1> QED BY <1>2 DEF Crashes, Past

\* How a call aborts.
LEMMA CallAborts ==
    ASSUME WifiInv, WifiInv', HandoverInv, MonitorsInv, past.abort = "no", Call
    PROVE  AbortsKnown'
  <1>1. /\ past \in Past /\ past' \in Past /\ chip.ifaces \in [IfaceType -> Nat]
        /\ IfacesFit /\ Settled /\ UNCHANGED build /\ legacy \in LegacyHal /\ chip \in Chip
    <2>1. UNCHANGED build
      BY DEF Call, Start, Stop, Reconfigure, Configure, Create, Remove, StartRssi, StopRssi
    <2> QED BY <2>1 DEF WifiInv, Typed, Chip
  <1> DEFINE c == Counted
  <1>2. /\ c \in Past /\ c.abort = "no" /\ c.botched = past.botched
        /\ c.strayId = past.strayId
    BY <1>1, PastKeeps
  <1>3. CASE past'.abort = "no"
    BY <1>3 DEF AbortsKnown
  <1>4. CASE \/ Start \/ Stop \/ \E m \in Mode : Reconfigure(m) \/ Configure(m)
             \/ \E t \in IfaceType : Create(t) \/ Remove(t)
    <2>1. \/ past' = c \/ past' = [c EXCEPT !.faults = @ + 1]
          \/ past' = Crashes(c) \/ past' = [Crashes(c) EXCEPT !.botched = FALSE]
      <3>1. CASE Start \/ Stop
        BY <3>1 DEF Start, Stop
      <3>2. CASE \E m \in Mode : Reconfigure(m) \/ Configure(m)
        BY <3>2 DEF Reconfigure, Configure
      <3>3. CASE \E t \in IfaceType : Create(t) \/ Remove(t)
        BY <3>3 DEF Create, Remove
      <3> QED BY <1>4, <3>1, <3>2, <3>3
    <2> HIDE DEF c
    <2>2. Crashes(c) \in Past
      BY <1>2, PastFields
    <2>3. past'.abort \in {"no", Crashes(c).abort}
      BY <1>2, <2>1, <2>2 DEF Past
    <2>4. past'.abort = "no" \/ (past'.abort = "nan" /\ build.aware)
      BY <1>2, <2>3, CrashKnown
    <2> QED BY <1>1, <2>4 DEF AbortsKnown
  <1>5. ASSUME NEW id \in RequestId, StartRssi(id), past'.abort # "no" PROVE AbortsKnown'
    <2>1. ~legacy.started /\ past' = [c EXCEPT !.abort = "null"]
      <3>1. \/ past' = c \/ past' = [c EXCEPT !.faults = @ + 1]
            \/ ~legacy.started /\ past' = [c EXCEPT !.abort = "null"]
        BY <1>5 DEF StartRssi
      <3> HIDE DEF c
      <3> QED BY <1>2, <1>5, <3>1 DEF Past
    <2>2. chip.ifaces["STA"] > 0 /\ binder.pc = "idle"
      BY <1>5 DEF StartRssi, Called
    <2>3. chip.mode # NoMode
      <3>1. ASSUME chip.mode = NoMode PROVE FALSE
        <4>1. chip.ifaces = Zero
          BY <1>1, <3>1, NoModeFits DEF IfacesFit
        <4> QED BY <2>2, <4>1 DEF Zero, IfaceType
      <3> QED BY <3>1
    <2>4. past.botched
      BY <1>1, <2>1, <2>2, <2>3 DEF Settled
    <2> HIDE DEF c
    <2>5. past'.abort = "null" /\ past'.botched
      BY <1>2, <2>1, <2>4 DEF Past
    <2> QED BY <2>5 DEF AbortsKnown
  <1>6. ASSUME NEW id \in RequestId, StopRssi(id), past'.abort # "no" PROVE AbortsKnown'
    <2>1. past'.abort = "freed"
      <3>1. \/ \E a \in {c.abort, "freed"} : past' = [c EXCEPT !.abort = a]
            \/ past' = [c EXCEPT !.strayId = TRUE]
        BY <1>6 DEF StopRssi
      <3> HIDE DEF c
      <3> QED BY <1>2, <1>6, <3>1 DEF Past
    <2>2. ASSUME ~past'.strayId PROVE FALSE
      <3>1. Handover /\ past.calls <= MaxCalls
        BY DEF HandoverInv, MonitorsInv
      <3>2. /\ past.calls <= past'.calls /\ past'.calls \in Nat /\ past.calls \in Nat
            /\ ~past.strayId
        BY <2>2, <3>1, PastGrows
      <3>3. Monitors
        BY <3>2 DEF MonitorsInv
      <3> QED BY <1>6, <2>2, <3>1, <3>2, <3>3, MonitorsStop
    <2> QED BY <2>1, <2>2 DEF AbortsKnown
  <1> QED BY <1>3, <1>4, <1>5, <1>6 DEF Call

\* How the threads abort.
LEMMA ThreadAborts ==
    ASSUME WifiInv, WifiInv', HandoverInv, MonitorsInv, past.abort = "no",
           BinderStep \/ DriverEvent \/ LoopStep \/ LoopHangup
    PROVE  AbortsKnown'
  <1>1. /\ past \in Past /\ past' \in Past /\ legacy \in LegacyHal /\ Handover
        /\ past.calls \in Nat /\ past.calls <= MaxCalls
    BY DEF WifiInv, Typed, HandoverInv, MonitorsInv, Past
  <1>2. CASE past'.abort = "no"
    BY <1>2 DEF AbortsKnown
  <1>3. CASE CleanUp /\ past'.abort # "no"
    <2>1. past'.abort = "freed" /\ past'.strayId = past.strayId
      <3>1. \E a \in {past.abort, "freed"} : past' = [past EXCEPT !.abort = a]
        BY <1>3 DEF CleanUp
      <3> QED BY <1>1, <1>3, <3>1 DEF Past
    <2>2. past.strayId
      BY <1>1, <1>3, MonitorsCleanUp DEF MonitorsInv
    <2> QED BY <2>1, <2>2 DEF AbortsKnown
  <1>4. CASE LoopEvent /\ past'.abort # "no"
    <2>1. past'.abort = "freed" /\ past'.strayId = past.strayId
      <3>1. \/ past' = past
            \/ \E a \in {past.abort, "freed"} : past' = [past EXCEPT !.abort = a]
        BY <1>4 DEF LoopEvent
      <3> QED BY <1>1, <1>4, <3>1 DEF Past
    <2>2. past.strayId
      BY <1>1, <1>4, MonitorsEvent DEF MonitorsInv
    <2> QED BY <2>1, <2>2 DEF AbortsKnown
  <1>5. CASE LegacyStart /\ past'.abort # "no"
    <2>1. CASE legacy.awaiting
      <3>1. past' = [past EXCEPT !.abort = "check"] /\ binder.pc = "tail"
        BY <1>5, <2>1 DEF LegacyStart
      <3>2. past.late
        BY <1>1, <2>1, <3>1 DEF Handover
      <3>3. past'.abort = "check" /\ past'.late
        BY <1>1, <3>1, <3>2 DEF Past
      <3> QED BY <3>3 DEF AbortsKnown
    <2>2. CASE ~legacy.awaiting
      <3>1. past' = [past EXCEPT !.botched = FALSE]
        BY <1>5, <2>2 DEF LegacyStart
      <3>2. past'.abort = "no"
        BY <1>1, <3>1 DEF Past
      <3> QED BY <1>5, <3>2
    <2> QED BY <2>1, <2>2
  <1>6. CASE LoopEnd /\ past'.abort # "no"
    <2>1. loop.pc = "tail" /\ binder.pc # "read"
      BY <1>6 DEF LoopEnd, LockFree
    <2>2. CASE legacy.awaiting
      <3>1. past' = [past EXCEPT !.abort = past.abort]
        BY <1>6, <2>2 DEF LoopEnd
      <3>2. past'.abort = "no"
        BY <1>1, <3>1 DEF Past
      <3> QED BY <1>6, <3>2
    <2>3. CASE ~legacy.awaiting
      <3>1. past.hup
        BY <1>1, <2>1, <2>3 DEF Handover, LegacyHal
      <3>2. past' = [past EXCEPT !.abort = "loop"]
        BY <1>6, <2>3 DEF LoopEnd
      <3>3. past'.abort = "loop" /\ past'.hup
        BY <1>1, <3>1, <3>2 DEF Past
      <3> QED BY <3>3 DEF AbortsKnown
    <2> QED BY <2>2, <2>3
  <1>7. CASE \/ StopDone \/ StopTimeout \/ Deinitialize \/ ConfigureFails \/ DriverEvent
             \/ LoopCallback \/ LoopExit \/ LoopHangup
    <2> DEFINE f == Failed
    <2>1. f \in Past /\ f.abort = "no"
      BY <1>1, PastKeeps
    <2>2. \/ past' = past \/ past' = f
          \/ past' = [past EXCEPT !.events = @ + 1]
          \/ \E v : past' = [f EXCEPT !.late = TRUE, !.botched = v]
          \/ \E v : past' = [f EXCEPT !.botched = v]
          \/ past' = [f EXCEPT !.hup = TRUE]
      BY <1>7 DEF StopDone, StopTimeout, Deinitialize, ConfigureFails, DriverEvent, LoopCallback,
                  LoopExit, LoopHangup
    <2> HIDE DEF f
    <2>3. past'.abort = "no"
      BY <1>1, <2>1, <2>2 DEF Past
    <2> QED BY <1>2, <2>3
  <1> QED BY <1>2, <1>3, <1>4, <1>5, <1>6, <1>7 DEF BinderStep, LoopStep

\* The service aborts in the known ways only; in particular the event loop ends unasked only
\* for a hangup, a start meets an old loop only after a stop timed out, and no command is used
\* after it was freed unless a monitor was stopped with a wrong id or with -1.
THEOREM AbortsAreKnown == Spec => []AbortsKnown
  <1>1. Init => AbortsKnown
    BY DEF Init, AbortsKnown
  <1>2. ASSUME WifiInv, WifiInv', HandoverInv, MonitorsInv, AbortsKnown, [Next]_vars
        PROVE  AbortsKnown'
    <2>1. CASE Restart
      <3>1. past'.abort = "no"
        BY <1>2, <2>1 DEF Restart, WifiInv, Typed, Past
      <3> QED BY <3>1 DEF AbortsKnown
    <2>2. CASE past.abort = "no" /\ (Call \/ BinderStep \/ DriverEvent \/ LoopStep \/ LoopHangup)
      BY <1>2, <2>2, CallAborts, ThreadAborts
    <2>3. CASE UNCHANGED vars
      BY <1>2, <2>3 DEF AbortsKnown, vars
    <2> QED BY <1>2, <2>1, <2>2, <2>3 DEF Next
  <1> QED BY <1>1, <1>2, WifiInvariant, HandoverInvariant, MonitorsInvariant, PTL DEF Spec

=============================================================================
