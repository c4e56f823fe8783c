--------------------------- MODULE OpsModeProofs ---------------------------
(* OpsMode for every set of readings and all thresholds. *)
EXTENDS OpsMode, TLAPS

LEMMA InitTypeOK == Init => TypeOK
BY ThresholdsAssumption
DEF Init, TypeOK, Ticks, NoTick, Actors, AcceptanceModes, Running, Paused, Throttled

LEMMA DecisionIsMode == \A t : Decision(t) \subseteq AcceptanceModes
BY DEF Decision, Release, AcceptanceModes, Running, Paused, Throttled

LEMMA ActTypeOK == ASSUME TypeOK, Act PROVE TypeOK'
<1>1. mode' \in AcceptanceModes /\ changedBy' \in Actors
  BY DecisionIsMode DEF Act, SetMode, TypeOK, Actors
<1> QED
  BY <1>1 DEF Act, switches, TypeOK, Ticks

LEMMA NextTypeOK == TypeOK /\ [Next]_vars => TypeOK'
<1> SUFFICES ASSUME TypeOK, [Next]_vars
             PROVE  TypeOK'
  OBVIOUS
<1>1. ASSUME NEW m \in AcceptanceModes, Order(m)
      PROVE  TypeOK'
  BY <1>1 DEF Order, SetMode, switches, TypeOK, Actors
<1>2. ASSUME NEW on \in BOOLEAN, SetReaders(on) \/ SetPeers(on) \/ SetWatchdogEnabled(on)
      PROVE  TypeOK'
  BY <1>2 DEF SetReaders, SetPeers, SetWatchdogEnabled, TypeOK
<1>3. CASE Measure
  BY <1>3 DEF Measure, switches, TypeOK, Ticks
<1>4. CASE Look
  <2>1. tick \in [step : {"look"}, reading : Readings]
    BY <1>4 DEF Look, TypeOK, Ticks, NoTick
  <2> QED
    BY <1>4, <2>1 DEF Look, switches, TypeOK, Ticks
<1>5. CASE Act
  BY <1>5, ActTypeOK
<1>6. CASE Restart
  BY <1>6, ThresholdsAssumption
  DEF Restart, SetMode, TypeOK, Ticks, Actors, AcceptanceModes
<1>7. CASE Environment
  BY <1>7 DEF Environment, switches, TypeOK
<1>8. CASE UNCHANGED vars
  BY <1>8 DEF vars, switches, TypeOK
<1> QED
  BY <1>1, <1>2, <1>3, <1>4, <1>5, <1>6, <1>7, <1>8 DEF Next, Admin, Tick

\* Whatever is measured and ordered, the controller and the tick keep their types.
THEOREM OpsTypeCorrect == Spec => []TypeOK
<1>1. Init => TypeOK
  BY InitTypeOK
<1>2. TypeOK /\ [Next]_vars => TypeOK'
  BY NextTypeOK
<1> QED
  BY <1>1, <1>2, PTL DEF Spec

-----------------------------------------------------------------------------
\* A tick whose snapshot shows the administrator's pause or throttle sets no mode.
LEMMA SeenOrderStands ==
  ASSUME NEW t, ManualHold(t)
  PROVE  Decision(t) = {}
<1>1. t.seenBy # "watchdog"
  BY DEF ManualHold
<1> QED
  BY <1>1 DEF Decision, Release

\* Only a tick acts in the watchdog's name.
LEMMA OnlyActIsTheWatchdogs ==
  ASSUME [Next]_vars, changedBy # "watchdog", changedBy' = "watchdog"
  PROVE  Act /\ Decision(tick) # {}
<1>1. ASSUME NEW m \in AcceptanceModes
      PROVE  ~Order(m)
  BY DEF Order, SetMode
<1>2. ASSUME NEW on \in BOOLEAN
      PROVE  ~(SetReaders(on) \/ SetPeers(on) \/ SetWatchdogEnabled(on))
  BY DEF SetReaders, SetPeers, SetWatchdogEnabled
<1>3. ~Measure /\ ~Look /\ ~Restart /\ ~Environment /\ ~UNCHANGED vars
  BY DEF Measure, Look, Restart, SetMode, Environment, vars
<1>4. Act
  BY <1>1, <1>2, <1>3 DEF Next, Admin, Tick
<1> QED
  BY <1>4 DEF Act

\* The watchdog ends an administrator's pause or throttle only when the order was given
\* after the snapshot of the tick in progress (watchdog.go honours what it has seen).
THEOREM SeenOrdersHonoured == Spec => OverridesOnlyUnseenOrders
<1>1. [Next]_vars =>
        (Held /\ changedBy' = "watchdog" => tick.seen # mode \/ tick.seenBy # changedBy)
  <2> SUFFICES ASSUME [Next]_vars, Held, changedBy' = "watchdog",
                      tick.seen = mode, tick.seenBy = changedBy
               PROVE  FALSE
    OBVIOUS
  <2>1. ManualHold(tick)
    BY DEF Held, ManualHold
  <2>2. Decision(tick) = {}
    BY <2>1, SeenOrderStands
  <2>3. changedBy # "watchdog"
    BY DEF Held
  <2> QED
    BY <2>2, <2>3, OnlyActIsTheWatchdogs
<1> QED
  BY <1>1, PTL DEF Spec, OverridesOnlyUnseenOrders

-----------------------------------------------------------------------------
(* Thresholds under which the watchdog can only close. *)

Reading == [load : Nat, disk : 0..100, queue : Nat]

\* A release asks for a queue below half its threshold and a disk two points below its own.
LEMMA ReleaseLeavesRoom ==
  ASSUME NEW r \in Reading, MayRelease(r)
  PROVE  QueueThrottle # 1 /\ DiskThrottlePct \notin 1..2
<1>1. DiskOK(r) /\ QueueOK(r) /\ r.disk >= 0 /\ r.queue >= 0
  BY DEF MayRelease, Reading
<1>2. 1 \div 2 = 0
  OBVIOUS
<1> QED
  BY <1>1, <1>2, ThresholdsAssumption DEF DiskOK, QueueOK, Reading

\* The release conditions (watchdog.go:122-124) can be met exactly if the queue's threshold is
\* not 1 and the disk's is not 1 or 2: `qDepth < QueueThrottle/2` divides integers.  An idle
\* server meets them under all other thresholds, and ReleasedWhenCalm says it is opened.
THEOREM ReleaseHasRoom ==
  (\E r \in Reading : Calm(r)) <=> QueueThrottle # 1 /\ DiskThrottlePct \notin 1..2
<1>1. ASSUME NEW r \in Reading, Calm(r)
      PROVE  QueueThrottle # 1 /\ DiskThrottlePct \notin 1..2
  BY <1>1, ReleaseLeavesRoom DEF Calm
<1>2. ASSUME QueueThrottle # 1, DiskThrottlePct \notin 1..2
      PROVE  \E r \in Reading : Calm(r)
  <2> DEFINE idle == [load |-> 0, disk |-> 0, queue |-> 0]
  <2>1. idle \in Reading /\ idle.load = 0 /\ idle.disk = 0 /\ idle.queue = 0
    BY DEF Reading
  <2> HIDE DEF idle
  <2>2. ~NeedThrottle(idle) /\ ~NeedPause(idle)
    BY <2>1, ThresholdsAssumption DEF NeedThrottle, NeedPause, Exceeds
  <2>3. DiskOK(idle) /\ LoadOK(idle)
    BY <1>2, <2>1, ThresholdsAssumption DEF DiskOK, LoadOK
  <2>4. QueueOK(idle)
    BY <1>2, <2>1, ThresholdsAssumption DEF QueueOK
  <2> QED
    BY <2>1, <2>2, <2>3, <2>4 DEF Calm, MayRelease
<1> QED
  BY <1>1, <1>2

\* Under the thresholds that leave no room the watchdog closes and never opens: only an
\* administrator's Go, or a restart, ends what it did.
THEOREM ClosedForGood ==
  ASSUME QueueThrottle = 1 \/ DiskThrottlePct \in 1..2
  PROVE  Spec => [][mode # Running /\ mode' = Running => changedBy' # "watchdog"]_vars
<1> DEFINE Opens == mode # Running /\ mode' = Running /\ changedBy' = "watchdog"
<1>1. ASSUME TypeOK, [Next]_vars, Opens
      PROVE  FALSE
  <2>1. Act
    <3>1. ASSUME NEW m \in AcceptanceModes
          PROVE  ~Order(m)
      BY <1>1 DEF Order, SetMode
    <3>2. ASSUME NEW on \in BOOLEAN
          PROVE  ~(SetReaders(on) \/ SetPeers(on) \/ SetWatchdogEnabled(on))
      BY <1>1 DEF SetReaders, SetPeers, SetWatchdogEnabled
    <3>3. ~Measure /\ ~Look /\ ~Restart /\ ~Environment /\ ~UNCHANGED vars
      BY <1>1 DEF Measure, Look, Restart, SetMode, Environment, vars
    <3> QED
      BY <1>1, <3>1, <3>2, <3>3 DEF Next, Admin, Tick
  <2>2. Running \in Decision(tick)
    BY <1>1, <2>1 DEF Act, SetMode
  <2>3. MayRelease(tick.reading)
    BY <2>2 DEF Decision, Release, Running, Paused, Throttled
  <2>4. tick.reading \in Reading
    BY <1>1, <2>1, ReadingsAssumption DEF Act, TypeOK, Ticks, NoTick, Reading
  <2> QED
    BY <2>3, <2>4, ReleaseLeavesRoom
<1>2. TypeOK /\ [Next]_vars => (mode # Running /\ mode' = Running => changedBy' # "watchdog")
  BY <1>1
<1> QED
  BY <1>2, OpsTypeCorrect, PTL DEF Spec
=============================================================================
