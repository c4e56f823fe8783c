------------------------------ MODULE OpsMode ------------------------------
(***************************************************************************)
(* Who decides whether the server accepts articles: the administrator      *)
(* (POST /api/ops) and the watchdog, which measures load, disk and feed    *)
(* queue every interval.  The controller's methods each hold its lock, but *)
(* one watchdog tick is several of them: it checks that it is enabled and  *)
(* notes what it measured, takes a snapshot of the controller, and acts on *)
(* that snapshot.  Administrators act in between.                          *)
(***************************************************************************)
EXTENDS Integers, Gates

CONSTANTS
  Readings,         \* what can be measured: [load, disk, queue] (the load scaled to Nat)
  DiskThrottlePct,  \* thresholds of the configuration; 0 switches a rule off
  QueueThrottle,
  LoadThrottle,
  LoadPause,
  LoadGo,
  EnabledByConfig   \* watchdog.enabled

ASSUME ReadingsAssumption == Readings \subseteq [load : Nat, disk : 0..100, queue : Nat]
ASSUME ThresholdsAssumption ==
  /\ {DiskThrottlePct, QueueThrottle, LoadThrottle, LoadPause, LoadGo} \subseteq Nat
  /\ EnabledByConfig \in BOOLEAN

VARIABLES
  mode, changedBy,        \* the acceptance mode and who set it
  readersOn, peersOn,     \* the reader and peer switches
  watchdogOn,             \* the watchdog switch
  gauges,                 \* load, disk and queue as they are
  tick                    \* the watchdog's tick: its step, its reading, its snapshot

switches == <<readersOn, peersOn, watchdogOn>>
vars == <<mode, changedBy, switches, gauges, tick>>

Actors == {"startup", "admin", "watchdog"}
NoTick == [step |-> "idle"]

Init ==
  /\ mode = Running
  /\ changedBy = "startup"
  /\ readersOn = TRUE
  /\ peersOn = TRUE
  /\ watchdogOn = EnabledByConfig
  /\ gauges \in Readings
  /\ tick = NoTick

-----------------------------------------------------------------------------
(* The administrator. *)

\* Mutation of SetMode: the actor and the mode swapped.
SetModeSwapped(m, by) == mode' = by /\ changedBy' = m

SetMode(m, by) == mode' = m /\ changedBy' = by

\* Pause, Throttle and Go.
Order(m) ==
  /\ SetMode(m, "admin")
  /\ UNCHANGED <<switches, gauges, tick>>

SetReaders(on) ==
  /\ readersOn' = on
  /\ UNCHANGED <<mode, changedBy, peersOn, watchdogOn, gauges, tick>>

SetPeers(on) ==
  /\ peersOn' = on
  /\ UNCHANGED <<mode, changedBy, readersOn, watchdogOn, gauges, tick>>

SetWatchdogEnabled(on) ==
  /\ watchdogOn' = on
  /\ UNCHANGED <<mode, changedBy, readersOn, peersOn, gauges, tick>>

-----------------------------------------------------------------------------
(* The watchdog's tick. *)

Exceeds(value, threshold) == threshold > 0 /\ value >= threshold

NeedThrottle(r) ==
  \/ Exceeds(r.disk, DiskThrottlePct)
  \/ Exceeds(r.queue, QueueThrottle)
  \/ Exceeds(r.load, LoadThrottle)

NeedPause(r) == ~Exceeds(r.load, LoadThrottle) /\ Exceeds(r.load, LoadPause)

DiskOK(r)  == DiskThrottlePct = 0 \/ r.disk < DiskThrottlePct - 2
QueueOK(r) == QueueThrottle = 0 \/ r.queue < QueueThrottle \div 2
LoadOK(r)  == LoadGo = 0 \/ r.load <= LoadGo

\* Pausing a throttled server takes a LoadGo to compare with.
MayRelease(r) ==
  IF NeedPause(r) THEN LoadGo > 0 /\ r.load <= LoadGo /\ DiskOK(r) /\ QueueOK(r)
                  ELSE LoadOK(r) /\ DiskOK(r) /\ QueueOK(r)

Measure ==
  /\ tick.step = "idle"
  /\ watchdogOn /\ EnabledByConfig
  /\ tick' = [step |-> "look", reading |-> gauges]
  /\ UNCHANGED <<mode, changedBy, switches, gauges>>

Look ==
  /\ tick.step = "look"
  /\ tick' = [step |-> "act", reading |-> tick.reading, seen |-> mode, seenBy |-> changedBy]
  /\ UNCHANGED <<mode, changedBy, switches, gauges>>

\* Mutations of ManualHold: a throttle by the administrator does not count, or anything
\* he did last, a resume as well, counts.
PauseHolds(t)    == t.seenBy = "admin" /\ t.seen = Paused
AnyOrderHolds(t) == t.seenBy = "admin"

\* An order of the administrator that the snapshot shows stands.
ManualHold(t) == t.seenBy = "admin" /\ t.seen \in {Paused, Throttled}

\* Mutation of Release: a pause by the watchdog is not released.
ReleaseThrottle(t) ==
  IF t.seenBy = "watchdog" /\ t.seen = Throttled /\ MayRelease(t.reading) THEN {Running} ELSE {}

\* With nothing exceeded, the watchdog takes back what it did itself.
Release(t) ==
  IF t.seenBy = "watchdog" /\ t.seen # Running /\ MayRelease(t.reading) THEN {Running} ELSE {}

\* The mode the tick sets, if it sets one.
Decision(t) ==
  CASE NeedThrottle(t.reading) -> IF ManualHold(t) THEN {} ELSE {Throttled}
    [] ~NeedThrottle(t.reading) /\ NeedPause(t.reading) ->
         IF ManualHold(t) THEN {}
         ELSE IF t.seen = Throttled /\ t.seenBy = "watchdog"
              THEN IF MayRelease(t.reading) THEN {Running} ELSE {}
              ELSE {Paused}
    [] OTHER -> Release(t)

Act ==
  /\ tick.step = "act"
  /\ \/ Decision(tick) = {} /\ UNCHANGED <<mode, changedBy>>
     \/ \E m \in Decision(tick) : SetMode(m, "watchdog")
  /\ tick' = NoTick
  /\ UNCHANGED <<switches, gauges>>

-----------------------------------------------------------------------------
\* The controller lives in memory: a restart forgets every order.
Restart ==
  /\ SetMode(Running, "startup")
  /\ readersOn' = TRUE
  /\ peersOn' = TRUE
  /\ watchdogOn' = EnabledByConfig
  /\ tick' = NoTick
  /\ UNCHANGED gauges

Environment ==
  /\ gauges' \in Readings
  /\ UNCHANGED <<mode, changedBy, switches, tick>>

Admin ==
  \/ \E m \in AcceptanceModes : Order(m)
  \/ \E on \in BOOLEAN : SetReaders(on) \/ SetPeers(on) \/ SetWatchdogEnabled(on)

Tick == Measure \/ Look \/ Act

Next == Admin \/ Tick \/ Restart \/ Environment

Spec == Init /\ [][Next]_vars

\* The ticker goroutine keeps running.
FairSpec == Spec /\ WF_vars(Tick)

-----------------------------------------------------------------------------
(* Properties. *)

Ticks ==
  {NoTick} \cup [step : {"look"}, reading : Readings]
           \cup [step : {"act"}, reading : Readings, seen : AcceptanceModes, seenBy : Actors]

\* The controller's fields and the tick have their types.
TypeOK ==
  /\ mode \in AcceptanceModes
  /\ changedBy \in Actors
  /\ readersOn \in BOOLEAN /\ peersOn \in BOOLEAN /\ watchdogOn \in BOOLEAN
  /\ gauges \in Readings
  /\ tick \in Ticks

Held == changedBy = "admin" /\ mode \in {Paused, Throttled}

\* watchdog.go:95 "honor manual control", as far as it is true: the watchdog ends an
\* administrator's pause or throttle only when the order was given after the snapshot of the
\* tick in progress.
OverridesOnlyUnseenOrders ==
  [][Held /\ changedBy' = "watchdog" => tick.seen # mode \/ tick.seenBy # changedBy]_vars

NoMoreRestarts == <>[][~Restart]_vars
Calm(r) == ~NeedThrottle(r) /\ ~NeedPause(r) /\ MayRelease(r)

\* No server stays closed for nobody's sake: once the readings stay under the release
\* thresholds and the watchdog stays on, a closing by the watchdog ends.
ReleasedWhenCalm ==
  NoMoreRestarts /\ <>[](Calm(gauges) /\ watchdogOn)
    => []<>(changedBy = "watchdog" => mode = Running)

\* While a throttle threshold stays exceeded and the watchdog stays on, the server is
\* throttled again and again, whatever the administrator resumes, unless he holds it.
ThrottledUnderOverload ==
  NoMoreRestarts /\ <>[](NeedThrottle(gauges) /\ watchdogOn)
    => []<>(mode = Throttled \/ Held)
=============================================================================
