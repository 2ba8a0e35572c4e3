---------------------------- MODULE LatencyAlerts ----------------------------
\* LatencyMonitor, src/monitoring/latency_monitor.py: metrics, thresholds with a
\* cooldown, alerts, and the loop that checks them.
\*
\* The recording calls hold locks and await nothing, so that each is one action, as
\* is a turn of the loop.  A cancelled loop is at its sleep, where it breaks off.
\* Left out: counters, timers, percentiles, the statistics cache, which every sample
\* drops, the handlers, whose errors are caught, and the dashboard.
EXTENDS Integers, Sequences, FiniteSets

CONSTANTS
  Metrics,     \* metric names
  Values,      \* values recorded
  Warning, Critical,  \* levels of the thresholds
  Cooldown,    \* cooldown_seconds
  Window,      \* samples a mean is taken of
  Loops,       \* tasks of _check_loop
  MaxTime,     \* bound: instants explored
  MaxAlerts    \* bound: alerts kept; the code keeps 1000

VARIABLES
  time,
  samples,     \* the window of each latency metric
  gauges,      \* _gauges
  thresholds,  \* _thresholds: direction, last_triggered
  alerts,      \* _alerts
  isOn,        \* _running
  tasks,       \* what became of each task of _check_loop
  current,     \* _check_task
  fresh        \* history: the loop has just checked

alertVars == <<time, samples, gauges, thresholds, alerts, isOn, tasks, current, fresh>>

Never == -1
NoGauge == -1
NoTask == "none"
\* before is history: the value last had before.
Threshold == [direction : {"above", "below"}, last : Never..MaxTime, before : Never..MaxTime]
Empty == [m \in {} |-> 0]

Init ==
  /\ time = 0
  /\ samples = [m \in Metrics |-> << >>]
  /\ gauges = [m \in Metrics |-> NoGauge]
  /\ thresholds = Empty /\ alerts = << >>
  /\ isOn = FALSE /\ tasks = [l \in Loops |-> "none"] /\ current = NoTask
  /\ fresh = FALSE

\* record_latency: the window forgets its oldest sample.
RecordLatency(m, value) ==
  /\ samples' = [samples EXCEPT ![m] =
       LET all == Append(@, value) IN IF Len(all) > Window THEN Tail(all) ELSE all]
  /\ fresh' = FALSE
  /\ UNCHANGED <<time, gauges, thresholds, alerts, isOn, tasks, current>>

RecordGauge(m, value) ==
  /\ gauges' = [gauges EXCEPT ![m] = value] /\ fresh' = FALSE
  /\ UNCHANGED <<time, samples, thresholds, alerts, isOn, tasks, current>>

\* add_threshold forgets when the threshold it replaces was triggered.
AddThreshold(m, direction) ==
  /\ thresholds' = [o \in DOMAIN thresholds \union {m} |->
       IF o = m THEN [direction |-> direction, last |-> Never, before |-> Never] ELSE thresholds[o]]
  /\ fresh' = FALSE
  /\ UNCHANGED <<time, samples, gauges, alerts, isOn, tasks, current>>

RemoveThreshold(m) ==
  /\ m \in DOMAIN thresholds
  /\ thresholds' = [o \in DOMAIN thresholds \ {m} |-> thresholds[o]]
  /\ fresh' = FALSE
  /\ UNCHANGED <<time, samples, gauges, alerts, isOn, tasks, current>>

SumOf(list) == LET sum[n \in 0..Len(list)] == IF n = 0 THEN 0 ELSE sum[n - 1] + list[n]
               IN sum[Len(list)]

\* A value total/count beyond a level.  "below" thresholds have the higher level
\* for the warning, as create_throughput_threshold makes them.
Beyond(direction, total, count, level) ==
  IF direction = "above" THEN total >= level * count
  ELSE total <= (Warning + Critical - level) * count

Severity(direction, total, count) ==
  IF Beyond(direction, total, count, Critical) THEN "critical"
  ELSE IF Beyond(direction, total, count, Warning) THEN "warning" ELSE "none"

\* The latency of a metric is checked before its gauge.
LatencySeverity(m) ==
  IF samples[m] = << >> THEN "none"
  ELSE Severity(thresholds[m].direction, SumOf(samples[m]), Len(samples[m]))
GaugeSeverity(m) ==
  IF gauges[m] = NoGauge THEN "none" ELSE Severity(thresholds[m].direction, gauges[m], 1)

Cooling(m) == thresholds[m].last # Never /\ time - thresholds[m].last < Cooldown

\* check: nothing within the cooldown, not even at a worse level; the first of the
\* two values to be beyond starts the cooldown and silences the other.
Fires(m) == ~Cooling(m) /\ (LatencySeverity(m) # "none" \/ GaugeSeverity(m) # "none")

Raised(m) ==
  IF Fires(m)
  THEN << [metric |-> m, at |-> time, resolved |-> FALSE,
           severity |-> IF LatencySeverity(m) # "none" THEN LatencySeverity(m)
                        ELSE GaugeSeverity(m)] >>
  ELSE << >>

\* The deque forgets its oldest alerts.
Latest(list) ==
  IF Len(list) > MaxAlerts THEN SubSeq(list, Len(list) - MaxAlerts + 1, Len(list)) ELSE list

\* _check_thresholds, over the thresholds in some order.
CheckThresholds ==
  /\ \E order \in [1..Cardinality(DOMAIN thresholds) -> DOMAIN thresholds] :
       /\ \A m \in DOMAIN thresholds : \E i \in DOMAIN order : order[i] = m
       /\ alerts' = LET found[n \in 0..Len(order)] ==
                          IF n = 0 THEN alerts ELSE Latest(found[n - 1] \o Raised(order[n]))
                    IN found[Len(order)]
  /\ thresholds' = [m \in DOMAIN thresholds |->
       IF Fires(m) THEN [thresholds[m] EXCEPT !.last = time, !.before = thresholds[m].last]
       ELSE thresholds[m]]

\* resolve_alert finds the first alert of that instant.
Resolve(i) ==
  /\ i \in 1..Len(alerts) /\ \A j \in 1..(i - 1) : alerts[j].at # alerts[i].at
  /\ alerts' = [alerts EXCEPT ![i].resolved = TRUE]
  /\ fresh' = FALSE
  /\ UNCHANGED <<time, samples, gauges, thresholds, isOn, tasks, current>>

-----------------------------------------------------------------------------
Start ==
  /\ ~isOn /\ isOn' = TRUE
  /\ \E l \in Loops :
       /\ tasks[l] = "none" /\ current' = l
       /\ tasks' = [tasks EXCEPT ![l] = "created"]
  /\ UNCHANGED <<time, samples, gauges, thresholds, alerts, fresh>>

\* stop cancels the task it finds and waits for it; nothing is left to do after that.
Stop ==
  /\ isOn /\ isOn' = FALSE
  /\ tasks' = [tasks EXCEPT ![current] =
       CASE @ = "created" -> "ended" [] @ = "asleep" -> "cancelled" [] OTHER -> @]
  /\ UNCHANGED <<time, samples, gauges, thresholds, alerts, current, fresh>>

\* A turn: the first, or the one after a sleep.
LoopTurn(l) ==
  /\ tasks[l] \in {"created", "asleep"} /\ isOn
  /\ CheckThresholds
  /\ tasks' = [tasks EXCEPT ![l] = "asleep"]
  /\ fresh' = TRUE
  /\ UNCHANGED <<time, samples, gauges, isOn, current>>

LoopBreaks(l) ==
  /\ tasks[l] = "cancelled"
  /\ tasks' = [tasks EXCEPT ![l] = "ended"]
  /\ UNCHANGED <<time, samples, gauges, thresholds, alerts, isOn, current, fresh>>

Wait ==
  /\ time < MaxTime /\ time' = time + 1 /\ fresh' = FALSE
  /\ UNCHANGED <<samples, gauges, thresholds, alerts, isOn, tasks, current>>

Next ==
  \/ \E m \in Metrics, value \in Values : RecordLatency(m, value) \/ RecordGauge(m, value)
  \/ \E m \in Metrics, direction \in {"above", "below"} : AddThreshold(m, direction)
  \/ \E m \in Metrics : RemoveThreshold(m)
  \/ \E i \in 1..MaxAlerts : Resolve(i)
  \/ Start \/ Stop \/ Wait
  \/ \E l \in Loops : LoopTurn(l) \/ LoopBreaks(l)

-----------------------------------------------------------------------------
\* The shape of the monitor.
TypeOK ==
  /\ time \in 0..MaxTime /\ isOn \in BOOLEAN /\ fresh \in BOOLEAN
  /\ \A m \in Metrics : Len(samples[m]) <= Window
  /\ DOMAIN thresholds \subseteq Metrics
  /\ \A m \in DOMAIN thresholds : thresholds[m] \in Threshold
  /\ Len(alerts) <= MaxAlerts
  /\ tasks \in [Loops -> {"none", "created", "asleep", "cancelled", "ended"}]
  /\ current \in Loops \union {NoTask}

\* However starts and stops follow each other, a monitor that is on has one loop that
\* goes on.  What the loop has just found beyond its threshold was alerted within the
\* cooldown, and no sooner after the alert before, though the two values of a metric,
\* a replaced threshold and a full alert list all share that one cooldown.
AlertsAreTimely ==
  /\ isOn => {l \in Loops : tasks[l] \in {"created", "asleep"}} = {current}
  /\ \A m \in DOMAIN thresholds :
       LET t == thresholds[m]
       IN /\ t.before # Never => t.last - t.before >= Cooldown
          /\ fresh /\ (LatencySeverity(m) # "none" \/ GaugeSeverity(m) # "none") =>
               t.last # Never /\ (t.last = time \/ time - t.last < Cooldown)
=============================================================================
