----------------------------- MODULE RecoveryLoop -----------------------------
(***************************************************************************)
(* Recovery detection of crate experiment-runner: the polling loop at the  *)
(* end of run_file and the SignalStateMachine it feeds.  Every awaited     *)
(* call takes time; the time an observation is filed under was read before *)
(* the calls were made.  One clock stands for the two of the code, the     *)
(* monotonic one of the deadline and the sleeps and the system clock       *)
(* now_ns is read from: setting the latter meanwhile is left out.          *)
(***************************************************************************)
EXTENDS Integers

CONSTANTS
  Grace,    \* recovery_grace_sec
  Cooldown, \* cooldown_sec
  Period,   \* the sleep between two iterations (2 seconds)
  Services, \* how many /health endpoints are polled in turn
  MaxDelay  \* bound on the time an awaited HTTP call takes (the code sets none)

ASSUME ConstantsAssumption ==
  /\ Grace \in Nat /\ Cooldown \in Nat
  /\ Period \in Nat \ {0} /\ Services \in Nat \ {0}
  /\ MaxDelay \in Nat

Signal == {"Health", "LoadGen5xx", "PromErrorRate"}
Absent == -1   \* no entry in the map, no recovery timestamp

\* what Prometheus may answer: a rate below 0.1, a higher one, an empty result
\* (no 5xx was ever counted), something that is not a result (an error
\* status, a body that is not JSON), nothing at all
Answer == {"low", "high", "empty", "garbled", "unreachable"}

VARIABLES
  pc,         \* where the loop is
  now,        \* the time, 0 when the loop is entered
  available,  \* loadgen_available: the stats file existed before the loop
  polled,     \* the health endpoints that answered success in this iteration
  nowNs,      \* now_ns of the current iteration
  cleared,    \* cleared_at of the state machine
  recoveryTs, \* recovery_ts
  verdicts,   \* (history) the signals observed clear in this iteration
  since,      \* (history) now_ns of the first iteration of the current
              \* unbroken run of iterations that saw every required signal clear
  unclearAt,  \* (history) now_ns of the latest iteration in which a required
              \* signal was not clear
  seenAt,     \* (history) when each signal's current clear spell was first seen
  unfounded   \* (history) signals last observed clear with no data to say so

loopVars == <<pc, now, available, polled, nowNs>>
history  == <<verdicts, since, unclearAt, seenAt, unfounded>>
vars     == <<loopVars, cleared, recoveryTs, history>>

Required == {"Health", "PromErrorRate"} \cup IF available THEN {"LoadGen5xx"} ELSE {}
Deadline == Cooldown + Grace

-----------------------------------------------------------------------------
(* SignalStateMachine *)

\* or_insert keeps the time the spell began
Observe_Refreshes(map, sig, ts, ok) == [map EXCEPT ![sig] = IF ok THEN ts ELSE Absent]
Observe_NeverRemoves(map, sig, ts, ok) ==
  [map EXCEPT ![sig] = IF ok /\ @ = Absent THEN ts ELSE @]
Observe(map, sig, ts, ok) ==
  [map EXCEPT ![sig] = IF ~ok THEN Absent ELSE IF @ = Absent THEN ts ELSE @]

\* the latest clear time among the required signals
Last_First(map) == CHOOSE t \in {map[s] : s \in Required} : \A s \in Required : map[s] >= t
Last(map) == CHOOSE t \in {map[s] : s \in Required} : \A s \in Required : map[s] <= t

RecoveryTsIfHeld_Strict(map, ts) ==
  IF (\A s \in Required : map[s] # Absent) /\ ts - Last(map) > Grace THEN Last(map) ELSE Absent
RecoveryTsIfHeld(map, ts) ==
  IF (\A s \in Required : map[s] # Absent) /\ ts - Last(map) >= Grace THEN Last(map) ELSE Absent

\* an answer that holds no number counts as a rate of 0.0
Clean(answer) == answer \in {"low", "empty", "garbled"}

-----------------------------------------------------------------------------
Init ==
  /\ pc = "head"
  /\ now = 0
  /\ available \in BOOLEAN
  /\ polled = 0
  /\ nowNs = 0
  /\ cleared = [s \in Signal |-> Absent]
  /\ recoveryTs = Absent
  /\ verdicts = {}
  /\ since = Absent
  /\ unclearAt = Absent
  /\ seenAt = [s \in Signal |-> Absent]
  /\ unfounded = {}

\* `while Instant::now() < recovery_deadline`
Iterate ==
  /\ pc = "head"
  /\ now < Deadline
  /\ pc' = "health"
  /\ nowNs' = now
  /\ polled' = 0
  /\ verdicts' = {}
  /\ UNCHANGED <<now, available, cleared, recoveryTs, since, unclearAt, seenAt, unfounded>>

GiveUp ==
  /\ pc = "head"
  /\ now >= Deadline
  /\ pc' = "done"
  /\ UNCHANGED <<now, available, polled, nowNs, cleared, recoveryTs, history>>

MorePolls_OneMore(p) == p < Services
MorePolls(p) == p < Services - 1

\* one more check_health(..).await && ... answered success
ServiceHealthy ==
  /\ pc = "health"
  /\ MorePolls(polled)
  /\ polled' = polled + 1
  /\ \E d \in 0..MaxDelay : now' = now + d
  /\ UNCHANGED <<pc, available, nowNs, cleared, recoveryTs, history>>

\* the first endpoint that is not healthy, or the last one, decides; the stats
\* file is read right after, without an await
HealthKnown ==
  /\ pc = "health"
  /\ \E d \in 0..MaxDelay : now' = now + d
  /\ \E healthOk, loadOk \in BOOLEAN :
       LET afterHealth == Observe(cleared, "Health", nowNs, healthOk)
           ok == (IF healthOk THEN {"Health"} ELSE {})
                   \cup IF available /\ loadOk THEN {"LoadGen5xx"} ELSE {}
       IN
       /\ healthOk => ~MorePolls(polled)
       /\ cleared' = IF available THEN Observe(afterHealth, "LoadGen5xx", nowNs, loadOk)
                                  ELSE afterHealth
       /\ verdicts' = ok
       /\ seenAt' = [s \in Signal |->
            IF s = "PromErrorRate" THEN seenAt[s]
            ELSE IF s \notin ok THEN Absent
            ELSE IF seenAt[s] = Absent THEN now' ELSE seenAt[s]]
  /\ pc' = "prom"
  /\ UNCHANGED <<available, polled, nowNs, recoveryTs, since, unclearAt, unfounded>>

\* prom_error_rate_clean().await, then recovery_ts_if_held
PromKnown ==
  /\ pc = "prom"
  /\ \E d \in 0..MaxDelay : now' = now + d
  /\ \E answer \in Answer :
       LET ok == Clean(answer) IN
       /\ cleared' = Observe(cleared, "PromErrorRate", nowNs, ok)
       /\ verdicts' = verdicts \cup IF ok THEN {"PromErrorRate"} ELSE {}
       /\ seenAt' = [seenAt EXCEPT !["PromErrorRate"] =
            IF ~ok THEN Absent ELSE IF @ = Absent THEN now' ELSE @]
       /\ unfounded' = IF answer = "garbled" THEN {"PromErrorRate"} ELSE {}
  /\ since' = IF ~(Required \subseteq verdicts') THEN Absent
              ELSE IF since = Absent THEN nowNs ELSE since
  /\ unclearAt' = IF Required \subseteq verdicts' THEN unclearAt ELSE nowNs
  /\ recoveryTs' = RecoveryTsIfHeld(cleared', nowNs)
  /\ pc' = IF recoveryTs' # Absent THEN "done" ELSE "sleep"
  /\ UNCHANGED <<available, polled, nowNs>>

AfterSleep_None(t) == t
AfterSleep(t) == t + Period

Sleep ==
  /\ pc = "sleep"
  /\ now' = AfterSleep(now)
  /\ pc' = "head"
  /\ UNCHANGED <<available, polled, nowNs, cleared, recoveryTs, history>>

Poll == Iterate \/ GiveUp \/ ServiceHealthy \/ HealthKnown \/ PromKnown \/ Sleep
Done == pc = "done" /\ UNCHANGED vars
Next == Poll \/ Done

Spec == Init /\ [][Next]_vars

\* every awaited call returns and the task keeps being scheduled
FairSpec == Spec /\ WF_vars(Poll)

-----------------------------------------------------------------------------
(* Properties.                                                             *)

TypeOK ==
  /\ pc \in {"head", "health", "prom", "sleep", "done"}
  /\ now \in Nat
  /\ available \in BOOLEAN
  /\ polled \in 0..(Services - 1)
  /\ nowNs \in Nat
  /\ cleared \in [Signal -> Nat \cup {Absent}]
  /\ recoveryTs \in Nat \cup {Absent}
  /\ verdicts \subseteq Signal
  /\ since \in Nat \cup {Absent}
  /\ unclearAt \in Nat \cup {Absent}
  /\ seenAt \in [Signal -> Nat \cup {Absent}]
  /\ unfounded \subseteq Signal

\* A recovery is declared only after an unbroken run of iterations, all required
\* signals clear in each, that spans recovery_grace_sec by the timestamps; and
\* the timestamp is the start of that run, "the latest of the three to clear"
\* (recovery.rs:50-61).
RecoverySound ==
  recoveryTs # Absent => /\ since = recoveryTs
                         /\ nowNs - since >= Grace

\* The converse: the loop never goes on past an iteration in which the signals
\* have been clear for recovery_grace_sec.
RecoveryComplete ==
  pc \in {"sleep", "head", "done"} /\ recoveryTs = Absent /\ since # Absent => nowNs - since < Grace

\* the longest one iteration can take before it decides
CheckTime == (Services + 1) * MaxDelay

\* "no_recovery" is recorded only if the loop saw a required signal that was not
\* clear late in the window, in an iteration begun after the instant that lies
\* the grace, two rounds of checks and two sleeps before the deadline: a system
\* that is clear from that instant on is recorded as recovered.  One of the two
\* rounds passes until the loop notices, the other before it looks at the deadline.
NoMissedRecovery ==
  pc = "done" /\ recoveryTs = Absent =>
    unclearAt > Deadline - (Grace + 2 * (Period + CheckTime))

\* What is left of the grace window in real time: a recovered system was seen
\* clear for recovery_grace_sec less the time of one round of checks.
GraceNearlyHeld ==
  recoveryTs # Absent => \A s \in Required : now - seenAt[s] >= Grace - CheckTime

\* recovery.rs:14-17: a signal that is unavailable is never silently treated as
\* clear.
NoUnfoundedRecovery == recoveryTs # Absent => unfounded \cap Required = {}

\* The loop ends whatever the signals do.
LoopEnds == <>(pc = "done")

-----------------------------------------------------------------------------
(* The inductive invariant: how far the clock can be past the time the       *)
(* observations are filed under, and what cleared_at says of the run of      *)
(* clear iterations `since` counts from.                                   *)

ClockInv ==
  /\ nowNs <= now
  /\ pc = "health" => now <= nowNs + polled * MaxDelay
  /\ pc = "prom"   => now <= nowNs + Services * MaxDelay
  /\ pc = "sleep"  => now <= nowNs + CheckTime
  /\ pc = "head" \/ (pc = "done" /\ recoveryTs = Absent) => now <= nowNs + CheckTime + Period
  /\ pc = "done" /\ recoveryTs = Absent => now >= Deadline

SeenInv ==
  \A s \in Required : /\ cleared[s] <= nowNs
                      /\ cleared[s] = Absent <=> seenAt[s] = Absent
                      /\ seenAt[s] <= cleared[s] + CheckTime

\* the required signals are all clear, the last of them since t
AllClearSince(t) ==
  /\ \A s \in Required : cleared[s] # Absent /\ cleared[s] <= t
  /\ \E s \in Required : cleared[s] = t

\* between two iterations cleared_at and since agree; halfway through one,
\* before Prometheus has been asked, they may differ by what was just observed
ClearInv ==
  /\ since <= nowNs
  /\ pc # "prom" => IF since # Absent THEN AllClearSince(since)
                                      ELSE \E s \in Required : cleared[s] = Absent
  /\ pc = "prom" =>
       LET Observed == Required \ {"PromErrorRate"} IN
       /\ verdicts \subseteq {"Health", "LoadGen5xx"}
       /\ \A s \in Observed : s \in verdicts <=> cleared[s] # Absent
       /\ since # Absent => \/ \E s \in Observed : cleared[s] = Absent
                            \/ AllClearSince(since)
       /\ since = Absent => \/ cleared["PromErrorRate"] = Absent
                            \/ \E s \in Observed : cleared[s] \in {Absent, nowNs}

DecisionInv ==
  /\ pc # "done" => recoveryTs = Absent
  /\ RecoverySound /\ RecoveryComplete

LoopInv == TypeOK /\ ClockInv /\ SeenInv /\ ClearInv /\ DecisionInv

\* how long after an iteration that saw something not clear the next clear run
\* starts, or the loop goes on without one
UnclearInv ==
  LET Following == unclearAt + CheckTime + Period IN
  /\ since # Absent => since <= Following
  /\ since = Absent =>
       /\ pc \in {"health", "prom"} => nowNs <= Following
       /\ pc = "sleep" => now <= unclearAt + CheckTime
       /\ pc \in {"head", "done"} => now <= Following

=============================================================================
