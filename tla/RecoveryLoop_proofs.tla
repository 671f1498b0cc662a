------------------------- MODULE RecoveryLoop_proofs -------------------------
(* Theorems about RecoveryLoop: for every grace, cooldown, period, number of *)
(* endpoints and bound on the time of a call.                              *)
EXTENDS RecoveryLoop, TLAPS

-----------------------------------------------------------------------------
(* The state machine.                                                      *)

LEMMA ConstantTypes ==
  Grace \in Nat /\ Cooldown \in Nat /\ Period \in Nat /\ Services \in Nat /\ MaxDelay \in Nat
  BY ConstantsAssumption

LEMMA CheckTimeIs ==
  /\ CheckTime \in Nat
  /\ CheckTime = Services * MaxDelay + MaxDelay
  /\ Services * MaxDelay \in Nat
  /\ \A p \in Nat : p * MaxDelay \in Nat /\ (p + 1) * MaxDelay = p * MaxDelay + MaxDelay
<1>1. \A p, m \in Nat : p * m \in Nat /\ (p + 1) * m = p * m + m
  OBVIOUS
<1>2. QED
  BY <1>1, ConstantTypes DEF CheckTime

LEMMA RequiredFacts ==
  /\ Required \subseteq Signal
  /\ {"Health", "PromErrorRate"} \subseteq Required
  BY DEF Required, Signal

\* Last is the maximum
LEMMA LastIs ==
  ASSUME NEW map \in [Signal -> Int], NEW t \in Int,
         \A s \in Required : map[s] <= t, \E s \in Required : map[s] = t
  PROVE  Last(map) = t
<1> DEFINE IsLast(u) == u \in {map[s] : s \in Required} /\ \A s \in Required : map[s] <= u
<1>1. IsLast(t)
  OBVIOUS
<1>2. ASSUME NEW u, IsLast(u) PROVE u = t
  <2>1. u \in Int
    BY <1>2, RequiredFacts
  <2>2. t <= u /\ u <= t
    BY <1>2
  <2>3. QED
    BY <2>1, <2>2
<1>3. Last(map) = CHOOSE u : IsLast(u)
  BY DEF Last
<1>4. IsLast(CHOOSE u : IsLast(u))
  BY <1>1
<1>5. QED
  BY <1>2, <1>3, <1>4

LEMMA ObserveFacts ==
  ASSUME NEW map \in [Signal -> Nat \cup {Absent}], NEW sig \in Signal, NEW ts \in Nat,
         NEW ok \in BOOLEAN
  PROVE  /\ Observe(map, sig, ts, ok) \in [Signal -> Nat \cup {Absent}]
         /\ \A s \in Signal \ {sig} : Observe(map, sig, ts, ok)[s] = map[s]
         /\ Observe(map, sig, ts, ok)[sig] = IF ~ok THEN Absent
                                             ELSE IF map[sig] = Absent THEN ts ELSE map[sig]
  BY DEF Observe

-----------------------------------------------------------------------------
LEMMA InitInv == Init => LoopInv
<1> SUFFICES ASSUME Init PROVE LoopInv
  OBVIOUS
<1>1. TypeOK /\ DecisionInv /\ ClearInv
  BY ConstantsAssumption, RequiredFacts
     DEF Init, TypeOK, DecisionInv, RecoverySound, RecoveryComplete, ClearInv, Absent
<1>2. ClockInv /\ SeenInv
  <2>1. CheckTime \in Nat /\ Period \in Nat
    BY CheckTimeIs, ConstantTypes
  <2>2. ClockInv
    BY <2>1 DEF Init, ClockInv, Absent
  <2>3. SeenInv
    BY <2>1, RequiredFacts DEF Init, SeenInv, Absent
  <2>4. QED
    BY <2>2, <2>3
<1>3. QED
  BY <1>1, <1>2 DEF LoopInv

\* a step that observes nothing and decides nothing
LEMMA QuietStep ==
  ASSUME LoopInv, TypeOK', ClockInv', pc \notin {"prom", "done"}, pc' # "prom",
         UNCHANGED <<available, cleared, recoveryTs, since, seenAt>>,
         nowNs <= nowNs', pc' # "health" => nowNs' = nowNs /\ pc # "health"
  PROVE  LoopInv'
<1>0. recoveryTs = Absent /\ nowNs \in Nat /\ nowNs' \in Nat
  BY DEF LoopInv, TypeOK, DecisionInv
<1>1. Required' = Required
  BY DEF Required
<1>2. SeenInv'
  <2>1. cleared \in [Signal -> Nat \cup {Absent}]
    BY DEF LoopInv, TypeOK
  <2>2. QED
    BY <1>0, <1>1, <2>1, RequiredFacts DEF LoopInv, SeenInv, Absent
<1>3. ClearInv'
  <2>1. since \in Nat \cup {Absent}
    BY DEF LoopInv, TypeOK
  <2>2. since <= nowNs /\ IF since # Absent THEN AllClearSince(since)
                                            ELSE \E s \in Required : cleared[s] = Absent
    BY DEF LoopInv, ClearInv
  <2>3. AllClearSince(since) => AllClearSince(since)'
    BY <1>1 DEF AllClearSince
  <2>4. since' <= nowNs' /\ IF since' # Absent THEN AllClearSince(since)'
                                            ELSE \E s \in Required' : cleared'[s] = Absent
    BY <1>0, <1>1, <2>1, <2>2, <2>3 DEF Absent
  <2>5. QED
    BY <2>4 DEF ClearInv
<1>4. DecisionInv'
  BY <1>0 DEF LoopInv, DecisionInv, RecoverySound, RecoveryComplete, TypeOK
<1>5. QED
  BY <1>2, <1>3, <1>4 DEF LoopInv

LEMMA HealthStep == LoopInv /\ HealthKnown => LoopInv'
<1> SUFFICES ASSUME LoopInv, HealthKnown PROVE LoopInv'
  OBVIOUS
<1>0. /\ pc = "health" /\ pc' = "prom"
      /\ now \in Nat /\ nowNs \in Nat /\ nowNs <= now
      /\ cleared \in [Signal -> Nat \cup {Absent}]
      /\ seenAt \in [Signal -> Nat \cup {Absent}]
      /\ since \in Nat \cup {Absent} /\ available \in BOOLEAN
      /\ polled \in 0..(Services - 1)
  BY DEF LoopInv, TypeOK, HealthKnown, ClockInv
<1>1. PICK d \in 0..MaxDelay : now' = now + d
  BY DEF HealthKnown
<1>2. PICK healthOk \in BOOLEAN, loadOk \in BOOLEAN :
        LET afterHealth == Observe(cleared, "Health", nowNs, healthOk)
            ok == (IF healthOk THEN {"Health"} ELSE {})
                    \cup IF available /\ loadOk THEN {"LoadGen5xx"} ELSE {}
        IN
        /\ cleared' = IF available THEN Observe(afterHealth, "LoadGen5xx", nowNs, loadOk)
                                   ELSE afterHealth
        /\ verdicts' = ok
        /\ seenAt' = [s \in Signal |->
             IF s = "PromErrorRate" THEN seenAt[s]
             ELSE IF s \notin ok THEN Absent
             ELSE IF seenAt[s] = Absent THEN now' ELSE seenAt[s]]
  BY DEF HealthKnown
<1> DEFINE Observed == Required \ {"PromErrorRate"}
<1>3. /\ verdicts' \subseteq {"Health", "LoadGen5xx"}
      /\ "LoadGen5xx" \in verdicts' => available
  BY <1>2
<1>4. cleared' \in [Signal -> Nat \cup {Absent}]
  <2>1. "Health" \in Signal /\ "LoadGen5xx" \in Signal
    BY DEF Signal
  <2>2. QED
    BY <1>0, <1>2, <2>1, ObserveFacts
<1>5. \A s \in Signal : cleared'[s] =
        IF s = "PromErrorRate" \/ (s = "LoadGen5xx" /\ ~available) THEN cleared[s]
        ELSE IF s \notin verdicts' THEN Absent
        ELSE IF cleared[s] = Absent THEN nowNs ELSE cleared[s]
  <2> DEFINE after == Observe(cleared, "Health", nowNs, healthOk)
  <2>1. "Health" \in Signal /\ "LoadGen5xx" \in Signal
    BY DEF Signal
  <2>2. /\ after \in [Signal -> Nat \cup {Absent}]
        /\ \A s \in Signal \ {"Health"} : after[s] = cleared[s]
        /\ after["Health"] = IF ~healthOk THEN Absent
                             ELSE IF cleared["Health"] = Absent THEN nowNs ELSE cleared["Health"]
    BY <1>0, <2>1, ObserveFacts
  <2>3. CASE available
    <3>1. cleared' = Observe(after, "LoadGen5xx", nowNs, loadOk)
      BY <1>2, <2>3
    <3>2. /\ \A s \in Signal \ {"LoadGen5xx"} : cleared'[s] = after[s]
          /\ cleared'["LoadGen5xx"] = IF ~loadOk THEN Absent
                                      ELSE IF after["LoadGen5xx"] = Absent THEN nowNs
                                      ELSE after["LoadGen5xx"]
      <4> HIDE DEF after
      <4>1. QED
        BY <1>0, <2>1, <2>2, <3>1, ObserveFacts
    <3>3. "Health" \in verdicts' <=> healthOk
      BY <1>2
    <3>4. "LoadGen5xx" \in verdicts' <=> loadOk
      BY <1>2, <2>3
    <3>5. QED
      BY <2>2, <2>3, <3>2, <3>3, <3>4 DEF Signal
  <2>4. CASE ~available
    <3>1. cleared' = after
      BY <1>2, <2>4
    <3>2. "Health" \in verdicts' <=> healthOk
      BY <1>2
    <3>3. QED
      BY <2>2, <2>4, <3>1, <3>2 DEF Signal
  <2>5. QED
    BY <1>0, <2>3, <2>4
<1>6. \A s \in Signal : seenAt'[s] =
        IF s = "PromErrorRate" THEN seenAt[s]
        ELSE IF s \notin verdicts' THEN Absent
        ELSE IF seenAt[s] = Absent THEN now' ELSE seenAt[s]
  BY <1>2
<1>7. UNCHANGED <<available, polled, nowNs, recoveryTs, since>>
  BY DEF HealthKnown
<1>8. Required' = Required
  BY <1>7 DEF Required
<1>9. now' \in Nat /\ now <= now' /\ now' <= now + MaxDelay
  BY <1>0, <1>1, ConstantTypes
<1>10. TypeOK'
  <2>1. seenAt' \in [Signal -> Nat \cup {Absent}]
    BY <1>0, <1>2, <1>9
  <2>2. verdicts' \subseteq Signal
    BY <1>3 DEF Signal
  <2>3. QED
    BY <1>0, <1>4, <1>7, <1>9, <2>1, <2>2 DEF LoopInv, TypeOK, HealthKnown
<1>11. ClockInv'
  <2>1. now <= nowNs + polled * MaxDelay
    BY <1>0 DEF LoopInv, ClockInv
  <2>2. polled * MaxDelay + MaxDelay <= Services * MaxDelay
    <3>1. \A p, q, m \in Nat : p <= q => p * m <= q * m
      OBVIOUS
    <3>2. polled + 1 \in Nat /\ polled + 1 <= Services /\ polled \in Nat
      BY <1>0, ConstantTypes
    <3>3. (polled + 1) * MaxDelay <= Services * MaxDelay
      BY <3>1, <3>2, ConstantTypes
    <3>4. QED
      BY <3>2, <3>3, CheckTimeIs
  <2>3. polled * MaxDelay \in Nat
    BY <1>0, CheckTimeIs, ConstantTypes
  <2>4. now' <= nowNs + Services * MaxDelay
    BY <1>0, <1>9, <2>1, <2>2, <2>3, CheckTimeIs, ConstantTypes
  <2>5. QED
    BY <1>0, <1>7, <1>9, <2>4 DEF ClockInv
<1>12. SeenInv'
  <2>1. now' <= nowNs + CheckTime
    BY <1>0, <1>7, <1>9, <1>11, CheckTimeIs, ConstantTypes DEF ClockInv
  <2>2. SUFFICES ASSUME NEW s \in Required
                 PROVE  /\ cleared'[s] <= nowNs
                        /\ cleared'[s] = Absent <=> seenAt'[s] = Absent
                        /\ seenAt'[s] <= cleared'[s] + CheckTime
    BY <1>7, <1>8 DEF SeenInv
  <2>3. /\ cleared[s] <= nowNs
        /\ cleared[s] = Absent <=> seenAt[s] = Absent
        /\ seenAt[s] <= cleared[s] + CheckTime
    BY DEF LoopInv, SeenInv
  <2>4. s \in Signal /\ (s = "LoadGen5xx" => available)
    BY RequiredFacts DEF Required
  <2>5. QED
    BY <1>0, <1>5, <1>6, <1>9, <2>1, <2>3, <2>4, CheckTimeIs DEF Absent
<1>13. ClearInv'
  <2>1. \A s \in Observed : s \in verdicts' <=> cleared'[s] # Absent
    BY <1>0, <1>5 DEF Required, Signal, Absent
  <2>2. since <= nowNs /\ IF since # Absent THEN AllClearSince(since)
                                            ELSE \E s \in Required : cleared[s] = Absent
    BY <1>0 DEF LoopInv, ClearInv
  <2>3. since # Absent => \/ \E s \in Observed : cleared'[s] = Absent
                          \/ AllClearSince(since)'
    <3>1. SUFFICES ASSUME since # Absent, \A s \in Observed : cleared'[s] # Absent
                   PROVE  AllClearSince(since)'
      OBVIOUS
    <3>2. AllClearSince(since)
      BY <2>2, <3>1
    <3>3. \A s \in Required : cleared'[s] = cleared[s]
      BY <1>5, <2>1, <3>1, <3>2 DEF AllClearSince, Required, Signal
    <3>4. QED
      BY <1>7, <1>8, <3>2, <3>3 DEF AllClearSince
  <2>4. since = Absent => \/ cleared'["PromErrorRate"] = Absent
                          \/ \E s \in Observed : cleared'[s] \in {Absent, nowNs}
    BY <1>5, <2>2 DEF Required, Signal
  <2>5. QED
    BY <1>0, <1>3, <1>7, <1>8, <2>1, <2>2, <2>3, <2>4 DEF ClearInv
<1>14. DecisionInv'
  BY <1>0, <1>7 DEF LoopInv, DecisionInv, RecoverySound, RecoveryComplete
<1>15. QED
  BY <1>10, <1>11, <1>12, <1>13, <1>14 DEF LoopInv

LEMMA PromStep == LoopInv /\ PromKnown => LoopInv'
<1> SUFFICES ASSUME LoopInv, PromKnown PROVE LoopInv'
  OBVIOUS
<1>0. /\ pc = "prom"
      /\ now \in Nat /\ nowNs \in Nat /\ nowNs <= now
      /\ now <= nowNs + Services * MaxDelay
      /\ cleared \in [Signal -> Nat \cup {Absent}]
      /\ seenAt \in [Signal -> Nat \cup {Absent}]
      /\ since \in Nat \cup {Absent} /\ since <= nowNs
      /\ verdicts \subseteq {"Health", "LoadGen5xx"}
  BY DEF LoopInv, TypeOK, PromKnown, ClockInv, ClearInv
<1>1. PICK d \in 0..MaxDelay : now' = now + d
  BY DEF PromKnown
<1>2. PICK ok \in BOOLEAN :
        /\ cleared' = Observe(cleared, "PromErrorRate", nowNs, ok)
        /\ verdicts' = verdicts \cup IF ok THEN {"PromErrorRate"} ELSE {}
        /\ seenAt' = [seenAt EXCEPT !["PromErrorRate"] =
             IF ~ok THEN Absent ELSE IF @ = Absent THEN now' ELSE @]
  <2>1. PICK answer \in Answer :
          /\ cleared' = Observe(cleared, "PromErrorRate", nowNs, Clean(answer))
          /\ verdicts' = verdicts \cup IF Clean(answer) THEN {"PromErrorRate"} ELSE {}
          /\ seenAt' = [seenAt EXCEPT !["PromErrorRate"] =
               IF ~Clean(answer) THEN Absent ELSE IF @ = Absent THEN now' ELSE @]
    BY DEF PromKnown
  <2>2. Clean(answer) \in BOOLEAN
    BY DEF Clean
  <2>3. QED
    BY <2>1, <2>2
<1>3. /\ since' = IF ~(Required \subseteq verdicts') THEN Absent
                  ELSE IF since = Absent THEN nowNs ELSE since
      /\ recoveryTs' = RecoveryTsIfHeld(cleared', nowNs)
      /\ pc' = IF recoveryTs' # Absent THEN "done" ELSE "sleep"
      /\ UNCHANGED <<available, polled, nowNs>>
  BY DEF PromKnown
<1> DEFINE Observed == Required \ {"PromErrorRate"}
<1>4. Required' = Required /\ Required \subseteq Signal /\ "PromErrorRate" \in Required
  BY <1>3, RequiredFacts DEF Required
<1>5. /\ cleared' \in [Signal -> Nat \cup {Absent}]
      /\ \A s \in Signal \ {"PromErrorRate"} : cleared'[s] = cleared[s]
      /\ cleared'["PromErrorRate"] = IF ~ok THEN Absent
                                     ELSE IF cleared["PromErrorRate"] = Absent THEN nowNs
                                     ELSE cleared["PromErrorRate"]
  BY <1>0, <1>2, <1>4, ObserveFacts
<1>6. now' \in Nat /\ now <= now' /\ now' <= now + MaxDelay /\ now' <= nowNs + CheckTime
  BY <1>0, <1>1, CheckTimeIs, ConstantTypes
<1>7. /\ \A s \in Observed : s \in verdicts <=> cleared[s] # Absent
      /\ since # Absent => \/ \E s \in Observed : cleared[s] = Absent
                           \/ AllClearSince(since)
      /\ since = Absent => \/ cleared["PromErrorRate"] = Absent
                           \/ \E s \in Observed : cleared[s] \in {Absent, nowNs}
  BY <1>0 DEF LoopInv, ClearInv
<1>8. Required \subseteq verdicts' <=> \A s \in Required : cleared'[s] # Absent
  <2>1. "PromErrorRate" \in verdicts' <=> ok
    BY <1>0, <1>2
  <2>2. cleared'["PromErrorRate"] # Absent <=> ok
    BY <1>0, <1>5 DEF Absent
  <2>3. \A s \in Observed : s \in verdicts' <=> cleared'[s] # Absent
    BY <1>2, <1>4, <1>5, <1>7
  <2>4. QED
    BY <1>4, <2>1, <2>2, <2>3
<1>9. \A s \in Required : cleared'[s] <= nowNs
  BY <1>0, <1>4, <1>5 DEF LoopInv, SeenInv, Absent
<1>10. since' \in Nat \cup {Absent} /\ since' <= nowNs
  BY <1>0, <1>3 DEF Absent
<1>11. IF since' # Absent THEN AllClearSince(since)'
                          ELSE \E s \in Required : cleared'[s] = Absent
  <2>1. CASE ~(Required \subseteq verdicts')
    BY <1>3, <1>8, <2>1
  <2>2. CASE Required \subseteq verdicts' /\ since = Absent
    <3>1. since' = nowNs
      BY <1>3, <2>2
    <3>2. \E s \in Required : cleared'[s] = nowNs
      BY <1>4, <1>5, <1>7, <1>8, <2>2
    <3>3. QED
      BY <1>0, <1>4, <1>8, <1>9, <2>2, <3>1, <3>2 DEF AllClearSince, Absent
  <2>3. CASE Required \subseteq verdicts' /\ since # Absent
    <3>1. since' = since /\ AllClearSince(since)
      BY <1>3, <1>4, <1>5, <1>7, <1>8, <2>3
    <3>2. \A s \in Required : cleared'[s] = cleared[s]
      BY <1>4, <1>5, <1>8, <2>3, <3>1 DEF AllClearSince
    <3>3. QED
      BY <1>4, <2>3, <3>1, <3>2 DEF AllClearSince
  <2>4. QED
    BY <2>1, <2>2, <2>3
<1>12. recoveryTs' = IF since' # Absent /\ nowNs - since' >= Grace THEN since' ELSE Absent
  <2>1. CASE since' = Absent
    <3>1. ~(\A s \in Required : cleared'[s] # Absent)
      BY <1>11, <2>1
    <3>2. QED
      BY <1>3, <1>4, <2>1, <3>1 DEF RecoveryTsIfHeld
  <2>2. CASE since' # Absent
    <3>1. /\ \A s \in Required : cleared'[s] # Absent /\ cleared'[s] <= since'
          /\ \E s \in Required : cleared'[s] = since'
      BY <1>4, <1>11, <2>2 DEF AllClearSince
    <3>2. since' \in Int /\ cleared' \in [Signal -> Int]
      BY <1>5, <1>10 DEF Absent
    <3>3. Last(cleared') = since'
      BY <3>1, <3>2, LastIs
    <3>4. QED
      BY <1>3, <2>2, <3>1, <3>3 DEF RecoveryTsIfHeld
  <2>3. QED
    BY <2>1, <2>2
<1>13. TypeOK'
  <2>1. seenAt' \in [Signal -> Nat \cup {Absent}]
    BY <1>0, <1>2, <1>6
  <2>2. verdicts' \subseteq Signal
    BY <1>0, <1>2 DEF Signal
  <2>3. unfounded' \subseteq Signal
    BY DEF PromKnown, Signal
  <2>4. recoveryTs' \in Nat \cup {Absent}
    BY <1>10, <1>12
  <2>5. unclearAt' \in Nat \cup {Absent}
    BY DEF PromKnown, LoopInv, TypeOK
  <2>6. QED
    BY <1>3, <1>5, <1>6, <1>10, <2>1, <2>2, <2>3, <2>4, <2>5 DEF LoopInv, TypeOK
<1>14. ClockInv'
  BY <1>0, <1>3, <1>6 DEF ClockInv
<1>15. SeenInv'
  <2>1. SUFFICES ASSUME NEW s \in Required
                 PROVE  /\ cleared'[s] <= nowNs
                        /\ cleared'[s] = Absent <=> seenAt'[s] = Absent
                        /\ seenAt'[s] <= cleared'[s] + CheckTime
    BY <1>3, <1>4 DEF SeenInv
  <2>2. /\ cleared[s] <= nowNs
        /\ cleared[s] = Absent <=> seenAt[s] = Absent
        /\ seenAt[s] <= cleared[s] + CheckTime
    BY DEF LoopInv, SeenInv
  <2>3. seenAt'[s] = IF s # "PromErrorRate" THEN seenAt[s]
                     ELSE IF ~ok THEN Absent ELSE IF seenAt[s] = Absent THEN now' ELSE seenAt[s]
    BY <1>0, <1>2, <1>4
  <2>4. QED
    BY <1>0, <1>4, <1>5, <1>6, <1>9, <2>2, <2>3, CheckTimeIs DEF Absent
<1>16. ClearInv'
  <2>1. pc' # "prom"
    BY <1>3
  <2>2. since' # Absent => AllClearSince(since)'
    BY <1>11
  <2>3. since' = Absent => \E s \in Required' : cleared'[s] = Absent
    BY <1>4, <1>11
  <2>4. QED
    BY <1>3, <1>10, <2>1, <2>2, <2>3 DEF ClearInv
<1>17. DecisionInv'
  BY <1>0, <1>3, <1>10, <1>12, ConstantTypes DEF DecisionInv, RecoverySound, RecoveryComplete, Absent
<1>18. QED
  BY <1>13, <1>14, <1>15, <1>16, <1>17 DEF LoopInv

LEMMA StepInv == LoopInv /\ [Next]_vars => LoopInv'
<1> SUFFICES ASSUME LoopInv, [Next]_vars PROVE LoopInv'
  OBVIOUS
<1>0. TypeOK /\ ClockInv
  BY DEF LoopInv
<1>1. CASE Iterate
  <2>1. TypeOK'
    BY <1>0, <1>1, ConstantsAssumption DEF Iterate, TypeOK
  <2>2. ClockInv'
    BY <1>0, <1>1, CheckTimeIs DEF Iterate, TypeOK, ClockInv
  <2>3. nowNs <= nowNs'
    BY <1>0, <1>1 DEF Iterate, ClockInv
  <2>4. QED
    BY <1>1, <2>1, <2>2, <2>3, QuietStep DEF Iterate
<1>2. CASE GiveUp
  <2>1. TypeOK'
    BY <1>0, <1>2 DEF GiveUp, history, TypeOK
  <2>2. ClockInv'
    BY <1>0, <1>2 DEF GiveUp, history, TypeOK, ClockInv, Deadline
  <2>3. QED
    BY <1>0, <1>2, <2>1, <2>2, QuietStep DEF GiveUp, history, TypeOK
<1>3. CASE ServiceHealthy
  <2>1. PICK d \in 0..MaxDelay : now' = now + d
    BY <1>3 DEF ServiceHealthy
  <2>2. polled' = polled + 1 /\ polled' \in 0..(Services - 1)
    BY <1>0, <1>3, ConstantTypes DEF ServiceHealthy, MorePolls, TypeOK
  <2>3. now' \in Nat /\ now <= now' /\ now' <= now + MaxDelay
    BY <1>0, <2>1, ConstantTypes DEF TypeOK
  <2>4. TypeOK'
    BY <1>0, <1>3, <2>2, <2>3 DEF ServiceHealthy, history, TypeOK
  <2>5. now' <= nowNs + polled' * MaxDelay
    <3>1. now <= nowNs + polled * MaxDelay /\ polled \in Nat /\ now \in Nat /\ nowNs \in Nat
      BY <1>0, <1>3 DEF ServiceHealthy, ClockInv, TypeOK
    <3>2. polled * MaxDelay \in Nat /\ polled' * MaxDelay = polled * MaxDelay + MaxDelay
      BY <2>2, <3>1, CheckTimeIs
    <3>3. QED
      BY <2>3, <3>1, <3>2, ConstantTypes
  <2>6. ClockInv'
    BY <1>0, <1>3, <2>3, <2>5 DEF ServiceHealthy, history, TypeOK, ClockInv
  <2>7. QED
    BY <1>0, <1>3, <2>4, <2>6, QuietStep DEF ServiceHealthy, history, TypeOK, ClockInv
<1>4. CASE HealthKnown
  BY <1>4, HealthStep
<1>5. CASE PromKnown
  BY <1>5, PromStep
<1>6. CASE Sleep
  <2>1. TypeOK'
    BY <1>0, <1>6, ConstantTypes DEF Sleep, AfterSleep, history, TypeOK
  <2>2. ClockInv'
    BY <1>0, <1>6, ConstantTypes, CheckTimeIs DEF Sleep, AfterSleep, history, TypeOK, ClockInv
  <2>3. QED
    BY <1>0, <1>6, <2>1, <2>2, QuietStep DEF Sleep, history, TypeOK
<1>7. CASE UNCHANGED vars
  BY <1>7 DEF vars, loopVars, history, LoopInv, TypeOK, ClockInv, SeenInv, ClearInv, DecisionInv,
     RecoverySound, RecoveryComplete, AllClearSince, Required
<1>8. QED
  BY <1>1, <1>2, <1>3, <1>4, <1>5, <1>6, <1>7 DEF Next, Poll, Done

LEMMA LoopInvariant == Spec => []LoopInv
  BY InitInv, StepInv, PTL DEF Spec

-----------------------------------------------------------------------------
\* Every variable of the loop and its history keeps its type.
THEOREM TypeCorrect == Spec => []TypeOK
<1>1. LoopInv => TypeOK
  BY DEF LoopInv
<1>2. QED
  BY <1>1, LoopInvariant, PTL

\* A recovery rests on an unbroken run of clear iterations that spans the
\* grace, and is dated to its start (recovery.rs:41-62), whatever the grace
\* is and however long the calls take.
THEOREM SoundRecovery == Spec => []RecoverySound
<1>1. LoopInv => RecoverySound
  BY DEF LoopInv, DecisionInv
<1>2. QED
  BY <1>1, LoopInvariant, PTL

\* The loop never goes on once the signals have been clear for the grace
\* (runner.rs:193-196).
THEOREM CompleteRecovery == Spec => []RecoveryComplete
<1>1. LoopInv => RecoveryComplete
  BY DEF LoopInv, DecisionInv
<1>2. QED
  BY <1>1, LoopInvariant, PTL

LEMMA StepUnclear == LoopInv /\ UnclearInv /\ [Next]_vars => UnclearInv'
<1> SUFFICES ASSUME LoopInv, UnclearInv, [Next]_vars PROVE UnclearInv'
  OBVIOUS
<1>0. LoopInv' /\ CheckTime \in Nat /\ Period \in Nat
  BY StepInv, CheckTimeIs, ConstantTypes
<1>1. /\ unclearAt \in Int /\ unclearAt' \in Int /\ since \in Int /\ since' \in Int
      /\ now \in Int /\ now' \in Int /\ nowNs \in Int /\ nowNs' \in Int
  BY <1>0 DEF LoopInv, TypeOK, Absent
<1>2. CASE Iterate
  BY <1>2 DEF Iterate, UnclearInv
<1>3. CASE GiveUp
  BY <1>3 DEF GiveUp, history, UnclearInv
<1>4. CASE ServiceHealthy \/ HealthKnown
  BY <1>4 DEF ServiceHealthy, HealthKnown, history, UnclearInv
<1>5. CASE PromKnown
  <2>1. /\ pc = "prom" /\ nowNs' = nowNs /\ pc' = IF recoveryTs' # Absent THEN "done" ELSE "sleep"
        /\ since' = IF ~(Required \subseteq verdicts') THEN Absent
                    ELSE IF since = Absent THEN nowNs ELSE since
        /\ unclearAt' = IF Required \subseteq verdicts' THEN unclearAt ELSE nowNs
    BY <1>5 DEF PromKnown
  <2>2. CASE Required \subseteq verdicts'
    <3>1. since' # Absent /\ unclearAt' = unclearAt /\ since' = (IF since = Absent THEN nowNs ELSE since)
      BY <2>1, <2>2 DEF LoopInv, TypeOK, Absent
    <3>2. since' <= unclearAt' + CheckTime + Period
      BY <2>1, <3>1 DEF UnclearInv
    <3>3. QED
      BY <3>1, <3>2 DEF UnclearInv
  <2>3. CASE ~(Required \subseteq verdicts')
    <3>1. since' = Absent /\ unclearAt' = nowNs
      BY <2>1, <2>3
    <3>2. recoveryTs' = Absent
      BY <1>0, <3>1 DEF LoopInv, DecisionInv, RecoverySound
    <3>3. pc' = "sleep" /\ now' <= unclearAt' + CheckTime
      BY <1>0, <2>1, <3>1, <3>2 DEF LoopInv, ClockInv
    <3>4. QED
      BY <3>1, <3>3 DEF UnclearInv
  <2>4. QED
    BY <2>2, <2>3
<1>6. CASE Sleep
  <2>1. /\ pc = "sleep" /\ pc' = "head" /\ now' = now + Period
        /\ UNCHANGED <<since, unclearAt>>
    BY <1>6 DEF Sleep, AfterSleep, history
  <2>2. QED
    BY <1>0, <1>1, <2>1 DEF UnclearInv
<1>7. CASE UNCHANGED vars
  BY <1>7 DEF vars, loopVars, history, UnclearInv
<1>8. QED
  BY <1>2, <1>3, <1>4, <1>5, <1>6, <1>7 DEF Next, Poll, Done

\* A system that is clear from the grace, two rounds of checks and two sleeps
\* before the deadline on is recorded as recovered (runner.rs:173-201): the next
\* iteration begins at most a round and a sleep after one that saw something
\* unclear, and the last one that far before the loop looks at the deadline.
THEOREM NoneMissed == Spec => []NoMissedRecovery
<1>1. Init => UnclearInv
  <2> SUFFICES ASSUME Init PROVE UnclearInv
    OBVIOUS
  <2>1. now <= unclearAt + CheckTime + Period
    BY ConstantsAssumption, CheckTimeIs DEF Init, Absent
  <2>2. QED
    BY <2>1 DEF Init, UnclearInv
<1>2. LoopInv /\ UnclearInv => NoMissedRecovery
  <2> SUFFICES ASSUME LoopInv, UnclearInv, pc = "done", recoveryTs = Absent
               PROVE  unclearAt > Deadline - (Grace + 2 * (Period + CheckTime))
    BY DEF NoMissedRecovery
  <2>1. now <= nowNs + CheckTime + Period /\ now >= Deadline
    BY DEF LoopInv, ClockInv
  <2>2. /\ unclearAt \in Int /\ since \in Int /\ now \in Int /\ nowNs \in Int
        /\ Deadline \in Int /\ Grace \in Nat /\ CheckTime \in Nat /\ Period \in Nat /\ Period > 0
    BY ConstantsAssumption, CheckTimeIs DEF LoopInv, TypeOK, Absent, Deadline
  <2>3. CASE since = Absent
    <3>1. now <= unclearAt + CheckTime + Period
      BY <2>3 DEF UnclearInv
    <3>2. QED
      BY <2>1, <2>2, <3>1
  <2>4. CASE since # Absent
    <3>1. nowNs - since < Grace
      BY <2>4 DEF LoopInv, DecisionInv, RecoveryComplete
    <3>2. since <= unclearAt + CheckTime + Period
      BY <2>4 DEF UnclearInv
    <3>3. QED
      BY <2>1, <2>2, <3>1, <3>2
  <2>5. QED
    BY <2>3, <2>4
<1>3. QED
  BY <1>1, <1>2, LoopInvariant, StepUnclear, PTL DEF Spec

\* The grace is held in real time but for one round of checks: an observation
\* is filed under the time its round began (runner.rs:177-191).
THEOREM GraceAlmostHeld == Spec => []GraceNearlyHeld
<1>1. LoopInv => GraceNearlyHeld
  <2> SUFFICES ASSUME LoopInv, recoveryTs # Absent, NEW s \in Required
               PROVE  now - seenAt[s] >= Grace - CheckTime
    BY DEF GraceNearlyHeld
  <2>1. pc # "prom" /\ since # Absent /\ nowNs - since >= Grace
    BY DEF LoopInv, DecisionInv, RecoverySound
  <2>2. AllClearSince(since)
    BY <2>1 DEF LoopInv, ClearInv
  <2>3. cleared[s] <= since /\ seenAt[s] <= cleared[s] + CheckTime /\ nowNs <= now
    BY <2>2 DEF AllClearSince, LoopInv, SeenInv, ClockInv
  <2>4. /\ cleared[s] \in Int /\ seenAt[s] \in Int
        /\ since \in Int /\ now \in Int /\ nowNs \in Int
    BY RequiredFacts DEF LoopInv, TypeOK, Absent
  <2>5. QED
    <3>1. CheckTime \in Int /\ Grace \in Int
      BY ConstantTypes, CheckTimeIs
    <3>2. QED
      BY <2>1, <2>3, <2>4, <3>1
<1>2. QED
  BY <1>1, LoopInvariant, PTL

=============================================================================
