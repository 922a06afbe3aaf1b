--------------------------- MODULE AlertEngineProofs ---------------------------
(***************************************************************************)
(* Proofs about AlertEngine and AnalysisToAlert, for any results, rules,   *)
(* channels and number of concurrent calls: the bound on the alerts of a   *)
(* cooldown, the rows of the alerts table, the silence of analyses that    *)
(* the confidence gate holds back; then, from what ApplyResults makes of   *)
(* the answers, by induction over the channels of a rule (AppliedTells),   *)
(* the types, the statuses, the causes of the cooldowns and the counters.  *)
(***************************************************************************)
EXTENDS AnalysisToAlert, FiniteSetTheorems, TLAPS

\* The types, but for the contents of the alerts.
ControlOK ==
    /\ connected \in BOOLEAN
    /\ locks \in SUBSET Keys
    /\ pc \in [Results -> PCs]
    /\ DOMAIN alert = Results
    /\ DOMAIN alerts \in SUBSET Results
    /\ stats \in [{"processed", "sent", "suppressed", "failed"} -> Nat]
    /\ aborted \in SUBSET Results
    /\ routed \in [Keys -> Nat]

LEMMA KeyType == ASSUME NEW r \in Results PROVE Key(r) \in Keys
BY AlertAssumption DEF Key, Keys

LEMMA InFlightFinite == IsFiniteSet(InFlight) /\ Cardinality(InFlight) \in Nat
<1>1. InFlight \in SUBSET Results
    BY DEF InFlight
<1> QED
    BY <1>1, AlertAssumption, FS_Subset, FS_CardinalityType

-----------------------------------------------------------------------------
(* What a step does to the calls.                                          *)

LEMMA ControlInit == Init => ControlOK
BY DEF Init, ControlOK, PCs

\* process() up to its first await.
LEMMA ProcessControl ==
    ASSUME ControlOK, NEW r \in Results, Process(r) PROVE ControlOK'
<1>1. /\ pc' \in [Results -> PCs] /\ DOMAIN alert' = Results
      /\ routed' \in [Keys -> Nat]
  <2>1. CASE Suppress(r) /\ UNCHANGED routed
      BY <2>1 DEF ControlOK, Suppress, PCs
  <2>2. CASE Route(r)
      BY <2>2, KeyType DEF ControlOK, Route, PCs
  <2>3. CASE pc' = [pc EXCEPT ![r] = "get"] /\ UNCHANGED <<alert, routed>>
      BY <2>3 DEF ControlOK, PCs
  <2> QED
      BY <2>1, <2>2, <2>3 DEF Process
<1>2. stats' \in [{"processed", "sent", "suppressed", "failed"} -> Nat]
    BY DEF ControlOK, Process
<1> QED
    BY <1>1, <1>2 DEF ControlOK, Process, redis

LEMMA StepControl ==
    ASSUME ControlOK, NEW r \in Results, Step(r) PROVE ControlOK'
<1>1. CASE CheckCooldown(r)
    BY <1>1 DEF CheckCooldown, Suppress, ControlOK, PCs, redis
<1>2. CASE StartCooldown(r)
    BY <1>2, KeyType DEF StartCooldown, Route, ControlOK, PCs
<1>3. ASSUME NEW ch \in Channels, Deliver(r, ch) PROVE ControlOK'
    BY <1>3 DEF Deliver, ControlOK, redis
<1>4. CASE ApplyResults(r)
  <2>1. pc' \in [Results -> PCs] /\ DOMAIN alert' = Results
    BY <1>4 DEF ApplyResults, ControlOK, PCs
  <2> QED
    BY <1>4, <2>1 DEF ApplyResults, ControlOK, redis, history
<1>5. CASE Save(r)
  <2>1. pc' \in [Results -> PCs]
    BY <1>5 DEF Save, ControlOK, PCs
  <2>2. DOMAIN alerts' \in SUBSET Results
    BY <1>5 DEF Save, Rows, ControlOK
  <2>3. Counter(alert[r].status) \in {"sent", "suppressed", "failed"}
    BY DEF Counter
  <2>4. stats' \in [{"processed", "sent", "suppressed", "failed"} -> Nat]
    BY <1>5, <2>3 DEF Save, ControlOK
  <2> QED
    BY <1>5, <2>1, <2>2, <2>4 DEF Save, ControlOK, redis
<1> QED
    BY <1>1, <1>2, <1>3, <1>4, <1>5 DEF Step

LEMMA AbortControl ==
    ASSUME ControlOK, NEW r \in Results, Abort(r) PROVE ControlOK'
<1>1. pc' \in [Results -> PCs] /\ locks' \in SUBSET Keys
    BY KeyType DEF Abort, ControlOK, PCs
<1>2. DOMAIN alerts' \in SUBSET Results
    BY DEF Abort, Rows, ControlOK
<1> QED
    BY <1>1, <1>2 DEF Abort, ControlOK

LEMMA ControlNext == ControlOK /\ [Next]_vars => ControlOK'
<1> SUFFICES ASSUME ControlOK, [Next]_vars PROVE ControlOK'
    OBVIOUS
<1>1. ASSUME NEW k \in Keys, Expire(k) PROVE ControlOK'
    BY <1>1 DEF Expire, ControlOK
<1>2. CASE UNCHANGED vars
    BY <1>2 DEF vars, redis, history, ControlOK
<1> QED
    BY <1>1, <1>2, ProcessControl, StepControl, AbortControl DEF Next

-----------------------------------------------------------------------------
(* The alerts of a cooldown.                                               *)

\* The calls that have found no cooldown of k and are about to start one.
Setting(k) == {r \in Results : pc[r] = "setex" /\ Key(r) = k}

\* A call that finds no lock of k finds none of k routed either, and the calls
\* between GET and SETEX are under way, so that they are Concurrency at most.
CooldownInv ==
    /\ Cardinality(InFlight) <= Concurrency
    /\ connected => \A k \in Keys :
          /\ k \notin locks => routed[k] = 0
          /\ routed[k] + Cardinality(Setting(k)) <= Concurrency

LEMMA SettingInFlight ==
    ASSUME NEW k
    PROVE  /\ IsFiniteSet(Setting(k)) /\ Cardinality(Setting(k)) \in Nat
           /\ Cardinality(Setting(k)) <= Cardinality(InFlight)
<1>1. Setting(k) \in SUBSET InFlight
    BY DEF Setting, InFlight
<1> QED
    BY <1>1, InFlightFinite, FS_Subset, FS_CardinalityType

\* A call begins, goes on or ends.
LEMMA InFlightSteps ==
    ASSUME ControlOK, NEW r \in Results,
           NEW l \in PCs, pc' = [pc EXCEPT ![r] = l], pc[r] # "done", l # "new"
    PROVE  /\ IsFiniteSet(InFlight')
           /\ InFlight' = IF l = "done" THEN InFlight \ {r} ELSE InFlight \cup {r}
           /\ Cardinality(InFlight') =
                IF l = "done"
                THEN IF pc[r] = "new" THEN Cardinality(InFlight) ELSE Cardinality(InFlight) - 1
                ELSE IF pc[r] = "new" THEN Cardinality(InFlight) + 1 ELSE Cardinality(InFlight)
           /\ \A k \in Keys :
                Setting(k)' = IF l = "setex" /\ k = Key(r) THEN Setting(k) \cup {r}
                                                           ELSE Setting(k) \ {r}
<1>1. InFlight' = IF l = "done" THEN InFlight \ {r} ELSE InFlight \cup {r}
    BY DEF InFlight, ControlOK
<1>2. r \in InFlight <=> pc[r] # "new"
    BY DEF InFlight
<1>3. Cardinality(InFlight') =
        IF l = "done"
        THEN IF pc[r] = "new" THEN Cardinality(InFlight) ELSE Cardinality(InFlight) - 1
        ELSE IF pc[r] = "new" THEN Cardinality(InFlight) + 1 ELSE Cardinality(InFlight)
    BY <1>1, <1>2, InFlightFinite, FS_AddElement, FS_RemoveElement
<1>0. IsFiniteSet(InFlight')
    BY <1>1, InFlightFinite, FS_AddElement, FS_RemoveElement
<1>4. ASSUME NEW k \in Keys
      PROVE  Setting(k)' = IF l = "setex" /\ k = Key(r) THEN Setting(k) \cup {r}
                                                        ELSE Setting(k) \ {r}
    BY DEF Setting, ControlOK, Key
<1> QED
    BY <1>0, <1>1, <1>3, <1>4

\* A step at which a call of process() begins, goes on or ends.
CallSteps(r) ==
    pc[r] # "done" /\ \E l \in PCs \ {"new"} : pc' = [pc EXCEPT ![r] = l]

LEMMA CooldownStep ==
    ASSUME ControlOK, CooldownInv, NEW r \in Results, CallSteps(r),
           connected' = connected,
           pc[r] = "new" => Cardinality(InFlight) < Concurrency,
           pc'[r] = "setex" => Key(r) \notin locks,
           locks \subseteq locks',
           connected =>
             \/ UNCHANGED routed
             \/ /\ pc[r] = "setex" /\ pc'[r] # "setex" /\ Key(r) \in locks'
                /\ routed' = [routed EXCEPT ![Key(r)] = @ + 1]
    PROVE  CooldownInv'
<1>1. PICK l \in PCs \ {"new"} : pc[r] # "done" /\ pc' = [pc EXCEPT ![r] = l]
    BY DEF CallSteps
<1>2. pc'[r] = l
    BY <1>1 DEF ControlOK
<1>3. /\ IsFiniteSet(InFlight')
      /\ Cardinality(InFlight') <= Concurrency /\ Cardinality(InFlight') \in Nat
  <2>1. l \in PCs /\ l # "new"
    BY <1>1
  <2>2. /\ IsFiniteSet(InFlight')
        /\ Cardinality(InFlight') =
             IF l = "done"
             THEN IF pc[r] = "new" THEN Cardinality(InFlight) ELSE Cardinality(InFlight) - 1
             ELSE IF pc[r] = "new" THEN Cardinality(InFlight) + 1 ELSE Cardinality(InFlight)
    BY <1>1, <2>1, InFlightSteps
  <2>3. Cardinality(InFlight') \in Nat
    BY <2>2, FS_CardinalityType
  <2> QED
    BY <2>2, <2>3, InFlightFinite, AlertAssumption DEF CooldownInv
<1>4. ASSUME connected, NEW k \in Keys
      PROVE  /\ k \notin locks' => routed'[k] = 0
             /\ routed'[k] + Cardinality(Setting(k)') <= Concurrency
  <2>1. /\ IsFiniteSet(Setting(k)) /\ Cardinality(Setting(k)) \in Nat
        /\ Cardinality(Setting(k)') \in Nat
        /\ Cardinality(Setting(k)') <= Cardinality(InFlight')
    <3>1. Setting(k)' \in SUBSET InFlight'
      BY DEF Setting, InFlight
    <3> QED
      BY <1>3, <3>1, SettingInFlight, FS_Subset, FS_CardinalityType
  <2>2. routed[k] \in Nat /\ (k \notin locks => routed[k] = 0)
        /\ routed[k] + Cardinality(Setting(k)) <= Concurrency
    BY <1>4 DEF ControlOK, CooldownInv
  <2>3. CASE l = "setex" /\ k = Key(r)
    <3>1. routed'[k] = 0
      BY <1>2, <1>4, <2>2, <2>3
    <3> QED
      BY <1>3, <2>1, <3>1, AlertAssumption
  <2>4. CASE ~ (l = "setex" /\ k = Key(r)) /\ UNCHANGED routed
    <3>1. Cardinality(Setting(k)') <= Cardinality(Setting(k))
      <4>1. Setting(k)' = Setting(k) \ {r}
        BY <1>1, <2>4, InFlightSteps
      <4>2. Cardinality(Setting(k) \ {r}) <= Cardinality(Setting(k))
        <5>1. Cardinality(Setting(k) \ {r}) =
                IF r \in Setting(k) THEN Cardinality(Setting(k)) - 1 ELSE Cardinality(Setting(k))
          BY <2>1, FS_RemoveElement
        <5> QED
          BY <2>1, <5>1
      <4> QED
        BY <4>1, <4>2
    <3> QED
      BY <2>1, <2>2, <2>4, <3>1, AlertAssumption
  <2>5. CASE /\ pc[r] = "setex" /\ l # "setex" /\ Key(r) \in locks'
             /\ routed' = [routed EXCEPT ![Key(r)] = @ + 1]
    <3>1. Cardinality(Setting(k)') =
            IF k = Key(r) THEN Cardinality(Setting(k)) - 1 ELSE Cardinality(Setting(k))
      <4>1. r \in Setting(k) <=> k = Key(r)
        BY <2>5 DEF Setting
      <4>2. Setting(k)' = Setting(k) \ {r}
        BY <1>1, <2>5, InFlightSteps
      <4> QED
        BY <2>1, <4>1, <4>2, FS_RemoveElement
    <3>2. routed'[k] = IF k = Key(r) THEN routed[k] + 1 ELSE routed[k]
      BY <2>5, KeyType DEF ControlOK
    <3> QED
      BY <2>1, <2>2, <2>5, <3>1, <3>2, AlertAssumption
  <2> QED
    BY <1>2, <1>4, <2>3, <2>4, <2>5
<1> QED
    BY <1>3, <1>4 DEF CooldownInv

LEMMA CooldownInit == Init => CooldownInv
<1> SUFFICES ASSUME Init PROVE CooldownInv
    OBVIOUS
<1>1. InFlight = {} /\ \A k \in Keys : Setting(k) = {}
    BY DEF Init, InFlight, Setting
<1>2. Cardinality(InFlight) = 0 /\ \A k \in Keys : Cardinality(Setting(k)) = 0
    BY <1>1, FS_EmptySet
<1>3. \A k \in Keys : routed[k] = 0
    BY DEF Init
<1> QED
    BY <1>2, <1>3, AlertAssumption DEF CooldownInv

LEMMA CooldownNext == ControlOK /\ CooldownInv /\ [Next]_vars => CooldownInv'
<1> SUFFICES ASSUME ControlOK, CooldownInv, [Next]_vars PROVE CooldownInv'
    OBVIOUS
<1>1. ASSUME NEW r \in Results, Process(r) PROVE CooldownInv'
  <2>1. CallSteps(r)
    BY <1>1 DEF Process, Suppress, Route, CallSteps, PCs
  <2>2. /\ pc[r] = "new" /\ Cardinality(InFlight) < Concurrency /\ UNCHANGED redis
        /\ pc'[r] # "setex" /\ (connected => UNCHANGED routed)
    BY <1>1 DEF Process, Suppress, Route, ControlOK
  <2> QED
    BY <2>1, <2>2, CooldownStep DEF redis
<1>2. ASSUME NEW r \in Results, CheckCooldown(r) PROVE CooldownInv'
  <2>1. CallSteps(r)
    BY <1>2 DEF CheckCooldown, Suppress, CallSteps, PCs
  <2>2. /\ pc[r] = "get" /\ UNCHANGED redis /\ UNCHANGED routed
        /\ pc'[r] = "setex" => Key(r) \notin locks
    BY <1>2 DEF CheckCooldown, Suppress, ControlOK
  <2> QED
    BY <2>1, <2>2, CooldownStep DEF redis
<1>3. ASSUME NEW r \in Results, StartCooldown(r) PROVE CooldownInv'
  <2>1. CallSteps(r)
    BY <1>3 DEF StartCooldown, Route, CallSteps, PCs
  <2>2. /\ pc[r] = "setex" /\ pc'[r] # "setex" /\ connected' = connected
        /\ locks' = locks \cup {Key(r)}
        /\ routed' = [routed EXCEPT ![Key(r)] = @ + 1]
    BY <1>3 DEF StartCooldown, Route, ControlOK
  <2> QED
    BY <2>1, <2>2, CooldownStep
<1>4. ASSUME NEW r \in Results, NEW ch \in Channels, Deliver(r, ch) PROVE CooldownInv'
    BY <1>4 DEF Deliver, redis, CooldownInv, InFlight, Setting
<1>5. ASSUME NEW r \in Results, ApplyResults(r) \/ Save(r) PROVE CooldownInv'
  <2>1. CallSteps(r)
    BY <1>5 DEF ApplyResults, Save, CallSteps, PCs
  <2>2. /\ pc[r] # "new" /\ pc'[r] # "setex" /\ UNCHANGED redis /\ UNCHANGED routed
    BY <1>5 DEF ApplyResults, Save, history, ControlOK
  <2> QED
    BY <2>1, <2>2, CooldownStep DEF redis
<1>6. ASSUME NEW r \in Results, Abort(r) PROVE CooldownInv'
  <2>1. CallSteps(r)
    BY <1>6 DEF Abort, InFlight, CallSteps, PCs
  <2>2. /\ pc[r] # "new" /\ pc'[r] # "setex" /\ UNCHANGED <<connected, routed>>
        /\ locks \subseteq locks'
    BY <1>6 DEF Abort, InFlight, ControlOK
  <2> QED
    BY <2>1, <2>2, CooldownStep
<1>7. ASSUME NEW k \in Keys, Expire(k) PROVE CooldownInv'
  <2>1. InFlight' = InFlight /\ \A q \in Keys : Setting(q)' = Setting(q)
    BY <1>7 DEF Expire, InFlight, Setting
  <2>2. \A q \in Keys : routed'[q] = IF q = k THEN 0 ELSE routed[q]
    BY <1>7 DEF Expire, ControlOK
  <2>3. \A q \in Keys : Cardinality(Setting(q)) <= Concurrency /\ Cardinality(Setting(q)) \in Nat
    BY SettingInFlight, InFlightFinite, AlertAssumption DEF CooldownInv
  <2> QED
    BY <1>7, <2>1, <2>2, <2>3, AlertAssumption DEF CooldownInv, Expire
<1>8. CASE UNCHANGED vars
    BY <1>8 DEF vars, redis, history, CooldownInv, InFlight, Setting
<1> QED
    BY <1>1, <1>2, <1>3, <1>4, <1>5, <1>6, <1>7, <1>8 DEF Next, Step

\* In one cooldown a key is routed at most once for each call that can be under
\* way, whatever the order of GET and SETEX of the calls.
THEOREM CooldownBoundsRouting == Spec => []RoutedPerCooldown
<1>1. ControlOK /\ CooldownInv => RoutedPerCooldown
  <2> SUFFICES ASSUME ControlOK, CooldownInv, connected, NEW k \in Keys
               PROVE  routed[k] <= Concurrency
      BY DEF RoutedPerCooldown
  <2> QED
      BY SettingInFlight, AlertAssumption DEF ControlOK, CooldownInv
<1> QED
    BY <1>1, ControlInit, ControlNext, CooldownInit, CooldownNext, PTL DEF Spec

-----------------------------------------------------------------------------
(* The counters.                                                           *)

\* Every call that began is counted by its outcome, under way, or broken off.
CallsAreCounted ==
    /\ stats.processed = stats.sent + stats.suppressed + stats.failed
                           + Cardinality(InFlight) + Cardinality(aborted)
    /\ \A r \in aborted : pc[r] = "done"

LEMMA AbortedFinite ==
    ASSUME ControlOK
    PROVE  IsFiniteSet(aborted) /\ Cardinality(aborted) \in Nat
BY AlertAssumption, FS_Subset, FS_CardinalityType DEF ControlOK

\* The number of calls under way after a step of one of them.
LEMMA InFlightAfter ==
    ASSUME ControlOK, NEW r \in Results, CallSteps(r)
    PROVE  Cardinality(InFlight') =
             IF pc'[r] = "done"
             THEN IF pc[r] = "new" THEN Cardinality(InFlight) ELSE Cardinality(InFlight) - 1
             ELSE IF pc[r] = "new" THEN Cardinality(InFlight) + 1 ELSE Cardinality(InFlight)
<1>1. PICK l \in PCs \ {"new"} : pc[r] # "done" /\ pc' = [pc EXCEPT ![r] = l]
    BY DEF CallSteps
<1>2. pc'[r] = l /\ l \in PCs /\ l # "new"
    BY <1>1 DEF ControlOK
<1> QED
    BY <1>1, <1>2, InFlightSteps

LEMMA CountedNext == ControlOK /\ CallsAreCounted /\ [Next]_vars => CallsAreCounted'
<1> SUFFICES ASSUME ControlOK, CallsAreCounted, [Next]_vars PROVE CallsAreCounted'
    OBVIOUS
<1> USE DEF CallsAreCounted
<1>0. /\ stats.processed \in Nat /\ stats.sent \in Nat
      /\ stats.suppressed \in Nat /\ stats.failed \in Nat
      /\ Cardinality(InFlight) \in Nat /\ Cardinality(aborted) \in Nat
      /\ IsFiniteSet(aborted)
    BY InFlightFinite, AbortedFinite DEF ControlOK
<1>1. ASSUME NEW r \in Results, Process(r) PROVE CallsAreCounted'
  <2>1. CallSteps(r) /\ pc[r] = "new" /\ pc'[r] # "done"
    BY <1>1 DEF Process, Suppress, Route, CallSteps, PCs, ControlOK
  <2>2. Cardinality(InFlight') = Cardinality(InFlight) + 1
    BY <2>1, InFlightAfter
  <2>3. /\ stats'.processed = stats.processed + 1 /\ stats'.sent = stats.sent
        /\ stats'.suppressed = stats.suppressed /\ stats'.failed = stats.failed
    BY <1>1 DEF Process, ControlOK
  <2>4. aborted' = aborted /\ \A q \in aborted : pc'[q] = "done"
    BY <1>1, <2>1 DEF Process, CallSteps, ControlOK
  <2> QED
    BY <1>0, <2>2, <2>3, <2>4
<1>2. ASSUME NEW r \in Results,
             CheckCooldown(r) \/ StartCooldown(r) \/ ApplyResults(r)
      PROVE  CallsAreCounted'
  <2>1. CallSteps(r) /\ pc[r] # "new" /\ pc'[r] # "done"
    BY <1>2 DEF CheckCooldown, StartCooldown, ApplyResults, Suppress, Route,
                CallSteps, PCs, ControlOK
  <2>2. Cardinality(InFlight') = Cardinality(InFlight)
    BY <2>1, InFlightAfter
  <2>3. UNCHANGED <<stats, aborted>>
    BY <1>2 DEF CheckCooldown, StartCooldown, ApplyResults, history
  <2>4. \A q \in aborted : pc'[q] = "done"
    BY <2>1 DEF CallSteps, ControlOK
  <2> QED
    BY <2>2, <2>3, <2>4
<1>3. ASSUME NEW r \in Results, NEW ch \in Channels, Deliver(r, ch)
      PROVE  CallsAreCounted'
    BY <1>3 DEF Deliver, InFlight
<1>4. ASSUME NEW r \in Results, Save(r) PROVE CallsAreCounted'
  <2>1. CallSteps(r) /\ pc[r] # "new" /\ pc'[r] = "done"
    BY <1>4 DEF Save, CallSteps, PCs, ControlOK
  <2>2. Cardinality(InFlight') = Cardinality(InFlight) - 1
    BY <2>1, InFlightAfter
  <2>3. PICK c \in {"sent", "suppressed", "failed"} : stats' = [stats EXCEPT ![c] = @ + 1]
    BY <1>4 DEF Save, Counter
  <2>4. /\ stats'.processed = stats.processed
        /\ stats'.sent + stats'.suppressed + stats'.failed
             = stats.sent + stats.suppressed + stats.failed + 1
    BY <1>0, <2>3 DEF ControlOK
  <2>5. aborted' = aborted /\ \A q \in aborted : pc'[q] = "done"
    BY <1>4, <2>1 DEF Save, CallSteps, ControlOK
  <2>6. /\ stats'.sent \in Nat /\ stats'.suppressed \in Nat /\ stats'.failed \in Nat
    BY <1>0, <2>3 DEF ControlOK
  <2> QED
    BY <1>0, <2>2, <2>4, <2>5, <2>6
<1>5. ASSUME NEW r \in Results, Abort(r) PROVE CallsAreCounted'
  <2>1. CallSteps(r) /\ pc[r] # "new" /\ pc'[r] = "done"
    BY <1>5 DEF Abort, InFlight, CallSteps, PCs, ControlOK
  <2>2. Cardinality(InFlight') = Cardinality(InFlight) - 1
    BY <2>1, InFlightAfter
  <2>3. stats' = stats /\ aborted' = aborted \cup {r}
    BY <1>5 DEF Abort
  <2>4. r \notin aborted
    BY <2>1 DEF CallSteps
  <2>5. Cardinality(aborted') = Cardinality(aborted) + 1
    BY <1>0, <2>3, <2>4, FS_AddElement
  <2>6. \A q \in aborted' : pc'[q] = "done"
    BY <2>1, <2>3 DEF CallSteps, ControlOK
  <2> QED
    BY <1>0, <2>2, <2>3, <2>5, <2>6
<1>6. ASSUME NEW k \in Keys, Expire(k) PROVE CallsAreCounted'
    BY <1>6 DEF Expire, InFlight
<1>7. CASE UNCHANGED vars
    BY <1>7 DEF vars, history, InFlight
<1> QED
    BY <1>1, <1>2, <1>3, <1>4, <1>5, <1>6, <1>7 DEF Next, Step

LEMMA CountedInit == Init => CallsAreCounted
<1> SUFFICES ASSUME Init PROVE CallsAreCounted
    OBVIOUS
<1>1. InFlight = {} /\ aborted = {}
    BY DEF Init, InFlight
<1>2. Cardinality(InFlight) = 0 /\ Cardinality(aborted) = 0
    BY <1>1, FS_EmptySet
<1> QED
    BY <1>1, <1>2 DEF Init, CallsAreCounted

\* The counters of the dashboard lose no call, whichever calls broke off.
THEOREM NoCallIsLost == Spec => []CallsAreCounted
BY ControlInit, ControlNext, CountedInit, CountedNext, PTL DEF Spec

-----------------------------------------------------------------------------
(* The rows.                                                               *)

\* A finished alert does not change, and the rows are those of finished alerts.
LEMMA AlertSteps ==
    ASSUME ControlOK, NEW r \in Results, Process(r) \/ Step(r) \/ Abort(r)
    PROVE  /\ pc[r] # "done"
           /\ \A q \in Results \ {r} : pc'[q] = pc[q] /\ alert'[q] = alert[q]
<1>1. CASE Process(r)
    BY <1>1 DEF Process, Suppress, Route, ControlOK
<1>2. CASE CheckCooldown(r) \/ StartCooldown(r)
    BY <1>2 DEF CheckCooldown, StartCooldown, Suppress, Route, ControlOK
<1>3. ASSUME NEW ch \in Channels, Deliver(r, ch)
      PROVE  pc[r] # "done" /\ UNCHANGED <<pc, alert>>
    BY <1>3 DEF Deliver
<1>4. CASE ApplyResults(r) \/ Save(r)
    BY <1>4 DEF ApplyResults, Save, ControlOK
<1>5. CASE Abort(r)
    BY <1>5 DEF Abort, InFlight, ControlOK
<1> QED
    BY <1>1, <1>2, <1>3, <1>4, <1>5 DEF Step

\* The rows and the messages after a step of the call r.
LEMMA RowSteps ==
    ASSUME ControlOK, NEW r \in Results, Process(r) \/ Step(r) \/ Abort(r)
    PROVE  /\ \/ alerts' = alerts
              \/ alerts' = Rows(r) /\ pc'[r] = "done" /\ alert'[r] = alert[r]
           /\ \A q \in Results \ {r} : \A ch : <<q, ch>> \in notified' => <<q, ch>> \in notified
           /\ pc'[r] = "done" => alerts' = Rows(r) \/ r \in unsaved' \cup aborted'
           /\ unsaved \subseteq unsaved' /\ aborted \subseteq aborted'
<1>1. CASE Process(r)
    BY <1>1 DEF Process, Suppress, Route, ControlOK
<1>2. CASE CheckCooldown(r) \/ StartCooldown(r)
    BY <1>2 DEF CheckCooldown, StartCooldown, Suppress, Route, ControlOK
<1>3. ASSUME NEW ch \in Channels, Deliver(r, ch)
      PROVE  /\ UNCHANGED <<alerts, unsaved, aborted>> /\ pc'[r] # "done"
             /\ notified' \subseteq notified \cup {<<r, ch>>}
    BY <1>3 DEF Deliver, Delivered, NotDelivered
<1>4. CASE ApplyResults(r)
    BY <1>4 DEF ApplyResults, history, ControlOK
<1>5. CASE Save(r)
    BY <1>5 DEF Save, ControlOK
<1>6. CASE Abort(r)
  <2>1. /\ aborted' = aborted \cup {r} /\ UNCHANGED <<unsaved, alert>> /\ pc'[r] = "done"
        /\ alerts' = alerts \/ alerts' = Rows(r)
    BY <1>6 DEF Abort, ControlOK
  <2>2. PICK s : notified' = notified \cup ({r} \X s)
    BY <1>6 DEF Abort
  <2> QED
    BY <2>1, <2>2
<1> QED
    BY <1>1, <1>2, <1>3, <1>4, <1>5, <1>6 DEF Step

LEMMA RowsNext == ControlOK /\ RowsTellTheOutcome /\ [Next]_vars => RowsTellTheOutcome'
<1> SUFFICES ASSUME ControlOK, RowsTellTheOutcome, [Next]_vars
             PROVE  RowsTellTheOutcome'
    OBVIOUS
<1>1. ASSUME NEW r \in Results, Process(r) \/ Step(r) \/ Abort(r)
      PROVE  RowsTellTheOutcome'
  <2>1. ASSUME NEW q \in DOMAIN alerts'
        PROVE  alerts'[q] = alert'[q].status /\ pc'[q] = "done"
    <3>1. CASE q = r
      <4>1. r \notin DOMAIN alerts
        BY <1>1, AlertSteps DEF RowsTellTheOutcome
      <4>2. alerts' = Rows(r) /\ pc'[r] = "done" /\ alert'[r] = alert[r]
        BY <1>1, <2>1, <3>1, <4>1, RowSteps
      <4> QED
        BY <3>1, <4>2 DEF Rows
    <3>2. CASE q # r
      <4>1. q \in DOMAIN alerts /\ alerts'[q] = alerts[q]
        BY <1>1, <2>1, <3>2, RowSteps DEF Rows
      <4>2. q \in Results
        BY <4>1 DEF ControlOK
      <4> QED
        BY <1>1, <3>2, <4>1, <4>2, AlertSteps DEF RowsTellTheOutcome
    <3> QED
      BY <3>1, <3>2
  <2>2. ASSUME NEW q \in Results, NEW ch \in Channels,
               <<q, ch>> \in notified', pc'[q] = "done", q \notin unsaved' \cup aborted'
        PROVE  q \in DOMAIN alerts'
    <3>1. CASE q = r
      BY <1>1, <2>2, <3>1, RowSteps DEF Rows
    <3>2. CASE q # r
      <4>1. <<q, ch>> \in notified /\ pc[q] = "done" /\ q \notin unsaved \cup aborted
        BY <1>1, <2>2, <3>2, AlertSteps, RowSteps
      <4>2. q \in DOMAIN alerts
        BY <4>1 DEF RowsTellTheOutcome
      <4> QED
        BY <1>1, <4>2, RowSteps DEF Rows
    <3> QED
      BY <3>1, <3>2
  <2> QED
    BY <2>1, <2>2 DEF RowsTellTheOutcome
<1>2. ASSUME NEW k \in Keys, Expire(k) PROVE RowsTellTheOutcome'
    BY <1>2 DEF Expire, RowsTellTheOutcome
<1>3. CASE UNCHANGED vars
    BY <1>3 DEF vars, history, RowsTellTheOutcome
<1> QED
    BY <1>1, <1>2, <1>3 DEF Next

\* The row of an alert has its last status, and an alert that reached a channel
\* has a row unless its save failed or its call broke off.
THEOREM RowsAreTrue == Spec => []RowsTellTheOutcome
<1>1. Init => RowsTellTheOutcome
    BY DEF Init, RowsTellTheOutcome
<1> QED
    BY <1>1, ControlInit, ControlNext, RowsNext, PTL DEF Spec

-----------------------------------------------------------------------------
(* The confidence gate.                                                    *)

\* The gate keeps a result from Redis and from the channels.
GateHolds ==
    \A r \in Results : ~ Confident(r) =>
        /\ pc[r] \in {"new", "save", "done"}
        /\ \A ch \in Channels : <<r, ch>> \notin notified
        /\ r \notin cooled
        /\ pc[r] = "new" => alert[r] = NewAlert
        /\ pc[r] # "new" => alert[r].status = "suppressed"

LEMMA GateNext == ControlOK /\ GateHolds /\ [Next]_vars => GateHolds'
<1> SUFFICES ASSUME ControlOK, GateHolds, [Next]_vars,
                    NEW q \in Results, ~ Confident(q)
             PROVE  /\ pc'[q] \in {"new", "save", "done"}
                    /\ \A ch \in Channels : <<q, ch>> \notin notified'
                    /\ q \notin cooled'
                    /\ pc'[q] = "new" => alert'[q] = NewAlert
                    /\ pc'[q] # "new" => alert'[q].status = "suppressed"
    BY DEF GateHolds, Confident, HasRule, Rule
<1>0. /\ pc[q] \in {"new", "save", "done"}
      /\ \A ch \in Channels : <<q, ch>> \notin notified
      /\ q \notin cooled
      /\ pc[q] = "new" => alert[q] = NewAlert
      /\ pc[q] # "new" => alert[q].status = "suppressed"
    BY DEF GateHolds
<1>1. ASSUME NEW r \in Results, r # q, Process(r) \/ Step(r) \/ Abort(r)
      PROVE  UNCHANGED <<pc[q], alert[q]>> /\ (q \in cooled' => q \in cooled)
             /\ \A ch : <<q, ch>> \in notified' => <<q, ch>> \in notified
  <2>1. q \in cooled' => q \in cooled
    BY <1>1 DEF Process, Step, CheckCooldown, StartCooldown, Deliver, ApplyResults,
                Save, Abort, history
  <2> QED
    BY <1>1, <2>1, AlertSteps, RowSteps
<1>2. CASE Process(q)
  <2>1. pc[q] = "new" /\ Suppress(q) /\ UNCHANGED <<notified, cooled>>
    BY <1>2 DEF Process
  <2>2. pc'[q] = "save" /\ alert'[q] = [NewAlert EXCEPT !.status = "suppressed"]
    BY <1>0, <2>1 DEF Suppress, ControlOK
  <2>3. alert'[q].status = "suppressed"
    BY <2>2 DEF NewAlert
  <2> QED
    BY <1>0, <2>1, <2>2, <2>3
<1>3. CASE Save(q)
    BY <1>0, <1>3 DEF Save, ControlOK
<1>4. CASE Abort(q)
  <2>1. /\ pc[q] = "save" /\ pc'[q] = "done" /\ UNCHANGED <<alert, cooled>>
    BY <1>0, <1>4 DEF Abort, InFlight, ControlOK
  <2>2. notified' = notified
    BY <1>4, <2>1 DEF Abort
  <2> QED
    BY <1>0, <2>1, <2>2
<1>5. ~ CheckCooldown(q) /\ ~ StartCooldown(q) /\ ~ ApplyResults(q)
      /\ \A ch \in Channels : ~ Deliver(q, ch)
    BY <1>0 DEF CheckCooldown, StartCooldown, ApplyResults, Deliver
<1>6. ASSUME NEW k \in Keys, Expire(k) PROVE UNCHANGED <<pc, alert, notified, cooled>>
    BY <1>6 DEF Expire
<1>7. CASE UNCHANGED <<pc, alert, notified, cooled>>
    BY <1>0, <1>7
<1>8. CASE \E r \in Results \ {q} : Process(r) \/ Step(r) \/ Abort(r)
    BY <1>0, <1>1, <1>8
<1> QED
    BY <1>2, <1>3, <1>4, <1>5, <1>6, <1>7, <1>8 DEF Next, Step, vars, history

LEMMA GateInit == Init => GateHolds
BY DEF Init, GateHolds

\* A result below the confidence of its rule notifies nobody and does not touch
\* the cooldown of its key.
THEOREM GateIsSilent == Spec => []GateHolds
BY ControlInit, ControlNext, GateInit, GateNext, PTL DEF Spec

\* What the graph makes of a failure has no confidence.
LEMMA FailuresHaveNoConfidence ==
    ASSUME NEW r \in Results, ~ Produced(r).success,
           Reply[r].kind \in {"answer", "failure"}
    PROVE  ConfidenceOf[r] = 0
<1>1. Reply[r].kind = "failure"
    BY DEF Produced, AnalysisResult, LlmAnalyze
<1>2. Produced(r).analysis = Fallback(Request[r])
    BY <1>1 DEF Produced, AnalysisResult, LlmAnalyze
<1>3. Clamp(0) = 0
  <2>1. Min({100, 0}) = 0
    BY DEF Min
  <2>2. Max({0, 0}) = 0
    BY DEF Max
  <2> QED
    BY <2>1, <2>2 DEF Clamp
<1>4. Produced(r).analysis.confidence = 0
    BY <1>2, <1>3 DEF Fallback, RootCauseAnalysis
<1>5. Produced(r).analysis = [confidence |-> ConfidenceOf[r], severity |-> SeverityOf[r]]
    BY GraphAssumption
<1> QED
    BY <1>4, <1>5

\* The severities of failed analyses have rules that ask for some confidence,
\* as those for medium and worse in router.py:33 do; the queue drops the rest.
GateAssumption ==
    \A r \in Results :
        /\ Reply[r].kind \in {"answer", "failure"}
        /\ ~ Produced(r).success /\ HasRule(r) => Rule(r).require_confidence_above > 0

\* Then an analysis that failed alerts nobody and starts no cooldown, whatever
\* else is under way.
THEOREM FailuresAreSilent ==
    ASSUME GateAssumption
    PROVE  Spec => []FailedAnalysesStaySilent
<1>1. ASSUME NEW r \in Results, ~ Produced(r).success PROVE ~ Confident(r)
  <2>1. ConfidenceOf[r] = 0
    BY <1>1, FailuresHaveNoConfidence DEF GateAssumption
  <2>2. HasRule(r) => Rule(r).require_confidence_above > 0
    BY <1>1 DEF GateAssumption
  <2>3. HasRule(r) => Rule(r).require_confidence_above \in 0 .. 100
    BY AlertAssumption DEF HasRule, Rule
  <2> QED
    BY <2>1, <2>2, <2>3 DEF Confident
<1>2. GateHolds /\ RowsTellTheOutcome => FailedAnalysesStaySilent
  <2> SUFFICES ASSUME GateHolds, RowsTellTheOutcome,
                      NEW r \in Results, ~ Produced(r).success
               PROVE  /\ \A ch \in Channels : <<r, ch>> \notin notified
                      /\ pc[r] \notin {"get", "setex", "deliver"} /\ r \notin cooled
                      /\ r \in DOMAIN alerts => alerts[r] = "suppressed"
    BY DEF FailedAnalysesStaySilent
  <2>1. ~ Confident(r)
    BY <1>1
  <2> QED
    BY <2>1 DEF GateHolds, RowsTellTheOutcome
<1> QED
    BY <1>2, GateIsSilent, RowsAreTrue, PTL

-----------------------------------------------------------------------------
(* Induction.  The induction theorems of the library have a predicate for  *)
(* their parameter; here a set takes its place, and its least element that *)
(* of the induction step.                                                  *)

LessThan == OpToRel(<, Nat)

LEMMA Least ==
    ASSUME NEW T \in SUBSET Nat, T # {}
    PROVE  \E m \in T : \A n \in T : m <= n
<1>1. IsWellFoundedOn(LessThan, Nat)
    BY NatLessThanWellFounded DEF LessThan
<1>2. LessThan = {p \in Nat \X Nat : p[1] < p[2]}
    BY DEF LessThan, OpToRel
<1>3. PICK m \in T : \A n \in T : <<n, m>> \notin LessThan
    BY <1>1, WFMin
<1>4. \A n \in T : ~ (n < m)
    BY <1>2, <1>3
<1> QED
    BY <1>3, <1>4

\* A set that has 0 and the successor of each of its elements has them all.
LEMMA Induction ==
    ASSUME NEW n \in Nat, NEW T, 0 \in T, \A i \in 1..n : i - 1 \in T => i \in T
    PROVE  0..n \subseteq T
<1> DEFINE Rest == {i \in 0..n : i \notin T}
<1> SUFFICES ASSUME Rest # {} PROVE FALSE
    OBVIOUS
<1>1. PICK m \in Rest : \A i \in Rest : m <= i
  <2>1. Rest \in SUBSET Nat
    OBVIOUS
  <2> QED
    BY <2>1, Least
<1>2. m \in 1..n /\ m - 1 \in 0..n /\ m - 1 \in Nat
    OBVIOUS
<1>3. m - 1 \notin Rest
    BY <1>1, <1>2
<1> QED
    BY <1>2, <1>3

\* f begins at base, and each of its values is a step of the one before.
IsRun(f, n, S, base, step) ==
    f \in [0..n -> S] /\ f[0] = base /\ \A i \in 1..n : f[i] = step[i][f[i - 1]]

Steps(n, S) == [1..n -> [S -> S]]

\* What a recursive function needs: some function has its equation.
LEMMA Recursion ==
    ASSUME NEW n \in Nat, NEW S, NEW base \in S, NEW step \in Steps(n, S)
    PROVE  \E f : IsRun(f, n, S, base, step)
<1> DEFINE T == {m \in 0..n : \E f : IsRun(f, m, S, base, step)}
<1>1. 0 \in T
  <2>1. IsRun([i \in 0..0 |-> base], 0, S, base, step)
    BY DEF IsRun
  <2> QED
    BY <2>1
<1>2. ASSUME NEW i \in 1..n, i - 1 \in T PROVE i \in T
  <2>1. PICK f : IsRun(f, i - 1, S, base, step)
    BY <1>2
  <2> DEFINE g == [j \in 0..i |-> IF j = i THEN step[i][f[i - 1]] ELSE f[j]]
  <2>2. i - 1 \in 0..(i - 1) /\ i \in Nat /\ 0 \in 0..i /\ 0 # i
    OBVIOUS
  <2>3. f[i - 1] \in S /\ step[i][f[i - 1]] \in S
    BY <2>1, <2>2 DEF IsRun, Steps
  <2>4. \A j \in 0..i : j # i => j \in 0..(i - 1)
    BY <2>2
  <2>5. g \in [0..i -> S]
    BY <2>1, <2>3, <2>4 DEF IsRun
  <2>6. g[0] = base
    BY <2>1, <2>2 DEF IsRun
  <2>7. ASSUME NEW j \in 1..i PROVE g[j] = step[j][g[j - 1]]
    <3>1. j \in 0..i /\ j - 1 \in 0..i /\ j - 1 # i
      OBVIOUS
    <3>2. g[j - 1] = f[j - 1]
      BY <3>1
    <3>3. CASE j = i
      BY <3>1, <3>2, <3>3
    <3>4. CASE j # i
      <4>1. j \in 1..(i - 1)
        BY <3>4
      <4> QED
        BY <2>1, <3>1, <3>2, <3>4, <4>1 DEF IsRun
    <3> QED
      BY <3>3, <3>4
  <2>8. IsRun(g, i, S, base, step)
    BY <2>5, <2>6, <2>7 DEF IsRun
  <2> QED
    BY <2>2, <2>8
<1> HIDE DEF T
<1>3. 0..n \subseteq T
    BY <1>1, <1>2, Induction
<1>4. n \in 0..n
    OBVIOUS
<1> QED
    BY <1>3, <1>4 DEF T

-----------------------------------------------------------------------------
(* What ApplyResults makes of the answers.                                 *)

AlertType == [status : Statuses, attempted : Seq(Channels), succeeded : Seq(Channels)]

\* The channels of r that gave the answer x.
Said(r, x) == {ch \in Channels : answer[r][ch] = x}

LEMMA AppendSet ==
    ASSUME NEW s \in Seq(Channels), NEW ch \in Channels
    PROVE  ToSet(Append(s, ch)) = ToSet(s) \cup {ch}
<1>1. /\ DOMAIN Append(s, ch) = 1..(Len(s) + 1) /\ DOMAIN s = 1..Len(s) /\ Len(s) \in Nat
      /\ Append(s, ch)[Len(s) + 1] = ch /\ \A i \in 1..Len(s) : Append(s, ch)[i] = s[i]
    OBVIOUS
<1> QED
    BY <1>1 DEF ToSet

LEMMA EmptySet ==
    ASSUME NEW s \in Seq(Channels)
    PROVE  (s = << >>) <=> (ToSet(s) = {})
<1>1. CASE s = << >>
    BY <1>1 DEF ToSet
<1>2. CASE s # << >>
  <2>1. 1 \in DOMAIN s
    BY <1>2
  <2> QED
    BY <1>2, <2>1 DEF ToSet
<1> QED
    BY <1>1, <1>2

LEMMA MarkTypes ==
    ASSUME NEW a \in AlertType, NEW ch \in Channels
    PROVE  /\ MarkSent(a, ch) \in AlertType /\ MarkFailed(a, ch) \in AlertType
           /\ MarkSent(a, ch).status = "sent"
           /\ MarkSent(a, ch).succeeded = Append(a.succeeded, ch)
           /\ MarkFailed(a, ch).succeeded = a.succeeded
           /\ MarkFailed(a, ch).status = IF a.succeeded = << >> THEN "failed" ELSE a.status
<1>1. /\ a.attempted \in Seq(Channels) /\ a.succeeded \in Seq(Channels)
    BY DEF AlertType
<1>2. /\ Append(a.attempted, ch) \in Seq(Channels) /\ Append(a.succeeded, ch) \in Seq(Channels)
    BY <1>1
<1> DEFINE b == [a EXCEPT !.succeeded = Append(a.succeeded, ch)]
           c == [a EXCEPT !.attempted = Append(a.attempted, ch)]
           status == IF a.succeeded = << >> THEN "failed" ELSE a.status
<1>3. b \in AlertType /\ b.succeeded = Append(a.succeeded, ch)
    BY <1>2 DEF AlertType
<1>4. c \in AlertType /\ c.succeeded = a.succeeded
    BY <1>2 DEF AlertType
<1>5. MarkSent(a, ch) = [b EXCEPT !.status = "sent"]
    BY DEF MarkSent, AlertType
<1>6. MarkFailed(a, ch) = [c EXCEPT !.status = status]
    BY DEF MarkFailed, AlertType
<1>7. status \in Statuses
    BY DEF AlertType, Statuses
<1> HIDE DEF b, c, status
<1>8. /\ MarkSent(a, ch) \in AlertType /\ MarkSent(a, ch).status = "sent"
      /\ MarkSent(a, ch).succeeded = Append(a.succeeded, ch)
    BY <1>3, <1>5 DEF AlertType, Statuses
<1>9. /\ MarkFailed(a, ch) \in AlertType /\ MarkFailed(a, ch).status = status
      /\ MarkFailed(a, ch).succeeded = a.succeeded
    BY <1>4, <1>6, <1>7 DEF AlertType
<1> QED
    BY <1>8, <1>9 DEF status

\* The alert after i results: the recursive function of Applied has its equation.
LEMMA AppliedUnfolds ==
    ASSUME NEW r \in Results, HasRule(r), alert[r] \in AlertType
    PROVE  LET channels == Rule(r).channels IN
           \E f \in [0..Len(channels) -> AlertType] :
               /\ Applied(r) = f[Len(channels)] /\ f[0] = alert[r]
               /\ \A i \in 1..Len(channels) :
                      f[i] = IF answer[r][channels[i]] = "success"
                             THEN MarkSent(f[i - 1], channels[i])
                             ELSE MarkFailed(f[i - 1], channels[i])
<1> DEFINE channels == Rule(r).channels
           n == Len(channels)
           Mark(i, a) == IF answer[r][channels[i]] = "success"
                         THEN MarkSent(a, channels[i]) ELSE MarkFailed(a, channels[i])
           step == [i \in 1..n |-> [a \in AlertType |-> Mark(i, a)]]
           Equation(g) == g = [i \in 0..n |-> IF i = 0 THEN alert[r] ELSE Mark(i, g[i - 1])]
           after == CHOOSE g : Equation(g)
<1>1. channels \in Seq(Channels) /\ n \in Nat /\ \A i \in 1..n : channels[i] \in Channels
    BY AlertAssumption DEF HasRule, Rule
<1>2. step \in Steps(n, AlertType)
    BY <1>1, MarkTypes DEF Steps
<1>3. PICK f \in [0..n -> AlertType] :
          f[0] = alert[r] /\ \A i \in 1..n : f[i] = step[i][f[i - 1]]
  <2> HIDE DEF step, n
  <2>2. \E f : IsRun(f, n, AlertType, alert[r], step)
    BY <1>1, <1>2, Recursion
  <2> QED
    BY <2>2 DEF IsRun
<1>4. \A i \in 1..n : f[i] = Mark(i, f[i - 1])
  <2> SUFFICES ASSUME NEW i \in 1..n PROVE f[i] = Mark(i, f[i - 1])
    OBVIOUS
  <2>1. i - 1 \in 0..n
    BY <1>1
  <2>2. f[i - 1] \in AlertType
    BY <1>3, <2>1
  <2> HIDE DEF Mark
  <2> QED
    BY <1>3, <2>2
<1>5. Equation(f)
  <2>1. \A i \in 0..n : i = 0 \/ i \in 1..n
    BY <1>1
  <2> HIDE DEF Mark, n
  <2> QED
    BY <1>3, <1>4, <2>1
<1>6. Equation(after)
  <2> HIDE DEF Equation
  <2> QED
    BY <1>5
<1>7. Applied(r) = after[n]
    BY DEF Applied
<1>8. \A i \in 0..n : after[i] = IF i = 0 THEN alert[r] ELSE Mark(i, after[i - 1])
  <2> HIDE DEF after, Mark, n
  <2> QED
    BY <1>6
<1>9. after \in [0..n -> AlertType]
  <2> DEFINE T == {i \in 0..n : after[i] \in AlertType}
  <2>1. 0 \in T
    BY <1>1, <1>8
  <2>2. ASSUME NEW i \in 1..n, i - 1 \in T PROVE i \in T
    <3>1. i \in 0..n /\ i # 0 /\ after[i - 1] \in AlertType
      BY <2>2
    <3>2. after[i] = Mark(i, after[i - 1])
      BY <1>8, <3>1
    <3> HIDE DEF after, channels, n
    <3>3. Mark(i, after[i - 1]) \in AlertType
      BY <1>1, <3>1, MarkTypes
    <3> QED
      BY <3>1, <3>2, <3>3
  <2>3. 0..n \subseteq T
    <3> HIDE DEF T, n
    <3> QED
      BY <1>1, <2>1, <2>2, Induction
  <2>4. DOMAIN after = 0..n /\ after = [i \in 0..n |-> after[i]]
    <3> HIDE DEF after, Mark, n
    <3> QED
      BY <1>6
  <2> HIDE DEF after
  <2> QED
    BY <2>3, <2>4
<1> HIDE DEF after
<1> QED
    BY <1>1, <1>7, <1>8, <1>9

\* An alert that was delivered has succeeded on the channels that said so; it
\* is sent if there is one, and failed otherwise.
LEMMA AppliedTells ==
    ASSUME NEW r \in Results, HasRule(r), alert[r] \in AlertType,
           alert[r].succeeded = << >>, Rule(r).channels # << >>
    PROVE  LET ok == {ch \in Attempted(r) : answer[r][ch] = "success"} IN
           /\ Applied(r) \in AlertType
           /\ ToSet(Applied(r).succeeded) = ok
           /\ Applied(r).status = IF ok # {} THEN "sent" ELSE "failed"
<1> DEFINE channels == Rule(r).channels
           n == Len(channels)
           ok(i) == {channels[j] : j \in {k \in 1..i : answer[r][channels[k]] = "success"}}
<1>1. PICK f \in [0..n -> AlertType] :
          /\ Applied(r) = f[n] /\ f[0] = alert[r]
          /\ \A i \in 1..n :
                 f[i] = IF answer[r][channels[i]] = "success"
                        THEN MarkSent(f[i - 1], channels[i])
                        ELSE MarkFailed(f[i - 1], channels[i])
    BY AppliedUnfolds
<1>2. /\ channels \in Seq(Channels) /\ n \in Nat /\ n # 0
      /\ \A i \in 1..n : channels[i] \in Channels
    BY AlertAssumption DEF HasRule, Rule
<1> DEFINE T == {i \in 0..n :
                    /\ ToSet(f[i].succeeded) = ok(i)
                    /\ i # 0 => f[i].status = IF ok(i) # {} THEN "sent" ELSE "failed"}
<1> HIDE DEF n, channels
<1>3. 0 \in T
    BY <1>1, <1>2 DEF ToSet
<1>4. ASSUME NEW i \in 1..n, i - 1 \in T PROVE i \in T
  <2>1. /\ i \in 0..n /\ i - 1 \in 0..n /\ i # 0
        /\ ToSet(f[i - 1].succeeded) = ok(i - 1)
        /\ i - 1 # 0 => f[i - 1].status = IF ok(i - 1) # {} THEN "sent" ELSE "failed"
    <3> HIDE DEF ok
    <3> QED
      BY <1>2, <1>4
  <2>7. f[i - 1] \in AlertType /\ f[i - 1].succeeded \in Seq(Channels)
    <3>1. f[i - 1] \in AlertType
      BY <1>1, <2>1
    <3> QED
      BY <3>1 DEF AlertType
  <2>2. ok(i) = IF answer[r][channels[i]] = "success" THEN ok(i - 1) \cup {channels[i]}
                                                      ELSE ok(i - 1)
    <3>1. \A k : k \in 1..i <=> k \in 1..(i - 1) \/ k = i
      OBVIOUS
    <3> QED
      BY <3>1
  <2>3. i - 1 = 0 => ok(i - 1) = {}
    OBVIOUS
  <2>4. f[i - 1].succeeded = << >> <=> ok(i - 1) = {}
    <3> HIDE DEF ok
    <3> QED
      BY <2>1, <2>7, EmptySet
  <2> HIDE DEF ok, T
  <2>8. /\ channels[i] \in Channels
        /\ f[i] = IF answer[r][channels[i]] = "success"
                  THEN MarkSent(f[i - 1], channels[i])
                  ELSE MarkFailed(f[i - 1], channels[i])
    BY <1>1, <1>2
  <2>5. CASE answer[r][channels[i]] = "success"
    <3>1. f[i].succeeded = Append(f[i - 1].succeeded, channels[i]) /\ f[i].status = "sent"
      <4>1. f[i] = MarkSent(f[i - 1], channels[i])
        BY <2>5, <2>8
      <4>2. /\ MarkSent(f[i - 1], channels[i]).succeeded = Append(f[i - 1].succeeded, channels[i])
            /\ MarkSent(f[i - 1], channels[i]).status = "sent"
        BY <2>7, <2>8, MarkTypes
      <4> QED
        BY <4>1, <4>2
    <3>2. ToSet(f[i].succeeded) = ToSet(f[i - 1].succeeded) \cup {channels[i]}
      BY <2>7, <2>8, <3>1, AppendSet
    <3> QED
      BY <2>1, <2>2, <2>5, <3>1, <3>2 DEF T
  <2>6. CASE answer[r][channels[i]] # "success"
    <3>1. /\ f[i].succeeded = f[i - 1].succeeded
          /\ f[i].status = IF f[i - 1].succeeded = << >> THEN "failed" ELSE f[i - 1].status
      <4>1. f[i] = MarkFailed(f[i - 1], channels[i])
        BY <2>6, <2>8
      <4>2. /\ MarkFailed(f[i - 1], channels[i]).succeeded = f[i - 1].succeeded
            /\ MarkFailed(f[i - 1], channels[i]).status
                 = IF f[i - 1].succeeded = << >> THEN "failed" ELSE f[i - 1].status
        BY <2>7, <2>8, MarkTypes
      <4> QED
        BY <4>1, <4>2
    <3> QED
      BY <2>1, <2>2, <2>3, <2>4, <2>6, <3>1 DEF T
  <2> QED
    BY <2>5, <2>6
<1>5. n \in T
  <2>1. 0..n \subseteq T
    <3> HIDE DEF T
    <3> QED
      BY <1>2, <1>3, <1>4, Induction
  <2>2. n \in 0..n
    BY <1>2
  <2> HIDE DEF T
  <2> QED
    BY <2>1, <2>2
<1>6. ok(n) = {ch \in Attempted(r) : answer[r][ch] = "success"}
  <2>1. DOMAIN channels = 1..n
    BY <1>2 DEF n
  <2> QED
    BY <2>1 DEF Attempted, ToSet, channels
<1>7. f[n] \in AlertType
    BY <1>2
<1> HIDE DEF ok
<1> QED
    BY <1>1, <1>2, <1>5, <1>6, <1>7

-----------------------------------------------------------------------------
(* The alerts tell what happened to them.                                  *)

Silent(r) == \A ch \in Channels : answer[r][ch] = "none" /\ <<r, ch>> \notin notified

\* What StatusTellsDelivery says of r.
Told(r) ==
    /\ alert[r].status = "sent" <=> Said(r, "success") # {}
    /\ alert[r].status = "failed" <=> Said(r, "failure") # {} /\ Said(r, "success") = {}
    /\ alert[r].status = "suppressed" => \A ch \in Channels : <<r, ch>> \notin notified
    /\ ToSet(alert[r].succeeded) = Said(r, "success")

\* Until its channels answer, nothing has happened to an alert but its routing;
\* when they have, its status tells their answers.
CallOK(r) ==
    /\ pc[r] \in {"new", "get", "setex"} => alert[r] = NewAlert /\ Silent(r)
    /\ pc[r] \in {"get", "setex", "deliver"} => Confident(r)
    /\ pc[r] = "deliver" =>
          /\ Rule(r).channels # << >>
          /\ alert[r] = [NewAlert EXCEPT !.attempted = Rule(r).channels]
    /\ \A ch \in Channels : answer[r][ch] # "none" => Confident(r) /\ ch \in Attempted(r)
    /\ pc[r] \in {"save", "done"} /\ r \notin aborted => Told(r)

CallsInv == TypeOK /\ \A r \in Results : CallOK(r)

LEMMA TypeIsControl == TypeOK => ControlOK
BY DEF TypeOK, ControlOK

LEMMA NewAlertType ==
    /\ NewAlert \in AlertType
    /\ NewAlert.status = "pending" /\ NewAlert.succeeded = << >>
BY DEF NewAlert, AlertType, Statuses

LEMMA SuppressedType ==
    /\ [NewAlert EXCEPT !.status = "suppressed"] \in AlertType
    /\ [NewAlert EXCEPT !.status = "suppressed"].status = "suppressed"
    /\ [NewAlert EXCEPT !.status = "suppressed"].succeeded = << >>
BY NewAlertType DEF AlertType, Statuses

LEMMA RoutedType ==
    ASSUME NEW c \in Seq(Channels)
    PROVE  /\ [NewAlert EXCEPT !.attempted = c] \in AlertType
           /\ [NewAlert EXCEPT !.attempted = c].status = "pending"
           /\ [NewAlert EXCEPT !.attempted = c].succeeded = << >>
BY NewAlertType DEF AlertType

LEMMA NothingSaid ==
    ASSUME NEW r \in Results, Silent(r)
    PROVE  Said(r, "success") = {} /\ Said(r, "failure") = {} /\ ToSet(<< >>) = {}
<1>1. ToSet(<< >>) = {}
    BY DEF ToSet
<1> QED
    BY <1>1 DEF Said, Silent

\* A step of the call r leaves the other calls alone.
LEMMA OtherCalls ==
    ASSUME TypeOK, NEW r \in Results, Process(r) \/ Step(r) \/ Abort(r),
           NEW q \in Results, q # r
    PROVE  /\ pc'[q] = pc[q] /\ alert'[q] = alert[q] /\ answer'[q] = answer[q]
           /\ \A ch : <<q, ch>> \in notified' => <<q, ch>> \in notified
           /\ q \in aborted' <=> q \in aborted
           /\ q \in cooled' => q \in cooled
<1>0. ControlOK
    BY TypeIsControl
<1>1. pc'[q] = pc[q] /\ alert'[q] = alert[q]
    BY <1>0, AlertSteps
<1>2. \A ch : <<q, ch>> \in notified' => <<q, ch>> \in notified
    BY <1>0, RowSteps
<1>3. ASSUME NEW ch \in Channels, Deliver(r, ch)
      PROVE  answer'[q] = answer[q] /\ UNCHANGED <<aborted, cooled>>
    BY <1>3 DEF Deliver, Delivered, NotDelivered, TypeOK
<1>4. CASE Process(r) \/ CheckCooldown(r) \/ StartCooldown(r) \/ ApplyResults(r) \/ Save(r)
    BY <1>1, <1>2, <1>4 DEF Process, CheckCooldown, StartCooldown, ApplyResults, Save,
                            Suppress, history
<1>5. CASE Abort(r)
    BY <1>1, <1>2, <1>5 DEF Abort
<1> QED
    BY <1>1, <1>2, <1>3, <1>4, <1>5 DEF Step

LEMMA OtherCallOK ==
    ASSUME CallsInv, NEW r \in Results, Process(r) \/ Step(r) \/ Abort(r),
           NEW q \in Results, q # r
    PROVE  CallOK(q)'
<1>1. /\ pc'[q] = pc[q] /\ alert'[q] = alert[q] /\ answer'[q] = answer[q]
      /\ \A ch : <<q, ch>> \in notified' => <<q, ch>> \in notified
      /\ q \in aborted' <=> q \in aborted
    BY OtherCalls DEF CallsInv
<1>2. Silent(q) => Silent(q)'
    BY <1>1 DEF Silent
<1>3. Told(q) => Told(q)'
    BY <1>1 DEF Told, Said
<1>4. CallOK(q)
    BY DEF CallsInv
<1> QED
    BY <1>1, <1>2, <1>3, <1>4 DEF CallOK, Confident, HasRule, Rule, Attempted

\* An alert that is suppressed before anybody was asked about it.
LEMMA SuppressOK ==
    ASSUME CallsInv, NEW r \in Results, pc[r] \in {"new", "get"}, Suppress(r),
           UNCHANGED <<answer, notified>>
    PROVE  alert'[r] \in AlertType /\ CallOK(r)'
<1>1. alert[r] = NewAlert /\ Silent(r)
    BY DEF CallsInv, CallOK
<1>2. pc'[r] = "save" /\ alert'[r] = [NewAlert EXCEPT !.status = "suppressed"]
    BY <1>1 DEF Suppress, CallsInv, TypeOK
<1>3. /\ alert'[r] \in AlertType
      /\ alert'[r].status = "suppressed" /\ alert'[r].succeeded = << >>
    BY <1>2, SuppressedType
<1>4. Said(r, "success")' = {} /\ Said(r, "failure")' = {} /\ ToSet(alert'[r].succeeded) = {}
  <2>1. Said(r, "success") = {} /\ Said(r, "failure") = {} /\ ToSet(<< >>) = {}
    BY <1>1, NothingSaid
  <2> QED
    BY <1>3, <2>1 DEF Said
<1>5. Told(r)'
    BY <1>1, <1>3, <1>4 DEF Told, Silent
<1> QED
    BY <1>1, <1>2, <1>3, <1>5 DEF CallOK, Silent

LEMMA RouteOK ==
    ASSUME CallsInv, NEW r \in Results, pc[r] \in {"new", "setex"}, Route(r),
           Confident(r), UNCHANGED <<answer, notified>>
    PROVE  /\ alert'[r] \in AlertType /\ CallOK(r)'
           /\ pc'[r] \in {"deliver", "save"} /\ alert'[r].status = "pending"
<1>1. alert[r] = NewAlert /\ Silent(r)
    BY DEF CallsInv, CallOK
<1>2. alert'[r] = [NewAlert EXCEPT !.attempted = Rule(r).channels]
    BY <1>1 DEF Route, CallsInv, TypeOK
<1>3. pc'[r] = IF Rule(r).channels = << >> THEN "save" ELSE "deliver"
    BY DEF Route, CallsInv, TypeOK
<1>4. /\ alert'[r] \in AlertType
      /\ alert'[r].status = "pending" /\ alert'[r].succeeded = << >>
  <2>1. Rule(r).channels \in Seq(Channels)
    BY AlertAssumption DEF Confident, HasRule, Rule
  <2> QED
    BY <1>2, <2>1, RoutedType
<1>5. Said(r, "success")' = {} /\ Said(r, "failure")' = {} /\ ToSet(alert'[r].succeeded) = {}
  <2>1. Said(r, "success") = {} /\ Said(r, "failure") = {} /\ ToSet(<< >>) = {}
    BY <1>1, NothingSaid
  <2> QED
    BY <1>4, <2>1 DEF Said
<1>6. Told(r)'
    BY <1>1, <1>4, <1>5 DEF Told
<1>7. Confident(r)'
    BY DEF Confident, HasRule, Rule
<1> QED
    BY <1>1, <1>2, <1>3, <1>4, <1>6, <1>7 DEF CallOK, Silent, Rule

\* The answers of the channels, as ApplyResults sums them up.
LEMMA ApplyOK ==
    ASSUME CallsInv, NEW r \in Results, ApplyResults(r)
    PROVE  alert'[r] \in AlertType /\ CallOK(r)' /\ alert'[r].status # "suppressed"
<1>1. /\ pc[r] = "deliver" /\ pc'[r] = "save" /\ alert'[r] = Applied(r)
      /\ UNCHANGED <<answer, notified, aborted>>
      /\ \A ch \in Attempted(r) : answer[r][ch] # "none"
    BY DEF ApplyResults, history, CallsInv, TypeOK
<1>2. /\ Confident(r) /\ Rule(r).channels # << >>
      /\ alert[r] = [NewAlert EXCEPT !.attempted = Rule(r).channels]
      /\ \A ch \in Channels : answer[r][ch] # "none" => ch \in Attempted(r)
    BY <1>1 DEF CallsInv, CallOK
<1>3. HasRule(r) /\ Rule(r).channels \in Seq(Channels)
    BY <1>2, AlertAssumption DEF Confident, HasRule, Rule
<1>4. alert[r] \in AlertType /\ alert[r].succeeded = << >>
    BY <1>2, <1>3, RoutedType
<1> DEFINE ok == {ch \in Attempted(r) : answer[r][ch] = "success"}
<1>5. /\ Applied(r) \in AlertType /\ ToSet(Applied(r).succeeded) = ok
      /\ Applied(r).status = IF ok # {} THEN "sent" ELSE "failed"
  <2> HIDE DEF ok
  <2> QED
    BY <1>2, <1>3, <1>4, AppliedTells DEF ok
<1>6. Attempted(r) # {} /\ Attempted(r) \subseteq Channels
  <2>1. Attempted(r) # {}
    BY <1>2, <1>3, EmptySet DEF Attempted
  <2> QED
    BY <1>3, <2>1 DEF Attempted, ToSet
<1>7. Said(r, "success") = ok
    BY <1>2, <1>6 DEF Said
<1>8. ok = {} => Said(r, "failure") # {}
  <2>1. \A ch \in Attempted(r) : answer[r][ch] \in {"success", "failure"}
    BY <1>1, <1>6 DEF CallsInv, TypeOK, Answers
  <2> QED
    BY <1>6, <2>1 DEF Said
<1> HIDE DEF ok
<1>9. Said(r, "success")' = Said(r, "success") /\ Said(r, "failure")' = Said(r, "failure")
    BY <1>1 DEF Said
<1>10. alert'[r].status = IF ok # {} THEN "sent" ELSE "failed"
    BY <1>1, <1>5
<1>11. Told(r)'
    BY <1>1, <1>5, <1>7, <1>8, <1>9, <1>10 DEF Told
<1> QED
    BY <1>1, <1>2, <1>5, <1>10, <1>11 DEF CallOK, Confident, HasRule, Rule, Attempted

LEMMA DeliverOK ==
    ASSUME CallsInv, NEW r \in Results, NEW ch \in Channels, Deliver(r, ch)
    PROVE  CallOK(r)' /\ answer' \in [Results -> [Channels -> Answers]]
<1>1. /\ pc[r] = "deliver" /\ ch \in Attempted(r) /\ UNCHANGED <<pc, alert, aborted>>
      /\ \E x \in {"success", "failure"} : answer' = [answer EXCEPT ![r][ch] = x]
    BY DEF Deliver, Delivered, NotDelivered
<1>2. answer' \in [Results -> [Channels -> Answers]]
    BY <1>1 DEF CallsInv, TypeOK, Answers
<1>3. \A c \in Channels : answer'[r][c] # "none" => answer[r][c] # "none" \/ c = ch
    BY <1>1 DEF CallsInv, TypeOK
<1>4. CallOK(r)
    BY DEF CallsInv
<1> QED
    BY <1>1, <1>2, <1>3, <1>4 DEF CallOK, Confident, HasRule, Rule, Attempted

\* The steps that end a call or let it wait leave its alert as it is.
LEMMA SaveOK ==
    ASSUME CallsInv, NEW r \in Results, Save(r)
    PROVE  CallOK(r)'
<1>1. /\ pc[r] = "save" /\ pc'[r] = "done"
      /\ UNCHANGED <<alert, answer, notified, aborted>>
    BY DEF Save, CallsInv, TypeOK
<1>2. Told(r) => Told(r)'
    BY <1>1 DEF Told, Said
<1>3. CallOK(r)
    BY DEF CallsInv
<1> QED
    BY <1>1, <1>2, <1>3 DEF CallOK, Confident, HasRule, Rule, Attempted

LEMMA AbortOK ==
    ASSUME CallsInv, NEW r \in Results, Abort(r)
    PROVE  CallOK(r)'
<1>1. pc'[r] = "done" /\ r \in aborted' /\ UNCHANGED <<alert, answer>>
    BY DEF Abort, InFlight, CallsInv, TypeOK
<1>2. CallOK(r)
    BY DEF CallsInv
<1> QED
    BY <1>1, <1>2 DEF CallOK, Confident, HasRule, Rule, Attempted

\* What a step of the call r does to its own alert.
LEMMA OwnCallOK ==
    ASSUME CallsInv, NEW r \in Results, Process(r) \/ Step(r) \/ Abort(r)
    PROVE  CallOK(r)' /\ alert'[r] \in AlertType
<1>0. CallOK(r) /\ alert[r] \in AlertType
    BY DEF CallsInv, TypeOK, AlertType
<1>1. CASE Process(r)
  <2>1. pc[r] = "new" /\ UNCHANGED <<answer, notified, aborted>>
    BY <1>1 DEF Process
  <2>2. CASE Suppress(r)
    BY <2>1, <2>2, SuppressOK
  <2>3. CASE Confident(r) /\ Route(r)
    BY <2>1, <2>3, RouteOK
  <2>4. CASE /\ Confident(r) /\ pc' = [pc EXCEPT ![r] = "get"] /\ UNCHANGED alert
    <3>1. pc'[r] = "get" /\ alert[r] = NewAlert /\ Silent(r)
      BY <1>0, <2>1, <2>4 DEF CallOK, CallsInv, TypeOK
    <3> QED
      BY <1>0, <2>1, <2>4, <3>1 DEF CallOK, Silent, Confident, HasRule, Rule
  <2> QED
    BY <1>1, <2>2, <2>3, <2>4 DEF Process
<1>2. CASE CheckCooldown(r)
  <2>1. pc[r] = "get" /\ UNCHANGED <<answer, notified, aborted>>
    BY <1>2 DEF CheckCooldown
  <2>2. CASE Suppress(r)
    BY <2>1, <2>2, SuppressOK
  <2>3. CASE pc' = [pc EXCEPT ![r] = "setex"] /\ UNCHANGED alert
    <3>1. pc'[r] = "setex" /\ alert[r] = NewAlert /\ Silent(r) /\ Confident(r)
      BY <1>0, <2>1, <2>3 DEF CallOK, CallsInv, TypeOK
    <3> QED
      BY <1>0, <2>1, <2>3, <3>1 DEF CallOK, Silent, Confident, HasRule, Rule
  <2> QED
    BY <1>2, <2>2, <2>3 DEF CheckCooldown
<1>3. CASE StartCooldown(r)
  <2>1. pc[r] = "setex" /\ Route(r) /\ UNCHANGED <<answer, notified>>
    BY <1>3 DEF StartCooldown
  <2>2. Confident(r)
    BY <1>0, <2>1 DEF CallOK
  <2> QED
    BY <2>1, <2>2, RouteOK
<1>4. ASSUME NEW ch \in Channels, Deliver(r, ch)
      PROVE  CallOK(r)' /\ alert'[r] \in AlertType
    BY <1>0, <1>4, DeliverOK DEF Deliver
<1>5. CASE ApplyResults(r)
    BY <1>5, ApplyOK
<1>6. CASE Save(r)
    BY <1>0, <1>6, SaveOK DEF Save
<1>7. CASE Abort(r)
    BY <1>0, <1>7, AbortOK DEF Abort
<1> QED
    BY <1>1, <1>2, <1>3, <1>4, <1>5, <1>6, <1>7 DEF Step

LEMMA TypeNext ==
    ASSUME CallsInv, NEW r \in Results, Process(r) \/ Step(r) \/ Abort(r)
    PROVE  TypeOK'
<1>0. ControlOK /\ TypeOK
    BY TypeIsControl DEF CallsInv
<1>1. ControlOK'
    BY <1>0, ProcessControl, StepControl, AbortControl
<1>2. alert' \in [Results -> [status : Statuses, attempted : Seq(Channels),
                              succeeded : Seq(Channels)]]
  <2>1. \A q \in Results : alert'[q] \in AlertType
    BY <1>0, AlertSteps, OwnCallOK DEF TypeOK, AlertType
  <2>2. DOMAIN alert' = Results
    BY <1>1 DEF ControlOK
  <2>3. alert' = [q \in Results |-> alert'[q]]
    <3>1. CASE Process(r)
      BY <1>0, <3>1 DEF Process, Suppress, Route, TypeOK
    <3>2. CASE CheckCooldown(r) \/ StartCooldown(r) \/ ApplyResults(r)
      BY <1>0, <3>2 DEF CheckCooldown, StartCooldown, ApplyResults, Suppress, Route, TypeOK
    <3>3. CASE UNCHANGED alert
      BY <1>0, <3>3 DEF TypeOK
    <3> QED
      BY <3>1, <3>2, <3>3 DEF Step, Deliver, Save, Abort
  <2> QED
    BY <2>1, <2>3 DEF AlertType
<1>3. answer' \in [Results -> [Channels -> Answers]]
  <2>1. ASSUME NEW ch \in Channels, Deliver(r, ch)
        PROVE  answer' \in [Results -> [Channels -> Answers]]
    BY <2>1, DeliverOK
  <2>2. CASE UNCHANGED answer
    BY <1>0, <2>2 DEF TypeOK
  <2> QED
    BY <2>1, <2>2 DEF Process, Step, CheckCooldown, StartCooldown, ApplyResults, Save, Abort
<1>4. \A q \in DOMAIN alerts' : alerts'[q] \in Statuses
  <2>1. alert[r].status \in Statuses
    BY <1>0 DEF TypeOK
  <2>2. alerts' = alerts \/ alerts' = Rows(r)
    BY <1>0, RowSteps
  <2> QED
    BY <1>0, <2>1, <2>2 DEF TypeOK, Rows
<1>5. /\ notified' \in SUBSET (Results \X Channels) /\ cooled' \in SUBSET Results
      /\ unsaved' \in SUBSET Results /\ faults' \in Nat
  <2>1. CASE Process(r) \/ CheckCooldown(r) \/ StartCooldown(r) \/ ApplyResults(r)
    BY <1>0, <2>1 DEF Process, CheckCooldown, StartCooldown, ApplyResults, history, TypeOK
  <2>2. ASSUME NEW ch \in Channels, Deliver(r, ch)
        PROVE  /\ notified' \in SUBSET (Results \X Channels) /\ cooled' \in SUBSET Results
               /\ unsaved' \in SUBSET Results /\ faults' \in Nat
    BY <1>0, <2>2 DEF Deliver, Delivered, NotDelivered, Fault, TypeOK
  <2>3. CASE Save(r)
    BY <1>0, <2>3 DEF Save, Fault, TypeOK
  <2>4. CASE Abort(r)
    <3>1. PICK s \in SUBSET (IF pc[r] = "deliver" THEN Attempted(r) ELSE {}) :
              notified' = notified \cup ({r} \X s)
      BY <2>4 DEF Abort
    <3>2. s \subseteq Channels
      <4>1. CASE pc[r] = "deliver"
        <5>1. Rule(r).channels \in Seq(Channels)
          BY <4>1, AlertAssumption DEF CallsInv, CallOK, Confident, HasRule, Rule
        <5> QED
          BY <3>1, <5>1 DEF Attempted, ToSet
      <4> QED
        BY <3>1, <4>1
    <3> QED
      BY <1>0, <2>4, <3>1, <3>2 DEF Abort, Fault, TypeOK
  <2> QED
    BY <2>1, <2>2, <2>3, <2>4 DEF Step
<1> QED
    BY <1>1, <1>2, <1>3, <1>4, <1>5 DEF ControlOK, TypeOK

LEMMA CallsInit == Init => CallsInv
<1> SUFFICES ASSUME Init PROVE CallsInv
    OBVIOUS
<1>1. \A r \in Results : pc[r] = "new" /\ alert[r] = NewAlert /\ Silent(r)
    BY DEF Init, Silent
<1>2. TypeOK
  <2>1. alert \in [Results -> AlertType]
    BY NewAlertType DEF Init
  <2> QED
    BY <2>1 DEF Init, TypeOK, AlertType, PCs, Answers
<1> QED
    BY <1>1, <1>2 DEF CallsInv, CallOK, Silent

LEMMA CallsNext == CallsInv /\ [Next]_vars => CallsInv'
<1> SUFFICES ASSUME CallsInv, [Next]_vars PROVE CallsInv'
    OBVIOUS
<1>1. ASSUME NEW r \in Results, Process(r) \/ Step(r) \/ Abort(r) PROVE CallsInv'
  <2>1. \A q \in Results : CallOK(q)'
    BY <1>1, OtherCallOK, OwnCallOK
  <2> QED
    BY <1>1, <2>1, TypeNext DEF CallsInv
<1>2. ASSUME UNCHANGED <<pc, alert, answer, notified, aborted>> PROVE \A q \in Results : CallOK(q)'
    BY <1>2 DEF CallsInv, CallOK, Silent, Told, Said, Confident, HasRule, Rule, Attempted
<1>3. ASSUME NEW k \in Keys, Expire(k) PROVE CallsInv'
  <2>1. TypeOK'
    BY <1>3 DEF Expire, CallsInv, TypeOK
  <2> QED
    BY <1>2, <1>3, <2>1 DEF Expire, CallsInv
<1>4. CASE UNCHANGED vars
  <2>1. TypeOK'
    BY <1>4 DEF vars, redis, history, CallsInv, TypeOK
  <2> QED
    BY <1>2, <1>4, <2>1 DEF vars, history, CallsInv
<1> QED
    BY <1>1, <1>3, <1>4 DEF Next

\* The calls, the alerts and what the channels answered, in every state.
THEOREM TypeCorrect == Spec => []TypeOK
<1>1. CallsInv => TypeOK
    BY DEF CallsInv
<1> QED
    BY <1>1, CallsInit, CallsNext, PTL DEF Spec

\* The status of a finished alert tells what its channels answered, whatever the
\* order in which they did and whatever else failed or broke off.
THEOREM StatusIsTrue == Spec => []StatusTellsDelivery
<1>1. CallsInv => StatusTellsDelivery
    BY DEF CallsInv, CallOK, Told, Said, StatusTellsDelivery, Finished
<1> QED
    BY <1>1, CallsInit, CallsNext, PTL DEF Spec

-----------------------------------------------------------------------------
(* Cooldowns and their causes.                                             *)

\* A call that went past its cooldown, to the channels or to its end.
Behind(q) ==
    /\ Confident(q)
    /\ q \in aborted \/ alert[q].status # "suppressed"
    /\ pc[q] \notin {"new", "get"}

CausesInv ==
    /\ \A k \in locks : \E q \in Results : Key(q) = k /\ Behind(q)
    /\ \A r \in cooled : \E q \in Results \ {r} : SameSubject(q, r) /\ Behind(q)

LEMMA StaysBehind ==
    ASSUME CallsInv, NEW r \in Results, Process(r) \/ Step(r) \/ Abort(r),
           NEW q \in Results, Behind(q)
    PROVE  Behind(q)'
<1>0. TypeOK /\ CallOK(q)
    BY DEF CallsInv
<1>1. CASE q # r
  <2>1. /\ pc'[q] = pc[q] /\ alert'[q] = alert[q]
        /\ q \in aborted' <=> q \in aborted
    BY <1>0, <1>1, OtherCalls
  <2> QED
    BY <2>1 DEF Behind, Confident, HasRule, Rule
<1>2. CASE q = r
  <2>1. pc[r] \notin {"new", "get"} /\ ~ Process(r) /\ ~ CheckCooldown(r)
    BY <1>2 DEF Behind, Process, CheckCooldown
  <2>2. CASE StartCooldown(r)
    <3>1. /\ pc'[r] \in {"deliver", "save"} /\ alert'[r].status = "pending"
      BY <1>0, <1>2, <2>2, RouteOK DEF StartCooldown, CallOK
    <3> QED
      BY <1>2, <3>1 DEF Behind, Confident, HasRule, Rule
  <2>3. ASSUME NEW ch \in Channels, Deliver(r, ch) PROVE UNCHANGED <<pc, alert, aborted>>
    BY <2>3 DEF Deliver
  <2>4. CASE ApplyResults(r)
    <3>1. pc'[r] = "save" /\ alert'[r].status # "suppressed"
      BY <1>0, <2>4, ApplyOK DEF ApplyResults, TypeOK
    <3> QED
      BY <1>2, <3>1 DEF Behind, Confident, HasRule, Rule
  <2>5. CASE Save(r)
    BY <1>0, <1>2, <2>5 DEF Save, Behind, Confident, HasRule, Rule, TypeOK
  <2>6. CASE Abort(r)
    BY <1>0, <1>2, <2>6 DEF Abort, Behind, Confident, HasRule, Rule, TypeOK
  <2>7. ASSUME UNCHANGED <<pc, alert, aborted>> PROVE Behind(q)'
    BY <2>7 DEF Behind, Confident, HasRule, Rule
  <2> QED
    BY <2>1, <2>2, <2>3, <2>4, <2>5, <2>6, <2>7 DEF Step
<1> QED
    BY <1>1, <1>2

\* A lock is set by a call that goes past it.
LEMMA NewLocks ==
    ASSUME CallsInv, NEW r \in Results, Process(r) \/ Step(r) \/ Abort(r),
           ~ (locks' \subseteq locks)
    PROVE  locks' = locks \cup {Key(r)} /\ Behind(r)'
<1>0. TypeOK /\ CallOK(r)
    BY DEF CallsInv
<1>1. CASE StartCooldown(r)
  <2>1. /\ pc'[r] \in {"deliver", "save"} /\ alert'[r].status = "pending" /\ Confident(r)
    BY <1>0, <1>1, RouteOK DEF StartCooldown, CallOK
  <2> QED
    BY <1>1, <2>1 DEF StartCooldown, Behind, Confident, HasRule, Rule
<1>2. CASE Abort(r)
  <2>1. pc[r] = "setex" /\ locks' = locks \cup {Key(r)}
    BY <1>2 DEF Abort
  <2>2. Confident(r) /\ pc'[r] = "done" /\ r \in aborted'
    BY <1>0, <1>2, <2>1 DEF Abort, CallOK, TypeOK
  <2> QED
    BY <2>1, <2>2 DEF Behind, Confident, HasRule, Rule
<1>3. CASE Process(r) \/ CheckCooldown(r) \/ ApplyResults(r) \/ Save(r)
    BY <1>3 DEF Process, CheckCooldown, ApplyResults, Save, redis
<1>4. ASSUME NEW ch \in Channels, Deliver(r, ch) PROVE locks' = locks
    BY <1>4 DEF Deliver, redis
<1> QED
    BY <1>1, <1>2, <1>3, <1>4 DEF Step

\* Only a call that found the lock of its key is held back.
LEMMA NewlyCooled ==
    ASSUME NEW r \in Results, Process(r) \/ Step(r) \/ Abort(r)
    PROVE  \/ cooled' = cooled
           \/ cooled' = cooled \cup {r} /\ pc[r] = "get" /\ Key(r) \in locks
<1>1. ASSUME NEW ch \in Channels, Deliver(r, ch) PROVE cooled' = cooled
    BY <1>1 DEF Deliver
<1> QED
    BY <1>1 DEF Process, Step, CheckCooldown, StartCooldown, ApplyResults, Save, Abort, history

LEMMA CausesNext == CallsInv /\ CausesInv /\ [Next]_vars => CausesInv'
<1> SUFFICES ASSUME CallsInv, CausesInv, [Next]_vars PROVE CausesInv'
    OBVIOUS
<1>1. ASSUME NEW r \in Results, Process(r) \/ Step(r) \/ Abort(r) PROVE CausesInv'
  <2>1. ASSUME NEW k \in locks' PROVE \E q \in Results : Key(q) = k /\ Behind(q)'
    <3>1. CASE k \in locks
      <4>1. PICK q \in Results : Key(q) = k /\ Behind(q)
        BY <3>1 DEF CausesInv
      <4> QED
        BY <1>1, <4>1, StaysBehind
    <3>2. CASE k \notin locks
      <4>1. Key(r) = k /\ Behind(r)'
        BY <1>1, <3>2, NewLocks
      <4> QED
        BY <4>1
    <3> QED
      BY <3>1, <3>2
  <2>2. ASSUME NEW c \in cooled'
        PROVE  \E q \in Results \ {c} : SameSubject(q, c) /\ Behind(q)'
    <3>1. CASE c \in cooled
      <4>1. PICK q \in Results \ {c} : SameSubject(q, c) /\ Behind(q)
        BY <3>1 DEF CausesInv
      <4> QED
        BY <1>1, <4>1, StaysBehind
    <3>2. CASE c \notin cooled
      <4>1. c = r /\ pc[r] = "get" /\ Key(r) \in locks
        BY <1>1, <3>2, NewlyCooled
      <4>2. PICK q \in Results : Key(q) = Key(r) /\ Behind(q)
        BY <4>1 DEF CausesInv
      <4>3. q # r /\ SameSubject(q, r)
        BY <4>1, <4>2 DEF Behind, Key, SameSubject
      <4> QED
        BY <1>1, <4>1, <4>2, <4>3, StaysBehind
    <3> QED
      BY <3>1, <3>2
  <2> QED
    BY <2>1, <2>2 DEF CausesInv, SameSubject, Key
<1>2. ASSUME NEW k \in Keys, Expire(k) PROVE CausesInv'
  <2>1. locks' \subseteq locks /\ UNCHANGED <<pc, alert, aborted, cooled>>
    BY <1>2 DEF Expire
  <2> QED
    BY <2>1 DEF CausesInv, Behind, SameSubject, Key, Confident, HasRule, Rule
<1>3. CASE UNCHANGED vars
    BY <1>3 DEF vars, redis, history, CausesInv, Behind, SameSubject, Key, Confident, HasRule, Rule
<1> QED
    BY <1>1, <1>2, <1>3 DEF Next

\* An alert is never held back by an analysis that its confidence kept from the
\* channels: there is another of its key that went past the cooldown.
THEOREM CooldownsHaveCauses == Spec => []CooldownHasACause
<1>1. Init => CausesInv
    BY DEF Init, CausesInv
<1>2. CausesInv => CooldownHasACause
    BY DEF CausesInv, CooldownHasACause, Behind
<1> QED
    BY <1>1, <1>2, CallsInit, CallsNext, CausesNext, PTL DEF Spec

-----------------------------------------------------------------------------
(* The alerts that were sent.                                              *)

SentOnes == {r \in Results : Finished(r) /\ \E ch \in Channels : answer[r][ch] = "success"}

SentInv == stats.sent = Cardinality(SentOnes)

LEMMA SentFinite == IsFiniteSet(SentOnes) /\ Cardinality(SentOnes) \in Nat
<1>1. SentOnes \in SUBSET Results
    BY DEF SentOnes
<1> QED
    BY <1>1, AlertAssumption, FS_Subset, FS_CardinalityType

\* No other call than that of the step finishes at it.
LEMMA SentSteps ==
    ASSUME CallsInv, CallsAreCounted,
           NEW r \in Results, Process(r) \/ Step(r) \/ Abort(r)
    PROVE  /\ r \notin SentOnes
           /\ SentOnes' = IF r \in SentOnes' THEN SentOnes \cup {r} ELSE SentOnes
<1>0. TypeOK /\ ControlOK
    BY TypeIsControl DEF CallsInv
<1>1. pc[r] # "done"
    BY <1>0, AlertSteps
<1>2. r \notin SentOnes
    BY <1>1 DEF SentOnes, Finished
<1>3. ASSUME NEW q \in Results, q # r PROVE q \in SentOnes' <=> q \in SentOnes
  <2>1. /\ pc'[q] = pc[q] /\ answer'[q] = answer[q]
        /\ q \in aborted' <=> q \in aborted
    BY <1>0, <1>3, OtherCalls
  <2> QED
    BY <2>1 DEF SentOnes, Finished
<1>4. SentOnes \subseteq Results /\ SentOnes' \subseteq Results
    BY DEF SentOnes
<1> QED
    BY <1>2, <1>3, <1>4

\* A call finishes when it is saved.
LEMMA FinishedBySave ==
    ASSUME CallsInv, CallsAreCounted,
           NEW r \in Results, Process(r) \/ Step(r) \/ Abort(r)
    PROVE  IF Save(r)
           THEN /\ r \in SentOnes' <=> alert[r].status = "sent"
                /\ stats' = [stats EXCEPT ![Counter(alert[r].status)] = @ + 1]
           ELSE r \notin SentOnes' /\ stats'.sent = stats.sent
<1>0. TypeOK /\ CallOK(r)
    BY DEF CallsInv
<1>1. CASE Save(r)
  <2>1. pc[r] = "save" /\ pc'[r] = "done" /\ UNCHANGED <<answer, aborted>>
    BY <1>0, <1>1 DEF Save, TypeOK
  <2>2. r \notin aborted
    BY <2>1 DEF CallsAreCounted
  <2>3. alert[r].status = "sent" <=> Said(r, "success") # {}
    BY <1>0, <2>1, <2>2 DEF CallOK, Told
  <2> QED
    BY <1>1, <2>1, <2>2, <2>3 DEF Save, SentOnes, Finished, Said
<1>2. ASSUME ~ Save(r) PROVE r \notin SentOnes' /\ stats'.sent = stats.sent
  <2>1. CASE Process(r)
    BY <1>0, <2>1 DEF Process, Suppress, Route, SentOnes, Finished, TypeOK
  <2>2. CASE CheckCooldown(r) \/ StartCooldown(r) \/ ApplyResults(r)
    BY <1>0, <2>2 DEF CheckCooldown, StartCooldown, ApplyResults, Suppress, Route,
                      SentOnes, Finished, TypeOK
  <2>3. ASSUME NEW ch \in Channels, Deliver(r, ch)
        PROVE  r \notin SentOnes' /\ stats'.sent = stats.sent
    BY <2>3 DEF Deliver, SentOnes, Finished
  <2>4. CASE Abort(r)
    BY <2>4 DEF Abort, SentOnes, Finished
  <2> QED
    BY <1>2, <2>1, <2>2, <2>3, <2>4 DEF Step
<1> QED
    BY <1>1, <1>2

LEMMA SentNext ==
    CallsInv /\ CallsAreCounted /\ SentInv /\ [Next]_vars => SentInv'
<1> SUFFICES ASSUME CallsInv, CallsAreCounted, SentInv, [Next]_vars PROVE SentInv'
    OBVIOUS
<1>0. stats \in [{"processed", "sent", "suppressed", "failed"} -> Nat]
    BY DEF CallsInv, TypeOK
<1>1. ASSUME NEW r \in Results, Process(r) \/ Step(r) \/ Abort(r) PROVE SentInv'
  <2>1. /\ r \notin SentOnes
        /\ SentOnes' = IF r \in SentOnes' THEN SentOnes \cup {r} ELSE SentOnes
    BY <1>1, SentSteps
  <2>2. Cardinality(SentOnes \cup {r}) = Cardinality(SentOnes) + 1
    BY <2>1, SentFinite, FS_AddElement
  <2>3. CASE Save(r)
    <3>1. /\ r \in SentOnes' <=> alert[r].status = "sent"
          /\ stats' = [stats EXCEPT ![Counter(alert[r].status)] = @ + 1]
      BY <1>1, <2>3, FinishedBySave
    <3>2. stats'.sent = IF alert[r].status = "sent" THEN stats.sent + 1 ELSE stats.sent
      BY <1>0, <3>1 DEF Counter
    <3> QED
      BY <2>1, <2>2, <3>1, <3>2 DEF SentInv
  <2>4. CASE ~ Save(r)
    BY <1>1, <2>1, <2>4, FinishedBySave DEF SentInv
  <2> QED
    BY <2>3, <2>4
<1>2. ASSUME UNCHANGED <<stats, pc, aborted, answer>> PROVE SentInv'
    BY <1>2 DEF SentInv, SentOnes, Finished
<1> QED
    BY <1>1, <1>2 DEF Next, Expire, vars, history

\* Rows, statuses and counters tell the same of every alert, whatever failed or
\* broke off, and in whatever order the calls ended.
THEOREM OutcomesAreTrue == Spec => []OutcomesAgree
<1>1. Init => SentInv
  <2> SUFFICES ASSUME Init PROVE SentInv
    OBVIOUS
  <2>1. SentOnes = {}
    BY DEF Init, SentOnes, Finished
  <2> QED
    BY <2>1, FS_EmptySet DEF Init, SentInv
<1>2. CallsAreCounted /\ SentInv => StatsAddUp
    BY DEF CallsAreCounted, SentInv, SentOnes, StatsAddUp
<1>3. RowsTellTheOutcome /\ StatsAddUp => OutcomesAgree
    BY DEF OutcomesAgree
<1> QED
    BY <1>1, <1>2, <1>3, CallsInit, CallsNext, SentNext, NoCallIsLost, RowsAreTrue, PTL DEF Spec
==============================================================================
