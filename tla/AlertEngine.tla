----------------------------- MODULE AlertEngine -----------------------------
(***************************************************************************)
(* src/src/alerting: AlertEngine.process with AlertRouter.route, the       *)
(* delivery to the channels and save_alert.                                *)
(*                                                                         *)
(* Calls of process() run concurrently, one per finished analysis, and     *)
(* interleave at their awaits: GET and SETEX of the cooldown key, the      *)
(* deliveries (gathered), the database write.  An analysis result r is     *)
(* also the name of its call and of its Alert.  The keys, thresholds and   *)
(* channels come from the routing rules; confidences are hundredths.       *)
(*                                                                         *)
(* An operator Bad... is a plausible mistake in the one it is named after; *)
(* no action uses it.                                                      *)
(***************************************************************************)
EXTENDS Integers, Sequences, FiniteSets, SequencesExt

CONSTANTS
    Results,      \* the analysis results
    Channels,     \* notification channels
    Severities,
    Services,
    SeverityOf,   \* result |-> the AlertSeverity that route() reads from it
    ServiceOf, ConfidenceOf,
    Rules,        \* severity |-> [channels, require_confidence_above]
    Concurrency,  \* calls of process() that the caller has under way at once
    MaxFaults     \* bound: failed or cancelled operations in a behaviour

ASSUME AlertAssumption ==
    /\ IsFiniteSet(Results)
    /\ SeverityOf \in [Results -> Severities]
    /\ ServiceOf \in [Results -> Services]
    /\ ConfidenceOf \in [Results -> 0 .. 100]
    /\ DOMAIN Rules \subseteq Severities
    /\ \A s \in DOMAIN Rules :
          /\ Rules[s].channels \in Seq(Channels)
          /\ Rules[s].require_confidence_above \in 0 .. 100
    /\ Concurrency \in Nat \ {0} /\ MaxFaults \in Nat

VARIABLES
    connected,  \* AlertRouter.connect() was called
    locks,      \* the alert:dedup:* keys that have not expired
    pc,         \* where the call process(r) is
    alert,      \* the Alert of r
    answer,     \* answer[r][ch]: what the notifier of ch returned
    alerts,     \* the status of each row of the alerts table
    stats,      \* processed, sent, suppressed, failed
    \* history, read by no action
    notified,   \* <<r, ch>>: the alert reached the channel
    cooled,     \* the results suppressed by a cooldown
    aborted,    \* the calls that ended with an exception
    unsaved,    \* the alerts whose save_alert failed
    routed,     \* routed[k]: alerts of k routed since a lock of k expired
    faults

redis   == <<connected, locks>>
history == <<notified, cooled, aborted, unsaved, routed>>
vars    == <<redis, pc, alert, answer, alerts, stats, history, faults>>

PCs == {"new", "get", "setex", "deliver", "save", "done"}
Statuses == {"pending", "sent", "failed", "suppressed"}
Answers  == {"none", "success", "failure"}

\* The cooldown key; BadKey leaves the severity out.
Keys      == Services \X Severities
BadKey(r) == <<ServiceOf[r], CHOOSE s \in Severities : TRUE>>
Key(r)    == <<ServiceOf[r], SeverityOf[r]>>
HasRule(r) == SeverityOf[r] \in DOMAIN Rules
Rule(r)    == Rules[SeverityOf[r]]

NewAlert == [status |-> "pending", attempted |-> << >>, succeeded |-> << >>]

Init ==
    /\ connected \in BOOLEAN
    /\ locks = {}
    /\ pc = [r \in Results |-> "new"]
    /\ alert = [r \in Results |-> NewAlert]
    /\ answer = [r \in Results |-> [ch \in Channels |-> "none"]]
    /\ alerts = [r \in {} |-> "pending"]
    /\ stats = [processed |-> 0, sent |-> 0, suppressed |-> 0, failed |-> 0]
    /\ notified = {} /\ cooled = {} /\ aborted = {} /\ unsaved = {}
    /\ routed = [k \in Keys |-> 0]
    /\ faults = 0

Fault == faults < MaxFaults /\ faults' = faults + 1

InFlight == {r \in Results : pc[r] \notin {"new", "done"}}

-----------------------------------------------------------------------------
(* AlertRouter.route.                                                      *)

Suppress(r) ==
    /\ alert' = [alert EXCEPT ![r].status = "suppressed"]
    /\ pc' = [pc EXCEPT ![r] = "save"]

\* The channels of the rule; process() delivers if there are any.
Route(r) ==
    /\ alert' = [alert EXCEPT ![r].attempted = Rule(r).channels]
    /\ pc' = [pc EXCEPT ![r] = IF Rule(r).channels = << >> THEN "save" ELSE "deliver"]
    /\ routed' = [routed EXCEPT ![Key(r)] = @ + 1]

\* There is a rule and the confidence gate lets the result pass.
Confident(r) ==
    HasRule(r) /\ ConfidenceOf[r] >= Rule(r).require_confidence_above

\* process() up to its first await.
Process(r) ==
    /\ pc[r] = "new" /\ Cardinality(InFlight) < Concurrency
    /\ stats' = [stats EXCEPT !.processed = @ + 1]
    /\ \/ /\ ~ Confident(r)
          /\ Suppress(r)
          /\ UNCHANGED routed
       \/ /\ Confident(r) /\ ~ connected
          /\ Route(r)
       \/ /\ Confident(r) /\ connected
          /\ pc' = [pc EXCEPT ![r] = "get"]
          /\ UNCHANGED <<alert, routed>>
    /\ UNCHANGED <<redis, answer, alerts, notified, cooled, aborted, unsaved, faults>>

\* _is_duplicate: GET.
CheckCooldown(r) ==
    /\ pc[r] = "get"
    /\ \/ /\ Key(r) \in locks
          /\ Suppress(r)
          /\ cooled' = cooled \cup {r}
       \/ /\ Key(r) \notin locks
          /\ pc' = [pc EXCEPT ![r] = "setex"]
          /\ UNCHANGED <<alert, cooled>>
    /\ UNCHANGED <<redis, answer, alerts, stats, notified, aborted, unsaved,
                   routed, faults>>

\* _is_duplicate: SETEX, before anything is delivered.
BadStartCooldown(r) ==
    /\ pc[r] = "setex"
    /\ Route(r)
    /\ UNCHANGED <<redis, answer, alerts, stats, notified, cooled, aborted,
                   unsaved, faults>>
StartCooldown(r) ==
    /\ pc[r] = "setex"
    /\ locks' = locks \cup {Key(r)}
    /\ Route(r)
    /\ UNCHANGED <<connected, answer, alerts, stats, notified, cooled, aborted,
                   unsaved, faults>>

\* cooldown_seconds have passed since the last SETEX of k.
Expire(k) ==
    /\ k \in locks
    /\ locks' = locks \ {k}
    /\ routed' = [routed EXCEPT ![k] = 0]
    /\ UNCHANGED <<connected, pc, alert, answer, alerts, stats, notified, cooled,
                   aborted, unsaved, faults>>

-----------------------------------------------------------------------------
(* AlertEngine._deliver and the rest of process.                           *)

Attempted(r) == ToSet(Rule(r).channels)

\* The service took the message and said so in time.
Delivered(r, ch) ==
    /\ answer' = [answer EXCEPT ![r][ch] = "success"]
    /\ notified' = notified \cup {<<r, ch>>}
    /\ UNCHANGED faults

\* Another status code or an exception, a timeout included, which says nothing
\* about whether the message got through; or no key is configured.
NotDelivered(r, ch) ==
    /\ Fault
    /\ answer' = [answer EXCEPT ![r][ch] = "failure"]
    /\ notified' \in {notified, notified \cup {<<r, ch>>}}

\* A notifier returns, in any order with the others.
Deliver(r, ch) ==
    /\ pc[r] = "deliver" /\ ch \in Attempted(r) /\ answer[r][ch] = "none"
    /\ Delivered(r, ch) \/ NotDelivered(r, ch)
    /\ UNCHANGED <<redis, pc, alert, alerts, stats, cooled, aborted, unsaved, routed>>

\* mark_sent and mark_failed; the latter also appends the channel to
\* channels_attempted, where it already is.
BadMarkSent(a, ch) ==
    [a EXCEPT !.succeeded = Append(@, ch), !.status = "success"]
MarkSent(a, ch) ==
    [a EXCEPT !.succeeded = Append(@, ch), !.status = "sent"]
BadMarkFailed(a, ch) ==
    [a EXCEPT !.attempted = Append(@, ch), !.status = "failed"]
MarkFailed(a, ch) ==
    [a EXCEPT !.attempted = Append(@, ch),
              !.status = IF a.succeeded = << >> THEN "failed" ELSE @]

\* The alert after the first i results, which are applied in the rule's order.
Applied(r) ==
    LET channels == Rule(r).channels
        after[i \in 0 .. Len(channels)] ==
            IF i = 0 THEN alert[r]
            ELSE IF answer[r][channels[i]] = "success"
                 THEN MarkSent(after[i - 1], channels[i])
                 ELSE MarkFailed(after[i - 1], channels[i])
    IN  after[Len(channels)]

\* All notifiers have answered.
ApplyResults(r) ==
    /\ pc[r] = "deliver" /\ \A ch \in Attempted(r) : answer[r][ch] # "none"
    /\ alert' = [alert EXCEPT ![r] = Applied(r)]
    /\ pc' = [pc EXCEPT ![r] = "save"]
    /\ UNCHANGED <<redis, answer, alerts, stats, history, faults>>

\* The counter process() increments; whatever is neither suppressed nor sent
\* counts as failed.
BadCounter(status) == IF status \in {"suppressed", "sent", "failed"} THEN status ELSE "sent"
Counter(status) == IF status \in {"suppressed", "sent"} THEN status ELSE "failed"

\* save_alert writes one row, the first or a new version of it.
BadRows(r) ==
    [q \in DOMAIN alerts |-> IF q = r THEN alert[r].status ELSE alerts[q]]
Rows(r) ==
    [q \in DOMAIN alerts \cup {r} |-> IF q = r THEN alert[r].status ELSE alerts[q]]

\* save_alert, whose failure is logged and swallowed (and may hide a write
\* that was done), then the stats.
Save(r) ==
    /\ pc[r] = "save"
    /\ \/ /\ alerts' = Rows(r)
          /\ UNCHANGED <<unsaved, faults>>
       \/ /\ Fault
          /\ alerts' \in {alerts, Rows(r)}
          /\ unsaved' = unsaved \cup {r}
    /\ stats' = [stats EXCEPT ![Counter(alert[r].status)] = @ + 1]
    /\ pc' = [pc EXCEPT ![r] = "done"]
    /\ UNCHANGED <<redis, alert, answer, notified, cooled, aborted, routed>>

\* A Redis command raises, or the caller's task is cancelled at an await.
\* Nothing catches it in route() or process(); what was sent to Redis, a
\* channel or the database when it happened may still take effect.
Abort(r) ==
    /\ Fault
    /\ r \in InFlight
    /\ locks'    \in IF pc[r] = "setex" THEN {locks, locks \cup {Key(r)}} ELSE {locks}
    /\ alerts'   \in IF pc[r] = "save" THEN {alerts, Rows(r)} ELSE {alerts}
    /\ notified' \in {notified \cup ({r} \X s) : s \in
                         SUBSET IF pc[r] = "deliver" THEN Attempted(r) ELSE {}}
    /\ pc' = [pc EXCEPT ![r] = "done"]
    /\ aborted' = aborted \cup {r}
    /\ UNCHANGED <<connected, alert, answer, stats, cooled, unsaved, routed>>

-----------------------------------------------------------------------------
Step(r) ==
    \/ CheckCooldown(r) \/ StartCooldown(r)
    \/ \E ch \in Channels : Deliver(r, ch)
    \/ ApplyResults(r) \/ Save(r)

Next ==
    \/ \E r \in Results : Process(r) \/ Step(r) \/ Abort(r)
    \/ \E k \in Keys : Expire(k)

Spec == Init /\ [][Next]_vars

-----------------------------------------------------------------------------
(* Properties.                                                             *)

\* Type invariant: the queue of calls, the alerts, Redis, the table, the stats.
TypeOK ==
    /\ connected \in BOOLEAN
    /\ locks \in SUBSET Keys
    /\ pc \in [Results -> PCs]
    /\ alert \in [Results -> [status : Statuses, attempted : Seq(Channels),
                              succeeded : Seq(Channels)]]
    /\ answer \in [Results -> [Channels -> Answers]]
    /\ DOMAIN alerts \in SUBSET Results
    /\ \A r \in DOMAIN alerts : alerts[r] \in Statuses
    /\ stats \in [{"processed", "sent", "suppressed", "failed"} -> Nat]
    /\ notified \in SUBSET (Results \X Channels)
    /\ cooled \in SUBSET Results /\ aborted \in SUBSET Results
    /\ unsaved \in SUBSET Results
    /\ routed \in [Keys -> Nat]
    /\ faults \in Nat

SameSubject(q, r) ==
    ServiceOf[q] = ServiceOf[r] /\ SeverityOf[q] = SeverityOf[r]
Finished(r) == pc[r] = "done" /\ r \notin aborted

\* The status of a finished alert tells what happened on its channels, in
\* whatever order they answered: sent when some channel accepted it, failed
\* when every channel refused it, and nobody was notified of a suppressed one.
StatusTellsDelivery ==
    \A r \in Results : Finished(r) =>
        LET said(x) == {ch \in Channels : answer[r][ch] = x} IN
        /\ alert[r].status = "sent" <=> said("success") # {}
        /\ alert[r].status = "failed" <=> said("failure") # {} /\ said("success") = {}
        /\ alert[r].status = "suppressed" => \A ch \in Channels : <<r, ch>> \notin notified
        /\ ToSet(alert[r].succeeded) = said("success")

\* A cooldown never starts from an analysis below the confidence threshold: an
\* alert held back by a cooldown has another one of its key that was routed to
\* the channels, or whose call broke off on the way there.
CooldownHasACause ==
    \A r \in cooled : \E q \in Results \ {r} :
        /\ SameSubject(q, r) /\ Confident(q)
        /\ q \in aborted \/ alert[q].status # "suppressed"
        /\ pc[q] \notin {"new", "get"}

\* The row of an alert shows its final status, and every alert that reached a
\* channel has a row, unless its save failed or its call broke off.
RowsTellTheOutcome ==
    /\ \A r \in DOMAIN alerts : alerts[r] = alert[r].status /\ pc[r] = "done"
    /\ \A r \in Results : \A ch \in Channels :
          (<<r, ch>> \in notified /\ pc[r] = "done" /\ r \notin unsaved \cup aborted)
              => r \in DOMAIN alerts

\* The dashboard's counters and the calls agree: what was processed is sent,
\* suppressed, failed, under way, or broken off; and `sent` counts exactly the
\* alerts that some channel accepted.
StatsAddUp ==
    /\ stats.processed = stats.sent + stats.suppressed + stats.failed
                           + Cardinality(InFlight) + Cardinality(aborted)
    /\ stats.sent = Cardinality({r \in Results :
                        Finished(r) /\ \E ch \in Channels : answer[r][ch] = "success"})

\* Rows, statuses and counters tell the same story about every alert, whatever
\* call failed or broke off, and in whatever order the calls ended.
OutcomesAgree == RowsTellTheOutcome /\ StatsAddUp

\* GET and SETEX are two commands: in one cooldown a key is routed at most once
\* for each call that can be under way.
RoutedPerCooldown ==
    connected => \A k \in Keys : routed[k] <= Concurrency

\* README.md:336, the cooldown runs from the last SENDING of an alert of its
\* service and severity: behind an alert that was held back there is one that
\* was sent, or whose call is under way or broke off before it could be.
HeldBackAfterASending ==
    \A r \in cooled : \E q \in Results \ {r} :
        /\ SameSubject(q, r)
        /\ \/ q \in InFlight \cup aborted
           \/ \E ch \in Channels : <<q, ch>> \in notified
=============================================================================
