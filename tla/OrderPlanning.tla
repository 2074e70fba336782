---------------------------- MODULE OrderPlanning ----------------------------
(***************************************************************************)
(* From a confirmed order to an MRP run: the event order.confirmed is      *)
(* consumed by OrderConsumer, which adds a job to the queue of             *)
(* MrpProcessor; the queue tries a job three times.  Kafka delivers at     *)
(* least once; the queue keeps a job for each id and ignores a second one. *)
(* The run itself is the subject of MrpRuns: here it is created or not.    *)
(***************************************************************************)
EXTENDS Orders

CONSTANTS
    Attempts,       \* attempts of a job (3 in queues.module.ts)
    MaxFaults       \* faults of Redis, Kafka and the database in a behaviour

ASSUME PlanningAssumption == Attempts \in Nat \ {0} /\ MaxFaults \in Nat

VARIABLES
    offset,         \* how many events of the topic the consumer has committed
    job,            \* the queue: the job of each order
    planned,        \* orders for which a run was created and completed
    faults          \* faults so far

queueVars == <<offset, job, planned, faults>>
planningVars == <<orderVars, queueVars, request>>

-----------------------------------------------------------------------------
\* made: attempts of this job; user: what createMrpRun() gets as createdById.
NoJob == [state |-> None, user |-> None, made |-> 0]

QueueInit ==
    /\ offset = 0
    /\ job = [o \in Orders |-> NoJob]
    /\ planned = {}
    /\ faults = 0

Fault == faults < MaxFaults /\ faults' = faults + 1

\* A property of a JavaScript object, undefined when it has none of that name.
Property(event, name) == IF name \in DOMAIN event THEN event[name] ELSE None

\* mrpQueue.add() with jobId mrp-<order>: a job that is kept, in whatever state,
\* makes it do nothing.
AddJob(event) ==
    IF job[event.orderId] # NoJob THEN UNCHANGED job
    ELSE job' = [job EXCEPT ![event.orderId] =
                   [state |-> "waiting", user |-> Property(event, "confirmedBy"), made |-> 0]]

\* The handler of the consumer returns and the offset is committed.
Consume ==
    /\ offset < Len(topic)
    /\ AddJob(topic[offset + 1])
    /\ offset' = offset + 1
    /\ UNCHANGED <<planned, faults>>

\* Mutant: the error is logged and not thrown again.
BugConsumeFails ==
    /\ offset < Len(topic)
    /\ Fault
    /\ offset' = offset + 1
    /\ UNCHANGED <<job, planned>>

\* Redis refuses the job: the error is thrown again and the event stays.  There is
\* no queue of dead letters to move it to (kafka.service.ts:124 speaks of one).
ConsumeFails ==
    /\ offset < Len(topic)
    /\ Fault
    /\ UNCHANGED <<offset, job, planned>>

\* The consumer ends after the job is added and before its offset is committed.
ConsumeTwice ==
    /\ offset < Len(topic)
    /\ Fault
    /\ AddJob(topic[offset + 1])
    /\ UNCHANGED <<offset, planned>>

-----------------------------------------------------------------------------
\* attempts: 3; the backoff is only time.
AfterFailure(j) ==
    [j EXCEPT !.made = @ + 1, !.state = IF j.made + 1 < Attempts THEN "waiting" ELSE "failed"]

\* createdById is a required column: without a user the run is not created, and
\* that happens before the try block of runMrp().
RunCreated(o) == job[o].user # None

\* handleMrpRun() runs and returns ...
RunJob(o) ==
    /\ job[o].state = "waiting"
    /\ IF RunCreated(o)
       THEN job' = [job EXCEPT ![o].state = "completed"] /\ planned' = planned \cup {o}
       ELSE job' = [job EXCEPT ![o] = AfterFailure(@)] /\ UNCHANGED planned
    /\ UNCHANGED <<offset, faults>>

\* ... or throws for another reason.
JobFails(o) ==
    /\ job[o].state = "waiting"
    /\ Fault
    /\ job' = [job EXCEPT ![o] = AfterFailure(@)]
    /\ UNCHANGED <<offset, planned>>

QueueNext ==
    \/ Consume
    \/ ConsumeFails
    \/ ConsumeTwice
    \/ \E o \in Orders : RunJob(o) \/ JobFails(o)

PlanningNext ==
    \/ OrdersNext /\ UNCHANGED queueVars
    \/ QueueNext /\ UNCHANGED <<orderVars, request>>

\* The consumer and the queue keep working.
QueueFairness ==
    /\ WF_planningVars(Consume /\ UNCHANGED <<orderVars, request>>)
    /\ \A o \in Orders : WF_planningVars(RunJob(o) /\ UNCHANGED <<orderVars, request>>)

PlanningSpec ==
    /\ HandlersInit /\ OrdersInit /\ QueueInit
    /\ [][PlanningNext]_planningVars
    /\ QueueFairness

-----------------------------------------------------------------------------
(* Properties.                                                             *)

Published(o) == \E i \in DOMAIN topic : topic[i].orderId = o

\* A confirmation that was published is attempted by the queue until it is done
\* or given up, whatever Redis or the consumer fail meanwhile: no error of the
\* handler loses it.
PublishedIsTried == \A o \in Orders : Published(o) ~> job[o].state \in {"completed", "failed"}

\* 'Order confirmed -> Kafka -> BullMQ -> MRP engine': a confirmation that was
\* published leads to a run for its order.
ConfirmedIsPlanned == \A o \in Orders : Published(o) ~> o \in planned

=============================================================================
