---------------------------- MODULE Housekeeping ----------------------------
(***************************************************************************)
(* The background work of one server process: the queues in Redis and      *)
(* their workers (jobs/), what is done without Redis (lib/cleanup.js), and *)
(* the start and end of the process (index.js), beside the codes that the  *)
(* cleanup removes.                                                        *)
(*                                                                         *)
(* One e-mail and one run of each recurring job at a time: a run that the  *)
(* night catches up with is not piled up.  BullMQ itself is external: a    *)
(* job of a process that died is found stalled by the next workers, put    *)
(* back once and then failed.                                              *)
(***************************************************************************)
EXTENDS Codes

CONSTANT JobKinds  \* the queues that are looked at: email, cleanup, reconcile

ASSUME JobKindsAssumption == JobKinds \subseteq {"email", "cleanup", "reconcile"}

VARIABLES
    mode,      \* the process: down, with workers, or with the timers instead
    schedule,  \* recurring jobs that scheduleRecurringJobs has yet to add
    repeats,   \* recurring jobs known to Redis
    job        \* the job of each kind

jobVars == <<mode, schedule, repeats, job>>
housekeepingVars == <<codeVars, jobVars>>

Added(j) == IF j \in JobKinds THEN <<j>> ELSE <<>>
Recurring == Added("cleanup") \o Added("reconcile")

(* held: a live worker works on it; outcome: what the worker has yet to    *)
(* tell Redis; done: its work was done at least once.                      *)
Job == [state : {"none", "waiting", "active", "completed", "failed"}, held : BOOLEAN,
        outcome : {"unknown", "done", "error"}, tries : Nat, stalled : BOOLEAN, done : BOOLEAN]
NoJob == [state |-> "none", held |-> FALSE, outcome |-> "unknown", tries |-> 0,
          stalled |-> FALSE, done |-> FALSE]
Waiting == [NoJob EXCEPT !.state = "waiting"]
Pending(j) == job[j].state \in {"waiting", "active"}
Running(j) == mode = "workers" /\ job[j].state = "active" /\ job[j].held

Attempts(j) == IF j = "email" THEN 3 ELSE IF j = "reconcile" THEN 2 ELSE 1

-----------------------------------------------------------------------------
(* startWorkersIfRedisAvailable: Redis answers the health check or not.    *)
WithoutRedis_Nothing == "idle"
WithoutRedis == "legacy"

Boot ==
    /\ mode = "down"
    /\ \/ mode' = WithoutRedis /\ UNCHANGED schedule
       \/ mode' = "workers" /\ schedule' = Recurring
    /\ UNCHANGED <<codeVars, repeats, job>>

(* Adding a job that is known already changes nothing.                     *)
AddRepeat ==
    /\ schedule # <<>>
    /\ repeats' = repeats \cup {Head(schedule)}
    /\ schedule' = Tail(schedule)
    /\ UNCHANGED <<codeVars, mode, job>>

(* The first failure ends the scheduling until the next start.             *)
AddFails ==
    /\ schedule # <<>>
    /\ schedule' = <<>>
    /\ UNCHANGED <<codeVars, mode, repeats, job>>

(* The process is killed or shut down: gracefulShutdown refers to workers  *)
(* out of its scope, so that no worker is closed before the exit.          *)
Crash ==
    /\ mode # "down"
    /\ Event
    /\ mode' = "down"
    /\ schedule' = <<>>
    /\ job' = [j \in JobKinds |-> [job[j] EXCEPT !.held = FALSE, !.outcome = "unknown"]]
    /\ asking' = [r \in Requests |-> Quiet]
    /\ UNCHANGED <<codes, verified, repeats>>

-----------------------------------------------------------------------------
(* POST /shop-setup adds an e-mail to the queue, in either mode.           *)
Enqueue ==
    /\ mode # "down"
    /\ ~Pending("email")
    /\ Event
    /\ job' = [job EXCEPT !["email"] = Waiting]
    /\ UNCHANGED <<codes, verified, asking, mode, schedule, repeats>>

(* The cron pattern of a recurring job.  The nights of the reconciliation  *)
(* are counted to bound the model, those of the cleanup are not.           *)
Fire(j) ==
    /\ mode = "workers"
    /\ j \in repeats
    /\ ~Pending(j)
    /\ job' = [job EXCEPT ![j] = Waiting]
    /\ IF j = "cleanup" THEN UNCHANGED events ELSE Event
    /\ UNCHANGED <<codes, verified, asking, mode, schedule, repeats>>

Pick(j) ==
    /\ mode = "workers"
    /\ job[j].state = "waiting"
    /\ job' = [job EXCEPT ![j].state = "active", ![j].held = TRUE]
    /\ UNCHANGED <<codeVars, mode, schedule, repeats>>

Worked(j, outcome, done) ==
    /\ Running(j) /\ job[j].outcome = "unknown"
    /\ job' = [job EXCEPT ![j].outcome = outcome, ![j].done = @ \/ done]
    /\ UNCHANGED <<mode, schedule, repeats>>

(* processEmailJob: accepted; refused; accepted, but the answer is lost.   *)
(* resend.emails.send answers with an error instead of throwing one.       *)
(* processReconcileJob: the audit rows of one statement, likewise.         *)
Reported_Ignored(error) == "done"
Reported(error) == IF error THEN "error" ELSE "done"

Work(j) ==
    \E error, done \in BOOLEAN :
        /\ j # "cleanup"
        /\ error \/ done
        /\ Worked(j, Reported(error), done)
        /\ UNCHANGED codeVars

(* processCleanupJob deletes expired tokens and codes at once: either may  *)
(* fail without the other.                                                 *)
CleanUp ==
    /\ Worked("cleanup", "done", TRUE)
    /\ codes' = WithoutExpired
    /\ UNCHANGED <<verified, asking, events>>

CleanUpFails ==
    /\ \/ Worked("cleanup", "error", TRUE) /\ codes' = WithoutExpired
       \/ Worked("cleanup", "error", FALSE) /\ UNCHANGED codes
    /\ UNCHANGED <<verified, asking, events>>

(* The worker tells Redis the outcome: an error is tried again later while *)
(* attempts are left.                                                      *)
Retries_Uncounted(j) == [job[j] EXCEPT !.state = "waiting"]
Retries(j) ==
    LET tries == job[j].tries + 1 IN
    [job[j] EXCEPT !.tries = tries, !.state = IF tries < Attempts(j) THEN "waiting" ELSE "failed"]

Settle(j) ==
    /\ Running(j)
    /\ job[j].outcome # "unknown"
    /\ LET settled == IF job[j].outcome = "done" THEN [NoJob EXCEPT !.state = "completed", !.done = job[j].done]
                      ELSE Retries(j)
       IN job' = [job EXCEPT ![j] = [settled EXCEPT !.held = FALSE, !.outcome = "unknown"]]
    /\ UNCHANGED <<codeVars, mode, schedule, repeats>>

FindStalled(j) ==
    /\ mode = "workers"
    /\ job[j].state = "active" /\ ~job[j].held
    /\ job' = [job EXCEPT ![j].state = IF job[j].stalled THEN "failed" ELSE "waiting",
                          ![j].stalled = TRUE]
    /\ UNCHANGED <<codeVars, mode, schedule, repeats>>

(* startCleanupJob: the timers of a process without workers; a failure is  *)
(* logged and the next day tries again.                                    *)
LegacyCleanUp ==
    /\ mode = "legacy"
    /\ codes' = WithoutExpired
    /\ UNCHANGED <<verified, asking, events, jobVars>>

-----------------------------------------------------------------------------
HousekeepingInit ==
    /\ CodesInit
    /\ mode = "down"
    /\ schedule = <<>>
    /\ repeats = {}
    /\ job = [j \in JobKinds |-> NoJob]

HousekeepingNext ==
    \/ CodesStep /\ mode # "down" /\ UNCHANGED jobVars
    \/ Boot \/ AddRepeat \/ AddFails \/ Crash
    \/ Enqueue
    \/ CleanUp \/ CleanUpFails
    \/ \E j \in JobKinds : Fire(j) \/ Pick(j) \/ Work(j) \/ Settle(j) \/ FindStalled(j)
    \/ LegacyCleanUp

HousekeepingFairness ==
    /\ WF_housekeepingVars(Boot)
    /\ WF_housekeepingVars(AddRepeat \/ AddFails)
    /\ WF_housekeepingVars(CleanUp \/ CleanUpFails)
    /\ SF_housekeepingVars(CleanUp)
    /\ WF_housekeepingVars(Fire("cleanup"))
    /\ \A j \in JobKinds :
        /\ WF_housekeepingVars(Pick(j))
        /\ WF_housekeepingVars(Work(j))
        /\ WF_housekeepingVars(Settle(j))
        /\ WF_housekeepingVars(FindStalled(j))
    /\ WF_housekeepingVars(LegacyCleanUp)

HousekeepingSpec == HousekeepingInit /\ [][HousekeepingNext]_housekeepingVars /\ HousekeepingFairness

HousekeepingTypeOK ==
    /\ codes \in Seq(Code)
    /\ verified \in BOOLEAN
    /\ asking \in [Requests -> {Quiet, [op |-> "resend"], [op |-> "confirm"]}
                       \cup [op : {"create"}, kind : Kinds]
                       \cup [op : {"mark"}, code : 1 .. MaxEvents]]
    /\ events \in Nat
    /\ mode \in {"down", "workers", "legacy"}
    /\ schedule \in Seq(JobKinds)
    /\ repeats \subseteq JobKinds
    /\ job \in [JobKinds -> Job]

-----------------------------------------------------------------------------
(* An e-mail that was completed went out: the provider reports a refusal   *)
(* in its answer, and a worker that overlooked it would lose the e-mail    *)
(* for good (email.worker.js 38-42).                                       *)
CompletedWasDone ==
    \A j \in JobKinds : job[j].state = "completed" => job[j].done

(* A queued e-mail is sent or given up after its attempts, through any     *)
(* crash and restart, unless a start finds no Redis and leaves the queue   *)
(* without a worker (index.js 702-731).                                    *)
MailEnds == Pending("email") ~> ~Pending("email") \/ mode = "legacy"

(* Nothing will ever clean up: Redis was lost between the health check and *)
(* the scheduling, in a process that started no timers instead.            *)
Unscheduled == mode = "workers" /\ schedule = <<>> /\ "cleanup" \notin repeats

(* An expired code is deleted in the end, with workers or with timers and  *)
(* through crashes of the process or the job, unless nothing is scheduled  *)
(* (cleanup.worker.js 31-42, cleanup.js 40-47).                            *)
ExpiredGo ==
    \A i \in 1 .. MaxEvents : Expired(i) ~> ~Expired(i) \/ Unscheduled
=============================================================================
