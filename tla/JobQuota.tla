------------------------------ MODULE JobQuota ------------------------------
(***************************************************************************)
(* Plan quota of one creator: the usage_counters rows of                   *)
(* backend/billing/quota.py, the operations that reserve and release a     *)
(* unit, and the part of the job lifecycle they read and write.            *)
(*                                                                         *)
(* Every web request and scheduler tick is a transaction of its own, run   *)
(* by a handler.  What it read before it held a row lock is kept in its    *)
(* record tx[h], so that a stale read is a stale value.                    *)
(*                                                                         *)
(* Statuses are grouped as the quota code tells them apart: "generating"   *)
(* stands for every in-flight status of stages 1-6, the wait for a retry   *)
(* of one included, and "rejected" for the four rejections.  One stage     *)
(* message per job is outstanding at a time; duplicated deliveries are the *)
(* subject of StagePipeline.                                               *)
(***************************************************************************)
EXTENDS Naturals, FiniteSets

CONSTANTS
    Jobs,       \* video jobs of the creator
    Handlers,   \* concurrent transactions of web requests and beat tasks
    Nobody,     \* in place of a handler: a row that is not locked
    NoJob,      \* in place of a job: the transaction is about none
    Plans,      \* plan limits, records [videos, parallel]
    MaxPeriod,  \* bound: billing periods that begin
    FreeRegenerations, \* regenerations of a job that cost no unit
    MaxRegen    \* bound: regenerations of a job, after which no job has any more

ASSUME JobQuotaAssumption ==
    /\ IsFiniteSet(Jobs)
    /\ Nobody \notin Handlers
    /\ NoJob \notin Jobs
    /\ Plans \subseteq [videos : Nat, parallel : Nat]
    /\ MaxPeriod \in Nat \ {0}
    /\ FreeRegenerations \in Nat
    /\ MaxRegen \in Nat

VARIABLES
    status,     \* committed video_jobs.status
    started,    \* started_at is set
    regen,      \* regeneration_count
    task,       \* the job's stage message: "none", "sent", "loaded" or "running"
    stage,      \* what that message runs: "produce" (also when there is none) or "upload"
    plan,       \* the plan limits in force
    period,     \* the current billing period
    topVideos,  \* history: the largest videos_per_period so far in force
    videos,     \* usage_counters.videos_generated, one row per period
    held,       \* usage_counters.reserved_job_ids, one row per period
    rowLock,    \* who has locked the counter row
    jobLock,    \* who has locked the job row
    tx          \* the open transaction of each handler

jobVars  == <<status, started, regen>>
taskVars == <<task, stage>>
planVars == <<plan, period, topVideos>>
rowVars  == <<videos, held>>
vars == <<jobVars, taskVars, planVars, rowVars, rowLock, jobLock, tx>>

----------------------------------------------------------------------------
Periods  == 1 .. MaxPeriod
InFlight == {"queued", "generating", "retrying", "upload_queued", "uploading"}
Terminal == {"published", "rejected", "failed", "canceled"}
Statuses == InFlight \cup Terminal \cup
            {"none", "scheduled", "awaiting_approval", "changes_requested", "approved"}

(* A transaction: its operation and next step, the job and the counter row *)
(* it is about, the limits and the regeneration count it read, the counter *)
(* row as read under its lock, and whether the commit writes that row back *)
(* changed.  A field the next steps do not use keeps its idle value.       *)
NoLimits == [videos |-> 0, parallel |-> 0]
Idle == [op |-> "none", step |-> "idle", job |-> NoJob, per |-> 1, lim |-> NoLimits,
         regen |-> 0, used |-> 0, ids |-> {}, charge |-> FALSE]

Ops   == {"none", "generate", "enqueue", "changes", "cancel"}
Steps == {"idle", "reserve", "release", "write"}

Init ==
    /\ status \in [Jobs -> {"none", "scheduled"}]
    /\ started = [j \in Jobs |-> FALSE]
    /\ regen = [j \in Jobs |-> 0]
    /\ task = [j \in Jobs |-> "none"]
    /\ stage = [j \in Jobs |-> "produce"]
    /\ plan \in Plans
    /\ period = 1
    /\ topVideos = plan.videos
    /\ videos = [p \in Periods |-> 0]
    /\ held = [p \in Periods |-> {}]
    /\ rowLock = [p \in Periods |-> Nobody]
    /\ jobLock = [j \in Jobs |-> Nobody]
    /\ tx = [h \in Handlers |-> Idle]

----------------------------------------------------------------------------
(* Opening a transaction.  The period and the limits are read here, before *)
(* any lock (_get_or_create_counter reads them first).                     *)

Step(h, t) == tx' = [tx EXCEPT ![h] = t]

Open(h, o, s, j) ==
    Step(h, [op |-> o, step |-> s, job |-> j, regen |-> regen[j],
             per |-> IF s = "reserve" THEN period ELSE 1,
             lim |-> IF s = "reserve" THEN plan ELSE NoLimits,
             used |-> 0, ids |-> {}, charge |-> FALSE])

(* generate_now: the job row is inserted but not yet visible to others.    *)
BeginGenerate(h, j) ==
    /\ tx[h] = Idle
    /\ status[j] = "none"
    /\ \A g \in Handlers : tx[g].job # j     \* j is the id of this new row
    /\ Open(h, "generate", "reserve", j)
    /\ UNCHANGED <<jobVars, taskVars, planVars, rowVars, rowLock, jobLock>>

(* enqueue_due_jobs: one due job, its row locked with skip_locked.         *)
BeginEnqueue(h, j) ==
    /\ tx[h] = Idle
    /\ status[j] = "scheduled"
    /\ jobLock[j] = Nobody
    /\ jobLock' = [jobLock EXCEPT ![j] = h]
    /\ Open(h, "enqueue", "reserve", j)
    /\ UNCHANGED <<jobVars, taskVars, planVars, rowVars, rowLock>>

(* enqueue_due_jobs: a slot long past is canceled under the same row lock. *)
ExpireSlot(j) ==
    /\ status[j] = "scheduled"
    /\ jobLock[j] = Nobody
    /\ status' = [status EXCEPT ![j] = "canceled"]
    /\ UNCHANGED <<started, regen, taskVars, planVars, rowVars, rowLock, jobLock, tx>>

(* Mutant of BeginChanges: the job row is locked as the scheduler does it, *)
(* before the counter row.                                                 *)
BeginChangesLocked(h, j) ==
    /\ tx[h] = Idle
    /\ status[j] = "awaiting_approval"
    /\ \A k \in Jobs : regen[k] < MaxRegen
    /\ jobLock[j] = Nobody
    /\ jobLock' = [jobLock EXCEPT ![j] = h]
    /\ Open(h, "changes", IF regen[j] >= FreeRegenerations THEN "reserve" ELSE "write", j)
    /\ UNCHANGED <<jobVars, taskVars, planVars, rowVars, rowLock>>

(* request_changes: the status test and the free-regeneration test use the *)
(* row the view loaded.                                                    *)
BeginChanges(h, j) ==
    /\ tx[h] = Idle
    /\ status[j] = "awaiting_approval"
    /\ \A k \in Jobs : regen[k] < MaxRegen
    /\ Open(h, "changes", IF regen[j] >= FreeRegenerations THEN "reserve" ELSE "write", j)
    /\ UNCHANGED <<jobVars, taskVars, planVars, rowVars, rowLock, jobLock>>

(* cancel_job of the creator and of the admin panel: status and started_at *)
(* are tested on the row the view loaded, which stays unlocked.            *)
BeginCancel(h, j) ==
    /\ tx[h] = Idle
    /\ status[j] \notin Terminal \cup {"none", "uploading"}
    /\ Open(h, "cancel", IF started[j] THEN "write" ELSE "release", j)
    /\ UNCHANGED <<jobVars, taskVars, planVars, rowVars, rowLock, jobLock>>

----------------------------------------------------------------------------
(* reserve_quota, once the counter row is locked                           *)

(* Committed jobs, other than j, that occupy a slot of the plan: the job   *)
(* that reserves is not counted against itself.                            *)
ActiveBesides(j) == {k \in Jobs \ {j} : status[k] \in InFlight}

(* Mutant of Admits: the limit itself is still admitted.                   *)
AdmitsOneMore(t) ==
    /\ videos[t.per] <= t.lim.videos
    /\ Cardinality(ActiveBesides(t.job)) < t.lim.parallel

Admits(t) ==
    /\ videos[t.per] < t.lim.videos
    /\ Cardinality(ActiveBesides(t.job)) < t.lim.parallel

(* Mutant of LockRow: the counter row is read without FOR UPDATE.          *)
ReadRowUnlocked(h, p) == UNCHANGED rowLock

LockRow(h, p) ==
    /\ rowLock[p] = Nobody
    /\ rowLock' = [rowLock EXCEPT ![p] = h]

Unlock(lock, h) == [x \in DOMAIN lock |-> IF lock[x] = h THEN Nobody ELSE lock[x]]

(* Mutant of ReserveGranted: a job that holds a unit is charged again.     *)
ReserveAgain(h) ==
    LET t == tx[h]
        again == t.job \in held[t.per] IN
    /\ t.step = "reserve"
    /\ again \/ Admits(t)
    /\ LockRow(h, t.per)
    /\ Step(h, [t EXCEPT !.step = "write", !.lim = NoLimits, !.charge = TRUE,
                         !.used = videos[t.per], !.ids = held[t.per]])
    /\ UNCHANGED <<jobVars, taskVars, planVars, rowVars, jobLock>>

(* The unit is granted, or the job already holds one in this period.       *)
ReserveGranted(h) ==
    LET t == tx[h]
        again == t.job \in held[t.per] IN
    /\ t.step = "reserve"
    /\ again \/ Admits(t)
    /\ LockRow(h, t.per)
    /\ Step(h, [t EXCEPT !.step = "write", !.lim = NoLimits, !.charge = ~again,
                         !.used = videos[t.per], !.ids = held[t.per]])
    /\ UNCHANGED <<jobVars, taskVars, planVars, rowVars, jobLock>>

(* QuotaExceeded or ConcurrentJobsLimitExceeded: generate_now and          *)
(* request_changes roll back, the scheduler leaves the job scheduled.      *)
ReserveRefused(h) ==
    LET t == tx[h] IN
    /\ t.step = "reserve"
    /\ rowLock[t.per] = Nobody
    /\ t.job \notin held[t.per]
    /\ ~Admits(t)
    /\ jobLock' = Unlock(jobLock, h)
    /\ Step(h, Idle)
    /\ UNCHANGED <<jobVars, taskVars, planVars, rowVars, rowLock>>

----------------------------------------------------------------------------
(* release_quota: the latest period whose committed row holds the job      *)

Holding(j) == {p \in Periods : j \in held[p]}

ReleaseHeld(h) ==
    LET t == tx[h] IN
    /\ t.step = "release"
    /\ \E p \in Holding(t.job) :
          /\ \A q \in Holding(t.job) : q <= p
          /\ LockRow(h, p)
          /\ Step(h, [t EXCEPT !.step = "write", !.charge = TRUE, !.per = p,
                               !.used = videos[p], !.ids = held[p]])
    /\ UNCHANGED <<jobVars, taskVars, planVars, rowVars, jobLock>>

ReleaseNothing(h) ==
    LET t == tx[h] IN
    /\ t.step = "release"
    /\ Holding(t.job) = {}
    /\ Step(h, [t EXCEPT !.step = "write"])
    /\ UNCHANGED <<jobVars, taskVars, planVars, rowVars, rowLock, jobLock>>

----------------------------------------------------------------------------
(* Commits.  The counter row is written from the values read under its     *)
(* lock; an UPDATE of a job row waits for whoever has locked that row.     *)

JobRowFree(h, j) == jobLock[j] \in {Nobody, h}

Finish(h) ==
    /\ rowLock' = Unlock(rowLock, h)
    /\ jobLock' = Unlock(jobLock, h)
    /\ Step(h, Idle)
    /\ UNCHANGED planVars

TakeUnit(t) ==
    IF t.charge
    THEN /\ videos' = [videos EXCEPT ![t.per] = t.used + 1]
         /\ held' = [held EXCEPT ![t.per] = t.ids \cup {t.job}]
    ELSE UNCHANGED rowVars

GiveUnitBack(t) ==
    IF t.charge
    THEN /\ videos' = [videos EXCEPT ![t.per] = IF t.used = 0 THEN 0 ELSE t.used - 1]
         /\ held' = [held EXCEPT ![t.per] = t.ids \ {t.job}]
    ELSE UNCHANGED rowVars

(* generate_now and enqueue_due_jobs: queued, stage 1 sent on commit.      *)
CommitQueued(h) ==
    LET t == tx[h] IN
    /\ t.step = "write" /\ t.op \in {"generate", "enqueue"}
    /\ TakeUnit(t)
    /\ status' = [status EXCEPT ![t.job] = "queued"]
    /\ task' = [task EXCEPT ![t.job] = "sent"]
    /\ UNCHANGED <<started, regen, stage>>
    /\ Finish(h)

(* The process of the handler dies, or generate_now is refused by the AI   *)
(* wallet after it reserved its unit: the database rolls everything back.  *)
RollBack(h) ==
    /\ tx[h].step # "idle"
    /\ UNCHANGED <<jobVars, taskVars, rowVars>>
    /\ Finish(h)

(* request_changes: count and status are written from the loaded row.      *)
CommitChanges(h) ==
    LET t == tx[h] IN
    /\ t.step = "write" /\ t.op = "changes"
    /\ JobRowFree(h, t.job)
    /\ TakeUnit(t)
    /\ status' = [status EXCEPT ![t.job] = "changes_requested"]
    /\ regen' = [regen EXCEPT ![t.job] = t.regen + 1]
    /\ task' = [task EXCEPT ![t.job] = "sent"]
    /\ stage' = [stage EXCEPT ![t.job] = "produce"]
    /\ UNCHANGED started
    /\ Finish(h)

(* cancel_job: whatever the row says by now is overwritten.                *)
CommitCancel(h) ==
    LET t == tx[h] IN
    /\ t.step = "write" /\ t.op = "cancel"
    /\ JobRowFree(h, t.job)
    /\ GiveUnitBack(t)
    /\ status' = [status EXCEPT ![t.job] = "canceled"]
    /\ UNCHANGED <<started, regen, taskVars>>
    /\ Finish(h)

----------------------------------------------------------------------------
(* The rest of the job's life, as far as it changes status or started_at   *)

(* A stage task loads the job and skips a finished one; the upload stage   *)
(* also skips a job that is not cleared for upload.                        *)
TaskLoad(j) ==
    LET skip == \/ status[j] \in Terminal
                \/ /\ stage[j] = "upload"
                   /\ status[j] \notin {"approved", "upload_queued", "uploading", "retrying"} IN
    /\ task[j] = "sent"
    /\ task' = [task EXCEPT ![j] = IF skip THEN "none" ELSE "loaded"]
    /\ stage' = [stage EXCEPT ![j] = IF skip THEN "produce" ELSE @]
    /\ UNCHANGED <<jobVars, planVars, rowVars, rowLock, jobLock, tx>>

(* _set_status(GENERATING..., mark_started): written without a new check.  *)
TaskStart(j) ==
    /\ task[j] = "loaded"
    /\ jobLock[j] = Nobody
    /\ status' = [status EXCEPT ![j] = IF stage[j] = "upload" THEN "uploading" ELSE "generating"]
    /\ started' = [started EXCEPT ![j] = TRUE]
    /\ task' = [task EXCEPT ![j] = "running"]
    /\ UNCHANGED <<regen, stage, planVars, rowVars, rowLock, jobLock, tx>>

(* The stage ends, written without a new check: the next stage is sent or *)
(* this one again, the creator's turn has come, the upload is sent at once *)
(* (automatic approval), the video is published, or the job failed.        *)
TaskEnd(j) ==
    /\ task[j] = "running"
    /\ jobLock[j] = Nobody
    /\ \E s \in {"failed"} \cup
              IF stage[j] = "upload" THEN {"published", "retrying"}
                                     ELSE {"generating", "awaiting_approval", "upload_queued"} :
          /\ status' = [status EXCEPT ![j] = s]
          /\ task' = [task EXCEPT ![j] = IF s \in {"generating", "retrying", "upload_queued"}
                                         THEN "sent" ELSE "none"]
          /\ stage' = [stage EXCEPT ![j] = IF s \in {"upload_queued", "retrying"}
                                           THEN "upload" ELSE "produce"]
    /\ UNCHANGED <<started, regen, planVars, rowVars, rowLock, jobLock, tx>>

(* approve_job and reject_job *)
Decide(j) ==
    /\ status[j] = "awaiting_approval"
    /\ jobLock[j] = Nobody
    /\ \/ /\ status' = [status EXCEPT ![j] = "approved"]
          /\ task' = [task EXCEPT ![j] = "sent"]
          /\ stage' = [stage EXCEPT ![j] = "upload"]
       \/ /\ status' = [status EXCEPT ![j] = "rejected"]
          /\ UNCHANGED taskVars
    /\ UNCHANGED <<started, regen, planVars, rowVars, rowLock, jobLock, tx>>

(* retry_job of the admin panel: a failed job is queued again.             *)
AdminRetry(j) ==
    /\ status[j] = "failed"
    /\ jobLock[j] = Nobody
    /\ status' = [status EXCEPT ![j] = "queued"]
    /\ task' = [task EXCEPT ![j] = "sent"]
    /\ stage' = [stage EXCEPT ![j] = "produce"]
    /\ UNCHANGED <<started, regen, planVars, rowVars, rowLock, jobLock, tx>>

----------------------------------------------------------------------------
(* The subscription changes under the transactions                         *)

ChangePlan ==
    /\ \E p \in Plans \ {plan} :
          /\ plan' = p
          /\ topVideos' = IF p.videos > topVideos THEN p.videos ELSE topVideos
    /\ UNCHANGED <<jobVars, taskVars, period, rowVars, rowLock, jobLock, tx>>

NextPeriod ==
    /\ period < MaxPeriod
    /\ period' = period + 1
    /\ UNCHANGED <<jobVars, taskVars, plan, topVideos, rowVars, rowLock, jobLock, tx>>

TxStep(h) ==
    \/ ReserveGranted(h) \/ ReserveRefused(h) \/ ReleaseHeld(h) \/ ReleaseNothing(h)
    \/ CommitQueued(h) \/ CommitChanges(h) \/ CommitCancel(h)

TaskStep(j) == TaskLoad(j) \/ TaskStart(j) \/ TaskEnd(j)

Next ==
    \/ \E h \in Handlers : TxStep(h) \/ RollBack(h)
    \/ \E h \in Handlers, j \in Jobs :
          BeginGenerate(h, j) \/ BeginEnqueue(h, j) \/ BeginChanges(h, j) \/ BeginCancel(h, j)
    \/ \E j \in Jobs : TaskStep(j) \/ Decide(j) \/ AdminRetry(j) \/ ExpireSlot(j)
    \/ ChangePlan
    \/ NextPeriod

Spec == Init /\ [][Next]_vars

----------------------------------------------------------------------------
Tx == [op : Ops, step : Steps, job : Jobs \cup {NoJob}, per : Periods,
       lim : [videos : Nat, parallel : Nat], regen : Nat, used : Nat,
       ids : SUBSET Jobs, charge : BOOLEAN]

(* Every variable keeps the shape its table or message gives it.           *)
TypeOK ==
    /\ status \in [Jobs -> Statuses]
    /\ started \in [Jobs -> BOOLEAN]
    /\ regen \in [Jobs -> Nat]
    /\ task \in [Jobs -> {"none", "sent", "loaded", "running"}]
    /\ stage \in [Jobs -> {"produce", "upload"}]
    /\ plan \in Plans
    /\ period \in Periods
    /\ topVideos \in Nat
    /\ videos \in [Periods -> Nat]
    /\ held \in [Periods -> SUBSET Jobs]
    /\ rowLock \in [Periods -> Handlers \cup {Nobody}]
    /\ jobLock \in [Jobs -> Handlers \cup {Nobody}]
    /\ tx \in [Handlers -> Tx]

(* The counter of a period is exactly the number of jobs that hold a unit  *)
(* of it, whatever double clicks, repeated cancellations and changes of    *)
(* period led there (reserve_quota and release_quota count a job once).    *)
QuotaExact == \A p \in Periods : videos[p] = Cardinality(held[p])

(* A job loses the unit it holds only when it is canceled: transactions    *)
(* that write the same counter row never undo each other's reservations    *)
(* (_get_or_create_counter locks the row before they read it).             *)
UnitsGoOnlyWithTheirJob ==
    [][\A p \in Periods, j \in Jobs :
          j \in held[p] /\ j \notin held'[p] => status'[j] = "canceled"]_vars

(* No period is charged more videos than the most generous plan that was   *)
(* ever in force allowed, even when two "Generate now" clicks, a scheduler *)
(* tick and a plan change race for the last unit (reserve_quota).          *)
NoOverdraft == \A p \in Periods : videos[p] <= topVideos

(* A transaction that holds a counter row never waits for a job row, so    *)
(* the two locks, which a scheduler tick takes in one order and a          *)
(* cancellation in the other, are never waited for in a cycle.             *)
CounterHolderNeverWaits ==
    \A h \in Handlers, p \in Periods :
        rowLock[p] = h => tx[h].step = "write" /\ JobRowFree(h, tx[h].job)
=============================================================================
