--------------------------- MODULE StagePipeline ---------------------------
(***************************************************************************)
(* Stages 1 to 6 of one video job: the Celery tasks of                     *)
(* backend/video_pipeline/tasks.py, their checkpoints, the advisory lock   *)
(* of stage_lock.py around the paid stages, and the people who act on the  *)
(* job meanwhile (creator, moderator, admin).                              *)
(*                                                                         *)
(* A task instance works on the job it loaded when it began: worker[w]     *)
(* keeps what it saw.  The broker keeps a message until the task ends      *)
(* (acks_late), so a message can be delivered again, after a crash or      *)
(* because its visibility timeout passed while the task was running.       *)
(*                                                                         *)
(* Statuses are grouped: "working" stands for every generating, moderating *)
(* and ready status of stages 1-6, "rejected" for the two rejections.      *)
(* A script is known by its version, the voice-over, the clips and the     *)
(* final video by the version of the script they were made from.  The      *)
(* clips of a job stand for one purchase.                                  *)
(***************************************************************************)
EXTENDS Naturals

CONSTANTS
    Workers,      \* Celery pool processes
    NoWorker,     \* in place of a worker: the advisory lock is free
    MaxRetries,   \* retries of a stage after its first attempt
    MaxDisturbed  \* bound: crashes, kills, redeliveries and restarts together

ASSUME StagePipelineAssumption ==
    /\ NoWorker \notin Workers
    /\ MaxRetries \in Nat
    /\ MaxDisturbed \in Nat

VARIABLES
    status,       \* committed video_jobs.status
    curStage,     \* committed video_jobs.current_stage
    asset,        \* checkpoints: script version each was made from, 0 for none
    pending,      \* script_meta holds the task id of clips already bought
    passed,       \* script versions the gate, or a moderator, let through
    lastLog,      \* stage of the latest moderation_logs row
    queue,        \* messages the broker will deliver: a bag
    worker,       \* the task instance each pool process runs
    lock,         \* holder of the advisory lock of the job
    paid,         \* history: purchases of a stage, those lost with their worker not counted
    disturbed,    \* history: crashes, kills, redeliveries and restarts so far
    duplicated,   \* history: a message came back while, or after, its task did its work
    killed        \* history: a process was killed and its message with it

jobVars  == <<status, curStage, asset, pending, passed, lastLog>>
histVars == <<disturbed, duplicated, killed>>
vars == <<jobVars, queue, worker, lock, paid, histVars>>

----------------------------------------------------------------------------
PaidStages == {"script", "voice", "visuals"}
Checks     == {"scriptcheck", "finalcheck"}
Stages     == PaidStages \cup Checks \cup {"assembly"}
Msgs       == [stage : Stages, retries : 0 .. MaxRetries]

Terminal == {"rejected", "failed", "canceled"}
Settled  == Terminal \cup {"review", "awaiting_approval", "upload_queued", "approved"}
Statuses == Settled \cup {"queued", "working", "retrying", "changes_requested"}

NextStage == [script |-> "scriptcheck", scriptcheck |-> "voice", voice |-> "visuals",
              visuals |-> "assembly", assembly |-> "finalcheck"]

(* A worker goes through idle, loaded, begun; a paid stage then paying,    *)
(* bought (clips ordered, order not yet saved), paid; a gate judged; a     *)
(* stage that succeeds done, ready, sent; one that is tried again failing. *)
PCs == {"idle", "loaded", "begun", "paying", "bought", "paid", "judged",
        "done", "ready", "sent", "failing"}

IdleWorker == [pc |-> "idle", stage |-> "script", retries |-> 0,
               seen |-> 0, pend |-> FALSE, ver |-> 0, verdict |-> "none"]

Init ==
    /\ status = "queued"
    /\ curStage = "script"
    /\ asset = [k \in PaidStages \cup {"assembly"} |-> 0]
    /\ pending = FALSE
    /\ passed = {}
    /\ lastLog = "none"
    /\ queue = [m \in Msgs |-> IF m = [stage |-> "script", retries |-> 0] THEN 1 ELSE 0]
    /\ worker = [w \in Workers |-> IdleWorker]
    /\ lock = NoWorker
    /\ paid = [s \in PaidStages |-> 0]
    /\ disturbed = 0
    /\ duplicated = FALSE
    /\ killed = FALSE

----------------------------------------------------------------------------
Send(s, r) == queue' = [queue EXCEPT ![[stage |-> s, retries |-> r]] = @ + 1]

Become(w, r) == worker' = [worker EXCEPT ![w] = r]
Goto(w, pc)  == Become(w, [worker[w] EXCEPT !.pc = pc])

Unlock(w) == lock' = IF lock = w THEN NoWorker ELSE lock

(* What a worker bought and nothing remembers once it stops here.          *)
Unsaved(w) ==
    \/ worker[w].pc = "paid" /\ worker[w].stage \in {"script", "voice"}
    \/ worker[w].pc = "bought"

Forget(w) ==
    paid' = IF Unsaved(w) THEN [paid EXCEPT ![worker[w].stage] = @ - 1] ELSE paid

(* _load_job, _should_skip: a finished job is left alone.                  *)
Load(w, m) ==
    /\ worker[w].pc = "idle"
    /\ queue[m] > 0
    /\ queue' = [queue EXCEPT ![m] = @ - 1]
    /\ IF status \in Terminal
       THEN UNCHANGED worker
       ELSE Become(w, [IdleWorker EXCEPT !.pc = "loaded", !.stage = m.stage, !.pend = pending,
                                         !.retries = m.retries, !.seen = asset["script"]])
    /\ UNCHANGED <<jobVars, lock, paid, histVars>>

(* _set_status: written without looking at the row again.                  *)
Begin(w) ==
    /\ worker[w].pc = "loaded"
    /\ status' = "working"
    /\ curStage' = IF worker[w].stage \in Checks THEN "moderation" ELSE worker[w].stage
    /\ Goto(w, "begun")
    /\ UNCHANGED <<asset, pending, passed, lastLog, queue, lock, paid, histVars>>

----------------------------------------------------------------------------
(* The paid stages, under the advisory lock of the job                     *)

(* Mutant of Checkpointed: the checkpoint is only looked for on a retry.   *)
CheckpointedOnRetry(w) ==
    /\ asset[worker[w].stage] # 0
    /\ worker[w].retries > 0

(* The checkpoint test: the script stage also asks for the script text of  *)
(* the job it loaded, the other two read their asset afresh.               *)
Checkpointed(w) ==
    /\ asset[worker[w].stage] # 0
    /\ worker[w].stage = "script" => worker[w].seen # 0

SkipPaid(w) ==
    /\ worker[w].pc = "begun" /\ worker[w].stage \in PaidStages
    /\ lock = NoWorker
    /\ Checkpointed(w)
    /\ Goto(w, "done")
    /\ UNCHANGED <<jobVars, queue, lock, paid, histVars>>

(* Mutant of Enter: nobody looks whether the advisory lock was granted.    *)
EnterUnlocked(w) ==
    LET s == worker[w].stage IN
    /\ worker[w].pc = "begun" /\ s \in PaidStages
    /\ ~Checkpointed(w)
    /\ s \in {"voice", "visuals"} => asset["script"] # 0
    /\ s = "visuals" => asset["voice"] # 0
    /\ lock' = w
    /\ Become(w, [worker[w] EXCEPT !.ver = asset["script"],
                     !.pc = IF s = "visuals" /\ worker[w].pend THEN "paid" ELSE "paying"])
    /\ UNCHANGED <<jobVars, queue, paid, histVars>>

(* What the stage needs is there; an order for the clips that the loaded   *)
(* job knows of is resumed, not made again.                                *)
Enter(w) ==
    LET s == worker[w].stage IN
    /\ worker[w].pc = "begun" /\ s \in PaidStages
    /\ lock = NoWorker
    /\ ~Checkpointed(w)
    /\ s \in {"voice", "visuals"} => asset["script"] # 0
    /\ s = "visuals" => asset["voice"] # 0
    /\ lock' = w
    /\ Become(w, [worker[w] EXCEPT !.ver = asset["script"],
                     !.pc = IF s = "visuals" /\ worker[w].pend THEN "paid" ELSE "paying"])
    /\ UNCHANGED <<jobVars, queue, paid, histVars>>

(* The provider is paid.                                                   *)
Pay(w) ==
    /\ worker[w].pc = "paying"
    /\ paid' = [paid EXCEPT ![worker[w].stage] = @ + 1]
    /\ Goto(w, IF worker[w].stage = "visuals" THEN "bought" ELSE "paid")
    /\ UNCHANGED <<jobVars, queue, lock, histVars>>

(* _save_pending_tasks                                                     *)
SaveOrder(w) ==
    /\ worker[w].pc = "bought"
    /\ pending' = TRUE
    /\ Goto(w, "paid")
    /\ UNCHANGED <<status, curStage, asset, passed, lastLog, queue, lock, paid, histVars>>

(* The checkpoint is stored, then the lock released.                       *)
Store(w) ==
    LET s == worker[w].stage IN
    /\ worker[w].pc = "paid"
    /\ asset' = [asset EXCEPT ![s] = IF s = "script" THEN @ + 1 ELSE worker[w].ver]
    /\ pending' = IF s = "visuals" THEN FALSE ELSE pending
    /\ Unlock(w)
    /\ Goto(w, "done")
    /\ UNCHANGED <<status, curStage, passed, lastLog, queue, paid, histVars>>

----------------------------------------------------------------------------
(* Assembly and the two moderation gates                                   *)

Assemble(w) ==
    /\ worker[w].pc = "begun" /\ worker[w].stage = "assembly"
    /\ asset["voice"] # 0 /\ asset["visuals"] # 0
    /\ asset' = [asset EXCEPT !["assembly"] = IF @ = 0 THEN asset["voice"] ELSE @]
    /\ Goto(w, "done")
    /\ UNCHANGED <<status, curStage, pending, passed, lastLog, queue, lock, paid, histVars>>

(* The gate judges what the loaded job says, and logs the verdict.         *)
Judge(w) ==
    LET s == worker[w].stage IN
    /\ worker[w].pc = "begun" /\ s \in Checks
    /\ IF s = "scriptcheck" THEN worker[w].seen # 0 ELSE asset["assembly"] # 0
    /\ lastLog' = s
    /\ \E v \in {"pass", "flag"} :
          /\ Become(w, [worker[w] EXCEPT !.pc = "judged", !.verdict = v])
          /\ passed' = IF s = "scriptcheck" /\ v = "pass"
                       THEN passed \cup {worker[w].seen} ELSE passed
    /\ UNCHANGED <<status, curStage, asset, pending, queue, lock, paid, histVars>>

(* Mutant of Apply: the voice stage is sent whatever the verdict.          *)
ApplyAndGoOn(w) ==
    LET t == worker[w] IN
    /\ t.pc = "judged"
    /\ status' \in IF t.verdict = "flag" THEN {"review", "rejected"}
                   ELSE IF t.stage = "scriptcheck" THEN {"working"}
                   ELSE {"awaiting_approval", "upload_queued"}
    /\ IF t.stage = "scriptcheck" THEN Goto(w, "ready") ELSE Become(w, IdleWorker)
    /\ UNCHANGED <<curStage, asset, pending, passed, lastLog, queue, lock, paid, histVars>>

(* apply_verdict_to_job, apply_final_verdict_to_job.  A flagged script or  *)
(* video waits for a moderator, or is rejected at once (a block with       *)
(* automatic rejection, or a revision took its place).                     *)
Apply(w) ==
    LET t == worker[w] IN
    /\ t.pc = "judged"
    /\ status' \in IF t.verdict = "flag" THEN {"review", "rejected"}
                   ELSE IF t.stage = "scriptcheck" THEN {"working"}
                   ELSE {"awaiting_approval", "upload_queued"}
    /\ IF t.verdict = "pass" /\ t.stage = "scriptcheck"
       THEN Goto(w, "ready")
       ELSE Become(w, IdleWorker)
    /\ UNCHANGED <<curStage, asset, pending, passed, lastLog, queue, lock, paid, histVars>>

----------------------------------------------------------------------------
(* How a stage ends                                                        *)

MarkReady(w) ==
    /\ worker[w].pc = "done"
    /\ status' = "working"
    /\ Goto(w, "ready")
    /\ UNCHANGED <<curStage, asset, pending, passed, lastLog, queue, lock, paid, histVars>>

Chain(w) ==
    /\ worker[w].pc = "ready"
    /\ Send(NextStage[worker[w].stage], 0)
    /\ Goto(w, "sent")
    /\ UNCHANGED <<jobVars, lock, paid, histVars>>

Ack(w) ==
    /\ worker[w].pc = "sent"
    /\ Become(w, IdleWorker)
    /\ UNCHANGED <<jobVars, queue, lock, paid, histVars>>

(* A ProviderError or an unexpected exception: _fail_job.  The order for   *)
(* the clips is dropped, unless it was not the provider that failed.       *)
Fail(w) ==
    LET t == worker[w]
        order == t.stage = "visuals" /\ t.pc = "paid" IN
    /\ t.pc \in {"begun", "paying", "bought", "paid", "done"}
    /\ status' = "failed"
    /\ \/ Forget(w) /\ UNCHANGED pending
       \/ /\ order
          /\ pending' = FALSE
          /\ paid' = IF pending THEN [paid EXCEPT !["visuals"] = @ - 1] ELSE paid
    /\ Unlock(w)
    /\ Become(w, IdleWorker)
    /\ UNCHANGED <<curStage, asset, passed, lastLog, queue, histVars>>

(* A ProviderRetryableError, or the lock is taken (job_stage_busy): the    *)
(* status is saved, then the task asks Celery to run it again.             *)
Retryable(w) ==
    /\ \/ worker[w].pc \in {"paying", "paid"}
       \/ worker[w].pc = "begun" /\ (worker[w].stage \in PaidStages => lock # NoWorker)
    /\ status' = "retrying"
    /\ Forget(w)
    /\ Unlock(w)
    /\ Goto(w, "failing")
    /\ UNCHANGED <<curStage, asset, pending, passed, lastLog, queue, histVars>>

(* Mutant of Resend: the attempt is not counted.                           *)
ResendUncounted(w) ==
    /\ worker[w].pc = "failing"
    /\ Send(worker[w].stage, worker[w].retries)
    /\ Goto(w, "sent")
    /\ UNCHANGED <<jobVars, lock, paid, histVars>>

Resend(w) ==
    /\ worker[w].pc = "failing"
    /\ worker[w].retries < MaxRetries
    /\ Send(worker[w].stage, worker[w].retries + 1)
    /\ Goto(w, "sent")
    /\ UNCHANGED <<jobVars, lock, paid, histVars>>

(* The budget is spent: task.retry(exc=exc) raises exc itself, so the      *)
(* branch of _retry_or_fail that would fail the job is never taken.        *)
GiveUp(w) ==
    /\ worker[w].pc = "failing"
    /\ worker[w].retries = MaxRetries
    /\ Become(w, IdleWorker)
    /\ UNCHANGED <<jobVars, queue, lock, paid, histVars>>

----------------------------------------------------------------------------
(* Crashes and redeliveries                                                *)

Disturb ==
    /\ disturbed < MaxDisturbed
    /\ disturbed' = disturbed + 1

(* Mutant of Die: the message was acknowledged when the task began.        *)
DieAcked(w) ==
    /\ worker[w].pc # "idle"
    /\ Disturb
    /\ Forget(w) /\ Unlock(w)
    /\ Become(w, IdleWorker)
    /\ UNCHANGED <<jobVars, queue, duplicated, killed>>

(* The worker is gone with its pool: its message comes back (acks_late),   *)
(* its database session and with it the advisory lock is closed.           *)
Die(w) ==
    /\ worker[w].pc # "idle"
    /\ Disturb
    /\ Send(worker[w].stage, worker[w].retries)
    /\ Forget(w) /\ Unlock(w)
    /\ Become(w, IdleWorker)
    /\ duplicated' = (duplicated \/ worker[w].pc = "sent")
    /\ UNCHANGED <<jobVars, killed>>

(* Only the pool process is killed: without task_reject_on_worker_lost the *)
(* parent acknowledges its message.                                        *)
Kill(w) ==
    /\ worker[w].pc # "idle"
    /\ Disturb
    /\ killed' = TRUE
    /\ Forget(w) /\ Unlock(w)
    /\ Become(w, IdleWorker)
    /\ UNCHANGED <<jobVars, queue, duplicated>>

Redeliver(w) ==
    /\ worker[w].pc # "idle"
    /\ Disturb
    /\ duplicated' = TRUE
    /\ Send(worker[w].stage, worker[w].retries)
    /\ UNCHANGED <<jobVars, worker, lock, paid, killed>>

----------------------------------------------------------------------------
(* The creator, the moderator and the admin                                *)

Cancel ==
    /\ status \notin Terminal
    /\ status' = "canceled"
    /\ UNCHANGED <<curStage, asset, pending, passed, lastLog, queue, worker, lock, paid, histVars>>

(* approve_job and reject_job; the upload of an approved job is not here.  *)
Answer ==
    /\ status = "awaiting_approval"
    /\ status' \in {"approved", "rejected"}
    /\ UNCHANGED <<curStage, asset, pending, passed, lastLog, queue, worker, lock, paid, histVars>>

(* A web process commits the status, then publishes the message: it may be *)
(* killed in between.                                                      *)
HandOver(s) ==
    \/ Send(s, 0) /\ UNCHANGED killed
    \/ killed' = TRUE /\ UNCHANGED queue

RequestChanges ==
    /\ status = "awaiting_approval"
    /\ Disturb
    /\ status' = "changes_requested"
    /\ \E s \in PaidStages : HandOver(s)
    /\ UNCHANGED <<curStage, asset, pending, passed, lastLog, worker, lock, paid, duplicated>>

(* decide: the latest log says which gate the moderator answers for.       *)
Decide ==
    /\ status = "review"
    /\ \/ /\ status' = "rejected"
          /\ UNCHANGED <<passed, queue, disturbed, killed>>
       \/ /\ lastLog = "scriptcheck"
          /\ status' = "working"
          /\ passed' = passed \cup {asset["script"]}
          /\ \/ Send("voice", 0) /\ UNCHANGED <<disturbed, killed>>
             \/ Disturb /\ killed' = TRUE /\ UNCHANGED queue
       \/ /\ lastLog = "finalcheck"
          /\ status' \in {"awaiting_approval", "upload_queued"}
          /\ UNCHANGED <<passed, queue, disturbed, killed>>
    /\ UNCHANGED <<curStage, asset, pending, lastLog, worker, lock, paid, duplicated>>

(* retry_job: from the stage the job stopped in; from the script for the   *)
(* gates.                                                                  *)
AdminRetry ==
    /\ status = "failed"
    /\ Disturb
    /\ status' = "queued"
    /\ HandOver(IF curStage = "moderation" THEN "script" ELSE curStage)
    /\ UNCHANGED <<curStage, asset, pending, passed, lastLog, worker, lock, paid,
                   duplicated>>

----------------------------------------------------------------------------
TaskStep(w) ==
    \/ Begin(w) \/ SkipPaid(w) \/ Enter(w) \/ Pay(w) \/ SaveOrder(w) \/ Store(w)
    \/ Assemble(w) \/ Judge(w) \/ Apply(w)
    \/ MarkReady(w) \/ Chain(w) \/ Ack(w)
    \/ Fail(w) \/ Retryable(w) \/ Resend(w) \/ GiveUp(w)

Next ==
    \/ \E w \in Workers, m \in Msgs : Load(w, m)
    \/ \E w \in Workers : TaskStep(w) \/ Die(w) \/ Kill(w) \/ Redeliver(w)
    \/ Cancel \/ Answer \/ RequestChanges \/ Decide \/ AdminRetry

Spec == Init /\ [][Next]_vars

(* A pool process that is up takes messages and goes on with its task: the *)
(* calls of a task have timeouts.  Nobody has to click, nothing to crash.  *)
FairSpec ==
    /\ Spec
    /\ \A w \in Workers : WF_vars(TaskStep(w)) /\ WF_vars(\E m \in Msgs : Load(w, m))

----------------------------------------------------------------------------
Task == [pc : PCs, stage : Stages, retries : 0 .. MaxRetries, seen : Nat,
         pend : BOOLEAN, ver : Nat, verdict : {"none", "pass", "flag"}]

(* Every column, message and task keeps its shape.                         *)
TypeOK ==
    /\ status \in Statuses
    /\ curStage \in PaidStages \cup {"moderation", "assembly"}
    /\ asset \in [PaidStages \cup {"assembly"} -> Nat]
    /\ pending \in BOOLEAN
    /\ passed \subseteq Nat
    /\ lastLog \in Checks \cup {"none"}
    /\ queue \in [Msgs -> Nat]
    /\ worker \in [Workers -> Task]
    /\ lock \in Workers \cup {NoWorker}
    /\ paid \in [PaidStages -> Nat]
    /\ disturbed \in 0 .. MaxDisturbed
    /\ duplicated \in BOOLEAN
    /\ killed \in BOOLEAN

Buying(w) == worker[w].pc \in {"paying", "bought", "paid"}

(* Two tasks never buy for the same job at the same time, whatever         *)
(* messages were delivered twice and whichever workers crashed             *)
(* (serialized_paid_stage).                                                *)
OneBuyer == \A v, w \in Workers : Buying(v) /\ Buying(w) => v = w

(* The voice-over of a job is paid for once, apart from what is lost with  *)
(* a worker that dies or fails before it stored it: redeliveries, restarts *)
(* and concurrent tasks do not buy it again (generate_voice_for_job).      *)
VoicePaidOnce == paid["voice"] <= 1

(* A video is offered for approval or sent to the upload only if the       *)
(* script it speaks passed the gate or a moderator, whatever fails, is     *)
(* tried again, restarted or crashes, as long as no stage is run twice by  *)
(* a message that came back after it was handed on (FR-45, FR-48).         *)
OnlyModeratedIsOffered ==
    ~duplicated /\ status \in {"awaiting_approval", "upload_queued", "approved"}
        => asset["assembly"] \in passed

Resting == (\A m \in Msgs : queue[m] = 0) /\ (\A w \in Workers : worker[w].pc = "idle")

(* A job that nobody works on and no message is about is one somebody was  *)
(* told of: it has ended or waits for a person.  The exceptions are a job  *)
(* whose retries are spent and one whose message died with its process.    *)
NoSilentStall == Resting => status \in Settled \cup {"retrying"} \/ killed

(* Every job comes to rest, with the same exceptions: crashes, duplicated  *)
(* chains and busy locks never make its tasks call each other for ever.    *)
JobSettles == []<>(status \in Settled \/ Resting)
=============================================================================
