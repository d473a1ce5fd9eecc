----------------------------- MODULE VideoDesk -----------------------------
(***************************************************************************)
(* One video from "generate" to YouTube, as its pages drive it             *)
(* (frontend/src/pages/creator/VideosPage.tsx, VideoDetailPage.tsx,        *)
(* components/video/ApprovalActions.tsx, pages/admin/ModerationPage.tsx,   *)
(* AdminVideosPage.tsx) and as backend/video_pipeline (approval, tasks,    *)
(* youtube_upload), moderation and adminpanel carry it out.                *)
(*                                                                         *)
(* No call takes the row's lock: a call loads the row, looks at the status *)
(* it loaded, and writes its own columns, whatever the row has become.  So *)
(* does a worker, whose task may be delivered again before it has ended.   *)
(* Only the upload looks at what is published: the file and the text must  *)
(* be those that the final moderation recorded.                            *)
(*                                                                         *)
(* A cut is a content of the job's one file, a text a value of its title,  *)
(* description and tags.  StagePipeline follows the stages before the      *)
(* final moderation in detail.                                             *)
(***************************************************************************)
EXTENDS Naturals, FiniteSets, Sequences

CONSTANTS
    Workers,        \* workers of the pipeline
    MaxTextEdits,   \* bound: metadata edits
    MaxCuts,        \* bound: cuts made
    MaxCalls,       \* bound: calls of the pages and of the timeout
    MaxAtOnce,      \* bound: calls under way at the same time
    MaxAgain        \* bound: tasks delivered again, uploads tried again

ASSUME VideoDeskAssumption ==
    /\ MaxTextEdits \in Nat /\ MaxCuts \in Nat \ {0}
    /\ MaxCalls \in Nat /\ MaxAtOnce \in Nat /\ MaxAgain \in Nat

VARIABLES
    video,      \* the row of video_jobs
    shown,      \* whose buttons the pages show
    calls,      \* calls under way, with what they use of the row they loaded
    called,     \* calls made so far
    queue,      \* tasks that are not acknowledged, by stage
    worker,     \* what each worker is at, and the row it loaded
    again,      \* deliveries and uploads repeated so far
    lastLog,    \* the gate of the latest row of moderation_logs
    approvals,  \* what moderation approved: <<cut, text>>
    uploads     \* what videos.insert was called with, in order

videoVars == <<video, shown, calls, called, queue, worker, again, lastLog,
               approvals, uploads>>

-----------------------------------------------------------------------------
NoVideo == [status |-> "none", stage |-> "script", cut |-> 0, text |-> 0,
            cutApproved |-> 0, textApproved |-> 0, onYouTube |-> FALSE]
AtRest  == [stage |-> "none", row |-> NoVideo]

(* JobStatus.is_terminal: "ended" is rejected, expired or canceled.  Every  *)
(* status of a stage before the decisions is "working".                    *)
Over == {"published", "ended", "failed"}

VideoInit ==
    /\ video = NoVideo
    /\ shown = "none"
    /\ calls = {} /\ called = 0
    /\ queue = {}
    /\ worker = [w \in Workers |-> AtRest]
    /\ again = 0
    /\ lastLog = "none"
    /\ approvals = {}
    /\ uploads = <<>>

-----------------------------------------------------------------------------
(* The pages                                                               *)

(* "Generate now": a job of its own is created and its script task sent.   *)
GenerateNow ==
    /\ video.status = "none"
    /\ video' = [NoVideo EXCEPT !.status = "working"]
    /\ queue' = {"script"}
    /\ UNCHANGED <<shown, calls, called, worker, again, lastLog, approvals, uploads>>

(* The lists and the page of the video poll the row; the buttons of the    *)
(* creator, of the moderator or of neither come with it.                   *)
LoadVideo ==
    /\ shown' = IF video.status \in {"awaiting", "review"} THEN video.status ELSE "none"
    /\ shown # shown'
    /\ UNCHANGED <<video, calls, called, queue, worker, again, lastLog, approvals,
                   uploads>>

CreatorKinds == {"approve", "reject", "changes"}

(* VideoDetailPage has the creator's buttons while the video it has loaded *)
(* waits for approval.                                                     *)
CreatorOffered == shown = "awaiting"

(* What a button does, and whether the page that has it shows it. *)
Offered(kind) ==
    CASE kind \in CreatorKinds -> CreatorOffered
      [] kind \in {"pass", "refuse"} -> shown = "review"
      [] OTHER -> TRUE

(* The status that the row must have when it is loaded; the timeout takes  *)
(* what is waiting for approval for too long.                              *)
Admitted(kind) ==
    CASE kind \in CreatorKinds \cup {"expire"} -> video.status = "awaiting"
      [] kind = "edit" -> video.status \in {"awaiting", "changes"}
      [] kind \in {"pass", "refuse"} -> video.status = "review"
      [] kind = "cancel" -> video.status \notin Over \cup {"none", "uploading"}
      [] kind = "retry" -> video.status = "failed"

CallKinds == CreatorKinds \cup {"edit", "pass", "refuse", "cancel", "retry", "expire"}

(* A button is pressed, and the request loads the row. *)
Press(kind) ==
    /\ called < MaxCalls
    /\ Cardinality(calls) < MaxAtOnce
    /\ Offered(kind)
    /\ Admitted(kind)
    /\ called' = called + 1
    /\ calls' = calls \cup {[kind |-> kind, text |-> video.text, stage |-> video.stage]}
    /\ UNCHANGED <<video, shown, queue, worker, again, lastLog, approvals, uploads>>

(* One call writes its columns and sends its task. *)
Done(c, row, stages) ==
    /\ c \in calls
    /\ calls' = calls \ {c}
    /\ video' = row
    /\ queue' = queue \cup stages

Become(status) == [video EXCEPT !.status = status]

(* approve_job *)
Approve(c) ==
    /\ c.kind = "approve"
    /\ Done(c, Become("approved"), {"upload"})
    /\ UNCHANGED <<shown, called, worker, again, lastLog, approvals, uploads>>

(* reject_job, and cancel_job of the creator and of the admin *)
Reject(c) ==
    /\ c.kind \in {"reject", "cancel"}
    /\ Done(c, Become("ended"), {})
    /\ UNCHANGED <<shown, called, worker, again, lastLog, approvals, uploads>>

(* request_changes: from the script, or from voice or visuals. *)
RequestChanges(c) ==
    /\ c.kind = "changes"
    /\ \E stage \in {"script", "film"} : Done(c, Become("changes"), {stage})
    /\ UNCHANGED <<shown, called, worker, again, lastLog, approvals, uploads>>

Unapproved(row) == [row EXCEPT !.cutApproved = 0, !.textApproved = 0]

(* update_metadata: the text is moderated again. *)
EditText(c) ==
    /\ c.kind = "edit"
    /\ video.text <= MaxTextEdits
    /\ Done(c, Unapproved([Become("working") EXCEPT !.text = @ + 1]), {"textcheck"})
    /\ UNCHANGED <<shown, called, worker, again, lastLog, approvals, uploads>>

(* on_final_moderation_passed, with the row that was loaded: the newest    *)
(* file and the loaded text are recorded as approved; then the creator is  *)
(* asked, or it is uploaded.                                               *)
PassFinal(text, status) ==
    [video EXCEPT !.cutApproved = video.cut, !.textApproved = text, !.status = status]

AfterPass == {"awaiting", "upload_queued"}
Sent(status) == IF status = "upload_queued" THEN {"upload"} ELSE {}

(* decide: the latest log says which gate the moderator answers for. *)
Decide(c) ==
    /\ c.kind \in {"pass", "refuse"}
    /\ \/ /\ c.kind = "refuse"
          /\ Done(c, Become("ended"), {})
          /\ UNCHANGED approvals
       \/ /\ c.kind = "pass" /\ lastLog = "textcheck"
          /\ Done(c, Become("working"), {"film"})
          /\ UNCHANGED approvals
       \/ /\ c.kind = "pass" /\ lastLog = "finalcheck"
          /\ approvals' = approvals \cup {<<video.cut, c.text>>}
          /\ \E status \in AfterPass : Done(c, PassFinal(c.text, status), Sent(status))
    /\ UNCHANGED <<shown, called, worker, again, lastLog, uploads>>

(* retry_job: from the stage that failed, from the script after moderation *)
(* or the upload.                                                          *)
RetryJob(c) ==
    /\ c.kind = "retry"
    /\ Done(c, Become("working"), {IF c.stage = "film" THEN "film" ELSE "script"})
    /\ UNCHANGED <<shown, called, worker, again, lastLog, approvals, uploads>>

(* expire_stale_approvals: uploaded when the preference says so. *)
Expire(c) ==
    /\ c.kind = "expire"
    /\ \/ Done(c, Become("ended"), {})
       \/ Done(c, Become("upload_queued"), {"upload"})
    /\ UNCHANGED <<shown, called, worker, again, lastLog, approvals, uploads>>

-----------------------------------------------------------------------------
(* The workers                                                             *)

(* A task leaves what is over alone; an upload also what is uploaded or    *)
(* not to be uploaded (approved, upload_queued, uploading, retrying).      *)
Wanted(stage) ==
    /\ video.status \notin Over
    /\ stage = "upload" =>
          /\ ~video.onYouTube
          /\ video.status \in {"approved", "upload_queued", "uploading"}

(* A delivery is acknowledged when its worker ends, so that it may come    *)
(* again before; a second one counts.                                      *)
Taken(stage) ==
    \/ queue' = queue \ {stage} /\ again' = again
    \/ again < MaxAgain /\ again' = again + 1 /\ queue' = queue

Skip(stage) ==
    /\ stage \in queue
    /\ ~Wanted(stage)
    /\ queue' = queue \ {stage}
    /\ UNCHANGED <<video, shown, calls, called, worker, again, lastLog, approvals,
                   uploads>>

(* The worker loads the row and sets the status of its stage. *)
Begin(w, stage) ==
    LET begun == [video EXCEPT
            !.status = IF stage = "upload" THEN "uploading" ELSE "working",
            !.stage = IF stage \in {"textcheck", "finalcheck"} THEN "moderation" ELSE stage] IN
    /\ worker[w] = AtRest
    /\ stage \in queue
    /\ Wanted(stage)
    /\ Taken(stage)
    /\ video' = begun
    /\ worker' = [worker EXCEPT ![w] = [stage |-> stage, row |-> begun]]
    /\ UNCHANGED <<shown, calls, called, lastLog, approvals, uploads>>

At(w, stage) == worker[w].stage = stage
Ended(w) == worker' = [worker EXCEPT ![w] = AtRest]
SendOn(stages) == queue' = queue \cup stages

(* The script and its text are made, unless they exist. *)
WriteScript(w) ==
    /\ At(w, "script")
    /\ video' = IF worker[w].row.text = 0 THEN [video EXCEPT !.text = 1] ELSE video
    /\ Ended(w) /\ SendOn({"textcheck"})
    /\ UNCHANGED <<shown, calls, called, again, lastLog, approvals, uploads>>

(* The gate judges the text that the worker loaded; a flagged one waits    *)
(* for a moderator, or is rejected when a revision takes its place.        *)
CheckText(w) ==
    /\ At(w, "textcheck")
    /\ lastLog' = "textcheck"
    /\ \/ /\ video' = Become("working")
          /\ SendOn({"film"})
       \/ /\ video' \in {Become("review"), Become("ended")}
          /\ UNCHANGED queue
    /\ Ended(w)
    /\ UNCHANGED <<shown, calls, called, again, approvals, uploads>>

(* Voice, visuals and assembly: a cut is made unless the worker found one. *)
(* The text is written back as it was loaded.                              *)
MakeFilm(w) ==
    /\ At(w, "film")
    /\ worker[w].row.cut = 0 => video.cut < MaxCuts
    /\ video' = [video EXCEPT !.text = worker[w].row.text,
                              !.cut = IF worker[w].row.cut = 0 THEN @ + 1 ELSE @]
    /\ Ended(w) /\ SendOn({"finalcheck"})
    /\ UNCHANGED <<shown, calls, called, again, lastLog, approvals, uploads>>

CheckFinal(w) ==
    /\ At(w, "finalcheck")
    /\ lastLog' = "finalcheck"
    /\ \/ \E status \in AfterPass :
             /\ video' = PassFinal(worker[w].row.text, status)
             /\ approvals' = approvals \cup {<<video.cut, worker[w].row.text>>}
             /\ SendOn(Sent(status))
       \/ /\ video' \in {Become("review"), Become("ended")}
          /\ UNCHANGED <<queue, approvals>>
    /\ Ended(w)
    /\ UNCHANGED <<shown, calls, called, again, uploads>>

(* Mutant of TextIsApproved: it is enough that some text was approved. *)
TextWasEverApproved(row) == row.cutApproved # 0

(* upload_job_video: the metadata digest of the loaded row, *)
TextIsApproved(row) == row.cutApproved # 0 /\ row.textApproved = row.text

(* and the digest of the file as it is downloaded. *)
FileIsApproved(row) == row.cutApproved = video.cut

(* videos.insert, with the downloaded file and the loaded text. *)
Insert(w) ==
    /\ At(w, "upload")
    /\ TextIsApproved(worker[w].row) /\ FileIsApproved(worker[w].row)
    /\ uploads' = Append(uploads, <<video.cut, worker[w].row.text>>)
    /\ worker' = [worker EXCEPT ![w].stage = "inserted"]
    /\ UNCHANGED <<video, shown, calls, called, queue, again, lastLog, approvals>>

(* mark_job_published *)
Publish(w) ==
    /\ At(w, "inserted")
    /\ video' = [Become("published") EXCEPT !.onYouTube = TRUE]
    /\ Ended(w)
    /\ UNCHANGED <<shown, calls, called, queue, again, lastLog, approvals, uploads>>

(* The text or the file is not what was approved, the channel is gone, or  *)
(* any stage fails for good.                                               *)
FailJob(w) ==
    /\ worker[w].stage \notin {"none", "inserted"}
    /\ video' = Become("failed")
    /\ Ended(w)
    /\ UNCHANGED <<shown, calls, called, queue, again, lastLog, approvals, uploads>>

(* The quota of the day is used up (upload_queued), or YouTube is out of   *)
(* reach (retrying, the same to what follows): it is tried again later.    *)
Postpone(w) ==
    /\ At(w, "upload")
    /\ again < MaxAgain
    /\ again' = again + 1
    /\ video' = Become("upload_queued")
    /\ Ended(w) /\ SendOn({"upload"})
    /\ UNCHANGED <<shown, calls, called, lastLog, approvals, uploads>>

(* The machine goes down: what was not acknowledged is delivered again. *)
WorkerGoes(w) ==
    /\ worker[w] # AtRest
    /\ again < MaxAgain
    /\ again' = again + 1
    /\ queue' = queue \cup {IF At(w, "inserted") THEN "upload" ELSE worker[w].stage}
    /\ Ended(w)
    /\ UNCHANGED <<video, shown, calls, called, lastLog, approvals, uploads>>

-----------------------------------------------------------------------------
WorkerStep(w) ==
    \/ \E stage \in queue : Begin(w, stage)
    \/ WriteScript(w) \/ CheckText(w) \/ MakeFilm(w) \/ CheckFinal(w)
    \/ Insert(w) \/ Publish(w) \/ FailJob(w) \/ Postpone(w) \/ WorkerGoes(w)

CallStep(c) ==
    \/ Approve(c) \/ Reject(c) \/ RequestChanges(c) \/ EditText(c)
    \/ Decide(c) \/ RetryJob(c) \/ Expire(c)

VideoNext ==
    \/ GenerateNow \/ LoadVideo
    \/ \E kind \in CallKinds : Press(kind)
    \/ \E c \in calls : CallStep(c)
    \/ \E stage \in queue : Skip(stage)
    \/ \E w \in Workers : WorkerStep(w)

VideoSpec == VideoInit /\ [][VideoNext]_videoVars

-----------------------------------------------------------------------------
(* What goes to YouTube is a file and a text that one and the same         *)
(* decision of the final moderation approved, whatever was edited,         *)
(* regenerated, delivered again or decided in between (moderation_proof,   *)
(* upload_job_video).                                                      *)
PublishedAsApproved ==
    \A i \in 1 .. Len(uploads) : uploads[i] \in approvals

(* tasks.py: "At-least-once re-delivery after a crash between insert and   *)
(* commit - never upload twice".                                           *)
UploadedOnce == Len(uploads) <= 1
=============================================================================
