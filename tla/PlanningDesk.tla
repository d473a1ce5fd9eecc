---------------------------- MODULE PlanningDesk ----------------------------
(***************************************************************************)
(* The assistant page and the content plans of a creator (frontend/src/    *)
(* pages/assistant/AssistantPage.tsx, pages/creator/ContentPlanPage.tsx)   *)
(* with backend/content_planning (assistant_views, assistant, plan_views,  *)
(* proposals).                                                             *)
(*                                                                         *)
(* Asking: a message to the assistant, and a proposal from the form beside *)
(* it, are drafts with a request key.  The key is kept when sending fails, *)
(* so that a draft sent again is the same request; the server makes one    *)
(* row, "turn" below, for a key and a worker asks the provider.  A request *)
(* may be carried out after the page has given up on it, and a task may be *)
(* delivered again until the worker that took it has ended.  Two requests  *)
(* with one key are one.                                                   *)
(*                                                                         *)
(* Planning: a ready plan is edited and approved in several tabs.  What a  *)
(* tab sends comes from the plan it has loaded, however old; the server    *)
(* takes the plan's row lock, so a request is one step.                    *)
(***************************************************************************)
EXTENDS Naturals, FiniteSets, Sequences

CONSTANTS
    Asking,         \* kinds of draft
    Message,        \* the kind that is a message to the assistant
    Items,          \* items of the plan
    PlanTabs,       \* tabs in which the plan is open
    MaxDrafts,      \* bound: drafts written of each kind
    MaxTexts        \* bound: texts saved into items

ASSUME PlanningDeskAssumption ==
    /\ Message \in Asking
    /\ MaxDrafts \in Nat \ {0} /\ MaxTexts \in Nat

VARIABLES
    draft,      \* what the form holds: the text and its request key
    awaiting,   \* the form waits for an answer
    posts,      \* requests on their way
    turn,       \* assistant_turns and content_plans, by request key
    tasks,      \* tasks of the workers that were not acknowledged
    plan,       \* the plan: status and items
    planShown,  \* the plan as each tab has loaded it
    jobsOf      \* jobs made of each item: the texts they were made with

askVars      == <<draft, awaiting, posts, turn, tasks>>
planVars     == <<plan, planShown, jobsOf>>
planningVars == <<askVars, planVars>>

-----------------------------------------------------------------------------
Keys == 1 .. MaxDrafts

NoTurn == [status |-> "none", text |-> 0, asked |-> 0, old |-> FALSE]

(* A plan that was proposed, with all its items selected. *)
ReadyPlan == [status |-> "ready",
              items |-> [i \in Items |-> [selected |-> TRUE, text |-> 0]]]

PlanningInit ==
    /\ draft = [k \in Asking |-> [text |-> 1, key |-> 1]]
    /\ awaiting = [k \in Asking |-> FALSE]
    /\ posts = {}
    /\ turn = [k \in Asking |-> [key \in Keys |-> NoTurn]]
    /\ tasks = {}
    /\ plan = ReadyPlan
    /\ planShown = [t \in PlanTabs |-> plan]
    /\ jobsOf = [i \in Items |-> <<>>]

-----------------------------------------------------------------------------
UnderWay(k) == \E key \in Keys : turn[k][key].status \in {"pending", "running"}

(* What the form holds next, and after a request that failed. *)
NextDraft(k) == [draft EXCEPT ![k] = [text |-> @.text + 1, key |-> @.key + 1]]

AfterFailure(k) == draft

(* Every edit of the message, or of the number of videos, draws a new key. *)
EditDraft(k) ==
    /\ ~awaiting[k]
    /\ draft[k].key < MaxDrafts
    /\ draft' = NextDraft(k)
    /\ UNCHANGED <<awaiting, posts, turn, tasks, planVars>>

Posted(k, d) == [kind |-> k, text |-> d.text, key |-> d.key]

(* "Send".  The page blocks it while it knows of a turn under way, which   *)
(* the server checks again.                                                *)
SendDraft(k) ==
    /\ ~awaiting[k]
    /\ awaiting' = [awaiting EXCEPT ![k] = TRUE]
    /\ posts' = posts \cup {Posted(k, draft[k])}
    /\ UNCHANGED <<draft, turn, tasks, planVars>>

(* "Propose" of ContentPlanPage: every press draws a key of its own, so    *)
(* that what is asked again after a lost answer is another draft.          *)
ProposeAfresh(k) ==
    /\ k # Message
    /\ ~awaiting[k]
    /\ draft[k].key < MaxDrafts
    /\ draft' = NextDraft(k)
    /\ awaiting' = [awaiting EXCEPT ![k] = TRUE]
    /\ posts' = posts \cup {Posted(k, draft'[k])}
    /\ UNCHANGED <<turn, tasks, planVars>>

(* The answer is lost; the request may still be carried out. *)
LoseAnswer(k) ==
    /\ awaiting[k]
    /\ draft[k].key < MaxDrafts
    /\ draft' = AfterFailure(k)
    /\ awaiting' = [awaiting EXCEPT ![k] = FALSE]
    /\ UNCHANGED <<posts, turn, tasks, planVars>>

Awaited(p) == awaiting[p.kind] /\ draft[p.kind].key = p.key

(* The page gets the row of its key: the draft is done. *)
Answer(p) ==
    IF Awaited(p) /\ p.key < MaxDrafts
    THEN draft' = NextDraft(p.kind) /\ awaiting' = [awaiting EXCEPT ![p.kind] = FALSE]
    ELSE UNCHANGED <<draft, awaiting>>

Refusal(p) ==
    IF Awaited(p)
    THEN draft' = AfterFailure(p.kind) /\ awaiting' = [awaiting EXCEPT ![p.kind] = FALSE]
    ELSE UNCHANGED <<draft, awaiting>>

(* POST: the user's row, or the channel's, is locked.  A key that is known *)
(* gets its row again, whatever became of it.                              *)
AnswerAgain(p) ==
    /\ p \in posts
    /\ turn[p.kind][p.key].status # "none"
    /\ posts' = posts \ {p}
    /\ Answer(p)
    /\ UNCHANGED <<turn, tasks, planVars>>

(* Another one is under way; or a limit, the budget or a gate is in the    *)
(* way.                                                                    *)
Refuse(p) ==
    /\ p \in posts
    /\ turn[p.kind][p.key].status = "none"
    /\ p.key < MaxDrafts
    /\ posts' = posts \ {p}
    /\ Refusal(p)
    /\ UNCHANGED <<turn, tasks, planVars>>

(* A row is made and its task sent; a message whose task cannot be sent is *)
(* marked failed, a proposal stays pending.                                *)
Accept(p) ==
    /\ p \in posts
    /\ turn[p.kind][p.key].status = "none"
    /\ ~UnderWay(p.kind)
    /\ posts' = posts \ {p}
    /\ Answer(p)
    /\ \E sent \in BOOLEAN :
          /\ tasks' = IF sent THEN tasks \cup {[kind |-> p.kind, key |-> p.key, taken |-> FALSE]}
                      ELSE tasks
          /\ turn' = [turn EXCEPT ![p.kind][p.key] =
                [NoTurn EXCEPT !.text = p.text,
                    !.status = IF p.kind = Message /\ ~sent THEN "failed" ELSE "pending"]]
    /\ UNCHANGED planVars

-----------------------------------------------------------------------------
(* Mutant of MayStart: a worker does not look at the status. *)
MayStartAny(k, key) == TRUE

(* respond, prepare_proposal: the update from pending. *)
MayStart(k, key) == turn[k][key].status = "pending"

(* A worker takes the task and asks the provider (a second call is enough  *)
(* to be seen).                                                            *)
StartTurn(task) ==
    /\ task \in tasks
    /\ MayStart(task.kind, task.key)
    /\ turn[task.kind][task.key].asked < 2
    /\ turn' = [turn EXCEPT ![task.kind][task.key] =
          [turn[task.kind][task.key] EXCEPT !.status = "running", !.asked = @ + 1]]
    /\ tasks' = (tasks \ {task}) \cup {[task EXCEPT !.taken = TRUE]}
    /\ UNCHANGED <<draft, awaiting, posts, planVars>>

(* The final save: a message's is not conditional, a plan's is. *)
FinishTurn(task) ==
    /\ task \in tasks /\ task.taken
    /\ tasks' = tasks \ {task}
    /\ \E status \in {"completed", "failed"} :
          turn' = IF task.kind = Message \/ turn[task.kind][task.key].status = "running"
                  THEN [turn EXCEPT ![task.kind][task.key].status = status]
                  ELSE turn
    /\ UNCHANGED <<draft, awaiting, posts, planVars>>

(* The worker is killed: the task is acknowledged (ContentPlan and turn    *)
(* keep their status).                                                     *)
WorkerDies(task) ==
    /\ task \in tasks /\ task.taken
    /\ tasks' = tasks \ {task}
    /\ UNCHANGED <<draft, awaiting, posts, turn, planVars>>

TurnAges(key) ==
    /\ turn[Message][key].status \in {"pending", "running"}
    /\ turn' = [turn EXCEPT ![Message][key].old = TRUE]
    /\ UNCHANGED <<draft, awaiting, posts, tasks, planVars>>

(* GET /me/assistant, polled by the page: messages older than ten minutes  *)
(* are given up, also one that a worker is at.                             *)
SweepTurns ==
    /\ turn' = [turn EXCEPT ![Message] = [key \in Keys |->
          IF @[key].old /\ @[key].status \in {"pending", "running"}
          THEN [@[key] EXCEPT !.status = "failed"] ELSE @[key]]]
    /\ UNCHANGED <<draft, awaiting, posts, tasks, planVars>>

-----------------------------------------------------------------------------
(* useQuery(['content-plans']), every 5 seconds. *)
LoadPlan(t) ==
    /\ planShown' = [planShown EXCEPT ![t] = plan]
    /\ UNCHANGED <<askVars, plan, jobsOf>>

(* Mutant of Editable: an item is saved whatever became of its plan. *)
EditableAlways == TRUE

(* PATCH: only while the plan is ready. *)
Editable == plan.status = "ready"

(* The page shows every plan it has loaded; one that is ready there can be *)
(* edited and approved.                                                    *)
EditOffered(t) == planShown[t].status = "ready"

ToggleItem(t, i) ==
    /\ EditOffered(t)
    /\ Editable
    /\ plan' = [plan EXCEPT !.items[i].selected = ~planShown[t].items[i].selected]
    /\ UNCHANGED <<askVars, planShown, jobsOf>>

(* "Save": the title and the brief of the form are written. *)
SaveItem(t, i, text) ==
    /\ EditOffered(t)
    /\ Editable
    /\ plan' = [plan EXCEPT !.items[i].text = text]
    /\ UNCHANGED <<askVars, planShown, jobsOf>>

(* "Approve" sends the items that were selected when the tab loaded them:  *)
(* approve_proposal makes a job of each.  An approved plan is left alone.  *)
ApprovePlan(t) ==
    LET chosen == {i \in Items : planShown[t].items[i].selected} IN
    /\ EditOffered(t)
    /\ chosen # {}
    /\ plan.status = "ready"
    /\ plan' = [status |-> "approved",
                items |-> [i \in Items |-> [plan.items[i] EXCEPT !.selected = i \in chosen]]]
    /\ jobsOf' = [i \in Items |->
          IF i \in chosen THEN Append(jobsOf[i], plan.items[i].text) ELSE jobsOf[i]]
    /\ UNCHANGED <<askVars, planShown>>

-----------------------------------------------------------------------------
AskStep(k) ==
    \/ EditDraft(k) \/ SendDraft(k) \/ ProposeAfresh(k) \/ LoseAnswer(k)
    \/ \E p \in posts : p.kind = k /\ (AnswerAgain(p) \/ Refuse(p) \/ Accept(p))
    \/ \E task \in tasks :
          task.kind = k /\ (StartTurn(task) \/ FinishTurn(task) \/ WorkerDies(task))

SweepStep == SweepTurns \/ \E key \in Keys : TurnAges(key)

PlanStep ==
    \E t \in PlanTabs :
        \/ LoadPlan(t) \/ ApprovePlan(t)
        \/ \E i \in Items :
              \/ ToggleItem(t, i)
              \/ \E text \in 1 .. MaxTexts : SaveItem(t, i, text)

PlanningNext == (\E k \in Asking : AskStep(k)) \/ SweepStep \/ PlanStep

PlanningSpec == PlanningInit /\ [][PlanningNext]_planningVars

-----------------------------------------------------------------------------
(* A draft asks the provider once, however often it is sent after answers  *)
(* that were lost or refused and however late its requests and tasks are   *)
(* carried out (AssistantView.post, create_proposal, respond,              *)
(* prepare_proposal).                                                      *)
AskedOnce ==
    \A k \in Asking : \A key \in Keys :
        /\ turn[k][key].asked <= 1
        /\ \A other \in Keys \ {key} :
              turn[k][key].asked > 0 /\ turn[k][other].asked > 0 =>
              turn[k][key].text # turn[k][other].text

(* The jobs of an approved plan are its selected items, one each and with  *)
(* the text that the plan keeps showing; no other plan has any             *)
(* (approve_proposal, PlanItemView).                                       *)
ApprovedAsPlanned ==
    \A i \in Items :
        jobsOf[i] = IF plan.status = "approved" /\ plan.items[i].selected
                    THEN <<plan.items[i].text>> ELSE <<>>

=============================================================================
