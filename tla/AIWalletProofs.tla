--------------------------- MODULE AIWalletProofs ---------------------------
(***************************************************************************)
(* Proofs about AIWallet, for every set of jobs, plans, invoices and       *)
(* workers and all amounts.                                                *)
(*                                                                         *)
(* What a job may spend is what is left of its claim (BudgetInv); a refund *)
(* handler past FindGrant has a payment (RefundInv).  The columns equal    *)
(* their sums (ReserveInv, LedgerInv): a sum is a number of units, so that *)
(* changing one row moves it by the difference (TotalUpdate), whatever the *)
(* number of rows.                                                         *)
(***************************************************************************)
EXTENDS AIWallet, FiniteSetTheorems, TLAPS

(* What Reversed returns is an amount, not below what was refunded before, *)
(* and not above Grant unless more was already taken back.                 *)
LEMMA ReversedIsBounded ==
    ASSUME NEW i \in Invoices, refunded \in [Invoices -> Nat], NEW n \in Nat
    PROVE  /\ Reversed(i, n) \in Nat
           /\ Reversed(i, n) >= refunded[i]
           /\ refunded[i] <= Grant => Reversed(i, n) <= Grant
BY AIWalletAssumption DEF Reversed

(* The amount of an event is a number.                                     *)
LEMMA EventShape ==
    ASSUME NEW e \in Events
    PROVE  e.inv \in Invoices /\ e.amount \in Nat
<1>1. e.inv \in Invoices /\ e.amount \in Refunds \cup {0}
  BY DEF Events
<1>2. \A n \in Refunds : n \in Nat
  BY AIWalletAssumption
<1> QED
  BY <1>1, <1>2

CallRec  == [pc : CallPCs, cost : Nat]
PlanRec  == [pc : PlanPCs, cost : Nat]

(* Replacing the call of one worker keeps the calls well-formed.           *)
LEMMA CallUpdate ==
    ASSUME NEW j \in Jobs, NEW w \in Workers, NEW r \in CallRec,
           call \in [Jobs -> [Workers -> CallRec]],
           call' = [call EXCEPT ![j][w] = r]
    PROVE  call' \in [Jobs -> [Workers -> CallRec]]
OBVIOUS

LEMMA CallPcUpdate ==
    ASSUME NEW j \in Jobs, NEW w \in Workers, NEW pc \in CallPCs,
           call \in [Jobs -> [Workers -> CallRec]],
           At(j, w, pc)
    PROVE  call' \in [Jobs -> [Workers -> CallRec]]
BY DEF CallRec, At

LEMMA PlanPcUpdate ==
    ASSUME NEW p \in Proposals, NEW pc \in PlanPCs,
           planCall \in [Proposals -> PlanRec],
           PlanAt(p, pc)
    PROVE  planCall' \in [Proposals -> PlanRec]
BY DEF PlanRec, PlanAt

LEMMA PlanUpdate ==
    ASSUME NEW p \in Proposals, NEW r \in PlanRec,
           planCall \in [Proposals -> PlanRec],
           planCall' = [planCall EXCEPT ![p] = r]
    PROVE  planCall' \in [Proposals -> PlanRec]
OBVIOUS

(* Replacing the claim of one owner keeps the claims amounts.              *)
LEMMA ClaimUpdate ==
    ASSUME NEW c \in Claims, NEW n \in Nat,
           claim \in [Claims -> Nat],
           claim' = [claim EXCEPT ![c] = n]
    PROVE  claim' \in [Claims -> Nat]
OBVIOUS

LEMMA ReleaseUpdate ==
    ASSUME NEW c \in Claims, NEW n \in 0 .. Releasers,
           release \in [Claims -> 0 .. Releasers],
           release' = [release EXCEPT ![c] = n]
    PROVE  release' \in [Claims -> 0 .. Releasers]
OBVIOUS

----------------------------------------------------------------------------
(* Type correctness, one part for the wallet and the jobs, one for the     *)
(* plans and the releases, one for the events.                             *)

JobTypes ==
    /\ balance \in Int /\ reserved \in Int /\ used \in Nat
    /\ claim \in [Claims -> Nat]
    /\ spent \in [Jobs -> Nat]
    /\ call \in [Jobs -> [Workers -> CallRec]]
    /\ lost \in [Jobs -> Nat]
    /\ faults \in 0 .. MaxFaults

PlanTypes ==
    /\ planStatus \in [Proposals -> {"pending", "generating", "ended"}]
    /\ planCall \in [Proposals -> PlanRec]
    /\ release \in [Claims -> 0 .. Releasers]

EventTypes ==
    /\ paid \subseteq Invoices
    /\ refunded \in [Invoices -> Nat]
    /\ event \in [Events -> {"none", "received", "processed", "failed"}]
    /\ hook \in [Events -> {"off", "started", "granted", "ran"}]
    /\ answered \subseteq Events

LEMMA TypeParts == TypeOK <=> JobTypes /\ PlanTypes /\ EventTypes
BY DEF TypeOK, JobTypes, PlanTypes, EventTypes, CallRec, PlanRec

LEMMA TypePartsNext == TypeOK' <=> JobTypes' /\ PlanTypes' /\ EventTypes'
BY DEF TypeOK, JobTypes, PlanTypes, EventTypes, CallRec, PlanRec

LEMMA FaultStep == ASSUME faults \in 0 .. MaxFaults, Fault PROVE faults' \in 0 .. MaxFaults
BY AIWalletAssumption DEF Fault

LEMMA TypeInit == Init => TypeOK
<1> SUFFICES ASSUME Init PROVE JobTypes /\ PlanTypes /\ EventTypes
  BY TypeParts
<1>1. NoCall \in CallRec /\ NoPlanCall \in PlanRec
  BY DEF NoCall, NoPlanCall, CallRec, PlanRec, CallPCs, PlanPCs
<1>2. JobTypes
  BY <1>1, AIWalletAssumption DEF Init, JobTypes
<1>3. PlanTypes
  BY <1>1, AIWalletAssumption DEF Init, PlanTypes
<1>4. EventTypes
  BY DEF Init, EventTypes
<1> QED
  BY <1>2, <1>3, <1>4

LEMMA TypeWorker ==
    ASSUME TypeOK, NEW j \in Jobs, NEW w \in Workers, WorkerStep(j, w)
    PROVE  TypeOK'
<1>1. JobTypes /\ PlanTypes /\ EventTypes
  BY TypeParts
<1>2. /\ j \in Claims /\ claim[j] \in Nat /\ spent[j] \in Nat /\ lost[j] \in Nat
      /\ call[j][w] \in CallRec
      /\ call[j][w].pc \in CallPCs /\ call[j][w].cost \in Nat
  BY <1>1 DEF JobTypes, Claims, CallRec
<1>3. NoCall \in CallRec
  BY DEF NoCall, CallRec, CallPCs
<1>4. UNCHANGED <<planVars, release, stripeVars, paid, refunded>>
  BY DEF WorkerStep, ReserveJob, EnsureJobCallBudget, CallProvider, DebitUsage, CrashCall,
         walletVars
<1>5. PlanTypes' /\ EventTypes'
  BY <1>1, <1>4 DEF PlanTypes, EventTypes, planVars, stripeVars
<1>6. JobTypes'
  <2>1. CASE ReserveJob(j, w)
    <3>1. /\ \/ UNCHANGED <<claim, reserved>>
             \/ \E n \in Nat : /\ claim' = [claim EXCEPT ![j] = n]
                              /\ reserved' = reserved + n
          /\ At(j, w, "reserved")
          /\ UNCHANGED <<balance, used, spent, lost, faults>>
      BY <1>1, <1>2, <2>1, AIWalletAssumption DEF ReserveJob, histVars, JobTypes
    <3>2. claim' \in [Claims -> Nat] /\ reserved' \in Int
      BY <1>1, <1>2, <3>1, ClaimUpdate DEF JobTypes
    <3>3. call' \in [Jobs -> [Workers -> CallRec]]
      BY <1>1, <3>1, CallPcUpdate DEF JobTypes, CallPCs
    <3> QED
      BY <1>1, <3>1, <3>2, <3>3 DEF JobTypes
  <2>2. CASE EnsureJobCallBudget(j, w)
    <3>1. PICK r \in CallRec : call' = [call EXCEPT ![j][w] = r]
      <4>1. CASE \E cost \in Costs :
                    call' = [call EXCEPT ![j][w] = [pc |-> "allowed", cost |-> cost]]
        BY <4>1, AIWalletAssumption DEF CallRec, CallPCs
      <4>2. CASE call' = [call EXCEPT ![j][w] = NoCall]
        BY <4>2, <1>3
      <4> QED
        BY <2>2, <4>1, <4>2 DEF EnsureJobCallBudget
    <3>2. call' \in [Jobs -> [Workers -> CallRec]]
      BY <1>1, <3>1, CallUpdate DEF JobTypes
    <3> QED
      BY <1>1, <2>2, <3>2 DEF JobTypes, EnsureJobCallBudget, walletVars, histVars
  <2>3. CASE CallProvider(j, w)
    <3>0. PICK cost \in Costs \cup {0} :
             /\ spent' = [spent EXCEPT ![j] = @ + cost]
             /\ call' = [call EXCEPT ![j][w] = [pc |-> "logged", cost |-> cost]]
      BY <2>3 DEF CallProvider
    <3>a. cost \in Nat
      BY AIWalletAssumption
    <3>b. [pc |-> "logged", cost |-> cost] \in CallRec
      BY <3>a DEF CallRec, CallPCs
    <3>1. call' \in [Jobs -> [Workers -> CallRec]]
      BY <1>1, <3>0, <3>b, CallUpdate DEF JobTypes
    <3>2. spent' \in [Jobs -> Nat]
      BY <1>1, <1>2, <3>0, <3>a DEF JobTypes
    <3> QED
      BY <1>1, <2>3, <3>1, <3>2 DEF JobTypes, CallProvider, walletVars, histVars
  <2>4. CASE DebitUsage(j, w)
    <3>1. call' \in [Jobs -> [Workers -> CallRec]]
      BY <1>1, <1>3, <2>4, CallUpdate DEF JobTypes, DebitUsage
    <3>2. PICK n \in Nat : claim' = [claim EXCEPT ![j] = n]
      <4> DEFINE freed == IF claim[j] < call[j][w].cost THEN claim[j] ELSE call[j][w].cost
      <4>1. claim[j] - freed \in Nat
        BY <1>2
      <4>2. claim' = [claim EXCEPT ![j] = claim[j] - freed]
        BY <2>4 DEF DebitUsage
      <4> QED
        BY <4>1, <4>2
    <3>3. claim' \in [Claims -> Nat]
      BY <1>1, <1>2, <3>2, ClaimUpdate DEF JobTypes
    <3>4. reserved' \in Int /\ balance' \in Int /\ used' \in Nat
      BY <1>1, <1>2, <2>4 DEF JobTypes, DebitUsage
    <3> QED
      BY <1>1, <2>4, <3>1, <3>3, <3>4 DEF JobTypes, DebitUsage, histVars
  <2>5. CASE CrashCall(j, w)
    <3>1. call' \in [Jobs -> [Workers -> CallRec]]
      BY <1>1, <1>3, <2>5, CallUpdate DEF JobTypes, CrashCall
    <3>2. lost' \in [Jobs -> Nat]
      BY <1>1, <1>2, <2>5 DEF JobTypes, CrashCall
    <3>3. faults' \in 0 .. MaxFaults
      BY <1>1, <2>5, FaultStep DEF JobTypes, CrashCall
    <3> QED
      BY <1>1, <2>5, <3>1, <3>2, <3>3 DEF JobTypes, CrashCall, walletVars
  <2> QED
    BY <2>1, <2>2, <2>3, <2>4, <2>5 DEF WorkerStep
<1> QED
  BY <1>5, <1>6, TypePartsNext

LEMMA TypePlan ==
    ASSUME TypeOK, NEW p \in Proposals, PlanStep(p) \/ ReconcileHold(p)
    PROVE  TypeOK'
<1>1. JobTypes /\ PlanTypes /\ EventTypes
  BY TypeParts
<1>2. /\ p \in Claims /\ release[p] \in 0 .. Releasers
      /\ planCall[p].pc \in PlanPCs /\ planCall[p].cost \in Nat
  BY <1>1 DEF PlanTypes, Claims, PlanRec
<1>3. NoPlanCall \in PlanRec
  BY DEF NoPlanCall, PlanRec, PlanPCs
<1>4. UNCHANGED <<jobVars, paid, refunded, stripeVars, lost>>
  BY DEF PlanStep, StartPlan, HoldOperation, CallPlanner, DebitPlan, FinishPlan, CrashPlan,
         ReconcileHold, walletVars, histVars, jobVars
<1>5. EventTypes'
  BY <1>1, <1>4 DEF EventTypes, stripeVars
<1>6. Open(p) => release' \in [Claims -> 0 .. Releasers]
  BY <1>1, <1>2, AIWalletAssumption DEF PlanTypes, Open
<1>7. JobTypes' /\ PlanTypes'
  <2>1. CASE StartPlan(p)
    <3>1. planCall' \in [Proposals -> PlanRec]
      BY <1>1, <2>1, PlanPcUpdate DEF PlanTypes, StartPlan, PlanPCs
    <3> QED
      BY <1>1, <2>1, <3>1 DEF JobTypes, PlanTypes, StartPlan, walletVars, jobVars, histVars
  <2>2. CASE HoldOperation(p)
    <3>1. planCall' \in [Proposals -> PlanRec]
      BY <1>1, <2>2, PlanPcUpdate DEF PlanTypes, HoldOperation, PlanPCs
    <3>2. claim' \in [Claims -> Nat]
      BY <1>1, <1>2, <2>2, ClaimUpdate, AIWalletAssumption DEF JobTypes, HoldOperation
    <3>3. reserved' \in Int
      BY <1>1, <2>2, AIWalletAssumption DEF JobTypes, HoldOperation
    <3> QED
      BY <1>1, <2>2, <3>1, <3>2, <3>3 DEF JobTypes, PlanTypes, HoldOperation, jobVars, histVars
  <2>3. CASE CallPlanner(p)
    <3>1. PICK cost \in Costs : planCall' = [planCall EXCEPT ![p] = [pc |-> "logged", cost |-> cost]]
      BY <2>3 DEF CallPlanner
    <3>2. [pc |-> "logged", cost |-> cost] \in PlanRec
      BY AIWalletAssumption DEF PlanRec, PlanPCs
    <3>3. planCall' \in [Proposals -> PlanRec]
      BY <1>1, <3>1, <3>2, PlanUpdate DEF PlanTypes
    <3> QED
      BY <1>1, <2>3, <3>3 DEF JobTypes, PlanTypes, CallPlanner, walletVars, jobVars, histVars
  <2>4. CASE DebitPlan(p)
    <3>1. [pc |-> "debited", cost |-> 0] \in PlanRec
      BY DEF PlanRec, PlanPCs
    <3>2. planCall' \in [Proposals -> PlanRec]
      BY <1>1, <2>4, <3>1, PlanUpdate DEF PlanTypes, DebitPlan
    <3>3. balance' \in Int /\ used' \in Nat
      BY <1>1, <1>2, <2>4 DEF JobTypes, DebitPlan
    <3> QED
      BY <1>1, <2>4, <3>2, <3>3 DEF JobTypes, PlanTypes, DebitPlan, jobVars, histVars
  <2>5. CASE FinishPlan(p)
    <3>1. planCall' \in [Proposals -> PlanRec]
      BY <1>1, <1>3, <2>5, PlanUpdate DEF PlanTypes, FinishPlan
    <3> QED
      BY <1>1, <1>6, <2>5, <3>1 DEF JobTypes, PlanTypes, FinishPlan, walletVars, jobVars, histVars
  <2>6. CASE CrashPlan(p)
    <3>1. planCall' \in [Proposals -> PlanRec]
      BY <1>1, <1>3, <2>6, PlanUpdate DEF PlanTypes, CrashPlan
    <3>2. faults' \in 0 .. MaxFaults
      BY <1>1, <2>6, FaultStep DEF JobTypes, CrashPlan
    <3> QED
      BY <1>1, <2>6, <3>1, <3>2 DEF JobTypes, PlanTypes, CrashPlan, walletVars, jobVars
  <2>7. CASE ReconcileHold(p)
    BY <1>1, <1>6, <2>7 DEF JobTypes, PlanTypes, ReconcileHold, walletVars, jobVars, histVars
  <2> QED
    BY <2>1, <2>2, <2>3, <2>4, <2>5, <2>6, <2>7 DEF PlanStep
<1> QED
  BY <1>5, <1>7, TypePartsNext

LEMMA TypeRelease ==
    ASSUME TypeOK, NEW c \in Claims,
           FinishJob(c) \/ Release(c) \/ CrashRelease(c)
    PROVE  TypeOK'
<1>1. JobTypes /\ PlanTypes /\ EventTypes
  BY TypeParts
<1>2. release[c] \in 0 .. Releasers /\ claim[c] \in Nat
  BY <1>1 DEF PlanTypes, JobTypes
<1>3. release' \in [Claims -> 0 .. Releasers]
  <2>1. PICK n \in 0 .. Releasers : release' = [release EXCEPT ![c] = n]
    BY <1>2, AIWalletAssumption DEF FinishJob, Release, CrashRelease, Open
  <2> QED
    BY <1>1, <2>1, ReleaseUpdate DEF PlanTypes
<1>4. JobTypes'
  <2>1. CASE FinishJob(c)
    BY <1>1, <2>1 DEF JobTypes, FinishJob, walletVars, jobVars, histVars
  <2>2. CASE Release(c)
    <3>1. claim' \in [Claims -> Nat] /\ reserved' \in Int
      BY <1>1, <1>2, <2>2, ClaimUpdate DEF JobTypes, Release
    <3> QED
      BY <1>1, <2>2, <3>1 DEF JobTypes, Release, jobVars, histVars
  <2>3. CASE CrashRelease(c)
    <3>1. faults' \in 0 .. MaxFaults
      BY <1>1, <2>3, FaultStep DEF JobTypes, CrashRelease
    <3> QED
      BY <1>1, <2>3, <3>1 DEF JobTypes, CrashRelease, walletVars, jobVars
  <2> QED
    BY <2>1, <2>2, <2>3
<1>5. UNCHANGED <<planVars, stripeVars, paid, refunded>>
  BY DEF FinishJob, Release, CrashRelease, walletVars
<1> QED
  BY <1>1, <1>3, <1>4, <1>5, TypePartsNext DEF PlanTypes, EventTypes, planVars, stripeVars

EventStep(e) ==
    Deliver(e) \/ HookStep(e) \/ MarkFailed(e) \/ CrashHook(e) \/ ReconcileRefund(e)

LEMMA TypeEvent ==
    ASSUME TypeOK, NEW e \in Events, EventStep(e)
    PROVE  TypeOK'
<1>1. JobTypes /\ PlanTypes /\ EventTypes
  BY TypeParts
<1>2. /\ e.inv \in Invoices /\ refunded[e.inv] \in Nat
      /\ Reversed(e.inv, e.amount) \in Nat
  BY <1>1, EventShape, ReversedIsBounded DEF EventTypes
<1>3. UNCHANGED <<reserved, claim, used, jobVars, planVars, release, lost>>
  BY DEF EventStep, HookStep, Deliver, MarkFailed, CrashHook, ReconcileRefund, CreditPayment,
         FindGrant, ReverseStripeRefund, MarkProcessed, walletVars, histVars
<1>4. faults' \in 0 .. MaxFaults
  <2>1. CASE Fault
    BY <1>1, <2>1, FaultStep DEF JobTypes
  <2>2. CASE UNCHANGED faults
    BY <1>1, <2>2 DEF JobTypes
  <2> QED
    BY <2>1, <2>2 DEF EventStep, HookStep, Deliver, MarkFailed, CrashHook, ReconcileRefund,
       CreditPayment, FindGrant, ReverseStripeRefund, MarkProcessed, histVars
<1>5. balance' \in Int /\ EventTypes'
  <2>1. CASE CreditPayment(e)
    <3>1. PICK now \in 0 .. Grant :
             /\ refunded' = [refunded EXCEPT ![e.inv] = now]
             /\ balance' = balance + (IF e.inv \in paid THEN 0 ELSE Grant) - (now - refunded[e.inv])
      BY <2>1 DEF CreditPayment
    <3>2. now \in Nat
      BY AIWalletAssumption
    <3>3. balance' \in Int
      BY <1>1, <1>2, <3>1, <3>2, AIWalletAssumption DEF JobTypes
    <3>4. refunded' \in [Invoices -> Nat]
      BY <1>1, <3>1, <3>2 DEF EventTypes
    <3> QED
      BY <1>1, <1>2, <2>1, <3>3, <3>4 DEF EventTypes, CreditPayment
  <2>2. CASE FindGrant(e)
    BY <1>1, <2>2 DEF JobTypes, EventTypes, FindGrant, walletVars
  <2>3. CASE ReverseStripeRefund(e)
    <3>1. balance' \in Int
      BY <1>1, <1>2, <2>3 DEF JobTypes, ReverseStripeRefund
    <3> QED
      BY <1>1, <1>2, <2>3, <3>1 DEF EventTypes, ReverseStripeRefund
  <2>4. CASE MarkProcessed(e)
    BY <1>1, <2>4 DEF JobTypes, EventTypes, MarkProcessed, walletVars
  <2>5. CASE Deliver(e)
    BY <1>1, <2>5 DEF JobTypes, EventTypes, Deliver, walletVars
  <2>6. CASE MarkFailed(e)
    BY <1>1, <2>6 DEF JobTypes, EventTypes, MarkFailed, walletVars
  <2>7. CASE CrashHook(e)
    BY <1>1, <2>7 DEF JobTypes, EventTypes, CrashHook, walletVars
  <2>8. CASE ReconcileRefund(e)
    <3>1. balance' \in Int
      BY <1>1, <1>2, <2>8 DEF JobTypes, ReconcileRefund
    <3> QED
      BY <1>1, <1>2, <2>8, <3>1 DEF EventTypes, ReconcileRefund, stripeVars
  <2> QED
    BY <2>1, <2>2, <2>3, <2>4, <2>5, <2>6, <2>7, <2>8 DEF EventStep, HookStep
<1> QED
  BY <1>1, <1>3, <1>4, <1>5, TypePartsNext DEF JobTypes, PlanTypes, jobVars, planVars

LEMMA TypeStep == TypeOK /\ [Next]_vars => TypeOK'
<1> SUFFICES ASSUME TypeOK, [Next]_vars PROVE TypeOK'
  OBVIOUS
<1>1. CASE UNCHANGED vars
  BY <1>1 DEF TypeOK, vars, walletVars, jobVars, planVars, stripeVars, histVars
<1>2. CASE \E j \in Jobs, w \in Workers : WorkerStep(j, w)
  BY <1>2, TypeWorker
<1>3. CASE \E p \in Proposals : PlanStep(p) \/ ReconcileHold(p)
  BY <1>3, TypePlan
<1>4. CASE \E c \in Claims : FinishJob(c) \/ Release(c) \/ CrashRelease(c)
  BY <1>4, TypeRelease
<1>5. CASE \E e \in Events : EventStep(e)
  BY <1>5, TypeEvent
<1> QED
  BY <1>1, <1>2, <1>3, <1>4, <1>5 DEF Next, EventStep, Claims

(* THEOREM TypeCorrect: the columns, events and calls keep their shape: no *)
(* claim and no refunded sum ever goes below zero (debit_usage takes off a *)
(* reservation at most what it has).                                       *)
THEOREM TypeCorrect == Spec => []TypeOK
<1>1. Init => TypeOK
  BY TypeInit
<1>2. TypeOK /\ [Next]_vars => TypeOK'
  BY TypeStep
<1> QED
  BY <1>1, <1>2, PTL DEF Spec

----------------------------------------------------------------------------
(* The ceiling of a job                                                    *)

(* SpentWithinBudget is not inductive: what a job may still spend is its   *)
(* claim, so spent and claim together stay under the ceiling, except for   *)
(* the cost that is logged and about to be taken off the claim; and a call *)
(* that was allowed fits even if the claim is released under it.           *)
OneCaller(j) ==
    \A v, w \in Workers : call[j][v].pc # "idle" /\ call[j][w].pc # "idle" => v = w

JobBudget(j) ==
    /\ OneCaller(j)
    /\ spent[j] <= Budget + lost[j]
    /\ (\A w \in Workers : call[j][w].pc # "logged") => spent[j] + claim[j] <= Budget + lost[j]
    /\ \A w \in Workers :
          /\ call[j][w].pc = "logged" =>
                 spent[j] + claim[j] <= Budget + lost[j] + call[j][w].cost
          /\ call[j][w].pc = "allowed" => spent[j] + call[j][w].cost <= Budget + lost[j]

BudgetInv == \A j \in Jobs : JobBudget(j)

LEMMA BudgetInit == Init => BudgetInv
BY AIWalletAssumption DEF Init, BudgetInv, JobBudget, OneCaller, Claims, NoCall

(* Steps that are not a worker's only ever lower the claim of a job.       *)
LEMMA BudgetOther ==
    ASSUME TypeOK, TypeOK', BudgetInv,
           UNCHANGED <<spent, call, lost>>,
           \A j \in Jobs : claim'[j] <= claim[j]
    PROVE  BudgetInv'
<1> SUFFICES ASSUME NEW j \in Jobs PROVE JobBudget(j)'
  BY DEF BudgetInv
<1>1. /\ spent[j] \in Nat /\ claim[j] \in Nat /\ claim'[j] \in Nat /\ lost[j] \in Nat
      /\ \A w \in Workers : call[j][w].cost \in Nat
  BY DEF TypeOK, Claims
<1>2. JobBudget(j)
  BY DEF BudgetInv
<1> QED
  BY <1>1, <1>2, AIWalletAssumption DEF JobBudget, OneCaller

LEMMA BudgetWorker ==
    ASSUME TypeOK, TypeOK', BudgetInv, NEW j \in Jobs, NEW w \in Workers, WorkerStep(j, w)
    PROVE  BudgetInv'
<1>1. ASSUME NEW i \in Jobs, i # j
      PROVE  UNCHANGED <<spent[i], call[i], claim[i], lost[i]>>
  <2>1. JobTypes
    BY TypeParts
  <2> QED
    BY <1>1, <2>1 DEF JobTypes, Claims, WorkerStep, ReserveJob, EnsureJobCallBudget, CallProvider,
       DebitUsage, CrashCall, At, walletVars, histVars
<1>3. ASSUME NEW i \in Jobs, i # j
      PROVE  JobBudget(i)'
  <2>1. JobBudget(i)
    BY DEF BudgetInv
  <2> QED
    BY <1>1, <1>3, <2>1 DEF JobBudget, OneCaller
<1>4. JobBudget(j)'
  <2>1. JobBudget(j)
    BY DEF BudgetInv
  <2>2. /\ spent[j] \in Nat /\ claim[j] \in Nat /\ lost[j] \in Nat
        /\ call[j][w].cost \in Nat /\ j \in Claims
        /\ spent \in [Jobs -> Nat] /\ claim \in [Claims -> Nat] /\ lost \in [Jobs -> Nat]
        /\ call \in [Jobs -> [Workers -> CallRec]]
        /\ call'[j] \in [Workers -> CallRec]
    BY DEF TypeOK, Claims, CallRec
  <2>3. \A v \in Workers \ {w} : call'[j][v] = call[j][v]
    BY <2>2 DEF WorkerStep, ReserveJob, EnsureJobCallBudget, CallProvider, DebitUsage, CrashCall, At
  <2>4. \A v \in Workers \ {w} : call[j][v].pc = "idle"
    <3>1. CASE ReserveJob(j, w)
      BY <3>1 DEF ReserveJob, Alone
    <3>2. CASE call[j][w].pc # "idle"
      BY <2>1, <3>2 DEF JobBudget, OneCaller
    <3> QED
      BY <3>1, <3>2 DEF WorkerStep, EnsureJobCallBudget, CallProvider, DebitUsage, CrashCall
  <2>5. OneCaller(j)'
    BY <2>3, <2>4 DEF OneCaller
  <2>6. SUFFICES /\ spent'[j] <= Budget + lost'[j]
                 /\ call'[j][w].pc # "logged" => spent'[j] + claim'[j] <= Budget + lost'[j]
                 /\ call'[j][w].pc = "logged" =>
                        spent'[j] + claim'[j] <= Budget + lost'[j] + call'[j][w].cost
                 /\ call'[j][w].pc = "allowed" => spent'[j] + call'[j][w].cost <= Budget + lost'[j]
    BY <2>3, <2>4, <2>5 DEF JobBudget
  <2>7. CASE ReserveJob(j, w)
    <3>1. spent[j] + claim[j] <= Budget + lost[j]
      BY <2>1, <2>4, <2>7 DEF JobBudget, ReserveJob
    <3>2. call'[j][w].pc = "reserved" /\ spent'[j] = spent[j] /\ lost'[j] = lost[j]
      BY <2>2, <2>7 DEF ReserveJob, At, histVars, CallRec
    <3>3. spent[j] + claim'[j] <= Budget + lost[j]
      BY <2>2, <2>7, <3>1, AIWalletAssumption DEF ReserveJob
    <3> QED
      BY <2>1, <3>2, <3>3 DEF JobBudget
  <2>8. CASE EnsureJobCallBudget(j, w)
    <3>1. spent[j] + claim[j] <= Budget + lost[j]
      BY <2>1, <2>4, <2>8 DEF JobBudget, EnsureJobCallBudget
    <3>2. UNCHANGED <<spent, claim, lost>>
      BY <2>8 DEF EnsureJobCallBudget, walletVars, histVars
    <3>3. CASE call' = [call EXCEPT ![j][w] = NoCall]
      <4>1. call'[j][w].pc = "idle"
        BY <2>2, <3>3 DEF NoCall
      <4> QED
        BY <2>1, <3>1, <3>2, <4>1 DEF JobBudget
    <3>4. ASSUME NEW cost \in Costs, cost <= claim[j],
                 call' = [call EXCEPT ![j][w] = [pc |-> "allowed", cost |-> cost]]
          PROVE  call'[j][w].pc = "allowed" /\ spent[j] + call'[j][w].cost <= Budget + lost[j]
      <4>1. call'[j][w].pc = "allowed" /\ call'[j][w].cost = cost /\ cost \in Nat
        BY <2>2, <3>4, AIWalletAssumption
      <4> QED
        BY <2>2, <3>1, <3>4, <4>1, AIWalletAssumption
    <3> QED
      BY <2>1, <2>8, <3>1, <3>2, <3>3, <3>4 DEF JobBudget, EnsureJobCallBudget
  <2>9. CASE CallProvider(j, w)
    <3>1. /\ spent[j] + claim[j] <= Budget + lost[j]
          /\ spent[j] + call[j][w].cost <= Budget + lost[j]
      BY <2>1, <2>4, <2>9 DEF JobBudget, CallProvider
    <3>2. PICK cost \in Costs \cup {0} :
             /\ cost <= call[j][w].cost
             /\ spent' = [spent EXCEPT ![j] = @ + cost]
             /\ call' = [call EXCEPT ![j][w] = [pc |-> "logged", cost |-> cost]]
      BY <2>9 DEF CallProvider
    <3>3. cost \in Nat
      BY AIWalletAssumption
    <3>4. /\ call'[j][w].pc = "logged" /\ call'[j][w].cost = cost
          /\ spent'[j] = spent[j] + cost
          /\ UNCHANGED <<claim, lost>>
      BY <2>2, <2>9, <3>2 DEF CallProvider, walletVars, histVars
    <3> QED
      BY <2>2, <3>1, <3>2, <3>3, <3>4, AIWalletAssumption
  <2>10. CASE DebitUsage(j, w)
    <3>1. /\ spent[j] + claim[j] <= Budget + lost[j] + call[j][w].cost
          /\ spent[j] <= Budget + lost[j]
      BY <2>1, <2>10 DEF JobBudget, DebitUsage
    <3>2. /\ call'[j][w].pc = "idle"
          /\ UNCHANGED <<spent, lost>>
      BY <2>2, <2>10 DEF DebitUsage, NoCall, histVars
    <3>3. claim'[j] = claim[j] - IF claim[j] < call[j][w].cost THEN claim[j] ELSE call[j][w].cost
      BY <2>2, <2>10 DEF DebitUsage
    <3> QED
      BY <2>2, <3>1, <3>2, <3>3, AIWalletAssumption
  <2>11. CASE CrashCall(j, w)
    <3>1. /\ spent[j] + claim[j] <= Budget + lost[j] + call[j][w].cost
          /\ spent[j] <= Budget + lost[j]
      BY <2>1, <2>11 DEF JobBudget, CrashCall
    <3>2. /\ call'[j][w].pc = "idle"
          /\ UNCHANGED <<spent, claim>>
          /\ lost'[j] = lost[j] + call[j][w].cost
      BY <2>2, <2>11 DEF CrashCall, NoCall, walletVars
    <3> QED
      BY <2>2, <3>1, <3>2, AIWalletAssumption
  <2> QED
    BY <2>7, <2>8, <2>9, <2>10, <2>11 DEF WorkerStep
<1> QED
  BY <1>3, <1>4 DEF BudgetInv

LEMMA BudgetStep == TypeOK /\ TypeOK' /\ BudgetInv /\ [Next]_vars => BudgetInv'
<1> SUFFICES ASSUME TypeOK, TypeOK', BudgetInv, [Next]_vars PROVE BudgetInv'
  OBVIOUS
<1>0. claim \in [Claims -> Nat] /\ Jobs \subseteq Claims /\ Jobs \cap Proposals = {}
  BY AIWalletAssumption DEF TypeOK, Claims
<1>1. CASE UNCHANGED vars
  BY <1>0, <1>1, BudgetOther DEF vars, walletVars, jobVars, histVars
<1>2. CASE \E j \in Jobs, w \in Workers : WorkerStep(j, w)
  BY <1>2, BudgetWorker
<1>3. ASSUME NEW p \in Proposals, PlanStep(p) \/ ReconcileHold(p)
      PROVE  BudgetInv'
  <2>1. UNCHANGED <<spent, call, lost>>
    BY <1>3 DEF PlanStep, StartPlan, HoldOperation, CallPlanner, DebitPlan, FinishPlan, CrashPlan,
       ReconcileHold, jobVars, histVars
  <2>2. \A j \in Jobs : claim'[j] = claim[j]
    BY <1>0, <1>3 DEF PlanStep, StartPlan, HoldOperation, CallPlanner, DebitPlan, FinishPlan,
       CrashPlan, ReconcileHold, walletVars
  <2>3. \A j \in Jobs : claim'[j] <= claim[j]
    BY <1>0, <2>2
  <2> QED
    BY <2>1, <2>3, BudgetOther
<1>4. ASSUME NEW c \in Claims, FinishJob(c) \/ Release(c) \/ CrashRelease(c)
      PROVE  BudgetInv'
  <2>1. UNCHANGED <<spent, call, lost>>
    BY <1>4 DEF FinishJob, Release, CrashRelease, jobVars, histVars
  <2>2. \A j \in Jobs : claim'[j] <= claim[j]
    BY <1>0, <1>4 DEF FinishJob, Release, CrashRelease, walletVars
  <2> QED
    BY <2>1, <2>2, BudgetOther
<1>5. ASSUME NEW e \in Events, EventStep(e)
      PROVE  BudgetInv'
  <2>1. UNCHANGED <<spent, call, lost, claim>>
    BY <1>5 DEF EventStep, HookStep, Deliver, MarkFailed, CrashHook, ReconcileRefund,
       CreditPayment, FindGrant, ReverseStripeRefund, MarkProcessed, walletVars, jobVars, histVars
  <2>2. \A j \in Jobs : claim'[j] <= claim[j]
    BY <1>0, <2>1
  <2> QED
    BY <2>1, <2>2, BudgetOther
<1> QED
  BY <1>1, <1>2, <1>3, <1>4, <1>5 DEF Next, EventStep, Claims

(* THEOREM SpendingIsCapped: no job ever spends more than its ceiling and  *)
(* what crashes left undebited.                                            *)
THEOREM SpendingIsCapped == Spec => []SpentWithinBudget
<1>1. Init => TypeOK /\ BudgetInv
  BY TypeInit, BudgetInit
<1>2. TypeOK /\ BudgetInv /\ [Next]_vars => TypeOK' /\ BudgetInv'
  BY TypeStep, BudgetStep
<1>3. BudgetInv => SpentWithinBudget
  BY DEF BudgetInv, JobBudget, SpentWithinBudget
<1> QED
  BY <1>1, <1>2, <1>3, PTL DEF Spec

----------------------------------------------------------------------------
(* Refunds                                                                 *)

(* A refund handler reverses only what it has found granted, so it needs   *)
(* that a payment entry is never taken away.                               *)
RefundInv ==
    /\ \A e \in Events : hook[e] = "granted" => e.inv \in paid
    /\ RefundsWithinGrant

LEMMA RefundStep == TypeOK /\ TypeOK' /\ RefundInv /\ [Next]_vars => RefundInv'
<1> SUFFICES ASSUME TypeOK, TypeOK', RefundInv, [Next]_vars PROVE RefundInv'
  OBVIOUS
<1>1. /\ refunded \in [Invoices -> Nat] /\ paid \subseteq Invoices
      /\ hook \in [Events -> {"off", "started", "granted", "ran"}]
  BY DEF TypeOK
<1>2. CASE UNCHANGED <<paid, refunded, hook>>
  BY <1>2 DEF RefundInv, RefundsWithinGrant
<1>3. ASSUME NEW e \in Events, EventStep(e)
      PROVE  RefundInv'
  <2>1. /\ e.inv \in Invoices /\ e.amount \in Nat
        /\ refunded[e.inv] \in Nat
        /\ Reversed(e.inv, e.amount) \in Nat
        /\ refunded[e.inv] <= Grant => Reversed(e.inv, e.amount) <= Grant
    BY <1>1, EventShape, ReversedIsBounded
  <2>2. CASE CreditPayment(e)
    <3>1. PICK now \in 0 .. Grant : refunded' = [refunded EXCEPT ![e.inv] = now]
      BY <2>2 DEF CreditPayment
    <3>2. paid' = paid \cup {e.inv} /\ hook' = [hook EXCEPT ![e] = "ran"]
      BY <2>2 DEF CreditPayment
    <3>3. now <= Grant
      BY AIWalletAssumption
    <3> QED
      BY <1>1, <3>1, <3>2, <3>3 DEF RefundInv, RefundsWithinGrant
  <2>3. CASE FindGrant(e)
    BY <1>1, <2>3 DEF RefundInv, RefundsWithinGrant, FindGrant, walletVars
  <2>4. CASE ReverseStripeRefund(e)
    <3>1. /\ refunded' = [refunded EXCEPT ![e.inv] = Reversed(e.inv, e.amount)]
          /\ hook' = [hook EXCEPT ![e] = "ran"] /\ paid' = paid
          /\ e.inv \in paid
      BY <2>4 DEF ReverseStripeRefund, RefundInv
    <3>2. Reversed(e.inv, e.amount) <= Grant
      BY <2>1, <3>1 DEF RefundInv, RefundsWithinGrant
    <3> QED
      BY <1>1, <3>1, <3>2 DEF RefundInv, RefundsWithinGrant
  <2>5. CASE ReconcileRefund(e)
    <3>1. /\ refunded' = [refunded EXCEPT ![e.inv] = Reversed(e.inv, e.amount)]
          /\ hook' = hook /\ paid' = paid /\ e.inv \in paid
      BY <2>5 DEF ReconcileRefund, stripeVars
    <3>2. Reversed(e.inv, e.amount) <= Grant
      BY <2>1, <3>1 DEF RefundInv, RefundsWithinGrant
    <3> QED
      BY <1>1, <3>1, <3>2 DEF RefundInv, RefundsWithinGrant
  <2>6. CASE MarkProcessed(e)
    BY <1>1, <2>6 DEF RefundInv, RefundsWithinGrant, MarkProcessed, walletVars
  <2>7. CASE Deliver(e)
    BY <1>1, <2>7 DEF RefundInv, RefundsWithinGrant, Deliver, walletVars
  <2>8. CASE MarkFailed(e)
    BY <1>1, <2>8 DEF RefundInv, RefundsWithinGrant, MarkFailed, walletVars
  <2>9. CASE CrashHook(e)
    BY <1>1, <2>9 DEF RefundInv, RefundsWithinGrant, CrashHook, walletVars
  <2> QED
    BY <1>3, <2>2, <2>3, <2>4, <2>5, <2>6, <2>7, <2>8, <2>9 DEF EventStep, HookStep
<1>4. ASSUME \/ UNCHANGED vars
             \/ \E j \in Jobs, w \in Workers : WorkerStep(j, w)
             \/ \E p \in Proposals : PlanStep(p) \/ ReconcileHold(p)
             \/ \E c \in Claims : FinishJob(c) \/ Release(c) \/ CrashRelease(c)
      PROVE  UNCHANGED <<paid, refunded, hook>>
  BY <1>4 DEF vars, walletVars, stripeVars, WorkerStep, ReserveJob, EnsureJobCallBudget,
     CallProvider, DebitUsage, CrashCall, PlanStep, StartPlan, HoldOperation, CallPlanner,
     DebitPlan, FinishPlan, CrashPlan, ReconcileHold, FinishJob, Release, CrashRelease
<1> QED
  BY <1>2, <1>3, <1>4 DEF Next, EventStep, Claims

(* THEOREM RefundsStayWithinGrant: however payments, refunds, redeliveries *)
(* and reconciliation are ordered, an invoice never gives back more credit *)
(* than it granted, and none before it granted.                            *)
THEOREM RefundsStayWithinGrant == Spec => []RefundsWithinGrant
<1>1. Init => TypeOK /\ RefundInv
  BY TypeInit, AIWalletAssumption DEF Init, RefundInv, RefundsWithinGrant
<1>2. TypeOK /\ RefundInv /\ [Next]_vars => TypeOK' /\ RefundInv'
  BY TypeStep, RefundStep
<1>3. RefundInv => RefundsWithinGrant
  BY DEF RefundInv
<1> QED
  BY <1>1, <1>2, <1>3, PTL DEF Spec

----------------------------------------------------------------------------
(* Sums                                                                    *)

(* No amounts, no units.                                                   *)
LEMMA NoUnits ==
    ASSUME NEW S
    PROVE  /\ IsFiniteSet(Units([s \in S |-> 0]))
           /\ Total([s \in S |-> 0]) = 0
<1>1. 1 .. 0 = {}
  OBVIOUS
<1>2. Units([s \in S |-> 0]) = {}
  BY <1>1 DEF Units
<1> QED
  BY <1>2, FS_EmptySet DEF Total

LEMMA UnitsOfOne ==
    ASSUME NEW s, NEW n \in Nat
    PROVE  IsFiniteSet({s} \X (1 .. n)) /\ Cardinality({s} \X (1 .. n)) = n
<1>1. IsFiniteSet({s}) /\ Cardinality({s}) = 1
  BY FS_Singleton
<1>2. IsFiniteSet(1 .. n) /\ Cardinality(1 .. n) = n
  BY FS_Interval
<1>3. /\ IsFiniteSet({s} \X (1 .. n))
      /\ Cardinality({s} \X (1 .. n)) = Cardinality({s}) * Cardinality(1 .. n)
  BY <1>1, <1>2, FS_Product
<1> QED
  BY <1>1, <1>2, <1>3

(* A sum is that of the other rows and what the one row adds to it.        *)
Others(f, s) == {u \in Units(f) : u[1] # s}

LEMMA TotalOfOthers ==
    ASSUME NEW S, NEW f \in [S -> Nat], NEW s \in S, IsFiniteSet(Others(f, s))
    PROVE  /\ IsFiniteSet(Units(f))
           /\ Total(f) = Cardinality(Others(f, s)) + f[s]
<1>1. f[s] \in Nat /\ s \in DOMAIN f
  OBVIOUS
<1>2. Units(f) = Others(f, s) \cup ({s} \X (1 .. f[s]))
  BY <1>1 DEF Units, Others
<1>3. Others(f, s) \cap ({s} \X (1 .. f[s])) = {}
  BY DEF Others
<1>4. IsFiniteSet({s} \X (1 .. f[s])) /\ Cardinality({s} \X (1 .. f[s])) = f[s]
  BY <1>1, UnitsOfOne
<1>5. /\ IsFiniteSet(Others(f, s) \cup ({s} \X (1 .. f[s])))
      /\ Cardinality(Others(f, s) \cup ({s} \X (1 .. f[s])))
             = Cardinality(Others(f, s)) + f[s] - Cardinality(Others(f, s) \cap ({s} \X (1 .. f[s])))
  BY <1>4, FS_Union
<1>6. Cardinality(Others(f, s) \cap ({s} \X (1 .. f[s]))) = 0
  BY <1>3, FS_EmptySet
<1>7. Cardinality(Others(f, s)) \in Nat
  BY FS_CardinalityType
<1>8. Cardinality(Others(f, s) \cup ({s} \X (1 .. f[s]))) = Cardinality(Others(f, s)) + f[s]
  BY <1>1, <1>5, <1>6, <1>7
<1> QED
  BY <1>2, <1>5, <1>8 DEF Total

(* Changing one amount changes the sum by the difference.                  *)
LEMMA TotalUpdate ==
    ASSUME NEW S, NEW f \in [S -> Nat], NEW s \in S, NEW n \in Nat, IsFiniteSet(Units(f))
    PROVE  /\ IsFiniteSet(Units([f EXCEPT ![s] = n]))
           /\ Total([f EXCEPT ![s] = n]) = Total(f) - f[s] + n
           /\ Total(f) \in Nat
<1> DEFINE g == [f EXCEPT ![s] = n]
<1>1. g \in [S -> Nat] /\ g[s] = n /\ f[s] \in Nat
  OBVIOUS
<1>2. Others(g, s) = Others(f, s)
  <2>1. DOMAIN g = S /\ DOMAIN f = S /\ \A c \in S \ {s} : g[c] = f[c]
    OBVIOUS
  <2> HIDE DEF g
  <2> QED
    BY <2>1 DEF Others, Units
<1>3. IsFiniteSet(Others(f, s))
  BY FS_Subset DEF Others
<1> HIDE DEF g
<1>4. /\ IsFiniteSet(Units(g))
      /\ Total(g) = Cardinality(Others(f, s)) + n
  BY <1>1, <1>2, <1>3, TotalOfOthers
<1>5. Total(f) = Cardinality(Others(f, s)) + f[s]
  BY <1>3, TotalOfOthers
<1>6. Cardinality(Others(f, s)) \in Nat
  BY <1>3, FS_CardinalityType
<1>7. IsFiniteSet(Units(g)) /\ Total(g) = Total(f) - f[s] + n /\ Total(f) \in Nat
  BY <1>1, <1>4, <1>5, <1>6
<1> QED
  BY <1>7 DEF g
----------------------------------------------------------------------------
(* The reserved column                                                     *)

(* ReservedIsBacked is not inductive: a hold adds its price to the column  *)
(* and overwrites the claim, so it needs that a plan which has not held    *)
(* yet has no claim; a plan is taken once, and a hold is made once.        *)
NotHeldYet(p) == planStatus[p] = "pending" \/ planCall[p].pc = "taken"

ReserveInv ==
    /\ ReservedIsBacked
    /\ IsFiniteSet(Units(claim))
    /\ \A p \in Proposals : /\ NotHeldYet(p) => claim[p] = 0
                            /\ planStatus[p] = "pending" => planCall[p].pc = "idle"

LEMMA ReserveInit == Init => ReserveInv
<1> SUFFICES ASSUME Init PROVE ReserveInv
  OBVIOUS
<1>1. /\ IsFiniteSet(Units(claim)) /\ Total(claim) = 0
  BY NoUnits DEF Init
<1> QED
  BY <1>1 DEF Init, ReserveInv, ReservedIsBacked, Claims, NoPlanCall

(* A claim changes together with the column.                               *)
LEMMA ReserveMoves ==
    ASSUME TypeOK, ReserveInv, NEW c \in Claims, NEW n \in Nat,
           claim' = [claim EXCEPT ![c] = n],
           reserved' = reserved - claim[c] + n
    PROVE  ReservedIsBacked' /\ IsFiniteSet(Units(claim))'
<1>1. claim \in [Claims -> Nat] /\ claim[c] \in Nat /\ reserved = Total(claim)
  BY DEF TypeOK, ReserveInv, ReservedIsBacked
<1>2. /\ IsFiniteSet(Units([claim EXCEPT ![c] = n]))
      /\ Total([claim EXCEPT ![c] = n]) = Total(claim) - claim[c] + n
  BY <1>1, TotalUpdate DEF ReserveInv
<1>3. Total(claim') = reserved - claim[c] + n
  BY <1>1, <1>2
<1> QED
  BY <1>2, <1>3 DEF ReservedIsBacked

LEMMA ReserveStays ==
    ASSUME ReserveInv, UNCHANGED <<claim, reserved>>
    PROVE  ReservedIsBacked' /\ IsFiniteSet(Units(claim))'
BY DEF ReserveInv, ReservedIsBacked

LEMMA ReserveStep == TypeOK /\ TypeOK' /\ ReserveInv /\ [Next]_vars => ReserveInv'
<1> SUFFICES ASSUME TypeOK, TypeOK', ReserveInv, [Next]_vars PROVE ReserveInv'
  OBVIOUS
<1> DEFINE Unheld == \A p \in Proposals : /\ NotHeldYet(p) => claim[p] = 0
                                          /\ planStatus[p] = "pending" => planCall[p].pc = "idle"
<1>1. /\ claim \in [Claims -> Nat] /\ reserved \in Int
      /\ planStatus \in [Proposals -> {"pending", "generating", "ended"}]
      /\ planCall \in [Proposals -> PlanRec]
      /\ call \in [Jobs -> [Workers -> CallRec]]
      /\ spent \in [Jobs -> Nat]
      /\ \A c \in Jobs : c \notin Proposals
      /\ Unheld
  BY AIWalletAssumption DEF TypeOK, PlanRec, CallRec, ReserveInv
<1>2. SUFFICES /\ ReservedIsBacked' /\ IsFiniteSet(Units(claim))'
               /\ Unheld'
  BY DEF ReserveInv
<1>3. CASE UNCHANGED <<walletVars, planVars>>
  BY <1>1, <1>3, ReserveStays DEF walletVars, planVars, NotHeldYet
<1>4. ASSUME NEW j \in Jobs, NEW w \in Workers, WorkerStep(j, w)
      PROVE  /\ ReservedIsBacked' /\ IsFiniteSet(Units(claim))'
             /\ Unheld'
  <2>1. /\ j \in Claims /\ claim[j] \in Nat /\ spent[j] \in Nat /\ call[j][w].cost \in Nat
    BY <1>1 DEF Claims, CallRec
  <2>2. \/ UNCHANGED <<claim, reserved>>
        \/ \E n \in Nat : /\ claim' = [claim EXCEPT ![j] = n]
                          /\ reserved' = reserved - claim[j] + n
    <3>1. CASE ReserveJob(j, w)
      BY <1>1, <2>1, <3>1, AIWalletAssumption DEF ReserveJob
    <3>2. CASE DebitUsage(j, w)
      <4> DEFINE freed == IF claim[j] < call[j][w].cost THEN claim[j] ELSE call[j][w].cost
      <4>1. claim[j] - freed \in Nat /\ freed \in Nat
        BY <2>1
      <4>2. claim' = [claim EXCEPT ![j] = claim[j] - freed] /\ reserved' = reserved - freed
        BY <3>2 DEF DebitUsage
      <4>3. reserved - freed = reserved - claim[j] + (claim[j] - freed)
        BY <1>1, <2>1, <4>1
      <4> QED
        BY <4>1, <4>2, <4>3
    <3> QED
      BY <1>4, <3>1, <3>2 DEF WorkerStep, EnsureJobCallBudget, CallProvider, CrashCall, walletVars
  <2>3. UNCHANGED planVars
    BY <1>4 DEF WorkerStep, ReserveJob, EnsureJobCallBudget, CallProvider, DebitUsage, CrashCall
  <2>4. \A p \in Proposals : claim'[p] = claim[p]
    BY <1>1, <2>2 DEF Claims
  <2> QED
    BY <1>1, <2>1, <2>2, <2>3, <2>4, ReserveMoves, ReserveStays DEF planVars, NotHeldYet
<1>5. ASSUME NEW p \in Proposals, PlanStep(p) \/ ReconcileHold(p)
      PROVE  /\ ReservedIsBacked' /\ IsFiniteSet(Units(claim))'
             /\ Unheld'
  <2>1. p \in Claims /\ claim[p] \in Nat
    BY <1>1 DEF Claims
  <2>2. CASE HoldOperation(p)
    <3>1. /\ claim[p] = 0
          /\ planStatus[p] # "pending"
      BY <1>1, <2>2 DEF HoldOperation, NotHeldYet
    <3>2. /\ claim' = [claim EXCEPT ![p] = Price]
          /\ reserved' = reserved - claim[p] + Price
          /\ planStatus' = planStatus
          /\ planCall' = [planCall EXCEPT ![p].pc = "held"]
      BY <1>1, <2>2, <3>1, AIWalletAssumption DEF HoldOperation, PlanAt
    <3>3. ReservedIsBacked' /\ IsFiniteSet(Units(claim))'
      BY <2>1, <3>2, ReserveMoves, AIWalletAssumption
    <3>4. Unheld'
      BY <1>1, <3>1, <3>2 DEF NotHeldYet, PlanRec
    <3> QED
      BY <3>3, <3>4
  <2>3. CASE StartPlan(p)
    <3>1. Unheld'
      BY <1>1, <2>3 DEF StartPlan, PlanAt, NotHeldYet, PlanRec, walletVars
    <3> QED
      BY <2>3, <3>1, ReserveStays DEF StartPlan, walletVars
  <2>4. CASE CallPlanner(p)
    <3>1. PICK cost \in Costs : planCall' = [planCall EXCEPT ![p] = [pc |-> "logged", cost |-> cost]]
      BY <2>4 DEF CallPlanner
    <3>2. Unheld'
      BY <1>1, <2>4, <3>1 DEF CallPlanner, NotHeldYet, PlanRec, walletVars
    <3> QED
      BY <2>4, <3>2, ReserveStays DEF CallPlanner, walletVars
  <2>5. CASE DebitPlan(p)
    <3>1. Unheld'
      BY <1>1, <2>5 DEF DebitPlan, NotHeldYet, PlanRec
    <3> QED
      BY <2>5, <3>1, ReserveStays DEF DebitPlan
  <2>6. CASE FinishPlan(p) \/ CrashPlan(p) \/ ReconcileHold(p)
    <3>1. /\ UNCHANGED <<claim, reserved>>
          /\ planStatus' = planStatus \/ planStatus' = [planStatus EXCEPT ![p] = "ended"]
          /\ planCall' = planCall \/ planCall' = [planCall EXCEPT ![p] = NoPlanCall]
      BY <2>6 DEF FinishPlan, CrashPlan, ReconcileHold, walletVars
    <3>2. Unheld'
      BY <1>1, <3>1 DEF NotHeldYet, PlanRec, NoPlanCall
    <3> QED
      BY <3>1, <3>2, ReserveStays
  <2> QED
    BY <1>5, <2>2, <2>3, <2>4, <2>5, <2>6 DEF PlanStep
<1>6. ASSUME NEW c \in Claims, Release(c)
      PROVE  /\ ReservedIsBacked' /\ IsFiniteSet(Units(claim))'
             /\ Unheld'
  <2>1. /\ claim' = [claim EXCEPT ![c] = 0]
        /\ reserved' = reserved - claim[c] + 0
        /\ UNCHANGED planVars
    BY <1>1, <1>6 DEF Release
  <2>2. Unheld'
    BY <1>1, <2>1 DEF NotHeldYet, planVars
  <2> QED
    BY <2>1, <2>2, ReserveMoves
<1>7. ASSUME NEW c \in Claims, FinishJob(c) \/ CrashRelease(c)
      PROVE  UNCHANGED <<walletVars, planVars>>
  BY <1>7 DEF FinishJob, CrashRelease
<1>8. ASSUME NEW e \in Events, EventStep(e)
      PROVE  UNCHANGED <<claim, reserved, planVars>>
  BY <1>8 DEF EventStep, HookStep, Deliver, MarkFailed, CrashHook, ReconcileRefund,
     CreditPayment, FindGrant, ReverseStripeRefund, MarkProcessed, walletVars
<1>9. ASSUME UNCHANGED <<claim, reserved, planVars>>
      PROVE  /\ ReservedIsBacked' /\ IsFiniteSet(Units(claim))'
             /\ Unheld'
  BY <1>1, <1>9, ReserveStays DEF planVars, NotHeldYet
<1>10. CASE UNCHANGED vars
  BY <1>3, <1>10 DEF vars
<1> HIDE DEF Unheld
<1> QED
  BY <1>3, <1>4, <1>5, <1>6, <1>7, <1>8, <1>9, <1>10 DEF Next, EventStep, Claims

(* THEOREM ReservedStaysBacked: the reserved column is the sum of the open *)
(* reservations and holds, however reservations, debits, releases that     *)
(* overlap, reconciliation and crashes are ordered.                        *)
THEOREM ReservedStaysBacked == Spec => []ReservedIsBacked
<1>1. Init => TypeOK /\ ReserveInv
  BY TypeInit, ReserveInit
<1>2. TypeOK /\ ReserveInv /\ [Next]_vars => TypeOK' /\ ReserveInv'
  BY TypeStep, ReserveStep
<1>3. ReserveInv => ReservedIsBacked
  BY DEF ReserveInv
<1> QED
  BY <1>1, <1>2, <1>3, PTL DEF Spec

----------------------------------------------------------------------------
(* The balance column                                                      *)

LedgerInv ==
    /\ BalanceIsLedger
    /\ IsFiniteSet(Units(refunded))
    /\ IsFiniteSet(paid)

LEMMA LedgerInit == Init => LedgerInv
<1> SUFFICES ASSUME Init PROVE LedgerInv
  OBVIOUS
<1>1. IsFiniteSet(Units(refunded)) /\ Total(refunded) = 0
  BY NoUnits DEF Init
<1>2. IsFiniteSet(paid) /\ Cardinality(paid) = 0
  BY FS_EmptySet DEF Init
<1> QED
  BY <1>1, <1>2, AIWalletAssumption DEF Init, LedgerInv, BalanceIsLedger

(* An entry of a payment or a refund changes the column by its amount.     *)
LEMMA LedgerEntry ==
    ASSUME TypeOK, LedgerInv, NEW i \in Invoices, NEW now \in Nat,
           refunded' = [refunded EXCEPT ![i] = now],
           \/ /\ paid' = paid
              /\ balance' = balance - (now - refunded[i])
           \/ /\ paid' = paid \cup {i}
              /\ balance' = balance + (IF i \in paid THEN 0 ELSE Grant) - (now - refunded[i]),
           used' = used
    PROVE  LedgerInv'
<1>1. /\ refunded \in [Invoices -> Nat] /\ refunded[i] \in Nat
      /\ used \in Nat /\ balance \in Int
      /\ balance = Grant * Cardinality(paid) - used - Total(refunded)
      /\ IsFiniteSet(paid) /\ Cardinality(paid) \in Nat
  BY FS_CardinalityType DEF TypeOK, LedgerInv, BalanceIsLedger
<1>2. /\ IsFiniteSet(Units([refunded EXCEPT ![i] = now]))
      /\ Total([refunded EXCEPT ![i] = now]) = Total(refunded) - refunded[i] + now
      /\ Total(refunded) \in Nat
  BY <1>1, TotalUpdate DEF LedgerInv
<1>3. Total(refunded') = Total(refunded) - refunded[i] + now
  BY <1>2
<1> DEFINE added == IF paid' = paid THEN 0 ELSE Grant
           grown == IF paid' = paid THEN 0 ELSE 1
<1>4. /\ IsFiniteSet(paid')
      /\ Cardinality(paid') = Cardinality(paid) + grown
      /\ balance' = balance + added - (now - refunded[i])
  <2>1. CASE paid' = paid
    <3>1. balance' = balance - (now - refunded[i])
      BY <1>1, <2>1
    <3> QED
      BY <1>1, <2>1, <3>1
  <2>2. CASE paid' # paid
    <3>1. /\ paid' = paid \cup {i} /\ i \notin paid
          /\ balance' = balance + Grant - (now - refunded[i])
      BY <2>2
    <3>2. IsFiniteSet(paid \cup {i}) /\ Cardinality(paid \cup {i}) = Cardinality(paid) + 1
      BY <1>1, <3>1, FS_AddElement
    <3> QED
      BY <2>2, <3>1, <3>2
  <2> QED
    BY <2>1, <2>2
<1>5. Grant * Cardinality(paid') = Grant * Cardinality(paid) + added
  BY <1>1, <1>4, AIWalletAssumption
<1>6. added \in Nat /\ Grant * Cardinality(paid) \in Nat
  BY <1>1, AIWalletAssumption
<1> HIDE DEF added, grown
<1>7. balance' = Grant * Cardinality(paid') - used' - Total(refunded')
  BY <1>1, <1>2, <1>3, <1>4, <1>5, <1>6
<1>8. IsFiniteSet(Units(refunded'))
  BY <1>2
<1> QED
  BY <1>4, <1>7, <1>8 DEF LedgerInv, BalanceIsLedger

(* A debit changes the balance and the usage by its cost.                  *)
LEMMA LedgerDebit ==
    ASSUME TypeOK, LedgerInv, NEW cost \in Nat,
           balance' = balance - cost, used' = used + cost,
           UNCHANGED <<paid, refunded>>
    PROVE  LedgerInv'
<1>1. /\ used \in Nat /\ balance \in Int
      /\ balance = Grant * Cardinality(paid) - used - Total(refunded)
      /\ Cardinality(paid) \in Nat /\ Total(refunded) \in Nat
  BY FS_CardinalityType DEF TypeOK, LedgerInv, BalanceIsLedger, Total
<1>2. Grant * Cardinality(paid) \in Nat
  BY <1>1, AIWalletAssumption
<1>3. balance' = Grant * Cardinality(paid') - used' - Total(refunded')
  BY <1>1, <1>2
<1> QED
  BY <1>3 DEF LedgerInv, BalanceIsLedger

LEMMA LedgerStep == TypeOK /\ TypeOK' /\ LedgerInv /\ [Next]_vars => LedgerInv'
<1> SUFFICES ASSUME TypeOK, TypeOK', LedgerInv, [Next]_vars PROVE LedgerInv'
  OBVIOUS
<1>1. CASE UNCHANGED <<balance, used, paid, refunded>>
  BY <1>1 DEF LedgerInv, BalanceIsLedger
<1>2. ASSUME NEW j \in Jobs, NEW w \in Workers, WorkerStep(j, w)
      PROVE  LedgerInv'
  <2>1. call[j][w].cost \in Nat
    BY DEF TypeOK
  <2>2. CASE DebitUsage(j, w)
    BY <2>1, <2>2, LedgerDebit DEF DebitUsage
  <2> QED
    BY <1>1, <1>2, <2>2 DEF WorkerStep, ReserveJob, EnsureJobCallBudget, CallProvider, CrashCall,
       walletVars
<1>3. ASSUME NEW p \in Proposals, PlanStep(p) \/ ReconcileHold(p)
      PROVE  LedgerInv'
  <2>1. planCall[p].cost \in Nat
    BY DEF TypeOK
  <2>2. CASE DebitPlan(p)
    BY <2>1, <2>2, LedgerDebit DEF DebitPlan
  <2> QED
    BY <1>1, <1>3, <2>2 DEF PlanStep, StartPlan, HoldOperation, CallPlanner, FinishPlan, CrashPlan,
       ReconcileHold, walletVars
<1>4. ASSUME NEW c \in Claims, FinishJob(c) \/ Release(c) \/ CrashRelease(c)
      PROVE  LedgerInv'
  BY <1>1, <1>4 DEF FinishJob, Release, CrashRelease, walletVars
<1>5. ASSUME NEW e \in Events, EventStep(e)
      PROVE  LedgerInv'
  <2>1. /\ e.inv \in Invoices
        /\ Reversed(e.inv, e.amount) \in Nat
    BY EventShape, ReversedIsBounded DEF TypeOK
  <2>2. CASE CreditPayment(e)
    <3>1. PICK now \in 0 .. Grant :
             /\ refunded' = [refunded EXCEPT ![e.inv] = now]
             /\ balance' = balance + (IF e.inv \in paid THEN 0 ELSE Grant) - (now - refunded[e.inv])
      BY <2>2 DEF CreditPayment
    <3>2. now \in Nat /\ paid' = paid \cup {e.inv} /\ used' = used
      BY <2>2, AIWalletAssumption DEF CreditPayment
    <3> QED
      BY <2>1, <3>1, <3>2, LedgerEntry
  <2>3. CASE ReverseStripeRefund(e)
    BY <2>1, <2>3, LedgerEntry DEF ReverseStripeRefund
  <2>4. CASE ReconcileRefund(e)
    BY <2>1, <2>4, LedgerEntry DEF ReconcileRefund
  <2> QED
    BY <1>1, <1>5, <2>2, <2>3, <2>4 DEF EventStep, HookStep, Deliver, MarkFailed, CrashHook,
       FindGrant, MarkProcessed, walletVars
<1>6. CASE UNCHANGED vars
  BY <1>1, <1>6 DEF vars, walletVars
<1> QED
  BY <1>2, <1>3, <1>4, <1>5, <1>6 DEF Next, EventStep, Claims

(* THEOREM BalanceStaysLedger: the balance column is what the entries add  *)
(* up to: each invoice credited once, every debit and every refund, in any *)
(* order, with redeliveries and handlers that fail.                        *)
THEOREM BalanceStaysLedger == Spec => []BalanceIsLedger
<1>1. Init => TypeOK /\ LedgerInv
  BY TypeInit, LedgerInit
<1>2. TypeOK /\ LedgerInv /\ [Next]_vars => TypeOK' /\ LedgerInv'
  BY TypeStep, LedgerStep
<1>3. LedgerInv => BalanceIsLedger
  BY DEF LedgerInv
<1> QED
  BY <1>1, <1>2, <1>3, PTL DEF Spec
=============================================================================
