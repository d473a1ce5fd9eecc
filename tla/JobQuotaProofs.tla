--------------------------- MODULE JobQuotaProofs ---------------------------
(***************************************************************************)
(* Proofs about JobQuota for every set of jobs, plans and handlers.        *)
(*                                                                         *)
(* QuotaExact and NoOverdraft are not inductive: a commit writes back what *)
(* the transaction read earlier.  The strengthening says that a            *)
(* transaction which will change a counter row has that row locked, so     *)
(* what it read is what the row still holds.                               *)
(*                                                                         *)
(* CounterHolderNeverWaits needs to know who can have a job row and a      *)
(* counter row locked at the same time, and of which jobs (LocksInv).      *)
(***************************************************************************)
EXTENDS JobQuota, FiniteSetTheorems, TLAPS

(* Each operation goes through its own steps.                              *)
StepsInv ==
    \A h \in Handlers :
        /\ tx[h].step # "idle" => tx[h].job \in Jobs
        /\ tx[h].step = "reserve" => tx[h].op \in {"generate", "enqueue", "changes"}
        /\ tx[h].step = "release" => tx[h].op = "cancel"
        /\ tx[h].charge => tx[h].step = "write"

(* The limits a transaction read were in force.                            *)
LimitsInv ==
    /\ plan.videos <= topVideos
    /\ \A h \in Handlers : tx[h].lim.videos <= topVideos

(* A transaction that will change a counter row holds it, and knows it.    *)
RowInv ==
    \A h \in Handlers :
        tx[h].charge =>
            /\ rowLock[tx[h].per] = h
            /\ tx[h].used = videos[tx[h].per]
            /\ tx[h].ids = held[tx[h].per]
            /\ tx[h].op = "cancel" => tx[h].job \in tx[h].ids
            /\ tx[h].op # "cancel" => tx[h].job \notin tx[h].ids /\ tx[h].used < topVideos

IInv == TypeOK /\ StepsInv /\ LimitsInv /\ RowInv /\ QuotaExact /\ NoOverdraft

(* What the exactness argument needs: adding a job that is not there, or   *)
(* removing one that is, moves the cardinality by exactly one.             *)
LEMMA HeldCount ==
    ASSUME NEW S \in SUBSET Jobs, NEW j \in Jobs
    PROVE  /\ Cardinality(S) \in Nat
           /\ j \notin S => Cardinality(S \cup {j}) = Cardinality(S) + 1
           /\ j \in S => /\ Cardinality(S \ {j}) = Cardinality(S) - 1
                         /\ Cardinality(S) # 0
<1>1. IsFiniteSet(S)
  BY JobQuotaAssumption, FS_Subset
<1>2. Cardinality(S) \in Nat
  BY <1>1, FS_CardinalityType
<1>3. j \notin S => Cardinality(S \cup {j}) = Cardinality(S) + 1
  BY <1>1, FS_AddElement
<1>4. j \in S => Cardinality(S \ {j}) = Cardinality(S) - 1
  BY <1>1, FS_RemoveElement
<1>5. j \in S => Cardinality(S) # 0
  BY <1>1, FS_EmptySet
<1>6. QED
  BY <1>2, <1>3, <1>4, <1>5

LEMMA InitIInv == Init => IInv
<1> SUFFICES ASSUME Init PROVE IInv
  OBVIOUS
<1>1. TypeOK
  BY JobQuotaAssumption
     DEF Init, TypeOK, Idle, NoLimits, Tx, Ops, Steps, Statuses, InFlight, Terminal, Periods
<1>2. StepsInv
  BY DEF Init, StepsInv, Idle, NoLimits
<1>3. LimitsInv
  BY JobQuotaAssumption DEF Init, LimitsInv, Idle, NoLimits
<1>4. RowInv
  BY DEF Init, RowInv, Idle, NoLimits
<1>5. QuotaExact
  BY FS_EmptySet DEF Init, QuotaExact
<1>6. NoOverdraft
  BY JobQuotaAssumption DEF Init, NoOverdraft
<1>7. QED
  BY <1>1, <1>2, <1>3, <1>4, <1>5, <1>6 DEF IInv

----------------------------------------------------------------------------
(* Type correctness, one action at a time.                                 *)

USE JobQuotaAssumption

LEMMA IdleType == Idle \in Tx
BY DEF Tx, Idle, NoLimits, Ops, Steps, Periods

LEMMA OpenType ==
    ASSUME TypeOK, NEW h \in Handlers, NEW j \in Jobs, NEW o \in Ops, NEW s \in Steps,
           Open(h, o, s, j)
    PROVE  /\ tx' \in [Handlers -> Tx]
           /\ tx'[h].job = j /\ tx'[h].op = o /\ tx'[h].step = s
           /\ tx'[h].charge = FALSE
           /\ tx'[h].lim \in {plan, NoLimits}
           /\ \A g \in Handlers \ {h} : tx'[g] = tx[g]
<1> DEFINE t == [op |-> o, step |-> s, job |-> j, regen |-> regen[j],
                 per |-> IF s = "reserve" THEN period ELSE 1,
                 lim |-> IF s = "reserve" THEN plan ELSE NoLimits,
                 used |-> 0, ids |-> {}, charge |-> FALSE]
<1>1. tx' = [tx EXCEPT ![h] = t]
  BY DEF Open, Step
<1>2. plan \in [videos : Nat, parallel : Nat] /\ NoLimits \in [videos : Nat, parallel : Nat]
  BY DEF TypeOK, NoLimits
<1>3. t \in Tx
  <2> DEFINE p == IF s = "reserve" THEN period ELSE 1
             l == IF s = "reserve" THEN plan ELSE NoLimits
  <2>1. p \in Periods
    BY DEF TypeOK, Periods
  <2>2. l \in [videos : Nat, parallel : Nat]
    BY <1>2
  <2>3. regen[j] \in Nat
    BY DEF TypeOK
  <2>4. QED
    BY <2>1, <2>2, <2>3 DEF Tx
<1>4. /\ t.job = j /\ t.op = o /\ t.step = s /\ t.charge = FALSE
      /\ t.lim \in {plan, NoLimits}
  OBVIOUS
<1>5. QED
  BY <1>1, <1>3, <1>4 DEF TypeOK

LEMMA TypeNext == TypeOK /\ StepsInv /\ [Next]_vars => TypeOK'
<1> SUFFICES ASSUME TypeOK, StepsInv, [Next]_vars PROVE TypeOK'
  OBVIOUS
<1> USE DEF TypeOK, Statuses, InFlight, Terminal
<1>1. ASSUME NEW h \in Handlers, NEW j \in Jobs,
             \/ BeginGenerate(h, j) \/ BeginEnqueue(h, j)
             \/ BeginChanges(h, j) \/ BeginCancel(h, j)
      PROVE  TypeOK'
  <2>1. tx' \in [Handlers -> Tx]
    BY <1>1, OpenType DEF BeginGenerate, BeginEnqueue, BeginChanges, BeginCancel, Ops, Steps
  <2>2. QED
    BY <1>1, <2>1 DEF BeginGenerate, BeginEnqueue, BeginChanges, BeginCancel,
                      jobVars, taskVars, planVars, rowVars
<1>2. ASSUME NEW h \in Handlers, TxStep(h) \/ RollBack(h)
      PROVE  TypeOK'
  <2> DEFINE t == tx[h]
  <2>t. /\ t \in Tx
        /\ t.step # "idle" => t.job \in Jobs
    BY DEF StepsInv
  <2>s. ASSUME NEW r \in Tx, Step(h, r) PROVE tx' \in [Handlers -> Tx]
    BY <2>s DEF Step
  <2>u. /\ Unlock(jobLock, h) \in [Jobs -> Handlers \cup {Nobody}]
        /\ Unlock(rowLock, h) \in [Periods -> Handlers \cup {Nobody}]
    BY DEF Unlock
  <2>f. ASSUME Finish(h)
        PROVE  /\ plan' \in Plans /\ period' \in Periods /\ topVideos' \in Nat
               /\ rowLock' \in [Periods -> Handlers \cup {Nobody}]
               /\ jobLock' \in [Jobs -> Handlers \cup {Nobody}]
               /\ tx' \in [Handlers -> Tx]
    BY <2>f, <2>u, <2>s, IdleType DEF Finish, planVars
  <2>1. CASE ReserveGranted(h)
    <3>1. [t EXCEPT !.step = "write", !.lim = NoLimits, !.charge = ~(t.job \in held[t.per]),
                    !.used = videos[t.per], !.ids = held[t.per]] \in Tx
      BY <2>t DEF Tx, Steps, NoLimits
    <3>2. tx' \in [Handlers -> Tx]
      BY <2>1, <3>1, <2>s DEF ReserveGranted
    <3>3. QED
      BY <2>1, <3>2, <2>t DEF ReserveGranted, LockRow, Tx, jobVars, taskVars, planVars, rowVars
  <2>2. CASE ReserveRefused(h)
    BY <2>2, <2>s, <2>u, IdleType DEF ReserveRefused, jobVars, taskVars, planVars, rowVars
  <2>3. CASE ReleaseHeld(h)
    <3>1. PICK p \in Periods :
             /\ LockRow(h, p)
             /\ Step(h, [t EXCEPT !.step = "write", !.charge = TRUE, !.per = p,
                                  !.used = videos[p], !.ids = held[p]])
      BY <2>3 DEF ReleaseHeld, Holding
    <3>2. [t EXCEPT !.step = "write", !.charge = TRUE, !.per = p,
                    !.used = videos[p], !.ids = held[p]] \in Tx
      BY <2>t DEF Tx, Steps
    <3>3. tx' \in [Handlers -> Tx]
      BY <3>1, <3>2, <2>s
    <3>4. QED
      BY <2>3, <3>1, <3>3 DEF ReleaseHeld, LockRow, jobVars, taskVars, planVars, rowVars
  <2>4. CASE ReleaseNothing(h)
    <3>1. [t EXCEPT !.step = "write"] \in Tx
      BY <2>t DEF Tx, Steps
    <3>2. QED
      BY <2>4, <3>1, <2>s DEF ReleaseNothing, jobVars, taskVars, planVars, rowVars
  <2>5. CASE CommitQueued(h)
    <3>1. t.job \in Jobs /\ t.per \in Periods /\ t.used \in Nat /\ t.ids \in SUBSET Jobs
      BY <2>5, <2>t DEF CommitQueued, Tx
    <3>2. videos' \in [Periods -> Nat] /\ held' \in [Periods -> SUBSET Jobs]
      BY <2>5, <3>1 DEF CommitQueued, TakeUnit, rowVars
    <3>3. QED
      BY <2>5, <2>f, <3>1, <3>2 DEF CommitQueued
  <2>6. CASE CommitChanges(h)
    <3>1. /\ t.job \in Jobs /\ t.per \in Periods /\ t.used \in Nat /\ t.regen \in Nat
          /\ t.ids \in SUBSET Jobs
      BY <2>6, <2>t DEF CommitChanges, Tx
    <3>2. videos' \in [Periods -> Nat] /\ held' \in [Periods -> SUBSET Jobs]
      BY <2>6, <3>1 DEF CommitChanges, TakeUnit, rowVars
    <3>3. regen' \in [Jobs -> Nat]
      BY <2>6, <3>1 DEF CommitChanges
    <3>4. /\ status' \in [Jobs -> Statuses] /\ started' \in [Jobs -> BOOLEAN]
          /\ task' \in [Jobs -> {"none", "sent", "loaded", "running"}]
          /\ stage' \in [Jobs -> {"produce", "upload"}]
      BY <2>6, <3>1 DEF CommitChanges
    <3>5. QED
      BY <2>6, <2>f, <3>2, <3>3, <3>4 DEF CommitChanges
  <2>7. CASE CommitCancel(h)
    <3>1. t.job \in Jobs /\ t.per \in Periods /\ t.used \in Nat /\ t.ids \in SUBSET Jobs
      BY <2>7, <2>t DEF CommitCancel, Tx
    <3>2. videos' \in [Periods -> Nat] /\ held' \in [Periods -> SUBSET Jobs]
      BY <2>7, <3>1 DEF CommitCancel, GiveUnitBack, rowVars
    <3>3. QED
      BY <2>7, <2>f, <3>1, <3>2 DEF CommitCancel, taskVars
  <2>8. CASE RollBack(h)
    BY <2>8, <2>f DEF RollBack, jobVars, taskVars, rowVars
  <2>9. QED
    BY <1>2, <2>1, <2>2, <2>3, <2>4, <2>5, <2>6, <2>7, <2>8 DEF TxStep
<1>3. ASSUME NEW j \in Jobs, TaskStep(j) \/ Decide(j) \/ AdminRetry(j) \/ ExpireSlot(j)
      PROVE  TypeOK'
  <2>0. UNCHANGED <<regen, planVars, rowVars, rowLock, jobLock, tx>>
    BY <1>3 DEF TaskStep, TaskLoad, TaskStart, TaskEnd, Decide, AdminRetry, ExpireSlot, jobVars
  <2>1. /\ status' \in [Jobs -> Statuses]
        /\ started' \in [Jobs -> BOOLEAN]
        /\ task' \in [Jobs -> {"none", "sent", "loaded", "running"}]
        /\ stage' \in [Jobs -> {"produce", "upload"}]
    <3>1. CASE TaskLoad(j)
      BY <3>1 DEF TaskLoad, jobVars
    <3>2. CASE TaskStart(j)
      BY <3>2 DEF TaskStart
    <3>3. CASE TaskEnd(j)
      BY <3>3 DEF TaskEnd
    <3>4. CASE Decide(j)
      BY <3>4 DEF Decide, taskVars
    <3>5. CASE AdminRetry(j)
      BY <3>5 DEF AdminRetry
    <3>6. CASE ExpireSlot(j)
      BY <3>6 DEF ExpireSlot, taskVars
    <3>7. QED
      BY <1>3, <3>1, <3>2, <3>3, <3>4, <3>5, <3>6 DEF TaskStep
  <2>2. QED
    BY <2>0, <2>1 DEF planVars, rowVars
<1>4. CASE ChangePlan
  BY <1>4 DEF ChangePlan, jobVars, taskVars, rowVars
<1>5. CASE NextPeriod
  BY <1>5 DEF NextPeriod, Periods, jobVars, taskVars, rowVars
<1>6. CASE UNCHANGED vars
  BY <1>6 DEF vars, jobVars, taskVars, planVars, rowVars
<1>7. QED
  BY <1>1, <1>2, <1>3, <1>4, <1>5, <1>6 DEF Next

----------------------------------------------------------------------------
(* Each operation goes through its own steps, in every behaviour.          *)

LEMMA StepsNext == TypeOK /\ StepsInv /\ [Next]_vars => StepsInv'
<1> SUFFICES ASSUME TypeOK, StepsInv, [Next]_vars PROVE StepsInv'
  OBVIOUS
<1> DEFINE Good(t) == /\ t.step # "idle" => t.job \in Jobs
                      /\ t.step = "reserve" => t.op \in {"generate", "enqueue", "changes"}
                      /\ t.step = "release" => t.op = "cancel"
                      /\ t.charge => t.step = "write"
<1>i. Good(Idle)
  BY DEF Idle
<1>s. ASSUME NEW h \in Handlers, NEW r, Step(h, r), Good(r) PROVE StepsInv'
  BY <1>s DEF StepsInv, Step, TypeOK
<1>1. ASSUME NEW h \in Handlers, NEW j \in Jobs,
             \/ BeginGenerate(h, j) \/ BeginEnqueue(h, j)
             \/ BeginChanges(h, j) \/ BeginCancel(h, j)
      PROVE  StepsInv'
  BY <1>1, <1>s DEF BeginGenerate, BeginEnqueue, BeginChanges, BeginCancel, Open
<1>2. ASSUME NEW h \in Handlers, TxStep(h) \/ RollBack(h)
      PROVE  StepsInv'
  <2> DEFINE t == tx[h]
  <2>t. Good(t) /\ t \in Tx
    BY DEF StepsInv, TypeOK
  <2>1. CASE ReserveGranted(h)
    <3>1. Good([t EXCEPT !.step = "write", !.lim = NoLimits, !.charge = ~(t.job \in held[t.per]),
                         !.used = videos[t.per], !.ids = held[t.per]])
      BY <2>1, <2>t DEF ReserveGranted, Tx
    <3>2. QED
      BY <2>1, <3>1, <1>s DEF ReserveGranted
  <2>2. CASE ReleaseHeld(h)
    <3>1. PICK p \in Periods :
             Step(h, [t EXCEPT !.step = "write", !.charge = TRUE, !.per = p,
                               !.used = videos[p], !.ids = held[p]])
      BY <2>2 DEF ReleaseHeld, Holding
    <3>2. Good([t EXCEPT !.step = "write", !.charge = TRUE, !.per = p,
                         !.used = videos[p], !.ids = held[p]])
      BY <2>2, <2>t DEF ReleaseHeld, Tx
    <3>3. QED
      BY <3>1, <3>2, <1>s
  <2>3. CASE ReleaseNothing(h)
    <3>1. Good([t EXCEPT !.step = "write"])
      BY <2>3, <2>t DEF ReleaseNothing, Tx
    <3>2. QED
      BY <2>3, <3>1, <1>s DEF ReleaseNothing
  <2>4. CASE Step(h, Idle)
    BY <2>4, <1>i, <1>s
  <2>5. QED
    BY <1>2, <2>1, <2>2, <2>3, <2>4
       DEF TxStep, ReserveRefused, CommitQueued, CommitChanges, CommitCancel, RollBack, Finish
<1>3. CASE UNCHANGED tx
  BY <1>3 DEF StepsInv
<1>4. QED
  BY <1>1, <1>2, <1>3
     DEF Next, TaskStep, TaskLoad, TaskStart, TaskEnd, Decide, AdminRetry, ExpireSlot,
         ChangePlan, NextPeriod, vars

(* Every row, message and transaction keeps its shape, in every behaviour  *)
(* of the quota code (usage_counters, video_jobs and the open transactions).*)
THEOREM TypeCorrect == Spec => []TypeOK
<1>1. Init => TypeOK /\ StepsInv
  BY InitIInv DEF IInv
<1>2. TypeOK /\ StepsInv /\ [Next]_vars => TypeOK' /\ StepsInv'
  BY TypeNext, StepsNext
<1>3. QED
  BY <1>1, <1>2, PTL DEF Spec

----------------------------------------------------------------------------
(* What a transaction knows about the row it locked stays true.            *)

LEMMA LimitsNext == TypeOK /\ LimitsInv /\ [Next]_vars => LimitsInv'
<1> SUFFICES ASSUME TypeOK, LimitsInv, [Next]_vars PROVE LimitsInv'
  OBVIOUS
<1>p. plan.videos \in Nat /\ topVideos \in Nat /\ NoLimits.videos = 0
  BY DEF TypeOK, NoLimits
<1>1. CASE ChangePlan
  <2>1. /\ plan'.videos <= topVideos' /\ topVideos <= topVideos' /\ topVideos' \in Nat
        /\ tx' = tx
    BY <1>1, <1>p DEF ChangePlan
  <2>2. \A h \in Handlers : tx[h].lim.videos \in Nat
    BY DEF TypeOK, Tx
  <2>3. QED
    BY <2>1, <2>2, <1>p DEF LimitsInv
<1>2. ASSUME UNCHANGED <<plan, topVideos>>, NEW h \in Handlers, NEW r,
             Step(h, r), r.lim.videos <= topVideos
      PROVE  LimitsInv'
  BY <1>2 DEF LimitsInv, Step, TypeOK
<1>3. ASSUME NEW h \in Handlers, NEW j \in Jobs,
             \/ BeginGenerate(h, j) \/ BeginEnqueue(h, j)
             \/ BeginChanges(h, j) \/ BeginCancel(h, j)
      PROVE  LimitsInv'
  <2>1. UNCHANGED <<plan, topVideos>>
    BY <1>3 DEF BeginGenerate, BeginEnqueue, BeginChanges, BeginCancel, planVars
  <2>2. PICK o, s : Open(h, o, s, j)
    BY <1>3 DEF BeginGenerate, BeginEnqueue, BeginChanges, BeginCancel
  <2>3. (IF s = "reserve" THEN plan ELSE NoLimits).videos <= topVideos
    BY <1>p DEF LimitsInv
  <2>4. QED
    BY <2>1, <2>2, <2>3, <1>2 DEF Open
<1>4. ASSUME NEW h \in Handlers, TxStep(h) \/ RollBack(h)
      PROVE  LimitsInv'
  <2> DEFINE t == tx[h]
  <2>t. t \in Tx /\ t.lim.videos <= topVideos
    BY DEF TypeOK, LimitsInv
  <2>u. UNCHANGED <<plan, topVideos>>
    BY <1>4 DEF TxStep, ReserveGranted, ReserveRefused, ReleaseHeld, ReleaseNothing,
                CommitQueued, CommitChanges, CommitCancel, RollBack, Finish, planVars
  <2>1. CASE ReserveGranted(h)
    <3> DEFINE r == [t EXCEPT !.step = "write", !.lim = NoLimits,
                              !.charge = ~(t.job \in held[t.per]),
                              !.used = videos[t.per], !.ids = held[t.per]]
    <3>1. Step(h, r)
      BY <2>1 DEF ReserveGranted
    <3>2. r.lim.videos <= topVideos
      BY <2>t, <1>p DEF Tx
    <3> HIDE DEF r
    <3>3. QED
      BY <2>u, <3>1, <3>2, <1>2
  <2>2. CASE ReleaseHeld(h)
    <3>1. PICK p \in Periods :
             Step(h, [t EXCEPT !.step = "write", !.charge = TRUE, !.per = p,
                               !.used = videos[p], !.ids = held[p]])
      BY <2>2 DEF ReleaseHeld, Holding
    <3>2. [t EXCEPT !.step = "write", !.charge = TRUE, !.per = p,
                    !.used = videos[p], !.ids = held[p]].lim = t.lim
      BY <2>t DEF Tx
    <3>3. QED
      BY <2>t, <2>u, <3>1, <3>2, <1>2
  <2>3. CASE ReleaseNothing(h)
    <3>1. [t EXCEPT !.step = "write"].lim = t.lim
      BY <2>t DEF Tx
    <3>2. QED
      BY <2>3, <2>t, <2>u, <3>1, <1>2 DEF ReleaseNothing
  <2>4. CASE Step(h, Idle)
    <3>1. Idle.lim.videos = 0
      BY DEF Idle, NoLimits
    <3>2. QED
      BY <2>4, <2>u, <3>1, <1>2, <1>p
  <2>5. QED
    BY <1>4, <2>1, <2>2, <2>3, <2>4
       DEF TxStep, ReserveRefused, CommitQueued, CommitChanges, CommitCancel, RollBack, Finish
<1>5. CASE UNCHANGED <<plan, topVideos, tx>>
  BY <1>5 DEF LimitsInv
<1>6. QED
  BY <1>1, <1>3, <1>4, <1>5
     DEF Next, TaskStep, TaskLoad, TaskStart, TaskEnd, Decide, AdminRetry, ExpireSlot,
         NextPeriod, vars, planVars

LEMMA RowNext ==
    TypeOK /\ StepsInv /\ LimitsInv /\ RowInv /\ [Next]_vars => RowInv'
<1> SUFFICES ASSUME TypeOK, StepsInv, LimitsInv, RowInv, [Next]_vars PROVE RowInv'
  OBVIOUS
<1> DEFINE Knows(h) ==
             tx[h].charge =>
               /\ rowLock[tx[h].per] = h
               /\ tx[h].used = videos[tx[h].per]
               /\ tx[h].ids = held[tx[h].per]
               /\ tx[h].op = "cancel" => tx[h].job \in tx[h].ids
               /\ tx[h].op # "cancel" => tx[h].job \notin tx[h].ids /\ tx[h].used < topVideos
<1>t. topVideos \in Nat /\ topVideos' \in Nat /\ topVideos <= topVideos'
  <2>1. CASE ChangePlan
    BY <2>1 DEF ChangePlan, TypeOK
  <2>2. CASE UNCHANGED topVideos
    BY <2>2 DEF TypeOK
  <2>3. QED
    BY <2>1, <2>2
       DEF Next, TxStep, ReserveGranted, ReserveRefused, ReleaseHeld, ReleaseNothing,
           CommitQueued, CommitChanges, CommitCancel, RollBack, Finish,
           BeginGenerate, BeginEnqueue, BeginChanges, BeginCancel,
           TaskStep, TaskLoad, TaskStart, TaskEnd, Decide, AdminRetry, ExpireSlot,
           NextPeriod, vars, planVars
<1>u. \A h \in Handlers : tx[h] \in Tx /\ Knows(h)
  BY DEF TypeOK, RowInv
(* Nothing about the rows moves: only a handler that will not change one   *)
(* may have moved on.                                                      *)
<1>0. ASSUME UNCHANGED <<rowVars, rowLock>>, NEW h \in Handlers, NEW r, Step(h, r),
             r.charge = FALSE
      PROVE  RowInv'
  <2>1. ASSUME NEW g \in Handlers PROVE Knows(g)'
    <3>1. CASE g = h
      BY <3>1, <1>0 DEF Step, TypeOK
    <3>2. CASE g # h
      <4>1. tx'[g] = tx[g]
        BY <3>2, <1>0 DEF Step, TypeOK
      <4>2. tx[g].used \in Nat
        BY <1>u DEF Tx
      <4>3. QED
        BY <4>1, <4>2, <1>0, <1>t, <1>u DEF rowVars
    <3>3. QED
      BY <3>1, <3>2
  <2>2. QED
    BY <2>1 DEF RowInv
(* A handler that locks a row learns it; no other handler holds that row.  *)
<1>1. ASSUME UNCHANGED rowVars, NEW h \in Handlers, NEW r \in Tx, Step(h, r),
             LockRow(h, r.per), r.used = videos[r.per], r.ids = held[r.per],
             r.charge /\ r.op = "cancel" => r.job \in r.ids,
             r.charge /\ r.op # "cancel" => r.job \notin r.ids /\ r.used < topVideos
      PROVE  RowInv'
  <2>0. r.per \in Periods /\ r.used \in Nat
    BY DEF Tx
  <2>1. ASSUME NEW g \in Handlers PROVE Knows(g)'
    <3>1. CASE g = h
      <4>1. tx'[g] = r
        BY <3>1, <1>1 DEF Step, TypeOK
      <4>2. rowLock'[r.per] = h
        BY <2>0, <1>1 DEF LockRow, TypeOK
      <4>3. QED
        BY <3>1, <4>1, <4>2, <2>0, <1>1, <1>t DEF rowVars
    <3>2. CASE g # h
      <4>1. tx'[g] = tx[g]
        BY <3>2, <1>1 DEF Step, TypeOK
      <4>2. tx[g].per \in Periods /\ tx[g].used \in Nat
        BY <1>u DEF Tx
      <4>3. ASSUME tx[g].charge PROVE rowLock'[tx[g].per] = g
        <5>1. rowLock[tx[g].per] = g /\ g # Nobody
          BY <4>3, <1>u
        <5>2. tx[g].per # r.per
          BY <5>1, <1>1 DEF LockRow
        <5>3. QED
          BY <5>1, <5>2, <4>2, <2>0, <1>1 DEF LockRow, TypeOK
      <4>4. QED
        BY <4>1, <4>2, <4>3, <1>1, <1>t, <1>u DEF rowVars
    <3>3. QED
      BY <3>1, <3>2
  <2>2. QED
    BY <2>1 DEF RowInv
(* A commit changes only the row it holds, and frees what it holds.        *)
<1>2. ASSUME NEW h \in Handlers, Finish(h), TakeUnit(tx[h]) \/ GiveUnitBack(tx[h])
      PROVE  RowInv'
  <2> DEFINE t == tx[h]
  <2>1. ASSUME NEW g \in Handlers PROVE Knows(g)'
    <3>1. CASE g = h
      <4>1. tx'[g].charge = FALSE
        BY <3>1, <1>2 DEF Finish, Step, Idle, TypeOK
      <4>2. QED
        BY <4>1
    <3>2. CASE g # h
      <4>1. tx'[g] = tx[g]
        BY <3>2, <1>2 DEF Finish, Step, TypeOK
      <4>2. tx[g].per \in Periods /\ tx[g].used \in Nat /\ t.per \in Periods
        BY <1>u DEF Tx
      <4>3. SUFFICES ASSUME tx[g].charge PROVE Knows(g)'
        BY <4>1
      <4>4. rowLock[tx[g].per] = g
        BY <4>3, <1>u
      <4>5. rowLock'[tx[g].per] = g
        BY <4>2, <4>4, <3>2, <1>2 DEF Finish, Unlock, TypeOK
      <4>6. t.charge => tx[g].per # t.per
        BY <4>4, <3>2, <1>u
      <4>7. videos'[tx[g].per] = videos[tx[g].per] /\ held'[tx[g].per] = held[tx[g].per]
        BY <4>2, <4>6, <1>2 DEF TakeUnit, GiveUnitBack, rowVars, TypeOK
      <4>8. QED
        BY <4>1, <4>2, <4>3, <4>5, <4>7, <1>t, <1>u
    <3>3. QED
      BY <3>1, <3>2
  <2>2. QED
    BY <2>1 DEF RowInv
<1>3. ASSUME NEW h \in Handlers, TxStep(h) \/ RollBack(h)
      PROVE  RowInv'
  <2> DEFINE t == tx[h]
  <2>t. t \in Tx /\ t.lim.videos <= topVideos /\ t.per \in Periods
    BY <1>u DEF LimitsInv, Tx
  <2>1. CASE ReserveGranted(h)
    <3> DEFINE r == [t EXCEPT !.step = "write", !.lim = NoLimits,
                              !.charge = ~(t.job \in held[t.per]),
                              !.used = videos[t.per], !.ids = held[t.per]]
    <3>1. Step(h, r) /\ LockRow(h, t.per) /\ UNCHANGED rowVars
      BY <2>1 DEF ReserveGranted
    <3>2. /\ r.per = t.per /\ r.used = videos[t.per] /\ r.ids = held[t.per]
          /\ r.job = t.job /\ r.op = t.op /\ r.charge = (t.job \notin held[t.per])
      BY <2>t DEF Tx
    <3>3. r \in Tx
      BY <2>t DEF Tx, Steps, NoLimits, TypeOK
    <3>4. t.op # "cancel"
      BY <2>1 DEF ReserveGranted, StepsInv
    <3>5. t.job \notin held[t.per] => videos[t.per] < topVideos
      <4>1. t.job \notin held[t.per] => videos[t.per] < t.lim.videos
        BY <2>1 DEF ReserveGranted, Admits
      <4>2. videos[t.per] \in Nat /\ t.lim.videos \in Nat
        BY <2>t DEF TypeOK, Tx
      <4>3. QED
        BY <4>1, <4>2, <2>t, <1>t
    <3> HIDE DEF r
    <3>6. QED
      BY <3>1, <3>2, <3>3, <3>4, <3>5, <1>1
  <2>2. CASE ReleaseHeld(h)
    <3>1. PICK p \in Holding(t.job) :
             /\ LockRow(h, p)
             /\ Step(h, [t EXCEPT !.step = "write", !.charge = TRUE, !.per = p,
                                  !.used = videos[p], !.ids = held[p]])
      BY <2>2 DEF ReleaseHeld
    <3> DEFINE r == [t EXCEPT !.step = "write", !.charge = TRUE, !.per = p,
                              !.used = videos[p], !.ids = held[p]]
    <3>2. UNCHANGED rowVars /\ p \in Periods /\ t.job \in held[p]
      BY <2>2, <3>1 DEF ReleaseHeld, Holding
    <3>3. /\ r.per = p /\ r.used = videos[p] /\ r.ids = held[p]
          /\ r.job = t.job /\ r.op = t.op
      BY <2>t DEF Tx
    <3>4. r \in Tx
      BY <2>t, <3>2 DEF Tx, Steps, TypeOK
    <3>5. t.op = "cancel"
      BY <2>2 DEF ReleaseHeld, StepsInv
    <3>6. Step(h, r)
      BY <3>1
    <3> HIDE DEF r
    <3>7. QED
      BY <3>1, <3>2, <3>3, <3>4, <3>5, <3>6, <1>1
  <2>3. CASE ReleaseNothing(h)
    <3> DEFINE r == [t EXCEPT !.step = "write"]
    <3>1. Step(h, r) /\ UNCHANGED <<rowVars, rowLock>>
      BY <2>3 DEF ReleaseNothing
    <3>2. t.charge = FALSE
      BY <2>3, <2>t DEF ReleaseNothing, StepsInv, Tx
    <3>3. r.charge = FALSE
      BY <2>t, <3>2 DEF Tx
    <3> HIDE DEF r
    <3>4. QED
      BY <3>1, <3>3, <1>0
  <2>4. CASE ReserveRefused(h)
    BY <2>4, <1>0 DEF ReserveRefused, Idle
  <2>5. CASE RollBack(h)
    <3>1. UNCHANGED rowVars /\ Finish(h)
      BY <2>5 DEF RollBack
    <3>2. ASSUME NEW g \in Handlers PROVE Knows(g)'
      <4>1. CASE g = h
        BY <4>1, <3>1 DEF Finish, Step, Idle, TypeOK
      <4>2. CASE g # h
        <5>1. tx'[g] = tx[g] /\ tx[g].per \in Periods /\ tx[g].used \in Nat
          BY <4>2, <3>1, <1>u DEF Finish, Step, TypeOK, Tx
        <5>2. tx[g].charge => rowLock'[tx[g].per] = g
          BY <4>2, <3>1, <5>1, <1>u DEF Finish, Unlock, TypeOK
        <5>3. QED
          BY <5>1, <5>2, <3>1, <1>t, <1>u DEF rowVars
      <4>3. QED
        BY <4>1, <4>2
    <3>3. QED
      BY <3>2 DEF RowInv
  <2>6. CASE CommitQueued(h) \/ CommitChanges(h) \/ CommitCancel(h)
    BY <2>6, <1>2 DEF CommitQueued, CommitChanges, CommitCancel
  <2>7. QED
    BY <1>3, <2>1, <2>2, <2>3, <2>4, <2>5, <2>6 DEF TxStep
<1>4. ASSUME NEW h \in Handlers, NEW j \in Jobs,
             \/ BeginGenerate(h, j) \/ BeginEnqueue(h, j)
             \/ BeginChanges(h, j) \/ BeginCancel(h, j)
      PROVE  RowInv'
  <2>1. UNCHANGED <<rowVars, rowLock>>
    BY <1>4 DEF BeginGenerate, BeginEnqueue, BeginChanges, BeginCancel
  <2>2. PICK o, s : Open(h, o, s, j)
    BY <1>4 DEF BeginGenerate, BeginEnqueue, BeginChanges, BeginCancel
  <2>3. QED
    BY <2>1, <2>2, <1>0 DEF Open
<1>5. CASE UNCHANGED <<rowVars, rowLock, tx>>
  <2>1. ASSUME NEW g \in Handlers PROVE Knows(g)'
    <3>1. tx[g].used \in Nat
      BY <1>u DEF Tx
    <3>2. QED
      BY <3>1, <1>5, <1>t, <1>u DEF rowVars
  <2>2. QED
    BY <2>1 DEF RowInv
<1>6. QED
  BY <1>3, <1>4, <1>5
     DEF Next, TaskStep, TaskLoad, TaskStart, TaskEnd, Decide, AdminRetry, ExpireSlot,
         ChangePlan, NextPeriod, vars

----------------------------------------------------------------------------
(* The counter itself.  Only a commit that charges or refunds moves it.    *)

(* What a step may do to the counter rows.                                 *)
RowsKept == UNCHANGED rowVars
Charges(h) == tx[h].charge /\ tx[h].op # "cancel" /\ TakeUnit(tx[h])
Refunds(h) ==
    /\ tx[h].charge /\ tx[h].op = "cancel"
    /\ GiveUnitBack(tx[h])
    /\ status' = [status EXCEPT ![tx[h].job] = "canceled"]

LEMMA RowMoves ==
    ASSUME TypeOK, [Next]_vars
    PROVE  RowsKept \/ \E h \in Handlers : Charges(h) \/ Refunds(h)
<1>1. ASSUME NEW h \in Handlers, CommitQueued(h) \/ CommitChanges(h)
      PROVE  RowsKept \/ Charges(h)
  BY <1>1 DEF CommitQueued, CommitChanges, TakeUnit, RowsKept, Charges
<1>2. ASSUME NEW h \in Handlers, CommitCancel(h)
      PROVE  RowsKept \/ Refunds(h)
  BY <1>2 DEF CommitCancel, GiveUnitBack, RowsKept, Refunds
<1>3. QED
  BY <1>1, <1>2
     DEF RowsKept, Next, TxStep, ReserveGranted, ReserveRefused, ReleaseHeld, ReleaseNothing,
         RollBack, BeginGenerate, BeginEnqueue, BeginChanges, BeginCancel,
         TaskStep, TaskLoad, TaskStart, TaskEnd, Decide, AdminRetry, ExpireSlot,
         ChangePlan, NextPeriod, vars

LEMMA CounterNext ==
    IInv /\ [Next]_vars => QuotaExact' /\ NoOverdraft'
<1> SUFFICES ASSUME IInv, [Next]_vars PROVE QuotaExact' /\ NoOverdraft'
  OBVIOUS
<1>t. topVideos \in Nat /\ topVideos' \in Nat /\ topVideos <= topVideos'
  <2>1. CASE ChangePlan
    BY <2>1 DEF ChangePlan, IInv, TypeOK
  <2>2. CASE UNCHANGED topVideos
    BY <2>2 DEF IInv, TypeOK
  <2>3. QED
    BY <2>1, <2>2
       DEF Next, TxStep, ReserveGranted, ReserveRefused, ReleaseHeld, ReleaseNothing,
           CommitQueued, CommitChanges, CommitCancel, RollBack, Finish,
           BeginGenerate, BeginEnqueue, BeginChanges, BeginCancel,
           TaskStep, TaskLoad, TaskStart, TaskEnd, Decide, AdminRetry, ExpireSlot,
           NextPeriod, vars, planVars
<1>v. \A p \in Periods : /\ videos[p] \in Nat /\ held[p] \in SUBSET Jobs
                         /\ videos[p] = Cardinality(held[p]) /\ videos[p] <= topVideos
  BY DEF IInv, TypeOK, QuotaExact, NoOverdraft
<1>1. CASE RowsKept
  BY <1>1, <1>t, <1>v DEF RowsKept, rowVars, QuotaExact, NoOverdraft
<1>2. ASSUME NEW h \in Handlers, Charges(h) \/ Refunds(h)
      PROVE  QuotaExact' /\ NoOverdraft'
  <2> DEFINE q == tx[h].per
             j == tx[h].job
  <2>1. /\ q \in Periods /\ j \in Jobs
        /\ tx[h].used = videos[q] /\ tx[h].ids = held[q]
        /\ tx[h].op = "cancel" => j \in held[q]
        /\ tx[h].op # "cancel" => j \notin held[q] /\ videos[q] < topVideos
    BY <1>2 DEF IInv, TypeOK, Tx, StepsInv, RowInv, Charges, Refunds
  <2>2. /\ j \notin held[q] => Cardinality(held[q] \cup {j}) = Cardinality(held[q]) + 1
        /\ j \in held[q] => /\ Cardinality(held[q] \ {j}) = Cardinality(held[q]) - 1
                            /\ Cardinality(held[q]) # 0
    BY <2>1, <1>v, HeldCount
  <2>3. CASE Charges(h)
    <3>1. /\ videos' = [videos EXCEPT ![q] = videos[q] + 1]
          /\ held' = [held EXCEPT ![q] = held[q] \cup {j}]
          /\ j \notin held[q] /\ videos[q] < topVideos
      BY <2>1, <2>3 DEF Charges, TakeUnit
    <3>2. ASSUME NEW p \in Periods
          PROVE  videos'[p] = Cardinality(held'[p]) /\ videos'[p] <= topVideos'
      <4>1. CASE p = q
        <5>1. videos'[p] = videos[q] + 1 /\ held'[p] = held[q] \cup {j}
          BY <4>1, <3>1, <2>1 DEF IInv, TypeOK
        <5>2. QED
          BY <5>1, <3>1, <2>1, <2>2, <1>v, <1>t
      <4>2. CASE p # q
        <5>1. videos'[p] = videos[p] /\ held'[p] = held[p]
          BY <4>2, <3>1 DEF IInv, TypeOK
        <5>2. QED
          BY <5>1, <1>v, <1>t
      <4>3. QED
        BY <4>1, <4>2
    <3>3. QED
      BY <3>2 DEF QuotaExact, NoOverdraft
  <2>4. CASE Refunds(h)
    <3>1. /\ videos' = [videos EXCEPT ![q] = IF videos[q] = 0 THEN 0 ELSE videos[q] - 1]
          /\ held' = [held EXCEPT ![q] = held[q] \ {j}]
          /\ j \in held[q]
      BY <2>1, <2>4 DEF Refunds, GiveUnitBack
    <3>2. ASSUME NEW p \in Periods
          PROVE  videos'[p] = Cardinality(held'[p]) /\ videos'[p] <= topVideos'
      <4>1. CASE p = q
        <5>1. videos'[p] = (IF videos[q] = 0 THEN 0 ELSE videos[q] - 1)
          BY <4>1, <3>1, <2>1 DEF IInv, TypeOK
        <5>2. held'[p] = held[q] \ {j}
          BY <4>1, <3>1, <2>1 DEF IInv, TypeOK
        <5>3. QED
          BY <5>1, <5>2, <3>1, <2>1, <2>2, <1>v, <1>t
      <4>2. CASE p # q
        <5>1. videos'[p] = videos[p] /\ held'[p] = held[p]
          BY <4>2, <3>1 DEF IInv, TypeOK
        <5>2. QED
          BY <5>1, <1>v, <1>t
      <4>3. QED
        BY <4>1, <4>2
    <3>3. QED
      BY <3>2 DEF QuotaExact, NoOverdraft
  <2>5. QED
    BY <1>2, <2>3, <2>4
<1>3. QED
  BY <1>1, <1>2, RowMoves DEF IInv

LEMMA IInvNext == IInv /\ [Next]_vars => IInv'
BY TypeNext, StepsNext, LimitsNext, RowNext, CounterNext DEF IInv

(* The counter of every period equals the number of jobs that hold a unit  *)
(* of it: reserve_quota and release_quota count no job twice and take no   *)
(* unit back twice, however many requests and ticks run at once.           *)
THEOREM QuotaIsExact == Spec => []QuotaExact
<1>1. IInv => QuotaExact
  BY DEF IInv
<1>2. QED
  BY <1>1, InitIInv, IInvNext, PTL DEF Spec

(* A job keeps the unit it holds until it is canceled: no reservation or   *)
(* refund of another job undoes it, since whoever writes a counter row     *)
(* still knows what that row holds (RowInv).                               *)
THEOREM UnitsStayWithTheirJob == Spec => UnitsGoOnlyWithTheirJob
<1>1. ASSUME IInv, [Next]_vars
      PROVE  \A p \in Periods, j \in Jobs :
                j \in held[p] /\ j \notin held'[p] => status'[j] = "canceled"
  <2>1. CASE RowsKept
    BY <2>1 DEF RowsKept, rowVars
  <2>2. ASSUME NEW h \in Handlers, Charges(h) PROVE \A p \in Periods : held[p] \subseteq held'[p]
    <3>1. tx[h].ids = held[tx[h].per] /\ held' = [held EXCEPT ![tx[h].per] = tx[h].ids \cup {tx[h].job}]
      BY <1>1, <2>2 DEF IInv, RowInv, Charges, TakeUnit
    <3>2. QED
      BY <1>1, <3>1 DEF IInv, TypeOK
  <2>3. ASSUME NEW h \in Handlers, Refunds(h),
               NEW p \in Periods, NEW j \in Jobs, j \in held[p], j \notin held'[p]
        PROVE  status'[j] = "canceled"
    <3>1. /\ tx[h].ids = held[tx[h].per]
          /\ held' = [held EXCEPT ![tx[h].per] = tx[h].ids \ {tx[h].job}]
      BY <1>1, <2>3 DEF IInv, RowInv, Refunds, GiveUnitBack
    <3>2. j = tx[h].job
      BY <1>1, <2>3, <3>1 DEF IInv, TypeOK
    <3>3. QED
      BY <1>1, <2>3, <3>2 DEF Refunds, IInv, TypeOK
  <2>4. QED
    BY <1>1, <2>1, <2>2, <2>3, RowMoves DEF IInv
<1>2. QED
  BY <1>1, InitIInv, IInvNext, PTL DEF Spec, UnitsGoOnlyWithTheirJob

(* No period is charged beyond the most generous plan so far in force:     *)
(* two reservations never both take the last unit (reserve_quota).         *)
THEOREM NeverOverdrawn == Spec => []NoOverdraft
<1>1. IInv => NoOverdraft
  BY DEF IInv
<1>2. QED
  BY <1>1, InitIInv, IInvNext, PTL DEF Spec

-----------------------------------------------------------------------------
(* The row locks of JobQuota are never waited for in a cycle, for every    *)
(* set of jobs, plans and handlers.                                        *)
(*                                                                         *)
(* Only the scheduler locks a job row first and the counter row second,    *)
(* and only of a scheduled job.  No job becomes scheduled again, so what   *)
(* is left to show is that whoever holds a counter row is about a job that *)
(* is not scheduled, or is the scheduler itself: a cancellation keeps the  *)
(* counter row only when it has found a unit there, and a scheduled job    *)
(* has none.                                                               *)

Busy(h) == tx[h].step # "idle"

(* The lock of a job row belongs to the scheduler's transaction about it. *)
JobLocks ==
    /\ \A j \in Jobs : jobLock[j] # Nobody =>
          /\ status[j] = "scheduled" /\ Busy(jobLock[j])
          /\ tx[jobLock[j]].op = "enqueue" /\ tx[jobLock[j]].job = j
    /\ \A h \in Handlers : Busy(h) /\ tx[h].op = "enqueue" => jobLock[tx[h].job] = h

(* A counter row is locked by transactions that will write next.          *)
CounterLocks ==
    \A p \in Periods : rowLock[p] # Nobody =>
        /\ tx[rowLock[p]].step = "write"
        /\ tx[rowLock[p]].op = "cancel" => tx[rowLock[p]].charge

(* Nothing is charged for, and nothing but the scheduler and cancellations *)
(* is about, a scheduled job.                                              *)
Scheduled ==
    /\ \A j \in Jobs : status[j] = "scheduled" => \A p \in Periods : j \notin held[p]
    /\ \A h \in Handlers : Busy(h) =>
          /\ tx[h].op # "none"
          /\ tx[h].op \in {"generate", "changes"} => status[tx[h].job] # "scheduled"

LocksInv == JobLocks /\ CounterLocks /\ Scheduled

LEMMA InitLocks == Init => LocksInv
<1> SUFFICES ASSUME Init PROVE LocksInv
  OBVIOUS
<1>1. \A h \in Handlers : ~Busy(h)
  BY DEF Init, Busy, Idle
<1>2. JobLocks
  BY <1>1 DEF Init, JobLocks
<1>3. CounterLocks
  BY DEF Init, CounterLocks
<1>4. Scheduled
  BY <1>1 DEF Init, Scheduled
<1> QED
  BY <1>2, <1>3, <1>4 DEF LocksInv

LEMMA LocksSuffice == IInv /\ LocksInv => CounterHolderNeverWaits
<1> SUFFICES ASSUME IInv, LocksInv, NEW h \in Handlers, NEW p \in Periods, rowLock[p] = h
             PROVE  tx[h].step = "write" /\ JobRowFree(h, tx[h].job)
  BY DEF CounterHolderNeverWaits
<1>1. tx[h] \in Tx /\ h # Nobody
  BY JobQuotaAssumption DEF IInv, TypeOK
<1>2. tx[h].step = "write" /\ (tx[h].op = "cancel" => tx[h].charge)
  BY <1>1 DEF LocksInv, CounterLocks
<1>3. Busy(h) /\ tx[h].job \in Jobs
  BY <1>2 DEF Busy, IInv, StepsInv
<1>4. tx[h].op = "enqueue" => jobLock[tx[h].job] = h
  BY <1>3 DEF LocksInv, JobLocks
<1>5. tx[h].op # "enqueue" /\ tx[h].op # "none" => status[tx[h].job] # "scheduled"
  <2>1. CASE tx[h].op = "cancel"
    <3>1. tx[h].job \in held[tx[h].per] /\ tx[h].per \in Periods
      BY <1>1, <1>2, <2>1 DEF IInv, RowInv, Tx
    <3> QED
      BY <3>1, <1>3 DEF LocksInv, Scheduled
  <2> QED
    BY <1>1, <1>3, <2>1 DEF LocksInv, Scheduled, Tx, Ops
<1>6. tx[h].op # "none"
  BY <1>3 DEF LocksInv, Scheduled
<1> QED
  BY <1>6, <1>1, <1>2, <1>3, <1>4, <1>5 DEF LocksInv, JobLocks, JobRowFree

(* What a step may do to the lock of a job row, to those of the counter    *)
(* rows, and, when it ends a transaction, to the jobs.                     *)
JobRowAfter(h, t) ==
    \/ Busy(h) /\ t.op = tx[h].op /\ t.job = tx[h].job /\ jobLock' = jobLock
    \/ ~Busy(h) /\ t.op # "enqueue" /\ jobLock' = jobLock
    \/ /\ ~Busy(h) /\ t.op = "enqueue" /\ t.job \in Jobs
       /\ status[t.job] = "scheduled" /\ jobLock[t.job] = Nobody
       /\ jobLock' = [jobLock EXCEPT ![t.job] = h]

CounterRowsAfter(h, t) ==
    \A p \in Periods :
        \/ rowLock'[p] = rowLock[p] /\ rowLock[p] # h
        \/ rowLock'[p] = h /\ t.step = "write" /\ (t.op = "cancel" => t.charge)

LocksGone(h) ==
    /\ \A j \in Jobs : jobLock'[j] = IF jobLock[j] = h THEN Nobody ELSE jobLock[j]
    /\ \A p \in Periods : rowLock'[p] = IF rowLock[p] = h THEN Nobody ELSE rowLock[p]

JobsAfter(h) ==
    \A j \in Jobs :
        \/ status'[j] = status[j] /\ \A p \in Periods : held'[p] \subseteq held[p] \cup (Jobs \ {j})
        \/ jobLock[j] \in {Nobody, h} /\ status'[j] # "scheduled"

(* A transaction ends: its locks go, and the job it is about, unless the   *)
(* scheduler has locked it for another, may get another status and a unit. *)
LEMMA Ends ==
    ASSUME TypeOK, StepsInv, LocksInv, NEW h \in Handlers,
           tx' = [tx EXCEPT ![h] = Idle], LocksGone(h), JobsAfter(h)
    PROVE  LocksInv'
<1>1. \A g \in Handlers : g # h => tx'[g] = tx[g]
  BY DEF TypeOK
<1>2. ~Busy(h)' /\ \A g \in Handlers : g # h => (Busy(g)' <=> Busy(g))
  BY <1>1 DEF Busy, Idle, TypeOK
<1>3. \A j \in Jobs : jobLock'[j] # Nobody =>
         jobLock'[j] = jobLock[j] /\ jobLock[j] \in Handlers \ {h} /\ status'[j] = status[j]
  BY DEF TypeOK, LocksGone, JobsAfter
<1>4. \A j \in Jobs : status'[j] = "scheduled" => status[j] = "scheduled"
  BY DEF JobsAfter
<1>5. JobLocks'
  <2>1. ASSUME NEW j \in Jobs, jobLock'[j] # Nobody
        PROVE  /\ status'[j] = "scheduled" /\ tx'[jobLock'[j]].step # "idle"
               /\ tx'[jobLock'[j]].op = "enqueue" /\ tx'[jobLock'[j]].job = j
    BY <2>1, <1>1, <1>2, <1>3 DEF LocksInv, JobLocks, Busy
  <2>2. ASSUME NEW g \in Handlers, Busy(g)', tx'[g].op = "enqueue"
        PROVE  jobLock'[tx'[g].job] = g
    <3>1. g # h /\ tx'[g] = tx[g] /\ jobLock[tx[g].job] = g /\ tx[g].job \in Jobs
      BY <2>2, <1>1, <1>2 DEF LocksInv, JobLocks, StepsInv, Busy
    <3> QED
      BY <3>1 DEF LocksGone
  <2> QED
    BY <2>1, <2>2 DEF JobLocks, Busy
<1>6. CounterLocks'
  <2>1. ASSUME NEW p \in Periods, rowLock'[p] # Nobody
        PROVE  rowLock'[p] = rowLock[p] /\ tx'[rowLock[p]] = tx[rowLock[p]]
    BY <2>1, <1>1 DEF TypeOK, LocksGone
  <2> QED
    BY <2>1 DEF LocksInv, CounterLocks
<1>7. Scheduled'
  <2>1. ASSUME NEW j \in Jobs, status'[j] = "scheduled", NEW p \in Periods
        PROVE  j \notin held'[p]
    BY <2>1 DEF LocksInv, Scheduled, JobsAfter
  <2>2. ASSUME NEW g \in Handlers, Busy(g)'
        PROVE  /\ tx'[g].op # "none"
               /\ tx'[g].op \in {"generate", "changes"} => status'[tx'[g].job] # "scheduled"
    <3>1. g # h /\ tx'[g] = tx[g] /\ Busy(g) /\ tx[g].job \in Jobs
      BY <2>2, <1>1, <1>2 DEF StepsInv, Busy
    <3> QED
      BY <2>2, <3>1, <1>4 DEF LocksInv, Scheduled
  <2> QED
    BY <2>1, <2>2 DEF Scheduled
<1> QED
  BY <1>5, <1>6, <1>7 DEF LocksInv

(* The status of a job that nobody has locked changes. *)
LEMMA StatusMoves ==
    ASSUME TypeOK, StepsInv, LocksInv, NEW j \in Jobs, NEW s, s # "scheduled",
           jobLock[j] = Nobody, status' = [status EXCEPT ![j] = s],
           UNCHANGED <<held, rowLock, jobLock, tx>>
    PROVE  LocksInv'
<1>1. \A i \in Jobs : /\ status'[i] = "scheduled" => status[i] = "scheduled"
                      /\ jobLock[i] # Nobody => status'[i] = status[i]
  BY DEF TypeOK
<1>2. \A h : Busy(h)' <=> Busy(h)
  BY DEF Busy
<1>3. JobLocks'
  BY <1>1, <1>2 DEF LocksInv, JobLocks
<1>4. CounterLocks'
  BY DEF LocksInv, CounterLocks
<1>5. Scheduled'
  <2>1. \A h \in Handlers : Busy(h) => tx[h].job \in Jobs
    BY DEF StepsInv, Busy
  <2> QED
    BY <1>1, <1>2, <2>1 DEF LocksInv, Scheduled
<1> QED
  BY <1>3, <1>4, <1>5 DEF LocksInv

(* A transaction goes on, or begins, with the job row as it is. *)
LEMMA GoesOn ==
    ASSUME TypeOK, StepsInv, LocksInv, NEW h \in Handlers, NEW t, tx' = [tx EXCEPT ![h] = t],
           UNCHANGED <<status, held>>, t.step # "idle", t.op # "none",
           t.op \in {"generate", "changes"} => status[t.job] # "scheduled",
           JobRowAfter(h, t), CounterRowsAfter(h, t)
    PROVE  LocksInv'
<1>1. tx'[h] = t /\ \A g \in Handlers : g # h => tx'[g] = tx[g]
  BY DEF TypeOK
<1>2. Busy(h)' /\ \A g \in Handlers : g # h => (Busy(g)' <=> Busy(g))
  BY <1>1 DEF Busy
<1>3. \A g \in Handlers : Busy(g) => tx[g].job \in Jobs
  BY DEF StepsInv, Busy
<1>4. JobLocks'
  <2>1. CASE Busy(h) \/ t.op # "enqueue"
    <3>0. /\ jobLock' = jobLock
          /\ t.op = "enqueue" => Busy(h) /\ tx[h].op = "enqueue" /\ t.job = tx[h].job
      BY <2>1 DEF JobRowAfter
    <3>1. ASSUME NEW j \in Jobs, jobLock[j] # Nobody
          PROVE  /\ status'[j] = "scheduled" /\ tx'[jobLock[j]].step # "idle"
                 /\ tx'[jobLock[j]].op = "enqueue" /\ tx'[jobLock[j]].job = j
      <4>1. /\ jobLock[j] \in Handlers /\ status[j] = "scheduled" /\ Busy(jobLock[j])
            /\ tx[jobLock[j]].op = "enqueue" /\ tx[jobLock[j]].job = j
        BY <3>1 DEF LocksInv, JobLocks, TypeOK
      <4>2. CASE jobLock[j] = h
        BY <4>1, <4>2, <1>1, <3>0 DEF JobRowAfter
      <4>3. CASE jobLock[j] # h
        <5>1. tx'[jobLock[j]] = tx[jobLock[j]]
          BY <4>1, <4>3, <1>1
        <5> QED
          BY <4>1, <5>1 DEF Busy
      <4> QED
        BY <4>2, <4>3
    <3>2. ASSUME NEW g \in Handlers, Busy(g)', tx'[g].op = "enqueue"
          PROVE  jobLock[tx'[g].job] = g
      <4>1. CASE g = h
        BY <4>1, <3>2, <3>0, <1>1 DEF LocksInv, JobLocks
      <4>2. CASE g # h
        BY <4>2, <3>2, <1>1, <1>2 DEF LocksInv, JobLocks
      <4> QED
        BY <4>1, <4>2
    <3> QED
      BY <3>1, <3>2, <3>0 DEF JobLocks, Busy
  <2>2. CASE ~Busy(h) /\ t.op = "enqueue"
    <3>0. /\ t.job \in Jobs /\ status[t.job] = "scheduled" /\ jobLock[t.job] = Nobody
          /\ jobLock' = [jobLock EXCEPT ![t.job] = h]
      BY <2>2 DEF JobRowAfter
    <3>1. jobLock'[t.job] = h /\ \A j \in Jobs : j # t.job => jobLock'[j] = jobLock[j]
      BY <3>0 DEF TypeOK
    <3>2. ASSUME NEW j \in Jobs, jobLock'[j] # Nobody
          PROVE  /\ status'[j] = "scheduled" /\ tx'[jobLock'[j]].step # "idle"
                 /\ tx'[jobLock'[j]].op = "enqueue" /\ tx'[jobLock'[j]].job = j
      <4>1. CASE j = t.job
        BY <4>1, <3>0, <3>1, <2>2, <1>1
      <4>2. CASE j # t.job
        <5>1. /\ jobLock[j] \in Handlers /\ status[j] = "scheduled" /\ Busy(jobLock[j])
              /\ tx[jobLock[j]].op = "enqueue" /\ tx[jobLock[j]].job = j
          BY <3>1, <3>2, <4>2 DEF LocksInv, JobLocks, TypeOK
        <5> QED
          BY <5>1, <4>2, <3>1, <2>2, <1>1 DEF Busy
      <4> QED
        BY <4>1, <4>2
    <3>3. ASSUME NEW g \in Handlers, Busy(g)', tx'[g].op = "enqueue"
          PROVE  jobLock'[tx'[g].job] = g
      <4>1. CASE g = h
        BY <4>1, <3>1, <1>1
      <4>2. CASE g # h
        <5>1. /\ tx'[g] = tx[g] /\ jobLock[tx[g].job] = g /\ tx[g].job \in Jobs
          BY <4>2, <3>3, <1>1, <1>2, <1>3 DEF LocksInv, JobLocks
        <5>2. tx[g].job # t.job
          BY <5>1, <3>0, JobQuotaAssumption
        <5> QED
          BY <5>1, <5>2, <3>1
      <4> QED
        BY <4>1, <4>2
    <3> QED
      BY <3>2, <3>3 DEF JobLocks, Busy
  <2> QED
    BY <2>1, <2>2
<1>5. CounterLocks'
  <2>1. ASSUME NEW p \in Periods, rowLock'[p] # Nobody
        PROVE  /\ tx'[rowLock'[p]].step = "write"
               /\ tx'[rowLock'[p]].op = "cancel" => tx'[rowLock'[p]].charge
    <3>1. CASE rowLock'[p] = rowLock[p] /\ rowLock[p] # h
      <4>1. rowLock[p] \in Handlers /\ tx'[rowLock[p]] = tx[rowLock[p]]
        BY <2>1, <3>1, <1>1 DEF TypeOK
      <4> QED
        BY <2>1, <3>1, <4>1 DEF LocksInv, CounterLocks
    <3>2. CASE ~(rowLock'[p] = rowLock[p] /\ rowLock[p] # h)
      BY <3>2, <1>1 DEF CounterRowsAfter
    <3> QED
      BY <3>1, <3>2
  <2> QED
    BY <2>1 DEF CounterLocks
<1>6. Scheduled'
  <2>1. ASSUME NEW g \in Handlers, Busy(g)'
        PROVE  /\ tx'[g].op # "none"
               /\ tx'[g].op \in {"generate", "changes"} => status'[tx'[g].job] # "scheduled"
    BY <2>1, <1>1, <1>2 DEF LocksInv, Scheduled
  <2> QED
    BY <2>1 DEF LocksInv, Scheduled
<1> QED
  BY <1>4, <1>5, <1>6 DEF LocksInv

LEMMA BeginLocks ==
    ASSUME TypeOK, StepsInv, LocksInv, NEW h \in Handlers, NEW j \in Jobs,
           \/ BeginGenerate(h, j) \/ BeginEnqueue(h, j)
           \/ BeginChanges(h, j) \/ BeginCancel(h, j)
    PROVE  LocksInv'
<1>1. ~Busy(h)
  BY DEF BeginGenerate, BeginEnqueue, BeginChanges, BeginCancel, Busy, Idle
<1>2. \A p \in Periods : rowLock[p] # h
  BY <1>1, JobQuotaAssumption DEF LocksInv, CounterLocks, Busy
<1>3. PICK o \in Ops, s \in Steps :
        /\ Open(h, o, s, j) /\ s # "idle" /\ o # "none"
        /\ UNCHANGED <<status, held, rowLock>>
        /\ o \in {"generate", "changes"} => status[j] # "scheduled"
        /\ \/ o # "enqueue" /\ jobLock' = jobLock
           \/ /\ o = "enqueue" /\ status[j] = "scheduled" /\ jobLock[j] = Nobody
              /\ jobLock' = [jobLock EXCEPT ![j] = h]
  <2>1. CASE BeginGenerate(h, j)
    BY <2>1 DEF BeginGenerate, Ops, Steps, jobVars, rowVars
  <2>2. CASE BeginEnqueue(h, j)
    BY <2>2 DEF BeginEnqueue, Ops, Steps, jobVars, rowVars
  <2>3. CASE BeginChanges(h, j)
    BY <2>3 DEF BeginChanges, Ops, Steps, jobVars, rowVars
  <2>4. CASE BeginCancel(h, j)
    BY <2>4 DEF BeginCancel, Ops, Steps, jobVars, rowVars
  <2> QED
    BY <2>1, <2>2, <2>3, <2>4
<1> DEFINE t == [op |-> o, step |-> s, job |-> j, regen |-> regen[j],
                 per |-> IF s = "reserve" THEN period ELSE 1,
                 lim |-> IF s = "reserve" THEN plan ELSE NoLimits,
                 used |-> 0, ids |-> {}, charge |-> FALSE]
<1>4. tx' = [tx EXCEPT ![h] = t]
  BY <1>3 DEF Open, Step
<1>5. t.op = o /\ t.step = s /\ t.job = j
  OBVIOUS
<1> HIDE DEF t
<1>6. /\ t.step # "idle" /\ t.op # "none"
      /\ t.op \in {"generate", "changes"} => status[t.job] # "scheduled"
      /\ UNCHANGED <<status, held>>
  BY <1>3, <1>5
<1>7. JobRowAfter(h, t)
  BY <1>1, <1>3, <1>5 DEF JobRowAfter
<1>8. CounterRowsAfter(h, t)
  BY <1>2, <1>3 DEF CounterRowsAfter
<1> QED
  BY <1>4, <1>6, <1>7, <1>8, GoesOn

LEMMA StepLocks ==
    ASSUME IInv, LocksInv, NEW h \in Handlers,
           ReserveGranted(h) \/ ReleaseHeld(h) \/ ReleaseNothing(h)
    PROVE  LocksInv'
<1>1. /\ tx[h].step \in {"reserve", "release"} /\ tx[h] \in Tx
      /\ tx[h].step = "reserve" => tx[h].op # "cancel"
      /\ tx[h].op # "none"
      /\ tx[h].op \in {"generate", "changes"} => status[tx[h].job] # "scheduled"
  BY DEF ReserveGranted, ReleaseHeld, ReleaseNothing, IInv, TypeOK, StepsInv, LocksInv, Scheduled, Busy
<1>2. Busy(h) /\ \A p \in Periods : rowLock[p] # h
  BY <1>1, JobQuotaAssumption DEF LocksInv, CounterLocks, Busy
<1>3. PICK t : /\ tx' = [tx EXCEPT ![h] = t]
               /\ t.op = tx[h].op /\ t.job = tx[h].job /\ t.step = "write"
               /\ UNCHANGED <<status, held, jobLock>>
               /\ t.op = "cancel" => t.charge \/ rowLock' = rowLock
               /\ \A p \in Periods : rowLock'[p] \in {rowLock[p], h}
  <2>1. CASE ReserveGranted(h)
    <3> DEFINE t == [tx[h] EXCEPT !.step = "write", !.lim = NoLimits,
                                  !.charge = ~(tx[h].job \in held[tx[h].per]),
                                  !.used = videos[tx[h].per], !.ids = held[tx[h].per]]
    <3>1. t.op = tx[h].op /\ t.job = tx[h].job /\ t.step = "write" /\ t.op # "cancel"
      BY <2>1, <1>1 DEF ReserveGranted, Tx
    <3>2. tx' = [tx EXCEPT ![h] = t] /\ UNCHANGED <<status, held, jobLock>>
      BY <2>1 DEF ReserveGranted, Step, jobVars, rowVars
    <3>3. \A p \in Periods : rowLock'[p] \in {rowLock[p], h}
      BY <2>1 DEF ReserveGranted, LockRow, IInv, TypeOK
    <3> HIDE DEF t
    <3> QED
      BY <3>1, <3>2, <3>3
  <2>2. CASE ReleaseHeld(h)
    <3>1. PICK p \in Periods :
             /\ Step(h, [tx[h] EXCEPT !.step = "write", !.charge = TRUE, !.per = p,
                                      !.used = videos[p], !.ids = held[p]])
             /\ LockRow(h, p) /\ UNCHANGED <<status, held, jobLock>>
      BY <2>2 DEF ReleaseHeld, Holding, jobVars, rowVars
    <3> DEFINE t == [tx[h] EXCEPT !.step = "write", !.charge = TRUE, !.per = p,
                                  !.used = videos[p], !.ids = held[p]]
    <3>2. t.op = tx[h].op /\ t.job = tx[h].job /\ t.step = "write" /\ t.charge
      BY <1>1 DEF Tx
    <3>3. tx' = [tx EXCEPT ![h] = t]
      BY <3>1 DEF Step
    <3>4. \A q \in Periods : rowLock'[q] \in {rowLock[q], h}
      BY <3>1 DEF LockRow, IInv, TypeOK
    <3> HIDE DEF t
    <3> QED
      BY <3>1, <3>2, <3>3, <3>4
  <2>3. CASE ReleaseNothing(h)
    BY <2>3, <1>1 DEF ReleaseNothing, Step, Tx, jobVars, rowVars
  <2> QED
    BY <2>1, <2>2, <2>3
<1>4. CounterRowsAfter(h, t)
  <2>1. ASSUME NEW p \in Periods, rowLock'[p] # rowLock[p]
        PROVE  rowLock'[p] = h /\ t.step = "write" /\ (t.op = "cancel" => t.charge)
    BY <2>1, <1>3
  <2> QED
    BY <2>1, <1>2 DEF CounterRowsAfter
<1>5. /\ t.step # "idle" /\ t.op # "none"
      /\ t.op \in {"generate", "changes"} => status[t.job] # "scheduled"
      /\ tx' = [tx EXCEPT ![h] = t] /\ UNCHANGED <<status, held>>
  BY <1>1, <1>3
<1>6. JobRowAfter(h, t)
  BY <1>2, <1>3 DEF JobRowAfter
<1>7. TypeOK /\ StepsInv
  BY DEF IInv
<1> QED
  BY <1>4, <1>5, <1>6, <1>7, GoesOn

LEMMA EndLocks ==
    ASSUME IInv, LocksInv, NEW h \in Handlers,
           \/ ReserveRefused(h) \/ RollBack(h)
           \/ CommitQueued(h) \/ CommitChanges(h) \/ CommitCancel(h)
    PROVE  LocksInv'
<1>1. /\ tx[h] \in Tx /\ Busy(h) /\ tx[h].job \in Jobs /\ h # Nobody
  BY JobQuotaAssumption
     DEF ReserveRefused, RollBack, CommitQueued, CommitChanges, CommitCancel,
         IInv, TypeOK, StepsInv, Busy
<1>2. tx' = [tx EXCEPT ![h] = Idle]
  BY DEF ReserveRefused, RollBack, CommitQueued, CommitChanges, CommitCancel, Finish, Step
<1>3. \A j \in Jobs : jobLock'[j] = IF jobLock[j] = h THEN Nobody ELSE jobLock[j]
  BY DEF ReserveRefused, RollBack, CommitQueued, CommitChanges, CommitCancel, Finish, Unlock,
         IInv, TypeOK
<1>4. \A p \in Periods : rowLock'[p] = IF rowLock[p] = h THEN Nobody ELSE rowLock[p]
  <2>1. CASE ReserveRefused(h)
    <3>1. tx[h].step = "reserve" /\ rowLock' = rowLock
      BY <2>1 DEF ReserveRefused
    <3>2. \A p \in Periods : rowLock[p] # h
      BY <3>1, <1>1 DEF LocksInv, CounterLocks
    <3> QED
      BY <3>1, <3>2
  <2> QED
    BY <2>1 DEF RollBack, CommitQueued, CommitChanges, CommitCancel, Finish, Unlock, IInv, TypeOK
<1>5. JobsAfter(h)
  <2>1. CASE ReserveRefused(h) \/ RollBack(h)
    BY <2>1 DEF ReserveRefused, RollBack, jobVars, rowVars, JobsAfter
  <2>2. CASE CommitQueued(h) \/ CommitChanges(h) \/ CommitCancel(h)
    <3>1. PICK s : s # "scheduled" /\ status' = [status EXCEPT ![tx[h].job] = s]
      BY <2>2 DEF CommitQueued, CommitChanges, CommitCancel
    <3>2. jobLock[tx[h].job] \in {Nobody, h}
      <4>1. CASE CommitQueued(h)
        BY <4>1, <1>1 DEF CommitQueued, LocksInv, JobLocks, Scheduled
      <4> QED
        BY <2>2, <4>1 DEF CommitChanges, CommitCancel, JobRowFree
    <3>3. \A p \in Periods : held'[p] \subseteq held[p] \cup {tx[h].job}
      <4>1. CASE UNCHANGED held
        BY <4>1
      <4>2. CASE tx[h].charge /\ tx[h].ids = held[tx[h].per]
                 /\ \/ held' = [held EXCEPT ![tx[h].per] = tx[h].ids \cup {tx[h].job}]
                    \/ held' = [held EXCEPT ![tx[h].per] = tx[h].ids \ {tx[h].job}]
        BY <4>2, <1>1 DEF IInv, TypeOK
      <4> QED
        BY <2>2, <4>1, <4>2
           DEF CommitQueued, CommitChanges, CommitCancel, TakeUnit, GiveUnitBack, rowVars, IInv, RowInv
    <3> QED
      BY <3>1, <3>2, <3>3, <1>1 DEF IInv, TypeOK, JobsAfter
  <2> QED
    BY <2>1, <2>2
<1>6. TypeOK /\ StepsInv
  BY DEF IInv
<1>7. LocksGone(h)
  BY <1>3, <1>4 DEF LocksGone
<1> QED
  BY <1>2, <1>5, <1>6, <1>7, Ends

LEMMA LocksNext == IInv /\ LocksInv /\ [Next]_vars => LocksInv'
<1> SUFFICES ASSUME IInv, LocksInv, [Next]_vars PROVE LocksInv'
  OBVIOUS
<1>1. ASSUME NEW h \in Handlers, TxStep(h) \/ RollBack(h) PROVE LocksInv'
  BY <1>1, StepLocks, EndLocks DEF TxStep
<1>2. ASSUME NEW h \in Handlers, NEW j \in Jobs,
             \/ BeginGenerate(h, j) \/ BeginEnqueue(h, j)
             \/ BeginChanges(h, j) \/ BeginCancel(h, j)
      PROVE  LocksInv'
  BY <1>2, BeginLocks DEF IInv
<1>3. CASE UNCHANGED <<status, held, rowLock, jobLock, tx>>
  <2>1. \A h : Busy(h)' <=> Busy(h)
    BY <1>3 DEF Busy
  <2> QED
    BY <1>3, <2>1 DEF LocksInv, JobLocks, CounterLocks, Scheduled
<1>4. ASSUME NEW j \in Jobs, TaskStep(j) \/ Decide(j) \/ AdminRetry(j) \/ ExpireSlot(j)
      PROVE  LocksInv'
  <2>1. CASE TaskLoad(j)
    BY <2>1, <1>3 DEF TaskLoad, jobVars, rowVars
  <2>2. CASE ~TaskLoad(j)
    <3>1. PICK s : /\ s # "scheduled" /\ jobLock[j] = Nobody
                   /\ status' = [status EXCEPT ![j] = s]
                   /\ UNCHANGED <<held, rowLock, jobLock, tx>>
      BY <1>4, <2>2 DEF TaskStep, TaskStart, TaskEnd, Decide, AdminRetry, ExpireSlot, rowVars
    <3> QED
      BY <3>1, StatusMoves DEF IInv
  <2> QED
    BY <2>1, <2>2
<1>5. CASE ChangePlan \/ NextPeriod \/ UNCHANGED vars
  BY <1>5, <1>3 DEF ChangePlan, NextPeriod, vars, jobVars, rowVars
<1> QED
  BY <1>1, <1>2, <1>4, <1>5 DEF Next

(* The two row locks are never waited for in a cycle: whoever has a        *)
(* counter row locked can write at once, whatever the scheduler            *)
(* (enqueue_due_jobs), cancellations, requests for changes and "Generate   *)
(* now" do meanwhile, for every number of jobs and processes.              *)
THEOREM NoLockCycle == Spec => []CounterHolderNeverWaits
<1>1. Init => IInv /\ LocksInv
  BY InitIInv, InitLocks
<1>2. IInv /\ LocksInv /\ [Next]_vars => IInv' /\ LocksInv'
  BY IInvNext, LocksNext
<1> QED
  BY <1>1, <1>2, LocksSuffice, PTL DEF Spec
==============================================================================
