------------------------ MODULE StagePipelineProofs ------------------------
(***************************************************************************)
(* Proofs about StagePipeline for any number of workers, retries, crashes  *)
(* and redeliveries.                                                       *)
(*                                                                         *)
(* OneBuyer is not inductive: it needs that whoever buys holds the lock.   *)
(* VoicePaidOnce needs in addition that the purchases counted so far are   *)
(* those the stored voice-over and the task that is buying stand for.      *)
(*                                                                         *)
(* NoSilentStall says nothing of who looks after a job at work.  StallInv  *)
(* does: a message, or a task that has not handed the job on and has a     *)
(* retry left (StageInv says which stages get to which point of a task).   *)
(*                                                                         *)
(* OnlyModeratedIsOffered needs that only one chain works on the job       *)
(* (AloneInv) and that this chain knows what it is about to offer          *)
(* (KnowInv, MsgInv, DataInv), as long as no message was duplicated; that  *)
(* is SafeInv.                                                             *)
(***************************************************************************)
EXTENDS StagePipeline, TLAPS

Buys(w, s) == Buying(w) /\ worker[w].stage = s

(* Whoever buys holds the advisory lock, for a paid stage; clips are the   *)
(* only thing that is ordered first and paid for when the order is saved.  *)
LockInv ==
    \A w \in Workers :
        Buying(w) => /\ lock = w
                     /\ worker[w].stage \in PaidStages
                     /\ worker[w].pc = "bought" => worker[w].stage = "visuals"

(* The purchases of a voice-over that count: the stored one, or the one a  *)
(* task has made and not stored yet.                                       *)
VoiceInv ==
    /\ \A w \in Workers :
          Buys(w, "voice") => /\ asset["voice"] = 0
                              /\ worker[w].ver # 0
                              /\ paid["voice"] = IF worker[w].pc = "paid" THEN 1 ELSE 0
    /\ asset["voice"] # 0 => paid["voice"] = 1
    /\ asset["voice"] = 0 /\ (\A w \in Workers : ~Buys(w, "voice")) => paid["voice"] = 0

(* What may still be lost was counted.                                     *)
CountInv ==
    /\ \A w \in Workers : worker[w].pc = "paid" /\ worker[w].stage = "script" => paid["script"] > 0
    /\ pending => paid["visuals"] > 0
    /\ \A w \in Workers : worker[w].pc = "bought" => paid["visuals"] > IF pending THEN 1 ELSE 0

IInv == TypeOK /\ LockInv /\ VoiceInv /\ CountInv

USE StagePipelineAssumption

LEMMA InitIInv == Init => IInv
<1> SUFFICES ASSUME Init PROVE IInv
  OBVIOUS
<1>1. IdleWorker \in Task /\ IdleWorker.pc = "idle"
  BY DEF IdleWorker, Task, PCs, Stages, PaidStages
<1>2. TypeOK
  <2>1. queue \in [Msgs -> Nat]
    <3> DEFINE first == [stage |-> "script", retries |-> 0]
    <3>1. \A m \in Msgs : (IF m = first THEN 1 ELSE 0) \in Nat
      OBVIOUS
    <3> HIDE DEF first
    <3>2. [m \in Msgs |-> IF m = first THEN 1 ELSE 0] \in [Msgs -> Nat]
      BY <3>1
    <3>3. QED
      BY <3>2 DEF Init, first
  <2>2. worker \in [Workers -> Task]
    BY <1>1 DEF Init
  <2>3. /\ asset \in [PaidStages \cup {"assembly"} -> Nat]
        /\ paid \in [PaidStages -> Nat]
    BY DEF Init
  <2>4. /\ status \in Statuses /\ curStage \in PaidStages \cup {"moderation", "assembly"}
        /\ pending \in BOOLEAN /\ lastLog \in Checks \cup {"none"}
    BY DEF Init, Statuses, PaidStages
  <2>5. /\ passed \subseteq Nat /\ lock \in Workers \cup {NoWorker}
        /\ duplicated \in BOOLEAN /\ killed \in BOOLEAN
    BY Zenon DEF Init
  <2>6. disturbed \in 0 .. MaxDisturbed
    BY DEF Init
  <2>7. QED
    BY <2>1, <2>2, <2>3, <2>4, <2>5, <2>6 DEF TypeOK
<1>3. \A w \in Workers : worker[w].pc = "idle"
  BY <1>1 DEF Init
<1>4. LockInv /\ VoiceInv /\ CountInv
  BY <1>3 DEF Init, LockInv, VoiceInv, CountInv, Buying, Buys, PaidStages
<1>5. QED
  BY <1>2, <1>4 DEF IInv

(* A task that goes on becomes a task.                                     *)
LEMMA BecomeType ==
    ASSUME TypeOK, NEW w \in Workers, NEW r \in Task, Become(w, r)
    PROVE  /\ worker' \in [Workers -> Task]
           /\ worker'[w] = r
           /\ \A v \in Workers \ {w} : worker'[v] = worker[v]
BY DEF TypeOK, Become

LEMMA GotoType ==
    ASSUME TypeOK, NEW w \in Workers, NEW pc \in PCs, Goto(w, pc)
    PROVE  /\ worker' \in [Workers -> Task]
           /\ worker'[w].pc = pc /\ worker'[w].stage = worker[w].stage
           /\ worker'[w].ver = worker[w].ver /\ worker'[w].seen = worker[w].seen
           /\ worker'[w].verdict = worker[w].verdict
           /\ worker'[w].retries = worker[w].retries
           /\ \A v \in Workers \ {w} : worker'[v] = worker[v]
<1>1. [worker[w] EXCEPT !.pc = pc] \in Task
  BY DEF TypeOK, Task
<1>2. QED
  BY <1>1, BecomeType DEF Goto, TypeOK, Task

LEMMA IdleType == IdleWorker \in Task /\ IdleWorker.pc = "idle"
BY DEF IdleWorker, Task, PCs, Stages, PaidStages

LEMMA SendType ==
    ASSUME TypeOK, NEW s, NEW r, Send(s, r)
    PROVE  queue' \in [Msgs -> Nat]
<1> DEFINE m == [stage |-> s, retries |-> r]
<1>1. queue' = [queue EXCEPT ![m] = @ + 1]
  BY DEF Send
<1> HIDE DEF m
<1>2. \A n \in Msgs : queue[n] \in Nat /\ queue[n] + 1 \in Nat
  BY DEF TypeOK
<1>3. QED
  BY <1>1, <1>2 DEF TypeOK

----------------------------------------------------------------------------
(* A step of a task that is not buying, before and after it, and a step of *)
(* a person leave the purchases alone.                                     *)
LEMMA Quiet ==
    ASSUME IInv, TypeOK', UNCHANGED <<lock, paid, pending>>, asset'["voice"] = asset["voice"],
           \A v \in Workers : \/ worker'[v] = worker[v]
                              \/ /\ ~Buying(v)
                                 /\ worker'[v].pc \notin {"paying", "bought", "paid"}
    PROVE  LockInv' /\ VoiceInv' /\ CountInv'
<1>1. \A v \in Workers : \/ worker'[v] = worker[v]
                         \/ ~Buying(v) /\ ~Buying(v)'
  BY DEF Buying
<1>2. LockInv'
  BY <1>1 DEF IInv, LockInv, Buying
<1>3. VoiceInv'
  BY <1>1 DEF IInv, VoiceInv, Buying, Buys
<1>4. CountInv'
  BY DEF IInv, CountInv, Buying
<1>5. QED
  BY <1>2, <1>3, <1>4

(* A task that stops, by itself or with its worker, gives the lock back    *)
(* and counts as lost what it bought and did not save.                     *)
LEMMA Stops ==
    ASSUME IInv, NEW w \in Workers, Forget(w), Unlock(w), UNCHANGED <<asset, pending>>,
           worker' \in [Workers -> Task],
           worker'[w].pc \notin {"paying", "bought", "paid"},
           \A v \in Workers \ {w} : worker'[v] = worker[v]
    PROVE  LockInv' /\ VoiceInv' /\ CountInv' /\ paid' \in [PaidStages -> Nat]
                    /\ lock' \in Workers \cup {NoWorker}
<1> USE DEF PaidStages
<1>1. \A v \in Workers : Buying(v)' => v # w /\ Buying(v) /\ worker'[v] = worker[v]
  BY DEF Buying
<1>2. LockInv'
  BY <1>1 DEF IInv, LockInv, Buying, Unlock
<1>3. ~Unsaved(w) => paid' = paid
  BY DEF Forget
<1>4. ASSUME Unsaved(w)
      PROVE  /\ paid' = [paid EXCEPT ![worker[w].stage] = @ - 1]
             /\ paid[worker[w].stage] > 0
             /\ worker[w].stage \in PaidStages
             /\ \A v \in Workers : ~Buying(v)'
  <2>1. Buying(w)
    BY <1>4 DEF Unsaved, Buying
  <2>2. \A v \in Workers : ~Buying(v)'
    BY <2>1, <1>1 DEF IInv, LockInv
  <2>3. worker[w].pc = "paid" => worker[w].stage \in {"script", "voice"}
    BY <1>4, <2>1 DEF Unsaved
  <2>4. worker[w].stage = "voice" => paid["voice"] = 1
    BY <1>4, <2>1 DEF Unsaved, IInv, VoiceInv, LockInv, Buys
  <2>5. paid[worker[w].stage] > 0
    BY <1>4, <2>1, <2>3, <2>4 DEF Unsaved, IInv, CountInv, LockInv, TypeOK
  <2>6. QED
    BY <1>4, <2>1, <2>2, <2>5 DEF Forget, IInv, LockInv
<1>5. paid' \in [PaidStages -> Nat]
  BY <1>3, <1>4 DEF IInv, TypeOK
<1>6. VoiceInv'
  <2>1. CASE Unsaved(w)
    <3>1. \A v \in Workers : ~Buys(v, "voice")'
      BY <1>4, <2>1 DEF Buys
    <3>2. CASE worker[w].stage = "voice"
      <4>1. asset["voice"] = 0 /\ paid["voice"] = 1
        BY <2>1, <3>2 DEF Unsaved, IInv, VoiceInv, LockInv, Buys, Buying
      <4>2. paid'["voice"] = 0
        BY <1>4, <2>1, <3>2, <4>1 DEF IInv, TypeOK
      <4>3. QED
        BY <3>1, <4>1, <4>2 DEF VoiceInv
    <3>3. CASE worker[w].stage # "voice"
      <4>1. paid'["voice"] = paid["voice"]
        BY <1>4, <2>1, <3>3 DEF IInv, TypeOK
      <4>2. \A v \in Workers : ~Buys(v, "voice")
        <5>1. Buying(w)
          BY <2>1 DEF Unsaved, Buying
        <5>2. QED
          BY <5>1, <3>3 DEF IInv, LockInv, Buys
      <4>3. QED
        BY <3>1, <4>1, <4>2 DEF IInv, VoiceInv
    <3>4. QED
      BY <3>2, <3>3
  <2>2. CASE ~Unsaved(w)
    <3>1. Buys(w, "voice") => paid["voice"] = 0 /\ asset["voice"] = 0
      BY <2>2 DEF IInv, VoiceInv, Unsaved, Buys
    <3>2. \A v \in Workers : Buys(v, "voice")' => Buys(v, "voice") /\ worker'[v] = worker[v]
      BY <1>1 DEF Buys
    <3>3. \A v \in Workers : v # w /\ Buys(v, "voice") => Buys(v, "voice")'
      BY DEF Buys, Buying
    <3>4. paid'["voice"] = paid["voice"]
      BY <1>3, <2>2
    <3>5. QED
      BY <3>1, <3>2, <3>3, <3>4 DEF IInv, VoiceInv
  <2>3. QED
    BY <2>1, <2>2
<1>7. CountInv'
  <2>1. CASE Unsaved(w)
    <3>1. \A v \in Workers : worker'[v].pc \notin {"bought", "paid"}
      BY <1>4, <2>1 DEF Buying
    <3>2. pending => paid'["visuals"] > 0
      <4>1. CASE worker[w].pc = "bought"
        BY <4>1, <1>4, <2>1 DEF IInv, CountInv, LockInv, Buying, TypeOK
      <4>2. CASE worker[w].pc # "bought"
        BY <4>2, <1>4, <2>1 DEF IInv, CountInv, Unsaved, TypeOK
      <4>3. QED
        BY <4>1, <4>2
    <3>3. QED
      BY <3>1, <3>2 DEF CountInv
  <2>2. CASE ~Unsaved(w)
    <3>1. paid' = paid
      BY <1>3, <2>2
    <3>2. \A v \in Workers : worker'[v].pc \in {"bought", "paid"} => worker'[v] = worker[v]
      OBVIOUS
    <3>3. QED
      BY <3>1, <3>2 DEF IInv, CountInv
  <2>3. QED
    BY <2>1, <2>2
<1>8. lock' \in Workers \cup {NoWorker}
  BY DEF IInv, TypeOK, Unlock
<1>9. QED
  BY <1>2, <1>5, <1>6, <1>7, <1>8

----------------------------------------------------------------------------
(* Type correctness of the steps.  Those that may lose a purchase are      *)
(* typed with the count they keep (Stops).                                 *)

LEMMA LoadStep ==
    ASSUME IInv, NEW w \in Workers, NEW m \in Msgs, Load(w, m)
    PROVE  IInv'
<1> USE DEF IInv
<1>1. queue' \in [Msgs -> Nat]
  BY DEF Load, TypeOK
<1>2. CASE status \in Terminal
  <2>1. TypeOK'
    BY <1>1, <1>2 DEF Load, TypeOK, jobVars, histVars
  <2>2. QED
    BY <2>1, <1>2, Quiet DEF Load, jobVars, histVars
<1>3. CASE status \notin Terminal
  <2> DEFINE r == [IdleWorker EXCEPT !.pc = "loaded", !.stage = m.stage, !.pend = pending,
                                     !.retries = m.retries, !.seen = asset["script"]]
  <2>1. r \in Task /\ r.pc = "loaded"
    <3>1. m.stage \in Stages /\ m.retries \in 0 .. MaxRetries /\ asset["script"] \in Nat
      BY DEF Msgs, TypeOK, PaidStages
    <3>2. QED
      BY <3>1 DEF IdleWorker, Task, PCs, TypeOK
  <2>2. Become(w, r)
    BY <1>3 DEF Load
  <2>3. /\ worker' \in [Workers -> Task] /\ worker'[w] = r
        /\ \A v \in Workers \ {w} : worker'[v] = worker[v]
    BY <2>1, <2>2, BecomeType
  <2>4. TypeOK'
    BY <1>1, <2>3 DEF Load, TypeOK, jobVars, histVars
  <2>5. ~Buying(w)
    BY DEF Load, Buying
  <2>6. QED
    BY <2>1, <2>3, <2>4, <2>5, Quiet DEF Load, jobVars, histVars
<1>4. QED
  BY <1>2, <1>3

(* Steps of a task that neither buys nor stores a paid checkpoint.         *)
LEMMA QuietStep ==
    ASSUME IInv, NEW w \in Workers,
           \/ Begin(w) \/ SkipPaid(w) \/ Assemble(w) \/ Judge(w) \/ Apply(w)
           \/ MarkReady(w) \/ Chain(w) \/ Ack(w) \/ Resend(w) \/ GiveUp(w)
    PROVE  IInv'
<1> USE DEF IInv
<1>w. /\ worker[w] \in Task
      /\ worker[w].pc \notin {"paying", "bought", "paid"} => ~Buying(w)
  BY DEF TypeOK, Buying
<1> DEFINE Next1 == \A v \in Workers : \/ worker'[v] = worker[v]
                                       \/ /\ ~Buying(v)
                                          /\ worker'[v].pc \notin {"paying", "bought", "paid"}
<1>1. ASSUME NEW pc \in PCs \ {"paying", "bought", "paid"}, Goto(w, pc),
             worker[w].pc \notin {"paying", "bought", "paid"}
      PROVE  worker' \in [Workers -> Task] /\ Next1
  BY <1>1, <1>w, GotoType
<1>2. ASSUME NEW r \in Task, r.pc \notin {"paying", "bought", "paid"}, Become(w, r),
             worker[w].pc \notin {"paying", "bought", "paid"}
      PROVE  worker' \in [Workers -> Task] /\ Next1
  BY <1>2, <1>w, BecomeType
<1>3. /\ worker' \in [Workers -> Task] /\ Next1
      /\ UNCHANGED <<lock, paid, pending>> /\ asset'["voice"] = asset["voice"]
      /\ queue' \in [Msgs -> Nat]
  <2>1. CASE Begin(w)
    BY <2>1, <1>1 DEF Begin, PCs, TypeOK
  <2>2. CASE SkipPaid(w)
    BY <2>2, <1>1 DEF SkipPaid, PCs, TypeOK, jobVars
  <2>3. CASE Assemble(w)
    BY <2>3, <1>1 DEF Assemble, PCs, TypeOK, PaidStages
  <2>4. CASE Judge(w)
    <3>1. PICK v \in {"pass", "flag"} :
             Become(w, [worker[w] EXCEPT !.pc = "judged", !.verdict = v])
      BY <2>4 DEF Judge
    <3>2. [worker[w] EXCEPT !.pc = "judged", !.verdict = v] \in Task
      BY <1>w DEF Task, PCs
    <3>3. [worker[w] EXCEPT !.pc = "judged", !.verdict = v].pc = "judged"
      BY <1>w DEF Task
    <3>4. worker' \in [Workers -> Task] /\ Next1
      BY <2>4, <3>1, <3>2, <3>3, <1>2 DEF Judge
    <3>5. QED
      BY <2>4, <3>4 DEF Judge, TypeOK
  <2>5. CASE Apply(w)
    <3>1. worker' \in [Workers -> Task] /\ Next1
      BY <2>5, <1>1, <1>2, IdleType DEF Apply, PCs
    <3>2. QED
      BY <2>5, <3>1 DEF Apply, TypeOK
  <2>6. CASE MarkReady(w)
    BY <2>6, <1>1 DEF MarkReady, PCs, TypeOK
  <2>7. CASE Chain(w)
    BY <2>7, <1>1, SendType DEF Chain, PCs, jobVars
  <2>8. CASE Ack(w)
    BY <2>8, <1>2, IdleType DEF Ack, TypeOK, jobVars
  <2>9. CASE Resend(w)
    BY <2>9, <1>1, SendType DEF Resend, PCs, jobVars
  <2>10. CASE GiveUp(w)
    BY <2>10, <1>2, IdleType DEF GiveUp, TypeOK, jobVars
  <2>11. QED
    BY <2>1, <2>2, <2>3, <2>4, <2>5, <2>6, <2>7, <2>8, <2>9, <2>10
<1>4. /\ status' \in Statuses
      /\ curStage' \in PaidStages \cup {"moderation", "assembly"}
      /\ asset' \in [PaidStages \cup {"assembly"} -> Nat]
      /\ passed' \subseteq Nat
      /\ lastLog' \in Checks \cup {"none"}
      /\ UNCHANGED histVars
  <2>1. CASE Begin(w)
    BY <2>1, <1>w DEF Begin, TypeOK, Statuses, Task, Stages, PaidStages, Checks
  <2>2. CASE Assemble(w)
    <3>1. asset["voice"] \in Nat
      BY DEF TypeOK, PaidStages
    <3>2. QED
      BY <2>2, <3>1 DEF Assemble, TypeOK
  <2>3. CASE Judge(w)
    <3>1. worker[w].seen \in Nat
      BY <1>w DEF Task
    <3>2. passed' \subseteq Nat
      BY <2>3, <3>1 DEF Judge, TypeOK
    <3>3. QED
      BY <2>3, <3>2 DEF Judge, TypeOK
  <2>4. CASE Apply(w)
    BY <2>4 DEF Apply, TypeOK, Statuses, Settled, Terminal
  <2>5. CASE MarkReady(w)
    BY <2>5 DEF MarkReady, TypeOK, Statuses
  <2>6. CASE SkipPaid(w) \/ Chain(w) \/ Ack(w) \/ Resend(w) \/ GiveUp(w)
    BY <2>6 DEF SkipPaid, Chain, Ack, Resend, GiveUp, TypeOK, jobVars
  <2>7. QED
    BY <2>1, <2>2, <2>3, <2>4, <2>5, <2>6
<1>5. TypeOK'
  BY <1>3, <1>4 DEF TypeOK, histVars
<1>6. QED
  BY <1>3, <1>5, Quiet

----------------------------------------------------------------------------
(* The steps of the task that buys.                                        *)

LEMMA EnterStep ==
    ASSUME IInv, NEW w \in Workers, Enter(w)
    PROVE  IInv'
<1> USE DEF IInv
<1> DEFINE r == [worker[w] EXCEPT !.ver = asset["script"],
                    !.pc = IF worker[w].stage = "visuals" /\ worker[w].pend
                           THEN "paid" ELSE "paying"]
<1>1. /\ worker[w] \in Task /\ worker[w].pc = "begun" /\ worker[w].stage \in PaidStages
      /\ lock = NoWorker /\ lock' = w /\ asset["script"] \in Nat
      /\ UNCHANGED <<jobVars, queue, paid, histVars>>
      /\ Become(w, r)
  BY DEF Enter, TypeOK, PaidStages
<1>2. /\ r \in Task
      /\ r.stage = worker[w].stage
      /\ r.ver = asset["script"]
      /\ r.pc \in {"paying", "paid"}
      /\ r.pc = "paid" => r.stage = "visuals"
  BY <1>1 DEF Task, PCs
<1>3. /\ worker' \in [Workers -> Task] /\ worker'[w] = r
      /\ \A v \in Workers \ {w} : worker'[v] = worker[v]
  BY <1>1, <1>2, BecomeType
<1>4. TypeOK'
  BY <1>1, <1>3 DEF TypeOK, jobVars, histVars
<1>5. \A v \in Workers : ~Buying(v)
  BY <1>1 DEF LockInv
<1>6. \A v \in Workers \ {w} : worker'[v].pc \notin {"paying", "bought", "paid"}
  BY <1>3, <1>5 DEF Buying
<1>7. LockInv'
  BY <1>1, <1>2, <1>3, <1>6 DEF LockInv, Buying
<1>8. VoiceInv'
  <2>1. UNCHANGED <<asset, paid>>
    BY <1>1 DEF jobVars
  <2>2. \A v \in Workers : ~Buys(v, "voice")
    BY <1>5 DEF Buys
  <2>3. r.stage = "voice" => asset["voice"] = 0 /\ r.ver # 0 /\ r.pc = "paying"
    BY <1>1, <1>2 DEF Enter, Checkpointed
  <2>4. \A v \in Workers : Buys(v, "voice")' => v = w /\ r.stage = "voice"
    BY <1>3, <1>6 DEF Buys, Buying
  <2>5. QED
    BY <1>3, <2>1, <2>2, <2>3, <2>4 DEF VoiceInv
<1>9. CountInv'
  BY <1>1, <1>2, <1>3, <1>6 DEF CountInv, jobVars
<1>10. QED
  BY <1>4, <1>7, <1>8, <1>9

LEMMA PayStep ==
    ASSUME IInv, NEW w \in Workers, Pay(w)
    PROVE  IInv'
<1> USE DEF IInv
<1> DEFINE s == worker[w].stage
           pc == IF s = "visuals" THEN "bought" ELSE "paid"
<1>1. /\ worker[w].pc = "paying" /\ Buying(w) /\ s \in PaidStages /\ lock = w
      /\ paid' = [paid EXCEPT ![s] = @ + 1]
      /\ Goto(w, pc) /\ UNCHANGED <<jobVars, queue, lock, histVars>>
  BY DEF Pay, LockInv, Buying
<1>2. /\ worker' \in [Workers -> Task] /\ worker'[w].pc = pc /\ worker'[w].stage = s
      /\ worker'[w].ver = worker[w].ver
      /\ \A v \in Workers \ {w} : worker'[v] = worker[v]
  BY <1>1, GotoType DEF PCs
<1>3. paid' \in [PaidStages -> Nat]
  BY <1>1 DEF TypeOK
<1>4. TypeOK'
  BY <1>1, <1>2, <1>3 DEF TypeOK, jobVars, histVars
<1>5. \A v \in Workers \ {w} : worker'[v].pc \notin {"paying", "bought", "paid"}
  BY <1>1, <1>2 DEF LockInv, Buying
<1>6. LockInv'
  BY <1>1, <1>2, <1>5 DEF LockInv, Buying
<1>7. VoiceInv'
  <2>1. CASE s = "voice"
    <3>1. asset["voice"] = 0 /\ worker[w].ver # 0 /\ paid["voice"] = 0
      BY <1>1, <2>1 DEF VoiceInv, Buys
    <3>2. paid'["voice"] = 1
      BY <1>1, <2>1, <3>1 DEF TypeOK
    <3>3. Buys(w, "voice")' /\ worker'[w].pc = "paid"
      BY <1>2, <2>1 DEF Buys, Buying
    <3>4. \A v \in Workers : Buys(v, "voice")' => v = w
      BY <1>5 DEF Buys, Buying
    <3>5. QED
      BY <1>1, <1>2, <3>1, <3>2, <3>3, <3>4 DEF VoiceInv, jobVars
  <2>2. CASE s # "voice"
    <3>1. paid'["voice"] = paid["voice"]
      BY <1>1, <2>2 DEF TypeOK, PaidStages
    <3>2. \A v \in Workers : ~Buys(v, "voice") /\ ~Buys(v, "voice")'
      BY <1>1, <1>2, <1>5, <2>2 DEF LockInv, Buys, Buying
    <3>3. QED
      BY <1>1, <3>1, <3>2 DEF VoiceInv, jobVars
  <2>3. QED
    BY <2>1, <2>2
<1>8. CountInv'
  <2>1. paid'[s] = paid[s] + 1 /\ paid[s] \in Nat /\ paid["visuals"] \in Nat
    BY <1>1 DEF TypeOK, PaidStages
  <2>2. pending => paid'["visuals"] > 0
    BY <1>1, <2>1 DEF CountInv, TypeOK, PaidStages
  <2>3. s = "visuals" => paid'["visuals"] > IF pending THEN 1 ELSE 0
    BY <2>1 DEF CountInv
  <2>4. s = "script" => paid'["script"] > 0
    BY <2>1
  <2>5. QED
    BY <1>1, <1>2, <1>5, <2>2, <2>3, <2>4 DEF CountInv, jobVars
<1>9. QED
  BY <1>4, <1>6, <1>7, <1>8

LEMMA SaveOrderStep ==
    ASSUME IInv, NEW w \in Workers, SaveOrder(w)
    PROVE  IInv'
<1> USE DEF IInv
<1>1. /\ worker[w].pc = "bought" /\ Buying(w) /\ worker[w].stage = "visuals" /\ lock = w
      /\ pending' = TRUE /\ Goto(w, "paid")
      /\ UNCHANGED <<status, curStage, asset, passed, lastLog, queue, lock, paid, histVars>>
  BY DEF SaveOrder, LockInv, Buying
<1>2. /\ worker' \in [Workers -> Task] /\ worker'[w].pc = "paid"
      /\ worker'[w].stage = "visuals"
      /\ \A v \in Workers \ {w} : worker'[v] = worker[v]
  BY <1>1, GotoType DEF PCs
<1>3. TypeOK'
  BY <1>1, <1>2 DEF TypeOK, histVars
<1>4. \A v \in Workers \ {w} : worker'[v].pc \notin {"paying", "bought", "paid"}
  BY <1>1, <1>2 DEF LockInv, Buying
<1>5. LockInv'
  BY <1>1, <1>2, <1>4 DEF LockInv, Buying, PaidStages
<1>6. \A v \in Workers : ~Buys(v, "voice") /\ ~Buys(v, "voice")'
  BY <1>1, <1>2, <1>4 DEF LockInv, Buys, Buying
<1>7. VoiceInv'
  BY <1>1, <1>6 DEF VoiceInv
<1>8. paid["visuals"] > 0
  BY <1>1 DEF CountInv, TypeOK, PaidStages
<1>9. CountInv'
  BY <1>1, <1>2, <1>4, <1>8 DEF CountInv
<1>10. QED
  BY <1>3, <1>5, <1>7, <1>9

LEMMA StoreStep ==
    ASSUME IInv, NEW w \in Workers, Store(w)
    PROVE  IInv'
<1> USE DEF IInv
<1> DEFINE s == worker[w].stage
<1>1. /\ worker[w] \in Task /\ worker[w].pc = "paid" /\ Buying(w)
      /\ s \in PaidStages /\ lock = w
      /\ asset' = [asset EXCEPT ![s] = IF s = "script" THEN @ + 1 ELSE worker[w].ver]
      /\ pending' = IF s = "visuals" THEN FALSE ELSE pending
      /\ Unlock(w) /\ Goto(w, "done")
      /\ UNCHANGED <<status, curStage, passed, lastLog, queue, paid, histVars>>
  BY DEF Store, LockInv, Buying, TypeOK
<1>2. /\ worker' \in [Workers -> Task] /\ worker'[w].pc = "done"
      /\ \A v \in Workers \ {w} : worker'[v] = worker[v]
  BY <1>1, GotoType DEF PCs
<1>3. asset' \in [PaidStages \cup {"assembly"} -> Nat]
  <2>1. worker[w].ver \in Nat /\ asset[s] \in Nat /\ asset[s] + 1 \in Nat
    BY <1>1 DEF TypeOK, Task
  <2>2. QED
    BY <1>1, <2>1 DEF TypeOK
<1>4. TypeOK'
  BY <1>1, <1>2, <1>3 DEF TypeOK, histVars, Unlock
<1>5. \A v \in Workers : worker'[v].pc \notin {"paying", "bought", "paid"}
  BY <1>1, <1>2 DEF LockInv, Buying
<1>6. LockInv'
  BY <1>5 DEF LockInv, Buying
<1>7. \A v \in Workers : ~Buys(v, "voice")'
  BY <1>5 DEF Buys, Buying
<1>8. VoiceInv'
  <2>1. CASE s = "voice"
    <3>1. worker[w].ver # 0 /\ paid["voice"] = 1
      BY <1>1, <2>1 DEF VoiceInv, Buys
    <3>2. asset'["voice"] = worker[w].ver
      BY <1>1, <2>1 DEF TypeOK
    <3>3. QED
      BY <1>1, <1>7, <3>1, <3>2 DEF VoiceInv
  <2>2. CASE s # "voice"
    <3>1. asset'["voice"] = asset["voice"]
      BY <1>1, <2>2 DEF TypeOK, PaidStages
    <3>2. \A v \in Workers : ~Buys(v, "voice")
      BY <1>1, <2>2 DEF LockInv, Buys, Buying
    <3>3. QED
      BY <1>1, <1>7, <3>1, <3>2 DEF VoiceInv
  <2>3. QED
    BY <2>1, <2>2
<1>9. CountInv'
  BY <1>1, <1>5 DEF CountInv
<1>10. QED
  BY <1>4, <1>6, <1>8, <1>9

----------------------------------------------------------------------------
(* A task that stops, a worker that dies                                   *)

LEMMA StopStep ==
    ASSUME IInv, NEW w \in Workers, Fail(w) \/ Retryable(w) \/ Die(w) \/ Kill(w)
    PROVE  IInv'
<1> USE DEF IInv
<1>1. CASE Fail(w) /\ Forget(w) /\ UNCHANGED pending
  <2>1. /\ worker' \in [Workers -> Task] /\ worker'[w].pc = "idle"
        /\ \A v \in Workers \ {w} : worker'[v] = worker[v]
    BY <1>1, IdleType, BecomeType DEF Fail
  <2>2. LockInv' /\ VoiceInv' /\ CountInv' /\ paid' \in [PaidStages -> Nat]
        /\ lock' \in Workers \cup {NoWorker}
    BY <1>1, <2>1, Stops DEF Fail
  <2>3. TypeOK'
    BY <1>1, <2>1, <2>2 DEF Fail, TypeOK, Statuses, Settled, Terminal, histVars
  <2>4. QED
    BY <2>2, <2>3
<1>2. CASE /\ Fail(w) /\ worker[w].stage = "visuals" /\ worker[w].pc = "paid"
           /\ pending' = FALSE
           /\ paid' = IF pending THEN [paid EXCEPT !["visuals"] = @ - 1] ELSE paid
  <2>1. /\ worker' \in [Workers -> Task] /\ worker'[w].pc = "idle"
        /\ \A v \in Workers \ {w} : worker'[v] = worker[v]
    BY <1>2, IdleType, BecomeType DEF Fail
  <2>2. lock = w /\ (\A v \in Workers : worker'[v].pc \notin {"paying", "bought", "paid"})
    BY <1>2, <2>1 DEF LockInv, Buying
  <2>3. /\ paid' \in [PaidStages -> Nat]
        /\ paid'["voice"] = paid["voice"]
    BY <1>2 DEF CountInv, TypeOK, PaidStages
  <2>4. TypeOK'
    BY <1>2, <2>1, <2>3 DEF Fail, TypeOK, Statuses, Settled, Terminal, histVars, Unlock
  <2>5. LockInv' /\ CountInv'
    BY <1>2, <2>2 DEF LockInv, CountInv, Buying
  <2>6. \A v \in Workers : ~Buys(v, "voice") /\ ~Buys(v, "voice")'
    BY <1>2, <2>2 DEF LockInv, Buys, Buying
  <2>7. VoiceInv'
    BY <1>2, <2>3, <2>6 DEF VoiceInv, Fail
  <2>8. QED
    BY <2>4, <2>5, <2>7
<1>3. CASE Retryable(w)
  <2>1. /\ worker' \in [Workers -> Task] /\ worker'[w].pc = "failing"
        /\ \A v \in Workers \ {w} : worker'[v] = worker[v]
    BY <1>3, GotoType DEF Retryable, PCs
  <2>2. LockInv' /\ VoiceInv' /\ CountInv' /\ paid' \in [PaidStages -> Nat]
        /\ lock' \in Workers \cup {NoWorker}
    BY <1>3, <2>1, Stops DEF Retryable
  <2>3. TypeOK'
    BY <1>3, <2>1, <2>2 DEF Retryable, TypeOK, Statuses, histVars
  <2>4. QED
    BY <2>2, <2>3
<1>4. CASE Die(w) \/ Kill(w)
  <2>1. /\ worker' \in [Workers -> Task] /\ worker'[w].pc = "idle"
        /\ \A v \in Workers \ {w} : worker'[v] = worker[v]
    BY <1>4, IdleType, BecomeType DEF Die, Kill
  <2>2. LockInv' /\ VoiceInv' /\ CountInv' /\ paid' \in [PaidStages -> Nat]
        /\ lock' \in Workers \cup {NoWorker}
    BY <1>4, <2>1, Stops DEF Die, Kill, jobVars
  <2>3. disturbed' \in 0 .. MaxDisturbed /\ queue' \in [Msgs -> Nat]
    BY <1>4, SendType DEF Die, Kill, Disturb, TypeOK
  <2>4. duplicated' \in BOOLEAN /\ killed' \in BOOLEAN
    BY <1>4 DEF Die, Kill, TypeOK
  <2>5. TypeOK'
    BY <1>4, <2>1, <2>2, <2>3, <2>4 DEF Die, Kill, TypeOK, jobVars
  <2>6. QED
    BY <2>2, <2>5
<1>5. QED
  BY <1>1, <1>2, <1>3, <1>4 DEF Fail

----------------------------------------------------------------------------
(* A redelivery and the steps of people leave the tasks as they are.       *)

LEMMA DisturbType ==
    ASSUME TypeOK, Disturb
    PROVE  disturbed' \in 0 .. MaxDisturbed
BY DEF TypeOK, Disturb

LEMMA OutsideStep ==
    ASSUME IInv,
           \/ \E w \in Workers : Redeliver(w)
           \/ Cancel \/ Answer \/ RequestChanges \/ Decide \/ AdminRetry
    PROVE  IInv'
<1> USE DEF IInv
<1>1. UNCHANGED <<curStage, asset, pending, lastLog, worker, lock, paid>>
  BY DEF Redeliver, Cancel, Answer, RequestChanges, Decide, AdminRetry, jobVars, histVars
<1>2. queue' \in [Msgs -> Nat]
  <2>1. ASSUME NEW s, NEW r, Send(s, r) PROVE queue' \in [Msgs -> Nat]
    BY <2>1, SendType
  <2>2. queue' \in [Msgs -> Nat] \/ UNCHANGED queue
    BY <2>1 DEF Redeliver, Cancel, Answer, RequestChanges, Decide, AdminRetry, HandOver
  <2>3. QED
    BY <2>2 DEF TypeOK
<1>3. status' \in Statuses
  BY DEF Redeliver, Cancel, Answer, RequestChanges, Decide, AdminRetry, TypeOK,
         Statuses, Settled, Terminal, jobVars
<1>4. passed' \subseteq Nat
  <2>1. asset["script"] \in Nat
    BY DEF TypeOK, PaidStages
  <2>2. QED
    BY <2>1 DEF Redeliver, Cancel, Answer, RequestChanges, Decide, AdminRetry, TypeOK, jobVars
<1>5. disturbed' \in 0 .. MaxDisturbed /\ duplicated' \in BOOLEAN /\ killed' \in BOOLEAN
  BY DisturbType DEF Redeliver, Cancel, Answer, RequestChanges, Decide, AdminRetry, HandOver,
                     TypeOK, histVars
<1>6. TypeOK'
  BY <1>1, <1>2, <1>3, <1>4, <1>5 DEF TypeOK
<1>7. QED
  BY <1>1, <1>6, Quiet

LEMMA IInvStep == IInv /\ [Next]_vars => IInv'
<1> SUFFICES ASSUME IInv, [Next]_vars PROVE IInv'
  OBVIOUS
<1>1. ASSUME NEW w \in Workers, NEW m \in Msgs, Load(w, m) PROVE IInv'
  BY <1>1, LoadStep
<1>2. ASSUME NEW w \in Workers, TaskStep(w) PROVE IInv'
  BY <1>2, QuietStep, EnterStep, PayStep, SaveOrderStep, StoreStep, StopStep DEF TaskStep
<1>3. ASSUME NEW w \in Workers, Die(w) \/ Kill(w) PROVE IInv'
  BY <1>3, StopStep
<1>4. ASSUME \/ \E w \in Workers : Redeliver(w)
             \/ Cancel \/ Answer \/ RequestChanges \/ Decide \/ AdminRetry
      PROVE  IInv'
  BY <1>4, OutsideStep
<1>5. CASE UNCHANGED vars
  <2>1. TypeOK'
    BY <1>5 DEF IInv, TypeOK, vars, jobVars, histVars
  <2>2. QED
    BY <1>5, <2>1, Quiet DEF IInv, vars, jobVars
<1>6. QED
  BY <1>1, <1>2, <1>3, <1>4, <1>5 DEF Next

LEMMA IInvAlways == Spec => []IInv
BY InitIInv, IInvStep, PTL DEF Spec

----------------------------------------------------------------------------
(* Every column, message and task of the pipeline keeps its shape.         *)
THEOREM TypeCorrect == Spec => []TypeOK
<1>1. IInv => TypeOK
  BY DEF IInv
<1>2. QED
  BY <1>1, IInvAlways, PTL

(* serialized_paid_stage: whatever messages are delivered twice and        *)
(* whichever workers crash, at most one task of the job is buying.         *)
THEOREM OneBuyerAlways == Spec => []OneBuyer
<1>1. IInv => OneBuyer
  BY DEF IInv, LockInv, OneBuyer
<1>2. QED
  BY <1>1, IInvAlways, PTL

(* generate_voice_for_job pays for the voice-over of a job at most once,   *)
(* apart from what a dead worker takes with it.                            *)
THEOREM VoiceIsPaidOnce == Spec => []VoicePaidOnce
<1>1. IInv => VoicePaidOnce
  <2> SUFFICES ASSUME IInv PROVE paid["voice"] <= 1
    BY DEF VoicePaidOnce
  <2>1. CASE asset["voice"] # 0
    BY <2>1 DEF IInv, VoiceInv
  <2>2. CASE asset["voice"] = 0 /\ \E w \in Workers : Buys(w, "voice")
    BY <2>2 DEF IInv, VoiceInv
  <2>3. CASE asset["voice"] = 0 /\ \A w \in Workers : ~Buys(w, "voice")
    BY <2>3 DEF IInv, VoiceInv
  <2>4. QED
    BY <2>1, <2>2, <2>3
<1>2. QED
  BY <1>1, IInvAlways, PTL

----------------------------------------------------------------------------
(* NoSilentStall.  A job is looked after by a message, or by a task that   *)
(* has not handed it on and will still try again; a task whose retries are *)
(* spent, and one that has sent its message, no longer count.              *)
Live(w) == worker[w].pc \notin {"idle", "sent"}
Spent(w) == worker[w].pc = "failing" /\ worker[w].retries = MaxRetries

StallInv ==
    \/ killed
    \/ \E m \in Msgs : queue[m] > 0
    \/ \E w \in Workers : Live(w) /\ ~Spent(w)
    \/ status \in Settled \cup {"retrying"}

(* Which stages reach which point of a task.                               *)
StageInv ==
    \A w \in Workers :
        /\ worker[w].pc = "done" => worker[w].stage \notin Checks
        /\ worker[w].pc = "judged" => worker[w].stage \in Checks /\ worker[w].verdict # "none"
        /\ worker[w].pc = "ready" => worker[w].stage # "finalcheck"

LEMMA SendIs ==
    ASSUME TypeOK, NEW s \in Stages, NEW r \in 0 .. MaxRetries, Send(s, r)
    PROVE  \E m \in Msgs : /\ m.stage = s
                           /\ queue'[m] = queue[m] + 1
                           /\ \A n \in Msgs \ {m} : queue'[n] = queue[n]
<1> DEFINE m == [stage |-> s, retries |-> r]
<1>1. m \in Msgs /\ m.stage = s
  BY DEF Msgs
<1>2. queue' = [queue EXCEPT ![m] = @ + 1]
  BY DEF Send
<1> HIDE DEF m
<1>3. QED
  BY <1>1, <1>2 DEF TypeOK

LEMMA SentIsThere ==
    ASSUME TypeOK, NEW s \in Stages, NEW r \in 0 .. MaxRetries, Send(s, r)
    PROVE  \E m \in Msgs : queue'[m] > 0
<1>1. \A m \in Msgs : queue[m] \in Nat
  BY DEF TypeOK
<1>2. QED
  BY <1>1, SendIs

(* Every step leaves the tasks of the other workers alone.                 *)
LEMMA OthersKeep ==
    ASSUME TypeOK, NEW w \in Workers,
           \/ TaskStep(w) \/ Die(w) \/ Kill(w) \/ Redeliver(w)
           \/ \E m \in Msgs : Load(w, m)
    PROVE  \A v \in Workers \ {w} : worker'[v] = worker[v]
<1>1. (\E r : Become(w, r)) \/ UNCHANGED worker
  BY DEF TaskStep, Begin, SkipPaid, Enter, Pay, SaveOrder, Store, Assemble, Judge, Apply,
         MarkReady, Chain, Ack, Fail, Retryable, Resend, GiveUp, Die, Kill, Redeliver, Load, Goto
<1>2. QED
  BY <1>1 DEF Become, TypeOK

LEMMA StageStep ==
    ASSUME IInv, StageInv, [Next]_vars
    PROVE  StageInv'
<1> USE DEF IInv
<1> DEFINE Good(t) == /\ t.pc = "done" => t.stage \notin Checks
                      /\ t.pc = "judged" => t.stage \in Checks /\ t.verdict # "none"
                      /\ t.pc = "ready" => t.stage # "finalcheck"
<1>g. \A w \in Workers : Good(worker[w])
  BY DEF StageInv
<1>1. ASSUME NEW w \in Workers,
             \/ TaskStep(w) \/ Die(w) \/ Kill(w) \/ Redeliver(w)
             \/ \E m \in Msgs : Load(w, m)
      PROVE  Good(worker'[w])
  <2>1. ASSUME NEW pc \in PCs, Goto(w, pc), Good([worker[w] EXCEPT !.pc = pc])
        PROVE  Good(worker'[w])
    BY <2>1 DEF Goto, Become, TypeOK, Task
  <2>2. ASSUME NEW r, Become(w, r), Good(r) PROVE Good(worker'[w])
    BY <2>2 DEF Become, TypeOK
  <2>3. worker[w] \in Task
    BY DEF TypeOK
  <2> HIDE DEF IInv
  <2>4. ASSUME NEW pc \in PCs \ {"done", "judged", "ready"}, Goto(w, pc)
        PROVE  Good(worker'[w])
    BY <2>1, <2>3, <2>4 DEF Task
  <2>5. CASE \/ Begin(w) \/ Pay(w) \/ SaveOrder(w) \/ Chain(w) \/ Retryable(w) \/ Resend(w)
    BY <2>4, <2>5 DEF Begin, Pay, SaveOrder, Chain, Retryable, Resend, PCs
  <2>6. CASE Ack(w) \/ Fail(w) \/ GiveUp(w) \/ Die(w) \/ Kill(w)
    BY <2>2, <2>6, IdleType DEF Ack, Fail, GiveUp, Die, Kill
  <2>7. CASE SkipPaid(w) \/ Store(w) \/ Assemble(w)
    <3>1. worker[w].stage \notin Checks
      BY <2>7 DEF SkipPaid, Store, Assemble, IInv, LockInv, Buying, PaidStages, Checks
    <3>2. Good([worker[w] EXCEPT !.pc = "done"])
      BY <2>3, <3>1 DEF Task
    <3>3. Goto(w, "done")
      BY <2>7 DEF SkipPaid, Store, Assemble
    <3>4. QED
      BY <2>1, <3>2, <3>3 DEF PCs
  <2>8. CASE MarkReady(w)
    <3>1. Good([worker[w] EXCEPT !.pc = "ready"])
      BY <2>3, <2>8, <1>g DEF MarkReady, Task, Checks
    <3>2. QED
      BY <2>1, <2>8, <3>1 DEF MarkReady, PCs
  <2>9. CASE Apply(w)
    <3>1. CASE Become(w, IdleWorker)
      BY <2>2, <3>1, IdleType
    <3>2. CASE Goto(w, "ready") /\ worker[w].stage = "scriptcheck"
      <4>1. Good([worker[w] EXCEPT !.pc = "ready"])
        BY <2>3, <3>2 DEF Task
      <4>2. QED
        BY <2>1, <3>2, <4>1 DEF PCs
    <3>3. QED
      BY <2>9, <3>1, <3>2 DEF Apply
  <2>10. CASE Judge(w)
    <3>1. PICK v \in {"pass", "flag"} :
             Become(w, [worker[w] EXCEPT !.pc = "judged", !.verdict = v])
      BY <2>10 DEF Judge
    <3>2. Good([worker[w] EXCEPT !.pc = "judged", !.verdict = v])
      BY <2>3, <2>10 DEF Judge, Task
    <3>3. QED
      BY <2>2, <3>1, <3>2
  <2>11. CASE Enter(w)
    <3>1. PICK pc \in {"paid", "paying"} :
             Become(w, [worker[w] EXCEPT !.ver = asset["script"], !.pc = pc])
      BY <2>11 DEF Enter
    <3>2. Good([worker[w] EXCEPT !.ver = asset["script"], !.pc = pc])
      BY <2>3 DEF Task
    <3>3. QED
      BY <2>2, <3>1, <3>2
  <2>12. CASE Redeliver(w)
    BY <2>12, <1>g DEF Redeliver
  <2>13. CASE \E m \in Msgs : Load(w, m)
    <3>1. PICK m \in Msgs : Load(w, m)
      BY <2>13
    <3>2. CASE UNCHANGED worker
      BY <3>2, <1>g
    <3>3. CASE Become(w, [IdleWorker EXCEPT !.pc = "loaded", !.stage = m.stage,
                             !.pend = pending, !.retries = m.retries, !.seen = asset["script"]])
      BY <2>2, <3>3 DEF IdleWorker
    <3>4. QED
      BY <3>1, <3>2, <3>3 DEF Load
  <2>14. QED
    BY <1>1, <2>5, <2>6, <2>7, <2>8, <2>9, <2>10, <2>11, <2>12, <2>13 DEF TaskStep
<1>2. CASE UNCHANGED worker
  BY <1>2, <1>g DEF StageInv
<1>3. ASSUME NEW w \in Workers,
             \/ TaskStep(w) \/ Die(w) \/ Kill(w) \/ Redeliver(w)
             \/ \E m \in Msgs : Load(w, m)
      PROVE  StageInv'
  BY <1>g, <1>1, <1>3, OthersKeep DEF StageInv
<1>4. Cancel \/ Answer \/ RequestChanges \/ Decide \/ AdminRetry \/ UNCHANGED vars
         => UNCHANGED worker
  BY DEF Cancel, Answer, RequestChanges, Decide, AdminRetry, vars
<1>5. QED
  BY <1>2, <1>3, <1>4 DEF Next

LEMMA StallStep ==
    ASSUME IInv, StageInv, StallInv, [Next]_vars
    PROVE  StallInv'
<1> USE DEF IInv, Settled, Terminal
<1>t. \A w \in Workers : worker[w].stage \in Stages /\ worker[w].retries \in 0 .. MaxRetries
  BY DEF TypeOK, Task
<1>1. ASSUME NEW w \in Workers, NEW m \in Msgs, Load(w, m) PROVE StallInv'
  <2>1. CASE status \in Terminal
    BY <1>1, <2>1 DEF Load, StallInv, jobVars
  <2>2. CASE status \notin Terminal
    <3>1. worker' = [worker EXCEPT ![w] = [IdleWorker EXCEPT !.pc = "loaded", !.stage = m.stage,
                        !.pend = pending, !.retries = m.retries, !.seen = asset["script"]]]
      BY <1>1, <2>2 DEF Load, Become
    <3>2. worker'[w].pc = "loaded"
      BY <3>1 DEF TypeOK, IdleWorker
    <3>3. QED
      BY <3>2 DEF StallInv, Live, Spent
  <2>3. QED
    BY <2>1, <2>2
<1>2. ASSUME NEW w \in Workers, NEW pc \in PCs \ {"idle", "sent", "failing"}, Goto(w, pc)
      PROVE  StallInv'
  BY <1>2, GotoType DEF StallInv, Live, Spent
<1>3. ASSUME NEW w \in Workers,
             \/ Begin(w) \/ SkipPaid(w) \/ Pay(w) \/ SaveOrder(w) \/ Store(w)
             \/ Assemble(w) \/ MarkReady(w)
      PROVE  StallInv'
  BY <1>2, <1>3 DEF Begin, SkipPaid, Pay, SaveOrder, Store, Assemble, MarkReady, PCs
<1>4. ASSUME NEW w \in Workers, Enter(w) PROVE StallInv'
  <2>1. worker' = [worker EXCEPT ![w] = [worker[w] EXCEPT !.ver = asset["script"],
                      !.pc = IF worker[w].stage = "visuals" /\ worker[w].pend
                             THEN "paid" ELSE "paying"]]
    BY <1>4 DEF Enter, Become
  <2>2. worker'[w].pc \in {"paid", "paying"}
    BY <2>1 DEF TypeOK, Task
  <2>3. QED
    BY <2>2 DEF StallInv, Live, Spent
<1>5. ASSUME NEW w \in Workers, Judge(w) PROVE StallInv'
  <2>1. \E v \in {"pass", "flag"} :
          worker' = [worker EXCEPT ![w] = [worker[w] EXCEPT !.pc = "judged", !.verdict = v]]
    BY <1>5 DEF Judge, Become
  <2>2. worker'[w].pc = "judged"
    BY <2>1 DEF TypeOK, Task
  <2>3. QED
    BY <2>2 DEF StallInv, Live, Spent
<1>6. ASSUME NEW w \in Workers, Apply(w) PROVE StallInv'
  <2>1. CASE Goto(w, "ready")
    BY <1>2, <2>1 DEF PCs
  <2>2. CASE ~(worker[w].verdict = "pass" /\ worker[w].stage = "scriptcheck")
    <3>1. status' \in {"review", "rejected", "awaiting_approval", "upload_queued"}
      BY <1>6, <2>2 DEF Apply, TypeOK, Task, StageInv, Checks
    <3>2. QED
      BY <3>1 DEF StallInv
  <2>3. QED
    BY <1>6, <2>1, <2>2 DEF Apply
<1>7. ASSUME NEW w \in Workers, Chain(w) PROVE StallInv'
  <2>1. UNCHANGED <<status, killed>> /\ Send(NextStage[worker[w].stage], 0) /\ Goto(w, "sent")
    BY <1>7 DEF Chain, jobVars, histVars
  <2>2. CASE worker[w].stage # "finalcheck"
    <3>1. NextStage[worker[w].stage] \in Stages
      BY <1>t, <2>2 DEF NextStage, Stages, PaidStages, Checks
    <3>2. QED
      BY <2>1, <3>1, SentIsThere DEF StallInv
  <2>3. CASE worker[w].stage = "finalcheck"
    BY <1>7, <2>3 DEF Chain, StageInv
  <2>4. QED
    BY <2>2, <2>3
<1>8. ASSUME NEW w \in Workers, NEW r \in 0 .. MaxRetries, Send(worker[w].stage, r)
      PROVE  StallInv'
  BY <1>t, <1>8, SentIsThere DEF StallInv
<1>9. ASSUME NEW w \in Workers, Resend(w) \/ Die(w) \/ Redeliver(w) PROVE StallInv'
  <2>1. worker[w].retries < MaxRetries => worker[w].retries + 1 \in 0 .. MaxRetries
    BY <1>t
  <2>2. QED
    BY <1>t, <1>8, <1>9, <2>1 DEF Resend, Die, Redeliver
<1>10. ASSUME NEW w \in Workers, Ack(w) \/ GiveUp(w) PROVE StallInv'
  <2>1. ~Live(w) \/ Spent(w)
    BY <1>10 DEF Ack, GiveUp, Live, Spent
  <2>2. \A v \in Workers \ {w} : worker'[v] = worker[v]
    BY <1>10, OthersKeep DEF TaskStep
  <2>3. UNCHANGED <<status, queue, killed>>
    BY <1>10 DEF Ack, GiveUp, jobVars, histVars
  <2>4. QED
    BY <2>1, <2>2, <2>3 DEF StallInv, Live, Spent
<1>11. ASSUME NEW w \in Workers, Fail(w) \/ Retryable(w) \/ Kill(w) PROVE StallInv'
  BY <1>11 DEF Fail, Retryable, Kill, StallInv
<1>12. ASSUME Cancel \/ Answer PROVE StallInv'
  BY <1>12 DEF Cancel, Answer, StallInv
<1>13. ASSUME NEW s \in Stages, Send(s, 0) \/ killed' = TRUE PROVE StallInv'
  BY <1>13, SentIsThere DEF StallInv
<1>14. ASSUME RequestChanges \/ AdminRetry PROVE StallInv'
  <2> DEFINE to == IF curStage = "moderation" THEN "script" ELSE curStage
  <2>1. to \in Stages
    BY DEF TypeOK, Stages, PaidStages
  <2>2. CASE HandOver(to)
    <3> HIDE DEF to
    <3>1. QED
      BY <1>13, <2>1, <2>2 DEF HandOver
  <2>3. CASE \E s \in PaidStages : HandOver(s)
    BY <1>13, <2>3 DEF HandOver, Stages
  <2>4. QED
    BY <1>14, <2>2, <2>3 DEF RequestChanges, AdminRetry
<1>15. ASSUME Decide PROVE StallInv'
  <2>1. status' \in Settled \/ Send("voice", 0) \/ killed' = TRUE
    BY <1>15 DEF Decide
  <2>2. QED
    BY <1>13, <2>1 DEF StallInv, Stages, PaidStages
<1>16. CASE UNCHANGED vars
  BY <1>16 DEF StallInv, Live, Spent, vars, jobVars, histVars
<1>17. QED
  BY <1>1, <1>3, <1>4, <1>5, <1>6, <1>7, <1>9, <1>10, <1>11, <1>12, <1>14, <1>15, <1>16
     DEF Next, TaskStep

LEMMA StallAlways == Spec => [](IInv /\ StageInv /\ StallInv)
<1>1. Init => StageInv /\ StallInv
  <2> SUFFICES ASSUME Init PROVE StageInv /\ StallInv
    OBVIOUS
  <2>1. StageInv
    BY IdleType DEF Init, StageInv
  <2> DEFINE m == [stage |-> "script", retries |-> 0]
  <2>2. m \in Msgs
    BY DEF Msgs, Stages, PaidStages
  <2>3. queue = [n \in Msgs |-> IF n = m THEN 1 ELSE 0]
    BY DEF Init
  <2> HIDE DEF m
  <2>4. queue[m] > 0
    BY <2>2, <2>3
  <2>5. QED
    BY <2>1, <2>2, <2>4 DEF StallInv
<1>2. QED
  BY <1>1, InitIInv, IInvStep, StageStep, StallStep, PTL DEF Spec

(* A job that nobody works on and no message is about has ended or waits   *)
(* for a person, unless its retries are spent or its message died with a   *)
(* killed process (acks_late, _retry_or_fail, the hand-over of a decision).*)
THEOREM NobodyStallsSilently == Spec => []NoSilentStall
<1>1. IInv /\ StallInv => NoSilentStall
  <2> SUFFICES ASSUME IInv, StallInv, Resting PROVE status \in Settled \cup {"retrying"} \/ killed
    BY DEF NoSilentStall
  <2>1. ~ \E m \in Msgs : queue[m] > 0
    BY DEF Resting
  <2>2. ~ \E w \in Workers : Live(w)
    BY DEF Resting, Live
  <2>3. QED
    BY <2>1, <2>2 DEF StallInv
<1>2. QED
  BY <1>1, StallAlways, PTL

----------------------------------------------------------------------------
(* OnlyModeratedIsOffered.  As long as no message comes back after its     *)
(* task did its work, the job has at most one message or one task that     *)
(* has not handed it on, and none at all while it waits for somebody.      *)
Nobody == (\A m \in Msgs : queue[m] = 0) /\ (\A w \in Workers : ~Live(w))

Offers == {"awaiting_approval", "upload_queued", "approved"}
Halted == Offers \cup {"review", "failed"}

AloneInv ==
    /\ \A m \in Msgs : queue[m] <= 1
    /\ \A m, n \in Msgs : queue[m] > 0 /\ queue[n] > 0 => m = n
    /\ \A w \in Workers : Live(w) => \A m \in Msgs : queue[m] = 0
    /\ \A v, w \in Workers : Live(v) /\ Live(w) => v = w
    /\ status \in Halted => Nobody

(* The stages behind the script gate work on a script that passed it; the  *)
(* voice-over and the video are made from the script the job has.          *)
Late == {"voice", "visuals", "assembly", "finalcheck"}
Moderated == asset["script"] # 0 /\ asset["script"] \in passed

DataInv ==
    /\ \A k \in {"voice", "assembly"} : asset[k] # 0 => asset[k] = asset["script"]
    /\ curStage \in Late => Moderated
    /\ lastLog = "scriptcheck" => asset["script"] # 0
    /\ lastLog = "finalcheck" => Moderated /\ asset["assembly"] # 0
    /\ status \in Offers => Moderated /\ asset["assembly"] # 0

MsgInv == \A m \in Msgs : queue[m] > 0 /\ m.stage \in Late => Moderated

Buyers == {"paying", "bought", "paid"}

Knows(t) ==
    /\ t.pc \notin {"idle", "sent"} /\ t.stage \in Late => Moderated
    /\ t.pc \in {"loaded", "begun"} => t.seen = asset["script"]
    /\ t.pc \in Buyers => t.ver = asset["script"]
    /\ t.pc \in Buyers /\ t.stage = "script" => asset["script"] = 0
    /\ t.pc = "judged" /\ t.stage = "finalcheck" => asset["assembly"] # 0
    /\ t.pc = "judged" /\ t.stage = "scriptcheck" =>
           asset["script"] # 0 /\ (t.verdict = "pass" => Moderated)
    /\ t.pc = "ready" /\ t.stage = "scriptcheck" => Moderated

KnowInv == \A w \in Workers : Knows(worker[w])

ModInv == AloneInv /\ DataInv /\ MsgInv /\ KnowInv

SafeInv == IInv /\ StageInv /\ (duplicated \/ ModInv)

(* Who works on the job: the task of one worker goes on.                   *)
LEMMA AloneWorks ==
    ASSUME AloneInv, NEW w \in Workers, Live(w), UNCHANGED queue,
           \A v \in Workers \ {w} : worker'[v] = worker[v],
           status' \in Halted => ~Live(w)'
    PROVE  AloneInv' /\ \A v \in Workers \ {w} : ~Live(v)'
<1>1. (\A m \in Msgs : queue'[m] = 0) /\ \A v \in Workers \ {w} : ~Live(v)'
  BY DEF AloneInv, Live
<1>2. QED
  BY <1>1 DEF AloneInv, Nobody

(* It stops and its message takes its place.                               *)
LEMMA AloneSends ==
    ASSUME TypeOK, AloneInv, NEW w \in Workers, Live(w), UNCHANGED status,
           NEW s \in Stages, NEW r \in 0 .. MaxRetries, Send(s, r),
           \A v \in Workers \ {w} : worker'[v] = worker[v], ~Live(w)'
    PROVE  /\ AloneInv'
           /\ \A v \in Workers : ~Live(v)'
           /\ \A m \in Msgs : queue'[m] > 0 => m.stage = s
<1>1. PICK m \in Msgs : /\ m.stage = s
                        /\ queue'[m] = queue[m] + 1
                        /\ \A n \in Msgs \ {m} : queue'[n] = queue[n]
  BY SendIs
<1>2. (\A n \in Msgs : queue[n] = 0) /\ \A v \in Workers : ~Live(v)'
  BY DEF AloneInv, Live
<1>3. status \notin Halted
  BY DEF AloneInv, Nobody
<1>4. QED
  BY <1>1, <1>2, <1>3 DEF AloneInv

(* Somebody sends a message about a job nobody works on.                   *)
LEMMA AloneAnswers ==
    ASSUME TypeOK, AloneInv, Nobody, status' \notin Halted, UNCHANGED worker,
           NEW s \in Stages, Send(s, 0)
    PROVE  AloneInv' /\ \A m \in Msgs : queue'[m] > 0 => m.stage = s
<1>1. 0 \in 0 .. MaxRetries
  OBVIOUS
<1>2. PICK m \in Msgs : /\ m.stage = s
                        /\ queue'[m] = queue[m] + 1
                        /\ \A n \in Msgs \ {m} : queue'[n] = queue[n]
  BY <1>1, SendIs
<1>3. (\A n \in Msgs : queue[n] = 0) /\ \A v \in Workers : ~Live(v)'
  BY DEF Nobody, Live
<1>4. QED
  BY <1>2, <1>3 DEF AloneInv

(* Fewer tasks work on it and no more messages are about it.               *)
LEMMA AloneLeaves ==
    ASSUME AloneInv, UNCHANGED queue, \A v \in Workers : Live(v)' => Live(v),
           status' \in Halted => Nobody
    PROVE  AloneInv'
BY DEF AloneInv, Nobody

(* What is known of the job stays true when only the worker w moves.       *)
LEMMA OnlyKnows ==
    ASSUME NEW w \in Workers, \A v \in Workers \ {w} : ~Live(v)', Knows(worker[w])'
    PROVE  KnowInv'
BY DEF KnowInv, Knows, Live, Buyers

LEMMA NobodyKnows ==
    ASSUME \A v \in Workers : ~Live(v)'
    PROVE  KnowInv'
BY DEF KnowInv, Knows, Live, Buyers

LEMMA ModWorks ==
    ASSUME ModInv, NEW w \in Workers, Live(w), UNCHANGED queue, TypeOK,
           \A v \in Workers \ {w} : worker'[v] = worker[v],
           status' \in Halted => ~Live(w)',
           DataInv', Knows(worker[w])'
    PROVE  ModInv'
<1>1. AloneInv' /\ \A v \in Workers \ {w} : ~Live(v)'
  <2>1. AloneInv /\ \A v \in Workers \ {w} : ~Live(v)
    BY DEF ModInv, AloneInv
  <2>2. AloneInv'
    BY <2>1, AloneWorks
  <2>3. QED
    BY <2>1, <2>2 DEF Live
<1>2. \A m \in Msgs : queue'[m] = 0
  BY DEF ModInv, AloneInv
<1>3. MsgInv'
  BY <1>2 DEF MsgInv
<1>4. KnowInv'
  BY <1>1, OnlyKnows
<1>5. QED
  BY <1>1, <1>3, <1>4 DEF ModInv

(* While a task works on the job, the job is not offered.                  *)
LEMMA WorksFacts ==
    ASSUME IInv, ModInv, NEW w \in Workers, Live(w)
    PROVE  /\ status \notin Halted
           /\ worker[w] \in Task /\ Knows(worker[w])
           /\ asset \in [PaidStages \cup {"assembly"} -> Nat]
           /\ worker[w].stage \in Late => Moderated
BY DEF ModInv, AloneInv, Nobody, KnowInv, Knows, Live, IInv, TypeOK

(* Steps that store nothing and send nothing.                              *)
LEMMA ModGoesOn ==
    ASSUME IInv, StageInv, ModInv, NEW w \in Workers,
           Begin(w) \/ SkipPaid(w) \/ Enter(w) \/ Pay(w) \/ SaveOrder(w) \/ MarkReady(w)
    PROVE  ModInv'
<1>1. /\ Live(w) /\ TypeOK
      /\ UNCHANGED <<queue, asset, passed, lastLog>>
      /\ status' = status \/ status' = "working"
      /\ curStage' = curStage \/ curStage' = "moderation" \/ curStage' = worker[w].stage
  BY DEF Begin, SkipPaid, Enter, Pay, SaveOrder, MarkReady, jobVars, Live, IInv
<1>2. \A v \in Workers \ {w} : worker'[v] = worker[v]
  BY <1>1, OthersKeep DEF TaskStep
<1>3. status' \notin Halted
  BY <1>1, WorksFacts DEF Halted, Offers
<1>4. DataInv'
  <2>1. Moderated' <=> Moderated
    BY <1>1 DEF Moderated
  <2>2. QED
    BY <1>1, <1>3, <2>1, WorksFacts DEF ModInv, DataInv, Halted, Late
<1>5. Knows(worker[w])'
  <2>1. Moderated' <=> Moderated
    BY <1>1 DEF Moderated
  <2>2. worker[w] \in Task /\ Knows(worker[w])
    BY <1>1, WorksFacts
  <2>3. CASE Enter(w)
    <3>1. PICK pc \in {"paid", "paying"} :
             Become(w, [worker[w] EXCEPT !.ver = asset["script"], !.pc = pc])
      BY <2>3 DEF Enter
    <3>2. /\ worker'[w].pc \in {"paid", "paying"}
          /\ worker'[w].ver = asset["script"] /\ worker'[w].stage = worker[w].stage
      BY <1>1, <2>2, <3>1 DEF Become, TypeOK, Task
    <3>3. worker[w].stage = "script" => asset["script"] = 0
      BY <2>2, <2>3 DEF Enter, Checkpointed, Knows
    <3>4. worker[w].stage \in Late => Moderated
      BY <1>1, WorksFacts
    <3>5. QED
      BY <1>1, <2>1, <3>2, <3>3, <3>4 DEF Knows, Buyers
  <2>4. ASSUME NEW pc \in PCs \ {"idle", "sent", "judged"}, Goto(w, pc),
               pc \in {"loaded", "begun"} => worker[w].pc \in {"loaded", "begun"},
               pc \in Buyers => worker[w].pc \in Buyers,
               pc = "ready" => worker[w].stage # "scriptcheck"
        PROVE  Knows(worker[w])'
    <3>1. /\ worker'[w].pc = pc /\ worker'[w].stage = worker[w].stage
          /\ worker'[w].ver = worker[w].ver /\ worker'[w].seen = worker[w].seen
      BY <1>1, <2>4, GotoType
    <3>2. worker[w].stage \in Late => Moderated
      BY <1>1, WorksFacts
    <3>3. QED
      BY <1>1, <2>1, <2>2, <2>4, <3>1, <3>2 DEF Knows
  <2>5. CASE Begin(w) \/ SkipPaid(w) \/ Pay(w) \/ SaveOrder(w)
    BY <2>4, <2>5 DEF Begin, SkipPaid, Pay, SaveOrder, PCs, Buyers
  <2>6. CASE MarkReady(w)
    <3>1. worker[w].stage # "scriptcheck"
      BY <2>6 DEF MarkReady, StageInv, Checks
    <3>2. QED
      BY <2>4, <2>6, <3>1 DEF MarkReady, PCs, Buyers
  <2>7. QED
    BY <2>3, <2>5, <2>6
<1>6. QED
  BY <1>1, <1>2, <1>3, <1>4, <1>5, ModWorks

LEMMA ModStores ==
    ASSUME IInv, StageInv, ModInv, NEW w \in Workers, Store(w)
    PROVE  ModInv'
<1>1. /\ Live(w) /\ Buying(w) /\ worker[w].pc \in Buyers /\ TypeOK
      /\ UNCHANGED <<queue, passed, lastLog, status, curStage>>
      /\ worker[w].stage \in PaidStages
      /\ asset' = [asset EXCEPT ![worker[w].stage] =
                       IF worker[w].stage = "script" THEN @ + 1 ELSE worker[w].ver]
      /\ Goto(w, "done")
  BY DEF Store, Live, IInv, LockInv, Buying, Buyers
<1>2. \A v \in Workers \ {w} : worker'[v] = worker[v]
  BY <1>1, OthersKeep DEF TaskStep
<1>3. worker'[w].pc = "done" /\ worker'[w].stage = worker[w].stage
  BY <1>1, GotoType DEF PCs
<1>4. /\ status \notin Halted /\ worker[w] \in Task /\ Knows(worker[w])
      /\ asset \in [PaidStages \cup {"assembly"} -> Nat]
      /\ worker[w].stage \in Late => Moderated
  BY <1>1, WorksFacts
<1>5. worker[w].ver = asset["script"]
  BY <1>1, <1>4 DEF Knows
<1>6. CASE worker[w].stage = "script"
  <2>1. asset["script"] = 0 /\ ~Moderated
    BY <1>1, <1>4, <1>6 DEF Knows, Moderated
  <2>2. \A k \in {"voice", "assembly"} : asset[k] = 0 /\ asset'[k] = 0
    BY <1>1, <1>4, <1>6, <2>1 DEF ModInv, DataInv, PaidStages
  <2>3. curStage \notin Late /\ lastLog \notin {"scriptcheck", "finalcheck"}
    BY <2>1 DEF ModInv, DataInv
  <2>4. DataInv'
    BY <1>1, <1>4, <2>2, <2>3 DEF DataInv, Halted
  <2>5. Knows(worker[w])'
    BY <1>3, <1>6 DEF Knows, Buyers, Late
  <2>6. QED
    BY <1>1, <1>2, <1>4, <2>4, <2>5, ModWorks
<1>7. CASE worker[w].stage # "script"
  <2>1. /\ asset'["script"] = asset["script"] /\ asset'["assembly"] = asset["assembly"]
        /\ asset'["voice"] = asset["voice"] \/ asset'["voice"] = asset["script"]
    BY <1>1, <1>4, <1>5, <1>7 DEF PaidStages
  <2>2. Moderated' <=> Moderated
    BY <1>1, <2>1 DEF Moderated
  <2>3. DataInv'
    BY <1>1, <2>1, <2>2 DEF ModInv, DataInv
  <2>4. Knows(worker[w])'
    BY <1>3, <1>4, <2>2 DEF Knows, Buyers
  <2>5. QED
    BY <1>1, <1>2, <1>4, <2>3, <2>4, ModWorks
<1>8. QED
  BY <1>6, <1>7

LEMMA ModAssembles ==
    ASSUME IInv, ModInv, NEW w \in Workers, Assemble(w)
    PROVE  ModInv'
<1>1. /\ Live(w) /\ TypeOK /\ worker[w].stage = "assembly"
      /\ UNCHANGED <<queue, passed, lastLog, status, curStage>>
      /\ asset["voice"] # 0
      /\ asset' = [asset EXCEPT !["assembly"] = IF @ = 0 THEN asset["voice"] ELSE @]
      /\ Goto(w, "done")
  BY DEF Assemble, Live, IInv
<1>2. \A v \in Workers \ {w} : worker'[v] = worker[v]
  BY <1>1, OthersKeep DEF TaskStep
<1>3. worker'[w].pc = "done" /\ worker'[w].stage = "assembly"
  BY <1>1, GotoType DEF PCs
<1>4. /\ status \notin Halted /\ Moderated
      /\ asset \in [PaidStages \cup {"assembly"} -> Nat]
  BY <1>1, WorksFacts DEF Late
<1>5. /\ asset'["script"] = asset["script"] /\ asset'["voice"] = asset["voice"]
      /\ asset'["assembly"] = asset["script"]
  BY <1>1, <1>4 DEF ModInv, DataInv, PaidStages
<1>6. Moderated'
  BY <1>1, <1>4, <1>5 DEF Moderated
<1>7. DataInv'
  BY <1>1, <1>4, <1>5, <1>6 DEF ModInv, DataInv, Moderated
<1>8. Knows(worker[w])'
  BY <1>3, <1>6 DEF Knows, Buyers
<1>9. QED
  BY <1>1, <1>2, <1>4, <1>7, <1>8, ModWorks

LEMMA ModJudges ==
    ASSUME IInv, ModInv, NEW w \in Workers, Judge(w)
    PROVE  ModInv'
<1> DEFINE s == worker[w].stage
<1>1. /\ Live(w) /\ TypeOK /\ s \in Checks /\ worker[w].pc = "begun" /\ lastLog' = s
      /\ UNCHANGED <<queue, asset, status, curStage>>
      /\ IF s = "scriptcheck" THEN worker[w].seen # 0 ELSE asset["assembly"] # 0
  BY DEF Judge, Live, IInv
<1>2. \A v \in Workers \ {w} : worker'[v] = worker[v]
  BY <1>1, OthersKeep DEF TaskStep
<1>3. PICK v \in {"pass", "flag"} :
         /\ Become(w, [worker[w] EXCEPT !.pc = "judged", !.verdict = v])
         /\ passed' = IF s = "scriptcheck" /\ v = "pass" THEN passed \cup {worker[w].seen}
                                                        ELSE passed
  BY DEF Judge
<1>4. /\ status \notin Halted /\ worker[w] \in Task /\ Knows(worker[w])
      /\ s \in Late => Moderated
  BY <1>1, WorksFacts
<1>5. worker'[w].pc = "judged" /\ worker'[w].stage = s /\ worker'[w].verdict = v
  BY <1>1, <1>3, <1>4 DEF Become, TypeOK, Task
<1>6. Moderated => Moderated'
  BY <1>1, <1>3 DEF Moderated
<1>7. CASE s = "scriptcheck"
  <2>1. worker[w].seen = asset["script"] /\ asset["script"] # 0
    BY <1>1, <1>4, <1>7 DEF Knows
  <2>2. v = "pass" => Moderated'
    BY <1>1, <1>3, <1>7, <2>1 DEF Moderated
  <2>3. DataInv'
    BY <1>1, <1>4, <1>6, <1>7, <2>1 DEF ModInv, DataInv, Halted
  <2>4. Knows(worker[w])'
    BY <1>1, <1>5, <1>7, <2>1, <2>2 DEF Knows, Buyers, Late
  <2>5. QED
    BY <1>1, <1>2, <1>4, <2>3, <2>4, ModWorks
<1>8. CASE s = "finalcheck"
  <2>1. Moderated' /\ asset["assembly"] # 0
    BY <1>1, <1>4, <1>6, <1>8 DEF Late
  <2>2. DataInv'
    BY <1>1, <1>4, <1>8, <2>1 DEF ModInv, DataInv, Halted
  <2>3. Knows(worker[w])'
    BY <1>1, <1>5, <1>8, <2>1 DEF Knows, Buyers
  <2>4. QED
    BY <1>1, <1>2, <1>4, <2>2, <2>3, ModWorks
<1>9. QED
  BY <1>1, <1>7, <1>8 DEF Checks

LEMMA ModApplies ==
    ASSUME IInv, StageInv, ModInv, NEW w \in Workers, Apply(w)
    PROVE  ModInv'
<1> DEFINE t == worker[w]
<1>1. /\ Live(w) /\ TypeOK /\ t.pc = "judged" /\ t.stage \in Checks /\ t.verdict # "none"
      /\ UNCHANGED <<queue, asset, passed, lastLog, curStage>>
  BY DEF Apply, Live, IInv, StageInv
<1>2. \A v \in Workers \ {w} : worker'[v] = worker[v]
  BY <1>1, OthersKeep DEF TaskStep
<1>3. t \in Task /\ Knows(t) /\ (t.stage \in Late => Moderated)
  BY <1>1, WorksFacts
<1>4. Moderated' <=> Moderated
  BY <1>1 DEF Moderated
<1>5. CASE t.verdict = "pass" /\ t.stage = "scriptcheck"
  <2>1. status' = "working" /\ Goto(w, "ready")
    BY <1>5 DEF Apply
  <2>2. worker'[w].pc = "ready" /\ worker'[w].stage = "scriptcheck"
    BY <1>1, <1>5, <2>1, GotoType DEF PCs
  <2>3. Moderated
    BY <1>1, <1>3, <1>5 DEF Knows
  <2>4. DataInv'
    BY <1>1, <1>4, <2>1 DEF ModInv, DataInv, Offers
  <2>5. Knows(worker[w])'
    BY <1>4, <2>2, <2>3 DEF Knows, Buyers
  <2>6. QED
    BY <1>1, <1>2, <2>1, <2>4, <2>5, ModWorks DEF Halted, Offers
<1>6. CASE ~(t.verdict = "pass" /\ t.stage = "scriptcheck")
  <2>1. worker'[w] = IdleWorker
    BY <1>1, <1>6, IdleType, BecomeType DEF Apply
  <2>2. status' \in Offers => t.stage = "finalcheck"
    BY <1>1, <1>3, <1>6 DEF Apply, Offers, Task, Checks
  <2>3. status' \in Offers => Moderated /\ asset["assembly"] # 0
    BY <1>1, <1>3, <2>2 DEF Knows, Late
  <2>4. DataInv'
    BY <1>1, <1>4, <2>3 DEF ModInv, DataInv
  <2>5. Knows(worker[w])' /\ ~Live(w)'
    BY <2>1, IdleType DEF Knows, Live, Buyers
  <2>6. QED
    BY <1>1, <1>2, <2>4, <2>5, ModWorks
<1>7. QED
  BY <1>5, <1>6

LEMMA ModFails ==
    ASSUME IInv, ModInv, NEW w \in Workers, Fail(w) \/ Retryable(w)
    PROVE  ModInv'
<1>1. /\ Live(w) /\ TypeOK
      /\ UNCHANGED <<queue, asset, passed, lastLog, curStage>>
  BY DEF Fail, Retryable, Live, IInv
<1>2. \A v \in Workers \ {w} : worker'[v] = worker[v]
  BY <1>1, OthersKeep DEF TaskStep
<1>3. Moderated' <=> Moderated
  BY <1>1 DEF Moderated
<1>4. DataInv'
  BY <1>1, <1>3 DEF Fail, Retryable, ModInv, DataInv, Offers
<1>5. CASE Fail(w)
  <2>1. worker'[w].pc = "idle"
    BY <1>1, <1>5, IdleType, BecomeType DEF Fail
  <2>2. Knows(worker[w])' /\ ~Live(w)'
    BY <2>1 DEF Knows, Live, Buyers
  <2>3. QED
    BY <1>1, <1>2, <1>4, <2>2, ModWorks
<1>6. CASE Retryable(w)
  <2>1. worker'[w].pc = "failing" /\ worker'[w].stage = worker[w].stage
    BY <1>1, <1>6, GotoType DEF Retryable, PCs
  <2>2. worker[w].stage \in Late => Moderated
    BY <1>1, WorksFacts
  <2>3. Knows(worker[w])'
    BY <1>3, <2>1, <2>2 DEF Knows, Buyers
  <2>4. status' \notin Halted
    BY <1>6 DEF Retryable, Halted, Offers
  <2>5. QED
    BY <1>1, <1>2, <1>4, <2>3, <2>4, ModWorks
<1>7. QED
  BY <1>5, <1>6

(* A task that hands its job on or gives it back.                          *)
LEMMA ModSends ==
    ASSUME IInv, StageInv, ModInv, ~duplicated', NEW w \in Workers,
           Chain(w) \/ Resend(w) \/ Die(w)
    PROVE  ModInv'
<1>1. /\ Live(w) /\ TypeOK
      /\ UNCHANGED <<status, asset, passed, lastLog, curStage>>
  BY DEF Chain, Resend, Die, Live, IInv, jobVars
<1>2. \A v \in Workers \ {w} : worker'[v] = worker[v]
  BY <1>1, OthersKeep DEF TaskStep
<1>3. ~Live(w)'
  BY <1>1, GotoType, IdleType, BecomeType DEF Chain, Resend, Die, PCs, Live
<1>4. Moderated' <=> Moderated
  BY <1>1 DEF Moderated
<1>5. DataInv'
  BY <1>1, <1>4 DEF ModInv, DataInv
<1>6. worker[w] \in Task /\ Knows(worker[w]) /\ (worker[w].stage \in Late => Moderated)
  BY <1>1, WorksFacts
<1>7. ASSUME NEW s \in Stages, NEW r \in 0 .. MaxRetries, Send(s, r), s \in Late => Moderated
      PROVE  ModInv'
  <2>1. /\ AloneInv' /\ \A v \in Workers : ~Live(v)'
        /\ \A m \in Msgs : queue'[m] > 0 => m.stage = s
    BY <1>1, <1>2, <1>3, <1>7, AloneSends DEF ModInv
  <2>2. MsgInv'
    BY <1>4, <1>7, <2>1 DEF MsgInv
  <2>3. KnowInv'
    BY <2>1, NobodyKnows
  <2>4. QED
    BY <1>5, <2>1, <2>2, <2>3 DEF ModInv
<1>8. CASE Chain(w)
  <2> DEFINE s == NextStage[worker[w].stage]
  <2>1. worker[w].stage \in Stages \ {"finalcheck"}
    BY <1>6, <1>8 DEF StageInv, Chain, Task
  <2>2. s \in Stages /\ (s \in Late => worker[w].stage \in Late \cup {"scriptcheck"})
    BY <2>1 DEF NextStage, Stages, PaidStages, Checks, Late
  <2>3. s \in Late => Moderated
    BY <1>6, <1>8, <2>2 DEF Knows, Chain
  <2>4. Send(s, 0) /\ 0 \in 0 .. MaxRetries
    BY <1>8 DEF Chain
  <2> HIDE DEF s
  <2>5. QED
    BY <1>7, <2>2, <2>3, <2>4
<1>9. CASE Resend(w)
  <2>1. worker[w].stage \in Stages /\ worker[w].retries + 1 \in 0 .. MaxRetries
    BY <1>6, <1>9 DEF Resend, Task
  <2>2. QED
    BY <1>6, <1>7, <1>9, <2>1 DEF Resend
<1>10. CASE Die(w)
  <2>1. worker[w].stage \in Stages /\ worker[w].retries \in 0 .. MaxRetries
    BY <1>6 DEF Task
  <2>2. QED
    BY <1>6, <1>7, <1>10, <2>1 DEF Die
<1>11. QED
  BY <1>8, <1>9, <1>10

(* A task that ends without a word, and the task that takes a message.     *)
LEMMA ModLeaves ==
    ASSUME IInv, ModInv, NEW w \in Workers, Ack(w) \/ GiveUp(w) \/ Kill(w)
    PROVE  ModInv'
<1>1. TypeOK /\ UNCHANGED <<queue, status, asset, passed, lastLog, curStage>>
  BY DEF Ack, GiveUp, Kill, jobVars, IInv
<1>2. worker'[w] = IdleWorker /\ \A v \in Workers \ {w} : worker'[v] = worker[v]
  BY <1>1, IdleType, BecomeType DEF Ack, GiveUp, Kill
<1>3. \A v \in Workers : Live(v)' => Live(v)
  BY <1>2, IdleType DEF Live
<1>4. AloneInv'
  BY <1>1, <1>3, AloneLeaves DEF ModInv, AloneInv
<1>5. Moderated' <=> Moderated
  BY <1>1 DEF Moderated
<1>6. DataInv' /\ MsgInv'
  BY <1>1, <1>5 DEF ModInv, DataInv, MsgInv
<1>7. ASSUME NEW v \in Workers PROVE Knows(worker[v])'
  <2>1. CASE v = w
    BY <1>2, <2>1, IdleType DEF Knows, Buyers
  <2>2. CASE v # w
    BY <1>1, <1>2, <1>5, <2>2 DEF ModInv, KnowInv, Knows
  <2>3. QED
    BY <2>1, <2>2
<1>8. QED
  BY <1>4, <1>6, <1>7 DEF ModInv, KnowInv

LEMMA ModLoads ==
    ASSUME IInv, ModInv, NEW w \in Workers, NEW m \in Msgs, Load(w, m)
    PROVE  ModInv'
<1>1. /\ TypeOK /\ UNCHANGED <<status, asset, passed, lastLog, curStage>>
      /\ queue[m] > 0 /\ queue' = [queue EXCEPT ![m] = @ - 1]
  BY DEF Load, jobVars, IInv
<1>2. (\A n \in Msgs : queue'[n] = 0) /\ \A v \in Workers : ~Live(v)
  BY <1>1 DEF ModInv, AloneInv, TypeOK
<1>3. status \notin Halted
  BY <1>1 DEF ModInv, AloneInv, Nobody
<1>4. Moderated' <=> Moderated
  BY <1>1 DEF Moderated
<1>5. DataInv' /\ MsgInv'
  BY <1>1, <1>2, <1>4 DEF ModInv, DataInv, MsgInv
<1>6. CASE UNCHANGED worker
  <2>1. AloneInv'
    BY <1>1, <1>2, <1>3, <1>6 DEF AloneInv, Live
  <2>2. KnowInv'
    BY <1>2, <1>6, NobodyKnows DEF Live
  <2>3. QED
    BY <1>5, <2>1, <2>2 DEF ModInv
<1>7. CASE worker' # worker
  <2>1. worker' = [worker EXCEPT ![w] = [IdleWorker EXCEPT !.pc = "loaded", !.stage = m.stage,
                      !.pend = pending, !.retries = m.retries, !.seen = asset["script"]]]
    BY <1>7 DEF Load, Become
  <2>2. /\ worker'[w].pc = "loaded" /\ worker'[w].stage = m.stage
        /\ worker'[w].seen = asset["script"]
        /\ \A v \in Workers \ {w} : worker'[v] = worker[v]
    BY <1>1, <2>1 DEF TypeOK, IdleWorker
  <2>3. \A v \in Workers \ {w} : ~Live(v)'
    BY <1>2, <2>2 DEF Live
  <2>4. AloneInv'
    BY <1>1, <1>2, <1>3, <2>3 DEF AloneInv
  <2>5. m.stage \in Late => Moderated
    BY <1>1 DEF ModInv, MsgInv
  <2>6. Knows(worker[w])'
    BY <1>1, <1>4, <2>2, <2>5 DEF Knows, Buyers
  <2>7. QED
    BY <1>5, <2>3, <2>4, <2>6, OnlyKnows DEF ModInv
<1>8. QED
  BY <1>6, <1>7

(* What people do.  Only Cancel meets a job that somebody works on.        *)
LEMMA ModPeople ==
    ASSUME IInv, ModInv,
           Cancel \/ Answer \/ RequestChanges \/ Decide \/ AdminRetry \/ UNCHANGED vars
    PROVE  ModInv'
<1>1. TypeOK /\ UNCHANGED <<worker, asset, lastLog, curStage>>
  BY DEF Cancel, Answer, RequestChanges, Decide, AdminRetry, vars, jobVars, IInv
<1>2. \A v \in Workers : Live(v)' <=> Live(v)
  BY <1>1 DEF Live
<1>3. CASE Cancel \/ UNCHANGED vars
  <2>1. /\ UNCHANGED <<queue, passed>> /\ (Moderated' <=> Moderated)
        /\ status' = status \/ status' = "canceled"
    BY <1>1, <1>3 DEF Cancel, vars, jobVars, Moderated
  <2>2. AloneInv'
    BY <1>2, <2>1, AloneLeaves DEF ModInv, AloneInv, Halted, Offers
  <2>3. DataInv' /\ MsgInv' /\ KnowInv'
    BY <1>1, <2>1 DEF ModInv, DataInv, MsgInv, KnowInv, Knows, Offers
  <2>4. QED
    BY <2>2, <2>3 DEF ModInv
<1>4. CASE Answer \/ RequestChanges \/ Decide \/ AdminRetry
  <2>1. Nobody
    BY <1>4 DEF Answer, RequestChanges, Decide, AdminRetry, ModInv, AloneInv, Halted, Offers
  <2>2. KnowInv'
    BY <1>2, <2>1, NobodyKnows DEF Nobody
  <2>3. Moderated => Moderated'
    BY <1>1, <1>4 DEF Moderated, Answer, RequestChanges, Decide, AdminRetry
  <2>4. status' \in Offers => Moderated /\ asset["assembly"] # 0
    BY <1>4 DEF Answer, RequestChanges, Decide, AdminRetry, ModInv, DataInv, Offers
  <2>5. DataInv'
    BY <1>1, <2>3, <2>4 DEF ModInv, DataInv
  <2>6. CASE UNCHANGED queue
    <3>1. AloneInv'
      BY <1>2, <2>1, <2>6, AloneLeaves DEF ModInv
    <3>2. MsgInv'
      BY <2>3, <2>6 DEF ModInv, MsgInv
    <3>3. QED
      BY <2>2, <2>5, <3>1, <3>2 DEF ModInv
  <2>7. ASSUME NEW s \in Stages, Send(s, 0), status' \notin Halted,
               s \in Late => Moderated'
        PROVE  ModInv'
    <3>1. AloneInv' /\ \A m \in Msgs : queue'[m] > 0 => m.stage = s
      BY <1>1, <2>1, <2>7, AloneAnswers DEF ModInv
    <3>2. MsgInv'
      BY <2>7, <3>1 DEF MsgInv
    <3>3. QED
      BY <2>2, <2>5, <3>1, <3>2 DEF ModInv
  <2>8. CASE Answer
    BY <2>6, <2>8 DEF Answer
  <2>9. CASE RequestChanges
    <3>1. Moderated' /\ status' \notin Halted
      BY <2>3, <2>9 DEF RequestChanges, ModInv, DataInv, Halted, Offers
    <3>2. QED
      BY <2>6, <2>7, <2>9, <3>1 DEF RequestChanges, HandOver, Stages
  <2>10. CASE Decide
    <3>1. CASE lastLog = "scriptcheck" /\ status' = "working"
               /\ passed' = passed \cup {asset["script"]} /\ Send("voice", 0)
      <4>1. Moderated'
        BY <1>1, <3>1 DEF ModInv, DataInv, Moderated
      <4>2. QED
        BY <2>7, <3>1, <4>1 DEF Halted, Offers, Stages, PaidStages
    <3>2. CASE UNCHANGED queue
      BY <2>6, <3>2
    <3>3. QED
      BY <2>10, <3>1, <3>2 DEF Decide
  <2>11. CASE AdminRetry
    <3> DEFINE to == IF curStage = "moderation" THEN "script" ELSE curStage
    <3>1. to \in Stages /\ (to \in Late => Moderated')
      BY <1>1, <2>3 DEF TypeOK, Stages, PaidStages, Late, ModInv, DataInv
    <3>2. status' \notin Halted /\ HandOver(to)
      BY <2>11 DEF AdminRetry, Halted, Offers
    <3> HIDE DEF to
    <3>3. QED
      BY <2>6, <2>7, <3>1, <3>2 DEF HandOver
  <2>12. QED
    BY <1>4, <2>8, <2>9, <2>10, <2>11
<1>5. QED
  BY <1>3, <1>4

LEMMA InitMod == Init => ModInv
<1> SUFFICES ASSUME Init PROVE ModInv
  OBVIOUS
<1> DEFINE first == [stage |-> "script", retries |-> 0]
<1>1. queue = [n \in Msgs |-> IF n = first THEN 1 ELSE 0]
  BY DEF Init
<1>2. \A n \in Msgs : n = first => n.stage = "script"
  OBVIOUS
<1> HIDE DEF first
<1>3. /\ \A n \in Msgs : queue[n] = IF n = first THEN 1 ELSE 0
      /\ \A v \in Workers : ~Live(v)
  BY <1>1, IdleType DEF Init, Live
<1>4. AloneInv
  BY <1>3 DEF Init, AloneInv, Halted, Offers
<1>5. DataInv
  BY DEF Init, DataInv, Offers, Late, PaidStages
<1>6. MsgInv
  BY <1>2, <1>3 DEF MsgInv, Late
<1>7. KnowInv
  BY IdleType DEF Init, KnowInv, Knows, Buyers
<1>8. QED
  BY <1>4, <1>5, <1>6, <1>7 DEF ModInv

LEMMA ModStep ==
    ASSUME IInv, StageInv, duplicated \/ ModInv, [Next]_vars
    PROVE  duplicated' \/ ModInv'
<1> SUFFICES ASSUME ~duplicated' PROVE ModInv'
  OBVIOUS
<1>1. duplicated => duplicated'
  BY DEF Next, TaskStep, Load, Begin, SkipPaid, Enter, Pay, SaveOrder, Store, Assemble, Judge,
         Apply, MarkReady, Chain, Ack, Fail, Retryable, Resend, GiveUp, Die, Kill, Redeliver,
         Cancel, Answer, RequestChanges, Decide, AdminRetry, histVars, vars
<1>2. ModInv
  BY <1>1
<1>3. ~ \E w \in Workers : Redeliver(w)
  BY DEF Redeliver
<1>4. ASSUME NEW w \in Workers, TaskStep(w) \/ Die(w) \/ Kill(w) PROVE ModInv'
  BY <1>2, <1>4, ModGoesOn, ModStores, ModAssembles, ModJudges, ModApplies, ModFails,
     ModSends, ModLeaves DEF TaskStep
<1>5. ASSUME NEW w \in Workers, NEW m \in Msgs, Load(w, m) PROVE ModInv'
  BY <1>2, <1>5, ModLoads
<1>6. QED
  BY <1>2, <1>3, <1>4, <1>5, ModPeople DEF Next

(* FR-45, FR-48: whatever fails, is tried again, restarted or crashes, a   *)
(* video that is offered for approval or goes to the upload speaks a       *)
(* script that the gate or a moderator let through, as long as no stage    *)
(* runs twice because a message came back after it was handed on.          *)
THEOREM OfferedWasModerated == Spec => []OnlyModeratedIsOffered
<1>1. Init => IInv /\ StageInv /\ (duplicated \/ ModInv)
  BY InitIInv, InitMod, IdleType DEF Init, StageInv
<1>2. SafeInv /\ [Next]_vars => SafeInv'
  BY IInvStep, StageStep, ModStep DEF SafeInv
<1>3. SafeInv => OnlyModeratedIsOffered
  <2> SUFFICES ASSUME SafeInv, ~duplicated, status \in Offers
               PROVE  asset["assembly"] \in passed
    BY DEF OnlyModeratedIsOffered, Offers
  <2>1. Moderated /\ asset["assembly"] # 0 /\ asset["assembly"] = asset["script"]
    BY DEF SafeInv, ModInv, DataInv
  <2>2. QED
    BY <2>1 DEF Moderated
<1>4. QED
  BY <1>1, <1>2, <1>3, PTL DEF Spec, SafeInv
=============================================================================
