--------------------------- MODULE LiveState_proofs ---------------------------
(***************************************************************************)
(* Proofs about the live state and its sides.  The scraper task queue      *)
(* alone, for every set of sources, steps, workers and configs and every   *)
(* lease length; the scraper daemon with its queue, its windows and the    *)
(* dashboard, for any number of sources, tasks, claims, calls under way    *)
(* and lost answers; and the rows of the sources, for any number of        *)
(* writes, clicks, restarts and lists on their way.                        *)
(***************************************************************************)
EXTENDS LiveState, TLAPS

-----------------------------------------------------------------------------
(***************************************************************************)
(* The scraper task queue                                                  *)
(***************************************************************************)
\* The inductive invariant: the seven invariants together.
IInv ==
    /\ TypeOK
    /\ OneActiveTaskPerSlot
    /\ LeaseOnlyWhileHeld
    /\ AttemptIsFencingToken
    /\ ActiveTaskCarriesLatestConfig
    /\ ResultIsFromLatestClaim
    /\ ResultAcceptedOnce

\* A queue that holds the same tasks, differing at most in who leases them
SameWork(queue) ==
    /\ queue \in [DOMAIN tasks -> Task]
    /\ \A t \in DOMAIN tasks :
          /\ queue[t].slot = tasks[t].slot
          /\ queue[t].config = tasks[t].config
          /\ queue[t].attempt = tasks[t].attempt
          /\ queue[t].status \in Active <=> tasks[t].status \in Active
          /\ queue[t].status = "completed" <=> tasks[t].status = "completed"
          /\ queue[t].status \in Leased <=> queue[t].owner # NoWorker
          /\ queue[t].left > 0 => queue[t].status \in Leased

\* What a lease change does to a task record.
LEMMA LeaseChange ==
    ASSUME NEW task \in Task, NEW st \in Active \cup Terminal,
           NEW w \in Workers \cup {NoWorker}, NEW n \in Nat
    PROVE  /\ WithLease(task, st, w, n) \in Task
           /\ WithLease(task, st, w, n).slot = task.slot
           /\ WithLease(task, st, w, n).config = task.config
           /\ WithLease(task, st, w, n).attempt = task.attempt
           /\ WithLease(task, st, w, n).status = st
           /\ WithLease(task, st, w, n).owner = w
           /\ WithLease(task, st, w, n).left = n
BY DEF Task, WithLease

LEMMA LeaseEnd ==
    ASSUME NEW task \in Task, NEW st \in Active \cup Terminal
    PROVE  /\ WithLease(task, st, NoWorker, 0) \in Task
           /\ WithLease(task, st, NoWorker, 0).slot = task.slot
           /\ WithLease(task, st, NoWorker, 0).config = task.config
           /\ WithLease(task, st, NoWorker, 0).attempt = task.attempt
           /\ WithLease(task, st, NoWorker, 0).status = st
           /\ WithLease(task, st, NoWorker, 0).owner = NoWorker
           /\ WithLease(task, st, NoWorker, 0).left = 0
BY DEF Task, WithLease

\* Releasing expired leases keeps the work of the queue: it changes the
\* lease of a task and nothing else, and leaves no owner on a pending task.
LEMMA ReleaseKeepsWork ==
    ASSUME TypeOK, LeaseOnlyWhileHeld
    PROVE  SameWork(ReleaseExpired(tasks))
<1> DEFINE queue == ReleaseExpired(tasks)
<1>1. /\ DOMAIN queue = DOMAIN tasks
      /\ \A t \in DOMAIN tasks : queue[t] = IF tasks[t].status \in Leased /\ tasks[t].left = 0
                                            THEN Released(tasks[t]) ELSE tasks[t]
      /\ queue = [t \in DOMAIN tasks |-> queue[t]]
  BY DEF ReleaseExpired
<1> HIDE DEF queue
<1>2. ASSUME NEW t \in DOMAIN tasks
      PROVE  /\ queue[t] \in Task
             /\ queue[t].slot = tasks[t].slot
             /\ queue[t].config = tasks[t].config
             /\ queue[t].attempt = tasks[t].attempt
             /\ queue[t].status \in Active <=> tasks[t].status \in Active
             /\ queue[t].status = "completed" <=> tasks[t].status = "completed"
             /\ queue[t].status \in Leased <=> queue[t].owner # NoWorker
             /\ queue[t].left > 0 => queue[t].status \in Leased
  <2>1. tasks[t] \in Task  BY DEF TypeOK
  <2>2. /\ tasks[t].status \in Leased <=> tasks[t].owner # NoWorker
        /\ tasks[t].left > 0 => tasks[t].status \in Leased
    BY DEF LeaseOnlyWhileHeld
  <2>3. CASE tasks[t].status \in Leased /\ tasks[t].left = 0
    <3>1. queue[t] = WithLease(tasks[t], "pending", NoWorker, 0)
      BY <1>1, <2>3 DEF Released
    <3>2. "pending" \in Active \cup Terminal  BY DEF Active
    <3>3. /\ queue[t] \in Task
          /\ queue[t].slot = tasks[t].slot /\ queue[t].config = tasks[t].config
          /\ queue[t].attempt = tasks[t].attempt
          /\ queue[t].status = "pending" /\ queue[t].owner = NoWorker
          /\ queue[t].left = 0
      BY <2>1, <3>1, <3>2, LeaseEnd
    <3>4. QED  BY <3>3, <2>1, <2>3 DEF Active, Leased
  <2>4. CASE ~(tasks[t].status \in Leased /\ tasks[t].left = 0)
    <3>1. queue[t] = tasks[t]  BY <1>1, <2>4
    <3>2. QED  BY <3>1, <2>1, <2>2
  <2>5. QED  BY <2>3, <2>4
<1>3. queue \in [DOMAIN tasks -> Task]  BY <1>1, <1>2
<1>4. QED  BY <1>2, <1>3 DEF SameWork, queue

\* A step that only changes leases keeps the invariant.
LEMMA LeaseStep ==
    ASSUME IInv, SameWork(tasks'), UNCHANGED <<issued, grants, resultOf, accepted, wanted>>
    PROVE  IInv'
<1> USE DEF IInv
<1>1. /\ DOMAIN tasks' = DOMAIN tasks
      /\ tasks' \in [DOMAIN tasks -> Task]
  BY DEF SameWork
<1>2. TypeOK'  BY <1>1 DEF TypeOK
<1>3. OneActiveTaskPerSlot'
  BY <1>1 DEF SameWork, OneActiveTaskPerSlot
<1>4. LeaseOnlyWhileHeld'
  BY <1>1 DEF SameWork, LeaseOnlyWhileHeld
<1>5. AttemptIsFencingToken'
  BY <1>1 DEF SameWork, AttemptIsFencingToken
<1>6. ActiveTaskCarriesLatestConfig'
  BY <1>1 DEF SameWork, ActiveTaskCarriesLatestConfig
<1>7. ResultIsFromLatestClaim'
  BY <1>1 DEF SameWork, ResultIsFromLatestClaim
<1>8. ResultAcceptedOnce'  BY DEF ResultAcceptedOnce
<1>9. QED  BY <1>2, <1>3, <1>4, <1>5, <1>6, <1>7, <1>8

LEMMA LeasePositive == Lease \in Nat /\ Lease > 0
BY LeaseAssumption DEF Lease

\* Replacing one task of the queue by a version of it with another lease and
\* another status of the same kind leaves the work of the queue as it was.
LEMMA HeartbeatKeepsWork ==
    ASSUME IInv, NEW g \in grants, HeartbeatTask(g)
    PROVE  SameWork(tasks')
<1> USE DEF IInv
<1> DEFINE new == WithLease(tasks[g.task], "running", g.worker, Lease)
<1>1. /\ g \in Grant /\ g.worker \in Workers
      /\ g.task \in DOMAIN tasks
      /\ tasks[g.task] \in Task
      /\ tasks[g.task].status \in Active
  BY DEF TypeOK, HeartbeatTask, Grant, Task, Terminal
<1>2. /\ new \in Task
      /\ new.slot = tasks[g.task].slot /\ new.config = tasks[g.task].config
      /\ new.attempt = tasks[g.task].attempt
      /\ new.status = "running" /\ new.owner = g.worker /\ new.left = Lease
  <2>1. /\ "running" \in Active \cup Terminal
        /\ g.worker \in Workers \cup {NoWorker}
    BY <1>1 DEF Active
  <2>2. QED  BY <2>1, <1>1, LeaseChange, LeasePositive
<1> HIDE DEF new
<1>3. tasks' = [tasks EXCEPT ![g.task] = new]
  BY DEF HeartbeatTask, new
<1>4. tasks' \in [DOMAIN tasks -> Task]
  BY <1>1, <1>2, <1>3 DEF TypeOK
<1>5. g.worker # NoWorker  BY <1>1, NoWorkerAssumption
<1>6. SameWork(tasks')
  <2>1. ASSUME NEW t \in DOMAIN tasks
        PROVE  /\ tasks'[t].slot = tasks[t].slot
               /\ tasks'[t].config = tasks[t].config
               /\ tasks'[t].attempt = tasks[t].attempt
               /\ tasks'[t].status \in Active <=> tasks[t].status \in Active
               /\ tasks'[t].status = "completed" <=> tasks[t].status = "completed"
               /\ tasks'[t].status \in Leased <=> tasks'[t].owner # NoWorker
               /\ tasks'[t].left > 0 => tasks'[t].status \in Leased
    <3>1. CASE t = g.task
      BY <3>1, <1>1, <1>2, <1>3, <1>5 DEF Active, Leased
    <3>2. CASE t # g.task
      BY <3>2, <1>3 DEF LeaseOnlyWhileHeld
    <3>3. QED  BY <3>1, <3>2
  <2>2. QED  BY <1>4, <2>1 DEF SameWork
<1>7. QED  BY <1>6

LEMMA HeartbeatStep ==
    ASSUME IInv, NEW g \in grants, HeartbeatTask(g)
    PROVE  IInv'
BY HeartbeatKeepsWork, LeaseStep DEF HeartbeatTask

LEMMA TimeKeepsWork == ASSUME IInv, TimePasses PROVE SameWork(tasks')
<1> USE DEF IInv
<1>1. /\ DOMAIN tasks' = DOMAIN tasks
      /\ tasks' = [t \in DOMAIN tasks |-> tasks'[t]]
      /\ \A t \in DOMAIN tasks :
            tasks'[t] = IF tasks[t].left > 0
                        THEN [tasks[t] EXCEPT !.left = @ - 1] ELSE tasks[t]
  BY DEF TimePasses
<1>2. ASSUME NEW t \in DOMAIN tasks
      PROVE  /\ tasks'[t] \in Task
             /\ tasks'[t].slot = tasks[t].slot
             /\ tasks'[t].config = tasks[t].config
             /\ tasks'[t].attempt = tasks[t].attempt
             /\ tasks'[t].status = tasks[t].status
             /\ tasks'[t].owner = tasks[t].owner
             /\ tasks'[t].left > 0 => tasks[t].left > 0
  <2>1. tasks[t] \in Task  BY DEF TypeOK
  <2>2. QED  BY <2>1, <1>1 DEF Task
<1>3. tasks' \in [DOMAIN tasks -> Task]  BY <1>1, <1>2
<1>4. SameWork(tasks')  BY <1>2, <1>3 DEF SameWork, LeaseOnlyWhileHeld
<1>5. QED  BY <1>4

LEMMA TimeStep == ASSUME IInv, TimePasses PROVE IInv'
BY TimeKeepsWork, LeaseStep DEF TimePasses

LEMMA ListStep == ASSUME IInv, ListActiveTasks PROVE IInv'
<1>1. SameWork(tasks')  BY ReleaseKeepsWork DEF IInv, ListActiveTasks
<1>2. QED  BY <1>1, LeaseStep DEF ListActiveTasks

\* Finishing a task, well or badly: its status becomes terminal and its lease
\* ends, the other tasks stay as they are.
LEMMA CompleteStep ==
    ASSUME IInv, NEW g \in grants, CompleteTask(g)
    PROVE  IInv'
<1> USE DEF IInv
<1> DEFINE new == WithLease(tasks[g.task], "completed", NoWorker, 0)
<1>1. /\ g \in Grant /\ g.task \in DOMAIN tasks
      /\ g.task \in TaskIds
      /\ tasks[g.task] \in Task
      /\ tasks[g.task].attempt = g.attempt
      /\ tasks[g.task].status # "completed"
  BY DEF TypeOK, CompleteTask, CanComplete, Grant
<1>2. /\ new \in Task
      /\ new.slot = tasks[g.task].slot /\ new.config = tasks[g.task].config
      /\ new.attempt = tasks[g.task].attempt
      /\ new.status = "completed" /\ new.owner = NoWorker /\ new.left = 0
  <2>1. "completed" \in Active \cup Terminal
    BY DEF Terminal
  <2>2. QED  BY <2>1, <1>1, LeaseEnd
<1> HIDE DEF new
<1>3. /\ tasks' = [tasks EXCEPT ![g.task] = new]
      /\ resultOf' = [resultOf EXCEPT ![g.task] = g]
      /\ accepted' = [accepted EXCEPT ![g.task] = @ + 1]
      /\ UNCHANGED <<issued, grants, wanted>>
  BY DEF CompleteTask, new
<1>4. /\ DOMAIN tasks' = DOMAIN tasks
      /\ tasks'[g.task] = new
      /\ \A t \in DOMAIN tasks : t # g.task => tasks'[t] = tasks[t]
      /\ tasks' \in [DOMAIN tasks -> Task]
  BY <1>1, <1>2, <1>3 DEF TypeOK
<1>5. /\ resultOf'[g.task] = g
      /\ \A t \in TaskIds : t # g.task => resultOf'[t] = resultOf[t]
      /\ resultOf' \in [TaskIds -> Grant \cup {NoGrant}]
      /\ accepted'[g.task] = accepted[g.task] + 1
      /\ \A t \in TaskIds : t # g.task => accepted'[t] = accepted[t]
      /\ accepted' \in [TaskIds -> Nat]
  BY <1>1, <1>3 DEF TypeOK
<1>6. TypeOK'  BY <1>3, <1>4, <1>5 DEF TypeOK
<1>7. OneActiveTaskPerSlot'
  BY <1>2, <1>4 DEF OneActiveTaskPerSlot, Active
<1>8. LeaseOnlyWhileHeld'
  BY <1>2, <1>4 DEF LeaseOnlyWhileHeld, Leased
<1>9. AttemptIsFencingToken'
  BY <1>2, <1>3, <1>4 DEF AttemptIsFencingToken
<1>10. ActiveTaskCarriesLatestConfig'
  BY <1>2, <1>3, <1>4 DEF ActiveTaskCarriesLatestConfig, Active
<1>11. ResultIsFromLatestClaim'
  <2>1. ASSUME NEW t \in TaskIds
        PROVE  /\ resultOf'[t] # NoGrant =>
                    /\ t \in DOMAIN tasks'
                    /\ tasks'[t].status = "completed"
                    /\ resultOf'[t] \in grants'
                    /\ resultOf'[t].task = t
                    /\ resultOf'[t].attempt = tasks'[t].attempt
               /\ t \in DOMAIN tasks' /\ tasks'[t].status = "completed"
                    => resultOf'[t] # NoGrant
    <3>1. CASE t = g.task
      BY <3>1, <1>1, <1>2, <1>3, <1>4, <1>5, NoGrantAssumption
    <3>2. CASE t # g.task
      BY <3>2, <1>3, <1>4, <1>5 DEF ResultIsFromLatestClaim
    <3>3. QED  BY <3>1, <3>2
  <2>2. QED  BY <2>1 DEF ResultIsFromLatestClaim
<1>12. ResultAcceptedOnce'
  <2>1. resultOf[g.task] = NoGrant /\ g # NoGrant
    BY <1>1, NoGrantAssumption DEF ResultIsFromLatestClaim
  <2>2. QED  BY <2>1, <1>1, <1>5 DEF ResultAcceptedOnce, TypeOK
<1>13. QED  BY <1>6, <1>7, <1>8, <1>9, <1>10, <1>11, <1>12

LEMMA FailStep ==
    ASSUME IInv, NEW g \in grants, FailTask(g)
    PROVE  IInv'
<1> USE DEF IInv
<1> DEFINE new == WithLease(tasks[g.task], "failed", NoWorker, 0)
<1>1. /\ g.task \in DOMAIN tasks
      /\ tasks[g.task] \in Task
      /\ tasks[g.task].status # "completed"
  BY DEF TypeOK, FailTask, CanFail, Terminal
<1>2. /\ new \in Task
      /\ new.slot = tasks[g.task].slot /\ new.config = tasks[g.task].config
      /\ new.attempt = tasks[g.task].attempt
      /\ new.status = "failed" /\ new.owner = NoWorker /\ new.left = 0
  <2>1. "failed" \in Active \cup Terminal
    BY DEF Terminal
  <2>2. QED  BY <2>1, <1>1, LeaseEnd
<1> HIDE DEF new
<1>3. /\ tasks' = [tasks EXCEPT ![g.task] = new]
      /\ UNCHANGED <<issued, grants, resultOf, accepted, wanted>>
  BY DEF FailTask, CanFail, new
<1>4. /\ DOMAIN tasks' = DOMAIN tasks
      /\ tasks'[g.task] = new
      /\ \A t \in DOMAIN tasks : t # g.task => tasks'[t] = tasks[t]
      /\ tasks' \in [DOMAIN tasks -> Task]
  BY <1>1, <1>2, <1>3 DEF TypeOK
<1>5. TypeOK'  BY <1>3, <1>4 DEF TypeOK
<1>6. OneActiveTaskPerSlot'
  BY <1>2, <1>4 DEF OneActiveTaskPerSlot, Active
<1>7. LeaseOnlyWhileHeld'
  BY <1>2, <1>4 DEF LeaseOnlyWhileHeld, Leased
<1>8. AttemptIsFencingToken'
  BY <1>2, <1>3, <1>4 DEF AttemptIsFencingToken
<1>9. ActiveTaskCarriesLatestConfig'
  BY <1>2, <1>3, <1>4 DEF ActiveTaskCarriesLatestConfig, Active
<1>10. ResultIsFromLatestClaim'
  BY <1>1, <1>2, <1>3, <1>4 DEF ResultIsFromLatestClaim
<1>11. ResultAcceptedOnce'  BY <1>3 DEF ResultAcceptedOnce
<1>12. QED  BY <1>5, <1>6, <1>7, <1>8, <1>9, <1>10, <1>11

\* Clearing the queue only removes tasks that have no result.
LEMMA ClearStep ==
    ASSUME IInv, NEW which, ClearActiveTasks(which)
    PROVE  IInv'
<1> USE DEF IInv
<1> DEFINE kept == {t \in DOMAIN tasks : \/ tasks[t].status \notin Active
                                        \/ tasks[t].slot[1] \notin which}
<1>1. /\ DOMAIN tasks' = kept
      /\ \A t \in kept : tasks'[t] = tasks[t]
      /\ tasks' = [t \in kept |-> tasks[t]]
      /\ UNCHANGED <<issued, grants, resultOf, accepted, wanted>>
  BY DEF ClearActiveTasks
<1>2. /\ kept \subseteq DOMAIN tasks
      /\ \A t \in DOMAIN tasks : tasks[t].status = "completed" => t \in kept
  BY DEF Active
<1> HIDE DEF kept
<1>3. TypeOK'  BY <1>1, <1>2 DEF TypeOK
<1>4. OneActiveTaskPerSlot'  BY <1>1, <1>2 DEF OneActiveTaskPerSlot
<1>5. LeaseOnlyWhileHeld'  BY <1>1, <1>2 DEF LeaseOnlyWhileHeld
<1>6. AttemptIsFencingToken'  BY <1>1, <1>2 DEF AttemptIsFencingToken
<1>7. ActiveTaskCarriesLatestConfig'
  BY <1>1, <1>2 DEF ActiveTaskCarriesLatestConfig
<1>8. ResultIsFromLatestClaim'  BY <1>1, <1>2 DEF ResultIsFromLatestClaim
<1>9. ResultAcceptedOnce'  BY <1>1 DEF ResultAcceptedOnce
<1>10. QED  BY <1>3, <1>4, <1>5, <1>6, <1>7, <1>8, <1>9

\* Claiming: the oldest pending task goes to the worker under a new token.
LEMMA ClaimStep ==
    ASSUME IInv, NEW w \in Workers, ClaimNextTask(w)
    PROVE  IInv'
<1> USE DEF IInv
<1> DEFINE queue == ReleaseExpired(tasks)
<1>1. SameWork(queue)  BY ReleaseKeepsWork
<1>2. PICK t \in PendingIn(queue) :
        /\ queue[t].attempt < MaxAttempts
        /\ tasks' = [queue EXCEPT ![t] = ClaimedBy(queue[t], w)]
        /\ grants' = grants \cup
             {[worker |-> w, task |-> t, attempt |-> queue[t].attempt + 1,
               config |-> queue[t].config]}
        /\ UNCHANGED <<issued, resultOf, accepted, wanted>>
  BY DEF ClaimNextTask
<1> HIDE DEF queue
<1> DEFINE leased == WithLease(queue[t], "claimed", w, Lease)
           new == ClaimedBy(queue[t], w)
           grant == [worker |-> w, task |-> t, attempt |-> queue[t].attempt + 1,
                     config |-> queue[t].config]
<1>3. /\ t \in DOMAIN tasks /\ t \in TaskIds /\ t <= issued
      /\ queue[t] \in Task
      /\ tasks[t] \in Task
      /\ queue[t].status = "pending" /\ tasks[t].status \in Active
      /\ queue[t].attempt = tasks[t].attempt
      /\ queue[t].config = tasks[t].config
      /\ queue[t].slot = tasks[t].slot
  BY <1>1, MaxTasksAssumption DEF SameWork, PendingIn, TypeOK, TaskIds, Active
<1>4. /\ leased \in Task
      /\ leased.slot = tasks[t].slot /\ leased.config = tasks[t].config
      /\ leased.attempt = tasks[t].attempt
      /\ leased.status = "claimed" /\ leased.owner = w /\ leased.left = Lease
  <2>1. /\ "claimed" \in Active \cup Terminal
        /\ w \in Workers \cup {NoWorker}
    BY DEF Active
  <2>2. QED  BY <2>1, <1>3, LeaseChange, LeasePositive
<1>5. tasks[t].attempt \in 0..MaxAttempts /\ tasks[t].attempt + 1 \in 1..MaxAttempts
  BY <1>2, <1>3, MaxAttemptsAssumption DEF Task
<1>6. /\ new \in Task
      /\ new.slot = tasks[t].slot /\ new.config = tasks[t].config
      /\ new.attempt = tasks[t].attempt + 1
      /\ new.status = "claimed" /\ new.owner = w /\ new.left = Lease
  <2>1. new = [leased EXCEPT !.attempt = tasks[t].attempt + 1]
    BY <1>3 DEF ClaimedBy
  <2> HIDE DEF leased, new
  <2>2. QED  BY <2>1, <1>4, <1>5, MaxAttemptsAssumption DEF Task
<1>7. /\ grant \in Grant
      /\ grant.worker = w /\ grant.task = t /\ grant.attempt = tasks[t].attempt + 1
      /\ grant.config = tasks[t].config
  <2>1. tasks[t].config \in Configs  BY <1>3 DEF Task
  <2>2. QED  BY <2>1, <1>3, <1>5 DEF Grant
<1>8. /\ tasks' = [queue EXCEPT ![t] = new]
      /\ grants' = grants \cup {grant}
      /\ UNCHANGED <<issued, resultOf, accepted, wanted>>
  BY <1>2
<1> HIDE DEF leased, new, grant
<1>9. /\ DOMAIN tasks' = DOMAIN tasks
      /\ tasks' \in [DOMAIN tasks -> Task]
      /\ tasks'[t] = new
      /\ \A u \in DOMAIN tasks : u # t =>
            /\ tasks'[u].slot = tasks[u].slot
            /\ tasks'[u].config = tasks[u].config
            /\ tasks'[u].attempt = tasks[u].attempt
            /\ tasks'[u].status \in Active <=> tasks[u].status \in Active
            /\ tasks'[u].status = "completed" <=> tasks[u].status = "completed"
            /\ tasks'[u].status \in Leased <=> tasks'[u].owner # NoWorker
            /\ tasks'[u].left > 0 => tasks'[u].status \in Leased
  BY <1>1, <1>3, <1>6, <1>8 DEF SameWork
<1>10. TypeOK'  BY <1>7, <1>8, <1>9 DEF TypeOK
<1>11. OneActiveTaskPerSlot'
  BY <1>3, <1>6, <1>9 DEF OneActiveTaskPerSlot
<1>12. LeaseOnlyWhileHeld'
  BY <1>6, <1>9, NoWorkerAssumption DEF LeaseOnlyWhileHeld, Leased
<1>13. AttemptIsFencingToken'
  <2>1. \A g \in grants : g \in Grant /\ (g.task = t => g.attempt < grant.attempt)
    BY <1>3, <1>5, <1>7 DEF TypeOK, AttemptIsFencingToken, Grant
  <2>2. \A g, h \in grants' : g.task = h.task /\ g.attempt = h.attempt => g = h
    <3>1. grant.attempt \in Nat /\ \A g \in grants : g.attempt \in Nat
      BY <1>7, <2>1 DEF Grant
    <3>2. QED  BY <1>7, <1>8, <2>1, <3>1 DEF AttemptIsFencingToken
  <2>3. ASSUME NEW u \in DOMAIN tasks
        PROVE  /\ \A g \in grants' : g.task = u => g.attempt <= tasks'[u].attempt
               /\ tasks'[u].attempt > 0 =>
                    \E g \in grants' : g.task = u /\ g.attempt = tasks'[u].attempt
    <3>1. CASE u = t
      <4>1. grant \in grants'  BY <1>8
      <4>2. \A g \in grants' : g.task = t => g.attempt <= grant.attempt
        BY <1>7, <1>8, <2>1 DEF Grant
      <4>3. tasks'[u].attempt = grant.attempt  BY <3>1, <1>6, <1>7, <1>9
      <4>4. QED  BY <3>1, <4>1, <4>2, <4>3, <1>7
    <3>2. CASE u # t
      BY <3>2, <1>7, <1>8, <1>9 DEF AttemptIsFencingToken
    <3>3. QED  BY <3>1, <3>2
  <2>4. \A g \in grants' : g.task <= issued
    BY <1>3, <1>7, <1>8 DEF AttemptIsFencingToken
  <2>5. QED  BY <2>2, <2>3, <2>4, <1>8, <1>9 DEF AttemptIsFencingToken
<1>14. ActiveTaskCarriesLatestConfig'
  BY <1>3, <1>6, <1>8, <1>9 DEF ActiveTaskCarriesLatestConfig
<1>15. ResultIsFromLatestClaim'
  <2>1. resultOf[t] = NoGrant
    BY <1>3 DEF ResultIsFromLatestClaim, Active
  <2>2. QED
    BY <2>1, <1>3, <1>6, <1>8, <1>9 DEF ResultIsFromLatestClaim
<1>16. ResultAcceptedOnce'  BY <1>8 DEF ResultAcceptedOnce
<1>17. QED  BY <1>10, <1>11, <1>12, <1>13, <1>14, <1>15, <1>16

\* Upserting when the slot has an active task: its config is rewritten.
LEMMA UpsertActiveStep ==
    ASSUME IInv, NEW slot \in Slots, NEW config \in Configs,
           NEW queue, SameWork(queue), ReuseTask(queue, slot, config),
           wanted' = [wanted EXCEPT ![slot] = config],
           UNCHANGED <<grants, resultOf, accepted>>
    PROVE  IInv'
<1> USE DEF IInv
<1>a. PICK t \in ActiveIn(queue, slot) :
        /\ tasks' = [queue EXCEPT ![t] = Rewritten(queue[t], config)]
        /\ issued' = issued
  BY DEF ReuseTask
<1> DEFINE base == IF queue[t].status = "pending" THEN Released(queue[t]) ELSE queue[t]
           new == Rewritten(queue[t], config)
<1>1. SameWork(queue)  OBVIOUS
<1>2. t \in DOMAIN queue /\ queue[t].slot = slot /\ queue[t].status \in Active
  BY DEF ActiveIn
<1>3. tasks' = [queue EXCEPT ![t] = new]  BY <1>a
<1>4. /\ t \in DOMAIN tasks /\ queue[t] \in Task
      /\ tasks[t].slot = slot /\ tasks[t].status \in Active
      /\ queue[t].attempt = tasks[t].attempt
      /\ queue[t].status \in Leased <=> queue[t].owner # NoWorker
      /\ queue[t].left > 0 => queue[t].status \in Leased
  BY <1>1, <1>2 DEF SameWork
<1>5. /\ base \in Task /\ base.slot = slot /\ base.attempt = tasks[t].attempt
      /\ base.status \in Active
      /\ base.status \in Leased <=> base.owner # NoWorker
      /\ base.left > 0 => base.status \in Leased
  <2>1. CASE queue[t].status = "pending"
    <3>1. "pending" \in Active \cup Terminal /\ "pending" \in Active /\ "pending" \notin Leased
      BY DEF Active, Leased
    <3>2. base = WithLease(queue[t], "pending", NoWorker, 0)
      BY <2>1 DEF Released
    <3>3. QED  BY <3>1, <3>2, <1>2, <1>4, LeaseEnd
  <2>2. CASE queue[t].status # "pending"
    BY <2>2, <1>2, <1>4
  <2>3. QED  BY <2>1, <2>2
<1>6. new = [base EXCEPT !.config = config]  BY DEF Rewritten
<1> HIDE DEF base, new
<1>7. /\ new \in Task /\ new.slot = slot /\ new.attempt = tasks[t].attempt
      /\ new.config = config
      /\ new.status \in Active
      /\ new.status \in Leased <=> new.owner # NoWorker
      /\ new.left > 0 => new.status \in Leased
  BY <1>5, <1>6 DEF Task
<1>8. /\ DOMAIN tasks' = DOMAIN tasks
      /\ tasks' \in [DOMAIN tasks -> Task]
      /\ tasks'[t] = new
      /\ \A u \in DOMAIN tasks : u # t =>
            /\ tasks'[u].slot = tasks[u].slot
            /\ tasks'[u].config = tasks[u].config
            /\ tasks'[u].attempt = tasks[u].attempt
            /\ tasks'[u].status \in Active <=> tasks[u].status \in Active
            /\ tasks'[u].status = "completed" <=> tasks[u].status = "completed"
            /\ tasks'[u].status \in Leased <=> tasks'[u].owner # NoWorker
            /\ tasks'[u].left > 0 => tasks'[u].status \in Leased
  BY <1>1, <1>3, <1>4, <1>7 DEF SameWork
<1>9. /\ wanted' \in [Slots -> Configs] /\ wanted'[slot] = config
      /\ \A q \in Slots : q # slot => wanted'[q] = wanted[q]
  BY DEF TypeOK
<1>10. TypeOK'  BY <1>a, <1>8, <1>9 DEF TypeOK
<1>11. OneActiveTaskPerSlot'
  BY <1>4, <1>7, <1>8 DEF OneActiveTaskPerSlot
<1>12. LeaseOnlyWhileHeld'
  BY <1>7, <1>8 DEF LeaseOnlyWhileHeld
<1>13. AttemptIsFencingToken'
  BY <1>a, <1>4, <1>7, <1>8 DEF AttemptIsFencingToken
<1>14. ActiveTaskCarriesLatestConfig'
  <2>1. ASSUME NEW u \in DOMAIN tasks, tasks'[u].status \in Active
        PROVE  tasks'[u].config = wanted'[tasks'[u].slot]
    <3>1. CASE u = t  BY <3>1, <1>7, <1>8, <1>9
    <3>2. CASE u # t
      <4>1. tasks[u].status \in Active /\ tasks'[u].slot = tasks[u].slot
            /\ tasks'[u].config = tasks[u].config
        BY <2>1, <3>2, <1>8
      <4>2. tasks[u].slot # slot
        BY <3>2, <4>1, <1>4 DEF OneActiveTaskPerSlot
      <4>3. tasks[u].slot \in Slots  BY DEF TypeOK, Task
      <4>4. QED  BY <4>1, <4>2, <4>3, <1>9 DEF ActiveTaskCarriesLatestConfig
    <3>3. QED  BY <3>1, <3>2
  <2>2. QED  BY <2>1, <1>8 DEF ActiveTaskCarriesLatestConfig
<1>15. ResultIsFromLatestClaim'
  <2>1. new.status # "completed"  BY <1>7 DEF Active
  <2>2. resultOf[t] = NoGrant \/ t \notin TaskIds
    BY <1>4 DEF ResultIsFromLatestClaim, Active
  <2>3. QED  BY <2>1, <2>2, <1>4, <1>8 DEF ResultIsFromLatestClaim
<1>16. ResultAcceptedOnce'  BY DEF ResultAcceptedOnce
<1>17. QED  BY <1>10, <1>11, <1>12, <1>13, <1>14, <1>15, <1>16

\* Upserting when the slot has no active task: a new one is created.
LEMMA UpsertNewStep ==
    ASSUME IInv, NEW slot \in Slots, NEW config \in Configs,
           NEW queue, SameWork(queue), CreateTask(queue, slot, config),
           wanted' = [wanted EXCEPT ![slot] = config],
           UNCHANGED <<grants, resultOf, accepted>>
    PROVE  IInv'
<1> USE DEF IInv
<1> DEFINE id == issued + 1
           new == NewTask(slot, config)
<1>1. SameWork(queue)  OBVIOUS
<1>2. /\ tasks' = [t \in DOMAIN queue \cup {id} |-> IF t = id THEN new ELSE queue[t]]
      /\ issued < MaxTasks /\ issued' = id
  BY DEF CreateTask
<1>3. \A t \in DOMAIN queue : queue[t].slot = slot => queue[t].status \notin Active
  BY DEF CreateTask, ActiveIn
<1>4. DOMAIN queue = DOMAIN tasks  BY <1>1 DEF SameWork
<1>5. \A t \in DOMAIN tasks : tasks[t].slot = slot => tasks[t].status \notin Active
  BY <1>1, <1>3, <1>4 DEF SameWork
<1>6. /\ issued \in Nat /\ id \in Nat /\ id \in TaskIds /\ id \notin DOMAIN tasks
      /\ DOMAIN tasks \subseteq 1..id
      /\ id \in 0..MaxTasks
  BY <1>2, MaxTasksAssumption DEF TypeOK, TaskIds
<1>7. /\ new \in Task /\ new.slot = slot /\ new.config = config
      /\ new.status = "pending" /\ new.attempt = 0
      /\ new.owner = NoWorker /\ new.left = 0
  BY MaxAttemptsAssumption DEF NewTask, Task, Active
<1> HIDE DEF id, new
<1>8. /\ DOMAIN tasks' = DOMAIN tasks \cup {id}
      /\ tasks' \in [DOMAIN tasks \cup {id} -> Task]
      /\ tasks'[id] = new
      /\ \A u \in DOMAIN tasks :
            /\ tasks'[u].slot = tasks[u].slot
            /\ tasks'[u].config = tasks[u].config
            /\ tasks'[u].attempt = tasks[u].attempt
            /\ tasks'[u].status \in Active <=> tasks[u].status \in Active
            /\ tasks'[u].status = "completed" <=> tasks[u].status = "completed"
            /\ tasks'[u].status \in Leased <=> tasks'[u].owner # NoWorker
            /\ tasks'[u].left > 0 => tasks'[u].status \in Leased
  BY <1>1, <1>2, <1>4, <1>6, <1>7 DEF SameWork
<1>9. /\ wanted' \in [Slots -> Configs] /\ wanted'[slot] = config
      /\ \A q \in Slots : q # slot => wanted'[q] = wanted[q]
  BY DEF TypeOK
<1>10. TypeOK'
  <2>1. tasks' \in [DOMAIN tasks' -> Task]  BY <1>8
  <2>2. issued' \in 0..MaxTasks /\ DOMAIN tasks' \subseteq 1..issued'
    <3>1. id \in 1..id  BY <1>6 DEF TaskIds
    <3>2. QED  BY <3>1, <1>2, <1>6, <1>8
  <2>3. QED  BY <2>1, <2>2, <1>9 DEF TypeOK
<1>11. OneActiveTaskPerSlot'
  <2>1. \A u \in DOMAIN tasks : tasks'[u].status \in Active => tasks'[u].slot # slot
    BY <1>5, <1>8
  <2>2. ASSUME NEW u \in DOMAIN tasks', NEW v \in DOMAIN tasks',
               tasks'[u].status \in Active, tasks'[v].status \in Active,
               tasks'[u].slot = tasks'[v].slot
        PROVE  u = v
    <3>1. CASE u = id /\ v = id  BY <3>1
    <3>2. CASE u = id /\ v # id  BY <3>2, <2>1, <2>2, <1>7, <1>8
    <3>3. CASE u # id /\ v = id  BY <3>3, <2>1, <2>2, <1>7, <1>8
    <3>4. CASE u # id /\ v # id  BY <3>4, <2>2, <1>8 DEF OneActiveTaskPerSlot
    <3>5. QED  BY <3>1, <3>2, <3>3, <3>4
  <2>3. QED  BY <2>2 DEF OneActiveTaskPerSlot
<1>12. LeaseOnlyWhileHeld'
  BY <1>7, <1>8 DEF LeaseOnlyWhileHeld, Leased
<1>13. AttemptIsFencingToken'
  <2>1. \A g \in grants : g.task <= issued /\ g.task \in Nat
    BY MaxTasksAssumption DEF AttemptIsFencingToken, TypeOK, Grant, TaskIds
  <2>2. \A g \in grants : g.task # id /\ g.task <= issued'
    BY <2>1, <1>2, <1>6 DEF id
  <2>3. ASSUME NEW u \in DOMAIN tasks'
        PROVE  /\ \A g \in grants : g.task = u => g.attempt <= tasks'[u].attempt
               /\ tasks'[u].attempt > 0 =>
                    \E g \in grants : g.task = u /\ g.attempt = tasks'[u].attempt
    <3>1. CASE u = id  BY <3>1, <2>2, <1>7, <1>8
    <3>2. CASE u # id  BY <3>2, <1>8 DEF AttemptIsFencingToken
    <3>3. QED  BY <3>1, <3>2
  <2>4. \A g, h \in grants : g.task = h.task /\ g.attempt = h.attempt => g = h
    BY DEF AttemptIsFencingToken
  <2>5. grants' = grants  OBVIOUS
  <2>6. QED  BY <2>2, <2>3, <2>4, <2>5 DEF AttemptIsFencingToken
<1>14. ActiveTaskCarriesLatestConfig'
  <2>1. ASSUME NEW u \in DOMAIN tasks, tasks'[u].status \in Active
        PROVE  tasks'[u].config = wanted'[tasks'[u].slot]
    <3>1. tasks[u].status \in Active /\ tasks'[u].slot = tasks[u].slot
          /\ tasks'[u].config = tasks[u].config
      BY <2>1, <1>8
    <3>2. tasks[u].slot # slot /\ tasks[u].slot \in Slots
      BY <3>1, <1>5 DEF TypeOK, Task
    <3>3. QED  BY <3>1, <3>2, <1>9 DEF ActiveTaskCarriesLatestConfig
  <2>2. tasks'[id].config = wanted'[tasks'[id].slot]  BY <1>7, <1>8, <1>9
  <2>3. QED  BY <2>1, <2>2, <1>8 DEF ActiveTaskCarriesLatestConfig
<1>15. ResultIsFromLatestClaim'
  <2>1. resultOf[id] = NoGrant  BY <1>6 DEF ResultIsFromLatestClaim
  <2>2. tasks'[id].status # "completed"  BY <1>7, <1>8
  <2>3. resultOf' = resultOf /\ grants' = grants  OBVIOUS
  <2>4. ASSUME NEW u \in TaskIds
        PROVE  /\ resultOf[u] # NoGrant =>
                    /\ u \in DOMAIN tasks'
                    /\ tasks'[u].status = "completed"
                    /\ resultOf[u] \in grants
                    /\ resultOf[u].task = u
                    /\ resultOf[u].attempt = tasks'[u].attempt
               /\ u \in DOMAIN tasks' /\ tasks'[u].status = "completed"
                    => resultOf[u] # NoGrant
    <3>1. CASE u = id  BY <3>1, <2>1, <2>2
    <3>2. CASE u # id  BY <3>2, <1>8 DEF ResultIsFromLatestClaim
    <3>3. QED  BY <3>1, <3>2
  <2>5. QED  BY <2>3, <2>4 DEF ResultIsFromLatestClaim
<1>16. ResultAcceptedOnce'  BY DEF ResultAcceptedOnce
<1>17. QED  BY <1>10, <1>11, <1>12, <1>13, <1>14, <1>15, <1>16

LEMMA UpsertStep ==
    ASSUME IInv, NEW slot \in Slots, NEW config \in Configs,
           UpsertPendingTask(slot, config)
    PROVE  IInv'
<1>1. SameWork(ReleaseExpired(tasks))  BY ReleaseKeepsWork DEF IInv
<1>2. QED  BY <1>1, UpsertActiveStep, UpsertNewStep DEF UpsertPendingTask

LEMMA InitInv == Init => IInv
<1> SUFFICES ASSUME Init PROVE IInv  OBVIOUS
<1>1. DOMAIN tasks = {} /\ grants = {} /\ issued = 0  BY DEF Init
<1>2. TypeOK  BY <1>1, MaxTasksAssumption DEF Init, TypeOK
<1>3. QED
  BY <1>1, <1>2 DEF Init, IInv, OneActiveTaskPerSlot, LeaseOnlyWhileHeld,
       AttemptIsFencingToken, ActiveTaskCarriesLatestConfig, ResultIsFromLatestClaim,
       ResultAcceptedOnce

LEMMA NextInv == IInv /\ [Next]_vars => IInv'
<1> SUFFICES ASSUME IInv, [Next]_vars PROVE IInv'  OBVIOUS
<1>1. ASSUME NEW slot \in Slots, NEW config \in Configs,
             UpsertPendingTask(slot, config)
      PROVE IInv'
  BY <1>1, UpsertStep
<1>2. ASSUME NEW w \in Workers, ClaimNextTask(w) PROVE IInv'  BY <1>2, ClaimStep
<1>3. ASSUME NEW g \in grants, HeartbeatTask(g) PROVE IInv'  BY <1>3, HeartbeatStep
<1>4. ASSUME NEW g \in grants, CompleteTask(g) PROVE IInv'  BY <1>4, CompleteStep
<1>5. ASSUME NEW g \in grants, FailTask(g) PROVE IInv'  BY <1>5, FailStep
<1>6. CASE ListActiveTasks  BY <1>6, ListStep
<1>7. ASSUME NEW which, ClearActiveTasks(which) PROVE IInv'  BY <1>7, ClearStep
<1>8. CASE TimePasses  BY <1>8, TimeStep
<1>9. CASE UNCHANGED vars
  BY <1>9 DEF vars, IInv, TypeOK, OneActiveTaskPerSlot, LeaseOnlyWhileHeld,
       AttemptIsFencingToken, ActiveTaskCarriesLatestConfig, ResultIsFromLatestClaim,
       ResultAcceptedOnce
<1>10. QED
  BY <1>1, <1>2, <1>3, <1>4, <1>5, <1>6, <1>7, <1>8, <1>9 DEF Next

\* All seven invariants of the queue hold in every reachable state.
THEOREM StoreInvariant == Spec => []IInv
<1>1. QED  BY InitInv, NextInv, PTL DEF Spec

\* The queue of core/scraper_task_store.py is well formed.
THEOREM StoreTypeOK == Spec => []TypeOK
<1>1. IInv => TypeOK  BY DEF IInv
<1>2. QED  BY <1>1, StoreInvariant, PTL

\* An active task always carries the configuration its slot asked for last:
\* what upsert_pending_task is given replaces that of the task already there.
THEOREM StoreLatestConfig == Spec => []ActiveTaskCarriesLatestConfig
<1>1. IInv => ActiveTaskCarriesLatestConfig  BY DEF IInv
<1>2. QED  BY <1>1, StoreInvariant, PTL

\* A source and step never have two active tasks.
THEOREM StoreOneActiveTask == Spec => []OneActiveTaskPerSlot
<1>1. IInv => OneActiveTaskPerSlot  BY DEF IInv
<1>2. QED  BY <1>1, StoreInvariant, PTL

\* Attempt numbers are fencing tokens.
THEOREM StoreFencing == Spec => []AttemptIsFencingToken
<1>1. IInv => AttemptIsFencingToken  BY DEF IInv
<1>2. QED  BY <1>1, StoreInvariant, PTL

\* The completion of a task is accepted once, whatever is reported later.
THEOREM StoreResultOnce == Spec => []ResultAcceptedOnce
<1>1. IInv => ResultAcceptedOnce  BY DEF IInv
<1>2. QED  BY <1>1, StoreInvariant, PTL

\* A completed task has the result of its latest claim and of no other, taken
\* once, and claims are told apart by their numbers.
THEOREM StoreResult == Spec => []ResultFenced
<1>1. IInv => ResultFenced  BY DEF IInv, ResultFenced
<1>2. QED  BY <1>1, StoreInvariant, PTL

-----------------------------------------------------------------------------
\* A lease that runs is ended only by its owner's report.
THEOREM StoreLeaseExclusive == Spec => LiveLeaseIsExclusive
<1> DEFINE Exclusive ==
      \A t \in DOMAIN tasks :
          /\ tasks[t].left > 0
          /\ t \in DOMAIN tasks'
          /\ tasks'[t].owner # tasks[t].owner
          => /\ tasks'[t].status \in Terminal
             /\ \E g \in grants : /\ g.worker = tasks[t].owner
                                  /\ g.task = t
                                  /\ g.attempt = tasks[t].attempt
<1>1. IInv /\ [Next]_vars => [Exclusive]_vars
  <2> SUFFICES ASSUME IInv, Next,
                      NEW t \in DOMAIN tasks, tasks[t].left > 0, t \in DOMAIN tasks',
                      tasks'[t].owner # tasks[t].owner
               PROVE  /\ tasks'[t].status \in Terminal
                      /\ \E g \in grants : /\ g.worker = tasks[t].owner
                                           /\ g.task = t
                                           /\ g.attempt = tasks[t].attempt
    OBVIOUS
  <2>1. /\ tasks[t] \in Task /\ tasks[t].owner # NoWorker /\ tasks[t].status \in Leased
        /\ tasks[t].left \in Nat
        /\ tasks \in [DOMAIN tasks -> Task]
        /\ \A g \in grants : g \in Grant
    BY DEF IInv, TypeOK, LeaseOnlyWhileHeld, Task
  <2>2. /\ DOMAIN ReleaseExpired(tasks) = DOMAIN tasks
        /\ ReleaseExpired(tasks)[t] = tasks[t]
    BY <2>1 DEF ReleaseExpired
  <2>3. ASSUME NEW slot \in Slots, NEW config \in Configs, UpsertPendingTask(slot, config)
        PROVE  FALSE
    <3> DEFINE queue == ReleaseExpired(tasks)
    <3> HIDE DEF queue
    <3>1. DOMAIN queue = DOMAIN tasks /\ queue[t] = tasks[t]  BY <2>2 DEF queue
    <3>2. CASE CreateTask(queue, slot, config)
      BY <3>1, <3>2, <2>1 DEF CreateTask, IInv, TypeOK
    <3>3. CASE ReuseTask(queue, slot, config)
      <4>1. PICK u \in DOMAIN queue : tasks' = [queue EXCEPT ![u] = Rewritten(queue[u], config)]
        BY <3>3 DEF ReuseTask, ActiveIn
      <4>2. t = u  BY <4>1, <3>1
      <4>3. tasks'[t] = Rewritten(tasks[t], config)  BY <4>1, <4>2, <3>1
      <4>4. Rewritten(tasks[t], config) = [tasks[t] EXCEPT !.config = config]
        BY <2>1 DEF Rewritten, Leased
      <4>5. QED  BY <4>3, <4>4, <2>1 DEF Task
    <3>4. QED  BY <3>2, <3>3, <2>3 DEF UpsertPendingTask, queue
  <2>4. ASSUME NEW w \in Workers, ClaimNextTask(w) PROVE FALSE
    <3> DEFINE queue == ReleaseExpired(tasks)
    <3>1. PICK u \in PendingIn(queue) : tasks' = [queue EXCEPT ![u] = ClaimedBy(queue[u], w)]
      BY <2>4 DEF ClaimNextTask
    <3>2. u \in DOMAIN queue /\ queue[u].status = "pending"  BY DEF PendingIn
    <3>3. DOMAIN queue = DOMAIN tasks /\ queue[t] = tasks[t]  BY <2>2
    <3> HIDE DEF queue
    <3>4. u # t  BY <3>2, <3>3, <2>1 DEF Leased
    <3>5. QED  BY <3>1, <3>3, <3>4
  <2>5. ASSUME NEW g \in grants, HeartbeatTask(g) PROVE FALSE
    <3>1. t = g.task  BY <2>5, <2>1 DEF HeartbeatTask
    <3>2. tasks'[t] = WithLease(tasks[t], "running", g.worker, Lease)
      BY <2>5, <2>1, <3>1 DEF HeartbeatTask
    <3>3. tasks'[t].owner = g.worker  BY <3>2, <2>1 DEF WithLease, Task
    <3>4. QED  BY <2>5, <2>1, <3>1, <3>3 DEF HeartbeatTask, ForeignLease
  <2>6. ASSUME NEW g \in grants, CompleteTask(g) \/ FailTask(g)
        PROVE  /\ tasks'[t].status \in Terminal
               /\ g.worker = tasks[t].owner
               /\ g.task = t
               /\ g.attempt = tasks[t].attempt
    <3>1. PICK st \in Terminal :
             tasks' = [tasks EXCEPT ![g.task] = WithLease(@, st, NoWorker, 0)]
      BY <2>6 DEF CompleteTask, FailTask, CanFail, Terminal
    <3>2. t = g.task  BY <3>1, <2>1
    <3>3. tasks'[t] = WithLease(tasks[t], st, NoWorker, 0)  BY <3>1, <3>2, <2>1
    <3>4. tasks'[t].status = st  BY <3>3, <2>1 DEF WithLease, Task
    <3>5. g.attempt = tasks[t].attempt /\ ~ForeignLease(t, g.worker)
      BY <2>6, <3>2 DEF CompleteTask, FailTask, CanFail, CanComplete
    <3>6. QED  BY <3>2, <3>4, <3>5, <2>1 DEF ForeignLease
  <2>7. CASE ListActiveTasks  BY <2>7, <2>2 DEF ListActiveTasks
  <2>8. ASSUME NEW which, ClearActiveTasks(which) PROVE FALSE
    BY <2>8 DEF ClearActiveTasks
  <2>9. CASE TimePasses
    <3>1. tasks'[t] = [tasks[t] EXCEPT !.left = @ - 1]  BY <2>9 DEF TimePasses
    <3>2. QED  BY <3>1, <2>1 DEF Task
  <2>10. QED
    BY <2>3, <2>4, <2>5, <2>6, <2>7, <2>8, <2>9 DEF Next
<1>2. QED  BY <1>1, StoreInvariant, PTL DEF Spec, LiveLeaseIsExclusive

-----------------------------------------------------------------------------
(***************************************************************************)
(* The store implements FencedJobs.                                        *)
(***************************************************************************)
\* A step that keeps the tasks, their tokens and whether they are done or
\* failed is a stuttering step of the job queue.
LEMMA SameJobs ==
    ASSUME DOMAIN tasks' = DOMAIN tasks, UNCHANGED <<issued, resultOf>>,
           \A t \in DOMAIN tasks :
               /\ tasks'[t].attempt = tasks[t].attempt
               /\ tasks'[t].status = "completed" <=> tasks[t].status = "completed"
               /\ tasks'[t].status = "failed" <=> tasks[t].status = "failed"
    PROVE  UNCHANGED <<JobState, JobToken, JobResult>>
<1>1. JobState' = JobState  BY DEF JobState
<1>2. JobToken' = JobToken  BY DEF JobToken
<1>3. JobResult' = JobResult  BY DEF JobResult
<1>4. QED  BY <1>1, <1>2, <1>3

LEMMA SameWorkSameJobs ==
    ASSUME IInv, SameWork(tasks'), UNCHANGED <<issued, resultOf>>
    PROVE  UNCHANGED <<JobState, JobToken, JobResult>>
<1>1. ASSUME NEW t \in DOMAIN tasks
      PROVE  tasks'[t].status = "failed" <=> tasks[t].status = "failed"
  <2>1. tasks[t] \in Task /\ tasks'[t] \in Task
    BY DEF IInv, TypeOK, SameWork
  <2>2. QED  BY <2>1 DEF SameWork, Task, Active, Terminal
<1>2. DOMAIN tasks' = DOMAIN tasks  BY DEF SameWork
<1>3. QED  BY <1>1, <1>2, SameJobs DEF SameWork

\* What the mapping says of one task
LEMMA JobOf ==
    ASSUME NEW t \in TaskIds
    PROVE  /\ JobState[t] = IF t \notin DOMAIN tasks
                            THEN IF t <= issued THEN "withdrawn" ELSE "absent"
                            ELSE IF tasks[t].status = "completed" THEN "done"
                            ELSE IF tasks[t].status = "failed" THEN "failed" ELSE "open"
           /\ JobToken[t] = IF t \in DOMAIN tasks THEN tasks[t].attempt ELSE 0
           /\ JobResult[t] = IF resultOf[t] = NoGrant THEN 0 ELSE resultOf[t].attempt
BY DEF JobState, JobToken, JobResult

LEMMA CreateImplementsOffer ==
    ASSUME IInv, NEW slot \in Slots, NEW config \in Configs,
           NEW queue, SameWork(queue), CreateTask(queue, slot, config),
           UNCHANGED resultOf
    PROVE  \E j \in TaskIds : Jobs!Offer(j)
<1> DEFINE id == issued + 1
<1>1. /\ issued \in Nat /\ id \in TaskIds /\ id \notin DOMAIN tasks
      /\ issued' = issued + 1
      /\ DOMAIN queue = DOMAIN tasks
      /\ DOMAIN tasks' = DOMAIN tasks \cup {id}
      /\ tasks'[id] = NewTask(slot, config)
      /\ \A t \in DOMAIN tasks : tasks'[t] = queue[t]
      /\ \A t \in DOMAIN tasks : t \in Nat /\ t # id
  BY MaxTasksAssumption DEF IInv, TypeOK, CreateTask, SameWork, TaskIds
<1>2. ASSUME NEW t \in DOMAIN tasks
      PROVE  /\ tasks'[t].attempt = tasks[t].attempt
             /\ tasks'[t].status = "completed" <=> tasks[t].status = "completed"
             /\ tasks'[t].status = "failed" <=> tasks[t].status = "failed"
  <2>1. tasks[t] \in Task /\ queue[t] \in Task  BY DEF IInv, TypeOK, SameWork
  <2>2. QED  BY <2>1, <1>1 DEF SameWork, Task, Active, Terminal
<1>3. tasks'[id].attempt = 0 /\ tasks'[id].status = "pending"
  BY <1>1 DEF NewTask
<1>4. JobState[id] = "absent"  BY <1>1, JobOf DEF TaskIds
<1>5. JobState' = [JobState EXCEPT ![id] = "open"]
  <2>1. ASSUME NEW t \in TaskIds
        PROVE  JobState'[t] = IF t = id THEN "open" ELSE JobState[t]
    <3>1. CASE t = id  BY <3>1, <1>1, <1>3 DEF JobState
    <3>2. CASE t # id  BY <3>2, <1>1, <1>2 DEF JobState, TaskIds
    <3>3. QED  BY <3>1, <3>2
  <2>2. JobState' = [t \in TaskIds |-> JobState'[t]]  BY DEF JobState
  <2>3. JobState = [t \in TaskIds |-> JobState[t]]  BY DEF JobState
  <2>4. QED  BY <2>1, <2>2, <2>3
<1>6. JobToken' = JobToken
  BY <1>1, <1>2, <1>3 DEF JobToken
<1>7. JobResult' = JobResult  BY DEF JobResult
<1>8. QED  BY <1>1, <1>4, <1>5, <1>6, <1>7 DEF Jobs!Offer

LEMMA ReuseIsStutter ==
    ASSUME IInv, NEW slot \in Slots, NEW config \in Configs,
           NEW queue, SameWork(queue), ReuseTask(queue, slot, config),
           UNCHANGED resultOf
    PROVE  UNCHANGED <<JobState, JobToken, JobResult>>
<1>1. PICK u \in ActiveIn(queue, slot) :
        /\ tasks' = [queue EXCEPT ![u] = Rewritten(queue[u], config)]
        /\ issued' = issued
  BY DEF ReuseTask
<1>2. u \in DOMAIN tasks /\ DOMAIN queue = DOMAIN tasks /\ DOMAIN tasks' = DOMAIN tasks
  BY <1>1 DEF ActiveIn, SameWork
<1>3. ASSUME NEW t \in DOMAIN tasks
      PROVE  /\ tasks'[t].attempt = tasks[t].attempt
             /\ tasks'[t].status = "completed" <=> tasks[t].status = "completed"
             /\ tasks'[t].status = "failed" <=> tasks[t].status = "failed"
  <2>1. tasks[t] \in Task /\ queue[t] \in Task  BY DEF IInv, TypeOK, SameWork
  <2>2. /\ queue[t].attempt = tasks[t].attempt
        /\ queue[t].status = "completed" <=> tasks[t].status = "completed"
        /\ queue[t].status = "failed" <=> tasks[t].status = "failed"
    BY <2>1 DEF SameWork, Task, Active, Terminal
  <2>3. CASE t = u
    <3>1. tasks'[t] = Rewritten(queue[t], config)  BY <1>1, <1>2, <2>3
    <3>2. CASE queue[t].status = "pending"
      <4>1. tasks'[t] = [WithLease(queue[t], "pending", NoWorker, 0) EXCEPT !.config = config]
        BY <3>1, <3>2 DEF Rewritten, Released
      <4>2. "pending" \in Active \cup Terminal  BY DEF Active
      <4>3. tasks'[t].attempt = queue[t].attempt /\ tasks'[t].status = "pending"
        BY <4>1, <4>2, <2>1, LeaseEnd DEF Task
      <4>4. QED  BY <4>3, <3>2, <2>2
    <3>3. CASE queue[t].status # "pending"
      <4>1. tasks'[t] = [queue[t] EXCEPT !.config = config]
        BY <3>1, <3>3 DEF Rewritten
      <4>2. QED  BY <4>1, <2>1, <2>2 DEF Task
    <3>4. QED  BY <3>2, <3>3
  <2>4. CASE t # u  BY <2>4, <2>2, <1>1, <1>2
  <2>5. QED  BY <2>3, <2>4
<1>4. QED  BY <1>1, <1>2, <1>3, SameJobs

LEMMA ClaimImplementsHandOut ==
    ASSUME IInv, NEW w \in Workers, ClaimNextTask(w)
    PROVE  \E j \in TaskIds : Jobs!HandOut(j)
<1> DEFINE queue == ReleaseExpired(tasks)
<1>1. SameWork(queue)  BY ReleaseKeepsWork DEF IInv
<1>2. PICK t \in PendingIn(queue) :
        /\ tasks' = [queue EXCEPT ![t] = ClaimedBy(queue[t], w)]
        /\ UNCHANGED <<issued, resultOf>>
  BY DEF ClaimNextTask
<1> HIDE DEF queue
<1>3. /\ t \in DOMAIN tasks /\ t \in TaskIds
      /\ DOMAIN queue = DOMAIN tasks /\ DOMAIN tasks' = DOMAIN tasks
      /\ queue[t] \in Task /\ queue[t].status = "pending"
      /\ \A u \in DOMAIN tasks : u # t => tasks'[u] = queue[u]
      /\ tasks'[t] = ClaimedBy(queue[t], w)
  BY <1>1, <1>2, MaxTasksAssumption DEF IInv, TypeOK, PendingIn, SameWork, TaskIds
<1>4. ASSUME NEW u \in DOMAIN tasks
      PROVE  /\ queue[u].attempt = tasks[u].attempt
             /\ queue[u].status = "completed" <=> tasks[u].status = "completed"
             /\ queue[u].status = "failed" <=> tasks[u].status = "failed"
  <2>1. tasks[u] \in Task /\ queue[u] \in Task  BY <1>1 DEF IInv, TypeOK, SameWork
  <2>2. QED  BY <2>1, <1>1 DEF SameWork, Task, Active, Terminal
<1>5. tasks'[t].attempt = tasks[t].attempt + 1 /\ tasks'[t].status = "claimed"
  <2>1. "claimed" \in Active \cup Terminal /\ w \in Workers \cup {NoWorker}
    BY DEF Active
  <2>2. /\ WithLease(queue[t], "claimed", w, Lease) \in Task
        /\ WithLease(queue[t], "claimed", w, Lease).status = "claimed"
    BY <2>1, <1>3, LeaseChange, LeasePositive
  <2>3. QED  BY <2>2, <1>3, <1>4 DEF ClaimedBy, Task
<1>6. JobState[t] = "open"  BY <1>3, <1>4, JobOf
<1>7. JobState' = JobState  BY <1>2, <1>3, <1>4, <1>5 DEF JobState
<1>8. JobToken' = [JobToken EXCEPT ![t] = @ + 1]
  <2>1. ASSUME NEW u \in TaskIds
        PROVE  JobToken'[u] = IF u = t THEN JobToken[t] + 1 ELSE JobToken[u]
    BY <1>3, <1>4, <1>5 DEF JobToken
  <2>2. JobToken' = [u \in TaskIds |-> JobToken'[u]]  BY DEF JobToken
  <2>3. JobToken = [u \in TaskIds |-> JobToken[u]]  BY DEF JobToken
  <2>4. QED  BY <2>1, <2>2, <2>3, <1>3
<1>9. JobResult' = JobResult  BY <1>2 DEF JobResult
<1>10. QED  BY <1>3, <1>6, <1>7, <1>8, <1>9 DEF Jobs!HandOut

LEMMA CompleteImplementsFinish ==
    ASSUME IInv, NEW g \in grants, CompleteTask(g)
    PROVE  \E j \in TaskIds : Jobs!Finish(j)
<1> DEFINE t == g.task
<1>1. /\ g \in Grant /\ t \in DOMAIN tasks /\ t \in TaskIds
      /\ tasks[t] \in Task
      /\ tasks[t].status # "completed"
      /\ tasks[t].attempt = g.attempt /\ g.attempt \in Nat /\ g.attempt > 0
      /\ tasks' = [tasks EXCEPT ![t] = WithLease(@, "completed", NoWorker, 0)]
      /\ resultOf' = [resultOf EXCEPT ![t] = g]
      /\ UNCHANGED issued
  BY MaxAttemptsAssumption DEF IInv, TypeOK, CompleteTask, CanComplete, Grant
<1> HIDE DEF t
<1>2. tasks'[t].status = "completed" /\ tasks'[t].attempt = tasks[t].attempt
  <2>1. "completed" \in Active \cup Terminal  BY DEF Terminal
  <2>2. QED  BY <2>1, <1>1, LeaseEnd DEF IInv, TypeOK
<1>3. DOMAIN tasks' = DOMAIN tasks /\ \A u \in DOMAIN tasks : u # t => tasks'[u] = tasks[u]
  BY <1>1 DEF IInv, TypeOK
<1>4. JobState[t] \in {"open", "failed"} /\ JobToken[t] = g.attempt
  BY <1>1, JobOf
<1>5. JobState' = [JobState EXCEPT ![t] = "done"]
  <2>1. ASSUME NEW u \in TaskIds
        PROVE  JobState'[u] = IF u = t THEN "done" ELSE JobState[u]
    BY <1>1, <1>2, <1>3 DEF JobState
  <2>2. JobState' = [u \in TaskIds |-> JobState'[u]]  BY DEF JobState
  <2>3. JobState = [u \in TaskIds |-> JobState[u]]  BY DEF JobState
  <2>4. QED  BY <2>1, <2>2, <2>3, <1>1
<1>6. JobToken' = JobToken  BY <1>2, <1>3 DEF JobToken
<1>7. JobResult' = [JobResult EXCEPT ![t] = JobToken[t]]
  <2>1. ASSUME NEW u \in TaskIds
        PROVE  JobResult'[u] = IF u = t THEN g.attempt ELSE JobResult[u]
    BY <1>1, NoGrantAssumption DEF JobResult, IInv, TypeOK
  <2>2. JobResult' = [u \in TaskIds |-> JobResult'[u]]  BY DEF JobResult
  <2>3. JobResult = [u \in TaskIds |-> JobResult[u]]  BY DEF JobResult
  <2>4. QED  BY <2>1, <2>2, <2>3, <1>1, <1>4
<1>8. QED  BY <1>1, <1>4, <1>5, <1>6, <1>7 DEF Jobs!Finish

LEMMA FailImplementsGiveUp ==
    ASSUME IInv, NEW g \in grants, FailTask(g)
    PROVE  \E j \in TaskIds : Jobs!GiveUp(j)
<1> DEFINE t == g.task
<1>1. /\ g \in Grant /\ t \in DOMAIN tasks /\ t \in TaskIds
      /\ tasks[t] \in Task
      /\ tasks[t].status # "completed" /\ tasks[t].status # "failed"
      /\ tasks[t].attempt = g.attempt /\ g.attempt \in Nat /\ g.attempt > 0
      /\ tasks' = [tasks EXCEPT ![t] = WithLease(@, "failed", NoWorker, 0)]
      /\ UNCHANGED <<issued, resultOf>>
  BY MaxAttemptsAssumption DEF IInv, TypeOK, FailTask, CanFail, Grant, Terminal
<1> HIDE DEF t
<1>2. tasks'[t].status = "failed" /\ tasks'[t].attempt = tasks[t].attempt
  <2>1. "failed" \in Active \cup Terminal  BY DEF Terminal
  <2>2. QED  BY <2>1, <1>1, LeaseEnd DEF IInv, TypeOK
<1>3. DOMAIN tasks' = DOMAIN tasks /\ \A u \in DOMAIN tasks : u # t => tasks'[u] = tasks[u]
  BY <1>1 DEF IInv, TypeOK
<1>4. JobState[t] = "open" /\ JobToken[t] > 0  BY <1>1, JobOf
<1>5. JobState' = [JobState EXCEPT ![t] = "failed"]
  <2>1. ASSUME NEW u \in TaskIds
        PROVE  JobState'[u] = IF u = t THEN "failed" ELSE JobState[u]
    BY <1>1, <1>2, <1>3 DEF JobState
  <2>2. JobState' = [u \in TaskIds |-> JobState'[u]]  BY DEF JobState
  <2>3. JobState = [u \in TaskIds |-> JobState[u]]  BY DEF JobState
  <2>4. QED  BY <2>1, <2>2, <2>3, <1>1
<1>6. JobToken' = JobToken  BY <1>2, <1>3 DEF JobToken
<1>7. JobResult' = JobResult  BY <1>1 DEF JobResult
<1>8. QED  BY <1>1, <1>4, <1>5, <1>6, <1>7 DEF Jobs!GiveUp

LEMMA ClearImplementsWithdraw ==
    ASSUME IInv, NEW which, ClearActiveTasks(which)
    PROVE  \E gone \in SUBSET TaskIds : Jobs!Withdraw(gone)
<1> DEFINE kept == {t \in DOMAIN tasks : \/ tasks[t].status \notin Active
                                        \/ tasks[t].slot[1] \notin which}
           gone == DOMAIN tasks \ kept
<1>1. /\ DOMAIN tasks' = kept
      /\ \A t \in kept : tasks'[t] = tasks[t]
      /\ UNCHANGED <<issued, resultOf>>
  BY DEF ClearActiveTasks
<1>2. /\ kept \subseteq DOMAIN tasks
      /\ \A t \in gone : t \in DOMAIN tasks /\ tasks[t].status \in Active
  OBVIOUS
<1>3. DOMAIN tasks \subseteq TaskIds /\ \A t \in DOMAIN tasks : t <= issued
  BY MaxTasksAssumption DEF IInv, TypeOK, TaskIds
<1> HIDE DEF kept
<1>4. \A t \in gone : JobState[t] = "open"
  BY <1>2, <1>3, JobOf DEF Active
<1>5. JobState' = [j \in TaskIds |-> IF j \in gone THEN "withdrawn" ELSE JobState[j]]
  <2>1. ASSUME NEW j \in TaskIds
        PROVE  JobState'[j] = IF j \in gone THEN "withdrawn" ELSE JobState[j]
    BY <1>1, <1>2, <1>3 DEF JobState
  <2>2. JobState' = [j \in TaskIds |-> JobState'[j]]  BY DEF JobState
  <2>3. QED  BY <2>1, <2>2
<1>6. JobToken' = [j \in TaskIds |-> IF j \in gone THEN 0 ELSE JobToken[j]]
  <2>1. ASSUME NEW j \in TaskIds
        PROVE  JobToken'[j] = IF j \in gone THEN 0 ELSE JobToken[j]
    BY <1>1, <1>2 DEF JobToken
  <2>2. JobToken' = [j \in TaskIds |-> JobToken'[j]]  BY DEF JobToken
  <2>3. QED  BY <2>1, <2>2
<1>7. JobResult' = JobResult  BY <1>1 DEF JobResult
<1>8. gone \in SUBSET TaskIds  BY <1>3
<1>9. QED  BY <1>4, <1>5, <1>6, <1>7, <1>8 DEF Jobs!Withdraw

\* The queue of the code implements the abstract job queue.
THEOREM StoreImplementsFencedJobs == Spec => ImplementsFencedJobs
<1>1. Init => Jobs!Init
  <2> SUFFICES ASSUME Init PROVE Jobs!Init  OBVIOUS
  <2>1. DOMAIN tasks = {} /\ issued = 0  BY DEF Init
  <2>2. JobState = [t \in TaskIds |-> "absent"]  BY <2>1 DEF JobState, TaskIds
  <2>3. JobToken = [t \in TaskIds |-> 0]  BY <2>1 DEF JobToken
  <2>4. JobResult = [t \in TaskIds |-> 0]  BY DEF JobResult, Init
  <2>5. QED  BY <2>2, <2>3, <2>4 DEF Jobs!Init
<1>2. IInv /\ [Next]_vars => [Jobs!Next]_(Jobs!vars)
  <2> SUFFICES ASSUME IInv, [Next]_vars
               PROVE  Jobs!Next \/ UNCHANGED <<JobState, JobToken, JobResult>>
    BY DEF Jobs!vars
  <2>1. ASSUME NEW slot \in Slots, NEW config \in Configs, UpsertPendingTask(slot, config)
        PROVE  Jobs!Next \/ UNCHANGED <<JobState, JobToken, JobResult>>
    <3>1. SameWork(ReleaseExpired(tasks))  BY ReleaseKeepsWork DEF IInv
    <3>2. CASE CreateTask(ReleaseExpired(tasks), slot, config)
      <4>1. \E j \in TaskIds : Jobs!Offer(j)
        BY <2>1, <3>1, <3>2, CreateImplementsOffer DEF UpsertPendingTask
      <4>2. QED  BY <4>1 DEF Jobs!Next
    <3>3. CASE ReuseTask(ReleaseExpired(tasks), slot, config)
      BY <2>1, <3>1, <3>3, ReuseIsStutter DEF UpsertPendingTask
    <3>4. QED  BY <2>1, <3>2, <3>3 DEF UpsertPendingTask
  <2>2. ASSUME NEW w \in Workers, ClaimNextTask(w) PROVE Jobs!Next
    BY <2>2, ClaimImplementsHandOut DEF Jobs!Next
  <2>3. ASSUME NEW g \in grants, HeartbeatTask(g)
        PROVE  UNCHANGED <<JobState, JobToken, JobResult>>
    BY <2>3, HeartbeatKeepsWork, SameWorkSameJobs DEF HeartbeatTask
  <2>4. ASSUME NEW g \in grants, CompleteTask(g) PROVE Jobs!Next
    BY <2>4, CompleteImplementsFinish DEF Jobs!Next
  <2>5. ASSUME NEW g \in grants, FailTask(g) PROVE Jobs!Next
    BY <2>5, FailImplementsGiveUp DEF Jobs!Next
  <2>6. CASE ListActiveTasks
    <3>1. SameWork(tasks')  BY <2>6, ReleaseKeepsWork DEF IInv, ListActiveTasks
    <3>2. QED  BY <2>6, <3>1, SameWorkSameJobs DEF ListActiveTasks
  <2>7. ASSUME NEW which, ClearActiveTasks(which) PROVE Jobs!Next
    BY <2>7, ClearImplementsWithdraw DEF Jobs!Next
  <2>8. CASE TimePasses
    BY <2>8, TimeKeepsWork, SameWorkSameJobs DEF TimePasses
  <2>9. CASE UNCHANGED vars
    BY <2>9 DEF vars, JobState, JobToken, JobResult
  <2>10. QED
    BY <2>1, <2>2, <2>3, <2>4, <2>5, <2>6, <2>7, <2>8, <2>9 DEF Next
<1>3. QED
  BY <1>1, <1>2, StoreInvariant, PTL DEF Spec, ImplementsFencedJobs, Jobs!Spec

-----------------------------------------------------------------------------
(***************************************************************************)
(* The scraper daemon, with the queue, its windows and the dashboard       *)
(***************************************************************************)
\* A command that reports data knows the page it came from, and that is a page
\* of the task it reports about.
DataIsOfItsTask ==
    \A c \in calls : c.kind = "data" => c.page # NoGrant /\ c.page.task = c.grant.task

\* The queue of the backend with its own invariant, and what daemon and
\* dashboard know of it
DaemonIInv ==
    /\ IInv
    /\ DaemonTypeOK
    /\ DataIsOfItsTask
    /\ ResultFromPageOfTask
    /\ ActiveTaskIsHeard

-----------------------------------------------------------------------------
(***************************************************************************)
(* The types of the daemon's records, over the claims there were.          *)
(***************************************************************************)
CallKinds == {"data", "auth", "stop", "promote", "report"}
Invokers == TaskIds \cup {NoTask, Internal}
Starts(claims) == [grant : claims, progress : {"spawned", "closing"}]
CallsOf(claims) == [kind : CallKinds, grant : claims, page : claims \cup {NoGrant},
                    invoker : Invokers]
Handlers == {"no", "skip", "cancel", "clear", "cleared", "show"}
Watches == [task : TaskIds \cup {NoTask}, timer : {"idle", "armed", "fired"}]

\* DaemonTypeOK in these words
LEMMA DaemonTypes ==
    DaemonTypeOK <=>
        /\ TypeOK
        /\ active \in grants \cup {NoGrant} /\ page \in grants \cup {NoGrant}
        /\ handled \subseteq TaskIds
        /\ starting \subseteq Starts(grants)
        /\ calls \subseteq CallsOf(grants)
        /\ watch \in Watches
        /\ cancels \subseteq TaskIds \cup {NoTask}
        /\ handler \in Handlers /\ dropped \subseteq grants
        /\ source \in [TaskIds -> grants \cup {NoGrant}]
BY DEF DaemonTypeOK, Starts, CallsOf, Watches, CallKinds, Invokers, Handlers

\* ... and of the next state
LEMMA DaemonTypesNext ==
    DaemonTypeOK' <=>
        /\ TypeOK'
        /\ active' \in grants' \cup {NoGrant} /\ page' \in grants' \cup {NoGrant}
        /\ handled' \subseteq TaskIds
        /\ starting' \subseteq Starts(grants')
        /\ calls' \subseteq CallsOf(grants')
        /\ watch' \in Watches
        /\ cancels' \subseteq TaskIds \cup {NoTask}
        /\ handler' \in Handlers /\ dropped' \subseteq grants'
        /\ source' \in [TaskIds -> grants' \cup {NoGrant}]
BY DEF DaemonTypeOK, Starts, CallsOf, Watches, CallKinds, Invokers, Handlers

\* A command of the daemon, and what it holds
LEMMA CallIs ==
    \A kind \in CallKinds, g \in grants, from \in grants \cup {NoGrant}, invoker \in Invokers :
        /\ Call(kind, g, from, invoker) \in CallsOf(grants)
        /\ Call(kind, g, from, invoker).kind = kind
        /\ Call(kind, g, from, invoker).grant = g
        /\ Call(kind, g, from, invoker).page = from
BY DEF Call, CallsOf

\* A start, and what it holds
LEMMA StartIs ==
    ASSUME NEW claims, NEW g \in claims
    PROVE  /\ Spawned(g) \in Starts(claims) /\ Closing(g) \in Starts(claims)
           /\ Spawned(g).grant = g /\ Closing(g).grant = g
BY DEF Spawned, Closing, Starts

\* What the dashboard watches after an event is a task, or nothing.
LEMMA WatchIs ==
    ASSUME watch \in Watches, NEW t \in TaskIds
    PROVE  Watching(t) \in Watches
BY DEF Watches, Watching

\* Without the task it still watches a task, or nothing.
LEMMA UnwatchIs ==
    ASSUME watch \in Watches, NEW t
    PROVE  Unwatched(t) \in Watches /\ NoWatch \in Watches
BY DEF Watches, Unwatched, NoWatch, NoTask

\* A claim is of a task, and is not the absence of one.
LEMMA ClaimIs ==
    ASSUME TypeOK, NEW g \in grants
    PROVE  g.task \in TaskIds /\ g # NoGrant
BY NoGrantAssumption DEF TypeOK, Grant

-----------------------------------------------------------------------------
(***************************************************************************)
(* Steps that leave most of it alone.                                      *)
(***************************************************************************)
\* A step of the daemon that makes no call of the backend leaves the queue
\* alone, and one that does is a step of the queue.
LEMMA StoreKept == IInv /\ UNCHANGED vars => IInv'
BY NextInv

\* The parts that are not about types, where nothing is reported as data
LEMMA PartsKept ==
    ASSUME DaemonIInv, IInv', DaemonTypeOK',
           source' = source, handled' \subseteq handled,
           active' = active \/ active' = NoGrant,
           \A c \in calls : c.kind = "data" => c \in calls',
           \A c \in calls' : c \in calls \/ c.kind # "data"
    PROVE  DaemonIInv'
<1>1. DataIsOfItsTask'
    BY DEF DaemonIInv, DataIsOfItsTask
<1>2. ResultFromPageOfTask'
    BY DEF DaemonIInv, ResultFromPageOfTask
<1>3. ActiveTaskIsHeard'
    BY DEF DaemonIInv, ActiveTaskIsHeard
<1>4. QED
    BY <1>1, <1>2, <1>3 DEF DaemonIInv

-----------------------------------------------------------------------------
\* A daemon that starts has no task and no command under way.
LEMMA DaemonInitInv == DaemonInit => DaemonIInv
<1> SUFFICES ASSUME DaemonInit PROVE DaemonIInv
    OBVIOUS
<1>1. IInv /\ TypeOK
    BY InitInv DEF DaemonInit, IInv
<1>2. watch \in Watches
    BY DEF DaemonInit, NoWatch, NoTask, Watches
<1>3. DaemonTypeOK
    BY <1>1, <1>2, DaemonTypes DEF DaemonInit, Handlers
<1>4. QED
    BY <1>1, <1>3
       DEF DaemonInit, DaemonIInv, DataIsOfItsTask, ResultFromPageOfTask, ActiveTaskIsHeard

\* The dashboard alone: timers, buttons and their handlers, and leaving it
LEMMA DashboardInv ==
    ASSUME DaemonIInv,
           TimerFires \/ Skip \/ SkipNothing \/ HandlerGoesOn \/ LeaveDashboard
    PROVE  DaemonIInv'
<1>1. UNCHANGED <<active, handled, starting, page, calls, source>>
    BY DEF TimerFires, Skip, SkipNothing, HandlerGoesOn, CancelReturns, QueueCleared,
           HandlerReturns, LeaveDashboard
<1>2. IInv' /\ TypeOK' /\ grants' = grants
    <2>1. CASE UNCHANGED vars
        BY <2>1, StoreKept DEF DaemonIInv, IInv, vars
    <2>2. CASE ClearActiveTasks(Sources)
        BY <2>2, ClearStep DEF DaemonIInv, IInv, ClearActiveTasks
    <2>3. QED
        BY <2>1, <2>2
           DEF TimerFires, Skip, SkipNothing, HandlerGoesOn, CancelReturns,
               QueueCleared, HandlerReturns, LeaveDashboard
<1>3. /\ watch \in Watches /\ cancels \subseteq TaskIds \cup {NoTask}
      /\ handler \in Handlers /\ dropped \subseteq grants
      /\ active \in grants \cup {NoGrant}
    BY DaemonTypes DEF DaemonIInv
<1>4. NoWatch \in Watches
    BY <1>3, UnwatchIs
<1>5. watch' \in Watches /\ cancels' \subseteq TaskIds \cup {NoTask}
    <2>1. CASE TimerFires
        <3>1. watch.task \in TaskIds \cup {NoTask}
            BY <1>3 DEF Watches
        <3>2. watch' \in Watches
            BY <1>3, <2>1 DEF TimerFires, Watches
        <3>3. QED
            BY <1>3, <2>1, <3>1, <3>2 DEF TimerFires
    <2>2. CASE Skip \/ SkipNothing \/ CancelReturns \/ QueueCleared
        BY <1>3, <2>2 DEF Skip, SkipNothing, CancelReturns, QueueCleared
    <2>3. CASE HandlerReturns \/ LeaveDashboard
        BY <1>3, <1>4, <2>3 DEF HandlerReturns, LeaveDashboard
    <2>4. QED
        BY <2>1, <2>2, <2>3 DEF HandlerGoesOn
<1>6. handler' \in Handlers /\ dropped' \subseteq grants
    BY <1>3 DEF TimerFires, Skip, SkipNothing, Pressed, HandlerGoesOn, CancelReturns,
                QueueCleared, HandlerReturns, LeaveDashboard, Handlers
<1>7. DaemonTypeOK'
    BY <1>1, <1>2, <1>5, <1>6, DaemonTypes, DaemonTypesNext DEF DaemonIInv
<1>8. QED
    BY <1>1, <1>2, <1>7, PartsKept

\* The backend alone: flows, users and the clock
LEMMA BackendInv == DaemonIInv /\ (Backend \/ Clock \/ Heartbeat) => DaemonIInv'
<1> SUFFICES ASSUME DaemonIInv, Backend \/ Clock \/ Heartbeat PROVE DaemonIInv'
    OBVIOUS
<1>1. UNCHANGED <<active, handled, starting, page, calls, watch, cancels, handler,
                dropped, source>>
    BY DEF Backend, Clock, Heartbeat, uiVars
<1>2. IInv' /\ grants' = grants
    <2>1. CASE Backend
        <3>1. ASSUME NEW slot \in Slots, NEW config \in Configs, UpsertPendingTask(slot, config)
              PROVE  IInv' /\ grants' = grants
            BY <3>1, UpsertStep DEF DaemonIInv, UpsertPendingTask
        <3>2. ASSUME NEW s \in Sources, ClearActiveTasks({s})
              PROVE  IInv' /\ grants' = grants
            BY <3>2, ClearStep DEF DaemonIInv, ClearActiveTasks
        <3>3. QED
            BY <2>1, <3>1, <3>2 DEF Backend
    <2>2. CASE Clock
        <3>1. TimePasses
            BY <2>2 DEF Clock
        <3>2. QED
            BY <3>1, TimeStep DEF DaemonIInv, TimePasses
    <2>3. CASE Heartbeat
        <3>1. active \in grants /\ HeartbeatTask(active)
            BY <2>3, DaemonTypes DEF Heartbeat, DaemonIInv
        <3>2. QED
            BY <3>1, HeartbeatStep DEF DaemonIInv, HeartbeatTask
    <2>4. QED
        BY <2>1, <2>2, <2>3
<1>3. DaemonTypeOK'
    BY <1>1, <1>2, DaemonTypes, DaemonTypesNext DEF DaemonIInv, IInv
<1>4. QED
    BY <1>1, <1>2, <1>3, PartsKept

\* The daemon claims a task.
LEMMA ClaimInv == DaemonIInv /\ Claim => DaemonIInv'
<1> SUFFICES ASSUME DaemonIInv, Claim PROVE DaemonIInv'
    OBVIOUS
<1>1. /\ ClaimNextTask(Daemon)
      /\ starting' = starting \/ starting' = starting \cup {Spawned(g) : g \in grants' \ grants}
      /\ UNCHANGED <<active, handled, page, calls, watch, cancels, handler, dropped,
                   source>>
    BY DEF Claim, uiVars
<1>2. IInv' /\ TypeOK'
    BY <1>1, ClaimStep, DaemonAssumption DEF DaemonIInv, IInv
<1>3. grants \subseteq grants'
    BY <1>1 DEF ClaimNextTask
<1>4. Starts(grants) \subseteq Starts(grants') /\ CallsOf(grants) \subseteq CallsOf(grants')
    BY <1>3 DEF Starts, CallsOf
<1>5. starting' \subseteq Starts(grants')
    BY <1>1, <1>4, StartIs, DaemonTypes DEF DaemonIInv
<1>6. source' \in [TaskIds -> grants' \cup {NoGrant}]
    BY <1>1, <1>3, DaemonTypes DEF DaemonIInv
<1>7. DaemonTypeOK'
    BY <1>1, <1>2, <1>3, <1>4, <1>5, <1>6, DaemonTypes, DaemonTypesNext DEF DaemonIInv
<1>8. QED
    BY <1>1, <1>2, <1>7, PartsKept

\* A start that begins makes its task active and takes it out of the handled
\* results: what the page of this attempt reports is heard.
LEMMA StartBeginsInv ==
    ASSUME DaemonIInv, NEW x \in starting, StartBegins(x)
    PROVE  DaemonIInv'
<1>1. /\ starting' = (starting \ {x}) \cup {Closing(x.grant)}
      /\ active' = x.grant /\ handled' = handled \ {x.grant.task}
      /\ watch' = Watching(x.grant.task)
      /\ UNCHANGED <<vars, page, calls, cancels, handler, dropped, source>>
    BY DEF StartBegins
<1>2. IInv' /\ TypeOK' /\ TypeOK /\ grants' = grants
    BY <1>1, StoreKept DEF DaemonIInv, IInv, vars
<1>3. x.grant \in grants
    BY DaemonTypes DEF DaemonIInv, Starts
<1>4. x.grant.task \in TaskIds
    BY <1>2, <1>3, ClaimIs
<1>5. watch' \in Watches /\ starting' \subseteq Starts(grants')
    BY <1>1, <1>2, <1>3, <1>4, WatchIs, StartIs, DaemonTypes DEF DaemonIInv
<1>6. DaemonTypeOK'
    BY <1>1, <1>2, <1>3, <1>5, DaemonTypes, DaemonTypesNext DEF DaemonIInv
<1>7. DataIsOfItsTask' /\ ResultFromPageOfTask'
    BY <1>1 DEF DaemonIInv, DataIsOfItsTask, ResultFromPageOfTask
<1>8. ActiveTaskIsHeard'
    BY <1>1 DEF ActiveTaskIsHeard
<1>9. QED
    BY <1>2, <1>6, <1>7, <1>8 DEF DaemonIInv

\* A start that goes on or fails
LEMMA StartGoesInv ==
    ASSUME DaemonIInv, NEW x \in starting, StartOpens(x) \/ StartInvalid(x) \/ StartFails(x)
    PROVE  DaemonIInv'
<1> DEFINE c == Call("report", x.grant, NoGrant, Internal)
<1>1. /\ starting' = starting \ {x}
      /\ active' = active \/ active' = NoGrant
      /\ page' \in {page, x.grant, NoGrant}
      /\ calls' = calls \/ calls' = calls \cup {c}
      /\ UNCHANGED <<vars, handled, watch, cancels, handler, dropped, source>>
    BY DEF StartOpens, StartInvalid, StartFails, uiVars
<1>2. IInv' /\ TypeOK' /\ grants' = grants
    BY <1>1, StoreKept DEF DaemonIInv, IInv, vars
<1>3. x.grant \in grants
    BY DaemonTypes DEF DaemonIInv, Starts
<1>4. c \in CallsOf(grants) /\ c.kind = "report"
    <2>1. "report" \in CallKinds /\ NoGrant \in grants \cup {NoGrant} /\ Internal \in Invokers
        BY DEF CallKinds, Invokers
    <2>2. ASSUME NEW g \in grants
          PROVE  /\ Call("report", g, NoGrant, Internal) \in CallsOf(grants)
                 /\ Call("report", g, NoGrant, Internal).kind = "report"
        BY <2>1, CallIs
    <2>3. QED
        BY <1>3, <2>2
<1> HIDE DEF c
<1>5. DaemonTypeOK'
    BY <1>1, <1>2, <1>3, <1>4, DaemonTypes, DaemonTypesNext DEF DaemonIInv
<1>6. QED
    BY <1>1, <1>2, <1>4, <1>5, PartsKept

\* The page reports data: the first report of a task goes to the backend as
\* that of the active task, if the page was opened for it.
LEMMA PageDataInv == DaemonIInv /\ PageData => DaemonIInv'
<1> SUFFICES ASSUME DaemonIInv, PageData PROVE DaemonIInv'
    OBVIOUS
<1> DEFINE c == Call("data", active, page, Internal)
<1>1. /\ page # NoGrant /\ handled' = handled \cup {page.task}
      /\ watch' = Unwatched(page.task)
      /\ UNCHANGED <<vars, active, starting, cancels, handler, dropped, source>>
    BY DEF PageData
<1>2. IInv' /\ TypeOK' /\ TypeOK /\ grants' = grants
    BY <1>1, StoreKept DEF DaemonIInv, IInv, vars
<1>3. page \in grants /\ page.task \in TaskIds
    BY <1>1, <1>2, ClaimIs, DaemonTypes DEF DaemonIInv
<1>4. watch' \in Watches
    BY <1>1, UnwatchIs, DaemonTypes DEF DaemonIInv
<1>5. CASE IsActive(page.task)
    <2>1. active \in grants /\ active.task = page.task
        BY <1>5, DaemonTypes DEF DaemonIInv, IsActive
    <2>2. calls' = calls \cup {c} /\ page' = page
        BY <1>5 DEF PageData, Makes
    <2>3. /\ c \in CallsOf(grants)
          /\ c.kind = "data" /\ c.page = page /\ c.grant = active
        <3>1. "data" \in CallKinds /\ page \in grants \cup {NoGrant} /\ Internal \in Invokers
            BY <1>3 DEF CallKinds, Invokers
        <3>2. QED
            BY <2>1, <3>1, CallIs
    <2> HIDE DEF c
    <2>4. DaemonTypeOK'
        BY <1>1, <1>2, <1>3, <1>4, <2>2, <2>3, DaemonTypes, DaemonTypesNext DEF DaemonIInv
    <2>5. DataIsOfItsTask'
        BY <1>1, <2>1, <2>2, <2>3 DEF DaemonIInv, DataIsOfItsTask
    <2>6. ResultFromPageOfTask'
        BY <1>1 DEF DaemonIInv, ResultFromPageOfTask
    <2>7. ActiveTaskIsHeard'
        BY <1>1, <2>2, <2>3, <2>1 DEF DaemonIInv, ActiveTaskIsHeard
    <2>8. QED
        BY <1>2, <2>4, <2>5, <2>6, <2>7 DEF DaemonIInv
<1>6. CASE ~IsActive(page.task)
    <2>1. calls' = calls /\ page' = NoGrant
        BY <1>6 DEF PageData
    <2>2. DaemonTypeOK'
        BY <1>1, <1>2, <1>3, <1>4, <2>1, DaemonTypes, DaemonTypesNext DEF DaemonIInv
    <2>3. DataIsOfItsTask' /\ ResultFromPageOfTask'
        BY <1>1, <2>1 DEF DaemonIInv, DataIsOfItsTask, ResultFromPageOfTask
    <2>4. ActiveTaskIsHeard'
        BY <1>1, <1>6, <2>1 DEF DaemonIInv, ActiveTaskIsHeard, IsActive
    <2>5. QED
        BY <1>2, <2>2, <2>3, <2>4 DEF DaemonIInv
<1>7. QED
    BY <1>5, <1>6

\* Commands that report anything else than data, up to their call
LEMMA CommandInv ==
    ASSUME DaemonIInv,
           \/ PageAuth \/ PageFloods \/ Promote
           \/ \E invoker \in cancels : Cancel(invoker)
    PROVE  DaemonIInv'
<1>1. /\ UNCHANGED <<vars, active, handled, starting, source>>
      /\ page' = page \/ page' = NoGrant
      /\ cancels' \subseteq cancels
      /\ dropped' = dropped /\ handler' \in {handler, "show"}
    BY DEF PageAuth, PageFloods, Promote, Pressed, Cancel
<1>2. IInv' /\ TypeOK' /\ grants' = grants
    BY <1>1, StoreKept DEF DaemonIInv, IInv, vars
<1>3. watch' \in Watches
    <2>1. watch \in Watches
        BY DaemonTypes DEF DaemonIInv
    <2>2. QED
        BY <2>1, UnwatchIs DEF PageAuth, PageFloods, Promote, Cancel
<1>4. PICK c : /\ calls' = calls \/ (active # NoGrant /\ calls' = calls \cup {c})
               /\ \E kind \in {"auth", "stop", "promote"}, from \in {page, NoGrant},
                     invoker \in cancels \cup {NoTask, Internal} : c = Call(kind, active, from, invoker)
    <2>1. ASSUME NEW invoker \in cancels, Cancel(invoker)
          PROVE  calls' = calls \/ (active # NoGrant
                   /\ calls' = calls \cup {Call("stop", active, NoGrant, invoker)})
        BY <2>1 DEF Cancel
    <2>2. CASE PageAuth
        BY <2>2 DEF PageAuth, Makes, IsActive
    <2>3. CASE PageFloods
        BY <2>3 DEF PageFloods, Makes
    <2>4. CASE Promote
        BY <2>4 DEF Promote, Pressed, Makes
    <2>5. QED
        BY <2>1, <2>2, <2>3, <2>4
<1>5. active # NoGrant => c \in CallsOf(grants) /\ c.kind # "data"
    <2>1. PICK kind \in {"auth", "stop", "promote"}, from \in {page, NoGrant},
               invoker \in cancels \cup {NoTask, Internal} : c = Call(kind, active, from, invoker)
        BY <1>4
    <2>2. /\ kind \in CallKinds /\ kind # "data" /\ from \in grants \cup {NoGrant}
          /\ invoker \in Invokers
        BY DaemonTypes DEF DaemonIInv, CallKinds, Invokers
    <2>3. active # NoGrant => active \in grants
        BY DaemonTypes DEF DaemonIInv
    <2>4. QED
        BY <2>1, <2>2, <2>3, CallIs
<1>6. DaemonTypeOK'
    <2>1. handler' \in Handlers
        BY <1>1, DaemonTypes DEF DaemonIInv, Handlers
    <2>2. QED
        BY <1>1, <1>2, <1>3, <1>4, <1>5, <2>1, DaemonTypes, DaemonTypesNext
           DEF DaemonIInv
<1>7. QED
    BY <1>1, <1>2, <1>4, <1>5, <1>6, PartsKept

\* A command whose call is answered or lost: only one that reports data changes
\* whose data was accepted, and only a start that failed leaves a task active.
LEMMA FinishInv ==
    ASSUME DaemonIInv, NEW c \in calls, Finish(c)
    PROVE  DaemonIInv'
<1>1. /\ Answered(c) /\ calls' = calls \ {c}
      /\ active' = LeftActive(c) /\ page' = LeftPage(c) /\ watch' = LeftWatch(c)
      /\ source' = IF accepted' # accepted
                   THEN [source EXCEPT ![c.grant.task] = c.page] ELSE source
      /\ UNCHANGED <<handled, starting, cancels, handler, dropped>>
    BY DEF Finish
<1>2. c \in CallsOf(grants) /\ c.grant \in grants /\ c.page \in grants \cup {NoGrant}
    BY DaemonTypes DEF DaemonIInv, CallsOf
<1>3. IInv' /\ grants' = grants /\ (c.kind # "data" => accepted' = accepted)
    <2>1. CASE Report(c)
        <3>1. CASE c.kind = "data"
            BY <1>2, <2>1, <3>1, CompleteStep DEF Report, DaemonIInv, CompleteTask
        <3>2. CASE c.kind # "data"
            BY <1>2, <2>1, <3>2, FailStep DEF Report, DaemonIInv, FailTask
        <3>3. QED
            BY <3>1, <3>2
    <2>2. CASE AfterRefusal(c)
        <3>1. CASE UNCHANGED vars
            BY <3>1, StoreKept DEF DaemonIInv, vars
        <3>2. CASE ClearActiveTasks({origin[c.grant.task]})
            BY <3>2, ClearStep DEF DaemonIInv, ClearActiveTasks
        <3>3. QED
            BY <2>2, <3>1, <3>2 DEF AfterRefusal
    <2>3. QED
        BY <1>1, <2>1, <2>2 DEF Answered
<1>4. watch' \in Watches /\ page' \in {page, NoGrant} /\ active' \in {active, NoGrant}
    <2>1. watch \in Watches
        BY DaemonTypes DEF DaemonIInv
    <2>2. QED
        BY <1>1, <2>1, UnwatchIs DEF LeftWatch, LeftPage, LeftActive
<1>5. source \in [TaskIds -> grants \cup {NoGrant}] /\ TypeOK
    BY DaemonTypes DEF DaemonIInv
<1>6. source' \in [TaskIds -> grants \cup {NoGrant}]
    BY <1>1, <1>2, <1>5
<1>7. DaemonTypeOK'
    <2>1. TypeOK'
        BY <1>3 DEF IInv
    <2>2. QED
        BY <1>1, <1>3, <1>4, <1>6, <2>1, DaemonTypes, DaemonTypesNext DEF DaemonIInv
<1>8. DataIsOfItsTask'
    BY <1>1 DEF DaemonIInv, DataIsOfItsTask
<1>9. ResultFromPageOfTask'
    <2>1. c.kind = "data" => c.page # NoGrant /\ c.page.task = c.grant.task
        BY DEF DaemonIInv, DataIsOfItsTask
    <2>2. \A t \in TaskIds : source'[t] = source[t] \/ (c.kind = "data" /\ t = c.grant.task
                                                     /\ source'[t] = c.page)
        BY <1>1, <1>3, <1>5
    <2>3. QED
        BY <2>1, <2>2 DEF DaemonIInv, ResultFromPageOfTask
<1>10. ActiveTaskIsHeard'
    <2>1. CASE c.kind = "report"
        <3>1. active' = active
            BY <1>1, <2>1 DEF LeftActive
        <3>2. QED
            BY <1>1, <2>1, <3>1 DEF DaemonIInv, ActiveTaskIsHeard
    <2>2. CASE c.kind # "report"
        BY <1>1, <2>2 DEF LeftActive, ActiveTaskIsHeard
    <2>3. QED
        BY <2>1, <2>2
<1>11. QED
    BY <1>3, <1>7, <1>8, <1>9, <1>10 DEF DaemonIInv

-----------------------------------------------------------------------------
\* Every step of daemon, dashboard and backend keeps the invariant.
LEMMA DaemonNextInv == DaemonIInv /\ [DaemonNext]_daemonVars => DaemonIInv'
<1> SUFFICES ASSUME DaemonIInv, [DaemonNext]_daemonVars PROVE DaemonIInv'
    OBVIOUS
<1>1. CASE DaemonNext
    BY <1>1, ClaimInv, BackendInv, DashboardInv, StartBeginsInv, StartGoesInv, PageDataInv,
       CommandInv, FinishInv DEF DaemonNext
<1>2. CASE UNCHANGED daemonVars
    <2>1. UNCHANGED <<vars, active, handled, starting, page, calls, watch, cancels,
                    handler, dropped, source>>
        BY <1>2 DEF daemonVars, uiVars
    <2>2. IInv' /\ TypeOK' /\ grants' = grants
        BY <2>1, StoreKept DEF DaemonIInv, IInv, vars
    <2>3. DaemonTypeOK'
        BY <2>1, <2>2, DaemonTypes, DaemonTypesNext DEF DaemonIInv
    <2>4. QED
        BY <2>1, <2>2, <2>3, PartsKept
<1>3. QED
    BY <1>1, <1>2

\* The invariant of queue, daemon and dashboard, in every state
THEOREM DaemonInvariant == DaemonSpec => []DaemonIInv
BY DaemonInitInv, DaemonNextInv, PTL DEF DaemonSpec

\* Followed as one side of the live state, they are what they are alone.
LEMMA LiveIsDaemon == LiveSpec => DaemonSpec
<1>1. LiveInit => DaemonInit
    BY DEF LiveInit
<1>2. [LiveNext]_liveVars => [DaemonNext]_daemonVars
    BY DEF LiveNext, liveVars
<1>3. QED
    BY <1>1, <1>2, PTL DEF LiveSpec, DaemonSpec

\* Data that arrives late from the window of an older task never becomes the
\* result of the task that is active by now: handle_scraped_data compares the
\* task of the page, and the call it makes is of that task.
THEOREM ResultOfItsPage == LiveSpec => []ResultFromPageOfTask
<1>1. DaemonIInv => ResultFromPageOfTask
    BY DEF DaemonIInv
<1>2. QED
    BY <1>1, DaemonInvariant, LiveIsDaemon, PTL

\* The deduplication of reports never swallows the data of the task in progress:
\* a start takes its task out of handled_results before its page is there.
THEOREM TaskIsHeard == LiveSpec => []ActiveTaskIsHeard
<1>1. DaemonIInv => ActiveTaskIsHeard
    BY DEF DaemonIInv
<1>2. QED
    BY <1>1, DaemonInvariant, LiveIsDaemon, PTL

\* The queue keeps its promise when it is driven by this daemon.
THEOREM DaemonResultFenced == LiveSpec => []ResultFenced
<1>1. DaemonIInv => ResultFenced
    BY DEF DaemonIInv, IInv, ResultFenced
<1>2. QED
    BY <1>1, DaemonInvariant, LiveIsDaemon, PTL

-----------------------------------------------------------------------------
(***************************************************************************)
(* The rows of the sources.  Numbers of updates tell records apart, so     *)
(* that what is said of a record and a row with the same number holds      *)
(* wherever either was copied to, and whatever order the copies arrive in. *)
(***************************************************************************)
WrittenStatus == {"active", "refreshing", "error", "suspended"}

RecordOf == [status : {"none"} \cup WrittenStatus, error : BOOLEAN, interaction : BOOLEAN,
             data : BOOLEAN, updated : Nat]
RowOf == [status : WrittenStatus, message : BOOLEAN, error : BOOLEAN, details : BOOLEAN,
          interaction : BOOLEAN, data : BOOLEAN, updated : Nat, interval : BOOLEAN]
StateOf == [status : WrittenStatus, message : BOOLEAN, interaction : BOOLEAN]

\* The record and its copies, and the lists on their way
Copies == {record, detail, answer} \ {NoRow}
Listed == {list.of : list \in lists} \ {NoRow}

\* Only an error has a text, and a record without a state has nothing of one.
WellFormed(r) ==
    /\ r \in RecordOf
    /\ r.error => r.status = "error"
    /\ r.status = "none" => ~r.interaction

\* A number stands for one record, and data is never lost.
Ordered(old, new) ==
    /\ old.updated = new.updated => old = new
    /\ old.updated <= new.updated => (old.data => new.data)

\* The state in memory is that of the record, if it has one.
Remembers(r, state) ==
    r.status # "none" => state.status = r.status /\ state.interaction = r.interaction

\* A row has no data that a record of its number or a later one has not.
HasNoMore(s, r) == s.updated <= r.updated => (s.data => r.data)

\* What a row says besides its status is what the record of its number says.
SaysAll(s, r) ==
    /\ HasNoMore(s, r)
    /\ s.updated = r.updated /\ r.status # "none" =>
          /\ s.message
          /\ (s.error \/ s.details) => r.status = "error"
          /\ s.interaction = r.interaction
          /\ s.data = r.data

RowFormed(s) == s \in RowOf /\ (s.details => s.message)

RowTypes ==
    /\ runtime \in StateOf
    /\ interval \in BOOLEAN
    /\ told \in Seq(WrittenStatus)
    /\ \A r \in Copies : WellFormed(r)
    /\ \A s \in Listed : RowFormed(s)
    /\ row # NoRow => RowFormed(row)

RecordIsNewest ==
    record # NoRow =>
        /\ \A r \in Copies : r.updated <= record.updated
        /\ \A s \in Listed : s.updated <= record.updated
        /\ row # NoRow => row.updated <= record.updated
        /\ Remembers(record, runtime)

\* Every list and every copy of the record agree, and so do the row and its
\* detail; the row may lack what an answer for no record took from it.
RowsAgree ==
    /\ \A old, new \in Copies : Ordered(old, new)
    /\ \A s \in Listed, r \in Copies : SaysAll(s, r)
    /\ row # NoRow =>
          /\ \A r \in Copies : HasNoMore(row, r)
          /\ detail # NoRow => SaysAll(row, detail)

RowsInv == RowTypes /\ RecordIsNewest /\ RowsAgree

\* What list_sources makes of a record says all that it says.
LEMMA ListRowIs ==
    ASSUME NEW r, WellFormed(r), NEW state \in StateOf, Remembers(r, state),
           interval \in BOOLEAN
    PROVE  LET s == ListRow(r, state)
           IN  /\ RowFormed(s)
               /\ s.updated = r.updated /\ s.data = r.data
               /\ r.status # "none" =>
                     /\ s.message
                     /\ (s.error \/ s.details) => r.status = "error"
                     /\ s.interaction = r.interaction
<1> DEFINE s == ListRow(r, state)
<1>1. /\ s.status \in WrittenStatus /\ s.message \in BOOLEAN /\ s.error \in BOOLEAN
      /\ s.details \in BOOLEAN /\ s.interaction \in BOOLEAN
    BY DEF ListRow, WellFormed, RecordOf, StateOf
<1>2. RowFormed(s)
    BY <1>1 DEF RowFormed, RowOf, ListRow, WellFormed, RecordOf
<1>3. QED
    BY <1>2 DEF ListRow, WellFormed, Remembers, RecordOf, StateOf

\* A list that is fetched agrees with every copy of the record.
LEMMA ListIs ==
    ASSUME RowsInv, record # NoRow
    PROVE  /\ RowFormed(List) /\ List.updated = record.updated
           /\ \A r \in Copies : SaysAll(List, r)
<1>1. record # NoRow /\ List = ListRow(record, runtime)
    BY DEF List
<1>2. record \in Copies
    BY <1>1 DEF Copies
<1>3. WellFormed(record) /\ runtime \in StateOf /\ interval \in BOOLEAN
    BY <1>2 DEF RowsInv, RowTypes
<1>4. Remembers(record, runtime)
    BY <1>1 DEF RowsInv, RecordIsNewest
<1>5. /\ RowFormed(List)
      /\ List.updated = record.updated /\ List.data = record.data
      /\ record.status # "none" =>
            /\ List.message
            /\ (List.error \/ List.details) => record.status = "error"
            /\ List.interaction = record.interaction
    BY <1>1, <1>3, <1>4, ListRowIs
<1>6. ASSUME NEW r \in Copies
      PROVE  SaysAll(List, r)
    <2>1. Ordered(record, r)
        BY <1>2 DEF RowsInv, RowsAgree
    <2>2. QED
        BY <1>5, <2>1 DEF Ordered, SaysAll, HasNoMore
<1>7. QED
    BY <1>1, <1>5, <1>6

\* A row over which a status is written says what it said.
Overwritten(s, status) == [s EXCEPT !.status = status]

LEMMA StatusWritten ==
    ASSUME NEW s, RowFormed(s), NEW status \in WrittenStatus
    PROVE  /\ RowFormed(Overwritten(s, status))
           /\ Overwritten(s, status).updated = s.updated
           /\ \A r : /\ HasNoMore(s, r) => HasNoMore(Overwritten(s, status), r)
                     /\ SaysAll(s, r) => SaysAll(Overwritten(s, status), r)
<1>1. PICK t : t = Overwritten(s, status)
    OBVIOUS
<1>2. /\ t \in RowOf
      /\ t.message = s.message /\ t.error = s.error /\ t.details = s.details
      /\ t.interaction = s.interaction /\ t.data = s.data /\ t.updated = s.updated
    BY <1>1 DEF Overwritten, RowFormed, RowOf
<1>3. RowFormed(t)
    BY <1>2 DEF RowFormed
<1>4. \A r : HasNoMore(s, r) => HasNoMore(t, r)
    BY <1>2 DEF HasNoMore
<1>5. \A r : SaysAll(s, r) => SaysAll(t, r)
    BY <1>2, <1>4 DEF SaysAll
<1>6. QED
    BY <1>1, <1>2, <1>3, <1>4, <1>5

\* A detail that is not older than the row makes it say all that it says; one of
\* no record takes its data and what is over, and leaves its number.
LEMMA MergedIs ==
    ASSUME NEW s, RowFormed(s), NEW d, WellFormed(d), HasNoMore(s, d),
           d # Unwritten => s.updated <= d.updated
    PROVE  /\ RowFormed(Merged(s, d))
           /\ SaysAll(Merged(s, d), d)
           /\ d # Unwritten =>
                 Merged(s, d).updated = d.updated /\ Merged(s, d).data = d.data
           /\ d = Unwritten =>
                 Merged(s, d).updated = s.updated /\ Merged(s, d).data = FALSE
<1> DEFINE status == IF d.status = "none" THEN s.status ELSE d.status
           message == s.message \/ d.status # "none" \/ d = Unwritten
           error == d.error \/ (s.error /\ status = "error")
           details == status = "error" /\ (message \/ s.details)
           action == IF d.status = "none"
                     THEN s.interaction /\ status \in {"error", "suspended"}
                     ELSE d.interaction
           full == d.data \/ (s.data /\ d # Unwritten)
           number == IF d = Unwritten THEN s.updated ELSE d.updated
<1>1. s \in RowOf /\ d \in RecordOf
    BY DEF RowFormed, WellFormed
<1>2. /\ status \in WrittenStatus /\ message \in BOOLEAN /\ error \in BOOLEAN
      /\ details \in BOOLEAN /\ action \in BOOLEAN /\ full \in BOOLEAN /\ number \in Nat
    BY <1>1 DEF RowOf, RecordOf
<1>3. Merged(s, d) = [s EXCEPT !.status = status, !.message = message, !.error = error,
                               !.details = details, !.interaction = action,
                               !.data = full, !.updated = number]
    BY <1>1 DEF Merged, RowOf
<1>4. details => message
    BY <1>1 DEF RowFormed, RowOf
<1>5. Unwritten.data = FALSE /\ Unwritten.status = "none"
    BY DEF Unwritten
<1>6. d = Unwritten => full = FALSE
    BY <1>1, <1>5 DEF RowOf
<1>7. d # Unwritten => full = d.data
    BY <1>1 DEF HasNoMore, RecordOf, RowOf
<1>8. d.status # "none" => /\ message
                           /\ (error \/ details) => d.status = "error"
                           /\ action = d.interaction
    BY <1>1 DEF WellFormed, RecordOf, RowOf
<1>9. number = IF d = Unwritten THEN s.updated ELSE d.updated
    OBVIOUS
<1> HIDE DEF status, message, error, details, action, full, number
<1>10. PICK t : t = Merged(s, d)
    OBVIOUS
<1>11. /\ t \in RowOf
       /\ t.message = message /\ t.error = error /\ t.details = details
       /\ t.interaction = action /\ t.data = full /\ t.updated = number
    BY <1>1, <1>2, <1>3, <1>10 DEF RowOf
<1>12. RowFormed(t)
    BY <1>4, <1>11 DEF RowFormed
<1>13. SaysAll(t, d)
    BY <1>5, <1>6, <1>7, <1>8, <1>9, <1>11 DEF SaysAll, HasNoMore
<1>14. QED
    BY <1>6, <1>7, <1>9, <1>10, <1>11, <1>12, <1>13

\* A row that may be shown beside a detail
Shows(s, d) ==
    /\ RowFormed(s)
    /\ record # NoRow => s.updated <= record.updated
    /\ \A r \in Copies : HasNoMore(s, r)
    /\ d # NoRow => SaysAll(s, d)

\* The row that is shown, and what is listed, may be shown.
LEMMA RowShows ==
    ASSUME RowsInv
    PROVE  /\ row # NoRow => Shows(row, detail) /\ Shows(row, NoRow)
           /\ \A s \in Listed, d \in {detail, NoRow} : Shows(s, d)
<1>1. row # NoRow => Shows(row, detail) /\ Shows(row, NoRow)
    BY DEF RowsInv, RowTypes, RecordIsNewest, RowsAgree, Shows
<1>2. detail # NoRow => detail \in Copies
    BY DEF Copies
<1>3. ASSUME NEW s \in Listed, NEW d \in {detail, NoRow}
      PROVE  Shows(s, d)
    <2>1. RowFormed(s) /\ (record # NoRow => s.updated <= record.updated)
        BY DEF RowsInv, RowTypes, RecordIsNewest
    <2>2. \A r \in Copies : SaysAll(s, r)
        BY DEF RowsInv, RowsAgree
    <2>3. QED
        BY <1>2, <2>1, <2>2 DEF Shows, SaysAll
<1>4. QED
    BY <1>1, <1>3

\* Steps that write no record: copies are handed on or dropped, lists fetched,
\* and the row is one that may be shown.
LEMMA NothingWritten ==
    ASSUME RowsInv,
           interval' \in BOOLEAN, told' \in Seq(WrittenStatus), runtime' \in StateOf,
           record' = NoRow \/ (record' = record /\ runtime' = runtime),
           Copies' \subseteq Copies,
           \A s \in Listed' :
              \/ s \in Listed
              \/ /\ RowFormed(s)
                 /\ record # NoRow => s.updated <= record.updated
                 /\ \A r \in Copies : SaysAll(s, r),
           row' # NoRow => Shows(row', detail')
    PROVE  RowsInv'
<1>1. \A s \in Listed' : /\ RowFormed(s)
                         /\ record # NoRow => s.updated <= record.updated
                         /\ \A r \in Copies' : SaysAll(s, r)
    BY DEF RowsInv, RowTypes, RecordIsNewest, RowsAgree
<1>2. RowTypes'
    BY <1>1 DEF RowsInv, RowTypes, Shows
<1>3. ASSUME record' # NoRow
      PROVE  /\ record' = record /\ record # NoRow
             /\ \A r \in Copies' : r.updated <= record.updated
             /\ row' # NoRow => row'.updated <= record.updated
             /\ Remembers(record, runtime')
    BY <1>3 DEF RowsInv, RecordIsNewest, Shows
<1>4. RecordIsNewest'
    BY <1>1, <1>3 DEF RecordIsNewest
<1>5. RowsAgree'
    BY <1>1 DEF RowsInv, RowsAgree, Shows
<1>6. QED
    BY <1>2, <1>4, <1>5 DEF RowsInv

\* Steps that write the record: a new number, and no data is lost.
LEMMA RecordWritten ==
    ASSUME RowsInv, record # NoRow, NEW new, WellFormed(new), record' = new,
           record.updated < new.updated, record.data => new.data,
           runtime' \in StateOf, Remembers(new, runtime'),
           told' \in Seq(WrittenStatus),
           UNCHANGED <<interval, row, detail, lists, answer>>
    PROVE  RowsInv'
<1>1. /\ Copies' \subseteq Copies \cup {new} /\ Listed' = Listed
      /\ record \in Copies
    BY DEF Copies, Listed
<1>2. \A r \in Copies : /\ r \in RecordOf /\ r.updated <= record.updated
                        /\ r.data => record.data
    <2>1. ASSUME NEW r \in Copies
          PROVE  r.data => record.data
        <3>1. r.updated <= record.updated
            BY DEF RowsInv, RecordIsNewest
        <3>2. Ordered(r, record)
            BY <1>1 DEF RowsInv, RowsAgree
        <3>3. QED
            BY <3>1, <3>2 DEF Ordered
    <2>2. QED
        BY <2>1 DEF RowsInv, RowTypes, WellFormed, RecordIsNewest
<1>3. /\ record.updated \in Nat /\ new.updated \in Nat
      /\ \A r \in Copies : r.updated \in Nat
    BY <1>1, <1>2 DEF WellFormed, RecordOf
<1>4. \A r \in Copies : r.updated < new.updated /\ (r.data => new.data)
    BY <1>2, <1>3
<1>5. ASSUME NEW s, RowFormed(s), s.updated <= record.updated, HasNoMore(s, record)
      PROVE  s.updated < new.updated /\ SaysAll(s, new)
    <2>1. s.updated \in Nat
        BY <1>5 DEF RowFormed, RowOf
    <2>2. s.updated < new.updated
        BY <1>3, <1>5, <2>1
    <2>3. s.data => new.data
        BY <1>5 DEF HasNoMore
    <2>4. QED
        BY <1>3, <2>1, <2>2, <2>3 DEF SaysAll, HasNoMore
<1>6. \A s \in Listed : s.updated < new.updated /\ SaysAll(s, new)
    <2>1. \A s \in Listed : /\ RowFormed(s) /\ s.updated <= record.updated
                            /\ HasNoMore(s, record)
        BY <1>1 DEF RowsInv, RowTypes, RecordIsNewest, RowsAgree, SaysAll
    <2>2. QED
        BY <1>5, <2>1
<1>7. row # NoRow => row.updated < new.updated /\ SaysAll(row, new)
    <2>1. row # NoRow => /\ RowFormed(row) /\ row.updated <= record.updated
                         /\ HasNoMore(row, record)
        BY <1>1 DEF RowsInv, RowTypes, RecordIsNewest, RowsAgree
    <2>2. QED
        BY <1>5, <2>1
<1>8. RowTypes'
    BY <1>1 DEF RowsInv, RowTypes
<1>9. RecordIsNewest'
    <2>1. \A r \in Copies' : r.updated <= new.updated
        BY <1>1, <1>3, <1>4
    <2>2. \A s \in Listed' : s.updated <= new.updated
        <3>1. \A s \in Listed : s.updated \in Nat
            BY DEF RowsInv, RowTypes, RowFormed, RowOf
        <3>2. QED
            BY <1>1, <1>3, <1>6, <3>1
    <2>3. row' # NoRow => row'.updated <= new.updated
        <3>1. row # NoRow => row.updated \in Nat
            BY DEF RowsInv, RowTypes, RowFormed, RowOf
        <3>2. QED
            BY <1>3, <1>7, <3>1
    <2>4. QED
        BY <2>1, <2>2, <2>3 DEF RecordIsNewest
<1>10. \A old, later \in Copies' : Ordered(old, later)
    <2>1. \A old, later \in Copies : Ordered(old, later)
        BY DEF RowsInv, RowsAgree
    <2>2. \A old \in Copies : Ordered(old, new) /\ Ordered(new, old)
        BY <1>3, <1>4 DEF Ordered
    <2>3. Ordered(new, new)
        BY DEF Ordered
    <2>4. QED
        BY <1>1, <2>1, <2>2, <2>3
<1>11. \A s \in Listed', r \in Copies' : SaysAll(s, r)
    BY <1>1, <1>6 DEF RowsInv, RowsAgree
<1>12. row' # NoRow => /\ \A r \in Copies' : HasNoMore(row', r)
                       /\ detail' # NoRow => SaysAll(row', detail')
    BY <1>1, <1>7 DEF RowsInv, RowsAgree, SaysAll
<1>13. QED
    BY <1>8, <1>9, <1>10, <1>11, <1>12 DEF RowsInv, RowsAgree

\* A record that was never written is well formed.
LEMMA UnwrittenIs ==
    WellFormed(Unwritten) /\ Forgotten \in StateOf /\ Remembers(Unwritten, Forgotten)
BY DEF WellFormed, Unwritten, RecordOf, WrittenStatus, Forgotten, StateOf, Remembers

\* The dashboard opens on the list of the default state.
LEMMA RowsInitInv == SourcesPanelInit => RowsInv
<1> SUFFICES ASSUME SourcesPanelInit PROVE RowsInv
    OBVIOUS
<1>1. /\ record = Unwritten /\ runtime = Forgotten /\ interval = FALSE /\ row = List
      /\ detail = NoRow /\ lists = {} /\ answer = NoRow /\ told = <<>>
    BY DEF SourcesPanelInit
<1>2. Copies \subseteq {Unwritten} /\ Listed = {}
    BY <1>1 DEF Copies, Listed
<1>3. row # NoRow =>
         /\ RowFormed(row) /\ row.updated = Unwritten.updated
         /\ row.data = Unwritten.data
    <2>1. List # NoRow => List = ListRow(Unwritten, Forgotten)
        BY <1>1 DEF List
    <2>2. QED
        BY <1>1, <2>1, UnwrittenIs, ListRowIs
<1>4. Ordered(Unwritten, Unwritten)
    BY DEF Ordered
<1>5. Unwritten.updated = 0
    BY DEF Unwritten
<1>6. RowTypes
    <2> <<>> \in Seq(WrittenStatus)
        OBVIOUS
    <2>1. told \in Seq(WrittenStatus) /\ interval \in BOOLEAN
        BY <1>1
    <2>2. \A r \in Copies : WellFormed(r)
        BY <1>2, UnwrittenIs
    <2>3. QED
        BY <1>1, <1>2, <1>3, <2>1, <2>2, UnwrittenIs DEF RowTypes
<1>7. RecordIsNewest
    BY <1>1, <1>2, <1>3, <1>5, UnwrittenIs DEF RecordIsNewest
<1>8. RowsAgree
    BY <1>1, <1>2, <1>3, <1>4 DEF RowsAgree, HasNoMore
<1>9. QED
    BY <1>6, <1>7, <1>8 DEF RowsInv

\* _update_state writes what set_state makes of the record.
LEMMA WroteInv ==
    ASSUME RowsInv, record # NoRow,
           NEW status \in WrittenStatus, NEW error \in BOOLEAN, NEW interaction \in BOOLEAN,
           error => status = "error", Wrote(status, error, interaction),
           UNCHANGED <<interval, row, detail, lists, answer>>
    PROVE  RowsInv'
<1>1. PICK new : new = SetState(record, status, error, interaction)
    OBVIOUS
<1>2. WellFormed(record) /\ record \in RecordOf /\ told \in Seq(WrittenStatus)
    BY DEF RowsInv, RowTypes, Copies, WellFormed
<1> DEFINE text == error \/ (record.error /\ status = "error")
           number == record.updated + 1
<1> text \in BOOLEAN /\ number \in Nat
    BY <1>2 DEF RecordOf
<1> HIDE DEF text, number
<1>3. /\ new \in RecordOf
      /\ new.status = status /\ new.error = text
      /\ new.interaction = interaction /\ new.data = record.data
      /\ new.updated = number
    <2>1. new = [record EXCEPT !.status = status, !.error = text,
                               !.interaction = interaction, !.updated = number]
        BY <1>1, <1>2 DEF SetState, RecordOf, text, number
    <2>2. QED
        BY <1>2, <2>1 DEF RecordOf
<1>4. WellFormed(new)
    BY <1>3 DEF WellFormed, WrittenStatus, text
<1>5. record.updated < new.updated /\ (record.data => new.data)
    BY <1>2, <1>3 DEF RecordOf, number
<1>6. runtime' \in StateOf /\ Remembers(new, runtime')
    BY <1>3 DEF Wrote, StateOf, Remembers
<1>7. told' \in Seq(WrittenStatus)
    BY <1>2 DEF Wrote
<1>8. record' = new
    BY <1>1 DEF Wrote
<1>9. QED
    BY <1>4, <1>5, <1>6, <1>7, <1>8, RecordWritten

\* A fetch that ends well writes data, and the state after it.
LEMMA FetchSucceededInv ==
    ASSUME RowsInv, NEW stops \in BOOLEAN, FetchSucceeded(stops)
    PROVE  RowsInv'
<1>1. record # NoRow /\ UNCHANGED <<interval, row, detail, lists, answer>>
    BY DEF FetchSucceeded, CanWrite
<1>2. record \in RecordOf /\ told \in Seq(WrittenStatus)
    BY <1>1 DEF RowsInv, RowTypes, Copies, WellFormed
<1>3. PICK upserted : upserted = [Unwritten EXCEPT !.data = TRUE, !.updated = record.updated + 1]
    OBVIOUS
<1>4. /\ upserted \in RecordOf /\ upserted.status = "none" /\ upserted.data = TRUE
      /\ upserted.error = FALSE /\ upserted.interaction = FALSE
      /\ upserted.updated = record.updated + 1
    <2>1. record.updated + 1 \in Nat
        BY <1>2 DEF RecordOf
    <2>2. QED
        BY <1>3, <2>1 DEF Unwritten, RecordOf
<1>5. CASE stops
    <2>1. record' = upserted /\ runtime' = Forgotten /\ told' = <<>>
        BY <1>3, <1>5 DEF FetchSucceeded
    <2>2. WellFormed(upserted) /\ record.updated < upserted.updated
        BY <1>2, <1>4 DEF WellFormed, RecordOf
    <2>3. Forgotten \in StateOf /\ Remembers(upserted, Forgotten)
        BY <1>4, UnwrittenIs DEF Remembers
    <2>4. <<>> \in Seq(WrittenStatus)
        OBVIOUS
    <2>5. QED
        BY <1>1, <1>4, <2>1, <2>2, <2>3, <2>4, RecordWritten
<1>6. CASE ~stops
    <2>1. PICK new : new = [SetState(upserted, "active", FALSE, FALSE)
                              EXCEPT !.updated = record.updated + 1]
        OBVIOUS
    <2>2. /\ new \in RecordOf /\ new.status = "active" /\ new.error = FALSE
          /\ new.interaction = FALSE /\ new.data = TRUE
          /\ new.updated = record.updated + 1
        BY <1>2, <1>4, <2>1 DEF SetState, RecordOf, WrittenStatus
    <2>3. /\ record' = new /\ runtime' = [Forgotten EXCEPT !.message = TRUE]
          /\ told' = Append(told, "active")
        BY <1>3, <1>6, <2>1 DEF FetchSucceeded
    <2>4. WellFormed(new) /\ record.updated < new.updated
        BY <1>2, <2>2 DEF WellFormed, RecordOf
    <2>5. runtime' \in StateOf /\ Remembers(new, runtime')
        BY <2>2, <2>3 DEF Forgotten, StateOf, Remembers, WrittenStatus
    <2>6. told' \in Seq(WrittenStatus)
        BY <1>2, <2>3 DEF WrittenStatus
    <2>7. QED
        BY <1>1, <2>2, <2>3, <2>4, <2>5, <2>6, RecordWritten
<1>7. QED
    BY <1>5, <1>6

\* What is written beside records: the types of the rest
LEMMA RestTyped ==
    ASSUME RowsInv
    PROVE  interval \in BOOLEAN /\ told \in Seq(WrittenStatus) /\ runtime \in StateOf
BY DEF RowsInv, RowTypes

\* A list is fetched, or made of the next one with another interval.
Fetches(s) == IF record = NoRow THEN s = NoRow ELSE s \in {List, [List EXCEPT !.interval = ~@]}

LEMMA ListFetched ==
    ASSUME RowsInv, NEW added, Fetches(added.of), lists' = lists \cup {added},
           interval' \in BOOLEAN, UNCHANGED <<record, runtime, row, detail, answer, told>>
    PROVE  RowsInv'
<1>1. Copies' = Copies /\ Listed' \subseteq Listed \cup ({added.of} \ {NoRow})
    BY DEF Copies, Listed
<1>2. ASSUME added.of # NoRow
      PROVE  /\ RowFormed(added.of)
             /\ record # NoRow => added.of.updated <= record.updated
             /\ \A r \in Copies : SaysAll(added.of, r)
    <2>1. record # NoRow /\ added.of \in {List, [List EXCEPT !.interval = ~@]}
        BY <1>2 DEF Fetches
    <2>2. /\ RowFormed(List) /\ List.updated = record.updated
          /\ \A r \in Copies : SaysAll(List, r)
        BY <2>1, ListIs
    <2>3. PICK s : s = added.of
        OBVIOUS
    <2>4. /\ s \in RowOf /\ s.message = List.message /\ s.details = List.details
          /\ s.error = List.error /\ s.interaction = List.interaction
          /\ s.data = List.data /\ s.updated = List.updated
        BY <2>1, <2>2, <2>3 DEF RowFormed, RowOf
    <2>5. RowFormed(s) /\ \A r : SaysAll(List, r) => SaysAll(s, r)
        BY <2>2, <2>4 DEF RowFormed, SaysAll, HasNoMore
    <2>6. record.updated \in Nat
        BY <2>2, <2>1 DEF RowFormed, RowOf
    <2>7. QED
        BY <2>2, <2>3, <2>4, <2>5, <2>6
<1>3. row' # NoRow => Shows(row', detail')
    BY RowShows
<1>4. runtime' \in StateOf /\ told' \in Seq(WrittenStatus)
    BY RestTyped
<1>5. QED
    BY <1>1, <1>2, <1>3, <1>4, NothingWritten

\* A status is written over the row, by an event or a click.
LEMMA StatusShown ==
    ASSUME RowsInv, NEW status \in WrittenStatus, told' \in Seq(WrittenStatus),
           row' = IF row = NoRow THEN NoRow ELSE [row EXCEPT !.status = status],
           UNCHANGED <<record, runtime, interval, detail, lists, answer>>
    PROVE  RowsInv'
<1>1. Copies' = Copies /\ Listed' = Listed
    BY DEF Copies, Listed
<1>2. interval' \in BOOLEAN /\ runtime' \in StateOf
    BY RestTyped
<1>3. ASSUME row' # NoRow
      PROVE  Shows(row', detail')
    <2>1. row # NoRow /\ row' = Overwritten(row, status)
        BY <1>3 DEF Overwritten
    <2>2. Shows(row, detail)
        BY <2>1, RowShows
    <2>3. RowFormed(row)
        BY <2>2 DEF Shows
    <2>4. /\ RowFormed(row') /\ row'.updated = row.updated
          /\ \A r : /\ HasNoMore(row, r) => HasNoMore(row', r)
                    /\ SaysAll(row, r) => SaysAll(row', r)
        BY <2>1, <2>3, StatusWritten
    <2>5. QED
        BY <2>2, <2>4 DEF Shows
<1>4. QED
    BY <1>1, <1>2, <1>3, NothingWritten

\* The first half of a click: the row is "refreshing".
LEMMA OptimisticInv ==
    ASSUME RowsInv, Optimistic, UNCHANGED <<record, runtime, interval, detail, lists, answer, told>>
    PROVE  RowsInv'
<1>1. "refreshing" \in WrittenStatus /\ told' \in Seq(WrittenStatus)
    BY RestTyped DEF WrittenStatus
<1>2. row' = IF row = NoRow THEN NoRow ELSE [row EXCEPT !.status = "refreshing"]
    BY DEF Optimistic
<1>3. QED
    BY <1>1, <1>2, StatusShown

\* The event of a write is shown.
LEMMA EventShownInv ==
    ASSUME RowsInv, EventShown
    PROVE  RowsInv'
<1>1. told \in Seq(WrittenStatus) /\ told # <<>>
    BY RestTyped DEF EventShown
<1>2. Head(told) \in WrittenStatus /\ Tail(told) \in Seq(WrittenStatus)
    BY <1>1
<1>3. PICK status \in WrittenStatus : status = Head(told)
    BY <1>2
<1>4. row' = IF row = NoRow THEN NoRow ELSE [row EXCEPT !.status = status]
    BY <1>3 DEF EventShown
<1>5. told' \in Seq(WrittenStatus)
    BY <1>2 DEF EventShown
<1>6. QED
    BY <1>4, <1>5, StatusShown DEF EventShown

\* The list replaces the row, and the detail stays or goes.
LEMMA ListArrivedInv ==
    ASSUME RowsInv, NEW list \in lists, ListArrived(list)
    PROVE  RowsInv'
<1>1. /\ lists' \subseteq lists /\ row' = list.of
      /\ detail' \in {detail, NoRow}
      /\ UNCHANGED <<record, runtime, interval, answer, told>>
    BY DEF ListArrived, ShownRow, KeptDetail
<1>2. Copies' \subseteq Copies /\ Listed' \subseteq Listed
    BY <1>1 DEF Copies, Listed
<1>3. row' # NoRow => row' \in Listed
    BY <1>1 DEF Listed
<1>4. row' # NoRow => Shows(row', detail')
    BY <1>1, <1>3, RowShows
<1>5. QED
    BY <1>1, <1>2, <1>4, RestTyped, NothingWritten

\* A detail is asked for: the answer is the record.
LEMMA AskDetailInv ==
    ASSUME RowsInv, AskDetail
    PROVE  RowsInv'
<1>1. /\ answer' = record
      /\ UNCHANGED <<record, runtime, interval, row, detail, lists, told>>
    BY DEF AskDetail
<1>2. Copies' \subseteq Copies /\ Listed' = Listed
    BY <1>1 DEF Copies, Listed
<1>3. row' # NoRow => Shows(row', detail')
    BY <1>1, RowShows
<1>4. QED
    BY <1>1, <1>2, <1>3, RestTyped, NothingWritten

\* The answer is merged into the row, whatever was written over it meanwhile,
\* unless the row is newer.
LEMMA DetailArrivedInv ==
    ASSUME RowsInv, DetailArrived
    PROVE  RowsInv'
<1>1. /\ answer # NoRow /\ answer' = NoRow
      /\ UNCHANGED <<record, runtime, interval, lists, told>>
    BY DEF DetailArrived
<1>2. Listed' = Listed /\ answer \in Copies
    BY <1>1 DEF Listed, Copies
<1>3. CASE UNCHANGED <<row, detail>>
    <2>1. Copies' \subseteq Copies
        BY <1>1, <1>3 DEF Copies
    <2>2. row' # NoRow => Shows(row', detail')
        BY <1>3, RowShows
    <2>3. QED
        BY <1>1, <1>2, <2>1, <2>2, RestTyped, NothingWritten
<1>4. CASE /\ row # NoRow
           /\ answer # Unwritten => ~(answer.updated < row.updated)
           /\ row' = Merged(row, answer) /\ detail' = answer
    <2>1. Copies' \subseteq Copies
        BY <1>1, <1>4 DEF Copies
    <2>2. Shows(row, NoRow)
        BY <1>4, RowShows
    <2>3. WellFormed(answer) /\ RowFormed(row) /\ HasNoMore(row, answer)
        BY <1>2, <2>2 DEF Shows, RowsInv, RowTypes
    <2>4. answer.updated \in Nat /\ row.updated \in Nat
        BY <2>3 DEF WellFormed, RecordOf, RowFormed, RowOf
    <2>5. answer # Unwritten => row.updated <= answer.updated
        BY <1>4, <2>4
    <2>6. /\ RowFormed(row')
          /\ SaysAll(row', answer)
          /\ answer # Unwritten => row'.updated = answer.updated /\ row'.data = answer.data
          /\ answer = Unwritten => row'.updated = row.updated /\ row'.data = FALSE
        BY <1>4, <2>3, <2>5, MergedIs
    <2>7. record # NoRow => row'.updated <= record.updated
        <3>1. record # NoRow => row.updated <= record.updated
            BY <2>2 DEF Shows
        <3>2. record # NoRow => answer.updated <= record.updated
            BY <1>2 DEF RowsInv, RecordIsNewest
        <3>3. QED
            BY <2>6, <3>1, <3>2
    <2>8. ASSUME NEW r \in Copies
          PROVE  HasNoMore(row', r)
        <3>1. Ordered(answer, r)
            BY <1>2 DEF RowsInv, RowsAgree
        <3>2. QED
            BY <2>6, <3>1 DEF HasNoMore, Ordered
    <2>9. Shows(row', detail')
        BY <1>4, <2>6, <2>7, <2>8 DEF Shows
    <2>10. QED
        BY <1>1, <1>2, <2>1, <2>9, RestTyped, NothingWritten
<1>5. QED
    BY <1>3, <1>4 DEF DetailArrived

\* The source goes from the page or from the backend.
LEMMA GoneInv ==
    ASSUME RowsInv, record' \in {record, NoRow}, runtime' \in StateOf,
           record' # NoRow => runtime' = runtime,
           (row' = NoRow /\ detail' = NoRow) \/ UNCHANGED <<row, detail>>,
           UNCHANGED <<interval, lists, answer, told>>
    PROVE  RowsInv'
<1>1. Copies' \subseteq Copies /\ Listed' = Listed
    BY DEF Copies, Listed
<1>2. row' # NoRow => Shows(row', detail')
    BY RowShows
<1>3. record' = NoRow \/ (record' = record /\ runtime' = runtime)
    OBVIOUS
<1>4. QED
    BY <1>1, <1>2, <1>3, RestTyped, NothingWritten

\* Every step of backend, page and user keeps the agreement.
LEMMA RowsNextInv == RowsInv /\ [SourcesPanelNext]_rowVars => RowsInv'
<1> SUFFICES ASSUME RowsInv, [SourcesPanelNext]_rowVars PROVE RowsInv'
    OBVIOUS
<1>1. ASSUME NEW status \in WrittenStatus, NEW error \in BOOLEAN, NEW interaction \in BOOLEAN,
             StateWritten(status, error, interaction)
      PROVE  RowsInv'
    BY <1>1, WroteInv DEF StateWritten, CanWrite
<1>2. ASSUME NEW stops \in BOOLEAN, FetchSucceeded(stops)
      PROVE  RowsInv'
    BY <1>2, FetchSucceededInv
<1>3. CASE PollSources
    <2>1. PICK added : added = [of |-> List, by |-> "poll"]
        OBVIOUS
    <2>2. Fetches(added.of) /\ lists' = lists \cup {added}
        BY <1>3, <2>1 DEF PollSources, Fetched, Fetches, List
    <2>3. QED
        BY <1>3, <2>2, RestTyped, ListFetched DEF PollSources
<1>4. CASE ListShown
    BY <1>4, ListArrivedInv DEF ListShown
<1>5. CASE AskDetail
    BY <1>5, AskDetailInv
<1>6. CASE DetailArrived
    BY <1>6, DetailArrivedInv
<1>7. CASE EventShown
    BY <1>7, EventShownInv
<1>8. CASE HandleRefreshSource \/ RunGlobalRefresh
    BY <1>8, OptimisticInv DEF HandleRefreshSource, RunGlobalRefresh
<1>9. ASSUME NEW call \in {"refresh", "all"}, RefreshAnswered(call)
      PROVE  RowsInv'
    <2>1. record # NoRow /\ UNCHANGED <<interval, row, detail, lists, answer>>
        BY <1>9 DEF RefreshAnswered, CanWrite
    <2>2. Wrote("refreshing", FALSE, FALSE) \/ Wrote("error", FALSE, FALSE)
        BY <1>9 DEF RefreshAnswered
    <2>3. {"refreshing", "error"} \subseteq WrittenStatus
        BY DEF WrittenStatus
    <2>4. QED
        BY <2>1, <2>2, <2>3, WroteInv
<1>10. CASE IntervalAnswered
    <2>1. PICK added : added = [of |-> [List EXCEPT !.interval = ~@], by |-> "poll"]
        OBVIOUS
    <2>2. Fetches(added.of) /\ lists' = lists \cup {added}
        BY <1>10, <2>1 DEF IntervalAnswered, Fetches
    <2>3. interval' \in BOOLEAN
        BY <1>10 DEF IntervalAnswered
    <2>4. QED
        BY <1>10, <2>2, <2>3, ListFetched DEF IntervalAnswered
<1>11. CASE DeletionAnswered
    BY <1>11, UnwrittenIs, GoneInv DEF DeletionAnswered
<1>12. ASSUME NEW confirmed \in BOOLEAN, HandleDeleteSource(confirmed)
       PROVE  RowsInv'
    BY <1>12, RestTyped, GoneInv DEF HandleDeleteSource
<1>13. ASSUME NEW retry \in BOOLEAN, CloseErrorDialog(retry)
       PROVE  RowsInv'
    <2>1. CASE retry
        BY <1>13, <2>1, OptimisticInv DEF CloseErrorDialog
    <2>2. CASE ~retry
        BY <1>13, <2>2, RestTyped, GoneInv DEF CloseErrorDialog
    <2>3. QED
        BY <2>1, <2>2
<1>14. ASSUME NEW call \in rowCalls, CallFailed(call)
       PROVE  RowsInv'
    <2>1. UNCHANGED <<record, runtime, interval, row, detail, answer, told>>
        BY <1>14 DEF CallFailed
    <2>2. lists' = lists \/ Fetched("poll") \/ Fetched("cache")
        BY <1>14 DEF CallFailed
    <2>3. CASE lists' = lists
        BY <2>1, <2>3, RestTyped, GoneInv
    <2>4. ASSUME NEW by, Fetched(by)
          PROVE  RowsInv'
        <3>1. PICK added : added = [of |-> List, by |-> by]
            OBVIOUS
        <3>2. Fetches(added.of) /\ lists' = lists \cup {added}
            BY <2>1, <2>4, <3>1 DEF Fetched, Fetches, List
        <3>3. QED
            BY <2>1, <3>2, RestTyped, ListFetched
    <2>5. QED
        BY <2>2, <2>3, <2>4
<1>15. CASE HandleInterval \/ AskDeletion \/ OpenErrorDialog
    BY <1>15, RestTyped, GoneInv DEF HandleInterval, AskDeletion, OpenErrorDialog
<1>16. CASE UNCHANGED rowVars
    BY <1>16, RestTyped, GoneInv DEF rowVars
<1>17. QED
    BY <1>1, <1>2, <1>3, <1>4, <1>5, <1>6, <1>7, <1>8, <1>9, <1>10, <1>11, <1>12, <1>13,
       <1>14, <1>15, <1>16 DEF SourcesPanelNext, WrittenStatus

\* What a row of this status tells, if only an error is one.
Story(status, full) ==
    IF status = "active" THEN IF full THEN "normal" ELSE "waiting" ELSE status

\* Badge, pill and counters tell the same of such a row.
LEMMA OneStory ==
    ASSUME NEW s \in RowOf, NEW d, HasSourceError(s, d) <=> s.status = "error"
    PROVE  /\ Kind(Badge(s, d)) = Story(s.status, s.data)
           /\ Kind(Pill(s, d)) = Story(s.status, s.data)
           /\ {Kind(c) : c \in Counters(s, d)} = {Story(s.status, s.data)}
<1> DEFINE story == Story(s.status, s.data)
<1>1. s.status \in WrittenStatus /\ s.data \in BOOLEAN /\ s.interaction \in BOOLEAN
    BY DEF RowOf
<1>2. Kind(Badge(s, d)) = story
    <2>1. CASE s.status = "active"
        BY <1>1, <2>1 DEF Kind, Badge, StatusConfig, HasActionableInteraction, Story
    <2>2. CASE s.status = "refreshing"
        BY <1>1, <2>2 DEF Kind, Badge, StatusConfig, HasActionableInteraction, Story
    <2>3. CASE s.status = "suspended"
        BY <1>1, <2>3 DEF Kind, Badge, StatusConfig, HasActionableInteraction, Story
    <2>4. CASE s.status = "error"
        BY <1>1, <2>4 DEF Kind, Badge, HasActionableInteraction, Story
    <2>5. QED
        BY <1>1, <2>1, <2>2, <2>3, <2>4 DEF WrittenStatus
<1>3. Kind(Pill(s, d)) = story
    BY <1>1 DEF Kind, Pill, Story, WrittenStatus
<1>4. Counters(s, d) = {story}
    BY <1>1 DEF Counters, Story, WrittenStatus
<1>5. Kind(story) = story
    BY <1>1 DEF Kind, Story, WrittenStatus
<1>6. QED
    BY <1>2, <1>3, <1>4, <1>5

\* A row that says all that its detail says is drawn in one way, and as the list
\* of that record would be.
LEMMA DrawnAsOne ==
    ASSUME NEW s, RowFormed(s), NEW d, WellFormed(d), SaysAll(s, d), d # NoRow,
           interval \in BOOLEAN, s.updated = d.updated, s.status = d.status
    PROVE  /\ Kind(Badge(s, d)) = Kind(Badge(ListRow(d, StateAt(d)), d))
           /\ Kind(Badge(s, d)) = Kind(Pill(s, d))
           /\ {Kind(Badge(s, d))} = {Kind(c) : c \in Counters(s, d)}
<1>1. s \in RowOf /\ d \in RecordOf /\ d.status \in WrittenStatus /\ d.status # "none"
    BY DEF RowFormed, RowOf, WellFormed, WrittenStatus
<1>2. HasSourceError(s, d) <=> s.status = "error"
    BY <1>1 DEF HasSourceError, SaysAll, WellFormed, RecordOf, RowOf
<1>3. PICK l : l = ListRow(d, StateAt(d))
    OBVIOUS
<1>4. /\ StateAt(d) \in StateOf /\ Remembers(d, StateAt(d))
    BY <1>1 DEF StateAt, StateOf, Remembers, RecordOf
<1>5. /\ RowFormed(l) /\ l.data = d.data /\ l.message
      /\ (l.error \/ l.details) => d.status = "error"
    BY <1>1, <1>3, <1>4, ListRowIs
<1>6. l \in RowOf /\ l.status = d.status
    BY <1>1, <1>3, <1>5 DEF RowFormed, ListRow
<1>7. HasSourceError(l, d) <=> l.status = "error"
    BY <1>1, <1>5, <1>6 DEF HasSourceError, WellFormed, RecordOf, RowOf
<1>8. s.data = d.data
    BY <1>1 DEF SaysAll
<1>9. QED
    BY <1>1, <1>2, <1>3, <1>5, <1>6, <1>7, <1>8, OneStory

\* Only a row with a message has details of an error.
LEMMA ErrorHasSummary ==
    ASSUME NEW s, RowFormed(s), NEW d, Badge(s, d) = "error"
    PROVE  HasSummary(s, d)
<1>1. HasSourceError(s, d)
    BY DEF Badge, StatusConfig
<1>2. QED
    BY <1>1 DEF HasSourceError, HasSummary, RowFormed

\* The rows follow their backend, whichever side is followed.
LEMMA LiveIsRows == LiveSpec => SourcesPanelInit /\ [][SourcesPanelNext]_rowVars
<1>1. LiveInit => SourcesPanelInit
    BY DEF LiveInit
<1>2. [LiveNext]_liveVars => [SourcesPanelNext]_rowVars
    BY DEF LiveNext, liveVars
<1>3. QED
    BY <1>1, <1>2, PTL DEF LiveSpec

\* In every state, what the page shows of a source is what some record of its
\* number says.
THEOREM RowsInvariant == LiveSpec => []RowsInv
BY LiveIsRows, RowsInitInv, RowsNextInv, PTL

\* Whichever of list, detail, event and click came first: sidebar, card and
\* counters tell one story of a row whose detail is there, and a button for an
\* error leads to a dialog that says which.
THEOREM RowTellsItsRecord == LiveSpec => []RowTellsRecord
<1>1. RowsInv => RowTellsRecord
    <2> SUFFICES ASSUME RowsInv, row # NoRow
                 PROVE  /\ Badge(row, detail) = "error" => HasSummary(row, detail)
                        /\ detail # NoRow /\ row.updated = detail.updated
                              /\ row.status = detail.status =>
                           /\ Kind(Badge(row, detail))
                                 = Kind(Badge(ListRow(detail, StateAt(detail)), detail))
                           /\ Kind(Badge(row, detail)) = Kind(Pill(row, detail))
                           /\ {Kind(Badge(row, detail))}
                                 = {Kind(c) : c \in Counters(row, detail)}
        BY DEF RowTellsRecord
    <2>1. RowFormed(row) /\ interval \in BOOLEAN
        BY DEF RowsInv, RowTypes
    <2>2. detail # NoRow => WellFormed(detail) /\ SaysAll(row, detail)
        BY DEF RowsInv, RowTypes, RowsAgree, Copies
    <2>3. QED
        BY <2>1, <2>2, ErrorHasSummary, DrawnAsOne
<1>2. QED
    BY <1>1, RowsInvariant, PTL

-----------------------------------------------------------------------------
(***************************************************************************)
(* The types of the panel of the scraper and of the rows, and with those   *)
(* of the daemon the types of the whole.                                   *)
(***************************************************************************)
Tasked == {Nothing} \cup Scrapes
Snapshots == [active : Tasked, queue : SUBSET Scrapes]
Endings == [task : Scrapes, event : {"result", "auth"}]
ShownOf == [active : Tasked, task : Tasked, queue : SUBSET Scrapes]
SyncOf == [flight : {"no", "asked", "answered", "failed"}, answer : Snapshots,
           pending : BOOLEAN, recent : BOOLEAN, timer : {"none", "set", "due"}]

PanelTypes ==
    /\ waiting \subseteq Scrapes /\ working \in Tasked /\ asked \in 0..MaxScrapes
    /\ endings \subseteq Endings
    /\ shown \in ShownOf
    /\ sync \in SyncOf

\* What a request for a snapshot, its answer and its throttle make of sync
LEMMA SyncKeepsType ==
    ASSUME NEW s \in SyncOf
    PROVE  /\ Scheduled(s) \in SyncOf /\ Run(s) \in SyncOf
           /\ Requested(s) \in SyncOf
           /\ Repeated(s) \in SyncOf
<1>1. \A r \in SyncOf : Scheduled(r) \in SyncOf
    BY DEF Scheduled, SyncOf
<1>2. \A r \in SyncOf : Run(r) \in SyncOf
    BY DEF Run, SyncOf
<1>3. \A pending \in BOOLEAN : [s EXCEPT !.pending = pending] \in SyncOf
    BY DEF SyncOf
<1>4. QED
    BY <1>1, <1>2, <1>3 DEF Requested, Repeated

\* What the page hears of a task that is one, or of none when it ends
LEMMA HearingKeepsType ==
    ASSUME PanelTypes, NEW t,
           \/ \E stage \in {"claimed", "ended"} :
                 HearsStage(stage, t) /\ (stage = "claimed" => t \in Scrapes)
           \/ \E event \in {"result", "auth"} : HearsEnd(event, t) /\ t \in Scrapes
    PROVE  shown' \in ShownOf /\ sync' \in SyncOf
<1>1. shown \in ShownOf /\ sync \in SyncOf
    BY DEF PanelTypes
<1>2. Requested(sync) \in SyncOf
    BY <1>1, SyncKeepsType
<1>3. Quiet \in ShownOf /\ (t \in Scrapes => [Quiet EXCEPT !.task = t] \in ShownOf)
    BY <1>1 DEF Quiet, ShownOf, Tasked
<1>4. t \in Scrapes => [shown EXCEPT !.active = t, !.task = t] \in ShownOf
    BY <1>1 DEF ShownOf, Tasked
<1>5. QED
    BY <1>1, <1>2, <1>3, <1>4 DEF HearsStage, HearsEnd

LEMMA PanelNextTypes == PanelTypes /\ [PanelNext]_panelVars => PanelTypes'
<1> SUFFICES ASSUME PanelTypes, [PanelNext]_panelVars
             PROVE  PanelTypes'
    OBVIOUS
<1> USE PanelBounds
<1>0. /\ waiting \subseteq Scrapes /\ working \in Tasked /\ asked \in 0..MaxScrapes
      /\ endings \subseteq Endings /\ shown \in ShownOf /\ sync \in SyncOf
    BY DEF PanelTypes
<1>1. CASE ScrapeAsked
    <2>1. asked + 1 \in Scrapes /\ asked' \in 0..MaxScrapes
        BY <1>0, <1>1 DEF ScrapeAsked, Scrapes
    <2>2. QED
        BY <1>0, <1>1, <2>1 DEF ScrapeAsked, PanelTypes
<1>2. ASSUME NEW t \in Scrapes, ScrapeClaimed(t)
      PROVE  PanelTypes'
    <2>1. shown' \in ShownOf /\ sync' \in SyncOf
        BY <1>2, HearingKeepsType DEF ScrapeClaimed
    <2>2. QED
        BY <1>0, <1>2, <2>1 DEF ScrapeClaimed, PanelTypes, Tasked
<1>3. ASSUME NEW event \in {"result", "auth"}, ScrapeEnds(event)
      PROVE  PanelTypes'
    <2>1. shown' \in ShownOf /\ sync' \in SyncOf
        BY <1>3, HearingKeepsType DEF ScrapeEnds
    <2>2. [task |-> working, event |-> event] \in Endings
        BY <1>0, <1>3 DEF ScrapeEnds, Tasked, Endings
    <2>3. QED
        BY <1>0, <1>3, <2>1, <2>2 DEF ScrapeEnds, PanelTypes
<1>4. ASSUME NEW e \in endings, ScrapeEnded(e)
      PROVE  PanelTypes'
    <2>1. e.task \in Scrapes /\ e.event \in {"result", "auth"}
        BY <1>0 DEF Endings
    <2>2. shown' \in ShownOf /\ sync' \in SyncOf
        BY <1>4, <2>1, HearingKeepsType DEF ScrapeEnded
    <2>3. QED
        BY <1>0, <1>4, <2>2 DEF ScrapeEnded, PanelTypes, Tasked
<1>5. CASE SyncTick
    BY <1>0, <1>5, SyncKeepsType DEF SyncTick, PanelTypes
<1>6. CASE ThrottleOver
    BY <1>0, <1>6 DEF ThrottleOver, PanelTypes, SyncOf
<1>7. CASE TrailingSync
    <2> DEFINE fired == [sync EXCEPT !.timer = "none"]
    <2>1. fired \in SyncOf /\ [fired EXCEPT !.pending = FALSE] \in SyncOf
        BY <1>0 DEF SyncOf
    <2>2. Run([fired EXCEPT !.pending = FALSE]) \in SyncOf
        BY <2>1, SyncKeepsType
    <2>3. QED
        BY <1>0, <1>7, <2>1, <2>2 DEF TrailingSync, PanelTypes
<1>8. ASSUME NEW works \in BOOLEAN, TakeSnapshot(works)
      PROVE  PanelTypes'
    <2>1. Snapshot \in Snapshots
        BY <1>0 DEF Snapshot, Snapshots
    <2>2. QED
        BY <1>0, <1>8, <2>1 DEF TakeSnapshot, PanelTypes, SyncOf
<1>9. CASE SyncQueueSnapshotFromRust
    <2>1. NoSnapshot \in Snapshots
        BY DEF NoSnapshot, Snapshots, Tasked
    <2>2. Landed(sync) \in SyncOf
        BY <1>0, <2>1 DEF Landed, SyncOf
    <2>3. Repeated(Landed(sync)) \in SyncOf
        BY <2>2, SyncKeepsType
    <2>4. sync.answer.active \in Tasked /\ sync.answer.queue \in SUBSET Scrapes
        BY <1>0 DEF SyncOf, Snapshots
    <2>5. shown' \in ShownOf
        BY <1>0, <1>9, <2>4 DEF SyncQueueSnapshotFromRust, ShownOf
    <2>6. QED
        BY <1>0, <1>9, <2>3, <2>5 DEF SyncQueueSnapshotFromRust, PanelTypes
<1>10. CASE HandleSkipScraper \/ HandleClearScraperQueue \/ HandleShowScraperWindow
            \/ RefreshCancels \/ \E t \in Scrapes : HandlePushToQueue(t)
    BY <1>0, <1>10 DEF HandleSkipScraper, HandleClearScraperQueue,
       HandleShowScraperWindow, RefreshCancels, HandlePushToQueue, Invoke, PanelTypes
<1>11. ASSUME NEW c \in panelCommands, CancelBegins(c)
       PROVE  PanelTypes'
    <2>1. shown' \in ShownOf /\ sync' \in SyncOf
        BY <1>11, HearingKeepsType DEF CancelBegins
    <2>2. QED
        BY <1>0, <1>11, <2>1 DEF CancelBegins, PanelTypes
<1>12. ASSUME NEW c \in panelCommands, CancelEnds(c) \/ ClearQueue(c) \/ PromoteActive(c)
       PROVE  PanelTypes'
    BY <1>0, <1>12 DEF CancelEnds, ClearQueue, PromoteActive, PanelTypes, Tasked
<1>13. ASSUME NEW c \in panelCommands, CommandReturns(c)
       PROVE  PanelTypes'
    <2>1. shown' \in ShownOf
        BY <1>0, <1>13 DEF CommandReturns, Quiet, ShownOf, Tasked
    <2>2. QED
        BY <1>0, <1>13, <2>1 DEF CommandReturns, PanelTypes
<1>14. CASE UNCHANGED panelVars
    BY <1>0, <1>14 DEF panelVars, PanelTypes
<1>15. QED
    BY <1>1, <1>2, <1>3, <1>4, <1>5, <1>6, <1>7, <1>8, <1>9, <1>10, <1>11, <1>12, <1>13,
       <1>14 DEF PanelNext, SyncGoes, CommandGoes

\* Every task of the panel is one there was, as what it shows is.
LEMMA PanelTyped == PanelInit /\ [][PanelNext]_panelVars => []PanelTypeOK
<1>1. PanelInit => PanelTypes
    <2>1. NoSnapshot \in Snapshots
        BY DEF NoSnapshot, Snapshots, Tasked
    <2>2. QED
        BY <2>1, PanelBounds DEF PanelInit, PanelTypes, ShownOf, SyncOf, Tasked
<1>2. PanelTypes => PanelTypeOK
    BY DEF PanelTypes, PanelTypeOK, ShownOf, SyncOf, Tasked
<1>3. QED
    BY <1>1, <1>2, PanelNextTypes, PTL

\* What the invariant of the rows does not speak of
RowBounds ==
    /\ record # NoRow => record.updated \in 0..MaxWrites
    /\ rowCalls \subseteq {"refresh", "all", "interval", "delete"}
    /\ dialogs \in {{}, {"error"}, {"deleting"}}

LEMMA RowBoundsNext == RowsInv /\ RowBounds /\ [SourcesPanelNext]_rowVars => RowBounds'
<1> SUFFICES ASSUME RowsInv, RowBounds, [SourcesPanelNext]_rowVars
             PROVE  RowBounds'
    OBVIOUS
<1> USE SourcesPanelBounds
<1>0. record # NoRow => record \in RecordOf
    BY DEF RowsInv, RowTypes, Copies, WellFormed
<1>1. ASSUME NEW status, NEW error, NEW interaction,
             CanWrite, Wrote(status, error, interaction)
      PROVE  record'.updated \in 0..MaxWrites
    BY <1>0, <1>1 DEF CanWrite, Wrote, SetState, RecordOf
<1>2. ASSUME NEW stops \in BOOLEAN, FetchSucceeded(stops)
      PROVE  RowBounds'
    <2> DEFINE upserted == [Unwritten EXCEPT !.data = TRUE, !.updated = record.updated + 1]
    <2>1. upserted.updated = record.updated + 1
        BY DEF Unwritten
    <2>2. record'.updated = record.updated + 1
        BY <1>2, <2>1 DEF FetchSucceeded, SetState, Unwritten
    <2>3. record'.updated \in 0..MaxWrites
        BY <1>0, <1>2, <2>2 DEF FetchSucceeded, CanWrite, RecordOf
    <2>4. QED
        BY <1>2, <2>3 DEF FetchSucceeded, RowBounds
<1>3. ASSUME NEW status, NEW error, NEW interaction, StateWritten(status, error, interaction)
      PROVE  RowBounds'
    BY <1>1, <1>3 DEF StateWritten, RowBounds
<1>4. ASSUME NEW call, RefreshAnswered(call)
      PROVE  RowBounds'
    BY <1>1, <1>4 DEF RefreshAnswered, CallTaken, RowBounds
<1>5. CASE IntervalAnswered \/ DeletionAnswered \/ \E call \in rowCalls : CallFailed(call)
    BY <1>5 DEF IntervalAnswered, DeletionAnswered, CallFailed, CallTaken, RowBounds
<1>6. CASE HandleRefreshSource \/ RunGlobalRefresh \/ HandleInterval
    BY <1>6 DEF HandleRefreshSource, RunGlobalRefresh, HandleInterval, Sent, RowBounds
<1>7. CASE AskDeletion \/ OpenErrorDialog
    BY <1>7 DEF AskDeletion, OpenErrorDialog, RowBounds
<1>8. ASSUME NEW answered \in BOOLEAN,
             HandleDeleteSource(answered) \/ CloseErrorDialog(answered)
      PROVE  RowBounds'
    BY <1>8 DEF HandleDeleteSource, CloseErrorDialog, Sent, RowBounds
<1>9. CASE \/ PollSources \/ ListShown \/ AskDetail \/ DetailArrived \/ EventShown
           \/ UNCHANGED rowVars
    BY <1>9 DEF PollSources, ListShown, ListArrived, AskDetail, DetailArrived, EventShown,
       rowVars, RowBounds
<1>10. QED
    BY <1>2, <1>3, <1>4, <1>5, <1>6, <1>7, <1>8, <1>9 DEF SourcesPanelNext

LEMMA RowsTyped ==
    SourcesPanelInit /\ [][SourcesPanelNext]_rowVars => []SourcesPanelTypeOK
<1>1. SourcesPanelInit => RowBounds
    BY SourcesPanelBounds DEF SourcesPanelInit, Unwritten, RowBounds
<1>2. RowsInv /\ RowBounds => SourcesPanelTypeOK
    BY DEF RowsInv, RowTypes, StateOf, RowFormed, RowOf, WrittenStatus, RowBounds,
       SourcesPanelTypeOK
<1>3. QED
    BY <1>1, <1>2, RowsInitInv, RowsNextInv, RowBoundsNext, PTL

LEMMA LiveIsPanel == LiveSpec => PanelInit /\ [][PanelNext]_panelVars
<1>1. LiveInit => PanelInit
    BY DEF LiveInit
<1>2. [LiveNext]_liveVars => [PanelNext]_panelVars
    BY DEF LiveNext, liveVars
<1>3. QED
    BY <1>1, <1>2, PTL DEF LiveSpec

\* Whatever of daemon, panel and rows changes, all their variables stay in their
\* ranges: pages and calls of the daemon hold grants that were made, the panel
\* knows tasks there were only, and no row has a status the backend does not write.
THEOREM LiveTyped == LiveSpec => []LiveTypeOK
<1>1. LiveSpec => []DaemonTypeOK
    <2>1. DaemonIInv => DaemonTypeOK
        BY DEF DaemonIInv
    <2>2. QED
        BY <2>1, DaemonInvariant, LiveIsDaemon, PTL
<1>2. LiveSpec => []PanelTypeOK
    BY LiveIsPanel, PanelTyped, PTL
<1>3. LiveSpec => []SourcesPanelTypeOK
    BY LiveIsRows, RowsTyped, PTL
<1>4. QED
    BY <1>1, <1>2, <1>3, PTL DEF LiveTypeOK

=============================================================================
