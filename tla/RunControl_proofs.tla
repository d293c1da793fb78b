-------------------------- MODULE RunControl_proofs --------------------------
(***************************************************************************)
(* Proofs about RunControl, for any number of instances and runs, every    *)
(* daily limit and every function limit that is below the age limit by     *)
(* more than the clocks differ.                                            *)
(*                                                                         *)
(* The inductive invariant, besides the types:                             *)
(*   LockProtects     a run that may write holds the lock;                 *)
(*   ReleaseIsFinal   a release is requested only by a run that is done    *)
(*                    with writing, so it may be applied at any time;      *)
(*   LockIsYoung      a live run's lock is no older than its invocation;   *)
(*   SavedAfterLock   a run that was ever saved had acquired the lock.     *)
(* OneWriter follows from the first two; InterruptedIsOver needs all.      *)
(* The daily limit has an invariant of its own, DailyCountIsTrue: the      *)
(* counter of the row bounds the runs of its day, and a later day has      *)
(* none.                                                                   *)
(***************************************************************************)
EXTENDS RunControl, FiniteSetTheorems, TLAPS

Locked == {"saveRun", "executing", "progress", "saveComplete", "saveFailed"}

LockProtects == \A r \in Runs : pc[r] \in Locked \/ r \in pending => holder = r

ReleaseIsFinal ==
  \A r \in Runs :
    /\ pc[r] = "saveComplete" => r \notin pending
    /\ Call("release", r, None) \in calls =>
         pc[r] \in Ended \union {"release"} /\ r \notin pending

LockIsYoung == \A r \in Runs : pc[r] \in Locked => lockAge <= age[r]

SavedAfterLock ==
  \A r \in Runs :
    pc[r] \in {"new", "acquire"} =>
      row[r] = None /\ \A s \in Statuses : Call("save", r, s) \notin calls

ViewOfSaved ==
  view.at \in {"active", "control"} \/ view.answer = "interrupted" =>
    view.run \in Runs /\ row[view.run] # None

IInv ==
  /\ RunTypeOK
  /\ LockProtects
  /\ ReleaseIsFinal
  /\ LockIsYoung
  /\ SavedAfterLock
  /\ ViewOfSaved
  /\ InterruptedIsOver

-----------------------------------------------------------------------------
(* Types                                                                    *)

\* The memory of a process stays a set of runs when a run leaves it.
LEMMA DeactivateType ==
  ASSUME RunTypeOK, NEW r \in Runs, Deactivate(r)
  PROVE  active' \in [Instances -> SUBSET Runs]
<1>1. active \in [Instances -> SUBSET Runs]
  BY DEF RunTypeOK
<1>2. CASE host[r] \in Instances
  BY <1>1, <1>2 DEF Deactivate
<1>3. CASE host[r] \notin Instances
  BY <1>1, <1>3 DEF Deactivate
<1>4. QED
  BY <1>2, <1>3

\* Every answer of getRun is one of the statuses a client knows.
LEMMA AnswerType ==
  ASSUME RunTypeOK, NEW a \in Statuses \union {"interrupted"}, Answer(a)
  PROVE  view' \in Views
<1>1. view \in Views
  BY DEF RunTypeOK
<1>2. QED
  BY <1>1 DEF Answer, Views

-----------------------------------------------------------------------------
(* One lemma per action                                                     *)

\* A start saves nothing and locks nothing.
LEMMA StartIInv ==
  ASSUME IInv, NEW i \in Instances, NEW r \in Runs, Start(i, r)
  PROVE  IInv'
<1> USE DEF IInv
<1>1. RunTypeOK'
  BY NoneAssumption, LimitsAssumption
     DEF RunTypeOK, Start, MaxAge, Statuses, Calls, Waiting, Ended, Views, Goto, Call,
         lockVars
<1>2. ViewOfSaved'
  BY DEF ViewOfSaved, Start
<1>3. LockProtects'
  BY DEF LockProtects, Start, Locked, Goto, Call, lockVars
<1>4. ReleaseIsFinal'
  BY DEF ReleaseIsFinal, Start, Call, Ended, Goto
<1>5. LockIsYoung'
  BY DEF LockIsYoung, Start, Locked, Goto, Call, lockVars
<1>6. SavedAfterLock'
  BY DEF SavedAfterLock, Start, Statuses, Call, Goto
<1>7. InterruptedIsOver'
  BY DEF ViewOfSaved, InterruptedIsOver, Start, Ended, Goto, Call
<1>8. QED
  BY <1>1, <1>2, <1>3, <1>4, <1>5, <1>6, <1>7

\* A start that fails leaves the lock to its run.
LEMMA StartFailsIInv ==
  ASSUME IInv, NEW r \in Runs, StartFails(r)
  PROVE  IInv'
<1> USE DEF IInv
<1>1. RunTypeOK'
  BY DeactivateType, NoneAssumption, LimitsAssumption
     DEF RunTypeOK, StartFails, MaxAge, Statuses, Calls, Waiting, Ended, Views, Goto,
         lockVars, Call
<1>2. ViewOfSaved'
  BY DEF ViewOfSaved, StartFails
<1>3. LockProtects'
  BY DEF LockProtects, StartFails, Locked, Goto, lockVars
<1>4. ReleaseIsFinal'
  BY DEF ReleaseIsFinal, StartFails, Call, Ended, Goto
<1>5. LockIsYoung'
  BY DEF LockIsYoung, StartFails, Locked, Goto, lockVars
<1>6. SavedAfterLock'
  BY DEF SavedAfterLock, StartFails, Statuses, Call, Goto
<1>7. InterruptedIsOver'
  BY DEF ViewOfSaved, InterruptedIsOver, StartFails, Ended, Goto
<1>8. QED
  BY <1>1, <1>2, <1>3, <1>4, <1>5, <1>6, <1>7

\* Only a run that holds the lock broadcasts.
LEMMA BroadcastIInv ==
  ASSUME IInv, NEW r \in Runs, Broadcast(r)
  PROVE  IInv'
<1> USE DEF IInv
<1>1. RunTypeOK'
  BY NoneAssumption, LimitsAssumption
     DEF RunTypeOK, Broadcast, MaxAge, Statuses, Calls, Waiting, Ended, Views,
         lockVars, runVars, Call
<1>2. LockIsYoung' /\ SavedAfterLock' /\ ViewOfSaved' /\ InterruptedIsOver'
  BY DEF LockIsYoung, SavedAfterLock, ViewOfSaved, InterruptedIsOver, Broadcast,
         lockVars, runVars
<1>3. LockProtects'
  BY DEF LockProtects, Broadcast, Locked, lockVars, runVars
<1>4. ReleaseIsFinal'
  BY DEF ReleaseIsFinal, Broadcast, Call, Ended, runVars
<1>5. QED
  BY <1>1, <1>2, <1>3, <1>4

\* A resolved transaction preserves the invariant.
LEMMA ResolveIInv ==
  ASSUME IInv, NEW r \in Runs, Resolve(r)
  PROVE  IInv'
<1> USE DEF IInv
<1>1. RunTypeOK'
  BY NoneAssumption, LimitsAssumption
     DEF RunTypeOK, Resolve, MaxAge, Statuses, Calls, Waiting, Ended, Views, lockVars,
         runVars, Call
<1>2. LockIsYoung' /\ SavedAfterLock' /\ ViewOfSaved' /\ InterruptedIsOver'
  BY DEF LockIsYoung, SavedAfterLock, ViewOfSaved, InterruptedIsOver, Resolve,
         lockVars, runVars
<1>3. LockProtects'
  BY DEF LockProtects, Resolve, Locked, lockVars, runVars
<1>4. ReleaseIsFinal'
  BY DEF ReleaseIsFinal, Resolve, Call, Ended, runVars
<1>5. QED
  BY <1>1, <1>2, <1>3, <1>4

\* A saved stage preserves the invariant.
LEMMA ProgressIInv ==
  ASSUME IInv, NEW r \in Runs, Progress(r)
  PROVE  IInv'
<1> USE DEF IInv
<1>1. RunTypeOK'
  BY NoneAssumption, LimitsAssumption
     DEF RunTypeOK, Progress, MaxAge, Statuses, Calls, Waiting, Ended, Views, Goto,
         Call, lockVars
<1>2. ViewOfSaved'
  BY DEF ViewOfSaved, Progress
<1>3. LockProtects'
  BY DEF LockProtects, Progress, Locked, Goto, Call, lockVars
<1>4. ReleaseIsFinal'
  BY DEF ReleaseIsFinal, Progress, Call, Ended, Goto
<1>5. LockIsYoung'
  BY DEF LockIsYoung, Progress, Locked, Goto, Call, lockVars
<1>6. SavedAfterLock'
  BY DEF SavedAfterLock, Progress, Statuses, Call, Goto
<1>7. InterruptedIsOver'
  BY DEF ViewOfSaved, InterruptedIsOver, Progress, Ended, Goto, Call
<1>8. QED
  BY <1>1, <1>2, <1>3, <1>4, <1>5, <1>6, <1>7

\* Work is complete when none of its transactions is pending.
LEMMA CompleteIInv ==
  ASSUME IInv, NEW r \in Runs, Complete(r)
  PROVE  IInv'
<1> USE DEF IInv
<1>1. RunTypeOK'
  BY NoneAssumption, LimitsAssumption
     DEF RunTypeOK, Complete, MaxAge, Statuses, Calls, Waiting, Ended, Views, Goto,
         Call, lockVars
<1>2. ViewOfSaved'
  BY DEF ViewOfSaved, Complete
<1>3. LockProtects'
  BY DEF LockProtects, Complete, Locked, Goto, Call, lockVars
<1>4. ReleaseIsFinal'
  BY DEF ReleaseIsFinal, Complete, Call, Ended, Goto
<1>5. LockIsYoung'
  BY DEF LockIsYoung, Complete, Locked, Goto, Call, lockVars
<1>6. SavedAfterLock'
  BY DEF SavedAfterLock, Complete, Statuses, Call, Goto
<1>7. InterruptedIsOver'
  BY DEF ViewOfSaved, InterruptedIsOver, Complete, Ended, Goto, Call
<1>8. QED
  BY <1>1, <1>2, <1>3, <1>4, <1>5, <1>6, <1>7

\* Failed work preserves the invariant.
LEMMA ExecutionFailsIInv ==
  ASSUME IInv, NEW r \in Runs, ExecutionFails(r)
  PROVE  IInv'
<1> USE DEF IInv
<1>1. RunTypeOK'
  BY NoneAssumption, LimitsAssumption
     DEF RunTypeOK, ExecutionFails, MaxAge, Statuses, Calls, Waiting, Ended, Views,
         Goto, Call, lockVars
<1>2. ViewOfSaved'
  BY DEF ViewOfSaved, ExecutionFails
<1>3. LockProtects'
  BY DEF LockProtects, ExecutionFails, Locked, Goto, Call, lockVars
<1>4. ReleaseIsFinal'
  BY DEF ReleaseIsFinal, ExecutionFails, Call, Ended, Goto
<1>5. LockIsYoung'
  BY DEF LockIsYoung, ExecutionFails, Locked, Goto, Call, lockVars
<1>6. SavedAfterLock'
  BY DEF SavedAfterLock, ExecutionFails, Statuses, Call, Goto
<1>7. InterruptedIsOver'
  BY DEF ViewOfSaved, InterruptedIsOver, ExecutionFails, Ended, Goto, Call
<1>8. QED
  BY <1>1, <1>2, <1>3, <1>4, <1>5, <1>6, <1>7

\* A last request that fails preserves the invariant.
LEMMA LastSaveFailsIInv ==
  ASSUME IInv, NEW r \in Runs, LastSaveFails(r)
  PROVE  IInv'
<1> USE DEF IInv
<1>1. RunTypeOK'
  BY DeactivateType, NoneAssumption, LimitsAssumption
     DEF RunTypeOK, LastSaveFails, MaxAge, Statuses, Calls, Waiting, Ended, Views,
         Goto, lockVars, Call
<1>2. ViewOfSaved'
  BY DEF ViewOfSaved, LastSaveFails
<1>3. LockProtects'
  BY DEF LockProtects, LastSaveFails, Locked, Goto, lockVars
<1>4. ReleaseIsFinal'
  BY DEF ReleaseIsFinal, LastSaveFails, Call, Ended, Goto
<1>5. LockIsYoung'
  BY DEF LockIsYoung, LastSaveFails, Locked, Goto, lockVars
<1>6. SavedAfterLock'
  BY DEF SavedAfterLock, LastSaveFails, Statuses, Call, Goto
<1>7. InterruptedIsOver'
  BY DEF ViewOfSaved, InterruptedIsOver, LastSaveFails, Ended, Goto
<1>8. QED
  BY <1>1, <1>2, <1>3, <1>4, <1>5, <1>6, <1>7

\* The operator releases the lock of a run that does not need it any more.
LEMMA OperatorReleaseIInv ==
  ASSUME IInv, NEW r \in Runs, OperatorRelease(r)
  PROVE  IInv'
<1> USE DEF IInv
<1>1. RunTypeOK'
  BY NoneAssumption, LimitsAssumption
     DEF RunTypeOK, OperatorRelease, MaxAge, Statuses, Calls, Waiting, Ended, Views,
         runVars, Call
<1>2. ReleaseIsFinal' /\ SavedAfterLock' /\ ViewOfSaved' /\ InterruptedIsOver'
  BY DEF ReleaseIsFinal, SavedAfterLock, ViewOfSaved, InterruptedIsOver,
         OperatorRelease, runVars
<1>3. LockProtects'
  BY DEF LockProtects, OperatorRelease, Locked, Ended, runVars
<1>4. LockIsYoung'
  BY DEF RunTypeOK, LockIsYoung, OperatorRelease, Locked, Ended, runVars
<1>5. QED
  BY <1>1, <1>2, <1>3, <1>4

\* The lock is granted only when no run holds it, hence when no other run writes.
LEMMA ApplyAcquireIInv ==
  ASSUME IInv, NEW c \in calls, ApplyAcquire(c)
  PROVE  IInv'
<1> USE DEF IInv
<1>1. RunTypeOK'
  BY NoneAssumption, LimitsAssumption
     DEF RunTypeOK, ApplyAcquire, MaxAge, Statuses, Calls, Waiting, Ended, Views,
         DailyLimitReached, Goto, Call, Deactivate
<1>2. ViewOfSaved'
  BY DEF ViewOfSaved, ApplyAcquire
<1>3. LockProtects'
  BY NoneAssumption, LimitsAssumption
     DEF RunTypeOK, LockProtects, ApplyAcquire, Locked, DailyLimitReached, Goto, Call
<1>4. ReleaseIsFinal'
  BY DEF RunTypeOK, ReleaseIsFinal, ApplyAcquire, Call, Ended, DailyLimitReached, Goto
<1>5. LockIsYoung'
  BY DEF RunTypeOK, LockIsYoung, LockProtects, ApplyAcquire, Locked, DailyLimitReached,
         Goto, Call
<1>6. SavedAfterLock'
  BY DEF RunTypeOK, SavedAfterLock, ApplyAcquire, Statuses, Call, DailyLimitReached,
         Goto
<1>7. InterruptedIsOver'
  BY DEF RunTypeOK, ViewOfSaved, InterruptedIsOver, ApplyAcquire, Ended,
         DailyLimitReached, Goto, Call
<1>8. QED
  BY <1>1, <1>2, <1>3, <1>4, <1>5, <1>6, <1>7

\* A save that is applied late finds a run that acquired the lock long before.
LEMMA ApplySaveIInv ==
  ASSUME IInv, NEW c \in calls, ApplySave(c)
  PROVE  IInv'
<1> USE DEF IInv
<1>1. RunTypeOK'
  BY NoneAssumption, LimitsAssumption
     DEF RunTypeOK, ApplySave, MaxAge, Statuses, Calls, Waiting, Ended, Views, Goto,
         Call, Deactivate, lockVars
<1>2. LockProtects'
  BY DEF RunTypeOK, LockProtects, ApplySave, Locked, Goto, Call, lockVars
<1>3. ReleaseIsFinal'
  BY DEF RunTypeOK, ReleaseIsFinal, ApplySave, Call, Ended, Goto
<1>4. LockIsYoung'
  BY DEF RunTypeOK, LockIsYoung, ApplySave, Locked, Goto, Call, lockVars
<1>5. SavedAfterLock'
  BY DEF RunTypeOK, SavedAfterLock, ApplySave, Statuses, Call, Goto, Deactivate,
         lockVars, MaxAge, Calls, Waiting, Ended, Views
<1>6. ViewOfSaved'
  BY NoneAssumption, LimitsAssumption
     DEF RunTypeOK, ViewOfSaved, ApplySave, Goto, Call, Deactivate, lockVars, MaxAge,
         Statuses, Calls, Waiting, Ended, Views
<1>7. InterruptedIsOver'
  BY DEF RunTypeOK, ViewOfSaved, InterruptedIsOver, ApplySave, Ended, Goto, Call
<1>8. QED
  BY <1>1, <1>2, <1>3, <1>4, <1>5, <1>6, <1>7

\* A release that is applied late clears the lock of its own run or nothing.
LEMMA ApplyReleaseIInv ==
  ASSUME IInv, NEW c \in calls, ApplyRelease(c)
  PROVE  IInv'
<1> USE DEF IInv
<1>1. RunTypeOK'
  BY NoneAssumption, LimitsAssumption
     DEF RunTypeOK, ApplyRelease, MaxAge, Statuses, Calls, Waiting, Ended, Views,
         ReleasedBy, Goto, Call
<1>2. ViewOfSaved'
  BY DEF ViewOfSaved, ApplyRelease
<1>3. LockProtects'
  BY DEF RunTypeOK, LockProtects, ReleaseIsFinal, ApplyRelease, Locked, Call, Ended,
         ReleasedBy, Goto, MaxAge, Statuses, Calls, Waiting, Views
<1>4. ReleaseIsFinal'
  BY DEF RunTypeOK, ReleaseIsFinal, ApplyRelease, Call, Ended, ReleasedBy, Goto
<1>5. LockIsYoung'
  BY DEF RunTypeOK, LockIsYoung, ApplyRelease, Locked, ReleasedBy, Goto
<1>6. SavedAfterLock'
  BY DEF RunTypeOK, SavedAfterLock, ApplyRelease, Statuses, Call, ReleasedBy, Goto
<1>7. InterruptedIsOver'
  BY DEF RunTypeOK, ViewOfSaved, InterruptedIsOver, ApplyRelease, Ended, ReleasedBy,
         Goto
<1>8. QED
  BY <1>1, <1>2, <1>3, <1>4, <1>5, <1>6, <1>7

\* The end of a process ends its runs and leaves the lock and the requests alone.
LEMMA ProcessEndsIInv ==
  ASSUME IInv, NEW i \in Instances, ProcessEnds(i)
  PROVE  IInv'
<1> USE DEF IInv
<1>1. RunTypeOK'
  BY NoneAssumption, LimitsAssumption
     DEF RunTypeOK, ProcessEnds, MaxAge, Statuses, Calls, Waiting, Ended, Views, Live,
         NoView, lockVars, Call
<1>2. LockProtects'
  BY DEF LockProtects, ProcessEnds, Locked, Live, NoView, lockVars, Waiting
<1>3. ReleaseIsFinal'
  BY DEF ReleaseIsFinal, ProcessEnds, Call, Ended, Live, NoView, Waiting
<1>4. LockIsYoung'
  BY DEF LockIsYoung, ProcessEnds, Locked, Live, NoView, lockVars, Waiting
<1>5. SavedAfterLock'
  BY DEF SavedAfterLock, ProcessEnds, Statuses, Call, Live, NoView, Waiting
<1>6. ViewOfSaved'
  BY NoneAssumption
     DEF ViewOfSaved, ProcessEnds, Live, NoView, Waiting
<1>7. InterruptedIsOver'
  BY NoneAssumption
     DEF ViewOfSaved, InterruptedIsOver, ProcessEnds, Ended, Live, NoView, Waiting
<1>8. QED
  BY <1>1, <1>2, <1>3, <1>4, <1>5, <1>6, <1>7

\* The lock and its run's invocation age together.
LEMMA TickIInv ==
  ASSUME IInv, Tick
  PROVE  IInv'
<1> USE DEF IInv
<1>1. RunTypeOK'
  BY NoneAssumption, LimitsAssumption
     DEF RunTypeOK, Tick, MaxAge, Statuses, Calls, Waiting, Ended, Views, Live, Call
<1>2. LockProtects' /\ ReleaseIsFinal' /\ SavedAfterLock' /\ ViewOfSaved' /\
     InterruptedIsOver'
  BY DEF LockProtects, ReleaseIsFinal, SavedAfterLock, ViewOfSaved, InterruptedIsOver,
         Tick
<1>3. LockIsYoung'
  BY DEF RunTypeOK, LockIsYoung, Tick, Locked, Live, MaxAge, Waiting
<1>4. QED
  BY <1>1, <1>2, <1>3

\* A new day preserves the invariant.
LEMMA NextDayIInv ==
  ASSUME IInv, NextDay
  PROVE  IInv'
<1> USE DEF IInv
<1>1. RunTypeOK'
  BY NoneAssumption, LimitsAssumption
     DEF RunTypeOK, NextDay, MaxAge, Statuses, Calls, Waiting, Ended, Views, runVars,
         Call
<1>2. LockProtects' /\ ReleaseIsFinal' /\ LockIsYoung' /\ SavedAfterLock' /\ ViewOfSaved' /\
     InterruptedIsOver'
  BY DEF LockProtects, ReleaseIsFinal, LockIsYoung, SavedAfterLock, ViewOfSaved,
         InterruptedIsOver, NextDay, runVars
<1>3. QED
  BY <1>1, <1>2

\* A read of the row preserves the invariant.
LEMMA ReadRowIInv ==
  ASSUME IInv, NEW i \in Viewers, NEW r \in Runs, ReadRow(i, r)
  PROVE  IInv'
<1> USE DEF IInv
<1>1. RunTypeOK'
  BY NoneAssumption, LimitsAssumption, ViewersAssumption
     DEF RunTypeOK, ReadRow, MaxAge, Statuses, Calls, Waiting, Ended, Views, lockVars,
         runVars, Call
<1>2. LockProtects' /\ ReleaseIsFinal' /\ LockIsYoung' /\ SavedAfterLock'
  BY DEF LockProtects, ReleaseIsFinal, LockIsYoung, SavedAfterLock, ReadRow, lockVars,
         runVars
<1>3. ViewOfSaved'
  BY DEF ViewOfSaved, ReadRow
<1>4. InterruptedIsOver'
  BY NoneAssumption, LimitsAssumption, ViewersAssumption
     DEF RunTypeOK, ViewOfSaved, InterruptedIsOver, ReadRow, Ended, lockVars, runVars,
         MaxAge, Statuses, Calls, Waiting, Views, Call
<1>5. QED
  BY <1>1, <1>2, <1>3, <1>4

\* A look at the process's memory preserves the invariant.
LEMMA CheckActiveIInv ==
  ASSUME IInv, CheckActive
  PROVE  IInv'
<1> USE DEF IInv
<1>1. RunTypeOK'
  BY AnswerType, NoneAssumption, LimitsAssumption
     DEF RunTypeOK, CheckActive, MaxAge, Statuses, Calls, Waiting, Ended, Views,
         lockVars, runVars, Call
<1>2. LockProtects' /\ ReleaseIsFinal' /\ LockIsYoung' /\ SavedAfterLock'
  BY DEF LockProtects, ReleaseIsFinal, LockIsYoung, SavedAfterLock, CheckActive,
         lockVars, runVars
<1>3. ViewOfSaved'
  <2>1. view'.run = view.run /\ row' = row /\ view.at = "active"
    BY DEF CheckActive, Answer, RunTypeOK, Views
  <2>2. QED
    BY <2>1 DEF ViewOfSaved
<1>4. InterruptedIsOver'
  <2>1. view \in Views /\ pc' = pc
    BY DEF CheckActive, runVars, RunTypeOK
  <2>2. CASE Answer("running")
    <3>1. view'.answer = "running"
      BY <2>1, <2>2 DEF Answer, Views
    <3>2. QED
      BY <3>1 DEF InterruptedIsOver
  <2>3. CASE view' = [view EXCEPT !.at = "control"]
    <3>1. view'.answer = view.answer /\ view'.run = view.run
      BY <2>1, <2>3 DEF Views
    <3>2. QED
      BY <2>1, <3>1 DEF InterruptedIsOver
  <2>4. QED
    BY <2>2, <2>3 DEF CheckActive
<1>5. QED
  BY <1>1, <1>2, <1>3, <1>4

\* A look at the lock calls only a run interrupted that is over.
LEMMA CheckControlIInv ==
  ASSUME IInv, CheckControl
  PROVE  IInv'
<1> USE DEF IInv
<1>1. RunTypeOK'
  BY AnswerType, NoneAssumption, LimitsAssumption
     DEF RunTypeOK, CheckControl, MaxAge, Statuses, Calls, Waiting, Ended, Views,
         lockVars, runVars, Call
<1>2. LockProtects' /\ ReleaseIsFinal' /\ LockIsYoung' /\ SavedAfterLock'
  BY DEF LockProtects, ReleaseIsFinal, LockIsYoung, SavedAfterLock, CheckControl,
         lockVars, runVars
<1>3. ViewOfSaved'
  <2>1. view'.run = view.run /\ row' = row /\ view.at = "control"
    BY DEF CheckControl, Answer, RunTypeOK, Views
  <2>2. QED
    BY <2>1 DEF ViewOfSaved
\* A live run holds a lock that is younger than any clock's AgeLimit.
<1>4. InterruptedIsOver'
  <2>1. PICK skew \in -Skew..Skew :
          Answer(IF IsActive(view.run, skew) THEN "running" ELSE "interrupted")
    BY DEF CheckControl
  <2>2. view \in Views /\ pc' = pc /\ view.at = "control"
    BY DEF CheckControl, runVars, RunTypeOK
  <2>3. /\ view'.answer = IF IsActive(view.run, skew) THEN "running" ELSE "interrupted"
        /\ view'.run = view.run
    BY <2>1, <2>2 DEF Answer, Views
  <2>4. view.run \in Runs /\ row[view.run] # None
    BY <2>2 DEF ViewOfSaved
  <2>5. pc[view.run] \in Locked => IsActive(view.run, skew)
    <3>1. SUFFICES ASSUME pc[view.run] \in Locked
                   PROVE  holder = view.run /\ lockAge + skew < AgeLimit
      BY DEF IsActive
    <3>2. lockAge <= age[view.run] /\ age[view.run] <= FunctionLimit
      BY <2>4, <3>1 DEF LockIsYoung, RunTypeOK
    <3>3. /\ lockAge \in Int /\ age[view.run] \in Int /\ skew \in Int /\ skew <= Skew
          /\ FunctionLimit + Skew < AgeLimit /\ FunctionLimit \in Int /\ Skew \in Int
          /\ AgeLimit \in Int
      BY <2>4, LimitsAssumption DEF RunTypeOK, MaxAge
    <3>4. lockAge + skew < AgeLimit
      BY <3>2, <3>3
    <3>5. QED
      BY <2>4, <3>1, <3>4 DEF LockProtects
  <2>6. pc[view.run] \notin {"new", "acquire"}
    BY <2>4 DEF SavedAfterLock
  <2>7. pc[view.run] \in Locked \union {"release"} \union Ended
    BY <2>4, <2>6 DEF RunTypeOK, Waiting, Ended, Locked
  <2>8. QED
    BY <2>2, <2>3, <2>5, <2>7 DEF InterruptedIsOver
<1>5. QED
  BY <1>1, <1>2, <1>3, <1>4

\* The end of a getRun preserves the invariant.
LEMMA EndViewIInv ==
  ASSUME IInv, EndView
  PROVE  IInv'
<1> USE DEF IInv
<1>1. RunTypeOK'
  BY NoneAssumption, LimitsAssumption
     DEF RunTypeOK, EndView, MaxAge, Statuses, Calls, Waiting, Ended, Views, NoView,
         lockVars, runVars, Call
<1>2. LockProtects' /\ ReleaseIsFinal' /\ LockIsYoung' /\ SavedAfterLock'
  BY DEF LockProtects, ReleaseIsFinal, LockIsYoung, SavedAfterLock, EndView, lockVars,
         runVars
<1>3. ViewOfSaved'
  BY NoneAssumption
     DEF ViewOfSaved, EndView, NoView
<1>4. InterruptedIsOver'
  BY NoneAssumption
     DEF ViewOfSaved, InterruptedIsOver, EndView, Ended, NoView, runVars
<1>5. QED
  BY <1>1, <1>2, <1>3, <1>4

-----------------------------------------------------------------------------
(* The invariant and what follows from it                                   *)

\* The invariant holds initially.
LEMMA InitIInv == Init => IInv
  BY NoneAssumption, LimitsAssumption
     DEF Init, IInv, RunTypeOK, Views, Statuses, Calls, Waiting, Ended, MaxAge, NoView,
         LockProtects, Locked, ReleaseIsFinal, LockIsYoung, SavedAfterLock, ViewOfSaved,
         InterruptedIsOver

\* Every step preserves it.
LEMMA NextIInv == IInv /\ [Next]_vars => IInv'
<1> SUFFICES ASSUME IInv, [Next]_vars PROVE IInv'
  OBVIOUS
<1>1. ASSUME NEW r \in Runs, RunStep(r) PROVE IInv'
  BY <1>1, StartFailsIInv, BroadcastIInv, ResolveIInv, ProgressIInv, CompleteIInv,
     ExecutionFailsIInv, LastSaveFailsIInv, OperatorReleaseIInv
     DEF RunStep
<1>2. ASSUME NEW i \in Instances, NEW r \in Runs, Start(i, r) PROVE IInv'
  BY <1>2, StartIInv
<1>3. ASSUME NEW c \in calls, Database(c) PROVE IInv'
  BY <1>3, ApplyAcquireIInv, ApplySaveIInv, ApplyReleaseIInv DEF Database
<1>4. ASSUME NEW i \in Instances, ProcessEnds(i) \/ TimesOut(i) PROVE IInv'
  BY <1>4, ProcessEndsIInv DEF TimesOut
<1>5. CASE GetRun
  BY <1>5, ReadRowIInv, CheckActiveIInv, CheckControlIInv, EndViewIInv DEF GetRun
<1>6. CASE Tick \/ NextDay
  BY <1>6, TickIInv, NextDayIInv
<1>7. CASE UNCHANGED vars
  BY <1>7 DEF vars, lockVars, runVars, IInv, RunTypeOK, LockProtects, ReleaseIsFinal,
              LockIsYoung, SavedAfterLock, ViewOfSaved, InterruptedIsOver
<1>8. QED
  BY <1>1, <1>2, <1>3, <1>4, <1>5, <1>6, <1>7 DEF Next

\* The inductive invariant is an invariant.
THEOREM IInvInvariant == Spec => []IInv
  BY InitIInv, NextIInv, PTL DEF Spec

\* Every variable keeps its type.
THEOREM TypeCorrect == Spec => []RunTypeOK
<1>1. IInv => RunTypeOK
  BY DEF IInv
<1>2. QED
  BY <1>1, IInvInvariant, PTL

\* Two runs never write at the same time: each of them would hold the one lock.
THEOREM OneWriterHolds == Spec => []OneWriter
<1>1. IInv => OneWriter
  BY DEF IInv, LockProtects, Locked, OneWriter, Writes
<1>2. QED
  BY <1>1, IInvInvariant, PTL

\* A run is called interrupted only when it is over: FunctionLimit + Skew < AgeLimit
\* is all that the two time limits must satisfy.
THEOREM InterruptedIsOverHolds == Spec => []InterruptedIsOver
<1>1. IInv => InterruptedIsOver
  BY DEF IInv
<1>2. QED
  BY <1>1, IInvInvariant, PTL
-----------------------------------------------------------------------------
(* The daily limit                                                          *)

GrantedOn(d) == {r \in Runs : grantedOn[r] = d}

\* The counter bounds the runs of its day; a day after it has none yet.
DailyCountIsTrue ==
  /\ usageDay <= day /\ dailyCount <= DailyLimit
  /\ \A d \in Nat \ {0} :
       /\ IsFiniteSet(GrantedOn(d))
       /\ Cardinality(GrantedOn(d)) <= DailyLimit
       /\ d = usageDay => Cardinality(GrantedOn(d)) <= dailyCount
       /\ d > usageDay => GrantedOn(d) = {}

DailyInv == RunTypeOK /\ day > 0 /\ DailyCountIsTrue

\* A run that is granted is one more of its day, and of no other day.
LEMMA GrantCounts ==
  ASSUME DailyInv, NEW r \in Runs, usageDay' = day, ~DailyLimitReached,
         dailyCount' = IF usageDay = day THEN dailyCount + 1 ELSE 1,
         grantedOn' = [grantedOn EXCEPT ![r] = day], day' = day
  PROVE  DailyCountIsTrue'
<1> USE DailyLimitAssumption DEF DailyInv
<1>1. day \in Nat \ {0} /\ usageDay \in Nat /\ dailyCount \in Nat /\ DailyLimit \in Nat \ {0}
  BY DEF RunTypeOK
<1>2. \A q \in Runs : grantedOn'[q] = IF q = r THEN day ELSE grantedOn[q]
  BY DEF RunTypeOK
<1>3. /\ IsFiniteSet(GrantedOn(day) \cup {r})
      /\ Cardinality(GrantedOn(day) \cup {r}) <= dailyCount'
      /\ dailyCount' \in Nat /\ dailyCount' <= DailyLimit
  <2>1. IsFiniteSet(GrantedOn(day)) /\ Cardinality(GrantedOn(day)) \in Nat
    BY <1>1, FS_CardinalityType DEF DailyCountIsTrue
  <2>2. Cardinality(GrantedOn(day)) <= IF usageDay = day THEN dailyCount ELSE 0
    <3>1. CASE usageDay = day
      BY <1>1, <3>1 DEF DailyCountIsTrue
    <3>2. CASE usageDay # day
      BY <1>1, <3>2, FS_EmptySet DEF DailyCountIsTrue
    <3>3. QED
      BY <3>1, <3>2
  <2>3. /\ IsFiniteSet(GrantedOn(day) \cup {r})
        /\ \/ Cardinality(GrantedOn(day) \cup {r}) = Cardinality(GrantedOn(day))
           \/ Cardinality(GrantedOn(day) \cup {r}) = Cardinality(GrantedOn(day)) + 1
    BY <2>1, FS_AddElement
  <2>4. QED
    BY <1>1, <2>1, <2>2, <2>3 DEF DailyLimitReached, DailyCountIsTrue
<1>4. ASSUME NEW d \in Nat \ {0}
      PROVE  /\ IsFiniteSet(GrantedOn(d)')
             /\ Cardinality(GrantedOn(d)') <= DailyLimit
             /\ d = usageDay' => Cardinality(GrantedOn(d)') <= dailyCount'
             /\ d > usageDay' => GrantedOn(d)' = {}
  <2>1. CASE d = day
    <3>1. GrantedOn(d)' = GrantedOn(day) \cup {r}
      BY <1>2, <2>1 DEF GrantedOn
    <3>2. Cardinality(GrantedOn(day) \cup {r}) \in Nat
      BY <1>3, FS_CardinalityType
    <3>3. QED
      BY <1>1, <1>3, <2>1, <3>1, <3>2
  <2>2. CASE d # day
    <3>1. GrantedOn(d)' \subseteq GrantedOn(d)
      BY <1>2, <2>2 DEF GrantedOn
    <3>2. IsFiniteSet(GrantedOn(d)) /\ Cardinality(GrantedOn(d)) <= DailyLimit
      BY DEF DailyCountIsTrue
    <3>3. /\ IsFiniteSet(GrantedOn(d)')
          /\ Cardinality(GrantedOn(d)') <= Cardinality(GrantedOn(d))
          /\ Cardinality(GrantedOn(d)) \in Nat /\ Cardinality(GrantedOn(d)') \in Nat
      BY <3>1, <3>2, FS_Subset, FS_CardinalityType
    <3>4. d > usageDay' => GrantedOn(d) = {}
      BY <1>1 DEF DailyCountIsTrue
    <3>5. QED
      BY <1>1, <2>2, <3>1, <3>2, <3>3, <3>4
  <2>3. QED
    BY <2>1, <2>2
<1>5. QED
  BY <1>1, <1>3, <1>4 DEF DailyCountIsTrue

\* Only a grant counts a run, and a new day begins with none.
LEMMA DailyStep == DailyInv /\ IInv /\ [Next]_vars => DailyInv'
<1> SUFFICES ASSUME DailyInv, IInv, [Next]_vars PROVE DailyInv'
  OBVIOUS
<1>1. RunTypeOK' /\ RunTypeOK
  BY NextIInv DEF IInv
<1>2. ASSUME UNCHANGED <<usageDay, dailyCount, grantedOn>>, day' = day \/ day' = day + 1
      PROVE  DailyInv'
  BY <1>1, <1>2 DEF DailyInv, DailyCountIsTrue, GrantedOn, RunTypeOK
<1>3. ASSUME NEW c \in calls, ApplyAcquire(c) PROVE DailyInv'
  <2>1. c.run \in Runs
    BY <1>1, <1>3 DEF RunTypeOK, Calls, Call, ApplyAcquire, Statuses
  <2>2. CASE UNCHANGED <<usageDay, dailyCount, grantedOn>>
    BY <1>2, <1>3, <2>2 DEF ApplyAcquire
  <2>3. CASE /\ usageDay' = day /\ ~DailyLimitReached
             /\ dailyCount' = IF usageDay = day THEN dailyCount + 1 ELSE 1
             /\ grantedOn' = [grantedOn EXCEPT ![c.run] = day]
    <3>1. day' = day
      BY <1>3 DEF ApplyAcquire
    <3>2. DailyCountIsTrue'
      BY <2>1, <2>3, <3>1, GrantCounts
    <3>3. QED
      BY <1>1, <3>1, <3>2 DEF DailyInv
  <2>4. QED
    BY <1>3, <2>2, <2>3 DEF ApplyAcquire
<1>4. CASE \E r \in Runs : RunStep(r)
  BY <1>2, <1>4
     DEF RunStep, StartFails, Broadcast, Resolve, Progress, Complete, ExecutionFails,
         LastSaveFails, OperatorRelease, lockVars
<1>5. CASE \E i \in Instances, r \in Runs : Start(i, r)
  BY <1>2, <1>5 DEF Start, lockVars
<1>6. ASSUME NEW c \in calls, ApplySave(c) \/ ApplyRelease(c) PROVE DailyInv'
  BY <1>2, <1>6 DEF ApplySave, ApplyRelease, lockVars
<1>7. CASE \E i \in Instances : ProcessEnds(i) \/ TimesOut(i)
  BY <1>2, <1>7 DEF ProcessEnds, TimesOut, lockVars
<1>8. CASE GetRun \/ Tick \/ NextDay
  BY <1>2, <1>8
     DEF GetRun, ReadRow, CheckActive, CheckControl, EndView, Tick, NextDay, lockVars
<1>9. CASE UNCHANGED vars
  BY <1>2, <1>9 DEF vars, lockVars
<1>10. QED
  BY <1>3, <1>4, <1>5, <1>6, <1>7, <1>8, <1>9 DEF Next, Database

\* At first no run was granted.
LEMMA DailyInit == Init => DailyInv
<1> SUFFICES ASSUME Init PROVE DailyInv
  OBVIOUS
<1>1. RunTypeOK
  BY InitIInv DEF IInv
<1>2. \A d \in Nat \ {0} : GrantedOn(d) = {}
  BY DEF Init, GrantedOn
<1>3. QED
  BY <1>1, <1>2, FS_EmptySet, DailyLimitAssumption DEF Init, DailyInv, DailyCountIsTrue

\* No day sees more than DailyLimit runs granted, whatever requests are lost, applied
\* late or sent by processes that have ended (acquire_demo_writer).
THEOREM DailyLimitHoldsAlways == Spec => []DailyLimitHolds
<1>1. DailyInv => DailyLimitHolds
  BY DEF DailyInv, DailyCountIsTrue, GrantedOn, DailyLimitHolds
<1>2. QED
  BY <1>1, DailyInit, DailyStep, IInvInvariant, PTL DEF Spec
=============================================================================
