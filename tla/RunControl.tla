------------------------------ MODULE RunControl ------------------------------
(***************************************************************************)
(* Demo runs on serverless instances: CaseService.start, execute and       *)
(* getRun (backend/src/api/cases.ts), the run rows they save, and the      *)
(* database-wide writer lock with its daily limit (runControl.ts and       *)
(* 20260920141145_serverless_run_control.sql).                             *)
(*                                                                         *)
(* The gateway's work inside a run is abstracted to transactions that are  *)
(* broadcast and, at some time or never, resolved; Gateway models it.      *)
(* A database request is a message in `calls`: the caller that waits for   *)
(* its answer may get an error instead, while the request is still applied *)
(* later or never.  The process of an instance may end at any time, and    *)
(* the platform ends it when an invocation reaches its time limit; the     *)
(* next request to the instance meets a fresh process.                     *)
(***************************************************************************)
EXTENDS Integers, FiniteSets

CONSTANTS
  Instances,      \* API processes
  Viewers,        \* the instances on which getRun is called: none in a run about the rest
  Runs,           \* run identifiers: randomUUID, never reused
  None,
  DailyLimit,     \* DEMO_DAILY_LIMIT
  FunctionLimit,  \* maxDuration, 300 s
  AgeLimit,       \* the age at which a running status is disbelieved, 360 s
  Skew,           \* how far the clocks of an instance and of the database differ
  MaxDay          \* bound: the last day of a behaviour

Statuses == {"running", "complete", "failed"}

ASSUME NoneAssumption ==
  None \notin Instances \union Runs \union Statuses \union {"interrupted"}
ASSUME ViewersAssumption == Viewers \subseteq Instances
ASSUME DailyLimitAssumption == DailyLimit \in Nat \ {0}
ASSUME LimitsAssumption ==
  /\ FunctionLimit \in Nat /\ AgeLimit \in Nat /\ Skew \in Nat
  /\ FunctionLimit + Skew < AgeLimit
ASSUME MaxDayAssumption == MaxDay \in Nat

VARIABLES
  holder,     \* demo_writer_control.run_id
  lockAge,    \* time since started_at, up to MaxAge
  day,        \* current_date
  usageDay,   \* demo_writer_control.usage_day
  dailyCount, \* demo_writer_control.daily_count
  grantedOn,  \* history: the day the lock was granted to a run, 0 if it was not
  row,        \* demo_runs: the status of a run's record
  calls,      \* database requests that were sent and not applied
  pc,         \* where a run is
  host,       \* the instance that started it
  age,        \* time since its invocation began
  active,     \* CaseService.active of each instance
  pending,    \* runs with a broadcast transaction that is neither mined nor dropped
  view        \* a getRun on some instance: reads change nothing, so one at a time is enough

lockVars == <<holder, lockAge, day, usageDay, dailyCount, grantedOn>>
runVars == <<pc, host, age, active>>
vars == <<lockVars, row, calls, runVars, pending, view>>

MaxAge == AgeLimit + Skew
Ended == {"over", "killed"}
Waiting == {"acquire", "saveRun", "progress", "saveComplete", "saveFailed", "release"}
Live(r) == pc[r] \in Waiting \union {"executing"}

Call(op, r, status) == [op |-> op, run |-> r, status |-> status]
NoView == [at |-> "idle", on |-> None, run |-> None, answer |-> None]

Init ==
  /\ holder = None /\ lockAge = 0
  /\ day = 1 /\ usageDay = 1 /\ dailyCount = 0
  /\ grantedOn = [r \in Runs |-> 0]
  /\ row = [r \in Runs |-> None]
  /\ calls = {}
  /\ pc = [r \in Runs |-> "new"]
  /\ host = [r \in Runs |-> None]
  /\ age = [r \in Runs |-> 0]
  /\ active = [i \in Instances |-> {}]
  /\ pending = {}
  /\ view = NoView

Goto(r, to) == pc' = [pc EXCEPT ![r] = to]
Deactivate(r) == active' = [active EXCEPT ![host[r]] = @ \ {r}]

-----------------------------------------------------------------------------
(* start and execute                                                        *)

\* One run at a time per process; the lock is asked for.
Start(i, r) ==
  /\ pc[r] = "new"
  /\ active[i] = {}
  /\ active' = [active EXCEPT ![i] = {r}]
  /\ host' = [host EXCEPT ![r] = i]
  /\ Goto(r, "acquire")
  /\ calls' = calls \union {Call("acquire", r, None)}
  /\ UNCHANGED <<lockVars, row, age, pending, view>>

\* An error before the run executes: start throws, and an acquired lock stays.
StartFails(r) ==
  /\ pc[r] \in {"acquire", "saveRun"}
  /\ Deactivate(r)
  /\ Goto(r, "over")
  /\ UNCHANGED <<lockVars, row, calls, host, age, pending, view>>

\* The gateway broadcasts a transaction and waits for it, one at a time.
Broadcast(r) ==
  /\ pc[r] = "executing"
  /\ r \notin pending
  /\ pending' = pending \union {r}
  /\ UNCHANGED <<lockVars, row, calls, runVars, view>>

\* A transaction is mined, or dropped for good.
Resolve(r) ==
  /\ r \in pending
  /\ pending' = pending \ {r}
  /\ UNCHANGED <<lockVars, row, calls, runVars, view>>

\* A stage of the work is saved with the run.
Progress(r) ==
  /\ pc[r] = "executing"
  /\ r \notin pending
  /\ Goto(r, "progress")
  /\ calls' = calls \union {Call("save", r, "running")}
  /\ UNCHANGED <<lockVars, row, host, age, active, pending, view>>

\* submitRequest returned: every transaction it sent was waited for.
Complete(r) ==
  /\ pc[r] = "executing"
  /\ r \notin pending
  /\ Goto(r, "saveComplete")
  /\ calls' = calls \union {Call("save", r, "complete")}
  /\ UNCHANGED <<lockVars, row, host, age, active, pending, view>>

\* The work, or the request that a save waits for, throws; a transaction that was
\* sent stays sent.
ExecutionFails(r) ==
  /\ pc[r] \in {"executing", "progress", "saveComplete"}
  /\ Goto(r, "saveFailed")
  /\ calls' = calls \union {Call("save", r, "failed")}
  /\ UNCHANGED <<lockVars, row, host, age, active, pending, view>>

\* Neither an unsaved failure nor a failed release changes what follows it.
LastSaveFails(r) ==
  /\ pc[r] \in {"saveFailed", "release"}
  /\ Goto(r, "over")
  /\ Deactivate(r)
  /\ UNCHANGED <<lockVars, row, calls, host, age, pending, view>>

-----------------------------------------------------------------------------
(* The database applies a request, and answers a caller that still waits    *)

\* Mutant of DailyLimitReached: one run too many.
DailyLimitExceeded == usageDay = day /\ dailyCount > DailyLimit

DailyLimitReached == usageDay = day /\ dailyCount >= DailyLimit

\* acquire_demo_writer, under the lock of its row.
ApplyAcquire(c) ==
  LET r == c.run
      granted == holder = None /\ ~DailyLimitReached
      waits == pc[r] = "acquire"
  IN
  /\ c \in calls
  /\ c.op = "acquire"
  /\ \/ /\ granted
        /\ holder' = r
        /\ lockAge' = 0
        /\ usageDay' = day
        /\ dailyCount' = IF usageDay = day THEN dailyCount + 1 ELSE 1
        /\ grantedOn' = [grantedOn EXCEPT ![r] = day]
     \/ ~granted /\ UNCHANGED <<holder, lockAge, usageDay, dailyCount, grantedOn>>
  /\ \/ /\ waits /\ granted
        /\ Goto(r, "saveRun")
        /\ calls' = (calls \ {c}) \union {Call("save", r, "running")}
        /\ UNCHANGED active
     \/ /\ waits /\ ~granted
        /\ Goto(r, "over")
        /\ Deactivate(r)
        /\ calls' = calls \ {c}
     \/ /\ ~waits
        /\ calls' = calls \ {c}
        /\ UNCHANGED <<pc, active>>
  /\ UNCHANGED <<day, row, host, age, pending, view>>

\* saveRun: the run's record is replaced.
ApplySave(c) ==
  LET r == c.run IN
  /\ c \in calls
  /\ c.op = "save"
  /\ row' = [row EXCEPT ![r] = c.status]
  /\ \/ /\ c.status = "running" /\ pc[r] \in {"saveRun", "progress"}
        /\ Goto(r, "executing")
        /\ calls' = calls \ {c}
        /\ UNCHANGED active
     \/ /\ c.status = "complete" /\ pc[r] = "saveComplete"
        /\ Goto(r, "release")
        /\ calls' = (calls \ {c}) \union {Call("release", r, None)}
        /\ Deactivate(r)
     \/ /\ c.status = "failed" /\ pc[r] = "saveFailed"
        /\ Goto(r, "over")
        /\ calls' = calls \ {c}
        /\ Deactivate(r)
     \/ /\ <<c.status, pc[r]>> \notin {<<"running", "saveRun">>, <<"running", "progress">>,
                                       <<"complete", "saveComplete">>,
                                       <<"failed", "saveFailed">>}
        /\ calls' = calls \ {c}
        /\ UNCHANGED <<pc, active>>
  /\ UNCHANGED <<lockVars, host, age, pending, view>>

\* release_demo_writer clears the lock of its own run only.
ReleasedBy(r) == holder = r

ApplyRelease(c) ==
  LET r == c.run IN
  /\ c \in calls
  /\ c.op = "release"
  /\ calls' = calls \ {c}
  /\ \/ ReleasedBy(r) /\ holder' = None /\ lockAge' = 0
     \/ ~ReleasedBy(r) /\ UNCHANGED <<holder, lockAge>>
  /\ \/ pc[r] = "release" /\ Goto(r, "over")
     \/ pc[r] # "release" /\ UNCHANGED pc
  /\ UNCHANGED <<day, usageDay, dailyCount, grantedOn, row, host, age, active, pending, view>>

\* Mutant of OperatorRelease: pending transactions are not checked.
OperatorReleasesBlindly(r) ==
  /\ holder = r
  /\ pc[r] \in Ended
  /\ holder' = None
  /\ lockAge' = 0
  /\ UNCHANGED <<day, usageDay, dailyCount, grantedOn, row, calls, runVars, pending, view>>

\* An operator releases the lock of a run that ended and has no pending transaction.
OperatorRelease(r) ==
  /\ holder = r
  /\ pc[r] \in Ended
  /\ r \notin pending
  /\ holder' = None
  /\ lockAge' = 0
  /\ UNCHANGED <<day, usageDay, dailyCount, grantedOn, row, calls, runVars, pending, view>>

-----------------------------------------------------------------------------
(* The platform and time                                                    *)

\* The process of an instance ends: its runs stop and its memory is gone.
ProcessEnds(i) ==
  /\ pc' = [r \in Runs |-> IF host[r] = i /\ Live(r) THEN "killed" ELSE pc[r]]
  /\ active' = [active EXCEPT ![i] = {}]
  /\ view' = IF view.on = i THEN NoView ELSE view
  /\ UNCHANGED <<lockVars, row, calls, host, age, pending>>

\* An invocation reached its time limit.
TimesOut(i) ==
  /\ \E r \in Runs : host[r] = i /\ Live(r) /\ age[r] = FunctionLimit
  /\ ProcessEnds(i)

\* Mutant of Tick: the platform lets an invocation go on past its time limit.
TickPastLimit ==
  /\ \/ \E r \in Runs : Live(r)
     \/ holder # None /\ lockAge < MaxAge
  /\ age' = [r \in Runs |-> IF Live(r) THEN age[r] + 1 ELSE age[r]]
  /\ lockAge' = IF holder # None /\ lockAge < MaxAge THEN lockAge + 1 ELSE lockAge
  /\ UNCHANGED <<holder, day, usageDay, dailyCount, grantedOn, row, calls, pc, host, active,
                 pending, view>>

\* No invocation outlives its time limit.
Tick ==
  /\ \A r \in Runs : Live(r) => age[r] < FunctionLimit
  /\ \/ \E r \in Runs : Live(r)
     \/ holder # None /\ lockAge < MaxAge
  /\ age' = [r \in Runs |-> IF Live(r) THEN age[r] + 1 ELSE age[r]]
  /\ lockAge' = IF holder # None /\ lockAge < MaxAge THEN lockAge + 1 ELSE lockAge
  /\ UNCHANGED <<holder, day, usageDay, dailyCount, grantedOn, row, calls, pc, host, active,
                 pending, view>>

NextDay ==
  /\ day < MaxDay
  /\ day' = day + 1
  /\ UNCHANGED <<holder, lockAge, usageDay, dailyCount, grantedOn, row, calls, runVars,
                 pending, view>>

-----------------------------------------------------------------------------
(* getRun, its three reads one after the other                              *)

Answer(answer) == view' = [view EXCEPT !.at = "answered", !.answer = answer]

ReadRow(i, r) ==
  /\ view.at = "idle"
  /\ row[r] # None
  /\ view' = IF row[r] = "running" THEN [at |-> "active", on |-> i, run |-> r, answer |-> None]
             ELSE [at |-> "answered", on |-> i, run |-> r, answer |-> row[r]]
  /\ UNCHANGED <<lockVars, row, calls, runVars, pending>>

\* The row said running: is the run this process's own?
CheckActive ==
  /\ view.at = "active"
  /\ \/ view.run \in active[view.on] /\ Answer("running")
     \/ view.run \notin active[view.on] /\ view' = [view EXCEPT !.at = "control"]
  /\ UNCHANGED <<lockVars, row, calls, runVars, pending>>

\* Mutants of IsActive: a status that never ages out, and one that ages out early.
IsActiveForever(r, skew) == holder = r
IsActiveBriefly(r, skew) == holder = r /\ lockAge + skew < FunctionLimit

\* isActive: the instance's clock is `skew` ahead of the database's.
IsActive(r, skew) == holder = r /\ lockAge + skew < AgeLimit

\* Or does the run hold the lock, for less than AgeLimit?
CheckControl ==
  /\ view.at = "control"
  /\ \E skew \in -Skew..Skew :
       Answer(IF IsActive(view.run, skew) THEN "running" ELSE "interrupted")
  /\ UNCHANGED <<lockVars, row, calls, runVars, pending>>

\* The answer was delivered, or a read failed.
EndView ==
  /\ view.at # "idle"
  /\ view' = NoView
  /\ UNCHANGED <<lockVars, row, calls, runVars, pending>>

-----------------------------------------------------------------------------
RunStep(r) ==
  \/ StartFails(r) \/ Broadcast(r) \/ Resolve(r) \/ Progress(r) \/ Complete(r)
  \/ ExecutionFails(r) \/ LastSaveFails(r) \/ OperatorRelease(r)

Database(c) == ApplyAcquire(c) \/ ApplySave(c) \/ ApplyRelease(c)

GetRun ==
  \/ \E i \in Viewers, r \in Runs : ReadRow(i, r)
  \/ CheckActive \/ CheckControl \/ EndView

Next ==
  \/ \E r \in Runs : RunStep(r)
  \/ \E i \in Instances, r \in Runs : Start(i, r)
  \/ \E c \in calls : Database(c)
  \/ \E i \in Instances : ProcessEnds(i) \/ TimesOut(i)
  \/ GetRun \/ Tick \/ NextDay

Spec == Init /\ [][Next]_vars

\* Time passes, and the platform ends what reaches its time limit.  Nothing is
\* assumed of the database, of the chain, of the operator or of the run itself.
Fairness ==
  /\ WF_vars(Tick)
  /\ \A i \in Instances : WF_vars(TimesOut(i))

FairSpec == Spec /\ Fairness

-----------------------------------------------------------------------------
(* Properties                                                               *)

Calls ==
  {Call("acquire", r, None) : r \in Runs} \union {Call("release", r, None) : r \in Runs}
    \union {Call("save", r, s) : r \in Runs, s \in Statuses}

Views == [at : {"idle", "active", "control", "answered"}, on : Instances \union {None},
          run : Runs \union {None}, answer : Statuses \union {"interrupted", None}]

\* The types of every variable.
RunTypeOK ==
  /\ holder \in Runs \union {None}
  /\ lockAge \in 0..MaxAge
  /\ day \in Nat /\ usageDay \in Nat /\ dailyCount \in Nat
  /\ grantedOn \in [Runs -> Nat]
  /\ row \in [Runs -> Statuses \union {None}]
  /\ calls \subseteq Calls
  /\ pc \in [Runs -> Waiting \union Ended \union {"new", "executing"}]
  /\ host \in [Runs -> Instances \union {None}]
  /\ age \in [Runs -> 0..FunctionLimit]
  /\ active \in [Instances -> SUBSET Runs]
  /\ pending \subseteq Runs
  /\ view \in Views

\* A run that may broadcast, or whose transaction the writer's nonce waits for.
Writes(r) == pc[r] \in {"executing", "progress"} \/ r \in pending

\* Two runs never compete for the writer's nonces: not after a failure, an ended
\* process, a lost answer, a release that is applied late, or an operator's release
\* (cases.ts:82-83, 131-134; migration 20260920141145:1-2).
OneWriter == \A r, s \in Runs : Writes(r) /\ Writes(s) => r = s

\* A run is called interrupted only when it is over, even by an instance that does
\* not host it and whose clock differs (cases.ts:70, runControl.ts:22-23).
InterruptedIsOver ==
  view.answer = "interrupted" => pc[view.run] \in Ended \union {"release"}

\* No day sees more than DailyLimit runs granted, whatever fails in between.
DailyLimitHolds ==
  \A d \in 1..MaxDay : Cardinality({r \in Runs : grantedOn[r] = d}) <= DailyLimit

\* What getRun answers on instance i when no step comes between its reads.
ShownRunning(i, r) ==
  /\ row[r] = "running"
  /\ r \in active[i] \/ \E skew \in -Skew..Skew : IsActive(r, skew)

\* A run that is on record as running is in the end, and then for good, not shown
\* as running by any instance, although nobody may be left to finish it.
SettledEventually ==
  \A r \in Runs :
    (row[r] = "running") ~> [](\A i \in Instances : ~ShownRunning(i, r))

\* backend/INTEGRATION.md:39: a fresh process marks unfinished runs interrupted.
InterruptedMeansUnfinished ==
  view.answer = "interrupted" => row[view.run] # "complete"
=============================================================================
