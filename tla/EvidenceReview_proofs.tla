------------------------ MODULE EvidenceReview_proofs ------------------------
(***************************************************************************)
(* Proofs about ApiInstances and EvidenceReview, for any number of         *)
(* instances, deployments, calls, files and cases, and any number of       *)
(* faults.                                                                 *)
(*                                                                         *)
(* The inductive invariant has two parts.  ApiIInv: the types, and         *)
(* ServedPolicyIsStored, which is inductive because the stored policy is   *)
(* written once.  WindowIInv: a panel has at most one answer that it will  *)
(* show, which is about what is on the screen, and a free call has none.   *)
(***************************************************************************)
EXTENDS EvidenceReview, TLAPS

ApiTypeOK ==
  /\ policyOf \in Deployments
  /\ runtime \in [Instances -> RuntimeStages]
  /\ missing \subseteq Prerequisites
  /\ faults \in 0 .. MaxFaults
  /\ call \in [Calls -> [stage : CallStages, at : Instances \cup {None}]]

Panes(things) == [busy : BOOLEAN, shown : things \cup {None}]

WindowTypeOK ==
  /\ file \in Files \cup {None} /\ filePane \in Panes(Files)
  /\ selected \in Cases \cup {None} /\ casePane \in Panes(Cases)
  /\ loaded \in BOOLEAN
  /\ asked \in [Calls -> [of : Files \cup Cases \cup {None}, current : BOOLEAN]]

\* Types of the instances, the calls and the window.
ReviewTypeOK == ApiTypeOK /\ WindowTypeOK

ApiIInv == ApiTypeOK /\ ServedPolicyIsStored

Welcome(k, things) == asked[k].current /\ asked[k].of \in things

\* A panel, its question, and what the panel stands for.
PaneAgrees(pane, things, of) ==
  /\ pane.shown \in {None, of}
  /\ pane.busy <=> \E k \in Calls : Welcome(k, things)
  /\ \A k \in Calls : Welcome(k, things) => asked[k].of = of
  /\ \A k, l \in Calls : Welcome(k, things) /\ Welcome(l, things) => k = l

FreeIsNotAsked == \A k \in Calls : call[k] = Free => ~asked[k].current

WindowIInv ==
  /\ WindowTypeOK
  /\ PaneAgrees(filePane, Files, file)
  /\ PaneAgrees(casePane, Cases, selected)
  /\ loaded => selected # None
  /\ FreeIsNotAsked

IInv == ApiIInv /\ WindowIInv

-----------------------------------------------------------------------------
\* Refusing calls of an instance keeps the type of calls and frees none.
LEMMA RefuseType ==
  ASSUME ApiTypeOK, NEW i \in Instances, Refuse(i)
  PROVE  /\ call' \in [Calls -> [stage : CallStages, at : Instances \cup {None}]]
         /\ \A k \in Calls : call'[k] = Free => call[k] = Free
  BY DEF ApiTypeOK, Refuse, Answer, Free, CallStages

\* A step of an instance, the platform or the operator keeps the first part: an
\* insert meets an empty table, when no instance serves yet.
LEMMA ApiStepIInv ==
  ASSUME ApiIInv, ApiStep
  PROVE  /\ ApiIInv'
         /\ \A k \in Calls : call'[k] = Free => call[k] = Free
<1> USE InstanceNoneAssumption, FaultsAssumption
<1>0. ApiTypeOK /\ ServedPolicyIsStored
  BY DEF ApiIInv
<1>1. CASE \E i \in Instances : StartStep(i) \/ StartFault(i) \/ Recycle(i)
  <2>1. PICK i \in Instances : StartStep(i) \/ StartFault(i) \/ Recycle(i)
    BY <1>1
  <2>2. /\ policyOf' = policyOf /\ missing' = missing
        /\ \E s \in RuntimeStages : RuntimeBecomes(i, s) /\ (s = "app" => policy' = policyOf[i])
    BY <1>0, <2>1
       DEF StartStep, Check, ReadPolicy, InsertPolicy, StartFault, Recycle, StartFails,
           SamePolicy, RuntimeStages, Forgotten, ApiTypeOK
  <2>3. policy' = policy \/ policy = None
    BY <2>1 DEF StartStep, Check, ReadPolicy, InsertPolicy, StartFault, Recycle, StartFails
  <2>4. call' = call \/ Refuse(i)
    BY <2>1 DEF StartStep, Check, ReadPolicy, InsertPolicy, StartFault, Recycle, StartFails
  <2>5. faults' \in 0 .. MaxFaults
    BY <1>0, <2>1
       DEF StartStep, Check, ReadPolicy, InsertPolicy, StartFault, Recycle, ApiTypeOK
  <2>6. /\ call' \in [Calls -> [stage : CallStages, at : Instances \cup {None}]]
        /\ \A k \in Calls : call'[k] = Free => call[k] = Free
    BY <1>0, <2>4, RefuseType DEF ApiTypeOK
  <2>7. ApiTypeOK'
    BY <1>0, <2>2, <2>5, <2>6 DEF ApiTypeOK, RuntimeBecomes
  <2>8. ServedPolicyIsStored'
    BY <1>0, <2>2, <2>3 DEF ServedPolicyIsStored, RuntimeBecomes, ApiTypeOK
  <2>9. QED
    BY <2>6, <2>7, <2>8 DEF ApiIInv
<1>2. CASE \E k \in Calls : Serve(k)
  <2>1. PICK k \in Calls : Serve(k)
    BY <1>2
  <2>2. QED
    BY <1>0, <2>1
       DEF Serve, Answer, Free, CallStages, ApiIInv, ApiTypeOK, ServedPolicyIsStored
<1>3. CASE \E x \in Prerequisites : Provide(x)
  BY <1>0, <1>3 DEF Provide, ApiIInv, ApiTypeOK, ServedPolicyIsStored
<1>4. QED
  BY <1>1, <1>2, <1>3 DEF ApiStep

\* A call that arrives changes no policy; it may begin a start-up.
LEMMA ArriveIInv ==
  ASSUME ApiIInv, NEW k \in Calls, NEW i \in Instances, Arrive(k, i)
  PROVE  ApiIInv' /\ call'[k] # Free /\ \A l \in Calls \ {k} : call'[l] = call[l]
  BY DEF ApiIInv, ApiTypeOK, ServedPolicyIsStored, Arrive, RuntimeBecomes, RuntimeStages,
         CallStages, Free

-----------------------------------------------------------------------------
(* The window, one lemma per action.                                        *)

\* Steps of the API change no panel.
LEMMA ApiStepKeepsWindow ==
  ASSUME WindowIInv, UNCHANGED windowVars,
         \A k \in Calls : call'[k] = Free => call[k] = Free
  PROVE  WindowIInv'
  BY DEF WindowIInv, WindowTypeOK, windowVars, PaneAgrees, Welcome, FreeIsNotAsked

\* What is superseded of one panel is as before for the other.
LEMMA SupersededAsked ==
  ASSUME WindowIInv, NEW things \in {Files, Cases}
  PROVE  /\ Superseded(things) \in [Calls -> [of : Files \cup Cases \cup {None}, current : BOOLEAN]]
         /\ \A k \in Calls :
              /\ Superseded(things)[k].of = asked[k].of
              /\ asked[k].of \in things => ~Superseded(things)[k].current
              /\ asked[k].of \notin things => Superseded(things)[k] = asked[k]
  BY DEF WindowIInv, WindowTypeOK, Superseded

\* The file's answers are all superseded, the case's are as they were.
LEMMA SelectFileIInv ==
  ASSUME IInv, NEW f \in Files \cup {None}, SelectFile(f)
  PROVE  IInv'
<1>1. ApiIInv'
  BY DEF IInv, ApiIInv, ApiTypeOK, ServedPolicyIsStored, SelectFile, apiVars
<1>2. WindowIInv'
  BY SupersededAsked, FilesAssumption
     DEF IInv, WindowIInv, WindowTypeOK, PaneAgrees, Panes, Welcome, FreeIsNotAsked,
         SelectFile, Quiet, apiVars
<1>3. QED
  BY <1>1, <1>2 DEF IInv

\* The new question is the only one of the panel.
LEMMA VerifyFileIInv ==
  ASSUME IInv, NEW k \in Calls, VerifyFile(k)
  PROVE  IInv'
<1>1. ApiIInv' /\ \A l \in Calls : call'[l] = Free => call[l] = Free /\ l # k
  BY DEF IInv, ApiIInv, ApiTypeOK, ServedPolicyIsStored, VerifyFile, Free, CallStages
<1>2. WindowIInv'
  <2>1. /\ asked' \in [Calls -> [of : Files \cup Cases \cup {None}, current : BOOLEAN]]
        /\ asked'[k] = [of |-> file, current |-> TRUE]
        /\ \A l \in Calls \ {k} :
              /\ asked'[l].of = asked[l].of
              /\ asked[l].of \in Files => ~asked'[l].current
              /\ asked[l].of \notin Files => asked'[l] = asked[l]
    BY SupersededAsked DEF IInv, WindowIInv, WindowTypeOK, VerifyFile
  <2>2. file \in Files /\ file \notin Cases /\ ~asked[k].current
    BY FilesAssumption DEF IInv, WindowIInv, WindowTypeOK, VerifyFile, FreeIsNotAsked
  <2>3. WindowTypeOK'
    BY <2>1 DEF IInv, WindowIInv, WindowTypeOK, VerifyFile, Busy, Panes
  <2>4. PaneAgrees(filePane, Files, file)'
    BY <2>1, <2>2 DEF PaneAgrees, Welcome, VerifyFile, Busy
  <2>5. PaneAgrees(casePane, Cases, selected)'
    BY <2>1, <2>2, FilesAssumption DEF IInv, WindowIInv, PaneAgrees, Welcome, VerifyFile
  <2>6. (loaded => selected # None)' /\ FreeIsNotAsked'
    BY <1>1, <2>1 DEF IInv, WindowIInv, FreeIsNotAsked, VerifyFile
  <2>7. QED
    BY <2>3, <2>4, <2>5, <2>6 DEF WindowIInv
<1>3. QED
  BY <1>1, <1>2 DEF IInv

\* The question is on its way, or waits at an instance.
LEMMA SendFileIInv ==
  ASSUME IInv, NEW k \in Calls, NEW i \in Instances, SendFile(k, i)
  PROVE  IInv'
<1>1. ApiIInv' /\ \A l \in Calls : call'[l] = Free => call[l] = Free
  BY ArriveIInv DEF IInv, SendFile
<1>2. QED
  BY <1>1, ApiStepKeepsWindow DEF IInv, SendFile

\* The component is unmounted with its answers; the file's are as they were.
LEMMA SelectCaseIInv ==
  ASSUME IInv, NEW c \in Cases \cup {None}, SelectCase(c)
  PROVE  IInv'
<1>1. ApiIInv'
  BY DEF IInv, ApiIInv, ApiTypeOK, ServedPolicyIsStored, SelectCase, apiVars
<1>2. WindowIInv'
  BY SupersededAsked, FilesAssumption
     DEF IInv, WindowIInv, WindowTypeOK, PaneAgrees, Panes, Welcome, FreeIsNotAsked,
         SelectCase, Unmount, Quiet, apiVars
<1>3. QED
  BY <1>1, <1>2 DEF IInv

\* A detail arrives for the selected case, which is one.
LEMMA DetailArrivesIInv ==
  ASSUME IInv, DetailArrives
  PROVE  IInv'
  BY DEF IInv, ApiIInv, ApiTypeOK, ServedPolicyIsStored, WindowIInv, WindowTypeOK, PaneAgrees,
         Welcome, FreeIsNotAsked, DetailArrives, apiVars

\* A panel that was not busy had no question.
LEMMA VerifyCaseIInv ==
  ASSUME IInv, NEW k \in Calls, NEW i \in Instances, VerifyCase(k, i)
  PROVE  IInv'
<1>1. ApiIInv' /\ \A l \in Calls : call'[l] = Free => call[l] = Free /\ l # k
  BY ArriveIInv DEF IInv, VerifyCase
<1>2. WindowIInv'
  <2>1. /\ asked' \in [Calls -> [of : Files \cup Cases \cup {None}, current : BOOLEAN]]
        /\ asked'[k] = [of |-> selected, current |-> TRUE]
        /\ \A l \in Calls \ {k} : asked'[l] = asked[l]
    BY DEF IInv, WindowIInv, WindowTypeOK, VerifyCase
  <2>2. selected \in Cases /\ selected \notin Files /\ ~asked[k].current
    BY FilesAssumption DEF IInv, WindowIInv, WindowTypeOK, VerifyCase, FreeIsNotAsked
  <2>3. WindowTypeOK'
    BY <2>1 DEF IInv, WindowIInv, WindowTypeOK, VerifyCase, Busy, Panes
  <2>4. PaneAgrees(casePane, Cases, selected)'
    BY <2>1, <2>2 DEF IInv, WindowIInv, PaneAgrees, Welcome, VerifyCase, Busy
  <2>5. PaneAgrees(filePane, Files, file)'
    BY <2>1, <2>2, FilesAssumption DEF IInv, WindowIInv, PaneAgrees, Welcome, VerifyCase
  <2>6. (loaded => selected # None)' /\ FreeIsNotAsked'
    BY <1>1, <2>1 DEF IInv, WindowIInv, FreeIsNotAsked, VerifyCase
  <2>7. QED
    BY <2>3, <2>4, <2>5, <2>6 DEF WindowIInv
<1>3. QED
  BY <1>1, <1>2 DEF IInv

\* An answer that is shown was the only one its panel waited for; any other answer
\* leaves both panels and their questions alone.
LEMMA AnsweredIInv ==
  ASSUME IInv, NEW k \in Calls, Answered(k)
  PROVE  IInv'
<1>1. ApiIInv' /\ \A l \in Calls \ {k} : call'[l] = call[l]
  BY DEF IInv, ApiIInv, ApiTypeOK, ServedPolicyIsStored, Answered, Free, CallStages
<1>2. WindowIInv'
  <2>1. /\ asked' \in [Calls -> [of : Files \cup Cases \cup {None}, current : BOOLEAN]]
        /\ asked'[k] = NotAsked /\ ~asked'[k].current
        /\ \A l \in Calls \ {k} : asked'[l] = asked[l]
    BY DEF IInv, WindowIInv, WindowTypeOK, Answered, NotAsked
  <2>2. /\ filePane' = IF Welcome(k, Files) THEN Show(k) ELSE filePane
        /\ casePane' = IF Welcome(k, Cases) THEN Show(k) ELSE casePane
    BY DEF Answered, Shows, Welcome
  <2>3. WindowTypeOK'
    BY <2>1, <2>2 DEF IInv, WindowIInv, WindowTypeOK, Answered, Show, Panes, Welcome
  <2>4. PaneAgrees(filePane, Files, file)'
    BY <2>1, <2>2 DEF IInv, WindowIInv, PaneAgrees, Welcome, Answered, Show
  <2>5. PaneAgrees(casePane, Cases, selected)'
    BY <2>1, <2>2 DEF IInv, WindowIInv, PaneAgrees, Welcome, Answered, Show
  <2>6. (loaded => selected # None)' /\ FreeIsNotAsked'
    BY <1>1, <2>1 DEF IInv, WindowIInv, FreeIsNotAsked, Answered
  <2>7. QED
    BY <2>3, <2>4, <2>5, <2>6 DEF WindowIInv
<1>3. QED
  BY <1>1, <1>2 DEF IInv

-----------------------------------------------------------------------------
\* At first nothing is stored, shown or asked.
LEMMA InitIInv == Init => IInv
<1> SUFFICES ASSUME Init
             PROVE  IInv
  OBVIOUS
<1>1. ApiIInv
  BY FaultsAssumption
     DEF Init, ApiInit, Free, ApiIInv, ApiTypeOK, ServedPolicyIsStored, RuntimeStages, CallStages
<1>2. WindowTypeOK
  BY DEF Init, Quiet, NotAsked, WindowTypeOK, Panes
<1>3. WindowIInv
  BY <1>2 DEF Init, Quiet, NotAsked, WindowIInv, PaneAgrees, Welcome, FreeIsNotAsked
<1>4. QED
  BY <1>1, <1>3 DEF IInv

\* The lemmas above, and a step that changes nothing.
LEMMA NextIInv == IInv /\ [Next]_vars => IInv'
<1> SUFFICES ASSUME IInv, [Next]_vars
             PROVE  IInv'
  OBVIOUS
<1>1. CASE ApiStep /\ UNCHANGED windowVars
  BY <1>1, ApiStepIInv, ApiStepKeepsWindow DEF IInv
<1>2. CASE WindowStep
  BY <1>2, SelectFileIInv, SelectCaseIInv, DetailArrivesIInv, VerifyFileIInv, AnsweredIInv,
     SendFileIInv, VerifyCaseIInv
     DEF WindowStep
<1>3. CASE UNCHANGED vars
  BY <1>3
     DEF vars, apiVars, windowVars, IInv, ApiIInv, ApiTypeOK, ServedPolicyIsStored,
         WindowIInv, WindowTypeOK, PaneAgrees, Welcome, FreeIsNotAsked
<1>4. QED
  BY <1>1, <1>2, <1>3 DEF Next

\* So it holds always.
LEMMA AlwaysIInv == Spec => []IInv
  BY InitIInv, NextIInv, PTL DEF Spec

\* The variables of the API instances and of the window have their types.
THEOREM ReviewTypeCorrect == Spec => []ReviewTypeOK
<1>1. IInv => ReviewTypeOK
  BY DEF IInv, ApiIInv, WindowIInv, ReviewTypeOK
<1>2. QED
  BY <1>1, AlwaysIInv, PTL

\* Whatever instances of whatever deployments start, fail and start again, an
\* instance that serves calls has the policy that is stored (savePolicy).
THEOREM ServedPolicyIsStoredHolds == Spec => []ServedPolicyIsStored
<1>1. IInv => ServedPolicyIsStored
  BY DEF IInv, ApiIInv
<1>2. QED
  BY <1>1, AlwaysIInv, PTL

\* However many files and cases are chosen while answers are awaited, a report is
\* shown beside what it is of, and a panel is busy exactly while an answer that it
\* will show is outstanding (useWorkspace.ts, GuidedCase.tsx).
THEOREM ReportIsOfWhatIsShownHolds == Spec => []ReportIsOfWhatIsShown
<1>1. IInv => ReportIsOfWhatIsShown
  BY DEF IInv, WindowIInv, PaneAgrees, Welcome, ReportIsOfWhatIsShown
<1>2. QED
  BY <1>1, AlwaysIInv, PTL
=============================================================================
