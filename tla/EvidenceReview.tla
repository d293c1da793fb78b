---------------------------- MODULE EvidenceReview ----------------------------
(***************************************************************************)
(* A window that asks the API to verify evidence: a file the user chose    *)
(* (selectFile and verifyFile of useWorkspace.ts) or the case on the       *)
(* screen (verifyCase, and verify of GuidedCase.tsx).  Answers come late,  *)
(* when another file or case may be on the screen.                         *)
(*                                                                         *)
(* An outstanding verification is current while its answer will be used:   *)
(* fileGeneration still has its number, or the GuidedCase component that   *)
(* asked is mounted.  App.tsx gives that component the selected case as    *)
(* its key, so it lives as long as a case is selected and its detail is    *)
(* there; a reload of the detail (useWorkspace.ts) leaves it mounted.      *)
(***************************************************************************)
EXTENDS ApiInstances

CONSTANTS
  Files,        \* files the user may choose
  Unreadable,   \* those that are too large, not named .json, or no JSON
  Cases         \* request ids

ASSUME FilesAssumption == Unreadable \subseteq Files /\ Files \cap Cases = {}
ASSUME ReviewNoneAssumption == None \notin Files \cup Cases

VARIABLES
  file,      \* state.file
  filePane,  \* fileBusy, and of what a result or an error is shown
  selected,  \* the selected case
  loaded,    \* its detail is there, and with it the GuidedCase component
  casePane,  \* the same of that component
  asked      \* what an outstanding verification is about

windowVars == <<file, filePane, selected, loaded, casePane, asked>>
vars == <<apiVars, windowVars>>

Quiet == [busy |-> FALSE, shown |-> None]
NotAsked == [of |-> None, current |-> FALSE]

Init ==
  /\ ApiInit
  /\ file = None /\ filePane = Quiet
  /\ selected = None /\ loaded = FALSE /\ casePane = Quiet
  /\ asked = [k \in Calls |-> NotAsked]

\* (mutant) The answers of the calls before stay welcome.
StillCurrent(things) == asked

\* fileGeneration is incremented, or the component is unmounted.
Superseded(things) ==
  [k \in Calls |-> IF asked[k].of \in things THEN [asked[k] EXCEPT !.current = FALSE] ELSE asked[k]]

Busy == [busy |-> TRUE, shown |-> None]

-----------------------------------------------------------------------------
(* the file panel *)

SelectFile(f) ==
  /\ file' = f
  /\ filePane' = Quiet
  /\ asked' = Superseded(Files)
  /\ UNCHANGED <<apiVars, selected, loaded, casePane>>

\* The button is disabled without a file and while one is verified.
VerifyFile(k) ==
  /\ file # None /\ ~filePane.busy /\ call[k] = Free
  /\ filePane' = Busy
  /\ asked' = [Superseded(Files) EXCEPT ![k] = [of |-> file, current |-> TRUE]]
  /\ call' = [call EXCEPT ![k].stage = "reading"]
  /\ UNCHANGED <<policyOf, policy, runtime, missing, faults, file, selected, loaded, casePane>>

\* file.text() and JSON.parse, then the request.
SendFile(k, i) ==
  /\ call[k].stage = "reading" /\ asked[k].of \notin Unreadable
  /\ Arrive(k, i)
  /\ UNCHANGED windowVars

-----------------------------------------------------------------------------
(* the case on the screen *)

Unmount == casePane' = Quiet /\ asked' = Superseded(Cases)

\* By the user, or by a list that no longer has the case.
SelectCase(c) ==
  /\ selected # c
  /\ selected' = c /\ loaded' = FALSE
  /\ Unmount
  /\ UNCHANGED <<apiVars, file, filePane>>

\* The detail arrives.  When it is loaded again nothing of this state changes.
DetailArrives ==
  /\ selected # None /\ ~loaded
  /\ loaded' = TRUE
  /\ UNCHANGED <<apiVars, file, filePane, selected, casePane, asked>>

\* verifyLock lets one verification of the component through at a time.
VerifyCase(k, i) ==
  /\ loaded /\ ~casePane.busy /\ call[k] = Free
  /\ casePane' = Busy
  /\ asked' = [asked EXCEPT ![k] = [of |-> selected, current |-> TRUE]]
  /\ Arrive(k, i)
  /\ UNCHANGED <<file, filePane, selected, loaded>>

-----------------------------------------------------------------------------
(* answers: a report or an error *)

Shows(k) == asked[k].current

Show(k) == [busy |-> FALSE, shown |-> asked[k].of]

\* The app answers with a report or an error code; the handler answers 503; the
\* client gives up after 30 seconds; or the file cannot be read.
Answered(k) ==
  /\ \/ call[k].stage \in {"answered", "waiting"}
     \/ call[k].stage = "reading" /\ asked[k].of \in Unreadable
  /\ call' = [call EXCEPT ![k] = Free]
  /\ asked' = [asked EXCEPT ![k] = NotAsked]
  /\ filePane' = IF Shows(k) /\ asked[k].of \in Files THEN Show(k) ELSE filePane
  /\ casePane' = IF Shows(k) /\ asked[k].of \in Cases THEN Show(k) ELSE casePane
  /\ UNCHANGED <<policyOf, policy, runtime, missing, faults, file, selected, loaded>>

WindowStep ==
  \/ \E f \in Files \cup {None} : SelectFile(f)
  \/ \E c \in Cases \cup {None} : SelectCase(c)
  \/ DetailArrives
  \/ \E k \in Calls : VerifyFile(k) \/ Answered(k) \/ \E i \in Instances : SendFile(k, i) \/ VerifyCase(k, i)

Next == (ApiStep /\ UNCHANGED windowVars) \/ WindowStep

Spec == Init /\ [][Next]_vars

\* A start-up goes on: its requests are answered, fail or time out.  Nothing is
\* assumed of the user.
Fairness == \A i \in Instances : WF_vars(StartStep(i) /\ UNCHANGED windowVars)

FairSpec == Spec /\ Fairness

-----------------------------------------------------------------------------
\* The report or the error on the screen is of the file, or of the case, that is
\* on the screen, whatever was chosen or selected while it was awaited; and a panel
\* says it is busy exactly while an answer that it will show is outstanding, so no
\* answer to an earlier question ends or replaces a later one.
ReportIsOfWhatIsShown ==
  /\ filePane.shown \in {None, file}
  /\ casePane.shown \in {None, selected}
  /\ filePane.busy <=> \E k \in Calls : asked[k].current /\ asked[k].of \in Files
  /\ casePane.busy <=> \E k \in Calls : asked[k].current /\ asked[k].of \in Cases
=============================================================================
