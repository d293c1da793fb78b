------------------------------ MODULE Workspace ------------------------------
(***************************************************************************)
(* One browser window of the web application: the reducer of state.ts, the *)
(* hook useWorkspace.ts with its outstanding requests, and the test        *)
(* request form (TestRequest.tsx, waitForRun of data/http.ts).             *)
(*                                                                         *)
(* JavaScript runs one callback at a time; an action is a callback, or a   *)
(* step of the server.  A request is answered with what the server knew at *)
(* some moment since it was sent, or fails: a request remembers what was   *)
(* known when it was sent, and its answer lies between that and the        *)
(* present.                                                                *)
(* The window shows what one of two repositories gives it: the API of this  *)
(* repository (mode "api"), which creates test requests, lists a case when  *)
(* it is decided and opens a run's case when the run is complete; or the    *)
(* mock of the tests and previews (mode "mock"), which lists a case that    *)
(* still waits for its decision and takes no requests.                      *)
(* React runs the effect of a new selection after it has rendered: other   *)
(* callbacks may come in between (RunEffect is an action of its own).      *)
(*                                                                         *)
(* The code numbers its requests (listGeneration, fileGeneration) or keeps *)
(* a flag in a closure (active) to know, when an answer comes, whether     *)
(* another request has taken its place.  Here the outstanding request      *)
(* itself says whether it is the latest; when it no longer is, what it     *)
(* asked for is forgotten, for its answer is not used.                     *)
(*                                                                         *)
(* Left out: the list filter and the choice of a record within a case,     *)
(* which the views no longer dispatch or which only format; files and      *)
(* downloads; the end of the page.                                         *)
(***************************************************************************)
EXTENDS Integers, FiniteSets

CONSTANTS
  Cases,       \* request ids
  AtStart,     \* by mode, what the server knows of them when the page opens
  None,        \* null
  MaxLoads,    \* bound: outstanding getCase requests when the user acts
  MaxLists     \* bound: outstanding listCases requests of the page before it sends another

ASSUME NoneAssumption == None \notin Cases

VARIABLES
  mode,      \* the repository: "api" or "mock"
  server,    \* what the server knows of a case, see the stages below
  view,      \* the reducer's state: cases, selectedId, detail, load
  effect,    \* the selection the detail effect last ran for
  retried,   \* retryDetail was called since
  timer,     \* the case its loop waits to load again
  loads,     \* outstanding getCase requests
  lists,     \* outstanding listCases requests
  run,       \* the test request: its progress (demoLock) and its case
  progress   \* the status of runProgress

detailVars == <<effect, retried, timer, loads>>
runVars == <<run, progress>>
vars == <<mode, server, view, detailVars, lists, runVars>>

\* Stages of a case on the server.
Unknown    == 0   \* no such case
Processing == 1   \* it waits for its decision
Running    == 2   \* its decision is stored, its run goes on
Settled    == 3   \* nothing will change
Stages == Unknown .. Settled

ASSUME AtStartAssumption == \A m \in DOMAIN AtStart : AtStart[m] \in [Cases -> Stages]

\* CaseService.list skips a case without a decision, the mock does not.
Listed(stage) == IF mode = "api" /\ stage = Processing THEN Unknown ELSE stage

Init ==
  /\ mode \in DOMAIN AtStart
  /\ server = AtStart[mode]
  /\ view = [cases |-> [c \in Cases |-> Unknown], selected |-> None,
             detail |-> None, load |-> "ready"]
  /\ effect = None /\ retried = FALSE /\ timer = None /\ loads = {}
  /\ lists = {[since |-> server, prefer |-> None, by |-> "page", latest |-> TRUE]}
  /\ run = [stage |-> "idle", case |-> None] /\ progress = None

\* A run goes on; the mock's deadline passes.
ServerStep(c) ==
  /\ server[c] \in {Processing, Running}
  /\ server' = [server EXCEPT ![c] = IF mode = "api" THEN @ + 1 ELSE Settled]
  /\ UNCHANGED <<mode, view, detailVars, lists, runVars>>

\* A run fails before its decision is stored: its case will never be listed.
ServerGivesUp(c) ==
  /\ mode = "api"
  /\ server[c] = Processing
  /\ server' = [server EXCEPT ![c] = Unknown]
  /\ UNCHANGED <<mode, view, detailVars, lists, runVars>>

-----------------------------------------------------------------------------
\* the reducer

Select(v, id) ==
  IF id = v.selected THEN v
  ELSE [v EXCEPT !.selected = id, !.detail = None,
                 !.load = IF id = None THEN "ready" ELSE "loading"]

ListArrived(v, rows, prefer) ==
  LET stays  == v.selected # None /\ rows[v.selected] # Unknown
      chosen == IF prefer # None THEN prefer ELSE IF stays THEN v.selected ELSE None
  IN  Select([v EXCEPT !.cases = rows], chosen)

\* (mutant) A reducer that trusts the caller's cleanup.
DetailOfAnyCase(v, id, stage) ==
  [v EXCEPT !.detail = [case |-> id, stage |-> stage], !.load = "ready"]

DetailArrived(v, id, stage) ==
  IF id # v.selected THEN v
  ELSE [v EXCEPT !.detail = [case |-> id, stage |-> stage], !.load = "ready"]

DetailFailed(v, id) == IF id # v.selected THEN v ELSE [v EXCEPT !.load = "error"]

-----------------------------------------------------------------------------
\* the selected case

\* In the list, or with the button beside the completed test request.
ChooseCase(id) ==
  /\ \/ view.cases[id] # Unknown
     \/ run.stage = "idle" /\ run.case = id
  /\ Cardinality(loads) < MaxLoads
  /\ view' = Select(view, id)
  /\ UNCHANGED <<mode, server, detailVars, lists, runVars>>

\* The button beside the error message.
RetryDetail ==
  /\ view.load = "error"
  /\ retried' = TRUE
  /\ UNCHANGED <<mode, server, view, effect, timer, loads, lists, runVars>>

Load(id) == [case |-> id, since |-> server[id], active |-> TRUE]

\* (mutant) A loop that is not told of its end.
NoCleanup(requests) == requests

Ignored == [case |-> None, since |-> Unknown, active |-> FALSE]

Cleanup(requests) == {Ignored : r \in requests}

\* The cleanup of the last loop and the start of the next.
RunEffect ==
  /\ effect # view.selected \/ retried
  /\ effect' = view.selected
  /\ retried' = FALSE
  /\ timer' = None
  /\ loads' = Cleanup(loads) \cup (IF view.selected = None THEN {} ELSE {Load(view.selected)})
  /\ UNCHANGED <<mode, server, view, lists, runVars>>

\* (mutant) Follow the report and forget the run.
FollowReport(stage) == stage = Processing

NeedsFollowUp(stage) == stage = Processing \/ stage = Running

CaseAnswered(request) ==
  /\ request.active
  /\ loads' = loads \ {request}
  /\ \E stage \in request.since .. server[request.case] :
       /\ stage # Unknown
       /\ view' = DetailArrived(view, request.case, stage)
       /\ timer' = IF NeedsFollowUp(stage) THEN request.case ELSE None
  /\ UNCHANGED <<mode, server, effect, retried, lists, runVars>>

\* An error or the client's timeout of 30 seconds: the loop ends.
CaseFailed(request) ==
  /\ request.active
  /\ loads' = loads \ {request}
  /\ view' = DetailFailed(view, request.case)
  /\ UNCHANGED <<mode, server, effect, retried, timer, lists, runVars>>

\* The answer or the error of a loop that was cleaned up.
CaseIgnored(request) ==
  /\ ~request.active
  /\ loads' = loads \ {request}
  /\ UNCHANGED <<mode, server, view, effect, retried, timer, lists, runVars>>

TimerFires ==
  /\ timer # None /\ timer' = None
  /\ loads' = loads \cup {Load(timer)}
  /\ UNCHANGED <<mode, server, view, effect, retried, lists, runVars>>

-----------------------------------------------------------------------------
\* the list

\* (mutant) A list request that leaves the ones before it current.
LeaveCurrent(requests) == requests

Supersede(requests) ==
  {[since |-> [c \in Cases |-> Unknown], prefer |-> None, by |-> r.by, latest |-> FALSE] : r \in requests}

\* `by' is who waits for refreshList to return.
AskList(prefer, by) ==
  lists' = Supersede(lists) \cup {[since |-> server, prefer |-> prefer, by |-> by, latest |-> TRUE]}

PageMayAsk == Cardinality({r \in lists : r.by # "run"}) < MaxLists

RefreshList ==
  /\ PageMayAsk
  /\ AskList(None, "page")
  /\ UNCHANGED <<mode, server, view, detailVars, runVars>>

HasProcessing(cases) == \E c \in Cases : cases[c] = Processing

PollList ==
  /\ PageMayAsk
  /\ HasProcessing(view.cases) /\ run.stage = "idle" /\ \A r \in lists : r.by # "timer"
  /\ AskList(None, "timer")
  /\ UNCHANGED <<mode, server, view, detailVars, runVars>>

\* A new interval, with nothing pending, when hasProcessing changes.
NewTimer(requests) ==
  IF HasProcessing(view'.cases) = HasProcessing(view.cases) THEN requests
  ELSE {[r EXCEPT !.by = IF @ = "timer" THEN "page" ELSE @] : r \in requests}

\* (mutant) The form is freed by its own list only if that is shown.
WhenShown(request) == request.by = "run" /\ request.latest

EndsRun(request) == request.by = "run"

\* refreshList returns.
ListOver(request) ==
  /\ lists' = NewTimer(lists \ {request})
  /\ run' = IF EndsRun(request) THEN [run EXCEPT !.stage = "idle"] ELSE run
  /\ UNCHANGED <<mode, server, detailVars, progress>>

\* The server examines the cases of a list one by one.
Answers(request) ==
  {rows \in [Cases -> Stages] :
     \A c \in Cases :
       \E stage \in {request.since[c]} \cup request.since[c] .. server[c] : rows[c] = Listed(stage)}

ListAnswered(request) ==
  /\ request.latest
  /\ \E rows \in Answers(request) : view' = ListArrived(view, rows, request.prefer)
  /\ ListOver(request)

\* An error, or an answer that is no longer used.
ListUnused(request) == view' = view /\ ListOver(request)

-----------------------------------------------------------------------------
\* the test request

\* TestRequest.submit: the form is enabled and no run is shown as running.
CanSubmit == mode = "api" /\ run.stage = "idle" /\ progress # "running"

Submit ==
  /\ CanSubmit
  /\ run' = [stage |-> "posting", case |-> None]
  /\ progress' = None
  /\ UNCHANGED <<mode, server, view, detailVars, lists>>

\* refreshList at the end of runDemo, with or without a case to show.
EndRun(prefer) ==
  /\ AskList(prefer, "run")
  /\ run' = [stage |-> "listing", case |-> prefer]

PostAnswered ==
  /\ run.stage = "posting"
  /\ \E c \in Cases :
       /\ server[c] = Unknown
       /\ server' = [server EXCEPT ![c] = Processing]
       /\ run' = [stage |-> "waiting", case |-> c]
  /\ progress' = "running"
  /\ UNCHANGED <<mode, view, detailVars, lists>>

\* No answer to the POST: the server may have begun a run or not.
PostFailed ==
  /\ run.stage = "posting"
  /\ EndRun(None)
  /\ \/ server' = server
     \/ \E c \in Cases : server[c] = Unknown /\ server' = [server EXCEPT ![c] = Processing]
  /\ UNCHANGED <<mode, view, detailVars, progress>>

RunCompleted ==
  /\ run.stage = "waiting" /\ server[run.case] = Settled
  /\ progress' = "complete"
  /\ EndRun(run.case)
  /\ UNCHANGED <<mode, server, view, detailVars>>

RunFailed ==
  /\ run.stage = "waiting" /\ server[run.case] \in {Unknown, Settled}
  /\ progress' = "failed"
  /\ EndRun(None)
  /\ UNCHANGED <<mode, server, view, detailVars>>

\* A poll of the run fails, or three minutes have passed: the last status
\* that was shown stays.
RunLost ==
  /\ run.stage = "waiting"
  /\ EndRun(None)
  /\ UNCHANGED <<mode, server, view, detailVars, progress>>

-----------------------------------------------------------------------------
DetailStep ==
  \/ \E c \in Cases : ChooseCase(c)
  \/ RetryDetail \/ RunEffect \/ TimerFires
  \/ \E request \in loads : CaseAnswered(request) \/ CaseFailed(request) \/ CaseIgnored(request)

ListStep ==
  \/ RefreshList \/ PollList
  \/ \E request \in lists : ListAnswered(request) \/ ListUnused(request)

RunStep == Submit \/ PostAnswered \/ PostFailed \/ RunCompleted \/ RunFailed \/ RunLost

Next == (\E c \in Cases : ServerStep(c) \/ ServerGivesUp(c)) \/ DetailStep \/ ListStep \/ RunStep

Spec == Init /\ [][Next]_vars

\* Runs end and deadlines pass; effects and timers run; a request is answered
\* or times out after 30 seconds.  The user need not do anything.
Fairness ==
  /\ \A c \in Cases : WF_vars(ServerStep(c))
  /\ WF_vars(RunEffect) /\ WF_vars(TimerFires)
  /\ WF_vars(\E r \in loads : CaseAnswered(r) \/ CaseFailed(r))
  /\ WF_vars(\E r \in lists : r.by = "run" /\ (ListAnswered(r) \/ ListUnused(r)))
  /\ WF_vars(PostAnswered \/ PostFailed)
  /\ WF_vars(RunCompleted \/ RunFailed \/ RunLost)

FairSpec == Spec /\ Fairness

-----------------------------------------------------------------------------
\* properties

\* Types; one loop at most loads the case or waits to, and one list request
\* at most is the latest.
WorkspaceTypeOK ==
  /\ mode \in DOMAIN AtStart
  /\ server \in [Cases -> Stages]
  /\ view.cases \in [Cases -> Stages]
  /\ view.selected \in Cases \cup {None}
  /\ view.detail = None \/ (view.detail.case \in Cases /\ view.detail.stage \in Stages)
  /\ view.load \in {"ready", "loading", "error"}
  /\ {effect, timer} \subseteq Cases \cup {None} /\ retried \in BOOLEAN
  /\ \A r \in loads : r = Ignored \/ (r.active /\ r.case \in Cases /\ r.since \in Stages)
  /\ Cardinality({r \in loads : r.active}) + (IF timer = None THEN 0 ELSE 1) <= 1
  /\ Cardinality({r \in lists : r.latest}) <= 1
  /\ \A r \in lists : r.by \in {"page", "timer", "run"} /\ r.prefer \in Cases \cup {None}
  /\ run.stage \in {"idle", "posting", "waiting", "listing"}
  /\ progress \in {None, "running", "complete", "failed"}

\* The case on the screen is the selected one, whatever answers come in while
\* the selection changes and before the effect of the change has run.
DetailIsOfSelection == view.detail # None => view.detail.case = view.selected

\* No late answer takes the screen back.  While a case stays on it, its detail does
\* not return to an earlier state: not by an answer for a selection before, not by
\* one of a loop before a retry.  And a case does not vanish from the list, though
\* lists asked for by the timer, the button and the test request overlap.
ScreenNeverGoesBack ==
  [][/\ (view.detail # None /\ view'.detail # None /\ view'.selected = view.selected)
          => view'.detail.stage >= view.detail.stage
     /\ \A c \in Cases : view'.cases[c] >= view.cases[c]]_vars

\* A case that is shown before it is settled is reloaded until it is, or the
\* user sees an error, or it is no longer shown.
ProcessingIsFollowed ==
  \A c \in Cases :
    LET shown == view.detail # None /\ view.selected = c /\ view.load = "ready"
    IN  (shown /\ view.detail.stage # Settled) ~> (~shown \/ view.detail.stage = Settled)

\* Every test request ends and frees the form's lock, also when other list
\* requests overtake its own.
RunEnds == (run.stage # "idle") ~> (run.stage = "idle")

\* http.ts:32 tells the user whose poll has timed out that a new run creates a
\* new request: when no run is in progress the form accepts one.
FormReturns == (mode = "api" /\ run.stage = "idle") => CanSubmit
=============================================================================
