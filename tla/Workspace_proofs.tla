--------------------------- MODULE Workspace_proofs ---------------------------
(***************************************************************************)
(* Proofs about Workspace, for any number of cases and of outstanding      *)
(* requests, either repository, and whatever the server knows at first.    *)
(*                                                                         *)
(* The inductive invariant, besides the types:                             *)
(*   OneLoop             one loop at most loads a case or waits to;        *)
(*   DetailIsOfSelection                                                   *)
(*   DetailIsPast        a detail is not ahead of the server, nor of the   *)
(*                       request that is to replace it, except that a run  *)
(*                       that failed takes its case from the server;       *)
(*   LatestIsOne         one list request at most is the latest;           *)
(*   ListIsPast          the list is not ahead of the latest request, nor  *)
(*                       that of the server.                               *)
(* ScreenNeverGoesBack needs the last three for its list and the first     *)
(* three for its detail.                                                   *)
(***************************************************************************)
EXTENDS Workspace, FiniteSetTheorems, TLAPS

Details == [case : Cases, stage : Stages]
Screens == [cases : [Cases -> Stages], selected : Cases \cup {None},
            detail : Details \cup {None}, load : {"ready", "loading", "error"}]
CaseRequests == [case : Cases \cup {None}, since : Stages, active : BOOLEAN]
ListRequests == [since : [Cases -> Stages], prefer : Cases \cup {None},
                 by : {"page", "timer", "run"}, latest : BOOLEAN]
TestRuns == [stage : {"idle", "posting", "waiting", "listing"}, case : Cases \cup {None}]

ServerType == mode \in DOMAIN AtStart /\ server \in [Cases -> Stages]
ViewType == view \in Screens
LoopType ==
  /\ effect \in Cases \cup {None} /\ timer \in Cases \cup {None} /\ retried \in BOOLEAN
  /\ loads \subseteq CaseRequests
  /\ \A r \in loads : r = Ignored \/ (r.active /\ r.case \in Cases)
ListType == lists \subseteq ListRequests
RunType == run \in TestRuns /\ progress \in {None, "running", "complete", "failed"}

Types == ServerType /\ ViewType /\ LoopType /\ ListType /\ RunType

OneLoop ==
  /\ \A r, s \in loads : r.active /\ s.active => r = s
  /\ timer # None => \A r \in loads : ~r.active

DetailIsPast ==
  view.detail # None /\ view.detail.stage > Processing =>
    /\ view.detail.stage <= server[view.detail.case]
    /\ \A r \in loads : r.active /\ r.case = view.detail.case => view.detail.stage <= r.since

LatestIsOne == \A r, s \in lists : r.latest /\ s.latest => r = s

ListIsPast ==
  \A c \in Cases :
    /\ view.cases[c] <= Listed(server[c])
    /\ \A r \in lists : r.latest =>
         view.cases[c] <= Listed(r.since[c]) /\ Listed(r.since[c]) <= Listed(server[c])

IInv ==
  /\ Types
  /\ OneLoop
  /\ DetailIsOfSelection
  /\ DetailIsPast
  /\ LatestIsOne
  /\ ListIsPast

-----------------------------------------------------------------------------
(* The server                                                               *)

\* What a step may do to the server: a case advances, or a case that waits for its
\* decision is gone.
ServerAdvances ==
  /\ mode' = mode /\ server' \in [Cases -> Stages]
  /\ \A c \in Cases :
       \/ server'[c] >= server[c]
       \/ mode = "api" /\ server[c] = Processing /\ server'[c] = Unknown

StageNames == Unknown = 0 /\ Processing = 1 /\ Running = 2 /\ Settled = 3 /\ Stages = 0 .. 3

\* The stages are four numbers.
LEMMA StagesAreNumbers == StageNames
  BY DEF StageNames, Unknown, Processing, Running, Settled, Stages

\* What the server lists of a case never goes back, even when a run fails.
LEMMA ListedGrows ==
  ASSUME Types, ServerAdvances
  PROVE  /\ \A s \in Stages : Listed(s) \in Stages /\ Listed(s)' = Listed(s)
         /\ \A s, t \in Stages : s <= t => Listed(s) <= Listed(t)
         /\ \A c \in Cases : /\ Listed(server[c]) \in Stages /\ Listed(server[c])' \in Stages
                             /\ Listed(server[c]) <= Listed(server[c])'
<1>1. /\ \A s \in Stages : Listed(s) \in Stages /\ Listed(s)' = Listed(s)
      /\ \A s, t \in Stages : s <= t => Listed(s) <= Listed(t)
  BY StagesAreNumbers DEF StageNames, Listed, ServerAdvances
<1>2. ASSUME NEW c \in Cases
      PROVE  /\ Listed(server[c]) \in Stages /\ Listed(server[c])' \in Stages
             /\ Listed(server[c]) <= Listed(server[c])'
  <2>1. server[c] \in Stages /\ server'[c] \in Stages
    BY DEF Types, ServerType, ServerAdvances
  <2>2. CASE server'[c] >= server[c]
    BY <2>1, <2>2, StagesAreNumbers DEF StageNames, Listed, ServerAdvances
  <2>3. CASE mode = "api" /\ server[c] = Processing /\ server'[c] = Unknown
    BY <2>1, <2>3, StagesAreNumbers DEF StageNames, Listed, ServerAdvances
  <2>4. QED
    BY <2>2, <2>3 DEF ServerAdvances
<1>3. QED
  BY <1>1, <1>2

\* A step of the server advances it.
LEMMA ServerSteps ==
  ASSUME Types, NEW c \in Cases, ServerStep(c) \/ ServerGivesUp(c)
  PROVE  ServerAdvances
  BY StagesAreNumbers
     DEF StageNames, Types, ServerType, ServerStep, ServerGivesUp, ServerAdvances

\* A POST that is received creates a case or does nothing.
LEMMA PostsAdvance ==
  ASSUME Types, PostAnswered \/ PostFailed
  PROVE  ServerAdvances
  BY StagesAreNumbers
     DEF StageNames, Types, ServerType, PostAnswered, PostFailed, ServerAdvances

\* Standing still is advancing.
LEMMA ServerStays ==
  ASSUME Types, mode' = mode, server' = server
  PROVE  ServerAdvances /\ ServerType'
  BY StagesAreNumbers DEF StageNames, Types, ServerType, ServerAdvances

-----------------------------------------------------------------------------
(* Who leaves what alone                                                    *)

LoopInv == LoopType /\ OneLoop /\ DetailIsOfSelection /\ DetailIsPast
ListInv == ListType /\ LatestIsOne /\ ListIsPast

\* The loop and the detail are as before while the server advances.
LEMMA LoopKept ==
  ASSUME IInv, ServerAdvances, UNCHANGED <<effect, timer, loads>>, retried' \in BOOLEAN,
         view'.detail = view.detail, view'.selected = view.selected
  PROVE  LoopInv'
  BY StagesAreNumbers
     DEF StageNames, IInv, Types, ServerType, ViewType, Screens, Details, LoopType, OneLoop,
         DetailIsOfSelection, DetailIsPast, ServerAdvances, LoopInv, Ignored

\* Another selection: the loop goes on, and shows nothing of it.
LEMMA LoopOfNoDetail ==
  ASSUME IInv, ServerAdvances, UNCHANGED <<effect, timer, loads, retried>>, view'.detail = None
  PROVE  LoopInv'
  BY DEF IInv, Types, LoopType, OneLoop, DetailIsOfSelection, DetailIsPast, LoopInv, Ignored

\* The list and its requests are as before while the server advances.
LEMMA ListKept ==
  ASSUME IInv, ServerAdvances, lists' = lists, view'.cases = view.cases
  PROVE  ListInv'
<1>1. ListType' /\ LatestIsOne'
  BY DEF IInv, Types, ListType, LatestIsOne
<1>2. ASSUME NEW c \in Cases
      PROVE  /\ view'.cases[c] <= Listed(server[c])'
             /\ \A r \in lists' : r.latest =>
                  /\ view'.cases[c] <= Listed(r.since[c])'
                  /\ Listed(r.since[c])' <= Listed(server[c])'
  <2>1. /\ server[c] \in Stages /\ server'[c] \in Stages /\ view.cases[c] \in Stages
        /\ \A r \in lists : r.since[c] \in Stages
    BY DEF IInv, Types, ServerType, ViewType, Screens, ListType, ListRequests, ServerAdvances
  <2>2. /\ Listed(server[c]) <= Listed(server[c])'
        /\ Listed(server[c]) \in Stages /\ Listed(server[c])' \in Stages
        /\ \A s \in Stages : Listed(s) \in Stages /\ Listed(s)' = Listed(s)
    BY ListedGrows DEF IInv
  <2>3. /\ view.cases[c] <= Listed(server[c])
        /\ \A r \in lists : r.latest =>
             view.cases[c] <= Listed(r.since[c]) /\ Listed(r.since[c]) <= Listed(server[c])
    BY DEF IInv, ListIsPast
  <2>4. QED
    <3> SUFFICES ASSUME NEW r \in lists', r.latest
                 PROVE  /\ view'.cases[c] <= Listed(server[c])'
                        /\ view'.cases[c] <= Listed(r.since[c])'
                        /\ Listed(r.since[c])' <= Listed(server[c])'
      BY <2>1, <2>2, <2>3, StagesAreNumbers DEF StageNames
    <3>1. r \in lists /\ r.since[c] \in Stages
      BY <2>1
    <3>2. Listed(r.since[c])' = Listed(r.since[c]) /\ Listed(r.since[c]) \in Stages
      BY <2>2, <3>1
    <3>3. QED
      BY <2>1, <2>2, <2>3, <3>1, <3>2, StagesAreNumbers DEF StageNames
<1>3. QED
  BY <1>1, <1>2 DEF ListInv, ListIsPast

\* A new list request knows the server as it is, and all others are superseded.
LEMMA AskListInv ==
  ASSUME IInv, ServerAdvances, view'.cases = view.cases,
         NEW prefer \in Cases \cup {None}, NEW by \in {"page", "timer", "run"},
         AskList(prefer, by)
  PROVE  ListInv'
<1> DEFINE new == [since |-> server, prefer |-> prefer, by |-> by, latest |-> TRUE]
<1>1. /\ new \in ListRequests /\ new.since = server /\ new.latest
      /\ Supersede(lists) \subseteq ListRequests /\ \A r \in Supersede(lists) : ~r.latest
  <2>1. new \in ListRequests /\ new.since = server /\ new.latest
    BY DEF IInv, Types, ServerType, ListRequests
  <2>2. ASSUME NEW r \in lists
        PROVE  /\ [since |-> [c \in Cases |-> Unknown], prefer |-> None, by |-> r.by,
                    latest |-> FALSE] \in ListRequests
    <3>1. r.by \in {"page", "timer", "run"}
      BY DEF IInv, Types, ListType, ListRequests
    <3>2. [c \in Cases |-> Unknown] \in [Cases -> Stages]
      BY StagesAreNumbers DEF StageNames
    <3>3. QED
      BY <3>1, <3>2 DEF ListRequests
  <2>3. QED
    BY <2>1, <2>2 DEF Supersede
<1>2. lists' = Supersede(lists) \cup {new}
  BY DEF AskList
<1> HIDE DEF new
<1>3. ListType' /\ LatestIsOne' /\ \A r \in lists' : r.latest => r = new
  BY <1>1, <1>2 DEF ListType, LatestIsOne
<1>4. ASSUME NEW c \in Cases
      PROVE  /\ view'.cases[c] <= Listed(server[c])'
             /\ \A r \in lists' : r.latest =>
                  /\ view'.cases[c] <= Listed(r.since[c])'
                  /\ Listed(r.since[c])' <= Listed(server[c])'
  <2>1. server[c] \in Stages /\ server'[c] \in Stages /\ view.cases[c] \in Stages
    BY DEF IInv, Types, ServerType, ViewType, Screens, ServerAdvances
  <2>2. /\ Listed(server[c]) <= Listed(server[c])'
        /\ Listed(server[c]) \in Stages /\ Listed(server[c])' \in Stages
        /\ \A s \in Stages : Listed(s)' = Listed(s)
    BY ListedGrows DEF IInv
  <2>3. view.cases[c] <= Listed(server[c])
    BY DEF IInv, ListIsPast
  <2>4. ASSUME NEW r \in lists', r.latest
        PROVE  Listed(r.since[c])' = Listed(server[c])
    <3>1. r.since = server
      BY <1>1, <1>3, <2>4
    <3>2. Listed(r.since[c])' = Listed(r.since[c])
      BY <2>1, <2>2, <3>1
    <3>3. QED
      BY <3>1, <3>2
  <2>5. QED
    BY <2>1, <2>2, <2>3, <2>4, StagesAreNumbers DEF StageNames
<1>5. QED
  BY <1>3, <1>4 DEF ListInv, ListIsPast

-----------------------------------------------------------------------------

\* What ScreenNeverGoesBack says of a step.
Forward ==
  /\ (view.detail # None /\ view'.detail # None /\ view'.selected = view.selected)
       => view'.detail.stage >= view.detail.stage
  /\ \A c \in Cases : view'.cases[c] >= view.cases[c]

\* The parts of the invariant make the whole.
LEMMA PartsMakeIInv ==
  ASSUME ServerType', ViewType', RunType', LoopInv', ListInv'
  PROVE  IInv'
  BY DEF IInv, Types, LoopInv, ListInv

\* A screen that stays has not gone back.
LEMMA ViewStays ==
  ASSUME Types, view' = view
  PROVE  ViewType' /\ Forward
<1>1. view.detail # None => view.detail.stage \in Stages
  BY DEF Types, ViewType, Screens, Details
<1>2. \A c \in Cases : view.cases[c] \in Stages
  BY DEF Types, ViewType, Screens
<1>3. QED
  BY <1>1, <1>2, StagesAreNumbers DEF StageNames, Types, ViewType, Forward

\* The requests and the progress of a test request keep their types.
LEMMA RunStays ==
  ASSUME Types, UNCHANGED runVars
  PROVE  RunType'
  BY DEF Types, RunType, runVars

-----------------------------------------------------------------------------
(* The reducer                                                              *)

\* Another selection has no detail; the same one changes nothing.
LEMMA SelectResult ==
  ASSUME NEW v \in Screens, NEW id \in Cases \cup {None}
  PROVE  /\ Select(v, id) \in Screens
         /\ Select(v, id).cases = v.cases
         /\ \/ Select(v, id).selected = v.selected /\ Select(v, id).detail = v.detail
            \/ Select(v, id).detail = None
  BY DEF Select, Screens

\* The list that arrives is shown; the detail stays, or is gone.
LEMMA ListArrivedResult ==
  ASSUME NEW v \in Screens, NEW rows \in [Cases -> Stages], NEW prefer \in Cases \cup {None}
  PROVE  LET w == ListArrived(v, rows, prefer) IN
         /\ w \in Screens /\ w.cases = rows
         /\ (w.selected = v.selected /\ w.detail = v.detail) \/ w.detail = None
<1> DEFINE x == [v EXCEPT !.cases = rows]
           stays == v.selected # None /\ rows[v.selected] # Unknown
           chosen == IF prefer # None THEN prefer ELSE IF stays THEN v.selected ELSE None
<1>1. x \in Screens /\ x.cases = rows /\ x.selected = v.selected /\ x.detail = v.detail
  BY DEF Screens
<1>2. chosen \in Cases \cup {None}
  BY DEF Screens
<1>3. ListArrived(v, rows, prefer) = Select(x, chosen)
  BY DEF ListArrived
<1> HIDE DEF x, chosen
<1>4. QED
  BY <1>1, <1>2, <1>3, SelectResult

-----------------------------------------------------------------------------
(* One lemma per kind of step                                               *)

\* The server goes on; the window is as it was.
LEMMA ServerIInv ==
  ASSUME IInv, NEW c \in Cases, ServerStep(c) \/ ServerGivesUp(c)
  PROVE  IInv' /\ Forward
<1>1. Types /\ ServerAdvances /\ ServerType'
  BY ServerSteps DEF IInv, ServerAdvances, Types, ServerType
<1>2. /\ view' = view /\ lists' = lists /\ UNCHANGED detailVars /\ UNCHANGED runVars
  BY DEF ServerStep, ServerGivesUp
<1>3. retried' \in BOOLEAN
  BY <1>1, <1>2 DEF Types, LoopType, detailVars
<1>4. LoopInv' /\ ListInv'
  BY <1>1, <1>2, <1>3, LoopKept, ListKept DEF detailVars
<1>5. QED
  BY <1>1, <1>2, <1>4, ViewStays, RunStays, PartsMakeIInv

\* The detail of another case leaves the screen; the loop still runs.
LEMMA ChooseCaseIInv ==
  ASSUME IInv, NEW id \in Cases, ChooseCase(id)
  PROVE  IInv' /\ Forward
<1>1. Types /\ view \in Screens /\ ServerAdvances /\ ServerType'
  BY ServerStays DEF IInv, Types, ViewType, ChooseCase
<1>2. /\ view' = Select(view, id) /\ lists' = lists
      /\ UNCHANGED detailVars /\ UNCHANGED runVars
  BY DEF ChooseCase
<1>3. /\ view' \in Screens /\ view'.cases = view.cases
      /\ (view'.selected = view.selected /\ view'.detail = view.detail) \/ view'.detail = None
  BY <1>1, <1>2, SelectResult
<1>4. retried' \in BOOLEAN
  BY <1>1, <1>2 DEF Types, LoopType, detailVars
<1>5. LoopInv' /\ ListInv'
  BY <1>1, <1>2, <1>3, <1>4, LoopKept, LoopOfNoDetail, ListKept DEF detailVars
<1>6. Forward
  <2>1. view.detail # None => view.detail.stage \in Stages
    BY <1>1 DEF Screens, Details
  <2>2. \A c \in Cases : view.cases[c] \in Stages
    BY <1>1 DEF Screens
  <2>3. QED
    BY <1>3, <2>1, <2>2, StagesAreNumbers DEF StageNames, Forward
<1>7. QED
  BY <1>1, <1>2, <1>3, <1>5, <1>6, RunStays, PartsMakeIInv DEF ViewType

\* The user asks for the detail again.
LEMMA RetryDetailIInv ==
  ASSUME IInv, RetryDetail
  PROVE  IInv' /\ Forward
<1>1. Types /\ ServerAdvances /\ ServerType'
  BY ServerStays DEF IInv, RetryDetail
<1>2. LoopInv' /\ ListInv'
  BY <1>1, LoopKept, ListKept DEF RetryDetail
<1>3. QED
  BY <1>1, <1>2, ViewStays, RunStays, PartsMakeIInv DEF RetryDetail

\* Steps of the loop that leave the screen alone: the effect ends the loop before and
\* begins one that knows the server as it is; a timer's request does too.
LEMMA LoopStepIInv ==
  ASSUME IInv, \/ RunEffect \/ TimerFires
               \/ \E request \in loads : CaseIgnored(request)
  PROVE  IInv' /\ Forward
<1>1. Types /\ ServerAdvances /\ ServerType'
  BY ServerStays DEF IInv, RunEffect, TimerFires, CaseIgnored
<1>2. view' = view /\ lists' = lists /\ UNCHANGED runVars /\ server' = server
  BY DEF RunEffect, TimerFires, CaseIgnored
<1>3. /\ Ignored \in CaseRequests /\ ~Ignored.active
      /\ \A id \in Cases : /\ Load(id) \in CaseRequests /\ Load(id).active
                           /\ Load(id).case = id /\ Load(id).since = server[id]
  BY <1>1, StagesAreNumbers
     DEF StageNames, Types, ServerType, Ignored, Load, CaseRequests
<1>4. LoopInv'
  <2>1. CASE RunEffect
    <3>1. /\ effect' = view.selected /\ timer' = None /\ retried' = FALSE
          /\ \A r \in loads' : r = Ignored \/ (view.selected # None /\ r = Load(view.selected))
      BY <2>1 DEF RunEffect, Cleanup
    <3>2. view.selected \in Cases \cup {None}
      BY <1>1 DEF Types, ViewType, Screens
    <3>3. LoopType' /\ OneLoop'
      BY <1>3, <3>1, <3>2 DEF LoopType, OneLoop, Ignored
    <3>4. QED
      BY <1>2, <1>3, <3>1, <3>2, <3>3
         DEF LoopInv, IInv, DetailIsOfSelection, DetailIsPast, Types, LoopType
  <2>2. CASE TimerFires
    <3>1. /\ timer \in Cases /\ timer' = None /\ loads' = loads \cup {Load(timer)}
          /\ effect' = effect /\ retried' = retried
      BY <1>1, <2>2 DEF TimerFires, Types, LoopType
    <3>2. \A r \in loads : ~r.active
      BY <3>1, NoneAssumption DEF IInv, OneLoop
    <3>3. LoopType' /\ OneLoop'
      BY <1>1, <1>3, <3>1, <3>2 DEF LoopType, OneLoop, Types, Ignored
    <3>4. QED
      BY <1>2, <1>3, <3>1, <3>2, <3>3
         DEF LoopInv, IInv, DetailIsOfSelection, DetailIsPast
  <2>3. CASE \E request \in loads : CaseIgnored(request)
    BY <1>2, <2>3
       DEF CaseIgnored, LoopInv, IInv, Types, LoopType, OneLoop, DetailIsOfSelection,
           DetailIsPast, Ignored
  <2>4. QED
    BY <2>1, <2>2, <2>3
<1>5. ListInv'
  BY <1>1, <1>2, ListKept DEF IInv
<1>6. QED
  BY <1>1, <1>2, <1>4, <1>5, ViewStays, RunStays, PartsMakeIInv

\* The loop's answer: its case may no longer be the selected one.  The request knew
\* the server at least as the detail it replaces did.
LEMMA CaseAnsweredIInv ==
  ASSUME IInv, NEW request \in loads, CaseAnswered(request)
  PROVE  IInv' /\ Forward
<1>1. Types /\ ServerAdvances /\ ServerType' /\ view \in Screens
  BY ServerStays DEF IInv, Types, ViewType, CaseAnswered
<1>2. /\ request \in CaseRequests /\ request.active /\ request.case \in Cases
      /\ request.since \in Stages /\ server[request.case] \in Stages
  BY <1>1 DEF Types, ServerType, LoopType, CaseRequests, CaseAnswered, Ignored
<1>3. PICK stage \in request.since .. server[request.case] :
        /\ stage # Unknown
        /\ view' = DetailArrived(view, request.case, stage)
        /\ timer' = IF NeedsFollowUp(stage) THEN request.case ELSE None
  BY DEF CaseAnswered
<1>4. /\ stage \in Stages /\ stage >= Processing
      /\ request.since <= stage /\ stage <= server[request.case]
  BY <1>2, <1>3, StagesAreNumbers DEF StageNames
<1>5. /\ lists' = lists /\ loads' = loads \ {request} /\ server' = server
      /\ effect' = effect /\ retried' = retried /\ UNCHANGED runVars
  BY DEF CaseAnswered
<1>6. \A r \in loads' : r = Ignored \/ r.case \in Cases
  BY <1>1, <1>5 DEF Types, LoopType
<1>7. \A r \in loads' : ~r.active
  BY <1>2, <1>5 DEF IInv, OneLoop
<1>8. /\ view' \in Screens /\ view'.cases = view.cases
      /\ \/ view' = view /\ request.case # view.selected
         \/ /\ request.case = view.selected /\ view'.selected = view.selected
            /\ view'.detail = [case |-> request.case, stage |-> stage]
  <2>1. [case |-> request.case, stage |-> stage] \in Details
    BY <1>2, <1>4 DEF Details
  <2>2. CASE request.case # view.selected
    BY <1>1, <1>3, <2>2 DEF DetailArrived
  <2>3. CASE request.case = view.selected
    BY <1>1, <1>3, <2>1, <2>3 DEF DetailArrived, Screens
  <2>4. QED
    BY <2>2, <2>3
<1>9. /\ LoopType' /\ OneLoop' /\ DetailIsOfSelection'
  <2>1. LoopType'
    BY <1>1, <1>2, <1>3, <1>5 DEF Types, LoopType
  <2>2. OneLoop'
    BY <1>7 DEF OneLoop
  <2>3. DetailIsOfSelection'
    BY <1>8 DEF IInv, DetailIsOfSelection
  <2>4. QED
    BY <2>1, <2>2, <2>3
<1>10. DetailIsPast'
  BY <1>4, <1>5, <1>7, <1>8 DEF IInv, DetailIsPast
<1>11. ListInv'
  BY <1>1, <1>5, <1>8, ListKept
<1>12. Forward
  <2>1. CASE view' = view
    BY <1>1, <2>1, ViewStays
  <2>2. CASE /\ request.case = view.selected
             /\ view'.detail = [case |-> request.case, stage |-> stage]
    <3>1. ASSUME view.detail # None
          PROVE  stage >= view.detail.stage
      <4>1. view.detail.case = request.case /\ view.detail.stage \in Stages
        BY <1>1, <2>2, <3>1 DEF IInv, DetailIsOfSelection, Screens, Details
      <4>2. view.detail.stage > Processing => view.detail.stage <= request.since
        BY <1>2, <3>1, <4>1 DEF IInv, DetailIsPast
      <4>3. QED
        BY <1>2, <1>4, <4>1, <4>2, StagesAreNumbers DEF StageNames
    <3>2. \A c \in Cases : view.cases[c] \in Stages
      BY <1>1 DEF Screens
    <3>3. QED
      BY <1>8, <2>2, <3>1, <3>2, StagesAreNumbers DEF StageNames, Forward
  <2>3. QED
    BY <1>8, <2>1, <2>2
<1>13. QED
  BY <1>1, <1>5, <1>8, <1>9, <1>10, <1>11, <1>12, RunStays, PartsMakeIInv DEF LoopInv, ViewType

\* An error ends the loop and leaves the detail.
LEMMA CaseFailedIInv ==
  ASSUME IInv, NEW request \in loads, CaseFailed(request)
  PROVE  IInv' /\ Forward
<1>1. Types /\ ServerAdvances /\ ServerType' /\ view \in Screens
  BY ServerStays DEF IInv, Types, ViewType, CaseFailed
<1>2. /\ view' \in Screens /\ view'.cases = view.cases
      /\ view'.selected = view.selected /\ view'.detail = view.detail
  BY <1>1 DEF CaseFailed, DetailFailed, Screens
<1>3. LoopInv'
  BY <1>1, <1>2
     DEF CaseFailed, LoopInv, IInv, Types, LoopType, OneLoop, DetailIsOfSelection,
         DetailIsPast
<1>4. ListInv'
  BY <1>1, <1>2, ListKept DEF CaseFailed
<1>5. Forward
  <2>1. view.detail # None => view.detail.stage \in Stages
    BY <1>1 DEF Screens, Details
  <2>2. \A c \in Cases : view.cases[c] \in Stages
    BY <1>1 DEF Screens
  <2>3. QED
    BY <1>2, <2>1, <2>2, StagesAreNumbers DEF StageNames, Forward
<1>6. RunType'
  BY <1>1, RunStays DEF CaseFailed
<1>7. QED
  BY <1>1, <1>2, <1>3, <1>4, <1>5, <1>6, PartsMakeIInv DEF ViewType

\* The page or its timer asks for the list.
LEMMA PageAsksIInv ==
  ASSUME IInv, RefreshList \/ PollList
  PROVE  IInv' /\ Forward
<1>1. Types /\ ServerAdvances /\ ServerType'
  BY ServerStays DEF IInv, RefreshList, PollList
<1>2. view' = view /\ UNCHANGED detailVars /\ UNCHANGED runVars
  BY DEF RefreshList, PollList
<1>3. retried' \in BOOLEAN
  BY <1>1, <1>2 DEF Types, LoopType, detailVars
<1>4. LoopInv'
  BY <1>1, <1>2, <1>3, LoopKept DEF detailVars
<1>5. ListInv'
  BY <1>1, <1>2, AskListInv DEF RefreshList, PollList
<1>6. QED
  BY <1>1, <1>2, <1>4, <1>5, ViewStays, RunStays, PartsMakeIInv

\* The requests that are left when one is over are the same but for who waits.
LEMMA NewTimerResult ==
  ASSUME Types, NEW requests \in SUBSET lists
  PROVE  /\ NewTimer(requests) \subseteq ListRequests
         /\ \A r \in NewTimer(requests) :
              \E s \in requests : /\ r.latest = s.latest /\ r.since = s.since
                                  /\ r = s \/ r = [s EXCEPT !.by = IF @ = "timer" THEN "page" ELSE @]
<1>1. requests \subseteq ListRequests
  BY DEF Types, ListType
<1>2. \A s \in ListRequests :
        LET r == [s EXCEPT !.by = IF @ = "timer" THEN "page" ELSE @] IN
        r \in ListRequests /\ r.latest = s.latest /\ r.since = s.since
  BY DEF ListRequests
<1>3. QED
  BY <1>1, <1>2 DEF NewTimer

\* A list is answered.  Only the latest request changes the list, and it knew the
\* server at least as the request before it whose answer is shown.
LEMMA ListOverIInv ==
  ASSUME IInv, NEW request \in lists, ListAnswered(request) \/ ListUnused(request)
  PROVE  IInv' /\ Forward
<1>1. Types /\ ServerAdvances /\ ServerType' /\ view \in Screens /\ request \in ListRequests
  BY ServerStays DEF IInv, Types, ViewType, ListType, ListAnswered, ListUnused, ListOver
<1>2. ListOver(request) /\ mode' = mode /\ server' = server /\ UNCHANGED detailVars
  BY DEF ListAnswered, ListUnused, ListOver
<1>3. RunType'
  BY <1>1, <1>2 DEF ListOver, Types, RunType, TestRuns
<1>4. /\ ListType'
      /\ \A r \in lists' : \E s \in lists \ {request} : r.latest = s.latest /\ r.since = s.since
  <2>1. lists' = NewTimer(lists \ {request})
    BY <1>2 DEF ListOver
  <2>2. QED
    BY <1>1, <2>1, NewTimerResult DEF ListType
<1>5. LatestIsOne'
  <2>1. CASE HasProcessing(view'.cases) = HasProcessing(view.cases)
    BY <1>2, <2>1 DEF ListOver, NewTimer, IInv, LatestIsOne
  <2>2. CASE HasProcessing(view'.cases) # HasProcessing(view.cases)
    <3> DEFINE asPage(r) == [r EXCEPT !.by = IF @ = "timer" THEN "page" ELSE @]
    <3>1. lists' = {asPage(r) : r \in lists \ {request}}
      BY <1>2, <2>2 DEF ListOver, NewTimer
    <3>2. \A r \in lists : asPage(r).latest = r.latest
      BY <1>1 DEF Types, ListType, ListRequests
    <3> HIDE DEF asPage
    <3>3. QED
      BY <3>1, <3>2 DEF IInv, LatestIsOne
  <2>3. QED
    BY <2>1, <2>2
<1>6. ASSUME NEW c \in Cases
      PROVE  /\ view.cases[c] \in Stages /\ server[c] \in Stages
             /\ Listed(server[c]) \in Stages /\ Listed(server[c])' = Listed(server[c])
             /\ \A s \in Stages : Listed(s) \in Stages /\ Listed(s)' = Listed(s)
  BY <1>1, <1>2, ListedGrows DEF Types, ServerType, Screens, Listed
<1>7. CASE ListUnused(request)
  <2>1. view' = view
    BY <1>7 DEF ListUnused
  <2>2. ListIsPast'
    <3> SUFFICES ASSUME NEW c \in Cases, NEW r \in lists'
                 PROVE  /\ view.cases[c] <= Listed(server[c])'
                        /\ r.latest => /\ view.cases[c] <= Listed(r.since[c])'
                                       /\ Listed(r.since[c])' <= Listed(server[c])'
      BY <1>6, <2>1 DEF IInv, ListIsPast
    <3>1. PICK s \in lists \ {request} : r.latest = s.latest /\ r.since = s.since
      BY <1>4
    <3>2. s.since[c] \in Stages
      BY <1>1 DEF Types, ListType, ListRequests
    <3>3. Listed(r.since[c])' = Listed(s.since[c])
      BY <1>6, <3>1, <3>2
    <3>4. QED
      BY <1>6, <3>1, <3>3 DEF IInv, ListIsPast
  <2>3. LoopInv'
    BY <1>1, <1>2, <2>1, LoopKept DEF detailVars, Types, LoopType
  <2>4. QED
    BY <1>1, <1>3, <1>4, <1>5, <2>1, <2>2, <2>3, ViewStays, PartsMakeIInv DEF ListInv
<1>8. CASE ListAnswered(request)
  <2>1. PICK rows \in Answers(request) : view' = ListArrived(view, rows, request.prefer)
    BY <1>8 DEF ListAnswered
  <2>2. request.latest /\ rows \in [Cases -> Stages] /\ request.prefer \in Cases \cup {None}
    BY <1>1, <1>8 DEF ListAnswered, Answers, ListRequests
  <2>3. /\ view' \in Screens /\ view'.cases = rows
        /\ (view'.selected = view.selected /\ view'.detail = view.detail) \/ view'.detail = None
    BY <1>1, <2>1, <2>2, ListArrivedResult
  <2>4. ASSUME NEW c \in Cases
        PROVE  view.cases[c] <= rows[c] /\ rows[c] <= Listed(server[c])
    <3>1. PICK stage \in {request.since[c]} \cup request.since[c] .. server[c] :
            rows[c] = Listed(stage)
      BY <2>1 DEF Answers
    <3>2. /\ request.since[c] \in Stages /\ server[c] \in Stages
          /\ stage \in Stages /\ request.since[c] <= stage
          /\ stage = request.since[c] \/ stage <= server[c]
      BY <1>1, <1>6, <3>1, StagesAreNumbers DEF StageNames, ListRequests
    <3>3. /\ view.cases[c] <= Listed(request.since[c])
          /\ Listed(request.since[c]) <= Listed(server[c])
      BY <2>2 DEF IInv, ListIsPast
    <3>4. /\ Listed(request.since[c]) <= Listed(stage)
          /\ stage = request.since[c] \/ Listed(stage) <= Listed(server[c])
      BY <1>1, <3>2, ListedGrows
    <3>5. /\ view.cases[c] \in Stages /\ Listed(request.since[c]) \in Stages
          /\ Listed(stage) \in Stages /\ Listed(server[c]) \in Stages
      BY <1>6, <3>2
    <3>6. QED
      BY <3>1, <3>3, <3>4, <3>5, StagesAreNumbers DEF StageNames
  <2>5. \A r \in lists' : ~r.latest
    <3>1. \A s \in lists \ {request} : ~s.latest
      BY <2>2 DEF IInv, LatestIsOne
    <3>2. QED
      BY <1>4, <3>1
  <2>6. ListIsPast'
    BY <1>6, <2>3, <2>4, <2>5 DEF ListIsPast
  <2>7. LoopInv'
    BY <1>1, <1>2, <2>3, LoopKept, LoopOfNoDetail DEF detailVars, Types, LoopType
  <2>8. Forward
    <3>1. view.detail # None => view.detail.stage \in Stages
      BY <1>1 DEF Screens, Details
    <3>2. \A c \in Cases : view.cases[c] \in Stages /\ rows[c] \in Stages
      BY <1>1, <2>2 DEF Screens
    <3>3. QED
      BY <2>3, <2>4, <3>1, <3>2, StagesAreNumbers DEF StageNames, Forward
  <2>9. QED
    BY <1>1, <1>3, <1>4, <1>5, <2>3, <2>6, <2>7, <2>8, PartsMakeIInv DEF ListInv, ViewType
<1>9. QED
  BY <1>7, <1>8

\* The form is submitted.
LEMMA SubmitIInv ==
  ASSUME IInv, Submit
  PROVE  IInv' /\ Forward
<1>1. Types /\ ServerAdvances /\ ServerType'
  BY ServerStays DEF IInv, Submit
<1>2. view' = view /\ lists' = lists /\ UNCHANGED detailVars /\ RunType'
  BY DEF Submit, RunType, TestRuns
<1>3. retried' \in BOOLEAN
  BY <1>1, <1>2 DEF Types, LoopType, detailVars
<1>4. LoopInv' /\ ListInv'
  BY <1>1, <1>2, <1>3, LoopKept, ListKept DEF detailVars
<1>5. QED
  BY <1>1, <1>2, <1>4, ViewStays, PartsMakeIInv

\* A run was created; its case waits for its decision.
LEMMA PostAnsweredIInv ==
  ASSUME IInv, PostAnswered
  PROVE  IInv' /\ Forward
<1>1. Types /\ ServerAdvances /\ ServerType'
  BY PostsAdvance DEF IInv, ServerAdvances, Types, ServerType
<1>2. view' = view /\ lists' = lists /\ UNCHANGED detailVars
  BY DEF PostAnswered
<1>3. RunType'
  BY DEF PostAnswered, RunType, TestRuns
<1>4. retried' \in BOOLEAN
  BY <1>1, <1>2 DEF Types, LoopType, detailVars
<1>5. LoopInv' /\ ListInv'
  BY <1>1, <1>2, <1>4, LoopKept, ListKept DEF detailVars
<1>6. QED
  BY <1>1, <1>2, <1>3, <1>5, ViewStays, PartsMakeIInv

\* A test request ends, however it does, by asking for the list.
LEMMA RunEndsIInv ==
  ASSUME IInv, PostFailed \/ RunCompleted \/ RunFailed \/ RunLost
  PROVE  IInv' /\ Forward
<1>1. Types
  BY DEF IInv
<1>2. ServerAdvances /\ ServerType'
  <2>1. CASE PostFailed
    BY <1>1, <2>1, PostsAdvance DEF ServerAdvances, Types, ServerType
  <2>2. CASE RunCompleted \/ RunFailed \/ RunLost
    BY <1>1, <2>2, ServerStays DEF RunCompleted, RunFailed, RunLost
  <2>3. QED
    BY <2>1, <2>2
<1>3. view' = view /\ UNCHANGED detailVars
  BY DEF PostFailed, RunCompleted, RunFailed, RunLost
<1>4. \E prefer \in Cases \cup {None} : EndRun(prefer)
  BY <1>1 DEF PostFailed, RunCompleted, RunFailed, RunLost, Types, RunType, TestRuns
<1>5. RunType'
  BY <1>1, <1>4
     DEF EndRun, PostFailed, RunCompleted, RunFailed, RunLost, Types, RunType, TestRuns
<1>6. retried' \in BOOLEAN
  BY <1>1, <1>3 DEF Types, LoopType, detailVars
<1>7. LoopInv'
  BY <1>2, <1>3, <1>6, LoopKept DEF detailVars
<1>8. ListInv'
  BY <1>2, <1>3, <1>4, AskListInv DEF EndRun
<1>9. QED
  BY <1>1, <1>2, <1>3, <1>5, <1>7, <1>8, ViewStays, PartsMakeIInv

-----------------------------------------------------------------------------
\* The page opens with an empty list and one request for it.
LEMMA InitIInv == Init => IInv
<1> SUFFICES ASSUME Init PROVE IInv
  OBVIOUS
<1> DEFINE first == [since |-> server, prefer |-> None, by |-> "page", latest |-> TRUE]
<1>1. ServerType /\ LoopType /\ RunType
  BY AtStartAssumption DEF Init, ServerType, LoopType, RunType, TestRuns
<1>2. view \in Screens /\ view.detail = None /\ \A c \in Cases : view.cases[c] = Unknown
  BY StagesAreNumbers DEF StageNames, Init, Screens
<1>3. lists = {first} /\ first \in ListRequests /\ first.since = server
  BY <1>1 DEF Init, ListRequests, ServerType
<1> HIDE DEF first
<1>4. ListType /\ LatestIsOne
  BY <1>3 DEF ListType, LatestIsOne
<1>5. ListIsPast
  <2>1. \A c \in Cases : Listed(server[c]) \in Stages
    BY <1>1, StagesAreNumbers DEF StageNames, Listed, ServerType
  <2>2. QED
    BY <1>2, <1>3, <2>1, StagesAreNumbers DEF StageNames, ListIsPast
<1>6. OneLoop /\ DetailIsOfSelection /\ DetailIsPast
  BY <1>2 DEF Init, OneLoop, DetailIsOfSelection, DetailIsPast
<1>7. QED
  BY <1>1, <1>2, <1>4, <1>5, <1>6 DEF IInv, Types, ViewType

\* The lemmas above, and a step that changes nothing.
LEMMA NextIInv == IInv /\ [Next]_vars => IInv' /\ Forward
<1> SUFFICES ASSUME IInv, [Next]_vars
             PROVE  IInv' /\ Forward
  OBVIOUS
<1>1. CASE \E c \in Cases : ServerStep(c) \/ ServerGivesUp(c)
  BY <1>1, ServerIInv
<1>2. CASE DetailStep
  BY <1>2, ChooseCaseIInv, RetryDetailIInv, LoopStepIInv, CaseAnsweredIInv, CaseFailedIInv
     DEF DetailStep
<1>3. CASE ListStep
  BY <1>3, PageAsksIInv, ListOverIInv DEF ListStep
<1>4. CASE RunStep
  BY <1>4, SubmitIInv, PostAnsweredIInv, RunEndsIInv DEF RunStep
<1>5. CASE UNCHANGED vars
  <2>1. /\ UNCHANGED <<mode, server, view, effect, retried, timer, loads, lists>>
        /\ UNCHANGED runVars
    BY <1>5 DEF vars, detailVars, runVars
  <2>2. Types /\ ServerAdvances /\ ServerType'
    BY <2>1, ServerStays DEF IInv
  <2>3. retried' \in BOOLEAN
    BY <2>1, <2>2 DEF Types, LoopType
  <2>4. LoopInv' /\ ListInv'
    BY <2>1, <2>2, <2>3, LoopKept, ListKept
  <2>5. QED
    BY <2>1, <2>2, <2>4, ViewStays, RunStays, PartsMakeIInv
<1>6. QED
  BY <1>1, <1>2, <1>3, <1>4, <1>5 DEF Next

\* So it holds always.
LEMMA AlwaysIInv == Spec => []IInv
  BY InitIInv, NextIInv, PTL DEF Spec

\* A set of which any two members are the same has one at most.
LEMMA AtMostOne ==
  ASSUME NEW S, \A x, y \in S : x = y
  PROVE  (S = {} /\ Cardinality(S) = 0) \/ Cardinality(S) = 1
<1>1. CASE S = {}
  BY <1>1, FS_EmptySet
<1>2. CASE S # {}
  <2>1. PICK x \in S : TRUE
    BY <1>2
  <2>2. S = {x}
    BY <2>1
  <2>3. QED
    BY <2>2, FS_Singleton
<1>3. QED
  BY <1>1, <1>2

\* The types of the window; one loop at most loads the selected case or waits to, and
\* one list request at most is the latest (useWorkspace.ts).
THEOREM WorkspaceTypeCorrect == Spec => []WorkspaceTypeOK
<1>1. IInv => WorkspaceTypeOK
  <2> SUFFICES ASSUME IInv PROVE WorkspaceTypeOK
    OBVIOUS
  <2> DEFINE A == {r \in loads : r.active}
             L == {r \in lists : r.latest}
  <2>1. Cardinality(A) + (IF timer = None THEN 0 ELSE 1) <= 1
    <3>1. \A x, y \in A : x = y
      BY DEF IInv, OneLoop
    <3>2. timer # None => A = {}
      BY DEF IInv, OneLoop
    <3> HIDE DEF A
    <3>3. (A = {} /\ Cardinality(A) = 0) \/ Cardinality(A) = 1
      BY <3>1, AtMostOne
    <3>4. QED
      BY <3>2, <3>3, FS_EmptySet
  <2>2. Cardinality(L) <= 1
    <3>1. \A x, y \in L : x = y
      BY DEF IInv, LatestIsOne
    <3> HIDE DEF L
    <3>2. QED
      BY <3>1, AtMostOne
  <2>3. /\ mode \in DOMAIN AtStart /\ server \in [Cases -> Stages]
        /\ {effect, timer} \subseteq Cases \cup {None} /\ retried \in BOOLEAN
        /\ run.stage \in {"idle", "posting", "waiting", "listing"}
        /\ progress \in {None, "running", "complete", "failed"}
    BY DEF IInv, Types, ServerType, LoopType, RunType, TestRuns
  <2>4. /\ view.cases \in [Cases -> Stages] /\ view.selected \in Cases \cup {None}
        /\ view.detail = None \/ (view.detail.case \in Cases /\ view.detail.stage \in Stages)
        /\ view.load \in {"ready", "loading", "error"}
    BY DEF IInv, Types, ViewType, Screens, Details
  <2>5. /\ \A r \in loads : r = Ignored \/ (r.active /\ r.case \in Cases /\ r.since \in Stages)
        /\ \A r \in lists : r.by \in {"page", "timer", "run"} /\ r.prefer \in Cases \cup {None}
    BY DEF IInv, Types, LoopType, CaseRequests, ListType, ListRequests
  <2>6. QED
    BY <2>1, <2>2, <2>3, <2>4, <2>5 DEF WorkspaceTypeOK
<1>2. QED
  BY <1>1, AlwaysIInv, PTL

\* The case on the screen is the selected one, for any number of cases and of answers
\* that come late (DetailArrived of state.ts).
THEOREM DetailIsOfSelectionHolds == Spec => []DetailIsOfSelection
<1>1. IInv => DetailIsOfSelection
  BY DEF IInv
<1>2. QED
  BY <1>1, AlwaysIInv, PTL

\* No late answer takes the detail or the list back, however many requests overlap.
THEOREM ScreenNeverGoesBackHolds == Spec => ScreenNeverGoesBack
<1>1. IInv /\ [Next]_vars =>
        [/\ (view.detail # None /\ view'.detail # None /\ view'.selected = view.selected)
              => view'.detail.stage >= view.detail.stage
         /\ \A c \in Cases : view'.cases[c] >= view.cases[c]]_vars
  BY NextIInv DEF Forward
<1>2. QED
  BY <1>1, AlwaysIInv, PTL DEF Spec, ScreenNeverGoesBack
=============================================================================
