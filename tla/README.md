# Formal model of off-chase

TLA+ modules, TLC runs and TLAPS proofs for this repository. off-chase ("Trust404") keeps
evidence of an agent's payment request and of an institution's answer to it: signed records, a
contract that commits to their hashes and to a 30 second deadline, tables that publish them, and a
verifier that anyone can run.

Source paths below are relative to the repository's root; `PROJECT.json` maps every definition to
the lines it models.

## 1. The system

| Part | Source | State it keeps | Operations |
|---|---|---|---|
| Records and signatures | `backend/src/records`, `crypto`, `agent`, `enterprise`, `verification/receipt.ts` | none | create, hash, sign, check a policy, request, receipt, decision |
| Amount policy, demo institution | `backend/src/institution` | none | decide a request; check an answer |
| DecisionAnchor contract | `backend/contracts/DecisionAnchor.sol` | per request: hashes, anchor times, deadline | `anchorRequest`, `anchorDecision` |
| Anchor client | `backend/src/blockchain/anchorClient.ts` | none (the chain's) | broadcast and await, read back, recover a request's or a decision's transaction, check receipts |
| Gateway service | `backend/src/verification/service.ts` | the locals of every call in progress | `submitRequest`, `submitDecision` |
| Evidence tables | `backend/supabase/migrations` | policies, requests and case numbers, receipts, decisions, anchors, bundles | `persist_evidence_bundle`, reads |
| Store adapters | `backend/src/persistence/supabaseEvidenceStore.ts`, `db/memoryEvidenceStore.ts` | none / maps | the calls above, `savePolicy`, `saveDecision`, `deleteInstitutionDecision`, runs |
| Verifier | `backend/src/verification/verifier.ts` | the locals of a verification | `verifyEvidence` |
| Case service | `backend/src/api/cases.ts` | `active` set of a process; run rows | `start`, `execute`, `getRun`, `list`, `detail` |
| Writer lock | `backend/src/persistence/runControl.ts`, migration `20260920141145` | holder, start time, day, daily count | `acquire`, `release`, `isActive` |
| HTTP API, start-up | `backend/src/api/app.ts`, `server.ts`, `api/index.ts` | the start-up an instance keeps, the app | routes, configuration checks, seeding the policy |
| Web workspace | `frontend/src/state.ts`, `useWorkspace.ts`, `data/http.ts`, `TestRequest.tsx`, `GuidedCase.tsx` | list, selected case, outstanding requests, progress of a test request, chosen file, reports | select, load and reload, poll the list, submit and follow a test request, check a file, download |
| Transfer smoke test | `backend/src/blockchain/usdc*.ts`, `backend/scripts/sepolia-usdc-smoke.ts` | an intent journal | reserve, broadcast, verify |
| Decision ledger (earlier POC) | `src/trust404/ledger.py`, `api.py` | hash-chained, signed entries in a database file | accept, decide, export a proof |
| Proof verifier (earlier POC) | `src/trust404/verify.py`, `policy.py`, `crypto.py`, `cli.py` | none | verify a proof under a pin or a witness receipt |
| Witness (earlier POC) | `src/trust404/witness.py`, `witness_api.py` | signed receipts of all issuers | anchor a proof, history |

How they interact. A client or a demo run posts a request to the gateway. The gateway looks for a
stored bundle, reads the contract, anchors the request (or recovers an anchor that an earlier
attempt left), signs a receipt, saves a pending bundle, asks the institution, and submits the
answer: it reads the bundle and the contract again, anchors the decision (or finds the one that is
anchored), and saves the completed bundle. Every one of these is an `await` on another system that
may fail, and calls on several serverless instances interleave at all of them. A demo run does this
under a database-wide writer lock and reports its progress in a row of its own. The verifier reads
the contract, and later the chain's time, while all of this goes on.

The web workspace reads cases, lists and runs over HTTP, and has files and cases verified, and may
be answered late, out of order or not at all. An API instance starts up on its first call, checks
its configuration against the chain, and seeds the policy that every other instance has to find. The
transfer smoke test is a script of its own that journals, in a file per intent, the one token
transfer it sends, so that a run that crashed can be verified and is never sent again. The earlier
proof of concept under `src/trust404` is a system of its own: an issuer's ledger exports a signed
proof of everything it accepted and decided, a separately run witness signs receipts for the proofs
it saw and refuses forks, and anyone verifies a proof offline.

What is hard here: competing calls for one request; failures between the chain and the store, in
both directions; stale snapshots written back; a deadline that passes while a transaction waits;
requests to the database that are applied after their caller gave up; several reads that make one
answer; clocks that differ; a search over a growing chain; answers that overtake each other on
their way to a window; one issuer's key in two databases; instances that start together and seed one
row; a crash between a broadcast and the note of it. `PROJECT.json` lists each under `hazards` at
its line, with the properties that cover it.

## 2. The modules

| Module | Models | Composes |
|---|---|---|
| `EvidenceRecords` | records, hashes, signatures | |
| `DecisionPolicy` | the institution's answer, the policy check | `EvidenceRecords` |
| `DecisionAnchor` | the contract, the mempool, blocks, and what the client reads back | `EvidenceRecords` |
| `EvidenceStore` | the tables and `persist_evidence_bundle` | `EvidenceRecords` |
| `Gateway` | every call of `submitRequest` and `submitDecision` | the four above |
| `EvidenceLifecycle` | abstract specification: what the system promises of a request | |
| `Verifier` | verifications beside the gateway | `Gateway` |
| `RunControl` | runs, the writer lock, `getRun` | |
| `AnchorRecovery` | the binary search of `recoverRequestAnchor` | |
| `LedgerProof` | records, entries and checkpoints of the decision ledger; `verify_proof` | |
| `Witness` | the checkpoint witness and its receipts | `LedgerProof` |
| `DecisionLog` | ledger databases, the witness, and the verify command | `Witness` |
| `Workspace` | a window of the web application with its outstanding requests | |
| `ApiInstances` | instances of the API: start-up, its retry, `getPolicy` and `savePolicy` | |
| `EvidenceReview` | a window that has files and cases verified by those instances | `ApiInstances` |
| `TransferJournal` | the transfer smoke test, its intent files, the wallet's nonces | |
| `Gateway_proofs`, `Verifier_proofs`, `RunControl_proofs`, `AnchorRecovery_proofs`, `DecisionLog_proofs`, `Workspace_proofs`, `EvidenceReview_proofs`, `TransferJournal_proofs` | theorems | the module of the name |
| `MCGateway`, `MCVerifier`, `MCRunControl`, `MCAnchorRecovery`, `MCDecisionLog`, `MCWorkspace`, `MCEvidenceReview`, `MCTransferJournal` | instances for TLC | the module of the name |

**Records.** A hash is collision free, so it is the content it commits to; a signature records its
signer and the content signed. `salt` distinguishes two valid signatures of one content, which the
code treats as different records with one hash (the tables compare whole records, the gateway
compares hashes).  A policy's content is its limit; a request's is its id, amount and policy hash.
Schema parsing, canonical JSON, key formats and `created_at`/`valid_from` are left out: a request
dated before its policy is refused like a request for another policy.

**Chain.** A block is named by its timestamp. A broadcast transaction is mined in some later block
or never, and executes on the state and the timestamp of that block. A block carries at most one
transaction of the gateway's wallet: several in one block have the outcomes of several blocks
within the deadline. Blocks are final; a chain reorganisation and a replaced transaction are not
modelled (the code has no handling for either).

**Store.** The transaction holds advisory locks on the policy and on the request, so it is one
action, either refused or committed as a whole.

**Gateway.** A call is a process with a program counter (`pc`, the await it is at) and its locals
(`req`, `opt`, `dec`, `snap`). An action runs from one await to the next: the read or write the
await performs, the checks of the code on what it returned, and the next program counter. Reads of
rows that never change ride along with the read before them. `Fail` is any error at any await: an
RPC or database error, an exhausted function limit, a process that ends. What a failed call
broadcast stays in the mempool. The code keeps no memory between calls, so a restart is a call that
ends and another that begins; a retry is another call.

**Verifier.** `PresentStored` exports what the tables hold at some moment; `PresentAltered` changes
it: the tampering demo's copy, another policy signed with the enterprise's key, another amount,
another signed decision, a removed decision. `Examine` is `readRecord` with every check on it,
`ReadChainTime` the later comparison with the chain's time.

**Run control.** A database request is a message in `calls` that the database applies at any later
time or never; a caller that still waits gets the answer, or gets an error at any time instead.
`Tick` is the passage of time, measured for the lock and for each invocation; an invocation that
reaches `FunctionLimit` is ended before time goes on, which is what `maxDuration` promises.
`OperatorRelease` is the recovery procedure of README.md:125, with its two conditions.

**Anchor recovery.** The chain is a function from heights to increasing timestamps; the height that
a search begins with is any height up to the latest, because the client caches block numbers and
nodes lag.

**Decision log.** `db` maps every database file to its entries; `Accept` and `Decide` are the two
transactions (BEGIN IMMEDIATE), with the checks of the API before them and of `evaluate` within. Two
files may be created with one issuer key: the code binds a file to a key and not a key to a file
(the demo itself opens a second ledger with the key), and a file may be restored from a backup.
`created_at` is data: two entries of two files coincide exactly when everything in them does.
`VerifyProof` is `verify_proof` with each problem by its name; it is an operator of the proof, which
is what lets the properties ask for every proof that could be presented: exports of any length,
the demo's edits (`EditedProofs`), and one file's entries under another's checkpoint
(`SplicedProofs`). Malformed JSON, key and signature formats are left out. A digest contains what
it was taken of, a signature its key and content.

**Workspace.** JavaScript runs one callback at a time, so an action is one callback. `loads` and
`lists` are the outstanding HTTP requests; a request remembers what the server knew when it was sent
(`since`), and its answer is anything known between then and now. `active` is the flag in the
closure of the detail effect, `latest` compares `listGeneration`. React runs the effect of a new
selection some time after the reducer (`RunEffect`). The form's lock is `run`, the progress it was
last told `progress`. A case has the stages that the views tell apart: waiting for its decision,
decided while its run goes on, settled. `mode` is the repository behind the port
`EvidenceRepository`: the API, whose `list` omits cases without a decision, or the mock, which lists
them and takes no test requests; only with the mock can the list's poll start (`HasProcessing`).

**API instances and evidence review.** `runtime` is what the variable of that name in `api/index.ts`
holds: no promise, one that has come as far as an await of the start-up, or the app. A call that
arrives awaits the promise or begins it; a start-up that fails answers every call that awaits it and
is forgotten. `savePolicy` is two requests, `ReadPolicy` and `InsertPolicy`, between which another
instance may insert; a request that failed may have been applied (`StartFault`). Deployments with
different policies may be up at once. `Provide` is an operator who funds the wallet or deploys the
contract that the start-up missed. On the window's side, `call` is one HTTP request each, `asked`
what it is about and whether its answer is still wanted: the closure's generation for a file, the
mounted component for a case. A file is read before it is sent (`VerifyFile`, `SendFile`).

**Transfer journal.** An invocation of the script is a process; `Dies` ends it at any await. A file
is absent, created and still empty (the flag `wx` of `Reserve`), or an intent with its status.
`Broadcast` takes any nonce that is free at the wallet, so transactions compete for a nonce, also
with those that the owner sends by hand; `Mine` takes the next nonce and a transfer reverts on too
small a balance. `Receipt` follows a replacement (`ReceiptsFor`), as `waitForTransactionReceipt`
does. `Foreign` lets others move either balance between the reads that are compared.

## 3. What is checked

| Run | Instance | Properties |
|---|---|---|
| `gateway` | 3 calls, 1 id, 3 requests (2 amounts, 2 signatures of one), 3 decisions (2 answers, 2 signatures of one), window 1, timestamps 1 to 4 | see below |
| `verifier` | 2 calls, 1 verification, 4 requests and 4 decisions (valid, invalid, badly signed), window 2, timestamps 1 to 6 | see below |
| `verifier_missing` | the same | `MissingMeansNoAnchor` is violated |
| `run_control` | 2 runs, 2 instances, limit 1 a day, 2 days, function limit 1, age limit 3, skew 1 | see below |
| `run_control_liveness` | 2 runs, 2 instances, 1 day, with fairness | `SettledEventually` |
| `run_control_interrupted` | as `run_control` | `InterruptedMeansUnfinished` is violated |
| `anchor_recovery` | heights 0..6, gaps 1 and 2 | see below |
| `decision_log` | databases a, b of key k1 and c of k2; 4 requests (within the limit, above it, of an agent that is not admitted, of no amount), 2 policies (one invalid), 2 keys of each kind, 3 rows in all, 3 receipts | see below |
| `workspace` | 2 cases, 2 loads and 2 lists of the page before it asks again, with fairness | see below |
| `workspace_form` | the same | `FormReturns` is violated |
| `evidence_review` | 2 instances of one or of two deployments, 2 calls, 1 fault, 1 prerequisite; 2 files, one of them unreadable, and 2 cases; with fairness | see below |
| `transfer` | 2 invocations that send, 1 that verifies, 1 foreign transaction of the wallet, 2 intent files, amount 1, balance 2, 1 movement by others | see below |

`gateway`
- `StoredReceiptMatchesChain`, `StoredDecisionIsAnchored`: what the tables publish is what the
  contract committed to, by a transaction that succeeded, in time.
- `AnchoredIsRecoverable`: after any failure between the chain and the store, the record whose hash
  is on chain can still be saved; the conflicts that a transaction checks for never lock it out.
- `AnswerIsStored`: what a caller was answered stays what the store holds.
- `TablesAgree`: six tables written by one transaction, two of them in place, agree.
- `EvidenceOnlyGrows` (action property): every save overwrites the bundle row with something its
  call read or built earlier, and yet a stored bundle only ever gains its decision.
- `ImplementsLifecycle` (refinement): all of this is a behaviour of `EvidenceLifecycle`, with the
  contract as `committed` and `decided` and the bundle row as `published`.

`verifier`
- `VerdictsAreFinal`: VERIFIED stays true and is about the published contents; MISSING is final if
  the record was read after the deadline.
- `StoredEvidenceIsBelieved`: published evidence is never INVALID; completed evidence is always
  VERIFIED; pending evidence is called TAMPERED exactly when its decision is anchored but the
  exported copy lacks it.
- `AlterationIsNoticed`: what is not called wrong is about the published request, policy and decision,
  whatever was altered, and an anchored decision cannot be withheld.
- `MissingMeansNoAnchor` (violated): the description of MISSING in the web application. The record
  may have been read before the deadline, and the decision anchored between the two reads.

`run_control`
- `OneWriter`: no two runs can have a transaction to send or pending, whatever was lost, late or
  released by an operator.
- `InterruptedIsOver`: no instance calls a running execution interrupted.
- `DailyLimitHolds`: counted by a history variable, not by the counter under test.
- `SettledEventually` (liveness): a row that says running for ever is in the end not shown so.
- `InterruptedMeansUnfinished` (violated): `getRun` reads the row before the lock; a run that
  completes in between is answered as interrupted. The next read is right.

`anchor_recovery`
- `AnchorInInterval`, `FailsOnlyWhenStale`, `LogarithmicScan`, `SearchEnds`.

`decision_log`
- `ExportsVerify`: what `ledger.py` writes, `verify.py` accepts, and it reports exactly the requests
  that still wait; the two share no code for building an entry.
- `VerifiedMeansAnswered`: whoever holds an acceptance receipt and is told VERIFIED was answered by a
  decision that was recorded for that very acceptance, also when two databases accepted the request.
- `PinFixesHistory`: a pin fixes every entry of a proof that passes under it.
- `AuditorsAgree`: two holders of receipts of one witness never believe diverging histories.
- `HistoryVerifies`: an issuer's receipts form one chain whatever other issuers anchor in between.
- `HonestIssuerIsNotRefused`: the witness never refuses an issuer whose databases continue one another.

`workspace`
- `DetailIsOfSelection`, `ScreenNeverGoesBack`: late answers never show one case as
  another or take the screen back in time.
- `ProcessingIsFollowed`, `RunEnds` (liveness): an unsettled case on the screen is reloaded until it
  is settled or an error is shown; a test request gives the form's lock back.
- `FormReturns` (violated): a message promises that running again creates a new request after the
  polling timed out; the form stays disabled, because the last progress it was told is "running".

`evidence_review`
- `ServedPolicyIsStored`: an instance that serves, serves the policy the tables hold, whichever of
  two instances that started together won the row.
- `ReportIsOfWhatIsShown`: the report or error on the screen is about the file or the case that is
  shown, and a panel says it is busy exactly while an answer that it will use is on its way.
- `StartIsRetried` (liveness): an instance that is called again and again in the end serves, unless
  its policy is not the stored one or the operator provides nothing.

`transfer`
- `OneTransferPerIntent`: however often the script is started on one intent file and wherever it
  ends, one transaction at most is broadcast for it, and the file names it or stays.
- `VerifiedMeansMoved`: a verified journal names a transaction that succeeded and moved the amount,
  in a nonce that was free when the file was created.
- `JournalOnlyAdvances` (action property): several processes rewrite a whole file from memory, and
  yet it never goes back, and never changes the transaction that it names.

Each module has one type invariant besides; those of `TransferJournal` and `ApiInstances` /
`EvidenceReview` are theorems and take no run. Every property has a mutant of the code
(`PROJECT.json`, `mutants`) that violates it.

**Bounds.** Nothing relates two request ids except the case number sequence, so one id suffices.
Three calls are the least in which one loses a race and a third meets what is left (a retry after a
failure, or a second loser). Window 1 with timestamps up to 4 lets an anchored request get its
decision exactly at the deadline, one block late, or never; in the verifier's runs, window 2 leaves
room for two decisions that are both in time, and timestamps up to 6 for a record read after the
deadline and a block after that. The window's own length is data. Two signatures of one content are
the least that distinguish comparison by record from comparison by hash. Two limits, two amounts:
within, above, and another policy. In `RunControl`, only the order of `FunctionLimit`, `AgeLimit`
and the skew matters; limit 1 on two days reaches a full day and the reset. Seven blocks make three
probes, both branches of each, and every relation of a stale height to the anchor. In
`decision_log`, three rows hold an acceptance with its decision in one database and a diverging or
coinciding acceptance in the other; three receipts hold two of one issuer with another issuer's
between them. Three rows cannot hold two complete requests in one file; `LogTypeOK` and
`ExportsVerify` meet an interleaved third entry only. In `workspace`, two outstanding loads and two list requests of the page besides that of
the form are enough to overtake each other in both directions. In `evidence_review`, two calls let an answer to an earlier question meet a later
one, and one fault is enough for a start-up that fails at any await and for an instance that is
recycled. In `transfer`, two senders compete for one file or for one nonce with two, and a balance
of two amounts lets both transfers succeed, or one revert once others have moved the balance.
Symmetric sets (calls; runs; instances; databases of one key; invocations) are reduced only in runs
without liveness.

**Fairness.** `FairSpec` of `RunControl` assumes that time passes and that the platform ends an
invocation at its limit; nothing is assumed of the database, the chain, the operator or the run.
`FairSpec` of `AnchorRecovery` assumes that an RPC endpoint answers in the end. `FairSpec` of
`Workspace` assumes that a run on the server ends, that the browser runs effects and timers, that
a request is answered or fails (`AbortSignal.timeout` of 30 seconds), and that polling a run ends (3
minutes); the user need not act, and no particular answer is assumed. `FairSpec` of
`EvidenceReview` assumes that a start-up that has begun takes its next step or fails (every
request in it has a timeout); the user, the operator and the platform need not act. The gateway has
no liveness property: its deadline makes every outcome legitimate.

**Deadlock** is not checked where calls, runs, searches and invocations are finite and end, and the
chain, days and requests are bounded. It is checked in `evidence_review`, where the user can always choose a file.

## 4. What is proved

Every invariant, every action property and the refinement that a passing run checks is also a
theorem, proved by TLAPS for every value of the constants under their named `ASSUME`s. These say: the
sets of amounts and limits are natural numbers, `None` is none of the values it stands in for, submitted
records are typed, the operators' agent keys are agent keys and a database file has one issuer key
(`AllowedAgentsAssumption`, `IssuerAssumption`), a key that a request names is a key
(`RequestsAssumption`), and `FunctionLimit + Skew < AgeLimit` (300 s, 360 s).

- `Gateway_proofs!TypeCorrect`. Types are not inductive alone: the code dereferences locals it set
  earlier, so `Typed` adds `LocalsSet`, which local is present at which await.
- `Gateway_proofs!ReceiptsMatchChain`, `DecisionsAreAnchored`. The invariant follows evidence
  from the chain to the store: `History`, the effect of a successful transaction is still on record
  (requests and decisions are set once); `CallsProven`, a call that holds a bundle holds one that the chain
  proves, although other calls and blocks came after its reads; `StoredProven`, so does the store.
  `Extends` says what a later chain keeps of an earlier one, and both kinds of proof survive it.
- `Gateway_proofs!TablesAgreeHolds`, `EvidenceOnlyGrowsHolds`, `AnswerIsStoredHolds`,
  `AnchoredIsRecoverableHolds`, `LifecycleImplemented`: with these every property of the run `gateway`
  is proved, the refinement included. A save overwrites a row with what its call read long before.
  That it changes nothing but the decision follows from `OneDecision` (one successful decision per
  request is in the chain, so two bundles with a proven decision name one transaction), `Whole`
  (a bundle names the transaction of its own receipt) and `TablesAgree` itself, which turns the
  comparison with four tables into a comparison with the stored bundle. `HoldsWhole` says what each call
  holds and that a decision is saved only on a stored bundle. `Witnessed`, the converse of `History`, says
  that whatever is on record was brought about by a transaction that can be found: recovery succeeds.
- `Gateway_proofs!InstitutionFollowsPolicy`: the institution's answer always passes the gateway's and the
  verifier's check, which the code writes apart.
- `Verifier_proofs!VerifierTypeCorrect`, `VerdictsAreFinalHolds`, `StoredEvidenceIsBelievedHolds`,
  `AlterationIsNoticedHolds`, on the invariant of the gateway. Two parts make a judgement. What needs no chain is
  `Coherent`, and `CInv` says that all a call holds and all the store holds is coherent: the verifier
  repeats checks that the gateway made in other places, partly before an await. What needs the chain
  is `Proven`: the lemmas `JudgementOfProven` and `ProvenByJudgement` show that the verifier's comparison with one record
  of the contract is right in both directions although it looks at no transaction but the ones named. A proof stays a
  proof on every later chain, and two proven bundles of one request say the same (`ProvenAgree`), so a verdict
  lasts; `CheckHolds` carries this from one read of a verification to the next (`VInv`).
- `Verifier_proofs!PublishedApprovalIsWithinLimit`: no approval that was ever published exceeds the limit of
  the policy that the contract holds for its request. The gateway checks an answer against a bundle that it read
  before; `CInv` says that what it saves still passes the check.
- `RunControl_proofs!TypeCorrect`, `OneWriterHolds`, `InterruptedIsOverHolds`. The strengthening: a
  run that writes, or whose transaction is pending, holds the lock; only its own release, sent after its last
  transaction was resolved, can take it away; the age of the lock is at most the age of the
  invocation that holds it.
- `RunControl_proofs!DailyLimitHoldsAlways`: `DailyCountIsTrue` relates the lock's counter, which knows
  one day only, to the grants of every day.
- `AnchorRecovery_proofs!SearchTypeCorrect`, `SearchKeepsAnchor`, `RecoveryIsComplete`, `ScanIsLogarithmic`: for
  chains of any length. The last rests on `Halving`, the interval times the doublings so far fits into
  the chain. `Doubled` is a recursive function; that it has the values of its equation is proved from tables
  of its first values, which exist and agree because there is no least number at which they do not.
- `DecisionLog_proofs!LogInvariant`, `LogTypeCorrect`, `ExportsVerifyHolds`, `VerifiedMeansAnsweredHolds`,
  `PinFixesHistoryHolds`, `AuditorsAgreeHolds`, `HistoryVerifiesHolds`, `HonestIssuerIsNotRefusedHolds`. Entry hashes make
  a chain, so two chains that agree in one hash agree in everything before it. That fixes the past of
  an export, of an edited or spliced proof and of a witnessed one alike. `LedgerInv`: every database is such a
  chain, signed with its key, of entries that were legal where they stand. The checkpoint of whatever is presented
  was signed by the issuer, and its head hash fixes the entries, so what passes the examination is the beginning of
  a database (`FineIsExport`), whatever was spliced or edited.
  `WitnessInv`: every receipt attests the beginning of a database that also begins as every earlier receipt of the
  issuer says, and is longer than they are (`Attests`). A fork of two databases stays possible, and what was
  witnessed stays on one side of it. `Ordered`, that an issuer's rows can be listed in their order among
  those of others, is what `history` needs.
- `TransferJournal_proofs!TypeCorrect`, `OneTransferHolds`, `VerifiedMeansMovedHolds`,
  `JournalOnlyAdvancesHolds`. One invocation reserves a file (`OneHolder`), and how far it is, its file and
  its transaction agree (`HolderJournals`); a file names only what was sent (`FilesAreTrue`); who is
  about to write it remembers what it says (`MemoryIsOfFile`); the chain takes one transaction for a
  nonce (`NonceIsUsedOnce`), so two processes that verify one file write the same.
- `EvidenceReview_proofs!ReviewTypeCorrect`, `ServedPolicyIsStoredHolds`, `ReportIsOfWhatIsShownHolds`: a
  panel has at most one answer that it will show, about what is on the screen (`PaneAgrees`).
- `Workspace_proofs!WorkspaceTypeCorrect`, `DetailIsOfSelectionHolds`, `ScreenNeverGoesBackHolds`. One loop
  loads the selected case (`OneLoop`) and one list request is the latest (`LatestIsOne`); neither the
  screen nor what it waits for is ahead of the server, nor the screen of what it waits for
  (`DetailIsPast`, `ListIsPast`).

Only model-checked: the liveness properties `SettledEventually`, `SearchEnds`, `ProcessingIsFollowed`,
`RunEnds` and `StartIsRetried`, because the prover handles neither fairness nor `ENABLED`; and the three
properties that runs show to be violated.

## 5. What is not modelled, and the plan

Not modelled: rendering and wording; the routes of the HTTP API, which hand their call to a service;
deployment and smoke scripts other than the transfer test, which run straight through modelled
services; downloads; cryptography and canonical JSON as such; chain reorganisations, replaced
transactions of the gateway, gas; read replicas of the database; database transactions that span
midnight. The in-memory store is for tests and the local preview, one process and one call at a time;
`saveDecision` and `deleteInstitutionDecision` of the Supabase store are called by nothing, because the
gateway uses `saveCompletedBundle` where a store has it (service.ts:141).

What the models show of the code beyond the properties, and no document denies:

- Two intent files of one wallet whose transactions compete for a nonce may both become VERIFIED by the
  transaction that won: the receipt of a replacement is followed, and the balances of both agree
  with it. `OneTransferPerIntent` and backend/README.md speak of one file.
- The report of a case stays on the screen when its detail is loaded again, because the component keeps
  its key: it can be older than the records beside it, and is of the same case.
- `savePolicy` compares hashes, which leave the signature out. After a rotation of the enterprise key
  the API starts, and the gateway refuses every request (service.ts:60-63) until the row is replaced.

Next, in this order:

1. An abstract specification of a witnessed history, which only ever grows and which every auditor
   reads a beginning of, and `DecisionLog` as its implementation; one of a writer's lease, and
   `RunControl` as its implementation. Both would be stated on the invariants that are proved.
2. The action facts beneath the liveness properties: each step of a search, of a start-up or of a reload
   lowers a measure or leaves it.
3. `list` and `detail` of the case service, which make one answer of several reads.
