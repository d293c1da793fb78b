--------------------------- MODULE TransferJournal ---------------------------
(***************************************************************************)
(* The token transfer smoke test (backend/scripts/sepolia-usdc-smoke.ts)   *)
(* and its intent files (usdcSmokeIntent.ts): invocations of the script,   *)
(* one process each, that send one transfer and journal it in a file, and  *)
(* invocations with --verify that resume from such a file.  A process may  *)
(* end at every step: an error of the RPC node, a timeout, a crash.        *)
(*                                                                         *)
(* A transaction is named by the process that signed it.  Transactions of  *)
(* the same wallet that no invocation signed are named by Others: they may *)
(* take the nonce of a transaction of ours (a repriced or cancelled one).  *)
(* A transaction that was sent stays valid until its nonce is used, which  *)
(* it may never be: being dropped by a node is no action.                  *)
(*                                                                         *)
(* Left out: the checks of arguments, of the wallet file, of the chain and *)
(* of the gas balance, which end the process before it has done anything.  *)
(***************************************************************************)
EXTENDS Integers, FiniteSets

CONSTANTS
  Runs,          \* invocations that send a transfer
  Verifiers,     \* invocations with --verify
  Others,        \* further transactions of the wallet
  Journals,      \* intent files
  Amount,        \* the amount of every transfer
  StartBalance,  \* what the sender holds at first
  MaxBalance,    \* bound: what an account can hold
  MaxForeign,    \* bound: movements of the token that the wallet has no part in
  None           \* absent

Processes == Runs \cup Verifiers
Hashes == Runs \cup Others
Accounts == {"sender", "recipient"}
Balances == 0 .. MaxBalance

ASSUME ProcessesAssumption == Runs \cap Verifiers = {} /\ Runs \cap Others = {}
ASSUME AmountsAssumption ==
  Amount \in Nat \ {0} /\ StartBalance \in Nat /\ MaxBalance \in Nat /\ MaxForeign \in Nat

VARIABLES
  file,      \* the intent files
  pc,        \* what a process does next
  path,      \* the intent file it was given
  mine,      \* `intent': the record in its memory
  after,     \* the balances it read to compare
  tx,        \* the wallet's transactions: nonce, do they transfer Amount, outcome
  mined,     \* the wallet's nonce: the number of its transactions in the chain
  balance,   \* the token's balances
  foreign,   \* how often they moved without the wallet
  reservedAt \* history: the wallet's nonce when a file was created

procVars == <<pc, path, mine, after>>
chainVars == <<tx, mined, balance, foreign>>
vars == <<file, procVars, chainVars, reservedAt>>

Unread == [a \in Accounts |-> None]
\* "EMPTY" is a file that was created and not written; intentSchema refuses it.
Statuses == {"EMPTY", "PENDING", "BROADCAST", "VERIFIED"}
NewIntent == [status |-> "PENDING", hash |-> None, mined |-> None, before |-> Unread]
Intents == [status : Statuses, hash : Runs \cup {None}, mined : Hashes \cup {None},
            before : [Accounts -> Nat \cup {None}]]
Transactions == [nonce : Nat, moves : BOOLEAN, outcome : {"sent", "success", "reverted"}]

ASSUME NoneAssumption ==
  None \notin Processes \cup Hashes \cup Journals \cup Int \cup Intents \cup Transactions

Stages == {"idle", "reading", "reserving", "writing", "sending", "sent",
           "waiting", "comparing", "ended"}

Init ==
  /\ file = [j \in Journals |-> None]
  /\ pc = [p \in Processes |-> "idle"]
  /\ path = [p \in Processes |-> None]
  /\ mine = [p \in Processes |-> NewIntent]
  /\ after = [p \in Processes |-> Unread]
  /\ tx = [h \in Hashes |-> None]
  /\ mined = 0
  /\ balance = [sender |-> StartBalance, recipient |-> 0]
  /\ foreign = 0
  /\ reservedAt = [j \in Journals |-> 0]

Goto(p, stage) == pc' = [pc EXCEPT ![p] = stage]

\* Its memory goes with the process.
Ends(p) ==
  /\ Goto(p, "ended")
  /\ mine' = [mine EXCEPT ![p] = NewIntent]
  /\ after' = [after EXCEPT ![p] = Unread]

\* At any await: what the process has done stays done.
Dies(p) ==
  /\ pc[p] \notin {"idle", "ended"}
  /\ Ends(p)
  /\ UNCHANGED <<file, path, chainVars, reservedAt>>

-----------------------------------------------------------------------------
(* sending                                                                  *)

Begin(p, j) ==
  /\ pc[p] = "idle"
  /\ Goto(p, "reading")
  /\ path' = [path EXCEPT ![p] = j]
  /\ UNCHANGED <<file, mine, after, chainVars, reservedAt>>

\* The balances are read by concurrent calls.
ReadBefore(p, a) ==
  /\ pc[p] = "reading" /\ mine[p].before[a] = None
  /\ mine' = [mine EXCEPT ![p].before[a] = balance[a]]
  /\ UNCHANGED <<file, pc, path, after, chainVars, reservedAt>>

BothRead(reads) == \A a \in Accounts : reads[a] # None

\* Too small a balance ends the process, here or in the simulation.
Simulate(p) ==
  /\ pc[p] = "reading" /\ BothRead(mine[p].before)
  /\ IF mine[p].before["sender"] < Amount \/ balance["sender"] < Amount THEN Ends(p)
     ELSE Goto(p, "reserving") /\ UNCHANGED <<mine, after>>
  /\ UNCHANGED <<file, path, chainVars, reservedAt>>

\* (mutant) The file is opened without the flag 'wx'.
ReserveAnyway(p) ==
  /\ pc[p] = "reserving"
  /\ Goto(p, "writing")
  /\ file' = [file EXCEPT ![path[p]] = [NewIntent EXCEPT !.status = "EMPTY"]]
  /\ reservedAt' = [reservedAt EXCEPT ![path[p]] = mined]
  /\ UNCHANGED <<path, mine, after, chainVars>>

\* reserveSmokeIntent: with the flag 'wx' the file is created, or the call fails.
Reserve(p) ==
  /\ pc[p] = "reserving"
  /\ \/ /\ file[path[p]] = None
        /\ Goto(p, "writing")
        /\ file' = [file EXCEPT ![path[p]] = [NewIntent EXCEPT !.status = "EMPTY"]]
        /\ reservedAt' = [reservedAt EXCEPT ![path[p]] = mined]
        /\ UNCHANGED <<mine, after>>
     \/ file[path[p]] # None /\ Ends(p) /\ UNCHANGED <<file, reservedAt>>
  /\ UNCHANGED <<path, chainVars>>

WriteIntent(p) ==
  /\ pc[p] = "writing"
  /\ file' = [file EXCEPT ![path[p]] = mine[p]]
  /\ Goto(p, "sending")
  /\ UNCHANGED <<path, mine, after, chainVars, reservedAt>>

\* Not yet used by a transaction in the chain: the nonce of one that was sent
\* before, or the next after all of them.
FreeNonces ==
  {n \in mined .. mined + Cardinality(Hashes) :
     n = mined \/ \E h \in Hashes : tx[h] # None /\ tx[h].nonce \in {n - 1, n}}

Signed(n, moves) == [nonce |-> n, moves |-> moves, outcome |-> "sent"]

\* writeContract asks for the nonce, signs and sends: another transaction of the
\* wallet may have the same nonce.  The answer may be lost.
Broadcast(p) ==
  /\ pc[p] = "sending"
  /\ \E n \in FreeNonces : tx' = [tx EXCEPT ![p] = Signed(n, TRUE)]
  /\ (Goto(p, "sent") /\ UNCHANGED <<mine, after>>) \/ Ends(p)
  /\ UNCHANGED <<file, path, mined, balance, foreign, reservedAt>>

\* saveSmokeIntent: a new file takes the place of the old one.
Save(p, intent) == file' = [file EXCEPT ![path[p]] = intent]

\* (mutant) The hash is written with the result only.
RecordNothing(p) ==
  /\ pc[p] = "sent"
  /\ mine' = [mine EXCEPT ![p].hash = p]
  /\ Goto(p, "waiting")
  /\ UNCHANGED <<file, path, after, chainVars, reservedAt>>

Record(p) ==
  /\ pc[p] = "sent"
  /\ mine' = [mine EXCEPT ![p].status = "BROADCAST", ![p].hash = p]
  /\ Save(p, mine'[p])
  /\ Goto(p, "waiting")
  /\ UNCHANGED <<path, after, chainVars, reservedAt>>

-----------------------------------------------------------------------------
(* verifying: the end of a sending process, or the whole of another         *)

\* Without a hash in the file the process ends at once.
Resume(p, j) ==
  /\ pc[p] = "idle"
  /\ file[j] # None /\ file[j].status # "EMPTY" /\ file[j].hash # None
  /\ Goto(p, "waiting")
  /\ path' = [path EXCEPT ![p] = j]
  /\ mine' = [mine EXCEPT ![p] = file[j]]
  /\ UNCHANGED <<file, after, chainVars, reservedAt>>

\* waitForTransactionReceipt follows a transaction that took the nonce of ours.
ReceiptsFor(h) ==
  {m \in Hashes : tx[m] # None /\ tx[m].outcome # "sent" /\ tx[m].nonce = tx[h].nonce}

\* (mutant) The status of the receipt and its event are not looked at.
AnyReceipt(m) == TRUE

\* The receipt succeeded and has the Transfer event of the intent.
VerifyUsdcTransferReceipt(m) == tx[m].outcome = "success" /\ tx[m].moves

Receipt(p) ==
  /\ pc[p] = "waiting"
  /\ \E m \in ReceiptsFor(mine[p].hash) :
       \/ /\ VerifyUsdcTransferReceipt(m)
          /\ mine' = [mine EXCEPT ![p].mined = m]
          /\ Goto(p, "comparing")
          /\ UNCHANGED after
       \/ ~VerifyUsdcTransferReceipt(m) /\ Ends(p)
  /\ UNCHANGED <<file, path, chainVars, reservedAt>>

ReadAfter(p, a) ==
  /\ pc[p] = "comparing" /\ after[p][a] = None
  /\ after' = [after EXCEPT ![p][a] = balance[a]]
  /\ UNCHANGED <<file, pc, path, mine, chainVars, reservedAt>>

DeltaMatches(p) ==
  /\ mine[p].before["sender"] - after[p]["sender"] = Amount
  /\ after[p]["recipient"] - mine[p].before["recipient"] = Amount

\* Another transfer in between makes the check fail.
Compare(p) ==
  /\ pc[p] = "comparing" /\ BothRead(after[p])
  /\ Ends(p)
  /\ IF DeltaMatches(p) THEN Save(p, [mine[p] EXCEPT !.status = "VERIFIED"]) ELSE UNCHANGED file
  /\ UNCHANGED <<path, chainVars, reservedAt>>

-----------------------------------------------------------------------------
(* the chain                                                                *)

\* The owner sends another transaction from the wallet, over one that is not yet
\* in the chain or after all of them.
OwnerSends(o) ==
  /\ tx[o] = None
  /\ \E n \in FreeNonces, moves \in BOOLEAN : tx' = [tx EXCEPT ![o] = Signed(n, moves)]
  /\ UNCHANGED <<file, procVars, mined, balance, foreign, reservedAt>>

\* A transfer reverts when the sender holds too little.
Mine(h) ==
  LET fails == tx[h].moves /\ balance["sender"] < Amount IN
  /\ tx[h] # None /\ tx[h].outcome = "sent" /\ tx[h].nonce = mined
  /\ balance["recipient"] + Amount <= MaxBalance
  /\ tx' = [tx EXCEPT ![h].outcome = IF fails THEN "reverted" ELSE "success"]
  /\ balance' = IF fails \/ ~tx[h].moves THEN balance
                ELSE [balance EXCEPT !["sender"] = @ - Amount, !["recipient"] = @ + Amount]
  /\ mined' = mined + 1
  /\ UNCHANGED <<file, procVars, foreign, reservedAt>>

\* Others pay either account, or the recipient pays someone.
Foreign(a, n) ==
  /\ foreign < MaxForeign
  /\ foreign' = foreign + 1
  /\ n > balance[a] \/ (a = "recipient" /\ n < balance[a])
  /\ balance' = [balance EXCEPT ![a] = n]
  /\ UNCHANGED <<file, procVars, tx, mined, reservedAt>>

RunStep(p) ==
  \/ \E j \in Journals : Begin(p, j)
  \/ \E a \in Accounts : ReadBefore(p, a)
  \/ Simulate(p) \/ Reserve(p) \/ WriteIntent(p) \/ Broadcast(p) \/ Record(p)

VerifyStep(p) == Receipt(p) \/ (\E a \in Accounts : ReadAfter(p, a)) \/ Compare(p) \/ Dies(p)

ChainStep ==
  \/ \E o \in Others : OwnerSends(o)
  \/ \E h \in Hashes : Mine(h)
  \/ \E a \in Accounts, n \in Balances : Foreign(a, n)

Next ==
  \/ \E p \in Runs : RunStep(p)
  \/ \E p \in Verifiers, j \in Journals : Resume(p, j)
  \/ \E p \in Processes : VerifyStep(p)
  \/ ChainStep

Spec == Init /\ [][Next]_vars

-----------------------------------------------------------------------------
(* properties                                                               *)

\* Types: a file is absent or an intent, a transaction is unsent or has its nonce.
TransferTypeOK ==
  /\ file \in [Journals -> Intents \cup {None}]
  /\ pc \in [Processes -> Stages]
  /\ path \in [Processes -> Journals \cup {None}]
  /\ mine \in [Processes -> Intents]
  /\ after \in [Processes -> [Accounts -> Nat \cup {None}]]
  /\ tx \in [Hashes -> Transactions \cup {None}]
  /\ mined \in Nat
  /\ balance \in [Accounts -> Nat]
  /\ foreign \in Nat
  /\ reservedAt \in [Journals -> Nat]

\* However often the script is started for one intent file, and however its
\* processes end, one transfer at most was sent for it, and the file names that
\* transfer unless its process ended between the broadcast and the save: then the
\* file has no hash, and stays (backend/README.md: "refuses to send again while
\* that file exists").
OneTransferPerIntent ==
  \A p \in Runs : tx[p] # None =>
    /\ \A q \in Runs : tx[q] # None /\ path[q] = path[p] => q = p
    /\ file[path[p]] # None
    /\ \/ file[path[p]].hash = p
       \/ file[path[p]].status = "PENDING" /\ pc[p] \in {"sent", "ended"}

\* VERIFIED is said of a transfer that is in the chain, that succeeded, that took
\* the nonce of the recorded one, and that is not older than the intent.
VerifiedMeansMoved ==
  \A j \in Journals : file[j] # None /\ file[j].status = "VERIFIED" =>
    LET m == file[j].mined IN
    /\ tx[m].moves /\ tx[m].outcome = "success"
    /\ tx[m].nonce = tx[file[j].hash].nonce
    /\ tx[m].nonce >= reservedAt[j]

Rank(intent) ==
  IF intent = None THEN 0
  ELSE CASE intent.status = "EMPTY" -> 1 [] intent.status = "PENDING" -> 2
         [] intent.status = "BROADCAST" -> 3 [] intent.status = "VERIFIED" -> 4

\* Sending and verifying processes write the same file with what each remembers of
\* it: no write takes the journal back, changes the transaction it names, or
\* changes a verified journal at all.
JournalOnlyAdvances ==
  [][\A j \in Journals :
       /\ Rank(file'[j]) >= Rank(file[j])
       /\ file[j] # None /\ file[j].hash # None => file'[j].hash = file[j].hash
       /\ Rank(file[j]) = 4 => file'[j] = file[j]]_vars
=============================================================================
