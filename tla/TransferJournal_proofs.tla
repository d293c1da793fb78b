------------------------ MODULE TransferJournal_proofs ------------------------
(***************************************************************************)
(* Proofs about TransferJournal, for any number of invocations, intent     *)
(* files, foreign transactions and amounts.                                *)
(*                                                                         *)
(* The inductive invariant, besides the types:                             *)
(*   OneHolder       a file was reserved by one invocation at most, which  *)
(*                   is the only one that may send for it;                 *)
(*   HolderJournals  how far that invocation is, its file and its          *)
(*                   transaction agree;                                    *)
(*   FilesAreTrue    what a file names was sent, and is as it says;        *)
(*   MemoryIsOfFile  who waits for a receipt, or compares, remembers what  *)
(*                   the file says;                                        *)
(*   NonceIsUsedOnce the chain takes one transaction for a nonce.          *)
(* OneTransferPerIntent is the first two; VerifiedMeansMoved the third;    *)
(* that the journal only advances needs all, the last for two processes    *)
(* that verify one file and must write the same.                           *)
(***************************************************************************)
EXTENDS TransferJournal, TLAPS

Holds(p) == pc[p] \in {"writing", "sending"} \/ tx[p] # None

OneHolder ==
  /\ \A p, q \in Runs : Holds(p) /\ Holds(q) /\ path[p] = path[q] => p = q
  /\ \A p \in Runs : Holds(p) => path[p] \in Journals /\ file[path[p]] # None

Unsent == {"idle", "reading", "reserving", "writing", "sending"}

HolderJournals ==
  \A p \in Runs :
    /\ pc[p] # "idle" => path[p] \in Journals
    /\ pc[p] \in Unsent => tx[p] = None
    /\ pc[p] \in Unsent \cup {"sent"} => mine[p].status = "PENDING" /\ mine[p].hash = None
    /\ pc[p] = "writing" => file[path[p]].status = "EMPTY"
    /\ pc[p] = "sending" => file[path[p]].status = "PENDING"
    /\ pc[p] = "sent" => tx[p] # None /\ file[path[p]].status = "PENDING"
    /\ tx[p] # None =>
         /\ tx[p].nonce >= reservedAt[path[p]]
         /\ \/ file[path[p]].hash = p
            \/ file[path[p]].status = "PENDING" /\ pc[p] \in {"sent", "ended"}

Confirms(m, h) ==
  /\ tx[m] # None /\ tx[m].outcome = "success" /\ tx[m].moves
  /\ tx[m].nonce = tx[h].nonce

FilesAreTrue ==
  \A j \in Journals : file[j] # None =>
    /\ file[j].status \in {"EMPTY", "PENDING"} <=> file[j].hash = None
    /\ file[j].hash # None =>
         tx[file[j].hash] # None /\ tx[file[j].hash].nonce >= reservedAt[j]
    /\ file[j].status = "VERIFIED" =>
         file[j].mined \in Hashes /\ Confirms(file[j].mined, file[j].hash)

MemoryIsOfFile ==
  \A p \in Processes : pc[p] \in {"waiting", "comparing"} =>
    /\ path[p] \in Journals /\ file[path[p]] # None
    /\ mine[p].hash # None
    /\ mine[p].hash = file[path[p]].hash /\ mine[p].before = file[path[p]].before
    /\ pc[p] = "comparing" =>
         mine[p].mined \in Hashes /\ Confirms(mine[p].mined, mine[p].hash)

NonceIsUsedOnce ==
  /\ \A h \in Hashes : tx[h] # None /\ tx[h].outcome # "sent" => tx[h].nonce < mined
  /\ \A g, h \in Hashes :
       /\ tx[g] # None /\ tx[g].outcome # "sent"
       /\ tx[h] # None /\ tx[h].outcome # "sent"
       /\ tx[g].nonce = tx[h].nonce
       => g = h
  /\ \A j \in Journals : reservedAt[j] <= mined

IInv ==
  /\ TransferTypeOK
  /\ OneHolder
  /\ HolderJournals
  /\ FilesAreTrue
  /\ MemoryIsOfFile
  /\ NonceIsUsedOnce

\* An intent stays one when a field is given a value of its type.
LEMMA IntentUpdate ==
  ASSUME NEW m \in Intents, NEW b \in [Accounts -> Nat \cup {None}],
         NEW s \in Statuses, NEW h \in Runs \cup {None}, NEW d \in Hashes \cup {None}
  PROVE  /\ [m EXCEPT !.before = b] \in Intents
         /\ [m EXCEPT !.status = s] \in Intents
         /\ [m EXCEPT !.status = s, !.hash = h] \in Intents
         /\ [m EXCEPT !.mined = d] \in Intents
  BY DEF Intents

\* A process that ends leaves well-typed memory.
LEMMA EndsType ==
  ASSUME TransferTypeOK, NEW p \in Processes, Ends(p)
  PROVE  /\ pc' \in [Processes -> Stages]
         /\ mine' \in [Processes -> Intents]
         /\ after' \in [Processes -> [Accounts -> Nat \cup {None}]]
<1>1. NewIntent \in Intents
  BY DEF NewIntent, Intents, Statuses, Unread
<1>2. Unread \in [Accounts -> Nat \cup {None}]
  BY DEF Unread
<1>3. QED
  BY <1>1, <1>2 DEF TransferTypeOK, Ends, Goto, Stages

\* One lemma per action: it preserves the invariant.  An invocation that begins
\* holds no file.
LEMMA BeginIInv ==
  ASSUME IInv, NEW p \in Runs, NEW j \in Journals, Begin(p, j)
  PROVE  IInv'
<1> USE NoneAssumption, ProcessesAssumption, AmountsAssumption
    DEF IInv, TransferTypeOK, Intents, Statuses, Stages, Transactions, Accounts, Unread,
        NewIntent, Processes, Hashes, Begin, Goto, chainVars
<1>1. TransferTypeOK'
  BY DEF TransferTypeOK
<1>2. OneHolder'
  BY DEF OneHolder, Holds, HolderJournals, Unsent
<1>3. HolderJournals'
  BY DEF HolderJournals, Unsent
<1>4. FilesAreTrue'
  BY DEF FilesAreTrue, Confirms
<1>5. MemoryIsOfFile'
  BY DEF MemoryIsOfFile, Confirms
<1>6. NonceIsUsedOnce'
  BY DEF NonceIsUsedOnce
<1>7. QED
  BY <1>1, <1>2, <1>3, <1>4, <1>5, <1>6

\* The balances go into the memory of a process that has sent nothing.
LEMMA ReadBeforeIInv ==
  ASSUME IInv, NEW p \in Runs, NEW a \in Accounts, ReadBefore(p, a)
  PROVE  IInv'
<1> USE NoneAssumption, ProcessesAssumption, AmountsAssumption
    DEF IInv, TransferTypeOK, Intents, Statuses, Stages, Transactions, Accounts, Unread,
        NewIntent, Processes, Hashes, ReadBefore, Goto, chainVars
<1>1. TransferTypeOK'
  <2> DEFINE b == [mine[p].before EXCEPT ![a] = balance[a]]
  <2>1. b \in [Accounts -> Nat \cup {None}]
    OBVIOUS
  <2>2. mine[p] \in Intents /\ mine' = [mine EXCEPT ![p] = [mine[p] EXCEPT !.before = b]]
    OBVIOUS
  <2> HIDE DEF b
  <2>3. [mine[p] EXCEPT !.before = b] \in Intents
    BY ONLY <2>1, <2>2, IntentUpdate DEF Intents
  <2>4. mine' \in [Processes -> Intents]
    BY ONLY <2>2, <2>3, TransferTypeOK DEF TransferTypeOK
  <2>5. QED
    BY <2>4
<1>2. OneHolder'
  BY DEF OneHolder, Holds
<1>3. HolderJournals'
  BY DEF HolderJournals, Unsent
<1>4. FilesAreTrue'
  BY DEF FilesAreTrue, Confirms
<1>5. MemoryIsOfFile'
  BY DEF MemoryIsOfFile, Confirms
<1>6. NonceIsUsedOnce'
  BY DEF NonceIsUsedOnce
<1>7. QED
  BY <1>1, <1>2, <1>3, <1>4, <1>5, <1>6

\* A process that goes on to reserve holds no file yet.
LEMMA SimulateIInv ==
  ASSUME IInv, NEW p \in Runs, Simulate(p)
  PROVE  IInv'
<1> USE NoneAssumption, ProcessesAssumption, AmountsAssumption
    DEF IInv, TransferTypeOK, Intents, Statuses, Stages, Transactions, Accounts, Unread,
        NewIntent, Processes, Hashes, Simulate, Ends, Goto, chainVars
<1>1. TransferTypeOK'
  <2>1. CASE Ends(p)
    BY <2>1, EndsType
  <2>2. CASE Goto(p, "reserving") /\ UNCHANGED <<mine, after>>
    BY <2>2
  <2>3. QED
    BY <2>1, <2>2
<1>2. OneHolder'
  BY DEF OneHolder, Holds
<1>3. HolderJournals'
  BY DEF HolderJournals, Unsent
<1>4. FilesAreTrue'
  BY DEF FilesAreTrue, Confirms
<1>5. MemoryIsOfFile'
  BY DEF MemoryIsOfFile, Confirms
<1>6. NonceIsUsedOnce'
  BY DEF NonceIsUsedOnce
<1>7. QED
  BY <1>1, <1>2, <1>3, <1>4, <1>5, <1>6

\* The new holder is alone: who held the file before would have left it there.
LEMMA ReserveIInv ==
  ASSUME IInv, NEW p \in Runs, Reserve(p)
  PROVE  IInv'
<1> USE NoneAssumption, ProcessesAssumption, AmountsAssumption
    DEF IInv, TransferTypeOK, Intents, Statuses, Stages, Transactions, Accounts, Unread,
        NewIntent, Processes, Hashes, Reserve, Ends, Goto, chainVars
<1> DEFINE Creates ==
      /\ file[path[p]] = None
      /\ file' = [file EXCEPT ![path[p]] = [NewIntent EXCEPT !.status = "EMPTY"]]
      /\ reservedAt' = [reservedAt EXCEPT ![path[p]] = mined]
      /\ Goto(p, "writing") /\ UNCHANGED <<mine, after, path, chainVars>>
<1> DEFINE Refused == Ends(p) /\ UNCHANGED <<file, reservedAt, path, chainVars>>
<1>0. (Creates \/ Refused) /\ pc[p] = "reserving" /\ path[p] \in Journals /\ tx[p] = None
  BY DEF HolderJournals, Unsent
<1>c. [NewIntent EXCEPT !.status = "EMPTY"] \in Intents
  OBVIOUS
<1>1. TransferTypeOK'
  <2>1. CASE Creates
    BY <2>1, <1>0, <1>c DEF TransferTypeOK
  <2>2. CASE Refused
    BY <2>2, <1>0, EndsType DEF TransferTypeOK
  <2>3. QED
    BY <2>1, <2>2, <1>0
<1>2. OneHolder'
  <2>1. CASE Creates
    BY <2>1, <1>0 DEF OneHolder, Holds
  <2>2. CASE Refused
    BY <2>2, <1>0 DEF OneHolder, Holds
  <2>3. QED
    BY <2>1, <2>2, <1>0
<1>3. HolderJournals'
  <2>1. CASE Creates
    BY <2>1, <1>0 DEF HolderJournals, OneHolder, Holds, Unsent
  <2>2. CASE Refused
    BY <2>2, <1>0 DEF HolderJournals, OneHolder, Holds, Unsent
  <2>3. QED
    BY <2>1, <2>2, <1>0
<1>4. FilesAreTrue'
  BY DEF FilesAreTrue, Confirms
<1>5. MemoryIsOfFile'
  BY DEF MemoryIsOfFile, Confirms
<1>6. NonceIsUsedOnce'
  BY DEF NonceIsUsedOnce
<1>7. QED
  BY <1>1, <1>2, <1>3, <1>4, <1>5, <1>6

\* The holder writes PENDING over its own empty file.
LEMMA WriteIntentIInv ==
  ASSUME IInv, NEW p \in Runs, WriteIntent(p)
  PROVE  IInv'
<1> USE NoneAssumption, ProcessesAssumption, AmountsAssumption
    DEF IInv, TransferTypeOK, Intents, Statuses, Stages, Transactions, Accounts, Unread,
        NewIntent, Processes, Hashes, WriteIntent, Goto, chainVars
<1>0. /\ path[p] \in Journals /\ mine[p] \in Intents
      /\ mine[p].status = "PENDING" /\ mine[p].hash = None
      /\ tx[p] = None /\ file[path[p]] # None
      /\ file[path[p]].status = "EMPTY" /\ file[path[p]].hash = None
      /\ \A q \in Runs \ {p} : Holds(q) => path[q] # path[p]
  BY DEF HolderJournals, Unsent, OneHolder, Holds, FilesAreTrue
<1>1. TransferTypeOK'
  BY DEF TransferTypeOK
<1>2. OneHolder'
  BY DEF OneHolder, Holds
<1>3. HolderJournals'
  BY <1>0 DEF HolderJournals, Unsent, Holds
<1>4. FilesAreTrue'
  BY <1>0 DEF FilesAreTrue, Confirms
<1>5. MemoryIsOfFile'
  BY <1>0 DEF MemoryIsOfFile, Confirms
<1>6. NonceIsUsedOnce'
  BY DEF NonceIsUsedOnce
<1>7. QED
  BY <1>1, <1>2, <1>3, <1>4, <1>5, <1>6

\* The transaction is new, and its nonce is not below the one at the reservation.
LEMMA BroadcastIInv ==
  ASSUME IInv, NEW p \in Runs, Broadcast(p)
  PROVE  IInv'
<1> USE NoneAssumption, ProcessesAssumption, AmountsAssumption
    DEF IInv, TransferTypeOK, Intents, Statuses, Stages, Transactions, Accounts, Unread,
        NewIntent, Processes, Hashes, Broadcast, Ends, FreeNonces, Signed, Goto
<1>a. PICK n \in FreeNonces : tx' = [tx EXCEPT ![p] = Signed(n, TRUE)]
  OBVIOUS
<1>b. n \in Nat /\ n >= mined /\ p \in Hashes /\ p \in Processes
  OBVIOUS
<1>c. Signed(n, TRUE) \in Transactions /\ Signed(n, TRUE) # None
  <2>1. Signed(n, TRUE) \in Transactions
    BY ONLY <1>b DEF Signed, Transactions
  <2>2. None \notin Transactions
    BY ONLY NoneAssumption
  <2>3. QED
    BY ONLY <2>1, <2>2
<1>d. (Goto(p, "sent") /\ UNCHANGED <<mine, after>>) \/ Ends(p)
  OBVIOUS
<1>e. /\ tx[p] = None /\ path[p] \in Journals /\ file[path[p]] # None
      /\ file[path[p]].status = "PENDING" /\ reservedAt[path[p]] <= mined
      /\ \A q \in Runs \ {p} : Holds(q) => path[q] # path[p]
  BY DEF HolderJournals, Unsent, OneHolder, Holds, NonceIsUsedOnce
<1>f. \A h \in Hashes : tx[h] # None => h # p /\ tx'[h] = tx[h]
  BY <1>a, <1>e
<1>1. TransferTypeOK'
  <2>1. tx' \in [Hashes -> Transactions \cup {None}]
    BY ONLY <1>a, <1>c, TransferTypeOK DEF TransferTypeOK
  <2>2. CASE Ends(p)
    BY <2>1, <2>2, EndsType
  <2>3. CASE Goto(p, "sent") /\ UNCHANGED <<mine, after>>
    BY <2>1, <2>3
  <2>4. QED
    BY <1>d, <2>2, <2>3
<1>2. OneHolder'
  BY DEF OneHolder, Holds
<1>3. HolderJournals'
  <2>1. tx'[p] # None /\ tx'[p].nonce >= reservedAt[path[p]]
    BY <1>a, <1>b, <1>c, <1>e
  <2>2. /\ pc'[p] \in {"sent", "ended"}
        /\ \A q \in Processes \ {p} : pc'[q] = pc[q] /\ mine'[q] = mine[q]
    BY <1>b, <1>d
  <2>3. pc'[p] = "sent" => mine'[p] = mine[p]
    BY <1>d
  <2>4. \A q \in Runs \ {p} : tx'[q] = tx[q]
    BY <1>a
  <2>5. file' = file /\ path' = path /\ reservedAt' = reservedAt
    OBVIOUS
  <2> QED
    BY ONLY HolderJournals, <1>e, <2>1, <2>2, <2>3, <2>4, <2>5, <1>b,
            pc[p] = "sending"
        DEF HolderJournals, Unsent, Processes
<1>4. FilesAreTrue'
  <2>1. file' = file /\ reservedAt' = reservedAt
    OBVIOUS
  <2> QED
    BY ONLY FilesAreTrue, TransferTypeOK, <1>f, <2>1
        DEF FilesAreTrue, Confirms, TransferTypeOK, Intents, Hashes
<1>5. MemoryIsOfFile'
  <2>1. file' = file /\ path' = path
    OBVIOUS
  <2>2. \A q \in Processes : pc'[q] \in {"waiting", "comparing"} =>
          pc'[q] = pc[q] /\ mine'[q] = mine[q]
    BY <1>b, <1>d
  <2>3. \A q \in Processes : pc[q] \in {"waiting", "comparing"} =>
          tx[mine[q].hash] # None /\ mine[q].hash \in Hashes
    BY DEF MemoryIsOfFile, FilesAreTrue
  <2> QED
    BY ONLY MemoryIsOfFile, <1>f, <2>1, <2>2, <2>3 DEF MemoryIsOfFile, Confirms
<1>6. NonceIsUsedOnce'
  BY DEF NonceIsUsedOnce
<1>7. QED
  BY <1>1, <1>2, <1>3, <1>4, <1>5, <1>6

\* The file names the transaction from here on; nobody else remembers that file,
\* which had no hash.
LEMMA RecordIInv ==
  ASSUME IInv, NEW p \in Runs, Record(p)
  PROVE  IInv'
<1> USE NoneAssumption, ProcessesAssumption, AmountsAssumption
    DEF IInv, TransferTypeOK, Intents, Statuses, Stages, Transactions, Accounts, Unread,
        NewIntent, Processes, Hashes, Record, Save, Goto, chainVars
<1> DEFINE m == [mine[p] EXCEPT !.status = "BROADCAST", !.hash = p]
<1>a. mine[p] \in Intents /\ p \in Runs /\ p \in Processes /\ p \in Hashes /\ p # None
  OBVIOUS
<1>b. m \in Intents /\ m # None
  <2>1. "BROADCAST" \in Statuses
    BY ONLY DEF Statuses
  <2>2. m \in Intents
    BY ONLY <1>a, <2>1, IntentUpdate DEF Intents
  <2>3. QED
    BY ONLY <2>2, NoneAssumption
<1>c. m.status = "BROADCAST" /\ m.hash = p /\ m.before = mine[p].before
  BY ONLY <1>a DEF Intents
<1>d. mine' = [mine EXCEPT ![p] = m] /\ pc' = [pc EXCEPT ![p] = "waiting"]
  OBVIOUS
<1>e. /\ path[p] \in Journals /\ tx[p] # None /\ tx[p].nonce >= reservedAt[path[p]]
      /\ file[path[p]] # None
      /\ file[path[p]].status = "PENDING" /\ file[path[p]].hash = None
      /\ \A q \in Runs \ {p} : Holds(q) => path[q] # path[p]
  BY DEF HolderJournals, Unsent, OneHolder, Holds, FilesAreTrue
<1>f. file' = [file EXCEPT ![path[p]] = m]
  BY ONLY <1>a, <1>d, Record(p), TransferTypeOK DEF TransferTypeOK, Record, Save
<1>g. path' = path /\ tx' = tx /\ reservedAt' = reservedAt /\ pc[p] = "sent"
  OBVIOUS
<1> HIDE DEF m
<1>1. TransferTypeOK'
  <2>1. /\ file' \in [Journals -> Intents \cup {None}] /\ mine' \in [Processes -> Intents]
        /\ pc' \in [Processes -> Stages]
    BY ONLY TransferTypeOK, <1>b, <1>d, <1>f DEF TransferTypeOK, Stages
  <2>2. QED
    BY <2>1
<1>2. OneHolder'
  BY ONLY OneHolder, TransferTypeOK, <1>a, <1>b, <1>c, <1>d, <1>e, <1>f, <1>g
     DEF OneHolder, Holds, TransferTypeOK
<1>3. HolderJournals'
  BY ONLY HolderJournals, TransferTypeOK, <1>a, <1>b, <1>c, <1>d, <1>e, <1>f, <1>g
     DEF HolderJournals, Unsent, Holds, TransferTypeOK
<1>4. FilesAreTrue'
  BY ONLY FilesAreTrue, TransferTypeOK, <1>a, <1>b, <1>c, <1>d, <1>e, <1>f, <1>g
     DEF FilesAreTrue, Confirms, TransferTypeOK
<1>5. MemoryIsOfFile'
  BY ONLY MemoryIsOfFile, TransferTypeOK, <1>a, <1>b, <1>c, <1>d, <1>e, <1>f, <1>g
     DEF MemoryIsOfFile, Confirms, TransferTypeOK
<1>6. NonceIsUsedOnce'
  BY DEF NonceIsUsedOnce
<1>7. QED
  BY <1>1, <1>2, <1>3, <1>4, <1>5, <1>6

\* The memory is the file.
LEMMA ResumeIInv ==
  ASSUME IInv, NEW p \in Verifiers, NEW j \in Journals, Resume(p, j)
  PROVE  IInv'
<1> USE NoneAssumption, ProcessesAssumption, AmountsAssumption
    DEF IInv, TransferTypeOK, Intents, Statuses, Stages, Transactions, Accounts, Unread,
        NewIntent, Processes, Hashes, Resume, Goto, chainVars
<1>1. TransferTypeOK'
  BY DEF TransferTypeOK
<1>2. OneHolder'
  BY DEF OneHolder, Holds
<1>3. HolderJournals'
  BY DEF HolderJournals, Unsent
<1>4. FilesAreTrue'
  BY DEF FilesAreTrue, Confirms
<1>5. MemoryIsOfFile'
  BY DEF MemoryIsOfFile, Confirms
<1>6. NonceIsUsedOnce'
  BY DEF NonceIsUsedOnce
<1>7. QED
  BY <1>1, <1>2, <1>3, <1>4, <1>5, <1>6

\* What is found in the chain confirms the recorded transaction.
LEMMA ReceiptIInv ==
  ASSUME IInv, NEW p \in Processes, Receipt(p)
  PROVE  IInv'
<1> USE NoneAssumption, ProcessesAssumption, AmountsAssumption
    DEF IInv, TransferTypeOK, Intents, Statuses, Stages, Transactions, Accounts, Unread,
        NewIntent, Processes, Hashes, Receipt, Ends, ReceiptsFor, VerifyUsdcTransferReceipt,
        Goto, chainVars
<1>1. TransferTypeOK'
  <2>1. CASE Ends(p)
    BY <2>1, EndsType
  <2>2. CASE ~Ends(p)
    <3>1. PICK d \in Hashes : /\ mine' = [mine EXCEPT ![p].mined = d]
                              /\ Goto(p, "comparing") /\ after' = after
      BY <2>2
    <3>2. [mine[p] EXCEPT !.mined = d] \in Intents
      <4>1. mine[p] \in Intents
        OBVIOUS
      <4>2. QED
        BY ONLY <3>1, <4>1, IntentUpdate DEF Intents
    <3>3. mine' \in [Processes -> Intents]
      BY ONLY TransferTypeOK, <3>1, <3>2 DEF TransferTypeOK
    <3>4. QED
      BY <3>1, <3>3
  <2>3. QED
    BY <2>1, <2>2
<1>2. OneHolder'
  BY DEF OneHolder, Holds
<1>3. HolderJournals'
  BY DEF HolderJournals, Unsent
<1>4. FilesAreTrue'
  BY DEF FilesAreTrue, Confirms
<1>5. MemoryIsOfFile'
  BY DEF MemoryIsOfFile, Confirms
<1>6. NonceIsUsedOnce'
  BY DEF NonceIsUsedOnce
<1>7. QED
  BY <1>1, <1>2, <1>3, <1>4, <1>5, <1>6

\* The balances read afterwards are in no conjunct but the types.
LEMMA ReadAfterIInv ==
  ASSUME IInv, NEW p \in Processes, NEW a \in Accounts, ReadAfter(p, a)
  PROVE  IInv'
<1> USE NoneAssumption, ProcessesAssumption, AmountsAssumption
    DEF IInv, TransferTypeOK, Intents, Statuses, Stages, Transactions, Accounts, Unread,
        NewIntent, Processes, Hashes, ReadAfter, Goto, chainVars
<1>1. TransferTypeOK'
  BY DEF TransferTypeOK
<1>2. OneHolder'
  BY DEF OneHolder, Holds
<1>3. HolderJournals'
  BY DEF HolderJournals, Unsent
<1>4. FilesAreTrue'
  BY DEF FilesAreTrue, Confirms
<1>5. MemoryIsOfFile'
  BY DEF MemoryIsOfFile, Confirms
<1>6. NonceIsUsedOnce'
  BY DEF NonceIsUsedOnce
<1>7. QED
  BY <1>1, <1>2, <1>3, <1>4, <1>5, <1>6

\* VERIFIED is written with the transaction that Receipt has confirmed; another
\* process that compares remembers the same hash.
LEMMA CompareIInv ==
  ASSUME IInv, NEW p \in Processes, Compare(p)
  PROVE  IInv'
<1> USE NoneAssumption, ProcessesAssumption, AmountsAssumption
    DEF IInv, TransferTypeOK, Intents, Statuses, Stages, Transactions, Accounts, Unread,
        NewIntent, Processes, Hashes, Compare, Ends, Save, Goto, chainVars
<1> DEFINE m == [mine[p] EXCEPT !.status = "VERIFIED"]
<1>a. mine[p] \in Intents /\ "VERIFIED" \in Statuses
  OBVIOUS
<1>b. m \in Intents /\ m # None
  <2>1. m \in Intents
    BY ONLY <1>a, IntentUpdate DEF Intents
  <2>2. None \notin Intents
    BY ONLY NoneAssumption
  <2>3. QED
    BY ONLY <2>1, <2>2
<1>c. /\ m.status = "VERIFIED" /\ m.hash = mine[p].hash /\ m.before = mine[p].before
      /\ m.mined = mine[p].mined
  BY ONLY <1>a DEF Intents
<1>d. Ends(p) /\ (file' = [file EXCEPT ![path[p]] = m] \/ file' = file)
  OBVIOUS
<1>e. /\ path[p] \in Journals /\ file[path[p]] # None
      /\ mine[p].hash # None /\ mine[p].hash = file[path[p]].hash
      /\ mine[p].before = file[path[p]].before
      /\ mine[p].mined \in Hashes /\ Confirms(mine[p].mined, mine[p].hash)
  BY DEF MemoryIsOfFile
<1>f. /\ tx[mine[p].hash] # None /\ tx[mine[p].hash].nonce >= reservedAt[path[p]]
      /\ file[path[p]].status \notin {"EMPTY", "PENDING"}
  BY ONLY FilesAreTrue, <1>e DEF FilesAreTrue
<1>g. path' = path /\ tx' = tx /\ reservedAt' = reservedAt
  OBVIOUS
<1>h. /\ pc' = [pc EXCEPT ![p] = "ended"] /\ pc[p] = "comparing"
      /\ mine' = [mine EXCEPT ![p] = NewIntent]
  OBVIOUS
<1> HIDE DEF m
<1>1. TransferTypeOK'
  <2>1. file' \in [Journals -> Intents \cup {None}]
    BY ONLY TransferTypeOK, <1>b, <1>d DEF TransferTypeOK
  <2>2. QED
    BY <1>d, <2>1, EndsType
<1>2. OneHolder'
  BY ONLY OneHolder, TransferTypeOK, <1>a, <1>b, <1>c, <1>d, <1>e, <1>f, <1>g, <1>h
     DEF OneHolder, Holds, Processes, TransferTypeOK
<1>3. HolderJournals'
  BY ONLY HolderJournals, TransferTypeOK, <1>a, <1>b, <1>c, <1>d, <1>e, <1>f, <1>g, <1>h
     DEF HolderJournals, Unsent, Processes, TransferTypeOK
<1>4. FilesAreTrue'
  BY ONLY FilesAreTrue, TransferTypeOK, <1>a, <1>b, <1>c, <1>d, <1>e, <1>f, <1>g, <1>h
     DEF FilesAreTrue, Confirms, TransferTypeOK
<1>5. MemoryIsOfFile'
  BY ONLY MemoryIsOfFile, TransferTypeOK, <1>a, <1>b, <1>c, <1>d, <1>e, <1>f, <1>g, <1>h
     DEF MemoryIsOfFile, Confirms, TransferTypeOK
<1>6. NonceIsUsedOnce'
  BY DEF NonceIsUsedOnce
<1>7. QED
  BY <1>1, <1>2, <1>3, <1>4, <1>5, <1>6

\* Files and transactions stay.
LEMMA DiesIInv ==
  ASSUME IInv, NEW p \in Processes, Dies(p)
  PROVE  IInv'
<1> USE NoneAssumption, ProcessesAssumption, AmountsAssumption
    DEF IInv, TransferTypeOK, Intents, Statuses, Stages, Transactions, Accounts, Unread,
        NewIntent, Processes, Hashes, Dies, Ends, Goto, chainVars
<1>1. TransferTypeOK'
  BY DEF TransferTypeOK
<1>2. OneHolder'
  BY DEF OneHolder, Holds
<1>3. HolderJournals'
  BY DEF HolderJournals, Unsent
<1>4. FilesAreTrue'
  BY DEF FilesAreTrue, Confirms
<1>5. MemoryIsOfFile'
  BY DEF MemoryIsOfFile, Confirms
<1>6. NonceIsUsedOnce'
  BY DEF NonceIsUsedOnce
<1>7. QED
  BY <1>1, <1>2, <1>3, <1>4, <1>5, <1>6

\* A transaction that is sent is new: what files and memories name stays.
LEMMA OwnerSendsIInv ==
  ASSUME IInv, NEW o \in Others, OwnerSends(o)
  PROVE  IInv'
<1> USE NoneAssumption, ProcessesAssumption, AmountsAssumption
    DEF IInv, TransferTypeOK, Intents, Statuses, Stages, Transactions, Accounts, Unread,
        NewIntent, Processes, Hashes, OwnerSends, FreeNonces, Signed, Goto, procVars
<1>1. TransferTypeOK'
  BY DEF TransferTypeOK
<1>2. OneHolder'
  BY DEF OneHolder, Holds
<1>3. HolderJournals'
  BY DEF HolderJournals, Unsent
<1>4. FilesAreTrue'
  BY DEF FilesAreTrue, Confirms
<1>5. MemoryIsOfFile'
  BY DEF MemoryIsOfFile, Confirms
<1>6. NonceIsUsedOnce'
  BY DEF NonceIsUsedOnce
<1>7. QED
  BY <1>1, <1>2, <1>3, <1>4, <1>5, <1>6

\* A transaction in the chain is not changed again; its nonce was not used.
LEMMA MineIInv ==
  ASSUME IInv, NEW h \in Hashes, Mine(h)
  PROVE  IInv'
<1> USE NoneAssumption, ProcessesAssumption, AmountsAssumption
    DEF IInv, TransferTypeOK, Intents, Statuses, Stages, Transactions, Accounts, Unread,
        NewIntent, Processes, Hashes, Mine, Goto, procVars
<1>1. TransferTypeOK'
  BY DEF TransferTypeOK
<1>2. OneHolder'
  BY DEF OneHolder, Holds
<1>3. HolderJournals'
  BY DEF HolderJournals, Unsent
<1>4. FilesAreTrue'
  BY DEF FilesAreTrue, Confirms
<1>5. MemoryIsOfFile'
  BY DEF MemoryIsOfFile, Confirms
<1>6. NonceIsUsedOnce'
  BY DEF NonceIsUsedOnce
<1>7. QED
  BY <1>1, <1>2, <1>3, <1>4, <1>5, <1>6

\* Balances are in no conjunct but the types.
LEMMA ForeignIInv ==
  ASSUME IInv, NEW a \in Accounts, NEW n \in Balances, Foreign(a, n)
  PROVE  IInv'
<1> USE NoneAssumption, ProcessesAssumption, AmountsAssumption
    DEF IInv, TransferTypeOK, Intents, Statuses, Stages, Transactions, Accounts, Unread,
        NewIntent, Processes, Hashes, Foreign, Balances, Goto, procVars
<1>1. TransferTypeOK'
  BY DEF TransferTypeOK
<1>2. OneHolder'
  BY DEF OneHolder, Holds
<1>3. HolderJournals'
  BY DEF HolderJournals, Unsent
<1>4. FilesAreTrue'
  BY DEF FilesAreTrue, Confirms
<1>5. MemoryIsOfFile'
  BY DEF MemoryIsOfFile, Confirms
<1>6. NonceIsUsedOnce'
  BY DEF NonceIsUsedOnce
<1>7. QED
  BY <1>1, <1>2, <1>3, <1>4, <1>5, <1>6

-----------------------------------------------------------------------------
(* The invariant of every behaviour                                         *)

\* No file, no transaction.
LEMMA InitIInv == Init => IInv
<1> SUFFICES ASSUME Init PROVE IInv
  OBVIOUS
<1> USE NoneAssumption, ProcessesAssumption, AmountsAssumption DEF Init
<1>1. TransferTypeOK
  BY DEF TransferTypeOK, Intents, Statuses, Stages, Accounts, Unread, NewIntent,
         Processes, Hashes
<1>2. OneHolder /\ HolderJournals
  BY DEF OneHolder, HolderJournals, Holds, Unsent, NewIntent, Processes, Hashes
<1>3. FilesAreTrue /\ MemoryIsOfFile /\ NonceIsUsedOnce
  BY DEF FilesAreTrue, MemoryIsOfFile, NonceIsUsedOnce, Processes, Hashes
<1>4. QED
  BY <1>1, <1>2, <1>3 DEF IInv

\* The lemmas above, and a step that changes nothing.
LEMMA NextIInv == IInv /\ [Next]_vars => IInv'
<1> SUFFICES ASSUME IInv, [Next]_vars PROVE IInv'
  OBVIOUS
<1>1. ASSUME NEW p \in Runs, RunStep(p) PROVE IInv'
  BY <1>1, BeginIInv, ReadBeforeIInv, SimulateIInv, ReserveIInv, WriteIntentIInv,
     BroadcastIInv, RecordIInv DEF RunStep
<1>2. ASSUME NEW p \in Verifiers, NEW j \in Journals, Resume(p, j) PROVE IInv'
  BY <1>2, ResumeIInv
<1>3. ASSUME NEW p \in Processes, VerifyStep(p) PROVE IInv'
  BY <1>3, ReceiptIInv, ReadAfterIInv, CompareIInv, DiesIInv DEF VerifyStep
<1>4. CASE ChainStep
  BY <1>4, OwnerSendsIInv, MineIInv, ForeignIInv DEF ChainStep
<1>5. CASE UNCHANGED vars
  BY <1>5
      DEF IInv, TransferTypeOK, OneHolder, Holds, HolderJournals, FilesAreTrue, Confirms,
          MemoryIsOfFile, NonceIsUsedOnce, vars, procVars, chainVars
<1>6. QED
  BY <1>1, <1>2, <1>3, <1>4, <1>5 DEF Next

\* So it holds always.
LEMMA AlwaysIInv == Spec => []IInv
<1>1. Init => IInv
  BY InitIInv
<1>2. IInv /\ [Next]_vars => IInv'
  BY NextIInv
<1>3. QED
  BY <1>1, <1>2, PTL DEF Spec

\* The types, and that files and memory hold intents, for any number of processes.
THEOREM TypeCorrect == Spec => []TransferTypeOK
<1>1. IInv => TransferTypeOK
  BY DEF IInv
<1>2. QED
  BY <1>1, AlwaysIInv, PTL

\* One transfer at most is sent for an intent file, however many processes are
\* started for it and wherever they end.
THEOREM OneTransferHolds == Spec => []OneTransferPerIntent
<1>1. IInv => OneTransferPerIntent
  BY DEF IInv, OneTransferPerIntent, OneHolder, Holds, HolderJournals
<1>2. QED
  BY <1>1, AlwaysIInv, PTL

\* VERIFIED is said of a transaction in the chain that moved the amount, whoever
\* else uses the wallet and whatever else moves the token.
THEOREM VerifiedMeansMovedHolds == Spec => []VerifiedMeansMoved
<1>1. IInv => VerifiedMeansMoved
  <2> SUFFICES ASSUME IInv, NEW j \in Journals, file[j] # None, file[j].status = "VERIFIED"
               PROVE  LET m == file[j].mined IN
                      /\ tx[m].moves /\ tx[m].outcome = "success"
                      /\ tx[m].nonce = tx[file[j].hash].nonce
                      /\ tx[m].nonce >= reservedAt[j]
    BY DEF VerifiedMeansMoved
  <2>1. Confirms(file[j].mined, file[j].hash) /\ file[j].hash # None
    BY DEF IInv, FilesAreTrue
  <2>2. tx[file[j].hash].nonce >= reservedAt[j]
    BY <2>1 DEF IInv, FilesAreTrue
  <2>3. QED
    BY <2>1, <2>2 DEF Confirms
<1>2. QED
  BY <1>1, AlwaysIInv, PTL

-----------------------------------------------------------------------------
(* The journal only advances                                                *)

Advances ==
  \A j \in Journals :
    /\ Rank(file'[j]) >= Rank(file[j])
    /\ file[j] # None /\ file[j].hash # None => file'[j].hash = file[j].hash
    /\ Rank(file[j]) = 4 => file'[j] = file[j]

\* The rank of an intent is that of its status.
LEMMA RankOfIntent ==
  ASSUME NEW m \in Intents
  PROVE  /\ Rank(None) = 0 /\ Rank(m) \in 1 .. 4
         /\ m.status = "EMPTY" => Rank(m) = 1
         /\ m.status = "PENDING" => Rank(m) = 2
         /\ m.status = "BROADCAST" => Rank(m) = 3
         /\ m.status = "VERIFIED" <=> Rank(m) = 4
<1>1. m # None
  BY NoneAssumption
<1>2. m.status \in Statuses
  BY DEF Intents
<1>3. QED
  BY <1>1, <1>2 DEF Rank, Statuses

\* A file that is left alone.
LEMMA SameFiles ==
  ASSUME TransferTypeOK, file' = file
  PROVE  Advances
<1>1. \A j \in Journals : Rank(file[j]) \in Nat
  <2> TAKE j \in Journals
  <2>1. CASE file[j] = None
    BY <2>1 DEF Rank
  <2>2. CASE file[j] \in Intents
    BY <2>2, RankOfIntent
  <2>3. QED
    BY <2>1, <2>2 DEF TransferTypeOK
<1>2. QED
  BY <1>1 DEF Advances

\* One file is replaced by a record of a higher rank, or by itself.
LEMMA FileReplaced ==
  ASSUME TransferTypeOK, NEW k \in Journals, NEW m \in Intents,
         file' = [file EXCEPT ![k] = m],
         Rank(m) >= Rank(file[k]),
         file[k] # None /\ file[k].hash # None => m.hash = file[k].hash,
         Rank(file[k]) = 4 => m = file[k]
  PROVE  Advances
<1>1. \A j \in Journals : Rank(file[j]) \in Nat
  <2> TAKE j \in Journals
  <2>1. CASE file[j] = None
    BY <2>1 DEF Rank
  <2>2. CASE file[j] \in Intents
    BY <2>2, RankOfIntent
  <2>3. QED
    BY <2>1, <2>2 DEF TransferTypeOK
<1>2. \A j \in Journals : file'[j] = IF j = k THEN m ELSE file[j]
  BY DEF TransferTypeOK
<1>3. QED
  BY <1>1, <1>2 DEF Advances

\* From nothing to an empty file.
LEMMA ReserveAdvances ==
  ASSUME IInv, NEW p \in Runs, Reserve(p)
  PROVE  Advances
<1>1. CASE file' = file
  BY <1>1, SameFiles DEF IInv
<1>2. CASE file' # file
  <2> DEFINE m == [NewIntent EXCEPT !.status = "EMPTY"]
  <2>1. file[path[p]] = None /\ file' = [file EXCEPT ![path[p]] = m] /\ path[p] \in Journals
    BY <1>2 DEF Reserve, IInv, HolderJournals
  <2>2. m \in Intents
    BY DEF NewIntent, Intents, Statuses, Unread
  <2> HIDE DEF m
  <2>3. Rank(m) >= Rank(file[path[p]]) /\ Rank(file[path[p]]) = 0
    BY <2>1, <2>2, RankOfIntent
  <2>4. /\ file[path[p]] # None /\ file[path[p]].hash # None => m.hash = file[path[p]].hash
        /\ Rank(file[path[p]]) = 4 => m = file[path[p]]
    BY <2>1, <2>3
  <2>5. TransferTypeOK
    BY DEF IInv
  <2>6. QED
    BY ONLY <2>1, <2>2, <2>3, <2>4, <2>5, FileReplaced
<1>3. QED
  BY <1>1, <1>2

\* From the empty file to PENDING, which names no transaction.
LEMMA WriteIntentAdvances ==
  ASSUME IInv, NEW p \in Runs, WriteIntent(p)
  PROVE  Advances
<1>1. /\ path[p] \in Journals /\ file[path[p]] # None
      /\ file[path[p]].status = "EMPTY" /\ file[path[p]].hash = None
      /\ mine[p].status = "PENDING"
  BY DEF WriteIntent, IInv, HolderJournals, Unsent, OneHolder, Holds, FilesAreTrue
<1>2. mine[p] \in Intents /\ file[path[p]] \in Intents
  BY <1>1 DEF IInv, TransferTypeOK, Processes
<1>3. Rank(mine[p]) = 2 /\ Rank(file[path[p]]) = 1
  BY <1>1, <1>2, RankOfIntent
<1>4. file' = [file EXCEPT ![path[p]] = mine[p]]
  BY DEF WriteIntent
<1>5. /\ Rank(mine[p]) >= Rank(file[path[p]])
      /\ file[path[p]] # None /\ file[path[p]].hash # None =>
           mine[p].hash = file[path[p]].hash
      /\ Rank(file[path[p]]) = 4 => mine[p] = file[path[p]]
  BY <1>1, <1>3
<1>6. TransferTypeOK
  BY DEF IInv
<1>7. QED
  BY ONLY <1>1, <1>2, <1>4, <1>5, <1>6, FileReplaced

\* From PENDING without a hash to BROADCAST.
LEMMA RecordAdvances ==
  ASSUME IInv, NEW p \in Runs, Record(p)
  PROVE  Advances
<1>1. /\ path[p] \in Journals /\ file[path[p]] # None
      /\ file[path[p]].status = "PENDING" /\ file[path[p]].hash = None
  BY DEF Record, IInv, HolderJournals, OneHolder, Holds, FilesAreTrue
<1>2. mine'[p] \in Intents /\ file[path[p]] \in Intents /\ mine'[p].status = "BROADCAST"
  <2>1. /\ mine[p] \in Intents
        /\ mine' = [mine EXCEPT ![p] = [mine[p] EXCEPT !.status = "BROADCAST", !.hash = p]]
    BY DEF IInv, TransferTypeOK, Processes, Record
  <2>2. mine'[p] = [mine[p] EXCEPT !.status = "BROADCAST", !.hash = p]
    BY <2>1 DEF IInv, TransferTypeOK, Processes
  <2>3. mine'[p].status = "BROADCAST"
    BY <2>1, <2>2 DEF Intents
  <2>4. mine'[p] \in Intents
    BY RecordIInv DEF IInv, TransferTypeOK, Processes
  <2>5. QED
    BY <1>1, <2>3, <2>4 DEF IInv, TransferTypeOK
<1>3. Rank(mine'[p]) = 3 /\ Rank(file[path[p]]) = 2
  BY <1>1, <1>2, RankOfIntent
<1>4. file' = [file EXCEPT ![path[p]] = mine'[p]]
  BY DEF Record, Save
<1>5. /\ Rank(mine'[p]) >= Rank(file[path[p]])
      /\ file[path[p]] # None /\ file[path[p]].hash # None =>
           mine'[p].hash = file[path[p]].hash
      /\ Rank(file[path[p]]) = 4 => mine'[p] = file[path[p]]
  BY <1>1, <1>3
<1>6. TransferTypeOK
  BY DEF IInv
<1>7. QED
  BY ONLY <1>1, <1>2, <1>4, <1>5, <1>6, FileReplaced

\* Two processes that verify one file found the same transaction: the chain has
\* one for the nonce.
LEMMA CompareAdvances ==
  ASSUME IInv, NEW p \in Processes, Compare(p)
  PROVE  Advances
<1> DEFINE m == [mine[p] EXCEPT !.status = "VERIFIED"]
<1>1. file' = file \/ file' = [file EXCEPT ![path[p]] = m]
  BY DEF Compare, Save
<1>2. /\ path[p] \in Journals /\ file[path[p]] # None
      /\ mine[p].hash # None /\ mine[p].hash = file[path[p]].hash
      /\ mine[p].before = file[path[p]].before
      /\ mine[p].mined \in Hashes /\ Confirms(mine[p].mined, mine[p].hash)
  BY DEF Compare, IInv, MemoryIsOfFile
<1>3. mine[p] \in Intents /\ file[path[p]] \in Intents
  BY <1>2 DEF IInv, TransferTypeOK
<1>4. /\ m \in Intents /\ m.status = "VERIFIED" /\ m.hash = mine[p].hash
      /\ m.before = mine[p].before /\ m.mined = mine[p].mined
  BY <1>3 DEF Intents, Statuses
<1> HIDE DEF m
<1>5. Rank(m) = 4 /\ Rank(file[path[p]]) \in 1 .. 4
  BY <1>3, <1>4, RankOfIntent
<1>6. ASSUME Rank(file[path[p]]) = 4 PROVE m = file[path[p]]
  <2>1. file[path[p]].status = "VERIFIED"
    BY <1>3, <1>6, RankOfIntent
  <2>2. file[path[p]].mined \in Hashes /\ Confirms(file[path[p]].mined, file[path[p]].hash)
    BY <1>2, <2>1 DEF IInv, FilesAreTrue
  <2>3. file[path[p]].mined = mine[p].mined
    BY <1>2, <2>2 DEF IInv, NonceIsUsedOnce, Confirms
  <2>4. QED
    BY <1>2, <1>3, <1>4, <2>1, <2>3 DEF Intents
<1>7. CASE file' = file
  BY <1>7, SameFiles DEF IInv
<1>8. CASE file' = [file EXCEPT ![path[p]] = m]
  <2>1. /\ Rank(m) >= Rank(file[path[p]])
        /\ file[path[p]] # None /\ file[path[p]].hash # None => m.hash = file[path[p]].hash
        /\ Rank(file[path[p]]) = 4 => m = file[path[p]]
    BY <1>2, <1>4, <1>5, <1>6
  <2>2. TransferTypeOK
    BY DEF IInv
  <2>3. QED
    BY ONLY <1>2, <1>4, <1>8, <2>1, <2>2, FileReplaced
<1>9. QED
  BY <1>1, <1>7, <1>8

\* No process takes a journal back, names another transaction in it or changes one
\* that is verified, for any number of processes that share it.
THEOREM JournalOnlyAdvancesHolds == Spec => JournalOnlyAdvances
<1>1. IInv /\ [Next]_vars => [Advances]_vars
  <2> SUFFICES ASSUME IInv, [Next]_vars PROVE Advances
    OBVIOUS
  <2>1. CASE file' = file
    BY <2>1, SameFiles DEF IInv
  <2>2. ASSUME NEW p \in Runs, RunStep(p), file' # file PROVE Advances
    <3>1. Reserve(p) \/ WriteIntent(p) \/ Record(p)
      BY <2>2 DEF RunStep, Begin, ReadBefore, Simulate, Broadcast
    <3>2. QED
      BY <3>1, ReserveAdvances, WriteIntentAdvances, RecordAdvances
  <2>3. ASSUME NEW p \in Processes, VerifyStep(p), file' # file PROVE Advances
    <3>1. Compare(p)
      BY <2>3 DEF VerifyStep, Receipt, ReadAfter, Dies
    <3>2. QED
      BY <3>1, CompareAdvances
  <2>4. ASSUME file' # file
        PROVE  /\ ~UNCHANGED vars /\ ~ChainStep
               /\ \A p \in Verifiers, j \in Journals : ~Resume(p, j)
    BY <2>4 DEF vars, ChainStep, OwnerSends, Mine, Foreign, Resume
  <2>5. QED
    BY <2>1, <2>2, <2>3, <2>4 DEF Next
<1>2. Spec => [][Advances]_vars
  BY <1>1, AlwaysIInv, PTL DEF Spec
<1>3. QED
  BY <1>2 DEF JournalOnlyAdvances, Advances
=============================================================================
