--------------------------- MODULE ServiceProofs ----------------------------
(***************************************************************************)
(* Proofs about services that share no state: the tasks and the manager that*)
(* synchronise a node, the snapshots of its state, the storage of the      *)
(* wallet, and the cross-chain processor.                                  *)
(***************************************************************************)
EXTENDS NetworkSync, WalletStorage, SyncManager, SnapshotManager, CrossChain,
        SumTheorems

-----------------------------------------------------------------------------
(***************************************************************************)
(* The tasks of NetworkSync, for any number of tasks, peers, retries and   *)
(* permits: the retries stay within their limit, and no permit is lost.    *)
(***************************************************************************)

\* Where a task may be.
Places == {"idle", "discover", "headers", "blocks", "batch"}

TaskDownloading(pc) == {t \in NsTasks : pc[t] = "batch"}

\* The inductive invariant: where the tasks are, the shared counters and permits.
TasksInv ==
    /\ nsPc \in [NsTasks -> Places]
    /\ nsRetry \in [header : 0 .. MaxRetries, block : 0 .. MaxRetries]
    /\ nsFree \in Nat
    /\ PermitsConserved

\* A task that starts a download adds one to those that download.
LEMMA StartsDownload ==
    ASSUME NEW pc \in [NsTasks -> Places], NEW t \in NsTasks, pc[t] # "batch"
    PROVE  LET new == [pc EXCEPT ![t] = "batch"]
           IN  Cardinality(TaskDownloading(new)) = Cardinality(TaskDownloading(pc)) + 1
<1> DEFINE new == [pc EXCEPT ![t] = "batch"]
<1>1. TaskDownloading(new) = TaskDownloading(pc) \cup {t} /\ t \notin TaskDownloading(pc)
    BY Zenon DEF TaskDownloading
<1>2. IsFiniteSet(TaskDownloading(pc))
    BY NsAssumption, FS_Subset, Zenon DEF TaskDownloading
<1> QED
    BY <1>1, <1>2, FS_AddElement, Zenon

\* A task that ends a download takes one away.
LEMMA EndsDownload ==
    ASSUME NEW pc \in [NsTasks -> Places], NEW t \in NsTasks, pc[t] = "batch",
           NEW to \in Places, to # "batch"
    PROVE  LET new == [pc EXCEPT ![t] = to]
           IN  Cardinality(TaskDownloading(new)) = Cardinality(TaskDownloading(pc)) - 1
<1> DEFINE new == [pc EXCEPT ![t] = to]
<1>1. TaskDownloading(new) = TaskDownloading(pc) \ {t} /\ t \in TaskDownloading(pc)
    BY Zenon DEF TaskDownloading
<1>2. IsFiniteSet(TaskDownloading(pc))
    BY NsAssumption, FS_Subset, Zenon DEF TaskDownloading
<1> QED
    BY <1>1, <1>2, FS_RemoveElement, Zenon

\* The other moves of a task leave those that download alone.
LEMMA KeepsDownloads ==
    ASSUME NEW pc \in [NsTasks -> Places], NEW t \in NsTasks, pc[t] # "batch",
           NEW to \in Places, to # "batch"
    PROVE  TaskDownloading([pc EXCEPT ![t] = to]) = TaskDownloading(pc)
BY Zenon DEF TaskDownloading

\* A retry or its refusal keeps the counters within the limit.
LEMMA RetryKeeps ==
    ASSUME TasksInv, NEW t \in NsTasks, NEW op \in {"header", "block"},
           NEW again, RetryOrFail(t, op, again)
    PROVE  /\ nsRetry' \in [header : 0 .. MaxRetries, block : 0 .. MaxRetries]
           /\ \E pc \in {again, "idle"} : Goto(t, pc)
<1>1. nsRetry[op] \in 0 .. MaxRetries
    BY Zenon DEF TasksInv
<1>2. CASE nsRetry[op] < MaxRetries /\ nsRetry' = [nsRetry EXCEPT ![op] = @ + 1] /\ Goto(t, again)
    <2>1. nsRetry[op] + 1 \in 0 .. MaxRetries
        BY <1>1, <1>2, NsAssumption
    <2> QED
        BY <1>2, <2>1, Zenon DEF TasksInv
<1>3. CASE nsRetry' = [nsRetry EXCEPT ![op] = 0] /\ Goto(t, "idle")
    <2>1. 0 \in 0 .. MaxRetries
        BY NsAssumption
    <2> QED
        BY <1>3, <2>1, Zenon DEF TasksInv
<1> QED
    BY <1>2, <1>3, Zenon DEF RetryOrFail

\* The number of tasks that download is a natural number.
LEMMA DownloadsCount ==
    ASSUME NEW pc
    PROVE  Cardinality(TaskDownloading(pc)) \in Nat
<1>1. IsFiniteSet(TaskDownloading(pc))
    BY NsAssumption, FS_Subset, Zenon DEF TaskDownloading
<1> QED
    BY <1>1, FS_CardinalityType, Zenon

LEMMA TasksInit == NsInit => TasksInv
<1> SUFFICES ASSUME NsInit PROVE TasksInv
    BY Zenon
<1>1. {t \in NsTasks : nsPc[t] = "batch"} = {}
    BY Zenon DEF NsInit
<1>2. PermitsConserved
    BY <1>1, FS_EmptySet, NsAssumption DEF NsInit, PermitsConserved
<1>3. /\ nsPc \in [NsTasks -> Places]
      /\ nsRetry \in [header : 0 .. MaxRetries, block : 0 .. MaxRetries]
      /\ nsFree \in Nat
    BY NsAssumption DEF NsInit, Places
<1> QED
    BY <1>2, <1>3, Zenon DEF TasksInv

LEMMA TasksStep == TasksInv /\ [NsNext]_nsVars => TasksInv'
<1> SUFFICES ASSUME TasksInv, [NsNext]_nsVars PROVE TasksInv'
    BY Zenon
<1>a. nsPc \in [NsTasks -> Places]
    BY Zenon DEF TasksInv
<1>b. nsFree \in Nat /\ nsFree + Cardinality(TaskDownloading(nsPc)) = Permits
    BY Zenon DEF TasksInv, PermitsConserved, TaskDownloading
<1>c. Cardinality(TaskDownloading(nsPc)) \in Nat
    BY DownloadsCount, Zenon
\* A step of t that neither starts nor ends a download.
<1>d. ASSUME NEW t \in NsTasks, nsPc[t] # "batch", NEW to \in Places \ {"batch"},
             nsPc' = [nsPc EXCEPT ![t] = to], nsFree' = nsFree,
             nsRetry' \in [header : 0 .. MaxRetries, block : 0 .. MaxRetries]
      PROVE  TasksInv'
    <2>1. TaskDownloading(nsPc') = TaskDownloading(nsPc)
        BY <1>a, <1>d, KeepsDownloads, Zenon
    <2>2. PermitsConserved'
        BY <1>b, <1>d, <2>1, Zenon DEF PermitsConserved, TaskDownloading
    <2> QED
        BY <1>a, <1>b, <1>d, <2>2, Zenon DEF TasksInv
\* A step of t that ends a download.
<1>e. ASSUME NEW t \in NsTasks, nsPc[t] = "batch", NEW to \in Places \ {"batch"},
             nsPc' = [nsPc EXCEPT ![t] = to], nsFree' = nsFree + 1,
             nsRetry' \in [header : 0 .. MaxRetries, block : 0 .. MaxRetries]
      PROVE  TasksInv'
    <2>1. Cardinality(TaskDownloading(nsPc')) = Cardinality(TaskDownloading(nsPc)) - 1
        BY <1>a, <1>e, EndsDownload, Zenon
    <2>2. nsFree' + Cardinality(TaskDownloading(nsPc')) = Permits
        BY <1>b, <1>c, <1>e, <2>1
    <2>3. PermitsConserved'
        BY <2>2, Zenon DEF PermitsConserved, TaskDownloading
    <2> QED
        BY <1>a, <1>b, <1>e, <2>3 DEF TasksInv
<1>1. ASSUME NEW t \in NsTasks, NsCall(t) PROVE TasksInv'
    <2>1. nsRetry' \in [header : 0 .. MaxRetries, block : 0 .. MaxRetries]
        BY <1>1, NsAssumption DEF NsCall
    <2> QED
        BY <1>1, <1>d, <2>1, Zenon DEF NsCall, Goto, Places
<1>2. ASSUME NEW t \in NsTasks, NEW answered \in SUBSET NsPeers, NsDiscover(t, answered)
      PROVE  TasksInv'
    <2>1. nsPc[t] = "discover" /\ nsFree' = nsFree /\ nsRetry' = nsRetry
        BY <1>2, Zenon DEF NsDiscover
    <2>2. \E to \in {"idle", "headers"} : nsPc' = [nsPc EXCEPT ![t] = to]
        BY <1>2, Zenon DEF NsDiscover, Goto
    <2> QED
        BY <1>d, <2>1, <2>2, Zenon DEF TasksInv, Places
<1>3. ASSUME NEW t \in NsTasks, NEW p \in NsPeers, NEW answer \in NsAnswers, NsHeaders(t, p, answer)
      PROVE  TasksInv'
    <2>1. nsPc[t] = "headers" /\ nsFree' = nsFree /\ nsRetry' = nsRetry
        BY <1>3, Zenon DEF NsHeaders
    <2>2. nsPc' = nsPc \/ nsPc' = [nsPc EXCEPT ![t] = "blocks"]
        BY <1>3, Zenon DEF NsHeaders, Goto
    <2>3. CASE nsPc' = nsPc
        BY <2>1, <2>3, Zenon DEF TasksInv, PermitsConserved
    <2>4. CASE nsPc' = [nsPc EXCEPT ![t] = "blocks"]
        BY <1>d, <2>1, <2>4, Zenon DEF TasksInv, Places
    <2> QED
        BY <2>2, <2>3, <2>4, Zenon
<1>4. ASSUME NEW t \in NsTasks, NsHeadersFail(t) PROVE TasksInv'
    <2>1. nsPc[t] = "headers" /\ nsFree' = nsFree /\ RetryOrFail(t, "header", "headers")
        BY <1>4, Zenon DEF NsHeadersFail
    <2>2. /\ nsRetry' \in [header : 0 .. MaxRetries, block : 0 .. MaxRetries]
          /\ \E to \in {"headers", "idle"} : nsPc' = [nsPc EXCEPT ![t] = to]
        BY <2>1, RetryKeeps, Zenon DEF Goto
    <2> QED
        BY <1>d, <2>1, <2>2, Zenon DEF Places
<1>5. ASSUME NEW t \in NsTasks, NsAcquire(t) PROVE TasksInv'
    <2>1. /\ nsPc[t] = "blocks" /\ nsFree > 0 /\ nsFree' = nsFree - 1 /\ nsRetry' = nsRetry
          /\ nsPc' = [nsPc EXCEPT ![t] = "batch"]
        BY <1>5, Zenon DEF NsAcquire, Goto
    <2>2. Cardinality(TaskDownloading(nsPc')) = Cardinality(TaskDownloading(nsPc)) + 1
        BY <1>a, <2>1, StartsDownload, Zenon
    <2>3. nsFree' + Cardinality(TaskDownloading(nsPc')) = Permits
        BY <1>b, <1>c, <2>1, <2>2
    <2>4. PermitsConserved'
        BY <2>3, Zenon DEF PermitsConserved, TaskDownloading
    <2> QED
        BY <1>a, <1>b, <2>1, <2>4 DEF TasksInv, Places
<1>6. ASSUME NEW t \in NsTasks, NEW p \in NsPeers, NEW answer \in NsAnswers, NsBlocks(t, p, answer)
      PROVE  TasksInv'
    <2>1. nsPc[t] = "batch" /\ nsFree' = nsFree + 1 /\ nsRetry' = nsRetry
        BY <1>6, Zenon DEF NsBlocks
    <2>2. \E to \in {"blocks", "idle"} : nsPc' = [nsPc EXCEPT ![t] = to]
        BY <1>6, Zenon DEF NsBlocks, Goto
    <2> QED
        BY <1>e, <2>1, <2>2, Zenon DEF TasksInv, Places
<1>7. ASSUME NEW t \in NsTasks, NsBlocksFail(t) PROVE TasksInv'
    <2>1. nsPc[t] = "batch" /\ nsFree' = nsFree + 1 /\ RetryOrFail(t, "block", "blocks")
        BY <1>7, Zenon DEF NsBlocksFail
    <2>2. /\ nsRetry' \in [header : 0 .. MaxRetries, block : 0 .. MaxRetries]
          /\ \E to \in {"blocks", "idle"} : nsPc' = [nsPc EXCEPT ![t] = to]
        BY <2>1, RetryKeeps, Zenon DEF Goto
    <2> QED
        BY <1>e, <2>1, <2>2, Zenon DEF Places
<1>8. CASE UNCHANGED <<nsPc, nsRetry, nsFree>>
    BY <1>8, Zenon DEF TasksInv, PermitsConserved
<1>9. ASSUME NEW p \in NsPeers, remove_peer(p) PROVE TasksInv'
    BY <1>8, <1>9, Zenon DEF remove_peer
<1>10. CASE UNCHANGED nsVars
    BY <1>8, <1>10, Zenon DEF nsVars
<1> QED
    BY <1>1, <1>2, <1>3, <1>4, <1>5, <1>6, <1>7, <1>9, <1>10, Zenon DEF NsNext, NsStep

LEMMA TasksInvariant == NsSpec => []TasksInv
BY TasksInit, TasksStep, PTL DEF NsSpec

\* However many tasks share the counters of ErrorRecovery and reset them, an
\* operation is never retried more than max_retries times in a row.
THEOREM RetriesStayBounded == NsSpec => []RetriesBounded
<1>1. TasksInv => RetriesBounded
    BY NsAssumption DEF TasksInv, RetriesBounded
<1> QED
    BY <1>1, TasksInvariant, PTL

\* However many tasks download at once and however their downloads end, the
\* permits of download_semaphore that are free or in use are all there are.
THEOREM PermitsAreConserved == NsSpec => []PermitsConserved
<1>1. TasksInv => PermitsConserved
    BY Zenon DEF TasksInv
<1> QED
    BY <1>1, TasksInvariant, PTL

-----------------------------------------------------------------------------
(***************************************************************************)
(* The wallet's storage, for every number of attempts, every set of        *)
(* secrets and passwords and any number of faults: a load returns what was *)
(* saved, wrong passwords are bounded, and a verified backup is whole.     *)
(***************************************************************************)

\* The counters are numbers, and what is in the keyring is what was last saved.
StorageInv ==
    /\ wsConfig \in [attempts : Nat, locked : BOOLEAN]
    /\ wsWrong \in Nat /\ wsCut \in Nat /\ wsLost \in Nat
    /\ wsEntry = wsSaved

\* The wrong passwords that were looked at are in the count of the file, but for
\* those of a count that a save which was cut short has reset, and those whose
\* count could not be written.
CountInv ==
    /\ wsConfig.attempts <= MaxAttempts
    /\ wsSaving = NoSeal => wsWrong <= wsConfig.attempts + MaxAttempts * wsCut + wsLost
    /\ wsSaving # NoSeal => wsWrong <= MaxAttempts * (1 + wsCut) + wsLost

\* The inductive invariant of the storage.
WalletInv == StorageInv /\ CountInv /\ LoadReturnsSaved /\ VerifiedIsBackup

\* MaxAttempts more are allowed for every save that is cut short.
LEMMA Allowance ==
    ASSUME NEW n \in Nat
    PROVE  /\ MaxAttempts * n \in Nat
           /\ MaxAttempts * (1 + n) = MaxAttempts * n + MaxAttempts
BY WsAssumption, SMT

LEMMA InitHolds == WsInit => WalletInv
<1> SUFFICES ASSUME WsInit PROVE WalletInv
    OBVIOUS
<1>1. StorageInv
    BY Zenon DEF WsInit, StorageInv, FreshConfig
<1>2. CountInv
    <2>1. MaxAttempts * 0 = 0
        BY WsAssumption, SMT
    <2> QED
        BY <2>1, WsAssumption DEF WsInit, CountInv, FreshConfig
<1>3. LoadReturnsSaved /\ VerifiedIsBackup
    BY Zenon DEF WsInit, LoadReturnsSaved, VerifiedIsBackup, Returned
<1> QED
    BY <1>1, <1>2, <1>3, Zenon DEF WalletInv

LEMMA StepKeeps == WalletInv /\ [WsNext]_wsVars => WalletInv'
<1> SUFFICES ASSUME WalletInv, [WsNext]_wsVars PROVE WalletInv'
    OBVIOUS
<1> USE WsAssumption DEF WalletInv, StorageInv
<1>a. /\ MaxAttempts * wsCut \in Nat
      /\ MaxAttempts * (1 + wsCut) = MaxAttempts * wsCut + MaxAttempts
    BY Allowance, Zenon
<1>b. /\ MaxAttempts * (wsCut + 1) = MaxAttempts * wsCut + MaxAttempts
      /\ MaxAttempts * 0 = 0
    BY SMT
<1>1. ASSUME NEW seal \in Sealed, SaveConfig(seal) PROVE WalletInv'
    <2>1. StorageInv'
        BY <1>1, Zenon DEF SaveConfig, FreshConfig
    <2>2. CountInv'
        <3>1. seal # NoSeal
            BY DEF Sealed, NoSeal
        <3>2. wsSaving = NoSeal /\ wsSaving' = seal /\ wsConfig'.attempts = 0
            BY <1>1, Zenon DEF SaveConfig, FreshConfig
        <3>3. UNCHANGED <<wsWrong, wsCut, wsLost>>
            BY <1>1, Zenon DEF SaveConfig
        <3> QED
            BY <3>1, <3>2, <3>3, <1>a DEF CountInv
    <2>3. LoadReturnsSaved' /\ VerifiedIsBackup'
        BY <1>1, Zenon DEF SaveConfig, LoadReturnsSaved, VerifiedIsBackup
    <2> QED
        BY <2>1, <2>2, <2>3, Zenon
<1>2. CASE SaveEntry
    <2>1. StorageInv'
        BY <1>2, Zenon DEF SaveEntry
    <2>2. CountInv'
        BY <1>2, <1>b, <2>1 DEF SaveEntry, CountInv
    <2>3. LoadReturnsSaved' /\ VerifiedIsBackup'
        BY <1>2, Zenon DEF SaveEntry, LoadReturnsSaved, VerifiedIsBackup, Returned
    <2> QED
        BY <2>1, <2>2, <2>3, Zenon
<1>3. CASE SaveCut
    <2>1. StorageInv'
        BY <1>3 DEF SaveCut
    <2>2. CountInv'
        BY <1>3, <1>a, <1>b, <2>1 DEF SaveCut, CountInv
    <2>3. LoadReturnsSaved' /\ VerifiedIsBackup'
        BY <1>3, Zenon DEF SaveCut, LoadReturnsSaved, VerifiedIsBackup
    <2> QED
        BY <2>1, <2>2, <2>3
<1>4. CASE LoadLocks
    <2>1. StorageInv'
        <3>1. [wsConfig EXCEPT !.locked = TRUE] \in [attempts : Nat, locked : BOOLEAN]
            BY Zenon
        <3>2. wsConfig' \in [attempts : Nat, locked : BOOLEAN] /\ wsLost' \in Nat
            <4>1. CASE wsConfig' = [wsConfig EXCEPT !.locked = TRUE] /\ UNCHANGED wsLost
                BY <4>1, <3>1, Zenon
            <4>2. CASE wsLost' = wsLost + 1 /\ UNCHANGED wsConfig
                BY <4>2
            <4> QED
                BY <1>4, <4>1, <4>2, Zenon DEF LoadLocks, StoreConfig
        <3> QED
            BY <1>4, <3>2, Zenon DEF LoadLocks
    <2>2. CountInv'
        BY <1>4, <1>a, <2>1 DEF LoadLocks, StoreConfig, CountInv
    <2>3. LoadReturnsSaved' /\ VerifiedIsBackup'
        BY <1>4, Zenon DEF LoadLocks, LoadReturnsSaved, VerifiedIsBackup, Returned
    <2> QED
        BY <2>1, <2>2, <2>3
<1>5. ASSUME NEW p \in WsPasswords, LoadWrong(p) PROVE WalletInv'
    <2>1. StorageInv'
        BY <1>5 DEF LoadWrong, StoreConfig
    <2>2. CountInv'
        BY <1>5, <1>a, <2>1 DEF LoadWrong, StoreConfig, CountInv
    <2>3. LoadReturnsSaved' /\ VerifiedIsBackup'
        BY <1>5 DEF LoadWrong, LoadReturnsSaved, VerifiedIsBackup, Returned
    <2> QED
        BY <2>1, <2>2, <2>3, Zenon
<1>6. ASSUME NEW p \in WsPasswords, LoadRight(p) PROVE WalletInv'
    <2>1. StorageInv'
        <3>1. wsConfig' \in [attempts : Nat, locked : BOOLEAN]
            <4>1. FreshConfig \in [attempts : Nat, locked : BOOLEAN]
                BY Zenon DEF FreshConfig
            <4> QED
                BY <1>6, <4>1, Zenon DEF LoadRight
        <3> QED
            BY <1>6, <3>1, Zenon DEF LoadRight
    <2>2. CountInv'
        <3>1. wsConfig'.attempts \in Nat /\ wsConfig'.attempts <= MaxAttempts
            BY <1>6 DEF LoadRight, FreshConfig, CountInv
        <3>2. wsSaving' = NoSeal /\ wsWrong' = 0 /\ wsCut' = 0 /\ wsLost' = 0
            BY <1>6, Zenon DEF LoadRight
        <3> QED
            BY <3>1, <3>2, <1>b DEF CountInv
    <2>3. LoadReturnsSaved' /\ VerifiedIsBackup'
        BY <1>6, Zenon DEF LoadRight, LoadReturnsSaved, VerifiedIsBackup, Returned
    <2> QED
        BY <2>1, <2>2, <2>3
<1>7. ASSUME NEW seal \in Sealed, create_wallet_backup(seal) PROVE WalletInv'
    <2>1. StorageInv' /\ CountInv'
        BY <1>7, Zenon DEF create_wallet_backup, CountInv
    <2>2. LoadReturnsSaved' /\ VerifiedIsBackup'
        BY <1>7, Zenon DEF create_wallet_backup, LoadReturnsSaved, VerifiedIsBackup, Returned
    <2> QED
        BY <2>1, <2>2, Zenon
<1>8. ASSUME NEW p \in WsPasswords, verify_wallet_backup(p) PROVE WalletInv'
    <2>1. StorageInv' /\ CountInv'
        BY <1>8, Zenon DEF verify_wallet_backup, CountInv
    <2>2. LoadReturnsSaved' /\ VerifiedIsBackup'
        BY <1>8, Zenon DEF verify_wallet_backup, LoadReturnsSaved, VerifiedIsBackup, Returned, Sealed
    <2> QED
        BY <2>1, <2>2, Zenon
<1>9. CASE UNCHANGED wsVars
    BY <1>9, Zenon DEF wsVars, CountInv, LoadReturnsSaved, VerifiedIsBackup
<1> QED
    BY <1>1, <1>2, <1>3, <1>4, <1>5, <1>6, <1>7, <1>8, <1>9 DEF WsNext

\* The invariant implies the bound on wrong passwords.
LEMMA CountBounds == WalletInv => WrongPasswordsBounded
<1> SUFFICES ASSUME WalletInv PROVE WrongPasswordsBounded
    BY Zenon
<1>1. /\ MaxAttempts * wsCut \in Nat
      /\ MaxAttempts * (1 + wsCut) = MaxAttempts * wsCut + MaxAttempts
    BY Allowance, Zenon DEF WalletInv, StorageInv
<1> QED
    BY <1>1, WsAssumption DEF WalletInv, StorageInv, CountInv, WrongPasswordsBounded

LEMMA StorageInvariant == WsSpec => []WalletInv
BY InitHolds, StepKeeps, PTL DEF WsSpec

\* A load returns what the last completed save stored, whatever saves were cut
\* short before it (load_wallet_data_securely after save_wallet_data_securely).
THEOREM LoadIsFaithful == WsSpec => []LoadReturnsSaved
<1>1. WalletInv => LoadReturnsSaved
    BY Zenon DEF WalletInv
<1> QED
    BY <1>1, StorageInvariant, PTL

\* At most MaxAttempts wrong passwords are looked at between two right ones, and
\* MaxAttempts more for every save that is cut short and one more for every count
\* that could not be written (failed_attempts in load_wallet_data_securely).
THEOREM AttemptsAreBounded == WsSpec => []WrongPasswordsBounded
BY StorageInvariant, CountBounds, PTL

\* A backup that verify_wallet_backup reports as good is the whole of what
\* create_wallet_backup wrote, sealed with the password it was given.
THEOREM VerificationIsSound == WsSpec => []VerifiedIsBackup
<1>1. WalletInv => VerifiedIsBackup
    BY Zenon DEF WalletInv
<1> QED
    BY <1>1, StorageInvariant, PTL

-----------------------------------------------------------------------------
(***************************************************************************)
(* The sync manager, for all peers, answers, coins and limits: the index   *)
(* that block and header synchronisations write is one chain.              *)
(***************************************************************************)

\* What is still to be looked at was sent by a peer, and the index below the tip is
\* linked.
SyncInv ==
  /\ smQueue \in Seq(SentBlocks)
  /\ smTip \in Nat
  /\ IndexLinked

\* The hash of a block names that block.
LEMMA HashNames ==
  ASSUME NEW b \in SentBlocks, NEW k, k = b.id
  PROVE  (CHOOSE c \in SentBlocks : c.id = k) = b
BY SyncAssumption, Zenon

\* A hash that is put on top of the index, and is one of a block that names the tip,
\* keeps it linked.
LEMMA LinkedOnTop ==
  ASSUME SyncInv, NEW b \in SentBlocks, NEW kind,
         b.height = smTip + 1, smTip \in DOMAIN smHash => b.prev = smHash[smTip],
         smHash' = Put(smHash, b.height, <<kind, b.id>>), smTip' = b.height
  PROVE  IndexLinked'
<1>1. smTip \in Nat /\ smTip' = smTip + 1
  BY Zenon DEF SyncInv
<1>2. smHash'[smTip + 1] = <<kind, b.id>> /\ DOMAIN smHash' = DOMAIN smHash \cup {smTip + 1}
      /\ \A h \in DOMAIN smHash : h # smTip + 1 => smHash'[h] = smHash[h]
  BY Zenon DEF Put
<1>3. \A h \in 1 .. smTip : h \in DOMAIN smHash /\ h # smTip + 1 /\ smHash'[h] = smHash[h]
  <2>1. \A h \in 1 .. smTip : h \in DOMAIN smHash
    BY Zenon DEF SyncInv, IndexLinked
  <2>2. \A h \in 1 .. smTip : h # smTip + 1
    BY <1>1
  <2>3. QED BY <1>2, <2>1, <2>2, Zenon
<1>4. ASSUME NEW h \in 1 .. smTip + 1, h >= 2
      PROVE  (CHOOSE c \in SentBlocks : c.id = smHash'[h][2]).prev = smHash'[h - 1]
  <2>1. h - 1 \in 1 .. smTip
    BY <1>1, <1>4
  <2>2. smHash'[h - 1] = smHash[h - 1]
    BY <1>3, <2>1, Zenon
  <2>3. CASE h = smTip + 1
    <3>1. h - 1 = smTip /\ smTip \in DOMAIN smHash
      BY <1>1, <1>3, <2>1, <2>3
    <3>2. b.prev = smHash'[h - 1]
      BY <2>2, <3>1, Zenon
    <3>3. smHash'[h][2] = b.id
      BY <1>2, <2>3
    <3>4. (CHOOSE c \in SentBlocks : c.id = smHash'[h][2]) = b
      BY <3>3, HashNames, Zenon
    <3>5. QED BY <3>2, <3>4, Zenon
  <2>4. CASE h # smTip + 1
    <3>1. h \in 1 .. smTip
      BY <1>1, <2>4
    <3>2. (CHOOSE c \in SentBlocks : c.id = smHash[h][2]).prev = smHash[h - 1]
      BY <1>4, <3>1, Zenon DEF SyncInv, IndexLinked, BlockAt
    <3>3. smHash'[h] = smHash[h]
      BY <1>3, <3>1, Zenon
    <3>4. QED BY <2>2, <3>2, <3>3, Zenon
  <2>5. QED BY <2>3, <2>4, Zenon
<1>5. ASSUME NEW h \in 1 .. smTip + 1
      PROVE  h \in DOMAIN smHash'
  BY <1>1, <1>2, <1>3
<1>6. QED BY <1>1, <1>4, <1>5, Zenon DEF IndexLinked, BlockAt

LEMMA BlockKeepsLinks ==
  ASSUME SyncInv, NEW b \in SentBlocks, validate_and_store_block(b)
  PROVE  smTip' \in Nat /\ IndexLinked'
<1>1. smHash' = Put(smHash, b.height, BlockHash(b)) /\ smTip' = b.height /\ validate_block_header(b)
  BY Zenon DEF validate_and_store_block, validate_block
<1>2. b.height \in Nat /\ smTip \in Nat
  BY SyncAssumption, Zenon DEF SyncInv
<1>3. CASE b.height = 0
  <2>1. smTip' = 0
    BY <1>1, <1>3, Zenon
  <2>2. QED BY <2>1 DEF IndexLinked
<1>4. CASE b.height # 0
  <2>1. b.height = smTip + 1 /\ b.height > 0 /\ b.height - 1 = smTip
    BY <1>1, <1>2, <1>4 DEF validate_block_header
  <2>2. smTip \in DOMAIN smHash => b.prev = smHash[smTip]
    BY <1>1, <2>1, Zenon DEF validate_block_header
  <2>3. QED BY <1>1, <1>2, <2>1, <2>2, LinkedOnTop, Zenon DEF BlockHash
<1>5. QED BY <1>3, <1>4, Zenon

LEMMA HeaderKeepsLinks ==
  ASSUME SyncInv, NEW b \in SentBlocks, validate_and_store_header(b)
  PROVE  smTip' \in Nat /\ IndexLinked'
<1>1. smHash' = Put(smHash, b.height, HeaderHash(b)) /\ smTip' = Max({smTip, b.height})
      /\ validate_block_header(b)
  BY Zenon DEF validate_and_store_header
<1>2. b.height \in Nat /\ smTip \in Nat
  BY SyncAssumption DEF SyncInv
<1>3. \A m, n \in Nat : m <= n => Max({m, n}) = n /\ Max({n, m}) = n
  <2>1. ASSUME NEW m \in Nat, NEW n \in Nat, m <= n
        PROVE  \A x \in {m, n} : (\A y \in {m, n} : x >= y) <=> x = n
    BY <2>1
  <2>2. ASSUME NEW m \in Nat, NEW n \in Nat, m <= n
        PROVE  Max({m, n}) = n
    BY <2>1, <2>2 DEF Max
  <2>3. \A m, n : {m, n} = {n, m}
    BY Zenon
  <2>4. QED BY <2>2, <2>3, Zenon
<1>4. CASE b.height = 0
  <2>1. smTip' = smTip
    BY <1>1, <1>2, <1>3, <1>4
  <2>2. DOMAIN smHash' = DOMAIN smHash \cup {0} /\ \A h \in DOMAIN smHash : h # 0 => smHash'[h] = smHash[h]
    BY <1>1, <1>4, Zenon DEF Put
  <2>3. \A h \in 1 .. smTip : h \in DOMAIN smHash' /\ smHash'[h] = smHash[h]
    BY <1>2, <2>2 DEF SyncInv, IndexLinked
  <2>4. \A h \in 1 .. smTip : h >= 2 => h - 1 \in 1 .. smTip
    BY <1>2
  <2>5. QED BY <1>2, <2>1, <2>3, <2>4 DEF SyncInv, IndexLinked, BlockAt
<1>5. CASE b.height # 0
  <2>1. b.height = smTip + 1 /\ b.height > 0 /\ b.height - 1 = smTip
    BY <1>1, <1>2, <1>5 DEF validate_block_header
  <2>2. smTip \in DOMAIN smHash => b.prev = smHash[smTip]
    BY <1>1, <2>1, Zenon DEF validate_block_header
  <2>3. smTip' = b.height
    BY <1>1, <1>2, <1>3, <2>1
  <2>4. QED BY <1>1, <1>2, <2>1, <2>2, <2>3, LinkedOnTop, Zenon DEF HeaderHash
<1>6. QED BY <1>4, <1>5

LEMMA SyncStep ==
  ASSUME SyncInv, [SmNext]_smVars
  PROVE  SyncInv'
<1>1. CASE UNCHANGED smIndex /\ (smQueue' = smQueue \/ smQueue' = <<>>)
  <2>1. <<>> \in Seq(SentBlocks)
    OBVIOUS
  <2>2. QED BY <1>1, <2>1, Zenon DEF smIndex, SyncInv, IndexLinked, BlockAt
<1>2. ASSUME NEW answer \in SyncAnswers, SmAnswer(answer) PROVE SyncInv'
  <2>1. smQueue' \in Seq(SentBlocks)
    BY <1>2, SyncAssumption, Zenon DEF SmAnswer
  <2>2. UNCHANGED smIndex
    BY <1>2, Zenon DEF SmAnswer
  <2>3. QED BY <2>1, <2>2, Zenon DEF smIndex, SyncInv, IndexLinked, BlockAt
<1>3. CASE SmBlock
  <2>1. PICK b : b = Head(smQueue)
    BY Zenon
  <2>2. b \in SentBlocks /\ Tail(smQueue) \in Seq(SentBlocks)
    BY <1>3, <2>1 DEF SmBlock, SyncInv
  <2>3. CASE validate_and_store_block(b) /\ smQueue' = Tail(smQueue)
    BY <2>2, <2>3, BlockKeepsLinks, Zenon DEF SyncInv
  <2>4. CASE RetryBatch /\ UNCHANGED smIndex
    BY <1>1, <2>4, Zenon DEF RetryBatch
  <2>5. QED BY <1>3, <2>1, <2>3, <2>4, Zenon DEF SmBlock
<1>4. CASE SmHeader
  <2>1. PICK b : b = Head(smQueue)
    OBVIOUS
  <2>2. b \in SentBlocks /\ Tail(smQueue) \in Seq(SentBlocks)
    BY <1>4, <2>1 DEF SmHeader, SyncInv
  <2>3. CASE validate_and_store_header(b) /\ smQueue' = Tail(smQueue)
    BY <2>2, <2>3, HeaderKeepsLinks DEF SyncInv
  <2>4. CASE RetryBatch /\ UNCHANGED smIndex
    BY <1>1, <2>4 DEF RetryBatch
  <2>5. QED BY <1>4, <2>1, <2>3, <2>4, Zenon DEF SmHeader
<1>5. CASE SmNoAnswer
  BY <1>1, <1>5, Zenon DEF SmNoAnswer, RetryBatch
<1>6. CASE SmBatchDone \/ SmNothingToDo \/ SmElapse \/ \E mode \in {"blocks", "headers"} : SmStart(mode)
  BY <1>1, <1>6, Zenon DEF SmBatchDone, SmNothingToDo, SmElapse, SmStart
<1>7. CASE UNCHANGED smVars
  BY <1>1, <1>7, Zenon DEF smVars, smIndex
<1>8. QED
  BY <1>2, <1>3, <1>4, <1>5, <1>6, <1>7, Zenon DEF SmNext

\* Whatever the peers answer, and in whatever order block and header
\* synchronisations follow each other, the index up to the tip is one chain from its
\* first entry on (validate_block_header, validate_and_store_block,
\* validate_and_store_header).
THEOREM IndexIsOneChain ==
  SmSpec => []IndexLinked
<1>1. SmInit => SyncInv
  <2> SUFFICES ASSUME SmInit PROVE SyncInv
    OBVIOUS
  <2>1. smQueue = <<>> /\ smTip = 0
    BY Zenon DEF SmInit
  <2>2. <<>> \in Seq(SentBlocks)
    OBVIOUS
  <2>3. QED BY <2>1, <2>2 DEF SyncInv, IndexLinked
<1>2. SyncInv /\ [SmNext]_smVars => SyncInv'
  BY SyncStep
<1>3. SyncInv => IndexLinked
  BY Zenon DEF SyncInv
<1>4. QED
  BY <1>1, <1>2, <1>3, PTL DEF SmSpec

-----------------------------------------------------------------------------
(***************************************************************************)
(* The snapshots, for all branches, intervals and limits, and for any      *)
(* number of failed writes, crashes and restarts: what the process knew of *)
(* is found again.                                                         *)
(***************************************************************************)

\* Every snapshot of the table has its metadata on disk, and every file has the name
\* that it was written under, which is not one that a removal looks for.
SnapshotInv ==
  /\ \A h \in DOMAIN snKnown : \E f \in snFiles : f.ext = "meta" /\ f.meta.height = h
  /\ \A f \in snFiles : f.hashed = "whole"

\* Writing a snapshot adds files of the same kind, and the metadata comes with both.
LEMMA SavedFiles ==
  ASSUME NEW meta, NEW written
  PROVE  \A f \in save_snapshot(meta, written) : f.hashed = "whole"
BY DEF save_snapshot, File

LEMMA SavedMeta ==
  \A meta : \E f \in save_snapshot(meta, 2) : f.ext = "meta" /\ f.meta = meta
<1> TAKE meta
<1>1. PICK f : f = File("meta", "whole", meta)
  BY Zenon
<1>2. 2 \in 1 .. 2 /\ 2 # 1
  OBVIOUS
<1>3. f \in save_snapshot(meta, 2)
  BY <1>1, <1>2, Zenon DEF save_snapshot
<1>4. f.ext = "meta" /\ f.meta = meta
  BY <1>1, Zenon DEF File
<1>5. QED BY <1>3, <1>4, Zenon

\* The files that a cleanup looks for are named after the metadata, and none is.
LEMMA CleanupRemovesNoFile ==
  ASSUME NEW known, NEW files, \A f \in files : f.hashed = "whole"
  PROVE  /\ cleanup_old_snapshots(known, files).files = files
         /\ DOMAIN cleanup_old_snapshots(known, files).known \subseteq DOMAIN known
<1>1. \A ext, meta : File(ext, "meta", meta).hashed = "meta"
  BY Zenon DEF File
<1>2. \A ext, meta : File(ext, "meta", meta) \notin files
  BY <1>1, Zenon
<1>3. files \ UNION {{File(DataExt(known[h]), "meta", known[h]), File("meta", "meta", known[h])}
                        : h \in Oldest(known)} = files
  BY <1>2
<1>4. QED BY <1>3, Zenon DEF cleanup_old_snapshots, Without

LEMMA CreateKeeps ==
  ASSUME SnapshotInv, NEW h, NEW b, NEW written \in 0 .. 2, create_snapshot(h, b, written)
  PROVE  SnapshotInv'
<1>1. PICK meta : meta = Meta(h, b, FALSE) /\ meta.height = h
  <2>1. Meta(h, b, FALSE).height = h
    BY Zenon DEF Meta
  <2>2. QED BY <2>1, Zenon
<1>2. PICK files : files = snFiles \cup save_snapshot(meta, written)
  BY Zenon
<1>3. \A f \in files : f.hashed = "whole"
  BY <1>2, SavedFiles DEF SnapshotInv
<1>4. CASE written = 2
  <2>1. PICK known : known = Put(snKnown, h, meta)
    BY Zenon
  <2>2. snFiles' = cleanup_old_snapshots(known, files).files
        /\ snKnown' = cleanup_old_snapshots(known, files).known
    BY <1>1, <1>2, <1>4, <2>1, Zenon DEF create_snapshot
  <2>3. snFiles' = files /\ DOMAIN snKnown' \subseteq DOMAIN snKnown \cup {h}
    BY <1>3, <2>1, <2>2, CleanupRemovesNoFile DEF Put
  <2>4. \E f \in files : f.ext = "meta" /\ f.meta.height = h
    <3>1. PICK f \in save_snapshot(meta, 2) : f.ext = "meta" /\ f.meta = meta
      BY SavedMeta, Zenon
    <3>2. QED BY <1>1, <1>2, <1>4, <3>1, Zenon
  <2>5. QED BY <1>2, <1>3, <2>3, <2>4, Zenon DEF SnapshotInv
<1>5. CASE written # 2
  <2>1. snFiles' = files /\ snKnown' = snKnown
    BY <1>1, <1>2, <1>5, Zenon DEF create_snapshot, snTable
  <2>2. QED BY <1>2, <1>3, <2>1, Zenon DEF SnapshotInv
<1>6. QED BY <1>4, <1>5, Zenon

LEMMA SnapshotStep ==
  ASSUME SnapshotInv, [SnNext]_snVars
  PROVE  SnapshotInv'
<1>1. CASE UNCHANGED <<snKnown, snFiles>>
  BY <1>1, Zenon DEF SnapshotInv
<1>2. ASSUME NEW h, NEW b, SnUpdate(h, b) PROVE SnapshotInv'
  BY <1>1, <1>2, CreateKeeps, Zenon DEF SnUpdate, snTable
<1>3. ASSUME NEW written \in 0 .. 2, SnCreate(written) PROVE SnapshotInv'
  BY <1>3, CreateKeeps, Zenon DEF SnCreate
<1>4. ASSUME NEW written \in 0 .. 2, SnIncremental(written) PROVE SnapshotInv'
  <2>1. PICK meta : meta = Meta(snHeight, snRoot, TRUE) /\ meta.height = snHeight
    <3>1. Meta(snHeight, snRoot, TRUE).height = snHeight
      BY Zenon DEF Meta
    <3>2. QED BY <3>1, Zenon
  <2>2. snFiles' = snFiles \cup save_snapshot(meta, written)
        /\ snKnown' = IF written = 2 THEN Put(snKnown, snHeight, meta) ELSE snKnown
    BY <1>4, <2>1, Zenon DEF SnIncremental
  <2>3. \A f \in snFiles' : f.hashed = "whole"
    BY <2>2, SavedFiles DEF SnapshotInv
  <2>4. written = 2 => \E f \in snFiles' : f.ext = "meta" /\ f.meta.height = snHeight
    <3>1. PICK f \in save_snapshot(meta, 2) : f.ext = "meta" /\ f.meta = meta
      BY SavedMeta, Zenon
    <3>2. QED BY <2>1, <2>2, <3>1, Zenon
  <2>5. DOMAIN snKnown' \subseteq IF written = 2 THEN DOMAIN snKnown \cup {snHeight} ELSE DOMAIN snKnown
    BY <2>2, Zenon DEF Put
  <2>6. QED BY <2>2, <2>3, <2>4, <2>5 DEF SnapshotInv
<1>5. ASSUME NEW target, SnRollback(target) PROVE SnapshotInv'
  BY <1>1, <1>5, Zenon DEF SnRollback, snTable
<1>6. CASE SnCrash
  BY <1>1, <1>6, Zenon DEF SnCrash, snTable
<1>7. CASE SnRestart
  <2>1. DOMAIN snKnown' = {m.height : m \in Metas} /\ snFiles' = snFiles
    BY <1>7, Zenon DEF SnRestart, load_existing_snapshots
  <2>2. QED BY <2>1 DEF SnapshotInv, Metas
<1>8. CASE UNCHANGED snVars
  BY <1>1, <1>8, Zenon DEF snVars
<1>9. QED
  BY <1>2, <1>3, <1>4, <1>5, <1>6, <1>7, <1>8 DEF SnNext

\* A restart finds every snapshot the process knew of when it stopped, after any
\* number of failed writes, cleanups, crashes and restarts (create_snapshot,
\* cleanup_old_snapshots, load_existing_snapshots).
THEOREM SnapshotsSurviveRestart ==
  SnSpec => RestartForgetsNothing
<1>1. SnInit => SnapshotInv
  BY Zenon DEF SnInit, SnapshotInv, EmptyMap
<1>2. SnapshotInv /\ [SnNext]_snVars => SnapshotInv'
  BY SnapshotStep
<1>3. SnapshotInv /\ [SnNext]_snVars
        => [~snUp /\ snUp' => DOMAIN snKnown \subseteq DOMAIN snKnown']_snVars
  <2> SUFFICES ASSUME SnapshotInv, SnNext, ~snUp, snUp'
               PROVE  DOMAIN snKnown \subseteq DOMAIN snKnown'
    BY Zenon
  <2>1. SnRestart
    BY Zenon DEF SnNext, SnUpdate, SnCreate, SnIncremental, SnRollback, SnCrash
  <2>2. DOMAIN snKnown' = {m.height : m \in Metas}
    BY <2>1, Zenon DEF SnRestart, load_existing_snapshots
  <2>3. QED BY <2>2 DEF SnapshotInv, Metas
<1>4. QED
  BY <1>1, <1>2, <1>3, PTL DEF SnSpec, RestartForgetsNothing

-----------------------------------------------------------------------------
(***************************************************************************)
(* The cross-chain processor, for all chains, messages, federations and    *)
(* answers of the mainchain: a transaction stands in one pool at one       *)
(* place, and is gone from it once it is executed.                         *)
(***************************************************************************)

LEMMA RemainingUnrolls ==
  ASSUME NEW S, NEW s \in Seq(S), NEW accepted, NEW g, g = Remaining(s, accepted)
  PROVE  g[0] = <<>> /\ \A i \in Nat : i + 1 <= Len(s) => g[i + 1] = Keep(g[i], s[i + 1], accepted)
<1> DEFINE k == Len(s)
           next == [z \in Nat \X Seq(S) |->
                      IF z[1] + 1 <= k THEN Keep(z[2], s[z[1] + 1], accepted) ELSE z[2]]
           Solves(f) == f = [i \in 0 .. k |-> IF i = 0 THEN <<>> ELSE Keep(f[i - 1], s[i], accepted)]
<1>1. k \in Nat
  OBVIOUS
<1>2. \A i \in Nat, c \in Seq(S) : next[<<i, c>>] \in Seq(S)
  <2> SUFFICES ASSUME NEW i \in Nat, NEW c \in Seq(S) PROVE next[<<i, c>>] \in Seq(S)
    BY Zenon
  <2>1. next[<<i, c>>] = IF i + 1 <= k THEN Keep(c, s[i + 1], accepted) ELSE c
    BY Zenon
  <2>2. i + 1 <= k => s[i + 1] \in S
    OBVIOUS
  <2>3. QED BY <2>1, <2>2 DEF Keep
<1>3. <<>> \in Seq(S)
  OBVIOUS
<1>4. PICK f : Path(Seq(S), <<>>, next, k, f)
  <2> HIDE DEF next, k
  <2>1. QED BY <1>1, <1>2, <1>3, PathExists, Zenon
<1>5. f \in [0 .. k -> Seq(S)] /\ f[0] = <<>>
      /\ \A i \in 0 .. k - 1 : f[i + 1] = next[<<i, f[i]>>]
  BY <1>4, Zenon DEF Path
<1>6. \A i \in 0 .. k : i # 0 => f[i] = Keep(f[i - 1], s[i], accepted)
  <2> SUFFICES ASSUME NEW i \in 0 .. k, i # 0 PROVE f[i] = Keep(f[i - 1], s[i], accepted)
    BY Zenon
  <2>1. i - 1 \in 0 .. k - 1 /\ i - 1 \in Nat /\ (i - 1) + 1 = i /\ i <= k /\ f[i - 1] \in Seq(S)
    BY <1>1, <1>5
  <2>2. f[i] = next[<<i - 1, f[i - 1]>>]
    BY <1>5, <2>1, Zenon
  <2>3. QED BY <2>1, <2>2, Zenon
<1>7. Solves(f)
  BY <1>5, <1>6, Zenon
<1>8. g = CHOOSE h : Solves(h)
  BY Zenon DEF Remaining
<1>9. Solves(g)
  <2> HIDE DEF Solves
  <2>1. QED BY <1>7, <1>8, Zenon
<1>10. g[0] = <<>>
  BY <1>1, <1>9
<1>11. ASSUME NEW i \in Nat, i + 1 <= k
       PROVE  g[i + 1] = Keep(g[i], s[i + 1], accepted)
  BY <1>1, <1>9, <1>11
<1>12. QED BY <1>10, <1>11, Zenon

\* The transactions of a pool have different ids.
DistinctIds(s) == \A i, j \in DOMAIN s : s[i].id = s[j].id => i = j

\* The transactions among the first n of s that fail.
Failing(s, accepted, n) == {s[i] : i \in {j \in 1 .. n : ~Executes(s[j], accepted)}}

\* What goes back into the pool failed, and nothing is put back twice.
LEMMA RemainingFails ==
  ASSUME NEW S, NEW s \in Seq(S), DistinctIds(s), NEW accepted
  PROVE  /\ Remaining(s, accepted)[Len(s)] \in Seq(Failing(s, accepted, Len(s)))
         /\ DistinctIds(Remaining(s, accepted)[Len(s)])
<1>1. PICK g : g = Remaining(s, accepted)
  BY Zenon
<1>2. g[0] = <<>> /\ \A i \in Nat : i + 1 <= Len(s) => g[i + 1] = Keep(g[i], s[i + 1], accepted)
  BY <1>1, RemainingUnrolls
<1>3. PICK k \in Nat : k = Len(s)
  OBVIOUS
<1> DEFINE P == {n \in Nat : n <= k => g[n] \in Seq(Failing(s, accepted, n)) /\ DistinctIds(g[n])}
<1>4. 0 \in P
  <2>1. <<>> \in Seq(Failing(s, accepted, 0))
    OBVIOUS
  <2>2. DistinctIds(<<>>)
    BY DEF DistinctIds
  <2>3. QED BY <1>2, <2>1, <2>2, Zenon
<1>5. ASSUME NEW n \in Nat, n \in P PROVE n + 1 \in P
  <2> SUFFICES ASSUME n + 1 <= k
               PROVE  g[n + 1] \in Seq(Failing(s, accepted, n + 1)) /\ DistinctIds(g[n + 1])
    OBVIOUS
  <2>1. PICK old, new, F : old = g[n] /\ new = g[n + 1] /\ F = Failing(s, accepted, n + 1)
    BY Zenon
  <2>2. Failing(s, accepted, n) \subseteq F
    BY <2>1 DEF Failing
  <2>3. old \in Seq(Failing(s, accepted, n)) /\ DistinctIds(old)
    BY <1>5, <2>1
  <2>4. old \in Seq(F)
    BY <2>2, <2>3
  <2>5. new = Keep(old, s[n + 1], accepted)
    BY <1>2, <1>3, <2>1, Zenon
  <2>6. CASE Executes(s[n + 1], accepted)
    BY <2>1, <2>3, <2>4, <2>5, <2>6, Zenon DEF Keep
  <2>7. CASE ~Executes(s[n + 1], accepted)
    <3>1. new = Append(old, s[n + 1])
      BY <2>5, <2>7, Zenon DEF Keep
    <3>2. s[n + 1] \in F
      BY <2>1, <2>7 DEF Failing
    <3>3. new \in Seq(F)
      BY <2>4, <3>1, <3>2
    <3>4. ASSUME NEW i \in DOMAIN old PROVE old[i].id # s[n + 1].id
      <4>1. old[i] \in Failing(s, accepted, n)
        BY <2>3
      <4>2. PICK j \in 1 .. n : old[i] = s[j]
        BY <4>1, Zenon DEF Failing
      <4>3. j \in DOMAIN s /\ n + 1 \in DOMAIN s /\ j # n + 1
        BY <1>3
      <4>4. QED BY <4>2, <4>3, Zenon DEF DistinctIds
    <3>5. PICK m \in Nat : m = Len(old) /\ DOMAIN old = 1 .. m
      BY <2>4
    <3>6. DOMAIN new = 1 .. m + 1 /\ new[m + 1] = s[n + 1] /\ \A i \in 1 .. m : new[i] = old[i]
      BY <2>4, <3>1, <3>5
    <3>7. DistinctIds(new)
      <4> SUFFICES ASSUME NEW i \in 1 .. m + 1, NEW j \in 1 .. m + 1, new[i].id = new[j].id
                   PROVE  i = j
        BY <3>6, Zenon DEF DistinctIds
      <4>1. i = m + 1 \/ i \in DOMAIN old
        BY <3>5
      <4>2. j = m + 1 \/ j \in DOMAIN old
        BY <3>5
      <4>3. \A x \in DOMAIN old : new[x] = old[x]
        BY <3>5, <3>6, Zenon
      <4>4. CASE i \in DOMAIN old /\ j \in DOMAIN old
        BY <2>3, <4>3, <4>4, Zenon DEF DistinctIds
      <4>5. ~(i \in DOMAIN old /\ j = m + 1) /\ ~(j \in DOMAIN old /\ i = m + 1)
        BY <3>4, <3>6, <4>3, Zenon
      <4>6. QED BY <4>1, <4>2, <4>4, <4>5, Zenon
    <3>8. QED BY <2>1, <3>3, <3>7, Zenon
  <2>8. QED BY <2>6, <2>7, Zenon
<1>6. Nat \subseteq P
  <2> HIDE DEF P
  <2>1. QED BY <1>4, <1>5, NatInductive, Zenon
<1>7. k \in P
  BY <1>6, Zenon
<1>8. g[k] \in Seq(Failing(s, accepted, k)) /\ DistinctIds(g[k])
  BY <1>7
<1>9. QED BY <1>1, <1>3, <1>8, Zenon

SentTxs == {m.tx : m \in Messages}

\* The messages on their way are messages that were sent.
MessagesInv ==
  /\ inbox \in Seq(Messages)
  /\ \A c \in DOMAIN pending_messages : pending_messages[c] \in Seq(Messages)

\* A transaction that waits in a pool is known and not executed, and stands nowhere
\* else; one that is not executed was never submitted.
PoolsInv ==
  /\ \A c \in DOMAIN tx_pools : tx_pools[c] \in Seq(SentTxs) /\ DistinctIds(tx_pools[c])
  /\ \A c, d \in DOMAIN tx_pools : c # d => IdsOf(tx_pools[c]) \cap IdsOf(tx_pools[d]) = {}
  /\ \A c \in DOMAIN tx_pools : \A id \in IdsOf(tx_pools[c]) :
       id \in DOMAIN processed_txs /\ processed_txs[id] # "Executed"
  /\ DOMAIN submitted \subseteq DOMAIN processed_txs
  /\ \A id \in DOMAIN submitted : submitted[id] = 0 \/ (submitted[id] = 1 /\ processed_txs[id] = "Executed")

LEMMA MessagesStep ==
  ASSUME MessagesInv, [CrossNext]_crossVars
  PROVE  MessagesInv'
<1>1. CASE UNCHANGED <<inbox, pending_messages>>
  BY <1>1, Zenon DEF MessagesInv
<1>2. ASSUME NEW m \in Messages, SendMessage(m) PROVE MessagesInv'
  <2>1. PICK old : old = At(pending_messages, m.destination, <<>>)
    BY Zenon
  <2>2. old \in Seq(Messages)
    <3>1. <<>> \in Seq(Messages)
      OBVIOUS
    <3>2. QED BY <2>1, <3>1, Zenon DEF At, MessagesInv
  <2>3. Append(old, m) \in Seq(Messages)
    BY <2>2
  <2>4. pending_messages' = Put(pending_messages, m.destination, Append(old, m)) /\ inbox' = inbox
    BY <1>2, <2>1, Zenon DEF SendMessage
  <2>5. QED BY <2>3, <2>4, Zenon DEF MessagesInv, Put
<1>3. ASSUME NEW c, ReceiveMessages(c) PROVE MessagesInv'
  BY <1>3, Zenon DEF ReceiveMessages, MessagesInv, Without
<1>4. CASE inbox # <<>> /\ Take /\ pending_messages' = pending_messages
  <2>1. Tail(inbox) \in Seq(Messages)
    BY <1>4 DEF MessagesInv
  <2>2. QED BY <1>4, <2>1, Zenon DEF Take, MessagesInv
<1>5. CASE AbortProcessing
  <2>1. <<>> \in Seq(Messages)
    OBVIOUS
  <2>2. QED BY <1>5, <2>1, Zenon DEF AbortProcessing, MessagesInv
<1>6. QED
  BY <1>1, <1>2, <1>3, <1>4, <1>5, Zenon
     DEF CrossNext, crossVars, FederationChanges, ReceiveTransaction, PassOver, ExecutePendingTransactions

\* A transaction that is received is new to every pool.
LEMMA ReceiptKeeps ==
  ASSUME MessagesInv, PoolsInv, ReceiveTransaction
  PROVE  PoolsInv'
<1>1. PICK m : m = Head(inbox)
  BY Zenon
<1>2. m \in Messages /\ m.tx \in SentTxs
  BY <1>1 DEF ReceiveTransaction, MessagesInv, SentTxs
<1>3. PICK tx, dst, old : tx = m.tx /\ dst = m.destination /\ old = At(tx_pools, dst, <<>>)
  BY Zenon
<1>4. /\ tx.id \notin DOMAIN processed_txs
      /\ tx_pools' = Put(tx_pools, dst, Append(old, tx))
      /\ processed_txs' = Put(processed_txs, tx.id, "Received")
      /\ submitted' = submitted
  BY <1>1, <1>3, Zenon DEF ReceiveTransaction, Known
<1>5. /\ old \in Seq(SentTxs) /\ DistinctIds(old) /\ IdsOf(old) \subseteq DOMAIN processed_txs
      /\ \A id \in IdsOf(old) : processed_txs[id] # "Executed"
      /\ \A c \in DOMAIN tx_pools : c # dst => IdsOf(tx_pools[c]) \cap IdsOf(old) = {}
  <2>1. CASE dst \in DOMAIN tx_pools
    BY <1>3, <2>1, Zenon DEF At, PoolsInv
  <2>2. CASE dst \notin DOMAIN tx_pools
    <3>1. old = <<>>
      BY <1>3, <2>2, Zenon DEF At
    <3>2. <<>> \in Seq(SentTxs) /\ DOMAIN old = {}
      BY <3>1
    <3>3. QED BY <3>1, <3>2, Zenon DEF DistinctIds, IdsOf
  <2>3. QED BY <2>1, <2>2, Zenon
<1>6. PICK k \in Nat : k = Len(old)
  BY <1>5
<1>7. PICK new : new = Append(old, tx)
  BY Zenon
<1>8. new \in Seq(SentTxs) /\ DOMAIN new = 1 .. k + 1 /\ DOMAIN old = 1 .. k /\ new[k + 1] = tx
      /\ \A i \in 1 .. k : new[i] = old[i]
  BY <1>2, <1>3, <1>5, <1>7, <1>6
<1>9. IdsOf(new) = IdsOf(old) \cup {tx.id} /\ tx.id \notin IdsOf(old)
  <2>1. \A i \in 1 .. k + 1 : i = k + 1 \/ i \in 1 .. k
    OBVIOUS
  <2>2. k + 1 \in 1 .. k + 1 /\ \A i \in 1 .. k : i \in 1 .. k + 1
    OBVIOUS
  <2>3. QED BY <1>4, <1>5, <1>8, <2>1, <2>2, Zenon DEF IdsOf
<1>10. DistinctIds(new)
  <2> SUFFICES ASSUME NEW i \in 1 .. k + 1, NEW j \in 1 .. k + 1, new[i].id = new[j].id
               PROVE  i = j
    BY <1>8, Zenon DEF DistinctIds
  <2>1. i = k + 1 \/ i \in DOMAIN old
    BY <1>8
  <2>2. j = k + 1 \/ j \in DOMAIN old
    BY <1>8
  <2>3. \A n \in DOMAIN old : old[n].id # tx.id
    BY <1>9, Zenon DEF IdsOf
  <2>4. QED BY <1>5, <1>8, <2>1, <2>2, <2>3 DEF DistinctIds
<1>11. /\ DOMAIN tx_pools' = DOMAIN tx_pools \cup {dst} /\ tx_pools'[dst] = new
       /\ \A c \in DOMAIN tx_pools : c # dst => tx_pools'[c] = tx_pools[c]
  BY <1>4, <1>7, Zenon DEF Put
<1>12. /\ DOMAIN processed_txs' = DOMAIN processed_txs \cup {tx.id} /\ processed_txs'[tx.id] = "Received"
       /\ \A id \in DOMAIN processed_txs : processed_txs'[id] = processed_txs[id]
  BY <1>4, Zenon DEF Put
<1>13. \A c \in DOMAIN tx_pools : IdsOf(tx_pools[c]) \subseteq DOMAIN processed_txs
  BY Zenon DEF PoolsInv
<1>14. \A c \in DOMAIN tx_pools' : tx_pools'[c] \in Seq(SentTxs) /\ DistinctIds(tx_pools'[c])
  BY <1>8, <1>10, <1>11, Zenon DEF PoolsInv
<1>15. \A c \in DOMAIN tx_pools : c # dst => IdsOf(tx_pools[c]) \cap IdsOf(new) = {}
  BY <1>4, <1>5, <1>9, <1>13, Zenon
<1>16. \A c, d \in DOMAIN tx_pools' : c # d => IdsOf(tx_pools'[c]) \cap IdsOf(tx_pools'[d]) = {}
  BY <1>11, <1>15, Zenon DEF PoolsInv
<1>17. \A c \in DOMAIN tx_pools' : \A id \in IdsOf(tx_pools'[c]) :
         id \in DOMAIN processed_txs' /\ processed_txs'[id] # "Executed"
  <2>1. \A id \in IdsOf(new) : id \in DOMAIN processed_txs' /\ processed_txs'[id] # "Executed"
    BY <1>5, <1>9, <1>12, Zenon
  <2>2. QED BY <1>11, <1>12, <2>1, Zenon DEF PoolsInv
<1>18. QED
  BY <1>4, <1>12, <1>14, <1>16, <1>17, Zenon DEF PoolsInv

\* A transaction that is executed leaves its pool, and one that fails stays for a
\* retry without having been submitted (execute_pending_transactions).
LEMMA ExecutionKeeps ==
  ASSUME PoolsInv, NEW c, NEW accepted, ExecutePendingTransactions(c, accepted)
  PROVE  PoolsInv'
<1>1. PICK txs, done, kept : /\ txs = tx_pools[c] /\ done = Done(txs, accepted)
                            /\ kept = Remaining(txs, accepted)[Len(txs)]
  BY Zenon
<1>2. c \in DOMAIN tx_pools /\ Record(txs, done) /\ tx_pools' = Put(tx_pools, c, kept)
  BY <1>1, Zenon DEF ExecutePendingTransactions
<1>3. txs \in Seq(SentTxs) /\ DistinctIds(txs) /\ DOMAIN txs = 1 .. Len(txs)
  <2>1. txs \in Seq(SentTxs) /\ DistinctIds(txs)
    BY <1>1, <1>2, Zenon DEF PoolsInv
  <2>2. QED BY <2>1, PlacesOf, Zenon
<1>4. kept \in Seq(Failing(txs, accepted, Len(txs))) /\ DistinctIds(kept)
  BY <1>1, <1>3, RemainingFails, Zenon
<1>5. Failing(txs, accepted, Len(txs)) = {txs[i] : i \in DOMAIN txs \ done}
  BY <1>1, <1>3, Zenon DEF Failing, Done
<1>6. PICK F : F = {txs[i] : i \in DOMAIN txs \ done}
  BY Zenon
<1>7. kept \in Seq(F) /\ F \subseteq SentTxs
  BY <1>3, <1>4, <1>5, <1>6
<1>8. kept \in Seq(SentTxs)
  BY <1>7
<1>9. ASSUME NEW id \in IdsOf(kept)
      PROVE  id \in IdsOf(txs) /\ ~(\E i \in done : txs[i].id = id)
  <2>1. PICK n \in DOMAIN kept : id = kept[n].id
    BY <1>9, Zenon DEF IdsOf
  <2>2. kept[n] \in F
    BY <1>7, <2>1
  <2>3. PICK j \in DOMAIN txs \ done : kept[n] = txs[j]
    BY <1>6, <2>2, Zenon
  <2>4. done \subseteq DOMAIN txs
    BY <1>1, Zenon DEF Done
  <2>5. QED BY <1>3, <2>1, <2>3, <2>4, Zenon DEF DistinctIds, IdsOf
<1>10. /\ DOMAIN processed_txs' = DOMAIN processed_txs \cup IdsOf(txs)
       /\ \A id \in DOMAIN processed_txs : id \notin IdsOf(txs) => processed_txs'[id] = processed_txs[id]
       /\ \A id \in IdsOf(txs) :
            processed_txs'[id] = IF \E i \in done : txs[i].id = id THEN "Executed" ELSE "Failed"
  BY <1>2, Zenon DEF Record
<1>11. /\ DOMAIN submitted' = DOMAIN submitted \cup IdsOf(txs)
       /\ \A id \in DOMAIN submitted' : submitted'[id] = At(submitted, id, 0) + Sent(txs, done, id)
  BY <1>2, Zenon DEF Record
<1>12. IdsOf(txs) \subseteq DOMAIN processed_txs /\ \A id \in IdsOf(txs) : processed_txs[id] # "Executed"
  BY <1>1, <1>2, Zenon DEF PoolsInv
<1>13. ASSUME NEW id
       PROVE  /\ Sent(txs, done, id) \in {0, 1}
              /\ Sent(txs, done, id) = 1 => \E i \in done : txs[i].id = id
  <2>1. PICK T : T = {i \in done : txs[i].id = id /\ txs[i].destination = Mainchain}
    BY Zenon
  <2>2. done \subseteq DOMAIN txs
    BY <1>1, Zenon DEF Done
  <2>3. CASE T = {}
    BY <2>1, <2>3, FS_EmptySet DEF Sent
  <2>4. CASE T # {}
    <3>1. PICK i \in T : TRUE
      BY <2>4, Zenon
    <3>2. T = {i}
      BY <1>3, <2>1, <2>2, <3>1, Zenon DEF DistinctIds
    <3>3. Cardinality(T) = 1
      BY <3>2, FS_Singleton, Zenon
    <3>4. QED BY <2>1, <3>1, <3>3, Zenon DEF Sent
  <2>5. QED BY <2>3, <2>4, Zenon
<1>14. ASSUME NEW id \in DOMAIN submitted'
       PROVE  submitted'[id] = 0 \/ (submitted'[id] = 1 /\ processed_txs'[id] = "Executed")
  <2>1. submitted'[id] = At(submitted, id, 0) + Sent(txs, done, id)
    BY <1>11, Zenon
  <2>2. CASE id \in IdsOf(txs)
    <3>1. At(submitted, id, 0) = 0
      BY <1>12, <2>2, Zenon DEF At, PoolsInv
    <3>2. Sent(txs, done, id) = 0 \/ (Sent(txs, done, id) = 1 /\ processed_txs'[id] = "Executed")
      BY <1>10, <1>13, <2>2, Zenon
    <3>3. QED BY <2>1, <3>1, <3>2
  <2>3. CASE id \notin IdsOf(txs)
    <3>1. id \in DOMAIN submitted /\ At(submitted, id, 0) = submitted[id]
      BY <1>11, <2>3, Zenon DEF At
    <3>2. Sent(txs, done, id) = 0
      <4>1. ~\E i \in done : txs[i].id = id
        BY <1>1, <2>3, Zenon DEF IdsOf, Done
      <4>2. QED BY <1>13, <4>1, Zenon
    <3>3. processed_txs'[id] = processed_txs[id]
      BY <1>10, <2>3, <3>1, Zenon DEF PoolsInv
    <3>4. submitted[id] = 0 \/ (submitted[id] = 1 /\ processed_txs[id] = "Executed")
      BY <3>1, Zenon DEF PoolsInv
    <3>5. QED BY <2>1, <3>1, <3>2, <3>3, <3>4
  <2>4. QED BY <2>2, <2>3, Zenon
<1>15. /\ DOMAIN tx_pools' = DOMAIN tx_pools /\ tx_pools'[c] = kept
       /\ \A d \in DOMAIN tx_pools : d # c => tx_pools'[d] = tx_pools[d]
  BY <1>2, Zenon DEF Put
<1>16. \A d \in DOMAIN tx_pools' : tx_pools'[d] \in Seq(SentTxs) /\ DistinctIds(tx_pools'[d])
  BY <1>4, <1>8, <1>15, Zenon DEF PoolsInv
<1>17. IdsOf(kept) \subseteq IdsOf(txs)
  BY <1>9, Zenon
<1>18. \A d \in DOMAIN tx_pools : d # c => IdsOf(tx_pools[d]) \cap IdsOf(txs) = {}
  BY <1>1, <1>2, Zenon DEF PoolsInv
<1>19. \A d, e \in DOMAIN tx_pools' : d # e => IdsOf(tx_pools'[d]) \cap IdsOf(tx_pools'[e]) = {}
  <2>1. ASSUME NEW d \in DOMAIN tx_pools, NEW e \in DOMAIN tx_pools, d # e
        PROVE  IdsOf(tx_pools[d]) \cap IdsOf(tx_pools[e]) = {}
    BY <2>1, Zenon DEF PoolsInv
  <2>2. \A d \in DOMAIN tx_pools : d # c => IdsOf(tx_pools[d]) \cap IdsOf(kept) = {}
    BY <1>17, <1>18, Zenon
  <2>3. \A d \in DOMAIN tx_pools : d # c => IdsOf(kept) \cap IdsOf(tx_pools[d]) = {}
    BY <1>17, <1>18, Zenon
  <2>4. ASSUME NEW d \in DOMAIN tx_pools, NEW e \in DOMAIN tx_pools, d # e
        PROVE  IdsOf(tx_pools'[d]) \cap IdsOf(tx_pools'[e]) = {}
    <3>1. CASE d = c
      BY <1>15, <2>3, <2>4, <3>1, Zenon
    <3>2. CASE e = c
      BY <1>15, <2>2, <2>4, <3>2, Zenon
    <3>3. CASE d # c /\ e # c
      BY <1>15, <2>1, <2>4, <3>3, Zenon
    <3>4. QED BY <3>1, <3>2, <3>3, Zenon
  <2>5. QED BY <1>15, <2>4, Zenon
<1>20. ASSUME NEW d \in DOMAIN tx_pools', NEW id \in IdsOf(tx_pools'[d])
       PROVE  id \in DOMAIN processed_txs' /\ processed_txs'[id] # "Executed"
  <2>1. CASE d = c
    BY <1>9, <1>10, <1>15, <1>20, <2>1, Zenon
  <2>2. CASE d # c
    <3>1. id \in DOMAIN processed_txs /\ processed_txs[id] # "Executed" /\ id \notin IdsOf(txs)
      BY <1>15, <1>18, <1>20, <2>2, Zenon DEF PoolsInv
    <3>2. QED BY <1>10, <3>1, Zenon
  <2>3. QED BY <2>1, <2>2, Zenon
<1>21. DOMAIN submitted' \subseteq DOMAIN processed_txs'
  BY <1>10, <1>11, Zenon DEF PoolsInv
<1>22. QED
  BY <1>14, <1>16, <1>19, <1>20, <1>21, Zenon DEF PoolsInv

LEMMA PoolsStep ==
  ASSUME MessagesInv, PoolsInv, [CrossNext]_crossVars
  PROVE  PoolsInv'
<1>1. CASE UNCHANGED <<tx_pools, processed_txs, submitted>>
  BY <1>1, Zenon DEF PoolsInv
<1>2. CASE ReceiveTransaction
  BY <1>2, ReceiptKeeps, Zenon
<1>3. ASSUME NEW c \in Chains, NEW accepted \in SUBSET TxIds, ExecutePendingTransactions(c, accepted)
      PROVE  PoolsInv'
  BY <1>3, ExecutionKeeps, Zenon
<1>4. QED
  BY <1>1, <1>2, <1>3, Zenon
     DEF CrossNext, crossVars, FederationChanges, SendMessage, ReceiveMessages, PassOver, AbortProcessing

\* The mainchain accepts a cross-chain transaction at most once, whatever is resent,
\* retried or changed in the federations, and never one that was marked failed
\* (process_messages, execute_pending_transactions).
THEOREM CrossChainOnce ==
  CrossSpec => []SubmittedOnce
<1>1. CrossInit => MessagesInv /\ PoolsInv
  <2> SUFFICES ASSUME CrossInit PROVE MessagesInv /\ PoolsInv
    BY Zenon
  <2>1. <<>> \in Seq(Messages)
    OBVIOUS
  <2>2. QED BY <2>1, Zenon DEF CrossInit, MessagesInv, PoolsInv, EmptyMap
<1>2. MessagesInv /\ PoolsInv /\ [CrossNext]_crossVars => (MessagesInv /\ PoolsInv)'
  BY MessagesStep, PoolsStep, Zenon
<1>3. PoolsInv => SubmittedOnce
  BY DEF PoolsInv, SubmittedOnce
<1>4. QED
  BY <1>1, <1>2, <1>3, PTL DEF CrossSpec

=============================================================================
