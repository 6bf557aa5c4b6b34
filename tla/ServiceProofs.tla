--------------------------- MODULE ServiceProofs ---------------------------
(***************************************************************************)
(* Proofs about the components of Services, for all values of their        *)
(* constants.  Every behaviour of Services is, seen from one component, a  *)
(* behaviour of that component that may stutter (the View lemmas); a       *)
(* property of the component follows from an inductive invariant of its    *)
(* own actions.                                                            *)
(***************************************************************************)
EXTENDS Services, QueueLemmas, FiniteSetTheorems, TLAPS

(* What a step of Services is to each component: its own step if it is in  *)
(* focus, and rest otherwise.                                              *)
LEMMA OneMoves ==
    ASSUME [Next]_vars
    PROVE  /\ [StatusNext]_statusVars
           /\ [LoopNext]_loopVars
           /\ [InstallNext]_installVars
           /\ [FacadeNext]_facadeVars
           /\ [MonitoringNext]_monitoringVars
           /\ [LockFreeNext]_lockFreeVars
           /\ [ProcessingNext]_processingVars
           /\ [EventNext]_eventVars
           /\ [StorageNext]_storageVars
           /\ [CodecNext]_codecVars
           /\ [HistogramNext]_histogramVars
           /\ [BackupNext]_backupVars
<1>1. CASE UNCHANGED vars
  BY <1>1 DEF vars
<1>2. CASE Next
  <2>1. /\ TheOthersRest
        /\ focus = "status" => StatusNext
        /\ focus = "event loop" => LoopNext
        /\ focus = "installation" => InstallNext
        /\ focus = "facade" => FacadeNext
        /\ focus \in MonitoringParts => MonitoringNext
        /\ focus = "lock free" => LockFreeNext
        /\ focus = "processing" => ProcessingNext
        /\ focus = "events" => EventNext
        /\ focus = "storage" => StorageNext
        /\ focus = "codec" => CodecNext
        /\ focus = "latencies" => HistogramNext
        /\ focus = "backups" => BackupNext
    BY <1>2 DEF Next, StatusMove, PoolMove, LockFreeMove, HistogramMove, BreakerMove,
      RegistryMove, LoopMove, ProposalsMove, ProcessingMove, StorageMove, EventMove, DiscoveryMove,
      StreamMove, AuthMove, FacadeMove, ApiMove, ConfigMove, KvMove, StoreMove,
      KvNodeMove, CodecMove, InstallMove, DeploymentMove, BackupMove, MetricsMove,
      AlertsMove, HealthMove, SpansMove,
      MonitoringParts, MonitoringNext
  <2>. QED
    BY <2>1 DEF TheOthersRest, Rests
<1>. QED
  BY <1>1, <1>2

LEMMA StatusView == Spec => StatusInit /\ [][StatusNext]_statusVars
<1>1. Init => StatusInit
  BY DEF Init
<1>2. [Next]_vars => [StatusNext]_statusVars
  BY OneMoves
<1>. QED
  BY <1>1, <1>2, PTL DEF Spec

LEMMA LoopView == Spec => LoopInit /\ [][LoopNext]_loopVars
<1>1. Init => LoopInit
  BY DEF Init
<1>2. [Next]_vars => [LoopNext]_loopVars
  BY OneMoves
<1>. QED
  BY <1>1, <1>2, PTL DEF Spec

LEMMA InstallView == Spec => InstallInit /\ [][InstallNext]_installVars
<1>1. Init => InstallInit
  BY DEF Init
<1>2. [Next]_vars => [InstallNext]_installVars
  BY OneMoves
<1>. QED
  BY <1>1, <1>2, PTL DEF Spec

LEMMA FacadeView == Spec => FacadeInit /\ [][FacadeNext]_facadeVars
<1>1. Init => FacadeInit
  BY DEF Init
<1>2. [Next]_vars => [FacadeNext]_facadeVars
  BY OneMoves
<1>. QED
  BY <1>1, <1>2, PTL DEF Spec

LEMMA MonitoringView == Spec => MonitoringInit /\ [][MonitoringNext]_monitoringVars
<1>1. Init => MonitoringInit
  BY DEF Init
<1>2. [Next]_vars => [MonitoringNext]_monitoringVars
  BY OneMoves
<1>. QED
  BY <1>1, <1>2, PTL DEF Spec

LEMMA LockFreeView == Spec => LockFreeInit /\ [][LockFreeNext]_lockFreeVars
<1>1. Init => LockFreeInit
  BY DEF Init
<1>2. [Next]_vars => [LockFreeNext]_lockFreeVars
  BY OneMoves
<1>. QED
  BY <1>1, <1>2, PTL DEF Spec

LEMMA ProcessingView == Spec => ProcessingInit /\ [][ProcessingNext]_processingVars
<1>1. Init => ProcessingInit
  BY DEF Init
<1>2. [Next]_vars => [ProcessingNext]_processingVars
  BY OneMoves
<1>. QED
  BY <1>1, <1>2, PTL DEF Spec

LEMMA EventView == Spec => EventInit /\ [][EventNext]_eventVars
<1>1. Init => EventInit
  BY DEF Init
<1>2. [Next]_vars => [EventNext]_eventVars
  BY OneMoves
<1>. QED
  BY <1>1, <1>2, PTL DEF Spec

LEMMA CodecView == Spec => CodecInit /\ [][CodecNext]_codecVars
<1>1. Init => CodecInit
  BY DEF Init
<1>2. [Next]_vars => [CodecNext]_codecVars
  BY OneMoves
<1>. QED
  BY <1>1, <1>2, PTL DEF Spec

LEMMA HistogramView == Spec => HistogramInit /\ [][HistogramNext]_histogramVars
<1>1. Init => HistogramInit
  BY DEF Init
<1>2. [Next]_vars => [HistogramNext]_histogramVars
  BY OneMoves
<1>. QED
  BY <1>1, <1>2, PTL DEF Spec

LEMMA BackupView == Spec => BackupInit /\ [][BackupNext]_backupVars
<1>1. Init => BackupInit
  BY DEF Init
<1>2. [Next]_vars => [BackupNext]_backupVars
  BY OneMoves
<1>. QED
  BY <1>1, <1>2, PTL DEF Spec

LEMMA StorageView == Spec => StorageInit /\ [][StorageNext]_storageVars
<1>1. Init => StorageInit
  BY DEF Init
<1>2. [Next]_vars => [StorageNext]_storageVars
  BY OneMoves
<1>. QED
  BY <1>1, <1>2, PTL DEF Spec

---------------------------------------------------------------------------
(* NodeStatusActor *)

(* m is the last of the first n commands that is one of `kinds'.           *)
LastWriter(s, m, kinds, n) ==
    /\ m = 0 \/ (m \in 1..n /\ s[m] \in kinds)
    /\ \A i \in 1..n : s[i] \in kinds => i <= m

ServedSoFar == Len(sent) - Len(mailbox)

(* The mailbox holds the commands not yet served, in the order of sending; *)
(* the status and the answers hold the last writers among those before.    *)
StatusTypes ==
    /\ sent \in Seq(StatusKinds) /\ mailbox \in Seq(Nat)
    /\ Len(mailbox) <= Len(sent)
    /\ nodeStatus \in [role : Int, indexes : Int]
    /\ answers \in [StatusCallers -> [to : Int, role : Int, indexes : Int]]
    /\ callers \in [StatusCallers -> Int]

MailInOrder == \A i \in 1..Len(mailbox) : mailbox[i] = ServedSoFar + i

StatusIsLast ==
    /\ LastWriter(sent, nodeStatus.role, RoleWriters, ServedSoFar)
    /\ LastWriter(sent, nodeStatus.indexes, IndexWriters, ServedSoFar)

AnswersAreLast ==
    \A c \in StatusCallers : answers[c].to # 0 =>
        /\ answers[c].to \in 1..Len(sent)
        /\ LastWriter(sent, answers[c].role, RoleWriters, answers[c].to - 1)
        /\ LastWriter(sent, answers[c].indexes, IndexWriters, answers[c].to - 1)

StatusInv == StatusTypes /\ MailInOrder /\ StatusIsLast /\ AnswersAreLast

LEMMA LastIsUnique ==
    ASSUME NEW n \in Int, NEW m \in Int, NEW kinds, LastWriter(sent, m, kinds, n - 1)
    PROVE  m = LastOf(kinds, n)
<1>. DEFINE S == {0} \cup {i \in 1..n-1 : sent[i] \in kinds}
<1>1. m \in S /\ \A i \in S : i \in Int /\ m >= i
  BY DEF LastWriter
<1>2. ASSUME NEW k \in S, \A i \in S : k >= i PROVE k = m
  BY <1>1, <1>2
<1>. HIDE DEF S
<1>3. Max(S) = m
  BY <1>1, <1>2 DEF Max
<1>. QED
  BY <1>3 DEF S, LastOf

LEMMA LastOfMore ==
    ASSUME NEW S, NEW s \in Seq(S), NEW e \in S, NEW m, NEW kinds, NEW n \in Int, n <= Len(s),
           LastWriter(s, m, kinds, n)
    PROVE  LastWriter(Append(s, e), m, kinds, n)
<1>1. \A i \in 1..n : Append(s, e)[i] = s[i]
  BY AppendFacts
<1>. QED
  BY <1>1 DEF LastWriter

LEMMA LastOfNext ==
    ASSUME NEW s, NEW m \in Int, NEW kinds, NEW n \in Nat, n >= 1, LastWriter(s, m, kinds, n - 1)
    PROVE  LastWriter(s, IF s[n] \in kinds THEN n ELSE m, kinds, n)
<1>1. \A i \in 1..n : i = n \/ i \in 1..(n - 1)
  OBVIOUS
<1>2. CASE s[n] \in kinds
  BY <1>2 DEF LastWriter
<1>3. CASE s[n] \notin kinds
  BY <1>1, <1>3 DEF LastWriter
<1>. QED
  BY <1>2, <1>3

LEMMA SendStep ==
    ASSUME StatusInv, NEW c \in StatusCallers, NEW kind \in StatusKinds,
           SendStatusCommand(c, kind)
    PROVE  StatusInv'
<1>1. /\ sent \in Seq(StatusKinds) /\ mailbox \in Seq(Nat) /\ Len(mailbox) <= Len(sent)
      /\ sent' = Append(sent, kind) /\ mailbox' = Append(mailbox, Len(sent'))
      /\ callers' = [callers EXCEPT ![c] = Len(sent')]
      /\ answers' = answers /\ nodeStatus' = nodeStatus
  BY DEF StatusInv, StatusTypes, SendStatusCommand
<1>2. /\ Len(sent) \in Nat /\ sent' \in Seq(StatusKinds) /\ Len(sent') = Len(sent) + 1
  BY <1>1, AppendFacts
<1>3. /\ Len(mailbox) \in Nat /\ mailbox' \in Seq(Nat) /\ Len(mailbox') = Len(mailbox) + 1
      /\ \A i \in 1..Len(mailbox') :
           \/ i \in 1..Len(mailbox) /\ mailbox'[i] = mailbox[i]
           \/ i = Len(mailbox) + 1 /\ mailbox'[i] = Len(sent')
  BY <1>1, <1>2, AppendFacts
<1>4. ServedSoFar' = ServedSoFar /\ ServedSoFar \in Int /\ ServedSoFar <= Len(sent)
  BY <1>2, <1>3 DEF ServedSoFar
<1>5. StatusTypes'
  <2>1. callers' \in [StatusCallers -> Int]
    BY <1>1, <1>2 DEF StatusInv, StatusTypes
  <2>. QED
    BY <1>1, <1>2, <1>3, <2>1 DEF StatusInv, StatusTypes
<1>6. MailInOrder'
  <2>. SUFFICES ASSUME NEW i \in 1..Len(mailbox') PROVE mailbox'[i] = ServedSoFar + i
    BY <1>4 DEF MailInOrder
  <2>1. CASE i \in 1..Len(mailbox) /\ mailbox'[i] = mailbox[i]
    BY <2>1 DEF StatusInv, MailInOrder
  <2>2. CASE i = Len(mailbox) + 1 /\ mailbox'[i] = Len(sent')
    BY <1>2, <1>3, <2>2 DEF ServedSoFar
  <2>. QED
    BY <1>3, <2>1, <2>2
<1>7. StatusIsLast'
  <2>1. /\ LastWriter(sent, nodeStatus.role, RoleWriters, ServedSoFar)
        /\ LastWriter(sent, nodeStatus.indexes, IndexWriters, ServedSoFar)
    BY DEF StatusInv, StatusIsLast
  <2>2. /\ LastWriter(sent', nodeStatus.role, RoleWriters, ServedSoFar)
        /\ LastWriter(sent', nodeStatus.indexes, IndexWriters, ServedSoFar)
    BY <1>1, <1>4, <2>1, LastOfMore
  <2>. QED
    BY <1>1, <1>4, <2>2 DEF StatusIsLast
<1>8. AnswersAreLast'
  <2>. SUFFICES ASSUME NEW d \in StatusCallers, answers[d].to # 0
                PROVE  /\ answers[d].to \in 1..Len(sent')
                       /\ LastWriter(sent', answers[d].role, RoleWriters, answers[d].to - 1)
                       /\ LastWriter(sent', answers[d].indexes, IndexWriters, answers[d].to - 1)
    BY <1>1 DEF AnswersAreLast
  <2>1. /\ answers[d].to \in 1..Len(sent)
        /\ LastWriter(sent, answers[d].role, RoleWriters, answers[d].to - 1)
        /\ LastWriter(sent, answers[d].indexes, IndexWriters, answers[d].to - 1)
    BY DEF StatusInv, AnswersAreLast
  <2>2. answers[d].to - 1 \in Int /\ answers[d].to - 1 <= Len(sent)
        /\ answers[d].to \in 1..Len(sent')
    BY <1>2, <2>1
  <2>. QED
    BY <1>1, <2>1, <2>2, LastOfMore
<1>. QED
  BY <1>5, <1>6, <1>7, <1>8 DEF StatusInv

LEMMA ServeStep == ASSUME StatusInv, ServeStatus PROVE StatusInv'
<1>. DEFINE n == Head(mailbox)
<1>1. /\ sent \in Seq(StatusKinds) /\ mailbox \in Seq(Nat) /\ Len(mailbox) <= Len(sent)
      /\ nodeStatus \in [role : Int, indexes : Int]
      /\ mailbox # <<>> /\ mailbox' = Tail(mailbox) /\ sent' = sent
      /\ nodeStatus' = [role |-> IF sent[n] \in RoleWriters THEN n ELSE nodeStatus.role,
                        indexes |-> IF sent[n] \in IndexWriters THEN n ELSE nodeStatus.indexes]
      /\ answers' = [c \in StatusCallers |->
            IF callers[c] = n /\ sent[n] = "get"
            THEN [to |-> n, role |-> nodeStatus.role, indexes |-> nodeStatus.indexes]
            ELSE answers[c]]
      /\ callers' = [c \in StatusCallers |-> IF callers[c] = n THEN 0 ELSE callers[c]]
  BY DEF StatusInv, StatusTypes, ServeStatus, Written
<1>2. Len(sent) \in Nat
  BY <1>1, LenProperties
<1>3. /\ Len(mailbox) \in Nat /\ 1 \in 1..Len(mailbox) /\ n = mailbox[1] /\ n \in Nat
      /\ mailbox' \in Seq(Nat) /\ Len(mailbox') = Len(mailbox) - 1
      /\ \A i \in 1..Len(mailbox') : i + 1 \in 1..Len(mailbox) /\ mailbox'[i] = mailbox[i + 1]
  BY <1>1, TailFacts
<1>4. n = ServedSoFar + 1
  BY <1>3 DEF StatusInv, MailInOrder
<1>. HIDE DEF n
<1>5. /\ ServedSoFar' = n /\ ServedSoFar = n - 1 /\ n >= 1 /\ n <= Len(sent)
  BY <1>1, <1>2, <1>3, <1>4 DEF ServedSoFar
<1>6. /\ LastWriter(sent, nodeStatus.role, RoleWriters, n - 1)
      /\ LastWriter(sent, nodeStatus.indexes, IndexWriters, n - 1)
      /\ nodeStatus.role \in Int /\ nodeStatus.indexes \in Int
  BY <1>1, <1>5 DEF StatusInv, StatusIsLast
<1>7. StatusTypes'
  <2>1. nodeStatus' \in [role : Int, indexes : Int]
    BY <1>1, <1>3, <1>6
  <2>2. answers' \in [StatusCallers -> [to : Int, role : Int, indexes : Int]]
    BY <1>1, <1>3, <1>6 DEF StatusInv, StatusTypes
  <2>3. callers' \in [StatusCallers -> Int]
    BY <1>1, <1>3 DEF StatusInv, StatusTypes
  <2>4. Len(mailbox') <= Len(sent')
    BY <1>1, <1>2, <1>3
  <2>. QED
    BY <1>1, <1>3, <2>1, <2>2, <2>3, <2>4 DEF StatusTypes
<1>8. MailInOrder'
  <2>. SUFFICES ASSUME NEW i \in 1..Len(mailbox') PROVE mailbox'[i] = n + i
    BY <1>5 DEF MailInOrder
  <2>1. mailbox'[i] = ServedSoFar + (i + 1)
    BY <1>3 DEF StatusInv, MailInOrder
  <2>. QED
    BY <1>3, <1>5, <2>1
<1>9. StatusIsLast'
  <2>1. /\ nodeStatus'.role = IF sent[n] \in RoleWriters THEN n ELSE nodeStatus.role
        /\ nodeStatus'.indexes = IF sent[n] \in IndexWriters THEN n ELSE nodeStatus.indexes
    BY <1>1
  <2>2. /\ LastWriter(sent, nodeStatus'.role, RoleWriters, n)
        /\ LastWriter(sent, nodeStatus'.indexes, IndexWriters, n)
    BY <1>3, <1>5, <1>6, <2>1, LastOfNext
  <2>. QED
    BY <1>1, <1>5, <2>2 DEF StatusIsLast
<1>10. AnswersAreLast'
  <2>. SUFFICES ASSUME NEW c \in StatusCallers, answers'[c].to # 0
                PROVE  /\ answers'[c].to \in 1..Len(sent)
                       /\ LastWriter(sent, answers'[c].role, RoleWriters, answers'[c].to - 1)
                       /\ LastWriter(sent, answers'[c].indexes, IndexWriters, answers'[c].to - 1)
    BY <1>1 DEF AnswersAreLast
  <2>1. CASE callers[c] = n /\ sent[n] = "get"
    <3>1. /\ answers'[c].to = n /\ answers'[c].role = nodeStatus.role
          /\ answers'[c].indexes = nodeStatus.indexes
      BY <1>1, <2>1
    <3>2. n \in 1..Len(sent)
      BY <1>2, <1>3, <1>5
    <3>. QED
      BY <1>6, <3>1, <3>2
  <2>2. CASE ~(callers[c] = n /\ sent[n] = "get")
    <3>1. answers'[c] = answers[c]
      BY <1>1, <2>2
    <3>. QED
      BY <3>1 DEF StatusInv, AnswersAreLast
  <2>. QED
    BY <2>1, <2>2
<1>. QED
  BY <1>7, <1>8, <1>9, <1>10 DEF StatusInv

LEMMA StatusStep == StatusInv /\ [StatusNext]_statusVars => StatusInv'
<1>. SUFFICES ASSUME StatusInv, [StatusNext]_statusVars PROVE StatusInv'
  OBVIOUS
<1>1. ASSUME NEW c \in StatusCallers, GiveUpStatus(c) PROVE StatusInv'
  <2>1. /\ callers' = [callers EXCEPT ![c] = 0] /\ sent' = sent /\ mailbox' = mailbox
        /\ answers' = answers /\ nodeStatus' = nodeStatus
    BY <1>1 DEF GiveUpStatus
  <2>2. StatusTypes'
    BY <2>1 DEF StatusInv, StatusTypes
  <2>3. MailInOrder' /\ StatusIsLast' /\ AnswersAreLast'
    BY <2>1 DEF StatusInv, MailInOrder, StatusIsLast, AnswersAreLast, ServedSoFar
  <2>. QED
    BY <2>2, <2>3 DEF StatusInv
<1>2. CASE UNCHANGED statusVars
  BY <1>2 DEF statusVars, StatusInv, StatusTypes, MailInOrder, StatusIsLast, AnswersAreLast,
     ServedSoFar
<1>. QED
  BY <1>1, <1>2, SendStep, ServeStep DEF StatusNext

LEMMA StatusStart == StatusInit => StatusInv
<1>. SUFFICES ASSUME StatusInit PROVE StatusInv
  OBVIOUS
<1>1. sent = <<>> /\ mailbox = <<>> /\ Len(sent) = 0 /\ Len(mailbox) = 0
      /\ sent \in Seq(StatusKinds) /\ mailbox \in Seq(Nat)
  BY EmptySeq DEF StatusInit
<1>2. StatusTypes
  BY <1>1 DEF StatusInit, StatusTypes
<1>3. MailInOrder /\ AnswersAreLast
  BY <1>1 DEF StatusInit, MailInOrder, AnswersAreLast
<1>4. StatusIsLast
  BY <1>1 DEF StatusInit, StatusIsLast, LastWriter, ServedSoFar
<1>. QED
  BY <1>2, <1>3, <1>4 DEF StatusInv

LEMMA StatusCurrent == StatusInv => ReadsAreCurrent
<1>. SUFFICES ASSUME StatusInv, NEW c \in StatusCallers, answers[c].to # 0
              PROVE  /\ answers[c].role = LastOf(RoleWriters, answers[c].to)
                     /\ answers[c].indexes = LastOf(IndexWriters, answers[c].to)
  BY DEF ReadsAreCurrent
<1>1. answers[c].to \in Int /\ answers[c].role \in Int /\ answers[c].indexes \in Int
  BY DEF StatusInv, StatusTypes
<1>2. /\ LastWriter(sent, answers[c].role, RoleWriters, answers[c].to - 1)
      /\ LastWriter(sent, answers[c].indexes, IndexWriters, answers[c].to - 1)
  BY DEF StatusInv, AnswersAreLast
<1>. QED
  BY <1>1, <1>2, LastIsUnique

(* A status that get_status answers has every update sent before it, those *)
(* whose senders were told of a timeout included: the mailbox is served in *)
(* the order of sending, and a caller that gave up withdraws nothing.      *)
THEOREM StatusReads == Spec => []ReadsAreCurrent
<1>1. StatusInit => StatusInv
  BY StatusStart
<1>2. StatusInv => ReadsAreCurrent
  BY StatusCurrent
<1>. QED
  BY <1>1, <1>2, StatusStep, StatusView, PTL

---------------------------------------------------------------------------
(* SnapshotInstall *)

(* What of the open transaction is restored at each step; all of what is   *)
(* committed is of one index.                                              *)
StringRestored ==
    {"restore bytes", "restore u64", "commit tables", "apply bytes", "apply u64", "commit again"}
BytesRestored == {"restore u64", "commit tables", "apply u64", "commit again"}
U64Restored == {"commit tables", "commit again"}

TransactionInv ==
    /\ tables \in [Kinds -> Int] /\ transaction \in [Kinds -> Int]
    /\ snapshot \in Int /\ storedCommit \in Int
    /\ TablesAgree
    /\ installing \in StringRestored => transaction["string"] = snapshot
    /\ installing \in BytesRestored => transaction["bytes"] = snapshot
    /\ installing \in U64Restored => transaction["u64"] = snapshot

LEMMA IndexIsInt == \A index \in 1..MaxInstalled : index \in Int
BY InstallAssumption

LEMMA InstallStep == TransactionInv /\ [InstallNext]_installVars => TransactionInv'
<1>. SUFFICES ASSUME TransactionInv, [InstallNext]_installVars
              PROVE  TransactionInv'
  OBVIOUS
<1>. USE DEF Kinds, TransactionInv, StringRestored, BytesRestored, U64Restored
<1>1. CASE AppendRow \/ CrashInstalling
  <2>1. /\ tables' = tables /\ storedCommit' = storedCommit
        /\ snapshot' \in {snapshot, 0} /\ transaction' \in {transaction, tables}
        /\ installing' \in {"idle", "down"}
    BY <1>1 DEF AppendRow, CrashInstalling
  <2>2. TablesAgree'
    BY <2>1 DEF TablesAgree
  <2>3. installing' \notin StringRestored /\ installing' \notin BytesRestored
        /\ installing' \notin U64Restored
    BY <2>1
  <2>4. snapshot' \in Int /\ storedCommit' \in Int
    <3>1. snapshot \in Int /\ storedCommit \in Int
      OBVIOUS
    <3>. HIDE DEF TransactionInv
    <3>. QED
      BY <2>1, <3>1
  <2>. QED
    BY <2>1, <2>2, <2>3, <2>4
<1>2. CASE SaveConfiguration \/ SaveSnapshotHardState
  <2>1. /\ tables' = tables /\ storedCommit' \in {storedCommit, snapshot}
        /\ snapshot' = snapshot /\ transaction' \in {transaction, tables}
        /\ installing' \in {"save hard state", "restore string", "compact"}
    BY <1>2 DEF SaveConfiguration, SaveSnapshotHardState
  <2>2. TablesAgree'
    BY <2>1 DEF TablesAgree
  <2>3. installing' \notin StringRestored /\ installing' \notin BytesRestored
        /\ installing' \notin U64Restored
    BY <2>1
  <2>4. snapshot' \in Int /\ storedCommit' \in Int
    BY <2>1
  <2>. QED
    BY <2>1, <2>2, <2>3, <2>4
<1>3. CASE CommitRow \/ RestartInstalled
  <2>1. storedCommit' \in {storedCommit, storedCommit + 1}
    BY <1>3 DEF CommitRow, RestartInstalled
  <2>2. /\ tables' = tables /\ transaction' = transaction /\ snapshot' = snapshot
        /\ installing' = "idle"
    BY <1>3 DEF CommitRow, RestartInstalled
  <2>3. TablesAgree'
    BY <2>2 DEF TablesAgree
  <2>4. /\ installing' \notin StringRestored
        /\ installing' \notin BytesRestored /\ installing' \notin U64Restored
    BY <2>2
  <2>5. storedCommit' \in Int
    <3>1. storedCommit \in Int
      OBVIOUS
    <3>. HIDE DEF TransactionInv
    <3>. QED
      BY <2>1, <3>1
  <2>. QED
    BY <2>2, <2>3, <2>4, <2>5
<1>. DEFINE Receives(index) ==
       /\ tables' = tables /\ transaction' = transaction /\ storedCommit' = storedCommit
       /\ snapshot' = index /\ installing' = "save configuration"
<1>4. ASSUME NEW index \in 1..MaxInstalled, NEW data \in BOOLEAN, ReceiveSnapshot(index, data)
      PROVE  TransactionInv'
  <2>1. index \in Int
    BY IndexIsInt
  <2>2. Receives(index)
    BY <1>4 DEF ReceiveSnapshot
  <2>. HIDE DEF Receives
  <2>3. \A i \in Int : Receives(i) => TransactionInv'
    BY DEF Receives, TablesAgree
  <2>. QED
    BY <2>1, <2>2, <2>3
<1>4a. ASSUME NEW kind \in Kinds, NEW step, NEW next, RestoreTable(kind, step, next)
      PROVE  /\ tables' = tables /\ snapshot' = snapshot /\ storedCommit' = storedCommit
             /\ transaction' \in [Kinds -> Int] /\ transaction'[kind] = snapshot
             /\ \A k \in Kinds \ {kind} : transaction'[k] = transaction[k]
             /\ installing = step /\ installing' = next
             /\ TablesAgree'
  BY <1>4a DEF RestoreTable, CreateSnapshotData, TablesAgree
<1>5. CASE RestoreStringTable
  <2>1. RestoreTable("string", "restore string", "restore bytes")
    BY <1>5 DEF RestoreStringTable
  <2>2. installing = "restore string" /\ installing' = "restore bytes" /\ snapshot' = snapshot /\ transaction'["string"] = snapshot
    BY <1>4a, <2>1
  <2>. QED
    BY <1>4a, <2>1, <2>2
<1>6. CASE RestoreBytesTable
  <2>1. RestoreTable("bytes", "restore bytes", "restore u64")
    BY <1>6 DEF RestoreBytesTable
  <2>2. installing = "restore bytes" /\ installing' = "restore u64" /\ snapshot' = snapshot /\ transaction'["string"] = snapshot /\ transaction'["bytes"] = snapshot
    BY <1>4a, <2>1
  <2>. QED
    BY <1>4a, <2>1, <2>2
<1>7. CASE RestoreU64Table
  <2>1. RestoreTable("u64", "restore u64", "commit tables")
    BY <1>7 DEF RestoreU64Table
  <2>2. installing = "restore u64" /\ installing' = "commit tables" /\ snapshot' = snapshot /\ transaction'["string"] = snapshot /\ transaction'["bytes"] = snapshot /\ transaction'["u64"] = snapshot
    BY <1>4a, <2>1
  <2>. QED
    BY <1>4a, <2>1, <2>2
<1>8. CASE ApplyStringTable
  <2>1. RestoreTable("string", "apply string", "apply bytes")
    BY <1>8 DEF ApplyStringTable
  <2>2. installing = "apply string" /\ installing' = "apply bytes" /\ snapshot' = snapshot /\ transaction'["string"] = snapshot
    BY <1>4a, <2>1
  <2>. QED
    BY <1>4a, <2>1, <2>2
<1>9. CASE ApplyBytesTable
  <2>1. RestoreTable("bytes", "apply bytes", "apply u64")
    BY <1>9 DEF ApplyBytesTable
  <2>2. installing = "apply bytes" /\ installing' = "apply u64" /\ snapshot' = snapshot /\ transaction'["string"] = snapshot /\ transaction'["bytes"] = snapshot
    BY <1>4a, <2>1
  <2>. QED
    BY <1>4a, <2>1, <2>2
<1>10. CASE ApplyU64Table
  <2>1. RestoreTable("u64", "apply u64", "commit again")
    BY <1>10 DEF ApplyU64Table
  <2>2. installing = "apply u64" /\ installing' = "commit again" /\ snapshot' = snapshot /\ transaction'["string"] = snapshot /\ transaction'["bytes"] = snapshot /\ transaction'["u64"] = snapshot
    BY <1>4a, <2>1
  <2>. QED
    BY <1>4a, <2>1, <2>2
<1>11. CASE CommitTables \/ CommitAgain
  <2>1. tables' = transaction /\ transaction' = transaction /\ storedCommit' = storedCommit
        /\ (snapshot' = snapshot \/ snapshot' = 0) /\ installing' \in {"compact", "idle"}
    BY <1>11 DEF CommitTables, CommitAgain
  <2>2. \A k \in Kinds : transaction[k] = snapshot
    BY <1>11 DEF CommitTables, CommitAgain, Kinds
  <2>3. TablesAgree'
    BY <2>1, <2>2 DEF TablesAgree
  <2>4. installing' \notin StringRestored /\ installing' \notin BytesRestored
        /\ installing' \notin U64Restored
    BY <2>1
  <2>5. snapshot' \in Int /\ storedCommit' \in Int
    <3>1. snapshot \in Int /\ storedCommit \in Int
      OBVIOUS
    <3>. HIDE DEF TransactionInv
    <3>. QED
      BY <2>1, <3>1
  <2>. QED
    BY <2>1, <2>3, <2>4, <2>5
<1>12. CASE CompactLog
  <2>1. /\ tables' = tables /\ transaction' = tables /\ storedCommit' = storedCommit
        /\ snapshot' \in {snapshot, 0} /\ installing' \in {"apply string", "idle"}
    BY <1>12 DEF CompactLog
  <2>2. TablesAgree'
    BY <2>1 DEF TablesAgree
  <2>3. /\ installing' \notin StringRestored
        /\ installing' \notin BytesRestored /\ installing' \notin U64Restored
    BY <2>1
  <2>4. snapshot' \in Int
    <3>1. snapshot \in Int
      OBVIOUS
    <3>2. snapshot' \in {snapshot, 0}
      BY <2>1
    <3>. HIDE DEF TransactionInv
    <3>. QED
      BY <3>1, <3>2
  <2>. QED
    BY <2>1, <2>2, <2>3, <2>4
<1>13. CASE UNCHANGED installVars
  BY <1>13 DEF installVars, TablesAgree
<1>. QED
  BY <1>1, <1>2, <1>3, <1>4, <1>5, <1>6, <1>7, <1>8, <1>9, <1>10, <1>11, <1>12, <1>13 DEF InstallNext

LEMMA InstallStart == InstallInit => TransactionInv
BY DEF InstallInit, TransactionInv, TablesAgree, CreateSnapshotData,
       StringRestored, BytesRestored, U64Restored

(* The tables that a crash leaves are of one snapshot, wherever it cuts an *)
(* installation off, however many indexes and installations there are and  *)
(* whether or not a snapshot carries data:                                 *)
(* apply_snapshot, and the driver again, commit the tables together.       *)
THEOREM TablesOfOneSnapshot == Spec => []TablesAgree
<1>1. InstallInit => TransactionInv
  BY InstallStart
<1>2. TransactionInv => TablesAgree
  BY DEF TransactionInv
<1>. QED
  BY <1>1, <1>2, InstallStep, InstallView, PTL

---------------------------------------------------------------------------
(* EventLoop *)

(* A proposal in the channel is there once, and new to the loop.           *)
NewInv ==
    /\ proposalRx \in Seq(LoopProposals)
    /\ replied \in [LoopProposals -> {"nothing", "ok", "not leader"}]
    /\ \A i, j \in 1..Len(proposalRx) : proposalRx[i] = proposalRx[j] => i = j
    /\ \A i \in 1..Len(proposalRx) :
          proposalRx[i] \notin proposed /\ replied[proposalRx[i]] = "nothing"
    /\ RefusedIsNotProposed

(* What the ready function changes of a proposal raft had not taken.       *)
LEMMA ReadyAnswers ==
    ASSUME NewInv, NEW taken, NEW expected, Ready(taken, expected, replied)
    PROVE  /\ replied' \in [LoopProposals -> {"nothing", "ok", "not leader"}]
           /\ \A p \in LoopProposals :
                replied'[p] = replied[p] \/ (replied'[p] = "ok" /\ p \in taken)
BY DEF Ready, NewInv

LEMMA HandleProposalNew ==
    ASSUME NewInv, HandleProposal
    PROVE  NewInv'
<1>. DEFINE p == Head(proposalRx)
<1>1. proposalRx # <<>> /\ proposalRx \in Seq(LoopProposals) /\ proposalRx' = Tail(proposalRx)
  BY DEF HandleProposal, NewInv
<1>. DEFINE rest == Tail(proposalRx)
<1>2. /\ 1 \in 1..Len(proposalRx) /\ p = proposalRx[1] /\ p \in LoopProposals
      /\ rest \in Seq(LoopProposals) /\ Len(rest) \in Int
      /\ \A i \in 1..Len(rest) :
           i + 1 \in 1..Len(proposalRx) /\ i + 1 # 1 /\ rest[i] = proposalRx[i + 1]
           /\ rest[i] \in LoopProposals
  BY <1>1, TailFacts
<1>3a. /\ proposalRx' = rest
      /\ \/ ~isLeader /\ replied' = [replied EXCEPT ![p] = "not leader"] /\ proposed' = proposed
         \/ proposed' = proposed \cup {p} /\ Ready(proposed', waitingFor \cup {p}, replied)
         \/ proposed' = proposed /\ replied' = replied
  BY DEF HandleProposal
<1>. HIDE DEF p, rest
<1>3. p \notin proposed /\ replied[p] = "nothing"
  BY <1>2 DEF NewInv
<1>4. \A i \in 1..Len(rest) : rest[i] # p
  BY <1>2 DEF NewInv
<1>5. \A i \in 1..Len(rest) :
        /\ rest[i] \in LoopProposals
        /\ rest[i] \notin proposed /\ replied[rest[i]] = "nothing"
  BY <1>2, ZenonT(30) DEF NewInv
<1>6. \A i, j \in 1..Len(rest) : rest[i] = rest[j] => i = j
  <2>. SUFFICES ASSUME NEW i \in 1..Len(rest), NEW j \in 1..Len(rest), rest[i] = rest[j]
                PROVE  i = j
    OBVIOUS
  <2>1. /\ i + 1 \in 1..Len(proposalRx) /\ j + 1 \in 1..Len(proposalRx)
        /\ proposalRx[i + 1] = proposalRx[j + 1]
    BY <1>2
  <2>2. i + 1 = j + 1
    BY <2>1 DEF NewInv
  <2>. QED
    BY <1>2, <2>2
<1>7. CASE ~isLeader /\ replied' = [replied EXCEPT ![p] = "not leader"] /\ proposed' = proposed
  <2>1. /\ replied' \in [LoopProposals -> {"nothing", "ok", "not leader"}]
        /\ \A q \in LoopProposals :
             replied'[q] = IF q = p THEN "not leader" ELSE replied[q]
    BY <1>2, <1>7 DEF NewInv
  <2>2. RefusedIsNotProposed'
    BY <1>2, <1>3, <1>7, <2>1, ZenonT(30) DEF NewInv, RefusedIsNotProposed
  <2>3. \A i \in 1..Len(rest) :
          rest[i] \notin proposed' /\ replied'[rest[i]] = "nothing"
    BY <1>4, <1>5, <1>7, <2>1
  <2>4. proposalRx' = rest /\ rest \in Seq(LoopProposals)
    BY <1>2, <1>3a, <1>1, TailFacts DEF rest
  <2>. QED
    BY <1>6, <2>1, <2>2, <2>3, <2>4 DEF NewInv
<1>8. CASE proposed' = proposed \cup {p} /\ Ready(proposed', waitingFor \cup {p}, replied)
  <2>1. /\ replied' \in [LoopProposals -> {"nothing", "ok", "not leader"}]
        /\ \A q \in LoopProposals :
             replied'[q] = replied[q] \/ (replied'[q] = "ok" /\ q \in proposed')
    BY <1>8, ReadyAnswers
  <2>2. \A i \in 1..Len(rest) : rest[i] \notin proposed' /\ replied'[rest[i]] = "nothing"
    BY <1>4, <1>5, <1>8, <2>1
  <2>3. \A q \in LoopProposals : replied[q] = "not leader" => q \notin proposed /\ q # p
    BY <1>3 DEF NewInv, RefusedIsNotProposed
  <2>4. RefusedIsNotProposed'
    BY <1>8, <2>1, <2>3 DEF RefusedIsNotProposed
  <2>5. proposalRx' = rest
    BY <1>3a
  <2>6. \A i, j \in 1..Len(proposalRx') : proposalRx'[i] = proposalRx'[j] => i = j
    BY <1>6, <2>5
  <2>7. \A i \in 1..Len(proposalRx') :
          proposalRx'[i] \notin proposed' /\ replied'[proposalRx'[i]] = "nothing"
    BY <2>2, <2>5
  <2>8. proposalRx' \in Seq(LoopProposals)
    BY <1>2, <2>5
  <2>. QED
    BY <2>1, <2>4, <2>6, <2>7, <2>8 DEF NewInv
<1>9. CASE proposed' = proposed /\ replied' = replied
  BY <1>3a, <1>2, <1>3, <1>4, <1>5, <1>6, <1>9 DEF NewInv, RefusedIsNotProposed
<1>. QED
  BY <1>3a, <1>7, <1>8, <1>9

LEMMA LoopStep == NewInv /\ [LoopNext]_loopVars => NewInv'
<1>. SUFFICES ASSUME NewInv, [LoopNext]_loopVars
              PROVE  NewInv'
  OBVIOUS
<1>1. ASSUME NEW p \in LoopProposals, SendProposal(p)
      PROVE  NewInv'
  <2>. DEFINE more == Append(proposalRx, p)
  <2>1. proposalRx \in Seq(LoopProposals) /\ proposalRx' = more
    BY <1>1 DEF NewInv, SendProposal
  <2>2. more \in Seq(LoopProposals) /\ Len(proposalRx) \in Nat
    BY <2>1, AppendFacts
  <2>3. \A i \in 1..Len(more) :
          \/ i \in 1..Len(proposalRx) /\ more[i] = proposalRx[i]
          \/ i = Len(proposalRx) + 1 /\ more[i] = p
    BY <2>1, AppendFacts
  <2>. HIDE DEF more
  <2>4. \A i \in 1..Len(proposalRx) : proposalRx[i] # p
    BY <1>1 DEF SendProposal
  <2>5. \A i, j \in 1..Len(more) : more[i] = more[j] => i = j
    BY <2>2, <2>3, <2>4 DEF NewInv
  <2>6. \A i \in 1..Len(more) : more[i] \notin proposed /\ replied[more[i]] = "nothing"
    BY <1>1, <2>3 DEF NewInv, SendProposal
  <2>. QED
    BY <1>1, <2>1, <2>2, <2>5, <2>6 DEF NewInv, SendProposal, RefusedIsNotProposed
<1>2. CASE HandleProposal
  BY <1>2, HandleProposalNew
<1>3. CASE HandleTick \/ HandleMessage
  <2>1. proposalRx' = proposalRx /\ proposed' = proposed
    BY <1>3 DEF HandleTick, HandleMessage
  <2>2. Ready(proposed, waitingFor, replied) \/ replied' = replied
    BY <1>3 DEF HandleTick, HandleMessage
  <2>3. /\ replied' \in [LoopProposals -> {"nothing", "ok", "not leader"}]
        /\ \A q \in LoopProposals :
             replied'[q] = replied[q] \/ (replied'[q] = "ok" /\ q \in proposed)
    BY <2>2, ReadyAnswers DEF NewInv
  <2>4. \A i \in 1..Len(proposalRx) : proposalRx[i] \in LoopProposals
    BY ElementOfSeq DEF NewInv
  <2>5. \A i \in 1..Len(proposalRx) :
          proposalRx[i] \notin proposed /\ replied'[proposalRx[i]] = "nothing"
    BY <2>3, <2>4 DEF NewInv
  <2>6. RefusedIsNotProposed'
    BY <2>1, <2>3 DEF NewInv, RefusedIsNotProposed
  <2>. QED
    BY <2>1, <2>3, <2>5, <2>6 DEF NewInv
<1>4. CASE SendToLoop \/ HandleConfChange \/ UNCHANGED loopVars
  <2>1. proposalRx' = proposalRx /\ proposed' = proposed /\ replied' = replied
    BY <1>4 DEF SendToLoop, HandleConfChange, loopVars
  <2>. QED
    BY <2>1 DEF NewInv, RefusedIsNotProposed
<1>. QED
  BY <1>1, <1>2, <1>3, <1>4 DEF LoopNext

LEMMA LoopStart == ASSUME LoopInit PROVE NewInv
<1>1. proposalRx \in Seq(LoopProposals) /\ Len(proposalRx) = 0
  BY EmptySeq DEF LoopInit
<1>. QED
  BY <1>1 DEF LoopInit, NewInv, RefusedIsNotProposed

(* A refused proposer can rely on it: raft does not have its proposal, not *)
(* even if the node leads again before the loop ends.                      *)
THEOREM Refusals == Spec => []RefusedIsNotProposed
<1>1. LoopInit => NewInv
  BY LoopStart
<1>2. NewInv => RefusedIsNotProposed
  BY DEF NewInv
<1>. QED
  BY <1>1, <1>2, LoopStep, LoopView, PTL

---------------------------------------------------------------------------
(* ClusterFacade *)

From == FacadeCallers \cup {"gone"}
Commanded == SharedCommands \cup AloneCommands
FacadeCallRecord == [running : BOOLEAN, kind : Commanded \cup {"none"},
         answer : {"none", "value", "not implemented", "closed"}]

(* A command in the channel is that of the one running call that waits for *)
(* it, or of a call that was given up.                                     *)
FacadeInv ==
    /\ commands \in Seq([kind : Commanded, from : From])
    /\ facadeCalls \in [FacadeCallers -> FacadeCallRecord]
    /\ \A i \in 1..Len(commands) :
          commands[i].from \in FacadeCallers =>
            /\ facadeCalls[commands[i].from].running
            /\ commands[i].kind = facadeCalls[commands[i].from].kind
            /\ \A j \in 1..Len(commands) : commands[j].from = commands[i].from => i = j
    /\ \A c \in FacadeCallers : facadeCalls[c].running => owned /\ facadeCalls[c].answer = "none"
    /\ clusterTask # "running" => ~owned
    /\ NoCallIsCutOff

LEMMA FacadeStart == FacadeInit => FacadeInv
<1>. SUFFICES ASSUME FacadeInit PROVE FacadeInv
  OBVIOUS
<1>1. commands \in Seq([kind : Commanded, from : From]) /\ Len(commands) = 0
  BY EmptySeq DEF FacadeInit
<1>2. facadeCalls \in [FacadeCallers -> FacadeCallRecord]
      /\ \A c \in FacadeCallers : ~facadeCalls[c].running /\ facadeCalls[c].answer = "none"
  BY DEF FacadeInit, FacadeCallRecord
<1>. QED
  BY <1>1, <1>2 DEF FacadeInit, FacadeInv, NoCallIsCutOff

LEMMA CallStep ==
    ASSUME FacadeInv, NEW c \in FacadeCallers, NEW kind \in Commanded,
           FacadeCall(c, kind)
    PROVE  FacadeInv'
<1>. DEFINE m == [kind |-> kind, from |-> c]
            more == Append(commands, m)
            Cmd == [kind : Commanded, from : From]
<1>1. commands \in Seq(Cmd) /\ m \in Cmd /\ m.from = c /\ m.kind = kind 
  BY DEF FacadeInv, From
<1>2. /\ commands' = more /\ ~facadeCalls[c].running /\ owned
      /\ facadeCalls' = [facadeCalls EXCEPT ![c] = [running |-> TRUE, kind |-> kind, answer |-> "none"]]
      /\ owned' = owned /\ clusterTask' = clusterTask
  BY DEF FacadeCall, Running
<1>. HIDE DEF m, Cmd
<1>3. /\ more \in Seq(Cmd) /\ Len(commands) \in Nat
      /\ \A i \in 1..Len(more) :
           \/ i \in 1..Len(commands) /\ more[i] = commands[i] /\ commands[i] \in Cmd
           \/ i = Len(commands) + 1 /\ more[i] = m
  BY <1>1, AppendFacts
<1>. HIDE DEF more
<1>4. \A i \in 1..Len(commands) : commands[i].from # c
  BY <1>2 DEF FacadeInv
<1>5. /\ facadeCalls' \in [FacadeCallers -> FacadeCallRecord]
      /\ facadeCalls'[c].running /\ facadeCalls'[c].kind = kind /\ facadeCalls'[c].answer = "none"
      /\ \A d \in FacadeCallers : d # c => facadeCalls'[d] = facadeCalls[d]
  BY <1>1, <1>2 DEF FacadeInv, FacadeCallRecord
<1>6. ASSUME NEW i \in 1..Len(more), more[i].from \in FacadeCallers
      PROVE  /\ facadeCalls'[more[i].from].running
             /\ more[i].kind = facadeCalls'[more[i].from].kind
             /\ \A j \in 1..Len(more) : more[j].from = more[i].from => i = j
  <2>1. CASE i \in 1..Len(commands) /\ more[i] = commands[i]
    <3>1. commands[i].from # c /\ facadeCalls'[more[i].from] = facadeCalls[commands[i].from]
      BY <1>4, <1>5, <1>6, <2>1
    <3>2. \A j \in 1..Len(more) : more[j].from = more[i].from => j \in 1..Len(commands) /\ more[j] = commands[j]
      BY <1>1, <1>3, <2>1, <3>1
    <3>. QED
      BY <1>6, <2>1, <3>1, <3>2 DEF FacadeInv
  <2>2. CASE i = Len(commands) + 1 /\ more[i] = m
    BY <1>1, <1>3, <1>4, <1>5, <2>2
  <2>. QED
    BY <1>3, <2>1, <2>2
<1>7. \A d \in FacadeCallers : facadeCalls'[d].running => owned' /\ facadeCalls'[d].answer = "none"
  BY <1>2, <1>5 DEF FacadeInv
<1>8. NoCallIsCutOff'
  BY <1>5 DEF FacadeInv, NoCallIsCutOff
<1>9. clusterTask' # "running" => ~owned'
  BY <1>2 DEF FacadeInv
<1>. QED
  BY <1>2, <1>3, <1>5, <1>6, <1>7, <1>8, <1>9 DEF FacadeInv, Cmd

LEMMA CancelStep ==
    ASSUME FacadeInv, NEW c \in FacadeCallers, Cancel(c)
    PROVE  FacadeInv'
<1>. DEFINE Cmd == [kind : Commanded, from : From]
<1>1. commands \in Seq(Cmd) /\ DOMAIN commands = 1..Len(commands) /\ Len(commands) \in Nat
      /\ \A i \in 1..Len(commands) : commands[i] \in Cmd
  BY LenProperties, ElementOfSeq DEF FacadeInv
<1>2. \A i \in 1..Len(commands) :
        /\ commands'[i] \in Cmd
        /\ commands'[i].kind = commands[i].kind
        /\ commands'[i].from = IF commands[i].from = c THEN "gone" ELSE commands[i].from
  BY <1>1 DEF Cancel, From
<1>3. commands' \in Seq(Cmd) /\ Len(commands') = Len(commands)
  <2>1. commands' \in [1..Len(commands) -> Cmd]
    BY <1>1, <1>2 DEF Cancel
  <2>. QED
    BY <1>1, <2>1, FunctionIsSeq
<1>4. /\ facadeCalls' \in [FacadeCallers -> FacadeCallRecord]
      /\ ~facadeCalls'[c].running
      /\ \A d \in FacadeCallers : /\ d # c => facadeCalls'[d] = facadeCalls[d]
                                  /\ facadeCalls'[d].kind = facadeCalls[d].kind
                                  /\ facadeCalls'[d].answer = facadeCalls[d].answer
  <2>1. facadeCalls \in [FacadeCallers -> FacadeCallRecord]
        /\ facadeCalls' = [facadeCalls EXCEPT ![c].running = FALSE]
    BY DEF Cancel, FacadeInv
  <2>2. [facadeCalls[c] EXCEPT !.running = FALSE] \in FacadeCallRecord
        /\ ~[facadeCalls[c] EXCEPT !.running = FALSE].running
        /\ [facadeCalls[c] EXCEPT !.running = FALSE].kind = facadeCalls[c].kind
        /\ [facadeCalls[c] EXCEPT !.running = FALSE].answer = facadeCalls[c].answer
    BY <2>1 DEF FacadeCallRecord
  <2>. QED
    BY <2>1, <2>2
<1>5. "gone" \notin FacadeCallers
  BY FacadeAssumption
<1>6. ASSUME NEW i \in 1..Len(commands'), commands'[i].from \in FacadeCallers
      PROVE  /\ facadeCalls'[commands'[i].from].running
             /\ commands'[i].kind = facadeCalls'[commands'[i].from].kind
             /\ \A j \in 1..Len(commands') : commands'[j].from = commands'[i].from => i = j
  <2>1. commands[i].from # c /\ commands'[i].from = commands[i].from
        /\ facadeCalls'[commands'[i].from] = facadeCalls[commands[i].from]
    BY <1>2, <1>3, <1>4, <1>5, <1>6
  <2>2. \A j \in 1..Len(commands') : commands'[j].from = commands'[i].from => commands[j].from = commands[i].from
    BY <1>2, <1>3, <1>5, <1>6, <2>1
  <2>. QED
    BY <1>2, <1>3, <1>6, <2>1, <2>2 DEF FacadeInv
<1>7. \A d \in FacadeCallers : facadeCalls'[d].running => owned' /\ facadeCalls'[d].answer = "none"
  BY <1>4 DEF FacadeInv, Cancel
<1>8. NoCallIsCutOff'
  BY <1>4 DEF FacadeInv, NoCallIsCutOff, AnswerTo
<1>9. clusterTask' # "running" => ~owned'
  BY DEF FacadeInv, Cancel
<1>. QED
  BY <1>3, <1>4, <1>6, <1>7, <1>8, <1>9 DEF FacadeInv

LEMMA HandleStep ==
    ASSUME FacadeInv, Handle
    PROVE  FacadeInv'
<1>. DEFINE Cmd == [kind : Commanded, from : From]
            m == Head(commands)
            rest == Tail(commands)
<1>1. commands \in Seq(Cmd) /\ commands # <<>>
  BY DEF FacadeInv, Handle
<1>2. /\ 1 \in 1..Len(commands) /\ m = commands[1] /\ m \in Cmd
      /\ rest \in Seq(Cmd)
      /\ \A i \in 1..Len(rest) : i + 1 \in 1..Len(commands) /\ i + 1 # 1 /\ rest[i] = commands[i + 1]
  BY <1>1, TailFacts
<1>3. /\ commands' = rest /\ owned' = owned /\ clusterTask' = clusterTask
      /\ facadeCalls' = IF m.from = "gone" THEN facadeCalls
           ELSE [facadeCalls EXCEPT ![m.from] =
                   [running |-> FALSE, kind |-> @.kind, answer |-> AnswerTo(m.kind)]]
  BY DEF Handle
<1>. HIDE DEF m, rest
<1>4. m.from \in FacadeCallers \/ m.from = "gone"
  BY <1>2 DEF From
<1>5. m.from \in FacadeCallers => m.kind = facadeCalls[m.from].kind
  BY <1>2 DEF FacadeInv
<1>6. \A i \in 1..Len(rest) : rest[i].from \in FacadeCallers => rest[i].from # m.from
  BY <1>2 DEF FacadeInv
<1>7. /\ facadeCalls' \in [FacadeCallers -> FacadeCallRecord]
      /\ \A d \in FacadeCallers :
           /\ d # m.from => facadeCalls'[d] = facadeCalls[d]
           /\ d = m.from => /\ ~facadeCalls'[d].running /\ facadeCalls'[d].kind = facadeCalls[d].kind
                            /\ facadeCalls'[d].answer = AnswerTo(m.kind)
  <2>1. AnswerTo(m.kind) \in {"value", "not implemented"}
    BY DEF AnswerTo
  <2>2. CASE m.from = "gone"
    BY <1>3, <2>2, FacadeAssumption DEF FacadeInv
  <2>3. CASE m.from \in FacadeCallers
    BY <1>3, <2>1, <2>3, FacadeAssumption DEF FacadeInv, FacadeCallRecord
  <2>. QED
    BY <1>4, <2>2, <2>3
<1>8. ASSUME NEW i \in 1..Len(rest), rest[i].from \in FacadeCallers
      PROVE  /\ facadeCalls'[rest[i].from].running
             /\ rest[i].kind = facadeCalls'[rest[i].from].kind
             /\ \A j \in 1..Len(rest) : rest[j].from = rest[i].from => i = j
  <2>1. facadeCalls'[rest[i].from] = facadeCalls[rest[i].from]
    BY <1>6, <1>7, <1>8
  <2>2. /\ facadeCalls[rest[i].from].running /\ rest[i].kind = facadeCalls[rest[i].from].kind
        /\ \A j \in 1..Len(commands) : commands[j].from = rest[i].from => j = i + 1
    BY <1>2, <1>8 DEF FacadeInv
  <2>3. ASSUME NEW j \in 1..Len(rest), rest[j].from = rest[i].from
        PROVE  i = j
    <3>1. j + 1 = i + 1 /\ i \in Int /\ j \in Int
      BY <1>2, <2>2, <2>3
    <3>. QED
      BY <3>1
  <2>. QED
    BY <2>1, <2>2, <2>3
<1>9. \A d \in FacadeCallers : facadeCalls'[d].running => owned' /\ facadeCalls'[d].answer = "none"
  BY <1>3, <1>7 DEF FacadeInv
<1>10. NoCallIsCutOff'
  <2>. SUFFICES ASSUME NEW d \in FacadeCallers, facadeCalls'[d].answer # "none"
                PROVE  facadeCalls'[d].answer = AnswerTo(facadeCalls'[d].kind)
    BY DEF NoCallIsCutOff
  <2>1. CASE d = m.from
    BY <1>5, <1>7, <2>1
  <2>2. CASE d # m.from
    <3>1. facadeCalls'[d] = facadeCalls[d]
      BY <1>7, <2>2
    <3>. QED
      BY <3>1 DEF FacadeInv, NoCallIsCutOff
  <2>. QED
    BY <2>1, <2>2
<1>11. clusterTask' # "running" => ~owned'
  BY <1>3 DEF FacadeInv
<1>. QED
  BY <1>2, <1>3, <1>7, <1>8, <1>9, <1>10, <1>11 DEF FacadeInv

LEMMA FacadeStep == FacadeInv /\ [FacadeNext]_facadeVars => FacadeInv'
<1>. SUFFICES ASSUME FacadeInv, [FacadeNext]_facadeVars
              PROVE  FacadeInv'
  OBVIOUS
<1>1. CASE Shutdown
  BY <1>1 DEF Shutdown, Running, FacadeInv, NoCallIsCutOff, AnswerTo
<1>2. CASE StopTask
  <2>1. ~owned /\ \A c \in FacadeCallers : ~facadeCalls[c].running
    BY <1>2 DEF StopTask, FacadeInv
  <2>2. facadeCalls' = facadeCalls
    BY <1>2, <2>1 DEF StopTask, Running, FacadeInv
  <2>3. commands' \in Seq([kind : Commanded, from : From]) /\ Len(commands') = 0
    BY <1>2, EmptySeq DEF StopTask
  <2>4. owned' = owned
    BY <1>2 DEF StopTask
  <2>5. NoCallIsCutOff'
    BY <2>2 DEF FacadeInv, NoCallIsCutOff
  <2>. QED
    BY <2>1, <2>2, <2>3, <2>4, <2>5 DEF FacadeInv
<1>3. CASE UNCHANGED facadeVars
  BY <1>3 DEF facadeVars, FacadeInv, NoCallIsCutOff, AnswerTo
<1>. QED
  BY <1>1, <1>2, <1>3, CallStep, CancelStep, HandleStep DEF FacadeNext, Commanded

(* shutdown takes the cluster by value, so no call waits for an answer     *)
(* when its task stops: however many callers and commands there are, a     *)
(* call that ended has the answer to its own command.                      *)
THEOREM CallsAreAnswered == Spec => []NoCallIsCutOff
<1>1. FacadeInit => FacadeInv
  BY FacadeStart
<1>2. FacadeInv => NoCallIsCutOff
  BY DEF FacadeInv
<1>. QED
  BY <1>1, <1>2, FacadeStep, FacadeView, PTL

---------------------------------------------------------------------------
(* Monitoring *)

ExportInv ==
    /\ exporting \in [Monitors -> [at : {"idle", "raft", "system"}, read : [raft : Int, uptime : Int]]]
    /\ raftMetrics \in Int /\ systemMetrics \in [uptime : Int, cpu : Int]
    /\ \A m \in Monitors : exporting[m].at \in {"raft", "system"} => exporting[m].read.raft = raftMetrics
    /\ ExportIsOfOneMoment

LEMMA ExportStep == ExportInv /\ [MonitoringNext]_monitoringVars => ExportInv'
<1>. SUFFICES ASSUME ExportInv, [MonitoringNext]_monitoringVars
              PROVE  ExportInv'
  OBVIOUS
<1>1. ASSUME NEW m \in Monitors, CollectRaft(m)
      PROVE  ExportInv'
  BY <1>1 DEF CollectRaft, IsRead, Holds, ExportInv, ExportIsOfOneMoment
<1>2. ASSUME NEW m \in Monitors, NEW cpu \in {35, 55}, CollectSystem(m, cpu)
      PROVE  ExportInv'
  <2>1. /\ \A n \in Monitors : exporting[n].at # "system"
        /\ systemMetrics' = [uptime |-> systemMetrics.uptime + 1, cpu |-> cpu]
        /\ UNCHANGED <<raftMetrics, exporting>>
    BY <1>2 DEF CollectSystem, IsRead, Holds
  <2>2. systemMetrics.uptime + 1 \in Int /\ cpu \in Int
    BY DEF ExportInv
  <2>3. systemMetrics' \in [uptime : Int, cpu : Int]
    BY <2>1, <2>2
  <2>. QED
    BY <2>1, <2>3 DEF ExportInv, ExportIsOfOneMoment
<1>3. ASSUME NEW m \in Monitors, ExportRaft(m)
      PROVE  ExportInv'
  BY <1>3 DEF ExportRaft, metricVars, ExportInv, ExportIsOfOneMoment
<1>4. ASSUME NEW m \in Monitors, ExportSystem(m)
      PROVE  ExportInv'
  BY <1>4 DEF ExportSystem, metricVars, ExportInv, ExportIsOfOneMoment
<1>5. ASSUME NEW m \in Monitors, ReturnExport(m)
      PROVE  ExportInv'
  BY <1>5 DEF ReturnExport, metricVars, ExportInv, ExportIsOfOneMoment
<1>6. CASE UNCHANGED <<raftMetrics, systemMetrics, exporting>>
  BY <1>6 DEF ExportInv, ExportIsOfOneMoment
<1>7. AlertsNext \/ HealthNext \/ SpansNext \/ UNCHANGED monitoringVars
        => UNCHANGED <<raftMetrics, systemMetrics, exporting>>
  BY DEF AlertsNext, HealthNext, SpansNext, monitoringVars, IncrementCounter, SetGauge,
         UpdateAlerts, EvaluateRule, CheckHealth, StartSpan, FinishSpan, AddToSpan,
         metricVars
<1>. QED
  BY <1>1, <1>2, <1>3, <1>4, <1>5, <1>6, <1>7 DEF MonitoringNext, MetricsNext

AlertInv ==
    /\ activeAlerts \in Seq([name : Rules, ended : BOOLEAN])
    /\ \A e \in Monitors : evaluation[e] # NoRule => evaluation[e].rule \in Rules
    /\ OneActiveAlert

LEMMA UpdateOne ==
    ASSUME AlertInv, NEW e \in Monitors, UpdateAlerts(e)
    PROVE  AlertInv'
<1>. DEFINE Alert == [name : Rules, ended : BOOLEAN]
            name == evaluation[e].rule
            alert == [name |-> name, ended |-> FALSE]
            more == Append(activeAlerts, alert)
<1>1. /\ evaluation[e] # NoRule /\ activeAlerts \in Seq(Alert)
      /\ name \in Rules /\ alert \in Alert
  BY DEF UpdateAlerts, AlertInv
<1>2. \A f \in Monitors : evaluation'[f] # NoRule => evaluation'[f].rule \in Rules
  BY DEF UpdateAlerts, AlertInv
<1>3. DOMAIN activeAlerts = 1..Len(activeAlerts) /\ Len(activeAlerts) \in Nat
  BY <1>1, LenProperties
<1>4. CASE ActiveAlerts(name) = {} /\ activeAlerts' = more
  <2>1. /\ more \in Seq(Alert) /\ DOMAIN more = 1..Len(more)
        /\ \A i \in 1..Len(more) :
             \/ i \in 1..Len(activeAlerts) /\ more[i] = activeAlerts[i]
             \/ i = Len(activeAlerts) + 1 /\ more[i] = alert
    BY <1>1, AppendFacts, LenProperties
  <2>. HIDE DEF more
  <2>2. ASSUME NEW rule \in Rules, NEW i \in DOMAIN more, NEW j \in DOMAIN more,
               more[i] = [name |-> rule, ended |-> FALSE],
               more[j] = [name |-> rule, ended |-> FALSE]
        PROVE  i = j
    <3>1. CASE rule = name
      <4>1. \A k \in 1..Len(activeAlerts) : activeAlerts[k] # alert
        BY <1>3, <1>4 DEF ActiveAlerts
      <4>2. more[i] = alert /\ more[j] = alert /\ i \in 1..Len(more) /\ j \in 1..Len(more)
        BY <2>1, <2>2, <3>1
      <4>. HIDE DEF alert
      <4>3. i = Len(activeAlerts) + 1 /\ j = Len(activeAlerts) + 1
        BY <2>1, <4>1, <4>2
      <4>. QED
        BY <4>3
    <3>2. CASE rule # name
      <4>1. more[i] # alert /\ more[j] # alert
        BY <2>2, <3>2
      <4>2. i \in ActiveAlerts(rule) /\ j \in ActiveAlerts(rule)
        BY <1>3, <2>1, <2>2, <4>1 DEF ActiveAlerts
      <4>. QED
        BY <4>2 DEF AlertInv, OneActiveAlert
    <3>. QED
      BY <3>1, <3>2
  <2>3. OneActiveAlert'
    BY <1>4, <2>2 DEF OneActiveAlert, ActiveAlerts
  <2>. QED
    BY <1>2, <1>4, <2>1, <2>3 DEF AlertInv
<1>5. ASSUME NEW i \in ActiveAlerts(name), activeAlerts' = [activeAlerts EXCEPT ![i] = [name |-> name, ended |-> TRUE]]
      PROVE  AlertInv'
  <2>1. i \in 1..Len(activeAlerts) /\ activeAlerts[i] = alert
    BY <1>3, <1>5 DEF ActiveAlerts
  <2>3. activeAlerts' \in Seq(Alert)
    BY <1>1, <1>5, <2>1, ExceptSeq
  <2>4. \A rule \in Rules : ActiveAlerts(rule)' \subseteq ActiveAlerts(rule)
    BY <1>3, <1>5, <2>1 DEF ActiveAlerts
  <2>5. OneActiveAlert'
    BY <2>4 DEF AlertInv, OneActiveAlert
  <2>. QED
    BY <1>2, <2>3, <2>5 DEF AlertInv
<1>6. CASE activeAlerts' = activeAlerts
  BY <1>2, <1>6 DEF AlertInv, OneActiveAlert, ActiveAlerts
<1>. QED
  BY <1>4, <1>5, <1>6 DEF UpdateAlerts

LEMMA AlertStep == AlertInv /\ [MonitoringNext]_monitoringVars => AlertInv'
<1>. SUFFICES ASSUME AlertInv, [MonitoringNext]_monitoringVars
              PROVE  AlertInv'
  OBVIOUS
<1>1. ASSUME NEW e \in Monitors, UpdateAlerts(e)
      PROVE  AlertInv'
  BY <1>1, UpdateOne
<1>2. ASSUME NEW e \in Monitors, NEW rule \in Rules, EvaluateRule(e, rule)
      PROVE  AlertInv'
  BY <1>2 DEF EvaluateRule, AlertInv, OneActiveAlert, ActiveAlerts, NoRule
<1>3. CASE UNCHANGED alertVars
  BY <1>3 DEF alertVars, AlertInv, OneActiveAlert, ActiveAlerts
<1>4. MetricsNext \/ HealthNext \/ SpansNext \/ IncrementCounter
        \/ (\E value \in 0..FailuresLimit : SetGauge(value)) \/ UNCHANGED monitoringVars
        => UNCHANGED alertVars
  BY DEF MetricsNext, HealthNext, SpansNext, CollectRaft, CollectSystem, ExportRaft,
         ExportSystem, ReturnExport, IncrementCounter, SetGauge, CheckHealth, StartSpan,
         FinishSpan, AddToSpan, alertVars, monitoringVars
<1>. QED
  BY <1>1, <1>2, <1>3, <1>4 DEF MonitoringNext, AlertsNext

LEMMA MonitoringStart == MonitoringInit => ExportInv /\ AlertInv
<1>1. MonitoringInit => ExportInv
  BY DEF MonitoringInit, ExportInv, ExportIsOfOneMoment, NoExport
<1>2. MonitoringInit => activeAlerts \in Seq([name : Rules, ended : BOOLEAN]) /\ DOMAIN activeAlerts = {}
  BY EmptySeq, LenProperties DEF MonitoringInit
<1>3. MonitoringInit => AlertInv
  BY <1>2 DEF MonitoringInit, AlertInv, OneActiveAlert, ActiveAlerts, NoRule
<1>. QED
  BY <1>1, <1>3

(* A Prometheus export is a consistent cut, however many exporters and     *)
(* collectors start_monitoring was called to spawn: the guard of the Raft  *)
(* metrics is kept while those of the system are read.                     *)
THEOREM Exports == Spec => []ExportIsOfOneMoment
<1>1. MonitoringInit => ExportInv
  BY MonitoringStart
<1>2. ExportInv => ExportIsOfOneMoment
  BY DEF ExportInv
<1>. QED
  BY <1>1, <1>2, ExportStep, MonitoringView, PTL

(* Two evaluations of one rule that interleave do not both add its alert:  *)
(* update_alerts looks for an active one under the lock it adds under.     *)
THEOREM Alerts == Spec => []OneActiveAlert
<1>1. MonitoringInit => AlertInv
  BY MonitoringStart
<1>2. AlertInv => OneActiveAlert
  BY DEF AlertInv
<1>. QED
  BY <1>1, <1>2, AlertStep, MonitoringView, PTL

---------------------------------------------------------------------------
(* LockFree *)

(* The units that the threads owe to the counters of `kinds', a token each. *)
Tokens(f, kinds) ==
    {x \in Threads \X Nat : f[x[1]].owes \in kinds /\ x[2] \in 1..f[x[1]].by}

Due(d, kinds) == IF d.owes \in kinds THEN d.by ELSE 0

Owings == {"nothing", "pushed", "popped", "dropped", "created", "removed", "retaining"}
Debt == [owes : Owings, by : Nat]
PoolStates == {"none", "fresh", "stale"}

TokensMove(f, g, t, kinds) ==
    /\ IsFiniteSet(Tokens(g, kinds))
    /\ Cardinality(Tokens(g, kinds)) \in Nat /\ Cardinality(Tokens(f, kinds)) \in Nat
    /\ Cardinality(Tokens(g, kinds))
         = Cardinality(Tokens(f, kinds)) - Due(f[t], kinds) + Due(g[t], kinds)

(* The tokens change by those of the one thread whose debt changes.        *)
LEMMA TokensChange ==
    ASSUME NEW f \in [Threads -> Debt], NEW g \in [Threads -> Debt], NEW t \in Threads,
           \A u \in Threads : u # t => g[u] = f[u],
           NEW kinds, IsFiniteSet(Tokens(f, kinds))
    PROVE  TokensMove(f, g, t, kinds)
<1>1. \A u \in Threads : u # t => g[u] = f[u]
  OBVIOUS
<1>. DEFINE Of(h) == {t} \X (1..Due(h[t], kinds))
            rest == {x \in Tokens(f, kinds) : x[1] # t}
<1>2. ASSUME NEW h \in [Threads -> Debt]
      PROVE  /\ Due(h[t], kinds) \in Nat
             /\ IsFiniteSet(Of(h)) /\ Cardinality(Of(h)) = Due(h[t], kinds)
  <2>1. Due(h[t], kinds) \in Nat
    BY <1>2 DEF Due, Debt
  <2>2. /\ IsFiniteSet(1..Due(h[t], kinds))
        /\ Cardinality(1..Due(h[t], kinds)) = Due(h[t], kinds)
    BY <2>1, FS_Interval
  <2>3. IsFiniteSet({t}) /\ Cardinality({t}) = 1
    BY FS_Singleton
  <2>4. IsFiniteSet(Of(h)) /\ Cardinality(Of(h)) = 1 * Due(h[t], kinds)
    <3>. DEFINE units == 1..Due(h[t], kinds)
    <3>. HIDE DEF units
    <3>1. /\ IsFiniteSet({t} \X units)
          /\ Cardinality({t} \X units) = Cardinality({t}) * Cardinality(units)
      BY <2>2, <2>3, FS_Product DEF units
    <3>. QED
      BY <2>2, <2>3, <3>1 DEF units
  <2>. QED
    BY <2>1, <2>4
<1>3. rest = {x \in Tokens(g, kinds) : x[1] # t}
  BY <1>1 DEF Tokens
<1>4. ASSUME NEW h \in [Threads -> Debt]
      PROVE  {x \in Tokens(h, kinds) : x[1] = t} = Of(h)
  <2>1. ASSUME NEW x \in Tokens(h, kinds), x[1] = t PROVE x \in Of(h)
    BY <2>1 DEF Tokens, Due
  <2>2. ASSUME NEW x \in Of(h) PROVE x \in Tokens(h, kinds) /\ x[1] = t
    <3>1. PICK i \in 1..Due(h[t], kinds) : x = <<t, i>>
      OBVIOUS
    <3>2. h[t].by \in Nat /\ Due(h[t], kinds) \in Nat
      BY <1>4 DEF Due, Debt
    <3>3. i \in Nat /\ h[t].owes \in kinds /\ i \in 1..h[t].by
      BY <3>1, <3>2 DEF Due
    <3>. QED
      BY <3>1, <3>3 DEF Tokens
  <2>. QED
    BY <2>1, <2>2
<1>5. /\ Tokens(f, kinds) = rest \cup Of(f) /\ rest \cap Of(f) = {}
      /\ Tokens(g, kinds) = rest \cup Of(g) /\ rest \cap Of(g) = {}
  <2>1. {x \in Tokens(f, kinds) : x[1] = t} = Of(f) /\ {x \in Tokens(g, kinds) : x[1] = t} = Of(g)
    BY <1>1, <1>4
  <2>. HIDE DEF Of
  <2>. QED
    BY <1>3, <2>1
<1>6. IsFiniteSet(rest) /\ Cardinality(rest) \in Nat
  <2>1. rest \in SUBSET Tokens(f, kinds)
    OBVIOUS
  <2>2. IsFiniteSet(rest)
    BY <2>1, FS_Subset
  <2>. QED
    BY <2>2, FS_CardinalityType
<1>. HIDE DEF Of, rest
<1>7. /\ Cardinality(rest \cup Of(f)) = Cardinality(rest) + Cardinality(Of(f)) - Cardinality(rest \cap Of(f))
      /\ IsFiniteSet(rest \cup Of(g))
      /\ Cardinality(rest \cup Of(g)) = Cardinality(rest) + Cardinality(Of(g)) - Cardinality(rest \cap Of(g))
  BY <1>1, <1>2, <1>6, FS_Union
<1>8. Cardinality({}) = 0
  BY FS_EmptySet
<1>9. /\ Cardinality(Of(f)) = Due(f[t], kinds) /\ Cardinality(Of(g)) = Due(g[t], kinds)
      /\ Due(f[t], kinds) \in Nat /\ Due(g[t], kinds) \in Nat
  BY <1>1, <1>2
<1>10. /\ Cardinality(Tokens(f, kinds)) = Cardinality(rest) + Due(f[t], kinds)
       /\ Cardinality(Tokens(g, kinds)) = Cardinality(rest) + Due(g[t], kinds)
  <2>1. /\ Cardinality(Tokens(f, kinds)) = Cardinality(rest) + Cardinality(Of(f)) - 0
        /\ Cardinality(Tokens(g, kinds)) = Cardinality(rest) + Cardinality(Of(g)) - 0
    BY <1>5, <1>7, <1>8, Zenon
  <2>. QED
    BY <1>6, <1>9, <2>1
<1>11. IsFiniteSet(Tokens(g, kinds))
  BY <1>5, <1>7, Zenon
<1>. QED
  BY <1>6, <1>9, <1>10, <1>11 DEF TokensMove

(* The keys that hold a connection.                                        *)
InPool == {k \in PoolKeys : pool[k] # "none"}

PushKinds == {"pushed"}
PopKinds == {"popped"}
CreateKinds == {"created"}
RemoveKinds == {"removed", "retaining"}
CounterKinds == {PushKinds, PopKinds, CreateKinds, RemoveKinds}

LockFreeTypes ==
    /\ threads \in [Threads -> Debt] /\ lfQueue \in Int
    /\ counters \in [pushed : Int, popped : Int, dropped : Int, created : Int, removed : Int]
    /\ pool \in [PoolKeys -> PoolStates]
    /\ IsFiniteSet(InPool)
    /\ \A K \in CounterKinds : IsFiniteSet(Tokens(threads, K))
    /\ \A t \in Threads : threads[t].owes = "nothing" => threads[t].by = 0

(* What is counted and what threads still owe add up to what is there.     *)
Balanced ==
    /\ counters.pushed + Cardinality(Tokens(threads, PushKinds))
         - counters.popped - Cardinality(Tokens(threads, PopKinds)) = lfQueue
    /\ counters.created + Cardinality(Tokens(threads, CreateKinds))
         - counters.removed - Cardinality(Tokens(threads, RemoveKinds)) = Cardinality(InPool)

LockFreeInv == LockFreeTypes /\ Balanced

LEMMA LockFreeInitInv == LockFreeInit => LockFreeInv
<1>. SUFFICES ASSUME LockFreeInit PROVE LockFreeInv
  OBVIOUS
<1>1. \A K \in CounterKinds : Tokens(threads, K) = {}
  BY DEF LockFreeInit, Idle, Tokens, CounterKinds, PushKinds, PopKinds, CreateKinds, RemoveKinds
<1>2. InPool = {}
  BY DEF LockFreeInit, InPool
<1>3. IsFiniteSet({}) /\ Cardinality({}) = 0
  BY FS_EmptySet
<1>4. LockFreeTypes
  <2>1. threads \in [Threads -> Debt] /\ \A t \in Threads : threads[t].by = 0
    <3>1. Idle \in Debt /\ Idle.by = 0
      BY DEF Idle, Debt, Owings
    <3>2. threads = [t \in Threads |-> Idle]
      BY DEF LockFreeInit
    <3>. HIDE DEF Idle
    <3>. QED
      BY <3>1, <3>2
  <2>2. IsFiniteSet(InPool) /\ \A K \in CounterKinds : IsFiniteSet(Tokens(threads, K))
    <3>1. IsFiniteSet(InPool)
      BY <1>2, <1>3, Zenon
    <3>2. ASSUME NEW K \in CounterKinds PROVE IsFiniteSet(Tokens(threads, K))
      BY <1>1, <1>3, Zenon
    <3>. QED
      BY <3>1, <3>2
  <2>3. pool \in [PoolKeys -> PoolStates] /\ lfQueue \in Int
        /\ counters \in [pushed : Int, popped : Int, dropped : Int, created : Int, removed : Int]
    BY DEF LockFreeInit, PoolStates
  <2>. QED
    BY <2>1, <2>2, <2>3 DEF LockFreeTypes
<1>5. \A K \in CounterKinds : Cardinality(Tokens(threads, K)) = 0
  BY <1>1, <1>3, Zenon
<1>6. Cardinality(InPool) = 0
  BY <1>2, <1>3, Zenon
<1>7. Balanced
  BY <1>5, <1>6 DEF Balanced, CounterKinds, LockFreeInit
<1>. QED
  BY <1>4, <1>7 DEF LockFreeInv

(* What a step in which thread t takes on the debt d does to the tokens.   *)
LEMMA OwesLater ==
    ASSUME LockFreeTypes, NEW t \in Threads, NEW d \in Debt, d.owes = "nothing" => d.by = 0,
           threads' = [threads EXCEPT ![t] = d]
    PROVE  /\ threads' \in [Threads -> Debt]
           /\ \A u \in Threads : threads'[u].owes = "nothing" => threads'[u].by = 0
           /\ \A K \in CounterKinds :
                /\ IsFiniteSet(Tokens(threads', K))
                /\ Cardinality(Tokens(threads', K)) \in Nat /\ Cardinality(Tokens(threads, K)) \in Nat
                /\ Cardinality(Tokens(threads', K))
                     = Cardinality(Tokens(threads, K)) - Due(threads[t], K) + Due(d, K)
<1>1. threads \in [Threads -> Debt]
  BY DEF LockFreeTypes
<1>2. threads'[t] = d /\ threads' \in [Threads -> Debt]
  BY <1>1
<1>3. ASSUME NEW K \in CounterKinds
      PROVE  /\ IsFiniteSet(Tokens(threads', K))
             /\ Cardinality(Tokens(threads', K)) \in Nat /\ Cardinality(Tokens(threads, K)) \in Nat
             /\ Cardinality(Tokens(threads', K))
                  = Cardinality(Tokens(threads, K)) - Due(threads[t], K) + Due(threads'[t], K)
  <2>1. IsFiniteSet(Tokens(threads, K))
    BY DEF LockFreeTypes
  <2>2. PICK f : f = threads
    OBVIOUS
  <2>3. PICK g : g = threads'
    OBVIOUS
  <2>4. /\ f \in [Threads -> Debt] /\ g \in [Threads -> Debt] /\ IsFiniteSet(Tokens(f, K))
        /\ \A u \in Threads : u # t => g[u] = f[u]
    BY <1>1, <1>2, <2>1, <2>2, <2>3
  <2>5. TokensMove(f, g, t, K)
    BY <2>4, TokensChange
  <2>. QED
    BY <2>2, <2>3, <2>5 DEF TokensMove
<1>4. \A u \in Threads : threads'[u].owes = "nothing" => threads'[u].by = 0
  BY <1>1 DEF LockFreeTypes
<1>. QED
  BY <1>2, <1>3, <1>4 DEF Due

(* What a step that changes one key does to the number of connections.     *)
LEMMA PoolLater ==
    ASSUME LockFreeTypes, NEW k \in PoolKeys, NEW v \in PoolStates, pool' = [pool EXCEPT ![k] = v]
    PROVE  /\ pool' \in [PoolKeys -> PoolStates] /\ IsFiniteSet(InPool')
           /\ Cardinality(InPool) \in Int /\ Cardinality(InPool') \in Int
           /\ Cardinality(InPool') = Cardinality(InPool)
                + (IF pool[k] = "none" /\ v # "none" THEN 1
                   ELSE IF pool[k] # "none" /\ v = "none" THEN -1 ELSE 0)
<1>1. pool \in [PoolKeys -> PoolStates] /\ IsFiniteSet(InPool)
  BY DEF LockFreeTypes
<1>2. pool' \in [PoolKeys -> PoolStates] /\ pool'[k] = v
      /\ \A j \in PoolKeys : j # k => pool'[j] = pool[j]
  BY <1>1
<1>3. InPool' = IF v = "none" THEN InPool \ {k} ELSE InPool \cup {k}
  BY <1>2 DEF InPool
<1>4. k \in InPool <=> pool[k] # "none"
  BY DEF InPool
<1>5. PICK S : S = InPool
  OBVIOUS
<1>6. PICK T : T = InPool'
  OBVIOUS
<1>7. IsFiniteSet(S) /\ Cardinality(S) \in Nat
  BY <1>1, <1>5, FS_CardinalityType
<1>8. CASE v = "none"
  <2>1. T = S \ {k}
    BY <1>3, <1>5, <1>6, <1>8
  <2>2. IsFiniteSet(T) /\ Cardinality(T) = IF k \in S THEN Cardinality(S) - 1 ELSE Cardinality(S)
    BY <1>7, <2>1, FS_RemoveElement
  <2>. QED
    BY <1>2, <1>4, <1>5, <1>6, <1>7, <1>8, <2>2
<1>9. CASE v # "none"
  <2>1. T = S \cup {k}
    BY <1>3, <1>5, <1>6, <1>9
  <2>2. IsFiniteSet(T) /\ Cardinality(T) = IF k \in S THEN Cardinality(S) ELSE Cardinality(S) + 1
    BY <1>7, <2>1, FS_AddElement
  <2>. QED
    BY <1>2, <1>4, <1>5, <1>6, <1>7, <1>9, <2>2
<1>. QED
  BY <1>8, <1>9


(* Thread t comes to owe d; queue, pool and counters keep their types.     *)
Takes(t, d) == threads' = [threads EXCEPT ![t] = d] /\ (d.owes = "nothing" => d.by = 0)

TypedLater ==
    /\ counters' \in [pushed : Int, popped : Int, dropped : Int, created : Int, removed : Int]
    /\ lfQueue' \in Int
    /\ pool' \in [PoolKeys -> PoolStates] /\ IsFiniteSet(InPool')
    /\ Cardinality(InPool) \in Int /\ Cardinality(InPool') \in Int

(* The queue grows by what is counted, and by what is owed to be counted   *)
(* in the place of an earlier debt; so does the pool.                      *)
QueueMoves(before, d) ==
    lfQueue' - lfQueue
      = (counters'.pushed - counters.pushed) + (Due(d, PushKinds) - Due(before, PushKinds))
        - (counters'.popped - counters.popped) - (Due(d, PopKinds) - Due(before, PopKinds))

PoolMoves(before, d) ==
    Cardinality(InPool') - Cardinality(InPool)
      = (counters'.created - counters.created) + (Due(d, CreateKinds) - Due(before, CreateKinds))
        - (counters'.removed - counters.removed) - (Due(d, RemoveKinds) - Due(before, RemoveKinds))

(* A step that changes counters, queue and pool by what thread t comes to  *)
(* owe, or pays, keeps the balance.                                        *)
LEMMA StaysBalanced ==
    ASSUME LockFreeInv, NEW t \in Threads, NEW d \in Debt, Takes(t, d), TypedLater,
           QueueMoves(threads[t], d), PoolMoves(threads[t], d)
    PROVE  LockFreeInv'
<1>1. LockFreeTypes /\ Balanced
  BY DEF LockFreeInv
<1>2. /\ threads' \in [Threads -> Debt]
      /\ \A u \in Threads : threads'[u].owes = "nothing" => threads'[u].by = 0
      /\ \A K \in CounterKinds :
           /\ IsFiniteSet(Tokens(threads', K))
           /\ Cardinality(Tokens(threads', K)) \in Nat /\ Cardinality(Tokens(threads, K)) \in Nat
           /\ Cardinality(Tokens(threads', K))
                = Cardinality(Tokens(threads, K)) - Due(threads[t], K) + Due(d, K)
  BY <1>1, OwesLater, Zenon DEF Takes
<1>3. LockFreeTypes'
  BY <1>2 DEF LockFreeTypes, TypedLater
<1>4. ASSUME NEW K PROVE Due(d, K) \in Int /\ Due(threads[t], K) \in Int
  <2>1. d.by \in Int /\ threads[t].by \in Int
    BY <1>1 DEF LockFreeTypes, Debt
  <2>. QED
    BY <2>1 DEF Due
<1>5. /\ PushKinds \in CounterKinds /\ PopKinds \in CounterKinds
      /\ CreateKinds \in CounterKinds /\ RemoveKinds \in CounterKinds
  BY DEF CounterKinds
<1>6. /\ lfQueue \in Int /\ counters.pushed \in Int /\ counters.popped \in Int
      /\ counters.created \in Int /\ counters.removed \in Int
      /\ counters'.pushed \in Int /\ counters'.popped \in Int
      /\ counters'.created \in Int /\ counters'.removed \in Int
      /\ lfQueue' \in Int /\ Cardinality(InPool) \in Int /\ Cardinality(InPool') \in Int
  BY <1>1, <1>3 DEF LockFreeTypes, TypedLater
<1>7. counters'.pushed + Cardinality(Tokens(threads', PushKinds))
        - counters'.popped - Cardinality(Tokens(threads', PopKinds)) = lfQueue'
  <2>1. counters.pushed + Cardinality(Tokens(threads, PushKinds))
          - counters.popped - Cardinality(Tokens(threads, PopKinds)) = lfQueue
    BY <1>1 DEF Balanced
  <2>2. /\ Cardinality(Tokens(threads', PushKinds))
             = Cardinality(Tokens(threads, PushKinds)) - Due(threads[t], PushKinds) + Due(d, PushKinds)
        /\ Cardinality(Tokens(threads', PopKinds))
             = Cardinality(Tokens(threads, PopKinds)) - Due(threads[t], PopKinds) + Due(d, PopKinds)
        /\ Cardinality(Tokens(threads, PushKinds)) \in Nat /\ Cardinality(Tokens(threads, PopKinds)) \in Nat
    BY <1>2, <1>5
  <2>3. /\ Due(d, PushKinds) \in Int /\ Due(threads[t], PushKinds) \in Int
        /\ Due(d, PopKinds) \in Int /\ Due(threads[t], PopKinds) \in Int
    BY <1>4
  <2>. DEFINE up == counters'.pushed - counters.pushed
              down == counters'.popped - counters.popped
              toRaise == Due(d, PushKinds) - Due(threads[t], PushKinds)
              toLower == Due(d, PopKinds) - Due(threads[t], PopKinds)
  <2>4. lfQueue' - lfQueue = up + toRaise - down - toLower
    BY DEF QueueMoves, PoolMoves
  <2>5. up \in Int /\ counters'.pushed = counters.pushed + up
    BY <1>6
  <2>6. down \in Int /\ counters'.popped = counters.popped + down
    BY <1>6
  <2>7. toRaise \in Int
        /\ Cardinality(Tokens(threads', PushKinds)) = Cardinality(Tokens(threads, PushKinds)) + toRaise
    BY <2>2, <2>3
  <2>8. toLower \in Int
        /\ Cardinality(Tokens(threads', PopKinds)) = Cardinality(Tokens(threads, PopKinds)) + toLower
    BY <2>2, <2>3
  <2>. HIDE DEF up, down, toRaise, toLower
  <2>9. lfQueue' = lfQueue + up + toRaise - down - toLower
    <3>1. /\ lfQueue' \in Int /\ lfQueue \in Int /\ up \in Int /\ down \in Int
          /\ toRaise \in Int /\ toLower \in Int
      BY <1>6, <2>5, <2>6, <2>7, <2>8
    <3>2. PICK x \in Int, y \in Int, a \in Int, b \in Int, c \in Int, e \in Int :
             x = lfQueue' /\ y = lfQueue /\ a = up /\ b = toRaise /\ c = down /\ e = toLower
      BY <3>1
    <3>3. x - y = a + b - c - e
      BY <2>4, <3>2, Zenon
    <3>4. x = y + a + b - c - e
      BY <3>3
    <3>. QED
      BY <3>2, <3>4, Zenon
  <2>. QED
    BY <1>6, <2>1, <2>2, <2>5, <2>6, <2>7, <2>8, <2>9
<1>8. counters'.created + Cardinality(Tokens(threads', CreateKinds))
        - counters'.removed - Cardinality(Tokens(threads', RemoveKinds)) = Cardinality(InPool')
  <2>1. counters.created + Cardinality(Tokens(threads, CreateKinds))
          - counters.removed - Cardinality(Tokens(threads, RemoveKinds)) = Cardinality(InPool)
    BY <1>1 DEF Balanced
  <2>2. /\ Cardinality(Tokens(threads', CreateKinds))
             = Cardinality(Tokens(threads, CreateKinds)) - Due(threads[t], CreateKinds) + Due(d, CreateKinds)
        /\ Cardinality(Tokens(threads', RemoveKinds))
             = Cardinality(Tokens(threads, RemoveKinds)) - Due(threads[t], RemoveKinds) + Due(d, RemoveKinds)
        /\ Cardinality(Tokens(threads, CreateKinds)) \in Nat /\ Cardinality(Tokens(threads, RemoveKinds)) \in Nat
    BY <1>2, <1>5
  <2>3. /\ Due(d, CreateKinds) \in Int /\ Due(threads[t], CreateKinds) \in Int
        /\ Due(d, RemoveKinds) \in Int /\ Due(threads[t], RemoveKinds) \in Int
    BY <1>4
  <2>. DEFINE up == counters'.created - counters.created
              down == counters'.removed - counters.removed
              toRaise == Due(d, CreateKinds) - Due(threads[t], CreateKinds)
              toLower == Due(d, RemoveKinds) - Due(threads[t], RemoveKinds)
  <2>4. Cardinality(InPool') - Cardinality(InPool) = up + toRaise - down - toLower
    BY DEF QueueMoves, PoolMoves
  <2>5. up \in Int /\ counters'.created = counters.created + up
    BY <1>6
  <2>6. down \in Int /\ counters'.removed = counters.removed + down
    BY <1>6
  <2>7. toRaise \in Int
        /\ Cardinality(Tokens(threads', CreateKinds)) = Cardinality(Tokens(threads, CreateKinds)) + toRaise
    BY <2>2, <2>3
  <2>8. toLower \in Int
        /\ Cardinality(Tokens(threads', RemoveKinds)) = Cardinality(Tokens(threads, RemoveKinds)) + toLower
    BY <2>2, <2>3
  <2>. HIDE DEF up, down, toRaise, toLower
  <2>9. Cardinality(InPool') = Cardinality(InPool) + up + toRaise - down - toLower
    <3>1. /\ Cardinality(InPool') \in Int /\ Cardinality(InPool) \in Int /\ up \in Int /\ down \in Int
          /\ toRaise \in Int /\ toLower \in Int
      BY <1>6, <2>5, <2>6, <2>7, <2>8
    <3>2. PICK x \in Int, y \in Int, a \in Int, b \in Int, c \in Int, e \in Int :
             x = Cardinality(InPool') /\ y = Cardinality(InPool) /\ a = up /\ b = toRaise /\ c = down /\ e = toLower
      BY <3>1
    <3>3. x - y = a + b - c - e
      BY <2>4, <3>2, Zenon
    <3>4. x = y + a + b - c - e
      BY <3>3
    <3>. QED
      BY <3>2, <3>4, Zenon
  <2>. QED
    BY <1>6, <2>1, <2>2, <2>5, <2>6, <2>7, <2>8, <2>9
<1>. QED
  BY <1>3, <1>7, <1>8 DEF LockFreeInv, Balanced

(* What an unchanged pool is.                                              *)
LEMMA SamePool ==
    ASSUME LockFreeInv, pool' = pool
    PROVE  /\ pool' \in [PoolKeys -> PoolStates] /\ IsFiniteSet(InPool')
           /\ Cardinality(InPool) \in Int /\ Cardinality(InPool') = Cardinality(InPool)
<1>1. IsFiniteSet(InPool) /\ pool \in [PoolKeys -> PoolStates]
  BY DEF LockFreeInv, LockFreeTypes
<1>2. InPool' = InPool
  BY DEF InPool
<1>3. PICK S : S = InPool
  OBVIOUS
<1>4. IsFiniteSet(S) /\ Cardinality(S) \in Nat
  BY <1>1, <1>3, FS_CardinalityType
<1>. QED
  BY <1>1, <1>2, <1>3, <1>4

(* A thread that is inside no operation owes nothing.                      *)
LEMMA IdleOwesNothing ==
    /\ Idle \in Debt /\ Idle.owes = "nothing" /\ Idle.by = 0
    /\ \A K \in CounterKinds : Due(Idle, K) = 0
<1>1. Idle \in Debt /\ Idle.owes = "nothing" /\ Idle.by = 0
  BY DEF Idle, Debt, Owings
<1>. QED
  BY <1>1 DEF Due

(* The kinds of a counter.                                                 *)
LEMMA KindsAre ==
    ASSUME NEW d \in Debt
    PROVE  /\ d.by \in Nat
           /\ Due(d, PushKinds) = (IF d.owes = "pushed" THEN d.by ELSE 0)
           /\ Due(d, PopKinds) = (IF d.owes = "popped" THEN d.by ELSE 0)
           /\ Due(d, CreateKinds) = (IF d.owes = "created" THEN d.by ELSE 0)
           /\ Due(d, RemoveKinds) = (IF d.owes \in {"removed", "retaining"} THEN d.by ELSE 0)
BY DEF Debt, Due, PushKinds, PopKinds, CreateKinds, RemoveKinds

LEMMA CountInv == ASSUME LockFreeInv, NEW t \in Threads, Count(t) PROVE LockFreeInv'
<1>. DEFINE d == threads[t]
<1>1. /\ d \in Debt /\ d.owes \in {"pushed", "popped", "dropped", "created", "removed"}
      /\ counters \in [pushed : Int, popped : Int, dropped : Int, created : Int, removed : Int]
      /\ counters' = [counters EXCEPT ![d.owes] = @ + d.by]
      /\ threads' = [threads EXCEPT ![t] = Idle]
      /\ lfQueue' = lfQueue /\ pool' = pool /\ lfQueue \in Int
  BY DEF LockFreeInv, LockFreeTypes, Count
<1>2. /\ counters' \in [pushed : Int, popped : Int, dropped : Int, created : Int, removed : Int]
      /\ counters'.pushed = counters.pushed + (IF d.owes = "pushed" THEN d.by ELSE 0)
      /\ counters'.popped = counters.popped + (IF d.owes = "popped" THEN d.by ELSE 0)
      /\ counters'.created = counters.created + (IF d.owes = "created" THEN d.by ELSE 0)
      /\ counters'.removed = counters.removed + (IF d.owes = "removed" THEN d.by ELSE 0)
  <2>1. d.by \in Nat
    BY <1>1 DEF Debt
  <2>. HIDE DEF d
  <2>2. CASE d.owes = "pushed"
    BY <1>1, <2>1, <2>2
  <2>3. CASE d.owes = "popped"
    BY <1>1, <2>1, <2>3
  <2>4. CASE d.owes = "dropped"
    BY <1>1, <2>1, <2>4
  <2>5. CASE d.owes = "created"
    BY <1>1, <2>1, <2>5
  <2>6. CASE d.owes = "removed"
    BY <1>1, <2>1, <2>6
  <2>. QED
    BY <1>1, <2>2, <2>3, <2>4, <2>5, <2>6
<1>3. /\ pool' \in [PoolKeys -> PoolStates] /\ IsFiniteSet(InPool')
      /\ Cardinality(InPool) \in Int /\ Cardinality(InPool') = Cardinality(InPool)
  BY <1>1, SamePool
<1>4. /\ d.by \in Nat
      /\ Due(d, PushKinds) = (IF d.owes = "pushed" THEN d.by ELSE 0)
      /\ Due(d, PopKinds) = (IF d.owes = "popped" THEN d.by ELSE 0)
      /\ Due(d, CreateKinds) = (IF d.owes = "created" THEN d.by ELSE 0)
      /\ Due(d, RemoveKinds) = (IF d.owes \in {"removed", "retaining"} THEN d.by ELSE 0)
  BY <1>1, KindsAre
<1>5. /\ Due(Idle, PushKinds) = 0 /\ Due(Idle, PopKinds) = 0
      /\ Due(Idle, CreateKinds) = 0 /\ Due(Idle, RemoveKinds) = 0
      /\ Idle \in Debt /\ Idle.owes = "nothing" /\ Idle.by = 0
  BY IdleOwesNothing DEF CounterKinds
<1>6. Cardinality(InPool') \in Int /\ QueueMoves(d, Idle) /\ PoolMoves(d, Idle)
  <2>1. /\ counters.pushed \in Int /\ counters.popped \in Int
        /\ counters.created \in Int /\ counters.removed \in Int
    BY <1>1
  <2>2. d.owes = "removed" <=> d.owes \in {"removed", "retaining"}
    BY <1>1
  <2>. HIDE DEF d
  <2>. QED
    BY <1>1, <1>2, <1>3, <1>4, <1>5, <2>1, <2>2 DEF QueueMoves, PoolMoves
<1>. HIDE DEF Idle
<1>7. Takes(t, Idle) /\ TypedLater
  BY <1>1, <1>2, <1>3, <1>5, <1>6 DEF Takes, TypedLater
<1>. QED
  BY <1>5, <1>6, <1>7, StaysBalanced

(* A step that changes no debt, no counter, not the queue and not the      *)
(* number of connections.                                                  *)
LEMMA NothingCounted ==
    ASSUME LockFreeInv, threads' = threads, counters' = counters, lfQueue' = lfQueue,
           pool' \in [PoolKeys -> PoolStates], IsFiniteSet(InPool'),
           Cardinality(InPool') = Cardinality(InPool)
    PROVE  LockFreeInv'
<1>1. LockFreeTypes'
  BY DEF LockFreeInv, LockFreeTypes
<1>2. Balanced'
  BY DEF LockFreeInv, Balanced
<1>. QED
  BY <1>1, <1>2 DEF LockFreeInv

(* What the beginning of an operation finds and brings.                    *)
LEMMA BeginsIdle ==
    ASSUME LockFreeInv, NEW t \in Threads, threads[t] = Idle
    PROVE  /\ \A K \in {PushKinds, PopKinds, CreateKinds, RemoveKinds} : Due(threads[t], K) = 0
           /\ counters \in [pushed : Int, popped : Int, dropped : Int, created : Int, removed : Int]
           /\ counters.pushed \in Int /\ counters.popped \in Int
           /\ counters.created \in Int /\ counters.removed \in Int
           /\ lfQueue \in Int
<1>1. counters \in [pushed : Int, popped : Int, dropped : Int, created : Int, removed : Int]
      /\ lfQueue \in Int
  BY DEF LockFreeInv, LockFreeTypes
<1>2. \A K \in {PushKinds, PopKinds, CreateKinds, RemoveKinds} : Due(threads[t], K) = 0
  BY IdleOwesNothing DEF CounterKinds
<1>. QED
  BY <1>1, <1>2

LEMMA TryPushInv == ASSUME LockFreeInv, NEW t \in Threads, TryPush(t) PROVE LockFreeInv'
<1>1. /\ threads[t] = Idle /\ pool' = pool /\ counters' = counters
      /\ \/ lfQueue' = lfQueue + 1
            /\ threads' = [threads EXCEPT ![t] = [owes |-> "pushed", by |-> 1]]
         \/ lfQueue' = lfQueue
            /\ threads' = [threads EXCEPT ![t] = [owes |-> "dropped", by |-> 1]]
  BY DEF TryPush, Begins, Owe
<1>2. /\ Due(threads[t], PushKinds) = 0 /\ Due(threads[t], PopKinds) = 0
      /\ Due(threads[t], CreateKinds) = 0 /\ Due(threads[t], RemoveKinds) = 0
      /\ counters \in [pushed : Int, popped : Int, dropped : Int, created : Int, removed : Int]
      /\ counters.pushed \in Int /\ counters.popped \in Int
      /\ counters.created \in Int /\ counters.removed \in Int
      /\ lfQueue \in Int
  BY <1>1, BeginsIdle
<1>3. /\ pool' \in [PoolKeys -> PoolStates] /\ IsFiniteSet(InPool')
      /\ Cardinality(InPool) \in Int /\ Cardinality(InPool') = Cardinality(InPool)
  BY <1>1, SamePool
<1>4. lfQueue' \in Int
  BY <1>1, <1>2
<1>5. TypedLater
  BY <1>1, <1>2, <1>3, <1>4 DEF TypedLater
<1>6. CASE lfQueue' = lfQueue + 1
           /\ threads' = [threads EXCEPT ![t] = [owes |-> "pushed", by |-> 1]]
  <2>. DEFINE d == [owes |-> "pushed", by |-> 1]
  <2>1. d \in Debt /\ Takes(t, d)
    BY <1>6 DEF Debt, Owings, Takes
  <2>2. /\ Due(d, PushKinds) = 1 /\ Due(d, PopKinds) = 0
        /\ Due(d, CreateKinds) = 0 /\ Due(d, RemoveKinds) = 0
    BY DEF Due, PushKinds, PopKinds, CreateKinds, RemoveKinds
  <2>. HIDE DEF d
  <2>3. QueueMoves(threads[t], d) /\ PoolMoves(threads[t], d)
    BY <1>1, <1>2, <1>3, <1>6, <2>2 DEF QueueMoves, PoolMoves
  <2>. QED
    BY <1>5, <2>1, <2>3, StaysBalanced
<1>7. CASE lfQueue' = lfQueue
           /\ threads' = [threads EXCEPT ![t] = [owes |-> "dropped", by |-> 1]]
  <2>. DEFINE d == [owes |-> "dropped", by |-> 1]
  <2>1. d \in Debt /\ Takes(t, d)
    BY <1>7 DEF Debt, Owings, Takes
  <2>2. /\ Due(d, PushKinds) = 0 /\ Due(d, PopKinds) = 0
        /\ Due(d, CreateKinds) = 0 /\ Due(d, RemoveKinds) = 0
    BY DEF Due, PushKinds, PopKinds, CreateKinds, RemoveKinds
  <2>. HIDE DEF d
  <2>3. QueueMoves(threads[t], d) /\ PoolMoves(threads[t], d)
    BY <1>1, <1>2, <1>3, <1>7, <2>2 DEF QueueMoves, PoolMoves
  <2>. QED
    BY <1>5, <2>1, <2>3, StaysBalanced
<1>. QED
  BY <1>1, <1>6, <1>7

LEMMA PopInv == ASSUME LockFreeInv, NEW t \in Threads, Pop(t) PROVE LockFreeInv'
<1>. DEFINE d == [owes |-> "popped", by |-> 1]
<1>1. /\ threads[t] = Idle /\ pool' = pool /\ counters' = counters /\ lfQueue' = lfQueue - 1
      /\ threads' = [threads EXCEPT ![t] = d]
  BY DEF Pop, Begins, Owe
<1>2. /\ Due(threads[t], PushKinds) = 0 /\ Due(threads[t], PopKinds) = 0
      /\ Due(threads[t], CreateKinds) = 0 /\ Due(threads[t], RemoveKinds) = 0
      /\ counters \in [pushed : Int, popped : Int, dropped : Int, created : Int, removed : Int]
      /\ counters.pushed \in Int /\ counters.popped \in Int
      /\ counters.created \in Int /\ counters.removed \in Int
      /\ lfQueue \in Int
  BY <1>1, BeginsIdle
<1>3. /\ pool' \in [PoolKeys -> PoolStates] /\ IsFiniteSet(InPool')
      /\ Cardinality(InPool) \in Int /\ Cardinality(InPool') = Cardinality(InPool)
  BY <1>1, SamePool
<1>4. lfQueue' \in Int
  BY <1>1, <1>2
<1>5. TypedLater
  BY <1>1, <1>2, <1>3, <1>4 DEF TypedLater
<1>6. d \in Debt /\ Takes(t, d)
  BY <1>1 DEF Debt, Owings, Takes
<1>7. /\ Due(d, PushKinds) = 0 /\ Due(d, PopKinds) = 1
      /\ Due(d, CreateKinds) = 0 /\ Due(d, RemoveKinds) = 0
  BY DEF Due, PushKinds, PopKinds, CreateKinds, RemoveKinds
<1>. HIDE DEF d
<1>8. QueueMoves(threads[t], d) /\ PoolMoves(threads[t], d)
  BY <1>1, <1>2, <1>3, <1>7 DEF QueueMoves, PoolMoves
<1>. QED
  BY <1>5, <1>6, <1>8, StaysBalanced

(* A step on one key of the pool by a thread that comes to owe d.          *)
LEMMA PoolStep ==
    ASSUME LockFreeInv, NEW t \in Threads, NEW d \in Debt, NEW k \in PoolKeys, NEW v \in PoolStates,
           Takes(t, d), pool' = [pool EXCEPT ![k] = v],
           counters' = counters, lfQueue' = lfQueue,
           Due(d, PushKinds) = Due(threads[t], PushKinds),
           Due(d, PopKinds) = Due(threads[t], PopKinds),
           Due(d, CreateKinds) - Due(threads[t], CreateKinds)
             = IF pool[k] = "none" /\ v # "none" THEN 1 ELSE 0,
           Due(d, RemoveKinds) - Due(threads[t], RemoveKinds)
             = IF pool[k] # "none" /\ v = "none" THEN 1 ELSE 0
    PROVE  LockFreeInv'
<1>1. LockFreeTypes /\ threads[t] \in Debt
  BY DEF LockFreeInv, LockFreeTypes
<1>2. /\ counters \in [pushed : Int, popped : Int, dropped : Int, created : Int, removed : Int]
      /\ counters.pushed \in Int /\ counters.popped \in Int
      /\ counters.created \in Int /\ counters.removed \in Int
      /\ lfQueue \in Int
  BY <1>1 DEF LockFreeTypes
<1>3. /\ pool' \in [PoolKeys -> PoolStates] /\ IsFiniteSet(InPool')
      /\ Cardinality(InPool) \in Int /\ Cardinality(InPool') \in Int
      /\ Cardinality(InPool') = Cardinality(InPool)
           + (IF pool[k] = "none" /\ v # "none" THEN 1
              ELSE IF pool[k] # "none" /\ v = "none" THEN -1 ELSE 0)
  BY <1>1, PoolLater
<1>4. TypedLater
  BY <1>2, <1>3 DEF TypedLater
<1>5. ASSUME NEW e \in Debt
      PROVE  /\ Due(e, PushKinds) \in Int /\ Due(e, PopKinds) \in Int
             /\ Due(e, CreateKinds) \in Int /\ Due(e, RemoveKinds) \in Int
  BY DEF Debt, Due
<1>6. /\ Due(d, PushKinds) \in Int /\ Due(d, PopKinds) \in Int
      /\ Due(d, CreateKinds) \in Int /\ Due(d, RemoveKinds) \in Int
      /\ Due(threads[t], PushKinds) \in Int /\ Due(threads[t], PopKinds) \in Int
      /\ Due(threads[t], CreateKinds) \in Int /\ Due(threads[t], RemoveKinds) \in Int
  BY <1>1, <1>5
<1>7. QueueMoves(threads[t], d)
  BY <1>2, <1>6 DEF QueueMoves
<1>8. PoolMoves(threads[t], d)
  BY <1>2, <1>3, <1>6, SMTT(30) DEF PoolMoves
<1>. QED
  BY <1>4, <1>7, <1>8, StaysBalanced

LEMMA InsertInv ==
    ASSUME LockFreeInv, NEW t \in Threads, NEW k \in PoolKeys, InsertConnection(t, k)
    PROVE  LockFreeInv'
<1>. DEFINE d == [owes |-> "created", by |-> 1]
<1>1. /\ threads[t] = Idle /\ pool' = [pool EXCEPT ![k] = "fresh"]
      /\ counters' = counters /\ lfQueue' = lfQueue
      /\ IF pool[k] = "none" THEN threads' = [threads EXCEPT ![t] = d] ELSE threads' = threads
  BY DEF InsertConnection, Begins, Owe
<1>2. "fresh" \in PoolStates /\ "fresh" # "none" /\ LockFreeTypes
  BY DEF PoolStates, LockFreeInv
<1>3. /\ Due(threads[t], PushKinds) = 0 /\ Due(threads[t], PopKinds) = 0
      /\ Due(threads[t], CreateKinds) = 0 /\ Due(threads[t], RemoveKinds) = 0
  BY <1>1, BeginsIdle
<1>4. CASE pool[k] = "none"
  <2>1. d \in Debt /\ Takes(t, d)
    BY <1>1, <1>4 DEF Debt, Owings, Takes
  <2>2. /\ Due(d, PushKinds) = 0 /\ Due(d, PopKinds) = 0
        /\ Due(d, CreateKinds) = 1 /\ Due(d, RemoveKinds) = 0
    BY DEF Due, PushKinds, PopKinds, CreateKinds, RemoveKinds
  <2>. HIDE DEF d
  <2>3. Due(d, CreateKinds) - Due(threads[t], CreateKinds) = 1
        /\ Due(d, RemoveKinds) - Due(threads[t], RemoveKinds) = 0
    BY <1>3, <2>2
  <2>. QED
    BY <1>1, <1>2, <1>3, <1>4, <2>1, <2>2, <2>3, PoolStep
<1>5. CASE pool[k] # "none"
  <2>1. /\ pool' \in [PoolKeys -> PoolStates] /\ IsFiniteSet(InPool')
        /\ Cardinality(InPool) \in Int /\ Cardinality(InPool') \in Int
        /\ Cardinality(InPool') = Cardinality(InPool)
             + (IF pool[k] = "none" /\ "fresh" # "none" THEN 1
                ELSE IF pool[k] # "none" /\ "fresh" = "none" THEN -1 ELSE 0)
    BY <1>1, <1>2, PoolLater
  <2>2. Cardinality(InPool') = Cardinality(InPool)
    BY <1>5, <2>1
  <2>. QED
    BY <1>1, <1>5, <2>1, <2>2, NothingCounted
<1>. QED
  BY <1>4, <1>5

LEMMA RemoveKeyInv ==
    ASSUME LockFreeInv, NEW t \in Threads, NEW k \in PoolKeys, RemoveKey(t, k)
    PROVE  LockFreeInv'
<1>. DEFINE d == [owes |-> "removed", by |-> 1]
<1>1. /\ threads[t] = Idle /\ pool[k] # "none" /\ pool' = [pool EXCEPT ![k] = "none"]
      /\ counters' = counters /\ lfQueue' = lfQueue
      /\ threads' = [threads EXCEPT ![t] = d]
  BY DEF RemoveKey, Begins, Owe
<1>2. "none" \in PoolStates
  BY DEF PoolStates
<1>3. /\ Due(threads[t], PushKinds) = 0 /\ Due(threads[t], PopKinds) = 0
      /\ Due(threads[t], CreateKinds) = 0 /\ Due(threads[t], RemoveKinds) = 0
  BY <1>1, BeginsIdle
<1>4. d \in Debt /\ Takes(t, d)
  BY <1>1 DEF Debt, Owings, Takes
<1>5. /\ Due(d, PushKinds) = 0 /\ Due(d, PopKinds) = 0
      /\ Due(d, CreateKinds) = 0 /\ Due(d, RemoveKinds) = 1
  BY DEF Due, PushKinds, PopKinds, CreateKinds, RemoveKinds
<1>. HIDE DEF d
<1>6. Due(d, CreateKinds) - Due(threads[t], CreateKinds) = 0
      /\ Due(d, RemoveKinds) - Due(threads[t], RemoveKinds) = 1
  BY <1>3, <1>5
<1>. QED
  BY <1>1, <1>2, <1>3, <1>4, <1>5, <1>6, PoolStep

LEMMA ExpireInv == ASSUME LockFreeInv, NEW k \in PoolKeys, Expire(k) PROVE LockFreeInv'
<1>1. /\ pool[k] = "fresh" /\ pool' = [pool EXCEPT ![k] = "stale"]
      /\ threads' = threads /\ counters' = counters /\ lfQueue' = lfQueue
  BY DEF Expire
<1>2. "stale" \in PoolStates /\ LockFreeTypes
  BY DEF PoolStates, LockFreeInv
<1>3. /\ pool' \in [PoolKeys -> PoolStates] /\ IsFiniteSet(InPool')
      /\ Cardinality(InPool) \in Int /\ Cardinality(InPool') \in Int
      /\ Cardinality(InPool') = Cardinality(InPool)
           + (IF pool[k] = "none" /\ "stale" # "none" THEN 1
              ELSE IF pool[k] # "none" /\ "stale" = "none" THEN -1 ELSE 0)
  BY <1>1, <1>2, PoolLater
<1>4. Cardinality(InPool') = Cardinality(InPool)
  BY <1>1, <1>3
<1>. QED
  BY <1>1, <1>3, <1>4, NothingCounted

LEMMA CleanupStaleInv == ASSUME LockFreeInv, NEW t \in Threads, CleanupStale(t) PROVE LockFreeInv'
<1>. DEFINE d == [owes |-> "retaining", by |-> 0]
<1>1. /\ threads[t] = Idle /\ pool' = pool /\ counters' = counters /\ lfQueue' = lfQueue
      /\ threads' = [threads EXCEPT ![t] = d]
  BY DEF CleanupStale, Begins, Owe
<1>2. /\ Due(threads[t], PushKinds) = 0 /\ Due(threads[t], PopKinds) = 0
      /\ Due(threads[t], CreateKinds) = 0 /\ Due(threads[t], RemoveKinds) = 0
      /\ counters \in [pushed : Int, popped : Int, dropped : Int, created : Int, removed : Int]
      /\ counters.pushed \in Int /\ counters.popped \in Int
      /\ counters.created \in Int /\ counters.removed \in Int
      /\ lfQueue \in Int
  BY <1>1, BeginsIdle
<1>3. /\ pool' \in [PoolKeys -> PoolStates] /\ IsFiniteSet(InPool')
      /\ Cardinality(InPool) \in Int /\ Cardinality(InPool') = Cardinality(InPool)
  BY <1>1, SamePool
<1>5. TypedLater
  BY <1>1, <1>2, <1>3 DEF TypedLater
<1>6. d \in Debt /\ Takes(t, d)
  BY <1>1 DEF Debt, Owings, Takes
<1>7. /\ Due(d, PushKinds) = 0 /\ Due(d, PopKinds) = 0
      /\ Due(d, CreateKinds) = 0 /\ Due(d, RemoveKinds) = 0
  BY DEF Due, PushKinds, PopKinds, CreateKinds, RemoveKinds
<1>. HIDE DEF d
<1>8. QueueMoves(threads[t], d) /\ PoolMoves(threads[t], d)
  BY <1>1, <1>2, <1>3, <1>7 DEF QueueMoves, PoolMoves
<1>. QED
  BY <1>5, <1>6, <1>8, StaysBalanced

LEMMA RetainInv ==
    ASSUME LockFreeInv, NEW t \in Threads, NEW k \in PoolKeys, Retain(t, k)
    PROVE  LockFreeInv'
<1>. DEFINE freed == IF pool[k] = "stale" THEN 1 ELSE 0
            n == threads[t].by + freed
            v == IF pool[k] = "stale" THEN "none" ELSE pool[k]
<1>1. LockFreeTypes /\ threads[t] \in Debt /\ threads[t].by \in Nat /\ pool[k] \in PoolStates
  BY DEF LockFreeInv, LockFreeTypes, Debt
<1>2. n \in Nat /\ v \in PoolStates
  BY <1>1 DEF PoolStates
<1>3. PICK d : /\ threads' = [threads EXCEPT ![t] = d]
               /\ \/ d = [owes |-> "retaining", by |-> n]
                  \/ d = [owes |-> "removed", by |-> n]
                  \/ d = Idle /\ ~(n > 0)
  BY DEF Retain, Owe
<1>4. /\ threads[t].owes = "retaining" /\ counters' = counters /\ lfQueue' = lfQueue
      /\ pool' = [pool EXCEPT ![k] = v]
  BY DEF Retain
<1>5. d \in Debt /\ d.by = n /\ d.owes \in {"retaining", "removed", "nothing"}
      /\ (d.owes = "nothing" => d.by = 0)
  BY <1>2, <1>3, IdleOwesNothing DEF Debt, Owings
<1>6. Takes(t, d)
  BY <1>3, <1>5 DEF Takes
<1>7. /\ Due(d, PushKinds) = 0 /\ Due(d, PopKinds) = 0
      /\ Due(d, CreateKinds) = 0 /\ Due(d, RemoveKinds) = n
      /\ Due(threads[t], PushKinds) = 0 /\ Due(threads[t], PopKinds) = 0
      /\ Due(threads[t], CreateKinds) = 0 /\ Due(threads[t], RemoveKinds) = threads[t].by
  BY <1>4, <1>5 DEF Due, PushKinds, PopKinds, CreateKinds, RemoveKinds
<1>8. /\ (pool[k] # "none" /\ v = "none") <=> pool[k] = "stale"
      /\ ~(pool[k] = "none" /\ v # "none")
  OBVIOUS
<1>9. Due(d, CreateKinds) - Due(threads[t], CreateKinds) = 0
      /\ Due(d, RemoveKinds) - Due(threads[t], RemoveKinds) = freed
  BY <1>1, <1>7
<1>. HIDE DEF v, n
<1>. QED
  BY <1>2, <1>4, <1>5, <1>6, <1>7, <1>8, <1>9, PoolStep

LEMMA LockFreeSteps == LockFreeInv /\ [LockFreeNext]_lockFreeVars => LockFreeInv'
<1>. SUFFICES ASSUME LockFreeInv, [LockFreeNext]_lockFreeVars PROVE LockFreeInv'
  OBVIOUS
<1>1. CASE UNCHANGED lockFreeVars
  <2>1. /\ threads' = threads /\ counters' = counters /\ lfQueue' = lfQueue /\ pool' = pool
    BY <1>1 DEF lockFreeVars
  <2>. QED
    BY <2>1, SamePool, NothingCounted
<1>2. CASE LockFreeNext
  BY <1>2, CountInv, TryPushInv, PopInv, CleanupStaleInv, InsertInv, RemoveKeyInv, RetainInv,
     ExpireInv DEF LockFreeNext
<1>. QED
  BY <1>1, <1>2

LEMMA BalanceSettles == LockFreeInv => CountsSettle
<1>. SUFFICES ASSUME LockFreeInv, \A t \in Threads : threads[t] = Idle
              PROVE  /\ counters.pushed - counters.popped = lfQueue
                     /\ counters.created - counters.removed = Cardinality(InPool)
  BY DEF CountsSettle, InPool
<1>1. \A K \in CounterKinds : Tokens(threads, K) = {}
  BY DEF Idle, Tokens
<1>2. Cardinality({}) = 0
  BY FS_EmptySet
<1>3. ASSUME NEW K \in CounterKinds PROVE Cardinality(Tokens(threads, K)) = 0
  BY <1>1, <1>2, Zenon
<1>4. /\ Cardinality(Tokens(threads, PushKinds)) = 0 /\ Cardinality(Tokens(threads, PopKinds)) = 0
      /\ Cardinality(Tokens(threads, CreateKinds)) = 0
      /\ Cardinality(Tokens(threads, RemoveKinds)) = 0
  BY <1>3 DEF CounterKinds
<1>5. /\ counters.pushed \in Int /\ counters.popped \in Int
      /\ counters.created \in Int /\ counters.removed \in Int
  BY DEF LockFreeInv, LockFreeTypes
<1>. QED
  BY <1>4, <1>5 DEF LockFreeInv, Balanced

(* However the threads of a process interleave their queue and pool        *)
(* operations, the counters a thread still owes are exactly what separates *)
(* them from the contents: once every operation has returned, `enqueued -  *)
(* dequeued' is the length of the queue and `created - removed' the size   *)
(* of the pool.                                                            *)
THEOREM CountersAgree == Spec => []CountsSettle
<1>. QED
  BY LockFreeInitInv, LockFreeSteps, BalanceSettles, LockFreeView, PTL

---------------------------------------------------------------------------
(* MessageProcessing *)

(* Orders of message numbers.                                              *)
Rising(s) == \A i, j \in 1..Len(s) : i < j => s[i] < s[j]
AllLess(s, u) == \A i \in 1..Len(s), j \in 1..Len(u) : s[i] < u[j]
UpTo(s, n) == \A i \in 1..Len(s) : s[i] <= n
BeforeAll(s, q) == \A k \in 1..Len(q) : AllLess(s, q[k])

(* A queue of batches, none of them empty, that hold messages in their     *)
(* order, the last of them at most n.                                      *)
OrderedQueue(q, n) ==
    /\ q \in Seq(Seq(Int))
    /\ \A k \in 1..Len(q) : q[k] # <<>> /\ Rising(q[k]) /\ UpTo(q[k], n)
    /\ \A k, l \in 1..Len(q) : k < l => AllLess(q[k], q[l])

(* A message at the end of a batch.                                        *)
LEMMA LongerBatch ==
    ASSUME NEW s \in Seq(Int), NEW n \in Int, Rising(s), UpTo(s, n)
    PROVE  LET longer == Append(s, n + 1)
           IN  /\ longer \in Seq(Int) /\ longer # <<>> /\ Rising(longer) /\ UpTo(longer, n + 1)
               /\ \A u \in Seq(Int) : AllLess(u, s) /\ UpTo(u, n) => AllLess(u, longer)
<1>. DEFINE longer == Append(s, n + 1)
<1>1. /\ Len(s) \in Nat /\ longer \in Seq(Int) /\ Len(longer) = Len(s) + 1
      /\ longer[Len(s) + 1] = n + 1
      /\ \A i \in 1..Len(s) : longer[i] = s[i] /\ s[i] \in Int
      /\ \A i \in 1..Len(longer) :
           \/ i \in 1..Len(s) /\ longer[i] = s[i]
           \/ i = Len(s) + 1 /\ longer[i] = n + 1
  BY AppendFacts
<1>2. longer # <<>>
  BY <1>1, EmptySeq
<1>. HIDE DEF longer
<1>2a. \A i \in 1..Len(s) : s[i] \in Int /\ s[i] <= n /\ s[i] <= n + 1 /\ s[i] < n + 1
  BY <1>1 DEF UpTo
<1>3. Rising(longer)
  <2>. SUFFICES ASSUME NEW i \in 1..Len(longer), NEW j \in 1..Len(longer), i < j
                PROVE  longer[i] < longer[j]
    BY DEF Rising
  <2>1. i \in 1..Len(s) /\ longer[i] = s[i]
    BY <1>1, SMTT(30)
  <2>2. CASE j \in 1..Len(s) /\ longer[j] = s[j]
    BY <2>1, <2>2 DEF Rising
  <2>3. CASE longer[j] = n + 1
    BY <1>2a, <2>1, <2>3
  <2>. QED
    BY <1>1, <2>2, <2>3
<1>4. UpTo(longer, n + 1)
  <2>. SUFFICES ASSUME NEW i \in 1..Len(longer) PROVE longer[i] <= n + 1
    BY DEF UpTo
  <2>. QED
    BY <1>1, <1>2a, SMTT(30)
<1>5. ASSUME NEW u \in Seq(Int), AllLess(u, s), UpTo(u, n) PROVE AllLess(u, longer)
  <2>1. \A i \in 1..Len(u) : u[i] \in Int
    BY ElementOfSeq
  <2>2. ASSUME NEW i \in 1..Len(u), NEW j \in 1..Len(longer) PROVE u[i] < longer[j]
    <3>1. CASE j \in 1..Len(s) /\ longer[j] = s[j]
      BY <1>5, <3>1 DEF AllLess
    <3>2. CASE longer[j] = n + 1
      <4>1. u[i] \in Int /\ u[i] <= n
        BY <1>5, <2>1 DEF UpTo
      <4>. QED
        BY <3>2, <4>1
    <3>. QED
      BY <1>1, <3>1, <3>2
  <2>. QED
    BY <2>2 DEF AllLess
<1>. QED
  BY <1>1, <1>2, <1>3, <1>4, <1>5 DEF longer

LEMMA FirstMessage ==
    ASSUME NEW n \in Int
    PROVE  /\ <<n + 1>> \in Seq(Int) /\ <<n + 1>> # <<>> /\ Rising(<<n + 1>>)
           /\ UpTo(<<n + 1>>, n + 1)
           /\ \A u \in Seq(Int) : UpTo(u, n) => AllLess(u, <<n + 1>>)
<1>1. <<n + 1>> \in Seq(Int) /\ Len(<<n + 1>>) = 1 /\ <<n + 1>>[1] = n + 1 /\ <<n + 1>> # <<>>
  OBVIOUS
<1>2. \A u \in Seq(Int) : \A i \in 1..Len(u) : u[i] \in Int
  BY ElementOfSeq
<1>3. PICK one : one = <<n + 1>>
  OBVIOUS
<1>4. Len(one) = 1 /\ one[1] = n + 1
  BY <1>1, <1>3
<1>5. Rising(one) /\ UpTo(one, n + 1) /\ \A u \in Seq(Int) : UpTo(u, n) => AllLess(u, one)
  BY <1>2, <1>4 DEF Rising, UpTo, AllLess
<1>. QED
  BY <1>1, <1>3, <1>5

(* r is q with a further batch at its end, or with a longer last one.      *)
LEMMA MoreQueued ==
    ASSUME NEW q, NEW n \in Int, OrderedQueue(q, n), NEW r \in Seq(Seq(Int)), NEW at \in 1..Len(r),
           at = Len(r), Len(r) \in Len(q)..Len(q) + 1,
           \A k \in 1..Len(r) : k # at => k \in 1..Len(q) /\ r[k] = q[k],
           r[at] # <<>>, Rising(r[at]), UpTo(r[at], n + 1),
           \A u \in Seq(Int) : (at \in 1..Len(q) => AllLess(u, q[at])) /\ UpTo(u, n) => AllLess(u, r[at])
    PROVE  /\ OrderedQueue(r, n + 1)
           /\ \A u \in Seq(Int) : BeforeAll(u, q) /\ UpTo(u, n) => BeforeAll(u, r)
<1>1. /\ Len(q) \in Nat /\ Len(r) \in Nat
      /\ \A k \in 1..Len(q) : q[k] \in Seq(Int) /\ q[k] # <<>> /\ Rising(q[k]) /\ UpTo(q[k], n)
      /\ \A k, l \in 1..Len(q) : k < l => AllLess(q[k], q[l])
  BY LenProperties, ElementOfSeq DEF OrderedQueue
<1>2. ASSUME NEW k \in 1..Len(r) PROVE r[k] # <<>> /\ Rising(r[k]) /\ UpTo(r[k], n + 1)
  <2>1. CASE k = at
    BY <2>1
  <2>2. CASE k # at
    <3>1. r[k] = q[k] /\ q[k] \in Seq(Int) /\ q[k] # <<>> /\ Rising(q[k]) /\ UpTo(q[k], n)
      BY <1>1, <2>2
    <3>2. \A i \in 1..Len(q[k]) : q[k][i] \in Int
      BY <3>1, ElementOfSeq
    <3>. QED
      BY <3>1, <3>2, SMTT(30) DEF UpTo
  <2>. QED
    BY <2>1, <2>2
<1>3. ASSUME NEW k \in 1..Len(r), NEW l \in 1..Len(r), k < l PROVE AllLess(r[k], r[l])
  <2>1. k # at /\ k \in 1..Len(q) /\ r[k] = q[k]
    BY <1>1, <1>3
  <2>2. q[k] \in Seq(Int) /\ UpTo(q[k], n)
    BY <1>1, <2>1
  <2>3. CASE l = at
    <3>1. at \in 1..Len(q) => AllLess(q[k], q[at])
      BY <1>1, <1>3, <2>1, <2>3
    <3>. QED
      BY <2>1, <2>2, <2>3, <3>1
  <2>4. CASE l # at
    BY <1>1, <1>3, <2>1, <2>4
  <2>. QED
    BY <2>3, <2>4
<1>4. ASSUME NEW u \in Seq(Int), BeforeAll(u, q), UpTo(u, n) PROVE BeforeAll(u, r)
  BY <1>4 DEF BeforeAll
<1>. QED
  BY <1>2, <1>3, <1>4 DEF OrderedQueue

(* The first batch out of the queue.                                       *)
LEMMA FirstOut ==
    ASSUME NEW q, NEW n \in Int, OrderedQueue(q, n), q # <<>>
    PROVE  /\ Head(q) \in Seq(Int) /\ Head(q) # <<>> /\ Rising(Head(q)) /\ UpTo(Head(q), n)
           /\ OrderedQueue(Tail(q), n) /\ BeforeAll(Head(q), Tail(q))
           /\ \A u : BeforeAll(u, q) => AllLess(u, Head(q)) /\ BeforeAll(u, Tail(q))
<1>1. /\ q \in Seq(Seq(Int)) /\ Len(q) \in Nat
      /\ \A k \in 1..Len(q) : q[k] # <<>> /\ Rising(q[k]) /\ UpTo(q[k], n)
      /\ \A k, l \in 1..Len(q) : k < l => AllLess(q[k], q[l])
  BY LenProperties DEF OrderedQueue
<1>. DEFINE rest == Tail(q)
            first == Head(q)
<1>2. /\ 1 \in 1..Len(q) /\ first = q[1] /\ first \in Seq(Int)
      /\ rest \in Seq(Seq(Int)) /\ Len(rest) = Len(q) - 1
      /\ \A i \in 1..Len(rest) : i + 1 \in 1..Len(q) /\ i + 1 # 1 /\ rest[i] = q[i + 1]
  BY <1>1, TailFacts
<1>. HIDE DEF rest, first
<1>3. \A i, j \in 1..Len(rest) : i < j => i + 1 < j + 1
  BY <1>1, <1>2
<1>4. \A i \in 1..Len(rest) : 1 < i + 1
  BY <1>1, <1>2
<1>5. OrderedQueue(rest, n)
  BY <1>1, <1>2, <1>3 DEF OrderedQueue
<1>6. BeforeAll(first, rest)
  BY <1>1, <1>2, <1>4 DEF BeforeAll
<1>7. \A u : BeforeAll(u, q) => AllLess(u, first) /\ BeforeAll(u, rest)
  BY <1>1, <1>2 DEF BeforeAll
<1>. QED
  BY <1>1, <1>2, <1>5, <1>6, <1>7 DEF rest, first

(* A batch behind the messages before it.                                  *)
LEMMA Joined ==
    ASSUME NEW s \in Seq(Int), NEW u \in Seq(Int), Rising(s), Rising(u), AllLess(s, u)
    PROVE  /\ s \o u \in Seq(Int) /\ Rising(s \o u)
           /\ \A n : UpTo(s, n) /\ UpTo(u, n) => UpTo(s \o u, n)
           /\ \A q : BeforeAll(s, q) /\ BeforeAll(u, q) => BeforeAll(s \o u, q)
<1>. DEFINE full == s \o u
<1>1. /\ full \in Seq(Int) /\ Len(full) = Len(s) + Len(u)
      /\ \A i \in 1..Len(s) + Len(u) : full[i] = IF i <= Len(s) THEN s[i] ELSE u[i - Len(s)]
      /\ Len(s) \in Nat /\ Len(u) \in Nat
  BY ConcatProperties, LenProperties
<1>. HIDE DEF full
<1>2. ASSUME NEW i \in 1..Len(full)
      PROVE  \/ i \in 1..Len(s) /\ full[i] = s[i]
             \/ ~(i <= Len(s)) /\ i - Len(s) \in 1..Len(u) /\ full[i] = u[i - Len(s)]
  BY <1>1
<1>3. ASSUME NEW i \in 1..Len(full), NEW j \in 1..Len(full), i < j PROVE full[i] < full[j]
  <2>1. CASE j \in 1..Len(s) /\ full[j] = s[j]
    <3>1. i \in 1..Len(s) /\ full[i] = s[i]
      BY <1>1, <1>2, <1>3, <2>1, SMTT(30)
    <3>. QED
      BY <1>3, <2>1, <3>1 DEF Rising
  <2>2. CASE ~(j <= Len(s)) /\ j - Len(s) \in 1..Len(u) /\ full[j] = u[j - Len(s)]
    <3>1. CASE i \in 1..Len(s) /\ full[i] = s[i]
      BY <2>2, <3>1 DEF AllLess
    <3>2. CASE ~(i <= Len(s)) /\ i - Len(s) \in 1..Len(u) /\ full[i] = u[i - Len(s)]
      <4>1. i - Len(s) < j - Len(s)
        BY <1>1, <1>3
      <4>. QED
        BY <2>2, <3>2, <4>1 DEF Rising
    <3>. QED
      BY <1>2, <3>1, <3>2
  <2>. QED
    BY <1>2, <2>1, <2>2
<1>4. Rising(full)
  BY <1>3 DEF Rising
<1>5. \A n : UpTo(s, n) /\ UpTo(u, n) => UpTo(full, n)
  BY <1>2 DEF UpTo
<1>6. \A q : BeforeAll(s, q) /\ BeforeAll(u, q) => BeforeAll(full, q)
  BY <1>2 DEF BeforeAll, AllLess
<1>. QED
  BY <1>1, <1>4, <1>5, <1>6 DEF full

InHand(p) == processing[p].batch
ClassOf(p) == Priorities[processing[p].at]

(* Of a class: what is serialized, what a task has in hand and what is     *)
(* queued, each before the next; a batch in hand keeps its queue locked.   *)
ProcessingTypes ==
    /\ queued \in Int
    /\ batches \in [Classes -> Seq(Seq(Int))] /\ results \in [Classes -> Seq(Int)]
    /\ queueLock \in [Classes -> Processors \cup {Free}]
    /\ processing \in [Processors -> [at : 0..4, batch : Seq(Int)]]

ClassInOrder ==
    \A c \in Classes :
        /\ OrderedQueue(batches[c], queued)
        /\ Rising(results[c]) /\ UpTo(results[c], queued)
        /\ BeforeAll(results[c], batches[c])

HandInOrder ==
    \A p \in Processors : InHand(p) # <<>> =>
        /\ processing[p].at \in 1..4 /\ queueLock[ClassOf(p)] = p
        /\ Rising(InHand(p)) /\ UpTo(InHand(p), queued)
        /\ AllLess(results[ClassOf(p)], InHand(p))
        /\ BeforeAll(InHand(p), batches[ClassOf(p)])

BufferIsUsed == \A p \in Processors : bufferLock = p => InHand(p) # <<>>

ProcessingInv == ProcessingTypes /\ ClassInOrder /\ HandInOrder /\ BufferIsUsed

LEMMA ClassesAre ==
    /\ \A i \in 1..4 : Priorities[i] \in Classes
    /\ \A c \in Classes : \E i \in 1..4 : c = Priorities[i]
    /\ \A i, j \in 1..4 : Priorities[i] = Priorities[j] => i = j
<1>1. DOMAIN Priorities = 1..4
  BY DEF Priorities
<1>2. Classes = {Priorities[i] : i \in 1..4}
  BY <1>1 DEF Classes, ToSet
<1>3. \A i, j \in 1..4 : Priorities[i] = Priorities[j] => i = j
  <2>1. \A i \in 1..4 : i = 1 \/ i = 2 \/ i = 3 \/ i = 4
    OBVIOUS
  <2>2. Priorities[1] = "election" /\ Priorities[2] = "heartbeat"
        /\ Priorities[3] = "normal" /\ Priorities[4] = "snapshot"
    BY DEF Priorities
  <2>. QED
    BY <2>1, <2>2
<1>. QED
  BY <1>2, <1>3

LEMMA ProcessingInitInv == ProcessingInit /\ ProcessingAssumption => ProcessingInv
<1>. SUFFICES ASSUME ProcessingInit, ProcessingAssumption PROVE ProcessingInv
  OBVIOUS
<1>1. \A c \in Classes : batches[c] = <<>> /\ results[c] = <<>> /\ queueLock[c] = Free
  BY DEF ProcessingInit
<1>2. Len(<<>>) = 0 /\ \A S : <<>> \in Seq(S)
  OBVIOUS
<1>3. \A p \in Processors : processing[p].at = 0 /\ processing[p].batch = <<>>
  BY DEF ProcessingInit, NotProcessing
<1>4. ProcessingTypes
  BY <1>2 DEF ProcessingTypes, ProcessingInit, NotProcessing
<1>5. ClassInOrder
  <2>. SUFFICES ASSUME NEW c \in Classes
                PROVE  /\ OrderedQueue(<<>>, queued)
                       /\ Rising(<<>>) /\ UpTo(<<>>, queued) /\ BeforeAll(<<>>, <<>>)
    BY <1>1 DEF ClassInOrder
  <2>. QED
    BY <1>2 DEF OrderedQueue, Rising, UpTo, BeforeAll
<1>6. HandInOrder
  BY <1>3 DEF HandInOrder, InHand
<1>7. BufferIsUsed
  BY DEF BufferIsUsed, ProcessingInit, ProcessingAssumption
<1>. QED
  BY <1>4, <1>5, <1>6, <1>7 DEF ProcessingInv

LEMMA StillUpTo ==
    ASSUME NEW s \in Seq(Int), NEW n \in Int, UpTo(s, n)
    PROVE  UpTo(s, n + 1)
<1>1. \A i \in 1..Len(s) : s[i] \in Int
  BY ElementOfSeq
<1>. QED
  BY <1>1 DEF UpTo

(* What queue_message makes of a queue.                                    *)
LEMMA MessageQueued ==
    ASSUME NEW q, NEW n \in Int, OrderedQueue(q, n), NEW r,
           \/ r = Append(q, <<n + 1>>)
           \/ q # <<>> /\ r = Append(Front(q), Append(Last(q), n + 1))
    PROVE  /\ OrderedQueue(r, n + 1)
           /\ \A u \in Seq(Int) : BeforeAll(u, q) /\ UpTo(u, n) => BeforeAll(u, r)
<1>1. /\ q \in Seq(Seq(Int)) /\ Len(q) \in Nat
      /\ \A k \in 1..Len(q) : q[k] \in Seq(Int) /\ Rising(q[k]) /\ UpTo(q[k], n)
  BY LenProperties, ElementOfSeq DEF OrderedQueue
<1>2. CASE r = Append(q, <<n + 1>>)
  <2>1. PICK one : one = <<n + 1>>
    OBVIOUS
  <2>2. /\ one \in Seq(Int) /\ one # <<>> /\ Rising(one) /\ UpTo(one, n + 1)
        /\ \A u \in Seq(Int) : UpTo(u, n) => AllLess(u, one)
    BY <2>1, FirstMessage
  <2>3. /\ r \in Seq(Seq(Int)) /\ Len(r) = Len(q) + 1 /\ r[Len(q) + 1] = one
        /\ \A i \in 1..Len(q) : r[i] = q[i]
    BY <1>1, <1>2, <2>1, <2>2, AppendFacts
  <2>. DEFINE at == Len(q) + 1
  <2>4. /\ at \in 1..Len(r) /\ at = Len(r) /\ Len(r) \in Len(q)..Len(q) + 1
        /\ \A k \in 1..Len(r) : k # at => k \in 1..Len(q) /\ r[k] = q[k]
        /\ r[at] = one
    BY <1>1, <2>3
  <2>5. /\ r[at] # <<>> /\ Rising(r[at]) /\ UpTo(r[at], n + 1)
        /\ \A u \in Seq(Int) : (at \in 1..Len(q) => AllLess(u, q[at])) /\ UpTo(u, n)
                              => AllLess(u, r[at])
    BY <2>2, <2>4
  <2>. HIDE DEF at
  <2>. QED
    BY <2>3, <2>4, <2>5, MoreQueued
<1>3. CASE q # <<>> /\ r = Append(Front(q), Append(Last(q), n + 1))
  <2>1. Len(q) # 0 /\ Len(q) \in 1..Len(q)
    BY <1>1, <1>3, EmptySeq
  <2>. DEFINE last == q[Len(q)]
  <2>2. last \in Seq(Int) /\ Rising(last) /\ UpTo(last, n)
    BY <1>1, <2>1
  <2>3. PICK longer : longer = Append(last, n + 1)
    OBVIOUS
  <2>. HIDE DEF last
  <2>4. /\ longer \in Seq(Int) /\ longer # <<>> /\ Rising(longer) /\ UpTo(longer, n + 1)
        /\ \A u \in Seq(Int) : AllLess(u, last) /\ UpTo(u, n) => AllLess(u, longer)
    BY <2>2, <2>3, LongerBatch
  <2>5. PICK front : front = SubSeq(q, 1, Len(q) - 1)
    OBVIOUS
  <2>7. /\ front \in Seq(Seq(Int)) /\ Len(front) = Len(q) - 1
        /\ \A i \in 1..Len(q) - 1 : i \in 1..Len(q) /\ front[i] = q[i]
    BY <1>1, <1>3, <2>5, FrontFacts
  <2>8. r = Append(front, longer)
    BY <1>3, <2>3, <2>5 DEF Front, Last, last
  <2>9. /\ r \in Seq(Seq(Int)) /\ Len(r) = Len(front) + 1 /\ r[Len(front) + 1] = longer
        /\ \A i \in 1..Len(front) : r[i] = front[i]
    BY <2>4, <2>7, <2>8, AppendFacts
  <2>10. /\ Len(q) \in 1..Len(r) /\ Len(q) = Len(r) /\ Len(r) \in Len(q)..Len(q) + 1
         /\ \A k \in 1..Len(r) : k # Len(q) => k \in 1..Len(q) /\ r[k] = q[k]
         /\ r[Len(q)] = longer
    <3>1. Len(front) + 1 = Len(q) /\ Len(r) = Len(q) /\ r[Len(q)] = longer
      BY <1>1, <2>7, <2>9
    <3>2. \A k \in 1..Len(r) : k # Len(q) => k \in 1..Len(q) /\ k \in 1..Len(front) /\ k \in 1..Len(q) - 1
      BY <1>1, <3>1
    <3>. QED
      BY <1>1, <2>1, <2>7, <2>9, <3>1, <3>2, SMTT(30)
  <2>11. \A u \in Seq(Int) : (Len(q) \in 1..Len(q) => AllLess(u, q[Len(q)])) /\ UpTo(u, n)
                             => AllLess(u, r[Len(q)])
    BY <2>1, <2>4, <2>10 DEF last
  <2>12. r[Len(q)] # <<>> /\ Rising(r[Len(q)]) /\ UpTo(r[Len(q)], n + 1)
    BY <2>4, <2>10
  <2>. QED
    BY <2>9, <2>10, <2>11, <2>12, MoreQueued
<1>. QED
  BY <1>2, <1>3

LEMMA QueueMessageInv ==
    ASSUME ProcessingInv, NEW c \in Classes, QueueMessage(c)
    PROVE  ProcessingInv'
<1>. DEFINE q == batches[c]
            n == queued
<1>1. PICK r : /\ batches' = [batches EXCEPT ![c] = r]
               /\ \/ r = Append(q, <<n + 1>>)
                  \/ q # <<>> /\ r = Append(Front(q), Append(Last(q), n + 1))
  BY DEF QueueMessage
<1>2. /\ queued' = n + 1 /\ queueLock' = queueLock /\ processing' = processing
      /\ bufferLock' = bufferLock /\ results' = results
  BY DEF QueueMessage
<1>3. /\ n \in Int /\ OrderedQueue(q, n) /\ batches \in [Classes -> Seq(Seq(Int))]
      /\ \A d \in Classes : results[d] \in Seq(Int)
      /\ \A p \in Processors : InHand(p) \in Seq(Int)
  BY DEF ProcessingInv, ProcessingTypes, ClassInOrder, InHand
<1>4. PICK old, m : old = q /\ m = n
  OBVIOUS
<1>. HIDE DEF q, n
<1>5. /\ OrderedQueue(r, m + 1)
      /\ \A u \in Seq(Int) : BeforeAll(u, old) /\ UpTo(u, m) => BeforeAll(u, r)
  BY <1>1, <1>3, <1>4, MessageQueued
<1>6. r \in Seq(Seq(Int)) /\ m + 1 \in Int /\ queued' = m + 1 /\ queued = m /\ batches[c] = old
  BY <1>2, <1>3, <1>4, <1>5 DEF OrderedQueue, n, q
<1>7. batches'[c] = r /\ \A d \in Classes : d # c => batches'[d] = batches[d]
  BY <1>1, <1>3
<1>8. ProcessingTypes'
  BY <1>1, <1>2, <1>3, <1>6 DEF ProcessingInv, ProcessingTypes
<1>9. \A u \in Seq(Int) : UpTo(u, m) => UpTo(u, m + 1)
  BY <1>3, <1>4, StillUpTo
<1>10. ASSUME NEW d \in Classes, NEW u \in Seq(Int), UpTo(u, m), BeforeAll(u, batches[d])
       PROVE  BeforeAll(u, batches'[d])
  BY <1>5, <1>6, <1>7, <1>10
<1>11. \A d \in Classes : OrderedQueue(batches'[d], m + 1)
  <2>1. ASSUME NEW d \in Classes, d # c PROVE OrderedQueue(batches[d], m + 1)
    <3>1. OrderedQueue(batches[d], m)
      BY <1>6 DEF ProcessingInv, ClassInOrder
    <3>2. \A k \in 1..Len(batches[d]) : batches[d][k] \in Seq(Int)
      BY <3>1, ElementOfSeq DEF OrderedQueue
    <3>. QED
      BY <1>9, <3>1, <3>2 DEF OrderedQueue
  <2>. QED
    BY <1>5, <1>7, <2>1
<1>12. ClassInOrder'
  <2>. SUFFICES ASSUME NEW d \in Classes
                PROVE  /\ OrderedQueue(batches'[d], m + 1)
                       /\ Rising(results[d]) /\ UpTo(results[d], m + 1)
                       /\ BeforeAll(results[d], batches'[d])
    BY <1>2, <1>6 DEF ClassInOrder
  <2>1. Rising(results[d]) /\ UpTo(results[d], m) /\ BeforeAll(results[d], batches[d])
    BY <1>6 DEF ProcessingInv, ClassInOrder
  <2>. QED
    BY <1>3, <1>9, <1>10, <1>11, <2>1
<1>13. HandInOrder'
  <2>. SUFFICES ASSUME NEW p \in Processors, InHand(p) # <<>>
                PROVE  /\ processing[p].at \in 1..4 /\ queueLock[ClassOf(p)] = p
                       /\ Rising(InHand(p)) /\ UpTo(InHand(p), m + 1)
                       /\ AllLess(results[ClassOf(p)], InHand(p))
                       /\ BeforeAll(InHand(p), batches'[ClassOf(p)])
    BY <1>2, <1>6 DEF HandInOrder, InHand, ClassOf
  <2>1. /\ processing[p].at \in 1..4 /\ queueLock[ClassOf(p)] = p
        /\ Rising(InHand(p)) /\ UpTo(InHand(p), m)
        /\ AllLess(results[ClassOf(p)], InHand(p))
        /\ BeforeAll(InHand(p), batches[ClassOf(p)])
    BY <1>6 DEF ProcessingInv, HandInOrder
  <2>2. ClassOf(p) \in Classes
    BY <2>1, ClassesAre DEF ClassOf
  <2>. QED
    BY <1>3, <1>9, <1>10, <2>1, <2>2
<1>14. BufferIsUsed'
  BY <1>2 DEF ProcessingInv, BufferIsUsed, InHand
<1>. QED
  BY <1>8, <1>12, <1>13, <1>14 DEF ProcessingInv

LEMMA TakeBatchInv ==
    ASSUME ProcessingInv, ProcessingAssumption, NEW p \in Processors, TakeBatch(p)
    PROVE  ProcessingInv'
<1>1. PICK c \in Classes :
         LET at == processing[p].at
         IN  /\ at > 0 /\ processing[p].batch = <<>> /\ c = Priorities[at]
             /\ queueLock[c] = Free
             /\ IF batches[c] = <<>>
                THEN /\ processing' = [processing EXCEPT ![p].at = (at + 1) % 5]
                     /\ UNCHANGED <<batches, queueLock>>
                ELSE /\ processing' = [processing EXCEPT ![p].batch = Head(batches[c])]
                     /\ batches' = [batches EXCEPT ![c] = Tail(@)]
                     /\ queueLock' = [queueLock EXCEPT ![c] = p]
             /\ UNCHANGED <<bufferLock, results, queued, seenHashes>>
  BY DEF TakeBatch
<1>. DEFINE at == processing[p].at
<1>2. /\ processing \in [Processors -> [at : 0..4, batch : Seq(Int)]]
      /\ batches \in [Classes -> Seq(Seq(Int))] /\ results \in [Classes -> Seq(Int)]
      /\ queueLock \in [Classes -> Processors \cup {Free}] /\ queued \in Int
  BY DEF ProcessingInv, ProcessingTypes
<1>3. at \in 1..4 /\ InHand(p) = <<>> /\ c = ClassOf(p) /\ queueLock[c] = Free
      /\ bufferLock' = bufferLock /\ results' = results /\ queued' = queued
  BY <1>1, <1>2 DEF InHand, ClassOf
<1>4. CASE batches[c] = <<>>
  <2>1. /\ processing' = [processing EXCEPT ![p].at = (at + 1) % 5]
        /\ batches' = batches /\ queueLock' = queueLock
    BY <1>1, <1>4
  <2>2. (at + 1) % 5 \in 0..4
    BY <1>3
  <2>3. /\ processing' \in [Processors -> [at : 0..4, batch : Seq(Int)]]
        /\ InHand(p)' = <<>>
        /\ \A q \in Processors : q # p => processing'[q] = processing[q]
    BY <1>2, <1>3, <2>1, <2>2 DEF InHand
  <2>4. ProcessingTypes'
    BY <1>2, <1>3, <2>1, <2>3 DEF ProcessingTypes
  <2>5. ClassInOrder'
    BY <1>3, <2>1 DEF ProcessingInv, ClassInOrder
  <2>6. HandInOrder'
    BY <1>3, <2>1, <2>3 DEF ProcessingInv, HandInOrder, InHand, ClassOf
  <2>7. BufferIsUsed'
    BY <1>3, <2>3 DEF ProcessingInv, BufferIsUsed, InHand
  <2>. QED
    BY <2>4, <2>5, <2>6, <2>7 DEF ProcessingInv
<1>5. CASE batches[c] # <<>>
  <2>. DEFINE q == batches[c]
              first == Head(q)
              rest == Tail(q)
  <2>1. /\ processing' = [processing EXCEPT ![p].batch = first]
        /\ batches' = [batches EXCEPT ![c] = rest]
        /\ queueLock' = [queueLock EXCEPT ![c] = p]
    BY <1>1, <1>5
  <2>2. OrderedQueue(q, queued) /\ Rising(results[c]) /\ UpTo(results[c], queued)
        /\ BeforeAll(results[c], q)
    BY DEF ProcessingInv, ClassInOrder
  <2>3. PICK old, m : old = q /\ m = queued
    OBVIOUS
  <2>4. /\ Head(old) \in Seq(Int) /\ Head(old) # <<>> /\ Rising(Head(old)) /\ UpTo(Head(old), m)
        /\ OrderedQueue(Tail(old), m) /\ BeforeAll(Head(old), Tail(old))
        /\ \A u : BeforeAll(u, old) => AllLess(u, Head(old)) /\ BeforeAll(u, Tail(old))
    BY <1>2, <1>5, <2>2, <2>3, FirstOut
  <2>5. /\ first \in Seq(Int) /\ first # <<>> /\ Rising(first) /\ UpTo(first, queued)
        /\ OrderedQueue(rest, queued) /\ BeforeAll(first, rest) /\ rest \in Seq(Seq(Int))
        /\ AllLess(results[c], first) /\ BeforeAll(results[c], rest)
    BY <2>2, <2>3, <2>4 DEF OrderedQueue
  <2>. HIDE DEF q, first, rest
  <2>6. /\ processing' \in [Processors -> [at : 0..4, batch : Seq(Int)]]
        /\ InHand(p)' = first /\ processing'[p].at = processing[p].at
        /\ \A r \in Processors : r # p => processing'[r] = processing[r]
    BY <1>2, <2>1, <2>5 DEF InHand
  <2>7. /\ batches'[c] = rest /\ queueLock'[c] = p
        /\ \A d \in Classes : d # c => batches'[d] = batches[d] /\ queueLock'[d] = queueLock[d]
    BY <1>2, <2>1
  <2>8. ProcessingTypes'
    BY <1>2, <1>3, <2>1, <2>5, <2>6 DEF ProcessingTypes
  <2>9. ClassInOrder'
    BY <1>3, <2>5, <2>7 DEF ProcessingInv, ClassInOrder
  <2>10. ASSUME NEW r \in Processors, InHand(r)' # <<>>
         PROVE  /\ processing'[r].at \in 1..4 /\ queueLock'[ClassOf(r)'] = r
                /\ Rising(InHand(r)') /\ UpTo(InHand(r)', queued')
                /\ AllLess(results'[ClassOf(r)'], InHand(r)')
                /\ BeforeAll(InHand(r)', batches'[ClassOf(r)'])
    <3>1. CASE r = p
      <4>1. ClassOf(r)' = c
        BY <1>3, <2>6, <3>1 DEF ClassOf
      <4>. QED
        BY <1>3, <2>5, <2>6, <2>7, <3>1, <4>1
    <3>2. CASE r # p
      <4>1. InHand(r)' = InHand(r) /\ ClassOf(r)' = ClassOf(r) /\ processing'[r].at = processing[r].at
        BY <2>6, <3>2 DEF InHand, ClassOf
      <4>2. /\ processing[r].at \in 1..4 /\ queueLock[ClassOf(r)] = r
            /\ Rising(InHand(r)) /\ UpTo(InHand(r), queued)
            /\ AllLess(results[ClassOf(r)], InHand(r))
            /\ BeforeAll(InHand(r), batches[ClassOf(r)])
        BY <2>10, <4>1 DEF ProcessingInv, HandInOrder
      <4>3. ClassOf(r) \in Classes /\ ClassOf(r) # c
        BY <1>3, <4>2, ClassesAre DEF ClassOf, ProcessingAssumption
      <4>. QED
        BY <1>3, <2>7, <4>1, <4>2, <4>3
    <3>. QED
      BY <3>1, <3>2
  <2>11. HandInOrder'
    BY <2>10 DEF HandInOrder
  <2>12. BufferIsUsed'
    BY <1>3, <2>5, <2>6 DEF ProcessingInv, BufferIsUsed, InHand
  <2>. QED
    BY <2>8, <2>9, <2>11, <2>12 DEF ProcessingInv
<1>. QED
  BY <1>4, <1>5

LEMMA ProcessBatchInv ==
    ASSUME ProcessingInv, ProcessingAssumption, NEW p \in Processors, ProcessBatch(p)
    PROVE  ProcessingInv'
<1>. DEFINE c == ClassOf(p)
            hand == InHand(p)
            joined == results[c] \o hand
<1>1. /\ bufferLock = p /\ results' = [results EXCEPT ![c] = joined]
      /\ bufferLock' = Free /\ queueLock' = [queueLock EXCEPT ![c] = Free]
      /\ processing' = [processing EXCEPT ![p] = NotProcessing]
      /\ batches' = batches /\ queued' = queued
  BY DEF ProcessBatch, ClassOf, InHand
<1>2. /\ processing \in [Processors -> [at : 0..4, batch : Seq(Int)]]
      /\ batches \in [Classes -> Seq(Seq(Int))] /\ results \in [Classes -> Seq(Int)]
      /\ queueLock \in [Classes -> Processors \cup {Free}] /\ queued \in Int
  BY DEF ProcessingInv, ProcessingTypes
<1>3. hand # <<>> /\ hand \in Seq(Int)
  BY <1>1, <1>2 DEF ProcessingInv, BufferIsUsed, InHand
<1>4. /\ processing[p].at \in 1..4 /\ queueLock[c] = p
      /\ Rising(hand) /\ UpTo(hand, queued)
      /\ AllLess(results[c], hand) /\ BeforeAll(hand, batches[c])
  BY <1>3 DEF ProcessingInv, HandInOrder
<1>5. c \in Classes
  BY <1>4, ClassesAre DEF ClassOf
<1>6. Rising(results[c]) /\ UpTo(results[c], queued) /\ BeforeAll(results[c], batches[c])
      /\ results[c] \in Seq(Int)
  BY <1>2, <1>5 DEF ProcessingInv, ClassInOrder
<1>7. /\ joined \in Seq(Int) /\ Rising(joined) /\ UpTo(joined, queued) /\ BeforeAll(joined, batches[c])
  <2>1. PICK s, u : s = results[c] /\ u = hand
    OBVIOUS
  <2>2. /\ s \o u \in Seq(Int) /\ Rising(s \o u)
        /\ \A n : UpTo(s, n) /\ UpTo(u, n) => UpTo(s \o u, n)
        /\ \A q : BeforeAll(s, q) /\ BeforeAll(u, q) => BeforeAll(s \o u, q)
    BY <1>3, <1>4, <1>6, <2>1, Joined
  <2>. HIDE DEF hand, c
  <2>. QED
    BY <1>4, <1>6, <2>1, <2>2
<1>. HIDE DEF c, hand, joined
<1>8. /\ results'[c] = joined /\ queueLock'[c] = Free
      /\ \A d \in Classes : d # c => results'[d] = results[d] /\ queueLock'[d] = queueLock[d]
  BY <1>1, <1>2, <1>5
<1>9. /\ processing' \in [Processors -> [at : 0..4, batch : Seq(Int)]]
      /\ processing'[p].batch = <<>>
      /\ \A r \in Processors : r # p => processing'[r] = processing[r]
  BY <1>1, <1>2 DEF NotProcessing
<1>10. ProcessingTypes'
  BY <1>1, <1>2, <1>5, <1>7, <1>9 DEF ProcessingTypes
<1>11. ClassInOrder'
  BY <1>1, <1>7, <1>8 DEF ProcessingInv, ClassInOrder
<1>12. ASSUME NEW r \in Processors, InHand(r)' # <<>>
       PROVE  /\ processing'[r].at \in 1..4 /\ queueLock'[ClassOf(r)'] = r
              /\ Rising(InHand(r)') /\ UpTo(InHand(r)', queued')
              /\ AllLess(results'[ClassOf(r)'], InHand(r)')
              /\ BeforeAll(InHand(r)', batches'[ClassOf(r)'])
  <2>1. r # p /\ processing'[r] = processing[r]
    BY <1>9, <1>12 DEF InHand
  <2>2. InHand(r)' = InHand(r) /\ ClassOf(r)' = ClassOf(r) /\ processing'[r].at = processing[r].at
    BY <2>1 DEF InHand, ClassOf
  <2>3. /\ processing[r].at \in 1..4 /\ queueLock[ClassOf(r)] = r
        /\ Rising(InHand(r)) /\ UpTo(InHand(r), queued)
        /\ AllLess(results[ClassOf(r)], InHand(r))
        /\ BeforeAll(InHand(r), batches[ClassOf(r)])
    BY <1>12, <2>2 DEF ProcessingInv, HandInOrder
  <2>4. ClassOf(r) \in Classes /\ ClassOf(r) # c
    BY <1>4, <2>1, <2>3, ClassesAre DEF ClassOf
  <2>. QED
    BY <1>1, <1>8, <2>2, <2>3, <2>4
<1>13. HandInOrder'
  BY <1>12 DEF HandInOrder
<1>14. ASSUME NEW r \in Processors, bufferLock' = r PROVE InHand(r)' # <<>>
  BY <1>1, <1>14 DEF ProcessingAssumption
<1>15. BufferIsUsed'
  BY <1>14 DEF BufferIsUsed
<1>. QED
  BY <1>10, <1>11, <1>13, <1>15 DEF ProcessingInv

LEMMA ProcessNextBatchInv ==
    ASSUME ProcessingInv, NEW p \in Processors, ProcessNextBatch(p)
    PROVE  ProcessingInv'
<1>1. /\ processing[p].at = 0 /\ processing' = [processing EXCEPT ![p].at = 1]
      /\ UNCHANGED <<batches, queueLock, bufferLock, results, queued, seenHashes>>
  BY DEF ProcessNextBatch
<1>2. processing \in [Processors -> [at : 0..4, batch : Seq(Int)]]
  BY DEF ProcessingInv, ProcessingTypes
<1>3. InHand(p) = <<>>
  <2>1. ~(0 \in 1..4)
    OBVIOUS
  <2>. QED
    BY <1>1, <2>1 DEF ProcessingInv, HandInOrder
<1>4. /\ processing' \in [Processors -> [at : 0..4, batch : Seq(Int)]]
      /\ InHand(p)' = <<>>
      /\ \A r \in Processors : r # p => processing'[r] = processing[r]
  BY <1>1, <1>2, <1>3 DEF InHand
<1>5. ProcessingTypes'
  BY <1>1, <1>4 DEF ProcessingInv, ProcessingTypes
<1>6. ClassInOrder'
  BY <1>1 DEF ProcessingInv, ClassInOrder
<1>7. HandInOrder'
  BY <1>1, <1>4 DEF ProcessingInv, HandInOrder, InHand, ClassOf
<1>8. BufferIsUsed'
  BY <1>1, <1>3, <1>4 DEF ProcessingInv, BufferIsUsed, InHand
<1>. QED
  BY <1>5, <1>6, <1>7, <1>8 DEF ProcessingInv

LEMMA LockBufferInv ==
    ASSUME ProcessingInv, NEW p \in Processors, LockBuffer(p)
    PROVE  ProcessingInv'
<1>1. /\ InHand(p) # <<>> /\ bufferLock' = p
      /\ UNCHANGED <<batches, queueLock, processing, results, queued, seenHashes>>
  BY DEF LockBuffer, InHand
<1>2. ProcessingTypes' /\ ClassInOrder' /\ HandInOrder'
  BY <1>1 DEF ProcessingInv, ProcessingTypes, ClassInOrder, HandInOrder, InHand, ClassOf
<1>3. BufferIsUsed'
  BY <1>1 DEF BufferIsUsed, InHand
<1>. QED
  BY <1>2, <1>3 DEF ProcessingInv

LEMMA ProcessingSteps ==
    ProcessingAssumption /\ ProcessingInv /\ [ProcessingNext]_processingVars => ProcessingInv'
<1>. SUFFICES ASSUME ProcessingAssumption, ProcessingInv, [ProcessingNext]_processingVars
              PROVE  ProcessingInv'
  OBVIOUS
<1>1. ASSUME UNCHANGED <<batches, queueLock, processing, bufferLock, results, queued>>
      PROVE  ProcessingInv'
  BY <1>1 DEF ProcessingInv, ProcessingTypes, ClassInOrder, HandInOrder, BufferIsUsed,
     InHand, ClassOf
<1>2. CASE UNCHANGED processingVars
  BY <1>1, <1>2 DEF processingVars
<1>3. CASE ProcessingNext
  <2>1. CASE \E h \in Hashes : IsDuplicate(h)
    BY <1>1, <2>1 DEF IsDuplicate
  <2>2. CASE \E c \in Classes : QueueMessage(c)
    BY <2>2, QueueMessageInv
  <2>3. ASSUME NEW p \in Processors,
               ProcessNextBatch(p) \/ TakeBatch(p) \/ LockBuffer(p) \/ ProcessBatch(p)
        PROVE  ProcessingInv'
    BY <2>3, ProcessNextBatchInv, TakeBatchInv, LockBufferInv, ProcessBatchInv
  <2>. QED
    BY <1>3, <2>1, <2>2, <2>3 DEF ProcessingNext
<1>. QED
  BY <1>2, <1>3

LEMMA ResultsInOrder == ProcessingInv => ClassesKeepTheirOrder
BY DEF ProcessingInv, ClassInOrder, Rising, ClassesKeepTheirOrder

(* process_next_batch leaves its batch in the shared buffer between two    *)
(* locks: whichever tasks meet there, the messages of one class are        *)
(* serialized in the order they were queued.                               *)
THEOREM ClassesInOrder == Spec => []ClassesKeepTheirOrder
<1>1. ProcessingInit => ProcessingInv
  BY ProcessingInitInv, ProcessingAssumption
<1>2. ProcessingInv /\ [ProcessingNext]_processingVars => ProcessingInv'
  BY ProcessingSteps, ProcessingAssumption
<1>. QED
  BY <1>1, <1>2, ResultsInOrder, ProcessingView, PTL

---------------------------------------------------------------------------
(* ManagementEvents *)

EventIds == Publishers \X Nat

EventTypes ==
    /\ subscribers \in [Subscriptions -> Nat]
    /\ streams \in [Subscriptions ->
          [number : Nat, open : BOOLEAN, filter : Filters \cup {[types |-> {}, nodes |-> {}]},
           channel : Seq(EventIds), missed : SUBSET EventIds]]
    /\ seen \in [Subscriptions -> Seq(EventIds)]
    /\ publishers \in [Publishers ->
          [events : Seq(Occurrences), busy : BOOLEAN, left : SUBSET Subscriptions,
           closed : SUBSET Subscriptions]]

(* What a publisher still has to visit belongs to an event in work.        *)
PublishersInWork ==
    \A p \in Publishers :
        /\ Len(publishers[p].events) <= MaxEvents
        /\ publishers[p].left # {} => publishers[p].busy

(* An id that was never subscribed is no publisher's to remove; nor is one *)
(* whose first stream is still open, and that one is registered.           *)
FirstStreamsStay ==
    \A i \in Subscriptions :
        /\ streams[i].number = 0 => ~streams[i].open /\ subscribers[i] = 0
        /\ streams[i].number = 1 /\ streams[i].open => subscribers[i] = 1
        /\ streams[i].number = 0 \/ (streams[i].number = 1 /\ streams[i].open)
             => \A p \in Publishers : i \notin publishers[p].closed

(* How event n of publisher p stands to the stream i.                      *)
Accounted(i, p, n) ==
    \/ <<p, n>> \in streams[i].missed \cup Got(i)
    \/ i \in publishers[p].left /\ n = Len(publishers[p].events)
    \/ ~Matches(streams[i].filter, <<p, n>>)

FirstStreamsAccount ==
    \A i \in Subscriptions :
        streams[i].number = 1 /\ streams[i].open =>
            \A p \in Publishers : \A n \in 1..Len(publishers[p].events) : Accounted(i, p, n)

EventInv == EventTypes /\ PublishersInWork /\ FirstStreamsStay /\ FirstStreamsAccount

LEMMA ToSetFacts ==
    ASSUME NEW S, NEW q \in Seq(S)
    PROVE  ToSet(q) = {q[i] : i \in 1..Len(q)} /\ \A e \in ToSet(q) : \E i \in 1..Len(q) : q[i] = e
<1>1. DOMAIN q = 1..Len(q)
  BY LenProperties
<1>. QED
  BY <1>1 DEF ToSet

LEMMA ToSetAppend ==
    ASSUME NEW S, NEW q \in Seq(S), NEW e \in S
    PROVE  ToSet(Append(q, e)) = ToSet(q) \cup {e}
<1>. DEFINE longer == Append(q, e)
<1>1. /\ Len(q) \in Nat /\ longer \in Seq(S) /\ Len(longer) = Len(q) + 1
      /\ longer[Len(q) + 1] = e
      /\ \A i \in 1..Len(q) : longer[i] = q[i] /\ i \in 1..Len(longer)
      /\ \A i \in 1..Len(longer) :
           \/ i \in 1..Len(q) /\ longer[i] = q[i]
           \/ i = Len(q) + 1 /\ longer[i] = e
  BY AppendFacts
<1>2. Len(q) + 1 \in 1..Len(longer)
  BY <1>1
<1>. HIDE DEF longer
<1>3. ToSet(longer) = {longer[i] : i \in 1..Len(longer)} /\ ToSet(q) = {q[i] : i \in 1..Len(q)}
  BY <1>1, ToSetFacts
<1>4. ToSet(longer) \subseteq ToSet(q) \cup {e}
  BY <1>1, <1>3
<1>5. ToSet(q) \cup {e} \subseteq ToSet(longer)
  BY <1>1, <1>2, <1>3
<1>6. ToSet(longer) = ToSet(q) \cup {e}
  BY <1>4, <1>5
<1>. QED
  BY <1>6 DEF longer

(* What try_next takes from a channel: the first that passes, and all      *)
(* before it.                                                              *)
Taking(c, passing) == CHOOSE k \in passing : \A j \in passing : k <= j

LEMMA TakingFacts ==
    ASSUME NEW S, NEW c \in Seq(S), NEW passing, passing \subseteq 1..Len(c), passing # {}
    PROVE  LET k == Taking(c, passing)
           IN  /\ k \in passing /\ k \in 1..Len(c)
               /\ SubSeq(c, k + 1, Len(c)) \in Seq(S)
               /\ \A j \in 1..Len(c) :
                    \/ j \notin passing
                    \/ c[j] = c[k]
                    \/ c[j] \in ToSet(SubSeq(c, k + 1, Len(c)))
<1>1. Len(c) \in Nat
  BY LenProperties
<1>2. passing \subseteq Nat
  BY <1>1
<1>3. \E x \in passing : \A y \in passing : x <= y
  BY <1>2, LeastExists
<1>. DEFINE k == Taking(c, passing)
<1>4. k \in passing /\ \A j \in passing : k <= j
  BY <1>3, Zenon DEF Taking
<1>. HIDE DEF k
<1>5. k \in 1..Len(c)
  BY <1>4
<1>6. PICK rest : rest = SubSeq(c, k + 1, Len(c))
  OBVIOUS
<1>7. /\ rest \in Seq(S) /\ Len(rest) = Len(c) - (k + 1) + 1
      /\ \A i \in 1..Len(c) - (k + 1) + 1 : k + 1 + i - 1 \in 1..Len(c) /\ rest[i] = c[k + 1 + i - 1]
  <2>1. k + 1 \in Int /\ Len(c) \in Int /\ k + 1 >= 1 /\ Len(c) <= Len(c) /\ k + 1 <= Len(c) + 1
    BY <1>1, <1>5
  <2>. QED
    BY <1>6, <2>1, CutFacts
<1>8. ASSUME NEW j \in 1..Len(c), j \in passing PROVE c[j] = c[k] \/ c[j] \in ToSet(rest)
  <2>1. j = k \/ j > k
    BY <1>4, <1>5, <1>8
  <2>2. CASE j > k
    <3>1. j - k \in 1..Len(rest) /\ j - k \in 1..Len(c) - (k + 1) + 1 /\ k + 1 + (j - k) - 1 = j
      BY <1>1, <1>5, <1>7, <2>2, SMTT(30)
    <3>2. rest[j - k] = c[j]
      BY <1>7, <3>1
    <3>. QED
      BY <1>7, <3>1, <3>2, ToSetFacts
  <2>. QED
    BY <2>1, <2>2
<1>. QED
  BY <1>4, <1>5, <1>6, <1>7, <1>8 DEF k

LEMMA EventInitInv == EventInit /\ EventAssumption => EventInv
<1>. SUFFICES ASSUME EventInit, EventAssumption PROVE EventInv
  OBVIOUS
<1>1. Len(<<>>) = 0 /\ \A S : <<>> \in Seq(S)
  OBVIOUS
<1>2. EventTypes
  BY <1>1 DEF EventInit, EventTypes
<1>3. \A i \in Subscriptions : streams[i].number = 0 /\ ~streams[i].open /\ subscribers[i] = 0
  BY DEF EventInit
<1>4. \A p \in Publishers : /\ publishers[p].events = <<>> /\ publishers[p].left = {}
                            /\ publishers[p].closed = {}
  BY DEF EventInit
<1>5. PublishersInWork
  BY <1>1, <1>4 DEF PublishersInWork, EventAssumption
<1>6. FirstStreamsStay /\ FirstStreamsAccount
  BY <1>3, <1>4 DEF FirstStreamsStay, FirstStreamsAccount
<1>. QED
  BY <1>2, <1>5, <1>6 DEF EventInv

(* What the proofs use of the types, one part at a time.                   *)
LEMMA StreamParts ==
    ASSUME EventTypes, NEW i \in Subscriptions
    PROVE  /\ streams[i].number \in Nat /\ streams[i].open \in BOOLEAN
           /\ streams[i].filter \in Filters \cup {[types |-> {}, nodes |-> {}]}
           /\ streams[i].channel \in Seq(EventIds) /\ streams[i].missed \in SUBSET EventIds
           /\ seen[i] \in Seq(EventIds) /\ subscribers[i] \in Nat
BY DEF EventTypes

LEMMA PublisherParts ==
    ASSUME EventTypes, NEW p \in Publishers
    PROVE  /\ publishers[p].events \in Seq(Occurrences) /\ publishers[p].busy \in BOOLEAN
           /\ publishers[p].left \in SUBSET Subscriptions
           /\ publishers[p].closed \in SUBSET Subscriptions
           /\ Len(publishers[p].events) \in Nat
BY LenProperties DEF EventTypes

LEMMA SubscribeInv ==
    ASSUME EventInv, EventAssumption, NEW i \in Subscriptions, NEW filter \in Filters,
           Subscribe(i, filter)
    PROVE  EventInv'
<1>. DEFINE new == [number |-> streams[i].number + 1, open |-> TRUE, filter |-> filter,
                    channel |-> <<>>,
                    missed |-> {e \in Publishers \X (1..MaxEvents) :
                                  e[2] <= Len(publishers[e[1]].events)}]
<1>1. /\ streams' = [streams EXCEPT ![i] = new]
      /\ subscribers' = [subscribers EXCEPT ![i] = streams'[i].number]
      /\ seen' = [seen EXCEPT ![i] = <<>>]
      /\ publishers' = publishers
  BY DEF Subscribe
<1>2. EventTypes /\ streams[i].number \in Nat /\ <<>> \in Seq(EventIds)
  BY StreamParts DEF EventInv
<1>3. new.missed \in SUBSET EventIds
  BY DEF EventIds, EventAssumption
<1>4. /\ new \in [number : Nat, open : BOOLEAN, filter : Filters \cup {[types |-> {}, nodes |-> {}]},
                  channel : Seq(EventIds), missed : SUBSET EventIds]
      /\ new.number = streams[i].number + 1 /\ new.open
  BY <1>2, <1>3
<1>5. ASSUME NEW p \in Publishers, NEW n \in 1..Len(publishers[p].events)
      PROVE  <<p, n>> \in new.missed
  BY <1>2, PublisherParts DEF EventInv, PublishersInWork, EventAssumption
<1>. HIDE DEF new
<1>6. /\ streams'[i] = new /\ subscribers'[i] = new.number
      /\ \A j \in Subscriptions : j # i =>
           streams'[j] = streams[j] /\ subscribers'[j] = subscribers[j] /\ seen'[j] = seen[j]
  BY <1>1, <1>2 DEF EventTypes
<1>7. EventTypes'
  <2>1. streams' \in [Subscriptions ->
          [number : Nat, open : BOOLEAN, filter : Filters \cup {[types |-> {}, nodes |-> {}]},
           channel : Seq(EventIds), missed : SUBSET EventIds]]
    BY <1>1, <1>2, <1>4 DEF EventTypes
  <2>2. subscribers' \in [Subscriptions -> Nat]
    BY <1>1, <1>2, <1>4, <1>6 DEF EventTypes
  <2>3. seen' \in [Subscriptions -> Seq(EventIds)]
    BY <1>1, <1>2 DEF EventTypes
  <2>. QED
    BY <1>1, <1>2, <2>1, <2>2, <2>3 DEF EventTypes
<1>8. PublishersInWork'
  BY <1>1 DEF EventInv, PublishersInWork
<1>9. FirstStreamsStay'
  <2>. SUFFICES ASSUME NEW j \in Subscriptions
       PROVE  /\ streams'[j].number = 0 => ~streams'[j].open /\ subscribers'[j] = 0
              /\ streams'[j].number = 1 /\ streams'[j].open => subscribers'[j] = 1
              /\ streams'[j].number = 0 \/ (streams'[j].number = 1 /\ streams'[j].open)
                   => \A p \in Publishers : j \notin publishers[p].closed
    BY <1>1 DEF FirstStreamsStay
  <2>1. CASE j = i
    <3>1. new.number # 0 /\ (new.number = 1 => streams[i].number = 0)
      BY <1>2, <1>4
    <3>2. new.number = 1 => \A p \in Publishers : i \notin publishers[p].closed
      BY <3>1 DEF EventInv, FirstStreamsStay
    <3>. QED
      BY <1>6, <2>1, <3>1, <3>2
  <2>2. CASE j # i
    BY <1>6, <2>2 DEF EventInv, FirstStreamsStay
  <2>. QED
    BY <2>1, <2>2
<1>10. FirstStreamsAccount'
  <2>. SUFFICES ASSUME NEW j \in Subscriptions, streams'[j].number = 1, streams'[j].open,
                       NEW p \in Publishers, NEW n \in 1..Len(publishers[p].events)
                PROVE  Accounted(j, p, n)'
    BY <1>1 DEF FirstStreamsAccount
  <2>1. CASE j = i
    BY <1>5, <1>6, <2>1 DEF Accounted
  <2>2. CASE j # i
    <3>1. Accounted(j, p, n)
      BY <1>6, <2>2 DEF EventInv, FirstStreamsAccount
    <3>. QED
      BY <1>1, <1>6, <2>2, <3>1 DEF Accounted, Got, Matches, Event, EventNode
  <2>. QED
    BY <2>1, <2>2
<1>. QED
  BY <1>7, <1>8, <1>9, <1>10 DEF EventInv

LEMMA CloseStreamInv ==
    ASSUME EventInv, NEW i \in Subscriptions, CloseStream(i)
    PROVE  EventInv'
<1>. DEFINE new == [streams[i] EXCEPT !.open = FALSE, !.channel = <<>>]
<1>1. /\ streams' = [streams EXCEPT ![i] = new] /\ streams[i].open
      /\ subscribers' = subscribers /\ seen' = seen /\ publishers' = publishers
  BY DEF CloseStream
<1>2. EventTypes /\ <<>> \in Seq(EventIds)
      /\ streams[i] \in [number : Nat, open : BOOLEAN, filter : Filters \cup {[types |-> {}, nodes |-> {}]},
                  channel : Seq(EventIds), missed : SUBSET EventIds]
  BY DEF EventInv, EventTypes
<1>3. /\ new \in [number : Nat, open : BOOLEAN, filter : Filters \cup {[types |-> {}, nodes |-> {}]},
                  channel : Seq(EventIds), missed : SUBSET EventIds]
      /\ new.number = streams[i].number /\ ~new.open
  BY <1>2
<1>. HIDE DEF new
<1>4. /\ streams' \in [Subscriptions ->
          [number : Nat, open : BOOLEAN, filter : Filters \cup {[types |-> {}, nodes |-> {}]},
           channel : Seq(EventIds), missed : SUBSET EventIds]]
      /\ streams'[i] = new
      /\ \A j \in Subscriptions : j # i => streams'[j] = streams[j]
  BY <1>1, <1>2, <1>3 DEF EventTypes
<1>5. EventTypes' /\ PublishersInWork'
  BY <1>1, <1>4 DEF EventInv, EventTypes, PublishersInWork
<1>6. streams[i].number # 0
  BY <1>1 DEF EventInv, FirstStreamsStay
<1>7. FirstStreamsStay'
  BY <1>1, <1>3, <1>4, <1>6 DEF EventInv, FirstStreamsStay
<1>8. FirstStreamsAccount'
  <2>. SUFFICES ASSUME NEW j \in Subscriptions, streams'[j].number = 1, streams'[j].open,
                       NEW p \in Publishers, NEW n \in 1..Len(publishers[p].events)
                PROVE  Accounted(j, p, n)'
    BY <1>1 DEF FirstStreamsAccount
  <2>1. j # i
    BY <1>3, <1>4
  <2>2. Accounted(j, p, n)
    BY <1>4, <2>1 DEF EventInv, FirstStreamsAccount
  <2>. QED
    BY <1>1, <1>4, <2>1, <2>2 DEF Accounted, Got, Matches, Event, EventNode
<1>. QED
  BY <1>5, <1>7, <1>8 DEF EventInv

(* A step that leaves the publishers and all but the channel of stream i   *)
(* alone, and loses of it only what the filter refuses.                    *)
LEMMA ChannelStep ==
    ASSUME EventInv, NEW i \in Subscriptions, NEW c \in Seq(EventIds), NEW s \in Seq(EventIds),
           streams' = [streams EXCEPT ![i].channel = c], seen' = [seen EXCEPT ![i] = s],
           subscribers' = subscribers, publishers' = publishers,
           \A e \in Got(i) : e \in ToSet(s) \cup ToSet(c) \/ ~Matches(streams[i].filter, e)
    PROVE  EventInv'
<1>1. /\ streams \in [Subscriptions ->
          [number : Nat, open : BOOLEAN, filter : Filters \cup {[types |-> {}, nodes |-> {}]},
           channel : Seq(EventIds), missed : SUBSET EventIds]]
      /\ seen \in [Subscriptions -> Seq(EventIds)]
  BY DEF EventInv, EventTypes
<1>2. /\ streams' \in [Subscriptions ->
          [number : Nat, open : BOOLEAN, filter : Filters \cup {[types |-> {}, nodes |-> {}]},
           channel : Seq(EventIds), missed : SUBSET EventIds]]
      /\ seen' \in [Subscriptions -> Seq(EventIds)]
  BY <1>1
<1>3. /\ seen'[i] = s /\ streams'[i].channel = c
      /\ \A j \in Subscriptions :
           /\ streams'[j].number = streams[j].number /\ streams'[j].open = streams[j].open
           /\ streams'[j].filter = streams[j].filter /\ streams'[j].missed = streams[j].missed
           /\ j # i => streams'[j].channel = streams[j].channel /\ seen'[j] = seen[j]
  BY <1>1
<1>4. EventTypes' /\ PublishersInWork'
  BY <1>2 DEF EventInv, EventTypes, PublishersInWork
<1>5. FirstStreamsStay'
  BY <1>3 DEF EventInv, FirstStreamsStay
<1>6. FirstStreamsAccount'
  <2>. SUFFICES ASSUME NEW j \in Subscriptions, streams[j].number = 1, streams[j].open,
                       NEW p \in Publishers, NEW n \in 1..Len(publishers[p].events)
                PROVE  Accounted(j, p, n)'
    BY <1>3 DEF FirstStreamsAccount
  <2>1. Accounted(j, p, n)
    BY DEF EventInv, FirstStreamsAccount
  <2>2. publishers' = publishers /\ streams'[j].filter = streams[j].filter
    BY <1>3
  <2>3. ~Matches(streams[j].filter, <<p, n>>) => ~Matches(streams[j].filter, <<p, n>>)'
    BY <2>2 DEF Matches, Event, EventNode
  <2>4. <<p, n>> \in Got(j) => <<p, n>> \in Got(j)' \/ ~Matches(streams[j].filter, <<p, n>>)
    <3>1. CASE j = i
      BY <1>3, <3>1 DEF Got
    <3>2. CASE j # i
      BY <1>3, <3>2 DEF Got
    <3>. QED
      BY <3>1, <3>2
  <2>. QED
    BY <1>3, <2>1, <2>2, <2>3, <2>4 DEF Accounted
<1>. QED
  BY <1>4, <1>5, <1>6 DEF EventInv

LEMMA TryNextInv ==
    ASSUME EventInv, NEW i \in Subscriptions, TryNext(i)
    PROVE  EventInv'
<1>. DEFINE c == streams[i].channel
            passing == {k \in DOMAIN c : Matches(streams[i].filter, c[k])}
<1>1. /\ IF passing = {}
         THEN streams' = [streams EXCEPT ![i].channel = <<>>] /\ UNCHANGED seen
         ELSE /\ streams' = [streams EXCEPT ![i].channel = SubSeq(c, Taking(c, passing) + 1, Len(c))]
              /\ seen' = [seen EXCEPT ![i] = Append(@, c[Taking(c, passing)])]
      /\ subscribers' = subscribers /\ publishers' = publishers
  BY Zenon DEF TryNext, Taking
<1>2. /\ c \in Seq(EventIds) /\ seen[i] \in Seq(EventIds) /\ seen \in [Subscriptions -> Seq(EventIds)]
      /\ DOMAIN c = 1..Len(c)
  BY LenProperties DEF EventInv, EventTypes
<1>3. Got(i) = ToSet(seen[i]) \cup ToSet(c)
  BY DEF Got
<1>4. \A e \in ToSet(c) : \E j \in 1..Len(c) : c[j] = e
  BY <1>2, ToSetFacts
<1>5. CASE passing = {}
  <2>1. streams' = [streams EXCEPT ![i].channel = <<>>] /\ seen' = [seen EXCEPT ![i] = seen[i]]
    BY <1>1, <1>2, <1>5
  <2>2. \A e \in Got(i) : e \in ToSet(seen[i]) \cup ToSet(<<>>) \/ ~Matches(streams[i].filter, e)
    BY <1>2, <1>3, <1>4, <1>5
  <2>3. <<>> \in Seq(EventIds)
    OBVIOUS
  <2>. QED
    BY <1>1, <1>2, <2>1, <2>2, <2>3, ChannelStep
<1>6. CASE passing # {}
  <2>1. PICK k, rest : k = Taking(c, passing) /\ rest = SubSeq(c, k + 1, Len(c))
    OBVIOUS
  <2>2. passing \subseteq 1..Len(c)
    BY <1>2
  <2>3. PICK d, P, f : d = c /\ P = passing /\ f = streams[i].filter
    OBVIOUS
  <2>4. /\ k \in P /\ k \in 1..Len(d) /\ rest \in Seq(EventIds)
        /\ \A j \in 1..Len(d) : j \notin P \/ d[j] = d[k] \/ d[j] \in ToSet(rest)
    BY <1>2, <1>6, <2>1, <2>2, <2>3, TakingFacts
  <2>5. d[k] \in EventIds /\ d \in Seq(EventIds)
    BY <1>2, <2>3, <2>4, ElementOfSeq
  <2>6. PICK s : s = Append(seen[i], d[k])
    OBVIOUS
  <2>7. s \in Seq(EventIds) /\ ToSet(s) = ToSet(seen[i]) \cup {d[k]}
    BY <1>2, <2>5, <2>6, ToSetAppend, AppendProperties
  <2>8. streams' = [streams EXCEPT ![i].channel = rest] /\ seen' = [seen EXCEPT ![i] = s]
    BY <1>1, <1>6, <2>1, <2>3, <2>6
  <2>9. ASSUME NEW e \in Got(i), ~(e \in ToSet(s) \cup ToSet(rest))
        PROVE  ~Matches(streams[i].filter, e)
    <3>1. PICK j \in 1..Len(d) : d[j] = e
      BY <1>3, <1>4, <2>3, <2>7, <2>9
    <3>2. j \notin P
      BY <2>4, <2>7, <2>9, <3>1
    <3>. QED
      BY <1>2, <2>3, <3>1, <3>2
  <2>. QED
    BY <1>1, <2>4, <2>7, <2>8, <2>9, ChannelStep
<1>. QED
  BY <1>5, <1>6

PublisherRecord ==
    [events : Seq(Occurrences), busy : BOOLEAN, left : SUBSET Subscriptions,
     closed : SUBSET Subscriptions]

LEMMA PublishInv ==
    ASSUME EventInv, EventAssumption, NEW p \in Publishers, NEW what \in Occurrences, Publish(p, what)
    PROVE  EventInv'
<1>. DEFINE old == publishers[p].events
            longer == Append(old, what)
            new == [events |-> longer, busy |-> TRUE, left |-> Subscriptions, closed |-> {}]
<1>1. /\ ~publishers[p].busy /\ Len(old) < MaxEvents
      /\ publishers' = [publishers EXCEPT ![p] = new]
      /\ subscribers' = subscribers /\ streams' = streams /\ seen' = seen
  BY DEF Publish
<1>2. old \in Seq(Occurrences) /\ Len(old) \in Nat /\ publishers \in [Publishers -> PublisherRecord]
  BY PublisherParts DEF EventInv, EventTypes, PublisherRecord
<1>3. /\ longer \in Seq(Occurrences) /\ Len(longer) = Len(old) + 1
      /\ \A n \in 1..Len(old) : longer[n] = old[n]
  BY <1>2, AppendFacts
<1>4. new \in PublisherRecord /\ new.events = longer /\ new.busy /\ new.left = Subscriptions /\ new.closed = {}
  BY <1>3 DEF PublisherRecord
<1>5. publishers[p].left = {}
  BY <1>1 DEF EventInv, PublishersInWork
<1>. HIDE DEF new, longer, old
<1>6. /\ publishers' \in [Publishers -> PublisherRecord] /\ publishers'[p] = new
      /\ \A q \in Publishers : q # p => publishers'[q] = publishers[q]
  BY <1>1, <1>2, <1>4
<1>7. EventTypes'
  BY <1>1, <1>6 DEF EventInv, EventTypes, PublisherRecord
<1>8. PublishersInWork'
  <2>1. Len(longer) <= MaxEvents
    BY <1>1, <1>2, <1>3 DEF EventAssumption
  <2>. QED
    BY <1>4, <1>6, <2>1 DEF EventInv, PublishersInWork
<1>9. FirstStreamsStay'
  BY <1>1, <1>4, <1>6 DEF EventInv, FirstStreamsStay
<1>10. FirstStreamsAccount'
  <2>. SUFFICES ASSUME NEW i \in Subscriptions, streams[i].number = 1, streams[i].open,
                       NEW q \in Publishers, NEW n \in 1..Len(publishers'[q].events)
                PROVE  Accounted(i, q, n)'
    BY <1>1 DEF FirstStreamsAccount
  <2>1. CASE q # p
    <3>1. publishers'[q] = publishers[q] /\ n \in 1..Len(publishers[q].events)
      BY <1>6, <2>1
    <3>2. Accounted(i, q, n)
      BY <3>1 DEF EventInv, FirstStreamsAccount
    <3>. QED
      BY <1>1, <3>1, <3>2 DEF Accounted, Got, Matches, Event, EventNode
  <2>2. CASE q = p /\ n \in 1..Len(old)
    <3>1. Accounted(i, p, n) /\ ~(i \in publishers[p].left)
      BY <1>5, <2>2 DEF EventInv, FirstStreamsAccount, old
    <3>2. publishers'[p].events[n] = publishers[p].events[n]
      BY <1>3, <1>4, <1>6, <2>2 DEF old
    <3>3. Matches(streams[i].filter, <<p, n>>)' <=> Matches(streams[i].filter, <<p, n>>)
      BY <1>1, <3>2 DEF Matches, Event, EventNode
    <3>. QED
      BY <1>1, <2>2, <3>1, <3>3 DEF Accounted, Got
  <2>3. CASE q = p /\ n = Len(longer)
    BY <1>4, <1>6, <2>3 DEF Accounted
  <2>4. q = p => n \in 1..Len(old) \/ n = Len(longer)
    BY <1>2, <1>3, <1>4, <1>6
  <2>. QED
    BY <2>1, <2>2, <2>3, <2>4
<1>. QED
  BY <1>7, <1>8, <1>9, <1>10 DEF EventInv

LEMMA VisitInv ==
    ASSUME EventInv, NEW p \in Publishers, NEW i \in Subscriptions, Visit(p, i)
    PROVE  EventInv'
<1>. DEFINE delivered == subscribers[i] = streams[i].number /\ streams[i].open
            closed == IF subscribers[i] # 0 /\ ~delivered THEN publishers[p].closed \cup {i}
                      ELSE publishers[p].closed
            new == [publishers[p] EXCEPT !.left = @ \ {i}, !.closed = closed]
            last == Len(publishers[p].events)
            c == IF subscribers[i] # 0 /\ delivered THEN Append(streams[i].channel, <<p, last>>)
                 ELSE streams[i].channel
<1>1. /\ i \in publishers[p].left /\ publishers' = [publishers EXCEPT ![p] = new]
      /\ subscribers' = subscribers /\ seen' = seen
  BY DEF Visit
<1>2. /\ streams \in [Subscriptions ->
          [number : Nat, open : BOOLEAN, filter : Filters \cup {[types |-> {}, nodes |-> {}]},
           channel : Seq(EventIds), missed : SUBSET EventIds]]
      /\ streams[i].channel \in Seq(EventIds)
      /\ publishers \in [Publishers -> PublisherRecord] /\ publishers[p] \in PublisherRecord
      /\ last \in Nat /\ <<p, last>> \in EventIds
  BY PublisherParts DEF EventInv, EventTypes, PublisherRecord, EventIds
<1>3. streams' = [streams EXCEPT ![i].channel = c]
  <2>1. CASE subscribers[i] # 0 /\ delivered
    BY <2>1 DEF Visit
  <2>2. CASE ~(subscribers[i] # 0 /\ delivered)
    <3>1. streams' = streams /\ c = streams[i].channel
      BY <2>2 DEF Visit
    <3>. QED
      BY <1>2, <3>1
  <2>. QED
    BY <2>1, <2>2
<1>4. /\ c \in Seq(EventIds) /\ ToSet(streams[i].channel) \subseteq ToSet(c)
      /\ subscribers[i] # 0 /\ delivered => <<p, last>> \in ToSet(c)
  <2>1. PICK old : old = streams[i].channel
    OBVIOUS
  <2>2. PICK e : e = <<p, last>>
    OBVIOUS
  <2>3. old \in Seq(EventIds) /\ e \in EventIds
    BY <1>2, <2>1, <2>2
  <2>4. /\ Append(old, e) \in Seq(EventIds)
        /\ ToSet(Append(old, e)) = ToSet(old) \cup {e}
    BY <2>3, ToSetAppend, AppendProperties
  <2>5. CASE subscribers[i] # 0 /\ delivered
    <3>1. c = Append(old, e)
      BY <2>1, <2>2, <2>5
    <3>. QED
      BY <2>1, <2>2, <2>4, <3>1
  <2>6. CASE ~(subscribers[i] # 0 /\ delivered)
    <3>1. c = old
      BY <2>1, <2>6
    <3>. QED
      BY <2>1, <2>3, <2>6, <3>1
  <2>. QED
    BY <2>5, <2>6
<1>5. /\ new \in PublisherRecord /\ new.events = publishers[p].events /\ new.busy = publishers[p].busy
      /\ new.left = publishers[p].left \ {i} /\ new.closed = closed
  <2>1. closed \in SUBSET Subscriptions
    BY <1>2 DEF PublisherRecord
  <2>. HIDE DEF closed
  <2>. QED
    BY <1>2, <2>1 DEF PublisherRecord
<1>. HIDE DEF new, c
<1>6. /\ publishers' \in [Publishers -> PublisherRecord] /\ publishers'[p] = new
      /\ \A q \in Publishers : q # p => publishers'[q] = publishers[q]
  BY <1>1, <1>2, <1>5
<1>7. /\ streams' \in [Subscriptions ->
          [number : Nat, open : BOOLEAN, filter : Filters \cup {[types |-> {}, nodes |-> {}]},
           channel : Seq(EventIds), missed : SUBSET EventIds]]
      /\ streams'[i].channel = c
      /\ \A j \in Subscriptions :
           /\ streams'[j].number = streams[j].number /\ streams'[j].open = streams[j].open
           /\ streams'[j].filter = streams[j].filter /\ streams'[j].missed = streams[j].missed
           /\ j # i => streams'[j].channel = streams[j].channel
  BY <1>2, <1>3, <1>4
<1>8. \A q \in Publishers : publishers'[q].events = publishers[q].events
                            /\ publishers'[q].busy = publishers[q].busy
                            /\ publishers'[q].left \subseteq publishers[q].left
  BY <1>5, <1>6
<1>9. EventTypes'
  BY <1>1, <1>6, <1>7 DEF EventInv, EventTypes, PublisherRecord
<1>10. PublishersInWork'
  BY <1>8 DEF EventInv, PublishersInWork
<1>11. FirstStreamsStay'
  <2>. SUFFICES ASSUME NEW j \in Subscriptions
       PROVE  /\ streams[j].number = 0 => ~streams[j].open /\ subscribers[j] = 0
              /\ streams[j].number = 1 /\ streams[j].open => subscribers[j] = 1
              /\ streams[j].number = 0 \/ (streams[j].number = 1 /\ streams[j].open)
                   => \A q \in Publishers : j \notin publishers'[q].closed
    BY <1>1, <1>7 DEF FirstStreamsStay
  <2>1. /\ streams[j].number = 0 => ~streams[j].open /\ subscribers[j] = 0
        /\ streams[j].number = 1 /\ streams[j].open => subscribers[j] = 1
        /\ streams[j].number = 0 \/ (streams[j].number = 1 /\ streams[j].open)
             => \A q \in Publishers : j \notin publishers[q].closed
    BY DEF EventInv, FirstStreamsStay
  <2>2. streams[j].number = 0 \/ (streams[j].number = 1 /\ streams[j].open)
          => j \notin closed \/ j \in publishers[p].closed
    BY <2>1
  <2>3. streams[j].number = 0 \/ (streams[j].number = 1 /\ streams[j].open)
          => \A q \in Publishers : j \notin publishers'[q].closed
    BY <1>5, <1>6, <2>1, <2>2
  <2>. QED
    BY <2>1, <2>3
<1>12. FirstStreamsAccount'
  <2>. SUFFICES ASSUME NEW j \in Subscriptions, streams[j].number = 1, streams[j].open,
                       NEW q \in Publishers, NEW n \in 1..Len(publishers[q].events)
                PROVE  Accounted(j, q, n)'
    BY <1>7, <1>8 DEF FirstStreamsAccount
  <2>1. Accounted(j, q, n)
    BY DEF EventInv, FirstStreamsAccount
  <2>2. ToSet(streams[j].channel) \subseteq ToSet(streams'[j].channel)
    BY <1>4, <1>7
  <2>3. Got(j) \subseteq Got(j)'
    BY <1>1, <2>2 DEF Got
  <2>4. Matches(streams[j].filter, <<q, n>>)' <=> Matches(streams[j].filter, <<q, n>>)
    BY <1>7, <1>8 DEF Matches, Event, EventNode
  <2>5. CASE j = i /\ q = p /\ n = last
    <3>1. subscribers[i] # 0 /\ delivered
      BY <2>5 DEF EventInv, FirstStreamsStay
    <3>2. <<q, n>> \in Got(j)'
      BY <1>4, <1>7, <2>5, <3>1 DEF Got
    <3>. QED
      BY <3>2 DEF Accounted
  <2>6. CASE ~(j = i /\ q = p /\ n = last)
    <3>1. j \in publishers[q].left /\ n = Len(publishers[q].events)
            => j \in publishers'[q].left /\ n = Len(publishers'[q].events)
      BY <1>5, <1>6, <1>8, <2>6
    <3>. QED
      BY <1>7, <2>1, <2>3, <2>4, <3>1 DEF Accounted
  <2>. QED
    BY <2>5, <2>6
<1>. QED
  BY <1>9, <1>10, <1>11, <1>12 DEF EventInv

LEMMA CleanUpInv ==
    ASSUME EventInv, NEW p \in Publishers, CleanUp(p)
    PROVE  EventInv'
<1>. DEFINE new == [publishers[p] EXCEPT !.busy = FALSE, !.closed = {}]
<1>1. /\ publishers[p].left = {}
      /\ subscribers' = [i \in Subscriptions |->
                          IF i \in publishers[p].closed THEN 0 ELSE subscribers[i]]
      /\ publishers' = [publishers EXCEPT ![p] = new]
      /\ streams' = streams /\ seen' = seen
  BY DEF CleanUp
<1>2. publishers \in [Publishers -> PublisherRecord] /\ publishers[p] \in PublisherRecord
      /\ subscribers \in [Subscriptions -> Nat]
  BY DEF EventInv, EventTypes, PublisherRecord
<1>3. /\ new \in PublisherRecord /\ new.events = publishers[p].events /\ new.left = {}
      /\ new.closed = {}
  BY <1>1, <1>2 DEF PublisherRecord
<1>. HIDE DEF new
<1>4. /\ publishers' \in [Publishers -> PublisherRecord] /\ publishers'[p] = new
      /\ \A q \in Publishers : q # p => publishers'[q] = publishers[q]
      /\ subscribers' \in [Subscriptions -> Nat]
  BY <1>1, <1>2, <1>3
<1>5. \A q \in Publishers : publishers'[q].events = publishers[q].events
                            /\ publishers'[q].left = publishers[q].left
                            /\ publishers'[q].closed \subseteq publishers[q].closed
  BY <1>1, <1>3, <1>4
<1>6. EventTypes'
  BY <1>1, <1>4 DEF EventInv, EventTypes, PublisherRecord
<1>7. PublishersInWork'
  BY <1>3, <1>4 DEF EventInv, PublishersInWork
<1>8. FirstStreamsStay'
  BY <1>1, <1>5 DEF EventInv, FirstStreamsStay
<1>9. FirstStreamsAccount'
  <2>. SUFFICES ASSUME NEW j \in Subscriptions, streams[j].number = 1, streams[j].open,
                       NEW q \in Publishers, NEW n \in 1..Len(publishers[q].events)
                PROVE  Accounted(j, q, n)'
    BY <1>1, <1>5 DEF FirstStreamsAccount
  <2>1. Accounted(j, q, n)
    BY DEF EventInv, FirstStreamsAccount
  <2>. QED
    BY <1>1, <1>5, <2>1 DEF Accounted, Got, Matches, Event, EventNode
<1>. QED
  BY <1>6, <1>7, <1>8, <1>9 DEF EventInv

LEMMA EventSteps == EventAssumption /\ EventInv /\ [EventNext]_eventVars => EventInv'
<1>. SUFFICES ASSUME EventAssumption, EventInv, [EventNext]_eventVars PROVE EventInv'
  OBVIOUS
<1>1. CASE UNCHANGED eventVars
  BY <1>1 DEF eventVars, EventInv, EventTypes, PublishersInWork, FirstStreamsStay,
     FirstStreamsAccount, Accounted, Got, Matches, Event, EventNode
<1>2. CASE EventNext
  BY <1>2, PublishInv, VisitInv, CleanUpInv, SubscribeInv, CloseStreamInv, TryNextInv DEF EventNext
<1>. QED
  BY <1>1, <1>2

LEMMA AccountMissesNothing == EventInv => FirstStreamsMissNothing
<1>. SUFFICES ASSUME EventInv, NEW i \in Subscriptions, streams[i].number = 1, streams[i].open,
                     NEW p \in Publishers, NEW n \in DOMAIN publishers[p].events
              PROVE  \/ <<p, n>> \in streams[i].missed \cup Got(i)
                     \/ publishers[p].busy /\ n = Len(publishers[p].events)
                     \/ ~Matches(streams[i].filter, <<p, n>>)
  BY DEF FirstStreamsMissNothing
<1>1. n \in 1..Len(publishers[p].events)
  BY PublisherParts, LenProperties DEF EventInv
<1>2. Accounted(i, p, n)
  BY <1>1 DEF EventInv, FirstStreamsAccount
<1>3. i \in publishers[p].left => publishers[p].busy
  BY DEF EventInv, PublishersInWork
<1>. QED
  BY <1>2, <1>3 DEF Accounted

(* The first stream of a subscription id misses no event that its filter   *)
(* lets through and that was published while it was open, however the      *)
(* publishers' visits interleave with closing and reopening streams.       *)
THEOREM NoEventIsMissed == Spec => []FirstStreamsMissNothing
<1>1. EventInit => EventInv
  BY EventInitInv, EventAssumption
<1>2. EventInv /\ [EventNext]_eventVars => EventInv'
  BY EventSteps, EventAssumption
<1>. QED
  BY <1>1, <1>2, AccountMissesNothing, EventView, PTL

---------------------------------------------------------------------------
(* SimpleStorage *)

(* Not past the last index, as the rows lie behind the snapshot.           *)
Reaches(i) == i <= snap \/ \E j \in rows : i <= j

StorageTypes ==
    /\ MaxIndex \in Nat
    /\ rows \subseteq Index /\ commit \in 0..MaxIndex /\ snap \in 0..MaxIndex
    /\ settled \in 0..MaxIndex /\ awaited \in 0..MaxIndex
    /\ snap <= settled /\ settled <= commit
    /\ \A i \in rows : snap < i

(* Behind what is settled no row is missing between two, nor between the   *)
(* snapshot and a row.                                                     *)
NoGapBelow ==
    \A i \in Index :
      /\ awaited < i /\ snap < i /\ i <= settled
      /\ snap # 0 \/ \E a \in rows : a < i
      => i \in rows

(* And in front of it none below a row.                                    *)
NoGapAbove ==
    \A i \in Index, j \in rows : awaited < i /\ settled < i /\ i < j => i \in rows

(* What the library has unsaved continues the log of the store, or its     *)
(* snapshot replaces it.                                                   *)
LibraryFits ==
    /\ lib \in [commit : 0..MaxIndex, from : 1..(MaxIndex + 1), to : 0..MaxIndex,
                snap : 0..MaxIndex]
    /\ commit <= lib.commit
    /\ HasUnsaved => lib.commit <= lib.to /\ settled < lib.from
    /\ lib.snap = 0 =>
         IF HasUnsaved THEN Reaches(lib.from - 1) ELSE Reaches(lib.commit)
    /\ lib.snap # 0 =>
         /\ lib.from = lib.snap + 1 /\ settled < lib.snap /\ lib.snap <= lib.commit
         /\ ~HasUnsaved => lib.commit = lib.snap
    /\ pc \in {"entries", "snapshot"} => commit = lib.commit
    /\ pc = "snapshot" => lib.from..lib.to \subseteq rows
    /\ pc = "snapshot" /\ HasUnsaved => lib.snap <= awaited

StorageInv ==
    /\ StorageTypes
    /\ Reaches(settled) /\ NoGapBelow /\ NoGapAbove
    /\ pc \in {"idle", "down", "hardstate", "entries", "snapshot"}
    /\ pc # "down" => LibraryFits

LEMMA IndexIsNat == Index \subseteq Nat /\ \A i \in Index : i \in Int /\ 1 <= i
BY DEF Index

(* A bounded set of numbers has a greatest.                                *)
LEMMA GreatestExists ==
    ASSUME NEW S, S \subseteq Nat, S # {}, NEW n \in Nat, \A x \in S : x <= n
    PROVE  \E x \in S : \A y \in S : y <= x
<1>. DEFINE T == {n - x : x \in S}
<1>1. T \subseteq Nat /\ T # {}
  <2>1. \A x \in S : n - x \in Nat
    OBVIOUS
  <2>2. T \subseteq Nat
    BY <2>1
  <2>3. T # {}
    OBVIOUS
  <2>. QED
    BY <2>2, <2>3
<1>2. PICK y \in T : \A z \in T : y <= z
  BY <1>1, LeastExists
<1>3. PICK m \in S : y = n - m
  OBVIOUS
<1>4. ASSUME NEW x \in S PROVE x <= m
  <2>1. n - x \in T
    OBVIOUS
  <2>2. n - m <= n - x
    BY <1>2, <1>3, <2>1
  <2>. QED
    BY <2>2
<1>. QED
  BY <1>4

LEMMA LastFacts ==
    ASSUME StorageTypes
    PROVE  LastIndex \in 0..MaxIndex /\ \A i \in Int : i <= LastIndex <=> Reaches(i)
<1>1. rows \subseteq Nat /\ \A x \in rows : x <= MaxIndex
  BY DEF Index, StorageTypes
<1>2. \E l \in 0..MaxIndex : IsLast(l)
  <2>1. CASE rows = {}
    BY <2>1 DEF IsLast, StorageTypes
  <2>2. CASE rows # {}
    <3>1. MaxIndex \in Nat
      BY DEF StorageTypes
    <3>2. PICK m \in rows : \A x \in rows : x <= m
      BY <1>1, <2>2, <3>1, GreatestExists
    <3>3. IsLast(m) /\ m \in 0..MaxIndex
      BY <1>1, <2>2, <3>2 DEF IsLast
    <3>. QED
      BY <3>3
  <2>. QED
    BY <2>1, <2>2
<1>3. LastIndex \in 0..MaxIndex /\ IsLast(LastIndex)
  BY <1>2 DEF LastIndex
<1>4. ASSUME NEW l \in 0..MaxIndex, IsLast(l), NEW i \in Int PROVE i <= l <=> Reaches(i)
  <2>1. CASE rows = {}
    BY <1>4, <2>1 DEF IsLast, Reaches
  <2>2. CASE rows # {}
    BY <1>1, <1>4, <2>2 DEF IsLast, Reaches, StorageTypes
  <2>. QED
    BY <2>1, <2>2
<1>. QED
  BY <1>3, <1>4

LEMMA FirstFacts ==
    ASSUME StorageTypes
    PROVE  /\ snap # 0 => FirstIndex = snap + 1
           /\ snap = 0 /\ rows = {} => FirstIndex = 1
           /\ snap = 0 /\ rows # {} =>
                FirstIndex \in rows /\ \A j \in rows : FirstIndex <= j
<1>1. ASSUME snap # 0 PROVE FirstIndex = snap + 1
  <2>1. snap + 1 \in 1..(MaxIndex + 1)
    BY DEF StorageTypes
  <2>. QED
    BY <1>1, <2>1 DEF FirstIndex, IsFirst
<1>2. ASSUME snap = 0, rows = {} PROVE FirstIndex = 1
  <2>1. 1 \in 1..(MaxIndex + 1)
    BY DEF StorageTypes
  <2>. QED
    BY <1>2, <2>1 DEF FirstIndex, IsFirst
<1>3. ASSUME snap = 0, rows # {}
      PROVE  FirstIndex \in rows /\ \A j \in rows : FirstIndex <= j
  <2>1. rows \subseteq Nat
    BY DEF Index, StorageTypes
  <2>2. PICK m \in rows : \A x \in rows : m <= x
    BY <1>3, <2>1, LeastExists
  <2>3. m \in 1..(MaxIndex + 1) /\ IsFirst(m)
    BY <1>3, <2>2 DEF IsFirst, Index, StorageTypes
  <2>4. IsFirst(FirstIndex)
    BY <2>3 DEF FirstIndex
  <2>. QED
    BY <1>3, <2>4 DEF IsFirst
<1>. QED
  BY <1>1, <1>2, <1>3

LEMMA SettledIsThere == StorageInv => OnlyTheCutReadyIsLost
<1>. SUFFICES ASSUME StorageInv PROVE OnlyTheCutReadyIsLost
  OBVIOUS
<1>1. StorageTypes /\ NoGapAbove /\ Reaches(settled)
  BY DEF StorageInv
<1>. DEFINE lost == Larger(settled, awaited)
<1>2. lost \in Nat /\ settled <= lost /\ awaited <= lost
  BY <1>1 DEF Larger, StorageTypes
<1>3. FirstIndex - 1 <= lost
  <2>1. CASE snap # 0
    BY <1>1, <1>2, <2>1, FirstFacts DEF StorageTypes
  <2>2. CASE snap = 0 /\ rows = {}
    BY <1>1, <1>2, <2>2, FirstFacts
  <2>3. CASE snap = 0 /\ rows # {}
    <3>1. PICK first \in rows : first = FirstIndex /\ \A j \in rows : first <= j
      BY <1>1, <2>3, FirstFacts
    <3>2. first \in Index /\ first \in Int
      BY <1>1, <3>1, IndexIsNat DEF StorageTypes
    <3>3. CASE lost + 1 < first
      <4>1. lost + 1 \in Index
        BY <1>1, <1>2, <3>2, <3>3 DEF Index, StorageTypes
      <4>2. awaited < lost + 1 /\ settled < lost + 1
        BY <1>1, <1>2 DEF StorageTypes
      <4>3. lost + 1 \in rows
        BY <1>1, <3>1, <3>3, <4>1, <4>2 DEF NoGapAbove
      <4>. QED
        BY <1>2, <3>1, <3>2, <3>3, <4>3
    <3>. QED
      BY <1>2, <3>1, <3>2, <3>3
  <2>. QED
    BY <2>1, <2>2, <2>3
<1>4. settled <= LastIndex
  BY <1>1, LastFacts DEF StorageTypes
<1>. QED
  BY <1>1, <1>3, <1>4 DEF OnlyTheCutReadyIsLost, StorageTypes

LEMMA RangeIsServed == StorageInv => ServesItsRange
<1>. SUFFICES ASSUME StorageInv, NEW i \in FirstIndex..LastIndex, i > awaited
              PROVE  i \in rows
  BY DEF ServesItsRange
<1>1. StorageTypes /\ NoGapAbove /\ NoGapBelow
  BY DEF StorageInv
<1>2. i \in Int /\ FirstIndex <= i /\ Reaches(i)
  BY <1>1, LastFacts
<1>3. snap < i /\ (snap # 0 \/ i \in rows \/ \E a \in rows : a < i)
  <2>1. CASE snap # 0
    BY <1>1, <1>2, <2>1, FirstFacts DEF StorageTypes
  <2>2. CASE snap = 0 /\ rows = {}
    BY <1>1, <1>2, <2>2, FirstFacts DEF Reaches
  <2>3. CASE snap = 0 /\ rows # {}
    <3>1. PICK first \in rows : first = FirstIndex
      BY <1>1, <2>3, FirstFacts
    <3>2. first \in Int /\ snap < first /\ first <= i
      BY <1>1, <1>2, <3>1, IndexIsNat DEF StorageTypes
    <3>. QED
      BY <1>1, <1>2, <3>1, <3>2 DEF StorageTypes
  <2>. QED
    BY <2>1, <2>2, <2>3
<1>4. PICK k \in rows : i <= k
  BY <1>1, <1>2, <1>3 DEF Reaches, StorageTypes
<1>5. k \in Int /\ i \in Index
  BY <1>1, <1>2, <1>3, <1>4 DEF Index, StorageTypes
<1>6. CASE i <= settled
  BY <1>1, <1>3, <1>5, <1>6 DEF NoGapBelow
<1>7. CASE settled < i
  BY <1>1, <1>4, <1>5, <1>7 DEF NoGapAbove
<1>. QED
  BY <1>1, <1>5, <1>6, <1>7 DEF StorageTypes

LEMMA StorageStart == StorageAssumption /\ StorageInit => StorageInv
BY DEF StorageAssumption, StorageInit, StorageInv, StorageTypes, NoGapAbove, NoGapBelow,
  Reaches, LibraryFits, HasUnsaved, Saved

(* A step that leaves the tables and what is settled.                      *)
LEMMA TablesRest ==
    ASSUME StorageInv, UNCHANGED <<rows, commit, snap, settled, awaited>>,
           pc' \in {"idle", "down", "hardstate", "entries", "snapshot"},
           pc' # "down" => LibraryFits'
    PROVE  StorageInv'
BY DEF StorageInv, StorageTypes, NoGapAbove, NoGapBelow, Reaches

LEMMA EntriesReadyInv ==
    ASSUME StorageInv, NEW from \in 1..(MaxIndex + 1), NEW to \in 0..MaxIndex,
           NEW c \in 0..MaxIndex, EntriesReady(from, to, c)
    PROVE  StorageInv'
<1>1. /\ UNCHANGED <<rows, commit, snap, settled, awaited>> /\ pc = "idle" /\ pc' = "hardstate"
      /\ lib.commit < from /\ from <= LibraryLast + 1
      /\ from <= to \/ (from = LibraryLast + 1 /\ to = LibraryLast)
      /\ lib.commit <= c /\ c <= to
  BY DEF EntriesReady
<1>2. StorageTypes /\ LibraryFits
  BY <1>1 DEF StorageInv
<1>3. /\ lib'.commit = c /\ lib'.to = to /\ lib'.snap = lib.snap
      /\ lib'.from = IF HasUnsaved /\ lib.from <= from THEN lib.from ELSE from
      /\ lib' \in [commit : 0..MaxIndex, from : 1..(MaxIndex + 1), to : 0..MaxIndex,
                   snap : 0..MaxIndex]
  BY <1>2 DEF EntriesReady, LibraryFits
<1>4. /\ lib.commit \in Int /\ lib.from \in Int /\ lib.to \in Int /\ lib.snap \in Int
      /\ settled \in Int /\ commit \in Int /\ settled <= commit /\ commit <= lib.commit
      /\ MaxIndex \in Int
  BY <1>2 DEF LibraryFits, StorageTypes
<1>5. \A i, j \in Int : i <= j /\ Reaches(j) => Reaches(i)
  BY <1>2, IndexIsNat DEF Reaches, StorageTypes
<1>6. CASE lib.snap = 0
  <2>1. ASSUME ~HasUnsaved PROVE Reaches(from - 1) /\ (to <= LastIndex => Reaches(c))
    <3>1. from - 1 <= LastIndex /\ LastIndex \in Int
      BY <1>1, <1>2, <1>6, <2>1, LastFacts DEF LibraryLast
    <3>. QED
      BY <1>1, <1>2, <3>1, LastFacts
  <2>2. ASSUME HasUnsaved PROVE Reaches(lib.from - 1) /\ lib'.from <= lib'.to
    <3>1. LibraryLast = lib.to /\ lib.from <= lib.to
      BY <2>2 DEF LibraryLast, HasUnsaved
    <3>2. Reaches(lib.from - 1)
      BY <1>2, <1>6, <2>2 DEF LibraryFits
    <3>. QED
      BY <1>1, <1>3, <1>4, <2>2, <3>1, <3>2
  <2>3. ASSUME HasUnsaved' PROVE Reaches(lib'.from - 1) /\ c <= to /\ settled < lib'.from
    <3>1. CASE HasUnsaved
      BY <1>1, <1>2, <1>3, <1>4, <1>5, <2>2, <3>1 DEF LibraryFits
    <3>2. CASE ~HasUnsaved
      BY <1>1, <1>3, <1>4, <2>1, <3>2
    <3>. QED
      BY <3>1, <3>2
  <2>4. ASSUME ~HasUnsaved' PROVE Reaches(c)
    <3>1. ~HasUnsaved
      BY <1>3, <2>2, <2>4 DEF HasUnsaved
    <3>2. to = LibraryLast
      BY <1>1, <1>3, <2>4, <3>1 DEF HasUnsaved
    <3>. QED
      BY <1>2, <1>6, <2>1, <3>1, <3>2, LastFacts DEF LibraryLast
  <2>5. LibraryFits'
    BY <1>1, <1>3, <1>4, <1>6, <2>3, <2>4 DEF LibraryFits, Reaches
  <2>. QED
    BY <1>1, <2>5, TablesRest
<1>7. CASE lib.snap # 0
  <2>1. /\ lib.from = lib.snap + 1 /\ settled < lib.snap /\ lib.snap <= lib.commit
        /\ ~HasUnsaved => lib.commit = lib.snap
    BY <1>2, <1>7 DEF LibraryFits
  <2>2. lib'.from = lib.snap + 1
    <3>1. CASE HasUnsaved
      BY <1>1, <1>3, <1>4, <2>1, <3>1
    <3>2. CASE ~HasUnsaved
      BY <1>1, <1>3, <1>4, <1>7, <2>1, <3>2 DEF LibraryLast
    <3>. QED
      BY <3>1, <3>2
  <2>3. ASSUME ~HasUnsaved' PROVE c = lib.snap
    BY <1>1, <1>3, <1>4, <2>1, <2>2, <2>3 DEF HasUnsaved
  <2>4. LibraryFits'
    BY <1>1, <1>3, <1>4, <1>7, <2>1, <2>2, <2>3 DEF LibraryFits
  <2>. QED
    BY <1>1, <2>4, TablesRest
<1>. QED
  BY <1>6, <1>7

LEMMA SnapshotReadyInv ==
    ASSUME StorageInv, NEW n \in Index, SnapshotReady(n) PROVE StorageInv'
<1>1. /\ UNCHANGED <<rows, commit, snap, settled, awaited>> /\ pc = "idle" /\ pc' = "hardstate"
      /\ lib.commit < n /\ lib' = [commit |-> n, from |-> n + 1, to |-> n, snap |-> n]
  BY DEF SnapshotReady
<1>2. StorageTypes /\ LibraryFits /\ n \in 1..MaxIndex
  BY <1>1 DEF StorageInv, Index
<1>3. LibraryFits'
  BY <1>1, <1>2 DEF LibraryFits, HasUnsaved, StorageTypes
<1>. QED
  BY <1>1, <1>3, TablesRest

LEMMA SaveHardStateInv == ASSUME StorageInv, SaveHardState PROVE StorageInv'
<1>1. /\ UNCHANGED <<rows, snap, lib, settled, awaited>> /\ pc = "hardstate" /\ pc' = "entries"
      /\ commit' = lib.commit
  BY DEF SaveHardState
<1>2. StorageTypes /\ LibraryFits
  BY <1>1 DEF StorageInv
<1>3. StorageTypes' /\ LibraryFits'
  BY <1>1, <1>2 DEF LibraryFits, HasUnsaved, Reaches, StorageTypes
<1>. QED
  BY <1>1, <1>3 DEF StorageInv, NoGapAbove, NoGapBelow, Reaches

LEMMA AppendEntriesInv == ASSUME StorageInv, AppendEntries PROVE StorageInv'
<1>1. /\ UNCHANGED <<commit, snap, lib, settled>> /\ pc = "entries" /\ pc' = "snapshot"
      /\ rows' = rows \cup (lib.from..lib.to)
      /\ awaited' = IF HasUnsaved THEN Larger(awaited, lib.snap) ELSE awaited
  BY DEF AppendEntries
<1>2. StorageTypes /\ LibraryFits /\ NoGapAbove /\ NoGapBelow /\ Reaches(settled)
  BY <1>1 DEF StorageInv
<1>3. /\ lib.from \in Nat /\ lib.to \in Nat /\ lib.to <= MaxIndex /\ lib.snap \in 0..MaxIndex
      /\ 1 <= lib.from /\ snap \in Nat /\ settled \in Nat /\ snap <= settled
      /\ \A i \in rows : i \in Nat /\ i \in Index
      /\ MaxIndex \in Nat /\ (HasUnsaved => settled < lib.from)
  BY <1>2, IndexIsNat DEF LibraryFits, StorageTypes
<1>4. /\ awaited \in Nat /\ awaited' \in 0..MaxIndex /\ awaited <= awaited'
      /\ HasUnsaved => lib.snap <= awaited'
  BY <1>1, <1>2, <1>3 DEF Larger, StorageTypes
<1>5. \A i \in lib.from..lib.to : i \in Index /\ settled < i
  BY <1>3 DEF HasUnsaved, Index
<1>6. StorageTypes'
  BY <1>1, <1>2, <1>3, <1>4, <1>5 DEF StorageTypes
<1>7. Reaches(settled)'
  BY <1>1, <1>2 DEF Reaches
<1>8. NoGapAbove'
  <2>. SUFFICES ASSUME NEW i \in Index, NEW j \in rows', awaited' < i, settled < i, i < j
                PROVE  i \in rows'
    BY <1>1 DEF NoGapAbove
  <2>1. i \in Nat /\ awaited < i
    BY <1>4, IndexIsNat
  <2>2. CASE j \in rows
    BY <1>1, <1>2, <2>1, <2>2 DEF NoGapAbove
  <2>3. CASE j \in lib.from..lib.to
    <3>1. HasUnsaved
      BY <1>3, <2>3 DEF HasUnsaved
    <3>2. CASE lib.from <= i
      BY <1>1, <1>3, <2>1, <2>3, <3>2
    <3>3. CASE i < lib.from /\ lib.snap = 0
      <4>1. PICK k \in rows : lib.from - 1 <= k
        BY <1>2, <1>3, <2>1, <3>1, <3>3 DEF LibraryFits, Reaches
      <4>2. i = k \/ i < k
        BY <1>3, <2>1, <3>3, <4>1
      <4>. QED
        BY <1>1, <1>2, <2>1, <4>1, <4>2 DEF NoGapAbove
    <3>4. CASE i < lib.from /\ lib.snap # 0
      BY <1>2, <1>3, <1>4, <2>1, <3>1, <3>4 DEF LibraryFits
    <3>. QED
      BY <1>3, <2>1, <3>2, <3>3, <3>4
  <2>. QED
    BY <1>1, <2>2, <2>3
<1>9. NoGapBelow'
  <2>. SUFFICES ASSUME NEW i \in Index, awaited' < i, snap < i, i <= settled,
                       snap # 0 \/ \E a \in rows' : a < i
                PROVE  i \in rows'
    BY <1>1 DEF NoGapBelow
  <2>1. i \in Nat /\ awaited < i
    BY <1>4, IndexIsNat
  <2>2. snap # 0 \/ \E a \in rows : a < i
    BY <1>1, <1>3, <1>5, <2>1
  <2>. QED
    BY <1>1, <1>2, <2>1, <2>2 DEF NoGapBelow
<1>10. LibraryFits'
  BY <1>1, <1>2, <1>4 DEF LibraryFits, HasUnsaved, Reaches
<1>. QED
  BY <1>1, <1>6, <1>7, <1>8, <1>9, <1>10 DEF StorageInv

LEMMA ApplySnapshotInv == ASSUME StorageInv, ApplySnapshot PROVE StorageInv'
<1>1. /\ commit' = commit /\ pc = "snapshot" /\ pc' = "idle"
      /\ rows' = {i \in rows : i > lib.snap}
      /\ snap' = IF lib.snap # 0 THEN lib.snap ELSE snap
      /\ awaited' = IF awaited <= lib.snap THEN 0 ELSE awaited
      /\ settled' = lib.commit /\ lib' = Saved(lib.commit)
  BY DEF ApplySnapshot
<1>2. StorageTypes /\ LibraryFits /\ NoGapAbove /\ NoGapBelow /\ Reaches(settled)
  BY <1>1 DEF StorageInv
<1>3. /\ lib.from \in Nat /\ lib.to \in Nat /\ lib.snap \in 0..MaxIndex
      /\ lib.commit \in 0..MaxIndex /\ commit = lib.commit /\ 1 <= lib.from
      /\ lib.from..lib.to \subseteq rows
      /\ HasUnsaved => lib.commit <= lib.to
  BY <1>1, <1>2 DEF LibraryFits
<1>4. /\ snap \in Nat /\ settled \in Nat /\ snap <= settled /\ settled <= lib.commit
      /\ awaited \in Nat /\ awaited' \in 0..MaxIndex
      /\ \A i \in rows : i \in Nat /\ i \in Index /\ snap < i
  BY <1>1, <1>2, <1>3, IndexIsNat DEF StorageTypes
<1>5. /\ lib'.commit = lib.commit /\ lib'.from = 1 /\ lib'.to = 0 /\ lib'.snap = 0
      /\ lib' = [commit |-> lib.commit, from |-> 1, to |-> 0, snap |-> 0]
  BY <1>1 DEF Saved
<1>6. ASSUME StorageTypes', Reaches(settled)', NoGapBelow', NoGapAbove' PROVE StorageInv'
  <2>1. LibraryFits'
    BY <1>1, <1>3, <1>5, <1>6 DEF LibraryFits, HasUnsaved, Reaches, StorageTypes
  <2>. QED
    BY <1>1, <1>6, <2>1 DEF StorageInv
<1>7. CASE lib.snap = 0
  <2>1. rows' = rows /\ snap' = snap /\ awaited' = awaited
    BY <1>1, <1>3, <1>4, <1>7
  <2>2. StorageTypes'
    BY <1>1, <1>2, <1>3, <1>4, <2>1 DEF StorageTypes
  <2>3. lib.commit <= snap \/ \E k \in rows : lib.commit <= k
    <3>1. CASE HasUnsaved
      BY <1>3, <3>1 DEF HasUnsaved
    <3>2. CASE ~HasUnsaved
      BY <1>2, <1>7, <3>2 DEF LibraryFits, Reaches
    <3>. QED
      BY <3>1, <3>2
  <2>4. Reaches(settled)'
    BY <1>1, <2>1, <2>3 DEF Reaches
  <2>5. NoGapAbove'
    BY <1>1, <1>2, <1>3, <1>4, <2>1, IndexIsNat DEF NoGapAbove
  <2>6. NoGapBelow'
    <3>. SUFFICES ASSUME NEW i \in Index, awaited < i, snap < i, i <= lib.commit,
                         snap # 0 \/ \E a \in rows : a < i
                  PROVE  i \in rows
      BY <1>1, <2>1 DEF NoGapBelow
    <3>1. i \in Nat
      BY IndexIsNat
    <3>2. CASE i <= settled
      BY <1>2, <3>1, <3>2 DEF NoGapBelow
    <3>3. CASE settled < i
      <4>1. PICK k \in rows : lib.commit <= k
        BY <1>3, <1>4, <2>3, <3>1
      <4>2. i = k \/ i < k
        BY <1>3, <1>4, <3>1, <4>1
      <4>. QED
        BY <1>2, <3>3, <4>1, <4>2 DEF NoGapAbove
    <3>. QED
      BY <1>4, <3>1, <3>2, <3>3
  <2>. QED
    BY <1>6, <2>2, <2>4, <2>5, <2>6
<1>8. CASE lib.snap # 0
  <2>1. /\ snap' = lib.snap /\ lib.from = lib.snap + 1 /\ settled < lib.snap
        /\ lib.snap <= lib.commit /\ (~HasUnsaved => lib.commit = lib.snap)
        /\ awaited' = awaited \/ awaited <= lib.snap
    BY <1>1, <1>2, <1>8 DEF LibraryFits
  <2>2. StorageTypes'
    BY <1>1, <1>2, <1>3, <1>4, <2>1 DEF StorageTypes
  <2>3. \A i \in Nat : lib.snap < i /\ i <= lib.commit => i \in rows'
    <3>. SUFFICES ASSUME NEW i \in Nat, lib.snap < i, i <= lib.commit PROVE i \in rows'
      OBVIOUS
    <3>1. HasUnsaved
      BY <1>3, <2>1
    <3>2. i \in lib.from..lib.to
      BY <1>3, <2>1, <3>1
    <3>. QED
      BY <1>1, <1>3, <3>2
  <2>4. Reaches(settled)'
    <3>1. lib.commit = lib.snap \/ lib.snap < lib.commit
      BY <1>3, <2>1
    <3>. QED
      BY <1>1, <1>3, <2>1, <2>3, <3>1 DEF Reaches
  <2>5. NoGapAbove'
    <3>. SUFFICES ASSUME NEW i \in Index, NEW j \in rows', awaited' < i, lib.commit < i, i < j
                  PROVE  i \in rows'
      BY <1>1 DEF NoGapAbove
    <3>1. i \in Nat /\ lib.snap < i /\ settled < i /\ j \in rows
      BY <1>1, <1>3, <1>4, <2>1, IndexIsNat
    <3>2. awaited < i
      BY <1>3, <1>4, <2>1, <3>1
    <3>. QED
      BY <1>1, <1>2, <3>1, <3>2 DEF NoGapAbove
  <2>6. NoGapBelow'
    BY <1>1, <2>1, <2>3, IndexIsNat DEF NoGapBelow
  <2>. QED
    BY <1>6, <2>2, <2>4, <2>5, <2>6
<1>. QED
  BY <1>7, <1>8

LEMMA FailureInv == ASSUME StorageInv, HandleReadyFails PROVE StorageInv'
<1>1. /\ UNCHANGED <<rows, commit, snap, lib, settled, awaited>> /\ pc' = "idle" /\ pc # "down"
  BY DEF HandleReadyFails
<1>2. LibraryFits'
  BY <1>1 DEF StorageInv, LibraryFits, HasUnsaved, Reaches
<1>. QED
  BY <1>1, <1>2, TablesRest

LEMMA CrashInv == ASSUME StorageInv, Crash PROVE StorageInv'
BY TablesRest DEF Crash

LEMMA RestartInv == ASSUME StorageInv, Restart PROVE StorageInv'
<1>1. /\ UNCHANGED <<rows, commit, snap, settled, awaited>> /\ pc' = "idle" /\ Loadable
      /\ lib' = [commit |-> commit, from |-> 1, to |-> 0, snap |-> 0]
  BY DEF Restart, Saved
<1>2. StorageTypes /\ commit \in Int
  BY DEF StorageInv, StorageTypes
<1>3. Reaches(commit)
  BY <1>1, <1>2, LastFacts DEF Loadable
<1>4. LibraryFits'
  BY <1>1, <1>2, <1>3 DEF LibraryFits, HasUnsaved, Reaches, StorageTypes
<1>. QED
  BY <1>1, <1>4, TablesRest

LEMMA CompactInv ==
    ASSUME StorageInv, NEW first \in Index, MayCompact(first), Compact(first)
    PROVE  StorageInv'
<1>1. /\ UNCHANGED <<commit, snap, lib, pc, settled, awaited>> /\ pc # "down"
      /\ first <= settled /\ (snap # 0 => first <= snap + 1)
      /\ rows' = {j \in rows : j >= first}
  BY DEF Compact, MayCompact
<1>2. StorageTypes /\ LibraryFits /\ NoGapAbove /\ NoGapBelow /\ Reaches(settled)
  BY <1>1 DEF StorageInv
<1>3. /\ first \in Nat /\ settled \in Nat /\ snap \in Nat
      /\ \A i \in rows : i \in Nat /\ snap < i
  BY <1>2, IndexIsNat DEF StorageTypes
<1>4. StorageTypes'
  BY <1>1, <1>2 DEF StorageTypes
<1>5. \A i \in Int : settled <= i /\ Reaches(i) => Reaches(i)'
  BY <1>1, <1>3 DEF Reaches
<1>6. NoGapAbove'
  BY <1>1, <1>2, <1>3, IndexIsNat DEF NoGapAbove
<1>7. NoGapBelow'
  <2>. SUFFICES ASSUME NEW i \in Index, awaited < i, snap < i, i <= settled,
                       snap # 0 \/ \E a \in rows' : a < i
                PROVE  i \in rows'
    BY <1>1 DEF NoGapBelow
  <2>1. i \in Nat /\ first <= i
    BY <1>1, <1>3, IndexIsNat
  <2>2. i \in rows
    BY <1>1, <1>2 DEF NoGapBelow
  <2>. QED
    BY <1>1, <2>1, <2>2
<1>8. LibraryFits'
  <2>1. /\ lib.from \in Int /\ lib.commit \in Int /\ settled <= lib.commit
        /\ HasUnsaved => settled <= lib.from - 1
    BY <1>2 DEF LibraryFits, StorageTypes
  <2>2. \A i \in lib.from..lib.to : settled < i
    BY <1>2, <1>3, <2>1 DEF HasUnsaved, LibraryFits
  <2>3. lib.from..lib.to \subseteq rows => lib.from..lib.to \subseteq rows'
    BY <1>1, <1>3, <2>2
  <2>. QED
    BY <1>1, <1>2, <1>5, <2>1, <2>3 DEF LibraryFits, HasUnsaved
<1>. QED
  BY <1>1, <1>2, <1>3, <1>4, <1>5, <1>6, <1>7, <1>8 DEF StorageInv

LEMMA StorageSteps == StorageInv /\ [StorageNext]_storageVars => StorageInv'
<1>. SUFFICES ASSUME StorageInv, [StorageNext]_storageVars PROVE StorageInv'
  OBVIOUS
<1>1. CASE UNCHANGED storageVars
  BY <1>1, TablesRest DEF storageVars, StorageInv, LibraryFits, HasUnsaved, Reaches
<1>2. CASE StorageNext
  BY <1>2, EntriesReadyInv, SnapshotReadyInv, SaveHardStateInv, AppendEntriesInv,
     ApplySnapshotInv, FailureInv, CrashInv, RestartInv, CompactInv DEF StorageNext
<1>. QED
  BY <1>1, <1>2

(* Whatever Readies, failed transactions, crashes, restarts and compactions *)
(* went before, and in every state, that of a node RawNode::new refuses    *)
(* included: up to the commit index of the last Ready stored whole nothing *)
(* is missing at either end of the redb store's log.                       *)
THEOREM SettledIsKept == Spec => []OnlyTheCutReadyIsLost
<1>. QED
  BY StorageAssumption, StorageStart, StorageSteps, SettledIsThere, StorageView, PTL

(* And entries() finds every row between first_index and last_index, but   *)
(* for those under a snapshot that was to be stored with the entries that  *)
(* follow it, though append() leaves the rows behind what it overwrites.   *)
THEOREM RangeIsThere == Spec => []ServesItsRange
<1>. QED
  BY StorageAssumption, StorageStart, StorageSteps, RangeIsServed, StorageView, PTL

---------------------------------------------------------------------------
(* The codec *)

LEMMA ConcatFacts ==
    ASSUME NEW S, NEW q \in Seq(S), NEW w \in Seq(S)
    PROVE  /\ Len(q) \in Nat /\ Len(w) \in Nat
           /\ q \o w \in Seq(S) /\ Len(q \o w) = Len(q) + Len(w)
           /\ \A i \in 1..Len(q) : i \in 1..Len(q \o w) /\ (q \o w)[i] = q[i]
           /\ \A i \in 1..Len(w) : Len(q) + i \in 1..Len(q \o w) /\ (q \o w)[Len(q) + i] = w[i]
<1>1. Len(q) \in Nat /\ Len(w) \in Nat
  BY LenProperties
<1>2. q \o w \in Seq(S) /\ Len(q \o w) = Len(q) + Len(w)
  BY ConcatProperties
<1>3. \A i \in 1..(Len(q) + Len(w)) :
        (q \o w)[i] = IF i <= Len(q) THEN q[i] ELSE w[i - Len(q)]
  BY ConcatProperties
<1>4. ASSUME NEW i \in 1..Len(q) PROVE i \in 1..Len(q \o w) /\ (q \o w)[i] = q[i]
  <2>1. i \in 1..(Len(q) + Len(w)) /\ i <= Len(q)
    BY <1>1
  <2>. QED
    BY <1>2, <1>3, <2>1
<1>5. ASSUME NEW i \in 1..Len(w)
      PROVE  Len(q) + i \in 1..Len(q \o w) /\ (q \o w)[Len(q) + i] = w[i]
  <2>1. Len(q) + i \in 1..(Len(q) + Len(w)) /\ ~(Len(q) + i <= Len(q)) /\ Len(q) + i - Len(q) = i
    BY <1>1
  <2>. QED
    BY <1>2, <1>3, <2>1
<1>. QED
  BY <1>1, <1>2, <1>4, <1>5

(* The row may have lost its tail.                                         *)
StartsAs(row, full) ==
    /\ row \in Seq(Nat) /\ Len(row) <= Len(full)
    /\ \A i \in 1..Len(row) : row[i] = full[i]

(* What is behind a string whose length is at position at.                 *)
Behind(at, s) == at + Len(s) + 1
Ends(row, at) == Len(row) + 1 = at
Long(row, at) == Len(row) = at

(* s lies at position at, behind its length, and next is behind it.        *)
HoldsString(full, at, s, next) ==
    /\ at \in 1..Len(full) /\ at + Len(s) <= Len(full) /\ full[at] = Len(s)
    /\ \A i \in 1..Len(s) : full[at + i] = s[i]
    /\ next = Behind(at, s)

LEMMA StringIsRead ==
    ASSUME NEW full \in Seq(Nat), NEW row, StartsAs(row, full), NEW at \in Nat, NEW next \in Nat,
           NEW s \in Seq(Nat), HoldsString(full, at, s, next)
    PROVE  /\ at < next
           /\ Fits(row, at) <=> next - 1 <= Len(row)
           /\ Fits(row, at) => ReadString(row, at) = s /\ After(row, at) = next
<1>1. /\ Len(full) \in Nat /\ Len(row) \in Nat /\ Len(s) \in Nat /\ at \in Nat /\ at >= 1
      /\ row \in Seq(Nat)
  BY LenProperties DEF StartsAs, HoldsString
<1>2. at <= Len(row) => row[at] = Len(s)
  <2>1. full[at] = Len(s)
    BY DEF HoldsString
  <2>2. at <= Len(row) => row[at] = full[at]
    BY <1>1 DEF StartsAs
  <2>. QED
    BY <2>1, <2>2
<1>3. Fits(row, at) <=> at + Len(s) <= Len(row)
  BY <1>1, <1>2 DEF Fits
<1>4. ASSUME Fits(row, at) PROVE ReadString(row, at) = s /\ After(row, at) = at + Len(s) + 1
  <2>1. at <= Len(row) /\ row[at] = Len(s) /\ at + Len(s) <= Len(row)
    BY <1>2, <1>3, <1>4 DEF Fits
  <2>. DEFINE a == at + 1
              b == at + Len(s)
              part == SubSeq(row, a, b)
  <2>2. a \in Int /\ b \in Int /\ a >= 1 /\ b <= Len(row) /\ a <= b + 1 /\ b - a + 1 = Len(s)
    BY <1>1, <2>1
  <2>. HIDE DEF a, b
  <2>3. /\ part \in Seq(Nat) /\ Len(part) = b - a + 1
        /\ \A i \in 1..b - a + 1 : a + i - 1 \in 1..Len(row) /\ part[i] = row[a + i - 1]
    <3>1. row \in Seq(Nat)
      BY <1>1
    <3>. QED
      BY <2>2, <3>1, CutFacts
  <2>. HIDE DEF part
  <2>4. ASSUME NEW i \in 1..Len(s) PROVE part[i] = s[i]
    <3>1. a + i - 1 \in 1..Len(row) /\ part[i] = row[a + i - 1]
      BY <2>2, <2>3
    <3>2. a + i - 1 = at + i
      BY <1>1 DEF a
    <3>3. at + i \in 1..Len(row) /\ part[i] = row[at + i]
      BY <3>1, <3>2
    <3>. QED
      BY <3>3 DEF StartsAs, HoldsString
  <2>5. part = s
    BY <2>2, <2>3, <2>4, SeqEqual
  <2>. QED
    BY <2>1, <2>5 DEF ReadString, After, part, a, b
<1>5. next = at + Len(s) + 1
  BY DEF HoldsString, Behind
<1>. QED
  BY <1>1, <1>3, <1>4, <1>5

Joint(p, q, w) ==
    /\ p \in Seq(Nat) /\ Len(p) = Len(q) + Len(w)
    /\ \A i \in 1..Len(q) : i \in 1..Len(p) /\ p[i] = q[i]
    /\ \A i \in 1..Len(w) : Len(q) + i \in 1..Len(p) /\ p[Len(q) + i] = w[i]

LEMMA JoinFacts == \A q, w \in Seq(Nat) : Joint(q \o w, q, w)
<1>. SUFFICES ASSUME NEW q \in Seq(Nat), NEW w \in Seq(Nat) PROVE Joint(q \o w, q, w)
  OBVIOUS
<1>. QED
  BY ConcatFacts DEF Joint

(* What a string, and a flag, add to the end of a row.                     *)
LEMMA AddString ==
    ASSUME NEW q \in Seq(Nat), NEW s \in Seq(Nat), NEW at \in Nat, NEW next \in Nat,
           Ends(q, at), next = Behind(at, s)
    PROVE  LET p == q \o WithLength(s)
           IN  /\ p \in Seq(Nat) /\ Ends(p, next) /\ StartsAs(q, p)
               /\ HoldsString(p, at, s, next)
<1>. DEFINE v == <<Len(s)>>
            w == v \o s
            p == q \o w
<1>1. Len(q) \in Nat /\ Len(s) \in Nat
  BY LenProperties
<1>2. v \in Seq(Nat) /\ Len(v) = 1 /\ v[1] = Len(s)
  BY <1>1
<1>. HIDE DEF v
<1>3. /\ w \in Seq(Nat) /\ Len(w) = 1 + Len(s) /\ w[1] = Len(s)
      /\ \A i \in 1..Len(s) : 1 + i \in 1..Len(w) /\ w[1 + i] = s[i]
  <2>1. /\ w \in Seq(Nat) /\ Len(w) = Len(v) + Len(s)
        /\ \A i \in 1..Len(v) : i \in 1..Len(w) /\ w[i] = v[i]
        /\ \A i \in 1..Len(s) : Len(v) + i \in 1..Len(w) /\ w[Len(v) + i] = s[i]
    BY <1>2, JoinFacts DEF Joint
  <2>. HIDE DEF w
  <2>. QED
    BY <1>2, <2>1
<1>. HIDE DEF w
<1>4. /\ p \in Seq(Nat) /\ Len(p) = Len(q) + Len(w)
      /\ \A i \in 1..Len(q) : i \in 1..Len(p) /\ p[i] = q[i]
      /\ \A i \in 1..Len(w) : Len(q) + i \in 1..Len(p) /\ p[Len(q) + i] = w[i]
  BY <1>3, JoinFacts DEF Joint
<1>. HIDE DEF p
<1>5. StartsAs(q, p)
  <2>1. Len(q) <= Len(p)
    BY <1>1, <1>3, <1>4
  <2>. QED
    BY <1>4, <2>1 DEF StartsAs
<1>6. 1 \in 1..Len(w) /\ p[Len(q) + 1] = Len(s) /\ Len(q) + 1 \in 1..Len(p)
  BY <1>1, <1>3, <1>4
<1>7. ASSUME NEW i \in 1..Len(s) PROVE p[Len(q) + 1 + i] = s[i]
  <2>1. p[Len(q) + (1 + i)] = s[i]
    BY <1>3, <1>4
  <2>. QED
    BY <1>1, <2>1
<1>8. Len(p) = Len(q) + Len(s) + 1 /\ Len(q) + 1 + Len(s) <= Len(p)
  BY <1>1, <1>3, <1>4
<1>9. at = Len(q) + 1 /\ next = at + Len(s) + 1
  BY DEF Ends, Behind
<1>10. HoldsString(p, at, s, next)
  BY <1>6, <1>7, <1>8, <1>9 DEF HoldsString, Behind
<1>11. Ends(p, next)
  BY <1>1, <1>8, <1>9 DEF Ends
<1>. QED
  BY <1>4, <1>5, <1>10, <1>11 DEF p, w, v, WithLength

LEMMA AddFlag ==
    ASSUME NEW q \in Seq(Nat), NEW flag \in BOOLEAN, NEW at \in Nat, Ends(q, at)
    PROVE  LET p == q \o <<Cell(flag)>>
           IN  p \in Seq(Nat) /\ Long(p, at) /\ StartsAs(q, p) /\ (p[at] # 0) = flag
<1>. DEFINE c == Cell(flag)
            w == <<c>>
            p == q \o w
<1>1. c \in Nat /\ (c # 0) = flag
  BY DEF Cell
<1>. HIDE DEF c
<1>2. Len(q) \in Nat /\ w \in Seq(Nat) /\ Len(w) = 1 /\ w[1] = c
  BY <1>1, LenProperties
<1>. HIDE DEF w
<1>3. /\ p \in Seq(Nat) /\ Len(p) = Len(q) + Len(w)
      /\ \A i \in 1..Len(q) : i \in 1..Len(p) /\ p[i] = q[i]
      /\ \A i \in 1..Len(w) : Len(q) + i \in 1..Len(p) /\ p[Len(q) + i] = w[i]
  BY <1>1, <1>2, JoinFacts DEF Joint
<1>. HIDE DEF p
<1>4. StartsAs(q, p)
  BY <1>2, <1>3 DEF StartsAs
<1>5. 1 \in 1..Len(w) /\ p[Len(q) + 1] = c
  BY <1>2, <1>3
<1>6. at = Len(q) + 1
  BY DEF Ends
<1>7. Long(p, at)
  BY <1>2, <1>3, <1>6 DEF Long
<1>. QED
  BY <1>1, <1>3, <1>4, <1>5, <1>6, <1>7 DEF p, w, c

(* What a row held it holds when it is longer.                             *)
LEMMA StillHolds ==
    ASSUME NEW q \in Seq(Nat), NEW p \in Seq(Nat), StartsAs(q, p), NEW at, NEW s \in Seq(Nat),
           NEW next, HoldsString(q, at, s, next)
    PROVE  HoldsString(p, at, s, next)
<1>1. Len(q) \in Nat /\ Len(p) \in Nat /\ Len(s) \in Nat
  BY LenProperties
<1>2. /\ at \in 1..Len(q) /\ at + Len(s) <= Len(q) /\ q[at] = Len(s) /\ next = Behind(at, s)
      /\ \A i \in 1..Len(s) : q[at + i] = s[i]
  BY DEF HoldsString
<1>3. Len(q) <= Len(p) /\ \A i \in 1..Len(q) : q[i] = p[i]
  BY DEF StartsAs
<1>4. ASSUME NEW i \in 1..Len(s) PROVE p[at + i] = s[i]
  <2>1. PICK n \in Nat, m \in Nat : n = Len(s) /\ m = Len(q)
    BY <1>1
  <2>2. at \in 1..m /\ at + n <= m /\ i \in 1..n
    BY <1>2, <2>1
  <2>3. at + i \in 1..m
    BY <2>2
  <2>4. p[at + i] = q[at + i]
    BY <1>3, <2>1, <2>3
  <2>5. q[at + i] = s[i]
    BY <1>2
  <2>. QED
    BY <2>4, <2>5
<1>5. at \in 1..Len(p) /\ at + Len(s) <= Len(p)
  <2>1. PICK n \in Nat, m \in Nat, k \in Nat : n = Len(s) /\ m = Len(q) /\ k = Len(p)
    BY <1>1
  <2>2. at \in 1..m /\ at + n <= m /\ m <= k
    BY <1>2, <1>3, <2>1
  <2>3. at \in 1..k /\ at + n <= k
    BY <2>2
  <2>. QED
    BY <2>1, <2>3
<1>6. p[at] = Len(s)
  BY <1>2, <1>3
<1>. QED
  BY <1>2, <1>4, <1>5, <1>6 DEF HoldsString

LEMMA StartsTrans ==
    ASSUME NEW a \in Seq(Nat), NEW b \in Seq(Nat), NEW c \in Seq(Nat),
           StartsAs(a, b), StartsAs(b, c)
    PROVE  StartsAs(a, c)
<1>1. Len(a) \in Nat /\ Len(b) \in Nat /\ Len(c) \in Nat
  BY LenProperties
<1>2. Len(a) <= Len(b) /\ Len(b) <= Len(c)
  BY DEF StartsAs
<1>3. ASSUME NEW i \in 1..Len(a) PROVE a[i] = c[i]
  <2>1. i \in 1..Len(b)
    BY <1>1, <1>2
  <2>2. a[i] = b[i] /\ b[i] = c[i]
    BY <2>1 DEF StartsAs
  <2>. QED
    BY <2>2
<1>4. Len(a) <= Len(c)
  BY <1>1, <1>2
<1>. QED
  BY <1>3, <1>4 DEF StartsAs

(* What is serialized.                                                     *)
EntryRecord == [index : Nat, term : Nat, entry_type : Nat, data : Seq(Nat),
                context : Seq(Nat), sync_log : BOOLEAN]
HardStateRecord == [term : Nat, vote : Nat, commit : Nat]
ConfStateRecord == [voters : Seq(Nat), learners : Seq(Nat), voters_outgoing : Seq(Nat),
                    learners_next : Seq(Nat), auto_leave : BOOLEAN]

(* The row of an entry with these fields, and the places of its strings.   *)
IsEntryRow(full, i, t, kind, data, ctx, flag) ==
    /\ full \in Seq(Nat) /\ StartsAs(<<i, t, kind>>, full)
    /\ \E context, sync \in Nat :
         /\ Long(full, sync) /\ (full[sync] # 0) = flag
         /\ HoldsString(full, 4, data, context) /\ HoldsString(full, context, ctx, sync)

LEMMA EntryRow ==
    ASSUME NEW i \in Nat, NEW t \in Nat, NEW kind \in Nat,
           NEW data \in Seq(Nat), NEW ctx \in Seq(Nat), NEW flag \in BOOLEAN
    PROVE  IsEntryRow(SerializeEntry([index |-> i, term |-> t, entry_type |-> kind,
                                      data |-> data, context |-> ctx, sync_log |-> flag]),
                      i, t, kind, data, ctx, flag)
<1>. PICK context \in Nat, sync \in Nat : context = Behind(4, data) /\ sync = Behind(context, ctx)
  BY LenProperties DEF Behind
<1>. DEFINE q0 == <<i, t, kind>>
            q1 == q0 \o WithLength(data)
            q2 == q1 \o WithLength(ctx)
            full == q2 \o <<Cell(flag)>>
<1>1. q0 \in Seq(Nat) /\ Ends(q0, 4)
  BY DEF Ends
<1>. HIDE DEF q0
<1>2. q1 \in Seq(Nat) /\ Ends(q1, context) /\ StartsAs(q0, q1) /\ HoldsString(q1, 4, data, context)
  BY <1>1, AddString
<1>. HIDE DEF q1
<1>3. q2 \in Seq(Nat) /\ Ends(q2, sync) /\ StartsAs(q1, q2) /\ HoldsString(q2, context, ctx, sync)
  BY <1>2, AddString
<1>. HIDE DEF q2
<1>4. full \in Seq(Nat) /\ Long(full, sync) /\ StartsAs(q2, full) /\ (full[sync] # 0) = flag
  BY <1>3, AddFlag
<1>. HIDE DEF full
<1>5. StartsAs(q1, full)
  BY <1>2, <1>3, <1>4, StartsTrans
<1>6. StartsAs(q0, full)
  BY <1>1, <1>2, <1>4, <1>5, StartsTrans
<1>7. HoldsString(full, 4, data, context) /\ HoldsString(full, context, ctx, sync)
  BY <1>2, <1>3, <1>4, <1>5, StillHolds
<1>8. full = SerializeEntry([index |-> i, term |-> t, entry_type |-> kind,
                            data |-> data, context |-> ctx, sync_log |-> flag])
  BY DEF SerializeEntry, full, q2, q1, q0
<1>9. IsEntryRow(full, i, t, kind, data, ctx, flag)
  BY <1>4, <1>6, <1>7 DEF IsEntryRow, q0
<1>. QED
  BY <1>8, <1>9

LEMMA FieldsRead ==
    ASSUME NEW full \in Seq(Nat), NEW row \in Seq(Nat), StartsAs(row, full),
           NEW i \in Nat, NEW t \in Nat, NEW kind \in Nat,
           NEW data \in Seq(Nat), NEW ctx \in Seq(Nat), NEW flag \in BOOLEAN,
           IsEntryRow(full, i, t, kind, data, ctx, flag)
    PROVE  DeserializeEntry(row) =
             IF Len(row) = Len(full)
             THEN [what |-> "entry", value |->
                     [index |-> i, term |-> t, entry_type |-> kind, data |-> data,
                      context |-> ctx, sync_log |-> flag]]
             ELSE Refused
<1>. PICK context \in Nat, sync \in Nat :
        /\ Long(full, sync) /\ (full[sync] # 0) = flag
        /\ HoldsString(full, 4, data, context) /\ HoldsString(full, context, ctx, sync)
  BY DEF IsEntryRow
<1>1. PICK len \in Nat : len = Len(row) /\ len <= sync /\ Len(full) = sync
  BY LenProperties DEF StartsAs, Long
<1>2. /\ 4 < context /\ (Fits(row, 4) <=> context - 1 <= len)
      /\ Fits(row, 4) => ReadString(row, 4) = data /\ After(row, 4) = context
  BY <1>1, StringIsRead
<1>3. /\ context < sync /\ (Fits(row, context) <=> sync - 1 <= len)
      /\ Fits(row, context) => ReadString(row, context) = ctx /\ After(row, context) = sync
  BY <1>1, StringIsRead
<1>4. full[1] = i /\ full[2] = t /\ full[3] = kind
  <2>1. StartsAs(<<i, t, kind>>, full)
    BY DEF IsEntryRow
  <2>. DEFINE q == <<i, t, kind>>
  <2>2. Len(q) = 3 /\ q[1] = i /\ q[2] = t /\ q[3] = kind
    OBVIOUS
  <2>. HIDE DEF q
  <2>3. StartsAs(q, full)
    BY <2>1 DEF q
  <2>4. \A k \in 1..3 : q[k] = full[k]
    BY <2>2, <2>3 DEF StartsAs
  <2>5. q[1] = full[1] /\ q[2] = full[2] /\ q[3] = full[3]
    BY <2>4
  <2>. QED
    BY <2>2, <2>5
<1>5. CASE len = sync
  <2>1. context - 1 <= len /\ sync - 1 <= len /\ ~(len < 6) /\ ~(sync > len)
        /\ sync \in 1..len /\ 1 \in 1..len /\ 2 \in 1..len /\ 3 \in 1..len
    BY <1>2, <1>3, <1>5
  <2>2. Fits(row, 4) /\ Fits(row, context) /\ After(row, 4) = context /\ After(row, context) = sync
    BY <1>2, <1>3, <2>1
  <2>3. \A k \in 1..len : row[k] = full[k]
    BY <1>1 DEF StartsAs
  <2>4. row[1] = i /\ row[2] = t /\ row[3] = kind /\ row[sync] = full[sync]
    BY <1>4, <2>1, <2>3
  <2>5. ReadString(row, 4) = data /\ ReadString(row, context) = ctx
    BY <1>2, <1>3, <2>2
  <2>. QED
    BY <1>1, <1>5, <2>1, <2>2, <2>4, <2>5 DEF DeserializeEntry
<1>6. CASE len # sync
  <2>1. sync > len
    BY <1>1, <1>6
  <2>2. \/ ~Fits(row, 4) \/ ~Fits(row, After(row, 4))
        \/ After(row, After(row, 4)) = sync
    BY <1>2, <1>3
  <2>3. DeserializeEntry(row) = Refused
    BY <1>1, <2>1, <2>2 DEF DeserializeEntry
  <2>. QED
    BY <1>1, <1>6, <2>3
<1>. QED
  BY <1>5, <1>6

LEMMA HardStateReads ==
    ASSUME NEW hs \in HardStateRecord, NEW row, StartsAs(row, SerializeHardState(hs))
    PROVE  /\ Len(SerializeHardState(hs)) = 3
           /\ DeserializeHardState(row) = IF Len(row) = 3
                                          THEN [what |-> "hard state", value |-> hs] ELSE Refused
<1>1. hs = [term |-> hs.term, vote |-> hs.vote, commit |-> hs.commit]
  BY DEF HardStateRecord
<1>2. /\ Len(SerializeHardState(hs)) = 3 /\ SerializeHardState(hs)[1] = hs.term
      /\ SerializeHardState(hs)[2] = hs.vote /\ SerializeHardState(hs)[3] = hs.commit
  BY DEF SerializeHardState
<1>3. CASE Len(row) = 3
  <2>1. row[1] = hs.term /\ row[2] = hs.vote /\ row[3] = hs.commit
    BY <1>2, <1>3 DEF StartsAs
  <2>. QED
    BY <1>1, <1>2, <1>3, <2>1 DEF DeserializeHardState
<1>4. CASE Len(row) # 3
  BY <1>2, <1>4 DEF DeserializeHardState
<1>. QED
  BY <1>3, <1>4

(* The same of a configuration.                                            *)
IsConfRow(full, v, l, o, n, flag) ==
    /\ full \in Seq(Nat)
    /\ \E learners, outgoing, next, leave \in Nat :
         /\ Long(full, leave) /\ (full[leave] # 0) = flag
         /\ HoldsString(full, 1, v, learners) /\ HoldsString(full, learners, l, outgoing)
         /\ HoldsString(full, outgoing, o, next) /\ HoldsString(full, next, n, leave)

LEMMA StringsRow ==
    ASSUME NEW v \in Seq(Nat), NEW l \in Seq(Nat), NEW o \in Seq(Nat), NEW n \in Seq(Nat),
           NEW flag \in BOOLEAN
    PROVE  IsConfRow(SerializeConfState([voters |-> v, learners |-> l, voters_outgoing |-> o,
                                         learners_next |-> n, auto_leave |-> flag]),
                     v, l, o, n, flag)
<1>. PICK learners \in Nat, outgoing \in Nat, next \in Nat, leave \in Nat :
        /\ learners = Behind(1, v) /\ outgoing = Behind(learners, l)
        /\ next = Behind(outgoing, o) /\ leave = Behind(next, n)
  <2>1. \A s \in Seq(Nat), at \in Nat : Behind(at, s) \in Nat
    BY LenProperties DEF Behind
  <2>. QED
    BY <2>1
<1>. DEFINE q1 == WithLength(v)
            q2 == q1 \o WithLength(l)
            q3 == q2 \o WithLength(o)
            q4 == q3 \o WithLength(n)
            full == q4 \o <<Cell(flag)>>
<1>1. q1 \in Seq(Nat) /\ Ends(q1, learners) /\ HoldsString(q1, 1, v, learners)
  <2>1. << >> \in Seq(Nat) /\ Ends(<< >>, 1)
    BY EmptySeq DEF Ends
  <2>2. << >> \o q1 = q1
    <3>1. <<Len(v)>> \in Seq(Nat)
      BY LenProperties
    <3>2. q1 \in Seq(Nat)
      BY <3>1, ConcatProperties DEF WithLength
    <3>. QED
      BY <3>2, ConcatEmptySeq
  <2>. DEFINE p == << >> \o WithLength(v)
  <2>3. p \in Seq(Nat) /\ Ends(p, learners) /\ HoldsString(p, 1, v, learners)
    <3>. HIDE DEF q1
    <3>1. LET row == << >> \o WithLength(v)
          IN  /\ row \in Seq(Nat) /\ Ends(row, learners) /\ StartsAs(<< >>, row)
              /\ HoldsString(row, 1, v, learners)
      <4>1. learners = Behind(1, v) /\ 1 \in Nat
        OBVIOUS
      <4>. QED
        BY <2>1, <4>1, AddString
    <3>. QED
      BY <3>1
  <2>4. p = q1
    BY <2>2
  <2>. HIDE DEF p, q1
  <2>. QED
    BY <2>3, <2>4
<1>. HIDE DEF q1
<1>2. /\ q2 \in Seq(Nat) /\ Ends(q2, outgoing) /\ StartsAs(q1, q2)
      /\ HoldsString(q2, learners, l, outgoing)
  BY <1>1, AddString
<1>. HIDE DEF q2
<1>3. q3 \in Seq(Nat) /\ Ends(q3, next) /\ StartsAs(q2, q3) /\ HoldsString(q3, outgoing, o, next)
  BY <1>2, AddString
<1>. HIDE DEF q3
<1>4. q4 \in Seq(Nat) /\ Ends(q4, leave) /\ StartsAs(q3, q4) /\ HoldsString(q4, next, n, leave)
  BY <1>3, AddString
<1>. HIDE DEF q4
<1>5. /\ full \in Seq(Nat) /\ Long(full, leave) /\ StartsAs(q4, full)
      /\ (full[leave] # 0) = flag
  BY <1>4, AddFlag
<1>. HIDE DEF full
<1>6. StartsAs(q3, full) /\ StartsAs(q2, full) /\ StartsAs(q1, full)
  BY <1>1, <1>2, <1>3, <1>4, <1>5, StartsTrans
<1>7. /\ HoldsString(full, 1, v, learners) /\ HoldsString(full, learners, l, outgoing)
      /\ HoldsString(full, outgoing, o, next) /\ HoldsString(full, next, n, leave)
  <2>1. HoldsString(full, 1, v, learners)
    BY <1>1, <1>5, <1>6, StillHolds
  <2>2. HoldsString(full, learners, l, outgoing)
    BY <1>2, <1>5, <1>6, StillHolds
  <2>3. HoldsString(full, outgoing, o, next)
    BY <1>3, <1>5, <1>6, StillHolds
  <2>4. HoldsString(full, next, n, leave)
    BY <1>4, <1>5, StillHolds
  <2>. QED
    BY <2>1, <2>2, <2>3, <2>4
<1>8. full = SerializeConfState([voters |-> v, learners |-> l, voters_outgoing |-> o,
                                learners_next |-> n, auto_leave |-> flag])
  BY DEF SerializeConfState, full, q4, q3, q2, q1
<1>9. IsConfRow(full, v, l, o, n, flag)
  BY <1>5, <1>7 DEF IsConfRow
<1>. QED
  BY <1>8, <1>9

ReadConf(v, l, o, n, flag) ==
    [what |-> "configuration", value |->
       [voters |-> v, learners |-> l, voters_outgoing |-> o, learners_next |-> n,
        auto_leave |-> flag]]

ReadsAs(row, full, v, l, o, n, flag) ==
    DeserializeConfState(row) =
      IF Len(row) = Len(full) THEN ReadConf(v, l, o, n, flag)
      ELSE IF Len(row) = Len(full) - 1 THEN ReadConf(v, l, o, n, FALSE)
      ELSE Refused

LEMMA StringsRead ==
    ASSUME NEW full \in Seq(Nat), NEW row \in Seq(Nat), StartsAs(row, full),
           NEW v \in Seq(Nat), NEW l \in Seq(Nat), NEW o \in Seq(Nat), NEW n \in Seq(Nat),
           NEW flag \in BOOLEAN, IsConfRow(full, v, l, o, n, flag)
    PROVE  ReadsAs(row, full, v, l, o, n, flag)
<1>. PICK learners \in Nat, outgoing \in Nat, next \in Nat, leave \in Nat :
        /\ Long(full, leave) /\ (full[leave] # 0) = flag
        /\ HoldsString(full, 1, v, learners) /\ HoldsString(full, learners, l, outgoing)
        /\ HoldsString(full, outgoing, o, next) /\ HoldsString(full, next, n, leave)
  BY DEF IsConfRow
<1>1. PICK len \in Nat : len = Len(row) /\ len <= leave /\ Len(full) = leave
  BY LenProperties DEF StartsAs, Long
<1>2. /\ 1 < learners /\ (Fits(row, 1) <=> learners - 1 <= len)
      /\ Fits(row, 1) => ReadString(row, 1) = v /\ After(row, 1) = learners
  BY <1>1, StringIsRead
<1>3. /\ learners < outgoing /\ (Fits(row, learners) <=> outgoing - 1 <= len)
      /\ Fits(row, learners) => ReadString(row, learners) = l /\ After(row, learners) = outgoing
  BY <1>1, StringIsRead
<1>4. /\ outgoing < next /\ (Fits(row, outgoing) <=> next - 1 <= len)
      /\ Fits(row, outgoing) => ReadString(row, outgoing) = o /\ After(row, outgoing) = next
  BY <1>1, StringIsRead
<1>5. /\ next < leave /\ (Fits(row, next) <=> leave - 1 <= len)
      /\ Fits(row, next) => ReadString(row, next) = n /\ After(row, next) = leave
  BY <1>1, StringIsRead
<1>6. 1 < learners /\ learners < outgoing /\ outgoing < next /\ next < leave
  BY <1>2, <1>3, <1>4, <1>5
<1>7. CASE leave - 1 <= len
  <2>1. len >= 4 /\ (len = leave \/ len = leave - 1)
    <3>1. len <= leave
      BY <1>1
    <3>. QED
      BY <1>6, <1>7, <3>1
  <2>2. Fits(row, 1) /\ Fits(row, learners) /\ Fits(row, outgoing) /\ Fits(row, next)
    <3>1. learners - 1 <= len /\ outgoing - 1 <= len /\ next - 1 <= len
      BY <1>6, <1>7
    <3>. QED
      BY <1>2, <1>3, <1>4, <1>5, <1>7, <3>1
  <2>3. PICK g \in BOOLEAN : g = (leave <= len /\ row[leave] # 0)
    OBVIOUS
  <2>4. /\ len = leave => g = flag
        /\ len = leave - 1 => g = FALSE
    <3>1. ASSUME len = leave PROVE g = flag
      <4>1. leave \in 1..Len(row)
        BY <1>1, <1>6, <3>1
      <4>2. row[leave] = full[leave]
        BY <4>1 DEF StartsAs
      <4>. QED
        BY <2>3, <3>1, <4>2
    <3>2. ASSUME len = leave - 1 PROVE g = FALSE
      <4>1. ~(leave <= len)
        BY <3>2
      <4>. QED
        BY <2>3, <4>1
    <3>. QED
      BY <3>1, <3>2
  <2>5. DeserializeConfState(row) = ReadConf(v, l, o, n, g)
    BY <1>1, <1>2, <1>3, <1>4, <1>5, <2>1, <2>2, <2>3 DEF DeserializeConfState, ReadConf
  <2>6. leave - 1 # leave
    OBVIOUS
  <2>. QED
    BY <1>1, <2>1, <2>4, <2>5, <2>6 DEF ReadsAs
<1>8. CASE ~(leave - 1 <= len)
  <2>1. len # leave /\ len # leave - 1
    BY <1>8
  <2>2. \/ ~Fits(row, 1) \/ ~Fits(row, After(row, 1))
        \/ ~Fits(row, After(row, After(row, 1)))
        \/ ~Fits(row, After(row, After(row, After(row, 1))))
    BY <1>2, <1>3, <1>4, <1>5, <1>8
  <2>3. DeserializeConfState(row) = Refused
    BY <2>2 DEF DeserializeConfState
  <2>. QED
    BY <1>1, <2>1, <2>3 DEF ReadsAs
<1>. QED
  BY <1>7, <1>8

LEMMA EntryReads ==
    ASSUME NEW e \in EntryRecord
    PROVE  LET full == SerializeEntry(e)
           IN  /\ full \in Seq(Nat)
               /\ \A row : StartsAs(row, full) =>
                    DeserializeEntry(row) = IF Len(row) = Len(full)
                                            THEN [what |-> "entry", value |-> e] ELSE Refused
<1>1. PICK i \in Nat, t \in Nat, kind \in Nat, data \in Seq(Nat), ctx \in Seq(Nat),
           flag \in BOOLEAN :
             e = [index |-> i, term |-> t, entry_type |-> kind, data |-> data,
                  context |-> ctx, sync_log |-> flag]
  <2>1. /\ e.index \in Nat /\ e.term \in Nat /\ e.entry_type \in Nat /\ e.data \in Seq(Nat)
        /\ e.context \in Seq(Nat) /\ e.sync_log \in BOOLEAN
        /\ e = [index |-> e.index, term |-> e.term, entry_type |-> e.entry_type,
                data |-> e.data, context |-> e.context, sync_log |-> e.sync_log]
    BY DEF EntryRecord
  <2>. QED
    BY <2>1
<1>. DEFINE full == SerializeEntry(e)
<1>2. IsEntryRow(full, i, t, kind, data, ctx, flag) /\ full \in Seq(Nat)
  <2>. DEFINE f == [index |-> i, term |-> t, entry_type |-> kind, data |-> data,
                    context |-> ctx, sync_log |-> flag]
  <2>1. IsEntryRow(SerializeEntry(f), i, t, kind, data, ctx, flag)
    BY EntryRow
  <2>2. e = f
    BY <1>1
  <2>. HIDE DEF f
  <2>. QED
    BY <2>1, <2>2 DEF IsEntryRow
<1>. HIDE DEF full
<1>3. ASSUME NEW row, StartsAs(row, full)
      PROVE  DeserializeEntry(row) = IF Len(row) = Len(full)
                                     THEN [what |-> "entry", value |-> e] ELSE Refused
  <2>1. row \in Seq(Nat)
    BY <1>3 DEF StartsAs
  <2>. QED
    BY <1>1, <1>2, <1>3, <2>1, FieldsRead
<1>. QED
  BY <1>2, <1>3 DEF full

LEMMA ConfStateReads ==
    ASSUME NEW cs \in ConfStateRecord
    PROVE  LET full == SerializeConfState(cs)
           IN  /\ full \in Seq(Nat) /\ Len(full) >= 1
               /\ \A row : StartsAs(row, full) =>
                    DeserializeConfState(row) =
                      IF Len(row) = Len(full) THEN [what |-> "configuration", value |-> cs]
                      ELSE IF Len(row) = Len(full) - 1
                      THEN [what |-> "configuration", value |-> [cs EXCEPT !.auto_leave = FALSE]]
                      ELSE Refused
<1>1. PICK v \in Seq(Nat), l \in Seq(Nat), o \in Seq(Nat), n \in Seq(Nat), flag \in BOOLEAN :
             cs = [voters |-> v, learners |-> l, voters_outgoing |-> o, learners_next |-> n,
                   auto_leave |-> flag]
  <2>1. /\ cs.voters \in Seq(Nat) /\ cs.learners \in Seq(Nat) /\ cs.voters_outgoing \in Seq(Nat)
        /\ cs.learners_next \in Seq(Nat) /\ cs.auto_leave \in BOOLEAN
        /\ cs = [voters |-> cs.voters, learners |-> cs.learners,
                 voters_outgoing |-> cs.voters_outgoing, learners_next |-> cs.learners_next,
                 auto_leave |-> cs.auto_leave]
    BY DEF ConfStateRecord
  <2>. QED
    BY <2>1
<1>. DEFINE full == SerializeConfState(cs)
<1>2. IsConfRow(full, v, l, o, n, flag) /\ full \in Seq(Nat)
  <2>. DEFINE f == [voters |-> v, learners |-> l, voters_outgoing |-> o,
                    learners_next |-> n, auto_leave |-> flag]
  <2>1. IsConfRow(SerializeConfState(f), v, l, o, n, flag)
    BY StringsRow
  <2>2. cs = f
    BY <1>1
  <2>. HIDE DEF f
  <2>. QED
    BY <2>1, <2>2 DEF IsConfRow
<1>. HIDE DEF full
<1>3. Len(full) \in Nat /\ Len(full) >= 1
  <2>1. PICK at, next, leave \in Nat :
          Long(full, leave) /\ HoldsString(full, at, n, next)
    BY <1>2 DEF IsConfRow
  <2>. QED
    BY <1>2, <2>1, LenProperties DEF HoldsString
<1>4. [cs EXCEPT !.auto_leave = FALSE] =
        [voters |-> v, learners |-> l, voters_outgoing |-> o, learners_next |-> n,
         auto_leave |-> FALSE]
  <2>. DEFINE d == [cs EXCEPT !.auto_leave = FALSE]
  <2>1. d \in ConfStateRecord
    BY DEF ConfStateRecord
  <2>2. d = [voters |-> d.voters, learners |-> d.learners, voters_outgoing |-> d.voters_outgoing,
             learners_next |-> d.learners_next, auto_leave |-> d.auto_leave]
    <3>. HIDE DEF d
    <3>. QED
      BY <2>1 DEF ConfStateRecord
  <2>3. /\ d.voters = cs.voters /\ d.learners = cs.learners
        /\ d.voters_outgoing = cs.voters_outgoing /\ d.learners_next = cs.learners_next
        /\ d.auto_leave = FALSE
    BY DEF ConfStateRecord
  <2>. HIDE DEF d
  <2>4. /\ cs.voters = v /\ cs.learners = l /\ cs.voters_outgoing = o /\ cs.learners_next = n
    BY <1>1
  <2>5. d = [voters |-> v, learners |-> l, voters_outgoing |-> o, learners_next |-> n,
             auto_leave |-> FALSE]
    BY <2>2, <2>3, <2>4
  <2>. QED
    BY <2>5 DEF d
<1>5. ASSUME NEW row, StartsAs(row, full)
      PROVE  DeserializeConfState(row) =
               IF Len(row) = Len(full) THEN [what |-> "configuration", value |-> cs]
               ELSE IF Len(row) = Len(full) - 1
               THEN [what |-> "configuration", value |-> [cs EXCEPT !.auto_leave = FALSE]]
               ELSE Refused
  <2>1. row \in Seq(Nat)
    BY <1>5 DEF StartsAs
  <2>2. ReadsAs(row, full, v, l, o, n, flag)
    BY <1>2, <1>5, <2>1, StringsRead
  <2>3. /\ ReadConf(v, l, o, n, flag) = [what |-> "configuration", value |-> cs]
        /\ ReadConf(v, l, o, n, FALSE)
             = [what |-> "configuration", value |-> [cs EXCEPT !.auto_leave = FALSE]]
    BY <1>1, <1>4 DEF ReadConf
  <2>. QED
    BY <2>2, <2>3 DEF ReadsAs
<1>. QED
  BY <1>2, <1>3, <1>5 DEF full

(* The row is what was serialized, or what is left of it.                  *)
CodecRecords ==
    [what : {"entry"}, value : EntryRecord] \cup [what : {"hard state"}, value : HardStateRecord]
        \cup [what : {"configuration"}, value : ConfStateRecord]

CodecInv ==
    \/ written = NothingWritten /\ cells = <<>>
    \/ written \in CodecRecords /\ StartsAs(cells, Serialized)

LEMMA Whole == \A full \in Seq(Nat) : StartsAs(full, full)
<1>. QED
  BY LenProperties DEF StartsAs

LEMMA ReadsBack == ASSUME CodecInv PROVE ReadsBackOrRefuses
<1>. SUFFICES ASSUME written # NothingWritten PROVE ReadsBackOrRefuses
  BY DEF ReadsBackOrRefuses
<1>. DEFINE full == Serialized
<1>1. written \in CodecRecords /\ StartsAs(cells, full) /\ cells \in Seq(Nat)
  BY DEF CodecInv, StartsAs
<1>2. Len(cells) \in Nat
  BY <1>1, LenProperties
<1>3. ASSUME full \in Seq(Nat), Len(cells) = Len(full) PROVE cells = full
  <2>1. \A i \in 1..Len(cells) : cells[i] = full[i]
    BY <1>1 DEF StartsAs
  <2>. HIDE DEF full
  <2>. QED
    BY <1>1, <1>3, <2>1, SeqEqual
<1>4. ASSUME full \in Seq(Nat), Len(full) >= 1, Len(cells) = Len(full) - 1
      PROVE  cells = Front(full)
  <2>. HIDE DEF full
  <2>1. full # <<>>
    BY <1>4
  <2>2. /\ Front(full) \in Seq(Nat) /\ Len(Front(full)) = Len(full) - 1
        /\ \A i \in 1..Len(full) - 1 : Front(full)[i] = full[i]
    BY <1>4, <2>1, FrontFacts DEF Front
  <2>3. \A i \in 1..Len(cells) : cells[i] = full[i]
    BY <1>1 DEF StartsAs
  <2>4. \A i \in 1..Len(cells) : cells[i] = Front(full)[i]
    BY <1>4, <2>2, <2>3
  <2>. QED
    BY <1>1, <1>4, <2>2, <2>4, SeqEqual
<1>5. CASE written \in [what : {"entry"}, value : EntryRecord]
  <2>1. PICK e \in EntryRecord : written = [what |-> "entry", value |-> e]
    BY <1>5
  <2>2. full = SerializeEntry(e) /\ Read = DeserializeEntry(cells)
    BY <2>1 DEF Serialized, Read
  <2>3. full \in Seq(Nat)
        /\ Read = IF Len(cells) = Len(full) THEN [what |-> "entry", value |-> e] ELSE Refused
    BY <1>1, <2>2, EntryReads
  <2>4. CASE Len(cells) = Len(full)
    BY <1>3, <2>1, <2>3, <2>4 DEF ReadsBackOrRefuses
  <2>5. CASE Len(cells) # Len(full)
    <3>1. cells # full /\ Read = Refused
      BY <2>3, <2>5
    <3>. QED
      BY <3>1 DEF ReadsBackOrRefuses
  <2>. QED
    BY <2>4, <2>5
<1>6. CASE written \in [what : {"hard state"}, value : HardStateRecord]
  <2>1. PICK hs \in HardStateRecord : written = [what |-> "hard state", value |-> hs]
    BY <1>6
  <2>2. full = SerializeHardState(hs) /\ Read = DeserializeHardState(cells)
    BY <2>1 DEF Serialized, Read
  <2>3. /\ Len(full) = 3
        /\ Read = IF Len(cells) = 3 THEN [what |-> "hard state", value |-> hs] ELSE Refused
    BY <1>1, <2>2, HardStateReads
  <2>4. full \in Seq(Nat)
    BY <2>2 DEF SerializeHardState, HardStateRecord
  <2>5. CASE Len(cells) = 3
    <3>1. cells = full
      BY <1>3, <2>3, <2>4, <2>5
    <3>. QED
      BY <2>1, <2>3, <2>5, <3>1 DEF ReadsBackOrRefuses
  <2>6. CASE Len(cells) # 3
    <3>1. cells # full /\ Read = Refused
      BY <2>3, <2>6
    <3>. QED
      BY <3>1 DEF ReadsBackOrRefuses
  <2>. QED
    BY <2>5, <2>6
<1>7. CASE written \in [what : {"configuration"}, value : ConfStateRecord]
  <2>1. PICK cs \in ConfStateRecord : written = [what |-> "configuration", value |-> cs]
    BY <1>7
  <2>2. full = SerializeConfState(cs) /\ Read = DeserializeConfState(cells)
    BY <2>1 DEF Serialized, Read
  <2>3. /\ full \in Seq(Nat) /\ Len(full) >= 1
        /\ Read = IF Len(cells) = Len(full) THEN [what |-> "configuration", value |-> cs]
                  ELSE IF Len(cells) = Len(full) - 1
                  THEN [what |-> "configuration", value |-> [cs EXCEPT !.auto_leave = FALSE]]
                  ELSE Refused
    BY <1>1, <2>2, ConfStateReads
  <2>4. CASE Len(cells) = Len(full)
    BY <1>3, <2>1, <2>3, <2>4 DEF ReadsBackOrRefuses
  <2>5. CASE Len(cells) = Len(full) - 1
    <3>1. Len(full) \in Nat /\ Len(full) - 1 # Len(full)
      BY <2>3, LenProperties
    <3>2. cells = Front(full)
      BY <1>4, <2>3, <2>5
    <3>3. [written EXCEPT !.value.auto_leave = FALSE]
            = [what |-> "configuration", value |-> [cs EXCEPT !.auto_leave = FALSE]]
      <4>1. [written EXCEPT !.value.auto_leave = FALSE]
              = [written EXCEPT !.value = [written.value EXCEPT !.auto_leave = FALSE]]
        BY <2>1
      <4>2. \A d : [written EXCEPT !.value = d] = [what |-> "configuration", value |-> d]
        BY <2>1
      <4>. QED
        BY <2>1, <4>1, <4>2
    <3>4. Read = [written EXCEPT !.value.auto_leave = FALSE]
      BY <2>3, <2>5, <3>1, <3>3
    <3>. QED
      BY <2>1, <3>2, <3>4 DEF ReadsBackOrRefuses
  <2>6. CASE Len(cells) # Len(full) /\ Len(cells) # Len(full) - 1
    <3>1. cells # full /\ Read = Refused
      BY <2>3, <2>6
    <3>. QED
      BY <3>1 DEF ReadsBackOrRefuses
  <2>. QED
    BY <2>4, <2>5, <2>6
<1>. QED
  BY <1>1, <1>5, <1>6, <1>7 DEF CodecRecords

LEMMA CodecStep == CodecInv /\ [CodecNext]_codecVars => CodecInv'
<1>. SUFFICES ASSUME CodecInv, [CodecNext]_codecVars PROVE CodecInv'
  OBVIOUS
<1>1. /\ \A c \in CodecNumbers : c \in Nat
      /\ \A s \in CodecStrings : s \in Seq(Nat)
  BY CodecAssumption
<1>2. CASE UNCHANGED codecVars
  BY <1>2 DEF codecVars, CodecInv, Serialized
<1>3. CASE LoseTail
  <2>1. PICK full : full = Serialized /\ Serialized' = full
    BY <1>3 DEF LoseTail, Serialized
  <2>2. written \in CodecRecords /\ written' = written /\ StartsAs(cells, full)
        /\ cells # <<>> /\ cells' = Front(cells)
    BY <1>3, <2>1 DEF LoseTail, CodecInv
  <2>3. /\ cells \in Seq(Nat) /\ Len(cells) <= Len(full)
        /\ \A i \in 1..Len(cells) : cells[i] = full[i]
    BY <2>2 DEF StartsAs
  <2>4. /\ cells' \in Seq(Nat) /\ Len(cells') = Len(cells) - 1
        /\ \A i \in 1..Len(cells) - 1 : i \in 1..Len(cells) /\ cells'[i] = cells[i]
    BY <2>2, <2>3, FrontFacts DEF Front
  <2>5. Len(cells') <= Len(full)
    BY <2>3, <2>4, LenProperties
  <2>6. StartsAs(cells', full)
    BY <2>3, <2>4, <2>5 DEF StartsAs
  <2>. QED
    BY <2>1, <2>2, <2>6 DEF CodecInv
<1>4. ASSUME NEW i \in CodecNumbers, NEW t \in CodecNumbers, NEW kind \in {0, 1},
             NEW data \in CodecStrings, NEW context \in CodecStrings, NEW sync \in BOOLEAN,
             WriteEntry([index |-> i, term |-> t, entry_type |-> kind, data |-> data,
                         context |-> context, sync_log |-> sync])
      PROVE  CodecInv'
  <2>1. PICK e \in EntryRecord : WriteEntry(e)
    <3>1. i \in Nat /\ t \in Nat /\ kind \in Nat /\ data \in Seq(Nat) /\ context \in Seq(Nat)
      BY <1>1
    <3>2. [index |-> i, term |-> t, entry_type |-> kind, data |-> data,
           context |-> context, sync_log |-> sync] \in EntryRecord
      BY <3>1 DEF EntryRecord
    <3>. QED
      BY <1>4, <3>2
  <2>2. written' = [what |-> "entry", value |-> e] /\ cells' = SerializeEntry(e)
    BY <2>1 DEF WriteEntry, Write
  <2>3. Serialized' = SerializeEntry(e) /\ written' \in CodecRecords
    BY <2>2 DEF Serialized, CodecRecords
  <2>4. StartsAs(SerializeEntry(e), SerializeEntry(e))
    BY EntryReads, Whole
  <2>. QED
    BY <2>2, <2>3, <2>4 DEF CodecInv
<1>5. ASSUME NEW t \in CodecNumbers, NEW v \in CodecNumbers, NEW c \in CodecNumbers,
             WriteHardState([term |-> t, vote |-> v, commit |-> c])
      PROVE  CodecInv'
  <2>1. PICK hs \in HardStateRecord : WriteHardState(hs)
    <3>1. [term |-> t, vote |-> v, commit |-> c] \in HardStateRecord
      BY <1>1 DEF HardStateRecord
    <3>. QED
      BY <1>5, <3>1
  <2>2. written' = [what |-> "hard state", value |-> hs] /\ cells' = SerializeHardState(hs)
    BY <2>1 DEF WriteHardState, Write
  <2>3. Serialized' = SerializeHardState(hs) /\ written' \in CodecRecords
    BY <2>2 DEF Serialized, CodecRecords
  <2>4. SerializeHardState(hs) \in Seq(Nat)
    BY DEF SerializeHardState, HardStateRecord
  <2>5. StartsAs(SerializeHardState(hs), SerializeHardState(hs))
    BY <2>4, Whole
  <2>. QED
    BY <2>2, <2>3, <2>5 DEF CodecInv
<1>6. ASSUME NEW v \in CodecStrings, NEW l \in CodecStrings, NEW o \in CodecStrings,
             NEW n \in CodecStrings, NEW leave \in BOOLEAN,
             WriteConfState([voters |-> v, learners |-> l, voters_outgoing |-> o,
                             learners_next |-> n, auto_leave |-> leave])
      PROVE  CodecInv'
  <2>1. PICK cs \in ConfStateRecord : WriteConfState(cs)
    <3>1. [voters |-> v, learners |-> l, voters_outgoing |-> o, learners_next |-> n,
           auto_leave |-> leave] \in ConfStateRecord
      BY <1>1 DEF ConfStateRecord
    <3>. QED
      BY <1>6, <3>1
  <2>2. written' = [what |-> "configuration", value |-> cs] /\ cells' = SerializeConfState(cs)
    BY <2>1 DEF WriteConfState, Write
  <2>3. Serialized' = SerializeConfState(cs) /\ written' \in CodecRecords
    BY <2>2 DEF Serialized, CodecRecords
  <2>4. StartsAs(SerializeConfState(cs), SerializeConfState(cs))
    BY ConfStateReads, Whole
  <2>. QED
    BY <2>2, <2>3, <2>4 DEF CodecInv
<1>. QED
  BY <1>2, <1>3, <1>4, <1>5, <1>6 DEF CodecNext

(* Whatever was serialized, a row reads back as it was written, and one    *)
(* that lost its tail is refused, or is a configuration that lost its last *)
(* flag only: for data, contexts and lists of nodes of any length.         *)
THEOREM RowsReadBack == Spec => []ReadsBackOrRefuses
<1>1. CodecInit => CodecInv
  BY DEF CodecInit, CodecInv
<1>. QED
  BY <1>1, CodecStep, ReadsBack, CodecView, PTL

---------------------------------------------------------------------------
(* LockFreeHistogram *)

(* The boundaries grow; a latency is in the first bucket whose boundary is *)
(* above it.                                                               *)
LEMMA BoundariesGrow ==
    /\ Len(Boundaries) = 8 /\ Boundaries[1] = 1
    /\ \A a \in 1..8 : Boundaries[a] \in Nat
    /\ \A a, b \in 1..8 : a < b => Boundaries[a] < Boundaries[b]
<1>. DEFINE B == Boundaries
<1>1. /\ Len(B) = 8
      /\ B[1] = 1 /\ B[2] = 10 /\ B[3] = 100 /\ B[4] = 1000 /\ B[5] = 10000
      /\ B[6] = 100000 /\ B[7] = 1000000 /\ B[8] = 10000000
  BY DEF Boundaries
<1>. HIDE DEF B
<1>2. \A a \in 1..8 : a \in {1, 2, 3, 4, 5, 6, 7, 8}
  OBVIOUS
<1>3. \A a \in 1..8 : B[a] \in Nat
  BY <1>1, <1>2
<1>4. \A a \in 1..7 : B[a] < B[a + 1]
  BY <1>1
<1>5. \A a, b \in 1..8 : a < b => B[a] < B[b]
  BY <1>1, <1>2
<1>. QED
  BY <1>1, <1>3, <1>5 DEF B

IsBucket(v, i) ==
    /\ i \in 1..9
    /\ i <= 8 => v < Boundaries[i]
    /\ \A j \in 1..i-1 : v >= Boundaries[j]

LEMMA BucketOf ==
    ASSUME NEW v \in Nat
    PROVE  IsBucket(v, FindBucket(v))
<1>. DEFINE above == {i \in 1..9 : i <= 8 => v < Boundaries[i]}
<1>1. 9 \in above /\ above \subseteq Nat
  OBVIOUS
<1>2. PICK i \in above : \A j \in above : i <= j
  <2>. HIDE DEF above
  <2>. QED
    BY <1>1, LeastExists
<1>3. IsBucket(v, i)
  <2>1. ASSUME NEW j \in 1..i-1 PROVE v >= Boundaries[j]
    <3>1. j \in 1..8 /\ ~(i <= j)
      OBVIOUS
    <3>2. j \notin above
      BY <1>2, <3>1
    <3>. QED
      BY <3>1, <3>2, BoundariesGrow
  <2>. QED
    BY <2>1 DEF IsBucket
<1>. HIDE DEF above
<1>4. \E k \in Buckets :
         /\ k <= Len(Boundaries) => v < Boundaries[k]
         /\ \A j \in 1..k-1 : v >= Boundaries[j]
  BY <1>3, BoundariesGrow DEF Buckets, IsBucket
<1>. DEFINE f == FindBucket(v)
<1>5. /\ f \in Buckets
      /\ f <= Len(Boundaries) => v < Boundaries[f]
      /\ \A j \in 1..f-1 : v >= Boundaries[j]
  BY <1>4 DEF FindBucket
<1>. HIDE DEF f
<1>6. IsBucket(v, f)
  BY <1>5, BoundariesGrow DEF Buckets, IsBucket
<1>. QED
  BY <1>6 DEF f

LEMMA BucketIsUnique ==
    ASSUME NEW v \in Nat, NEW i \in 1..9, IsBucket(v, i)
    PROVE  FindBucket(v) = i
<1>1. PICK k \in 1..9 : k = FindBucket(v) /\ IsBucket(v, k)
  BY BucketOf DEF IsBucket
<1>2. ASSUME NEW a \in 1..9, NEW b \in 1..9, IsBucket(v, a), IsBucket(v, b), a < b
      PROVE  FALSE
  <2>1. a <= 8 /\ a \in 1..b-1
    BY <1>2
  <2>2. v < Boundaries[a] /\ v >= Boundaries[a]
    BY <1>2, <2>1 DEF IsBucket
  <2>. QED
    BY <2>1, <2>2, BoundariesGrow
<1>3. ~(k < i) /\ ~(i < k)
  BY <1>1, <1>2
<1>. QED
  BY <1>1, <1>3

(* Larger latencies are in higher buckets.                                 *)
LEMMA BucketsGrow ==
    ASSUME NEW v \in Nat, NEW w \in Nat, FindBucket(v) < FindBucket(w)
    PROVE  v < w
<1>1. PICK i \in 1..9, j \in 1..9 :
        i = FindBucket(v) /\ j = FindBucket(w) /\ IsBucket(v, i) /\ IsBucket(w, j) /\ i < j
  BY BucketOf DEF IsBucket
<1>2. i <= 8 /\ i \in 1..j-1 /\ i \in 1..8
  BY <1>1
<1>3. v < Boundaries[i] /\ w >= Boundaries[i] /\ Boundaries[i] \in Nat
  BY <1>1, <1>2, BoundariesGrow DEF IsBucket
<1>. QED
  BY <1>3

(* The snapshot counts recorded samples; of those recorded before it began *)
(* it has counted all that are in the buckets it has loaded.               *)
HistogramInv ==
    /\ latencies \in Seq(Samples) /\ counted \subseteq DOMAIN latencies
    /\ began \in 0..Len(latencies) /\ loading \in 1..10
    /\ \A k \in 1..began : FindBucket(latencies[k]) < loading => k \in counted

LEMMA RecordLatencyInv ==
    ASSUME HistogramInv, NEW v \in Samples, RecordLatency(v) PROVE HistogramInv'
<1>1. /\ latencies' = Append(latencies, v) /\ latencies \in Seq(Samples)
      /\ UNCHANGED <<loading, counted, began>>
  BY DEF HistogramInv, RecordLatency
<1>2. PICK len \in Nat : len = Len(latencies) /\ DOMAIN latencies = 1..len
  BY <1>1, LenProperties
<1>3. /\ latencies' \in Seq(Samples) /\ Len(latencies') = len + 1
      /\ DOMAIN latencies' = 1..len + 1 /\ \A k \in 1..len : latencies'[k] = latencies[k]
  <2>1. /\ latencies' \in Seq(Samples) /\ Len(latencies') = Len(latencies) + 1
        /\ \A k \in 1..Len(latencies) : latencies'[k] = latencies[k]
    BY <1>1, AppendProperties
  <2>. QED
    BY <1>2, <2>1, LenProperties
<1>4. \A k \in 1..began : k \in 1..len
  BY <1>2 DEF HistogramInv
<1>. QED
  BY <1>1, <1>2, <1>3, <1>4 DEF HistogramInv

LEMMA StartSnapshotInv == ASSUME HistogramInv, StartSnapshot PROVE HistogramInv'
<1>1. /\ latencies' = latencies /\ loading' = 1 /\ counted' = {} /\ began' = Len(latencies)
      /\ latencies \in Seq(Samples)
  BY DEF HistogramInv, StartSnapshot
<1>2. PICK len \in Nat : len = Len(latencies) /\ \A k \in 1..len : latencies[k] \in Samples
  BY <1>1, LenProperties, ElementOfSeq
<1>3. ASSUME NEW k \in 1..len PROVE ~(FindBucket(latencies[k]) < 1)
  <2>1. PICK b \in 1..9 : b = FindBucket(latencies[k])
    BY <1>2, BucketOf, HistogramAssumption DEF IsBucket
  <2>. QED
    BY <2>1
<1>. QED
  BY <1>1, <1>2, <1>3 DEF HistogramInv

LEMMA LoadBucketInv == ASSUME HistogramInv, LoadBucket PROVE HistogramInv'
<1>1. /\ UNCHANGED <<latencies, began>> /\ loading \in 1..9 /\ loading' = loading + 1
      /\ counted' = counted \cup {k \in DOMAIN latencies : FindBucket(latencies[k]) = loading}
  BY BoundariesGrow DEF LoadBucket, Buckets
<1>2. PICK len \in Nat : /\ len = Len(latencies) /\ DOMAIN latencies = 1..len
                        /\ \A k \in 1..len : latencies[k] \in Samples
  BY LenProperties, ElementOfSeq DEF HistogramInv
<1>3. ASSUME NEW k \in 1..began, FindBucket(latencies[k]) < loading + 1 PROVE k \in counted'
  <2>1. k \in 1..len
    BY <1>2 DEF HistogramInv
  <2>2. PICK b \in 1..9 : b = FindBucket(latencies[k])
    BY <1>2, <2>1, BucketOf, HistogramAssumption DEF IsBucket
  <2>3. b = loading \/ b < loading
    BY <1>1, <1>3, <2>2
  <2>. QED
    BY <1>1, <1>2, <2>1, <2>2, <2>3 DEF HistogramInv
<1>. QED
  BY <1>1, <1>3 DEF HistogramInv

LEMMA HistogramStep == HistogramInv /\ [HistogramNext]_histogramVars => HistogramInv'
<1>. SUFFICES ASSUME HistogramInv, [HistogramNext]_histogramVars PROVE HistogramInv'
  OBVIOUS
<1>1. CASE UNCHANGED histogramVars
  BY <1>1 DEF HistogramInv, histogramVars
<1>. QED
  BY <1>1, RecordLatencyInv, StartSnapshotInv, LoadBucketInv DEF HistogramNext

(* What the proofs about a snapshot use of the samples and of those in it. *)
SnapshotOfSamples == latencies \in Seq(Nat) /\ counted \subseteq DOMAIN latencies

(* Where samples that satisfy something are, and how many.                 *)
LEMMA CountsAreNat ==
    ASSUME SnapshotOfSamples, NEW A, NEW C, A \subseteq C, C \subseteq counted
    PROVE  /\ Cardinality(A) \in Nat /\ Cardinality(C) \in Nat
           /\ Cardinality(A) <= Cardinality(C) /\ Cardinality(C) <= Cardinality(counted)
<1>1. IsFiniteSet(DOMAIN latencies)
  <2>1. PICK len \in Nat : DOMAIN latencies = 1..len
    BY LenProperties DEF SnapshotOfSamples
  <2>. QED
    BY <2>1, FS_Interval
<1>2. IsFiniteSet(counted)
  BY <1>1, FS_Subset DEF SnapshotOfSamples
<1>3. IsFiniteSet(C) /\ Cardinality(C) <= Cardinality(counted)
  BY <1>2, FS_Subset
<1>4. IsFiniteSet(A) /\ Cardinality(A) <= Cardinality(C)
  BY <1>3, FS_Subset
<1>. QED
  BY <1>3, <1>4, FS_CardinalityType

LEMMA SizeOfSnapshot ==
    ASSUME SnapshotOfSamples
    PROVE  /\ Cardinality(counted) \in Nat
           /\ counted # {} => Cardinality(counted) >= 1
           /\ \A k \in counted : latencies[k] \in Nat
<1>1. Cardinality(counted) \in Nat
  BY CountsAreNat
<1>2. IsFiniteSet(counted)
  <2>1. PICK len \in Nat : DOMAIN latencies = 1..len
    BY LenProperties DEF SnapshotOfSamples
  <2>. QED
    BY <2>1, FS_Interval, FS_Subset DEF SnapshotOfSamples
<1>3. counted # {} => Cardinality(counted) # 0
  BY <1>2, FS_EmptySet
<1>4. \A k \in counted : latencies[k] \in Nat
  BY LenProperties, ElementOfSeq DEF SnapshotOfSamples
<1>. QED
  BY <1>1, <1>3, <1>4

(* Something is as large as every sample.                                  *)
BoundedTo(n) == \E top \in Nat : \A k \in 1..n : latencies[k] <= top

LEMMA SamplesAreBounded ==
    ASSUME latencies \in Seq(Nat)
    PROVE  \E top \in Nat : \A k \in DOMAIN latencies : latencies[k] <= top
<1>1. PICK len \in Nat : len = Len(latencies) /\ DOMAIN latencies = 1..len
                       /\ \A k \in 1..len : latencies[k] \in Nat
  BY LenProperties, ElementOfSeq
<1>. DEFINE without == {n \in 0..len : ~BoundedTo(n)}
<1>2. ASSUME without # {} PROVE FALSE
  <2>1. without \subseteq Nat
    OBVIOUS
  <2>2. PICK n \in without : \A m \in without : n <= m
    <3>. HIDE DEF without
    <3>. QED
      BY <1>2, <2>1, LeastExists
  <2>3. n \in Nat /\ n <= len /\ ~BoundedTo(n)
    OBVIOUS
  <2>4. BoundedTo(0)
    <3>1. 0 \in Nat /\ \A k \in 1..0 : latencies[k] <= 0
      OBVIOUS
    <3>. QED
      BY <3>1 DEF BoundedTo
  <2>5. n \in 1..len /\ n - 1 \in 0..len /\ ~(n <= n - 1)
    <3>1. n # 0
      BY <2>3, <2>4
    <3>. HIDE DEF without
    <3>. QED
      BY <2>3, <3>1
  <2>6. n - 1 \notin without
    <3>. HIDE DEF without
    <3>. QED
      BY <2>2, <2>5
  <2>7. BoundedTo(n - 1)
    BY <2>5, <2>6
  <2>. HIDE DEF without
  <2>8. PICK top \in Nat : \A k \in 1..n-1 : latencies[k] <= top
    BY <2>7 DEF BoundedTo
  <2>9. PICK last \in Nat : last = latencies[n]
    BY <1>1, <2>5
  <2>10. PICK more \in Nat : top <= more /\ last <= more
    <3>1. top <= top + last /\ last <= top + last /\ top + last \in Nat
      OBVIOUS
    <3>. QED
      BY <3>1
  <2>11. ASSUME NEW k \in 1..n PROVE latencies[k] <= more
    <3>1. CASE k = n
      BY <2>9, <2>10, <3>1
    <3>2. CASE k # n
      <4>1. k \in 1..n-1 /\ k \in 1..len
        BY <2>3, <2>5, <3>2
      <4>2. latencies[k] <= top /\ latencies[k] \in Nat
        BY <1>1, <2>8, <4>1
      <4>. QED
        BY <2>10, <4>2
    <3>. QED
      BY <3>1, <3>2
  <2>. QED
    BY <2>3, <2>11 DEF BoundedTo
<1>3. BoundedTo(len)
  BY <1>1, <1>2
<1>. QED
  BY <1>1, <1>3 DEF BoundedTo

LEMMA RankExists ==
    ASSUME SnapshotOfSamples, NEW rank \in 1..Cardinality(counted)
    PROVE  Ranked(rank) \in Nat /\ HasRank(Ranked(rank), rank)
<1>. DEFINE AtMost(v) == {k \in counted : latencies[k] <= v}
            Under(v) == {k \in counted : latencies[k] < v}
            enough == {v \in Nat : Cardinality(AtMost(v)) >= rank}
            values == {latencies[k] : k \in counted}
<1>1. /\ Cardinality(counted) \in Nat /\ values \subseteq Nat
      /\ \A k \in counted : latencies[k] \in Nat
  <2>1. \A k \in counted : latencies[k] \in Nat
    BY SizeOfSnapshot
  <2>2. values \subseteq Nat
    BY <2>1
  <2>. HIDE DEF values
  <2>. QED
    BY <2>1, <2>2, SizeOfSnapshot
<1>2. enough # {}
  <2>1. PICK top \in Nat : \A k \in counted : latencies[k] <= top
    BY SamplesAreBounded DEF SnapshotOfSamples
  <2>2. AtMost(top) = counted
    BY <2>1
  <2>3. Cardinality(AtMost(top)) >= rank
    BY <1>1, <2>2
  <2>. QED
    BY <2>3
<1>3. PICK v \in enough : \A w \in enough : v <= w
  <2>1. enough \subseteq Nat
    OBVIOUS
  <2>. HIDE DEF enough
  <2>. QED
    BY <1>2, <2>1, LeastExists
<1>4. v \in Nat /\ Cardinality(AtMost(v)) >= rank
  OBVIOUS
<1>5. Cardinality(Under(v)) < rank
  <2>1. CASE v = 0
    <3>1. Under(v) = {}
      BY <1>1, <2>1
    <3>2. Cardinality(Under(v)) = 0
      BY <3>1, FS_EmptySet
    <3>. HIDE DEF Under
    <3>. QED
      BY <3>2
  <2>2. CASE v # 0
    <3>1. v - 1 \in Nat /\ ~(v <= v - 1)
      BY <1>4, <2>2
    <3>2. ~(Cardinality(AtMost(v - 1)) >= rank)
      BY <1>3, <3>1
    <3>3. Under(v) = AtMost(v - 1)
      BY <1>1, <1>4, <3>1
    <3>4. Cardinality(AtMost(v - 1)) \in Nat
      <4>. DEFINE c == AtMost(v - 1)
      <4>1. c \subseteq counted
        OBVIOUS
      <4>. HIDE DEF c
      <4>2. Cardinality(c) \in Nat
        BY <4>1, CountsAreNat
      <4>. QED
        BY <4>2 DEF c
    <3>5. Cardinality(AtMost(v - 1)) = Cardinality(Under(v))
      BY <3>3
    <3>. HIDE DEF AtMost, Under
    <3>6. PICK count \in Nat : count = Cardinality(AtMost(v - 1))
      BY <3>4
    <3>7. ~(count >= rank)
      BY <3>2, <3>6
    <3>8. count < rank
      BY <3>7
    <3>. QED
      BY <3>5, <3>6, <3>8
  <2>. QED
    BY <2>1, <2>2
<1>6. v \in values
  <2>1. SUFFICES ASSUME v \notin values PROVE FALSE
    OBVIOUS
  <2>2. \A k \in counted : latencies[k] # v
    BY <2>1
  <2>3. AtMost(v) = Under(v)
    BY <1>1, <1>4, <2>2
  <2>. HIDE DEF AtMost, Under
  <2>4. PICK count : count = Cardinality(Under(v)) /\ count >= rank /\ count < rank
    BY <1>4, <1>5, <2>3
  <2>5. count \in Nat
    <3>1. Under(v) \subseteq counted
      BY DEF Under
    <3>. QED
      BY <2>4, <3>1, CountsAreNat
  <2>. QED
    BY <2>4, <2>5
<1>7. HasRank(v, rank)
  BY <1>4, <1>5 DEF HasRank
<1>. HIDE DEF enough
<1>8. Ranked(rank) \in values /\ HasRank(Ranked(rank), rank)
  BY <1>6, <1>7 DEF Ranked
<1>. HIDE DEF values
<1>. QED
  BY <1>1, <1>8

LEMMA TargetIsRank ==
    ASSUME SnapshotOfSamples, counted # {}, NEW p \in {1, 50, 95, 99}
    PROVE  Target(p) \in 1..Cardinality(counted)
<1>1. PICK len \in Nat : len = Cardinality(counted) /\ len >= 1
  BY SizeOfSnapshot
<1>2. /\ (len * 1 + 99) \div 100 \in 1..len /\ (len * 50 + 99) \div 100 \in 1..len
      /\ (len * 95 + 99) \div 100 \in 1..len /\ (len * 99 + 99) \div 100 \in 1..len
  BY <1>1
<1>3. (len * p + 99) \div 100 \in 1..len
  BY <1>2
<1>. QED
  BY <1>1, <1>3 DEF Target

(* The bucket a percentile is read from: the first that reaches the rank.  *)
ReachesRank(i, rank) ==
    /\ i \in 1..9 /\ Cumulative(i) >= rank
    /\ \A j \in 1..i-1 : Cumulative(j) < rank

LEMMA CumulativeIsNat ==
    ASSUME SnapshotOfSamples, NEW i
    PROVE  Cumulative(i) \in Nat
<1>. DEFINE c == {k \in counted : FindBucket(latencies[k]) <= i}
<1>1. c \subseteq counted
  OBVIOUS
<1>. HIDE DEF c
<1>2. Cardinality(c) \in Nat
  BY <1>1, CountsAreNat
<1>. QED
  BY <1>2 DEF c, Cumulative

LEMMA AllAreCounted ==
    ASSUME SnapshotOfSamples PROVE Cumulative(9) = Cardinality(counted)
<1>1. ASSUME NEW k \in counted PROVE FindBucket(latencies[k]) <= 9
  <2>1. PICK b \in 1..9 : b = FindBucket(latencies[k])
    BY SizeOfSnapshot, BucketOf DEF IsBucket
  <2>. QED
    BY <2>1
<1>2. {k \in counted : FindBucket(latencies[k]) <= 9} = counted
  BY <1>1
<1>. QED
  BY <1>2 DEF Cumulative

LEMMA BucketIsReached ==
    ASSUME SnapshotOfSamples, counted # {}, NEW p \in {1, 50, 95, 99}
    PROVE  \E i \in 1..9 :
             /\ ReachesRank(i, Target(p))
             /\ Percentile(p) = IF i = 1 THEN 0 ELSE Boundaries[i - 1]
<1>1. PICK rank \in 1..Cardinality(counted) : rank = Target(p)
  BY TargetIsRank
<1>2. Cumulative(9) = Cardinality(counted)
  BY AllAreCounted
<1>3. rank \in Nat /\ Cumulative(9) >= rank
  BY <1>1, <1>2, SizeOfSnapshot
<1>. DEFINE enough == {i \in 1..9 : Cumulative(i) >= rank}
<1>4. PICK i \in enough : \A j \in enough : i <= j
  <2>1. 9 \in enough
    BY <1>3
  <2>2. enough \subseteq Nat /\ enough # {}
    BY <2>1
  <2>. HIDE DEF enough
  <2>. QED
    BY <2>2, LeastExists
<1>5. ReachesRank(i, rank)
  <2>1. ASSUME NEW j \in 1..i-1 PROVE Cumulative(j) < rank
    <3>1. j \in 1..9 /\ ~(i <= j)
      OBVIOUS
    <3>2. ~(Cumulative(j) >= rank)
      BY <1>4, <3>1
    <3>3. PICK count \in Nat : count = Cumulative(j)
      BY CumulativeIsNat
    <3>. QED
      BY <1>3, <3>2, <3>3
  <2>. QED
    BY <2>1 DEF ReachesRank
<1>. HIDE DEF enough
<1>. DEFINE first == CHOOSE k \in Buckets :
                /\ Cumulative(k) >= rank
                /\ \A j \in 1..k-1 : Cumulative(j) < rank
<1>6. Buckets = 1..9
  BY BoundariesGrow DEF Buckets
<1>7. ReachesRank(first, rank)
  <2>1. \E k \in Buckets :
                /\ Cumulative(k) >= rank
                /\ \A j \in 1..k-1 : Cumulative(j) < rank
    BY <1>5, <1>6 DEF ReachesRank
  <2>2. /\ first \in Buckets /\ Cumulative(first) >= rank
        /\ \A j \in 1..first-1 : Cumulative(j) < rank
    BY <2>1
  <2>. HIDE DEF first
  <2>. QED
    BY <1>6, <2>2 DEF ReachesRank
<1>8. Percentile(p) = IF first = 1 THEN 0 ELSE Boundaries[first - 1]
  BY <1>1 DEF Percentile
<1>. HIDE DEF first
<1>. QED
  BY <1>1, <1>7, <1>8 DEF ReachesRank

LEMMA RankIsInBucket ==
    ASSUME SnapshotOfSamples, NEW rank \in 1..Cardinality(counted), NEW i \in 1..9,
           ReachesRank(i, rank), NEW v \in Nat, HasRank(v, rank)
    PROVE  FindBucket(v) = i
<1>. DEFINE AtMost == {k \in counted : latencies[k] <= v}
            Under == {k \in counted : latencies[k] < v}
            InBuckets(b) == {k \in counted : FindBucket(latencies[k]) <= b}
<1>1. PICK f \in 1..9 : f = FindBucket(v)
  BY BucketOf DEF IsBucket
<1>2. rank \in Nat /\ Cardinality(Under) < rank /\ Cardinality(AtMost) >= rank
  BY SizeOfSnapshot DEF HasRank
<1>3. \A k \in counted :
        latencies[k] \in Nat /\ FindBucket(latencies[k]) \in 1..9
  <2>1. \A k \in counted : latencies[k] \in Nat
    BY SizeOfSnapshot
  <2>. QED
    BY <2>1, BucketOf DEF IsBucket
<1>4. \A b : Cumulative(b) = Cardinality(InBuckets(b)) /\ Cumulative(b) \in Nat
  BY CumulativeIsNat DEF Cumulative
<1>5. ~(f < i)
  <2>1. SUFFICES ASSUME f < i PROVE FALSE
    OBVIOUS
  <2>2. ASSUME NEW k \in counted, latencies[k] <= v
        PROVE  FindBucket(latencies[k]) <= f
    <3>1. PICK w \in Nat, b \in 1..9 : w = latencies[k] /\ b = FindBucket(w)
      BY <1>3
    <3>2. ~(f < b)
      BY <1>1, <2>2, <3>1, BucketsGrow
    <3>. QED
      BY <3>1, <3>2
  <2>3. AtMost \subseteq InBuckets(f) /\ InBuckets(f) \subseteq counted
    BY <2>2
  <2>. HIDE DEF AtMost, Under, InBuckets
  <2>4. Cardinality(AtMost) <= Cumulative(f) /\ Cardinality(AtMost) \in Nat
    BY <1>4, <2>3, CountsAreNat
  <2>5. f \in 1..i-1
    BY <2>1
  <2>6. Cumulative(f) < rank
    BY <2>5 DEF ReachesRank
  <2>. QED
    BY <1>2, <1>4, <2>4, <2>6
<1>6. ~(i < f)
  <2>1. SUFFICES ASSUME i < f PROVE FALSE
    OBVIOUS
  <2>2. ASSUME NEW k \in counted, FindBucket(latencies[k]) <= i
        PROVE  latencies[k] < v
    <3>1. PICK w \in Nat, b \in 1..9 : w = latencies[k] /\ b = FindBucket(w)
      BY <1>3
    <3>2. b < f
      BY <2>1, <2>2, <3>1
    <3>. QED
      BY <1>1, <3>1, <3>2, BucketsGrow
  <2>3. InBuckets(i) \subseteq Under /\ Under \subseteq counted
    BY <2>2
  <2>. HIDE DEF AtMost, Under, InBuckets
  <2>4. Cumulative(i) <= Cardinality(Under) /\ Cardinality(Under) \in Nat
    BY <1>4, <2>3, CountsAreNat
  <2>5. Cumulative(i) >= rank
    BY DEF ReachesRank
  <2>. QED
    BY <1>2, <1>4, <2>4, <2>5
<1>. QED
  BY <1>1, <1>5, <1>6

LEMMA PercentileFits ==
    ASSUME SnapshotOfSamples, counted # {}, NEW p \in {1, 50, 95, 99}
    PROVE  /\ Ranked(Target(p)) >= Percentile(p)
           /\ FindBucket(Ranked(Target(p))) = FindBucket(Percentile(p))
<1>1. PICK rank \in 1..Cardinality(counted) : rank = Target(p)
  BY TargetIsRank
<1>2. PICK v \in Nat : v = Ranked(rank) /\ HasRank(v, rank)
  BY RankExists
<1>3. PICK i \in 1..9 : /\ ReachesRank(i, rank)
                        /\ Percentile(p) = IF i = 1 THEN 0 ELSE Boundaries[i - 1]
  <2>1. PICK i \in 1..9 : /\ ReachesRank(i, Target(p))
                          /\ Percentile(p) = IF i = 1 THEN 0 ELSE Boundaries[i - 1]
    BY BucketIsReached
  <2>2. ReachesRank(i, rank)
    BY <1>1, <2>1
  <2>. QED
    BY <2>1, <2>2
<1>4. FindBucket(v) = i
  <2>1. ReachesRank(i, rank)
    BY <1>3
  <2>. QED
    BY <1>2, <2>1, RankIsInBucket
<1>5. IsBucket(v, i)
  BY <1>4, BucketOf
<1>6. CASE i = 1
  <2>1. Percentile(p) = 0 /\ v >= 0
    BY <1>3, <1>6
  <2>2. IsBucket(0, 1)
    BY BoundariesGrow DEF IsBucket
  <2>3. FindBucket(0) = 1
    BY <2>2, BucketIsUnique
  <2>. QED
    BY <1>1, <1>2, <1>4, <1>6, <2>1, <2>3
<1>7. CASE i # 1
  <2>1. i - 1 \in 1..8 /\ i - 1 \in 1..i-1
    BY <1>7
  <2>2. PICK edge \in Nat : edge = Boundaries[i - 1]
    BY <2>1, BoundariesGrow
  <2>3. Percentile(p) = edge /\ v >= edge
    BY <1>3, <1>5, <1>7, <2>1, <2>2 DEF IsBucket
  <2>4. ASSUME NEW j \in 1..i-1 PROVE edge >= Boundaries[j]
    <3>1. j \in 1..8 /\ (j = i - 1 \/ j < i - 1)
      BY <2>1
    <3>2. Boundaries[j] \in Nat
      BY <3>1, BoundariesGrow
    <3>3. j < i - 1 => Boundaries[j] < Boundaries[i - 1]
      BY <2>1, <3>1, BoundariesGrow
    <3>. QED
      BY <2>2, <3>1, <3>2, <3>3
  <2>5. ASSUME i <= 8 PROVE edge < Boundaries[i]
    <3>1. i \in 1..8 /\ i - 1 < i
      BY <2>5
    <3>. QED
      BY <2>1, <2>2, <3>1, BoundariesGrow
  <2>6. IsBucket(edge, i)
    BY <2>4, <2>5 DEF IsBucket
  <2>7. FindBucket(edge) = i
    BY <2>6, BucketIsUnique
  <2>. QED
    BY <1>1, <1>2, <1>4, <2>3, <2>7
<1>. QED
  BY <1>6, <1>7

(* However many samples are recorded, and while the snapshot is taken: a   *)
(* percentile read off its bucket counters is a lower bound of the sample  *)
(* of that rank, and in its bucket, among samples that include all those   *)
(* recorded before the snapshot began.                                     *)
THEOREM PercentilesAreTight == Spec => []PercentileIsTight
<1>1. HistogramInit => HistogramInv
  BY EmptySeq, BoundariesGrow DEF HistogramInit, HistogramInv
<1>2. HistogramInv => PercentileIsTight
  <2>. SUFFICES ASSUME HistogramInv, SnapshotDone
                PROVE  /\ 1..began \subseteq counted
                       /\ counted # {} => \A p \in {1, 50, 95, 99} :
                            /\ Ranked(Target(p)) >= Percentile(p)
                            /\ FindBucket(Ranked(Target(p))) = FindBucket(Percentile(p))
    BY DEF PercentileIsTight
  <2>1. PICK len \in Nat : /\ len = Len(latencies) /\ DOMAIN latencies = 1..len
                          /\ \A k \in 1..len : latencies[k] \in Samples
    BY LenProperties, ElementOfSeq DEF HistogramInv
  <2>2. latencies \in [1..len -> Nat]
    BY <2>1, HistogramAssumption, LenProperties DEF HistogramInv
  <2>3. SnapshotOfSamples
    BY <2>2, FunctionIsSeq DEF HistogramInv, SnapshotOfSamples
  <2>4. ASSUME NEW k \in 1..began PROVE k \in counted
    <3>1. k \in 1..len
      BY <2>1 DEF HistogramInv
    <3>2. PICK b \in 1..9 : b = FindBucket(latencies[k])
      BY <2>2, <3>1, BucketOf DEF IsBucket
    <3>3. loading = 10
      BY BoundariesGrow DEF SnapshotDone
    <3>. QED
      BY <3>2, <3>3 DEF HistogramInv
  <2>. QED
    BY <2>3, <2>4, PercentileFits
<1>. QED
  BY <1>1, <1>2, HistogramStep, HistogramView, PTL

---------------------------------------------------------------------------
(* Backups *)

Records == [timestamp : Nat \ {0}]
BackupTasks == BackupCallers \cup {Schedule}

LaterThan(S, b) == {c \in S : Later(c, b)}

(* The latest records of a finite set, by how many are later: two records  *)
(* are not of one rank, so that there is one of each rank.                 *)
LEMMA LaterCount ==
    ASSUME NEW S, IsFiniteSet(S), NEW b
    PROVE  /\ IsFiniteSet(LaterThan(S, b)) /\ Cardinality(LaterThan(S, b)) \in Nat
<1>1. LaterThan(S, b) \subseteq S
  BY DEF LaterThan
<1>2. IsFiniteSet(LaterThan(S, b))
  BY <1>1, FS_Subset
<1>. QED
  BY <1>2, FS_CardinalityType

LEMMA RanksDiffer ==
    ASSUME NEW S, S \subseteq Records, IsFiniteSet(S), NEW a \in S, NEW b \in S, Later(a, b)
    PROVE  Cardinality(LaterThan(S, a)) < Cardinality(LaterThan(S, b))
<1>. DEFINE A == LaterThan(S, a)
            B == LaterThan(S, b)
<1>1. \A c \in Records : c.timestamp \in Nat
  BY DEF Records
<1>2. A \subseteq B
  BY <1>1 DEF LaterThan, Later
<1>3. a \in B /\ a \notin A
  BY <1>1 DEF LaterThan, Later
<1>4. IsFiniteSet(B) /\ Cardinality(B) \in Nat /\ Cardinality(A) \in Nat
  BY LaterCount
<1>. HIDE DEF A, B
<1>5. Cardinality(A) <= Cardinality(B) /\ Cardinality(A) # Cardinality(B)
  BY <1>2, <1>3, <1>4, FS_Subset
<1>. QED
  BY <1>4, <1>5 DEF A, B

LEMMA SameTime ==
    ASSUME NEW a \in Records, NEW b \in Records, ~Later(a, b), ~Later(b, a)
    PROVE  a = b
<1>1. a.timestamp \in Nat /\ b.timestamp \in Nat
  BY DEF Records
<1>2. a.timestamp = b.timestamp
  BY <1>1 DEF Later
<1>3. a = [timestamp |-> a.timestamp] /\ b = [timestamp |-> b.timestamp]
  BY DEF Records
<1>. QED
  BY <1>2, <1>3

LEMMA OneOfARank ==
    ASSUME NEW S, S \subseteq Records, IsFiniteSet(S), NEW a \in S, NEW b \in S,
           Cardinality(LaterThan(S, a)) = Cardinality(LaterThan(S, b))
    PROVE  a = b
<1>1. PICK n \in Nat : n = Cardinality(LaterThan(S, a)) /\ n = Cardinality(LaterThan(S, b))
  BY LaterCount
<1>2. ~Later(a, b) /\ ~Later(b, a)
  BY <1>1, RanksDiffer
<1>. QED
  BY <1>2, SameTime

LEMMA RankIsLess ==
    ASSUME NEW S, S \subseteq Records, IsFiniteSet(S), NEW b \in S
    PROVE  Cardinality(LaterThan(S, b)) \in 0..Cardinality(S)-1
<1>. DEFINE B == LaterThan(S, b)
<1>1. b \notin B /\ B \subseteq S
  <2>1. b.timestamp \in Nat
    BY DEF Records
  <2>. QED
    BY <2>1 DEF LaterThan, Later
<1>2. Cardinality(B) \in Nat /\ Cardinality(S) \in Nat
  BY LaterCount, FS_CardinalityType
<1>. HIDE DEF B
<1>3. Cardinality(B) <= Cardinality(S) /\ Cardinality(B) # Cardinality(S)
  BY <1>1, FS_Subset
<1>4. Cardinality(B) \in 0..Cardinality(S)-1
  BY <1>2, <1>3
<1>. QED
  BY <1>4 DEF B

LEMMA EveryRank ==
    ASSUME NEW S, S \subseteq Records, IsFiniteSet(S), NEW i \in 1..Cardinality(S)
    PROVE  \E r \in S : Cardinality(LaterThan(S, r)) = i - 1
<1>1. PICK n \in Nat : n = Cardinality(S)
  BY FS_CardinalityType
<1>. DEFINE T == 0..n-1
            f == [r \in S |-> Cardinality(LaterThan(S, r))]
<1>2. \A r \in S : Cardinality(LaterThan(S, r)) \in T
  BY <1>1, RankIsLess
<1>3. f \in [S -> T]
  BY <1>2
<1>4. \A a, b \in S : f[a] = f[b] => a = b
  BY OneOfARank
<1>5. IsFiniteSet(T) /\ Cardinality(T) = n
  <2>1. Cardinality(T) = IF 0 > n - 1 THEN 0 ELSE n - 1 - 0 + 1
    BY FS_Interval
  <2>. QED
    BY <2>1, FS_Interval
<1>. HIDE DEF T, f
<1>6. f \in Injection(S, T)
  BY <1>3, <1>4 DEF Injection, IsInjective
<1>7. f \in Surjection(S, T)
  BY <1>1, <1>5, <1>6, FS_Injection
<1>8. i - 1 \in T
  BY <1>1 DEF T
<1>9. \E r \in S : f[r] = i - 1
  BY <1>7, <1>8 DEF Surjection
<1>. QED
  BY <1>9 DEF f

(* Sorting records that differ: the i-th has i - 1 later ones.             *)
AllDiffer(q) == \A i, j \in 1..Len(q) : i # j => q[i] # q[j]

LEMMA RangeFacts ==
    ASSUME NEW q \in Seq(Records), AllDiffer(q)
    PROVE  /\ Range(q) = {q[i] : i \in 1..Len(q)} /\ Range(q) \subseteq Records
           /\ IsFiniteSet(Range(q)) /\ Cardinality(Range(q)) = Len(q)
<1>1. PICK n \in Nat : n = Len(q) /\ DOMAIN q = 1..n /\ \A i \in 1..n : q[i] \in Records
  BY LenProperties, ElementOfSeq
<1>. DEFINE S == Range(q)
<1>2. S = {q[i] : i \in 1..n}
  BY <1>1 DEF Range
<1>3. S \subseteq Records
  BY <1>1, <1>2
<1>. HIDE DEF S
<1>4. q \in Bijection(1..n, S)
  <2>1. q \in [1..n -> S]
    <3>1. q = [i \in 1..n |-> q[i]]
      BY <1>1, LenProperties
    <3>2. \A i \in 1..n : q[i] \in S
      BY <1>2
    <3>. QED
      BY <3>1, <3>2
  <2>2. \A i, j \in 1..n : q[i] = q[j] => i = j
    BY <1>1 DEF AllDiffer
  <2>3. \A r \in S : \E i \in 1..n : q[i] = r
    BY <1>2
  <2>. QED
    BY <2>1, <2>2, <2>3 DEF Bijection, Injection, Surjection, IsInjective
<1>5. ExistsBijection(1..n, S)
  BY <1>4 DEF ExistsBijection
<1>6. IsFiniteSet(S) /\ Cardinality(S) = n
  BY <1>5, FS_NatBijection, FS_CountingElements
<1>. QED
  BY <1>1, <1>2, <1>3, <1>6 DEF S

LEMMA SortFacts ==
    ASSUME NEW q \in Seq(Records), AllDiffer(q)
    PROVE  /\ NewestFirst(q) \in Seq(Records) /\ Len(NewestFirst(q)) = Len(q)
           /\ \A i \in 1..Len(q) :
                /\ NewestFirst(q)[i] \in Range(q)
                /\ Cardinality(LaterThan(Range(q), NewestFirst(q)[i])) = i - 1
<1>1. PICK n \in Nat : n = Len(q) /\ DOMAIN q = 1..n
  BY LenProperties
<1>2. PICK S : /\ S = Range(q) /\ S \subseteq Records /\ IsFiniteSet(S) /\ Cardinality(S) = n
  BY <1>1, RangeFacts
<1>. DEFINE sorted == NewestFirst(q)
<1>3. sorted = [i \in 1..n |-> CHOOSE r \in S : Cardinality(LaterThan(S, r)) = i - 1]
  BY <1>1, <1>2 DEF NewestFirst, LaterThan
<1>. HIDE DEF sorted
<1>4. ASSUME NEW i \in 1..n
      PROVE  sorted[i] \in S /\ Cardinality(LaterThan(S, sorted[i])) = i - 1
  <2>1. \E r \in S : Cardinality(LaterThan(S, r)) = i - 1
    BY <1>2, EveryRank
  <2>2. sorted[i] = CHOOSE r \in S : Cardinality(LaterThan(S, r)) = i - 1
    BY <1>3
  <2>. QED
    BY <2>1, <2>2
<1>5. sorted \in [1..n -> Records]
  BY <1>2, <1>3, <1>4
<1>6. sorted \in Seq(Records) /\ Len(sorted) = n
  BY <1>5, FunctionIsSeq
<1>. QED
  BY <1>1, <1>2, <1>4, <1>6 DEF sorted

(* Timestamps are given once: a record is in one hand, or was pushed.  The *)
(* history holds different records that were pushed, the newest of them.   *)
BackupTypes ==
    /\ begun \in Nat
    /\ backupTasks \in [BackupTasks -> Records \cup {NoBackup, CleaningUp}]
    /\ history \in Seq(Records)
    /\ backups \subseteq Records /\ IsFiniteSet(backups)

StampedOnce ==
    /\ \A b \in backups : b.timestamp <= begun
    /\ \A t \in BackupTasks : backupTasks[t] \in Records =>
         /\ backupTasks[t].timestamp <= begun /\ backupTasks[t] \notin backups
         /\ \A u \in BackupTasks : u # t => backupTasks[u] # backupTasks[t]

HistoryIsPushed ==
    AllDiffer(history) /\ \A i \in 1..Len(history) : history[i] \in backups

BackupInv == BackupTypes /\ StampedOnce /\ HistoryIsPushed /\ NewestBackupsAreKept

LEMMA NotRecords == NoBackup \notin Records /\ CleaningUp \notin Records /\ NoBackup # CleaningUp
<1>1. NoBackup.timestamp = 0 /\ CleaningUp.timestamp = -1
  BY DEF NoBackup, CleaningUp
<1>2. \A r \in Records : r.timestamp \in Nat \ {0}
  BY DEF Records
<1>. QED
  BY <1>1, <1>2

LEMMA BackupStart == BackupInit => BackupInv
<1>. SUFFICES ASSUME BackupInit PROVE BackupInv
  OBVIOUS
<1>1. /\ history = <<>> /\ backups = {} /\ begun = 0
      /\ \A t \in BackupTasks : backupTasks[t] = NoBackup
  BY DEF BackupInit, BackupTasks
<1>2. BackupTypes
  <2>1. backupTasks \in [BackupTasks -> Records \cup {NoBackup, CleaningUp}]
    BY DEF BackupInit, BackupTasks
  <2>2. history \in Seq(Records) /\ IsFiniteSet(backups)
    BY <1>1, EmptySeq, FS_EmptySet
  <2>. QED
    BY <1>1, <2>1, <2>2 DEF BackupTypes
<1>3. Len(history) = 0
  BY <1>1, EmptySeq
<1>. QED
  BY <1>1, <1>2, <1>3, NotRecords
  DEF BackupInv, StampedOnce, HistoryIsPushed, AllDiffer, NewestBackupsAreKept

LEMMA NameBackupInv ==
    ASSUME BackupInv, NEW t \in BackupTasks, NameBackup(t) PROVE BackupInv'
<1>. DEFINE r == [timestamp |-> begun + 1]
<1>1. /\ backupTasks[t] = NoBackup /\ begun' = begun + 1
      /\ backupTasks' = [backupTasks EXCEPT ![t] = r]
      /\ history' = history /\ backups' = backups
  BY DEF NameBackup
<1>2. BackupTypes /\ StampedOnce
  BY DEF BackupInv
<1>3. begun \in Nat /\ r \in Records /\ r.timestamp = begun + 1
  BY <1>2 DEF BackupTypes, Records
<1>. HIDE DEF r
<1>4. \A b \in Records : b.timestamp \in Nat /\ (b.timestamp <= begun => b # r)
  BY <1>3 DEF Records
<1>5. \A u \in BackupTasks : backupTasks'[u] = IF u = t THEN r ELSE backupTasks[u]
  BY <1>1, <1>2 DEF BackupTypes
<1>6. BackupTypes'
  BY <1>1, <1>2, <1>3 DEF BackupTypes
<1>7. ASSUME NEW b \in backups' PROVE b.timestamp <= begun' /\ b # r
  <2>1. b \in Records /\ b.timestamp <= begun
    BY <1>1, <1>2 DEF BackupTypes, StampedOnce
  <2>. QED
    BY <1>1, <1>3, <1>4, <2>1
<1>8. ASSUME NEW u \in BackupTasks, u # t, backupTasks[u] \in Records
      PROVE  backupTasks[u] # r /\ backupTasks[u].timestamp <= begun'
  <2>1. backupTasks[u].timestamp <= begun
    BY <1>2, <1>8 DEF StampedOnce
  <2>. QED
    BY <1>1, <1>3, <1>4, <1>8, <2>1
<1>9. ASSUME NEW u \in BackupTasks, backupTasks'[u] \in Records
      PROVE  /\ backupTasks'[u].timestamp <= begun' /\ backupTasks'[u] \notin backups'
             /\ \A w \in BackupTasks : w # u => backupTasks'[w] # backupTasks'[u]
  <2>1. CASE u = t
    <3>1. ASSUME NEW w \in BackupTasks, w # t PROVE backupTasks[w] # r
      BY <1>3, <1>8, <3>1
    <3>2. r.timestamp <= begun'
      BY <1>1, <1>3
    <3>. QED
      BY <1>5, <1>7, <2>1, <3>1, <3>2
  <2>2. CASE u # t
    <3>1. backupTasks'[u] = backupTasks[u] /\ backupTasks[u] \in Records
      BY <1>5, <1>9, <2>2
    <3>2. backupTasks[u] \notin backups' /\ backupTasks[u] # r /\ backupTasks[u].timestamp <= begun'
      BY <1>1, <1>2, <1>8, <2>2, <3>1 DEF StampedOnce
    <3>3. \A w \in BackupTasks : w # u => backupTasks[w] # backupTasks[u]
      BY <1>2, <3>1 DEF StampedOnce
    <3>. QED
      BY <1>5, <3>1, <3>2, <3>3
  <2>. QED
    BY <2>1, <2>2
<1>10. StampedOnce'
  BY <1>7, <1>9 DEF StampedOnce
<1>11. HistoryIsPushed' /\ NewestBackupsAreKept'
  BY <1>1 DEF BackupInv, HistoryIsPushed, NewestBackupsAreKept
<1>. QED
  BY <1>6, <1>10, <1>11 DEF BackupInv

LEMMA PushBackupInv ==
    ASSUME BackupInv, NEW t \in BackupTasks, PushBackup(t) PROVE BackupInv'
<1>. DEFINE r == backupTasks[t]
<1>1. /\ r \notin {NoBackup, CleaningUp}
      /\ history' = Append(history, r) /\ backups' = backups \cup {r}
      /\ backupTasks' = [backupTasks EXCEPT ![t] = CleaningUp] /\ begun' = begun
  BY DEF PushBackup
<1>2. BackupTypes /\ StampedOnce /\ HistoryIsPushed /\ NewestBackupsAreKept
  BY DEF BackupInv
<1>3. r \in Records
  BY <1>1, <1>2 DEF BackupTypes
<1>4. /\ r.timestamp <= begun /\ r \notin backups
      /\ \A u \in BackupTasks : u # t => backupTasks[u] # r
  BY <1>2, <1>3 DEF StampedOnce
<1>5. \A u \in BackupTasks : backupTasks'[u] = IF u = t THEN CleaningUp ELSE backupTasks[u]
  BY <1>1, <1>2 DEF BackupTypes
<1>6. history \in Seq(Records) /\ IsFiniteSet(backups) /\ backups \subseteq Records
  BY <1>2 DEF BackupTypes
<1>. HIDE DEF r
<1>7. /\ Len(history) \in Nat /\ history' \in Seq(Records) /\ Len(history') = Len(history) + 1
      /\ history'[Len(history) + 1] = r
      /\ \A i \in 1..Len(history) : history'[i] = history[i]
      /\ \A i \in 1..Len(history') :
           \/ i \in 1..Len(history) /\ history'[i] = history[i]
           \/ i = Len(history) + 1 /\ history'[i] = r
  BY <1>1, <1>3, <1>6, AppendFacts
<1>8. BackupTypes'
  <2>1. IsFiniteSet(backups') /\ backups' \subseteq Records
    BY <1>1, <1>3, <1>6, FS_AddElement
  <2>. QED
    BY <1>1, <1>2, <1>7, <2>1 DEF BackupTypes
<1>9. StampedOnce'
  BY <1>1, <1>2, <1>4, <1>5, NotRecords DEF StampedOnce
<1>10. HistoryIsPushed'
  <2>1. \A i \in 1..Len(history) : history[i] \in backups /\ history[i] # r
    BY <1>2, <1>4 DEF HistoryIsPushed
  <2>2. \A i \in 1..Len(history') : history'[i] \in backups'
    BY <1>1, <1>7, <2>1
  <2>3. AllDiffer(history)
    BY <1>2 DEF HistoryIsPushed
  <2>4. ASSUME NEW i \in 1..Len(history'), NEW j \in 1..Len(history'), i # j
        PROVE  history'[i] # history'[j]
    BY <1>7, <2>1, <2>3, <2>4 DEF AllDiffer
  <2>. QED
    BY <2>2, <2>4 DEF HistoryIsPushed, AllDiffer
<1>11. ASSUME NEW b \in backups', Cardinality(LaterThan(backups', b)) < Retention
       PROVE  Contains(history', b)
  <2>1. CASE b = r
    <3>1. Len(history) + 1 \in 1..Len(history')
      BY <1>7
    <3>. QED
      BY <1>7, <2>1, <3>1 DEF Contains
  <2>2. CASE b # r
    <3>1. b \in backups
      BY <1>1, <2>2
    <3>2. LaterThan(backups, b) \subseteq LaterThan(backups', b)
      BY <1>1 DEF LaterThan
    <3>3. IsFiniteSet(backups')
      BY <1>8 DEF BackupTypes
    <3>4. PICK m \in Nat, n \in Nat : /\ m = Cardinality(LaterThan(backups, b))
                                      /\ n = Cardinality(LaterThan(backups', b))
      BY <1>6, <3>3, LaterCount
    <3>5. m <= n
      <4>1. IsFiniteSet(LaterThan(backups', b))
        BY <3>3, LaterCount
      <4>. QED
        BY <3>2, <3>4, <4>1, FS_Subset
    <3>6. n < Retention
      BY <1>11, <3>4
    <3>7. m < Retention
      BY <3>5, <3>6, DeploymentAssumption
    <3>8. Contains(history, b)
      BY <1>2, <3>1, <3>4, <3>7 DEF NewestBackupsAreKept, LaterThan
    <3>9. PICK i \in 1..Len(history) : history[i] = b
      BY <3>8 DEF Contains
    <3>10. i \in 1..Len(history') /\ history'[i] = b
      BY <1>7, <3>9
    <3>. QED
      BY <3>10 DEF Contains
  <2>. QED
    BY <2>1, <2>2
<1>12. NewestBackupsAreKept'
  BY <1>11 DEF NewestBackupsAreKept, LaterThan
<1>. QED
  BY <1>8, <1>9, <1>10, <1>12 DEF BackupInv

LEMMA CleanupInv ==
    ASSUME BackupInv, NEW t \in BackupTasks, CleanupOldBackups(t) PROVE BackupInv'
<1>1. /\ backupTasks' = [backupTasks EXCEPT ![t] = NoBackup]
      /\ backups' = backups /\ begun' = begun
      /\ history' =
           IF Len(history) > Retention THEN Kept(NewestFirst(history)) ELSE history
  BY DEF CleanupOldBackups
<1>2. BackupTypes /\ StampedOnce /\ HistoryIsPushed /\ NewestBackupsAreKept
  BY DEF BackupInv
<1>3. StampedOnce'
  <2>1. \A u \in BackupTasks : backupTasks'[u] = IF u = t THEN NoBackup ELSE backupTasks[u]
    BY <1>1, <1>2 DEF BackupTypes
  <2>. QED
    BY <1>1, <1>2, <2>1, NotRecords DEF StampedOnce
<1>4. backupTasks' \in [BackupTasks -> Records \cup {NoBackup, CleaningUp}]
  BY <1>1, <1>2 DEF BackupTypes
<1>5. CASE ~(Len(history) > Retention)
  <2>1. history' = history
    BY <1>1, <1>5
  <2>2. BackupTypes'
    BY <1>1, <1>2, <1>4, <2>1 DEF BackupTypes
  <2>3. HistoryIsPushed' /\ NewestBackupsAreKept'
    BY <1>1, <1>2, <2>1 DEF HistoryIsPushed, NewestBackupsAreKept
  <2>. QED
    BY <1>3, <2>2, <2>3 DEF BackupInv
<1>6. CASE Len(history) > Retention
  <2>. DEFINE sorted == NewestFirst(history)
              S == Range(history)
  <2>1. /\ history \in Seq(Records) /\ AllDiffer(history)
        /\ backups \subseteq Records /\ IsFiniteSet(backups)
    BY <1>2 DEF BackupTypes, HistoryIsPushed
  <2>2. /\ S = {history[i] : i \in 1..Len(history)} /\ S \subseteq Records /\ IsFiniteSet(S)
    BY <2>1, RangeFacts
  <2>3. S \subseteq backups
    BY <1>2, <2>2 DEF HistoryIsPushed
  <2>4. PICK n \in Nat : n = Len(history) /\ Retention < n /\ Retention \in Nat
    BY <1>6, <2>1, LenProperties, DeploymentAssumption
  <2>5. /\ sorted \in Seq(Records) /\ Len(sorted) = n
        /\ \A i \in 1..n : sorted[i] \in S /\ Cardinality(LaterThan(S, sorted[i])) = i - 1
    BY <2>1, <2>4, SortFacts
  <2>6. history' = SubSeq(sorted, 1, Retention)
    BY <1>1, <1>6 DEF Kept
  <2>. HIDE DEF sorted, S
  <2>7. /\ history' \in Seq(Records) /\ Len(history') = Retention
        /\ \A i \in 1..Retention : history'[i] = sorted[i]
    <3>1. Retention \in Int /\ 1 >= 1 /\ Retention <= Len(sorted) /\ 1 <= Retention + 1
      BY <2>4, <2>5
    <3>2. /\ history' \in Seq(Records) /\ Len(history') = Retention - 1 + 1
          /\ \A i \in 1..Retention - 1 + 1 : history'[i] = sorted[1 + i - 1]
      BY <2>5, <2>6, <3>1, CutFacts
    <3>3. Retention - 1 + 1 = Retention /\ \A i \in 1..Retention : 1 + i - 1 = i
      BY <2>4
    <3>. QED
      BY <3>2, <3>3
  <2>8. BackupTypes'
    BY <1>1, <1>2, <1>4, <2>7 DEF BackupTypes
  <2>9. \A i \in 1..Retention : i \in 1..n
    BY <2>4
  <2>10. HistoryIsPushed'
    <3>1. ASSUME NEW i \in 1..Retention, NEW j \in 1..Retention, i # j
          PROVE  sorted[i] # sorted[j]
      <4>1. i - 1 # j - 1
        BY <3>1
      <4>. QED
        BY <2>5, <2>9, <4>1
    <3>. QED
      BY <1>1, <2>3, <2>5, <2>7, <2>9, <3>1 DEF HistoryIsPushed, AllDiffer
  <2>11. ASSUME NEW b \in backups', Cardinality(LaterThan(backups', b)) < Retention
         PROVE  Contains(history', b)
    <3>1. b \in backups /\ Cardinality(LaterThan(backups, b)) < Retention
      BY <1>1, <2>11
    <3>2. Contains(history, b)
      BY <1>2, <3>1 DEF NewestBackupsAreKept, LaterThan
    <3>3. b \in S
      BY <2>2, <3>2 DEF Contains
    <3>4. PICK m \in Nat, l \in Nat : /\ m = Cardinality(LaterThan(S, b))
                                      /\ l = Cardinality(LaterThan(backups, b))
      BY <2>1, <2>2, LaterCount
    <3>5. m <= l
      <4>1. IsFiniteSet(LaterThan(backups, b)) /\ LaterThan(S, b) \subseteq LaterThan(backups, b)
        BY <2>1, <2>3, LaterCount DEF LaterThan
      <4>. QED
        BY <3>4, <4>1, FS_Subset
    <3>6. l < Retention
      BY <3>1, <3>4
    <3>7. m + 1 \in 1..Retention /\ m + 1 - 1 = m
      BY <2>4, <3>5, <3>6
    <3>8. sorted[m + 1] \in S /\ Cardinality(LaterThan(S, sorted[m + 1])) = m
      BY <2>5, <2>9, <3>7
    <3>9. sorted[m + 1] = b
      BY <2>2, <3>3, <3>4, <3>8, OneOfARank
    <3>10. m + 1 \in 1..Len(history') /\ history'[m + 1] = b
      BY <2>7, <3>7, <3>9
    <3>. QED
      BY <3>10 DEF Contains
  <2>12. NewestBackupsAreKept'
    BY <2>11 DEF NewestBackupsAreKept, LaterThan
  <2>. QED
    BY <1>3, <2>8, <2>10, <2>12 DEF BackupInv
<1>. QED
  BY <1>5, <1>6

LEMMA BackupStep == BackupInv /\ [BackupNext]_backupVars => BackupInv'
<1>. SUFFICES ASSUME BackupInv, [BackupNext]_backupVars PROVE BackupInv'
  OBVIOUS
<1>1. CASE UNCHANGED backupVars
  BY <1>1 DEF backupVars, BackupInv, BackupTypes, StampedOnce, HistoryIsPushed,
     NewestBackupsAreKept
<1>2. CASE BackupNext
  BY <1>2, NameBackupInv, PushBackupInv, CleanupInv DEF BackupNext, BackupTasks
<1>. QED
  BY <1>1, <1>2

(* However many tasks make backups and in whatever order their records are *)
(* pushed and cleaned up, the newest, as many as are retained, stay in the *)
(* history.                                                                *)
THEOREM BackupsAreRetained == Spec => []NewestBackupsAreKept
<1>1. BackupInv => NewestBackupsAreKept
  BY DEF BackupInv
<1>. QED
  BY <1>1, BackupStart, BackupStep, BackupView, PTL

=============================================================================
