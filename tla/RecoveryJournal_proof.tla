----------------------- MODULE RecoveryJournal_proof ------------------------
(***************************************************************************)
(* The file operations of persist_journal, for every set of process        *)
(* identifiers and every capacity: the file is never torn, no change that  *)
(* fails half way undoes an earlier one, and the operations together do    *)
(* what JournalSet says they do.                                           *)
(***************************************************************************)
EXTENDS RecoveryJournal, FiniteSetTheorems, TLAPS

Changing == {"create", "write", "flush", "move", "discard", "delete"}

(* While a change is under way it is about one record, which has been      *)
(* added already or taken out already; identifiers occur once; and what    *)
(* will be moved into place is complete.                                   *)
FileInv ==
  /\ TypeOK
  /\ IsFiniteSet(records)
  /\ \A rec1, rec2 \in records : rec1.pid = rec2.pid => rec1 = rec2
  /\ stage \notin Changing => change = {} /\ adding = FALSE
  /\ stage = "down" => records = {}
  /\ stage \in Changing =>
       \E rec \in BgRecoveryRecord :
         /\ change = {rec}
         /\ adding => rec \in records
         /\ ~adding => \A other \in records : other.pid # rec.pid
  /\ stage = "delete" => records = {} /\ ~adding
  /\ stage = "discard" => Fails
  /\ stage \in {"flush", "move"} => temporary_file = Whole(records)
  /\ journal_file.kind # "torn"
  /\ journal_file.kind = "missing" => journal_file.content = {}

LEMMA FilesAreFiles ==
  /\ Missing \in File /\ Torn \in File
  /\ \A recs \in SUBSET BgRecoveryRecord : Whole(recs) \in File
  BY DEF Missing, Torn, Whole, File

(* A change that failed: back to the records before it when it added one.  *)
LEMMA FailureKeeps ==
  ASSUME FileInv, stage \in Changing, PersistFailed
  PROVE  /\ stage' = "idle" /\ change' = {} /\ adding' = FALSE
         /\ records' \subseteq records
         /\ records' \subseteq BgRecoveryRecord
         /\ IsFiniteSet(records')
         /\ Cardinality(records') <= MaxRecords
         /\ \A rec1, rec2 \in records' : rec1.pid = rec2.pid => rec1 = rec2
<1>1. /\ stage' = "idle" /\ change' = {} /\ adding' = FALSE
      /\ records' \subseteq records
  BY DEF PersistFailed, Returns
<1>2. /\ records \subseteq BgRecoveryRecord
      /\ IsFiniteSet(records)
      /\ Cardinality(records) <= MaxRecords
      /\ \A rec1, rec2 \in records : rec1.pid = rec2.pid => rec1 = rec2
  BY DEF FileInv, TypeOK
<1>3. IsFiniteSet(records') /\ Cardinality(records') <= Cardinality(records)
  BY <1>1, <1>2, FS_Subset
<1>4. Cardinality(records') \in Nat /\ Cardinality(records) \in Nat
  BY <1>2, <1>3, FS_CardinalityType
<1> QED
  BY <1>1, <1>2, <1>3, <1>4, BoundAssumption

LEMMA InitKeeps ==
  ASSUME FileInv, bg_recovery_journal_init
  PROVE  FileInv'
<1>1. Cardinality({}) = 0 /\ IsFiniteSet({})
  BY FS_EmptySet
<1>2. /\ stage' = "idle" /\ records' = {} /\ change' = {} /\ adding' = FALSE
      /\ journal_file' \in {Missing, journal_file}
      /\ UNCHANGED <<temporary_file, reading>>
  BY DEF bg_recovery_journal_init, Returns, DeleteJournalFile
<1>3. Cardinality(records') <= MaxRecords /\ IsFiniteSet(records')
  BY <1>1, <1>2, BoundAssumption
<1>4. TypeOK'
  BY <1>2, <1>3, FilesAreFiles DEF FileInv, TypeOK, JournalStages
<1> QED
  BY <1>2, <1>3, <1>4 DEF FileInv, Changing, Missing

LEMMA RegisterKeeps ==
  ASSUME FileInv, NEW rec \in BgRecoveryRecord, RegisterBegins(rec)
  PROVE  FileInv'
<1>1. /\ stage' = "create" /\ change' = {rec} /\ adding' = TRUE
      /\ records' = records \cup {rec}
      /\ rec.pid \notin PidsOf(records)
      /\ Cardinality(records) < MaxRecords
      /\ UNCHANGED <<journal_file, temporary_file, reading>>
  BY DEF RegisterBegins, fileVars
<1>2. IsFiniteSet(records) /\ Cardinality(records) \in Nat
  BY FS_CardinalityType DEF FileInv
<1>3. /\ IsFiniteSet(records')
      /\ Cardinality(records') <= Cardinality(records) + 1
      /\ Cardinality(records') \in Nat
  <2>1. /\ IsFiniteSet(records \cup {rec})
        /\ Cardinality(records \cup {rec})
             = IF rec \in records THEN Cardinality(records)
                                  ELSE Cardinality(records) + 1
    BY <1>2, FS_AddElement
  <2>2. records' = records \cup {rec}
    BY <1>1
  <2> QED
    BY <1>2, <2>1, <2>2
<1>4. Cardinality(records') <= MaxRecords
  BY <1>1, <1>2, <1>3, BoundAssumption
<1>5. TypeOK'
  BY <1>1, <1>4 DEF FileInv, TypeOK, JournalStages
<1>6. \A other \in records : other.pid # rec.pid
  BY <1>1 DEF PidsOf
<1> QED
  BY <1>1, <1>3, <1>5, <1>6 DEF FileInv, Changing

LEMMA UnregisterKeeps ==
  ASSUME FileInv, NEW rec \in BgRecoveryRecord, UnregisterBegins(rec)
  PROVE  FileInv'
<1>1. /\ stage' \in {"create", "delete"} /\ change' = {rec} /\ adding' = FALSE
      /\ stage' = "delete" => records' = {}
      /\ rec \in records
      /\ records' = records \ {rec}
      /\ UNCHANGED <<journal_file, temporary_file, reading>>
  BY DEF UnregisterBegins, fileVars
<1>2. /\ IsFiniteSet(records)
      /\ Cardinality(records) \in Nat /\ Cardinality(records) <= MaxRecords
  BY FS_CardinalityType DEF FileInv, TypeOK
<1>3. /\ IsFiniteSet(records')
      /\ Cardinality(records') <= Cardinality(records)
      /\ Cardinality(records') \in Nat
  <2>1. /\ IsFiniteSet(records \ {rec})
        /\ Cardinality(records \ {rec}) = Cardinality(records) - 1
    BY <1>1, <1>2, FS_RemoveElement
  <2>2. Cardinality(records \ {rec}) \in Nat
    BY <2>1, FS_CardinalityType
  <2>3. records' = records \ {rec}
    BY <1>1
  <2> QED
    BY <1>2, <2>1, <2>2, <2>3
<1>4. Cardinality(records') <= MaxRecords
  BY <1>2, <1>3, BoundAssumption
<1>5. TypeOK'
  BY <1>1, <1>4 DEF FileInv, TypeOK, JournalStages
<1> QED
  BY <1>1, <1>3, <1>5 DEF FileInv, Changing

LEMMA DeleteKeeps ==
  ASSUME FileInv, DeleteEmpty
  PROVE  FileInv'
<1>1. /\ stage' = "idle" /\ change' = {} /\ adding' = FALSE
      /\ journal_file' \in {Missing, journal_file}
      /\ UNCHANGED <<records, temporary_file, reading>>
  BY DEF DeleteEmpty, Returns, DeleteJournalFile
<1>2. TypeOK'
  BY <1>1, FilesAreFiles DEF FileInv, TypeOK, JournalStages
<1> QED
  BY <1>1, <1>2 DEF FileInv, Changing, Missing

LEMMA CreateKeeps ==
  ASSUME FileInv, CreateTemporary
  PROVE  FileInv'
<1>1. stage = "create" /\ UNCHANGED <<journal_file, reading>>
  BY DEF CreateTemporary
<1>2. CASE /\ temporary_file' = Torn /\ stage' = "write"
           /\ UNCHANGED memoryVars
  <2>1. TypeOK'
    BY <1>1, <1>2, FilesAreFiles DEF FileInv, TypeOK, JournalStages, memoryVars
  <2> QED
    BY <1>1, <1>2, <2>1 DEF FileInv, Changing, memoryVars
<1>3. CASE PersistFailed /\ UNCHANGED temporary_file
  <2>1. stage \in Changing
    BY <1>1 DEF Changing
  <2>2. TypeOK'
    BY <1>1, <1>3, <2>1, FailureKeeps DEF FileInv, TypeOK, JournalStages
  <2> QED
    BY <1>1, <1>3, <2>1, <2>2, FailureKeeps DEF FileInv, Changing
<1> QED
  BY <1>2, <1>3 DEF CreateTemporary

LEMMA WriteKeeps ==
  ASSUME FileInv, WriteTemporary \/ FlushTemporary
  PROVE  FileInv'
<1>1. /\ stage \in {"write", "flush"}
      /\ stage' \in {"flush", "move", "discard"}
      /\ UNCHANGED <<records, change, adding, journal_file, reading>>
      /\ temporary_file' \in {Whole(records), temporary_file}
      /\ stage' \in {"flush", "move"} => temporary_file' = Whole(records)
      /\ stage' = "discard" => Fails
  BY DEF WriteTemporary, FlushTemporary, memoryVars, fileVars, FileInv
<1>2. TypeOK'
  BY <1>1, FilesAreFiles DEF FileInv, TypeOK, JournalStages
<1> QED
  BY <1>1, <1>2 DEF FileInv, Changing

LEMMA MoveKeeps ==
  ASSUME FileInv, MoveTemporary
  PROVE  FileInv'
<1>1. stage = "move" /\ temporary_file = Whole(records) /\ reading' = reading
  BY DEF MoveTemporary, FileInv
<1>2. CASE /\ journal_file' = temporary_file /\ temporary_file' = Missing
           /\ Returns /\ UNCHANGED records
  <2>1. TypeOK'
    BY <1>1, <1>2, FilesAreFiles DEF FileInv, TypeOK, JournalStages, Returns
  <2> QED
    BY <1>1, <1>2, <2>1 DEF FileInv, Changing, Returns, Whole
<1>3. CASE Fails /\ stage' = "discard" /\ UNCHANGED <<memoryVars, fileVars>>
  <2>1. TypeOK'
    BY <1>1, <1>3 DEF FileInv, TypeOK, JournalStages, memoryVars, fileVars
  <2> QED
    BY <1>1, <1>3, <2>1 DEF FileInv, Changing, memoryVars, fileVars
<1> QED
  BY <1>2, <1>3 DEF MoveTemporary

LEMMA DiscardKeeps ==
  ASSUME FileInv, DiscardTemporary
  PROVE  FileInv'
<1>1. /\ stage \in Changing /\ PersistFailed
      /\ temporary_file' \in {Missing, temporary_file}
      /\ UNCHANGED <<journal_file, reading>>
  BY DEF DiscardTemporary, Changing
<1>2. TypeOK'
  BY <1>1, FailureKeeps, FilesAreFiles DEF FileInv, TypeOK, JournalStages
<1> QED
  BY <1>1, <1>2, FailureKeeps DEF FileInv, Changing

LEMMA OthersKeep ==
  ASSUME FileInv, \/ GuardEnds \/ ReaderOpens \/ ReaderCloses
                  \/ RecoveryDeletes \/ UNCHANGED journalVars
  PROVE  FileInv'
<1>1. CASE GuardEnds
  <2>1. Cardinality({}) = 0 /\ IsFiniteSet({})
    BY FS_EmptySet
  <2>2. records' = {}
    BY <1>1 DEF GuardEnds
  <2>3. Cardinality(records') <= MaxRecords /\ IsFiniteSet(records')
    BY <2>1, <2>2, BoundAssumption
  <2>4. TypeOK'
    BY <1>1, <2>3 DEF GuardEnds, FileInv, TypeOK, JournalStages, fileVars
  <2> QED
    BY <1>1, <2>3, <2>4 DEF GuardEnds, FileInv, Changing, fileVars
<1>2. CASE ReaderOpens \/ ReaderCloses \/ UNCHANGED journalVars
  <2>1. UNCHANGED <<stage, records, change, adding, journal_file,
                    temporary_file>> /\ reading' \in BOOLEAN
    BY <1>2 DEF ReaderOpens, ReaderCloses, journalVars, memoryVars, fileVars,
                FileInv, TypeOK
  <2> QED
    BY <2>1 DEF FileInv, TypeOK
<1>3. CASE RecoveryDeletes
  <2>1. /\ UNCHANGED <<stage, records, change, adding, temporary_file, reading>>
        /\ journal_file' = Missing
    BY <1>3 DEF RecoveryDeletes, memoryVars
  <2> QED
    BY <2>1, FilesAreFiles DEF FileInv, TypeOK, Missing
<1> QED
  BY <1>1, <1>2, <1>3

LEMMA FileInvHolds == Spec => []FileInv
<1>1. Init => FileInv
  <2> SUFFICES ASSUME Init
               PROVE  FileInv
    OBVIOUS
  <2>1. Cardinality({}) = 0 /\ IsFiniteSet({})
    BY FS_EmptySet
  <2>2. records = {}
    BY DEF Init
  <2>3. Cardinality(records) <= MaxRecords /\ IsFiniteSet(records)
    BY <2>1, <2>2, BoundAssumption
  <2>4. TypeOK
    BY <2>3, FilesAreFiles DEF Init, TypeOK, JournalStages
  <2> QED
    BY <2>3, <2>4 DEF Init, FileInv, Missing, Changing
<1>2. FileInv /\ [Next]_journalVars => FileInv'
  BY InitKeeps, RegisterKeeps, UnregisterKeeps, DeleteKeeps, CreateKeeps,
     WriteKeeps, MoveKeeps, DiscardKeeps, OthersKeep DEF Next, persist_journal
<1> QED
  BY <1>1, <1>2, PTL DEF Spec

(* The records in memory never outgrow BG_MAX_RECOVERY_RECORDS.            *)
THEOREM JournalIsTyped == Spec => []TypeOK
<1>1. FileInv => TypeOK
  BY DEF FileInv
<1> QED
  BY <1>1, FileInvHolds, PTL

(* Whenever the guard is killed and whichever file operation fails, the    *)
(* journal file can be loaded (persist_journal).                           *)
THEOREM JournalIsNeverTorn == Spec => []NeverTorn
<1>1. FileInv => NeverTorn
  BY DEF FileInv, NeverTorn
<1> QED
  BY <1>1, FileInvHolds, PTL

-----------------------------------------------------------------------------
(* What a step of the file operations is to the callers and readers.       *)

LEMMA SameCardinality == \A S : Sets!Cardinality(S) = Cardinality(S)
  BY DEF Sets!Cardinality, Cardinality

(* Nothing, as long as what is committed and the file stay as they are.    *)
LEMMA StutterIsNothing ==
  ASSUME committed' = committed, journal_file'.content = journal_file.content
  PROVE  [Sets!JournalNext]_Sets!journalVars
  BY DEF Sets!journalVars

(* The change that is under way has happened or has been given up: the     *)
(* record of the change and the others.                                    *)
LEMMA ChangeUnderWay ==
  ASSUME FileInv, stage \in Changing
  PROVE  \E rec \in BgRecoveryRecord :
           /\ change = {rec}
           /\ adding =>
                /\ committed = records \ {rec}
                /\ records = committed \cup {rec}
                /\ rec.pid \notin PidsOf(committed)
                /\ Cardinality(committed) < MaxRecords
           /\ ~adding =>
                /\ committed = records \cup {rec}
                /\ rec.pid \in PidsOf(committed)
                /\ records = {other \in committed : other.pid # rec.pid}
<1>1. PICK rec \in BgRecoveryRecord :
        /\ change = {rec}
        /\ adding => rec \in records
        /\ ~adding => \A other \in records : other.pid # rec.pid
  BY DEF FileInv
<1>2. /\ IsFiniteSet(records) /\ Cardinality(records) <= MaxRecords
      /\ \A rec1, rec2 \in records : rec1.pid = rec2.pid => rec1 = rec2
      /\ adding \in BOOLEAN
  BY DEF FileInv, TypeOK
<1>3. CASE adding
  <2>1. committed = records \ {rec} /\ rec \in records
    BY <1>1, <1>3 DEF committed
  <2>2. rec.pid \notin PidsOf(committed)
    BY <1>2, <2>1 DEF PidsOf
  <2>3. /\ Cardinality(records \ {rec}) = Cardinality(records) - 1
        /\ Cardinality(records) \in Nat
    BY <1>2, <2>1, FS_RemoveElement, FS_CardinalityType
  <2>4. Cardinality(committed) < MaxRecords
    BY <1>2, <2>1, <2>3, BoundAssumption
  <2>5. records = committed \cup {rec}
    BY <2>1
  <2> QED
    BY <1>1, <1>3, <2>1, <2>2, <2>4, <2>5
<1>4. CASE ~adding
  <2>1. committed = records \cup {rec}
    BY <1>1, <1>4 DEF committed
  <2>2. rec.pid \in PidsOf(committed)
    BY <2>1 DEF PidsOf
  <2>3. records = {other \in committed : other.pid # rec.pid}
    BY <1>1, <1>4, <2>1
  <2> QED
    BY <1>1, <1>4, <2>1, <2>2, <2>3
<1> QED
  BY <1>2, <1>3, <1>4

(* The end of a change: the file has become stored, or it has not been     *)
(* replaced although that was tried.                                       *)
LEMMA ChangeEnds ==
  ASSUME FileInv, stage \in Changing,
         \/ /\ journal_file'.content = records
            /\ committed' = records
         \/ /\ Fails
            /\ journal_file'.content = journal_file.content
            /\ committed' = IF adding THEN records \ change ELSE records
  PROVE  [Sets!JournalNext]_Sets!journalVars
<1>1. PICK rec \in BgRecoveryRecord :
        /\ change = {rec}
        /\ adding =>
             /\ committed = records \ {rec}
             /\ records = committed \cup {rec}
             /\ rec.pid \notin PidsOf(committed)
             /\ Cardinality(committed) < MaxRecords
        /\ ~adding =>
             /\ committed = records \cup {rec}
             /\ rec.pid \in PidsOf(committed)
             /\ records = {other \in committed : other.pid # rec.pid}
  BY ChangeUnderWay
<1>2. rec.pid \in Pid /\ {rec} \in Sets!FoundAt(rec.pid)
  <2>1. rec = [pid |-> rec.pid, creation_time |-> rec.creation_time]
        /\ rec.pid \in Pid /\ rec.creation_time \in 1 .. MaxBirths
    BY DEF BgRecoveryRecord
  <2> QED
    BY <2>1 DEF Sets!FoundAt
<1>3. PidsOf(committed) = Sets!PidsOf(committed)
  BY DEF PidsOf, Sets!PidsOf
<1>4. CASE adding /\ journal_file'.content = records /\ committed' = records
  <2>1. Sets!persist_journal(committed \cup {rec}, TRUE)
    BY <1>1, <1>4 DEF Sets!persist_journal
  <2>2. /\ committed' = committed \cup {rec}
        /\ rec.pid \notin Sets!PidsOf(committed)
        /\ Cardinality(committed) < MaxRecords
    BY <1>1, <1>3, <1>4
  <2>3. Sets!bg_recovery_journal_register(rec.pid, {rec}, TRUE)
    BY <2>1, <2>2, SameCardinality DEF Sets!bg_recovery_journal_register
  <2> QED
    BY <1>2, <2>3 DEF Sets!JournalNext
<1>5. CASE ~adding /\ journal_file'.content = records /\ committed' = records
  <2>1. Sets!bg_recovery_journal_unregister(rec.pid)
    BY <1>1, <1>3, <1>5
       DEF Sets!bg_recovery_journal_unregister, Sets!persist_journal
  <2> QED
    BY <1>2, <2>1 DEF Sets!JournalNext
<1>6. CASE adding /\ journal_file'.content = journal_file.content
           /\ committed' = records \ change
  BY <1>1, <1>6, StutterIsNothing
<1>7. CASE ~adding /\ Fails /\ journal_file'.content = journal_file.content
           /\ committed' = records
  <2>1. Sets!bg_recovery_journal_unregister(rec.pid)
    BY <1>1, <1>3, <1>7
       DEF Sets!bg_recovery_journal_unregister, Sets!persist_journal, Fails
  <2> QED
    BY <1>2, <2>1 DEF Sets!JournalNext
<1> QED
  BY <1>4, <1>5, <1>6, <1>7

(* Every step of the file operations is a step of JournalSet or none.      *)
LEMMA StepIsOfSets ==
  ASSUME FileInv, [Next]_journalVars
  PROVE  [Sets!JournalNext]_Sets!journalVars
<1>1. CASE bg_recovery_journal_init
  <2>1. /\ committed = {} /\ committed' = {}
        /\ \/ journal_file'.content = {}
           \/ Fails /\ journal_file'.content = journal_file.content
    BY <1>1 DEF bg_recovery_journal_init, DeleteJournalFile, Returns, FileInv,
                Changing, committed, Missing
  <2>2. Sets!bg_recovery_journal_init
    BY <2>1 DEF Sets!bg_recovery_journal_init, Fails
  <2> QED
    BY <2>2 DEF Sets!JournalNext
<1>2. ASSUME NEW rec \in BgRecoveryRecord, RegisterBegins(rec)
      PROVE  [Sets!JournalNext]_Sets!journalVars
  <2>1. committed = records /\ rec \notin records
    BY <1>2 DEF RegisterBegins, FileInv, Changing, committed, PidsOf
  <2>2. committed' = records
    BY <1>2, <2>1 DEF RegisterBegins, committed
  <2> QED
    BY <1>2, <2>1, <2>2, StutterIsNothing DEF RegisterBegins, fileVars
<1>3. ASSUME NEW rec \in BgRecoveryRecord, UnregisterBegins(rec)
      PROVE  [Sets!JournalNext]_Sets!journalVars
  <2>1. committed = records /\ rec \in records
    BY <1>3 DEF UnregisterBegins, FileInv, Changing, committed
  <2>2. committed' = records
    BY <1>3, <2>1 DEF UnregisterBegins, committed
  <2> QED
    BY <1>3, <2>1, <2>2, StutterIsNothing DEF UnregisterBegins, fileVars
<1>4. CASE DeleteEmpty
  <2>1. /\ stage \in Changing /\ records = {} /\ ~adding
        /\ committed' = records
        /\ \/ journal_file'.content = records
           \/ Fails /\ journal_file'.content = journal_file.content
    BY <1>4 DEF DeleteEmpty, DeleteJournalFile, Returns, FileInv, Changing,
                committed, Missing
  <2> QED
    BY <2>1, ChangeEnds
<1>5. CASE CreateTemporary \/ WriteTemporary \/ FlushTemporary
           \/ MoveTemporary \/ DiscardTemporary
  <2>1. stage \in Changing
    BY <1>5 DEF CreateTemporary, WriteTemporary, FlushTemporary, MoveTemporary,
                DiscardTemporary, Changing
  <2>2. CASE UNCHANGED <<memoryVars, journal_file>>
    BY <2>2, StutterIsNothing DEF memoryVars, committed
  <2>3. CASE PersistFailed /\ UNCHANGED journal_file /\ Fails
    <3>1. committed' = IF adding THEN records \ change ELSE records
      BY <2>3 DEF PersistFailed, Returns, committed
    <3> QED
      BY <2>1, <2>3, <3>1, ChangeEnds
  <2>4. CASE MoveTemporary /\ journal_file' = temporary_file /\ Returns
             /\ UNCHANGED records
    <3>1. journal_file'.content = records /\ committed' = records
      BY <2>4 DEF MoveTemporary, FileInv, Whole, Returns, committed
    <3> QED
      BY <2>1, <3>1, ChangeEnds
  <2> QED
    BY <1>5, <2>2, <2>3, <2>4
       DEF CreateTemporary, WriteTemporary, FlushTemporary, MoveTemporary,
           DiscardTemporary, fileVars, FileInv
<1>6. CASE GuardEnds
  <2>1. committed' = {} /\ journal_file'.content = journal_file.content
    BY <1>6 DEF GuardEnds, committed, fileVars
  <2>2. Sets!JournalForgotten
    BY <2>1 DEF Sets!JournalForgotten
  <2> QED
    BY <2>2 DEF Sets!JournalNext
<1>7. CASE ReaderOpens \/ ReaderCloses \/ UNCHANGED journalVars
  <2>1. UNCHANGED <<memoryVars, fileVars>>
    BY <1>7 DEF ReaderOpens, ReaderCloses, journalVars
  <2> QED
    BY <2>1, StutterIsNothing DEF memoryVars, fileVars, committed
<1>8. CASE RecoveryDeletes
  <2>1. journal_file'.content = {} /\ committed' = committed
    BY <1>8 DEF RecoveryDeletes, memoryVars, committed, Missing
  <2>2. Sets!JournalDeleted
    BY <2>1 DEF Sets!JournalDeleted
  <2> QED
    BY <2>2 DEF Sets!JournalNext
<1> QED
  BY <1>1, <1>2, <1>3, <1>4, <1>5, <1>6, <1>7, <1>8 DEF Next, persist_journal

(* The file operations implement JournalSet, which the recovery core is    *)
(* built on: a change happens at once or not at all, however it is done.   *)
THEOREM FilesImplementSets == Spec => ImplementsJournalSet
<1>1. Init => Sets!JournalInit
  BY DEF Init, Sets!JournalInit, committed, Missing
<1>2. FileInv /\ [Next]_journalVars => [Sets!JournalNext]_Sets!journalVars
  BY StepIsOfSets
<1>3. Spec => Sets!JournalSpec
  BY <1>1, <1>2, FileInvHolds, PTL DEF Spec, Sets!JournalSpec
<1> QED
  BY <1>3 DEF ImplementsJournalSet

(* What a step leaves on disk of the records that callers rely on.         *)
LEMMA CommittedStays ==
  ASSUME FileInv, Next, committed \subseteq journal_file.content,
         ~RecoveryDeletes
  PROVE  committed' \subseteq journal_file'.content
<1>1. CASE bg_recovery_journal_init \/ GuardEnds
  BY <1>1 DEF bg_recovery_journal_init, GuardEnds, Returns, committed
<1>2. ASSUME NEW rec \in BgRecoveryRecord,
             RegisterBegins(rec) \/ UnregisterBegins(rec)
      PROVE  committed' \subseteq journal_file'.content
  BY <1>2 DEF RegisterBegins, UnregisterBegins, FileInv, Changing, committed,
              PidsOf, fileVars
<1>3. CASE DeleteEmpty
  BY <1>3 DEF DeleteEmpty, Returns, FileInv, committed
<1>4. CASE UNCHANGED <<memoryVars, journal_file>>
  BY <1>4 DEF memoryVars, committed
<1>5. CASE PersistFailed /\ UNCHANGED journal_file
  BY <1>5 DEF PersistFailed, Returns, committed
<1>6. CASE MoveTemporary /\ journal_file' = temporary_file /\ Returns
           /\ UNCHANGED records
  BY <1>6 DEF MoveTemporary, FileInv, Whole, Returns, committed
<1>7. CASE CreateTemporary \/ WriteTemporary \/ FlushTemporary
           \/ MoveTemporary \/ DiscardTemporary
  BY <1>4, <1>5, <1>6, <1>7
     DEF CreateTemporary, WriteTemporary, FlushTemporary, MoveTemporary,
         DiscardTemporary, fileVars
<1>8. CASE ReaderOpens \/ ReaderCloses
  BY <1>4, <1>8 DEF ReaderOpens, ReaderCloses, fileVars
<1> QED
  BY <1>1, <1>2, <1>3, <1>7, <1>8 DEF Next, persist_journal

(* A record that is committed stays on disk through every later change,    *)
(* also one that fails half way: only a recovery deletes the file.         *)
THEOREM CommittedRecordsStay == Spec => CommittedStaysOnDisk
<1> DEFINE Stays == committed \subseteq journal_file.content /\ ~RecoveryDeletes
                      => committed' \subseteq journal_file'.content
<1>1. FileInv /\ [Next]_journalVars => [Stays]_journalVars
  BY CommittedStays
<1>2. Spec => [][Stays]_journalVars
  BY <1>1, FileInvHolds, PTL DEF Spec
<1> QED
  BY <1>2 DEF CommittedStaysOnDisk
=============================================================================
