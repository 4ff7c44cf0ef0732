-------------------------- MODULE RecoveryJournal ---------------------------
(***************************************************************************)
(* The recovery journal at the level of file operations: how               *)
(* persist_journal in src/recovery_journal.c replaces the journal file     *)
(* through a temporary one, what each operation that fails leaves behind,  *)
(* and what a reader finds when the guard is killed in between.            *)
(*                                                                         *)
(* A file is missing, torn (created, not yet written in full) or whole.    *)
(* A reader shares the file for reading only, so while it has the file     *)
(* open the file is neither replaced nor deleted.                          *)
(***************************************************************************)
EXTENDS Platform

VARIABLES
  stage,           \* what the guard does next with the journal
  records,         \* BgRecoveryJournal.records
  change,          \* the record being added or removed, if any
  adding,          \* ... and which of the two
  journal_file,    \* journal->path
  temporary_file,  \* that path with ".tmp" after it
  reading          \* a recovery call has the journal file open

fileVars == <<journal_file, temporary_file>>
memoryVars == <<records, change, adding>>
journalVars == <<stage, memoryVars, fileVars, reading>>

File == [kind : {"missing", "torn", "whole"}, content : SUBSET BgRecoveryRecord]
Missing == [kind |-> "missing", content |-> {}]
Torn == [kind |-> "torn", content |-> {}]
Whole(recs) == [kind |-> "whole", content |-> recs]

JournalStages == {"down", "idle", "create", "write", "flush", "move",
                  "discard", "delete"}

TypeOK ==
  /\ stage \in JournalStages
  /\ records \subseteq BgRecoveryRecord
  /\ Cardinality(records) <= MaxRecords
  /\ change \subseteq BgRecoveryRecord
  /\ adding \in BOOLEAN
  /\ journal_file \in File
  /\ temporary_file \in File
  /\ reading \in BOOLEAN

Init ==
  /\ stage = "down"
  /\ records = {}
  /\ change = {}
  /\ adding = FALSE
  /\ journal_file = Missing
  /\ temporary_file = Missing
  /\ reading = FALSE

(* A file operation may fail.                                              *)
Fails == "persist" \in Faults

Returns == stage' = "idle" /\ change' = {} /\ adding' = FALSE

-----------------------------------------------------------------------------
(* DeleteFileW on the journal, its result ignored.                         *)
DeleteJournalFile ==
  \/ ~reading /\ journal_file' = Missing
  \/ Fails /\ UNCHANGED journal_file

(* Without overlap no guard starts while a recovery call is at work.       *)
bg_recovery_journal_init ==
  /\ stage = "down"
  /\ ~reading \/ "overlap" \in Faults
  /\ Returns
  /\ records' = {}
  /\ DeleteJournalFile
  /\ UNCHANGED <<temporary_file, reading>>

(* Mutant: the capacity is not looked at.                                  *)
RegisterBegins_NoRoomCheck(rec) ==
  /\ stage = "idle"
  /\ rec.pid \notin PidsOf(records)
  /\ records' = records \cup {rec}
  /\ change' = {rec}
  /\ adding' = TRUE
  /\ stage' = "create"
  /\ UNCHANGED <<fileVars, reading>>

(* Register up to its call of persist_journal; the identifier must have no *)
(* record yet, and there must be room for one.                             *)
RegisterBegins(rec) ==
  /\ stage = "idle"
  /\ rec.pid \notin PidsOf(records)
  /\ Cardinality(records) < MaxRecords
  /\ records' = records \cup {rec}
  /\ change' = {rec}
  /\ adding' = TRUE
  /\ stage' = "create"
  /\ UNCHANGED <<fileVars, reading>>

UnregisterBegins(rec) ==
  /\ stage = "idle"
  /\ rec \in records
  /\ records' = records \ {rec}
  /\ change' = {rec}
  /\ adding' = FALSE
  /\ stage' = IF records' = {} THEN "delete" ELSE "create"
  /\ UNCHANGED <<fileVars, reading>>

-----------------------------------------------------------------------------
(* persist_journal.                                                        *)

(* An empty journal is no file.                                            *)
DeleteEmpty ==
  /\ stage = "delete"
  /\ DeleteJournalFile
  /\ Returns
  /\ UNCHANGED <<records, temporary_file, reading>>

(* Mutant: register does not take the record back.                         *)
PersistFailed_KeepsRecord == Returns /\ UNCHANGED records

(* The caller learns that the file was not replaced: register takes the    *)
(* record back, unregister leaves it removed.                              *)
PersistFailed ==
  /\ Returns
  /\ records' = IF adding THEN records \ change ELSE records

(* Mutant: the journal is written in place.                                *)
CreateTemporary_InPlace ==
  /\ stage = "create"
  /\ journal_file' = Torn
  /\ stage' = "write"
  /\ UNCHANGED <<memoryVars, temporary_file, reading>>

CreateTemporary ==
  /\ stage = "create"
  /\ \/ /\ temporary_file' = Torn
        /\ stage' = "write"
        /\ UNCHANGED memoryVars
     \/ Fails /\ PersistFailed /\ UNCHANGED temporary_file
  /\ UNCHANGED <<journal_file, reading>>

(* Header and records.                                                     *)
WriteTemporary ==
  /\ stage = "write"
  /\ \/ stage' = "flush" /\ temporary_file' = Whole(records)
     \/ Fails /\ stage' = "discard" /\ UNCHANGED temporary_file
  /\ UNCHANGED <<memoryVars, journal_file, reading>>

FlushTemporary ==
  /\ stage = "flush"
  /\ \/ stage' = "move"
     \/ Fails /\ stage' = "discard"
  /\ UNCHANGED <<memoryVars, fileVars, reading>>

(* Mutant: the result of MoveFileEx is not looked at.                      *)
MoveTemporary_IgnoresResult ==
  /\ stage = "move"
  /\ \/ ~reading /\ journal_file' = temporary_file /\ temporary_file' = Missing
     \/ Fails /\ UNCHANGED fileVars
  /\ Returns
  /\ UNCHANGED <<records, reading>>

MoveTemporary ==
  /\ stage = "move"
  /\ \/ /\ ~reading
        /\ journal_file' = temporary_file
        /\ temporary_file' = Missing
        /\ Returns
        /\ UNCHANGED records
     \/ /\ Fails
        /\ stage' = "discard"
        /\ UNCHANGED <<memoryVars, fileVars>>
  /\ UNCHANGED reading

(* The temporary file is deleted, if that works; otherwise the next        *)
(* CREATE_ALWAYS empties it.                                               *)
DiscardTemporary ==
  /\ stage = "discard"
  /\ \/ temporary_file' = Missing
     \/ Fails /\ UNCHANGED temporary_file
  /\ PersistFailed
  /\ UNCHANGED <<journal_file, reading>>

-----------------------------------------------------------------------------
(* The guard ends, by itself or killed at any step.                        *)
GuardEnds ==
  /\ stage # "down"
  /\ stage' = "down"
  /\ records' = {}
  /\ change' = {}
  /\ adding' = FALSE
  /\ UNCHANGED <<fileVars, reading>>

(* bg_recovery_journal_load, by a broker or by the next guard.  A guard    *)
(* may be at work meanwhile if brokers and later guards overlap, and then  *)
(* its file operations may fail.                                           *)
MayRead == stage = "down" \/ {"overlap", "persist"} \subseteq Faults

ReaderOpens ==
  /\ MayRead
  /\ ~reading
  /\ journal_file.kind # "missing"
  /\ reading' = TRUE
  /\ UNCHANGED <<stage, memoryVars, fileVars>>

ReaderCloses ==
  /\ reading
  /\ reading' = FALSE
  /\ UNCHANGED <<stage, memoryVars, fileVars>>

(* The end of bg_recover_journal_file; without overlap no guard runs.      *)
RecoveryDeletes ==
  /\ MayRead
  /\ ~reading
  /\ journal_file.kind = "whole"
  /\ journal_file' = Missing
  /\ UNCHANGED <<stage, memoryVars, temporary_file, reading>>

persist_journal ==
  \/ DeleteEmpty
  \/ CreateTemporary
  \/ WriteTemporary
  \/ FlushTemporary
  \/ MoveTemporary
  \/ DiscardTemporary

Next ==
  \/ bg_recovery_journal_init
  \/ \E rec \in BgRecoveryRecord : RegisterBegins(rec) \/ UnregisterBegins(rec)
  \/ persist_journal
  \/ GuardEnds
  \/ ReaderOpens \/ ReaderCloses \/ RecoveryDeletes

Spec == Init /\ [][Next]_journalVars

-----------------------------------------------------------------------------
(* The records the journal holds as far as its callers have been told: one *)
(* being added does not count yet, one being removed still does.           *)
committed == IF adding THEN records \ change ELSE records \cup change

(* However a write is cut short, and whichever operation fails, the next   *)
(* reader finds a file it can load.                                        *)
NeverTorn == journal_file.kind # "torn"

(* ... and in it every record that a caller relies on: a register that     *)
(* returned true is never undone by a later change that fails half way.    *)
(* Only a recovery that deletes the file takes such a record away.         *)
CommittedStaysOnDisk ==
  [][committed \subseteq journal_file.content /\ ~RecoveryDeletes
       => committed' \subseteq journal_file'.content]_journalVars

(* To its callers and readers a change is one step that happens or does    *)
(* not: the file operations implement the sets of JournalSet, where the    *)
(* change happens when the file is replaced or persist_journal gives up.   *)
Sets == INSTANCE JournalSet WITH
          records <- committed,
          journal_file <- journal_file.content

ImplementsJournalSet == Sets!JournalSpec
=============================================================================
