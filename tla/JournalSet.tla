----------------------------- MODULE JournalSet -----------------------------
(***************************************************************************)
(* The recovery journal of src/recovery_journal.c as two sets of records:  *)
(* those the guard holds in memory and those a reader of the journal file  *)
(* would find.  A missing file and an empty one mean the same, because     *)
(* bg_recovery_journal_load reports no record for either.                  *)
(*                                                                         *)
(* The file is replaced as a whole by MoveFileEx, so a reader sees it      *)
(* before or after a change and never in between; the steps of a change    *)
(* are in RecoveryJournal.                                                 *)
(***************************************************************************)
EXTENDS Platform

VARIABLES
  records,       \* BgRecoveryJournal.records of the running guard
  journal_file   \* the records in the file

journalVars == <<records, journal_file>>

JournalTypeOK ==
  /\ records \subseteq BgRecoveryRecord
  /\ journal_file \subseteq BgRecoveryRecord

JournalInit ==
  /\ records = {}
  /\ journal_file = {}

(* Mutant: the result of MoveFileEx is not looked at.                      *)
persist_journal_IgnoresMove(recs, stored) ==
  /\ stored
  /\ \/ journal_file' = recs
     \/ "persist" \in Faults /\ UNCHANGED journal_file

(* Writing recs to the file, with the result stored.  An empty journal is  *)
(* deleted; the code ignores whether that worked and reports success.      *)
persist_journal(recs, stored) ==
  \/ /\ stored
     /\ journal_file' = recs
  \/ /\ "persist" \in Faults
     /\ stored = (recs = {})
     /\ UNCHANGED journal_file

bg_recovery_journal_init ==
  /\ records' = {}
  /\ \/ journal_file' = {}
     \/ "persist" \in Faults /\ UNCHANGED journal_file

(* A record for the identifier p is enough: the code then returns true     *)
(* without looking at the process.  Otherwise the queried record is added  *)
(* and written out, and taken back when that fails.                        *)
bg_recovery_journal_register(p, found, registered) ==
  IF p \in PidsOf(records)
  THEN registered /\ UNCHANGED journalVars
  ELSE \/ /\ Cardinality(records) >= MaxRecords \/ found = {}
          /\ ~registered
          /\ UNCHANGED journalVars
       \/ /\ Cardinality(records) < MaxRecords /\ found # {}
          /\ persist_journal(records \cup found, registered)
          /\ records' = IF registered THEN records \cup found ELSE records

(* The record leaves the memory even when the file cannot be rewritten.    *)
bg_recovery_journal_unregister(p) ==
  LET remaining == {rec \in records : rec.pid # p}
  IN  IF p \in PidsOf(records)
      THEN /\ records' = remaining
           /\ \E stored \in BOOLEAN : persist_journal(remaining, stored)
      ELSE UNCHANGED journalVars

-----------------------------------------------------------------------------
(* What may happen to the journal as a whole: the operations above, the    *)
(* end of the guard, and the deletion at the end of a recovery.  This is   *)
(* what the steps of RecoveryJournal are held against.                     *)
JournalForgotten == records' = {} /\ UNCHANGED journal_file
JournalDeleted == journal_file' = {} /\ UNCHANGED records

(* The results query_recovery_record may have for p.                       *)
FoundAt(p) ==
  {{}} \cup {{[pid |-> p, creation_time |-> c]} : c \in 1 .. MaxBirths}

JournalNext ==
  \/ bg_recovery_journal_init
  \/ \E p \in Pid : \/ bg_recovery_journal_unregister(p)
                    \/ \E found \in FoundAt(p), registered \in BOOLEAN :
                         bg_recovery_journal_register(p, found, registered)
  \/ JournalForgotten
  \/ JournalDeleted

JournalSpec == JournalInit /\ [][JournalNext]_journalVars
=============================================================================
