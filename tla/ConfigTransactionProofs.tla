---------------------- MODULE ConfigTransactionProofs ----------------------
(***************************************************************************)
(* Proofs about ConfigTransaction, for any number of configurations,       *)
(* secrets, clients and failed file operations.                            *)
(***************************************************************************)
EXTENDS ConfigTransaction, TLAPS

\* The steps during which a request is undecided.
Undecided == {"begin", "journal", "secrets", "apply", "commit", "lateCommit"}

\* What each step of the daemon has established on the disk.
DiskAt ==
    /\ pc = "journal" => disk.journal = NoJournal /\ disk.backup = disk.file
    /\ pc \in {"secrets", "apply", "commit", "lateCommit", "restore",
               "removeSecrets", "removeJournal"} => disk.journal # NoJournal
    /\ pc \in {"apply", "commit", "lateCommit", "recheck"} => disk.file = txn.cand
    /\ pc \in {"removeSecrets", "removeJournal"} => disk.file = disk.journal.prev
    /\ pc \in {"unbackup", "removeBackup", "rolledBack", "load"} => disk.journal = NoJournal

\* The candidate is remembered exactly as long as its fate is open; after a
\* commit that raised, that is as long as the journal is there.
Open == pc \in Undecided \/ (pc = "recheck" /\ disk.journal # NoJournal)

RequestAt ==
    /\ Open => req = txn.cand /\ req \in Configs
    /\ ~Open => req = Absent

IInv == TypeOK /\ JournalRecoverable /\ DiskAt /\ RequestAt

-----------------------------------------------------------------------------
\* The initial states satisfy the invariant and are initial for the register.
LEMMA Initially == Init => IInv /\ Register!Init
<1> SUFFICES ASSUME Init PROVE IInv /\ Register!Init
  OBVIOUS
<1>1. disk \in Disk /\ disk.journal = NoJournal /\ disk.file = Absent
  BY SMT DEF Init, Disk, Config
<1>2. txn \in Txn
  BY SMT DEF Init, Txn, NoTxn, Config
<1>3. TypeOK
  <2>1. live \in Config /\ req \in Config /\ seen \in [Clients -> Config]
    BY SMT DEF Init, Config
  <2>2. pc \in Steps /\ mode \in {"start", "replace", "restore"}
        /\ outcome \in {"none", "ok", "error"}
    BY SMT DEF Init, Steps
  <2>3. ready \in BOOLEAN
    BY Zenon DEF Init
  <2>4. faults \in SUBSET FaultyOps
    BY FaultAssumption, SMT DEF Init
  <2> QED
    BY <1>1, <1>2, <2>1, <2>2, <2>3, <2>4, Zenon DEF TypeOK
<1>4. JournalRecoverable /\ DiskAt /\ RequestAt
  <2>1. pc = "down" /\ req = Absent
    BY Zenon DEF Init
  <2> QED
    BY <1>1, <2>1, SMT DEF JournalRecoverable, DiskAt, RequestAt, Open, Undecided
<1>5. Register!Init
  BY <1>1, Zenon DEF Init, Effective, Register!Init
<1> QED
  BY <1>3, <1>4, <1>5 DEF IInv
-----------------------------------------------------------------------------
\* The type invariant without its Boolean, which is left to another prover.
Typed ==
    /\ disk \in Disk /\ live \in Config
    /\ pc \in Steps /\ mode \in {"start", "replace", "restore"}
    /\ txn \in Txn
    /\ req \in Config /\ outcome \in {"none", "ok", "error"}
    /\ seen \in [Clients -> Config]
    /\ faults \in SUBSET FaultyOps

\* Every step of the daemon and of its clients keeps the types.
LEMMA TypedStep ==
  ASSUME Typed, DiskAt, [Next]_vars
  PROVE  Typed'
<1> USE RefsAssumption, FaultAssumption
    DEF Typed, DiskAt, Disk, Journal, Config, Txn, NoTxn, Steps
<1>1. CASE BeginRefused
  BY <1>1, SMT DEF BeginRefused, Refuse
<1>2. CASE Backup
  BY <1>2, SMT DEF Backup, Write, Refuse, service
<1>3. CASE WriteJournal
  BY <1>3, SMT DEF WriteJournal, Write, Refuse, service
<1>4. CASE WriteSecret
  BY <1>4, SMT DEF WriteSecret, Write, Refuse, service
<1>5. CASE CancelledBeforeSave
  BY <1>5, SMT DEF CancelledBeforeSave, Refuse
<1>6. CASE SaveCandidate
  BY <1>6, SMT DEF SaveCandidate, Write, Refuse, service
<1>7. CASE Applied
  BY <1>7, SMT DEF Applied
<1>8. CASE ApplyRejected
  BY <1>8, SMT DEF ApplyRejected
<1>9. CASE Commit
  BY <1>9, SMT DEF Commit, Write
<1>10. CASE Recheck
  BY <1>10, SMT DEF Recheck
<1>11. CASE LateCommit
  BY <1>11, SMT DEF LateCommit, Write
<1>12. CASE RemoveCommittedBackup
  BY <1>12, SMT DEF RemoveCommittedBackup, Write, service
<1>13. CASE PruneSecret
  BY <1>13, SMT DEF PruneSecret, Write, service
<1>14. CASE Pruned
  BY <1>14, SMT DEF Pruned, service
<1>15. CASE Recover
  BY <1>15, SMT DEF Recover, service
<1>16. CASE RestoreFile
  BY <1>16, SMT DEF RestoreFile, Write, service
<1>17. CASE RemoveSecrets
  BY <1>17, SMT DEF RemoveSecrets, Write, service
<1>18. CASE RemoveJournal
  BY <1>18, SMT DEF RemoveJournal, Write, service
<1>19. CASE RemoveBackup
  BY <1>19, SMT DEF RemoveBackup, Write, service
<1>20. CASE AfterReplace
  BY <1>20, SMT DEF AfterReplace, service
<1>21. CASE AfterRestore
  BY <1>21, SMT DEF AfterRestore
<1>22. CASE Reapply
  BY <1>22, SMT DEF Reapply
<1>23. CASE AfterStart
  BY <1>23, SMT DEF AfterStart, service
<1>24. CASE Crash
  BY <1>24, SMT DEF Crash
<1>25. CASE Start
  BY <1>25, SMT DEF Start, service
<1>26. CASE Load
  BY <1>26, SMT DEF Load
<1>27. CASE Reload
  <2>1. live' \in {live, disk.file}
        /\ UNCHANGED <<disk, pc, mode, txn, req, outcome, seen, faults>>
    BY <1>27, Zenon DEF Reload
  <2> QED
    BY <2>1, SMT
<1>28. CASE \E c \in Clients : Read(c)
  BY <1>28, SMT DEF Read
<1>29. CASE \E c \in Clients, cand \in Configs : Submit(c, cand)
  BY <1>29, SMT DEF Submit, RefsOf
<1>30. CASE UNCHANGED vars
  BY <1>30, SMT DEF vars
<1> QED
  BY <1>1, <1>2, <1>3, <1>4, <1>5, <1>6, <1>7, <1>8, <1>9, <1>10, <1>11,
     <1>12, <1>13, <1>14, <1>15, <1>16, <1>17, <1>18, <1>19, <1>20, <1>21,
     <1>22, <1>23, <1>24, <1>25, <1>26, <1>27, <1>28, <1>29, <1>30, Zenon
  DEF Next, Transaction, Rollback

\* ready is set to a truth value only.
LEMMA ReadyStep ==
  ASSUME ready \in BOOLEAN, [Next]_vars
  PROVE  ready' \in BOOLEAN
  BY Zenon
  DEF Next, Transaction, Rollback, vars, service, Refuse, Read, Submit, BeginRefused, Backup, WriteJournal, WriteSecret,
      CancelledBeforeSave, SaveCandidate, Applied, ApplyRejected,
      Commit, Recheck, LateCommit, RemoveCommittedBackup, PruneSecret,
      Pruned, Recover, RestoreFile, RemoveSecrets, RemoveJournal,
      RemoveBackup, AfterReplace, AfterRestore, Reapply, AfterStart,
      Crash, Start, Load, Reload

\* Every step keeps what the invariant says of the disk and of the request.
LEMMA PhaseStep ==
  ASSUME IInv, [Next]_vars
  PROVE  JournalRecoverable' /\ DiskAt' /\ RequestAt'
<1> USE AbsentAssumption, NoJournalAssumption
    DEF IInv, TypeOK, JournalRecoverable, DiskAt, RequestAt, Open, Undecided, Disk,
        Journal, Config, Txn, NoTxn
<1>1. CASE BeginRefused
  BY <1>1, SMT DEF BeginRefused, Refuse
<1>2. CASE Backup
  BY <1>2, SMT DEF Backup, Write, Refuse, service
<1>3. CASE WriteJournal
  BY <1>3, SMT DEF WriteJournal, Write, Refuse, service
<1>4. CASE WriteSecret
  BY <1>4, SMT DEF WriteSecret, Write, Refuse, service
<1>5. CASE CancelledBeforeSave
  BY <1>5, SMT DEF CancelledBeforeSave, Refuse
<1>6. CASE SaveCandidate
  BY <1>6, SMT DEF SaveCandidate, Write, Refuse, service
<1>7. CASE Applied
  BY <1>7, SMT DEF Applied
<1>8. CASE ApplyRejected
  BY <1>8, SMT DEF ApplyRejected
<1>9. CASE Commit
  BY <1>9, SMT DEF Commit, Write
<1>10. CASE Recheck
  BY <1>10, SMT DEF Recheck
<1>11. CASE LateCommit
  BY <1>11, SMT DEF LateCommit, Write
<1>12. CASE RemoveCommittedBackup
  BY <1>12, SMT DEF RemoveCommittedBackup, Write, service
<1>13. CASE PruneSecret
  BY <1>13, SMT DEF PruneSecret, Write, service
<1>14. CASE Pruned
  BY <1>14, SMT DEF Pruned, service
<1>15. CASE Recover
  BY <1>15, SMT DEF Recover, service
<1>16. CASE RestoreFile
  BY <1>16, SMT DEF RestoreFile, Write, service
<1>17. CASE RemoveSecrets
  BY <1>17, SMT DEF RemoveSecrets, Write, service
<1>18. CASE RemoveJournal
  BY <1>18, SMT DEF RemoveJournal, Write, service
<1>19. CASE RemoveBackup
  BY <1>19, SMT DEF RemoveBackup, Write, service
<1>20. CASE AfterReplace
  BY <1>20, SMT DEF AfterReplace, service
<1>21. CASE AfterRestore
  BY <1>21, SMT DEF AfterRestore
<1>22. CASE Reapply
  BY <1>22, SMT DEF Reapply
<1>23. CASE AfterStart
  BY <1>23, SMT DEF AfterStart, service
<1>24. CASE Crash
  BY <1>24, SMT DEF Crash
<1>25. CASE Start
  BY <1>25, SMT DEF Start, service
<1>26. CASE Load
  BY <1>26, SMT DEF Load
<1>27. CASE Reload
  BY <1>27, SMT DEF Reload
<1>28. CASE \E c \in Clients : Read(c)
  BY <1>28, SMT DEF Read
<1>29. CASE \E c \in Clients, cand \in Configs : Submit(c, cand)
  BY <1>29, SMT DEF Submit, RefsOf
<1>30. CASE UNCHANGED vars
  BY <1>30, SMT DEF vars
<1> QED
  BY <1>1, <1>2, <1>3, <1>4, <1>5, <1>6, <1>7, <1>8, <1>9, <1>10, <1>11,
     <1>12, <1>13, <1>14, <1>15, <1>16, <1>17, <1>18, <1>19, <1>20, <1>21,
     <1>22, <1>23, <1>24, <1>25, <1>26, <1>27, <1>28, <1>29, <1>30, Zenon
  DEF Next, Transaction, Rollback

\* Every step is a step of the register or leaves it alone.
LEMMA RegisterStep ==
  ASSUME IInv, [Next]_vars
  PROVE  [Register!Next]_<<Effective, req, outcome>>
<1> USE AbsentAssumption, NoJournalAssumption
    DEF IInv, TypeOK, JournalRecoverable, DiskAt, RequestAt, Open, Undecided, Disk,
        Journal, Config, Txn, Effective, Register!Next, Register!Submit,
        Register!Commit, Register!Reject, Register!Lose
<1>1. CASE BeginRefused
  BY <1>1, SMT DEF BeginRefused, Refuse
<1>2. CASE Backup
  BY <1>2, SMT DEF Backup, Write, Refuse, service
<1>3. CASE WriteJournal
  BY <1>3, SMT DEF WriteJournal, Write, Refuse, service
<1>4. CASE WriteSecret
  BY <1>4, SMT DEF WriteSecret, Write, Refuse, service
<1>5. CASE CancelledBeforeSave
  BY <1>5, SMT DEF CancelledBeforeSave, Refuse
<1>6. CASE SaveCandidate
  BY <1>6, SMT DEF SaveCandidate, Write, Refuse, service
<1>7. CASE Applied
  BY <1>7, SMT DEF Applied
<1>8. CASE ApplyRejected
  BY <1>8, SMT DEF ApplyRejected
<1>9. CASE Commit
  BY <1>9, SMT DEF Commit, Write
<1>10. CASE Recheck
  BY <1>10, SMT DEF Recheck
<1>11. CASE LateCommit
  BY <1>11, SMT DEF LateCommit, Write
<1>12. CASE RemoveCommittedBackup
  BY <1>12, SMT DEF RemoveCommittedBackup, Write, service
<1>13. CASE PruneSecret
  BY <1>13, SMT DEF PruneSecret, Write, service
<1>14. CASE Pruned
  BY <1>14, SMT DEF Pruned, service
<1>15. CASE Recover
  BY <1>15, SMT DEF Recover, service
<1>16. CASE RestoreFile
  BY <1>16, SMT DEF RestoreFile, Write, service
<1>17. CASE RemoveSecrets
  BY <1>17, SMT DEF RemoveSecrets, Write, service
<1>18. CASE RemoveJournal
  BY <1>18, SMT DEF RemoveJournal, Write, service
<1>19. CASE RemoveBackup
  BY <1>19, SMT DEF RemoveBackup, Write, service
<1>20. CASE AfterReplace
  BY <1>20, SMT DEF AfterReplace, service
<1>21. CASE AfterRestore
  BY <1>21, SMT DEF AfterRestore
<1>22. CASE Reapply
  BY <1>22, SMT DEF Reapply
<1>23. CASE AfterStart
  BY <1>23, SMT DEF AfterStart, service
<1>24. CASE Crash
  BY <1>24, SMT DEF Crash
<1>25. CASE Start
  BY <1>25, SMT DEF Start, service
<1>26. CASE Load
  BY <1>26, SMT DEF Load
<1>27. CASE Reload
  BY <1>27, SMT DEF Reload
<1>28. CASE \E c \in Clients : Read(c)
  BY <1>28, SMT DEF Read
<1>29. CASE \E c \in Clients, cand \in Configs : Submit(c, cand)
  BY <1>29, SMT DEF Submit, RefsOf
<1>30. CASE UNCHANGED vars
  BY <1>30, SMT DEF vars
<1> QED
  BY <1>1, <1>2, <1>3, <1>4, <1>5, <1>6, <1>7, <1>8, <1>9, <1>10, <1>11,
     <1>12, <1>13, <1>14, <1>15, <1>16, <1>17, <1>18, <1>19, <1>20, <1>21,
     <1>22, <1>23, <1>24, <1>25, <1>26, <1>27, <1>28, <1>29, <1>30, Zenon
  DEF Next, Transaction, Rollback

-----------------------------------------------------------------------------
\* IInv is an inductive invariant of the daemon.
LEMMA InvarianceStep ==
  ASSUME IInv, [Next]_vars
  PROVE  IInv'
<1>1. Typed'
  BY TypedStep, Zenon DEF IInv, TypeOK, Typed
<1>2. ready' \in BOOLEAN
  BY ReadyStep, Zenon DEF IInv, TypeOK
<1>3. TypeOK'
  BY <1>1, <1>2, Zenon DEF TypeOK, Typed
<1> QED
  BY <1>3, PhaseStep, Zenon DEF IInv

LEMMA Invariance == Spec => []IInv
<1>1. Init => IInv
  BY Initially
<1>2. IInv /\ [Next]_vars => IInv'
  BY InvarianceStep
<1> QED
  BY <1>1, <1>2, PTL DEF Spec

\* The state of the daemon is well typed in every behaviour.
THEOREM TypeCorrect == Spec => []TypeOK
  BY Invariance, PTL DEF IInv

\* Whatever fails and whenever the process dies, every journal on disk names a
\* backup that is intact, so that recover_config_replace can do its work.
THEOREM JournalRecoverableCorrect == Spec => []JournalRecoverable
  BY Invariance, PTL DEF IInv

\* replace_config, with its journal, rollback and recovery, implements an atomic
\* register: what a restart would load changes only at the commit of a pending
\* candidate, and no caller is told "ok" about a candidate that was not committed.
THEOREM Refinement == Spec => RefinesRegister
<1>1. Init => Register!Init
  BY Initially
<1>2. ASSUME IInv, [Next]_vars
      PROVE  [Register!Next]_<<Effective, req, outcome>>
  BY <1>2, RegisterStep
<1> QED
  BY <1>1, <1>2, Invariance, PTL DEF Spec, RefinesRegister, Register!Spec, Register!rvars

-----------------------------------------------------------------------------
\* The steps of a request before its candidate is applied, and those of a rollback.
Preparing == {"begin", "journal", "secrets", "apply"}
RollingBack == {"recover", "restore", "removeSecrets", "removeJournal", "removeBackup",
                "rolledBack", "rollbackFailed"}

\* What the daemon runs at each step, whatever has failed.
LiveAt ==
    /\ pc \in {"commit", "lateCommit", "unbackup"} => live = txn.cand /\ live # Absent
    /\ pc \in Preparing \/ (pc \in RollingBack /\ mode = "replace") => txn.prev = live
    /\ pc \in RollingBack \cup {"load", "down"} /\ mode = "start" => live = Absent
    /\ pc \in {"load", "down"} => mode = "start"
    /\ pc = "recheck" \/ mode = "restore" => "commit" \in faults
    /\ pc = "reapply" => mode = "restore" /\ txn.prev # Absent

\* The secrets the candidate adds, and which of them are on the disk.
SecretsAt ==
    /\ pc \in Preparing \cup {"commit", "lateCommit"} =>
          /\ txn.base = txn.prev
          /\ RefsOf(txn.cand) \subseteq txn.secrets \cup RefsOf(txn.prev)
    /\ pc = "journal" => txn.secrets \cap disk.secrets = {}
    /\ pc \in {"apply", "commit", "lateCommit"} => txn.secrets \subseteq disk.secrets

\* The steps at which the file is the one a restart would load.
Settled == {"idle", "begin", "journal", "prune", "load", "unbackup", "removeSecrets",
            "removeJournal", "removeBackup", "rolledBack", "rollbackFailed"}

\* As long as no decisive operation has failed, what runs is what a restart would load,
\* and the secrets of that are there; a rollback removes only those it does not need.
SteadyAt ==
    faults \cap Decisive = {} =>
        /\ live # Absent /\ pc \notin {"commit", "lateCommit"} => live = Effective
        /\ pc \in {"commit", "lateCommit"} => txn.prev \in {Absent, Effective}
        /\ pc \in Settled => Effective = disk.file
        /\ pc = "prune" => live = Effective
        /\ RefsOf(Effective) \subseteq disk.secrets
        /\ disk.journal # NoJournal => disk.journal.secrets \cap RefsOf(disk.journal.prev) = {}

\* From the commit of an accepted request to the next request
OkAt ==
    outcome = "ok" =>
        /\ pc \in {"unbackup", "prune", "idle"} /\ live = disk.file /\ live # Absent
        /\ pc = "idle" /\ "prune" \notin faults => disk.secrets \subseteq RefsOf(live)

ReadyAt == ready => live # Absent

SInv == IInv /\ LiveAt /\ SecretsAt /\ SteadyAt /\ OkAt /\ ReadyAt

\* What runs at each step follows from what ran at the step before.
LEMMA LiveStep ==
  ASSUME SInv, [Next]_vars
  PROVE  LiveAt'
<1> USE AbsentAssumption, NoJournalAssumption, RefsAssumption
    DEF SInv, IInv, TypeOK, JournalRecoverable, DiskAt, RequestAt, Open, Undecided,
        Disk, Journal, Config, Txn, NoTxn,
        LiveAt, Preparing, RollingBack
<1>1. CASE BeginRefused
  BY <1>1, SMT DEF BeginRefused, Refuse
<1>2. CASE Backup
  BY <1>2, SMT DEF Backup, Write, Refuse, service
<1>3. CASE WriteJournal
  BY <1>3, SMT DEF WriteJournal, Write, Refuse, service
<1>4. CASE WriteSecret
  BY <1>4, SMT DEF WriteSecret, Write, Refuse, service
<1>5. CASE CancelledBeforeSave
  BY <1>5, SMT DEF CancelledBeforeSave, Refuse
<1>6. CASE SaveCandidate
  BY <1>6, SMT DEF SaveCandidate, Write, Refuse, service
<1>7. CASE Applied
  BY <1>7, SMT DEF Applied
<1>8. CASE ApplyRejected
  BY <1>8, SMT DEF ApplyRejected
<1>9. CASE Commit
  BY <1>9, SMT DEF Commit, Write
<1>10. CASE Recheck
  BY <1>10, SMT DEF Recheck
<1>11. CASE LateCommit
  BY <1>11, SMT DEF LateCommit, Write
<1>12. CASE RemoveCommittedBackup
  BY <1>12, SMT DEF RemoveCommittedBackup, Write, service
<1>13. CASE PruneSecret
  BY <1>13, SMT DEF PruneSecret, Write, service
<1>14. CASE Pruned
  BY <1>14, SMT DEF Pruned, service
<1>15. CASE Recover
  BY <1>15, SMT DEF Recover, service
<1>16. CASE RestoreFile
  BY <1>16, SMT DEF RestoreFile, Write, service
<1>17. CASE RemoveSecrets
  BY <1>17, SMT DEF RemoveSecrets, Write, service
<1>18. CASE RemoveJournal
  BY <1>18, SMT DEF RemoveJournal, Write, service
<1>19. CASE RemoveBackup
  BY <1>19, SMT DEF RemoveBackup, Write, service
<1>20. CASE AfterReplace
  BY <1>20, SMT DEF AfterReplace, service
<1>21. CASE AfterRestore
  BY <1>21, SMT DEF AfterRestore
<1>22. CASE Reapply
  BY <1>22, SMT DEF Reapply
<1>23. CASE AfterStart
  BY <1>23, SMT DEF AfterStart, service
<1>24. CASE Crash
  BY <1>24, SMT DEF Crash
<1>25. CASE Start
  BY <1>25, SMT DEF Start, service
<1>26. CASE Load
  BY <1>26, SMT DEF Load
<1>27. CASE Reload
  BY <1>27, SMT DEF Reload
<1>28. CASE \E c \in Clients : Read(c)
  BY <1>28, SMT DEF Read
<1>29. CASE \E c \in Clients, cand \in Configs : Submit(c, cand)
  BY <1>29, SMT DEF Submit
<1>30. CASE UNCHANGED vars
  BY <1>30, SMT DEF vars
<1> QED
  BY <1>1, <1>2, <1>3, <1>4, <1>5, <1>6, <1>7, <1>8, <1>9, <1>10, <1>11,
     <1>12, <1>13, <1>14, <1>15, <1>16, <1>17, <1>18, <1>19, <1>20, <1>21,
     <1>22, <1>23, <1>24, <1>25, <1>26, <1>27, <1>28, <1>29, <1>30, Zenon
  DEF Next, Transaction, Rollback

\* The secrets of the candidate are written before it is saved, and none before the journal.
LEMMA SecretsStep ==
  ASSUME SInv, [Next]_vars
  PROVE  SecretsAt'
<1> USE AbsentAssumption, NoJournalAssumption, RefsAssumption
    DEF SInv, IInv, TypeOK, JournalRecoverable, DiskAt, RequestAt, Open, Undecided,
        Disk, Journal, Config, Txn, NoTxn,
        SecretsAt, LiveAt, Preparing, RollingBack, RefsOf
<1>1. CASE BeginRefused
  BY <1>1, SMT DEF BeginRefused, Refuse
<1>2. CASE Backup
  BY <1>2, SMT DEF Backup, Write, Refuse, service
<1>3. CASE WriteJournal
  BY <1>3, SMT DEF WriteJournal, Write, Refuse, service
<1>4. CASE WriteSecret
  BY <1>4, SMT DEF WriteSecret, Write, Refuse, service
<1>5. CASE CancelledBeforeSave
  BY <1>5, SMT DEF CancelledBeforeSave, Refuse
<1>6. CASE SaveCandidate
  BY <1>6, SMT DEF SaveCandidate, Write, Refuse, service
<1>7. CASE Applied
  BY <1>7, SMT DEF Applied
<1>8. CASE ApplyRejected
  BY <1>8, SMT DEF ApplyRejected
<1>9. CASE Commit
  BY <1>9, SMT DEF Commit, Write
<1>10. CASE Recheck
  BY <1>10, SMT DEF Recheck
<1>11. CASE LateCommit
  BY <1>11, SMT DEF LateCommit, Write
<1>12. CASE RemoveCommittedBackup
  BY <1>12, SMT DEF RemoveCommittedBackup, Write, service
<1>13. CASE PruneSecret
  BY <1>13, SMT DEF PruneSecret, Write, service
<1>14. CASE Pruned
  BY <1>14, SMT DEF Pruned, service
<1>15. CASE Recover
  BY <1>15, SMT DEF Recover, service
<1>16. CASE RestoreFile
  BY <1>16, SMT DEF RestoreFile, Write, service
<1>17. CASE RemoveSecrets
  BY <1>17, SMT DEF RemoveSecrets, Write, service
<1>18. CASE RemoveJournal
  BY <1>18, SMT DEF RemoveJournal, Write, service
<1>19. CASE RemoveBackup
  BY <1>19, SMT DEF RemoveBackup, Write, service
<1>20. CASE AfterReplace
  BY <1>20, SMT DEF AfterReplace, service
<1>21. CASE AfterRestore
  BY <1>21, SMT DEF AfterRestore
<1>22. CASE Reapply
  BY <1>22, SMT DEF Reapply
<1>23. CASE AfterStart
  BY <1>23, SMT DEF AfterStart, service
<1>24. CASE Crash
  BY <1>24, SMT DEF Crash
<1>25. CASE Start
  BY <1>25, SMT DEF Start, service
<1>26. CASE Load
  BY <1>26, SMT DEF Load
<1>27. CASE Reload
  BY <1>27, SMT DEF Reload
<1>28. CASE \E c \in Clients : Read(c)
  BY <1>28, SMT DEF Read
<1>29. CASE \E c \in Clients, cand \in Configs : Submit(c, cand)
  BY <1>29, SMT DEF Submit
<1>30. CASE UNCHANGED vars
  BY <1>30, SMT DEF vars
<1> QED
  BY <1>1, <1>2, <1>3, <1>4, <1>5, <1>6, <1>7, <1>8, <1>9, <1>10, <1>11,
     <1>12, <1>13, <1>14, <1>15, <1>16, <1>17, <1>18, <1>19, <1>20, <1>21,
     <1>22, <1>23, <1>24, <1>25, <1>26, <1>27, <1>28, <1>29, <1>30, Zenon
  DEF Next, Transaction, Rollback

\* Only the failure of a decisive operation lets what runs and what a restart would load part.
LEMMA SteadyStep ==
  ASSUME SInv, [Next]_vars
  PROVE  SteadyAt'
<1> USE AbsentAssumption, NoJournalAssumption, RefsAssumption
    DEF SInv, IInv, TypeOK, JournalRecoverable, DiskAt, RequestAt, Open, Undecided,
        Disk, Journal, Config, Txn, NoTxn,
        SteadyAt, SecretsAt, LiveAt, Preparing, RollingBack, RefsOf, Effective, Settled, Decisive
<1>1. CASE BeginRefused
  BY <1>1, SMT DEF BeginRefused, Refuse
<1>2. CASE Backup
  BY <1>2, SMT DEF Backup, Write, Refuse, service
<1>3. CASE WriteJournal
  BY <1>3, SMT DEF WriteJournal, Write, Refuse, service
<1>4. CASE WriteSecret
  BY <1>4, SMT DEF WriteSecret, Write, Refuse, service
<1>5. CASE CancelledBeforeSave
  BY <1>5, SMT DEF CancelledBeforeSave, Refuse
<1>6. CASE SaveCandidate
  BY <1>6, SMT DEF SaveCandidate, Write, Refuse, service
<1>7. CASE Applied
  BY <1>7, SMT DEF Applied
<1>8. CASE ApplyRejected
  BY <1>8, SMT DEF ApplyRejected
<1>9. CASE Commit
  BY <1>9, SMT DEF Commit, Write
<1>10. CASE Recheck
  BY <1>10, SMT DEF Recheck
<1>11. CASE LateCommit
  BY <1>11, SMT DEF LateCommit, Write
<1>12. CASE RemoveCommittedBackup
  BY <1>12, SMT DEF RemoveCommittedBackup, Write, service
<1>13. CASE PruneSecret
  BY <1>13, SMT DEF PruneSecret, Write, service
<1>14. CASE Pruned
  BY <1>14, SMT DEF Pruned, service
<1>15. CASE Recover
  BY <1>15, SMT DEF Recover, service
<1>16. CASE RestoreFile
  BY <1>16, SMT DEF RestoreFile, Write, service
<1>17. CASE RemoveSecrets
  BY <1>17, SMT DEF RemoveSecrets, Write, service
<1>18. CASE RemoveJournal
  BY <1>18, SMT DEF RemoveJournal, Write, service
<1>19. CASE RemoveBackup
  BY <1>19, SMT DEF RemoveBackup, Write, service
<1>20. CASE AfterReplace
  BY <1>20, SMT DEF AfterReplace, service
<1>21. CASE AfterRestore
  BY <1>21, SMT DEF AfterRestore
<1>22. CASE Reapply
  BY <1>22, SMT DEF Reapply
<1>23. CASE AfterStart
  BY <1>23, SMT DEF AfterStart, service
<1>24. CASE Crash
  BY <1>24, SMT DEF Crash
<1>25. CASE Start
  BY <1>25, SMT DEF Start, service
<1>26. CASE Load
  BY <1>26, SMT DEF Load
<1>27. CASE Reload
  <2>1. /\ pc = "idle" /\ disk.file # Absent /\ live' \in {live, disk.file}
        /\ UNCHANGED <<disk, pc, mode, txn, req, outcome, seen, faults>>
    BY <1>27, Zenon DEF Reload
  <2> QED
    BY <2>1, SMT
<1>28. CASE \E c \in Clients : Read(c)
  BY <1>28, SMT DEF Read
<1>29. CASE \E c \in Clients, cand \in Configs : Submit(c, cand)
  BY <1>29, SMT DEF Submit
<1>30. CASE UNCHANGED vars
  BY <1>30, SMT DEF vars
<1> QED
  BY <1>1, <1>2, <1>3, <1>4, <1>5, <1>6, <1>7, <1>8, <1>9, <1>10, <1>11,
     <1>12, <1>13, <1>14, <1>15, <1>16, <1>17, <1>18, <1>19, <1>20, <1>21,
     <1>22, <1>23, <1>24, <1>25, <1>26, <1>27, <1>28, <1>29, <1>30, Zenon
  DEF Next, Transaction, Rollback

\* An accepted request leaves no secret that is not in use; nothing but a request changes that.
LEMMA OkStep ==
  ASSUME SInv, [Next]_vars
  PROVE  OkAt'
<1> USE AbsentAssumption, NoJournalAssumption, RefsAssumption
    DEF SInv, IInv, TypeOK, JournalRecoverable, DiskAt, RequestAt, Open, Undecided,
        Disk, Journal, Config, Txn, NoTxn,
        OkAt, LiveAt, Preparing, RollingBack
<1>1. CASE BeginRefused
  BY <1>1, SMT DEF BeginRefused, Refuse
<1>2. CASE Backup
  BY <1>2, SMT DEF Backup, Write, Refuse, service
<1>3. CASE WriteJournal
  BY <1>3, SMT DEF WriteJournal, Write, Refuse, service
<1>4. CASE WriteSecret
  BY <1>4, SMT DEF WriteSecret, Write, Refuse, service
<1>5. CASE CancelledBeforeSave
  BY <1>5, SMT DEF CancelledBeforeSave, Refuse
<1>6. CASE SaveCandidate
  BY <1>6, SMT DEF SaveCandidate, Write, Refuse, service
<1>7. CASE Applied
  BY <1>7, SMT DEF Applied
<1>8. CASE ApplyRejected
  BY <1>8, SMT DEF ApplyRejected
<1>9. CASE Commit
  BY <1>9, SMT DEF Commit, Write
<1>10. CASE Recheck
  BY <1>10, SMT DEF Recheck
<1>11. CASE LateCommit
  BY <1>11, SMT DEF LateCommit, Write
<1>12. CASE RemoveCommittedBackup
  BY <1>12, SMT DEF RemoveCommittedBackup, Write, service
<1>13. CASE PruneSecret
  BY <1>13, SMT DEF PruneSecret, Write, service
<1>14. CASE Pruned
  BY <1>14, SMT DEF Pruned, service
<1>15. CASE Recover
  BY <1>15, SMT DEF Recover, service
<1>16. CASE RestoreFile
  BY <1>16, SMT DEF RestoreFile, Write, service
<1>17. CASE RemoveSecrets
  BY <1>17, SMT DEF RemoveSecrets, Write, service
<1>18. CASE RemoveJournal
  BY <1>18, SMT DEF RemoveJournal, Write, service
<1>19. CASE RemoveBackup
  BY <1>19, SMT DEF RemoveBackup, Write, service
<1>20. CASE AfterReplace
  BY <1>20, SMT DEF AfterReplace, service
<1>21. CASE AfterRestore
  BY <1>21, SMT DEF AfterRestore
<1>22. CASE Reapply
  BY <1>22, SMT DEF Reapply
<1>23. CASE AfterStart
  BY <1>23, SMT DEF AfterStart, service
<1>24. CASE Crash
  BY <1>24, SMT DEF Crash
<1>25. CASE Start
  BY <1>25, SMT DEF Start, service
<1>26. CASE Load
  BY <1>26, SMT DEF Load
<1>27. CASE Reload
  <2>1. /\ pc = "idle" /\ disk.file # Absent /\ live' \in {live, disk.file}
        /\ UNCHANGED <<disk, pc, mode, txn, req, outcome, seen, faults>>
    BY <1>27, Zenon DEF Reload
  <2> QED
    BY <2>1, SMT
<1>28. CASE \E c \in Clients : Read(c)
  BY <1>28, SMT DEF Read
<1>29. CASE \E c \in Clients, cand \in Configs : Submit(c, cand)
  BY <1>29, SMT DEF Submit
<1>30. CASE UNCHANGED vars
  BY <1>30, SMT DEF vars
<1> QED
  BY <1>1, <1>2, <1>3, <1>4, <1>5, <1>6, <1>7, <1>8, <1>9, <1>10, <1>11,
     <1>12, <1>13, <1>14, <1>15, <1>16, <1>17, <1>18, <1>19, <1>20, <1>21,
     <1>22, <1>23, <1>24, <1>25, <1>26, <1>27, <1>28, <1>29, <1>30, Zenon
  DEF Next, Transaction, Rollback

\* Every step keeps ReadyAt: readiness comes only with a configuration.
LEMMA ReadyLiveStep ==
  ASSUME SInv, [Next]_vars
  PROVE  ReadyAt'
<1>1. CASE BeginRefused \/ Backup \/ WriteJournal \/ WriteSecret \/ CancelledBeforeSave \/ SaveCandidate
           \/ Commit \/ Recheck \/ LateCommit \/ RemoveCommittedBackup \/ PruneSecret \/ Pruned
           \/ Recover \/ RestoreFile \/ RemoveSecrets \/ RemoveJournal \/ RemoveBackup \/ AfterReplace
           \/ AfterStart \/ Start \/ (\E c \in Clients : Read(c))
           \/ (\E c \in Clients, cand \in Configs : Submit(c, cand)) \/ UNCHANGED vars
  <2>1. live' = live /\ ready' = ready
    BY <1>1, Zenon
    DEF BeginRefused, Backup, WriteJournal, WriteSecret, CancelledBeforeSave, SaveCandidate, Commit,
        Recheck, LateCommit, RemoveCommittedBackup, PruneSecret, Pruned, Recover, RestoreFile,
        RemoveSecrets, RemoveJournal, RemoveBackup, AfterReplace, AfterStart, Start, Read, Submit,
        Refuse, service, vars
  <2> QED
    BY <2>1, Zenon DEF SInv, ReadyAt
<1>2. CASE Applied
  BY <1>2, AbsentAssumption, SMT DEF Applied, ReadyAt, SInv, IInv, RequestAt, Open, Undecided
<1>3. CASE ApplyRejected \/ AfterRestore
  <2>1. live' = live /\ (ready' = ready \/ ready' = FALSE)
    BY <1>3, Zenon DEF ApplyRejected, AfterRestore
  <2>2. CASE ready' = ready
    BY <2>1, <2>2, Zenon DEF SInv, ReadyAt
  <2>3. CASE ready' = FALSE
    BY <2>3, Zenon DEF ReadyAt
  <2> QED
    BY <2>1, <2>2, <2>3, Zenon
<1>4. CASE Reapply
  <2>1. (ready' => live' = txn.prev) /\ pc = "reapply"
    BY <1>4, Zenon DEF Reapply
  <2> QED
    BY <2>1, Zenon DEF SInv, LiveAt, ReadyAt
<1>5. CASE Crash
  BY <1>5, Zenon DEF Crash, ReadyAt
<1>6. CASE Load \/ Reload
  <2>1. (live' = live /\ (ready' => ready)) \/ live' # Absent
    BY <1>6, Zenon DEF Load, Reload
  <2> QED
    BY <2>1, Zenon DEF SInv, ReadyAt
<1> QED
  BY <1>1, <1>2, <1>3, <1>4, <1>5, <1>6, Zenon DEF Next, Transaction, Rollback

\* What a restart would load changes only at the commit.
LEMMA EffectiveStep ==
  ASSUME IInv, [Next]_vars
  PROVE  Effective' = Effective \/ pc \in {"commit", "lateCommit"}
<1> USE NoJournalAssumption
    DEF IInv, TypeOK, JournalRecoverable, DiskAt, Disk, Journal, Config, Txn, Effective, Write
<1>1. CASE BeginRefused \/ CancelledBeforeSave \/ Applied \/ ApplyRejected \/ Recheck \/ Pruned \/ Recover
           \/ AfterReplace \/ AfterRestore \/ Reapply \/ AfterStart \/ Crash \/ Start \/ Load \/ Reload
           \/ (\E c \in Clients : Read(c)) \/ (\E c \in Clients, cand \in Configs : Submit(c, cand))
           \/ UNCHANGED vars
  <2>1. disk' = disk
    BY <1>1, Zenon
    DEF BeginRefused, CancelledBeforeSave, Applied, ApplyRejected, Recheck, Pruned, Recover, AfterReplace,
        AfterRestore, Reapply, AfterStart, Crash, Start, Load, Reload, Read, Submit, vars
  <2> QED
    BY <2>1, Zenon
<1>2. CASE Backup
  BY <1>2, SMT DEF Backup
<1>3. CASE WriteJournal
  BY <1>3, SMT DEF WriteJournal
<1>4. CASE WriteSecret
  BY <1>4, SMT DEF WriteSecret
<1>5. CASE SaveCandidate
  BY <1>5, SMT DEF SaveCandidate
<1>6. CASE Commit \/ LateCommit
  BY <1>6, SMT DEF Commit, LateCommit
<1>7. CASE RemoveCommittedBackup
  BY <1>7, SMT DEF RemoveCommittedBackup
<1>8. CASE PruneSecret
  BY <1>8, SMT DEF PruneSecret
<1>9. CASE RestoreFile
  BY <1>9, SMT DEF RestoreFile
<1>10. CASE RemoveSecrets
  BY <1>10, SMT DEF RemoveSecrets
<1>11. CASE RemoveJournal
  BY <1>11, SMT DEF RemoveJournal
<1>12. CASE RemoveBackup
  BY <1>12, SMT DEF RemoveBackup
<1> QED
  BY <1>1, <1>2, <1>3, <1>4, <1>5, <1>6, <1>7, <1>8, <1>9, <1>10, <1>11, <1>12, Zenon
  DEF Next, Transaction, Rollback

\* SInv is an inductive invariant too.
LEMMA SteadyInvariance == Spec => []SInv
<1>1. Init => SInv
  <2> SUFFICES ASSUME Init PROVE SInv
    OBVIOUS
  <2>1. IInv
    BY Initially
  <2>2. /\ pc = "down" /\ mode = "start" /\ live = Absent /\ ~ready /\ outcome = "none" /\ faults = {}
        /\ disk.journal = NoJournal /\ disk.file = Absent
    BY Zenon DEF Init
  <2> QED
    BY <2>1, <2>2, AbsentAssumption, SMT
    DEF SInv, LiveAt, SecretsAt, SteadyAt, OkAt, ReadyAt, Effective, RefsOf, Preparing, RollingBack,
        Settled
<1>2. ASSUME SInv, [Next]_vars PROVE SInv'
  <2>1. IInv'
    BY <1>2, InvarianceStep DEF SInv
  <2> QED
    BY <1>2, <2>1, LiveStep, SecretsStep, SteadyStep, OkStep, ReadyLiveStep, Zenon DEF SInv
<1> QED
  BY <1>1, <1>2, PTL DEF Spec

\* Between two requests, a daemon that says it is ready runs the configuration that a restart
\* would load, as long as neither the unlink that commits nor the restoration has failed:
\* whichever other operations fail, how often, and whenever the process dies.
THEOREM DiskMatchesLiveCorrect == Spec => []DiskMatchesLive
<1>1. SInv => DiskMatchesLive
  <2>1. SInv => (ready => live # Absent)
    BY Zenon DEF SInv, ReadyAt
  <2>2. ASSUME SInv, faults \cap Decisive = {}, pc = "idle", live # Absent
        PROVE  live = Effective
    BY <2>2, SMT DEF SInv, SteadyAt
  <2> QED
    BY <2>1, <2>2, Zenon DEF DiskMatchesLive
<1> QED
  BY <1>1, SteadyInvariance, PTL

\* The secret files of the configuration a restart would load are on the disk: neither a
\* rollback nor the pruning takes one of them.
THEOREM SecretsKeptCorrect == Spec => []SecretsKept
<1>1. SInv => SecretsKept
  BY Zenon DEF SInv, SteadyAt, SecretsKept
<1> QED
  BY <1>1, SteadyInvariance, PTL

\* After an accepted request only the secrets of the running configuration are left, whatever
\* earlier transactions left behind.
THEOREM NoSecretLeftCorrect == Spec => []NoSecretLeft
<1>1. SInv => NoSecretLeft
  BY Zenon DEF SInv, OkAt, NoSecretLeft
<1> QED
  BY <1>1, SteadyInvariance, PTL

\* What a restart would load is replaced only by an edit of exactly that configuration.
THEOREM NoLostEditCorrect == Spec => NoLostEdit
<1>1. ASSUME SInv, [Next]_vars, faults \cap Decisive = {}, Effective' # Effective, txn.base # Absent
      PROVE  Effective = txn.base
  <2>1. pc \in {"commit", "lateCommit"}
    BY <1>1, EffectiveStep DEF SInv
  <2> QED
    BY <1>1, <2>1, SMT DEF SInv, SteadyAt, SecretsAt
<1>2. SInv /\ [Next]_vars =>
        [faults \cap Decisive = {} /\ Effective' # Effective /\ txn.base # Absent
           => Effective = txn.base]_vars
  BY <1>1
<1> QED
  BY <1>2, SteadyInvariance, PTL DEF Spec, NoLostEdit
=============================================================================
