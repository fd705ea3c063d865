-------------------------- MODULE ConfigTransaction --------------------------
(***************************************************************************)
(* Replacing the configuration of a running daemon: the journal, backup    *)
(* and secret files of storage.py (begin, recover and commit of            *)
(* config_replace, prune_transaction_secrets) as driven by ProberService:  *)
(* replace_config, reload_config, and the recovery in start().             *)
(*                                                                         *)
(* One step is one durable file operation.  Each may fail, with or without *)
(* its effect (os.replace done, fsync of the directory failed), and the    *)
(* process may die between any two of them.  All of it runs under the      *)
(* service's _mutation_lock, so one transaction is in progress at a time;  *)
(* the clients that edit the configuration are concurrent, and protected   *)
(* only by the revision they send along.                                   *)
(*                                                                         *)
(* A configuration is a value with the transaction secrets it refers to;   *)
(* the executor that _apply_config builds is reduced to whether it is up.  *)
(* Left out: edits of the file by hand, damage to the journal from         *)
(* outside, loss of unsynced data when the machine itself goes down, and a *)
(* second cancellation of a request that is already being cancelled.       *)
(***************************************************************************)
EXTENDS Naturals, FiniteSets

CONSTANTS
    Configs,      \* configurations
    Secrets,      \* names of transaction secret files
    Refs,         \* the secret files each configuration refers to
    Clients,      \* CLI processes that edit the configuration
    FaultyOps,    \* the file operations that may fail
    MaxFaults,    \* bound: kinds of operations that fail in a behaviour
    Cancellation, \* may a request be cancelled while it is applied?
    Absent, NoJournal

Ops == {"backup", "journal", "secret", "save", "commit", "restore",
        "unsecret", "unjournal", "unbackup", "prune"}

ASSUME RefsAssumption == Refs \in [Configs -> SUBSET Secrets]
ASSUME FaultAssumption == FaultyOps \subseteq Ops /\ MaxFaults \in Nat
ASSUME CancellationBoolean == Cancellation \in BOOLEAN
ASSUME AbsentAssumption == Absent \notin Configs
ASSUME NoJournalAssumption ==
    NoJournal \notin [prev : Configs \cup {Absent}, secrets : SUBSET Secrets]

VARIABLES
    disk,     \* the files: config, its backup, the journal, the secrets
    live,     \* self.config
    ready,    \* self.ready
    pc,       \* the step the daemon is at
    mode,     \* who called recover_config_replace
    txn,      \* the request being served
    req,      \* its candidate, until its fate is decided
    outcome,  \* how the last request ended for its caller
    seen,     \* the configuration each client has read
    faults    \* the kinds of file operations that have failed so far

vars == <<disk, live, ready, pc, mode, txn, req, outcome, seen, faults>>

Config == Configs \cup {Absent}
Journal == [prev : Config, secrets : SUBSET Secrets]
Disk == [file : Config, backup : Config, journal : Journal \cup {NoJournal},
         secrets : SUBSET Secrets]
Txn == [cand : Config, base : Config, prev : Config, secrets : SUBSET Secrets]
NoTxn == [cand |-> Absent, base |-> Absent, prev |-> Absent, secrets |-> {}]

RefsOf(c) == IF c \in Configs THEN Refs[c] ELSE {}

Steps == {"down", "recover", "load", "idle", "begin", "journal", "secrets",
          "apply", "commit", "lateCommit", "recheck", "unbackup",
          "restore", "removeSecrets", "removeJournal", "removeBackup",
          "rolledBack", "rollbackFailed", "reapply", "prune"}

\* The configuration a restart would end up with: recovery puts back the one
\* the journal recorded, and without a journal the file itself is loaded.
Effective == IF disk.journal # NoJournal THEN disk.journal.prev ELSE disk.file

Init ==
    /\ disk = [file |-> Absent, backup |-> Absent, journal |-> NoJournal, secrets |-> {}]
    /\ live = Absent /\ ready = FALSE
    /\ pc = "down" /\ mode = "start"
    /\ txn = NoTxn
    /\ req = Absent /\ outcome = "none"
    /\ seen = [c \in Clients |-> Absent]
    /\ faults = {}

-----------------------------------------------------------------------------
\* atomic_write_bytes() or durable_unlink(): new is the disk after it.  It
\* raises StorageError with the effect done or not.
Write(op, new, next, failed) ==
    \/ disk' = new /\ pc' = next /\ UNCHANGED faults
    \/ /\ op \in FaultyOps /\ Cardinality(faults \cup {op}) <= MaxFaults
       /\ faults' = faults \cup {op}
       /\ disk' \in {disk, new} /\ pc' = failed

service == <<live, ready, mode, txn, req, outcome, seen>>

\* The request is refused: what it has done so far is rolled back.
Refuse == /\ req' = Absent /\ outcome' = "error" /\ mode' = "replace"
          /\ UNCHANGED <<live, ready, txn, seen>>

-----------------------------------------------------------------------------
\* A client reads the running configuration and its revision (the command
\* config_for_edit), or finds that there is no configuration file at all.
Read(c) ==
    /\ \/ pc # "down" /\ live # Absent /\ seen' = [seen EXCEPT ![c] = live]
       \/ disk.file = Absent /\ seen' = [seen EXCEPT ![c] = Absent]
    /\ UNCHANGED <<disk, live, ready, pc, mode, txn, req, outcome, faults>>

\* Mutant: no revision is compared, every request is taken as an edit of what
\* is running.
SubmitUnchecked(c, cand) ==
    /\ pc = "idle"
    /\ txn' = [cand |-> cand, base |-> seen[c], prev |-> live,
               secrets |-> RefsOf(cand) \ RefsOf(live)]
    /\ req' = cand /\ outcome' = "none"
    /\ pc' = "begin"
    /\ UNCHANGED <<disk, live, ready, mode, seen, faults>>

\* replace_config() up to the first file operation.  The CLI stores a secret
\* for every reference its edit adds and sends the revision it has read.
Submit(c, cand) ==
    /\ pc = "idle"
    /\ seen[c] = live
    /\ txn' = [cand |-> cand, base |-> seen[c], prev |-> live,
               secrets |-> RefsOf(cand) \ RefsOf(seen[c])]
    /\ req' = cand /\ outcome' = "none"
    /\ pc' = "begin"
    /\ UNCHANGED <<disk, live, ready, mode, seen, faults>>

\* begin_config_replace(): refused while another transaction is unfinished or
\* one of the secret files exists, otherwise the old file is backed up...
BeginRefused ==
    /\ pc = "begin"
    /\ disk.journal # NoJournal \/ txn.secrets \cap disk.secrets # {}
    /\ pc' = "recover" /\ Refuse
    /\ UNCHANGED <<disk, faults>>

Backup ==
    /\ pc = "begin"
    /\ disk.journal = NoJournal /\ txn.secrets \cap disk.secrets = {}
    /\ Write("backup", [disk EXCEPT !.backup = disk.file], "journal", "recover")
    /\ IF pc' = "journal" THEN UNCHANGED service ELSE Refuse

\* Mutant: the journal does not name the new secrets.
WriteJournalWithoutSecrets ==
    /\ pc = "journal"
    /\ Write("journal", [disk EXCEPT !.journal = [prev |-> disk.file]],
             "secrets", "recover")
    /\ IF pc' = "secrets" THEN UNCHANGED service ELSE Refuse

\* ... and the journal that names it is written.
WriteJournal ==
    /\ pc = "journal"
    /\ Write("journal",
             [disk EXCEPT !.journal = [prev |-> disk.file, secrets |-> txn.secrets]],
             "secrets", "recover")
    /\ IF pc' = "secrets" THEN UNCHANGED service ELSE Refuse

\* write_new_secret(), once per secret
WriteSecret ==
    /\ pc = "secrets"
    /\ \E s \in txn.secrets \ disk.secrets :
          Write("secret", [disk EXCEPT !.secrets = @ \cup {s}], "secrets", "recover")
    /\ IF pc' = "secrets" THEN UNCHANGED service ELSE Refuse

\* The caller is cancelled: _critical_to_thread raises once begin or the secret
\* in hand is done.
CancelledBeforeSave ==
    /\ pc = "secrets" /\ Cancellation
    /\ pc' = "recover" /\ Refuse
    /\ UNCHANGED <<disk, faults>>

\* save_app_config()
SaveCandidate ==
    /\ pc = "secrets"
    /\ txn.secrets \subseteq disk.secrets
    /\ Write("save", [disk EXCEPT !.file = txn.cand], "apply", "recover")
    /\ IF pc' = "apply" THEN UNCHANGED service ELSE Refuse

\* _apply_config(candidate) succeeds, and with it the swap of the executor; a
\* caller cancelled meanwhile raises _ConfigApplyCommittedCancellation.
Applied ==
    /\ pc = "apply"
    /\ pc' \in {"commit"} \cup (IF Cancellation THEN {"lateCommit"} ELSE {})
    /\ live' = txn.cand /\ ready' = TRUE
    /\ UNCHANGED <<disk, mode, txn, req, outcome, seen, faults>>

\* _apply_config(candidate) raises: before the old executor is touched, or
\* while it is being stopped, which costs the readiness.
ApplyRejected ==
    /\ pc = "apply"
    /\ pc' = "recover"
    /\ ready' \in {ready, FALSE}
    /\ req' = Absent /\ outcome' = "error" /\ mode' = "replace"
    /\ UNCHANGED <<disk, live, txn, seen, faults>>

\* Mutant: the unlink of the journal is best effort, as that of the backup is.
CommitBestEffort ==
    /\ pc = "commit"
    /\ Write("commit", [disk EXCEPT !.journal = NoJournal], "unbackup", "unbackup")
    /\ req' = Absent /\ outcome' = "ok"
    /\ UNCHANGED <<live, ready, mode, txn, seen>>

\* commit_config_replace() up to the unlink of the journal, the commit point.
\* When it raises, or the caller is cancelled, what happened is looked up.
Commit ==
    /\ pc = "commit"
    /\ Write("commit", [disk EXCEPT !.journal = NoJournal], "unbackup", "recheck")
    /\ IF disk'.journal = NoJournal
       THEN /\ req' = Absent
            /\ outcome' \in IF pc' = "recheck" THEN {"error"}
                            ELSE {"ok"} \cup (IF Cancellation THEN {"error"} ELSE {})
       ELSE UNCHANGED <<req, outcome>>
    /\ UNCHANGED <<live, ready, mode, txn, seen>>

\* The handler of a commit that raised: the candidate stays if the journal is
\* gone, and is rolled back if it is not.
Recheck ==
    /\ pc = "recheck"
    /\ \/ disk.journal = NoJournal /\ pc' = "prune" /\ UNCHANGED <<req, outcome, mode>>
       \/ /\ disk.journal # NoJournal
          /\ pc' = "recover" /\ mode' = "restore"
          /\ req' = Absent /\ outcome' = "error"
    /\ UNCHANGED <<disk, live, ready, txn, seen, faults>>

\* Mutant: a committed cancellation is rolled back like any other.
LateCommitRolledBack ==
    /\ pc = "lateCommit"
    /\ pc' = "recover" /\ Refuse
    /\ UNCHANGED <<disk, faults>>

\* The commit after a committed cancellation: nothing handles its failure.
LateCommit ==
    /\ pc = "lateCommit"
    /\ Write("commit", [disk EXCEPT !.journal = NoJournal], "unbackup", "idle")
    /\ req' = Absent /\ outcome' = "error"
    /\ UNCHANGED <<live, ready, mode, txn, seen>>

\* The rest of commit_config_replace(): best effort.
RemoveCommittedBackup ==
    /\ pc = "unbackup"
    /\ Write("unbackup", [disk EXCEPT !.backup = Absent], "prune", "prune")
    /\ UNCHANGED service

\* Mutant: prunes for the candidate, accepted or not.
PruneForCandidate ==
    /\ pc = "prune"
    /\ \E s \in disk.secrets \ RefsOf(txn.cand) :
          Write("prune", [disk EXCEPT !.secrets = @ \ {s}], "prune", "idle")
    /\ UNCHANGED service

\* prune_transaction_secrets() with what the running configuration refers to,
\* one file at a time.  A failure is logged, except by the start() of a daemon
\* without a configuration, which gives up.
PruneSecret ==
    /\ pc = "prune"
    /\ \E s \in disk.secrets \ RefsOf(live) :
          Write("prune", [disk EXCEPT !.secrets = @ \ {s}], "prune",
                IF mode = "start" /\ live = Absent THEN "down" ELSE "idle")
    /\ UNCHANGED service

\* Mutant: secrets that earlier transactions left are not looked for.
PrunedNothing ==
    /\ pc = "prune"
    /\ pc' = "idle"
    /\ UNCHANGED <<disk, faults>> /\ UNCHANGED service

Pruned ==
    /\ pc = "prune" /\ disk.secrets \subseteq RefsOf(live)
    /\ pc' = "idle"
    /\ UNCHANGED <<disk, faults>> /\ UNCHANGED service

-----------------------------------------------------------------------------
\* recover_config_replace(), which is also rollback_config_replace(): without
\* a journal only a left-over backup is removed.
Recover ==
    /\ pc = "recover"
    /\ \/ disk.journal = NoJournal /\ pc' = "removeBackup"
       \/ disk.journal # NoJournal /\ pc' = "restore"
    /\ UNCHANGED <<disk, faults>> /\ UNCHANGED service

\* Mutant: the backup is renamed over the file, not copied.
RestoreByRename ==
    /\ pc = "restore"
    /\ disk.backup = disk.journal.prev
    /\ Write("restore", [disk EXCEPT !.file = disk.journal.prev, !.backup = Absent],
             "removeSecrets", "rollbackFailed")
    /\ UNCHANGED service

\* The old configuration is put back (or removed, when there was none).  The
\* digest in the journal is checked first; JournalRecoverable says it matches.
RestoreFile ==
    /\ pc = "restore"
    /\ disk.backup = disk.journal.prev
    /\ Write("restore", [disk EXCEPT !.file = disk.journal.prev],
             "removeSecrets", "rollbackFailed")
    /\ UNCHANGED service

RemoveSecrets ==
    /\ pc = "removeSecrets"
    /\ \/ \E s \in disk.journal.secrets \cap disk.secrets :
             Write("unsecret", [disk EXCEPT !.secrets = @ \ {s}],
                   "removeSecrets", "rollbackFailed")
       \/ /\ disk.journal.secrets \cap disk.secrets = {}
          /\ pc' = "removeJournal" /\ UNCHANGED <<disk, faults>>
    /\ UNCHANGED service

RemoveJournal ==
    /\ pc = "removeJournal"
    /\ Write("unjournal", [disk EXCEPT !.journal = NoJournal],
             "removeBackup", "rollbackFailed")
    /\ UNCHANGED service

RemoveBackup ==
    /\ pc = "removeBackup"
    /\ Write("unbackup", [disk EXCEPT !.backup = Absent], "rolledBack", "rollbackFailed")
    /\ UNCHANGED service

\* Back in the caller of the rollback.  A refused request prunes for the old
\* configuration, done or not; a failed commit applies it again; start() loads
\* what is there, and gives up if the recovery failed.
AfterReplace ==
    /\ mode = "replace" /\ pc \in {"rolledBack", "rollbackFailed"}
    /\ pc' = IF txn.prev # Absent THEN "prune" ELSE "idle"
    /\ UNCHANGED <<disk, faults>> /\ UNCHANGED service

AfterRestore ==
    /\ mode = "restore"
    /\ \/ /\ pc = "rolledBack" /\ txn.prev # Absent
          /\ pc' = "reapply" /\ UNCHANGED ready
       \/ /\ pc = "rollbackFailed" \/ (pc = "rolledBack" /\ txn.prev = Absent)
          /\ pc' = "idle" /\ ready' = FALSE
    /\ UNCHANGED <<disk, live, mode, txn, req, outcome, seen, faults>>

\* Mutant: a failed restoration is tried again at once.
ReapplyRetried ==
    /\ pc = "reapply"
    /\ \/ live' = txn.prev /\ ready' = TRUE /\ pc' = "prune"
       \/ UNCHANGED live /\ ready' = FALSE /\ pc' = "recover"
    /\ UNCHANGED <<disk, mode, txn, req, outcome, seen, faults>>

Reapply ==
    /\ pc = "reapply"
    /\ \/ live' = txn.prev /\ ready' = TRUE /\ pc' = "prune"
       \/ UNCHANGED live /\ ready' = FALSE /\ pc' = "idle"
    /\ UNCHANGED <<disk, mode, txn, req, outcome, seen, faults>>

AfterStart ==
    /\ mode = "start" /\ pc \in {"rolledBack", "rollbackFailed"}
    /\ pc' = IF pc = "rolledBack" THEN "load" ELSE "down"
    /\ UNCHANGED <<disk, faults>> /\ UNCHANGED service

-----------------------------------------------------------------------------
\* The process dies, or is stopped.
Crash ==
    /\ pc # "down"
    /\ pc' = "down" /\ mode' = "start"
    /\ live' = Absent /\ ready' = FALSE
    /\ txn' = NoTxn
    /\ req' = Absent /\ outcome' = "none"
    /\ UNCHANGED <<disk, seen, faults>>

\* start(), with the recovery of an interrupted transaction first
Start ==
    /\ pc = "down"
    /\ pc' = "recover"
    /\ UNCHANGED <<disk, faults>> /\ UNCHANGED service

\* start() loads the file, if there is one, and applies it; a configuration
\* that is rejected leaves the daemon up without one and prunes nothing.
Load ==
    /\ pc = "load"
    /\ \/ disk.file = Absent /\ pc' = "prune" /\ UNCHANGED <<live, ready>>
       \/ /\ disk.file # Absent
          /\ \/ live' = disk.file /\ ready' = TRUE /\ pc' = "prune"
             \/ pc' = "idle" /\ UNCHANGED <<live, ready>>
    /\ UNCHANGED <<disk, mode, txn, req, outcome, seen, faults>>

\* reload_config() loads and applies the file as it is.
Reload ==
    /\ pc = "idle" /\ disk.file # Absent
    /\ \/ live' = disk.file /\ ready' = TRUE
       \/ UNCHANGED live /\ ready' \in {ready, FALSE}
    /\ UNCHANGED <<disk, pc, mode, txn, req, outcome, seen, faults>>

Transaction ==
    \/ BeginRefused \/ Backup \/ WriteJournal \/ WriteSecret \/ CancelledBeforeSave
    \/ SaveCandidate \/ Applied \/ ApplyRejected \/ Commit \/ Recheck \/ LateCommit
    \/ RemoveCommittedBackup \/ PruneSecret \/ Pruned

Rollback ==
    \/ Recover \/ RestoreFile \/ RemoveSecrets \/ RemoveJournal \/ RemoveBackup
    \/ AfterReplace \/ AfterRestore \/ Reapply \/ AfterStart

Next ==
    \/ Transaction \/ Rollback \/ Crash \/ Start \/ Load \/ Reload
    \/ \E c \in Clients : Read(c) \/ \E cand \in Configs : Submit(c, cand)

Spec == Init /\ [][Next]_vars

\* The daemon goes on with what it has begun; thread and file operations end.
FairSpec == Spec /\ WF_vars(Transaction) /\ WF_vars(Rollback) /\ WF_vars(Load)

-----------------------------------------------------------------------------
TypeOK ==
    /\ disk \in Disk
    /\ live \in Config /\ ready \in BOOLEAN
    /\ pc \in Steps /\ mode \in {"start", "replace", "restore"}
    /\ txn \in Txn
    /\ req \in Config /\ outcome \in {"none", "ok", "error"}
    /\ seen \in [Clients -> Config]
    /\ faults \in SUBSET FaultyOps

\* Whenever there is a journal, the backup it names is intact: recovery never
\* fails for want of the old configuration, whenever the process dies and
\* whichever file operation fails.
JournalRecoverable == disk.journal # NoJournal => disk.backup = disk.journal.prev

\* The operations whose failure leaves a transaction half decided: the unlink
\* that commits it, and the restoration of the file in a rollback.  The journal
\* stays, and what the daemon runs and what a restart would load part ways until
\* that restart (service.py:651 and service.py:661 only log it).
Decisive == {"commit", "restore"}

\* Between two requests, a daemon that says it is ready runs the configuration
\* that a restart would load, whichever other operations fail, and how often.
DiskMatchesLive ==
    faults \cap Decisive = {} /\ pc = "idle" /\ ready => live = Effective

\* The secret files of the configuration a restart would load exist.
SecretsKept == faults \cap Decisive = {} => RefsOf(Effective) \subseteq disk.secrets

\* After an accepted request no transaction secret is left that the new
\* configuration does not refer to, whatever earlier crashes and failures left
\* behind, unless the pruning itself has failed.
NoSecretLeft ==
    /\ "prune" \notin faults
    /\ pc = "idle" /\ outcome = "ok"
    => disk.secrets \subseteq RefsOf(live)

\* A request that started from an existing configuration replaces exactly that
\* one: two editors who have read the same revision do not overwrite each other.
NoLostEdit ==
    [][/\ faults \cap Decisive = {}
       /\ Effective' # Effective /\ txn.base # Absent
       => Effective = txn.base]_vars

\* Every request and every rollback comes to an end.
TransactionTerminates == (pc \notin {"idle", "down"}) ~> (pc \in {"idle", "down"})

\* The daemon implements the atomic register.
Register == INSTANCE ConfigRegister WITH val <- Effective
RefinesRegister == Register!Spec
=============================================================================
