\* Operations of any two kinds may fail, each as often as it likes, and the
\* process may die at any step.  The client may send an edit of any revision it
\* has read, however old: for the daemon, two editors are no more than that.
SPECIFICATION FairSpec
CONSTANTS
    c1 = c1  c2 = c2  c3 = c3  s1 = s1  s2 = s2
    Configs = {c1, c2, c3}
    Secrets = {s1, s2}
    Refs <- MCRefs
    Clients = {e1}
    Absent = Absent
    NoJournal = NoJournal
    FaultyOps = {"backup", "journal", "secret", "save", "commit", "restore", "unsecret",
                 "unjournal", "unbackup", "prune"}
    MaxFaults = 2
    Cancellation = TRUE
INVARIANTS JournalRecoverable DiskMatchesLive SecretsKept NoSecretLeft
PROPERTIES NoLostEdit TransactionTerminates RefinesRegister
