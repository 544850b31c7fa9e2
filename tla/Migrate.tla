------------------------------ MODULE Migrate ------------------------------
(***************************************************************************)
(* The start of the servers of server/cmd/server/main.go on one database:  *)
(* DB.Migrate of server/internal/database/postgres.go, then serving.       *)
(* Servers crash at any point and are started again; they may be of        *)
(* different releases, with more or fewer migration files.                 *)
(*                                                                         *)
(* PostgreSQL is external: the advisory lock belongs to a session and ends *)
(* with it, a transaction that does not commit leaves nothing, and the     *)
(* primary key of schema_migrations fails a second insert of a file.       *)
(***************************************************************************)
EXTENDS Integers, FiniteSets

CONSTANTS
    Servers,
    Files,       \* server -> the number of its migration files, in lexical order
    MaxConns,    \* connections of a server's pool
    MaxCrashes,  \* bound: crashes and failed statements
    NOBODY

ASSUME MigrateAssumption ==
    /\ Files \in [Servers -> Nat]
    /\ MaxConns \in Nat \ {0} /\ MaxCrashes \in Nat
    /\ NOBODY \notin Servers

VARIABLES
    pc,        \* of each server
    next,      \* the file each server is at
    lock,      \* holder of the advisory lock
    applied,   \* rows of schema_migrations
    runs,      \* history: how often the SQL of each file was committed
    crashes,
    clashed    \* history: servers that failed because another one was migrating

migrateVars == <<pc, next, lock, applied, runs, crashes, clashed>>

AllFiles == UNION {1 .. Files[s] : s \in Servers}

MInit ==
    /\ pc = [s \in Servers |-> "down"]
    /\ next = [s \in Servers |-> 1]
    /\ lock = NOBODY
    /\ applied = {}
    /\ runs = [f \in AllFiles |-> 0]
    /\ crashes = 0
    /\ clashed = {}

\* The session of the lock is one of the pool's connections; a statement needs another.
Query(s) == MaxConns >= 2

Start(s) ==
    /\ pc[s] = "down"
    /\ pc' = [pc EXCEPT ![s] = "lock"]
    /\ next' = [next EXCEPT ![s] = 1]
    /\ UNCHANGED <<lock, applied, runs, crashes, clashed>>

\* Mutant: there is no lock.
LockFree_Always == TRUE

\* pg_advisory_lock waits until nobody has it.
LockFree == lock = NOBODY

AcquireLock(s) ==
    /\ pc[s] = "lock"
    /\ LockFree
    /\ lock' = s
    /\ pc' = [pc EXCEPT ![s] = "check"]
    /\ UNCHANGED <<next, applied, runs, crashes, clashed>>

\* Mutant: the last file is forgotten.
Finished_Early(s) == next[s] >= Files[s]

\* The end of the loop over the files.
Finished(s) == next[s] > Files[s]

\* isMigrationApplied, for the next file.
CheckFile(s) ==
    /\ pc[s] = "check" /\ ~Finished(s)
    /\ Query(s)
    /\ IF next[s] \in applied
       THEN next' = [next EXCEPT ![s] = @ + 1] /\ UNCHANGED pc
       ELSE pc' = [pc EXCEPT ![s] = "apply"] /\ UNCHANGED next
    /\ UNCHANGED <<lock, applied, runs, crashes, clashed>>

\* Mutant: the file is not marked.
Marked_Not(f) == applied

\* INSERT INTO schema_migrations.
Marked(f) == applied \cup {f}

\* applyMigration: the file and its mark commit together, or not at all when the file
\* is marked already: the server then exits.
ApplyFile(s) ==
    /\ pc[s] = "apply"
    /\ Query(s)
    /\ IF next[s] \in applied
       THEN /\ pc' = [pc EXCEPT ![s] = "down"]
            /\ clashed' = clashed \cup {s}
            /\ lock' = IF lock = s THEN NOBODY ELSE lock
            /\ UNCHANGED <<next, applied, runs>>
       ELSE /\ applied' = Marked(next[s])
            /\ runs' = [runs EXCEPT ![next[s]] = @ + 1]
            /\ next' = [next EXCEPT ![s] = @ + 1]
            /\ pc' = [pc EXCEPT ![s] = "check"]
            /\ UNCHANGED <<lock, clashed>>
    /\ UNCHANGED crashes

\* Mutant: the connection goes back to the pool with the lock.
Unlocked_Not == lock

\* The deferred pg_advisory_unlock.
Unlocked == NOBODY

\* All files are applied; the server serves.
Serve(s) ==
    /\ pc[s] = "check" /\ Finished(s)
    /\ lock' = Unlocked
    /\ pc' = [pc EXCEPT ![s] = "serving"]
    /\ UNCHANGED <<next, applied, runs, crashes, clashed>>

\* A crash, or an error of a statement, on which main exits: the session ends.
Crash(s) ==
    /\ crashes < MaxCrashes
    /\ pc[s] # "down"
    /\ crashes' = crashes + 1
    /\ pc' = [pc EXCEPT ![s] = "down"]
    /\ lock' = IF lock = s THEN NOBODY ELSE lock
    /\ UNCHANGED <<next, applied, runs, clashed>>

Preparing(s) == Start(s) \/ AcquireLock(s) \/ CheckFile(s) \/ ApplyFile(s)

MNext == \E s \in Servers : Preparing(s) \/ Serve(s) \/ Crash(s)

MSpec == MInit /\ [][MNext]_migrateVars

-----------------------------------------------------------------------------
\* The types of the variables.
MTypeOK ==
    /\ pc \in [Servers -> {"down", "lock", "check", "apply", "serving"}]
    /\ next \in [Servers -> Nat]
    /\ lock \in Servers \cup {NOBODY}
    /\ applied \subseteq AllFiles
    /\ runs \in [AllFiles -> Nat]
    /\ crashes \in Nat
    /\ clashed \subseteq Servers

\* Migrate: the files took effect in order and without a gap, each of the marked ones
\* once and no other at all, with servers of several releases and crashes between.
AppliedInOrder ==
    /\ \A f \in applied : 1 .. f \subseteq applied
    /\ \A f \in AllFiles : runs[f] = IF f \in applied THEN 1 ELSE 0

\* main: whoever serves has the schema of its release.
ServesMigrated ==
    \A s \in Servers : pc[s] = "serving" => 1 .. Files[s] \subseteq applied

\* The advisory lock: servers that start together do not fail for it.
NobodyClashes == clashed = {}
=============================================================================
