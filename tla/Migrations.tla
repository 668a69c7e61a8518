------------------------------- MODULE Migrations -------------------------------
(***************************************************************************)
(* infrastructure/db/mod.rs Database::open and infrastructure/db/          *)
(* migrations.rs: processes open the metadata database at one path, back it*)
(* up and bring it to the newest version this application knows.  A        *)
(* process may end at any point, any call may fail, and another program    *)
(* may put another database at the path.  It puts a new file there: a file *)
(* that has left the path does not come back.                              *)
(*                                                                         *)
(* Each look at the path and each call that changes a file is one action;  *)
(* a look that only repeats the one before it is folded into the next.     *)
(* What SQLite promises is external: one writer per file, a transaction    *)
(* that is all or nothing across a crash, a backup step that copies what   *)
(* was committed.  The migrations' SQL is a version number appended.       *)
(***************************************************************************)
EXTENDS Naturals, Sequences

CONSTANTS
    Openers,     \* processes that open the database
    None,        \* nobody
    Newest,      \* the newest version in MIGRATIONS
    MaxFiles,    \* bound: database files that are ever created
    MaxCrashes   \* bound: processes that end

ASSUME MigrationsAssumption ==
    /\ None \notin Openers
    /\ Newest \in Nat \ {0}
    /\ MaxFiles \in Nat \ {0} /\ MaxCrashes \in Nat

VARIABLES
    path,      \* the file at the database path, 0 when there is none
    files,     \* how many files there have been: the identity of the newest
    applied,   \* schema_migrations of each file, as committed
    wal,       \* files switched to write-ahead logging
    lock,      \* the process in a write transaction on each file
    partial,   \* the partial backup of each process
    backups,   \* published backups
    op,        \* what each process is doing
    crashes    \* counter of the bound

vars == <<path, files, applied, wal, lock, partial, backups, op, crashes>>

Files == 1 .. MaxFiles
UpTo(n) == [i \in 1 .. n |-> i]
NoPartial == [at |-> "none", of |-> 0, applied |-> <<>>]
NoOp == [at |-> "idle", entry |-> 0, used |-> FALSE, conn |-> 0, id |-> 0, known |-> 0]

\* A database is what an earlier, this or a later version of the application left.
Init ==
    /\ path \in {0, 1}
    /\ files = path
    /\ \E n \in 0 .. Newest + 1 : applied = [i \in Files |-> IF i = path THEN UpTo(n) ELSE <<>>]
    /\ wal = {}
    /\ lock = [i \in Files |-> None]
    /\ partial = [o \in Openers |-> NoPartial]
    /\ backups = {}
    /\ op = [o \in Openers |-> NoOp]
    /\ crashes = 0

At(o, at) == op[o].at = at
Conn(o) == op[o].conn
Goto(o, at) == op' = [op EXCEPT ![o].at = at]

\* read_database_identity, verify_database_identity: the path names the file
\* whose identity was read after the open.
UnmovedByName(o) == path # 0
Unmoved(o) == path = op[o].id

\* Every error return, and the end of a process: the connection is closed and an
\* open transaction rolled back.
Leaves(o) ==
    /\ op' = [op EXCEPT ![o] = NoOp]
    /\ lock' = [i \in Files |-> IF lock[i] = o THEN None ELSE lock[i]]

\* create_consistent_backup removes the partial file whichever way it ends.
Fails(o) ==
    /\ ~At(o, "idle") /\ ~At(o, "ready")
    /\ Leaves(o)
    /\ partial' = [partial EXCEPT ![o] = NoPartial]
    /\ UNCHANGED <<path, files, applied, wal, backups, crashes>>

\* A process that ends leaves its partial file behind; its name holds the time and
\* the process id, and nobody looks at it again.
Crash(o) ==
    /\ ~At(o, "idle")
    /\ crashes < MaxCrashes
    /\ crashes' = crashes + 1
    /\ Leaves(o)
    /\ partial' = [partial EXCEPT ![o] = NoPartial]
    /\ UNCHANGED <<path, files, applied, wal, backups>>

\* validate_database_entry: a file of length zero counts as new.  A file without
\* migrations may have been written to or not.
Inspects(o) ==
    /\ At(o, "idle")
    /\ \E used \in IF path # 0 /\ applied[path] = <<>> THEN BOOLEAN ELSE {path # 0} :
          op' = [op EXCEPT ![o] = [NoOp EXCEPT !.at = "open", !.entry = path, !.used = used]]
    /\ UNCHANGED <<path, files, applied, wal, lock, partial, backups, crashes>>

\* Connection::open_with_flags, which creates a file that is not there.
Opens(o) ==
    /\ At(o, "open")
    /\ IF path # 0
         THEN UNCHANGED <<path, files>>
         ELSE /\ files < MaxFiles
              /\ path' = files + 1
              /\ files' = files + 1
    /\ op' = [op EXCEPT ![o].at = "identify", ![o].conn = path']
    /\ UNCHANGED <<applied, wal, lock, partial, backups, crashes>>

\* The identity is that of the path after the open; it must be the inspected one.
Identifies(o) ==
    /\ At(o, "identify")
    /\ op[o].entry = 0 \/ op[o].entry = path
    /\ op' = [op EXCEPT ![o].at = "preflight", ![o].id = path]
    /\ UNCHANGED <<path, files, applied, wal, lock, partial, backups, crashes>>

\* validate_applied_prefix: nothing this application does not know.
AnyPrefix(s) == s = UpTo(Len(s))
KnownPrefix(s) == Len(s) <= Newest /\ s = UpTo(Len(s))

\* preflight, before anything is written to the file.
Preflights(o) ==
    /\ At(o, "preflight")
    /\ KnownPrefix(applied[Conn(o)])
    /\ Goto(o, "configure")
    /\ UNCHANGED <<path, files, applied, wal, lock, partial, backups, crashes>>

\* The permissions and configure_durable_connection.
Configures(o) ==
    /\ At(o, "configure")
    /\ Unmoved(o)
    /\ wal' = wal \cup {Conn(o)}
    /\ Goto(o, "begin")
    /\ UNCHANGED <<path, files, applied, lock, partial, backups, crashes>>

LockIgnored(i) == TRUE
LockFree(i) == lock[i] = None

\* run_migrations: the immediate transaction, and what is applied as seen inside
\* it.  With nothing pending it is committed and the database is open.
Begins(o) ==
    /\ At(o, "begin")
    /\ LockFree(Conn(o))
    /\ Unmoved(o)
    /\ LET known == applied[Conn(o)]
       IN  /\ KnownPrefix(known)
           /\ IF Len(known) = Newest
                THEN Goto(o, "ready") /\ UNCHANGED lock
                ELSE /\ lock' = [lock EXCEPT ![Conn(o)] = o]
                     /\ op' = [op EXCEPT ![o].known = Len(known),
                                 ![o].at = IF op[o].used THEN "reserve" ELSE "apply"]
    /\ UNCHANGED <<path, files, applied, wal, partial, backups, crashes>>

PublishesFirst(o) ==
    /\ At(o, "reserve")
    /\ Unmoved(o)
    /\ partial' = [partial EXCEPT ![o].at = "reserved"]
    /\ backups' = backups \cup {[of |-> 0, applied |-> <<>>]}
    /\ Goto(o, "source")
    /\ UNCHANGED <<path, files, applied, wal, lock, crashes>>
\* reserve_backup_paths: an empty private file under a partial name.
Reserves(o) ==
    /\ At(o, "reserve")
    /\ Unmoved(o)
    /\ partial' = [partial EXCEPT ![o].at = "reserved"]
    /\ Goto(o, "source")
    /\ UNCHANGED <<path, files, applied, wal, lock, backups, crashes>>

\* populate_backup: the source is opened by its path, then the path is looked at.
OpensSource(o) ==
    /\ At(o, "source")
    /\ partial' = [partial EXCEPT ![o].of = path]
    /\ Goto(o, "copy")
    /\ UNCHANGED <<path, files, applied, wal, lock, backups, crashes>>

\* copy_database: what is committed in the source; the partial file is synced.
Copies(o) ==
    /\ At(o, "copy")
    /\ Unmoved(o)
    /\ partial' = [partial EXCEPT ![o].at = "copied", ![o].applied = applied[partial[o].of]]
    /\ Goto(o, "publish")
    /\ UNCHANGED <<path, files, applied, wal, lock, backups, crashes>>

\* hard_link to the final name, then the partial name is removed.  A parent
\* directory that cannot be synced fails the start with the backup in place.
Publishes(o) ==
    /\ At(o, "publish")
    /\ Unmoved(o)
    /\ backups' = backups \cup {[of |-> partial[o].of, applied |-> partial[o].applied]}
    /\ partial' = [partial EXCEPT ![o] = NoPartial]
    /\ \/ Goto(o, "apply") /\ UNCHANGED lock
       \/ Leaves(o)
    /\ UNCHANGED <<path, files, applied, wal, crashes>>

\* Each pending migration with its row, the foreign keys, a last look at the
\* path, and the commit.
Commits(o) ==
    /\ At(o, "apply")
    /\ Unmoved(o)
    /\ applied' = [applied EXCEPT ![Conn(o)] =
                     @ \o [i \in 1 .. Newest - op[o].known |-> op[o].known + i]]
    /\ lock' = [lock EXCEPT ![Conn(o)] = None]
    /\ Goto(o, "ready")
    /\ UNCHANGED <<path, files, wal, partial, backups, crashes>>

\* Another program puts a database, of any version, in the place of the one there.
Replaced ==
    /\ path # 0
    /\ files < MaxFiles
    /\ path' = files + 1
    /\ files' = files + 1
    /\ \E n \in 0 .. Newest + 1 : applied' = [applied EXCEPT ![files + 1] = UpTo(n)]
    /\ UNCHANGED <<wal, lock, partial, backups, op, crashes>>

Next ==
    \/ \E o \in Openers :
          \/ Fails(o) \/ Crash(o)
          \/ Inspects(o) \/ Opens(o) \/ Identifies(o) \/ Preflights(o) \/ Configures(o)
          \/ Begins(o) \/ Reserves(o) \/ OpensSource(o) \/ Copies(o) \/ Publishes(o)
          \/ Commits(o)
    \/ Replaced

Spec == Init /\ [][Next]_vars

-----------------------------------------------------------------------------
(* Properties                                                               *)

\* A start that succeeded has a file with every known migration applied once and
\* in order, whoever else was opening, failing or ending at the time
\* (run_migrations).
ReadyIsCurrent == \A o \in Openers : At(o, "ready") => applied[Conn(o)] = UpTo(Newest)

\* A database that was there with content is only ever changed to the newest
\* version with a published backup of exactly that file, as it was, beside it
\* (run_migrations, create_consistent_backup).
MigratedIsBackedUp ==
    [][\A o \in Openers :
          At(o, "apply") /\ op'[o].at = "ready" /\ op[o].used =>
              [of |-> Conn(o), applied |-> applied[Conn(o)]] \in backups]_vars

\* Whatever has the name of a backup is the whole of a database from before its
\* migration, even after a process ended half way (populate_backup).
BackupsAreWhole ==
    \A b \in backups : /\ b.of # 0
                       /\ Len(b.applied) < Newest
                       /\ b.applied = SubSeq(applied[b.of], 1, Len(b.applied))

\* A database of a later version of the application is left as it is
\* (preflight before configure_durable_connection).
NewerIsUntouched == \A i \in Files : Len(applied[i]) > Newest => i \notin wal
=============================================================================
