------------------------------ MODULE Migrations ------------------------------
(***************************************************************************)
(* packages/db/src/migrations.ts: the runner that applies the numbered     *)
(* files of supabase/migrations.  A database is its schema_migrations rows *)
(* and the bodies that were run on it; a deployment finds some files on    *)
(* disk, may die before any of them, and may have read schema_migrations   *)
(* before another deployment wrote to it.                                  *)
(***************************************************************************)
EXTENDS Integers, Sequences, FiniteSets, SequencesExt

Empty == [table |-> <<>>, schema |-> <<>>]

\* The first n rows: all of them, or those there were when another deployment began.
Read(table, n) == SubSeq(table, 1, IF n < Len(table) THEN n ELSE Len(table))

Applied(table) == {row[1] : row \in Range(table)}
Checksum(table, version) == CHOOSE body \in {row[2] : row \in {r \in Range(table) : r[1] = version}} : TRUE

\* loadMigrations: files is a function of the versions on disk.  A file's name begins with
\* its version in four digits, so that filename order is the order of the versions.
Versions == 1..9999
Newest(files) == CHOOSE version \in DOMAIN files : \A other \in DOMAIN files : other <= version

\* One file: skipped if applied, refused if applied with other contents; else its body
\* and its row in one transaction, which the primary key refuses as a whole when another
\* deployment has been faster.
MigrateFile(run, version, files, seen, diesAt) ==
    IF run.stopped # "no" THEN run
    ELSE IF version \in Applied(seen)
         THEN IF Checksum(seen, version) = files[version] THEN run
              ELSE [run EXCEPT !.stopped = "checksum"]
    ELSE IF version = diesAt THEN [run EXCEPT !.stopped = "died"]
    ELSE IF version \in Applied(run.db.table) THEN [run EXCEPT !.stopped = "conflict"]
    ELSE [run EXCEPT !.db = [table  |-> Append(@.table, <<version, files[version]>>),
                             schema |-> Append(@.schema, files[version])]]

MigrateUp(db, d) ==
    LET seen == Read(db.table, d.seen)
        run[version \in 0..Newest(d.files)] ==
            IF version = 0 THEN [db |-> db, stopped |-> "no"]
            ELSE IF version \notin DOMAIN d.files THEN run[version - 1]
            ELSE MigrateFile(run[version - 1], version, d.files, seen, d.diesAt)
    IN  run[Newest(d.files)]

\* resetDatabase refuses before it drops anything.
ResetAllowed(d) == d.confirm /\ d.appEnv \in {"development", "test"}

\* The CLI's up and reset.
Deploy(db, d) ==
    CASE ~d.reset -> MigrateUp(db, d)
      [] d.reset /\ ~ResetAllowed(d) -> [db |-> db, stopped |-> "refused"]
      [] d.reset /\ ResetAllowed(d)  -> MigrateUp(Empty, d)

\* migrationStatus, of a file on disk.
MigrationStatus(db, files, version) ==
    [applied |-> version \in Applied(db.table),
     matches |-> version \in Applied(db.table) /\ Checksum(db.table, version) = files[version]]

\* A version is applied once and recorded with what was run; a deployment that ends well
\* leaves every file it found applied as it found it; and what production has applied it
\* keeps.
DeployedSoundly(db, d) ==
    LET run == Deploy(db, d) IN
    /\ Len(run.db.table) = Cardinality(Applied(run.db.table))
    /\ run.db.schema = [i \in DOMAIN run.db.table |-> run.db.table[i][2]]
    /\ run.stopped = "no" =>
          \A version \in DOMAIN d.files : MigrationStatus(run.db, d.files, version).matches
    /\ d.appEnv = "production" => IsPrefix(db.table, run.db.table)
=============================================================================
