------------------------------ MODULE Backups ------------------------------
(***************************************************************************)
(* The backup bundles of PostgreSQL: backup-postgres.sh makes one,         *)
(* prune-postgres-backups.sh keeps the newest, sync-backups-to-external.sh *)
(* copies them to a disk that may be pulled out, check-backup-age.sh and   *)
(* verify-postgres-backup.sh judge them.  The scripts run side by side and *)
(* any of them can be killed; a file can rot.                              *)
(*                                                                         *)
(* A bundle is named for the time it was begun, the contents of a database *)
(* for the time at which they are read.  A checksum fails exactly on files *)
(* that rotted.  The checks of arguments, tools and passphrase that come   *)
(* before the first file change nothing and are left out.                  *)
(***************************************************************************)
EXTENDS Naturals, Sequences, FiniteSets, SequencesExt

CONSTANTS
  Databases,     \* databases, in their order
  Keep,          \* --keep of the pruning
  MaxAge,        \* --max-age-hours
  MaxTime,       \* bound on the clock
  MaxRot,        \* bound on the files that rot
  Counts         \* Counts[i][t]: the tables of the i-th database at time t, each
                 \* with the number of its rows

\* The dump of a database is no other file of a bundle.
ASSUME BackupAssumption ==
  /\ Databases \in Seq(STRING \ {"counts.tsv", "SHA256SUMS"})
  /\ Keep \in Nat \ {0} /\ MaxTime \in Nat \ {0} /\ MaxAge \in Nat

VARIABLES
  now,
  local, external,         \* the disks: by name, the bundle and its .part directory
  backup,                  \* the bundle being made, 0 if none
  prune,                   \* the bundles the pruning has still to delete
  sync,                    \* the bundles still to copy, and whether one is being copied
  rotten                   \* history: <<disk, name>> of rotted files

backupVars == <<now, local, external, backup, prune, sync, rotten>>

Names == 1..MaxTime
\* required_files, in the order in which they are copied; metadata.txt says nothing
\* the properties tell apart.
FileOrder == Databases \o <<"counts.tsv", "SHA256SUMS">>
RequiredFiles == ToSet(FileOrder)

\* have: the files there; bad: those that rotted; dump and counted: when each
\* database was dumped and when its rows were counted.
NoDirectory == [exists |-> FALSE, have |-> {}, bad |-> {}, dump |-> << >>, counted |-> 0]
EmptyDirectory == [NoDirectory EXCEPT !.exists = TRUE]
NoDisk == [t \in Names |-> [bundle |-> NoDirectory, part |-> NoDirectory]]
IdleSync == [todo |-> << >>, copying |-> FALSE]

BackupInit ==
  /\ now = 1 /\ local = NoDisk /\ external = NoDisk
  /\ backup = 0 /\ prune = << >> /\ sync = IdleSync /\ rotten = {}

-----------------------------------------------------------------------------
(* What the scripts ask of a bundle.                                       *)

IsCompleteBundle(b) == b.exists /\ b.have = RequiredFiles
VerifyBundleChecksums(b) == IsCompleteBundle(b) /\ b.bad = {}

CompleteNames(disk) == {t \in Names : IsCompleteBundle(disk[t].bundle)}

\* sort -r and sort: the i-th from the newest on has i - 1 newer ones.
NewestFirst(names) ==
  [i \in 1..Cardinality(names) |->
     CHOOSE t \in names : Cardinality({u \in names : u > t}) = i - 1]
OldestFirst(names) == Reverse(NewestFirst(names))

\* The names beyond the newest Keep.
PruneNames_ascending ==
  LET sorted == OldestFirst(CompleteNames(local)) IN
  SubSeq(sorted, Keep + 1, Len(sorted))
PruneNames ==
  LET sorted == NewestFirst(CompleteNames(local)) IN
  SubSeq(sorted, Keep + 1, Len(sorted))

CheckBackupAge ==
  LET latest == CHOOSE t \in CompleteNames(local) : \A u \in CompleteNames(local) : u <= t IN
  IF CompleteNames(local) = {} \/ now - latest > MaxAge THEN "ALERTA" ELSE "OK"

\* Verification restores the dumps and compares which tables they have, and how many
\* rows each, with counts.tsv.  It does not see an update between a dump and the
\* counts, nor a row that went for one that came.
VerifyPostgresBackup(b) ==
  VerifyBundleChecksums(b) /\ \A i \in DOMAIN Databases : Counts[i][b.dump[i]] = Counts[i][b.counted]

-----------------------------------------------------------------------------
(* backup-postgres.sh.                                                     *)

StartBackup ==
  /\ backup = 0
  /\ local[now].bundle = NoDirectory /\ local[now].part = NoDirectory
  /\ backup' = now
  /\ local' = [local EXCEPT ![now].part = EmptyDirectory]
  /\ UNCHANGED <<now, external, prune, sync, rotten>>

Work == local[backup].part

\* Each database is dumped, encrypted and read back before the next one.
DumpDatabase ==
  /\ backup # 0 /\ Len(Work.dump) < Len(Databases)
  /\ LET i == Len(Work.dump) + 1 IN
     local' = [local EXCEPT ![backup].part.dump = Append(@, now),
                            ![backup].part.have = @ \cup {Databases[i]}]
  /\ UNCHANGED <<now, external, backup, prune, sync, rotten>>

CountRows ==
  /\ backup # 0 /\ Len(Work.dump) = Len(Databases) /\ "counts.tsv" \notin Work.have
  /\ local' = [local EXCEPT ![backup].part.counted = now,
                            ![backup].part.have = @ \cup {"counts.tsv"}]
  /\ UNCHANGED <<now, external, backup, prune, sync, rotten>>

\* SHA256SUMS, and then the rename that makes the bundle visible.
PublishBundle ==
  /\ backup # 0 /\ "counts.tsv" \in Work.have
  /\ local' = [local EXCEPT ![backup].bundle = [Work EXCEPT !.have = RequiredFiles],
                            ![backup].part = NoDirectory]
  /\ backup' = 0
  /\ UNCHANGED <<now, external, prune, sync, rotten>>

\* Any command may fail: the trap removes the directory.  A kill leaves it.
FailBackup ==
  /\ backup # 0
  /\ local' = [local EXCEPT ![backup].part = NoDirectory]
  /\ backup' = 0
  /\ UNCHANGED <<now, external, prune, sync, rotten>>
KillBackup ==
  /\ backup # 0 /\ backup' = 0
  /\ UNCHANGED <<now, local, external, prune, sync, rotten>>

-----------------------------------------------------------------------------
(* prune-postgres-backups.sh --apply.                                      *)

StartPrune ==
  /\ prune = << >> /\ Len(PruneNames) > 0
  /\ prune' = PruneNames
  /\ UNCHANGED <<now, local, external, backup, sync, rotten>>

\* A bundle that is no longer complete ends the pruning.
PruneBundle ==
  /\ prune # << >>
  /\ LET t == Head(prune) IN
     IF IsCompleteBundle(local[t].bundle)
     THEN local' = [local EXCEPT ![t].bundle = NoDirectory] /\ prune' = Tail(prune)
     ELSE prune' = << >> /\ UNCHANGED local
  /\ UNCHANGED <<now, external, backup, sync, rotten>>

\* Killed before a deletion, or in one: some of the files are left.
KillPrune ==
  /\ prune # << >> /\ prune' = << >>
  /\ LET t == Head(prune) IN
     \E left \in {RequiredFiles, {}} \cup {RequiredFiles \ {f} : f \in RequiredFiles} :
       IF IsCompleteBundle(local[t].bundle)
       THEN local' = [local EXCEPT ![t].bundle.have = left]
       ELSE UNCHANGED local
  /\ UNCHANGED <<now, external, backup, sync, rotten>>

-----------------------------------------------------------------------------
(* sync-backups-to-external.sh, all bundles from the oldest on, or only    *)
(* the latest.                                                             *)

StartSync(latestOnly) ==
  LET sorted == OldestFirst(CompleteNames(local)) IN
  /\ sync = IdleSync /\ Len(sorted) > 0
  /\ sync' = [todo |-> IF latestOnly THEN <<Last(sorted)>> ELSE sorted, copying |-> FALSE]
  /\ UNCHANGED <<now, local, external, backup, prune, rotten>>

NextBundle == [todo |-> Tail(sync.todo), copying |-> FALSE]

\* One already there is skipped, and one whose source fails its checksums is left
\* for a human; a directory of an unfinished copy, or an invalid bundle on the
\* disk, ends the whole synchronisation.
ConsiderBundle ==
  /\ sync.todo # << >> /\ ~sync.copying
  /\ LET t == Head(sync.todo) IN
     \/ /\ VerifyBundleChecksums(external[t].bundle) \/ ~VerifyBundleChecksums(local[t].bundle)
        /\ sync' = NextBundle /\ UNCHANGED external
     \/ /\ ~VerifyBundleChecksums(external[t].bundle) /\ VerifyBundleChecksums(local[t].bundle)
        /\ IF external[t] = [bundle |-> NoDirectory, part |-> NoDirectory]
           THEN /\ external' = [external EXCEPT ![t].part = EmptyDirectory]
                /\ sync' = [sync EXCEPT !.copying = TRUE]
           ELSE sync' = IdleSync /\ UNCHANGED external
  /\ UNCHANGED <<now, local, backup, prune, rotten>>

\* The files one after the other, each as it is when its turn comes.  The copy
\* fails when a file is gone, or for a reason of its own, and is then thrown away.
CopyFile ==
  /\ sync.copying
  /\ LET t == Head(sync.todo)
         source == local[t].bundle IN
     \/ LET f == FileOrder[Cardinality(external[t].part.have) + 1] IN
          /\ external[t].part.have # RequiredFiles
          /\ source.exists /\ f \in source.have
          /\ external' = [external EXCEPT ![t].part =
                            [source EXCEPT !.have = external[t].part.have \cup {f},
                                           !.bad = external[t].part.bad
                                                     \cup (source.bad \cap {f})]]
          /\ UNCHANGED sync
     \/ /\ external[t].part.have # RequiredFiles
        /\ external' = [external EXCEPT ![t].part = NoDirectory]
        /\ sync' = NextBundle
  /\ UNCHANGED <<now, local, backup, prune, rotten>>

\* The copy gets its name only when its checksums hold.
FinishCopy_unverified ==
  /\ sync.copying
  /\ LET t == Head(sync.todo)
         work == external[t].part IN
     /\ IsCompleteBundle(work)
     /\ external' = [external EXCEPT ![t] = [bundle |-> work, part |-> NoDirectory]]
  /\ sync' = NextBundle
  /\ UNCHANGED <<now, local, backup, prune, rotten>>
FinishCopy ==
  /\ sync.copying
  /\ LET t == Head(sync.todo)
         work == external[t].part IN
     /\ IsCompleteBundle(work)
     /\ external' = [external EXCEPT ![t] =
                       [bundle |-> IF VerifyBundleChecksums(work) THEN work ELSE NoDirectory,
                        part |-> NoDirectory]]
  /\ sync' = NextBundle
  /\ UNCHANGED <<now, local, backup, prune, rotten>>

\* The disk is pulled out, or the script killed: what was copied stays.
KillSync ==
  /\ sync # IdleSync /\ sync' = IdleSync
  /\ UNCHANGED <<now, local, external, backup, prune, rotten>>

-----------------------------------------------------------------------------

Tick == now < MaxTime /\ now' = now + 1
  /\ UNCHANGED <<local, external, backup, prune, sync, rotten>>

RotLocal(t, f) ==
  /\ local[t].bundle.exists /\ f \in local[t].bundle.have
  /\ Cardinality(rotten) < MaxRot
  /\ local' = [local EXCEPT ![t].bundle.bad = @ \cup {f}]
  /\ rotten' = rotten \cup {<<"local", t>>}
  /\ UNCHANGED <<now, external, backup, prune, sync>>
RotExternal(t, f) ==
  /\ external[t].bundle.exists /\ f \in external[t].bundle.have
  /\ Cardinality(rotten) < MaxRot
  /\ external' = [external EXCEPT ![t].bundle.bad = @ \cup {f}]
  /\ rotten' = rotten \cup {<<"external", t>>}
  /\ UNCHANGED <<now, local, backup, prune, sync>>

BackupNext ==
  \/ StartBackup \/ DumpDatabase \/ CountRows \/ PublishBundle \/ FailBackup \/ KillBackup
  \/ StartPrune \/ PruneBundle \/ KillPrune
  \/ \E latestOnly \in BOOLEAN : StartSync(latestOnly)
  \/ ConsiderBundle \/ CopyFile \/ FinishCopy \/ KillSync
  \/ Tick
  \/ \E t \in Names, f \in RequiredFiles : RotLocal(t, f) \/ RotExternal(t, f)

BackupSpec == BackupInit /\ [][BackupNext]_backupVars

-----------------------------------------------------------------------------
(* Properties.                                                             *)

Directory ==
  [exists : BOOLEAN, have : SUBSET RequiredFiles, bad : SUBSET RequiredFiles, 
   dump : Seq(Names), counted : 0..MaxTime]

BackupTypeOK ==
  /\ now \in Names /\ backup \in 0..MaxTime
  /\ \A disk \in {local, external}, t \in Names :
       disk[t].bundle \in Directory /\ disk[t].part \in Directory
  /\ prune \in Seq(Names)
  /\ sync.todo \in Seq(Names) /\ sync.copying \in BOOLEAN
  /\ rotten \subseteq {"local", "external"} \X Names

RowsStay(t, b) ==
  \A i \in DOMAIN Databases : \A u \in t..b.counted : Counts[i][u] = Counts[i][t]

NoFalseAlarm(name, disk) ==
  \A t \in CompleteNames(disk) :
    <<name, t>> \notin rotten /\ RowsStay(t, disk[t].bundle) =>
      VerifyPostgresBackup(disk[t].bundle)

\* What a script takes for a backup is one, on either disk: all dumps are there,
\* none is older than the name says, and each was counted after it was made;
\* a bundle of the external disk has no bad file unless that disk rotted, however
\* the local one rotted or was pruned meanwhile; what the age check calls OK is
\* young enough to hold what was written before the last MaxAge; and verification
\* raises no false alarm: it rejects a bundle that did not rot only if some table got
\* or lost rows, or came or went, between the time of its name and the counting.
BackupsAreWhatTheySeem ==
  /\ \A disk \in {local, external} : \A t \in CompleteNames(disk) :
       LET b == disk[t].bundle IN
       /\ Len(b.dump) = Len(Databases)
       /\ \A i \in DOMAIN b.dump : t <= b.dump[i] /\ b.dump[i] <= b.counted
  /\ NoFalseAlarm("local", local) /\ NoFalseAlarm("external", external)
  /\ \A t \in Names : external[t].bundle.exists =>
       /\ IsCompleteBundle(external[t].bundle)
       /\ external[t].bundle.bad # {} => <<"external", t>> \in rotten
  /\ CheckBackupAge = "OK" =>
       \E t \in CompleteNames(local) : \A i \in DOMAIN Databases :
          now - local[t].bundle.dump[i] <= MaxAge

\* A bundle is deleted, or begun to be, only while Keep newer complete ones exist.
PruningKeepsTheNewest ==
  [][\A t \in CompleteNames(local) \ CompleteNames(local)' :
       Cardinality({u \in CompleteNames(local)' : u > t}) >= Keep]_backupVars
=============================================================================
