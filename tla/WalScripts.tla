----------------------------- MODULE WalScripts -----------------------------
(***************************************************************************)
(* The scripts of the SQLite WAL targets, each the _run of one worker.     *)
(* "own" and "copy" are connections the script keeps, to the source        *)
(* database and to its backup; "guest" is one that a helper opens for one  *)
(* purpose, in a child or not; "reader" is a second one of the script.     *)
(* Values are those of the code.  Operators named <definition>_<bug> are   *)
(* bugs; no script of Plain uses them.                                     *)
(***************************************************************************)
EXTENDS SqliteWal, SequencesExt

Do(name, c, v) == [do |-> name, by |-> c, value |-> v]
On(c, name) == Do(name, c, Nothing)

Using(c, body) == <<On(c, "open")>> \o body \o <<On(c, "close")>>
WriteValue(c, v) == <<Do("update", c, v), On(c, "commit")>>
WriteAndRead(c, v) == WriteValue(c, v) \o <<Do("read", c, v)>>

CommitValue_NeverCommits(v) == Using("guest", <<Do("update", "guest", v), Do("read", "guest", v)>>)
CommitValue(v) == Using("guest", WriteAndRead("guest", v))
Observe(v) == Using("guest", <<Do("read", "guest", v)>>)
CheckpointIsBusy(busy) == Using("guest", <<Do("checkpoint", "guest", busy)>>)

\* A start function cleans up after itself until its child is ready.
Start(c, times, body) ==
  <<Do("spawn", c, times), Do("try", c, <<c>>), On(c, "open")>> \o body \o
  <<On(c, "hand over")>>
PinInWal(c, v) == <<On(c, "is wal"), Do("pin", c, v)>>
StartReader_AnswersOnce(c, v) == Start(c, "once", PinInWal(c, v))
StartReader(c, v) == Start(c, "always", PinInWal(c, v))
StartOnceReader(c, v) == Start(c, "once", PinInWal(c, v))
StartWriter(v) == Start("writer", "never", <<Do("update", "writer", v)>>)
StartCommittedWriter(v) == Start("writer", "never", WriteValue("writer", v))

ForceKill(c, body) ==
  <<Do("spawn", c, "never"), Do("try", c, <<c>>), On(c, "open")>> \o body \o
  <<On(c, "kill"), On(c, "finally")>>

Snapshot(c, v) == <<Do("ask", c, v)>>
KillReader(c) == <<On(c, "kill")>>
KillWriter == <<On("writer", "kill")>>

\* try: body finally: kill those of the children that still run, in this order.
Protect(children, body) ==
  <<Do("try", Head(children), children)>> \o body \o <<On(Head(children), "finally")>>

Bootstrap(v) == Using("own", <<Do("insert", "own", v), On("own", "set wal")>>)
BootstrapInWal == Using("own", <<On("own", "set wal"), Do("insert", "own", 0)>>)

----------------------------------------------------------------------------
(* One connection of each kind.                                            *)

CheckpointScript ==
  BootstrapInWal
  \o <<On("reader", "open"), On("own", "open"), On("guest", "open"), Do("pin", "reader", 0)>>
  \o WriteValue("own", 1) \o WriteValue("own", 2) \o WriteValue("own", 3)
  \o <<Do("checkpoint", "guest", TRUE), Do("read", "reader", 0), On("reader", "rollback"),
       Do("checkpoint", "guest", FALSE), Do("read", "reader", 3),
       On("reader", "close"), On("own", "close"), On("guest", "close")>>

If(condition, steps) == IF condition THEN steps ELSE <<>>

\* The options of the crash recovery worker.
Options == {"commit_before_crash", "pin_reader_snapshot", "checkpoint_after_crash",
            "checkpoint_in_child", "recover_in_child", "integrity_check_in_child"}
ValidOptions ==
  {F \in SUBSET Options :
     /\ "checkpoint_after_crash" \in F => {"commit_before_crash", "pin_reader_snapshot"} \subseteq F
     /\ {"checkpoint_in_child", "integrity_check_in_child"} \cap F # {} =>
          "checkpoint_after_crash" \in F}

CheckpointAsAsked(F, busy) ==
  If("checkpoint_after_crash" \in F,
     IF "checkpoint_in_child" \in F THEN CheckpointIsBusy(busy)
     ELSE <<Do("checkpoint", "own", busy)>>)

\* The snapshot that the crash did not move ends, and with it all that the log was kept for.
ReaderReleased(F) ==
  <<Do("read", "reader", 0), On("reader", "rollback"), On("reader", "close")>>
  \o CheckpointAsAsked(F, FALSE)
  \o <<Do("read", "own", 2)>>
  \o If("integrity_check_in_child" \in F, Using("guest", <<>>))

CrashRecoveryScript(F) ==
  LET committed == "commit_before_crash" \in F
      pinned == "pin_reader_snapshot" \in F
      expected == IF committed THEN 1 ELSE 0
  IN  BootstrapInWal
      \o If(pinned, <<On("reader", "open"), Do("pin", "reader", 0)>>)
      \o ForceKill("writer",
                   IF committed THEN WriteValue("writer", 1) ELSE <<Do("update", "writer", 1)>>)
      \o If("recover_in_child" \in F, Observe(expected))
      \o <<On("own", "open"), Do("read", "own", expected)>>
      \o If(pinned, <<Do("read", "reader", 0)>>)
      \o CheckpointAsAsked(F, TRUE)
      \o WriteAndRead("own", 2)
      \o If(pinned, ReaderReleased(F))
      \o <<On("own", "close")>>

\* The reader is killed between a writer's update and its COMMIT.
WriterOverlap ==
  StartOnceReader("older", 9) \o <<On("own", "open")>>
  \o Protect(<<"older">>,
             <<Do("update", "own", 10)>> \o Snapshot("older", 9) \o KillReader("older")
             \o <<On("own", "commit"), Do("read", "own", 10)>>)
  \o <<On("own", "close")>>
  \o Using("own", <<Do("read", "own", 10), Do("checkpoint", "own", FALSE)>>)

ReaderCrashScript ==
  Bootstrap(6) \o StartOnceReader("older", 6)
  \o Protect(<<"older">>,
             Using("own", WriteAndRead("own", 8)) \o Snapshot("older", 6)
             \o CheckpointIsBusy(TRUE) \o KillReader("older"))
  \o Using("own", <<On("own", "is wal"), Do("read", "own", 8)>> \o WriteAndRead("own", 9))
  \o Using("own", <<Do("read", "own", 9), Do("checkpoint", "own", FALSE)>>)
  \o WriterOverlap

ReaderCrashRollbackScript ==
  Bootstrap(10) \o StartOnceReader("older", 10) \o <<On("own", "open")>>
  \o Protect(<<"older">>,
             <<Do("update", "own", 11)>> \o Snapshot("older", 10) \o KillReader("older")
             \o <<On("own", "rollback"), Do("read", "own", 10)>>)
  \o <<On("own", "close")>>
  \o Using("own", <<Do("read", "own", 10), Do("checkpoint", "own", FALSE)>>
                  \o WriteAndRead("own", 12))
  \o Using("own", <<Do("read", "own", 12), Do("checkpoint", "own", FALSE)>>)

----------------------------------------------------------------------------
(* Two readers with different snapshots.                                   *)

\* A final look: the value, and a checkpoint by a connection of its own.
Verified(v) == Using("own", <<Do("read", "own", v)>> \o CheckpointIsBusy(FALSE))

\* The older reader pins v, a commit follows, and the newer one pins that.
TwoReaders(order, v, body) ==
  Bootstrap(v) \o StartReader("older", v)
  \o Protect(order, CommitValue(v + 1) \o Snapshot("older", v)
                    \o StartReader("newer", v + 1) \o body)

MultiReaderCrashScript ==
  Bootstrap(10) \o StartOnceReader("older", 10)
  \o Protect(<<"older", "newer">>,
             CommitValue(11) \o Snapshot("older", 10)
             \o StartOnceReader("newer", 11) \o CommitValue(12) \o Snapshot("newer", 11)
             \o CheckpointIsBusy(TRUE)
             \o KillReader("older") \o CheckpointIsBusy(TRUE)
             \o KillReader("newer") \o CheckpointIsBusy(FALSE))
  \o CommitValue(13)
  \o Using("own", <<Do("read", "own", 13), Do("checkpoint", "own", FALSE)>>)

NewerReaderCrashScript ==
  TwoReaders(<<"older", "newer">>, 20,
             CommitValue(22) \o Snapshot("newer", 21)
             \o CheckpointIsBusy(TRUE)
             \o KillReader("newer") \o Snapshot("older", 20) \o CheckpointIsBusy(TRUE)
             \o KillReader("older") \o CheckpointIsBusy(FALSE))
  \o CommitValue(23) \o Verified(23)

MultiReaderWriterCrashScript ==
  TwoReaders(<<"writer", "newer", "older">>, 30,
             CommitValue(32) \o Snapshot("newer", 31)
             \o CheckpointIsBusy(TRUE)
             \o StartWriter(33) \o Snapshot("older", 30) \o Snapshot("newer", 31) \o KillWriter
             \o Snapshot("older", 30) \o Snapshot("newer", 31) \o CheckpointIsBusy(TRUE)
             \o KillReader("newer") \o CheckpointIsBusy(TRUE)
             \o Snapshot("older", 30) \o KillReader("older") \o CheckpointIsBusy(FALSE))
  \o CommitValue(34) \o Verified(34)

\* The start that four scripts share: both readers stay while a second commit is made.
BothPinned(v) ==
  CommitValue(v + 2) \o Snapshot("newer", v + 1) \o Snapshot("older", v)
  \o CheckpointIsBusy(TRUE)

OlderReaderReleaseCommitScript ==
  TwoReaders(<<"older", "newer">>, 60,
             BothPinned(60)
             \o KillReader("older") \o Snapshot("newer", 61) \o CheckpointIsBusy(TRUE)
             \o CommitValue(63) \o Snapshot("newer", 61) \o Observe(63)
             \o CheckpointIsBusy(TRUE)
             \o KillReader("newer") \o CheckpointIsBusy(FALSE))
  \o Verified(63)

PartialReaderReleaseCommitScript ==
  TwoReaders(<<"newer", "older">>, 40,
             BothPinned(40)
             \o KillReader("newer") \o Snapshot("older", 40) \o CheckpointIsBusy(TRUE)
             \o CommitValue(43) \o Snapshot("older", 40) \o Observe(43)
             \o CheckpointIsBusy(TRUE)
             \o KillReader("older") \o CheckpointIsBusy(FALSE))
  \o Verified(43)

PartialReleaseWriterCrashScript ==
  TwoReaders(<<"writer", "newer", "older">>, 50,
             BothPinned(50)
             \o KillReader("newer") \o Snapshot("older", 50) \o CheckpointIsBusy(TRUE)
             \o StartWriter(53) \o Snapshot("older", 50) \o KillWriter
             \o Snapshot("older", 50) \o Observe(52) \o CheckpointIsBusy(TRUE)
             \o KillReader("older") \o CheckpointIsBusy(FALSE))
  \o CommitValue(54) \o Verified(54)

PartialReleaseCommittedWriterCrashScript ==
  TwoReaders(<<"writer", "newer", "older">>, 60,
             BothPinned(60)
             \o KillReader("newer") \o Snapshot("older", 60) \o CheckpointIsBusy(TRUE)
             \o StartCommittedWriter(63) \o Snapshot("older", 60) \o KillWriter
             \o Snapshot("older", 60) \o Observe(63) \o CheckpointIsBusy(TRUE)
             \o KillReader("older") \o CheckpointIsBusy(FALSE))
  \o Observe(63) \o CommitValue(64) \o Verified(64)

\* A committed writer is killed before the newer reader starts.
PostCrashReader(v, body) ==
  Bootstrap(v) \o StartReader("older", v)
  \o Protect(<<"writer", "newer", "older">>,
             CommitValue(v + 1) \o Snapshot("older", v)
             \o StartCommittedWriter(v + 2) \o KillWriter
             \o Snapshot("older", v) \o Observe(v + 2) \o body)

PostCrashReaderAdmissionScript ==
  PostCrashReader(70,
             CheckpointIsBusy(TRUE)
             \o StartReader("newer", 72) \o Snapshot("newer", 72) \o CommitValue(73)
             \o Snapshot("older", 70) \o Snapshot("newer", 72) \o CheckpointIsBusy(TRUE)
             \o KillReader("older") \o Snapshot("newer", 72) \o CheckpointIsBusy(TRUE)
             \o Observe(73)
             \o KillReader("newer") \o CheckpointIsBusy(FALSE))
  \o Observe(73) \o CommitValue(74) \o Verified(74)

PostCrashNewerReaderReleaseScript ==
  PostCrashReader(80,
             StartReader("newer", 82) \o Snapshot("newer", 82) \o CommitValue(83)
             \o Snapshot("older", 80) \o Snapshot("newer", 82) \o CheckpointIsBusy(TRUE)
             \o KillReader("newer") \o Snapshot("older", 80) \o CheckpointIsBusy(TRUE)
             \o Observe(83)
             \o CommitValue(84) \o Snapshot("older", 80) \o CheckpointIsBusy(TRUE)
             \o Observe(84)
             \o KillReader("older") \o CheckpointIsBusy(FALSE))
  \o Observe(84) \o CommitValue(85) \o Verified(85)

----------------------------------------------------------------------------
(* Online backups beside pinned readers.                                   *)

Both(body) ==
  <<On("guest", "open"), On("copy", "open")>> \o body
  \o <<On("copy", "close"), On("guest", "close")>>

OnlineBackup(v) == Both(<<Do("backup", "guest", "copy"), Do("read", "copy", v)>>)
Differ(source, backup) == Both(<<Do("read", "guest", source), Do("read", "copy", backup)>>)

\* Both are reopened, and each is written without effect on the other.
Independent(source, backup, v) ==
  Both(<<Do("read", "guest", source), Do("read", "copy", backup)>>
       \o WriteAndRead("copy", v) \o <<Do("read", "guest", source)>>)
  \o CommitValue(v + 1) \o Differ(v + 1, v)

\* Backup of the value last beside one pinned reader, which a later commit does not move.
BackupBesideReader(v, last) ==
  Snapshot("older", v) \o Observe(last) \o CheckpointIsBusy(TRUE)
  \o OnlineBackup(last) \o Snapshot("older", v) \o CheckpointIsBusy(TRUE)
  \o CommitValue(v + 3) \o Snapshot("older", v) \o Differ(v + 3, last)
  \o CheckpointIsBusy(TRUE)
  \o KillReader("older") \o CheckpointIsBusy(FALSE)

PinnedReaderBackupScript ==
  Bootstrap(90) \o StartReader("older", 90)
  \o Protect(<<"writer", "older">>,
             CommitValue(91) \o Snapshot("older", 90)
             \o StartCommittedWriter(92) \o KillWriter
             \o BackupBesideReader(90, 92))
  \o Independent(93, 92, 94)

PinnedReaderBackupRollbackScript ==
  Bootstrap(100) \o StartReader("older", 100)
  \o Protect(<<"writer", "older">>,
             CommitValue(101) \o Snapshot("older", 100)
             \o StartWriter(102) \o Snapshot("older", 100) \o KillWriter
             \o BackupBesideReader(100, 101))
  \o Independent(103, 101, 104)

\* The same beside two readers, of which the older is killed first.
Snapshots2(v) == Snapshot("older", v) \o Snapshot("newer", v + 1)
BackupBesideTwo(v, last) ==
  Snapshots2(v) \o Observe(last) \o CheckpointIsBusy(TRUE)
  \o OnlineBackup(last) \o Snapshots2(v) \o CheckpointIsBusy(TRUE)
  \o KillReader("older") \o Snapshot("newer", v + 1) \o CheckpointIsBusy(TRUE)
  \o CommitValue(v + 3) \o Snapshot("newer", v + 1) \o Differ(v + 3, last)
  \o CheckpointIsBusy(TRUE)
  \o KillReader("newer") \o CheckpointIsBusy(FALSE)

MultiReaderBackupScript ==
  TwoReaders(<<"writer", "newer", "older">>, 110,
             StartCommittedWriter(112) \o KillWriter \o BackupBesideTwo(110, 112))
  \o Independent(113, 112, 114)

\* The writers of these four workers are killed by the function that starts them.
PendingUpdate(c, v) == <<On(c, "set wal"), Do("update", c, v), Do("read", c, v)>>

MultiReaderUncommittedBackupScript ==
  TwoReaders(<<"newer", "older">>, 120,
             ForceKill("writer", PendingUpdate("writer", 122)) \o BackupBesideTwo(120, 121))
  \o Independent(123, 121, 124)

----------------------------------------------------------------------------
(* Backups that outlive their source.                                      *)

\* A database that outlived a killed writer: its mode, its value, and a log nobody holds.
FreshReopen(v) ==
  Using("copy", <<On("copy", "is wal"), Do("read", "copy", v), Do("checkpoint", "copy", FALSE)>>)

ForceKillUncommitted(v) ==
  ForceKill("detached writer", PendingUpdate("detached writer", v))
ForceKillCommitted(v) ==
  ForceKill("detached writer",
            <<On("detached writer", "set wal")>> \o WriteAndRead("detached writer", v))

StartSnapshotReader(v) ==
  Start("detached reader", "always", PinInWal("detached reader", v))
\* Told that a commit was made, the reader looks at its snapshot, ends it and looks again.
FinishSnapshotReader(v, committed) ==
  Protect(<<"detached reader">>,
          <<Do("ask", "detached reader", v), On("detached reader", "commit"),
            Do("ask", "detached reader", committed), On("detached reader", "exit")>>)

BackupRollbackScript ==
  Using("own", <<Do("insert", "own", 6)>> \o Using("copy", <<Do("backup", "own", "copy")>>))
  \o <<On("own", "unlink")>>
  \o ForceKillUncommitted(7) \o FreshReopen(6)
  \o StartSnapshotReader(6)
  \o Protect(<<"detached reader">>, ForceKillCommitted(8) \o FinishSnapshotReader(6, 8))
  \o FreshReopen(8)

VerifyDetachedBackup == Using("copy", <<Do("read", "copy", 4)>> \o WriteAndRead("copy", 5))

\* The backup alone: written by a child, reopened, and written by another that is killed.
Detached ==
  <<On("own", "unlink")>>
  \o VerifyDetachedBackup
  \o Using("copy", <<Do("read", "copy", 5)>>)
  \o ForceKill("detached writer",
               <<On("detached writer", "set wal")>> \o WriteValue("detached writer", 6))
  \o FreshReopen(6)

BackupRecoveryScript ==
  BootstrapInWal
  \o ForceKill("writer", WriteValue("writer", 1))
  \o Using("own", <<Do("read", "own", 1)>> \o WriteAndRead("own", 2)
                  \o <<Do("checkpoint", "own", FALSE)>>)
  \o OnlineBackup(2)
  \o Using("copy", <<Do("read", "copy", 2)>>)
  \o Both(WriteAndRead("guest", 3) \o <<Do("read", "copy", 2)>>
          \o WriteAndRead("copy", 4) \o <<Do("read", "guest", 3)>>)
  \o Detached

BackupUncommittedCrashScript ==
  Using("own",
        <<Do("insert", "own", 200), On("own", "set wal")>> \o WriteAndRead("own", 201)
        \o Using("copy", <<Do("backup", "own", "copy"), Do("read", "copy", 201)>>)
        \o WriteAndRead("own", 202))
  \o Using("copy", <<Do("read", "copy", 201)>>)
  \o <<On("own", "unlink")>>
  \o ForceKill("detached writer", PendingUpdate("detached writer", 203))
  \o Using("copy", <<On("copy", "is wal"), Do("read", "copy", 201)>>)
  \o Using("copy", <<Do("checkpoint", "copy", FALSE)>>)
  \o Using("copy", WriteAndRead("copy", 204))
  \o Using("copy", <<Do("read", "copy", 204)>>)

----------------------------------------------------------------------------
Plain == [
  checkpoint |-> CheckpointScript,
  reader_crash |-> ReaderCrashScript,
  reader_crash_rollback |-> ReaderCrashRollbackScript,
  multi_reader_crash |-> MultiReaderCrashScript,
  newer_reader_crash |-> NewerReaderCrashScript,
  multi_reader_writer_crash |-> MultiReaderWriterCrashScript,
  older_reader_release_commit |-> OlderReaderReleaseCommitScript,
  partial_reader_release_commit |-> PartialReaderReleaseCommitScript,
  partial_release_writer_crash |-> PartialReleaseWriterCrashScript,
  partial_release_committed_writer_crash |-> PartialReleaseCommittedWriterCrashScript,
  post_crash_reader_admission |-> PostCrashReaderAdmissionScript,
  post_crash_newer_reader_release |-> PostCrashNewerReaderReleaseScript,
  pinned_reader_backup |-> PinnedReaderBackupScript,
  pinned_reader_backup_rollback |-> PinnedReaderBackupRollbackScript,
  multi_reader_backup |-> MultiReaderBackupScript,
  multi_reader_uncommitted_backup |-> MultiReaderUncommittedBackupScript,
  backup_rollback |-> BackupRollbackScript,
  backup_recovery |-> BackupRecoveryScript,
  backup_uncommitted_crash |-> BackupUncommittedCrashScript]

\* A script's name: its worker and the options it is given.
Worker == {<<w, {}>> : w \in DOMAIN Plain} \cup {<<"crash_recovery", F>> : F \in ValidOptions}
StepsOf ==
  [n \in Worker |-> IF n[1] = "crash_recovery" THEN CrashRecoveryScript(n[2]) ELSE Plain[n[1]]]

\* The blocks around each step of a script.
BlocksAround(steps) ==
  LET After(blocks, step) ==
        CASE step.do = "try" -> <<step.value>> \o blocks
          [] step.do \in {"hand over", "finally"} -> Tail(blocks)
          [] OTHER -> blocks
  IN  FoldLeft(LAMBDA around, step : Append(around, After(Last(around), step)), << <<>> >>, steps)
=============================================================================
