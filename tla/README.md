# A TLA+ verification of systems-conformance-lab

The repository tests systems by running them: it starts targets in isolated
process trees, compares what they print, names the failure, shrinks the case
that shows it, keeps the shrunk case as a *repro bundle*, packs bundles into
archives and publishes them durably, and it drives targets (SQLite in WAL mode,
file storage with crash points, codecs, HTTP) through the same machinery. What
it says about other programs is only worth what its own machinery is worth, so
this project specifies that machinery in TLA+, checks it with TLC and proves its
central safety properties with TLAPS.

All paths below are relative to the repository root; `sc/` abbreviates
`src/systems_conformance/`.

## 1. Inventory

| Component | State it keeps | Operations | Talks to | What is hard |
|---|---|---|---|---|
| Reducer (`sc/reducer.py`) | current case, two counters, passes | `reduce_case` | adapter (`candidates`, `measure`) and predicate, both callbacks | two budgets checked at several points; infinite adapters; callbacks that raise |
| Candidate adapters (`sc/byte_reducer.py`, `sc/*_reducer.py`, `sc/sqlite_*_triage.py`) | chunk width, offset; the case a phase starts from | `hierarchical_byte_deletions`, the `*_candidates` generators, the three phases of the SQLite triages | reducer | chunk boundaries; is a fixed point 1-minimal? does a phase undo what the one before it gained? |
| Process runner (`sc/runner.py`, `sc/windows_job.py`) | process, two drain threads with accumulators, group or job, verdict flags | `run_process` | operating system, the target's whole tree | threads against the main loop, deadlines against exits, orphans, output limits, kill that does not take |
| Durable publication (`sc/durable_publish.py`, fault controllers) | staged file, destination entry, directory durability | `publish` | file system | order of fsync and rename, kills and power losses between them |
| Bundle import (`sc/durable_repro_import.py`, `sc/directory_publish.py`) | holder directory, staged bundle, destination entry | `import_durable_repro_archive`, `publish_directory_no_replace` | file system, rival importers, archive reader | no-replace rename against rivals, staged directory swapped, faults at four checkpoints, crashes |
| Campaigns (`sc/fuzz.py`, `sc/feedback_fuzz.py`) | corpus, schedule position, seen features, witnesses, counters | three `run_*_campaign` loops | mutator and evaluator callbacks | corpus grows while it is walked; four ceilings met in one evaluation; endless feature iterators |
| Comparison and failure identity (`sc/comparator.py`, `sc/failure.py`, `sc/model.py`) | none (pure) | `compare_results`, signature | harness | which results may be compared at all |
| Harness and triage (`sc/harness.py`, `sc/triage.py`) | none between calls | evaluate, `write_repro`, `replay_repro`, triage | runner, reducer, bundles | evidence is produced by a later run than the one that failed |
| Repro bundle (`sc/repro.py`, `sc/repro_evidence.py`) | directory with two files | write, load | file system | kill mid-write, loader reading by path |
| Retention, archives, replay (`sc/retention.py`, `sc/archive_retention.py`, `sc/repro_archive.py`, `sc/archive_replay.py`) | directory of archives, staging files | export, retain, replay | each other through one directory | path checked then used, rival retention and export |
| Storage crash targets (`sc/*_crash_adapter.py`, `sc/_*_crash_worker.py`) | one file and its staging name | scenario scripts with crash points | durable publication | crash between two storage calls |
| SQLite WAL targets (`sc/_sqlite_wal_*`, `sc/sqlite_wal_*`) | WAL, checkpoint, readers, writer | scenario scripts with killed processes | SQLite | snapshot pinning, checkpoint blocked by a reader, kill in a transaction |
| SQLite executors (`sc/_sqlite_two_connection_worker.py`, `sc/_sqlite_lock_worker.py`, `sc/_sqlite_transaction_*worker.py`, `sc/_sqlite_worker.py`, `sc/_sqlite_query_bounded_worker.py`) | a database of their own, one or two connections, the transcript, the injected fault, budgets | arbitrary step lists, one transaction, one query, the lock probe | SQLite | order of begin, write, commit over two connections; a fault at any point; sizes counted while they grow |
| Codec, URL, JSON and HTTP targets, case generators | none | straight-line | harness | pure functions over their input |

How they interact. A *campaign* evaluates a case by calling the *harness*, which
starts one *process runner* per target, hands their results to the *comparator*
and turns a mismatch into a *failure signature*. *Triage* feeds the failing case
to the *reducer* with a predicate that runs the harness again, and writes the
reduced case with the counters of the reduction as a *repro bundle*. Bundles
travel as archives: the *exporter* publishes them with a no-replace link,
*retention* removes the surplus, and the *importer* validates one into a private
holder and publishes it with a no-replace directory rename. The storage targets
publish with *durable publication*, faulted by controllers. Everything but the
runner's threads is sequential inside one process; concurrency enters through
those threads, the target's own tree, and other processes that use the same
directories.

Correctness of each modelled component, in a sentence:

- Reducer: what it returns still fails, was only shortened, its "fixed point"
  and its counters are true, and it ends whatever the adapter does.
- Candidate adapters: at a fixed point of byte, setup or body deletion no single
  element can be deleted, and no phase of a triage gives back what an earlier one
  gained.
- Runner: a result that may be compared carries all the output of a tree that is
  gone; every other one says why; the call returns.
- Durable publication: the destination is always one whole publication; after
  `publish` returned no crash brings back an older one; a failed call left what
  its error says.
- Bundle import: a visible bundle is whole, nobody's bundle is overwritten, a
  replaced staging directory is noticed, no exit leaves a holder.
- Campaigns: each recorded witness is the first case with its signature, the
  corpus is what was novel in its turn, the schedule is first in first out, the
  reported ending is what happened.
- Bundles: what is published is evidence of one evaluation of the stored input
  under the signature it was filed with; what is loaded is one bundle, whoever
  writes and removes beside; a call that raised left nothing; retention removes
  what it validated; a replay that does not reproduce has a reason.
- Storage crash targets: a report says what became visible, what returned and what is
  left, and a target error means that a storage call failed.
- Archives: retention drops only what does not fit and unlinks only what it
  read, a replay given a digest runs those bytes, an export did what it reports.
- WAL targets: what each script expects is what SQLite's rules imply, so that a
  failure is news about SQLite and not about the script; no child outlives the
  target, whichever operation fails.
- SQLite executors: the transcript accounts for the database, the observation is
  all of the transaction or nothing of it, faults fire at their occurrence, and
  ceilings cut neither early nor late.

The hazards of this code, each at its line, are in `PROJECT.json` under
`hazards`, with the properties that watch them. Hazards seen on the way that no
property covers, because no document says what should happen or the model leaves
the cause out:

- `sc/runner.py:94`: `os.killpg` may fail with `PermissionError`, which this call
  does not catch although the query at line 157 does; `sc/runner.py:154`:
  `killpg(pid, 0)` after the root was reaped asks about a group whose number may
  have been given to another; `sc/runner.py:66`: a drain thread that fails to read
  ends as if the stream had ended.
- `sc/durable_repro_import.py:115`: the identity is taken from the path after the
  bundle was validated, so a replacement before that is accepted;
  `sc/durable_repro_import.py:128`: a killed import leaves its holder, which
  nothing collects.
- `sc/repro_archive.py:180`: the exporter's staging file is listed by retention
  (see `ArchiveStore` below).
- `sc/_sqlite_two_connection_worker.py:59`: the search for the first keyword does
  not skip an empty statement, so `;COMMIT` passes the decoding that is meant to
  refuse transaction control.

## 2. The modules

| Module | Models | Kind |
|---|---|---|
| `Reducer` | `reduce_case` and the counters' validator in `sc/repro_evidence.py` | state machine, adapter and predicate as callbacks |
| `ListDeletions` | `hierarchical_byte_deletions` and the list deletions the SQLite reducers share | pure algorithm |
| `SqliteCases` | candidates and measures of the SQLite reducers | pure algorithms |
| `FrameCases` | candidates and sizes of the form, search-params, multipart and chunk reducers | pure algorithms |
| `JsonCases` | candidates and sizes of the JSON reducer, in a module of its own because they are recursive | pure algorithms |
| `Reductions` | those adapters run by `Reducer`, and the phases of the SQLite triages | composition |
| `ReproBundle` | comparison and signature; triage, `write_repro`, `load_repro_bundle`, `replay_repro` and bundle retention over one root | state machine, several processes |
| `ProcessRunner` | `run_process`, drain threads, POSIX group, Windows job, the target's tree | threads and environment |
| `FaultController` | the three fault controllers and the importer's occurrence test | operators |
| `PublishedFile` | what `publish` promises its callers and the readers of the file: one register | abstract specification |
| `DurablePublish` | `publish` by several writers, over a journalled file system with power loss | state machine, implements `PublishedFile` |
| `StorageTargets` | the three storage workers, as scripts over the steps of `DurablePublish`, or its writers alone | composition |
| `BundleImport` | durable import and no-replace publication, rivals and power loss | state machine |
| `Campaigns` | the three campaign loops | sequential loop with callbacks |
| `ArchiveStore` | archive export, archive retention and pinned replay over one directory | state machine, three programs and a foreign one |
| `SqliteWal` | SQLite's log (external), the steps of a script, children, try/finally and failing operations | interpreter of scripts |
| `WalScripts` | the twenty WAL workers | scripts built from the code's own helpers |
| `SqliteExecutors` | the query, transaction, two-connection and lock-probe workers, over SQLite's locks and snapshots (external) | state machine driven by a request drawn step by step |
| `SqliteTargets` | one WAL script or one executor per run | composition |
| `*Proofs` | theorems of the module of that name; `SqliteProofs` of all SQLite modules, `ReductionsProofs` of `Reducer` and its adapters too | proofs |
| `MC*` | constants for TLC | model checking |

### Reducer

State: `pc` is the position in the nested loops, `current` the case held,
`evaluations`, `candidate_visits` and `accepted_steps` the counters of the code,
`outcome` and `exhausted_budget` how the call ended; what the adapter would still
offer is chosen as it is asked, which covers lists, generators, endless
generators and adapters that raise. There is one action per way a turn of the
loops can end: a candidate skipped, rejected or accepted, a budget met at each
point where the code looks, an adapter that raises, the stream that ends. Guards
are the budget tests in the order of the code. `work` is history: what the
adapter itself saw, so that the counters the code reports have something to be
compared with. `broken` in the MC module is a case with an invalid measure.

### Reductions, ListDeletions, SqliteCases, FrameCases and JsonCases

Each `*_candidates` operator is the sequence its generator yields for one case, in
the order of the code and with its filters (`Emitted` is the `emit` helper: only
what is shorter, each once). `Reductions` extends `Reducer` and restricts its
choices: the next candidate is the head of what the generator has left, and the
target answers the same when asked twice. A SQLite triage is three such
reductions; `NextPhase` hands the case one returned to the next, as the triage
functions do, and `reached` keeps what each phase gained. Minimality is then a
statement about adapter, loop and budgets together. A case of the family `any`
has an adapter that may do anything, so that the same runs also check `Reducer`
alone.

`Candidates` and `Measure` are constants, tabulated for TLC; `AdaptersAssumption`
says that they are what the operators compute, and TLC evaluates it on every case
of the run. For a JSON case, whose operators are recursive, the MC module fills the
table and nothing is assumed of it.

Abstractions: a statement's text is a model value and its parameters are numbers
or lengths; floats count in ten-thousandths; texts are words over a small alphabet
in which one letter takes two bytes; a key of a JSON object has one character; a
`filename*` parameter is not mixed with a plain one; the operation code of a
search-params request is left out. Rejections by the parsers and a `measure` that
raises are in `Reducer`'s adapter that may do anything. `True` becoming `False`
and one-digit numbers becoming 0 in the JSON reducer are never shorter, so never
emitted.

### ReproBundle

Writers, replayers and retention passes are processes over one root. A directory
is its two files, each absent, cut (created and not filled) or whole; a whole
manifest holds what `write_repro_bundle` puts into it. One action is one call on
a path: `mkdir`, the two creations and the two writes, each look and unlink of
the cleanup, the loader's listing, stats and reads, each unlink of `rmtree`. A
write may fail, any exception may come while the `try` is open, and any process
may be killed between two steps. `Evaluations` gives what one evaluation of an
input may show under a configuration, so that a target may be flaky; the case a
triage evaluates is reduced first (whatever `Reducer` allows: no larger, and
seen failing with the captured signature) and evaluated once more by
`write_repro`. Comparison, signature, manifest field checks and the evidence of a
failure model are operators named after their functions.

Abstractions: a digest is the input it is of; sizes are of inputs only (the
loader's limits on sizes and its type checks are left out), its two looks at the
manifest are one; `argv`, durations and messages are left out; there are no
symbolic links; the counters a reduction leaves are valid, which `Reducer` shows;
a file that is gone when `rmtree` comes to it may raise or not, as the Python
versions differ.

A bundle from before the digests says only the size of its input, so that when it
is replaced while it is read it may be joined to another input of that size;
`LoadedIsOneBundle` excepts it. A failed writer cleans up by path; when a
retention pass accepted its bundle before it failed, the writers of that name can
from then on take each other's files, and not only two of them: the pass may
remove the directory of a second one, whose cleanup then takes a third one's
(`Undermined`). The code documents no locking, so the properties name the case
and it is a hazard, not a finding. For the same reason
`RemovesOnlyWhatItAccepted` and `WritersSayWhatTheyLeft` are about one retention
pass at a time: of two that have accepted the same bundle the second removes
whatever was published under the name after the first.

### ProcessRunner

Actors: the calling thread (`pc`), one drain thread per stream, the stdin
thread, the root process and its descendants. The target may write, spawn,
redirect its streams, start a new session or exit between any two steps of the
caller. The caller's actions are the steps of `run_process` in order: launch, job
creation and assignment (on `nt`), the poll loop with its three exits (root gone, output budget, deadline),
kill, reap with a timeout, the group or job query, the drain joins, the final
construction of the result. The data is what the result needs to be judged: bytes
emitted, in the pipe, in the thread's hand, captured and counted per stream, and
the flags. Time is abstract: a deadline passes at any step, and passes some time.

Abstractions: no pid is reused, a pipe read does not fail, a process that was
killed does not act again, a target's standard streams are redirected all at
once. The hazards list names the code lines where the first two bite.

### FaultController and DurablePublish

`FaultController` gives what the n-th call of a controller does. As in the code,
the replace and directory controllers live as long as their publisher while the
file-sync controller is created anew by every `publish`.
`DurablePublish` has one record per writer (its step, payload and faults), the
staged files by identity, the directory as the program sees it and the older
states a power loss may bring back, and the ledger of returned publications. The
steps are open and write, file fsync, replace, directory fsync, return; each can
be killed, fail with the injected fault or fail as storage does. The file system
is journalled: directory updates reach the disk in order and each is atomic;
file content that was never fsynced may come back written, torn or empty.

`PublishedFile` knows of none of this. A call begins, takes effect once or not at
all, and returns or is given up; a reader finds the payload of the last call that
took effect; a power loss may take back what took effect since a call last
returned, for good. `Register` maps the writers to it: the calls of writers before
their rename are pending, those between rename and return are applied, what is
shown is the content of the destination, and the fallbacks are its contents in the
versions of the directory that a power loss may leave. Opening is the beginning of
a call, the rename its effect, the directory fsync its return; writes and file
fsyncs are stutters, failures and kills give the call up. What makes the mapping
hold is in the code's order and in `open("wb")`: were the file that a failed call
left staged not truncated by the next one (`Open_KeepsStaged`), that call would
publish the payload whose caller was told it had failed.

### StorageTargets

`script` is the worker that runs, or `none`: then writers publish freely, with kills
and power losses. A script is the sequence of its calls: how far each goes (to its
marker, or to the end of a publish), which fault it injects, and what is read of the
destination and of its staging file afterwards. `Advances` takes the steps of
`DurablePublish`, `CallEnds` is the kill of the child or the end of the call when all
is as expected, `Raises` the target error when it is not. `CallFails` is one genuine
error of the operating system, with errno EIO or another, at any point where no fault
is injected. A killed child sleeps after its marker, so it leaves the same as a
call that ended, and the wait for it is taken to succeed.

`_durable_publish_file_sync_crash_worker.py:121` recognises its fault by errno alone:
an EIO of the write before the fsync passes for the injected one. `ReportIsTrue`
names that case (`TakenForTheFault`) and no other.

### BundleImport

One record per importer; entries of the destination's parent directory name
bundles by identity. The steps are parent creation, holder creation, archive
import, the four checkpoints with their injected faults, fsync of both files and
of the directory, identity, no-replace rename, parent fsync, cleanup of the
holder. A rival program may publish to the same name, or replace the staged
directory, at any step; a power loss may occur at any step.

### Campaigns

`kind` selects the loop, `limits` its arguments. A case is named by its lineage
(the seed and the mutation indices that led to it), so that "which parent was
mutated, and when" is visible in the value. The evaluator's answer (signature,
features one at a time, or an exception) is chosen when it is asked. `evaluated`
is a history variable: everything the evaluator said, in order; the properties
compare what the campaign keeps with it.

### ArchiveStore

State: `directory` names inodes, `content`, `mtime` and `ctime` belong to them.
A *retention* pass has its position (`retention`), the names not yet looked at
(`todo`, taken in the order of `sorted`), the stat it holds (`seen`), the items validated, deferred and kept, and
the removal list. Looking at a child is two steps, stat and read, as in the code,
so that a file can change between them; ranking takes one item per step, in two
passes for a diversity-preserving policy; a removal is a recheck of the path's
identity and then an unlink of the path. An *export* is its steps check, stage,
write, fsync, look, link, confirm, clean up, directory fsync; it is plain or
durable, each step can fail, and it can be killed between any two. A *replay*
reads an archive retention kept, with its digest or without, and then runs it.
The *other program* moves a file onto a name, removes a name, or rewrites an
archive in place, at most `MaxMeddling` times.

The exporter's staging file is a child of the directory retention lists, under a
name that sorts before the others: the model has both, and the race between them.
With room for one archive, retention may keep the staging name, remove the name
just linked to the same inode, and leave the exporter to unlink the staging name:
the archive is then gone although nothing failed. The documentation
(`docs/repro-archive-retention.md:19`) disclaims locking against concurrent
writers, so this is a hazard at `sc/repro_archive.py:180` and not a finding.

Abstractions: an archive's content stands for its bytes and its digest; every
write, link and unlink gives an inode a new ctime (clock granularity is not
modelled); the unlink of an existing file does not fail; there is no power loss
here (`DurablePublish` and `BundleImport` have it); the other program leaves the
bytes of a private staging file alone.

### SqliteWal and WalScripts

`WalScripts` translates each worker's `_run`, and the helpers it calls, into a
sequence of steps: an operation, the connection that makes it, and the value it
writes or must be answered. `CommitValue`, `StartReader`, `ForceKill` and the
others are the functions of those names; the crash recovery worker yields one
script per valid set of options. `SqliteWal` executes any constant `Steps` under
`ScriptsAssumption`, which TLC evaluates for all the scripts of the repository: each
step has a value of the kind it needs (`WellFormed`); `Blocks`, the try/finally
blocks around each step, nest inside the script (`Nested`); and a child
that was started and not yet ended is in a block that kills it, but for the two
moments the code has (`Protecting`). There is one action per operation; a
wrong answer sets `raising`, and so does a call that SQLite rejects (`Rejected`), which
no script of the repository makes.

The engine is external: a database has its mode, the value in its file, the log
of commits since, and how much of the log a checkpoint has copied. A reader's
mark says where its snapshot ends, 0 when it reads the file itself. A checkpoint
copies up to the oldest mark, truncates only when nobody reads the log or writes,
a writer starts the log anew when it is all copied and nobody needs it, the last
connection to close checkpoints, and a log left by a killed process is counted
anew by the next one to open it. Commits made while the mode is not WAL go to the
file.

Children are processes that keep a connection until killed. `scopes` is the
stack of the try/finally blocks entered, each with the children it kills and in
which order: the order of the code, which differs between workers. A start
function is such a block of its own until it returns its child (`hand over`).
Up to `MaxFailures` operations raise instead of working, including the wait for a
killed child, which leaves the rest of its finally block undone. A reader answers
once or always, as the two `_reader` functions do; asking once more than it
answers would block the script for ever. `Sleeper` are the writers, which sleep until
they are killed; the one of `_committed_writer_main` would also exit when its control
pipe closes, and is held to the same.

Abstractions: one row stands for the database, a commit for its frames;
`integrity_check`, the counters a checkpoint also returns and the payload are
left out; a killed process releases its locks at once, which the code waits for
with `communicate`; a script that is raising closes its own connections
unobserved. A failure inside a child is a failure of the step that needs it.

### SqliteExecutors and SqliteTargets

A run is one configured worker (`job`: which worker, journal mode, begin mode,
fault, budget, ceilings) that draws its request one statement or step at a time;
what is drawn is what decoding accepted, and a rejection is one action. `request` keeps what was drawn and ran to its end, per stage of the
worker. The table
is the sequence of texts inserted, a text is its length. `session` is what SQLite
holds for a connection: its transaction, the table its snapshot shows, what it
wrote, its lock. `ReadError`, `WriteError`, `BeginError`, `CommitError` and
`DrainError` are SQLite's rules for DELETE and WAL mode; everything else is the
workers' code: which errors a `try_` step records and which end the run, the
checkpoints of the fault controller, the steps of the virtual machine, the byte
counts of the collecting loops and of the transcript, the exit codes.
A `try_query` of an `INSERT ... RETURNING` by itself commits when its rows are
exhausted, outside the `try` that records a busy database, and then ends the run:
the model has it, at `QueryStep`.

SQLite is outside the repository. Its rules here were compared with the real
two-connection worker over 12,000 random scenarios of up to eight steps on SQLite
3.40.1, in both journal modes, without a disagreement.

Abstractions: statement text, parameters and the keys of a record are sizes
(`HeaderBytes`); an SQLite call costs one step of the virtual machine; failures of
the journal and synchronous pragmas, deferred constraints at commit, floats and
blobs, the depth scan of the JSON input and `BUSY_RECOVERY` are left out.

## 3. The runs

| Run | Asks | Bounds | Why they suffice |
|---|---|---|---|
| `reduction` | truth of result and evidence; both budgets; minimality; phases keep their gains; termination | an adapter that may do anything over 5 cases with a tie and a broken measure; all byte strings up to 4 over 2 letters and one to three small failures per format and SQLite phase against every deterministic target; evaluation budgets 0, 1, 3, 4, visit budgets 0, 1, 4 for the former, 3 or 40 evaluations and 5 or 40 visits for the latter | two accepted steps, a rejected tie and each budget ending a pass, a call before it and a call after it all fit in 4 calls; widths 4, 2, 1 and a short last chunk at length 3 occur; each phase has something to remove that the others cannot |
| `process_runner` | complete output, containment, reaping, return, on both platforms | root and one child, 2 bytes emitted, pipe of 2, limits of 1 | the second byte crosses both the stream limit and the aggregate limit; a child is all an orphan takes; streams are independent |
| `windows_containment` | the documented containment on Windows | as above, 1 byte, `nt` only | expected violation, see findings |
| `job_query_failure` | a failed job query is reported | same | expected violation |
| `durable_publish` | completeness, durability and truthful failure; that all writers together are one atomic register (`PublishedFile`); true reports of the storage workers | 2 writers, 3 publications; a publisher without faults, one that fails its first file sync, one that fails its first directory sync and its second replace; or one of the 3 workers with one storage error of either kind anywhere in its script | an overwritten, an overwriting and a concurrent publication; a fault on a call and on the one after; the scripts are the whole domain and an error ends all of them but one |
| `bundle_import` | wholeness, no clobbering, swaps, holders, faults | 2 interchangeable importers, the injected fault before publication, after it, or never | one winner and one loser; a third importer meets the same states as the second |
| `durable_import_parent` | an import that returned survives power loss | 1 importer | expected violation |
| `archive_store` | what retention drops, what it unlinks, what replay runs, what an export reports | 3 names, initially 2 or 3 archives of 2 failures and 2 sizes or nothing, two tied mtimes and an older one, 1 exporter, 1 foreign step, one policy per limit and one that preserves failures under both | a duplicate and a representative compete for the last place; the exporter's staging name and its link are both listed; one foreign step fits in each window |
| `repro_bundle` | what is published, loaded, removed, left and replayed | 2 writers and a replayer or a retention pass, or one of each, with always failing, flaky and misfiled cases; 3 writers of one case and a pass; 2 names; 3 inputs (always failing, flaky, breaking the harness), 2 configurations; initially a bundle without digests, a tampered one, one of another version or nothing; limits 0 and 1 | a bundle is removed and written anew while a third process reads it or cleans up, and a third writer loses its files to the cleanup of a second one; the proofs are for any number |
| `retention_eligibility` | the documented agreement of retention with replay | same | expected violation |
| `sqlite_targets` | each WAL script's expectations and its cleaning up; what the executors write against what was done | all 20 workers with all 16 option sets of one of them, 2 failing operations at any steps; the executors' jobs: scenarios of up to seven steps of two connections in both journal modes, transactions with each fault, budget and reopening, ceilings one below and at the size of an answer | the scripts are the whole domain; the second failure is the one that meets the cleaning up of the first; a lost update needs two begins, two writes and two commits |
| `campaigns` | witnesses, corpus, schedule, endings | 3 features, 2 signatures, six limit records, each of which lets one ending happen | two rounds through a corpus that grew, with two ceilings met at once |

Deadlock is checked for the reduction, runner and SQLite runs, whose specifications
loop in their final state. In the storage, bundle, archive and campaign runs it is
off: a process that is done or was killed takes no further step, and neither does
a finished campaign.

Every property of a passing run has a mutant in `PROJECT.json`: the change to
the code's model under which that very property fails. The modules' `TypeOK`
documents their state; the run of `ProcessRunner` checks it as well, and the
proof modules of `Reducer`, `ProcessRunner`, `DurablePublish`, `BundleImport`,
`Campaigns`, `ArchiveStore`, `SqliteWal` and `SqliteExecutors` prove it of theirs.

## 4. Fairness

- `Reductions`, and `Reducer` in it: weak fairness of the call as a whole, which is sequential code in
  its caller's thread. Its callbacks are assumed to return or raise; that a
  *generator* goes on for ever is not assumed away, and the visit budget is what
  ends it.
- `ProcessRunner`: weak fairness of the calling thread (it holds no lock and
  every wait it makes has a timeout) and of a deadline's passing once set. None
  for the target, its descendants, the drain threads or the job: `Returns` says
  the call ends although all of these stop.
- `Campaigns`: weak fairness of the loop, which runs in its caller's thread.
- `SqliteTargets`: none; scripts and requests are finite, and a deadlock would be
  reported.
- `ReproBundle`: none; it has safety properties only.
- Storage modules: none; they only have safety properties, and any actor may stop
  for ever between two steps, which is what a kill is.

## 5. Findings

1. `sc/runner.py:294` (run `windows_containment`). A Windows target runs from
   `Popen` on and joins the job only afterwards; a child it starts in between is
   outside the job, and with redirected standard streams outlives a result
   without infrastructure error. `docs/process-tree-cleanup.md:17` and the
   docstring at `sc/runner.py:228` say such children are contained.
2. `sc/runner.py:363` (run `job_query_failure`). After a timeout the code drops
   the error of a failed job query, although `docs/process-tree-cleanup.md:7`
   says a query failure is an infrastructure failure. The result is then an
   ordinary, comparable timeout.
3. `sc/durable_repro_import.py:90` (run `durable_import_parent`). Missing parent
   directories are created with `mkdir(parents=True)`, but the directories that
   hold *their* entries are never synced; `docs/durable-repro-import.md:11`
   promises durable publication.
4. `sc/retention.py:47` (run `retention_eligibility`). Retention validates with
   `load_repro_bundle`, replay with `load_evidenced_repro_bundle`, which also
   rejects contradictory evidence of a failure model, and `write_repro` checks
   none of it. Such a bundle is refused by every replay, yet it counts against
   `max_bundles` and can displace one that can be replayed. The docstring
   (`sc/retention.py:21`) says bundles that replay would reject are ignored.

The passing properties are stated around these: `NoMemberSurvives` is about
members of the group or job, `EndsLeaveWhatTheySay` about visibility,
`RemovesOnlyWhatItAccepted` about what the loader of retention accepts.

## 6. The proofs

All theorems hold for every value of the constants under the assumptions named
in the component's module (two of `ReproBundleProofs` also assume one retention
pass), and none assumes fairness. The assumptions say what
the code or the interpreter gives: budgets, limits and measures are integers of
either sign, fault occurrences are numbers, writers, importers, processes and
descendants are any sets that do not overlap, the destination is no writer's
staging name, mtimes and sizes are integers, what one evaluation may show is a
finite set, and (`EarlierAssumption`) what a run finds below its root was written
by `write_repro` or an earlier version of it, or fails the checks of a load. Of a
triage's cases they say that an adapter yields finitely many, of the kind of the
case it was given, and that they are those the operators compute. Eight
modules hold theorems; each names its inductive invariant, of which TLC found the
early versions wrong before the provers saw the last one.

- `ReductionsProofs`. `IInv` adds to the type invariant and the properties what
  holds inside the loops: `CountersAreTrue` (the code's counters are the calls
  the adapter saw), `InLoop` (the inequalities between the three counters and
  the budgets) and `InPass` (while a pass is under way, each smaller candidate
  pulled in it was rejected). Without `InPass` nothing is known when the stream
  ends, and "fixed point" would not be inductive. From it: `TypeCorrect`,
  `ReductionPreservesFailure`, `FixedPointsAreEarned`, `BudgetsHold`,
  `EvidenceHolds`, and, because a new phase starts from nothing
  (`RestartInvariant`), `PhasesAreReductions`.
  `PhasesInv` is what the phases of a triage maintain: each candidate of the pass is
  still to come or was pulled (`StillToCome`), so that a stream that ends was seen
  whole (`AllPulled`); what was rejected, the target handled; and the case held is
  worth to every earlier phase at most what that phase ended with (`Place`,
  `Kept`). Two lemmas about the adapters finish the argument. `OneLessIsOffered`:
  the case with one item less is among the candidates and measures less, so a
  fixed point has rejected it (`FixedPointsAreOneMinimal`). `MeasuresAreKept`: the
  adapter of a later phase edits nothing an earlier one measures
  (`PhasesKeepGains`). They rest on what `FlattenSeq`, `Those`, `EachOnce` and
  `Sum` give for sequences of any length. No induction theorem is used for those:
  the smallest place at which a partial concatenation, or a partial sum, would go
  wrong is shown not to exist.
- `ProcessRunnerProofs`. `Containment` says, for each position of the caller,
  which members may still run: any before the group or job was queried, only
  killed ones after it, none when the query found nothing and no error was
  recorded. It has to carry the platform's facts about the job handle (no job,
  no members), because a member may be born up to the moment the last one is
  gone. `Reaping` links the position of the caller, the life of the root and the
  recorded error. `Accounting` says of every stream that each unit a member wrote
  is in the pipe, in the hands of its drain thread or counted, that what is kept
  is what was counted up to the limit, that a drain thread is done only when
  nobody can write any more, and that the budget is the sum of the counts;
  `Clearance` says that a run with neither an error nor a timeout has both streams
  drained from its last steps on, and is within its budget. From them:
  `TypeCorrect`, `NoMemberEverSurvives`, `UnreapedRootsAreReported`,
  `ComparableOutputsAreComplete`.
- `DurablePublishProofs`. `StorageInv` says of *every* version of the directory
  a power loss may leave, not only of the one seen, that its destination names a
  fully synced publication and shares no file with a staging name, and what each
  writer's staged file holds at each step. `Ledger` ties each writer's outcome to
  the list of publications; `Durable` says no surviving version of the directory
  is older than a publication that returned, nor than one whose writer is about
  to sync the directory. From them: `TypeCorrect`, `DestinationsAreComplete`,
  `FailuresAreTruthful`, `ReturnedAreDurable`.
  `PublishingIsAtomic` is that the storage workers' writers implement
  `PublishedFile`, `WritersShareARegister` the same of writers that only publish.
  No two calls under way have the same number (`CallsUnderWay`), so each step of one
  writer is a step of its own call; staging files and the destination never share
  a file in any surviving version of the directory (`StorageInv`), so writing one
  is unseen (`StagingIsUnseen`); and a rename shows the writer's own payload,
  since what it staged is known (`Ledger`).
  The second half is about the same writers under the storage workers
  (`TargetSpec`). A worker starts each publisher anew, so that a call's outcome is
  forgotten when it is taken in; `PublishInv` survives that (`CollectingKeeps`), and
  `WorkersPublishSoundly` has the three properties there. For what a worker
  reports, `ScriptInv` says where a call stands as a function of how far it came,
  what the three scripts' calls leave to the next one, and that every call that was
  taken in left what its script expects, since `CallEnds` looks before it goes on.
  A report that is not true would then need a call that failed and was taken for
  the injected fault; `Mistaken` is the one such error, an EIO of the write.
  From it: `ReportsAreTrue`.
- `BundleImportProofs`. For each importer `IInv` says what its position implies:
  what is staged (nothing, a bundle being filled, a sealed one), whether the
  holder or the destination has it, what was synced and which fault checkpoints
  were asked. Of the directory it says that every version that may survive a power
  loss names at the destination nothing or a bundle that was whole when it got
  there, and that a durable call that returned leaves no older version to survive. A
  power loss ends everybody, so that nobody goes on from a directory he did not
  see. From it: `TypeCorrect`, `VisibleBundlesAreWhole`, `EndsAreTruthful`,
  `ReplacementsAreCaught`, and the action property `NothingIsEverClobbered`.
- `CampaignsProofs`. The evaluations are kept as a list, so the proofs are about
  what one more evaluation does to it. `Witnesses` adds that every signature met
  has *some* witness: without it, a failure the code finds among its witnesses
  could still be new to the list. `Corpus` needs no strengthening. `Validated`
  keeps what the first check of the limits showed, which the index of the next
  mutation rests on. From them: `TypeCorrect`, `WitnessesAreKept`,
  `CorpusIsNovel`. For the schedule, `Order` says which case is the n-th
  without a division (`IsMutation`) and that the two indices count the cases taken
  so far, the one under evaluation included; for the endings, `Below` says that a
  running campaign is below every ceiling and `Exits` is the property itself. From
  them: `FirstInFirstOut`, `ExitsHold`.
- `ArchiveStoreProofs`. What the code rests on is that a file identity which still
  matches vouches for the content: no step changes what a file holds, or gives it a
  name, without a new ctime (`Ages`), so that of every item listed, kept or to be
  removed the content is the one read as long as its name still names that file
  with that ctime (`Vouched`, `Trusted`), also when the file was swapped between the
  stat and the read. `PinnedIsKept` says the same of a replay with a digest,
  `Truthful` for each step of an export what is behind the staging name and the
  archive's name. From them: `TypeCorrect`, `RemovalsAreOfWhatWasRead`,
  `ReplaysRunWhatWasKept`, `ExportsTellTheTruth`.
  The last part is about ranking. That a dropped archive did not fit is a statement about sums
  over sets of archives. The library's induction theorems take an operator as a
  parameter, which none of the provers instantiates; a least counterexample over the
  cardinality of finite sets serves in their place, by the well-foundedness of the
  naturals: it gives that
  a sum does not depend on the order it is taken in, and that it grows with the
  set. `Ranked` says that a diversity-preserving policy keeps one archive per
  failure before any second one and that these representatives stay the newest of
  their failures (`Represented`); room once used never comes back (`Justified`). From it:
  `DroppedBecauseItDidNotFit`.
- `ReproBundleProofs`. `BundlesAreTrusted` says that every manifest below the root
  which passes the checks of a load is evidence of an evaluation of the input whose
  digest it holds, in the context it names, and that a manifest of this run's
  writers shows what its writer was given. `Holds` links the position of a writer
  to the evaluation it holds, `Bound` that of a reader to what it read and checked
  so far, while directories under the same path come and go. From them:
  `PublishedIsEvidence`, `AcceptedIsOneBundle`, `OnlyTheTargetOrTheHarnessDiffers`.
  The second half is about who made a directory and who lost it, for one pass
  (`\A p, q \in Pass : p = q`). `CInv` says that whoever is inside a directory made it
  and is alone there, but for a writer that has written all and whose directory
  the pass removed (`DirectoriesAreOwned`); that what a writer has there follows
  from how far it is (`Conduct`); that what the pass holds of the bundle it reads is
  still there, or its writer cleaned it up (`Sight`), and the same of what it
  accepted and has still to remove (`Accounted`). All of it ends with the failure
  of a writer whose bundle was accepted (`Betrayed`), but only once the pass has
  nothing more to do under that name (`Pending`); an exception without that
  condition would leave nothing to say of what a pass is still reading. That `Undermined` needs the writers of the
  destination, and not the one that lost its directory, TLC found with three
  writers. From it: `RemovalsAreOfWhatWasAccepted`, `WritersLeaveWhatTheySay`.

- `SqliteProofs`, first the WAL targets. `EngineInv` is the little of the external
  engine that types rest on: a mark points into the log of its database, and the
  copied part of a log ends within it (`SnapshotsAreHeld`, `Sound`). That the engine
  model behaves as SQLite does is not proved; `ScriptsAgree` compares it with what
  the workers expect. From it: `TypeCorrect`.
  For the children, `ControlInv` says that `scopes` is what `Blocks` says of the
  position, or while an error unwinds the script a tail of it, and that whoever
  lives is in a block that is still open, or is one of the exceptions the failures
  so far account for (`Excused`). From it: `WritersAreEnded`, whatever fails and how
  often, and `ChildrenAreEnded`, which takes from `ScriptsAgree` that only a failure
  makes the script raise.
  Then the executors, for every configuration of a worker (`JobAssumption`) and
  requests of any length. What a recursive sum or replay computes for them is
  proved by least counterexamples, as above. `ExecutorsAreTyped` comes first.
  `Within` says of every record and of the result refused what the byte count of the
  finished JSON says of it; that it holds rests on the collecting loops, which stop
  in the middle of a row, collecting exactly what fits in the end
  (`CollectsWhatFits`, `BytesAreCounted`, `TotalGrows`). From it: `CeilingsAreKept`.
  For targets with one connection, `RunsOn` says while they run that the fault
  controller has counted the operations of its kind and not passed its occurrence,
  that the budget left is what was given less the operations made, that the
  committed table and the transaction's own rows are those of the statements so
  far, and that each of them has its answer; `EndsWell` says what remains of that
  once the run is over. From it: `ObservationsAreAllOrNothing`.
  For two connections, the transcript told so far is followed step by step.
  `Explains` links the story to what SQLite holds for the two connections: a
  transaction that has read looks at a table it may have been looking at by the
  transcript, one that has not will look at the present one, whoever holds the lock
  has read the present one, and nobody else has written. That last part is what
  excludes the lost update. With `ProbeInv`, for the lock probe:
  `TranscriptsAreExplained`.
  Last, a script leaves the executors alone and an executor the scripts
  (`OneSideRuns`), so that the results hold of the composition that the run
  checks: `TargetsTellTheTruth`, `TargetsEndTheirChildren`.

Only model-checked, and why:

- liveness (`Terminates`, `Returns`, `Ends`): out of the prover's reach, as is
  anything with ENABLED;
- what the JSON reducer yields: its operators are RECURSIVE (`JsonCases`), and tlapm
  has no SMT backend in a module that reaches one. The run puts JSON cases through
  `Reducer`'s properties; `OneMinimal` says nothing of them;
- `ScriptsAgree`, which is about the expectations of twenty particular scripts.

## 7. The plan

What is still to be modelled extends runs that exist.

1. The parts of `ReproBundle` left out: the loader's limits and links.
2. The bounded decoding of the SQLite requests.

## 8. What is not modelled

The codec, URL, JSON and HTTP targets are straight-line functions of their input:
there is no order of events to explore, and their own differential tests compare
them with independent implementations. The same holds of the parsing and encoding
around the format-aware reducers, of case generators and feature extractors, and
of the decoding of SQLite requests, whose outcome (accepted or rejected) the
executors take as a choice. Formatting of reports and the command line are left
out. The byte mutation schedule is a deterministic function of an index, which
`Campaigns` takes as "some new case". A power loss under a storage worker is not
modelled, because its report claims nothing about one; `DurablePublish` has the
power losses.
