# CarrierBundleLab: TLA+ models and proofs

CarrierBundleLab (`src/carrierbundlelab`) replaces the carrier bundle of a
USB-connected phone. It keeps a journal per transaction, a backup of the
original carrier tree and a lock file per device, so that a half-done
replacement can be noticed and taken back. This directory models that
machinery, checks it with TLC and proves its central guarantees with TLAPS.

## 1. Inventory

| Component (source) | State it keeps | Operations | Talks to |
|---|---|---|---|
| Operation lock (`transaction/journal.py`, `OperationLock`) | `work/<udid>/operation.lock`, a file with its owner's pid | `acquire`, `release`, `is_stale` | the file system, `os.kill(pid, 0)` |
| Journal (`transaction/journal.py`, `CarrierTransaction`) | `transactions/<id>/journal.json`: state and events; a copy of it in the memory of each command | `start`, `open`, `transition`, `fail`, `mark_recovery_required`, `find_incomplete`, `release_lock` | the lock; every command |
| Backup (`transaction/backup.py`) | `original/carrier-tree`, its manifest and a second read | `create_verified_backup` | transport, journal |
| Install workflow (`workflow/install.py`) | none of its own | `install`, `_run`, `_mark_recovery`; a dry run is the same code with an early exit | journal, resolver, backup, migration, transport, rescan, binding |
| Restore and recovery (`transaction/recovery.py`) | none of its own | `restore_latest`, `restore_transaction` | journal, lock, transport |
| Command line (`cli/main.py`) | none | install, plan, backup, restore, recover, mark-recovery, and reports | everything |
| Transport (`transport/`) | the carrier tree on the device | `probe`, `export_tree`, `install_tree`, `verify_tree` | the device; the AirTraffic backend fails closed, the filesystem one works on a local tree |
| CommCenter monitor (`activation/commcenter.py`) | the syslog process, its log file; attempts are re-parsed on every read | `start`, `attempts`, `wait_for_binding`, `stop` | the phone's log |
| Binding verifier (`activation/binding.py`) | none | `verify` | the monitor |
| Rescan (`activation/rescan.py`) | none | `trigger` | the monitor |
| Migration (`carrier/migration.py`) | `desired/carrier-tree` | `build_desired_tree` | manifests, archive |
| Manifests (`carrier/manifest.py`) | none | `build_manifest`, `compare_manifests` | file system |
| Resolver (`carrier/resolver.py`) | none (a YAML table) | `explain`, `resolve` | configuration |
| Device (`device/`) | a session with cached device information | `list_devices`, `connect` | pymobiledevice3 |
| Carrier state (`carrier/state.py`) | `state-export`, one directory per device that all reports use | `read_installed_bundles` | transport |
| Inspector and archive (`carrier/inspector.py`, `archive.py`) | none | `inspect`, unpacking | `bundle check` |
| GUI (`gui/app.py`) | none | `refresh` | device |
| Books, logging, redaction, errors | none that a transaction depends on | a diagnosis, formatting | |

Components interact through calls within one command, and *commands interact
only through files*: the journals, the lock file and the device's tree. Nothing
stops a user from running two commands at once or from killing one, and that
is where the difficult behaviour is:

* **Interleaving.** The lock file is created, and filled a moment later; it is
  judged stale, and unlinked a moment later. Dry runs, backups and
  mark-recovery use no lock at all. `restore_transaction` reads the journal
  before it has the lock. Every writer of a journal writes the same
  `journal.json.tmp`. A report exports the device while a tree is being
  replaced. A second monitor empties the log that a first command is waiting
  on.
* **Crashes.** A process may be killed between any two file operations: with a
  half-replaced tree on the device, a lock file on disk, a temporary file that
  is half written, or a journal in any state.
* **Partial failure.** Every transport call and every journal write may
  raise; `install_tree` may report success having copied a part.
* **Sequences of legal commands** that lead where none of them alone would:
  backup after a crash, restore after a commit, mark-recovery after anything.

What makes each part correct:

* *Lock*: two commands never hold it at once; a dead owner never blocks the
  device; a command that gets the lock gives it up.
* *Journal*: what is on disk can be read, and only moves along the transition
  table; the record of a replacement is written before the replacement starts.
* *Backup and install*: `COMMITTED` is written only over a verified backup and
  with the desired tree on the device; a torn tree is always on record.
* *Restore*: `ROLLED_BACK` means that the device holds the backed-up tree,
  that the tree was whole, and that an interrupted restore can be repeated.
* *Binding*: `VERIFIED` rests on evidence for one slot and one attempt, that has
  come since the monitor was started.
* *Migration*: nothing outside CarrierLab's own bundles changes, and a copy of
  the desired tree compares equal to its manifest.
* *Reports*: a report lists what was on the device while it was made.

`PROJECT.json` lists the hazards one by one, with their lines and the properties
that watch them.

## 2. Modules

| Module | Models | Composes with |
|---|---|---|
| `TransactionStates` | `TransactionState`, `ALLOWED_TRANSITIONS`, `fail()`'s target, what a journal remembers | used by `CarrierTransactions` |
| `DeviceLock` | the abstract lock: one command inside at a time, a lock left behind is taken over, until the promise is given up | implemented by the next one and used by `CarrierTransactions` |
| `OperationLock` | the lock file, one action per system call | implements `DeviceLock` |
| `JournalFile` | `_atomic_write_json`, call by call, by writers with the lock and without | extends `OperationLock`: writes happen in and outside of its locked region |
| `TreeReplacement` | the abstract replacement of a tree: open under a fixed backup, then committed or brought back | implemented by `CarrierTransactions` |
| `CarrierTransactions` | every state-changing command, any number of processes, one device | `TransactionStates`; uses the lock as `DeviceLock` allows and implements `TreeReplacement`; `Resolve`, `Bind` and `Desired` stand for the three modules below |
| `AssetSelection` | the choice of the device, the compatibility table, unpacking the supplied file, `bundle check` | what is behind `Resolve` |
| `CarrierTrees` | manifests, the desired tree, placement and restoring, file by file, and reports of the bundles | what is behind `Desired`, `Copy`, `Readback` |
| `CommCenterBinding` | the start of a monitor, the log's attempts and the verdict on them | what is behind `Rescan` and `Bind` |
| `MC*` | instances for TLC | |
| `OperationLockProofs`, `JournalFileProofs`, `CarrierTransactionsProofs`, `CommCenterBindingProofs`, `AssetSelectionProofs`, `CarrierTreesProofs` | theorems | extend the module they are named for |
| `CarrierTransactionsRefinement` | theorems: what `CarrierTransactions` implements | extends `CarrierTransactionsProofs` |
| `CarrierTransactionsSerial` | theorems: commands that do not overlap | extends `CarrierTransactionsRefinement` |

Names follow the source: an action has the name of the method or of the
journal state it writes, a variable that of the attribute. `PROJECT.json` maps
each definition to its lines. Operators that are defined right before another
one and never used (`AcquireAlways`, `DroppedAway`, ...) are that definition
with a plausible bug; putting one in its place must make a property fail, and
does, for every property of every passing run.

### OperationLock

`file` is the directory entry: the creator of the file it names and whether
that creator has written its pid. `seen` is the local `pid` of `is_stale()`.
`acquire()` is `Exists`, `Recheck`, `Read`, `Judge`, `Unlink`, `Open`,
`WritePayload`; the payload goes through the open descriptor, so it does not
reach a file that somebody else has created meanwhile. `Release` unlinks the
path without reading it, as the code does. `Abandon` is `start()` raising
after `acquire()`, `End` a process that dies.

`ImplementsDeviceLock` maps the processes that have created the lock file and
not left the region to `inside`, the file of a dead or departed owner to `left`,
and the history variable `wrongful` to `broken`: taking a live owner's file
away is the one step after which nothing is promised.

### JournalFile

One journal that several processes write: `OpenTmp` (which empties a temporary
file that is there), `WriteTmp` (through the open descriptor, whatever the file
is called by now) and `Replace`, between which a writer may be killed, or one of
its calls may raise (`WriteRaises`). Either leaves the temporary file behind, with
a beginning or all of the text in it (`BreakOff`); after an exception the process
goes on, and gives up its lock or writes again. `handle` is the file each writer has open, by the name it has now, so `Replace` by
one writer turns the others' handles into handles on the journal itself.
`Unlocked` are the processes that may also write outside of the locked region,
as mark-recovery and the end of a dry run do. A journal that does not parse
keeps every command from starting, as `main()` reads them all (`LockStep`).

### CarrierTransactions

A journal is its state and whether it ever had `BACKUP_VERIFIED`, the two
things any command asks of it. `journal`, `original`, `device` and `lock` are
durable; `pc`, `cmd`, `cur` and `mem` die with the process. One transition is
one action, since `write_journal` replaces the file atomically: the guard is
the table applied to the *memory* (`mem`), and the effect is the file being
overwritten from that memory. Every call that may raise can do so (`Raise`);
so can every journal write, in which case `transition()` takes its event back.
`Crash` may happen anywhere; it forgets the memory and leaves the lock file
with a dead owner.

Abstractions: reading a whole tree or all journals is one step; `Torn` is any
incomplete tree; the lock is taken atomically; transactions are numbered in
the order they start (the code sorts directory names that begin with a time
stamp); the identity check of a restore is a free refusal; there is one device,
as locks, journals and refusals are per device.

Two refinement mappings connect it to what it promises and to what it needs.
`ImplementsTreeReplacement` maps each journal to a phase (`PhaseOf`: nothing,
saved, open, settled, committed, rolled back or failed), and `original` to the
backups: the device may then change only under a transaction that is open on
disk and whose backup is fixed. `ImplementsDeviceLock` says that the commands,
which take the lock in one step here, keep to the protocol that
`OperationLock` implements call by call: `InLockedRegion` is `inside`, and a lock
with a dead owner is `left`.

### AssetSelection

The phones that are plugged in and the files on disk change between any two
steps of the command (`Plug`, `Replace`). The YAML table is the sequence of
its groups in file order, each with the build and version it is under;
`explain()` takes the first that fits. The phone may leave any field out of its
answer; its board stands in for a hardware model that is left out. A phone may be
in the list twice, by cable and by network, and then counts as two. Versions are
compared as versions (`Version` has the strings that parse); one that does not parse
raises, so the groups after it are never reached (`Raises`). A file stands for its
hash and has the bundles of its `Payload` and
those elsewhere. `Connect` is the command line's choice, `ListForWindow` the
window's, which lists and connects in two steps. `CheckAccepts` is what
`bundle check` concludes of a file, with the inspector's own search for the
bundle in it.

### CarrierTrees

A tree is a function from paths to entries (kind and data, where data stands
for size, hash and mode, or is a link's target). `compare_manifests`,
`build_desired_tree` with its three strategies, the scope check and
`install_tree`, which follows links where exports keep them, are operators on
such functions. A placement is two steps, as it removes the tree before it
copies (`Wipe`, then `install_tree`), and a report of the installed bundles
(`BeginReport`, `CopyName`, `Report`) may read the device in between, name by
name. The scope check tests how a path begins (`AllowedName`), so it lets through
some names that are of no CarrierLab bundle; `ScopeRespected` and `NothingLost` are
about the bundles themselves (`OfLabBundle`) and do not use that test. `IsTree` is what a tree on disk is: every path lies below directories, and
a bundle is a directory. Links lead to files; a link to a directory is left out,
and a link to itself leads nowhere, like one to a name that is not there
(`Dangling`).

### CommCenterBinding

`log` is what the phone has written, one record per line with the slot it
names, if any, and what it says. `attempts` and `open` are the fold
`correlate_attempts` computes from the log, updated line by line: the code
parses from the start on every look, which gives the same. `verify()` looks
once, or polls up to a deadline and then looks a last time. Before that the
command has started a monitor, which empties the log (`Trigger`), has been given
a log (`GivenLog`) or has none (`NoLog`); another command may empty it at any time
(`OtherTrigger`).

`TimeoutIsUnbound` does not look at the fold. It reads off the lines alone when a
slot has been shown to be bound: a path and a success of one slot, with no
re-evaluation of it between them, each in a line that names the slot or comes while
the phone has named no other (`About`), and not taken back by a later line that is
or may be about the slot (`During`). That no such log is answered with `TIMEOUT` says
that the parser counts lines for the right attempt, keeps what it has of attempts
that are closed, and looks once more after the deadline.

## 3. Runs

| Run | Instance | Shows |
|---|---|---|
| `lock` | 3 processes that also write a journal, one of them with or without the lock, fairness (306,000 states) | `ExclusiveUnlessWrongful`, `WrongfulNeedsReplacement`, `DeadOwnerReclaimed`, `ImplementsDeviceLock`, `JournalWhole` |
| `lock_race` | 3 processes | **violated** `MutualExclusion` |
| `serial` | 1 process, all commands, 3 transactions, fairness (1.1 million states) | `TornIsAccountedFor`, `JournalFollowsTable`, `NoInstallOverIncomplete`, `LockNotLeaked` |
| `concurrent` | 2 processes, backup, install, recover, mark-recovery, 2 transactions (2.1 million states) | `WriteAhead`, `CommitMatches`, `RollbackExact`, `ImplementsDeviceLock`, `ImplementsTreeReplacement` |
| `dead_end` | 1 process, 1 transaction | **violated** `NoDeadEnd` |
| `stale_open` | 2 processes, 1 transaction | **violated** `JournalFollowsTable` |
| `dry_run` | 2 processes, 1 transaction | **violated** `DryRunIsHarmless` |
| `torn_backup` | 1 process, 2 transactions | **violated** `RestoredIsWhole` |
| `binding` | 2 slots and lines without one, 2 bundles, 5 lines, monitors started before and meanwhile (6.0 million states) | `VerifiedIsEvidenced`, `VerifiedSinceRescan`, `TimeoutIsUnbound`, `ClosedAttemptsFrozen`, `OneAttemptDecides` |
| `other_success` | the same with 3 lines | **violated** `SuccessIsOfThisBundle` |
| `trees` | 16 initial trees, with links and with a name that only begins like a preserved bundle's, 3 installs by any strategy, a report at any time (3.4 million states) | `ScopeRespected`, `NothingLost`, `RestoreExact`, `PlainTreesReturn`, `ReadbackSeesLinks`, `ReportIsCurrent` |
| `assets` | 2 phones, 3 tables with versions in two forms and one that is none, 3 paths, 5 files (1.6 million states) | `SelectedForThisDevice`, `RecordedContent`, `OnlyCarrierLab`, `BuiltPassesCheck` |

*Bounds.* Every violation of the lock needs at most two processes and a file;
the third lets a bystander take the place of either. One process that may
write a journal without the lock is enough next to two that need it; without
any, `JournalWhole` holds even where `raced` is left out. A transaction interferes
with another one only through the latest backup, the incomplete ones and the
device, so three in a row (one committed, one torn, one that meets them) show
every kind of meeting when nothing overlaps, and two processes with two
transactions show the overlapping ones. The latter leave `restore` out: from
`open()` on it is a recover, and recover may name any transaction. In the log,
five lines are two more than the shortest history that binds: a start, a path
and a success, with a line of the other slot and one without a slot between
them. Three installs
over a tree with an earlier preserved bundle use both seconds twice, which is
when the preserved bundle is moved into another and when a build fails. What
the theorems cover holds without these bounds.

*Serial and concurrent.* `JournalFollowsTable` and `NoInstallOverIncomplete` are
checked for one command at a time, and are not promised for overlapping ones:
`stale_open` and `dry_run` show where the first fails, and `_reject_incomplete`
runs before the lock is taken, so the second has a window too. The run `serial`
checks `TornIsAccountedFor` with every command, the dry run included; that
overlapping commands without dry runs keep it as well is proved (section 5).
`WriteAhead` and `ImplementsTreeReplacement` hold for overlapping commands without
dry runs; `dry_run` shows what a dry run does to them.

*Fairness.* `WF(Step(p))` for each process: a process that is inside a command
is scheduled, and each of its calls returns or raises (subprocesses have
time-outs, the rest is local file access). No fairness is assumed of starting a
command, of a crash, of an exception, of a process abandoning its lock or, in
`JournalFile`, of writing a journal.
`LockNotLeaked` and `DeadOwnerReclaimed` rest on this.

*Deadlock.* It is checked for `CarrierTransactions`: a command can always be
started. It is off for `JournalFile` and `OperationLock` (all processes may have died),
`CommCenterBinding` and `AssetSelection` (the verdict or the bundle ends the
behaviour) and `CarrierTrees` (a restore that raises leaves a journal that no
command accepts, and the bound on installs).

## 4. Where the code and its texts disagree

* `lock_race`: the lock file is created empty and judged stale while it is
  empty, and a stale file is unlinked by path, so two commands can hold it.
* `stale_open`: `restore_transaction` and mark-recovery read a journal without
  the lock and write it back later; the journal then leaves the table.
* `dead_end`: a restore that is killed, or whose transport raises, leaves
  `RESTORE_STARTED`: `recover` and mark-recovery both refuse it, and install
  and restore refuse because of it.
* `dry_run`: a dry run's journal has a verified backup for a moment and no
  lock; a restore of it can be overwritten by the dry run's next transition.
* `torn_backup`: `backup` neither refuses an incomplete transaction nor takes
  the lock, so a torn tree can become the verified backup that is restored.
* `other_success`: an attempt keeps its success when its path is replaced, so
  the success of one bundle verifies another.

## 5. Proofs

For every value of the constants: any processes, commands and number of
transactions, any trees, names and asset, any slots, bundles and lines of the
log, any phones, tables and files. The assumptions are the named `ASSUME`s of the
modules, which every run evaluates: the stand-ins for a missing lock or owner are
not processes, `Desired` maps trees to trees, the trees given are trees and the
asset is CarrierLab's alone. Where a theorem needs more, its hypothesis is named in
the table:

* `DryRunsAlone`: dry runs are not among the commands, or there is one process.
* `OneAtATime`: there is one process. It may be killed, and another command starts.
* `NoneReopened`: restore, recover and mark-recovery are not among the commands.
* `WholeTrees`: the original tree and what is desired from a whole tree are whole.
* `NothingEmpty`: no group of the table names an empty build, model or product.

`dry_run` and `stale_open` show what goes wrong without the first and the second.
The fourth says only that `Torn` is what a placement leaves, not what a device has
or an installation wants. The last is not asked for by the resolver, which takes a
field that a phone leaves out for an empty one; the table in `config/` satisfies it.

| Theorem | States | Hypothesis |
|---|---|---|
| `OperationLockProofs!TypeCorrect` | `TypeOK` | |
| `OperationLockProofs!Exclusion` | `ExclusiveUnlessWrongful` | |
| `OperationLockProofs!WrongfulUnlink` | `WrongfulNeedsReplacement` | |
| `OperationLockProofs!LockImplemented` | `ImplementsDeviceLock`, of `OperationLock` | |
| `JournalFileProofs!JournalReadable` | `JournalWhole` | |
| `CarrierTransactionsProofs!TypeCorrect` | `TypeOK` | |
| `CarrierTransactionsProofs!CommittedIsInstalled` | `CommitMatches` | |
| `CarrierTransactionsProofs!RolledBackIsRestored` | `RollbackExact` | |
| `CarrierTransactionsRefinement!LockKeptTo` | `ImplementsDeviceLock`, of `CarrierTransactions` | |
| `CarrierTransactionsRefinement!PlacementIsRecorded` | `WriteAhead` | `DryRunsAlone` |
| `CarrierTransactionsRefinement!ReplacementImplemented` | `ImplementsTreeReplacement` | `DryRunsAlone` |
| `CarrierTransactionsRefinement!TornIsRecorded` | `TornIsAccountedFor` | `DryRunsAlone`, `WholeTrees` |
| `CarrierTransactionsSerial!TableFollowed` | `JournalFollowsTable` | `OneAtATime` or `NoneReopened` |
| `CarrierTransactionsSerial!NoneOverwritten` | `NoInstallOverIncomplete` | `OneAtATime` |
| `CommCenterBindingProofs!BindingTyped` | `TypeOK` | |
| `CommCenterBindingProofs!VerdictHasEvidence` | `VerifiedIsEvidenced` | |
| `CommCenterBindingProofs!VerdictIsFresh` | `VerifiedSinceRescan` | |
| `CommCenterBindingProofs!NoBindingMissed` | `TimeoutIsUnbound` | |
| `CommCenterBindingProofs!ClosedStayClosed` | `ClosedAttemptsFrozen` | |
| `CommCenterBindingProofs!OneAttemptIsEnough` | `OneAttemptDecides` | |
| `AssetSelectionProofs!SelectionTyped` | `TypeOK` | |
| `AssetSelectionProofs!SelectionIsOfDevice` | `SelectedForThisDevice` | `NothingEmpty` |
| `AssetSelectionProofs!ContentIsRecorded` | `RecordedContent` | |
| `AssetSelectionProofs!BuiltIsCarrierLab` | `OnlyCarrierLab` | |
| `AssetSelectionProofs!BuiltIsChecked` | `BuiltPassesCheck` | |
| `CarrierTreesProofs!TreesTyped` | `TypeOK` | |
| `CarrierTreesProofs!RestoredExactly` | `RestoreExact` | |
| `CarrierTreesProofs!ScopeKept` | `ScopeRespected` | |
| `CarrierTreesProofs!BundlesAreKept` | `NothingLost` | |
| `CarrierTreesProofs!LinksAreSeen` | `ReadbackSeesLinks` | |
| `CarrierTreesProofs!PlainTreesComeBack` | `PlainTreesReturn` | |
| `CarrierTreesProofs!ReportsAreCurrent` | `ReportIsCurrent` | |

*Lock.* `IInv` adds to the types that a process past `Read` has read a pid
(`PidWasRead`), that the owner it is about to evict is dead (`VerdictHolds`;
the dead stay dead) and that as long as the clean-up has not gone wrong the file
is the owner's (`OwnsFile`). Two owners would both be its creator. The
refinement follows from the same invariant, step by step: creating the file is
`Enter`, as nobody else can be its creator; releasing, dying and forgetting are
`Leave`; the clean-up is `Reclaim`, or `Break` if the owner was alive; every other
call, and everything after a `Break`, stutters.

*Journal file.* Every step is one of the lock or leaves it alone (`LockRefined`),
so the lock's invariant carries over. To it `JInv` adds, for as long as neither the
clean-up has gone wrong nor a writer without the lock has met another: there is
one writer (`OneWriter`, from `OwnsFile`), what it has open is the temporary file,
and that is whole once it has been written (`Written`). A writer that is killed, or whose
call raises, leaves a temporary file in any condition, which the next one empties first.

*Transactions.* What a journal says of the device needs three facts at once.
`HoldsLock`: a command past `Acquire` has the lock, so nobody else places a
tree between a readback and the journal entry. `FreshIds`, `Records` and
`Backups`: an original tree is written only by the process that started the
transaction, before its backup is verified; and a process whose view of the
state is stale is never wrong about the backup. `DeviceMatches`: from a
readback that agreed to the final transition the device holds the target. None
is inductive without the others and the labels each command goes through
(`Roles`). `IInv` is their conjunction; the two action properties follow from
the guard of the last transition.

*Transactions and the lock* (`LockKeptTo`). `HoldsLock` says that a process in its
locked region has the lock; the refinement needs the converse as well
(`OwnerInside`: the lock names only a process in its region). Taking the lock
is then `Enter`, which takes over a lock that was left behind; the end of a command
and a crash are `Leave`, and every other step leaves the region as it is.

*Transactions and the replacement* (`ReplacementImplemented`). A step changes the
phase of at most the transaction it writes, but from the command's *memory*, and
the journal on disk may meanwhile have been marked by another command. `PhaseInv`
bounds how far the two can differ: before a placement nobody can have marked the
journal (`EarlyInv`), during one it stays open or settled on disk, whoever marks it,
and open while the tree is changing (`PlacingInv`), and a backup command that fails
has no verified backup in memory (`BackupUnlogged`). With these each write is
`Save`, `OpenOrFail`, `Finish` or a stutter of the abstract specification, and each
change of the device is `Place`. A dry run, which may write without the lock a
journal that another command restores, breaks this (run `dry_run`), hence
`DryRunsAlone`. Without dry runs the only writers without the lock are a backup
that has no verified tree yet, whose journal nobody can be restoring, and
mark-recovery, which leaves it incomplete. `PlacementIsRecorded` reads off
`PlacingInv` that the journal of a placement is incomplete on disk. `TornIsRecorded`
rests on `Accounted` (a torn device has a transaction that is open or has failed, or
whose backup is torn), which every step of `TreeReplacement` keeps, and therefore
every step that implements one.

*Serial* (`TableFollowed`, `NoneOverwritten`). `MemIsDisk`: a command with its
transaction open remembers what is on disk, as nobody else writes that journal.
The guard in memory is then a guard on the disk. `NoneIncomplete`: what
`_reject_incomplete` has found stays true up to the placement.

*Binding.* The verifier sees one record per attempt, the properties speak of
lines. `BindingInv` is the correspondence: the open attempt of a slot is its last
one (`OpenIsLatest`); if it has the expected path, some line of it gave that, and
since then no line of the slot named another path or a failure it does not know
(`PathShown`); if it has a success, a line of it said so (`SuccessShown`); a failure
that names the slot is not forgotten while its attempt is open (`FailureKept`). The
work is in `Record`, a line of any kind in any slot: the lemmas `RecordShowsPath`,
`RecordShowsSuccess` and `RecordKeepsFailure` take the ways the parser may treat it
(append to the open attempt, open a new one, or neither). A log that is emptied
shows nothing, so everything starts over.

`NoBindingMissed` goes the other way, from the lines to the attempts. `ShownIsKept`
says that a path or a success the lines show of a slot's latest attempt is what its
open attempt has (`PathHeld`, `SuccessHeld`), and that a slot which has been
re-evaluated since keeps an earlier attempt with both (`BindingHeld`). A line
without a slot needs two more: there is an attempt for the slot of the first line
(`FirstIsOpen`), and no other as long as the phone has named no other
(`AloneIsOnly`), so that such a line goes where `About` says (`UnnamedGoesToOnly`).
`LinesAfter` states what one more line does to each of the operators on the log, and
`RecordHoldsPath`, `RecordHoldsSuccess` and `RecordHoldsBinding` follow the three
facts through it. What is shown of both then meets the verifier's own test
(`ShownIsVerified`), under which no look answers `TIMEOUT`.

*Assets.* `SelectionInv` follows the command: the session knows only what its own
device has reported (`Reported`), the selected group fits that (`Selected`), and
between the comparison and the unpacking the file has the recorded hash unless it
was touched (`Unaltered`). `FoundAlone` and `InspectFindsIt` are the lemmas about the
two searches: if the migration's finds one bundle only, the inspector's finds it.

*Trees.* `TreesInv` says of each stage what is on the device in terms of the backup:
the desired tree is the backup, cleared as the strategy asks, with the asset in it
(`BuiltFromBackup`); what is placed is that with its links followed, or a single file
of it (`InstallPlaced`, `RestorePlaced`). The properties then follow from three facts:
the comparison of manifests finds nothing exactly if the trees are equal
(`SameIsEqual`), following a link changes a tree (`FollowedLinkDiffers`), and moving a
bundle gives each of its files one new path and hits none that is there
(`MovedHas`, with `RebasedPath` and `RebasedPrefix`: one step of the build makes a
path `dst \o Tail(p)` of each `p` below the bundle). `ScopeKept` does not rest on the
scope check, which lets more through: clearing moves or drops paths of CarrierLab's
bundles only (`ClearedElsewhere`), and the asset has no others (`WithAssetHas`).

*What the proofs found in the models.* Two arms of `PhaseOf` overlapped for journals
without a backup, so that which phase they have was left open.
A link to itself counted as one to a file, and a tree with one compared equal after
it had been followed; in the file system it leads nowhere. The trees that were
given had to be trees whose bundles are directories, and the bundles of a file
finitely many, which every instance satisfied and no assumption said. All are
corrected in the modules.

*Only model-checked.* `LockNotLeaked` and `DeadOwnerReclaimed`, as liveness under
fairness is out of the prover's reach, and the properties that the runs show to be
violated. That `attempts` and `open`, which are kept up line by line, are what
`correlate_attempts` makes of the whole log is how the model is built: a fold is
defined over its input, and induction over data is out of reach too.

## 6. Not modelled

The other reporting commands, the details the inspector prints, the Books
helper, logging and redaction change nothing a transaction depends on. The
AirTraffic backend is a stub that refuses every call, which the transports'
refusals cover. Left out of modelled parts: the reuse of a pid and lock owners
of another user; what two syslog processes that write into one log at their own
offsets make of each other's lines, and the regular expressions; two reports of
one device at a time, which share a directory; the checks on archive members;
the parsing of pymobiledevice3's output; the window itself, which runs no
transaction. `CommCenterMonitor.stop` has no caller.

## 7. Plan

Done, in this order, the most important behaviour first: `TransactionStates`,
`OperationLock` and `CarrierTransactions` with their proofs;
`CommCenterBinding`, `CarrierTrees`, `AssetSelection`; the abstract
specifications `DeviceLock` and `TreeReplacement` and the refinement mappings to
them; the start of a monitor, the strategies, reports, `bundle check`;
`JournalFile` with its proof, and the proof of `OperationLock`'s refinement; that
`CarrierTransactions` implements both abstract specifications; the serial
properties; the proofs about `CommCenterBinding`, `AssetSelection` and
`CarrierTrees`. Every safety property of a run that passes is now a theorem.

Next:

1. What `CarrierTransactions` assumes of `Desired`, `Readback` and `Bind` stated as
   theorems of `CarrierTrees` and `CommCenterBinding`, where they are not yet: that
   a partial tree never compares equal, and that `VERIFIED` ends every wait that may
   end with it.
2. Shorter proofs: the case splits over the commands' labels in
   `CarrierTransactionsProofs` repeat each other.
