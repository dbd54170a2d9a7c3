# A verification project for dpkg

TLA+ models of dpkg, the package manager in `src/`, and of the programs shipped
with it: what they write to the disk and in which order, what they make of that
after a crash, how dpkg unpacks, configures and removes packages, how it keeps
track of triggers, how dpkg-deb's processes pass an archive on, and what
update-alternatives, start-stop-daemon, dpkg-divert, dpkg-statoverride,
dpkg-split and dselect promise. TLC checks the models on small instances; TLAPS
proves the most important properties of the core for every number of packages,
processes and journal entries.

Contents: [the system](#the-system), [inventory](#inventory),
[modules](#the-modules-and-the-code), [runs](#the-runs), [bounds](#bounds),
[fairness](#fairness), [proofs](#what-is-proved),
[model-checked only](#what-is-only-model-checked),
[abstractions](#abstractions), [divergences](#where-the-code-and-its-documents-disagree),
[not modelled](#not-modelled), [plan](#plan).

## The system

`dpkg` is one process with one thread that changes a system in small steps and
may be interrupted after each of them. What makes it hard is not parallelism
inside it but what surrounds it:

* **Crashes.** dpkg can be killed, a maintainer script can take the machine
  down, the power can fail. Everything it decides on is in files: `status`, the
  journal `updates/`, `triggers/`, `info/`, and the `.dpkg-new`, `.dpkg-tmp`
  files of an unpack. The next dpkg has to make sense of what it finds.
* **Other processes.** `dpkg-query` and others read the database without a
  lock; `dpkg-trigger` adds activations while dpkg runs; a front end runs dpkg
  several times and holds a lock of its own.
* **Failure in the middle.** A maintainer script may fail at any point, and the
  clean-ups that undo what was done are scripts too.
* **Order.** Packages depend on one another in circles, await one another's
  triggers, and fail; from this dpkg has to find an order that respects what can
  be respected, and it has to come to an end.

How the parts call one another:

```
  src/main/main.c -- archivefiles() --> process_archive()      unpack.c
        |                                   |  pushes clean-ups (cleanup.c, lib/dpkg/ehandle.c)
        +---- packages() ----+              v
                             v          modstatdb_note() ----> updates/NNNN, status   dbmodify.c
               process_queue()  packages.c      ^  |
                 |      |     |                 |  +--> trig_clear_awaiters()          triglib.c
   deferred_configure() |  deferred_remove()----+
      configure.c       |     remove.c          |
                    trigproc()  trigproc.c -----+
                 |      |     |
                 v      v     v
        dependencies_ok()  packages.c --> findbreakcycle()  depcon.c
                 |
                 v
        maintainer scripts (script.c) ~~~ dpkg-trigger ~~~> triggers/Unincorp  trigdeferred.c
                                                                 |
                                     trig_incorporate() <--------+
```

## Inventory

The components, the state each keeps, its operations, what makes it correct and
the module that has it. `PROJECT.json` lists them with their source files, and
under `hazards` what in the code is hard to test, at its line.

| Component | State | Operations | What makes it correct | Module |
|---|---|---|---|---|
| Status database and journal (`dbmodify.c`, `dump.c`, `atomic-file.c`) | `status`, `updates/NNNN`, the lock, `nextupdate`, the package table in memory | open, note, checkpoint, shutdown; replay | a note that returned survives any crash; nothing old comes back; a writer reads what the journal defines | `StatusDb`, `DurableDb`, `StatusDbReaders` |
| Trigger states (`triglib.c`, `trignote.c`, `modstatdb_note`) | `trigpend`, `trigaw`, `othertrigaw` | activate, await, release awaiters, fix up | the database stays readable; nobody waits in vain; no activation is lost | `Triggers`, `TriggersHistory` |
| Deferred trigger file and interests (`trigdeferred.c`, `src/trigger/main.c`) | `Unincorp`, `Unincorp.new`, the lock, `File`, one file per explicit trigger | append, read, replace | what was accepted arrives; interests are those that are declared | `TrigDeferred` |
| Dependency cycle search (`depcon.c`) | colours, search path, `cyclebreak` marks | `findbreakcycle` | breaks links of real cycles only; says no only when there is none | `DepCycle` |
| Package queue (`packages.c`, `configure.c`, `trigproc.c`, `remove.c`) | queue, deferred list, `istobe`, `dependtry`, `sincenothing`, `progress_bytrigproc`, tortoise and hare | configure, process triggers, remove, defer, give up | dependencies first; nothing is forgotten; the run ends | `ProcessQueue` |
| Unpacking with its checks and clean-ups (`unpack.c`, `archives.c`, `cleanup.c`, `ehandle.c`, `depcon.c`) | phases of `process_archive`, `istobe`, conflictors, deconfigure list, stack of clean-ups | check, deconfigure, remove in favour, run scripts, replace, disappear, undo | a failure before the checkpoint leaves no trace; no dependency is broken unasked; a package that claims to be whole is | `Unpack` |
| Files of an archive (`archives.c`, `cleanup.c`) | the path, `.dpkg-new`, `.dpkg-tmp` | extract, set permissions, back up, sync, rename, restore | at every instant a path has its old or its new contents | `FileInstall` |
| Conffiles (`configure.c`, parts of `unpack.c`, `remove.c`) | the file, `.dpkg-new`, `-old`, `-dist`, recorded hashes | prompt, install, keep, back up, forget | a user's change is never lost unasked | `Conffile` |
| Removal of files, purging (`remove.c`, `help.c`) | file lists, leftover directories, conffiles | remove, leave, purge | nothing that another package owns goes away, nothing of a purged one stays | `RemoveFiles` |
| Information files (`db-ctrl-*.c`, `unpack.c`, `remove.c`) | `info/`, `format`, `format-new` | replace, remove, upgrade the layout | a package is found to have the files of its version | `InfoDb` |
| Control files (`parse.c`, `fields.c`, `dump.c`, `pkg.c`, `pkg-hash.c`, `pkg-spec.c`, `arch.c`) | the package set in memory, stanzas, `available`, `arch` | read, verify, select a slot, write; selections, available, architectures | what is written is read back | `ControlDb` |
| Versions (`version.c`, `parsehelp.c`) | none | parse, compare, write | the documented order | `Versions` |
| dpkg-deb (`src/deb/`, `compress.c`, `tarfn.c`, `subproc.c`, `treewalk.c`) | pipes, processes, the members of the archive | extract, build | nobody waits for ever at a pipe; what is accepted or built is whole | `DebExtract`, `DebBuild` |
| update-alternatives | administrative files, links, `.dpkg-tmp` links | install, remove, set, auto, config, selections | links, file and choices agree; a working link keeps working | `Alternatives` |
| start-stop-daemon | pidfile, processes, the schedule | start, fork, notify, stop, wait | the exit status is true; the schedule ends | `StartStop` |
| dpkg-divert, dpkg-statoverride | `diversions`, `statoverride` | add, remove, rename, update | no file is lost; others' entries stay | `Divert`, `StatOverride` |
| dpkg-split | parts, the depot | split, queue, join, discard | what is put together is what was split | `SplitQueue` |
| dselect | selections, the recursive list, the resolver's loop | select, resolve, revert, quit | the resolver ends; what is saved is consistent | `Dselect` |
| Maintainer scripts, front end lock, enquiries, options | environment, locks | run, lock, print | see the notes in `PROJECT.json` | partly |

The behaviours that are hard to test, and the modules that reach them:

* crash after any system call, recovery interrupted by a crash — `StatusDb`,
  `FileInstall`, `InfoDb`, `TrigDeferred`, `Alternatives`, `RemoveFiles`;
* reading without a lock — `StatusDbReaders`;
* two notes for one activation, mutual recursion of `modstatdb_note()` and
  `trig_clear_awaiters()`, a checkpoint that writes half-changed packages —
  `Triggers`;
* the choice of a link in a cycle and the marks that survive a search —
  `DepCycle`;
* long sequences of deferrals with failures in between — `ProcessQueue`;
* six clean-ups in reverse order, each of which may fail, while other packages
  are deconfigured or half removed — `Unpack`;
* a file that the user, the package and a dying dpkg change in turn —
  `Conffile`;
* five processes and two pipes, each of whose ends several of them hold —
  `DebExtract`, `DebBuild`;
* a daemon that dies between two looks at it, or notifies when the time is up —
  `StartStop`;
* a resolver whose suggestions may undo one another — `Dselect`.

## The modules and the code

`PROJECT.json` maps each definition to its lines. In every module, an operator
whose comment begins with `fault:` is a plausible bug used to test that a
property notices it; it is not part of the specification.

### StatusDb, DurableDb, StatusDbReaders

`StatusDb` is `lib/dpkg/dbmodify.c` with `writedb()`. A process (`pc`) opens
the database (`OpenReadOnly`, `OpenWrite` — `modstatdb_open()`), replays the
journal (`ParseStatus`, `ScanUpdates`, `ParseUpdate` — `cleanupdates()`),
changes and notes packages (`SetPackage`; `NoteWrite`, `NoteFsync`,
`NoteRename`, `NoteDirSync`, `NoteNext` — `modstatdb_note_core()`), checkpoints
(`Checkpoint`, `WritedbOpen` … `WritedbDirSync`, `UnlinkUpdate`,
`UnlinkDirSync` — `modstatdb_checkpoint()`) and closes it (`Shutdown`,
`Unlock`, `CloseReadOnly` — `modstatdb_shutdown()`). One action is one system
call that another process or a crash could tell apart.

`status` and `updates` are what every process sees. What a power failure leaves
is a separate matter: `sViews` and `uViews` are the states each directory has
passed through since it was last fsynced, and the failure picks one of each. A
file renamed into place without an `fsync()` may come back empty. This is weaker
than what journaling file systems promise and is what the code is written for.
Two kinds of crash: `Die` (a signal, or an I/O error, after which dpkg exits)
and `PowerLoss`.

`DurableDb` is what callers rely on: one durable register per package. `held[q]`
is the set of values a crash may leave; `session` is the writer's memory. The
refinement maps `held[q]` to the values that replaying any of the possible
directories gives for `q`, and the session begins when the replay is over.

`StatusDbReaders` adds two history variables to say what a reader without a
lock has seen.

### Triggers, TriggersHistory, PkgStatus

`Triggers` takes from `StatusDb` that a note is atomic and durable: `disk` is one
stanza per package, `mem` the packages in memory. `Note` is `modstatdb_note()`
as a whole: it normalises the lists for the new status, writes the stanza — or
all packages, when this note fills the journal — and pushes the package on
`clearing` if awaiters have to be released. `clearing` is the stack of the calls
of `trig_clear_awaiters()`, which notes packages in its turn (`ClearAwaiter`,
`ClearDone`). The other actions: `Open`, `FixupVisit`, `FixupDone`
(`trig_fixup_awaiters()`), `IncorporateStart`, `IncorporateDone`,
`TransitionalActivate` (`trig_incorporate()`), `RecordPend` and `RecordAw` (the
two notes of `trig_record_activation()`), `Activate`/`ActivateDone`,
`SetStatus`, `ChangeInterest`, `Configure`, `Trigproc`, `AbortRemoval`,
`PostinstOk`, `PostinstFail` (what unpack, configure, remove and the clean-ups
do to a package's status), `DpkgTrigger` (the other process) and `Die` after
any step.

`TriggersHistory` adds `owed`, the activations each package must still be told
of. `PkgStatus` numbers the states of a package as `enum pkgstatus` does.

### DepGraph, DepCycle

`DepGraph` defines the dependency graph: a possibility `<<p, n>>` (package `p`
has `n` among its alternatives) leads to `n` itself and to its providers.
`DepCycle` is `findbreakcycle()`: the recursion is a stack of frames, `color`
and `cyclebreak` are the code's fields, the link to break is chosen as
`foundcyclebroken()` chooses it. The marks stay from search to search, as they
do in dpkg.

### ProcessQueue

`ProcessQueue` is `process_queue()` with what it calls. `Pop` takes a package,
decides what is to be done, counts `sincenothing` and raises `dependtry`; then
one of `Configure…`, `Trigproc…` or `Remove…` handles it — puts it back
(`…Defer`), gives it up (`…Halt`, `…Refused`) or does it (`…Run`, with every
outcome of the scripts). `DependenciesOk`, `Group`, `DeppossiOkFound` and
`BreaksesOk` are `dependencies_ok()`, `deppossi_ok_found()` and `breakses_ok()`.
`CheckTriggerCycle` is the tortoise and the hare of `check_trigger_cycle()`.
Removals look at one dependency at a time (`RemoveStart`, `RemoveCheck` —
`checkforremoval()`). `QueueDone`, `PopDeferred`, `DeferredDone` are
`trigproc_run_deferred()`.

A world is a command with a database to start from, one that the parser accepts
(`WorldsAssumption`, `Coherent` — `pkg_parse_verify()`).

Here notes are atomic, and `findbreakcycle()` is one step that breaks *some*
link of a cycle reachable from the package, or none if there is none. `DepCycle`
shows that this is all a caller can rely on, for every graph.

### Conffile

One conffile of one package. `file`, `new` and `old` are the contents of the
file, of `.dpkg-new` and of `.dpkg-old`; `entry` is the conffile in the status
database with its hash and flags, `listed` whether it is in the package's list of
files, `status` the package's state. A hash is the contents it was computed of.

`UnpackStart`, `Extract`, `RemoveOld`, `WriteList`, `UpdateFields` are what
`process_archive()` does about the file, in the order of its system calls and
notes; `UnpackFails` is the clean-up of an error before the point of no return.
`Look` is the decision of `deferred_configure_conffile()`, with `conffoptcells`
and the `--force-conf*` options; `Answer` is the user's; then one action for each
`unlink()`, `link()`, `rename()` and note. `RemoveStart`, `RemoveFiles` and
`Purge…` are `removal_bulk()`. `UserWrites` changes the file at any time, and
`Die` ends dpkg between any two steps.

Three variables are history: `own` (the file, or its absence, is the user's
doing), `precious` (what the user wrote last and has not given up by deleting,
overwriting or purging it) and `mishaps`. A mishap is an accident that the code
does not recover from: `race` (an edit after dpkg has looked), `nolink`
(`link()` failed), `unnoted` (dpkg died between the file and the note of its
hash), `torn` (dpkg died between the removal of old files and the note of the
new version), `purge` (dpkg died in a purge), `dropped` (a failed unpacking
deleted a `.dpkg-new` that was still to be configured). Each property says which
of them it survives; each exception is needed, that is, TLC finds a violation
without it.

### Unpack

`process_archive()` for a sequence of archives in one run of dpkg. A world says
what is installed, which archives come and with which options. `NextArchive`,
`OpenFails`, `Skipped`, `check_predepends`, `check_breaks`, `check_conflict` are
the checks, with `depisok()` as a definition: what a relation asks for, whether
the installed, the new or the last configured version answers it, and whom to
remove or deconfigure. `check_conflict` marks a package to be removed and begins
to ask its dependents; `ask_dependent` is one turn of its loops, by the package's
name and by each name that it provides, with `try_remove_can()` for a dependent
that is not content; `enqueue_conflictor` is the agreement, and `put_back` the
refusal, which leaves the dependents that were already to be deconfigured in
their list. Then one action for each phase:
`prerm_upgrade`, `prerm_ran`, `pkg_deconfigure_others`, `conflictor_prerm`,
`preinst`, `extract`, `postrm_upgrade`, `tidy`, `pkg_disappear_others`,
`become_unpacked`, `backups`, `remove_conflictor`, `finish`. A phase that has to be
undone pushes an entry on `cleanups`; an error runs them from the top
(`cu_prermupgrade`, `cu_prermdeconfigure`, `cu_prerminfavour`, `cu_preinst`,
`cu_installnew_all`, `cu_postrmupgrade`, `cross_checkpoint`, `normal_tidy`), each of
which may fail in its turn and set `cleanup_pkg_failed` or
`cleanup_conflictor_failed`. The files of a package are one value here: `old`,
`new`, `mixed` or none.

### FileInstall

One path of the archive, with its `.dpkg-new` and `.dpkg-tmp`, and a second path
where a diversion leads. `tarobject` decides by what is there (a file, a
directory, a link to one, another package's file, a conffile, a shared file);
`tarobject_extract`, `tarobject_set_perms`, `MakeBackup`, `InstallOrDefer`,
`tar_deferred_fsync`, `tar_deferred_extract`, `pkg_remove_backup_files` are the
system calls in order; `cu_installnew*` undo them. `Killed`, `PowerFails` and
`Retry` come in between anywhere. A power failure loses the data of a file that
was not synced.

### RemoveFiles

`removal_bulk()`: files of two instances of a package and of another one, a
directory and a conffile, removed deepest first, list by list
(`removal_bulk_remove_files`, `FilesList`, `PostrmRemove`,
`removal_bulk_remove_configfiles`, `ConffilesList`, `PostrmPurge`,
`removal_bulk_remove_leftover_dirs`). `RemovalStops` cuts it short, `Admin`
makes or empties directories between the runs.

### InfoDb

The files of `info/` by their names, with and without an architecture.
`Open`, `pkg_infodb_link_multiarch_files`, `pkg_infodb_write_format`,
`pkg_infodb_unlink_monoarch_files`, `Commit` and `cu_abort_db_upgrade` are the
change of layout; `UpdateStart` to `NoteUnpacked` are `pkg_infodb_update()`;
`RemoveStart`, `Clean`, `Purge` are the removal. The package may become
`Multi-Arch: same` or cease to be.

### TrigDeferred

The files below `triggers/` between dpkg and any number of `dpkg-trigger`s:
`trigdef_update_start` takes the lock and opens `Unincorp.new`, `tdm_add` writes,
`trigdef_process_done` renames; dpkg incorporates (`tdm_incorp`,
`IncorporateDone`) and changes interests (`trig_cicb_interest_add`,
`trig_cicb_interest_delete`, `trig_file_interests_save`). It is what `Triggers`
takes as one step.

### ControlDb

The instances of one package set: in memory (`core`), as stanzas in `status`,
the journal and `available`. A stanza is a function from the fields it has to
their values; one definition per field for writing (`w_…`) and for reading
(`f_…`), with `pkg_parse_verify()`, `parse_find_set_slot()` and
`parse_find_pkg_slot()`. The actions are commands: `unpack_start`,
`unpack_done`, `unpack_fails`, `configure`, `trigger`, `deferred_remove`,
`setselections`, `clearselections`, `updateavailable`, `record_avail`,
`arch_add`, `arch_remove`, each a process that opens and shuts down the
database, or crashes and leaves its notes.

### Versions

`parseversion()`, `varbufversion()`, `verrevcmp()`, `dpkg_version_compare()`,
`dpkg_version_relate()` as operators over sequences of characters, and the order
of `man/deb-version.pod` as a second definition to compare with.

### DebExtract, DebBuild

The processes of dpkg-deb. A pipe has a bounded buffer and the sets of those who
hold its ends: a reader sees the end of file only when nobody holds the write
end, and a writer SIGPIPE only when nobody holds the read end. `DebExtract` is
`extracthalf()` with the copying child, the decompressor (one definition per
format for what it makes of a stream that is cut or damaged), `tar`, and dpkg's
own reader (`tar_extractor`, `drain`, `reap_backend`). `DebBuild` is `do_build()`:
options, checks, the walk of the tree (`treewalk_next`), names to `tar`, tar to
the compressor, members put into the archive.

### Alternatives

All commands of update-alternatives that change a group. The decisions are
operators with the source's names on the loaded group; what they do to the file
system is a list of operations (`Symlink`, `Mv`, `Rm`, `Save`, `Drop`) that
`alternative_commit` performs one by one. `Die` between any two of them,
`UserChange` and `PackageChange` between commands.

### StartStop

`do_start`, the two forks of `daemonize`, `ChildExec`, `wait_for_child`,
`wait_for_notify`; `BeginStop`, `do_stop`, `do_stop_timeout`,
`TimedOut`, `run_stop_schedule`, `finish_stop_schedule`. A poll that slept past the
end of its time leaves without another look (`TimedOut`). Daemons die, signals work or do not,
and the clock runs at any time.

### Divert, StatOverride, SplitQueue, Dselect

`Divert`: the diversions file and the files it is about; `diversion_add` writes
and then renames, `diversion_remove` renames and then writes. `StatOverride`: the
overrides as text, users that appear and disappear between the runs.
`SplitQueue`: parts in any order, lost and doubled, `do_auto`, `do_join`,
`do_discard`; `reassemble` appends one part per step to the output, and
dpkg-split may die between two of them, or before the parts that `do_auto` has
used are deleted from the depot (`do_join` works on the files it was given and
deletes none). `Dselect`: the list of selections, `add_dep`, `resolvedepcon`,
`checkdependers`, the loop of `resolvesuggest`, and the keys that choose, revert,
quit or insist.

### The modules for TLC

`MC_StatusDb`, `MC_Triggers`, `MC_DepCycle` and `MC_ProcessQueue` give the
instances of one component. Three others put together components that share no
state in the models, so that one run explores each of them: `MC_Unpacking`
(variable `part`), `MC_Tools` (`tool`) and `MC_Live` (`program`). A behaviour
chooses one component in its first state and runs only that; the variables of
the others are `Unused`. A property there is the component's own property, for
the behaviours that run it. `MC_Essential`, `MC_Conflictors` and
`MC_TriggerLoop` are instances with one or two starting points.

## The runs

| Run | Shows |
|---|---|
| `durable` | A writer with a journal of two entries that dies or loses power at any system call, any number of times. `NotedIsDurable`: after the fsync of `updates/` no crash loses the package. `ShutdownIsDurable`: a session that was closed is complete, including what was never noted. `DurableSpec`: all of it implements `DurableDb`; no old value returns, not by replaying twice, not from a checkpoint cut short, not from unlinked entries that come back. |
| `readers` | Two processes that read and write as they like. `ReaderSeesSnapshot`: a reader that no checkpoint overtook has the database as it was when it listed the journal. `WriterReadsRecover`: a writer reads what the journal defines, though it reads file by file. `OperationsEnd`: every note, checkpoint and replay ends. |
| `triggers_safe` | Three packages and a trigger. `DatabaseIsReadable`: at no point would `pkg_parse_verify()` reject what is or could be written. `AwaitedIsPending`: who is awaited has something to process, or its awaiters are being released. `DiskAgrees`: all that a dying dpkg forgets is whom a package has ceased to await. `NoActivationLost`: what `dpkg-trigger` recorded is in `Unincorp` or pending. |
| `queue_safe` | `--configure`, `--triggers-only`, `--remove`, `--purge` and the second half of `--install` on three packages: all shapes of dependencies, versions, Breaks, providers, holds, forces, pending and awaited triggers, with every script or conffile failing or not. `DependenciesFirst`, `RemovalKeepsDependencies`: what is needed is there first and stays longest, cycles apart. `NothingForgotten`: each package named is done or has an error. `HaltIsJustified`: "dependency problems" is the last word only where there is one and no force was given. `NeverExhausted`: the tries do not run out. |
| `conffile` | Any sequence of unpackings, failures, configurations, removals and purges of versions that ship the conffile, drop it or ask for its removal, with edits and deaths at any step. `UserVersionKept`: what the user wrote is in place or in `.dpkg-old`. `ShippedVersionArrives`: once the package is configured, the file is the shipped one, unless the user wants another. `AsksOnlyAboutChanges`: no question about a file that the user did not change. |
| `unpacking` | `FalseMeansAcyclic`, `OnlyCyclesAreBroken`: every graph over three packages and a virtual one, searched repeatedly. `OldOrNew`, `EndsWhole`: one file through every mixture of failure, kill, power failure and retry. `AbortRestores`, `SaneIsWhole`, `RemovalKeepsDepends`: archives that conflict with, break, replace or swallow other packages, with every script and clean-up failing or not. `OthersKeepTheirFiles`, `PurgedIsGone`: removals that are cut short. `InfoIsWhole`: replacement, removal and change of layout, interrupted anywhere. `ActivationsArrive`, `InterestsKept`: two `dpkg-trigger`s and a dpkg on the trigger files. `StatusReadsBack`: a multi-arch package through commands and crashes. |
| `tools` | `LinksStayWhole`: update-alternatives on two groups that share links, with a death or a changed file. `SuccessIsTrue`: start-stop-daemon's exit status. `DiversionsAreSafe`: dpkg-divert. `OthersKeep`: dpkg-statoverride. `JoinRestores`: dpkg-split, a death between any two parts of a join. `VersionsAreRight`: all pairs of short versions and all short strings. |
| `live` | `EverythingEnds`: the queue with circles of packages and of triggers, the search for cycles, the recursion of notes and releases, the pipes of dpkg-deb with every failing process, stop schedules, dselect's resolver. `ArchivesAreWhole`: what dpkg accepts or dpkg-deb built is whole. `SavedIsConsistent`: what dselect saves satisfies its dependencies unless the user insisted. |
| `doc_essential`, `doc_conflictors`, `doc_diverted`, `doc_loop` | Violations: see [below](#where-the-code-and-its-documents-disagree). |

Every property of a passing run has at least one mutant in `PROJECT.json`: a
definition replaced by its `_fault` form, with which TLC finds the property
violated.

## Bounds

| Bound | Value | Why it is enough |
|---|---|---|
| `MAXUPDATES` | 1 (250 in dpkg) | Two entries: one can be older than the other, about the same package or another; the note that fills the journal happens at every second note. The proofs hold for every value. |
| `Procs` | 1 in `durable`, 2 in `readers` | Only one process can hold the lock; with two there is a reader or a competitor next to it. |
| `Pkgs`, `Vals` in `StatusDb` | 2 packages and 2 values; 1 package in `readers` | Packages are independent but for the order of entries; the fault models show that two values tell old from new. |
| `MaxViews` | 3 in `durable` | States a directory may have passed through since its fsync. A note needs two, a checkpoint that unlinks two entries three; more arise only if a process dies and another continues before an fsync. The proofs have no such bound. |
| `MaxUnincorp`, `MaxInterested` | 1 and 2 | One activation waiting at a time, for up to two interested packages, activated by a third. Without bound in the proofs. |
| Packages in `ProcessQueue` | 3 and a virtual one; 5 in `doc_loop` | A circle of two and a bystander, or a circle of three; `doc_loop` shows what takes five. |
| `ErrAbort` | 4 (50 in dpkg) | More than three packages with an error each, so that runs end by themselves; reached only by trigger loops. 50 in `doc_loop`. |
| `Dist`, `Mine` | 2 shipped contents, 1 of the user's | A version that differs from the last one, and one that ships the old contents again; the user may also write shipped contents. Any sets in the proofs. |
| `MaxMishaps` | 2 of the 6 | Two different accidents, each any number of times; what a property excepts is of no interest after it has happened. The proofs hold for every value. |
| Worlds of `Unpack` | 11, of 4 packages, up to 2 archives | One world for each way in which an archive meets others: two conflictors and one who needs either, a virtual package, pre-dependencies, Breaks, a package that disappears, a sibling, an essential package, the forces. The second archive sees what the first left in `istobe`. |
| `MaxTries` | 2 | The second try meets every remainder of the first, and may be cut short itself. |
| `MaxRemovals` | 3 | One removal for each of the three packages, or a removal, one cut short and a purge of the same. |
| `MaxInfoRuns` | 3 | An interrupted upgrade of the layout, one that recovers and an upgrade of the package. |
| `MaxTrigs`, `Callers` | 3, 2 | Two who want the lock while dpkg incorporates or dies. |
| `MaxCommands`, `MaxNotes` of `ControlDb` | 3, 2 | A first architecture, a second, and a command on both; a crash leaves up to two notes. |
| `MaxRuns`, `MaxAccidents` of `Alternatives` | 3, 1 | Two commands to register two choices or two groups, and one to change, remove or repair after a death or a changed file. 2 groups, 1 slave, 4 links and 4 files, seven `--install` lines that move links and slaves. |
| `Pids`, `MaxNotes`, `Schedules` | 2, 2, 4 | The daemon and one that replaces or resembles it; no schedule, a time, a signal with a time, and one that says forever; all sets of `--exec`, `--user` and `--name` in `tools`. |
| `MaxRuns` of `Divert` | 2 | An interrupted run and the next one, on three paths. |
| `MaxChanges` of `StatOverride` | 5 | Two overrides and a user who goes and comes back with another number. |
| `MaxSplitRuns` | 4 | Three parts and one that comes twice. |
| `MaxPart`, `Characters` | 3; `0 1 a + ~` | All pairs of parts; longer ones repeat the alternation of text and number. `INT_MAX` is 10 to reach the overflow of an epoch. |
| `PipeSize`, `PipeRoom` | 2 | Less than a member, so that writers block. |
| `MaxKeys` of `Dselect` | 2 | A selection and a change in the list it opens, in five worlds. |

`unpacking` explores 1.4 million states, `tools` 1.2 million, `live` a third of a
million. The dependencies, providers and states that `MC_ProcessQueue` and the
worlds enumerate are starting points, and nothing else cuts a behaviour short.

Deadlock is checked in the runs of `StatusDb`, `Triggers` and `Conffile`, where
the system can always go on. A run of dpkg and of the other programs ends, so
`queue_safe`, `unpacking`, `tools` and `live` do not check it; `EverythingEnds`
says that they end only where they should.

## Fairness

* `readers`: weak fairness of `Continue(p)`, the steps a process takes once an
  operation is under way. They are consecutive lines of one function; a process
  that does not die is scheduled. Nothing is assumed of requests, deaths or
  power failures.
* `live`: weak fairness of the program that runs, and of nothing that the user,
  a script or a daemon decides.
  * `process_queue()`: its next step. dpkg is one thread in a loop; how a script
    ends remains open, but it ends. A maintainer script that hangs keeps dpkg
    waiting for ever: nothing in the code prevents that.
  * `findbreakcycle()` and the notes of triggers: the steps of one function call
    (`Search`, `Continue`).
  * dpkg-deb: each process on its own — dpkg-deb, dpkg, the copying child, the
    decompressor, tar, the compressor. A process that waits at a pipe is not
    enabled, so that a circle of waiting processes would be found.
  * start-stop-daemon: its own steps, and the clock. Daemons need not do
    anything.
  * dselect: the resolver. The user need not press a key.

## What is proved

All theorems hold for every value of the constants, from the named assumptions
next to their declarations (`NoProc` is not a process, `MAXUPDATES` is a natural
number, the packages of `ProcessQueue` are finitely many and those in its
database pass `pkg_parse_verify()`, and the like). Where a theorem needs a
hypothesis besides, it is said below.

**StatusDbProofs.** The properties of the database follow from an inductive
invariant, `DurabilityInv`: types; `LockProtects` (who changes a file has the
lock); `LocalState` (local variables agree with the program counter);
`ViewsAreCurrent`; `JournalMatchesCounter`; `WriterProgress` (what is on the
disk at each point of the writer). `NotedIsDurable` alone is not inductive: that
the note's entry is the *last* about its package needs that the journal holds
exactly the entries below `nextupdate`, and that needs that recovery leaves
none. Theorems: `TypeCorrect`, `JournalCorrect`, `NotesAreDurable`,
`ShutdownsAreDurable`.

The same module has the refinement. `ReplayIsRecover` adds `ReplayProgress`: a writer that
replays has applied a prefix of the journal. `NothingComesBack` proves
`OnlyWriterAddsValues` with one lemma per way in which a directory changes: a
new last entry, removal of the *oldest* entry while status has its value, a
choice of the disk. `Refinement` is `Spec => DurableSpec`: every step is a step
of `DurableDb` or a stutter. `ReadersSeeSnapshots` is about the readers, who
have no lock. `ReaderProgress` says what a reader has at each point: the
snapshot is `status` with the entries the reader has *listed*, the part it has
read is a prefix of those, and as long as no checkpoint overtakes it they are all
still there, unchanged. It rests on the writer's `WriterProgress`, since the
entries stay below `nextupdate` only because the writer has the lock.

**TriggersProofs.** The invariant needs, besides the properties, what holds
between the two notes of an activation (`HalfIsPending`: the pending side is
there when the awaiting side is noted), that nobody awaits anything before
`Unincorp` exists (`NobodyAwaitsYet`), and that nothing is under way when dpkg
is down. Theorems: `TypeCorrect`, `Readable`, `NobodyWaitsInVain`,
`LittleIsForgotten`.

The same module has the theorem about `TriggersHistory`: `ActivationsAreKept`
proves `NoActivationLost` from `OwedConfigured` (who is owed a trigger is configured) and `OwedIsListed` (while
`Unincorp` is being incorporated, what is owed is pending, or still among the
records, or already noted).

**DepCycleProofs.** The invariant of the depth-first search: the stack is a path
of unbroken links (`PathLinks`, `PathReaches`), what a frame has still to follow
is its own (`TodoIsOwn`), what it has followed led to black packages
(`DoneIsBlack`), a package that is met again finds itself on the path
(`AgainFindsItself`), open packages are not black, and no cycle runs through a
black one (`BlackIsAcyclic`). Theorems: `TypeCorrect`, `FalseIsRight`
(`FalseMeansAcyclic`), `BreaksOnlyCycles`, `TrueIsProgress`.

**ConffileProofs.** `UserVersionKept` is not inductive: that the user's contents
are in `.dpkg-old` does not say that the next upgrade leaves `.dpkg-old` alone.
The invariant adds why it does (`InPlaceOrSaved`): if the user's contents are only
in `.dpkg-old`, then the file in place is the version dpkg has dealt with last, so
nobody is asked, and `.dpkg-old` is deleted only after a question. This in turn
needs that the hash is found again, that is, that the list of files and the
database agree (`ListAgrees`), and that a configuration that was started still
sees what it looked at (`ChoiceOfCurrent`). The two properties about what the
maintainer ships need the converse: a file that is not the user's doing is the
one whose hash dpkg remembers (`KnownOrOwn`), where dpkg remembers none there is
none (`NewIsAbsent`), and a shipped version waits in `.dpkg-new` until it is dealt
with (`Arriving`). `ListAgrees` needs only that no death tore the list from the
database (`"torn"`); each property names the accidents it excludes. Theorems:
`TypeCorrect`, `UserVersionsAreKept`, `ShippedVersionsArrive`,
`QuestionsAreAboutChanges`.

**ProcessQueueProofs.** For every finite set of packages, every dependency graph,
all triggers and every command.

* `NothingIsForgotten`: each package of the command line is dealt with or has an
  error, or it is in the queue or in the hands of a handler (`NoneForgotten`). It
  has to be shown of every handler, for every outcome of the scripts, that what
  it takes from the queue it finishes, puts back or reports. Two facts make this
  inductive. Notes and activations do not undo it (`ReleaseEffect`, `NoteEffect`,
  `ActivateEffect`: a configured package may await triggers again, and that counts
  as configured). And a package with pending triggers is configured already, so
  that `trigproc()` may drop it: this is where the proof uses what
  `pkg_parse_verify()` demands, and it has to be kept by every step (`DbOK`).
* `ConfiguresInOrder` (`DependenciesFirst`): only `ConfigureRun` makes a package
  configured (`RiseIsConfigured`), after `dependencies_ok()` has said `ok`; that
  answer implies for each dependency that an alternative meets it or that its
  link was broken (`AnswerIsRight`, from `FoundIsGood` and `OkMeets`); and links
  are broken only if they are part of a cycle (`OnlyCircular`, `BreaksCycles`).
  The highest `dependtry` reached makes no difference without `--force`.
* `RemovesInOrder` (`RemovalKeepsDependencies`): `checkforremoval()` looks at one
  dependency after the other, so the invariant is about those already looked at:
  each is met without the package that is to go, or part of a cycle
  (`CheckedAreMet`).

The proof found one defect of the model: two arms of a `CASE` in `Handler` were
not exclusive, so that for a package which is not installed its value was not
determined. TLC takes the first arm, as the code does; the definition is now an
`IF`. What the list `deferred` holds is not needed for any of the three.

**FilesProofs.** Four components and what they leave on the disk.

`FileInstall`, for any number of tries. `OldOrNew` needs to know why the
rename of `cu_installnew()` and of `tar_deferred_extract()` cannot put something
half made in place: what waits in `.dpkg-new` is complete and, for a plain file,
synced or marked for it (`Fresh`, `Waiting`), and what is in the place or in
`.dpkg-tmp` is on the disk (`PlaceIsSolid`). `EndsWhole` is the end of `Phase`
and `Undo`, which say for each step how far it is: before the backup nothing has
been done to the place, after it the old object is in `.dpkg-tmp`, and clean-up
restores exactly that. Theorems: `FileInvariant`, `OldOrNewAlways`,
`UnpackingEndsWhole`.

`RemoveFiles`, for any packages and any tree of paths, from three assumptions: the
packages are finitely many (`removal_bulk_file_is_shared()` counts the installed
instances of a set); nothing is both a conffile and a directory;
and the archives are such as dpkg installs (`ShipsAssumption`): with a file an
archive has its directories, and packages that are not instances of one set have
only directories in common, which is what `tarobject()` insists on.
`OthersAlwaysKeepTheirFiles`: what an unpacked package shipped is still in its
list (`UnpackedIsListed`), and whoever is past the walk over his files has nothing
of it in his own list any more, where the later passes would find it without
asking again whether it is shared (`SharedIsForgotten`).
`PurgedIsAlwaysGone`: every path on the disk is in the list of a package that is
not purged, or is a directory with something in it (`AllIsListed`), although the
lists are rewritten by every pass that ends; a walk has its directories after what is in
them (`WalkIsOrdered`), the disk and the lists are closed under directories, and
behind the walk is only what it had to keep (`PassedIsDone`).

`InfoDb`, for any packages and types of control files (`List` is not one of them:
a `list` in an archive is skipped). `InfoIsAlwaysWhole`: while the layout is old
each file has its old name, its new one or both (`EachHasAName`), whatever part of
the linking was done, killed or rolled back; each name that was linked and not yet
unlinked is still known (`Linked`); so the layout is called new only when all
names are (`OldFormat`). Later only the package at hand is not whole, and it is
half-installed in the database first (`NewFormat`, `Progress`).

`TrigDeferred`, for any processes and packages. `ActivationsAlwaysArrive`: between the reading of
`Unincorp` and the rename of its copy over it nobody changes it, because whoever
writes `Unincorp.new` has the lock, and so has dpkg while it empties the file
(`LockInv`). `CallersAssumption` of `TrigDeferred`: no dpkg-trigger process is
called `"dpkg"` or `"nobody"`, which name the other holders of the lock.
`InterestsAlwaysKept`: the file of interests is written as a whole from memory, so
the invariant is that dpkg has the interests of all unpacked packages in memory
(`PathsInMemory`), that memory and file agree unless edited (`MemoryIsSaved`),
and that a package's old interests are deleted before its new ones are added
(`ChangeIsOrdered`), for an interest in both must survive.

**UnpackProofs.** For any packages, relations, archives and options
(`WorldsAssumption` only gives the statuses, the archives' packages and the lists
of dependencies and of provided names their types, `PackagesAssumption` says that
there are finitely many packages), with every script and every clean-up failing or not. What makes the
undoing right is the order of the stack, which the code nowhere states: above an
entry that sets the status of the new package (`cu_preinst*`) lie only those that
deal with its files and its old postrm, and all that lies below it are the
entries of prerms (`Above`, `Ordered`). So when a status is restored, the files
were restored before it, or a clean-up has failed and counts
(`cleanup_pkg_failed`), and then no later one of the package runs.

* `SaneIsAlwaysWhole`: every entry restores what was whole when the archive came
  (`EntriesFit`); while files are replaced the package is half-installed
  (`PackageIsAt`); as long as the archive can be undone the files of the others
  are the old ones, and its own are unless `cu_installnew()` is still to run or
  has failed (`FilesAreBack`). The new package is never among the
  conflictors that are stopped, though the list outlives an archive that failed
  and may name it: its own prerm has been run by then, and `cu_prerminfavour()`,
  which does not look at `cleanup_pkg_failed`, would call it installed with mixed
  files. The proof does not need the reinstallation flag, and `SaneIsWhole` no longer mentions it:
  the status alone says whether the files are whole.
* `AbortsAlwaysRestore`: until the checkpoint, what was configured is so or has
  a prerm's entry on the stack, and any other status is as it was or is the new
  package's, with its preinst's entry on the stack (`WillBeBack`,
  `NewWillBeBack`). When the stack is empty nothing is left to be brought back.
* `RemovalsAlwaysKeepDepends`: each dependent was asked once, with the plans as
  they were then, and the plans went on changing: later conflictors were agreed
  on, packages were put back, stopped, removed, made to disappear. `KeepInv` has
  what survives. A dependency is `Kept` by a set of packages to go if its package
  is the new one, is not configured, will be stopped or goes too, or if an
  answer to it stays. While dependents are asked, every one behind the place in the
  loops is kept (`AskedFit`); when another package is agreed on, a dependency
  that it answered is one that was asked in its turn, because a package is asked
  for by all the names it answers to (`AgreedFit`). Carrying the plans out takes
  packages only from where the plans put them, so that `Kept` goes on to hold
  with what is to go and has gone (`GoneFit`). It rests on `istobe` and the two
  lists saying the same (`PlansFit`), which they do although nothing takes
  back the plans of a refused removal: a dependent that is not content is to stay as
  it is or be installed, never one that is to go. The new package itself may get
  on the list of those to deconfigure, when it depends on what goes; then
  `pkg_deconfigure_others()` ends in its internal error, since the prerm of the
  package has been run by then.
* `FixIsAlwaysFree`: `check_conflict()` has an internal error for a package that is
  neither to stay nor to be deconfigured (`archives.c:1549`). From `PlansFit` it
  cannot be met: only the new package is to be installed, and of two packages in
  conflict the one that is not is taken.

**ToolsProofs.** The programs beside dpkg.

* `SuccessIsAlwaysTrue` (`StartStop`, for any processes, schedules and criteria;
  `PidsAssumption`: 0 is no pid). The exit status speaks of what other processes
  did before. `SsdPlaces` relates where the command is to where its second
  parent is: the first parent gets to a success only after the second one has
  exited, and that one exits only after it has written the pidfile of the child.
  `SsdNotes`: what is read from the socket was sent. `SsdStops`: from the moment
  at which processes are looked for until the signal is sent, every daemon that
  runs is among those that were found.
* `JoinAlwaysRestores` (`SplitQueue`, for any archives and part sizes;
  `SplitAssumption`: a part is not empty). The list of parts that are put together
  has one of each number, all made from one archive with one part size, and what
  is written so far is the archive up to where the next part begins
  (`Assembling`). The arithmetic is in `PartsFit` and its neighbours: the parts
  but the last are of full length and lie inside of the archive, and the last one
  ends where it does.
* `DiversionsAlwaysSafe` (`Divert`, for any paths and
  packages). A check that is made when the command starts is used two steps
  later, so `DivertInv` has what must still be true then: an addition that is to
  be written has its names for itself, and a file that is to be moved does not
  fall on another one.
* `OthersAlwaysKeep` (`StatOverride`, for any paths and users; `UidsAssumption`:
  0 stands for no user). Every line is read into an uid or a name and printed
  again; `PrintedMeansTheSame` shows that the line means the same user, and is
  the same if the user is unknown.

## What is only model-checked

* Liveness (`OperationsEnd`, `EverythingEnds`): out of the proof system's reach,
  as is `ENABLED`.
* `HaltIsJustified` of `ProcessQueue`: it compares what `dependencies_ok()` saw
  with the database at the end of the run, after any number of other packages,
  and would need what each handler does to the reasons of each error.
  `NeverExhausted` does not hold for every set of packages (`doc_loop` shows five
  that run out of tries), so it is a property of the instances only.
* The types of `ProcessQueue`'s list of deferred triggers, tortoise and hare,
  which are folds over sequences; no theorem needs them.
* Of the modules about unpacking: `StatusReadsBack` (`ControlDb`, below).
* `DebExtract`, `DebBuild`, `Alternatives` and `Dselect`, whose steps are few and
  whose difficulty is in their data. `Versions` and `ControlDb` compute over
  sequences by recursive functions and folds: what they compute for every input
  would need induction.

The other way round, `OnlyWriterAddsValues`, `JournalMatchesCounter`,
`TrueMeansProgress` and the type invariants are proved and have no run of their
own; `DurableSpec` and `FalseMeansAcyclic` are what they are for.

## Abstractions

* The contents of a stanza are a value (`StatusDb`) or status and trigger lists
  (`Triggers`, `ProcessQueue`).
* The two locks (`lock` and `lock-frontend`) count as one.
* Lists whose order the code does not define, or depends on the file system or
  the hash table, are sets, and any order is allowed: awaiters, records of an
  activation, edges of a package in the search for cycles.
* The file of interests is changed in one step per trigger and package.
* Architectures: one; no multi-arch siblings, no qualified dependencies.
* `--no-act`, `--pending` and selections (`want`) are left out; what
  `deferred_remove()` notes about `want` is folded into its other notes, and so
  is the `unpacked` state between prerm and the removal of files, which no other
  package can observe.
* In `ProcessQueue`, Breaks are without version, and essential and protected
  packages share one force. With `--triggers-only` triggers are not processed
  beyond those named, which is its default.
* A maintainer script succeeds or fails and activates a fixed set of triggers;
  in `Triggers` it activates anything at any time.
* Pre-Depends count as dependencies once a package is unpacked, as they do in
  `dependencies_ok()`.

* In `Conffile`: MD5 tells all versions apart; a removal deletes the package's
  other files and notes the result in one step; `.dpkg-dist` is not followed, as
  nothing reads it; `INSTALLED` stands for the trigger states; symbolic links,
  diversions, multi-arch siblings and conffiles that move between packages are
  left out. An error that no clean-up undoes looks like a death.
* In `Unpack`: versions are what they decide, namely whether the installed, the
  new or the last configured version answers a relation; multi-arch siblings
  share one name; triggers are in `Triggers`.
* In `FileInstall` names survive a power failure in the order in which they were
  made, data only if they were synced; one more path stands for the target of a
  diversion.
* In `RemoveFiles` diversions of removed files and obsolete conffiles are left
  out; in `InfoDb` the contents of a file are the version it is of.
* In `Divert` two names hold the same file when their contents are equal, where the
  code compares inodes; a copy across file systems that was cut short before the
  source was unlinked counts as the same file.
* In `ControlDb` fields that are only copied are left out, and a version is a
  number.
* In `DebExtract` an archive is its members and a member a sequence of chunks;
  in `DebBuild` names are sequences of numbers in the order of `strcmp()`, and the
  names under DEBIAN are told by equality rather than by their prefix.
* In `StartStop` each criterion of `--exec`, `--user`, `--name` is one predicate,
  whatever a system offers to find out.
* In `Alternatives` time stamps, the log and display are left out.
* In `Dselect` a version is a number, and a screen is the list it shows.

## Where the code and its documents disagree

Four disagreements have a run that shows them:

1. **`doc_loop`** (`packages.c:272`). The code takes the end of `dependtry` to be
   impossible (`internerr`). It is reached if a package awaits the triggers of
   one that depends on it while three others have pending triggers: each try
   gives up one of the others instead of breaking the deadlock.
2. **`doc_essential`** (`archives.c:1543`). The conditions on essential and on
   protected packages are joined by `||`, so that an essential package with which
   an archive conflicts, and which it replaces, is removed without
   `--force-remove-essential`; `man/deb-control.pod:143` says that dpkg does not
   allow that.
3. **`doc_conflictors`** (`unpack.c:487`, `archives.c:1626`). The list `conflictors` and
   `istobe` outlive a failed archive: a package that was to be removed in favour
   of it is removed with the next one, which does not conflict with it.
4. **`doc_diverted`** (`cleanup.c:81`, `archives.c:806-820`, `archives.c:1097`).
   A diverted file is extracted under the diverted name, and the clean-up gets the
   name in the archive: when the unpacking fails after the file was placed, it
   deletes the file that the diversion protects and leaves the new one.

Others were met while modelling; the models follow the code.

The queue, triggers and removal:

* The removal of packages on a cycle may break a dependency of a package that
  stays, and takes away what it needs without `--force-depends` (`remove.c:84`).
* `cleanup_pkg_failed` stays set after a failed `postinst abort-remove`, so a
  later package whose prerm fails is not put right (`cleanup.c:303`).
* `f_triggers` is `-1` for `--no-triggers` and is tested as a truth value, so
  triggers of packages that were not named are processed (`packages.c:501`).
* `doc/spec/triggers.txt` has a package await another until that one is
  configured; the code releases awaiters when the interested package becomes
  half-configured, before its postinst has run (`trigproc.c:470`).
* `doc/spec/triggers.txt` has activations recorded for packages that are not
  configured; `trig_record_activation()` drops them (`triglib.c:84`), as the
  postinst will be called anyway.
* A deferred package that has to wait at the end of a run is put on the queue,
  which has been processed already (`trigproc.c:421`); it stays
  `triggers-pending` until the next run.
* The interests of a package that disappears are never deleted, those of an
  interrupted unpacking stay, and `dpkg-trigger` exits with success and records
  nothing when `Unincorp` is missing. `Unincorp.new` is renamed without an fsync.

Unpacking, conffiles and the files of packages:

* `deferred_configure()` takes a conffile without `.dpkg-new` to be "already
  processed" (`configure.c:663`). It need not be: if a package is unpacked and
  not configured, a second unpacking that fails deletes the `.dpkg-new` of the
  first (`cleanup.c:119`) and restores its status, and the next `--configure`
  leaves the conffile out. In `Conffile` this is the mishap `dropped`, and
  `ShippedVersionArrives` fails without its exception.
* A dpkg that dies between the list of files and the status note of a first
  installation leaves the conffile listed without a hash; a version without it
  then deletes the file, though `unpack.c:1694` says that conffiles are left
  alone (the mishap `torn`).
* The `internerr()` of `pkg_deconfigure_others()` for a package that is no longer
  configured is reachable, and `depisok()` writes `*canfixbytrigaw` without the
  test for NULL that its other results have.
* `cu_preinst*` clear `REINSTREQ` even if it was set before; `check_conflict()`
  puts `istobe` back to normal even if it was to be deconfigured; a conflictor
  that is removed may be queued for configuration (`packages.c:310`).
* The clean-up of a failed change of the `info/` layout is to "restore the old
  files if needed", but `pkg_infodb_unlink_monoarch_files()` frees each entry as
  it unlinks it (`db-ctrl-upgrade.c:184`), so that there is nothing left to
  restore from. A reader in the middle of the change looks for names that are not
  there yet.
* A journal entry is applied to the only installed instance whatever its
  architecture (`parse.c:441`), though the comment at `parse.c:396` has it use
  the entry with the matching one; a crash after a cross-grade leaves two
  instances, and with several `Multi-Arch: same` instances the database may
  become unreadable (`parse.c:426`). `Config-Version` is not cleared in memory
  when a package is configured and is written for `triggers-awaited`
  (`dump.c:91`).

dpkg-deb, dpkg-split, versions:

* A truncated zstd stream is accepted without an error (`compress.c:1109`); data
  after the end of a compressed stream make acceptance a matter of timing; an
  archive of the old format with empty data is accepted.
* `file_treewalk_feed()` leaves out every name at the top that begins with
  `DEBIAN`; a build that fails leaves the incomplete `.deb` behind.
* The second loop of `dpkg-split --listq` prints its heading for every part.
* An epoch may have a sign (`+1:2`), as `strtol()` accepts it.

update-alternatives:

* The link of a new group may be the link of one of its own slaves
  (`update-alternatives.c:2911`, against the comment at 2884); the file that is
  then written is reported as corrupt.
* `fsys_mv()` of a renamed link overwrites a file at the new place without
  `--force` (2578, 2602).
* `--set-selections` lets `alternative_select_mode()` undo what it has set
  (2767-2785).
* A dangling group "will be updated with best choice" (2526) only by some of the
  commands.

start-stop-daemon:

* A notification other than `READY=1` that arrives as the time runs out makes
  `wait_for_notify()` succeed (724, 875).
* `EXTEND_TIMEOUT_USEC` is documented in microseconds and read as milliseconds
  (772).
* `--remove-pidfile` removes the file even if nothing was terminated, and a
  `--retry` that ends in a slash meets a `BUG()` (1423).

dpkg-divert and dselect:

* dpkg-divert takes no lock; `--add --rename` that was interrupted between the
  two steps says "Leaving" when it is repeated and never renames
  (`divert/main.c:561-590`).
* `resolvedepcon()` returns `rc ? 2 : 0`, so that a change for a dependency that
  is listed already is not reported (`pkgdepcon.cc:85`); the test
  `dpkg_version_compare(...) > 1` misses later versions.

## Not modelled

* The Perl scripts (`scripts/`), which build packages: sequential text processing
  without shared state.
* The text and byte formats themselves: the characters of a stanza, the headers
  of ar and tar, the algorithms of compression. What the programs conclude from
  them is in `ControlDb`, `DebExtract` and `DebBuild`.
* Option parsing, messages, `--help`, the formats and listings of dpkg-query and
  dpkg-deb, the log, `--verify`: no state that a property could be about.
* The screens and access methods of dselect; `--status` and `--pidof` of
  start-stop-daemon and how each system finds a process.
* Jump buffers and nested error contexts of `ehandle.c` beyond the order of
  clean-ups; forking, signals and environment of maintainer scripts.
* The two locks (`lock`, `lock-frontend`) as two.

The reasons are with the components in `PROJECT.json`.

## Plan

Done: all components of the inventory but those above, with proofs for
`StatusDb`, `Triggers`, `DepCycle`, `Conffile`, `ProcessQueue`, `FileInstall`,
`RemoveFiles`, `InfoDb`, `TrigDeferred`, `Unpack`, `StartStop`, `Divert`,
`StatOverride` and `SplitQueue`.

To come, in this order:

1. `HaltIsJustified` of `ProcessQueue`, for `--configure`.
2. The refinement of the incorporation of `Triggers` by `TrigDeferred`.
3. `dpkg-query` next to `InfoDb`'s change of layout, as a reader without a lock.
