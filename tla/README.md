# SYN-OS in TLA+

SYN-OS is an Arch-based distribution with its own desktop programs, an
installer, an ISO builder and a Linux-from-scratch build. This directory holds
TLA+ modules that model those parts of it where the order of steps matters, the
TLC configurations that check them on small instances, and TLAPS proofs of the
results that hold for every instance. Paths below are those of the repository;
`syn-shell` stands for `SYN-SOFTWARE/syn-shell-src/src`, `syn-relay` for
`SYN-SOFTWARE/syn-relay-src/src`, `syn-bar-core` and `syn-iso-builder` likewise.

## Running it

    tlc -config MCShellJobs.cfg MCShellJobs     # one run, see the table below
    tlapm Jobs_proofs.tla                       # one module of proofs (the longest: 15 minutes)

`PROJECT.json` lists the runs, the lines each definition stands for, the
hazards, and for every property a mutated form of one definition that breaks
it. Those mutated forms stand in the modules just before what they mutate and
nothing refers to them.

## The system

| component | state it keeps | operations | what is hard | module |
|---|---|---|---|---|
| syn-shell jobs: `Jobs.cpp`, `JobsWindow.cpp`, `MainWindow::closeEvent` | the list of jobs; a verdict, a cancel flag and errors for each; a refresh timer | start, the worker's end, cancel one or all, clear, close | two kinds of thread, ends that arrive as queued events, a time-limited wait on quit | `ShellJobs`, `JobPromise` |
| syn-shell file jobs and undo: `FileJobs.cpp`, `MainWindowFiles.cpp` | the file system, the trash with its `.trashinfo` records, the undo stack | copy, move, moveBack, remove, trash, restore, undo | any call may fail, cancel anywhere, jobs at work on the same files | `FileTree`, `FileJobs` |
| syn-shell bulk rename: `MainWindowRename.cpp` | one folder, temporary names, the undo stack | renameAll, undo | swaps and cycles, a rename refused half-way, names taken meanwhile | `BulkRename` |
| syn-shell terminal: `PtySession.cpp`, `TermView.cpp`, `MainWindowShell.cpp` | a holder with a shell on a pty, its client, a socket, the browser's folder | attach, take over, detach, navigate, cd, hang up | a poll result used after the client changed, two sides that move at once, clients that go at any moment | `ShellPty` |
| syn-relay stats server: `cmd_stats_server.c` | a pid file, a listening socket, a stop flag | `--start`, `--stop`, `--status`, the accept loop | processes that only know each other through a file; signals; crashes | `RelayServer` |
| syn-relay watch and host sessions: `cmd_watch.c`, `cmd_host.c`, `syn_agent_state.c` | a pid file, one child or a pair | start, stop, the children's ends | late clean-up of an earlier session, half of a pair dead, a signal before a wait | `RelaySessions` |
| syn-bar-core: `syn-bar-core/main.c` | the windows' titles, at most 8 watchers | toplevel events, one client per round, the broadcast, the clean-up | a poll snapshot used after the table changed, writes to closed or full sockets | `BarTitles` |
| SYN-LFS: `SYN-LFS/build.zsh` | a disk image, `build.state`, a lock, mounts | all and its steps, mount, umount, boot | several terminals, kills, err_exit switched off inside a condition | `LfsBuild` |
| syn-iso-builder: `syn_build_runner.c`, `syn_mount_cleanup.c`, `syn_software_build.c` | a scratch directory, mounts, a lock, the profile | build, cancel, the commands it starts | a killed builder whose command goes on, mounts left in a tree about to be removed | `IsoBuild` |
| installer: `syn-config`, `syn-disk`, `syn-pacstrap`, `syn-stage0`, `syn-stage1` | the answers, the disk, what is mapped and mounted, the new system | check, partition, install, boot loader, a second try | tables in five files that must agree, a failure anywhere, secrets on the disk | `Installer` |
| everything else | - | - | see "What is not modelled" | - |

The parts meet in few places. The window of syn-shell starts its file jobs
through the job manager and takes their results in a callback on the UI thread,
where the undo step is made; undoing runs the opposite job the same way, and
undoing a rename calls renameAll directly. Its terminal is a process of its own,
which it talks to through a socket and which outlives the window if foot takes
the shell over. syn-bar and syn-bar-notify ask syn-bar-core for one line at a
time or stay as watchers; syn-bar-core reads syn-relay's state; syn-relay's
server forks a child for each client, so a client never holds up the accept
loop. The installer's files share `synos.conf` and run one another, Stage 1 in a
chroot of the new system. `BUILD.zsh` only starts syn-iso-builder or
`build.zsh`.

What makes each part correct:

- jobs: every job settles once on a verdict that is true, the close question
  and "cancel all" reach every job that is not over, and quitting ends;
- file jobs: no file is lost, none is left half written, what a call reports is
  true, what is in the trash can be restored, undo puts back;
- bulk rename: nothing is overwritten, all or nothing, undo goes back;
- terminal: a shell lives exactly as long as someone may come back to it, and
  the browser is where the shell is;
- stats server: one daemon, "Stopped" only when it is gone, a server that runs
  can be found, a server told to stop does (it does not always, see the findings);
- sessions: what runs is listed and can be stopped, a pair stays a pair;
- bar: a watcher sees every title, one that leaves is closed;
- LFS build: what is recorded is there, nothing stays mounted, a build that was
  interrupted can be finished;
- ISO builder: rm never reaches the host, success means this build's ISO, a
  crash does not hinder the next build;
- installer: what it installs boots, it refuses before it wipes, it leaves no
  secret behind, and it can be run again.

Much of this code asks nobody whether a clean-up, a copy or an unmount
succeeded. Such a call fails in the models like any other, and goes on as the
code does; the model notes what the failure was about (`faults.half`,
`faults.records`, `missed`, `mnt[i].left`, `stale`, `untold`, `silent`,
`unlisted`), and the property says what the failure may cost, and that it costs
nothing else.

## The modules

Each module has a type invariant `TypeOK`, which no run lists: where there is a
module of proofs it is part of the invariant proved there.

### JobPromise and ShellJobs

`JobPromise` is the abstract specification: a job settles once, "Cancelled"
exactly if it was asked to stop before. In `ShellJobs`, `at` is how far a job
has come (queued in the pool, working, its end posted, its end delivered),
`state`, `cancel` and `errors` are the fields of `Job` and `Progress`, `listed`
is `m_jobs`, `ticking` says whether `m_tick` is active, `ui` where the UI thread
is. Handlers of the UI thread are one step each: they do not overlap. A worker's
life is two steps, `TakeUp` and `WorkReturns`, and its end reaches the UI thread
in a third, `Deliver`, at any later moment in which an event loop runs, the
question's nested one included and the blocking `waitForAll` excluded.
`WaitEnds` may come at any moment, because the code does not look whether the
five seconds or the workers ended first. `KeepsPromise` is the refinement, with
`state` and `cancel` for the two variables of `JobPromise`.

### FileTree and FileJobs

A path is a sequence of names; what is there is nothing, a folder or the number
of an inode. A file's data is a sequence of `Chunks` chunks, all equal to the
file's identity, so "a whole copy of file 2" can be asked for. Two volumes
separate rename from copy-and-delete; a name outside `Paths` is one the system
refuses. `Together` says which commands may be given while which is at work, each
on a thread of its own. An undo may be given beside a job as a command may (`Beside`,
`Together`); in the two slots of the run an undo comes after the one job there is.
A job record has a program point `at`,
the items still to do, and a stack of visits that stands for the recursion of
`copyTree` and `removeTree`; every system call is a step, and one that can fail
has a disjunct in which it does, counted by `MaxFaults` (`faults.n`) and chosen by
`FaultKinds`. Three calls fail without anybody noticing, and `faults` remembers what
they leave: the removal of a half file (`faults.half`, its data), the writing of a
`.trashinfo` (`Blank` is an unreadable one) and the removal of one
(`faults.records`, the names in the trash). `cancel` is read where the code polls it. `spent` collects the
files the user gave up (deleted for good, or replaced by choice, which never
includes what is itself being copied or moved), `had`,
`honest` and `was` remember whether what a call reported was true and what the
user's folders looked like when a command began: they are there for the
properties only. Left out: symbolic links, permissions, times,
undo of created items and of modes. Names stand for themselves: "x (2)" is `x2`.

### BulkRename

`loc` says where each file is: under a name the user sees, under the temporary
name 1, 2, ..., or nowhere yet. `pc` is the loop renameAll is in, and each
`QDir::rename` is a step, which does nothing when the new name is taken (that is
what `QDir::rename` does). `Appear` is a job or another program making a file
in the same folder. Undo takes the last step off the stack and calls renameAll
with the pairs turned round; on an error the step goes back on. `torn` becomes
true when something has happened that renameAll cannot make good: a rename of
pass two, or one that puts back, is refused, or a file appears.

### ShellPty

The holder (`runHolder`) is at `starts`, `bound`, then in its loop: `poll` finds
a set of descriptors, and `listen`, `master`, `client`, `packets`, `cd` are the
branches that act on it in the code's order, so that a client accepted in
`listen` meets what was found of the one before. `link` is how a connection
stands (open; shut by the holder; left by the client; over on both ends),
`backlog` the clients the kernel has connected and nobody has accepted, `mail`
the packets under way. The view connects, navigates, hears what the shell prints
of its folder (OSC 7) and sends a Cd when the browser moves; `cwd` is `m_cwd`,
`dir` is `m_currentDir`. Foot windows attach, take over and go. zsh is
`starting`, at its `prompt`, `busy` or `exited`; a Cd reaches it through a file
and SIGUSR1, which its trap answers only at the prompt and which ends it before
the trap is set. `last`, `unmet` and `unheard` are there for the properties.
A packet arrives whole and writes do not block.

### RelayServer

Each command line and each daemon is a process. `pidfile` is the file under
`$XDG_RUNTIME_DIR`, `holders` the processes that have the listening socket open
(the port is free when nobody has), `at` is where each daemon is in
`run_server`, `term` its `g_stop_requested`, `tool` where each command line is.
The step between the look at the flag (`Test`) and the call of accept
(`Block`) is kept apart because a signal may come between. `Toast` is the
notify-send child of `note_client_connected`, which inherits the listening
socket and closes it only by ending. `alone` and `mute` are there for
`ListedIfServing` only. Nobody need connect: `NoticesStop` says which signals are
noticed all the same, `StopEnds` that all are, as the comments in the code have it. What a client asks for is served by a child of its own
that has closed the listening socket, and left out; so is a process number the
kernel gives out twice.

### RelaySessions

A behaviour has one of the two roles, as they share no file. A session is one
child (`view`) or a pair (`video`, `input`); a child is forked, installs its
handlers (until then SIGTERM kills), and is in its loop or blocked. A signal
that finds it blocked may or may not interrupt the call, as the code and the
libraries restart some of them. A command looks at the pid file, checks each pid
with `kill(pid, 0)`, forks, opens the pid file (which empties it) and writes it;
stop signals what it found and clears the file, and so does a viewer that ends,
whomever the file names by then. `met` is a command that another ran beside, and
`unlisted` gathers the sessions that lost their entry: because it could not be written,
because the viewer of another session cleared it, or because a command that met
another replaced it. These, and a pair half of which ended by itself (`Half`), are all
that `Accounted` leaves out; the overlaps, the late clean-ups and the broken pairs
are in the run.

### BarTitles

`name` and `focus` are the compositor's windows, `events` what it has sent.
A round of the poll loop is: `Poll` takes a snapshot (events, a client waiting,
which places of the table hung up), the events are dispatched, a changed title
is written to one watcher per step (`i` is the index of broadcast_title), one
client is answered or registered, and the clean-up goes over the places the
snapshot saw. Clients connect, stop reading and leave between any two steps.
A write to one that left kills the daemon unless SIGPIPE was inherited as
ignored (`pipe`). `short` remembers that a write came short.

### LfsBuild

A terminal runs a command; `all` runs the steps of `STEPS` that `build.state`
does not list. A step mounts the image if need be, does its work outside or
inside a chroot (three bind mounts are one layer) and adds itself to `did`,
which stands for its result in the image. A failing call is "loud" when the step
returns its status and "quiet" when it does not. Under `all` err_exit is off: a
quiet one goes unnoticed (`FailsQuietly`) and the step is in `missed`. Alone the
command ends with the first call that fails, loud or not, and a quiet one in the
chroot leaves it mounted (`StopsThere`). A umount may fail: `chroot_down` then leaves its layer
(`DownFails`), `umount -R` what is beneath the place in use. `mnt` is a stack, as the image of
another work directory covers what is mounted at /mnt/syn-os; each entry counts
the layers in it and those of them that nobody will unmount (`left`). `Kill` ends
a terminal and what it runs, `KillShell` only the shell of `all`, whose step goes
on and keeps the lock.

### IsoBuild

`at` is a builder's stage, `child` the command it has started, which goes on
when the builder is killed and shares the descriptor of the lock (`holder`).
`tree` is the set of builds whose files are in the scratch directory, `mounts`
what is mounted there, `harmed` what was removed through a mount; `staged` says
for each program of SYN-SOFTWARE which build put it in the image. Every call in
`FaultAt` may fail, two of them unseen: the rm of `output`, which leaves earlier
builds' ISOs there (`stale`), and the listing of SYN-SOFTWARE, after which no
program is compiled (`untold`); programs that do not compile are `failed`, which the
user is told. `crossing` says whether the ISO must be copied to another
file system.

### Installer

A program point per step of Stage 0 and Stage 1, the answers (`conf`), the disk
(partition table, file system of /boot, LUKS, LVM, root), what is open and
mounted, and the new system: packages, fstab, hooks, what the boot loader can
read. The tables keyed by `PartitionStrat` in the five files are operators of
their own, and `Boots` asks of the result whether they agree. `Fails` is any
step failing half-way with what the shell's exit handling does. `silent` has the
calls that failed under a `|| true` or unasked: "loader" (syslinux's script),
"cmdline" and "fstab" (a blkid that gives no UUID), "close" (a closing in
clearDiskHolders, or a LUKS mapping it passes over) and "umount" (the trap's). `Again` runs the
installer once more in the same live system, `Reboot` in a fresh one.

## The runs

| run | configuration | instance | shows |
|---|---|---|---|
| jobs | `MCShellJobs.cfg` | 3 jobs, a pool of 2 | `LiveJobsListed`, `TickWhileRunning`, `QuitLeavesNothingBehind`, `QuitFinishes`, and the refinement `KeepsPromise` |
| files_faults | `MCFileJobs.cfg` | nine commands (two copies, two moves, trash, delete, and in the trash restore, delete and empty), two drives; a second command or an undo; a copy, a trash and a move of the same items also at once; one failing call, clean-ups and `.trashinfo` files included, a cancel anywhere | `NothingLost`, `NoHalfFile`, `TrashHasRecords`, `CommandsReportTruly`, `UndoPutsBack` |
| files_move_lost | `FJ_MoveLost.cfg` | y and "y (2)" moved to a drive that has a y, both to be kept; no failure | the finding: `NothingLost` is violated |
| rename | `MCBulkRename.cfg` | swap, chain, cycle, plain; four calls or undos; three refusals in any pass; a file that appears | `OneFilePerName`, `RenamedAsAsked`, `AllOrNothing`, `UndoGoesBack` |
| shell_pty | `MCShellPty.cfg` | one foot window, three folders, two moves of the user, a failing socket or fork | `TakeoverKeepsShell`, `FollowEachOther`, `GoneIsHungUp` |
| relay_server | `MCRelayServer.cfg` | two command lines again and again, two daemons, one crash or failing call; clients may come and need not | `OneDaemon`, `StopIsTrue`, `ListedIfServing`, `NoticesStop` |
| relay_stop_missed | `RS_StopMissed.cfg` | the same without a crash or failure | the finding: `StopEnds` is violated |
| relay_sessions | `MCRelaySessions.cfg` | either role, two command lines, two sessions, children that end by themselves, one failing call or kill | `Accounted`, `PairStoppedWhole`, `WatchEnds` |
| bar_titles | `MCBarTitles.cfg` | two windows and titles, three clients for two places, two moves of the compositor | `TableIsWatchers`, `EveryoneHasTheTitle`, `TitleOfTheFocused`, `GoneIsClosed` |
| lfs_build | `MCLfsBuild.cfg` | one work directory, both ways, two terminals, three commands (`all`, `umount`, `boot`, `rekernel`), two kills or failures, loud, quiet or of an unmount | `RecordedIsDone`, `NothingLeftMounted`, `ResumeFinishes` |
| iso_build | `MCIsoBuild.cfg` | two builders, two builds, two tools, two kills, one failing call of six kinds | `AloneInScratch`, `HostSafe`, `SuccessIsThisBuild`, `CrashesAreSurvived` |
| installer | `MCInstaller.cfg` | every combination of answers, both firmwares and editions, three runs, any step failing, loudly or not | `Boots`, `RefusedBeforeWipe`, `SecretsStayBehind`, `RunsAgain` |

Deadlock is not checked: a program whose jobs, commands or faults are used up
rightly stops, and that what must go on does go on is stated as liveness.

### Bounds, and why they are enough

- **jobs**: three jobs on two threads is the least that has one queued, one
  working and one ended at once; the counts in the code are only compared with
  0 and with the pool's size.
- **files**: a folder of two files and a plain file is the least with "part of
  a folder done"; two chunks are the least with a half file, the second one the
  short tail; two drives, each with or without a trash; names up to "x (3)", one
  more than two jobs can take; two jobs, one after the other or at once; one
  failing call, as a second one only adds to what the first already stopped. Ten
  inodes suffice for two jobs: with none left an open would fail.
- **rename**: three names in use and a free one give every shape a list can have
  (swap, chain, cycle, rename); `MaxRuns` and `MaxFaults` bound calls and
  refusals, `FaultAt` the passes they happen in.
- **terminal**: the view and one foot are enough for a takeover in each round of
  the poll and for the view to come and go; a third folder is needed for the two
  sides to move away from each other; two moves are the least that cross. One
  failed try to connect stands for the 150 of the code, as it has no other
  effect than the next.
- **relay server**: two command lines are the least that race; a third daemon
  could not start in a state two cannot reach, since a daemon that ended leaves
  behind only its pid file and its toast. One fault: crash, failed fork, failed
  accept or unwritable pid file.
- **sessions**: a second session is needed for a late clean-up to hit, a second
  command line to overlap; faults as above.
- **bar**: a table of two places that a third client finds full, with one place
  free again while the broadcast runs; two moves are a change of focus and of
  title.
- **lfs**: two terminals are the least that contend for the lock and the mount
  point; `rekernel` is the step run alone, being one with a chroot and with a call nobody
  asks about in it; `build`, `configure` and the other steps without a constant of their
  own in `Commands` run as steps of `all`.
- **iso**: a build killed while its command goes on, and one that starts
  meanwhile; a second kill hits the recovery; a second build is what an ISO left
  over can be taken for.
- **installer**: three runs are a first failure, a failure of the recovery, and
  the run that must succeed.

### Fairness

- `ShellJobs`: the pool takes up queued jobs, `work()` returns (its loops poll
  the flag and end with their input), the event loop delivers events and timers,
  a bounded wait ends. Nothing is assumed of the user.
- `ShellPty`: the holder, the view, zsh on its way to its first prompt and in
  its trap, and each attached foot are processes the scheduler runs. A command
  in the shell need not end and the user need do nothing.
- `RelayServer`: the scheduler runs every process that can run (`QuietSpec`).
  No client is assumed to connect.
- `RelaySessions`: each child runs; nothing promises a frame, a packet or a
  command.
- `BarTitles`: the daemon's loop goes on while it has something to do.
- `LfsBuild`: a command that runs goes on; nobody has to start one.
- `FileJobs`, `BulkRename`, `IsoBuild`, `Installer`: safety only, so no fairness
  is used.

## What is proved

Everything in a `_proofs` module holds for all values of the constants: any
number of jobs, files, lists, clients, daemons, sessions, builders, runs and failures.
Each proof names an invariant, `IInv` where the table gives no other, that contains
`TypeOK` and the part of the bookkeeping without which the properties are not
inductive, shows that `Init` implies it and that each action keeps it, and
concludes with one temporal step.

| module | theorems | what the invariant adds |
|---|---|---|
| `Jobs_proofs`, manager | `LiveJobsAreListed`, `TimerCoversRunning`, `QuitIsClean`, `VerdictsAreFinal` (an action property), `PromiseKept` (the refinement) | `state` is Running exactly until the end is delivered; what is listed was started, what is live is listed |
| `Jobs_proofs`, files | `FilesTyping`, `FilesAreWhole` | `BInv`: `WriteOK`: both ends of a file in the making are there, and its data is across as far as the job has come; outside of these a file is whole or has the data of a half one that could not be removed, which `faults` never forgets (`Grows`); `CopyOK`: a copy has not its source for its target, which rests on `JobOK` and `StepOK`, what a job has in hand, on its list and in what it reports at each stage, up to what undo makes of that; `TreeOK`: the tree stays one through every unlink, mkpath, create and rename, which are the lemmas of the first sections |
| `Jobs_proofs`, files kept | `FilesAreNeverLost`, `CallersAreToldTheTruth` | `LInv`, on top of `BInv`: `WalkSafe`: outside the place a walk is about to take down or write over, every file still has a whole copy, and as long as nothing failed a copy has each file below its source across or still on its stack; `Truthful`: what was there when an item was taken up is still there, or across by the time its source is removed; `ListsOK`: where items go is apart from where they are; `PlacesOK`: a name found free for a move stays free until the move comes to it, and no other item can take it |
| `Trash_proofs` | `TrashKeepsItsRecords` | on top of `BInv`, `TInv`: `Booked`: every place in a trash has both its file and its record or neither, but for names in `faults.records`, the name a trash has just reserved and what a deletion is still about to delete, and for each of the last two it is said what is left to do; `AllAway`: records that can be read name places outside, and no job, list or undo step has a place in a trash but through its record; so nothing else puts a file there or takes one away |
| `Shell_proofs`, bulk rename | `NothingOverwritten`, `SuccessIsComplete`, `StackIsHistory`, `ErrorChangesNothing`, `UndoIsExact` | `Track`: in pass one files before the index are parked and the others at home; in pass two, while nothing failed, those before it are at their new names and the others parked; a file not in the list does not move. For the last three, `HInv`: taken backwards, the steps of the undo stack lead from where the files are to where each step was taken, and in the unpark loop exactly those from `back` up to the index are still parked |
| `Shell_proofs`, terminal | `Invariant`, `ShellSurvivesTakeovers`, `TiedThroughout`, `ShellAndBrowserMeet` | `LinksFit`: each client's own place tells how far its connection can be; `Met`: the client is who came last, and those that wait have connected; `FoundTruly`: what the poll found is so until it has been acted on; `ClosedTruly`: the holder closes because the shell or its last client has ended, and neither comes back. For the last two, `Tied`: what the browser has been told last is the last report still on its way, and if browser and shell differ, the last Cd is still in a queue, in hand or in the cd file, or a report that will move the browser is under way |
| `RelayServer_proofs` | `OneDaemonAtATime`, `StoppedMeansGone`, `ServingIsListed` | `HoldersAreListening`: who has the socket open; `OneHolder`: apart from a toast at most one; `SeenWasReal`: a command that signals or waits holds a pid that was once a daemon; `OutOnlyAtTheEnd`. For the last one, `OneByOne`: with one command at a time at most one daemon is alive, from its loop on it is the one the file names, and only what has written the file is read there or told to stop |
| `RelaySessions_proofs` | `Invariant`, `PairsStopWhole`, `SessionsAccounted` | `Named`: a session the pid file or a command names has all its children; `Started`, `Apart`: where a command is tells what it has started, and no two start the same session; `Paired`: input is started after video and told with it; `Beside`: of two commands at work each has met the other; `Kept`: a whole, listed session that runs untold is in the pid file or about to be written there by the command that started it, and a command that could take its entry has either seen it or met another |
| `BarTitles_proofs` | `Invariant`, `TableHoldsTheWatchers`, `TitleReachesAll`, `TitleIsTheFocused` | `OneEach`, `Sound`: the places the poll saw hung up are those of watchers that left, also after the table grew; `Sent`: who stands before the index of the broadcast has the title. For the last one, `TInv`: what the table of windows, the active window and the title lack against the desktop is said by an event still queued, and nothing queued after it unsays it |
| `IsoBuild_proofs` | `Invariant`, `ScratchIsNotShared`, `HostIsSafe`, `SuccessIsTrue`, `FailuresHaveReasons` | `Holds`: at most one builder or child has the lock; `ChildFits`, `TreeIsOwn`, `UnmountedFirst`, `ToolsTold`, `IsosAreOwn`, `FailsForAReason`, one for each stage of a builder: a program not of this build is still to be compiled, told or passed over, an ISO in `output` is this build's or was left by its rm |
| `Systems_proofs`, installer | `Invariant`, `NoSecretOnTheDisk`, `NothingRefusedLate`, `DiskIsFree`, `InstalledBoots` | `Accepted`: beyond the first check the answers are ones Stage 1 takes; `DiskAsAsked`, `TargetAsAsked`: disk and new system are as the answers say, as far as the installer has come, but for the one thing each call in `silent` was for; `NoSecret`; `LeavesSwap`: between runs nothing is mounted but swap, if the umount of the trap succeeded |
| `Systems_proofs`, LFS build | `MountsAccounted`, `RecordedHere`, `RecordsAreTrue` | `MInv`: in each image of the stack at `$MNT` there are at most the layers of the commands in its chroot and those that a kill, a failed unmount or a command that stopped there left (`Bounded`). `RInv`: from when the work of a step is over, with no status against it, its result is there or it is in `missed`, and nothing takes a result away again |

Assumptions, beyond those on constants in the modules: `BulkRename` is given
lists without a repeated name and without a pair that changes nothing (which
finishBulkRename checks) and a folder with one file per name; `HostIsSafe`
assumes that the lazy unmount does not fail. The five about `FileJobs` assume one
command at a time (`Together = {}`: a copy that runs beside a job writing its
source may be half) and that a flush at `close()` does not fail, which the code
cannot see (below); any other call may fail, those whose answer nobody looks at
included, and a cancel may come anywhere.
`FilesAreNeverLost` and `CallersAreToldTheTruth` assume three things more, each of
which excludes a loss the code does not prevent: what is trashed has a trash on
its own drive (`TrashNearby`; else the first entry below under files and renaming), no two sources of one
move can get the same name where they go (`NamesApart`; else files_move_lost), and
nothing is copied or moved up to where a folder it is in has its name
(`NotOverItsFolder`; else the second entry there). The
command lists of files_faults satisfy all three.
`TrashKeepsItsRecords` assumes `TrashNearby` too (a trash across drives that is
cancelled keeps files without a record, see below) and `TrashLeftAlone`: nothing
is pasted into a trash or cut out of one, top folders are not moved, a folder
that is a trash is not deleted, and every trash is empty at first. The code does
not look whether it pastes into a trash or cuts out of one, and a file that comes
or goes that way leaves its record behind (below). What it does not excuse is a
failure the code sees: a reservation, a rename, an unlink that fails, or a cancel, at any
call. A `.trashinfo` that could not be written or removed, which the code does not
see, spoils the name in the trash it is for, and the theorem is that it spoils no
other. Its `~HalfDeleted` leaves out only deletions from the trash that were
cancelled or failed on something. The commands of files_faults satisfy it.
`ErrorChangesNothing` is about refusals before and in pass one, as `torn` excuses those
of pass two (below). `DiskIsFree` assumes of no call that it succeeds: it
says of a run in which a closing or the trap's umount failed that nothing is
known, and of any other that parted finds the disk free. `SuccessIsTrue`,
`RecordedHere`, `RecordsAreTrue` and `InstalledBoots` likewise name what a failure
that nobody asks about can cost.
`RecordedHere` is about a work
directory during whose time no other one's image is mounted, and needs it: there is
one mount point for all of them (see below).

Only model-checked: all liveness (`QuitFinishes`, `NoticesStop`, `WatchEnds`,
`GoneIsClosed`, `GoneIsHungUp`, `ResumeFinishes`), which is out of the prover's
reach; `UndoPutsBack` of `FileJobs`, and all of `FileJobs` where a copy, a trash
and a move of the same items run at once; and `LfsTypeOK`, since `SelectSeq`,
which leaves recorded steps out of the list, is recursive. `UndoPutsBack` says
that folders and contents are as before; its invariant would have to carry the
whole view of the user from the start of a command to the end of its undo, with
every item as far across as the walks of both have come, and it needs assumptions
of its own: an undo right after its command, no item inside another, nothing merged
or replaced.

## What the runs found

**files_move_lost.** `move` chooses all its destinations first
(`syn-shell/FileJobs.cpp:505`) and copies to another drive afterwards (`534-541`).
With y and "y (2)" on their way to a drive that has a y, and both to be kept, the
y is to become "y (2)" there, and so is the other one: the second copy truncates
the first, whose original has been removed, although `FileJobs.h:9` says that the
original is removed "only once its copy is whole".

**relay_stop_missed.** The accept loop tests the stop flag and then calls accept()
(`syn-relay/cmd_stats_server.c:341-344`). A SIGTERM in between sets the flag and
interrupts nothing: the daemon blocks until a client happens to come, and
`--stop` gives up after two seconds. The comments at `46-50` and `319-324` say that
accept() is interrupted so that the stop is noticed without waiting for "the next
inbound connection". `NoticesStop`, which passes, says that this moment is the only one.

What else was seen is listed here, because several of the properties hold only
with it excluded. "TLC" says that a small change of a configuration shows it;
"read" that it is outside what is modelled.

syn-shell, files and renaming:

- Trashing from a drive without a trash of its own copies to the home trash. If
  one unlink of the original then fails, the copy is removed too
  (`FileJobs.cpp:641-643`), and what was already unlinked is in neither place. TLC:
  `Tree <- UsbTree`, `TrashOf <- HomeTrash`, `Commands <- TrashAcross`,
  `FaultKinds = {"unlink"}` in `MCFileJobs.cfg`; `NothingLost`.
- Moving a file x out of a folder x to where the folder is, with Replace as the
  answer, deletes the folder to make room, and with it the file that was to be
  moved (`FileJobs.cpp:510-511`): askTransfer refuses only a destination inside
  the source (`FileOps.cpp:25-30`, `41`). TLC: a file `home/x/x` in the tree and
  the command that moves it to `home`; `NothingLost`. A folder x merges into the
  one it is in instead, and what of it belongs at its own old place is removed
  with it (`538-539`; read).
- A move across drives does not look whether the last buffered bytes were
  written at close (`FileJobs.cpp:261`) and removes the original. TLC: "flush"
  in `FaultKinds`; `NothingLost`, `CommandsReportTruly`.
- A half file whose removal fails stays under the real name after a job that says
  only that it failed or was cancelled (`FileJobs.cpp:247`, `254`), although
  `syn-shell.md:156` says that cancelling never leaves one. TLC: `NoHalfFile` without
  `faults.half`.
- A `.trashinfo` that could not be written is left empty or short
  (`FileJobs.cpp:632-634`), one that could not be removed is left without its
  file (`646`, `684`, `MainWindowFiles.cpp:381`), and nothing says so. TLC:
  `TrashHasRecords` without `faults.records`.
- Undoing a move across drives reports the item as moved back whether or not the
  copy succeeded (`FileJobs.cpp:563-570`), and the undo step is gone with it.
  TLC: `CommandsReportTruly` without its exception for moveBack.
- A file that another job moves into a folder that is being moved across drives,
  after the folder was listed for the copy, is removed with the original
  (`FileJobs.cpp:539`). TLC: `Commands <- IntoEachOther`, `Together <- AtOnce` in
  `MCFileJobs.cfg`.
- Undoing a copy that merged into a folder trashes the whole folder, also what
  was in it before (`MainWindowFiles.cpp:483`). No run starts with such a folder.
- A cancelled trash across drives drops the `.trashinfo` but keeps the part
  copied so far in the trash's files (`FileJobs.cpp:642-646`). The passing runs
  trash on the system drive.
- Nothing keeps the user from pasting into a trash's files/ or from cutting what
  is there and pasting it elsewhere (`MainWindowFiles.cpp:282-314`; the menu of a
  trash offers Paste, `MainWindow.cpp:1877`): what is pasted there has no `.trashinfo`
  and cannot be restored, and the record of what is cut stays. No run has such
  commands (`TrashLeftAlone`).
- deletePermanently drops the `.trashinfo` of every path asked for, also of those
  that could not be removed (`MainWindowFiles.cpp:371`), so what is left in the
  trash cannot be restored. emptyTrash removes first the files and then the
  records, whatever became of the files (`FileJobs.cpp:693-702`): a file that
  could not be removed loses its record, and a cancel in between leaves records
  of nothing. TLC: `TrashHasRecords` without its `~HalfDeleted`.
- A bulk rename refused in pass two leaves the others renamed without an undo
  step (`MainWindowRename.cpp:110`, `263-266`), although `:11-12` says that what
  was done is put back; and in a swap "back where it was" may be taken, so that
  the file stays under its `.syn-rename-` name (`:111`). TLC: `AllOrNothing` and
  `UndoGoesBack` without `~torn`.

syn-shell, terminal:

- A holder that learns from a failed write that its client has gone drops it and
  goes on without one (`PtySession.cpp:306-307`), while `PtySession.h:13-14` says
  that the shell is hung up; the shell stays until it exits. TLC: `GoneIsHungUp`
  without `unheard`.
- A holder that binds its socket after the view gave up (150 tries, three
  seconds), or after the window was closed while it connected, has no client and
  stays. TLC: `GoneIsHungUp` without `last = Nobody`.
- A Cd that comes before `.zshenv` has set the trap ends the shell, which is in
  the foreground already (`PtySession.cpp:341`, `343-347`), although
  `PtySession.h:20-22` speaks of a shell idle at its prompt. In the model it is
  the branch `shell = "starting"` of `WriteCd`.
- A Cd while the view connects or a command runs is dropped, and browser and
  shell stay apart until one moves again (`unmet`). A quick A-B-A in the browser
  ends in B, as `syncShell` compares with what the view last heard.
- `m_detaching` stays true when the foot window never attaches (read).

syn-relay:

- A `--start` that looked at the pid file before another daemon had written it,
  and bound after that daemon closed its socket, loses its own entry to that
  daemon's `remove` (`:361`). TLC: `ListedIfServing` without `alone`. A pid file
  that cannot be opened leaves a server neither `--stop` nor `--status` finds
  (`mute`).
- A viewer that was stopped clears the pid file when it ends (`cmd_watch.c:426`),
  also when a `--watch` has started another session since: that one runs unlisted,
  `--stop-watching` does not find it, and the next `--watch` starts a second one.
  Two `--watch` at once do the same, as the second to save its pid hides the
  first (`:377`). TLC: `Accounted` without `unlisted`.
- With one child of a host pair gone the session counts as not running, and the
  next command forgets the other, which goes on (`syn_agent_state.c:136`;
  `syn_agent_state.h:33` calls it recovering). TLC: `Accounted` without `Half`.

syn-bar-core:

- A watcher dropped because a write to it came short is not closed (`main.c:732`),
  although `:1120` says that the list owns it; its client waits for good, and a
  clean-up of the same round may close another. TLC: `TableIsWatchers`,
  `GoneIsClosed` without `short`. SIGPIPE is not ignored, so a watcher that left
  ends the daemon unless its parent had SIGPIPE ignored (`pipe`).

Building and installing:

- Under `all` a call that fails without the step returning its status is recorded as
  done (`build.zsh:721`, as err_exit is off inside the condition of an `if`), and no
  later `all` runs that step again: mkfs and the mounts of `image`, the copies of
  `kernel` and `esp`, and in `iso` bsdtar, cp, the filtered accounts and their bind mounts
  (`302`, `320`, `501-503`, `612-628`). TLC: `RecordedIsDone` without `missed`.
- A step run alone that fails in its chroot ends there, by err_exit, with /dev, /proc
  and /run mounted (`270-278`, `349-351`, `417-422`, `605-609`); so does one
  killed there, and one whose umount fails (`282`). TLC: `NothingLeftMounted` without
  `left`.
- A kill between making the image file and
  formatting it leaves a file no later `all` formats (TLC: `ResumeFinishes`
  without `img[W(p)] # "blank"`), and one while `build.packages` is written makes
  a work directory built the other way count as source (`Was`).
- With two work directories a step is done to the image of the other one and
  recorded as this one's, since `step_mount` takes whatever is mounted at
  /mnt/syn-os for its own (`build.zsh:147`). TLC: `RecordedIsDone` with
  `Works = {"a", "b"}`, `MaxFaults = 0`, `MaxCalls = 2`.
- `output` is emptied by an rm nobody asks about (`syn_build_runner.c:523`), and
  archive_iso takes the first ISO it finds there (`464-469`): an earlier build's may be
  reported as this one's. A SYN-SOFTWARE that is missing or cannot be listed compiles nothing
  and says nothing (`syn_software_build.c:143-146`, `syn_build_runner.c:553-554`). TLC:
  `SuccessIsThisBuild` without `stale`, without `untold`.
- A tool that does not compile is told to the user and leaves an earlier build's
  program in the image, while `syn_software_build.h:41` says it "just won't be"
  on the ISO. If the lazy unmount fails, rm goes into the mount (TLC: "umount -l"
  in `FaultAt`; `HostSafe`). A builder killed between opening and writing
  pacman.conf leaves it cut short for every later build (`conf = "cut"`), and a cp
  that fails leaves a piece of an ISO under the final name.
- `mbr-syslinux` with f2fs or LVM as root is accepted and does not boot
  (`SyslinuxBlind`); `uefi-clover` fails late, as documented.
- `syslinux-install_update ... || true` (`syn-stage1.zsh:226`) may fail and the
  installer says that it is done; so may a blkid (`165`, `174`), which leaves the root out of
  the command line. TLC: `Boots` without `silent`.
- The closings before parted are all `|| true` (`syn-disk.zsh:44-60`, `66`), and where
  lvs names a volume group the LUKS mapping is passed over (`45-46`); the trap's umount
  too (`syn-stage0.zsh:38`). parted then refuses the disk. TLC: `RunsAgain` without
  `silent`.
- The password of an install that stopped after its answers were copied stays on the
  disk until the next run partitions it (`syn-pacstrap.zsh:69`).
- A Stage 1 that fails leaves the new system mounted, so the next run in the same
  live system stops at parted (`stage1failed`). On Arch the passphrase has been
  taken out of the live `synos.conf` by then and must be entered again.
- Read, not modelled: a lock file of the builder that cannot be opened means no
  lock; mount paths with octal escapes are not matched; more than 256 mounts are
  not seen; locks are per home, while a scratch directory on tmpfs may be shared.
  A literal backslash-n in the initrd lines of the bootctl entry. In the GRUB
  branch amd-ucode overwrites intel-ucode.

## What is not modelled, and why

- *Within the modelled parts:* in syn-shell's file jobs symbolic links, modes,
  times and the undo of created items; in the stats server what a client is
  answered; in syn-bar-core the other verbs, each one question with one answer,
  and the refresh timers, which fill reply buffers; in `build.zsh` the steps
  grow, user, gui, isotest and host, which change the image and nothing the
  others ask for; in the ISO builder the profiles' git work trees and the
  dashboard; in the installer locale, services, themes and the text of the boot
  entries; in the terminal drawing, keys, the mouse, the editor's own pty, bash,
  clicks on a path, packets in pieces and writes that block.
- *syn-hum and the hum voice* (`syn_bar_hum.c`): synthesis in floating point, out
  of TLC's reach. The hand-over from daemon to voice thread was read: a tour
  request and an OFF are flags under one mutex, and an OFF that arrives before
  the voice has seen the tour is lost, while an OFF left set swallows the next
  line.
- *syn-shell archives, preview, git status*: the jobs of the first run under the
  modelled manager, and what they leave when cancelled is the doing of external
  tools; answers of the others are dropped when they come too late, which
  concerns display only.
- *syn-relay client and node state*: one request per connection with a time-out;
  the node file is written whole by whoever comes last and chooses a word the
  bar shows.
- *syn-connect, syn-audio, syn-sysmon, syn-uplink-dialpad, syn-share*: menus and
  viewers over services (iwd, BlueZ, PulseAudio, the journal, mount.cifs) that
  keep the state; a model would only say what it assumed of them.
- *syn-crypter, syn-speak, syn-wallgen*: they compute, and what they compute is
  not a question of states and steps.
- *the Windows port, layout, painting, wording, themes, dotfiles*: no property
  is about them.
- *dislocker-src* and other vendored code is another project's; the `-wip`
  programs are not built.
