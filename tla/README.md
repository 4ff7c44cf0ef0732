# Verification of browser_guard

TLA+ specifications of [browser_guard](../src/README.md), the TLC runs that check them and
TLAPS proofs about them. Paths below are those of the repository.

browser_guard is a Windows agent that suspends whole browser families while all their windows
are minimized. Its dangerous moment is between suspending a process and resuming it: if the
guard dies there, somebody else has to resume the process. Most of this project is about that.

## 1. The system

| Component | State | Operations | What makes it correct |
| --- | --- | --- | --- |
| Guard loop, `src/browser_guard.c` | table of `TrackedProcess` entries; pointer to the journal or NULL; stop and resume flags | startup (recover, init, launch broker), pass (scan, `ensure_group_state`, heartbeat, cleanup), resume on request, stop | never suspends without record and broker; never forgets what it froze; frees everything on the way out |
| Recovery journal, `src/recovery_journal.c` | records in memory; journal file; temporary file | init, register, unregister, load, identity match | file never torn, never behind what callers were told |
| Recovery broker, `src/recovery_broker.c`, `src/recovery_main.c` | progress through the loaded records | announce readiness, wait for the guard, recover, delete | everything frozen comes to run again; nothing else is touched |
| Suspension policy, `src/suspend_policy.c` | none | `evaluate_suspend_policy` | suspends exactly when no protection applies, and says why not |
| Scanning, `src/process_control.c` | `BrowserGroup` counts and flags of one pass | collect processes, count windows, mark foreground and audio | what stayed protected during the pass is seen as protected |
| Suspending, `src/process_control.c` | the suspend count, memory priority and throttling Windows keeps | suspend and resume, enter and leave background mode, restore, trim | what was applied is undone on every way out |
| Controller, `src/control_main.c`, `src/control_protocol.c`, `src/process_identity.c` | disabled flag (a file); shutdown event and its handles | launch, toggle, shutdown; counting the guards of this installation | one guard at a time; a stop reported is a stop |
| Configuration and entry point, `src/app_config.c`, `src/main.c` | `AppConfig` | parse the command line, run the guard by it | the configuration is the one written; nothing aggressive without being asked for |
| Overlay, installer | | | see section 7 |

How they interact: the controller starts the guard with `CreateProcess` and stops it through
a named event. The guard starts its broker and waits for a second event. Guard and broker then
communicate through the journal file and the broker's wait on the guard process, nothing else.
The guard is single-threaded; the concurrency is between processes: browsers that come and go,
the guard, its broker, brokers of earlier guards, controllers, and anybody who kills one of them.

What is hard: a crash between any two calls; failures of every Windows call; files replaced while
somebody reads them; process identifiers that are reused; desktops that change during a scan;
retries and timeouts on both sides of a handshake; deadlines on a tick count that wraps around.
`PROJECT.json` lists the hazards at their lines.

## 2. Modules

```
 AppConfig -----+
 PolicyPasses --+-> GuardProgram <- GuardProgram_proof
      |
      v
 SuspendPolicy <- TrackedEntry <- TrackedEntry_proof
      ^    ^
      |    +---- BrowserScan <- BrowserScan_proof
      | (INSTANCE)
      +--------------------------------------------- Guard <- RecoverySystem <- RecoveryInvariants
      Platform <- Processes <--+                       |            |                  ^
         ^ ^                   +--- RecoveryBroker <---+            v (INSTANCE)       |
         | +----- JournalSet <-+                              RecoveryPromise          |
         |            ^ (refined by)                        RecoveryAnyFault_proof ----+
         +---- RecoveryJournal <- RecoveryJournal_proof         ^
                                                            Recoverable_proof
 GuardControl <- GuardControl_proof                             ^
                                                            RecoveryPromise_proof
```

An arrow points at the module that is extended. The modules `MC...` give the constants of a run their values.

Four modules are abstract specifications, each of them a promise by which one part relies on another:

| Promise | Kept by | Relied on by |
| --- | --- | --- |
| `RecoveryPromise`: frozen only if recorded, recorded until thawed | `RecoverySystem` | the reader of `docs/safety.md` |
| `JournalSet`: the journal as two sets of records | `RecoveryJournal`, with file operations | `RecoverySystem`, which uses it in no other way (`CoreUsesJournal`) |
| `EntryLife`: suspended only with an entry, only once, and never after a failure of journal or heartbeat | `RecoverySystem` for each entry of its table, `TrackedEntry` with its clock | whoever reads one of the two as a view of the same table |
| `GuardTurns`: guards use journal and processes in turns | `GuardControl`, with the shutdown event | `RecoverySystem`, which has one guard after the other |

**The recovery core.** `RecoverySystem` composes:

- `Platform`: the constants, with their assumptions. `Faults` is the set of failures an instance
  allows; every failure branch of the code is guarded by one of them.
- `Processes`: Windows. `alive`, `creation_time` (which process holds an identifier) and
  `suspend_count`, raised and lowered by one per call as `NtSuspendProcess` and
  `NtResumeProcess` do; resuming a process that is not suspended succeeds.
- `JournalSet`: `records` is `BgRecoveryJournal.records`, `journal_file` what a reader of the file
  would find. One action per public operation, each with the failure of its file operation.
- `RecoveryBroker`: `run_recovery_broker`, and `bg_recover_journal_file` one call per step for each
  of its callers (`call[g]` for the broker of guard `g`, `call[0]` for the guard that is starting).
  The loop with twenty attempts is `AttemptResume`, `ResumeRecord` and `AttemptFailed`;
  `MaxAttempts` stands for 20.
- `Guard`: `pc` is the call the guard makes next. `tracked`, `suspended`, `suspend_disabled` and
  `seen` are the entries and their flags; `todo` and `current` are what a loop has still to visit
  and the entry it works on; `active_recovery_journal` is that pointer being non-NULL.

| `pc` | Code |
| --- | --- |
| recover, init, launch, wait, setup | `run_browser_guard` 688-717 with `bg_start_recovery_broker` |
| pump | the end of `pump_ui_messages` and the head of the loop, 719-738 |
| drain | `resume_all_tracked` |
| scan | `collect_browser_groups` |
| ensure, suspend, probe, resuspend | `ensure_group_state`, `run_suspend_heartbeat` |
| unregister | `bg_recovery_journal_unregister`, from wherever it was called (`return_to`) |
| cleanup | `cleanup_tracked_processes` |

A step is one call that another process can observe, with the assignments around it. The guard can
be killed before and after each. Order inside a loop (which entry, which record next) is left open.

- `RecoveryPromise` is the abstract specification: processes that are frozen, processes named on
  disk, whether a guard runs. Freezing needs a record and a guard; records change only so that
  every frozen process stays named; without a guard, thawing goes on. `KeepsPromise` says that
  `RecoverySystem` implements it, `KeepsPromiseInTheEnd` that it does so with fairness.
- `RecoveryInvariants`: the inductive invariants.
- `RecoveryJournal` goes below `JournalSet`: create, write, flush, move, delete the temporary file,
  each of which may fail or be the last, and readers that keep the file from being replaced. The
  refinement maps `records` to the records *committed*: one being added does not count before
  register returns, one being removed counts until the file is replaced or that has failed.

**One entry and its clock.** `TrackedEntry` follows one process and its `TrackedProcess` from pass to
pass. What `Guard` leaves open there (has a grace period elapsed, is a heartbeat due) is computed from
the tick count, with `tick_deadline_reached` as the signed difference it is: `HalfRange` stands for
2^31. What `Guard` keeps is reduced here: the journal to whether registering succeeds, a pass to one
process.

| `stage` | Code |
| --- | --- |
| pump | `pump_ui_messages`, the head of the loop and the requests it serves, 719-743; the way out |
| observe | `add_or_update_tracked_process` and the deadlines of `ensure_group_state`, or `cleanup_tracked_processes` |
| mode | background mode, 583-615 |
| decide | registering and suspending, resuming, or neither, 617-648 |
| tend, trim | `run_suspend_heartbeat`, `maintain_suspended_process` |

`lowered` is what `SetProcessInformation` has left on the process. `since` and `failed` exist for the
properties: how long ago, in ticks that do not wrap, the family was active, the user asked to resume,
and the process was suspended or probed; and whether a resume or a restore has failed so far.

**Policy and command line.** `SuspendPolicy` translates `evaluate_suspend_policy`; `PolicyPasses` asks
it again whenever an observation changes. `AppConfig` is `parse_app_config`, one argument a step, with
`strtoul` as it treats overflow and negative numbers. `GuardProgram` is `main`: parse, then run by what
was parsed. The properties restate both independently: the policy by what each reason says about the
observations, not by the order of its returns; the command line by what a line as a whole asks for
(the last value of an option, the last of the two policies), not by a loop.

**The scan.** `BrowserScan` interleaves the three phases of a pass with windows that open, close,
are minimized and restored, the foreground, audio and processes. `playing` are the processes with an
active session on the default output device, the only one that the code asks; another device may become
the default at any time. The variable `throughout` records,
for the properties only, what has not ceased to hold since the pass began: a scan cannot be
asked to be right about what changes under it, but it must be right about what does not change.
`Manageable` are the processes of the guard's own user and session, the only ones it collects.
Whether a window is minimized is asked once per window here and up to four times in
`enum_windows_callback`; if it changes in between, the code may set the foreground flag besides
counting the window as minimized, which protects more.

**Starting and stopping.** `GuardControl` has the controllers' three modes, the disabled flag, the
shutdown event with its handles, and guard processes that are created, serve and leave. What `Guard`
takes for granted, that no two guards are in their loops at once, is `OneGuardServes` here. A guard that
finds the event in existence holds a handle to it until it has closed it, and keeps it in existence so
long (stage `rejected`). Controllers can be killed like guards, and the installer deletes the disabled
flag; both belong to the environment, `Environment`. A guard
started from another directory shares the event but is not `installed`: the controller, which compares
image, user and session (`process_identity.c`), does not count it.

## 3. Faults and what survives them

The recovery properties hold under some failures and not under others; the runs say which.

| Property | holds under | fails under (run) |
| --- | --- | --- |
| `SuspendedIsJournaled`, `FreezeNeedsBroker`, `BrokerNearsItsEnd` | everything (`resume_fails`, and by proof) | |
| `EntriesLive`, `SuspendsOnlyEntries`, `JournalSpec` | everything (by proof) | |
| `MemoryIsOnDisk` | everything but overlap (`core`, and by proof) | overlap |
| `JournaledBeforeSuspend` | everything but overlap and reuse (`core`, and by proof) | reuse; overlap |
| `Recoverable`, `FrozenOnce`, `KeepsPromise`, `RecordRemovedOnlyAfterResume` | suspend, persist, load, query, launch and broker failures, with either scan failures or resume failures (`core`, `resume_fails`, and by proof) | scan and resume failures together (`dropped_entry`), overlap (`late_broker`), inspection failures (`failed_inspection`), reuse |
| `DrainThawsAll` | the above without resume failures (`core`, and by proof) | |
| `FrozenIsWatched` | suspend, persist, query, launch and scan failures (`core`, and by proof) | failures of resume, load or the broker itself |
| `CrashIsRecovered`, `KeepsPromiseInTheEnd` | suspend, persist, scan, launch and query failures (`core`) | inspection failures (`failed_inspection`); failures of resume, load or the broker itself, of course |
| `BrokerEventuallyExits` | the failures of `resume_fails` | |

`BenignFaults` in `RecoveryInvariants` is the condition of the row of `Recoverable`, and the only
hypothesis of the proofs of it; `BrokersWork` adds what `FrozenIsWatched` needs. They are not conditions
that the code enforces: they mark the limits of the guarantee. What happens beyond them:

- *A dropped entry* (`dropped_entry`): a pass misses a suspended process, its resume fails, the entry
  is dropped. Seen again, the process is suspended a second time, and one resume no longer frees it.
- *Overlap* (`late_broker`): a broker still retrying deletes the journal the next guard has written.
- *Inspection* (`failed_inspection`): a live process that cannot be inspected counts as gone, and its
  record is deleted without a resume.
- *Reuse* (fault `"reuse"`, in no run): `bg_recovery_journal_register` compares identifiers
  and not creation times, so a record of an exited process passes for one of its successor, and
  `JournaledBeforeSuspend` fails; and `bg_resume_recovery_record` may resume a process that took the
  identifier after the comparison.
- *A lost broker* (fault `"broker"`): the guard looks only at its journal pointer and goes on
  suspending after its broker has died, although README.md:129 promises that a suspend is refused when
  the broker is unavailable. `FreezeNeedsBroker` does not say that either: it states what holds, that the
  broker had announced itself. Where no broker dies, `FrozenIsWatched` says that one is still at work.

The table alone holds under every failure: `EntriesLive` is about its flags, and `SuspendsOnlyEntries`
says that a process is suspended only while it has an entry that may be. That a process stays frozen
only while it has one does not hold, as `dropped_entry` shows.

The scan: `unknown_window` shows that a restored window whose executable cannot be queried does not
protect its family (fault `"name"`). Likewise the result of `EnumWindows` is not looked at, and windows it
has not reported do not count (fault `"windows"`). Audio that cannot be inspected (fault `"audio"`) counts
as silence; so does, without any failing call, audio on another output device than the default one, which
alone is asked (`process_control.c:400`), although docs/safety.md:14 promises that families with active
output audio are protected. A process that cannot be opened or that its full group has no room for does
not protect its family. `AudioProtects` is stated for the processes in the group that play on the default
device throughout the pass; it is checked without the fault `"audio"`, and the others without `"name"` and
`"windows"`.

The controller: `no_snapshot` shows a stop reported beside a running guard.

One entry. The grace periods hold without conditions (`GracesAreHonoured`), the rest up to these limits:

- `manual_resume_until_tick` is set when the entry is made. A process that is watched for more than
  2^31 ms (24.9 days) without a request to resume is held back for as long again, as the signed
  difference is then negative; the same goes for a family that is inactive for so long and is not
  suspended. `GraceEnds` says that no grace period delays a suspension otherwise. An entry whose process
  was never asked to resume counts from its making as one whose grace period has just ended.
- After a heartbeat that failed, the decision taken before it still has the process trimmed
  (`browser_guard.c:650`). With trimming configured, a process that runs is lowered again, and nothing
  restores it: `LoweredOnlyWhileManaged` is stated without trimming.
- The background flag is cleared whether or not the priority was restored, and an entry is dropped
  whether or not its process was resumed: the same property speaks of the time before the first failure.
- A resume that fails keeps the process suspended while it is given a fresh heartbeat interval:
  `ProbedInTime` too is stated for the time before.

## 4. Runs

| Run | Bounds | Shows |
| --- | --- | --- |
| `policy` | command lines of up to 3 arguments, and every numeric option twice; 0..2 windows of each kind | the configuration is the one written; the policy; restored windows give way only on request |
| `core` | 3 processes, 2 guards, 2 records, 2 entries, 2 attempts | the guarantee with enumeration failures, with a broker at work for all that is frozen, and recovery after a crash in the end; journal and table run full with 3 processes |
| `resume_fails` | 2 processes, 3 guards | the inductive invariant with resume, load and broker failures, across two restarts; no freeze without broker; each step of a broker is one nearer to its end |
| `entry` | 8 tick values, passes up to 2 ticks apart, grace periods and heartbeat of 1 and 2 ticks; two configurations, minimized-only with trimming and all background without | grace periods, heartbeat, lowered priority and life of one entry, around the wrap of the tick count |
| `journal` | 3 records to choose from, capacity 2 | the file after every failure and kill, with readers and deletions beside the guard; refinement of `JournalSet` |
| `scan` | 2 families with 2 and 1 processes and one of somebody else, 2 windows | windows, foreground and audio of the default device |
| `control` | 2 controllers at once, replaced when they are killed, 2 guard processes | one guard; stops reach their guard and are honoured; handles; off stays off until a toggle or the installer; every controller ends or is killed |

Five runs expect a violation, `late_broker`, `dropped_entry`, `failed_inspection`, `unknown_window` and
`no_snapshot`: each is a statement of the documentation that the code does not keep, and `PROJECT.json`
quotes it.

Why the bounds are enough. `MaxSuspend = 2` distinguishes frozen once and twice and makes the
limit at which `NtSuspendProcess` refuses reachable. Two attempts distinguish the first, the last and
success. Two guards give a guard, its successor and both brokers; `resume_fails` adds a third so that
a record can survive two recoveries. With capacity 2 and three processes the journal and the table
can be full. In `entry` half the range is 4 ticks, so a heartbeat interval of 1 or 2 and passes up to 2 apart
stay within it: with interval 1 every pass that takes time is due, with interval 2 there are passes before
it is over, at it and beyond it. Two passes may see the same tick. Every age up to the whole range of the
tick count is reached, and so both sides of 2^31. In `policy` three arguments
are an option with its number and one more beside it; the numbers are the limits of every option,
those just outside, an overflow and two negative ones. `MaxGroupPids = 2` in `scan` is reached but not exceeded; the fault `"open"` leaves
processes out of their group as a full group does. Two controllers and two guards suffice for a stop
that is too late for its guard to meet the next one.

Deadlock is checked for the journal and the scan. The other systems really stop: the recovery system
and the controllers when all guards and controllers of an instance are used up, an entry with its
guard, and a program whose command line was rejected.

**Fairness.** `FairSpec` of `RecoverySystem` assumes only that a running broker is scheduled: its
wait is for a process handle, its calls return, its retries are bounded. Nothing is assumed of the
guard, the user or the browsers; so the crash runs need no guard that comes back. `ControlFairSpec`
assumes the same of controllers, whose wait is bounded by 5000 ms, and nothing of guards.
`StopIsHonoured` takes as its premise `GuardFairness`, that a guard's calls return: startup is bounded
by the attempts and the broker timeout, a pass by `SendMessageTimeout`, and the loop polls the event at
least every 50 ms. Console signals and kills are not part of it.

**Mutants.** Every property of a passing run has a mutated definition (`X_Suffix` before `X`, for
instance `AwaitBroker_AnyEnd`) under which TLC finds it violated in that run.

## 5. Proofs

All for every set of processes, every bound and, unless said otherwise, every set of faults.

| Theorem | Says |
| --- | --- |
| `RecoveryAnyFault_proof!TypeCorrect` | `[]TypeOK` of the recovery core |
| `RecoveryAnyFault_proof!SuspendedAlwaysJournaled`, `FreezeOnlyWithBroker` | `[]SuspendedIsJournaled`, `FreezeNeedsBroker` |
| `RecoveryAnyFault_proof!BrokerInvHolds`, `BrokersNearTheirEnd` | no broker before its guard launches it, and a recovery call exactly while its broker recovers; `BrokerNearsItsEnd`, a bound on the steps of every broker |
| `RecoveryAnyFault_proof!EntriesAlwaysLive`, `CoreUsesJournal` | the core implements `EntryLife` for each entry of its table, and `JournalSet` |
| `RecoveryAnyFault_proof!OnlyEntriesAreSuspended` | `SuspendsOnlyEntries`: a process is suspended only while it has an entry that is not to be left alone |
| `Recoverable_proof!OneAtWork`, `MemoryAlwaysOnDisk` | `[]SeparationInv`, `[]MemoryIsOnDisk`, without overlap |
| `Recoverable_proof!RecordsNameTheirProcess` | `[]IdentityInv`, without reuse |
| `Recoverable_proof!EverySuspendJournaled` | write-ahead for every suspend, without overlap and reuse |
| `Recoverable_proof!RecoveryInvHolds`, `AlwaysRecoverable`, `NeverFrozenTwice` | the guarantee, under `BenignFaults` |
| `RecoveryPromise_proof!CoreKeepsPromise`, `RecordsKeptUntilResume` | refinement of `RecoveryPromise`; records stay until their process runs; under `BenignFaults` |
| `RecoveryPromise_proof!DrainAlwaysThaws` | the way out thaws all, under `BenignFaults` without resume failures |
| `RecoveryPromise_proof!FrozenAlwaysWatched` | `[]FrozenIsWatched`, under `BrokersWork` |
| `RecoveryJournal_proof!JournalIsTyped`, `JournalIsNeverTorn`, `CommittedRecordsStay`, `FilesImplementSets` | the journal file, what the guard that relies on a record may rely on, and that the file implements `JournalSet` |
| `TrackedEntry_proof!EntryIsTyped`, `GracesHold`, `GracePeriodsEnd`, `HeartbeatIsInTime`, `LoweredIsManaged` | the properties of `entry`, for every configuration, every range of the tick count and passes at any distance below that range |
| `TrackedEntry_proof!EntryAlwaysLives` | the timed entry implements `EntryLife` |
| `BrowserScan_proof!ScanIsTyped`, `WindowlessIsSafe` | counting, and that no window means no suspension |
| `BrowserScan_proof!RestoredIsProtected`, `ForegroundIsProtected`, `AudioIsProtected` | the protections, the first two without `"name"` and `"windows"` in `ScanFaults`, the third without `"audio"` and on the default output device |
| `GuardProgram_proof!CommandLineIsHonoured`, `AggressionIsOptIn` | the configuration, for command lines of any length with any numbers |
| `GuardProgram_proof!ConfigStaysInLimits`, `LimitsFitTheTickCount` | what `TrackedEntry` assumes of a configuration (`ConfigAssumption`) holds of every one that is parsed |
| `GuardProgram_proof!PolicyIsItsProtections`, `ReasonsApply` | the policy, for any number of windows |
| `GuardControl_proof!ControlInvHolds`, `OneGuardAtATime`, `StopsOnlyItsGuard`, `OffStaysOff` | one guard at a time; stops reach no later guard; off stays off until a toggle or the installer, for any environment |
| `GuardControl_proof!GuardsTakeTurns` | refinement of `GuardTurns`, for any environment |
| `GuardControl_proof!StopsAreNotLost`, `ControllersFinish` | a stop request stays set until its guard has seen it; each call of a controller brings it nearer to its result; for any environment |
| `GuardControl_proof!ReportedStopsAreReal` | a reported stop is real, without `"snapshot"` in `Environment` |

The argument for the guarantee. `Recoverable` alone is not inductive: to keep it across an
unregistration one must know that the process does not run frozen at that point, across a restart
that a recovery which reports success has freed everything, and across a deletion of the file
that nobody else is writing it. `RecoveryInv` says these things in named parts:

- `JournaledInv`, `ArmedInv`: flag, record and broker go together, at every `pc`. `TableInv`: what is
  suspended or given up has an entry. `BrokerInv`: until a guard has launched its broker there is none
  with its number, and a recovery call is under way exactly while its broker recovers. These four are
  inductive by themselves under every failure, and are proved first.
- `IdentityInv`: every record anywhere still names what its identifier names. This is what reuse breaks;
  it is inductive without it, whatever else fails.
- `SeparationInv`: of the guard's loop, its startup recovery and the broker of the last guard at most
  one is at work. This is what overlap breaks; it is inductive without it, whatever else fails, and
  `MemoryIsOnDisk` with it.
- `FrozenInv`: what is frozen is marked suspended in a guard that can suspend; nothing is frozen when
  the journal is initialised; the entry being unregistered runs.
- `CallInv`: a recovery call that has resolved everything so far still holds every frozen process in its
  hands. This is what failed inspections break.
- `ScanInv`: without enumeration failures, an entry a pass did not see belongs to a process that has
  exited. Enumeration and resume failures together break the step that uses it.

Of recovery in the end, TLC checks the liveness and the proofs have its safety half. `WatchInv` says
that the broker of the last guard waits for that guard or recovers, and holds in its hands all that is
frozen, until nothing is; so `FrozenIsWatched`. `BrokerWork` counts the steps that broker has left at
most, from the size of the journal and the attempts left; `BrokerNearsItsEnd` says that each of its
steps counts down and that nobody counts up again, `BrokerInv` that nobody starts it anew. What is
left to `CrashIsRecovered` and `BrokerEventuallyExits` is that a broker which can step does so.
`CallsLeft` does the same for a controller and `ControllerEnds`, `StopIsNotLost` for `StopIsHonoured`.

`GuardControl`'s invariant `ControlInv` accounts for the handles: the event has exactly the guard that
serves, the guards that were rejected and have not closed it, and the controllers between opening and
closing as holders, so that the creation succeeds only when no guard serves, and finds the event unset.
It may also be refused when no guard serves, because a rejected guard or a controller still holds the event. For a reported stop, `FoundInv` and
`StoppedInv` say that the guards a controller has found are gone when it goes on. The turns of
`GuardTurns` begin with the creation of the event and end with its being closed: `HandlesAccountedFor`
is why the one cannot happen before the other.

One entry. The properties compare ages that do not wrap with deadlines that do. `TimeInv` ties the two
together as long as an age is below the range of the tick count, and says nothing beyond; it is enough,
because a deadline that is *reached* lies at most half the range back. `DecisionInv` carries what the
decision rested on to the step that acts on it; `Untracked` says that a dropped entry leaves nothing
behind. For the refinement of `EntryLife` these two are enough. `BeatInv` bounds the age of the last heartbeat by one more pass than the interval, while a pass
is on. `LoweredInv` is the property at every stage instead of at the end of a pass.

The journal file. `FileInv` says that a change under way is about one record, already added to or taken
from memory, and that what is about to be moved into place is complete. The refinement has one step per
file operation: all stutter except the move, or the failure that ends the change.

The scan. `WindowsInv`: a window that kept its state since the pass began is counted, or has still to be
reported, or its family has no process in the snapshot. `CountInv` bounds the counts by the windows
already reported.

The command line. `ParseInv`: the arguments read so far are well formed and `config` is what they, taken
as a whole command line, ask for. The limits of the configuration follow from it, since every number it
holds is a default or one that was read well.

Only model-checked: everything with fairness, that is `CrashIsRecovered`, `KeepsPromiseInTheEnd`,
`BrokerEventuallyExits`, `ControllerEnds` and `StopIsHonoured`: liveness needs `ENABLED`, which the
prover does not reason about. Only proved, and in no passing run: `EntriesLive`,
`SuspendsOnlyEntries`, `JournalSpec`, `TakesTurns` of `GuardControl`, `StopIsNotLost`,
`ControllersAdvance`, `ConfigIsInLimits`, `ReasonApplies` and `RecordRemovedOnlyAfterResume`, which TLC
confirms on the instances of the runs in the same way.

## 6. Abstractions to know about

- `query_recovery_record` is one step. It opens the process several times by identifier; with reuse
  it could mix two processes, which is not shown.
- The identifier of a *guard* is not reused between the guard's `CreateProcess` and the broker's
  `OpenProcess`.
- `Guard` decides for each process independently, while the code decides for a family: a superset of
  the behaviours of the code. What the family's observation is, is the subject of `BrowserScan`.
- `TrackedEntry` takes any windows and any activity in each pass, with the one restriction that a
  foreground window is restored. A process without a window to probe is one whose heartbeat fails, as
  in the code. When a working set is trimmed again depends on `last_trim_tick`, which nothing else
  reads; here it may be trimmed in any pass. `lowered` is both settings at once.
- A power failure is not modelled; a kill of any process is.
- A session list longer than the 256 audio entries behaves like the fault "audio".
- An argument is an option, a number or something else. `strtoul` also skips spaces and accepts a plus
  sign: other spellings of the same numbers.
- `TurnedOffStaysOff` speaks of toggles that wrote the flag (the controller does not look at the result)
  and ended with no other controller at work (`--launch` looks at the flag before it starts a guard), until
  the user turns protection on again or the installer deletes the flag.
- The installer deletes the flag at any time here, not only after its `--shutdown`.

## 7. Not modelled

- *The overlay and the notification window*: drawing, hit testing, focus, the anchor window. They
  decide where a click counts; what it does, the request to resume, is an action of `Guard` and of
  `TrackedEntry`.
- *Installer and uninstaller*: they call `--shutdown`, whose answer is `ReportedStopIsReal`, wait for the
  broker to exit, stop the controllers, copy files, and the installer deletes the disabled flag. Stopping a
  controller and deleting the flag are actions of `GuardControl`; the order of the script, its wait for the
  broker, which `BrokerEventuallyExits` is about, and the files are not modelled. *The benchmark script and the
  memory totals* only measure.
- *The controller's arguments file*, paths, log lines, access control lists and the names of kernel
  objects: constants of a session, or wording.
- *The composition of `BrowserScan` with `Guard`*: `Guard` takes any decision, so it adds no behaviour to
  the recovery core; the promises about a family are properties of the scan and the policy.
- *More families than `BG_MAX_BROWSER_GROUPS`*: the table of supported names is shorter than that.
- *Properties for reuse, for a lost broker and for uninspected audio*: section 3 says what fails. The
  faults are in the models, and the properties that survive them are proved with them.

## 8. Running

```
tlc -config core.cfg MCRecovery.tla      # the module of each run is in PROJECT.json
tlapm Recoverable_proof.tla
```

Each run takes seconds to about two minutes; the proofs about a quarter of an hour in total.
