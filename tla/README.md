# Verification of the device tree `device_blackshark_penrose`

TLA+ modules that model the parts of this device tree that keep state and have
something to lose: the fail-safe update of the boot partitions and the disk
interface beside it, the Bluetooth audio HAL from its providers to its streams, the
audio HIDL service with its worker threads, and the shoulder keys from their
settings to the touches they become.  TLC checks each module on small
instances; TLAPS proves the central theorems for every value of the constants.

    tlc -workers 2 -config GptUpdate_safety.cfg MCGptUpdate     # one run
    tlapm GptUpdateProofs.tla                                   # the proofs

`PROJECT.json` lists the runs, the source lines each definition stands for, the
mutants that show that each property can fail, the finding and the hazards.

## 1. The system

| Component | State it keeps | Operations | Talks to |
|---|---|---|---|
| `gpt-utils/gpt-utils.cpp`, boot update | two GPTs per disk, the enabled UFS boot LUN; nothing in memory between calls | `prepare_boot_update(stage)` for `UPDATE_MAIN`, `UPDATE_BACKUP`, `UPDATE_FINALIZE` | called by the updater in recovery; writes block devices; `set_boot_lun` |
| the same, `gpt_disk` interface | an in-memory copy of both GPTs of a disk | `gpt_disk_get_disk_info`, `gpt_disk_get_pentry`, `gpt_disk_update_crc`, `gpt_disk_commit` | called by the boot control HAL |
| the same, lookup | the list of disks while it is built | `get_dev_path_from_partition_name`, `gpt_boot_chain_swap`, `gpt_utils_get_partition_map` | sysfs names |
| `gpt-utils/recovery-ufs-bsg.cpp` | none | `set_boot_lun` | SCSI generic or bsg node of the UFS device |
| `bluetooth/audio/utils/aidl_session` | per session type: `stack_iface_`, `data_mq_`, `audio_config_`, `observers_` under a recursive mutex | session start and end, registration, start/suspend/stop, PCM transfer, latency mode | called from providers (stack's binder threads) and from ports (client threads); calls back into ports |
| `bluetooth/audio/hal` | per provider: `stack_iface_`, `audio_config_`, death recipient | `startSession`, `endSession`, `streamStarted`, `streamSuspended`, `binderDiedCallbackAidl`, `updateAudioConfiguration` | Bluetooth stack through binder; the session |
| `bluetooth/audio/hw` | per stream: `state_`, `cookie_`, frame counters | open, write/read, standby, pause, resume, `set_parameters`, close | audio framework; the session |
| `bluetooth/audio/utils/session`, HIDL ports and middleware | the same machines behind the HIDL interface; `legacy_callback_table` | the same; registration and reports forwarded | the HIDL stack, or the AIDL session |
| the codec tables | none | validation of configurations, conversion from AIDL to HIDL | the session, the middleware |
| `audio/hal` | streams, their message queues and worker threads, the count of open streams | open/close stream, prepare queues, start/stop, callbacks | audio framework; the vendor's audio module |
| `parts/.../shoulderkey`, input filter | `mTouchList` | input events in, motion events out | input pipeline, the table of mappings |
| `parts/.../shoulderkey`, service and settings | `mInfoList`, a database table, `mPackageName` | overlay, list of apps, global mode, rotation, task changes | the same table, the task stack |
| `power` | handles of perf-lock hints | `setMode`, `setBoost`, `power_hint` | the vendor's perf library |
| `parts/.../doze`, `display`, `dtsaudio` | listeners registered with the sensor manager; preferences | screen on/off, preference changes | sysfs, system properties |
| `libinit`, `rootdir`, overlays, policy, configs | none at run time | run once at boot, or data | - |

### What is hard

- **Boot update.** The device may lose power between any two sector writes, any
  system call may fail on one disk and not on the next, and the stage of a disk
  is not stored but concluded from which GPT header is corrupted.  What makes
  it correct: at every instant each disk boots from a usable GPT that names a
  complete set of images, success is only reported when every disk is prepared,
  and a caller that starts again after a crash gets to the end.
- **Disks.** Both GPTs are written from one image in memory, which a caller may
  have filled in part or left without new checksums.  Partitions are found by
  comparing prefixes of names.  What makes it correct: one accepted, whole GPT is
  always on the disk; a lookup finds the partition asked for.
- **Bluetooth audio.** The stack's binder threads, the death of the stack's
  process and the client's threads act on one session.  Several threads of the
  service call one stream, whose lock is free while it transfers data and while it
  waits for a state.  A port's `state_` is
  tested and assigned by the client without the lock the callbacks take.
  Answers carry no name: they are broadcast to all streams of a session.  A
  transfer lets go of the session mutex between polls of the queue.  What makes it
  correct: callbacks reach exactly the ports that live, no stream stays STARTED
  without a session, a session runs with a configuration somebody validated,
  samples stay in order, and every operation returns.
- **Shoulder keys.** Two independent sources of touches are merged into one
  stream whose pointers are named by slot in one place and by rank in another;
  the mapping is edited in a copy that is written back row by row.  What makes it
  correct: the merged stream is a legal touch stream, pointer ids do not move, no
  touch stays behind, no edit is lost.
- **Audio HIDL streams.** A worker thread reads commands from a queue while
  binder calls close the stream, and holds bare pointers to what they free.  Calls of
  several binder threads overlap and share a count without a lock.  What
  makes it correct: a HAL stream is closed once and not used then, no thread
  outlives what it points to, the device is closed after its streams, every
  command is answered truly and every destructor ends.

## 2. Modules

| Module | Models | Composes | Proofs |
|---|---|---|---|
| `SafeUpdate` | abstract: what a fail-safe update promises per disk | - | |
| `GptUpdate` | `prepare_boot_update` down to single writes | instance of `SafeUpdate` under a refinement mapping | `GptUpdateProofs` |
| `GptUpdateScript` | the caller's loop over stages and restarts | extends `GptUpdate` | `GptUpdateProofs` |
| `GptDisk` | the `gpt_disk` interface down to single writes | - | `GptDiskProofs` |
| `GptDevices` | list of disks, swap of entries, partition map | - | `GptDiskProofs` |
| `BluetoothPort` | `state_` of a port and what an answer does to it | used by the four below | |
| `SessionReports` | abstract: what a session promises the ports it reports to | extends `BluetoothPort` | |
| `BluetoothSession` | one AIDL software session, its provider, its ports | extends `BluetoothPort`, instance of `SessionReports` | `BluetoothSessionProofs` |
| `BluetoothPcm` | the data of one stream through the queues of its sessions, and a second thread that stops it | extends `BluetoothPort` | `BluetoothPcmProofs` |
| `BluetoothHidl` | legacy ports, HIDL session, middleware | extends `BluetoothPort`, instance of `SessionReports` | `BluetoothHidlProofs` |
| `BluetoothCodecs` | the codec tables, validation and conversion, as operators | - | |
| `BluetoothProviders` | providers of every session type, configurations, latency mode | extends `BluetoothCodecs` | `BluetoothProvidersProofs` |
| `TouchStream` | abstract: a legal stream of touch events | - | |
| `ShoulderKeyFilter` | `ShoulderKeyInputFiltrer.java` | instance of `TouchStream` | `ShoulderKeyProofs` |
| `ShoulderKeySettings` | service, utilities, fragments and the table of mappings | - | `ShoulderKeyProofs` |
| `HidlStreams` | `Device`, `StreamOut`, `StreamIn` and their threads in `audio/hal` | - | `HidlStreamsProofs` |
| `MCGptUpdate`, `MCGptDisk`, `MCGptDevices`, `MCBluetoothProviders` | symmetry, disks and configurations for TLC | extend their modules | |

A definition whose name ends in an underscore and a word is the definition
beside it with a plausible bug; `PROJECT.json` lists them as mutants and the
specifications never use them.  `GptDevices` and `ShoulderKeySettings` have their
proofs in one module with `GptDisk` and `ShoulderKeyFilter`; so that the names do not
meet, their specifications are `DevicesSpec` and `SettingsSpec`.

### 2.1 GptUpdate

A disk `l` is five facts: what `gpt_get_state` finds in either header
(`primHdr`, `secHdr`), whether the primary entries match the CRC in their header
(`primArrOk`), which entries the secondary header's CRC was computed for
(`secCrc`) and which entries the secondary array holds (`secArr`).  Entries are
`normal` or `swapped` (`gpt_boot_chain_swap`); an array that was overwritten in
part is `torn` and matches no CRC.  The images of the two chains are `old`,
`new` or `torn`; the xbl image of each chain lies on a UFS boot LUN of its own
and is booted according to `bootLun`.

`pc` follows the code of `prepare_partitions`; each write is an action:

| `pc` | action | code |
|---|---|---|
| `loop` | `NextLun`, `Return` | the loop of `prepare_boot_update` and its result |
| `inspect` | `Inspect` | header states, unacceptable combinations, "already set", "unexpected stage" |
| `bootlun` | `SetBootLun` | `gpt_utils_set_xbl_boot_partition` |
| `chain_hdr`, `chain_arr`, `chain_end` | `SetChainHeader`, `SetChainArrayBegin`, `SetChainArrayEnd` | `gpt2_set_boot_chain`: header, then array |
| `primary`, `secondary` | `SetPrimary`, `SetSecondary` | `gpt_set_state` |

`blk_rw` calls `fsync` before it returns, so that writes reach the medium in
program order; the header is one sector and is written atomically, the array
takes many and may be torn.  Every system call may fail (`IoFault`, before or
after its effect) up to `MaxIoErrors` times; `Crash` strikes in any state up to
`MaxCrashes` times.  A disk may start with one damaged part, including the array
damage that `gpt_get_state` does not see.

A write of the array may also be cut short without anybody noticing: `blk_rw`
(`gpt-utils.cpp:155-172`) takes every result of `write` that is not negative for
success.  `SetChainArrayEnd` then goes on as if the array were whole, and `cut`
keeps the disks to which that happened.  If it was the stage `UPDATE_MAIN`, the
next step corrupts the primary signature and the disk has no usable GPT left
(`Lost`), until `UPDATE_BACKUP` repairs the primary header; after
`UPDATE_FINALIZE` the secondary GPT is not usable, though the stage returned 0.
The properties except exactly these disks: `Bootable` says that a disk which does
not boot is one that was lost in this way, `StagesDeliver` that only `UPDATE_MAIN`
loses disks, and `SafeUpdate` has the record that was cut short (`cut`, `lost`) in
the abstract specification.  A short read leaves the end of the buffer unfilled
and fails the CRC, which is `ReadError`.  A header is one sector and is written as
a whole or not at all.

The boot loader and the updater are not in this repository.  The boot loader
(`Selected`) uses the primary GPT if its header and array are good and the
secondary one otherwise, which is what the comments of `prepare_partitions` rely
on ("corrupt the primary GPT so that the backup ... is used").  The updater
(`CallPrepare`, `BeginWrite`, `EndWrite`) overwrites a chain only after the
stage that frees it returned 0, and does not ask for `UPDATE_BACKUP` or
`UPDATE_FINALIZE` while the chain it was writing is torn; stages come in any
order otherwise.

### 2.2 GptDisk

`disk` has the four parts a commit writes (two headers, two arrays), `handle` the
copies a caller holds and `op` where its call is.  A header carries the CRC of the
array it was computed for; an array of which a part was transferred is `Torn`.
`gpt_disk_get_disk_info` fills a handle part by part and may fail in the middle;
the part it was to read is `Missing` then.  On a handle that was filled before,
that leaves the magic set (`gpt-utils.cpp:1413-1418`): parts of the handle are
new, one is a null pointer, the others are old.  A commit of such a handle is
modelled as the code does it: the null part is refused and the commit ends there,
after what came before it was written; `gpt_disk_update_crc` and
`gpt_disk_get_pentry` follow the null pointer (`Die`). `gpt_disk_commit` writes
the primary pair before the secondary one, and a crash or an error may fall
between any two, after which handles are gone or keep what they have.
`OneGoodGpt` is claimed as long as the callers commit what they have sealed: a
handle whose entries were edited after `gpt_disk_update_crc`, or that was read
from a damaged GPT, writes what it was given, twice.  A handle that lost a part in
a second reading is no such exception (`Answerable` accepts it when its other GPT
is intact): committing it costs at most the primary GPT.

`blk_rw` may transfer less than it was asked for and report success, which line 155
does (only a negative result is an error).  A short write of the primary array is not
noticed and the commit goes on to overwrite the secondary GPT, so that from then on
`careful` is false and `OneGoodGpt` claims nothing.  `CommitAnswer` does: after a
commit that returned 0 each GPT is the one committed or is told by its own checksum
to be damaged, and without a short write (`op.whole`) the disk is the image.

### 2.3 GptDevices

Names are sequences of parts, so that one may begin with another; disks are
sequences of names.  Each turn of a loop is one action: resolving the partitions
of the swap list and adding their disks to the list of `MAX_LUNS` entries, finding
and swapping pairs in the entries array (`gpt_pentry_seek` compares the length of
the name it looks for), and building the partition map.

### 2.4 BluetoothSession

One session of a software type, all ports on it, and the stack as environment.
Session methods and the callbacks they make run under the session's recursive
mutex and are one action each; the client's test of `state_`, its assignment and
the call of the stack are separate actions, since no lock covers them.
`pc[p]` is where the client's operation on port `p` is; `mutex_` of the stream
admits one at a time.  The stack answers requests in order, may die and restart
(`now` counts its processes), may suspend on its own; `hosts` are the processes
whose provider still holds a `stack_iface_`.  A stack that runs a session ends
it before it starts it again (the code does not insist on that).  The death of a
stack is delivered any time later, before or after its successor starts a
session, the queue may fail to map and the cookies may run out.

`SessionTrue` excepts two situations by name: a session whose queue could not be
mapped (a later answer still starts a stream on it), and one that the late death
of the previous stack has ended under the new one (`regular`).

### 2.5 BluetoothPcm

One stream, output or input, whose client offers buffers of numbered samples.
`OutWritePcmData` and `InReadPcmData` poll the queue and take the session mutex
for one poll at a time; `mutex_` of the stream is free meanwhile, so that the
session may end or restart with another queue and the stack may answer between two polls
(`Poll`).  `moved` is the history of what went through which session's queue, `dropped`
what the stream was DISABLED for, or what a session took with it.

A second thread (`other`) suspends or stops the stream at the same time:
`out_standby` and `out_pause` come while `WriteData` runs with `mutex_` free
(`stream_apis.cc:527-529`), `out_set_parameters` by the device's thread likewise,
and `in_standby` while `in_read` sleeps between two looks at the state or reads
(`:901-903`, `:1083-1085`).  A wait for the stack's answer holds `mutex_`
(`Lock`); the loops of `in_state_transition_timeout` let go of it, so that
`in_read` may start a stream again that `in_standby` has just suspended
(`restarted`).  That second thread makes one call at a time, and the stream is not
closed under a call: closing deletes it.

`aligned` is the history of what the two counts of frames, the HAL's and the
stack's, have in common: neither was reset nor a buffer written in part since both
were 0. `frames_rendered_` and the times of the positions are left out.

### 2.6 BluetoothProviders and BluetoothCodecs

`BluetoothCodecs` has the tables of both generations as sets and the validations
and conversions as operators.  `BluetoothProviders` lets the providers of one
session type, chosen in `Init`, start, update and end sessions with accepted and
refused configurations; a binder call is one action, since the session mutex is
held throughout.

### 2.7 BluetoothHidl

A report to the observers is a sequence of callbacks under the session mutex
(`report`, `left`); registering with the session and filling
`legacy_callback_table` are two steps without a common lock.  The forwarding
callback looks its cookie up (`found`) and indexes the table again.  With
`aidl = FALSE` the HIDL session keeps the ports itself.

Ports are opened and closed on binder threads of their own, side by side: `SetUp`
and `TearDown` (`stream_apis.cc:698-827`) take no common lock.  A port that closes
gives its cookie back before it erases the entry of the table, so that another one
may be registered under the same cookie in between and lose the entry it inserts.
Such a port is `contested`: it may be told nothing until it is closed, and a
callback may find the closing port's entry and no longer have it when it indexes
the table again.  `operator[]` makes a null pointer then, whose call ends the
process (`CallNull`, `HidlToAidlMiddleware.cpp:512`, `:524`), and everything
begins anew.  No property claims anything for a contested port; each says that
none of this reaches another one.

The table is written under `legacy_callback_lock` and read without it.  Indexing
it and calling what it holds are one step, and every access sees a table that is
whole: what `find` does in the middle of another thread's insertion is undefined
and not modelled.  A report that comes while a port is being registered (before
`Assign`) may pass it by; a port is promised something from `Assign` on.

`SessionReports` is what both sessions promise, without cookies, tables and locks:
one report at a time, told once to every port that is a member, and no other way for
a stream to be STARTED.  In `BluetoothSession` the members are the registered ports
and a report is one step.  Behind the middleware a port is a member from the
assignment of its cookie to the end of its registration (`Members`), the ports still
to be told are those whose cookie is in `left` (`Due`), and what they are told is
what `to_hidl_status` makes of the answer (`Heard`).  A port that joins during a
report may or may not be told of it: the snapshot of the callbacks is by cookie.

### 2.8 ShoulderKeyFilter and ShoulderKeySettings

`touch` is `mTouchList`; `Insert`, `InsertIndex` and `Remove` are `insertTouch` and
`removeTouch`, `MotionEvent` and `Build` are `buildMotionEvent`.  Every action
handles one input event entirely, as `onInputEvent` does on the main looper.
Coordinates are left out; whether the keys are mapped at all changes between any
two events (`Remap`), because `loadCoordinateByTaskPackage` reads the database
on every key event.  The touch screen sends well-formed events of its own; keys
may repeat.  `ACTION_HOVER_EXIT`, which resets the list as `ACTION_CANCEL` does, is in
`Build`, but no event has it: fingers on a touch screen do not hover.

`ShoulderKeySettings` is where the mapping comes from: the rows of the table, the
copy in memory that the overlay and the list of apps edit, saving row by row with
a crash between any two, rotation, global mode, and the package the filter looks
up.  `loadCoordinateByTaskPackage` reads global mode from the database and writes
`mPackageName` without a lock (`ShoulderKeyUtils.java:212-216`), so that these are
two actions (`LoadCoordinate`, `OverwritePackage`): the switch of that mode, in
another process, and `onTaskStackChanged`, on another thread, may come in between.
If the mode was switched off meanwhile (`overtaken`), the filter keeps the mapping
of global mode until it is told of the next app, which `KeysFollowApp` excepts by
name.

`RowsFollowSwitch` speaks of the rows there are: a rotation that has no row, or
none of whose keys was moved from x = 0, is not mapped although the switch is on
(`getAppKeyInfo` and `getAllCoordinate` return null then).

### 2.9 HidlStreams

`obj[s]` is the stream object in slot `s`, `call[s]` where the binder call about it
is (`openOutputStreamCore`, `close`, the destructor), `thread[s]` where its
`WriteThread` or `ReadThread` is in `threadLoop`, `cb[s]` where the HAL's callback
thread is in `asyncCallback`.  `dir[s]` tells a `StreamOut` from a `StreamIn`; the two
classes differ in the bits they wait for and in `doWrite` and `doRead`, and where
they do not, the map names the lines of either.  `dev.version` decides, as
`MAJOR_VERSION` does, whether `close()` or the destructor closes the HAL stream:
the service registers versions 2 to 7.1 at once.

`mOpenedStreamsCount` is a plain `int` that binder threads change in parallel
(`Device.cpp:69`, `:185`): reading and writing it are two steps, and calls about
different streams and about the device overlap in any way.  (The test of
`LOG_ALWAYS_FATAL_IF` and the decrement behind it read the count once, as the
compiler may make of them.)  Two histories keep apart what comes of it:

- `lost`: one call has written the count back over another's change.  From then on
  the count is wrong; the device may be closed under a stream or never, and
  `closeOutputStream` may find it 0, which ends the process (`Abort`), and
  everything begins anew.  `CountExact` and `DeviceOutlivesStreams` are claimed
  until then: however calls overlap, nothing but a lost update makes the count
  wrong.
- `overtaken`: streams that the HAL had opened but `openOutputStreamCore` had not
  yet counted when `doClose` found the count 0 and closed the device.  They are
  open on a closed device.

A client closes a stream, lets go of it or dies at any moment, also with a command
under way (`Abandoned`).  Up to version 5 that does no harm.  From version 6 on
`close()` closes the HAL stream under a worker that may be in `write()` on it
(`StreamOut.cpp:326-328`): the code leaves it to the client to wait for the answer
first. `HalStreamAlive` excepts that worker and nobody else.  No line of the
repository promises more, so that this is no finding.

The HAL and the client's end of the queues are external.  The HAL's close waits
for the callback thread, as the comments of `~StreamOut` and `asyncCallback` say;
a client has one command outstanding, does not use a stream it has closed, makes
one call about a stream at a time ("only this thread writes") and opens nothing on
a device that it has closed.  `GET_LATENCY` takes the way of the position
commands.  Calls that pass through to the HAL and change nothing here are left
out, and so are MMAP streams and the event and latency-mode callbacks.

## 3. Runs

| Run | Instance | Shows |
|---|---|---|
| `gpt_safety` | 2 LUNs with backups, xbl, 2 crashes, 2 I/O errors, any number of short writes | never unbootable but for a short write of the array (`Bootable`), success means prepared (`StagesDeliver`), backup xbl safe (`XblBackupSafe`), implements `SafeUpdate` |
| `gpt_resume` | 3 crashes, no I/O error | a restarting caller completes (`Completes`) and everything is new then (`DoneMeansUpdated`) |
| `gpt_already_set` | 1 crash | **violation** of `ReadyForUpdate`: "ready for update" with the wrong boot LUN |
| `gpt_disk` | 2 handles, 2 contents, any number of errors, short transfers and power losses, handles filled again | `OneGoodGpt`, a commit that returned 0 is complete (`CommitAnswer`) |
| `gpt_devices` | 2 disks in many layouts, names that do not resolve | every disk that is needed and no other (`LookupExact`), the secondary GPT names the twins (`SecondaryAsAsked`), swapping loses no entry (`NothingLost`) |
| `bt_order` | 2 ports, 2 cookies, 1 death, 2 requests under way | `ObserversSound`, `SessionTrue`, `OperationsReturn` |
| `bt_pcm` | a second thread, buffers of 1 and 2 queues, 2 polls, 2 sessions, 4 samples | `InOrder`, `SplitOnlyIfDisabled`, a restart of the stack's count is told from its delay (`ResetsToldApart`), `SuspendNotLost`, `OperationsReturn` |
| `bt_providers` | 2 providers of each session type, some 300 configurations | `SessionSound`, `ConfigAccepted`, the HIDL side makes the same of a configuration (`LegacyAgrees`), the queue holds an interval of it (`IntervalFits`) |
| `bt_hidl` | 2 legacy ports opened and closed side by side, 2 cookies | `CallbacksReachLive`, `PortsTold`, `OperationsReturn`; the session behind the middleware implements `SessionReports` (`EachPortToldOnce`) |
| `keys_stream` | 3 fingers, 2 keys, 6 slots, repeats, remapping, cancels | `TouchesTrue`, `PointerIdsStable`; undisturbed it implements `TouchStream` |
| `keys_settings` | the settings, one game, one place and (0,0) | `NothingUnsaved`, `RowsFollowSwitch`, `KeysFollowApp` |
| `hidl_streams` | 2 slots, one served, versions 5 and 7, clients that close at any moment | `NothingDangles`, `CountExact`, `AnswerMatchesData`, `DestructorEnds`, `Answered` |

**Bounds.** Two disks are the smallest number for which one can fail and the other
not, and disks do not interact but through the boot LUN, the result and the
caller's guards.  Two crashes cover a crash in the recovery from a crash;
`gpt_resume` allows three.  Two handles let one overwrite what the other read, two
contents tell them apart.  `gpt_devices` keeps `MAX_LUNS` just above the length of
the list, as the code does with 26; its swap list has a skipped name twice, as
that of the code has, and a pair of names of which one begins like the other; its
layouts have twins before and after their partition and on another disk.  Two
ports are what a broadcast needs to reach the wrong one; the session starts with
any number of its cookies taken, so that a port may find none; one death is enough
for an old and a new provider to overlap.  In `bt_pcm` a buffer needs one or two
queues, so that a write is split, and two sessions are what it can be split over;
four samples are one buffer that is split or two that are not, so that one may be
moved before and one after a restart.  Three fingers and two keys leave a gap
below, between and above any touch; six slots leave one that stays free.  The
table of the code has sixteen, and no more than twelve are ever used: the
insertion's failure is out of reach, which `FilterAssumption` states. The threads
of two streams share nothing but the count and the device, so one served stream
and one that is only opened and closed are enough (`Served`).  The count may be
too high after a lost update, and grow with every further one: `MaxCount` opens no
stream with the count as high as the number of slots.  A data queue of one frame
is empty or full, and requests of none, one and two frames fit, are truncated or
find no room.  Versions 5 and 7 stand for the two sides of the only version test
that the streams' life depends on.

**Fairness.** The run of `GptUpdateScript` assumes `WF(Run)`: the caller and the
thread that runs `prepare_boot_update` keep running; every crash is bounded.
`WF(Proceed(p))` in `BluetoothSession`: a thread that is inside an operation goes
on, including the time-out of `CondwaitState`, which the wait guarantees.  In
`BluetoothPcm` `SF(Proceed)` and `SF(OtherProceeds)`: the same of both threads of
a stream and of the bounded polling, and that a thread which waits for `mutex_`
gets it when it is free again and again. In `BluetoothHidl` the callbacks of a
report go on (`WF(Reporting)`), and a client's thread that waits for the session
mutex gets it in the end (`SF(Proceed(p))`), which `std::mutex` does not promise
but every holder's finite critical section makes true in practice.  Nothing is
assumed of the stack, of the remote device or of the client's wish to start an
operation.  In `HidlStreams` the binder calls, the worker and the callback of a
served stream that have begun go on and HAL calls return; the client owes nothing,
and a spurious return of the worker's wait is never relied on.  `DestructorEnds`
and `Answered` are claimed of served streams.  Deadlock is checked everywhere but
in `gpt_resume`, where the script stops when it is done, and in `bt_pcm`, where a
client that has offered `MaxSamples` samples and closed stops.

**I/O errors and the resuming caller.** `DoneMeansUpdated` is claimed without
I/O errors: with one, the script passes over a stage that failed on one disk
only, and that disk's chain is not rewritten.  The code reports the error; what
to do about it is the caller's business.

## 4. Finding and observations

Finding (`gpt_already_set`): `UPDATE_BACKUP` sets boot LUN A before it repairs the
primary header.  After a crash in between, `UPDATE_MAIN` concludes from the header
that its stage is "already set - ready for update" and returns 0 while LUN A, whose
xbl the caller is about to overwrite, is the one that boots.

Observations made while modelling, where a constant or an exception of a
property keeps them apart:

- A secondary array that was cut short and taken for written
  (`gpt-utils.cpp:155-172`, called at `:390`) is followed by the corruption of the
  primary signature (`:826`): no GPT of the disk is usable, and `UPDATE_MAIN`
  returns 0 (`Lost`).  Nothing reads the array back.
- A second `gpt_disk_get_disk_info` on a handle that fails leaves the magic set
  (`gpt-utils.cpp:1413-1418`): `gpt_disk_update_crc` and `gpt_disk_get_pentry`
  then follow a null pointer, and a commit writes parts of two readings until it
  comes to the missing one.
- A listed disk without backup partitions lets `UPDATE_MAIN` succeed but
  `UPDATE_BACKUP` fail ("unexpected stage") for ever, so that such an update cannot
  be finalised.  `gpt_boot_chain_swap` without a backup partition returns 0
  (`gpt-utils.cpp:821`), an empty list of disks makes every stage return 0
  (`:1008`).
- The late death of an old stack ends the session the new one has started
  (`BluetoothAudioProvider.cpp:154`), although `BluetoothAudioSession.h:113` reads
  as if a provider only ended its own.  `SessionTrue` excepts it (`regular`).
- Answers are broadcast: a start answer for one stream reaches a STARTED one, where
  `device_port_proxy.cc:249` says that only a suspend can come.  A queue that could
  not be mapped leaves a stream that a late answer can still start.
- After a failed `StartStream` or a time-out the port stays STARTING or SUSPENDING
  (`device_port_proxy.cc:453`); `out_resume` and `out_standby` answer `-EBUSY` until the
  session changes or the stream is closed.
- `GetPresentationPosition` of the AIDL session returns false on every path
  (`BluetoothAudioSession.cpp:444`).  `out_get_render_position` reads the counter
  without `mutex_`.  `out_write` counts the frames of the whole buffer when only a
  part was written (`stream_apis.cc:540`), though `stream_apis.h:69` says
  "written"; from then on, and when stereo becomes mono, the stack's count may be
  taken for that of a restarted output although nothing was restarted (`:118`;
  `aligned` and `mono` in `ResetsToldApart`).  Writes go on into the queue after
  `closing`.
- `in_standby` lets go of `mutex_` while it waits for the state to settle
  (`stream_apis.cc:901-903`): an `in_read` in between starts the stream again, and
  `in_standby` returns although it is STARTED (`restarted` in `SuspendNotLost`).
- A LE audio queue does not hold two intervals of 7.5 ms, though the comment says
  "two frame buffer": `dataIntervalUs` is cut to milliseconds first.
- `to_hidl_leaudio_config_2_1` tests the tag the wrong way round
  (`HidlToAidlMiddleware.cpp:418`): a LE audio configuration that holds one aborts the
  process.
- A legacy port that is opened while another one closes may get the other's cookie
  before its entry of `legacy_callback_table` is erased, and lose its own entry to
  that: it is told nothing, or the process ends on a null callback
  (`HidlToAidlMiddleware.cpp:512`, `:524`; `contested`).  HIDL `GetAudioConfig`
  writes `audio_config_` without the lock.
- A key that repeats sends a second POINTER_DOWN for its pointer
  (`ShoulderKeyInputFiltrer.java`); `TouchStreamSpec` is claimed for undisturbed keys.
- The keys of an app that was just enabled map to (0,0) until they are placed.  A
  process that dies between the two rows of an app leaves its rotations with
  different switches (`torn` in `RowsFollowSwitch`).
- An event of a key that has read global mode writes `mPackageName` after the mode
  was switched off or the next app was told (`ShoulderKeyUtils.java:213-214`): the
  keys keep the global mapping until another app comes to the screen (`overtaken`
  in `KeysFollowApp`).
- `mOpenedStreamsCount` (`Device.cpp:69`, `:185`) is changed by several binder
  threads without a lock.  When it loses an update, the device may be closed under
  a stream or never, or a later `closeOutputStream` fails its assertion and aborts
  the process that also serves Bluetooth audio (`lost`).  Without any lost update,
  closing the device overtakes an open stream that is not yet counted
  (`overtaken`).
- From version 6 on `close()` closes the HAL stream under a worker that may be
  inside `write()` on it (`StreamOut.cpp:326-328`), when a client closes or dies
  with a command under way.
- `MAX_BUFFER_SIZE` (`Stream.h:63`) is `2 << 30`, twice the 1 GiB of its comment.

## 5. Proofs

Each proof module extends the module or the two modules it is about, names an
inductive strengthening, proves that every step preserves it with one step per
action, and draws the theorems from it.  A theorem assumes what the `ASSUME`s of its
module say of the constants and, where the table says so, the value of one constant.
No theorem assumes that calls do not overlap.

Most `ASSUME`s only say that a bound is a number, that values which stand for
nothing are none of the others (`NoPort`, `NoTarget`, `Torn`, `Settings`), or that the
disks and the fingers are not empty.  Those that say more:

- `DeviceAssumption` and `SwapListAssumption`: a partition name is a link in
  `by-name`, so that it stands for one entry of one disk; `PTN_SWAP_LIST` fits
  into the list of disks (21 names, `MAX_LUNS` 26), has no name beside that name's
  backup, and has a name twice only where the swap skips it (`"multiimgoem"`,
  `gpt-utils.h:85`).
- `PcmAssumption`: what a client offers is a whole number of frames, as
  `out_get_buffer_size` and `in_get_buffer_size` make it.
- `ConfigsAssumption`: a configuration has a tag, and the interval of a PCM one is
  not negative.  The field is signed and the AIDL table takes any value
  (`BluetoothAudioCodecs.cpp:402`); what a stack that sends a negative one gets, a
  negative size converted to `uint32_t`, is not modelled.
- `FilterAssumption`: at most ten fingers, and a slot for each finger and key.
- `StreamsAssumption`: there are finitely many streams, so that they can be counted.

| Theorem | States | Assumes |
|---|---|---|
| `GptUpdateProofs`: `TypeCorrect`, `Inductive` | `[]TypeOK`, `[]IInv` | - |
| `AlwaysBootable`, `SuccessMeansPrepared`, `BackupXblSafe` | `[]Bootable`, `[]StagesDeliver`, `[]XblBackupSafe` | - |
| `ImplementsSafeUpdate` | `Spec => SafeUpdateSpec` | - |
| `ResumeUpdates` | `[]DoneMeansUpdated` of the script | `MaxIoErrors = 0` |
| `HeadsForTheEnd` | `ScriptSpec => NeverBack` | `MaxIoErrors = 0`, `HasBackup = Luns` |
| `GptDiskProofs`: `GoodGptSurvives`, `CommitIsComplete` | `[]OneGoodGpt`, `[]CommitAnswer` | - |
| `NoPartitionLost`, `SecondaryFollows` | `[]NothingLost`, `[]SecondaryAsAsked` | - |
| `LookupIsExact` | `[]LookupExact` | - |
| `BluetoothSessionProofs`: `PortsObserved`, `SessionIsTrue` | `[]ObserversSound`, `[]SessionTrue` | - |
| `ImplementsReports` | `Spec => EachPortTold` | - |
| `BluetoothPcmProofs`: `SamplesInOrder`, `SplitsAreSilent`, `ResetsAreTold` | `[]InOrder`, `[]SplitOnlyIfDisabled`, `[]ResetsToldApart` | - |
| `SuspendsKept` | `SuspendNotLost` | - |
| `BluetoothHidlProofs`: `CallbacksLive`, `LegacyPortsTold` | `[]CallbacksReachLive`, `[]PortsTold` | - |
| `ImplementsReports` | `Spec => EachPortToldOnce` | - |
| `BluetoothProvidersProofs`: `AcceptedConfigs`, `SoundSessions` | `[]ConfigAccepted`, `[]SessionSound` | - |
| `GenerationsAgree`, `IntervalsFit` | `[]LegacyAgrees`, `[]IntervalFits` | - |
| `ShoulderKeyProofs`: `ListIsTrue`, `PointersKeepIds` | `[]TouchesTrue`, `PointerIdsStable` | - |
| `SendsTouchStream` | `Spec => TouchStreamSpec` | - |
| `EditsAreSaved`, `FilterFollowsApp`, `RowsAgree` | `[]NothingUnsaved`, `[]KeysFollowApp`, `[]RowsFollowSwitch` | - |
| `HidlStreamsProofs`: `AnswersAreTrue` | `[]AnswerMatchesData` | - |
| `WakeUpsArrive` | `[]NoLostWakeUp` | - |
| `CountIsExact`, `NothingIsUsedAfter` | `[]CountExact`, `[]NothingDangles` | - |

Why the properties need more than themselves:

- **GptUpdate.** That a torn image is harmless depends on which header hides it,
  which depends on what earlier stages did.  `IInv` says so in parts: `GptPair` (a
  corrupted signature leaves the other GPT usable unless its array was cut short,
  and swapped entries are only booted when the primary signature was corrupted on
  purpose), `TornHidden` (a torn image lies on the hidden chain), `Progress`
  (disks the loop has left are prepared unless an error was recorded), `Control`
  and `AtDisk` (what the program knows at each point), `BootLunInv`.  The proofs
  hold for every `HasBackup \subseteq Luns`, the run has backups everywhere.  The
  refinement maps each action to `Record`, `Switch`, `Overwrite` or a stutter; a
  lost disk counts as turned to the copy whose record was cut short.
- **GptUpdateScript.** `DoneMeansUpdated` speaks of the end of a loop of three
  stages with restarts from the first.  `ScriptInv` is `IInv` and six parts more:
  without I/O errors no primary array is damaged (`Undamaged`); the main chain is
  new as soon as the script is past `UPDATE_MAIN`, or that stage has failed
  because a disk was ahead (`MainFirst`); a failing `UPDATE_BACKUP` has found a
  disk both of whose headers are good (`Skipped`); therefore `UPDATE_FINALIZE`,
  which such a disk makes fail too, can only return 0 with the backup chain new
  (`BakThen`).  `Written` is the loop over the images.  `NeverBack` says that
  every step but a power loss lowers what is left (stages, modes, disks, the place
  in `prepare_partitions`, images, in this order).  It needs `Staged`: whether a
  stage succeeded, failed or was passed over on a disk, it leaves the disk as the
  next stage accepts it, so that `UPDATE_BACKUP` and `UPDATE_FINALIZE` never fail.
  A listed disk without backups breaks that (section 4), hence the assumption.
- **GptDisk.** `Safe` says which GPT is whole at each point of a commit: the
  secondary one while the primary pair is written, the primary one after it, and that a
  GPT of the handle which lacks a part never gets past the commit's refusal.
  `Progress` says what is on the disk already, but for what a short write left out
  (`Arrived`).
- **GptDevices.** An array is always a permutation of the primary one that moves
  only listed names (`Rearranged`).  `SwappedBelow` says what the array in hand
  looks like at each index of the swap list; that the next swap disturbs no
  earlier one rests on the pairs being disjoint, which `SwapListAssumption` gives,
  since `Bak` is injective.  `Listed` is the set of disks of the names seen so
  far; that each is there once bounds the list, so that the loop never runs into
  `MAX_LUNS`.  A disk without pairs is not written, and then its second array need
  not be touched (`AsAsked`).
- **BluetoothSession.** `Unregistered`: a port that is not registered has no cookie,
  so that the one it gets is its only one.  `Reachable`: a port that no callback
  reaches is not STARTED, so that the end of a session stops all streams.
  `Streaming`: a stack that streams hosts the session, so that the suspend it
  reports, which starts a STARTING port, finds the session ready.
- **BluetoothPcm.** `InOrder` speaks of what was moved; the invariant relates it
  to the sample that would be moved next.  `Upcoming` is that sample, `Expected`
  the one that would leave no gap, and every number between them was dropped
  (`Gapless`).  An input queue holds the last samples of its source (`InQueue`).
  `ClientSound` says what the client's thread has left to move at each point,
  `OtherSound` what the second thread can find at each of its own.  `Counted` is
  why the counts tell a reset from a delay: the HAL has counted no more than what
  the stack took and what is in its queue, of which a latency is the bound.
- **BluetoothHidl.** The session's observers have the entries that the ports'
  places say (`Observed`), and an entry of the middleware's table belongs to a
  port that has not yet erased it (`Entered`); the entry of a port that is not
  contested is there (`Kept`).  `Clash` is why: who is registered under the cookie
  of a port that has still to erase its entry is contested.  A report in progress
  only holds cookies still registered, and what it found in the table is gone only
  for a contested one (`ReportSound`); a stream outlives its session only until
  the report reaches it (`StreamSound`).  The refinement of `SessionReports` needs
  that a cookie in `left` names one member: then a callback serves the port that
  is due, or a cookie that is not registered any more and nobody.
- **BluetoothProviders.** `StackHosted`: the provider whose stack a session calls
  still hosts that stack, even while the session is not ready.  `QueueSized`: the
  queue was made for the configuration the session has now.  The other half of these
  theorems is about the tables: an accepted configuration has one bit of each field, for
  which the conversion and the legacy table of the same codec agree.
- **ShoulderKeyFilter.** A touch sits in one slot and every slot in use holds the
  touch of one finger or key; that the insertion always finds a slot is a
  pigeonhole argument over the fingers and the keys.
- **ShoulderKeySettings.** Two are inductive as they stand: what is edited and not
  saved belongs to a window that is open, and `mPackageName` differs from the app
  on screen only in global mode, on the settings' screen, before the filter is
  told, or once it was overtaken. `RowsFollowSwitch` needs that the rows of an app say the same, and that both are
  there once it is switched off, in the list and in the table (`Agreeing`), and that saving never leaves a row behind that the list has
  dropped (`Covered`).
- **HidlStreams.** `OneCommand`: a command is in the queue, with the worker or
  answered.  `Phases` and `Workers` say what each step of a call means for the
  object, the HAL's stream and the threads, on either side of version 6; `Counted`
  is the set the count counts while calls change it, as long as none has
  overwritten what another did (`Counts`), and `DeviceLast` what the device's end
  means for the streams. That a worker finds its HAL stream closed only with a
  command its client left behind follows from `OneCommand`.  `NoLostWakeUp` rests
  on `Standing` (the queues exist while a worker or a client uses them, and a
  prepared stream has a worker until it is stopped) and on `Sent` (a client that
  has written its command but not yet set the bit may have been served already, by
  a worker that was still awake).  `CountExact` includes the `LOG_ALWAYS_FATAL_IF`
  of `closeOutputStream`: no call gets there with a count of 0 before an update
  was lost.

Only model-checked:

- Liveness: `Completes`, `OperationsReturn` of three modules, `DestructorEnds`,
  `Answered`.  They rest on fairness, which is out of the prover's reach.  The part of
  the last two that is safety is proved: `NoLostWakeUp` says at every moment that who
  waits will be woken.  Of `Completes`, `NeverBack` is proved: what remains for TLC is
  that the script is not stuck before it is done, and that it keeps running.
- `ReadyForUpdate`, which the code violates.

## 6. Not modelled

- `set_boot_lun` (`recovery-ufs-bsg.cpp`).  The file has three implementations.
  The one with state, over the bsg node (45-204), needs
  `_BSG_FRAMEWORK_KERNEL_HEADERS`, which no build file here defines; what is built
  (206-253) is a query handed to the SCSI generic device.  `GptUpdate` models the
  call by its outcome: the boot LUN is switched or the call fails.
- Byte layout of GPTs, UPIUs and parcels; track metadata; volumes, effects, routing,
  microphones, MMAP streams: passed through without state.
- `doze`: two booleans per sensor, set by the screen.  That a listener registered
  twice is released once (`DozeService.java:67`) is a hazard on paper, without a
  second actor.
- Display tiles, DTS audio, boot receiver, utilities: preferences written through to
  sysfs nodes and properties.
- Power HAL: hints handed to the vendor's library; `power-common.c:96` trusts the length
  of a list from a configuration.
- `libinit`, boot scripts, overlays, policy, configuration: no state at run time.

Left of the plan: an abstract specification of the swap of a disk's entries that
`GptDevices` implements; `NothingLost` and `SecondaryAsAsked` state what it would.
