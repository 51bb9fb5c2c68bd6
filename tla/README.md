# TLA+ models of the OKMX6ULL-S Yocto port

This directory models and verifies the logic that `meta-okmx6ull` adds to a
Forlinx OKMX6ULL-S board: the A/B over-the-air update implemented by the U-Boot
script `boot.cmd`, the supervision and rollback of the OTA application by two
systemd units, the ONOFF button command added to U-Boot, and the concurrent core of
the Wi-Fi driver that the layer carries: its command thread, its USB receive path,
its receive reordering and its scans. TLC checks small instances; TLAPS proves the
main safety properties for every value of the constants.

All paths below are relative to `imx-yocto-imx6ull/meta-okmx6ull/`; those of the
driver (`core/`, `hal/`, `os_dep/`, `include/`) to
`recipes-kernel/rtl8723du/files/rtl8723DU/` in it.

## 1. Inventory

| Component | Where | State it keeps | Operations |
|---|---|---|---|
| OTA boot script | `recipes-bsp/ota-boot-script/files/boot.cmd` | the U-Boot environment: slots, rollback slots, `upgrade_available`, `ota_try`, `ota_env_ready` | defaults, installation of `altbootcmd`, counting, giving up, slot selection, loading, `bootz`, three rollbacks |
| U-Boot configuration | `recipes-bsp/u-boot/files/okmx6ull_s_emmc_defconfig` | `bootcount`, one copy of the environment on eMMC | boot count, `bootlimit`, `CONFIG_BOOTCOMMAND` |
| OTA application | another repository, built by `recipes-apps/hnn-okm6ull-ota/` | its own progress, and the environment through `fw_setenv` | writes images, stages, confirms |
| App supervision | `recipes-apps/hnn-okm6ull-ota/files/*.service` | unit state, start counter, `/usr/bin/mqtt_led_app`, its backup, the files of `/var/lib/ota` | restart, start limit, `OnFailure=`, rollback command, `reset-failed`, `start` |
| ONOFF button | `recipes-bsp/u-boot/files/command_button_jump_kernel.c` and the 10-second patch | `start`, `pressing`, the SNVS button timer | polling, acceptance, Ctrl-C, hardware power-off |
| LED command | `recipes-bsp/u-boot/files/command_blink_led.c` | none that outlives the call | a bounded blink loop |
| Driver: command thread | `core/rtw_cmd.c`, `core/rtw_xmit.c` (submit contexts), `os_dep/linux/os_intfs.c` | `cmd_queue`, its semaphore, `cmdthd_running`, `sctx_mutex`, the contexts on the callers' stacks | enqueue, wait with timeout, execute, answer, stop, drain, open, close |
| Driver: USB receive path | `os_dep/linux/usb_ops_linux.c`, `hal/hal_hci/hal_usb.c`, `hal/rtl8723d/usb/usb_halinit.c` | buffers with their URBs and skbs, four queues, `continual_io_error`, the stop flags | submit, complete, tasklet, start, stop, IPS, suspend, resume |
| Driver: receive reordering | `core/rtw_recv.c` (3273-3640), `core/rtw_mlme_ext.c`, `core/rtw_wlan_util.c`, `core/rtw_sta_mgt.c` | window start, sorted queue, timer, `bReorderWaiting` | frame, BAR, ADDBA, DELBA, timeout, release of the station |
| Driver: scans | `core/rtw_mlme.c`, `core/rtw_mlme_ext.c`, `core/rtw_cmd.c`, `os_dep/linux/ioctl_cfg80211.c` | `scan_request`, `_FW_UNDER_SURVEY`, `scan_abort`, `sitesurvey_res`, two timers | request, survey, end, timeout, abort, close, suspend, resume |
| Driver: the rest | about 400 000 vendored lines: joining, transmission, AP mode, power saving, Bluetooth coexistence, the hardware | | section 5 |
| Configuration | device tree, kernel fragments, `wic`, network files, banner | data | none |

How they interact. U-Boot loads the environment at every reset, counts, and runs
`boot.cmd` or `altbootcmd`. The script starts a kernel and passes the slots on the
command line; the OTA application reads them there, writes new images into the
slots that are not running and changes the environment with `fw_setenv`. The two
sides share nothing but that environment, of which eMMC holds a single copy, and
a power cut may come between any two writes. Inside Linux, systemd restarts the
application and starts the rollback unit when the start limit is hit; the two
units and the application share the files in `/usr/bin` and `/var/lib/ota`.

The driver is a different world: callers in process context, a command thread,
tasklets, timers and URB completions meet in shared queues and flags. The command
thread executes what the others may not do themselves: the survey of a scan, the
answer to an ADDBA, IPS. The receive path fills the reordering queues. All parts
look at the same flags `bDriverStopped` and `bSurpriseRemoved` (`RTW_CANNOT_RUN`) to
know that the device is going, and opening, closing, suspending and pulling it out
happen while they run.

What is hard in the update is therefore not parallelism inside one program but
**crashes between writes**, **protocols across reboots** (flag, counters, slots and
rollback slots are written at different times by different programs),
**two counters racing for the same rollback**, **limits** and **liveness through
reset loops**. What is hard in the driver is **who owns a command, an skb or a
request** when a timeout meets a late answer, **flags cleared in one place and acted
upon in another**, **timers cancelled outside the lock that armed them**, **wake-ups
and tasklets that must not be lost across a stop and a start**, and **arithmetic
modulo 4096**. `PROJECT.json` lists each hazard at its line with the properties
that cover it, or why none does.

What makes each component correct:

* boot script: an image nobody confirmed runs on trial only; a trial is limited;
  a rollback restores exactly what was there; a fresh update is not charged for an
  older one; the board always comes back to a running Linux; a quiet boot does not
  write eMMC.
* supervision: what is on the disk when the flag is down has proved itself; a
  rollback is durable before the application runs again; the file is not replaced
  under a running unit; a confirmed application is never taken back; a crashing
  one is always replaced.
* button: a short press is never accepted, and a long one is accepted before the
  hardware cuts the power;
* command thread: every command is executed or dropped once and freed once; an answer
  goes to a caller that still waits; no wake-up is lost; a stop ends;
* receive path: an skb is in one place; a buffer is never forgotten; a packet in the
  queue has a tasklet;
* reordering: what goes up is in order, nothing twice, nothing waits for ever;
* scans: every accepted request is answered, none survives the interface, and the
  flag that refuses further scans always falls again.

## 2. Modules

| Module | Role |
|---|---|
| `AbUpdate` | abstract specification of an update: begin, switch, try at most `MaxTries` times, confirm or give up |
| `AbUpdateProofs` | its safety, for any set of pairs |
| `OtaBoot` | `boot.cmd` with U-Boot's boot count in front and Linux with the application behind, with power cuts |
| `OtaBootInv` | the inductive invariant of `OtaBoot` and its named parts |
| `OtaBootProofs` | type correctness, the safety and the action properties of `OtaBoot`; that it implements `AbUpdate` |
| `MCOtaBoot` | definitions of constants for TLC |
| `OtaAppRollback` | the two systemd units, the application's own installation and the file system |
| `OtaAppRollbackProofs` | its inductive invariant and five theorems |
| `MCOtaAppRollback` | definitions of constants for TLC |
| `PowerKey` | `waitpwrkey` against the button and the hardware power-off |
| `PowerKeyProofs` | its inductive invariant and both properties |
| `CmdThread` | the driver's command queue: callers, thread, timeouts, opening and closing |
| `CmdThreadProofs` | its inductive invariant and five theorems |
| `UsbRecv` | receive buffers, URB completions, the tasklet, stop and start, with its inductive invariant |
| `UsbRecvProofs` | that the invariant is one, and five theorems |
| `RecvReorder` | the reordering of one peer and TID with its timer, the command thread and the release, with two inductive invariants |
| `RecvReorderProofs` | its types; frames that wait have a timer; a released station is quiet; what `SN_LESS` and the loops over the queue compute, and that frames go up in order |
| `SiteSurvey` | a scan from the request to its answer, with everything that may end it |
| `SiteSurveyProofs` | its types, that no request survives the interface, and that the scan flag ends |

### OtaBoot

`pc` names the section of the script (`defaults` = lines 11-42, `install` = 51-90,
`count` = 96-148, `select` = 159-174, `kernel` = 184-189, `dtb` = 192-197, `bootz` =
214-222) or one of `off`, `bootcount`, `autoboot` (U-Boot before the script), `save`
(inside `saveenv`; `ret` says where it returns) and `linux`. `env` is the environment
in RAM and `disk` the copy on eMMC. The script is sequential, so a step is the code
between two points where a power cut makes a difference: every `saveenv` is a
step of its own, and a cut inside it leaves the old copy or the new one.

Each action is one block of the script; `ScriptRollback`, shared by lines 106-141 and
the command `ota_rollback` of line 203, and `AltRollback`, the body of `altbootcmd`, are
operators on environments. They differ in their last resort (slot A against the
other slot), as the code does. While Linux runs, `env` stands for the booted
command line: `env.kernel_slot` is `ota.kernel_slot`.

Abstractions. Slot values are A, B, empty, or one value for anything else. A kernel
file is `ok`, `panics` (starts, then panics), `garbled` (`bootz` refuses it) or
`missing`; a root file system boots or does not. `Init` has both slots in order, as the
image ships them (`build-fb/conf/local.conf` lists zImage, zImage_A and zImage_B). `setexpr` adds in hexadecimal and
`test` reads decimal digits, so from ten on `MayRetry` and `MayGiveUp` overlap.
`bootcount` counts and saves when an upgrade is pending, or does nothing at all: the
script's comment says that it does not count as wanted on this board (lines 39 and
93), so both are allowed. Start-up from a defective or old environment is covered by
`InitialEnvs`: the empty environment of a fresh board, or one that has only the
legacy variables, with any value of `boot_slot`.

The parts outside the repository are external in the map: `Bootcount`,
`LimitExceeded` and `PowerOn` are U-Boot; the `App*` actions are the weakest use of
the environment that the comments of the script describe. The application writes
images into slots that are not running, saves the rollback slots (one variable
per component, or the legacy variable when the others are empty), raises
`upgrade_available`, and only then switches the slots; it may be restarted between any
two of these, and it may confirm an update when it sees the pending slots on the
command line, or never. `AppResets` says whether it also zeroes both counters.

History variables: `confirmed` (the slots the application last saw working),
`attempts` (resets since the flag was raised), `trials` (kernels started since then),
`wiped` (a torn save destroyed the environment).

### OtaAppRollback

`mem` is the file system the programs see and `disk` what a power cut leaves. ext4
commits in order, so `Commit` copies everything at any moment and `PowerCut` throws the
rest away. `unit` and `starts` are systemd's view of `hnn-okm6ull-ota.service`; `svc` is
the next step of `ota-app-rollback.service`. Its shell command is split at every
write: `cp` truncates and then fills, `echo 0 >` truncates and then writes. `Start`
takes or refuses a start; the refusal is what `StartLimitBurst` and `OnFailure=` mean.
`RollbackCheck` has the three exits of the shell command; the one that ends with
status 1 stops the unit before `reset-failed`, as a oneshot unit with three `ExecStart`
lines does; so does any command of the `&&` chain that fails (`CommandFails`; `sync`
reports no failure). The `App*` actions are the application's own installation: backup,
announce (flag 1), overwrite, exit; and its confirmation.

### PowerKey

One action per step of the loop body, with time passing between any two of them.
`pressed`, `pressing` and `start` are the C variables; `GetTimer` is the unsigned
difference of a counter that wraps at `TimerMod`. `Toggle` is the finger and may act
between any two steps; `Tick` also runs the hardware timer of the ten-second patch.

### CmdThread

A command stands for one call of a `*_cmd` function and for that call's stack frame.
`pc` is where the call is: `filter` and `insert` are the two halves of
`rtw_enqueue_cmd` between which the thread may stop, `up` the semaphore, `wait` and
`clear` the end of `rtw_createbss_cmd`-like callers, that take `sctx_mutex` to see
whether they were answered (the functions with a submit context all have this form).
`status` is `sctx.status` in the frame, `ptr` whether `cmd_obj->sctx` still points
there. `th` follows `rtw_cmd_thread` from one blocking or shared step to the next.
`Open`, `StartThread`, `SetStopped`, `StopThread` and `Stopped` are `_netdev_open` and
`rtw_dev_unload`; `IpsPower` and `SurpriseRemoved` change what the filter sees in between.
A handler that runs is reduced to its result.

### UsbRecv

The state is the pool of buffers with the queues between them. `ReadPort` is
`usb_read_port`, written as a relation between two pools because the completion
handler, the tasklet and the start all call it in the middle of their own steps; a
pool without an outcome does not exist, one with several means that memory or the
submission may fail. One completion, and one turn of the tasklet's loop, is a step:
the host controller of the board gives completions back one at a time, and the two
share only queues that are locked per operation. `CompletesRetry`, `CompletesFatal` and
`CompletesOther` are the `switch` on `urb->status`. `Unload` and `IpsDown` are the two ways
to stop, which set different flags. `rx_pending_cnt` is only printed and left out.
`removed' = (ioErr' > MaxIoErr)` in `CompletesRetry` is what the buffer's next
`usb_read_port` sees.

`lost` and `leftover` are history: the first names buffers that the code leaves alone
after an error, the second what a start finds that the stop before left behind.

### RecvReorder

A frame is a number that grows for ever, and the code sees it modulo `Modulus`: so
that a comparison that takes a new frame for an old one is visible. `rx` follows
`recv_indicatepkt_reorder` between its lock operations; `TakeLock` is
`check_indicate_seq`, `Enqueue` the insertion with the hand-up and the timer, `Cancel` the
cancellation after the lock was released. `handler` is the timeout handler, which
waits for the lock. `cmd` is `add_ba_rsp_hdl`: it answers, resets `indicate_seq` and
turns reordering on without the lock, in three steps. `sta` is the release of the
station. `Smp = FALSE` is the i.MX6ULL with its one core, where a tasklet or timer runs
to its end once it has begun; `Smp = TRUE` lets everything overlap, as the driver is
built for.

The peer is external: its window moves forward, a frame is at most `Lag` ahead of what
has arrived, frames are lost and repeated. The constant `Peer` says what else it may do.

### SiteSurvey

`pc`, `req` and `rtnl` are the requests of cfg80211, `scan_request` and the rtnl lock.
`flag` is `_FW_UNDER_SURVEY`, which is written in five places: `SitesurveyCmd` sets it
under the lock of `mlme_priv`, the end of the survey, the timeout, the suspend and the
resume clear it, and every one of these is a step apart from what follows it. So the
callback `rtw_surveydone_event_callback` is four actions (the flag; `cancel` of the timeout
without the lock, waiting for a handler that runs; joining, which may start another
scan; the answer), the timeout handler two, and `netdev_close` three (abort; 200 ms for
the flag; 200 ms for the request). `Survey` is one execution of `sitesurvey_cmd_hdl`;
its channels come back through the survey timer and the queue of the command thread. `Allocate`
may fail `MaxOom` times, which loses a command or an event, as the code does.

Left out of it: scans while the driver is in IPS (then `rtw_survey_cmd_callback` drops
the command), the P2P listen states, the wait for a power-save announcement on the
operating channel, the refusals of the condition check that do not depend on the scan
itself, and a second interface.

## 3. Runs and what they show

| Run | Instance | Shows |
|---|---|---|
| `boot_cuts` | 1 update, 2 power cuts that may destroy the environment, counters not reset by the application, zImage ok or missing, fairness | `TypeOK`, `AtMostThreeTrials`, `AltbootcmdReady`, `UnconfirmedOnlyOnTrial`, `RollbackRestores`, `QuietBoot`, `Recovers` |
| `boot_twice` | 2 updates, 1 cut, counters reset | `ImplementsUpdate`, `NoEarlyGiveUp` |
| `boot_reported` | 1 update, no cut | violation of `ReportedKernelRuns` (finding 1) |
| `app_rollback` | 2 updates, 3 cuts, 5 faults, any application, fairness | five safety properties of the units, and `WorksAgain` |
| `power_key` | hold 7 ticks, passes of 1 to 2 ticks, power-off at 15, timer modulo 16 | `NoShortPress`, `AcceptedBeforeCut` |
| `cmd_thread` | 2 commands, one of them `no_io`, 2 openings, 2 changes of IPS, fairness | the five safety properties, and `StopEnds` |
| `usb_recv` | 3 buffers, 4 skbs of which 3 are preallocated, IPS and suspend, 2 starts, faulty submissions, fairness | the five safety properties, and `WaitEnds` |
| `usb_recv_resume` | 2 buffers, a suspend, no faults | violation of `PendingGetsSkb` (finding 2) |
| `reorder` | sequence numbers modulo 16, window 4, frames 0 to 19, BARs, 1 ADDBA, a peer that is silent from its response to the reset, one core | `TypeOK`, `QueueInOrder`, `InOrder`, `FreeIsQuiet` |
| `reorder_smp` | window 3, frames 0 to 2, BARs, early frames, DELBAs, 2 ADDBAs, several cores, fairness | `NoStuckFrame`, `QueueDrains`, `RxReturns` |
| `reorder_bar` | frames 0 to 6, BARs that repeat a start already passed | violation of `InOrder` (finding 3) |
| `site_survey` | 2 requests, 2 scans of the driver's own, 2 channels, 1 close, 1 suspend, 1 failed allocation, a removal, fairness | `TypeOK`, `QuietWhenDown`, `FlagEnds`, `RequestAnswered` |

Bounds. `MaxCuts` and `MaxOtas` (`MaxUpdates`) bound power cuts and updates; nothing
else in `OtaBoot` is bounded, because the counters are bounded by the script itself.
One update already gives all three rollbacks, with every combination of kernel and
root file system and of rollback variables. Two cuts suffice to interrupt a save and the
recovery from it, and to let `ota_try` exceed four. Two updates are what it takes for
a stale counter or a stale rollback variable to hurt the next one. In
`OtaAppRollback`, three cuts interrupt an installation, the rollback and the next
rollback; five faults are enough for a sound application to hit the start limit and
for a command of the rollback that follows to fail. In `PowerKey` the hold is a little less
than half the power-off time, as 5000 ms is half of 10 s, a pass is short against
both, and the counter wraps within one hold.

In the driver: two commands are one in the thread's hands and one in the queue, and the
second opening is the one that finds what the first left. Three buffers with four
skbs let one buffer be in flight, one wait and one fail; a start comes after each kind
of stop. Nineteen frames wrap the sequence numbers modulo 16 with a window of four,
which is to 16 what 64 is to 4096 up to the factor, well below one half. On several
cores the second ADDBA is the one whose reset finds frames in the queue, or comes between
the check of a frame and its insertion: frames 0 and 2 then wait, and the handler, which
hands up 0, has to set its timer again for 2. Two own scans
and two requests give every order of one scan's end and the next one's start, and one
failed allocation loses any one command or event.

Deadlock is checked in the `boot_*` runs. It is switched off where the system stops: the
exit status 1 of the rollback command leaves the unit failed until the next boot,
`waitpwrkey` returns, and in the driver modules the bounded supply of commands,
starts, frames or scans is used up.

Fairness. `FairSpec` of `OtaBoot` asks only that U-Boot and a panicking kernel
(`panic=5`) keep running: U-Boot is one sequential program and a panic reboots by
itself. Nobody is obliged to update, confirm, reboot or cut the power. `FairSpec` of
`OtaAppRollback` asks that systemd carries out what it has begun (power on, starts,
the commands of the oneshot unit) and that an application that crashes at once does crash.
`CmdThread`: threads that are not blocked run, and a wait with a timeout ends; weak
fairness each. `UsbRecv`: the kernel runs a scheduled tasklet and a start or stop goes
on; nothing is assumed of the air, so no packet ever has to come. `RecvReorder`: weak
fairness of whatever can run; strong fairness of the handler, which spins on a lock that
is handed out in turn, and of the two cancellations, because `del_timer_sync` repeats
its look until the handler has returned, and a handler that arms the timer again
does so for 50 ms. The peer owes nothing. `SiteSurvey`: threads that are not blocked
run, and armed timers expire; no request, scan, close or suspend has to come.

One timing assumption is made: the 200 ms of `rtw_cfg80211_wait_scan_req_empty` are
longer than a callback needs from clearing the flag to answering the request. The half of
`QuietWhenDown` that is about a closed interface rests on it; the half about a sleeping
board does not.

Each property of a passing run has a mutant in the modules (comments `Mutant:`): a
plausible bug in the code it is about, with which TLC finds it violated.

### Properties

* `UnconfirmedOnlyOnTrial`: when Linux runs slots nobody confirmed, the flag is up
  on eMMC, so the next resets count against the update. The one exception is a
  board whose only environment was destroyed.
* `AtMostThreeTrials`: the kernel of an update is started at most three times. Every
  cut between the save of the counter and the save of the rollback raises the counter
  by one, so with six cuts it could reach ten, where the shell's comparison is no
  longer about numbers.
* `RollbackRestores`: when any of the three rollbacks is being saved, its slots are the
  confirmed ones. Legacy variables, leftovers and last resorts never matter while
  the application saves the rollback slots before it raises the flag.
* `AltbootcmdReady`: U-Boot never wants `altbootcmd` before the script stored it.
* `QuietBoot`: a boot writes eMMC only with an update pending, a counter to clear or
  `altbootcmd` to install (`boot.cmd:143`).
* `NoEarlyGiveUp`: neither counter gives an update up before its fourth reset. This
  needs an application that zeroes the counters: `bootcount` is cleared only by
  rollbacks, so without that a second update can be charged for the first.
* `ImplementsUpdate`: the whole is an `AbUpdate`, with `active` the pair that the copy
  on eMMC boots.
* `Recovers`: `[]<>` a healthy Linux, whatever was installed.
* `FlagGuardsDisk`, `RollbackDurable`, `NoCopyWhileRunning`, `AcceptedStays`,
  `WorksAgain`: see the comments in `OtaAppRollback`.
* `OneOwner`: each command that is allocated is with exactly one of its caller, the
  queue and the thread, whatever stop comes between the filter and the insertion.
* `AnswerOnLiveFrame`, `ClearOnLiveCmd`: the race of a timeout with a late answer. The
  thread writes only into the frame of a caller that has not returned, and the caller
  writes only into a command that was not freed.
* `NoLostWakeup`: a command in the queue of a sleeping thread has its wake-up ahead.
* `StopEnds`: closing the interface ends.
* `SkbOwnedOnce`, `FlightHasSkb`, `NoBufferForgotten`: each skb in one place, each URB with
  memory to write to, each buffer accounted for.
* `NoStuckPacket`, `WaitEnds`: a packet has a tasklet and a wait for an skb ends, unless
  a stop left something behind (finding 2 is about that case).
* `QueueInOrder`, `InOrder`: no comparison modulo 4096 takes a new frame for an old one;
  what goes up is in order and nothing twice.
* `NoStuckFrame`, `QueueDrains`, `RxReturns`: frames that wait have a timer, they do go up,
  and neither side waits for the other for ever.
* `FreeIsQuiet`: a released station has no timer and no frame.
* `QuietWhenDown`: cfg80211 frees its request when the interface goes down, so none may
  be left with the driver then, whoever was about to answer it.
* `FlagEnds`: while the flag refuses every scan, something is on its way that clears it:
  the timeout, the survey or a suspend, also without memory, but for the case below.
* `RequestAnswered`: an accepted scan is answered, also when its end is lost.
* `NoShortPress`, `AcceptedBeforeCut`: see the comments in `PowerKey`. The help text's
  "held continuously" is true up to what polling can see: a release shorter than one
  pass of the loop goes unnoticed, so the property speaks of releases longer than that.

### Findings

1. `boot.cmd:209` says that `ota.*` reports the current slots to the application. When the
   file of the chosen slot is missing, lines 187-188 boot the generic `zImage` and leave
   `kernel_slot` alone, so line 211 reports a kernel that does not run (`boot_reported`).
2. `usb_ops_linux.c:1014` lets a buffer "wait for free skb". After a suspend that stopped the
   tasklet in the middle of its queue, nothing schedules it again after the resume
   (line 933 does so only for the first packet), and the wait does not end
   (`usb_recv_resume`).
3. A BAR whose start sequence was already passed moves the window back without a
   comparison and without the lock (`rtw_wlan_util.c:3572`), and a frame goes up twice,
   against "maintain its ordering" of `rtw_recv.c:3566` (`reorder_bar`).

Smaller things the models show, which no comment of the code denies and which
properties therefore except by name:

* A command inserted after the drain stays in the queue with the interface closed, though
  `rtw_cmd.c:704` speaks of freeing all cmd_obj there. Its waiter returns by timeout, the
  next opening executes it (`OneOwner` holds).
* A start that finds a buffer in the pending queue submits it (`usb_halinit.c:1893`) and leaves
  it there: the tasklet later forgets its skb. `SkbOwnedOnce` excepts `leftover`.
* After a DELBA (`rtw_mlme_ext.c:3684`) new frames overtake those still in the queue, and
  BARs "behind" that never cease can hold a frame back. `QueueDrains` is checked
  without the latter.
* On several cores the receive path may arm the timer after `rtw_sta_mgt.c:750` cancelled
  it. `FreeIsQuiet` is checked for the board's one core.
* `rtw_mlme.c:1330` cancels the timeout, and 1451 answers the request, after the flag was
  cleared at 1327: a scan accepted in between loses its timeout or is answered early.
  If its own end then finds no memory, the flag stays up until the next close,
  suspend or resume. `FlagEnds` excepts exactly this case (`stolen /\ ooms > 0`).
* `rtw_cfg80211_wait_scan_req_empty` does not wait when the device was removed, while the
  timeout handler may still be about to answer. `QuietWhenDown` excepts a removal.

## 4. What is proved

| Theorem | Statement | Assumptions |
|---|---|---|
| `TypeCorrect` | `Spec => []TypeOK` | those on the constants |
| `ThreeTrials` | `Spec => []AtMostThreeTrials` | same |
| `OnlyOnTrial` | `Spec => []UnconfirmedOnlyOnTrial` | same |
| `Restores` | `Spec => []RollbackRestores` | same |
| `AltbootcmdDefined` | `Spec => []AltbootcmdReady` | same |
| `BootsQuietly` | `Spec => QuietBoot` | same |
| `GivesUpLate` | `Spec => NoEarlyGiveUp` | `AppResets`: the application zeroes the counters |
| `Implements` | `Spec => ImplementsUpdate` | no torn saves, fewer than six cuts |
| `GoodOutsideTrials` | `AbUpdate!Spec => []GoodUnlessOnTrial` | `MaxTries \in Nat` |
| `TypeCorrect`, `FlagGuards`, `Durable`, `CopiesWhenFailed`, `AcceptedIsKept` of `OtaAppRollbackProofs` | `Spec => []TypeOK`, `[]FlagGuardsDisk`, `[]RollbackDurable`, `[]NoCopyWhileRunning`, `AcceptedStays` | those on the constants |
| `TypeCorrect`, `EveryCommandOwnedOnce`, `AnswersReachWaiters`, `ClearsReachCommands`, `WakeUpsAreKept` of `CmdThreadProofs` | `Spec => []TypeOK`, `[]OneOwner`, `[]AnswerOnLiveFrame`, `[]ClearOnLiveCmd`, `[]NoLostWakeup` | `CmdAssumption`: any set of commands, any bounds |
| `TypeCorrect`, `EverySkbOwnedOnce`, `UrbsHaveMemory`, `PacketsHaveTasklet`, `BuffersAccounted` of `UsbRecvProofs` | `Spec => []TypeOK`, `[]SkbOwnedOnce`, `[]FlightHasSkb`, `[]NoStuckPacket`, `[]NoBufferForgotten` | `RecvAssumption`: any finite sets of buffers and skbs, any bounds, lossy or not |
| `NeverShort`, `AcceptedInTime` of `PowerKeyProofs` | `Spec => []NoShortPress`, `[]AcceptedBeforeCut` | `TicksAssumption`: two passes of the loop and the hold fit into the counter, four passes and the hold into ten seconds |
| `TypeCorrect`, `FramesHaveTimer`, `FreedIsQuiet` of `RecvReorderProofs` | `Spec => []TypeOK`, `[]NoStuckFrame`; on one core `Spec => []FreeIsQuiet` | `ReorderAssumption`; `~Smp` for the third |
| `QueueSorted`, `FramesInOrder` of `RecvReorderProofs` | `Spec => []QueueInOrder`, `[]InOrder` | `OnOneCore`: one core, one agreement, a peer that sends frames and BARs, does not go back and is silent from the ADDBA response to the reset; `RoomToCompare`: `Window + Lag` is below half of `Modulus`, which is at most 0xFFFF |
| `TypeCorrect`, `NoRequestWhenDown`, `FlagFalls` of `SiteSurveyProofs` | `Spec => []TypeOK`, `[]QuietWhenDown`, `[]FlagEnds` | `SurveyAssumption`: any set of requests, any bounds |

Those of `OtaBoot` hold for any number of updates, any set of fallback kernels and device trees, any
number of cuts (six or more make `AtMostThreeTrials` void) and, except for
`Implements`, with torn saves.

The properties of `OtaBoot` are not inductive. `OtaBootInv!IInv` strengthens them:
`RamAgrees` (while U-Boot runs, its copy says of the update what eMMC says, unless it
holds a rollback being saved), `SlotsChosen` and `Filled` (from which point of the
script the slots are sensible), `ReadyStored` (where `altbootcmd` is known to be stored),
`Undoable` (a pending update can be undone into the confirmed pair; without one the
confirmed pair boots), `Counted` (the counter on eMMC is never behind the starts it
stands for, and ahead of them from its save to the start of the kernel) and
`TryBound` (a cut can raise it by one more). The comparison of environments uses
`View`: the flag, the pair of the rollback variables, and the pair that boots, which is
what the defaults and the normalisation of the script leave unchanged. Each action has
one step per part it can disturb.

`BootsQuietly` follows from `IInv` step by step; the one action that needs it is `GiveUp`,
which saves because `RamAgrees` has the update still pending. `GivesUpLate` needs one part
more, `CountsResets`: neither counter on eMMC is ahead of the resets since the flag was
raised, and each is behind the present reset until it has counted it. It holds under
`AppResets` only, and with torn saves and any number of cuts: what a cut leaves is the old
counters, the new ones, or an environment without an update.

`Implements` uses `IInv` with `StagingInv` (staging happens in one session of Linux
before the update was started; a wiped environment needs a torn save). It maps
`AppRaiseFlag` to `Begin`, `AppSwitchSlot` to `Switch`, `StartKernel` under the flag
to `Try`, `AppConfirm` to `Confirm`, and the end of a rollback's `saveenv` (or a cut
that finds it written) to `GiveUp`. Everything else stutters.

The invariant of `OtaAppRollback` is the module's `IInv`: `FlagGuardsDisk` for `mem` as
well as for `disk`, what is known of the files at each step of the shell command, and
`Settled`, that an accepted application on the disk is still there in memory. The last
is what forbids a `Commit` from bringing back something older.

The invariant of `CmdThread` adds to `OneOwner` what makes its two races safe.
`Context`: a command points to a frame only while its caller is before its return, and
a caller that has no answer yet still has its context in the command. `Locked`: whoever is between
looking at the context and using it holds `sctx_mutex`. `Holding`: which steps of the
thread have a command. `Awake`: a semaphore at zero and a thread asleep mean an empty
queue or a caller about to raise it, and a stopped thread was or will be raised.

The invariant of `UsbRecv` splits its properties by place. `Accounted` is `NoBufferForgotten`
while a start still has buffers to submit (`todo`), too. `Queued` says that a buffer that waits
has neither an skb nor an URB and is queued once; the `rtw_list_delete` in front of the
insertion (`Unlinked`) is what makes it so. `Owned` states
`SkbOwnedOnce` without counting: no queue holds an skb twice, no two places share one, and
every skb is in some place (`OnePlace`); that the four numbers then add up to one is
a lemma of its own (`OneIndex`, and the cardinality of singletons). `Stopping` says what the
steps of a stop have done, `ErrorsCounted` that the error counter passes its limit only in a
device that is then removed. `Queued` and `Owned` are void once a start has found
buffers that still waited, which is the leak the code has. `usb_read_port` is treated
once, as a relation between pools (`ReadPortGives`), and cited by the
completions, the tasklet and the start.

The invariant of `SiteSurvey`: `OneRequest` (the noted request is the one that waits;
between check and start the call holds rtnl), `RequestEnds` (a request without the flag has a
callback that cleared it and will answer, `Answering`), `Asleep` and `Closed`. The argument is
that whoever clears the flag answers the request it then finds: the suspend and the
close look at the flag first and either answer themselves or wait for that callback.

`HasTimeout` and `HasSurvey` carry `FlagEnds`: the timeout is there unless another scan's end
(`stolen`) or a suspend cancelled it, and the survey is there unless an allocation failed.

The invariant of `PowerKey` relates three clocks. `MeasuresHold`: what `get_timer` measures
is not longer than what the button was really held, because every release longer than
a pass meets a sample (`ReleaseSeen`). `NotYetAccepted` bounds the measured time from
above, `PressSeen` from below by the time the hardware has counted, less two passes; the
cut would need more than both leave room for. No difference wraps, since `NotYetAccepted` is
below the width of the counter.

`RecvReorder` has two invariants. `IInv`, behind `NoStuckFrame` and `FreeIsQuiet`, holds for
every peer and adds two facts: `NothingToCancelFor` (between giving the lock
back and cancelling the timer, nothing can have come to wait for it) and `CancelledIsQuiet`.

`OrderInv`, behind `QueueInOrder` and `InOrder`, says what the numbers modulo 4096 stand for.
`InWindow`: once the window has a start, that start is the number of one frame
`w`, above every frame handed up, at most one above the highest frame that arrived, and no
further than the window (within a step of the receive path: the window and the lag) below it
(`WindowAt`). `NotOvertaken`: what is in the queue lies between the last frame handed up
and the highest that arrived. `Sent` bounds the peer's frames by its own window, `Plain` and
`NoWindow` are the time without an agreement and the one between the reset and the first
frame, and `OneAtATime` is what one core excludes. So two frames that the code compares are never
further apart than `Window + Lag`, and the lemma `NumbersCompare` says that then `SN_LESS` and
`SN_EQUAL` decide as the frames themselves would. The distance of the real driver,
64 plus a lag, leaves room for a lag of almost 2000.

Drop any part of `OnOneCore`, and TLC finds frames handed up out of order: on several cores the
receive path sets the start of the window (`AfterDirect`) between the reset and the enabling; after a
DELBA an older frame goes up directly; a second ADDBA that is accepted or rejected
forgets what went up before it; frames sent between the response and the reset go up without a window;
and a BAR behind the window is the third finding. Without `RoomToCompare` (window 3, lag 2, modulus 8)
neither property holds.

What the loop of `recv_indicatepkts_in_order` computes (`Starts`, `Ready`) is proved by
induction over the places of the queue. The prover cannot apply the library's induction
theorems, which take a predicate; `Induct` is induction for a set of numbers and follows from
`WFMin`, the least element of a set under a well-founded relation. `IndicateKeeps` is the
result: frames in order go up in order until a hole, and the window then starts
above all that went up and below all that stays. `Enqueue` and `Handler` both rest on it.

Only model-checked: liveness (`Recovers`, `WorksAgain`, `StopEnds`, `WaitEnds`, `QueueDrains`,
`RxReturns`, `RequestAnswered`), which the prover does not do. Every invariant and every other
action property that a passing run checks has a theorem. The proofs take no
step on trust; TLC evaluates the
assumptions on the constants in every run.

## 5. What is not modelled

* The OTA application's own code and U-Boot's, which are not in the repository; section
  2 says what is assumed of them.
* A boot partition that is not found at all: `CONFIG_BOOTCOMMAND` then falls through to
  `loadimage` and `mmcboot` of U-Boot.
* A kernel or application that hangs without a panic: nothing on the board resets it, so
  there is nothing to check. See the hazard at `boot.cmd:211`.
* The LED command, the banner, the network files, the device tree and the other
  configuration: no state and no protocol.
* The rest of the Wi-Fi driver: joining and leaving a network, transmission, AP mode and
  the power save of its stations, the policy of IPS and LPS, encryption in software,
  the chip and its firmware, Bluetooth coexistence, the private ioctls and
  the debug files. They have state, and the join sequence and the transmit queues
  would be next; together they are some 400 000 lines of vendored code.
* Control requests on USB with their retries: synchronous, one caller at a time under
  a mutex.
* Signals to the driver's threads and to a process in `ip link set up`: `_rtw_down_sema` is
  `down_interruptible`, and a thread allows SIGTERM (`osdep_service.h:407`). It would end the
  command thread at `rtw_cmd.c:553` with the interface open. No code of the driver sends it,
  only root could.
* The reset of `enable` and `indicate_seq` on a join (`rtw_mlme.c:2072`), which belongs to the
  join sequence. The driver's own DELBA (`rtw_mlme_ext.c:10702`, 12604) has on `enable`
  the effect of the peer's and is part of `Delba`; how it goes out and `ampdu_size` are left out.
* Packets inside an skb: `UsbRecv` treats one skb as one unit, `RecvReorder` begins where
  the frames have been taken out of it.

## 6. Running the checks

    tlc -workers 2 -config MCOtaBootCuts.cfg MCOtaBoot
    tlc -workers 2 -config MCOtaAppRollback.cfg MCOtaAppRollback
    tlc -workers 2 -config MCPowerKey.cfg PowerKey
    tlc -workers 2 -config MCCmdThread.cfg CmdThread
    tlc -workers 2 -config MCUsbRecv.cfg UsbRecv
    tlc -workers 2 -config MCRecvReorder.cfg RecvReorder
    tlc -workers 2 -config MCSiteSurvey.cfg SiteSurvey
    tlapm OtaBootProofs.tla
    tlapm OtaAppRollbackProofs.tla
    tlapm CmdThreadProofs.tla
    tlapm UsbRecvProofs.tla
    tlapm SiteSurveyProofs.tla
    tlapm PowerKeyProofs.tla
    tlapm RecvReorderProofs.tla

The slowest runs, `MCOtaBootCuts.cfg`, `MCOtaBootTwice.cfg` and `MCSiteSurvey.cfg`, take one
to three minutes each; a module of proofs takes up to three.

## 7. Plan

Done, in the order of importance: `AbUpdate`, `OtaBoot` with its invariant, its proofs
and the refinement; `OtaAppRollback`, `PowerKey`, `CmdThread`, `UsbRecv`, `RecvReorder` and
`SiteSurvey` with their proofs.

Open, in this order:

1. `RecvReorder` as a refinement of a sliding window that releases in order.
2. The join sequence of `core/rtw_mlme.c` on top of `SiteSurvey`: authentication,
   association and their timers against a disconnect, a roam and a suspend.
3. The transmit path: URBs, the xmit frames of its pools, and the queues of sleeping
   stations in AP mode.
4. Composition of the boot logic with the supervision inside Linux: an application
   rollback during a pending slot update, with a confirmation that comes from the
   application restored.
