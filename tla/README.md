# A verification project for FullScreen

FullScreen is a Windows kiosk browser (`src/src`, C++) with a configuration
server (`src/server`, PHP over JSON files). This directory holds TLA+ models of
its state machines, the TLC configurations that check them, and proofs that
TLAPS checks.

## 1. The system

| part | state it keeps | operations | talks to |
|---|---|---|---|
| Self-update (`auto_update.cpp`, `main.cpp`) | the exe, `.new`, `.bak`, `update.applied`, `update.attempts`, `update.pending`, `update_lastcheck.dat`; two timers | `HandleStartupRecovery`, `CheckAndApply`, `StageApply`, `ConfirmAndCleanup`, relaunch, shutdown | detached PowerShells that swap files; the mutex; update server or GitHub |
| URL monitor (`url_monitor.cpp`) | `g_url`, `g_callback`, `g_running`, `g_generation`, `g_unreachable` | `Start`, `Stop`, a detached probe thread per generation, `OnNavigationCompleted` | `main.cpp` by callback, from its own thread |
| Page window (`webview_window.cpp`) | `g_showingMessage`, `g_messageVisible`, pending navigation, refresh and shift timers | `NavigateTo`, `ShowMessage`, `Reload`, controller creation, automatic refresh, pixel shift | WebView2, asynchronously |
| Main (`main.cpp`) | `g_state`: config, password, token, flags, timers | first-time setup, message loop, hot key, settings, `EnsureRemoteRegistration`, `PerformRemoteSync`, `ApplyConfigRuntime` | everything on the client |
| Configuration files (`config_manager.cpp`) | `config.dat`, `remote_token.dat`, `consumed_commands.dat` | load, save (in place), migrate | the disk |
| Remote client (`remote_config_client.cpp`) | none | health, register, fetch, acknowledge, verify signature | the server, 2.5 s timeouts |
| Keyboard and mouse lock (`hook_manager.cpp`) | the two hooks, `g_inputLocked`, the armed keys, `g_lastVerifyTick` | `InstallHook`, `UninstallHook`, the two low-level hook procedures | `main.cpp` by callback inside the hook, and the dialogs through it |
| Dialogs (`dialogs.cpp`) | one static pointer per dialog, attempt counter | settings, password, menu, register code | the config, by reference |
| Pure helpers (`auto_update_logic.cpp`, `refresh_schedule.cpp`, `crypto.cpp`) | none | version order, update window, refresh times, digests | update, page window, config |
| Storage (`Storage.php`) | one JSON file per kind of data, one lock file each | `readJson`, `updateJson`, `withLock`, `bootstrapDefaults` | all services, from concurrent PHP requests |
| Auth (`Auth.php`) | `register_codes.json`, `devices.json` | create and consume a code, issue and verify a token, group, last seen, sign | Storage |
| ManagementService | `config_global/group/device.json`, `config_history.json`, `password_updates.json` | publish, rollback, history, enqueue a password | Storage, AuditService |
| ConfigMergeService, PasswordCommandService | none of their own | merge and revision; active commands, mark consumed | Storage |
| App (`App.php`) | sessions | device endpoints, admin pages | all services |
| UpdatePublisher | `public/update/` | copy the exe, write `latest.txt` | kiosks download both |

The client has one UI thread with a message loop, one or more detached monitor
threads, and PowerShell processes that outlive it. Its modal dialogs and message
boxes run message loops of their own, in which its three timers
(`TIMER_REMOTE_CONFIG`, `TIMER_AUTO_UPDATE`, `TIMER_UPDATE_CONFIRM`) have no
effect, because only the outer loop looks at them (main.cpp:273-297). The server
has no process of its own: every request is a PHP execution, and requests run
side by side.

### What is hard

* Crashes and power cuts between any two file operations, in the update (which
  exists to survive them) and in the settings.
* Two writers of the same files: overlapping PowerShell swaps; PHP requests.
* Lost calls and lost answers, with requests served after the client has given
  them up.
* Two threads that share flags without a lock (monitor thread and UI thread), and
  WebView2 events that arrive later than the state they belong to.
* Reads outside the lock under which the result is stored.
* One number, `revision`, standing for the state of three scopes.
* Modal dialogs opened inside the hook procedure: their loops run the hook again,
  and the error of the asynchronous WebView2 creation comes up below or above them.

Every hazard is listed at its line in `PROJECT.json` under "hazards", with the
properties that cover it or the reason why none does yet.

### What makes each part correct

* Update: a bad exe gets a bounded number of starts; a fallback exists until the
  new exe is trusted; what is staged was checked; nothing older is installed; the
  marker stands whenever the exe changes; an interrupted swap completes.
* Page: one monitor; the message stays while the page is away; the page comes back.
* Server: an update changes its own entry and loses no other's; a code registers once; history explains the present;
  a rollback returns to that scope's own past.
* Automatic refresh: every slot of the schedule is refreshed, once, and the timer
  finds back after the clock was set.
* Lock: nothing of a device whose hook is set reaches the page while the kiosk runs; only the password leads to
  the settings and to the exit; dialogs open only on a key
  pressed on the page, and the key that closed one does not open the next; polls are
  set again whatever way the dialogs end; the program can always end.
* Sync: the server believes only what happened; what is acknowledged is durable
  if it could be saved; what is published arrives; a command is applied once, and
  never after a newer one.

## 2. Modules

| module | models | lines of code behind it |
|---|---|---|
| `AutoUpdate` | the update pipeline with recovery, swaps, timers, exits | `auto_update.cpp`, `main.cpp` |
| `AutoUpdateProofs` | theorems about `AutoUpdate` | |
| `PageMonitor` | monitor threads, UI thread, WebView2's events | `url_monitor.cpp`, `webview_window.cpp`, `main.cpp` |
| `PageMonitorProofs` | theorems about `PageMonitor` | |
| `ConfigServer` | the server's files and locks with concurrent requests | `Storage.php`, `ManagementService.php`, `Auth.php`, `PasswordCommandService.php` |
| `ConfigServerProofs` | theorems about `ConfigServer` | |
| `RemoteSync` | one kiosk and its server over a bad network | `main.cpp`, `remote_config_client.cpp`, `config_manager.cpp`, `dialogs.cpp`, `App.php`, `ConfigMergeService.php` |
| `RemoteSyncProofs` | theorems about `RemoteSync` and the poll delay | |
| `KioskLock` | the hooks, the dialogs they open, and the ways out of the program | `hook_manager.cpp`, `main.cpp`, `dialogs.cpp` |
| `PasswordGate` | what `README.md:10` promises of the lock: the abstract specification that `KioskLock` implements | |
| `KioskLockProofs` | theorems about `KioskLock` | |
| `RefreshSchedule` | the daily times, the refresh timer and the wall clock | `refresh_schedule.cpp`, `webview_window.cpp` |
| `PureLogic` | version order, maintenance window, poll delay: decisions without state | `auto_update_logic.cpp`, `main.cpp` |
| `SchedulesProofs` | theorems about `RefreshSchedule` and `PureLogic` | |
| `LeastNumber` | a set of numbers has a least one: the lemma three of the proof modules share | |
| `MC...` | symmetry sets and instances for TLC | |

Definitions that begin with "Slip" in their comment are plausible mistakes in the
operation they stand before. No specification uses them; each property of a
passing run is violated when one of them takes the operation's place.

`RemoteSync` and `ConfigServer` meet at the device endpoints: `ConfigServer` has
the files, locks and concurrent requests of `registerDevice`, `ackConfig` and
`publish`; `RemoteSync` takes each of them as one step, which `OthersKept` and
`CodeRegistersOnce` justify.

### AutoUpdate

One action per file operation. `pc` is the place of the UI thread in
`HandleStartupRecovery` (`recover`, `count`, `rb_*`, `relaunch`), `CheckAndApply`
(`writing` .. `decide`), `StageApply` (`stage*`), `ConfirmAndCleanup` (`cf_*`) or
the message loop (`up`). A file's content is a version, `Torn` (its writing was
cut), `Short` (a download that broke off, written as it came) or `Absent`.
`swaps[j]` is the progress of PowerShell `j`: sleep, copy to `.bak`, move, start.
`Crash` ends the process anywhere; `PowerCut` ends the PowerShells with it.
`trusted`, `runs` and `countLost` are history variables.

Assumptions:
* A copy over the image of the running process may or may not succeed
  (`RollbackCopy`); a move onto it fails while an instance of it exists.
* Writes of one byte (`update.applied`, `update.pending`) are atomic; the write of
  `update.attempts` truncates first and may be lost (`countLost`).
* The update check does not fire while a swap of the same boot is still asleep
  (`NoSwaps`): the first check comes 10 s after the start, the sleep is 3 s. The
  same holds for the confirmation, 60 s after the start.
* `Bad` versions never stay up for a minute. A `Torn` or `Short` exe does not start.
* A self-hosted download that broke off fails its SHA-256. From GitHub `WinHttpGet`
  passes it on (auto_update.cpp:189-198), and a megabyte is enough (482): it is
  staged, marked and swapped in like a whole one when its FileVersion can be read,
  and may or may not be readable (`FileVersionPasses`, `FileVersionFails`).

`auto_update.h:13-16` and `README.md:123` promise a rollback to the previous exe. The
model does not keep that promise, because the code does not: `CopyFileW` onto the
image of the running process has no effect (`RollbackCopy`), its result is ignored and
the markers go. So there is no abstract specification of the promise here, and no
property states a rollback. What is stated is what stands before that copy: bounded
starts, a `.bak`, the marker, and what was checked of the staged file.

Not modelled: the gap inside `Move-Item -Force`, an exe that dies before
`WinMain`, errors of the disk other than those named, boxes shown while the
program starts.

### PageMonitor

Actors are the UI thread and the monitor threads; each access to a shared flag
is a step, so the data race on `isUnreachable`, `g_showingMessage` and
`g_messageVisible` becomes interleaving. `ShowMessage` is four steps, as only its
test is under `g_mutex`: `Show` (the test), `StoreVisible`, `StoreShowing` and
`NavigateToString`, between which another thread may pass the test too, or a
completion be handled (`NavigationCompleted`, `MessageGone`, `OnNavigationCompleted`).
`OnUrlReachabilityChanged` reads `isUnreachable` in `Told` and clears it in `Clear`. `current[w]` says that thread `w`'s
generation is `g_generation`. `events` are the `NavigationCompleted` events on
their way to the UI thread. `calm` is a history variable: from some point on the
network and the user are quiet. It is set only where `Settles` holds, in `page_live`:
`page_two` checks safety, which it adds nothing to. The automatic refresh is not: its timer is never
stopped (`AutoRefresh`, then `DoReload`).

Assumptions: calls to WebView2 from the monitor thread take effect (WebView2 asks
for the UI thread; the code calls it from the worker); a probe and a navigation
of the same page at the same moment agree; there is one message text. `MaxEvents`
bounds the events waiting when a navigation is asked for, `Workers` the threads
alive.

### ConfigServer

A request is a PHP execution: `Arrive`, `IsFile` and `WriteDefault` are the
constructor of `Storage`, `Enter` and an update are `updateJson` with its lock,
reads outside of it (`Publish`, `Find`, `ReadScope`) are steps of their own, and
`Die` ends a request anywhere and releases its lock. Left out: the audit log, the
admin's password, the secret (nothing reads them back into what is modelled), the
path of the temporary file, which all writers of one file share.
`past` (the revisions a scope has had, each with its config), `issued`, `cut` (a
request died between a scope's file and the history), `crossed` (a request stored
a scope that another had read already in order to store it) and `late` (files that a
default has replaced after something was stored in them) are history variables.

A kiosk compares revisions and never contents, so a revision must stand for one
config: `RevisionNamesConfig` says that it does, and that the newest is in force,
until two requests cross. Once they have crossed one revision may stand for two
configs; that is the behaviour of `publish` named in section 3. `Recorded` and
`RollbackReturnsToThePast` hold with crossed requests as well.

`OthersKept` is about every step that changes a file: `ChangesItsOwn(r)` says, for each
kind of update, which entry a request may change (the scope, code or command it names,
the group, token and time last seen of its own device, the end of the history) and that
the rest is as the file held it when the request wrote, not when it read. A default
written without the lock is no update; `late` takes its file out.

### RemoteSync

`pc` is the place of the UI thread in `WinMain`, `EnsureRemoteRegistration` and
`PerformRemoteSync`. A request is on the `wire`, its answer in `reply`; `Timeout`
drops both, and the request may become `late` and be served afterwards.
`SaveConfig` is two steps, `Truncate` and `Write`, with a crash possible between
them; a torn `config.dat` reads as missing. A save may fail (`SaveFails`, at most
`MaxFaults` times): the file cannot be opened and stays, or is left torn. The dialog
then stays open, a password command counts as failed (main.cpp:633-635), and every
other caller goes on, `PerformRemoteSync` with a successful acknowledgement (663-671);
`AckIsDurable` excepts exactly that (`unsaved`). A line of `consumed_commands.dat` and
`remote_token.dat` may fail to be written too, and nobody looks at the result. That
`SaveConfig` ignores the result of `fclose` is left out: what `fwrite` took counts as
written. A password is named by the command
that set it. `LoadConfig`, `LoadRemoteToken` and `LoadConsumedCommandIds` read what the writes
left; a `config.dat` of an older layout is taken for one of the present layout.
`crashes`, `faults`, `unlisted`, `unsaved`, `applied` and `chosen` are history variables.

Left out: `effectiveAt` (`AppliedInOrder` is about commands without one: the server
passes over a command until its time has come), `allowRemotePasswordUpdate`, the time between polls (a poll may come at any time; `failures` counts
the failed ones for `PollDelay`), the group scope
(it is treated like the device's), the branch of `PerformRemoteSync` for an empty
token, which `EnsureRemoteRegistration` has just excluded.

### KioskLock

A step is what the UI thread does between two messages. `OnHotkeyPressed` runs
inside the hook procedure and opens its dialogs one in the place of the other, so
the nested modal loops are three variables: `dialog` is the dialog of `dialogs.cpp`,
`box` the message box over it (or after it), `initBox` the box of
`OnWebViewInitError`, which may come up over both at any time. `BoxClosed`,
`AfterSave` and `PerformRemoteSync` are the code between two of them, `ReturnToHook`
the ends of `OnHotkeyPressed`. `fg` is the foreground window, `held` the keys that
are down. The hook procedure is one action per way through it: the guard against
auto-repeat (`SwallowEsc`), key down and key up on the locked page, and the
pass-through (`PressElsewhere`, `ReleaseElsewhere`, `OtherInput`), which also takes
the key to the dialog. `armed` keeps F5 where the code forgets to clear it.
`installed` is the set of devices whose hook is set: none when the keyboard's failed
("degraded mode"), the keyboard's alone when the mouse's did, in which case `InstallHook`
goes on and still returns true (hook_manager.cpp:186-190); then the mouse reaches the
page, and `NothingReachesPage` says nothing of it.
`timers` are the ones of the settings, which `Rearmed` and `ScheduleNextRemotePoll`
set; what they do when they fire is in `AutoUpdate` and `RemoteSync`. `pressed`,
`closedBy` and `reached` are history variables.

Assumptions:
* Windows calls the hook for every event and waits for it.
* Modifiers are asked for at the event (`GetAsyncKeyState`): they are its inputs.
* The owner of an open dialog cannot be activated. What is answered in a dialog
  under `initBox` takes effect when that box is closed, as the inner loop has to
  return first.
* A modal loop that finds `WM_QUIT` closes its window, and its caller goes on.

`PasswordGate` knows three states of the lock: shut, asked for the password, and
open behind it. `KioskLock` implements it with `verified`, the flag that the
password dialog returns, in the place of the open gate; the dialogs, boxes and keys
are its details. The abstract specification lets settings change, and the user end
the program, from the open gate only, counts the answers to one asking, and names
the two ways in which the program ends without a password: WebView2 has failed, or
an update is staged while nobody is at the gate.

The right password is a choice; so are what the settings dialog accepts, whether a
server answers, and whether a token is given.

### RefreshSchedule and PureLogic

`clock` is the wall clock in milliseconds of the day, `left` what remains until
`TIMER_AUTO_REFRESH` expires, `due` a `WM_TIMER` not served yet. `Tick` is a
millisecond of both; `SetClock` moves the clock alone. The day has `Hours *
HourMinutes` minutes of `Minute` milliseconds; nothing depends on the numbers 24,
60 and 60000. A list is a sequence of tokens `[h, m]`; how their characters are
read is left out, and a token that is no time has an hour that is too late.
`NextSlot` and `MsUntilNextAt` are the loop and the arithmetic of
`refresh_schedule.cpp`, `OnTimer` the branch of `WndProc` that sets the timer
again. A Windows timer is periodic, and so is `Tick`: a daily timer that is served
late has begun its period again until it is served. `config`, `steady` (the clock
has not been set since the timer was) and `owed` (a slot has come and has not been
refreshed) are history variables. When summer time begins or ends the clock is
set, which `FindsBack` is about; a slot in the hour that is left out does not come
that day.

`PureLogic` has no state. `IsNewerVersion` and `InUpdateWindow` are what
`AutoUpdate` abstracts to numbers and to a window that is open or closed;
`VersionsAreOrdered` is why it may. `WindowIsAnArc` asks about the window at every
time of the clock, and `RemoteSync` about `PollDelay` after every poll. The empty
window (always) and a malformed one (never) are left out.

## 3. Runs

Passing:

| run | instance | shows |
|---|---|---|
| `update_self` | self-hosted, 3 versions, one bad, 2 attempts, 2 swaps | safety of the update |
| `update_restart` | GitHub, 2 versions and a download that broke off, 1 attempt, 1 swap | an interrupted replacement is completed |
| `page_two` | 2 pages, 2 threads, 1 event | one monitor, and agreement on the outage |
| `page_live` | 1 page, 1 thread, automatic refresh | the message comes back, and so does the page from an agreed outage |
| `server_admin` | 2 requests, global and 2 groups, revisions to 2, history of 3 | history, rollback and the meaning of a revision with concurrent admins; no update is lost |
| `server_devices` | 2 requests, 2 devices, 2 codes, `password_updates.json` missing at first | no lost update, one token per code, while the first requests write the missing file |
| `sync_safe` | 2 commands, 2 codes, 1 crash, 1 failing save, revisions to 2 without contents, which none of its properties reads | what the server believes is true, and durable where it was saved; commands are applied in order |
| `schedule_daily` | a day of 3 hours of 2 minutes of 2 ms, 5 lists (none, out of order with a double, with 24:00, single, with a bad token), all windows | the timer aims at the next slot and finds back to the schedule; the maintenance window. TLC also evaluates `VersionsAreOrdered` for versions of up to 2 parts from 0 to 2 |
| `kiosk_lock` | 3 keys, 2 attempts, every dialog and box, an error of WebView2 at any time, both hooks, the keyboard's alone or none | the lock, that it implements `PasswordGate`, the keys that open and close dialogs, the poll timer behind the settings, and that an exit completes |
| `sync_live` | 2 contents, 1 garbled command, revisions to 3, 1 crash, 1 failing save, delays for up to 3 failed polls in a row | what is published arrives; polls keep their distance |

Three versions are the least that tell an old, a current and a new exe apart; two
swaps, two threads and two requests the least that overlap. Two commands are the
least of which one can stand before, or come after, the other. A crash and a failing
save of each kind of file can fall anywhere, in either order; the theorems cover more
of either. A day of six minutes has room for
two slots with a minute between them, before and after midnight; a minute of two
milliseconds has a beginning and an end. Two attempts are the least at which a wrong
password is asked for again and then refused for good; ESC, F4 and F5 are all the
keys that arm something, and the others are `OtherInput`. The largest runs are
`page_two` (3.5 million states), `sync_safe` (3.3), `server_admin` (2.3), `update_self`
(2.2), `server_devices` (0.9) and, with liveness, `kiosk_lock` and `sync_live` (0.65
each): one to two and a half minutes each. Deadlock is checked except where
the bounds end the behaviours: `server_admin` (revisions used up), `sync_live` and
`sync_scopes`.

Violations: each of these runs checks one sentence of the documents or comments
that the code does not keep, and TLC prints the behaviour.

| run | what happens |
|---|---|
| `update_unconfirmed` | settings saved in the first minute kill the confirmation timer |
| `sync_scopes` | a device config below the global revision is not delivered |

The models have more behaviours of this kind. No run looks for them, and the
properties are worded so as not to deny them:

| model | behaviour | code |
|---|---|---|
| `AutoUpdate` | a download from GitHub that broke off is staged, swapped in and does not start | auto_update.cpp:189-198, 482, 507 |
| | the rollback's copy fails unnoticed and the markers go | auto_update.cpp:382 |
| | the relaunched process meets its parent's mutex and leaves | auto_update.cpp:388 |
| | a box left open by a second instance keeps mutex and exe busy | main.cpp:101-104 |
| | a torn `.new` is swapped in by the recovery, under a standing marker | auto_update.cpp:364 |
| | the window is tested with a time read before the download | auto_update.cpp:411, 521 |
| | a counter left over from an older update is inherited | auto_update.cpp:288 |
| | a second swap overwrites the fallback | auto_update.cpp:294 |
| `PageMonitor` | reports cross and the message stays although the page answers | url_monitor.cpp:144 |
| | a message's completion is taken for the page's | webview_window.cpp:292 |
| | a retired thread reports through the new callback | url_monitor.cpp:142 |
| `ConfigServer` | of two publishes that read the same scope the second overwrites the first's fields | ManagementService.php:90 |
| | a default written late overwrites a registration | Storage.php:124 |
| `RemoteSync` | local edits are not overridden under the same revision | App.php:141 |
| | after a crash a command replaces a newer password | main.cpp:628 |
| | an acknowledgement is sent as a success although the config could not be saved | main.cpp:663-671 |
| | a lost acknowledgement is never repeated, and blocks the next command until it expires: that every command arrives is no property of this code | main.cpp:615, remote_config_client.cpp:505 |
| | an unreachable server at the start switches remote configuration off | main.cpp:483 |
| | a token without its device id | main.cpp:532 |
| | Cancel keeps edited fields | dialogs.cpp:261 |
| | the clock of the update window is read before a download that may take minutes | auto_update.cpp:411, 521 |
| `KioskLock` | the tick that is to protect a dialog just opened (22-24, 56-58) is taken when it has closed: ESC pressed again at once closes the dialog it opened | hook_manager.cpp:121, 128 |
| | the guard is for ESC and 400 ms only: an Alt+F4 that closed a dialog and is held on, or an ESC held on for longer, opens it again when released | hook_manager.cpp:59 |
| | an armed F5 survives a pass-through, and reloads when it comes up on the page later | hook_manager.cpp:67-71 |
| | the attempts are counted anew by every dialog, and `PWD_COOLDOWN_MS` is not used; README.md:81 promises a cool-down after 5 errors | dialogs.cpp:523, app_common.h:31-33 |
| | the registration "cannot be cancelled", but `WM_QUIT` ends it | main.cpp:515-522 |
| | after a cancelled settings dialog `remoteEnabled` and `autoUpdate` may be on without their timers | main.cpp:379-384 |
| `RefreshSchedule` | `ParseTimes` refuses a list half way and leaves its first times, unsorted, with `dailyMin` appended to them | webview_window.cpp:554-557 |

Two behaviours of this kind lie outside the models: the merged configuration is read from
three files without a lock (ConfigMergeService.php:26), and the monitor thread calls
WebView2 objects that belong to the UI thread (webview_window.cpp:413). A third is
only touched: the message box of a failed WebView2 creation is shown while
`g_mutex` of the page window is held (webview_window.cpp:220, 247). The UI thread
takes that lock nowhere in the box's loop, but the monitor thread waits for a click.

## 4. Fairness

* `AutoUpdate!Fairness`: the UI thread runs on, a set timer is served, a
  PowerShell ends. `RestartSpec` adds what `auto_update.cpp:359-363` counts on:
  the device is started again, boxes are clicked away, a lock or an error does not
  last for ever, and at some point nobody crashes it.
* `PageMonitor!FairSpec`: threads run on and navigations end. Nobody has to press
  F5. The two liveness properties assume `Brisk`: from some point on a page is loaded
  and its completion handled within the ten seconds between two probes. Without it two
  threads in lockstep can undo each other's message for ever; nothing in the code
  excludes that, the ten seconds only make it unlikely.
* `RemoteSync!FairSpec`: the kiosk runs on (its poll timer is periodic), and of
  calls made again and again one is served and answered in time now and then
  (strong fairness: single calls may all be lost in between). Nobody has to
  publish, click or type.
* `KioskLock!FairSpec`: a loop that pumps messages gets to `WM_QUIT` and then ends.
  Nobody has to press a key, answer a dialog or click a box; WebView2's creation
  need not end.
* `RefreshSchedule!FairSpec`: time passes, and `WM_TIMER` is dispatched to the
  window procedure. Unlike the three timers of `main.cpp` it is handled there, so
  the loops of dialogs and message boxes serve it as well.

## 5. Proofs

`AutoUpdateProofs` proves, for all sets of versions, attempt limits, numbers of
swaps and sources that satisfy the assumptions named in `AutoUpdate`:

    Invariance             Spec => []IInv
    TypeCorrect            Spec => []TypeOK
    StartsBounded          Spec => []BoundedUnconfirmedStarts
    FallbackPresent        Spec => []FallbackUntilTrusted
    PendingVerified        Spec => []PendingIsVerified
    AlwaysUnderMarker      Spec => ReplacedUnderMarker
    SelfHostedUpgradesOnly Spec => SelfHostedNeverDowngrades

The inductive invariant is `IInv == TypeOK /\ CountInv /\ ImageInv /\ SwapInv /\
StagedInv`. The safety properties are not inductive alone. `CountInv` relates the
counter's file to the starts it counts: the file may be ahead, after a crash, and
never behind. `ImageInv` says which places in the code imply a whole exe that
somebody vouches for. `SwapInv` says what a PowerShell that outlives its instance
can rely on: the fallback, and the marker as long as there is something to move.
`StagedInv` follows `.new` through its checks, and keeps `Short` to the GitHub source; without it a step of the
recovery could meet a marker beside an unverified file. One lemma per group of
actions shows that it is preserved; the theorems follow from it.

`SchedulesProofs` proves, for every length of the day and of a minute, every set of
lists and all versions:

    VersionOrder           releases \subseteq Seq(Nat) => VersionsAreOrdered(releases)
    ScheduleInvariance     Spec => []IInv
    ScheduleTypes          Spec => []TypeOK
    TimesInOrder           Spec => []ParsedInOrder
    RefreshAims            Spec => []AimsAtNextSlot
    RefreshesAtSlots       Spec => []DueAtSlots
    WindowArc              Spec => []WindowIsAnArc

`IInv == TypeOK /\ AimsAtNextSlot /\ DueAtSlots` is inductive. `MsValue` and
`MsLands` say what `MsUntilNextAt` returns on a sorted list: the time to a slot
after now, with no slot before it, over midnight by the argument that the first
slot of the list is the first of tomorrow. `TickStep` carries that along as time
passes; a refresh served late sets the timer by the clock it then finds. The
theorems are about sorted lists (`OnSchedule`), which is what `refresh_schedule.h`
asks for, and `TimesInOrder` shows that every list which parses is one. `InOrder`
stands for `std::sort` and `std::unique`: the `i`-th time is the one with `i - 1`
others before it. That there is exactly one such time for every `i` rests on three
lemmas about the number of times before a time (`BeforeFinite`, `BeforeGrows`,
`PlaceTaken`), with the least time that leaves its place empty as the
counterexample.

`KioskLockProofs` proves, for every number of password attempts:

    Invariance             Spec => []IInv
    TypeCorrect            Spec => []TypeOK
    PageUnreached          Spec => []NothingReachesPage
    PollsArmed             Spec => []PollArmed
    OpenedByPress          Spec => AskedByPress
    StaysClosed            Spec => ClosedStaysClosed
    GateIsKept             Spec => KeepsGate

`NothingReachesPage` says nothing about why the lock is on. `LockInv` does: a dialog
or a box is open exactly while `dialogActive` is set, the page is in front only when
nothing is open, and then the lock is on, unless the program is to end. `DialogInv`
ties each box to the dialog it lies over and `verified` to the dialogs behind the
password, `TimerInv` follows the poll timer through the evaluation chain, and
`KeyInv` says that an armed key was pressed on the page, that none is armed while a
dialog is open, and that ESC is not armed within its 400 ms. The parts of
`OnHotkeyPressed` that several ways out share are lemmas (`ReturnStep`, `ShowStep`,
`SyncStep`, `AfterSaveStep`, `BoxClosedStep`): each says that its part keeps these
and lands in `PartDone`, from which the steps of the hook, of the buttons and of
`WM_QUIT` follow, and what each of them is at the gate.

`ConfigServerProofs` proves, for any number of requests, groups, devices, codes and
commands:

    TypeInvariance             Spec => []TypeInv
    TypeCorrect                Spec => []TypeOK
    RollbacksComeFromThePast   Spec => []RollbackReturnsToThePast
    OneTokenPerCode            Spec => []CodeRegistersOnce        if codes exist
    RevisionsNameConfigs       Spec => []RevisionNamesConfig      if the scopes' files exist
    ChangesAreRecorded         Spec => []Recorded                 if the history exists
    UpdatesKeepOthers          Spec => OthersKept

`TypeInv` has the core of all of them: a request that is in `updateJson` holds the
lock of its file, and has read what the file holds now, unless the file's default is
still being written. That exception is what the three conditions are about, and `late` in `OthersKept`. They say
which files are there when the requests begin (`Fresh` is the set of those that are
not), and the code needs them: `bootstrapDefaults` writes a default without the lock
(Storage.php:124), so a request that came first can overwrite with it what another
has stored. Only the first requests to a new server find a file missing.
`CodeInv` says that no two requests are about to issue a token for one code, and none
for a code that has given one. `PastInv` says that whatever a file, the history or a
request in flight takes for the config of a scope was in force there. `RevisionInv`
and `HistoryInv` describe the way of a store from its read to its entry in the
history, `QueueInv` that of a command.

`RemoteSyncProofs` proves, for all contents, codes, commands, scopes and bounds on
revisions, crashes and failures:

    Invariance             Spec => []IInv
    TypeCorrect            Spec => []TypeOK
    OnlyAppliedIsConsumed  Spec => []ConsumedWasApplied
    AcksAreDurable         Spec => []AckIsDurable
    PasswordsAreKept       Spec => []PasswordIsKept
    ReplaysAreCrashes      Spec => []ReplayedOnlyAfterCrash
    OrderIsKept            Spec => AppliedInOrder
    PollsKeepTheirDistance Spec => []PollDelayBounded

None of the five properties about commands and files is inductive alone, since each
of them is about two ends of a way on which anything may be lost. `WireInv` says that
what is on the wire is what the kiosk waits for, and that what it works on is an
answer with a config and a command not consumed before; `KnownInv` what registration
has established; `SaveInv` that what is being written is the config in memory, with
the new password if that is why; `AckInv` that what is acknowledged was written, unless
the last save failed; `PasswordInv` where the password set last is, between
its writing and its taking over; `ReplayInv` that a command whose id is not remembered
has been applied once for every crash, and every line of its file that could not be
written, at most; `OrderInv` that a command is applied, or on its way to the kiosk, only
when those before it have left the queue; `ConsumedInv` that a report under way,
even one that comes late, is about a command that was applied. A step is the kiosk's
own, an exchange or the server's (`Steps`), and each invariant has one lemma for those
of the three that can disturb it. `PollDelayBounded` rests on `BackoffGrows`, for every
base, jitter, cap and number of failures.

`PageMonitorProofs` proves, for all sets of addresses and of threads, infinite ones
included, and any bound on events in flight:

    Invariance             Spec => []IInv
    TypeCorrect            Spec => []TypeOK
    OneGeneration          Spec => []OneMonitor
    MainIsTold             Spec => []MainKnows

`GenerationInv` says that at most one thread belongs to the current generation and
none while the UI thread is between `Stop` and the start of the next. `MainKnows` is
about quiet states; `KnowInv` says why one is not reached too early: as long as the
monitor holds the page unreachable and main does not know, the UI thread is applying
a configuration, somebody is about to tell main, or one more completion is coming
(`Coming` counts events, navigations and threads that are about to navigate to the
message) than the message takes for itself. `MessageInv` keeps that count right, and
`StartInv` says that nothing is in flight, and no thread between the stores of
`ShowMessage`, before the controller is there.

Each inductive invariant was model-checked on its component's run before it was
proved. The assumptions on constants are those named in the modules; beside the
ranges they are that sentinels (`None`, `Absent`, `Nothing`) are no values, no file
contents and no requests. `MaxRevision >= 1` in `ConfigServer` says that the defaults'
revision 1 exists.

Only model-checked: liveness, that is `InterruptedSwapCompletes`, `MessageComesBack`,
`AgreementRecovers`, `Delivered`, `FindsBack` and `ExitCompletes`
(TLAPS has no reasoning about fairness and ENABLED here). Every other property of a
passing run is a theorem.

## 6. Plan

1. An abstract specification of delivery that `RemoteSync` implements: what was
   published reaches the disk, a command is applied and then reported, with no calls,
   answers and half-written files.
2. The one of a store with history that `ConfigServer` implements as long as no two
   requests cross: a publish and its entry in one step.
3. The steps of the liveness arguments that are safety: that a step which brings the
   kiosk nearer to delivery is never taken back.
4. `UpdatePublisher` with the download of `AutoUpdate`.

## 7. Not modelled

The admin pages and their sessions, the audit log, validation and encodings, auto
start, zoom, pixel shift and window sizes, the layouts of older `config.dat`
versions, and the command line tools: they keep no state that interacts, or only
call what is modelled. What Windows does with a low-level hook that answers late
(`LowLevelHooksTimeout`), with its secure desktop, and with the foreground when a
dialog is closed from another program's side is not modelled either: it is not in
this code. `UpdatePublisher` only produces what `AutoUpdate` lets a self-hosted kiosk
download: a newer exe whose digest fits the manifest, or one that is dropped.
`PROJECT.json` lists every part with its reason.
