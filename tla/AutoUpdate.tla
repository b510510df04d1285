------------------------------ MODULE AutoUpdate ------------------------------
(***************************************************************************)
(* The self-update pipeline of the kiosk client: HandleStartupRecovery,     *)
(* CheckAndApply, StageApply and ConfirmAndCleanup of auto_update.cpp, the  *)
(* timers and exits of main.cpp that drive them, and the detached           *)
(* PowerShell swaps StageApply launches.                                    *)
(*                                                                          *)
(* Every write or delete of a file is a step of its own, so a crash or a    *)
(* power cut can fall between any two of them.  A file's content is a       *)
(* version, Torn (its writing was cut), Short (a download that broke off,   *)
(* written as it came) or Absent.                                           *)
(***************************************************************************)
EXTENDS Integers

CONSTANTS
    Versions,     \* version numbers of the executables that exist
    Bad,          \* versions that never stay up long enough to be confirmed
    Absent, Torn, \* contents of a missing and of a partly written file
    Short,        \* content of a file whose download broke off
    MaxAttempts,  \* UPDATE_MAX_STARTUP_ATTEMPTS
    Source,       \* cfg.updateSource: "github" or "self"
    Jobs          \* bound: how many PowerShell swaps may be alive at once

ASSUME VersionsAssumption ==
    Versions \subseteq Nat /\ {Absent, Torn, Short} \cap Versions = {}
ASSUME SentinelAssumption == Absent # Torn /\ Absent # Short /\ Torn # Short
ASSUME BadAssumption == Bad \subseteq Versions
ASSUME MaxAttemptsAssumption == MaxAttempts \in Nat \ {0}

VARIABLES
    (* Files beside the executable and in %APPDATA%. *)
    exe, new, bak,   \* FullScreenBrowser.exe, .exe.new, .exe.bak
    applied,         \* update.applied exists
    attempts,        \* number in update.attempts, 0 when missing or unreadable
    pending,         \* update.pending exists
    throttled,       \* update_lastcheck.dat is younger than the check interval
    (* The instance that owns the mutex. *)
    pc,              \* where its UI thread is; "off": no instance
    caller,          \* who called StageApply
    windowAtCheck,   \* InUpdateWindow for the `now` read on entry
    autoUpdate,      \* g_state.config.autoUpdate
    checkArmed,      \* TIMER_AUTO_UPDATE is set
    confirmArmed,    \* TIMER_UPDATE_CONFIRM is set
    (* Around it. *)
    swaps,           \* swaps[j]: progress of detached PowerShell j
    boxed,           \* a second instance still shows "already running"
    inWindow,        \* the wall clock is inside the maintenance window
    (* History, read by properties only. *)
    trusted,         \* versions installed by hand or confirmed
    runs,            \* counted starts of exe that were not confirmed
    countLost        \* a write of update.attempts was cut short or failed

files   == <<exe, new, bak, applied, attempts, pending, throttled>>
control == <<caller, windowAtCheck>>
timers  == <<autoUpdate, checkArmed, confirmArmed>>
outside == <<boxed, inWindow>>
history == <<trusted, runs, countLost>>
vars    == <<files, pc, control, timers, swaps, outside, history>>

Contents == Versions \cup {Absent, Torn, Short}

StagePCs   == {"stage", "stage_clear", "stage_launch"}
CheckPCs   == {"writing", "written", "mark_pending", "decide"}
ConfirmPCs == {"cf_applied", "cf_attempts", "cf_pending", "cf_bak", "cf_new"}
RollPCs    == {"rb_copy", "rb_new", "rb_applied", "rb_attempts", "rb_pending"}
PCs == {"off", "recover", "count", "relaunch", "up", "exiting"}
         \cup StagePCs \cup CheckPCs \cup ConfirmPCs \cup RollPCs

SwapStates == {"idle", "sleep", "copying", "copied", "moved"}

FlagsOK ==
    /\ applied \in BOOLEAN /\ pending \in BOOLEAN /\ throttled \in BOOLEAN
    /\ windowAtCheck \in BOOLEAN /\ autoUpdate \in BOOLEAN
    /\ checkArmed \in BOOLEAN /\ confirmArmed \in BOOLEAN
    /\ inWindow \in BOOLEAN /\ boxed \in BOOLEAN /\ countLost \in BOOLEAN

ImagesOK ==
    /\ exe \in Contents \ {Absent}
    /\ new \in Contents /\ bak \in Contents
    /\ trusted \subseteq Versions

CountersOK == attempts \in 0 .. MaxAttempts /\ runs \in 0 .. MaxAttempts + 1

ControlOK ==
    /\ pc \in PCs /\ caller \in {"recovery", "check"}
    /\ swaps \in [Jobs -> SwapStates]

TypeOK == FlagsOK /\ ImagesOK /\ CountersOK /\ ControlOK

(* A device as installed by hand, not yet started. *)
Init ==
    /\ exe \in Versions \ Bad
    /\ new = Absent /\ bak = Absent
    /\ applied = FALSE /\ attempts = 0 /\ pending = FALSE /\ throttled = FALSE
    /\ pc = "off" /\ caller = "check" /\ windowAtCheck = FALSE
    /\ autoUpdate = TRUE /\ checkArmed = FALSE /\ confirmArmed = FALSE
    /\ swaps = [j \in Jobs |-> "idle"]
    /\ inWindow \in BOOLEAN /\ boxed = FALSE
    /\ trusted = {exe} /\ runs = 0 /\ countLost = FALSE

NoSwaps == \A j \in Jobs : swaps[j] = "idle"

(* strictly newer, by IsNewerVersion *)
IsNewerVersion(candidate, current) == candidate > current

-----------------------------------------------------------------------------
(* Starting and ending an instance.                                        *)

(* The mutex exists while a process has a handle to it, and a second instance
   closes its own only after its message box: until then no instance can start. *)
MutexExists == pc # "off" \/ boxed

(* Auto-start at logon, a user, or anything else that runs the exe. *)
StartProgram ==
    /\ ~MutexExists /\ exe \in Versions
    /\ pc' = "recover"
    /\ UNCHANGED <<files, control, timers, swaps, outside, history>>

(* The same while the mutex exists: the box is shown, with the handle open. *)
StartSecond ==
    /\ MutexExists /\ exe \in Versions
    /\ boxed' = TRUE
    /\ UNCHANGED <<files, pc, control, timers, swaps, inWindow, history>>

(* Somebody clicks the boxes away. *)
DismissBox ==
    /\ boxed /\ boxed' = FALSE
    /\ UNCHANGED <<files, pc, control, timers, swaps, inWindow, history>>

(* The process ends: crash, kill, or the end of WinMain. *)
ProcessGone ==
    /\ pc' = "off"
    /\ checkArmed' = FALSE /\ confirmArmed' = FALSE
    /\ UNCHANGED <<autoUpdate, control>>

(* What a death of the process in the middle of writing update.attempts leaves:
   the old number, or a file truncated by CREATE_ALWAYS. *)
AttemptsCutShort ==
    \/ UNCHANGED <<attempts, countLost>>
    \/ pc = "count" /\ attempts' = 0 /\ countLost' = TRUE

(* The instance dies wherever it is; PowerShell jobs live on. *)
Crash ==
    /\ pc # "off"
    /\ ProcessGone /\ AttemptsCutShort
    /\ UNCHANGED <<exe, new, bak, applied, pending, throttled, swaps, outside, trusted, runs>>

(* Power is lost: the instance and every PowerShell die.  An interrupted
   Copy-Item leaves .bak as it is (Torn while copying). *)
PowerCut ==
    /\ pc # "off" \/ ~NoSwaps
    /\ ProcessGone /\ AttemptsCutShort
    /\ swaps' = [j \in Jobs |-> "idle"] /\ boxed' = FALSE
    /\ UNCHANGED <<exe, new, bak, applied, pending, throttled, inWindow, trusted, runs>>

(* ShutdownForUpdate, menu item Exit: the loop is left and WinMain returns. *)
ExitProcess ==
    /\ pc = "exiting"
    /\ ProcessGone
    /\ UNCHANGED <<files, swaps, outside, history>>

-----------------------------------------------------------------------------
(* HandleStartupRecovery, and WinMain's use of its result.                  *)

(* update.applied is missing: StartupResult::None.  The timers are armed as
   RunFullscreenMode arms them. *)
RecoverNone ==
    /\ pc = "recover" /\ ~applied
    /\ pc' = "up" /\ checkArmed' = autoUpdate /\ confirmArmed' = FALSE
    /\ UNCHANGED <<files, control, autoUpdate, swaps, outside, history>>

(* Slip: the marker alone decides, a leftover .new is not retried. *)
RecoverRetryForgotten ==
    /\ pc = "recover" /\ applied /\ new # Absent
    /\ pc' = "up" /\ checkArmed' = autoUpdate
    /\ UNCHANGED <<files, control, autoUpdate, confirmArmed, swaps, outside, history>>

(* .new is still there: the replacement is retried. *)
RecoverRetry ==
    /\ pc = "recover" /\ applied /\ new # Absent
    /\ pc' = "stage" /\ caller' = "recovery"
    /\ UNCHANGED <<files, windowAtCheck, timers, swaps, outside, history>>

(* Slip: the attempt about to be made is not counted in the comparison. *)
RecoverCountOffByOne ==
    /\ pc = "recover" /\ applied /\ new = Absent
    /\ pc' = IF attempts > MaxAttempts THEN "rb_copy" ELSE "count"
    /\ UNCHANGED <<files, control, timers, swaps, outside, history>>

(* One more start of an exe that was swapped in and not confirmed. *)
RecoverCount ==
    /\ pc = "recover" /\ applied /\ new = Absent
    /\ pc' = IF attempts + 1 > MaxAttempts THEN "rb_copy" ELSE "count"
    /\ UNCHANGED <<files, control, timers, swaps, outside, history>>

(* WriteTextFile(update.attempts), whose result is not looked at; then
   Confirming, and RunFullscreenMode arms both timers. *)
WriteAttempts ==
    /\ pc = "count"
    /\ \/ attempts' = attempts + 1 /\ UNCHANGED countLost
       \/ attempts' \in {0, attempts} /\ countLost' = TRUE
    /\ runs' = IF runs > MaxAttempts THEN runs ELSE runs + 1 \* bound of the history counter
    /\ pc' = "up" /\ checkArmed' = autoUpdate /\ confirmArmed' = TRUE
    /\ UNCHANGED <<exe, new, bak, applied, pending, throttled, control, autoUpdate,
                   swaps, outside, trusted>>

(* CopyFileW(bak, exe), result not looked at.  exe is the image of this very
   process: Windows refuses to open it for writing, so the copy has no effect;
   the other outcome is kept for a platform that allows it. *)
RollbackCopy ==
    /\ pc = "rb_copy" /\ pc' = "rb_new"
    /\ \/ exe' = exe
       \/ bak # Absent /\ exe' = bak
    /\ UNCHANGED <<new, bak, applied, attempts, pending, throttled, control, timers,
                   swaps, outside, history>>

(* DeleteFileW of one file, on the way from one program point to the next. *)
Delete(here, file, there) ==
    /\ pc = here /\ pc' = there
    /\ new' = IF file = "new" THEN Absent ELSE new
    /\ bak' = IF file = "bak" THEN Absent ELSE bak
    /\ applied' = IF file = "applied" THEN FALSE ELSE applied
    /\ attempts' = IF file = "attempts" THEN 0 ELSE attempts
    /\ pending' = IF file = "pending" THEN FALSE ELSE pending
    /\ runs' = IF file = "applied" THEN 0 ELSE runs
    /\ UNCHANGED <<exe, throttled, control, timers, swaps, outside, trusted, countLost>>

RollbackDelete ==
    \/ Delete("rb_new", "new", "rb_applied")
    \/ Delete("rb_applied", "applied", "rb_attempts")
    \/ Delete("rb_attempts", "attempts", "rb_pending")
    \/ Delete("rb_pending", "pending", "relaunch")

(* Relaunch, then CloseHandle(hMutex) and exit.  The child may ask for the mutex
   before this process has let go of it: it then shows "already running". *)
Relaunch ==
    /\ pc = "relaunch"
    /\ \/ exe \notin Versions /\ ProcessGone /\ UNCHANGED boxed
       \/ exe \in Versions /\ ProcessGone /\ boxed' = TRUE
       \/ exe \in Versions /\ ~boxed /\ pc' = "recover" /\ UNCHANGED <<control, timers, boxed>>
    /\ UNCHANGED <<files, swaps, inWindow, history>>

-----------------------------------------------------------------------------
(* StageApply.                                                              *)

(* Where StageApply returns to: recovery exits whatever the result, the timer
   handler shuts down on success and re-arms TIMER_AUTO_UPDATE on failure. *)
StageReturn(ok) ==
    IF caller = "recovery"
      THEN ProcessGone
      ELSE /\ pc' = IF ok THEN "exiting" ELSE "up"
           /\ checkArmed' = (checkArmed \/ ~ok)
           /\ UNCHANGED <<autoUpdate, confirmArmed, control>>

(* Slip: the marker is left to the instance that starts after the swap. *)
StageMarkForgotten ==
    /\ pc = "stage" /\ new # Absent
    /\ \/ pc' = "stage_clear" /\ UNCHANGED <<control, timers>>
       \/ StageReturn(FALSE)
    /\ UNCHANGED <<files, swaps, outside, history>>

(* Writes update.applied; a failing WriteTextFile may leave the file behind. *)
StageMark ==
    /\ pc = "stage" /\ new # Absent
    /\ \/ applied' = TRUE /\ pc' = "stage_clear" /\ UNCHANGED <<control, timers>>
       \/ (applied' = TRUE \/ UNCHANGED applied) /\ StageReturn(FALSE)
    /\ UNCHANGED <<exe, new, bak, attempts, pending, throttled, swaps, outside, history>>

(* Deletes update.pending. *)
StageClear == Delete("stage_clear", "pending", "stage_launch")

(* ShellExecuteW of the detached PowerShell, which may fail. *)
StageLaunch ==
    /\ pc = "stage_launch"
    /\ \/ \E j \in Jobs :
            /\ swaps[j] = "idle"
            /\ swaps' = [swaps EXCEPT ![j] = "sleep"]
            /\ StageReturn(TRUE)
       \/ UNCHANGED swaps /\ StageReturn(FALSE)
    /\ UNCHANGED <<files, outside, history>>

-----------------------------------------------------------------------------
(* The detached PowerShell.                                                 *)

(* Slip: the script does not look whether the copy has made a .bak. *)
SwapCopyUnchecked(j) ==
    /\ swaps[j] = "sleep"
    /\ \/ bak' = Torn /\ swaps' = [swaps EXCEPT ![j] = "copying"]
       \/ UNCHANGED bak /\ swaps' = [swaps EXCEPT ![j] = "copied"]
    /\ UNCHANGED <<exe, new, applied, attempts, pending, throttled, pc, control, timers,
                   outside, history>>

(* Copy-Item exe -> .bak begins, or fails.  Without a .bak the script stops. *)
SwapCopy(j) ==
    /\ swaps[j] = "sleep"
    /\ \/ bak' = Torn /\ swaps' = [swaps EXCEPT ![j] = "copying"]
       \/ /\ UNCHANGED bak
          /\ swaps' = [swaps EXCEPT ![j] = IF bak = Absent THEN "idle" ELSE "copied"]
    /\ UNCHANGED <<exe, new, applied, attempts, pending, throttled, pc, control, timers,
                   outside, history>>

SwapCopied(j) ==
    /\ swaps[j] = "copying"
    /\ bak' = exe
    /\ swaps' = [swaps EXCEPT ![j] = "copied"]
    /\ UNCHANGED <<exe, new, applied, attempts, pending, throttled, pc, control, timers,
                   outside, history>>

(* Move-Item .new -> exe.  It fails while a process runs from exe, a message box
   included, and may fail for reasons of its own; the script goes on either way. *)
SwapMove(j) ==
    /\ swaps[j] = "copied" /\ ~MutexExists /\ new # Absent
    /\ exe' = new /\ new' = Absent /\ runs' = 0
    /\ swaps' = [swaps EXCEPT ![j] = "moved"]
    /\ UNCHANGED <<bak, applied, attempts, pending, throttled, pc, control, timers,
                   outside, trusted, countLost>>

SwapMoveFails(j) ==
    /\ swaps[j] = "copied"
    /\ swaps' = [swaps EXCEPT ![j] = "moved"]
    /\ UNCHANGED <<files, pc, control, timers, outside, history>>

(* Start-Process exe, whatever happened to the move. *)
SwapStart(j) ==
    /\ swaps[j] = "moved"
    /\ swaps' = [swaps EXCEPT ![j] = "idle"]
    /\ pc' = IF exe \in Versions /\ ~MutexExists THEN "recover" ELSE pc
    /\ boxed' = (boxed \/ (exe \in Versions /\ MutexExists))
    /\ UNCHANGED <<files, control, timers, inWindow, history>>

SwapStep(j) ==
    SwapCopy(j) \/ SwapCopied(j) \/ SwapMove(j) \/ SwapMoveFails(j) \/ SwapStart(j)

-----------------------------------------------------------------------------
(* CheckAndApply, called when TIMER_AUTO_UPDATE reaches the message loop.  The
   first tick comes 10 s after the start and a swap sleeps 3 s: a swap launched
   before an instance started has ended when that instance's timers fire
   (NoSwaps).  A modal dialog swallows ticks, so either timer may come first. *)

(* The function returns without an update; the handler re-arms the timer. *)
CheckEnds ==
    /\ pc' = "up" /\ checkArmed' = TRUE
    /\ UNCHANGED <<autoUpdate, confirmArmed, caller>>

(* Settings off, a staged file outside the window, a check that is not due, an
   unreadable manifest, or a failed or rejected download. *)
CheckNothing ==
    /\ pc = "up" /\ checkArmed /\ NoSwaps
    /\ \/ ~autoUpdate /\ UNCHANGED <<pending, throttled>>
       \/ autoUpdate /\ pending /\ new # Absent /\ ~inWindow /\ UNCHANGED <<pending, throttled>>
       \/ autoUpdate /\ (pending => new = Absent) /\ pending' = FALSE /\ throttled' = throttled
       \/ /\ autoUpdate /\ (pending => new = Absent) /\ ~throttled
          /\ pending' = FALSE /\ throttled' = TRUE
    /\ CheckEnds
    /\ UNCHANGED <<exe, new, bak, applied, attempts, windowAtCheck, swaps, outside, history>>

(* A verified version is already staged and the window is open. *)
CheckStaged ==
    /\ pc = "up" /\ checkArmed /\ NoSwaps /\ autoUpdate
    /\ pending /\ new # Absent /\ inWindow
    /\ pc' = "stage" /\ caller' = "check" /\ windowAtCheck' = TRUE
    /\ UNCHANGED <<files, timers, swaps, outside, history>>

(* Slip: the marker of a staged file that was lost is left standing. *)
CheckDownloadKeepsMarker ==
    /\ pc = "up" /\ checkArmed /\ NoSwaps /\ autoUpdate
    /\ (pending => new = Absent) /\ ~throttled
    /\ new' = Torn /\ pc' = "writing" /\ windowAtCheck' = inWindow
    /\ UNCHANGED <<exe, bak, applied, attempts, pending, throttled, caller, timers, swaps,
                   outside, history>>

(* The download is in memory (and its SHA-256 matched, when self-hosted);
   CREATE_ALWAYS truncates .new and WriteFile begins. *)
CheckDownload ==
    /\ pc = "up" /\ checkArmed /\ NoSwaps /\ autoUpdate
    /\ (pending => new = Absent) /\ ~throttled
    /\ pending' = FALSE
    /\ new' = Torn /\ pc' = "writing" /\ windowAtCheck' = inWindow
    /\ UNCHANGED <<exe, bak, applied, attempts, throttled, caller, timers, swaps,
                   outside, history>>

(* Slip: any version the manifest names is downloaded. *)
CheckWrittenAnyVersion ==
    /\ pc = "writing" /\ pc' = "written"
    /\ new' \in Versions
    /\ UNCHANGED <<exe, bak, applied, attempts, pending, throttled, control, timers,
                   swaps, outside, history>>

(* WriteAllBytes ends.  A self-hosted download was chosen by its manifest as
   newer than this version and matched its SHA-256.  A GitHub one can be any
   published exe, and Short: WinHttpGet returns true for a body that broke off,
   of which only the first MB has to be there. *)
CheckWritten ==
    /\ pc = "writing" /\ pc' = "written"
    /\ \/ new' \in {v \in Versions : Source = "self" => IsNewerVersion(v, exe)}
       \/ Source = "github" /\ new' = Short
    /\ UNCHANGED <<exe, bak, applied, attempts, pending, throttled, control, timers,
                   swaps, outside, history>>

(* WriteAllBytes fails: the part it wrote stays. *)
CheckWriteFails ==
    /\ pc = "writing"
    /\ throttled' = TRUE
    /\ CheckEnds
    /\ UNCHANGED <<exe, new, bak, applied, attempts, pending, windowAtCheck, swaps,
                   outside, history>>

(* The FileVersion of .new can be read and is newer.  A Short one has it when the
   version resource came before the connection broke. *)
FileVersionPasses == new \in Versions => IsNewerVersion(new, exe)
FileVersionFails  == new \in Versions => ~IsNewerVersion(new, exe)

(* GitHub: the FileVersion of .new decides; then WriteTimestamps. *)
CheckVerify ==
    /\ pc = "written"
    /\ throttled' = TRUE
    /\ \/ /\ Source = "self" \/ FileVersionPasses
          /\ pc' = "mark_pending"
          /\ UNCHANGED <<new, caller, timers>>
       \/ /\ Source = "github" /\ FileVersionFails
          /\ new' = Absent /\ CheckEnds
    /\ UNCHANGED <<exe, bak, applied, attempts, pending, windowAtCheck, swaps, outside, history>>

(* Writes update.pending, or drops .new when that fails. *)
CheckMarkPending ==
    /\ pc = "mark_pending"
    /\ \/ /\ pending' = TRUE /\ pc' = "decide"
          /\ UNCHANGED <<new, caller, timers>>
       \/ pending' \in BOOLEAN /\ new' = Absent /\ CheckEnds
    /\ UNCHANGED <<exe, bak, applied, attempts, throttled, windowAtCheck, swaps, outside, history>>

(* InUpdateWindow for the `now` read before the download. *)
CheckDecide ==
    /\ pc = "decide"
    /\ IF windowAtCheck
         THEN pc' = "stage" /\ caller' = "check" /\ UNCHANGED timers
         ELSE CheckEnds
    /\ UNCHANGED <<files, windowAtCheck, swaps, outside, history>>

-----------------------------------------------------------------------------
(* ConfirmAndCleanup, called by TIMER_UPDATE_CONFIRM after 60 s up.         *)

(* Slip: the counter is deleted before the marker it belongs to. *)
ConfirmDeleteCounterFirst ==
    \/ Delete("cf_applied", "attempts", "cf_attempts")
    \/ Delete("cf_attempts", "applied", "cf_pending")
    \/ Delete("cf_pending", "pending", "cf_bak")
    \/ Delete("cf_bak", "bak", "cf_new")
    \/ Delete("cf_new", "new", "up")

ConfirmTick ==
    /\ pc = "up" /\ confirmArmed /\ NoSwaps /\ exe \notin Bad
    /\ confirmArmed' = FALSE
    /\ pc' = "cf_applied"
    /\ trusted' = trusted \cup {exe}
    /\ UNCHANGED <<files, control, autoUpdate, checkArmed, swaps, outside, runs, countLost>>

ConfirmDelete ==
    \/ Delete("cf_applied", "applied", "cf_attempts")
    \/ Delete("cf_attempts", "attempts", "cf_pending")
    \/ Delete("cf_pending", "pending", "cf_bak")
    \/ Delete("cf_bak", "bak", "cf_new")
    \/ Delete("cf_new", "new", "up")

-----------------------------------------------------------------------------
(* The operator and the clock.                                              *)

(* OnHotkeyPressed, settings saved: all three timers are killed and only the
   update check is armed again. *)
SaveSettings ==
    /\ pc = "up"
    /\ autoUpdate' \in BOOLEAN
    /\ checkArmed' = autoUpdate' /\ confirmArmed' = FALSE
    /\ UNCHANGED <<files, pc, control, swaps, outside, history>>

(* OnHotkeyPressed, Exit. *)
ExitByUser ==
    /\ pc = "up" /\ pc' = "exiting"
    /\ UNCHANGED <<files, control, timers, swaps, outside, history>>

(* The check interval (6 h, or a day for GitHub) has passed. *)
CheckDue ==
    /\ throttled /\ throttled' = FALSE
    /\ UNCHANGED <<exe, new, bak, applied, attempts, pending, pc, control, timers, swaps,
                   outside, history>>

(* The maintenance window opens or closes. *)
WindowTurns ==
    /\ inWindow' = ~inWindow
    /\ UNCHANGED <<files, pc, control, timers, swaps, boxed, history>>

-----------------------------------------------------------------------------
(* Steps of the UI thread that the code takes on its own. *)
Recovery == RecoverNone \/ RecoverRetry \/ RecoverCount \/ WriteAttempts
              \/ RollbackCopy \/ RollbackDelete \/ Relaunch
Staging  == StageMark \/ StageClear \/ StageLaunch
Checking == CheckWritten \/ CheckWriteFails \/ CheckVerify \/ CheckMarkPending \/ CheckDecide
CheckTick == CheckNothing \/ CheckStaged \/ CheckDownload
ProcessStep == Recovery \/ Staging \/ Checking \/ ConfirmDelete \/ ExitProcess

Next ==
    \/ ProcessStep
    \/ CheckTick \/ ConfirmTick
    \/ \E j \in Jobs : SwapStep(j)
    \/ StartProgram \/ StartSecond \/ DismissBox \/ Crash \/ PowerCut
    \/ SaveSettings \/ ExitByUser \/ CheckDue \/ WindowTurns

Spec == Init /\ [][Next]_vars

(* What the code's own scheduling gives: the UI thread runs on, a timer that is
   set is served, a PowerShell runs to its end.  Nobody has to start the program,
   save settings, or open the maintenance window. *)
Fairness ==
    /\ WF_vars(ProcessStep) /\ WF_vars(CheckTick) /\ WF_vars(ConfirmTick)
    /\ \A j \in Jobs : WF_vars(SwapStep(j))

FairSpec == Spec /\ Fairness

(* A device that is switched on again, is left alone from some point on, and
   whose locks and disk errors do not last: the setting in which "the next boot
   retries again" (auto_update.cpp:359-363) means something. *)
RestartSpec ==
    /\ FairSpec
    /\ WF_vars(StartProgram /\ NoSwaps) /\ WF_vars(DismissBox)
    /\ SF_vars(StageMark /\ pc' = "stage_clear")
    /\ \A j \in Jobs : SF_vars(StageLaunch /\ swaps'[j] = "sleep") /\ SF_vars(SwapMove(j))
                         /\ SF_vars(SwapCopy(j) /\ swaps'[j] = "copying")
    /\ <>[][~Crash /\ ~PowerCut /\ ~StartSecond /\ (StartProgram => NoSwaps)]_vars

-----------------------------------------------------------------------------
(* Safety.                                                                  *)

(* auto_update.cpp:379 rolls back when the counter exceeds MAX_ATTEMPTS.  However
   crashes fall between the deletes and writes of the markers, no swapped-in exe
   is started more than MaxAttempts times under the marker without being
   confirmed, unless a write of the counter itself was lost. *)
BoundedUnconfirmedStarts == ~countLost => runs <= MaxAttempts

(* auto_update.cpp:294-296 makes .bak before the move and auto_update.cpp:399-402
   deletes it after the markers: whatever the crash, an exe nobody vouches for
   yet has a .bak next to it. *)
FallbackUntilTrusted == exe \in trusted \/ bak # Absent

(* auto_update.cpp:418-426 applies a staged file on the strength of update.pending
   alone: the marker must never stand beside a .new whose writing was cut or that
   was not checked, whichever of the writes and deletes in between a crash
   prevents.  Self-hosted, that is a whole and newer version; from GitHub it may be
   a download that broke off, which the FileVersion check does not tell. *)
PendingIsVerified ==
    pending /\ new # Absent =>
        \/ new \in Versions /\ exe \in Versions /\ IsNewerVersion(new, exe)
        \/ new = Short /\ Source = "github"

(* auto_update.cpp:287-288 marks the update before the swap is launched: no exe is
   ever replaced while update.applied is missing, even by a PowerShell that
   outlived the instance that launched it. *)
ReplacedUnderMarker == [][exe' # exe => applied]_vars

(* auto_update.cpp:473: with the self-hosted source, only a strictly newer version
   is ever moved over the executable (rollback aside). *)
SelfHostedNeverDowngrades ==
    [][Source = "self" /\ exe' # exe /\ exe' \in Versions /\ pc # "rb_copy"
         => exe \in Versions /\ IsNewerVersion(exe', exe)]_vars

(* auto_update.cpp:359-363: an interrupted replacement met at startup is retried,
   boot after boot, until .new has become the exe. *)
InterruptedSwapCompletes ==
    (pc = "recover" /\ applied /\ new # Absent) ~> new = Absent

-----------------------------------------------------------------------------
(* What the documents say and the code does not keep.                       *)

(* app_common.h:76-78: an exe that stays up for UPDATE_CONFIRM_SEC is trusted;
   settings saved once in that minute must not change that. *)
HealthyIsConfirmed ==
    <>[][~SaveSettings]_vars =>
        ((pc = "up" /\ applied /\ new = Absent /\ exe \notin trusted \cup Bad)
            ~> (~applied \/ pc # "up"))

-----------------------------------------------------------------------------
(* The inductive invariant behind the safety properties.                    *)

AfterMark == {"rb_attempts", "rb_pending", "relaunch",
              "cf_attempts", "cf_pending", "cf_bak", "cf_new"}

(* The counter never lags behind the starts it counts. *)
CountInv ==
    /\ ~applied => runs = 0
    /\ ~countLost /\ applied => runs <= attempts
    /\ pc = "count" => applied /\ attempts < MaxAttempts
    /\ pc \in AfterMark => ~applied

(* Which instances run which image, and whose word stands for it. *)
ImageInv ==
    /\ pc \notin {"off", "rb_new", "rb_applied", "rb_attempts", "rb_pending", "relaunch"}
         => exe \in Versions
    /\ pc \in ConfirmPCs => exe \in trusted
    /\ FallbackUntilTrusted

(* Swaps have a fallback, and run on after their instance only with the marker
   standing or with nothing left to move. *)
SwapInv ==
    /\ \A j \in Jobs : swaps[j] \in {"copying", "copied"} => bak # Absent
    /\ ~NoSwaps /\ new # Absent => applied
    /\ pc \in CheckPCs \cup ConfirmPCs => NoSwaps
    /\ pc \in {"stage_clear", "stage_launch", "rb_copy"} => applied

(* What is staged, and how far its verification has come. *)
StagedInv ==
    /\ PendingIsVerified
    /\ pc \in RollPCs => new = Absent
    /\ pc \in {"writing", "written", "mark_pending"} => ~pending
    /\ pc \in {"written", "mark_pending", "decide"} => new \in Versions \cup {Short}
    /\ pc \in {"mark_pending", "decide"} => FileVersionPasses
    /\ new = Short => Source = "github"
    /\ new # Absent => exe \in Versions
    /\ Source = "self" /\ new \in Versions => IsNewerVersion(new, exe)

IInv == TypeOK /\ CountInv /\ ImageInv /\ SwapInv /\ StagedInv
=============================================================================
