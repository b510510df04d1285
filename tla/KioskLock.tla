------------------------------- MODULE KioskLock -------------------------------
(***************************************************************************)
(* The kiosk lock: the keyboard and mouse hooks (hook_manager.cpp), the     *)
(* dialogs they open (OnHotkeyPressed in main.cpp, dialogs.cpp), and the    *)
(* ways out of the program (the menu, a staged update, a WebView2 that      *)
(* cannot be created).                                                      *)
(*                                                                          *)
(* All of it runs on the UI thread.  A dialog is opened inside the hook     *)
(* procedure and pumps messages itself, so the hook runs again, and the     *)
(* error of the asynchronous WebView2 creation comes in, below it.  A step  *)
(* is what the thread does between two messages.  What a modal loop takes   *)
(* off the queue for the main window goes to WndProc, which ignores the     *)
(* timers of the main loop.                                                 *)
(*                                                                          *)
(* The modifiers are asked for at each event (GetAsyncKeyState), so they    *)
(* are inputs of an event here.  Windows calls the hook for every event.    *)
(***************************************************************************)
EXTENDS Naturals

CONSTANT MaxAttempts    \* MAX_PWD_ATTEMPTS

ASSUME AttemptsAssumption == MaxAttempts \in Nat \ {0}

VARIABLES
    (* the desktop *)
    fg,             \* foreground: "main" window, the "dialog" on top, or an "other" program's
    held,           \* keys that are down
    (* hook_manager.cpp *)
    installed,      \* devices whose hook is set: g_hook the keyboard's, g_mouseHook the mouse's
    locked,         \* g_inputLocked
    armed,          \* g_escArmed, g_altF4Armed, g_f5Armed
    guarded,        \* less than 400 ms since g_lastVerifyTick
    (* the modal loops, the outer one first *)
    dialog,         \* dialog of dialogs.cpp that is open
    box,            \* message box over it, or in its place
    initBox,        \* message box of OnWebViewInitError, on top of all
    attempts,       \* attemptCount of the password dialog
    verified,       \* PasswordDialogData.verified, then OnHotkeyPressed's copy while it runs
    (* main.cpp *)
    dialogActive,   \* g_state.dialogActive
    exiting,        \* g_state.exiting
    window,         \* g_state.hMainWnd is set
    creating,       \* WebView2 is being created
    enabled,        \* g_state.config.remoteEnabled
    autoUpdate,     \* g_state.config.autoUpdate
    allowed,        \* g_state.remoteSyncAllowed
    token,          \* there is a device token, in memory or in its file
    timers,         \* TIMER_REMOTE_CONFIG and TIMER_AUTO_UPDATE that are set
    quit,           \* WM_QUIT is posted
    ended,          \* RunFullscreenMode has returned
    (* history, read by the properties only *)
    pressed,        \* keys that are down, the last key-down (first or repeat) on the locked page
    closedBy,       \* the ESC that is down closed the dialog, less than 400 ms ago
    reached         \* devices whose hook is set and whose input has reached the page, while running

desktop == <<fg, held>>
hook    == <<installed, locked, armed, guarded>>
modal   == <<dialog, box, initBox, attempts, verified>>
flow    == <<dialogActive, exiting, window, creating, quit, ended>>
remote  == <<enabled, autoUpdate, allowed, token, timers>>
history == <<pressed, closedBy, reached>>
vars    == <<desktop, hook, modal, flow, remote, history>>

Keys    == {"esc", "f4", "f5"}
Devices == {"keyboard", "mouse"}
Dialogs == {"none", "password", "menu", "settings", "register"}
Boxes   == {"none", "wrong", "refused", "warning", "unreachable", "rejected", "syncFailed"}

TypeOK ==
    /\ fg \in {"main", "dialog", "other"} /\ held \subseteq Keys
    /\ installed \subseteq Devices /\ locked \in BOOLEAN /\ guarded \in BOOLEAN
    /\ armed \subseteq Keys
    /\ dialog \in Dialogs /\ box \in Boxes /\ initBox \in BOOLEAN
    /\ attempts \in 0 .. MaxAttempts /\ verified \in BOOLEAN
    /\ dialogActive \in BOOLEAN /\ exiting \in BOOLEAN /\ window \in BOOLEAN
    /\ creating \in BOOLEAN /\ quit \in BOOLEAN /\ ended \in BOOLEAN
    /\ enabled \in BOOLEAN /\ autoUpdate \in BOOLEAN /\ allowed \in BOOLEAN
    /\ token \in BOOLEAN /\ timers \subseteq {"remote", "update"}
    /\ pressed \subseteq Keys
    /\ closedBy \in BOOLEAN /\ reached \subseteq Devices

(* Entry into the message loop: the start has settled remoteSyncAllowed.  The
   keyboard hook may not have been installed ("degraded mode"), and then the mouse
   hook is not tried; or the mouse hook alone failed, and InstallHook goes on. *)
Init ==
    /\ fg = "main" /\ held = {}
    /\ installed \in {{}, {"keyboard"}, Devices} /\ locked = TRUE /\ armed = {} /\ guarded = FALSE
    /\ dialog = "none" /\ box = "none" /\ initBox = FALSE /\ attempts = 0
    /\ verified = FALSE
    /\ dialogActive = FALSE /\ exiting = FALSE /\ window = TRUE /\ creating = TRUE
    /\ quit = FALSE /\ ended = FALSE
    /\ enabled \in BOOLEAN /\ autoUpdate \in BOOLEAN /\ token \in BOOLEAN
    /\ enabled => token
    /\ allowed = enabled
    /\ timers = (IF enabled THEN {"remote"} ELSE {}) \cup (IF autoUpdate THEN {"update"} ELSE {})
    /\ pressed = {} /\ closedBy = FALSE /\ reached = {}

Pumping == dialog = "none" /\ box = "none" /\ ~initBox      \* in the main loop
Answers == fg = "dialog" /\ ~quit                           \* the user can answer the dialog

-----------------------------------------------------------------------------
(* OnHotkeyPressed and what it calls.  Each operator is a part between two
   messages; it says nothing of the keys. *)

(* Slip: the tick is never taken. *)
ReturnToHookSlip ==
    /\ dialogActive' = FALSE /\ locked' = TRUE /\ UNCHANGED guarded
    /\ dialog' = "none" /\ box' = "none" /\ verified' = FALSE
    /\ fg' = IF fg = "dialog" THEN "main" ELSE fg

(* Back in the hook procedure: the lock is on again, then the tick is taken. *)
ReturnToHook ==
    /\ dialogActive' = FALSE /\ locked' = TRUE /\ guarded' = TRUE
    /\ dialog' = "none" /\ box' = "none" /\ verified' = FALSE
    /\ fg' = IF fg = "dialog" THEN "main" ELSE fg

StayOpen == UNCHANGED <<dialogActive, locked, guarded, verified, fg>>
Show(d, b) == dialog' = d /\ box' = b /\ StayOpen

(* Slip: the attempts of the dialog before are still counted. *)
OnHotkeyPressedSlip ==
    IF exiting \/ dialogActive
    THEN /\ guarded' = TRUE
         /\ UNCHANGED <<dialogActive, locked, modal, fg>>
    ELSE /\ dialogActive' = TRUE /\ locked' = FALSE
         /\ dialog' = "password" /\ verified' = FALSE /\ fg' = "dialog"
         /\ UNCHANGED <<guarded, box, initBox, attempts>>

(* The hotkey: unlock the input and ask for the password. *)
OnHotkeyPressed ==
    IF exiting \/ dialogActive
    THEN /\ guarded' = TRUE
         /\ UNCHANGED <<dialogActive, locked, modal, fg>>
    ELSE /\ dialogActive' = TRUE /\ locked' = FALSE
         /\ dialog' = "password" /\ attempts' = 0 /\ verified' = FALSE /\ fg' = "dialog"
         /\ UNCHANGED <<guarded, box, initBox>>

(* The timers that are left after KillTimer, and ScheduleNextRemotePoll. *)
Rearmed(u) == IF window /\ u THEN {"update"} ELSE {}
ScheduleNextRemotePoll(left) ==
    timers' = left \cup IF allowed' /\ enabled' /\ window THEN {"remote"} ELSE {}

(* Slip: a sync that failed sets no timer. *)
PerformRemoteSyncSlip(left) ==
    \/ ScheduleNextRemotePoll(left) /\ ReturnToHook
    \/ timers' = left /\ Show("none", "syncFailed")

(* PerformRemoteSync(false) with a token, and the box when it failed. *)
PerformRemoteSync(left) ==
    /\ ScheduleNextRemotePoll(left)
    /\ ReturnToHook \/ Show("none", "syncFailed")

(* The settings are saved: new timers, then the evaluation chain of
   EnsureRemoteRegistration. *)
AfterSave(e, u) ==
    /\ enabled' = e /\ autoUpdate' = u /\ UNCHANGED token
    /\ \/ /\ ~e
          /\ allowed' = FALSE /\ timers' = Rearmed(u)
          /\ ReturnToHook
       \/ /\ e /\ UNCHANGED allowed
          /\ timers' = Rearmed(u)
          /\ Show("none", "unreachable")
       \/ /\ e /\ token /\ allowed' = TRUE
          /\ PerformRemoteSync(Rearmed(u))
       \/ /\ e /\ ~token /\ allowed' = TRUE
          /\ timers' = Rearmed(u)
          /\ Show("register", "none")

(* Slip: after the last attempt the dialog is left without locking again. *)
BoxClosedSlip ==
    \/ /\ box = "wrong"
       /\ IF attempts >= MaxAttempts
          THEN /\ dialogActive' = FALSE /\ dialog' = "none" /\ box' = "none" /\ verified' = FALSE
               /\ fg' = (IF fg = "dialog" THEN "main" ELSE fg) /\ guarded' = TRUE
               /\ UNCHANGED locked
          ELSE Show("password", "none")
       /\ UNCHANGED remote
    \/ /\ box \in {"refused", "rejected"}
       /\ Show(dialog, "none") /\ UNCHANGED remote
    \/ /\ box = "warning"
       /\ AfterSave(enabled, autoUpdate)
    \/ /\ box = "unreachable"
       /\ enabled' = FALSE /\ allowed' = FALSE
       /\ ReturnToHook
       /\ UNCHANGED <<autoUpdate, token, timers>>
    \/ /\ box = "syncFailed"
       /\ ReturnToHook /\ UNCHANGED remote

(* A message box is closed; what the code does next. *)
BoxClosed ==
    \/ /\ box = "wrong"
       /\ IF attempts >= MaxAttempts THEN ReturnToHook ELSE Show("password", "none")
       /\ UNCHANGED remote
    \/ /\ box \in {"refused", "rejected"}    \* rejected: the registration is asked for again
       /\ Show(dialog, "none") /\ UNCHANGED remote
    \/ /\ box = "warning"
       /\ AfterSave(enabled, autoUpdate)
    \/ /\ box = "unreachable"
       /\ enabled' = FALSE /\ allowed' = FALSE
       /\ ReturnToHook
       /\ UNCHANGED <<autoUpdate, token, timers>>
    \/ /\ box = "syncFailed"
       /\ ReturnToHook /\ UNCHANGED remote

(* Slip: the menu is shown however the password dialog ended. *)
CancelledSlip ==
    \/ box # "none" /\ BoxClosed
    \/ /\ box = "none" /\ dialog \in {"register", "password"}
       /\ Show(IF dialog = "password" THEN "menu" ELSE dialog, "none") /\ UNCHANGED remote
    \/ /\ box = "none" /\ dialog \in {"menu", "settings"}
       /\ ReturnToHook /\ UNCHANGED remote

(* The dialog on top gets ESC, Alt+F4 or its cancel button.  The registration
   has none of them. *)
Cancelled ==
    \/ box # "none" /\ BoxClosed
    \/ /\ box = "none" /\ dialog = "register"
       /\ Show("register", "none") /\ UNCHANGED remote
    \/ /\ box = "none" /\ dialog \in {"password", "menu", "settings"}
       /\ ReturnToHook /\ UNCHANGED remote

(* The box of OnWebViewInitError is closed: the program is to end. *)
InitBoxClosed ==
    /\ initBox' = FALSE /\ exiting' = TRUE /\ quit' = TRUE
    /\ fg' = IF fg = "dialog" /\ dialog = "none" /\ box = "none" THEN "main" ELSE fg

Close(how) ==
    IF initBox
    THEN InitBoxClosed /\ UNCHANGED <<dialog, box, attempts, verified, dialogActive, locked,
                                      guarded, window, creating, ended, remote>>
    ELSE how /\ UNCHANGED <<initBox, attempts, exiting, window, creating, quit, ended>>

-----------------------------------------------------------------------------
(* LowLevelKeyboardProc and LowLevelMouseProc. *)

(* The guard against auto-repeat comes before everything else. *)
Guards(k) == "keyboard" \in installed /\ k = "esc" /\ guarded
(* Not locked, or not the main window: the event goes on to the foreground window. *)
Passes(d) == d \notin installed \/ ~locked \/ fg # "main"
(* Slip: a pass-through leaves Alt+F4 armed. *)
DisarmedSlip == armed \ {"esc"}
Disarmed == armed \ {"esc", "f4"}
Reach(d) == reached' = reached \cup IF d \in installed /\ ~exiting /\ fg = "main" THEN {d} ELSE {}

(* An ESC, first press or repeat or release, within the 400 ms. *)
SwallowEsc ==
    /\ ~ended /\ Guards("esc")
    /\ \/ /\ held' = held \cup {"esc"}
          /\ UNCHANGED closedBy
       \/ /\ "esc" \in held /\ held' = held \ {"esc"}
          /\ closedBy' = FALSE
    /\ pressed' = pressed \ {"esc"}
    /\ UNCHANGED <<fg, hook, modal, flow, remote, reached>>

(* A key goes down (or repeats) on the locked page. *)
PressOnPage(k, alt, ctrl) ==
    /\ ~ended /\ ~Guards(k) /\ ~Passes("keyboard")
    /\ held' = held \cup {k}
    /\ pressed' = pressed \cup {k}
    /\ armed' = IF \/ k = "esc" /\ ~alt /\ ~ctrl
                   \/ k = "f4" /\ alt /\ ~ctrl
                   \/ k = "f5"
                THEN armed \cup {k} ELSE armed
    /\ UNCHANGED <<fg, installed, locked, guarded, modal, flow, remote, closedBy, reached>>

(* A key goes down anywhere else.  ESC and Alt+F4 close the dialog that gets them. *)
PressElsewhere(k, alt) ==
    /\ ~ended /\ ~Guards(k) /\ Passes("keyboard")
    /\ held' = held \cup {k}
    /\ pressed' = pressed \ {k}
    /\ armed' = Disarmed
    /\ Reach("keyboard")
    /\ IF Answers /\ (k = "esc" \/ (k = "f4" /\ alt))
       THEN Close(Cancelled)
       ELSE UNCHANGED <<fg, locked, guarded, modal, flow, remote>>
    /\ closedBy' = (closedBy \/ (k = "esc" /\ dialogActive /\ ~dialogActive'))
    /\ UNCHANGED installed

(* A key comes up on the locked page: what it armed is done.  The reload that F5
   asks for is PageMonitor's and RefreshSchedule's. *)
ReleaseOnPage(k) ==
    /\ ~ended /\ ~Guards(k) /\ ~Passes("keyboard")
    /\ k \in held /\ held' = held \ {k} /\ pressed' = pressed \ {k}
    /\ IF k \in armed /\ k # "f5"
       THEN armed' = Disarmed /\ OnHotkeyPressed
       ELSE armed' = armed \ {k} /\ UNCHANGED <<dialogActive, locked, guarded, modal, fg>>
    /\ closedBy' = (closedBy /\ k # "esc")
    /\ UNCHANGED <<installed, exiting, window, creating, quit, ended, remote, reached>>

(* A key comes up anywhere else. *)
ReleaseElsewhere(k) ==
    /\ ~ended /\ ~Guards(k) /\ Passes("keyboard")
    /\ k \in held /\ held' = held \ {k} /\ pressed' = pressed \ {k}
    /\ armed' = Disarmed
    /\ closedBy' = (closedBy /\ k # "esc")
    /\ Reach("keyboard")
    /\ UNCHANGED <<fg, installed, locked, guarded, modal, flow, remote>>

(* Any other key, or the mouse: swallowed on the locked page. *)
OtherInput(d) ==
    /\ ~ended /\ Passes(d)
    /\ armed' = IF d = "keyboard" THEN Disarmed ELSE armed
    /\ Reach(d)
    /\ UNCHANGED <<desktop, installed, locked, guarded, modal, flow, remote, pressed, closedBy>>

(* Another program gets the foreground or gives it back: by Alt+Tab, which the
   hook sees, or by itself.  The owner of an open dialog cannot be activated. *)
SwitchWindow(altTab) ==
    /\ ~ended /\ window
    /\ fg' = IF fg # "other" THEN "other" ELSE IF Pumping THEN "main" ELSE "dialog"
    /\ armed' = IF altTab THEN Disarmed ELSE armed
    /\ UNCHANGED <<held, installed, locked, guarded, modal, flow, remote, history>>

(* 400 ms have passed. *)
GuardEnds ==
    /\ ~ended /\ guarded
    /\ guarded' = FALSE /\ closedBy' = FALSE
    /\ UNCHANGED <<desktop, installed, locked, armed, modal, flow, remote, pressed, reached>>

-----------------------------------------------------------------------------
(* The dialogs. *)

Answering(d) == ~ended /\ Answers /\ dialog = d /\ box = "none" /\ ~initBox

(* IDOK of the password dialog. *)
PasswordEntered ==
    /\ Answering("password")
    /\ \/ dialog' = "menu" /\ verified' = TRUE /\ UNCHANGED <<box, attempts>>
       \/ box' = "wrong" /\ attempts' = attempts + 1 /\ UNCHANGED <<dialog, verified>>
    /\ UNCHANGED <<desktop, hook, initBox, flow, remote, history>>

(* The hook is removed and the window destroyed, then WM_QUIT is posted.  The
   window's timers go with it. *)
Shutdown ==
    /\ exiting' = TRUE /\ window' = FALSE /\ quit' = TRUE
    /\ installed' = {} /\ armed' = {} /\ timers' = {}
    /\ fg' = "other"

(* The menu's Exit, from inside the hook procedure: the input stays unlocked. *)
MenuExit ==
    /\ Answering("menu")
    /\ Shutdown
    /\ dialog' = "none" /\ dialogActive' = FALSE /\ verified' = FALSE /\ guarded' = TRUE
    /\ UNCHANGED <<held, locked, box, initBox, attempts, creating, ended, enabled, autoUpdate,
                   allowed, token, history>>

(* The menu's Settings. *)
MenuSettings ==
    /\ Answering("menu")
    /\ dialog' = "settings"
    /\ UNCHANGED <<desktop, hook, box, initBox, attempts, verified, flow, remote, history>>

(* IDOK of the settings is refused, before or after some of the fields were
   copied into the running configuration, or the file could not be written. *)
SettingsRefused(e, u) ==
    /\ Answering("settings")
    /\ box' = "refused"
    /\ \/ UNCHANGED <<enabled, autoUpdate>>                    \* url, passwords, times; a test's result
       \/ e /\ enabled' = e /\ UNCHANGED autoUpdate            \* the server's URL
       \/ enabled' = e /\ autoUpdate' = u                      \* update source, SaveConfig
    /\ UNCHANGED <<desktop, hook, dialog, initBox, attempts, verified, flow, allowed, token,
                   timers, history>>

(* IDOK of the settings, the file is written; a warning may come first (auto-start,
   server not reachable). *)
SettingsSaved(e, u) ==
    /\ Answering("settings")
    /\ \/ /\ box' = "warning" /\ enabled' = e /\ autoUpdate' = u
          /\ UNCHANGED <<dialog, verified, fg, dialogActive, locked, guarded, allowed, token, timers>>
       \/ AfterSave(e, u)
    /\ UNCHANGED <<held, installed, armed, initBox, attempts, exiting, window, creating, quit,
                   ended, history>>

(* IDOK of the mandatory registration: no code, a code the server refuses, or a token. *)
RegisterEntered ==
    /\ Answering("register")
    /\ \/ /\ \E b \in {"refused", "rejected"} : Show("register", b)
          /\ UNCHANGED remote
       \/ /\ token' = TRUE /\ UNCHANGED <<enabled, autoUpdate, allowed>>
          /\ PerformRemoteSync(timers)
    /\ UNCHANGED <<held, installed, armed, initBox, attempts, exiting, window, creating, quit,
                   ended, history>>

(* The cancel button of a dialog, the OK button of a message box. *)
ButtonClicked ==
    /\ ~ended /\ Answers
    /\ Close(Cancelled)
    /\ UNCHANGED <<held, installed, armed, history>>

(* Slip: the registration is asked for again whatever ended its dialog. *)
ClosedByQuitSlip ==
    /\ quit /\ ~Pumping
    /\ Close(\/ box # "none" /\ BoxClosed
             \/ box = "none" /\ dialog # "register" /\ ReturnToHook /\ UNCHANGED remote
             \/ box = "none" /\ dialog = "register" /\ Show("register", "none") /\ UNCHANGED remote)
    /\ UNCHANGED <<held, installed, armed, history>>

(* A modal loop finds WM_QUIT: whatever is open on top closes, the registration
   with it, and the code after it goes on. *)
ClosedByQuit ==
    /\ quit /\ ~Pumping
    /\ Close(\/ box # "none" /\ BoxClosed
             \/ box = "none" /\ ReturnToHook /\ UNCHANGED remote)
    /\ UNCHANGED <<held, installed, armed, history>>

-----------------------------------------------------------------------------
(* The rest of the UI thread. *)

(* OnWebViewInitError, in whatever loop is pumping. *)
InitFails ==
    /\ ~ended /\ creating /\ creating' = FALSE
    /\ IF exiting THEN UNCHANGED <<initBox, fg>>
       ELSE initBox' = TRUE /\ fg' = IF fg = "main" THEN "dialog" ELSE fg
    /\ UNCHANGED <<held, hook, dialog, box, attempts, verified, dialogActive, exiting, window,
                   quit, ended, remote, history>>

(* The WebView2 controller is there. *)
InitSucceeds ==
    /\ ~ended /\ creating /\ creating' = FALSE
    /\ UNCHANGED <<desktop, hook, modal, dialogActive, exiting, window, quit, ended, remote, history>>

(* TIMER_AUTO_UPDATE in the main loop, and an update is staged. *)
ShutdownForUpdate ==
    /\ ~ended /\ Pumping /\ ~exiting /\ "update" \in timers
    /\ Shutdown
    /\ UNCHANGED <<held, locked, guarded, modal, dialogActive, creating, ended, enabled, autoUpdate,
                   allowed, token, history>>

(* The main loop finds WM_QUIT. *)
LoopEnds ==
    /\ ~ended /\ quit /\ Pumping
    /\ ended' = TRUE
    /\ UNCHANGED <<desktop, hook, modal, dialogActive, exiting, window, creating, quit, remote, history>>

Terminated == ended /\ UNCHANGED vars

KeyEvent ==
    \/ SwallowEsc
    \/ \E k \in Keys :
         \/ \E alt, ctrl \in BOOLEAN : PressOnPage(k, alt, ctrl)
         \/ \E alt \in BOOLEAN : PressElsewhere(k, alt)
         \/ ReleaseOnPage(k)
         \/ ReleaseElsewhere(k)
    \/ \E d \in Devices : OtherInput(d)
    \/ \E altTab \in BOOLEAN : SwitchWindow(altTab)
    \/ GuardEnds

Answer ==
    \/ PasswordEntered
    \/ MenuExit
    \/ MenuSettings
    \/ \E e, u \in BOOLEAN : SettingsRefused(e, u) \/ SettingsSaved(e, u)
    \/ RegisterEntered
    \/ ButtonClicked

Program ==
    \/ ClosedByQuit
    \/ InitFails
    \/ InitSucceeds
    \/ ShutdownForUpdate
    \/ LoopEnds

Next == KeyEvent \/ Answer \/ Program \/ Terminated

Spec == Init /\ [][Next]_vars

(* A loop that is pumping gets to WM_QUIT without anybody's help. *)
FairSpec == Spec /\ WF_vars(ClosedByQuit) /\ WF_vars(LoopEnds)

-----------------------------------------------------------------------------
(* A device whose hook is set gets nothing to the page of a running kiosk, but Alt
   and Alt+Tab, which are let through on purpose (99-109): whichever dialogs were
   opened, answered, refused or left on whichever way, the lock is on again before
   the page is in front (main.cpp:348-432, hook_manager.cpp:67-71, 159-163).  A
   kiosk whose mouse hook failed runs on with the keyboard's alone (186-190): its
   mouse reaches the page, its keys still do not. *)
NothingReachesPage == reached = {}

(* The password is asked for only when a key is released whose last press was on
   the locked page: a key pressed in another program, or armed on the page and
   then used elsewhere, opens nothing (hook_manager.cpp:67-71, 99-103, 117-130). *)
AskedByPress ==
    [][(dialogActive' /\ ~dialogActive) => (held \ held') \cap pressed # {}]_vars

(* The ESC that has closed a dialog does not, held on and released within the
   400 ms, open the next one (hook_manager.cpp:59-62, 121, 128). *)
ClosedStaysClosed ==
    [][(dialogActive' /\ ~dialogActive /\ "esc" \in held \ held') => ~closedBy]_vars

(* In the main loop a kiosk whose remote configuration is on has its poll timer,
   whatever happened in the settings, the registration and their failures
   (main.cpp:391-421, 549-576): RemoteSync's polls rest on it. *)
PollArmed ==
    (Pumping /\ ~exiting /\ enabled /\ allowed) => "remote" \in timers

(* Once the program is to end it ends: no dialog that is still open, the
   registration that cannot be cancelled included, holds it back (main.cpp:306-338,
   365-377, 515-522). *)
ExitCompletes == exiting ~> ended

(* README.md:10: only the exit and the change of settings behind the password are
   let through, as PasswordGate states it; across askings, refusals, boxes over
   dialogs and failures of the browser in the midst of them (main.cpp:348-432,
   dialogs.cpp:527-582). *)
administered == <<enabled, autoUpdate, allowed, token>>    \* what the dialogs set
gate == IF verified THEN "open" ELSE IF dialogActive THEN "asked" ELSE "shut"
Gate == INSTANCE PasswordGate WITH
    Settings <- BOOLEAN \X BOOLEAN \X BOOLEAN \X BOOLEAN, settings <- administered,
    wrong <- attempts, broken <- initBox, ending <- exiting
KeepsGate == Gate!Spec
=============================================================================
