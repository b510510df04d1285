--------------------------- MODULE KioskLockProofs ---------------------------
(***************************************************************************)
(* The safety of the kiosk lock for every number of password attempts: the  *)
(* page is never reached past a hook, dialogs are opened by a key press on  *)
(* the page and not by the key that closed one, polls stay armed, and the   *)
(* lock implements PasswordGate.                                            *)
(***************************************************************************)
EXTENDS KioskLock, TLAPS

USE AttemptsAssumption
USE DEF NothingReachesPage, Keys, Devices, Dialogs, Boxes
USE DEF desktop, hook, modal, flow, remote, history, administered, Pumping

(* The two halves of the type invariant: what the keys change, what the dialogs
   change. *)
KeysOK ==
    /\ held \subseteq Keys /\ armed \subseteq Keys /\ pressed \subseteq Keys
    /\ installed \subseteq Devices /\ closedBy \in BOOLEAN /\ reached \subseteq Devices

ModalOK ==
    /\ fg \in {"main", "dialog", "other"}
    /\ locked \in BOOLEAN /\ guarded \in BOOLEAN
    /\ dialog \in Dialogs /\ box \in Boxes /\ initBox \in BOOLEAN
    /\ attempts \in 0 .. MaxAttempts /\ verified \in BOOLEAN
    /\ dialogActive \in BOOLEAN /\ exiting \in BOOLEAN /\ window \in BOOLEAN
    /\ creating \in BOOLEAN /\ quit \in BOOLEAN /\ ended \in BOOLEAN
    /\ enabled \in BOOLEAN /\ autoUpdate \in BOOLEAN /\ allowed \in BOOLEAN
    /\ token \in BOOLEAN /\ timers \subseteq {"remote", "update"}

(* A dialog or a box of OnHotkeyPressed is open exactly while dialogActive is
   set; the page is in front only when nothing is open, and then the lock is on,
   unless the program is to end. *)
LockInv ==
    /\ dialogActive <=> dialog # "none" \/ box # "none"
    /\ fg = "main" => Pumping
    /\ dialogActive \/ exiting \/ locked

(* A key armed to open a dialog was pressed on the page, and none is armed while
   one is open; ESC is not armed in the 400 ms, which begin when a dialog closes. *)
KeyInv ==
    /\ armed \ {"f5"} \subseteq pressed
    /\ dialogActive => armed \subseteq {"f5"}
    /\ guarded => "esc" \notin armed
    /\ closedBy => guarded

(* The password was right exactly where a dialog after it is open; the password
   dialog that waits for an answer has an attempt left, and each box lies over the
   dialog it is about, or over none. *)
DialogInv ==
    /\ verified <=> dialogActive /\ dialog # "password"
    /\ dialog = "password" /\ box = "none" => attempts < MaxAttempts
    /\ box \in {"refused", "rejected"} => dialog \in {"settings", "register"}
    /\ box = "wrong" => dialog = "password"
    /\ box = "warning" => dialog = "settings"
    /\ box \in {"unreachable", "syncFailed"} => dialog = "none"

(* Wherever the evaluation chain is not under way, polls that are allowed have
   their timer; the registration is part of the chain of an enabled kiosk. *)
TimerInv ==
    /\ quit => exiting
    /\ window \/ exiting
    /\ dialog = "register" => enabled
    /\ allowed => "remote" \in timers \/ exiting \/ box = "unreachable" \/ dialog = "register"

ModalInv == ModalOK /\ LockInv /\ DialogInv /\ TimerInv
InputInv == KeysOK /\ KeyInv /\ NothingReachesPage

IInv == ModalInv /\ InputInv

(* The two halves are the type invariant. *)
LEMMA Halves == TypeOK <=> ModalOK /\ KeysOK
  BY DEF TypeOK, ModalOK, KeysOK

(* The kiosk as it enters its message loop. *)
LEMMA InitIInv == Init => IInv
  <1> SUFFICES ASSUME Init PROVE IInv  OBVIOUS
  <1> USE DEF Init
  <1>1. ModalOK
    <2>1. timers \subseteq {"remote", "update"}  OBVIOUS
    <2>2. allowed \in BOOLEAN  OBVIOUS
    <2>3. attempts \in 0 .. MaxAttempts  OBVIOUS
    <2> QED  BY <2>1, <2>2, <2>3 DEF ModalOK
  <1>2. LockInv /\ DialogInv  BY DEF LockInv, DialogInv
  <1>3. TimerInv  BY DEF TimerInv
  <1>4. KeysOK /\ KeyInv /\ NothingReachesPage  BY DEF KeysOK, KeyInv
  <1> QED  BY <1>1, <1>2, <1>3, <1>4 DEF IInv, ModalInv, InputInv

(* What the code after a modal loop may change of the dialogs: it returns to the
   hook, or shows what comes next.  The rest is not the dialogs'. *)
Elsewhere == <<initBox, attempts, exiting, window, creating, quit, ended>>

(* Back in the hook, the dialogs are gone, the lock is on and the tick taken. *)
LEMMA ReturnStep ==
  ASSUME ModalInv, ~initBox, ReturnToHook, UNCHANGED Elsewhere,
         enabled' \in BOOLEAN, autoUpdate' \in BOOLEAN, allowed' \in BOOLEAN, token' \in BOOLEAN,
         timers' \subseteq {"remote", "update"},
         allowed' => "remote" \in timers' \/ exiting
  PROVE  ModalInv' /\ ~dialogActive' /\ guarded'
  <1> USE DEF ReturnToHook, Elsewhere
  <1>1. ModalOK'  BY DEF ModalInv, ModalOK
  <1>2. LockInv'  BY DEF ModalInv, ModalOK, LockInv
  <1>3. DialogInv' /\ TimerInv'  BY DEF ModalInv, ModalOK, DialogInv, TimerInv
  <1>4. ~dialogActive' /\ guarded'  OBVIOUS
  <1> QED  BY <1>1, <1>2, <1>3, <1>4 DEF ModalInv

(* A dialog or a box takes the place of the one that was on top. *)
LEMMA ShowStep ==
  ASSUME ModalInv, NEW d \in Dialogs, NEW b \in Boxes, Show(d, b), UNCHANGED Elsewhere,
         dialogActive, d # "none" \/ b # "none",
         d = "password" /\ b = "none" => attempts < MaxAttempts,
         b \in {"refused", "rejected"} => d \in {"settings", "register"},
         b = "wrong" => d = "password", b # "warning",
         d = "password" <=> dialog = "password",
         b \in {"unreachable", "syncFailed"} => d = "none",
         d = "register" => enabled',
         enabled' \in BOOLEAN, autoUpdate' \in BOOLEAN, allowed' \in BOOLEAN, token' \in BOOLEAN,
         timers' \subseteq {"remote", "update"},
         allowed' => \/ "remote" \in timers' \/ exiting
                     \/ b = "unreachable" \/ d = "register"
  PROVE  ModalInv' /\ dialogActive' = dialogActive /\ guarded' = guarded /\ verified' = verified
  <1> USE DEF Show, StayOpen, Elsewhere
  <1>1. ModalOK'  BY DEF ModalInv, ModalOK
  <1>2. LockInv'  BY DEF ModalInv, ModalOK, LockInv
  <1>3. DialogInv' /\ TimerInv'  BY DEF ModalInv, ModalOK, DialogInv, TimerInv
  <1>4. dialogActive' = dialogActive /\ guarded' = guarded /\ verified' = verified  OBVIOUS
  <1> QED  BY <1>1, <1>2, <1>3, <1>4 DEF ModalInv

(* A dialog that waits for its answer is open; a box waits before it. *)
Open == dialogActive /\ ~initBox

(* What a part of OnHotkeyPressed comes to: the invariant of the dialogs holds, no
   dialog is opened from nothing or without the password, the settings change behind
   it only, and the tick is taken when the last dialog closes. *)
PartDone ==
    /\ ModalInv'
    /\ guarded => guarded'
    /\ dialogActive' => dialogActive /\ verified' = verified
    /\ UNCHANGED administered \/ verified
    /\ dialogActive => dialogActive' \/ guarded'
    /\ guarded' => guarded \/ dialogActive

(* PerformRemoteSync arms the poll timer again, then returns or shows its box. *)
LEMMA SyncStep ==
  ASSUME ModalInv, Open, verified, NEW left \in SUBSET {"remote", "update"}, PerformRemoteSync(left),
         UNCHANGED Elsewhere, enabled', enabled' \in BOOLEAN, autoUpdate' \in BOOLEAN,
         allowed' \in BOOLEAN, token' \in BOOLEAN
  PROVE  PartDone
  <1>0. dialog # "password"  BY DEF ModalInv, DialogInv
  <1>1. timers' \subseteq {"remote", "update"}
    BY DEF PerformRemoteSync, ScheduleNextRemotePoll
  <1>2. allowed' => "remote" \in timers' \/ exiting
    BY DEF PerformRemoteSync, ScheduleNextRemotePoll, ModalInv, TimerInv, Elsewhere
  <1>3. CASE ReturnToHook  BY <1>1, <1>2, <1>3, ReturnStep DEF Open, PartDone
  <1>4. CASE Show("none", "syncFailed")
    BY <1>0, <1>1, <1>2, <1>4, ShowStep DEF Open, PartDone
  <1> QED  BY <1>3, <1>4 DEF PerformRemoteSync

(* The saved settings set their timers and run the evaluation chain. *)
LEMMA AfterSaveStep ==
  ASSUME ModalInv, Open, verified, NEW e \in BOOLEAN, NEW u \in BOOLEAN, AfterSave(e, u),
         UNCHANGED Elsewhere
  PROVE  PartDone
  <1>0. dialog # "password"  BY DEF ModalInv, DialogInv
  <1>1. enabled' = e /\ autoUpdate' = u /\ token' \in BOOLEAN /\ allowed \in BOOLEAN
    BY DEF AfterSave, ModalInv, ModalOK
  <1>2. Rearmed(u) \in SUBSET {"remote", "update"}  BY DEF Rearmed
  <1>3. CASE ~e /\ allowed' = FALSE /\ timers' = Rearmed(u) /\ ReturnToHook
    BY <1>1, <1>2, <1>3, ReturnStep DEF Open, PartDone
  <1>4. CASE e /\ UNCHANGED allowed /\ timers' = Rearmed(u) /\ Show("none", "unreachable")
    BY <1>0, <1>1, <1>2, <1>4, ShowStep DEF Open, PartDone
  <1>5. CASE e /\ allowed' = TRUE /\ PerformRemoteSync(Rearmed(u))
    BY <1>1, <1>2, <1>5, SyncStep, Zenon DEF Elsewhere
  <1>6. CASE e /\ allowed' = TRUE /\ timers' = Rearmed(u) /\ Show("register", "none")
    BY <1>0, <1>1, <1>2, <1>6, ShowStep DEF Open, PartDone
  <1> QED  BY <1>3, <1>4, <1>5, <1>6 DEF AfterSave

(* A closed box leads back to its dialog, on in the chain, or to the hook. *)
LEMMA BoxClosedStep ==
  ASSUME ModalInv, ~initBox, BoxClosed, UNCHANGED Elsewhere
  PROVE  PartDone
  <1>1. box # "none" /\ Open  BY DEF BoxClosed, Open, ModalInv, ModalOK, LockInv
  <1>2. /\ enabled \in BOOLEAN /\ autoUpdate \in BOOLEAN /\ allowed \in BOOLEAN
        /\ token \in BOOLEAN /\ timers \subseteq {"remote", "update"}
        /\ dialog \in Dialogs /\ attempts \in 0 .. MaxAttempts
    BY DEF ModalInv, ModalOK
  <1>3. CASE box = "wrong" /\ ReturnToHook /\ UNCHANGED remote
    <2>1. allowed => "remote" \in timers \/ exiting
      BY <1>3 DEF ModalInv, TimerInv, DialogInv
    <2> QED  BY <1>1, <1>2, <1>3, <2>1, ReturnStep DEF PartDone, Open
  <1>4. CASE /\ box = "wrong" /\ attempts < MaxAttempts /\ Show("password", "none")
             /\ UNCHANGED remote
    <2>1. dialog = "password" /\ (allowed => "remote" \in timers \/ exiting)
      BY <1>4 DEF ModalInv, TimerInv, DialogInv
    <2> QED  BY <1>1, <1>2, <1>4, <2>1, ShowStep DEF PartDone, Open
  <1>5. CASE box \in {"refused", "rejected"} /\ Show(dialog, "none") /\ UNCHANGED remote
    <2>1. /\ dialog \in {"settings", "register"}
          /\ dialog = "register" => enabled
          /\ allowed => "remote" \in timers \/ exiting \/ dialog = "register"
      BY <1>5 DEF ModalInv, TimerInv, DialogInv
    <2> QED  BY <1>1, <1>2, <1>5, <2>1, ShowStep DEF PartDone, Open
  <1>6. CASE box = "warning" /\ AfterSave(enabled, autoUpdate)
    <2>1. verified  BY <1>1, <1>6 DEF Open, ModalInv, DialogInv
    <2> QED  BY <1>1, <1>2, <1>6, <2>1, AfterSaveStep
  <1>7. CASE /\ box = "unreachable" /\ enabled' = FALSE /\ allowed' = FALSE
             /\ ReturnToHook /\ UNCHANGED <<autoUpdate, token, timers>>
    <2>1. verified  BY <1>1, <1>7 DEF Open, ModalInv, DialogInv
    <2> QED  BY <1>1, <1>2, <1>7, <2>1, ReturnStep DEF PartDone, Open
  <1>8. CASE box = "syncFailed" /\ ReturnToHook /\ UNCHANGED remote
    <2>1. allowed => "remote" \in timers \/ exiting
      BY <1>8 DEF ModalInv, TimerInv, DialogInv
    <2> QED  BY <1>1, <1>2, <1>8, <2>1, ReturnStep DEF PartDone, Open
  <1>9. attempts >= MaxAttempts \/ attempts < MaxAttempts  BY <1>2
  <1> QED  BY <1>3, <1>4, <1>5, <1>6, <1>7, <1>8, <1>9, Zenon DEF BoxClosed

(* ESC, Alt+F4 or the cancel button: the dialog on top gives way. *)
LEMMA CancelledStep ==
  ASSUME ModalInv, ~initBox, Cancelled, UNCHANGED Elsewhere
  PROVE  PartDone
  <1>1. /\ enabled \in BOOLEAN /\ autoUpdate \in BOOLEAN /\ allowed \in BOOLEAN
        /\ token \in BOOLEAN /\ timers \subseteq {"remote", "update"}
    BY DEF ModalInv, ModalOK
  <1>2. CASE BoxClosed  BY <1>2, BoxClosedStep
  <1>3. CASE box = "none" /\ dialog = "register" /\ Show("register", "none") /\ UNCHANGED remote
    <2>1. dialogActive /\ enabled  BY <1>3 DEF ModalInv, LockInv, TimerInv
    <2> QED  BY <1>1, <1>3, <2>1, ShowStep DEF PartDone
  <1>4. CASE /\ box = "none" /\ dialog \in {"password", "menu", "settings"}
             /\ ReturnToHook /\ UNCHANGED remote
    <2>1. dialogActive /\ (allowed => "remote" \in timers \/ exiting)
      BY <1>4 DEF ModalInv, LockInv, TimerInv
    <2> QED  BY <1>1, <1>4, <2>1, ReturnStep DEF PartDone
  <1> QED  BY <1>2, <1>3, <1>4 DEF Cancelled

(* The box of OnWebViewInitError is on top of everything and leaves it as it is. *)
LEMMA InitBoxStep ==
  ASSUME ModalInv, initBox, InitBoxClosed,
         UNCHANGED <<dialog, box, attempts, verified, dialogActive, locked, guarded, window, creating,
                     ended, remote>>
  PROVE  PartDone
  <1> USE DEF InitBoxClosed
  <1>1. ModalOK'
    <2>1. fg' \in {"main", "dialog", "other"}  BY DEF ModalInv, ModalOK
    <2>2. initBox' \in BOOLEAN /\ exiting' \in BOOLEAN /\ quit' \in BOOLEAN  OBVIOUS
    <2> QED  BY <2>1, <2>2 DEF ModalInv, ModalOK
  <1>2. LockInv'  BY DEF ModalInv, ModalOK, LockInv
  <1>3. DialogInv' /\ TimerInv'  BY DEF ModalInv, ModalOK, DialogInv, TimerInv
  <1> QED  BY <1>1, <1>2, <1>3 DEF ModalInv, PartDone

(* Closing what is on top, by the user's hand. *)
LEMMA CancelStep == ModalInv /\ Close(Cancelled) => PartDone
  BY InitBoxStep, CancelledStep DEF Close, Elsewhere, ModalInv, ModalOK

(* Closing what is on top, because the program is to end. *)
LEMMA ClosedByQuitStep == ModalInv /\ ClosedByQuit => PartDone
  <1> SUFFICES ASSUME ModalInv, ClosedByQuit PROVE PartDone  OBVIOUS
  <1>1. CASE initBox  BY <1>1, InitBoxStep DEF ClosedByQuit, Close
  <1>2. CASE ~initBox
    <2>1. UNCHANGED Elsewhere  BY <1>2 DEF ClosedByQuit, Close, Elsewhere
    <2>2. CASE box # "none" /\ BoxClosed  BY <1>2, <2>1, <2>2, BoxClosedStep
    <2>3. CASE box = "none" /\ ReturnToHook /\ UNCHANGED remote
      <3>1. exiting /\ ModalOK  BY DEF ClosedByQuit, ModalInv, TimerInv
      <3>2. dialogActive  BY <1>2, <2>3 DEF ClosedByQuit, ModalInv, LockInv
      <3> QED  BY <1>2, <2>1, <2>3, <3>1, <3>2, ReturnStep DEF ModalOK, PartDone
    <2> QED  BY <1>2, <2>2, <2>3 DEF ClosedByQuit, Close
  <1> QED  BY <1>1, <1>2

(* The hotkey, on the locked page: the password is asked for, unless the program is
   to end. *)
LEMMA HotkeyStep ==
  ASSUME ModalInv, Pumping, OnHotkeyPressed,
         UNCHANGED <<exiting, window, creating, quit, ended, remote>>
  PROVE  ModalInv'
  <1> USE DEF OnHotkeyPressed
  <1>1. ~dialogActive  BY DEF ModalInv, LockInv
  <1>2. ModalOK'
    <2>1. /\ fg' \in {"main", "dialog", "other"} /\ dialog' \in Dialogs
          /\ box' \in Boxes /\ initBox' \in BOOLEAN
      BY DEF ModalInv, ModalOK
    <2>2. attempts' \in 0 .. MaxAttempts  BY DEF ModalInv, ModalOK
    <2>3. dialogActive' \in BOOLEAN /\ locked' \in BOOLEAN /\ guarded' \in BOOLEAN
      BY DEF ModalInv, ModalOK
    <2> QED  BY <2>1, <2>2, <2>3 DEF ModalInv, ModalOK
  <1>3. LockInv'  BY <1>1 DEF ModalInv, ModalOK, LockInv
  <1>4. DialogInv' /\ TimerInv'  BY <1>1 DEF ModalInv, ModalOK, DialogInv, TimerInv
  <1> QED  BY <1>2, <1>3, <1>4 DEF ModalInv

(* Where the dialogs and their guard stay, so does what they satisfy. *)
LEMMA ModalSame ==
  ASSUME ModalInv, UNCHANGED <<fg, locked, guarded, modal, flow, remote>>
  PROVE  PartDone
  BY DEF ModalInv, ModalOK, LockInv, DialogInv, TimerInv, PartDone

(* The dialogs, the lock and the timers keep their invariant. *)
LEMMA ModalStep == ModalInv /\ [Next]_vars => ModalInv'
  <1> SUFFICES ASSUME ModalInv, [Next]_vars PROVE ModalInv'  OBVIOUS
  <1>1. CASE SwallowEsc  BY <1>1, ModalSame DEF SwallowEsc, PartDone
  <1>2. ASSUME NEW k \in Keys, NEW alt \in BOOLEAN, NEW ctrl \in BOOLEAN, PressOnPage(k, alt, ctrl)
        PROVE  ModalInv'
    BY <1>2, ModalSame DEF PressOnPage, PartDone
  <1>3. ASSUME NEW k \in Keys, NEW alt \in BOOLEAN, PressElsewhere(k, alt)  PROVE ModalInv'
    <2>1. CASE Close(Cancelled)  BY <2>1, CancelStep DEF PartDone
    <2>2. CASE UNCHANGED <<fg, locked, guarded, modal, flow, remote>>
      BY <2>2, ModalSame DEF PartDone
    <2> QED  BY <1>3, <2>1, <2>2 DEF PressElsewhere
  <1>4. ASSUME NEW k \in Keys, ReleaseOnPage(k)  PROVE ModalInv'
    <2>1. Pumping  BY <1>4 DEF ReleaseOnPage, Passes, ModalInv, LockInv
    <2>2. CASE OnHotkeyPressed  BY <1>4, <2>1, <2>2, HotkeyStep DEF ReleaseOnPage
    <2>3. CASE UNCHANGED <<dialogActive, locked, guarded, modal, fg>>
      BY <1>4, <2>3, ModalSame DEF ReleaseOnPage, PartDone
    <2> QED  BY <1>4, <2>2, <2>3 DEF ReleaseOnPage
  <1>5. ASSUME NEW k \in Keys, ReleaseElsewhere(k)  PROVE ModalInv'
    BY <1>5, ModalSame DEF ReleaseElsewhere, PartDone
  <1>6. ASSUME NEW d \in Devices, OtherInput(d)  PROVE ModalInv'
    BY <1>6, ModalSame DEF OtherInput, PartDone
  <1>7. ASSUME NEW b \in BOOLEAN, SwitchWindow(b)  PROVE ModalInv'
    BY <1>7 DEF SwitchWindow, ModalInv, ModalOK, LockInv, DialogInv, TimerInv
  <1>8. CASE GuardEnds
    <2>1. ModalOK'
      <3>1. guarded' \in BOOLEAN  BY <1>8 DEF GuardEnds
      <3>2. UNCHANGED <<fg, locked, modal, flow, remote>>
        BY <1>8 DEF GuardEnds
      <3> QED  BY <3>1, <3>2 DEF ModalInv, ModalOK
    <2>2. LockInv' /\ DialogInv' /\ TimerInv'
      BY <1>8 DEF GuardEnds, ModalInv, LockInv, DialogInv, TimerInv
    <2> QED  BY <2>1, <2>2 DEF ModalInv
  <1>9. CASE PasswordEntered
    <2>1. ModalOK'
      <3>1. dialog' \in Dialogs /\ box' \in Boxes /\ attempts' \in 0 .. MaxAttempts
        BY <1>9 DEF PasswordEntered, Answering, ModalInv, ModalOK, DialogInv
      <3>2. verified' \in BOOLEAN  BY <1>9 DEF PasswordEntered, ModalInv, ModalOK
      <3> QED  BY <1>9, <3>1, <3>2 DEF PasswordEntered, ModalInv, ModalOK
    <2>2. LockInv' /\ DialogInv' /\ TimerInv'
      BY <1>9 DEF PasswordEntered, Answering, ModalInv, LockInv, DialogInv, TimerInv
    <2> QED  BY <2>1, <2>2 DEF ModalInv
  <1>10. CASE MenuExit
    <2>1. ModalOK'  BY <1>10 DEF MenuExit, Shutdown, ModalInv, ModalOK
    <2>2. LockInv' /\ DialogInv' /\ TimerInv'
      BY <1>10 DEF MenuExit, Answering, Shutdown, ModalInv, ModalOK, LockInv, DialogInv, TimerInv
    <2> QED  BY <2>1, <2>2 DEF ModalInv
  <1>11. CASE MenuSettings
    BY <1>11 DEF MenuSettings, Answering, ModalInv, ModalOK, LockInv, DialogInv, TimerInv
  <1>12. ASSUME NEW e \in BOOLEAN, NEW u \in BOOLEAN, SettingsRefused(e, u)  PROVE ModalInv'
    <2>1. ModalOK'  BY <1>12 DEF SettingsRefused, ModalInv, ModalOK
    <2>2. LockInv' /\ DialogInv'
      BY <1>12 DEF SettingsRefused, Answering, ModalInv, LockInv, DialogInv
    <2>3. TimerInv'  BY <1>12 DEF SettingsRefused, Answering, ModalInv, TimerInv
    <2> QED  BY <2>1, <2>2, <2>3 DEF ModalInv
  <1>13. ASSUME NEW e \in BOOLEAN, NEW u \in BOOLEAN, SettingsSaved(e, u)  PROVE ModalInv'
    <2>1. Open /\ verified
      BY <1>13 DEF SettingsSaved, Answering, Open, ModalInv, LockInv, DialogInv
    <2>2. UNCHANGED Elsewhere  BY <1>13 DEF SettingsSaved, Elsewhere
    <2>3. CASE AfterSave(e, u)  BY <2>1, <2>2, <2>3, AfterSaveStep DEF PartDone
    <2>4. CASE /\ box' = "warning" /\ enabled' = e /\ autoUpdate' = u
               /\ UNCHANGED <<dialog, verified, fg, dialogActive, locked, guarded, allowed, token, timers>>
      <3>1. ModalOK'  BY <2>2, <2>4 DEF Elsewhere, ModalInv, ModalOK
      <3>2. LockInv' /\ DialogInv'
        BY <1>13, <2>1, <2>2, <2>4 DEF SettingsSaved, Answering, Elsewhere, Open, ModalInv, LockInv, DialogInv
      <3>3. TimerInv'
        BY <1>13, <2>2, <2>4 DEF SettingsSaved, Answering, Elsewhere, ModalInv, TimerInv
      <3> QED  BY <3>1, <3>2, <3>3 DEF ModalInv
    <2> QED  BY <1>13, <2>3, <2>4 DEF SettingsSaved
  <1>14. CASE RegisterEntered
    <2>1. Open  BY <1>14 DEF RegisterEntered, Answering, Open, ModalInv, LockInv
    <2>2. UNCHANGED Elsewhere  BY <1>14 DEF RegisterEntered, Elsewhere
    <2>3. enabled /\ dialog = "register" /\ verified /\ ModalOK
      BY <1>14, <2>1 DEF RegisterEntered, Answering, Open, ModalInv, TimerInv, DialogInv
    <2>4. ASSUME NEW b \in {"refused", "rejected"}, Show("register", b), UNCHANGED remote
          PROVE  ModalInv'
      BY <2>1, <2>2, <2>3, <2>4, ShowStep DEF Open, ModalOK
    <2>5. CASE /\ token' = TRUE /\ UNCHANGED <<enabled, autoUpdate, allowed>>
               /\ PerformRemoteSync(timers)
      BY <2>1, <2>2, <2>3, <2>5, SyncStep DEF PartDone, ModalOK
    <2> QED  BY <1>14, <2>4, <2>5 DEF RegisterEntered
  <1>15. CASE ButtonClicked  BY <1>15, CancelStep DEF ButtonClicked, PartDone
  <1>16. CASE ClosedByQuit  BY <1>16, ClosedByQuitStep DEF PartDone
  <1>17. CASE InitFails
    <2>1. ModalOK'
      <3>1. initBox' \in BOOLEAN /\ fg' \in {"main", "dialog", "other"} /\ creating' \in BOOLEAN
        BY <1>17 DEF InitFails, ModalInv, ModalOK
      <3> QED  BY <1>17, <3>1 DEF InitFails, ModalInv, ModalOK
    <2>2. LockInv'  BY <1>17 DEF InitFails, ModalInv, ModalOK, LockInv
    <2>3. DialogInv' /\ TimerInv'  BY <1>17 DEF InitFails, ModalInv, DialogInv, TimerInv
    <2> QED  BY <2>1, <2>2, <2>3 DEF ModalInv
  <1>18. CASE InitSucceeds
    <2>1. ModalOK'
      <3>1. creating' \in BOOLEAN  BY <1>18 DEF InitSucceeds
      <3>2. UNCHANGED <<fg, locked, guarded, modal, dialogActive, exiting, window, quit, ended, remote>>
        BY <1>18 DEF InitSucceeds
      <3> QED  BY <3>1, <3>2 DEF ModalInv, ModalOK
    <2>2. LockInv' /\ DialogInv' /\ TimerInv'
      BY <1>18 DEF InitSucceeds, ModalInv, LockInv, DialogInv, TimerInv
    <2> QED  BY <2>1, <2>2 DEF ModalInv
  <1>19. CASE ShutdownForUpdate
    BY <1>19 DEF ShutdownForUpdate, Shutdown, ModalInv, ModalOK, LockInv, DialogInv, TimerInv
  <1>20. CASE LoopEnds
    BY <1>20 DEF LoopEnds, ModalInv, ModalOK, LockInv, DialogInv, TimerInv
  <1>21. CASE Terminated \/ UNCHANGED vars  BY <1>21, ModalSame DEF Terminated, vars, PartDone
  <1> QED  BY <1>1, <1>2, <1>3, <1>4, <1>5, <1>6, <1>7, <1>8, <1>9, <1>10, <1>11, <1>12, <1>13,
       <1>14, <1>15, <1>16, <1>17, <1>18, <1>19, <1>20, <1>21 DEF Next, KeyEvent, Answer, Program

(* While the page takes no input, what the dialogs do leaves the keys' invariant. *)
LEMMA InputSame ==
  ASSUME InputInv, PartDone, UNCHANGED <<held, installed, armed, history>>
  PROVE  InputInv'
  BY DEF InputInv, KeysOK, KeyInv, PartDone

(* An event that passes the hook of its device while the kiosk runs is not the page's. *)
LEMMA PassStep ==
  ASSUME ModalInv, NothingReachesPage, NEW d \in Devices, Passes(d), Reach(d), UNCHANGED installed
  PROVE  NothingReachesPage'
  BY DEF ModalInv, ModalOK, LockInv, Passes, Reach, NothingReachesPage

(* The armed keys, the presses they rest on and the guard keep their invariant, and
   no input reaches the page. *)
LEMMA InputStep == IInv /\ [Next]_vars => InputInv'
  <1> SUFFICES ASSUME IInv, [Next]_vars PROVE InputInv'  OBVIOUS
  <1>i. ModalInv /\ InputInv  BY DEF IInv
  <1>1. CASE SwallowEsc
    <2>1. KeysOK' /\ NothingReachesPage'  BY <1>1, <1>i DEF SwallowEsc, InputInv, KeysOK
    <2>2. KeyInv'  BY <1>1, <1>i DEF SwallowEsc, Guards, InputInv, KeysOK, KeyInv
    <2> QED  BY <2>1, <2>2 DEF InputInv
  <1>2. ASSUME NEW k \in Keys, NEW alt \in BOOLEAN, NEW ctrl \in BOOLEAN, PressOnPage(k, alt, ctrl)
        PROVE  InputInv'
    <2>1. ~dialogActive  BY <1>2, <1>i DEF PressOnPage, Passes, ModalInv, LockInv
    <2>2. "keyboard" \in installed  BY <1>2 DEF PressOnPage, Passes
    <2>3. KeysOK' /\ NothingReachesPage'  BY <1>2, <1>i DEF PressOnPage, InputInv, KeysOK
    <2>4. (guarded => "esc" \notin armed)'
      BY <1>2, <1>i, <2>2 DEF PressOnPage, Guards, InputInv, KeyInv
    <2>5. KeyInv'  BY <1>2, <1>i, <2>1, <2>4 DEF PressOnPage, InputInv, KeysOK, KeyInv
    <2> QED  BY <2>3, <2>5 DEF InputInv
  <1>3. ASSUME NEW k \in Keys, NEW alt \in BOOLEAN, PressElsewhere(k, alt)  PROVE InputInv'
    <2>1. PartDone
      <3>1. CASE Close(Cancelled)  BY <1>i, <3>1, CancelStep
      <3>2. CASE UNCHANGED <<fg, locked, guarded, modal, flow, remote>>
        BY <1>i, <3>2, ModalSame
      <3> QED  BY <1>3, <3>1, <3>2 DEF PressElsewhere
    <2>2. /\ held' = held \cup {k} /\ armed' = armed \ {"esc", "f4"} /\ UNCHANGED installed
          /\ pressed' = pressed \ {k}
          /\ closedBy' = (closedBy \/ (k = "esc" /\ dialogActive /\ ~dialogActive'))
      BY <1>3 DEF PressElsewhere, Disarmed
    <2>3. NothingReachesPage'  BY <1>3, <1>i, PassStep DEF PressElsewhere, InputInv
    <2>4. KeysOK'
      <3>1. /\ held' \subseteq Keys /\ armed' \subseteq Keys /\ pressed' \subseteq Keys
            /\ installed' \subseteq Devices
        BY <1>i, <2>2 DEF InputInv, KeysOK
      <3>2. closedBy' \in BOOLEAN  BY <2>2
      <3>3. reached' \subseteq Devices  BY <1>3, <1>i DEF PressElsewhere, Reach, InputInv, KeysOK
      <3> QED  BY <3>1, <3>2, <3>3 DEF KeysOK
    <2>5. armed' \subseteq {"f5"}  BY <1>i, <2>2 DEF InputInv, KeysOK
    <2>6. closedBy' => guarded'  BY <1>i, <2>1, <2>2 DEF InputInv, KeyInv, PartDone
    <2> QED  BY <2>3, <2>4, <2>5, <2>6 DEF InputInv, KeyInv
  <1>4. ASSUME NEW k \in Keys, ReleaseOnPage(k)  PROVE InputInv'
    <2>1. /\ KeysOK' /\ NothingReachesPage'
      BY <1>4, <1>i DEF ReleaseOnPage, Disarmed, InputInv, KeysOK
    <2>2. CASE k \in armed /\ k # "f5" /\ armed' = Disarmed /\ OnHotkeyPressed
      <3>1. armed' \subseteq {"f5"}  BY <1>i, <2>2 DEF Disarmed, InputInv, KeysOK
      <3>2. guarded => guarded'  BY <2>2 DEF OnHotkeyPressed
      <3>3. closedBy' => guarded'  BY <1>4, <1>i, <3>2 DEF ReleaseOnPage, InputInv, KeyInv
      <3> QED  BY <2>1, <3>1, <3>3 DEF InputInv, KeyInv
    <2>3. CASE armed' = armed \ {k} /\ UNCHANGED <<dialogActive, locked, guarded, modal, fg>>
      BY <1>4, <1>i, <2>1, <2>3 DEF ReleaseOnPage, InputInv, KeysOK, KeyInv
    <2> QED  BY <1>4, <2>2, <2>3 DEF ReleaseOnPage
  <1>5. ASSUME NEW k \in Keys, ReleaseElsewhere(k)  PROVE InputInv'
    <2>1. NothingReachesPage'  BY <1>5, <1>i, PassStep DEF ReleaseElsewhere, InputInv
    <2>2. KeysOK'
      <3>1. /\ held' \subseteq Keys /\ armed' \subseteq Keys /\ pressed' \subseteq Keys
            /\ installed' \subseteq Devices
        BY <1>5, <1>i DEF ReleaseElsewhere, Disarmed, InputInv, KeysOK
      <3>2. closedBy' \in BOOLEAN  BY <1>5 DEF ReleaseElsewhere
      <3>3. reached' \subseteq Devices  BY <1>5, <1>i DEF ReleaseElsewhere, Reach, InputInv, KeysOK
      <3> QED  BY <3>1, <3>2, <3>3 DEF KeysOK
    <2>3. KeyInv'
      BY <1>5, <1>i DEF ReleaseElsewhere, Disarmed, InputInv, KeysOK, KeyInv
    <2> QED  BY <2>1, <2>2, <2>3 DEF InputInv
  <1>6. ASSUME NEW d \in Devices, OtherInput(d)  PROVE InputInv'
    <2>1. NothingReachesPage'  BY <1>6, <1>i, PassStep DEF OtherInput, InputInv
    <2>2. KeysOK'
      <3>1. armed' \subseteq Keys /\ reached' \subseteq Devices
        BY <1>6, <1>i DEF OtherInput, Disarmed, Reach, InputInv, KeysOK
      <3> QED  BY <1>6, <1>i, <3>1 DEF OtherInput, InputInv, KeysOK
    <2>3. KeyInv'  BY <1>6, <1>i DEF OtherInput, Disarmed, InputInv, KeysOK, KeyInv
    <2> QED  BY <2>1, <2>2, <2>3 DEF InputInv
  <1>7. ASSUME NEW b \in BOOLEAN, SwitchWindow(b)  PROVE InputInv'
    BY <1>7, <1>i DEF SwitchWindow, Disarmed, InputInv, KeysOK, KeyInv
  <1>8. CASE GuardEnds  BY <1>8, <1>i DEF GuardEnds, InputInv, KeysOK, KeyInv
  <1>9. CASE MenuExit  BY <1>9, <1>i DEF MenuExit, Shutdown, InputInv, KeysOK, KeyInv
  <1>10. CASE ShutdownForUpdate
    BY <1>10, <1>i DEF ShutdownForUpdate, Shutdown, InputInv, KeysOK, KeyInv
  <1>11. CASE ButtonClicked  BY <1>11, <1>i, CancelStep, InputSame DEF ButtonClicked
  <1>12. CASE ClosedByQuit  BY <1>12, <1>i, ClosedByQuitStep, InputSame DEF ClosedByQuit
  <1>13. ASSUME NEW e \in BOOLEAN, NEW u \in BOOLEAN, SettingsSaved(e, u)  PROVE InputInv'
    <2>1. Open /\ verified
      BY <1>13, <1>i DEF SettingsSaved, Answering, Open, ModalInv, LockInv, DialogInv
    <2>2. UNCHANGED Elsewhere  BY <1>13 DEF SettingsSaved, Elsewhere
    <2>3. CASE AfterSave(e, u)
      BY <1>13, <1>i, <2>1, <2>2, <2>3, AfterSaveStep, InputSame DEF SettingsSaved
    <2>4. CASE UNCHANGED <<dialogActive, guarded>>
      BY <1>13, <1>i, <2>4 DEF SettingsSaved, InputInv, KeysOK, KeyInv
    <2> QED  BY <1>13, <2>3, <2>4 DEF SettingsSaved
  <1>14. CASE RegisterEntered
    <2>1. Open  BY <1>14, <1>i DEF RegisterEntered, Answering, Open, ModalInv, LockInv
    <2>2. UNCHANGED Elsewhere  BY <1>14 DEF RegisterEntered, Elsewhere
    <2>3. enabled /\ dialog = "register" /\ verified /\ ModalOK
      BY <1>14, <1>i, <2>1 DEF RegisterEntered, Answering, Open, ModalInv, TimerInv, DialogInv
    <2>4. CASE \E b \in {"refused", "rejected"} : Show("register", b)
      BY <1>14, <1>i, <2>4 DEF RegisterEntered, Show, StayOpen, InputInv, KeysOK, KeyInv
    <2>5. CASE /\ token' = TRUE /\ UNCHANGED <<enabled, autoUpdate, allowed>>
               /\ PerformRemoteSync(timers)
      BY <1>14, <1>i, <2>1, <2>2, <2>3, <2>5, SyncStep, InputSame DEF RegisterEntered, ModalOK
    <2> QED  BY <1>14, <2>4, <2>5 DEF RegisterEntered
  <1>15. CASE UNCHANGED <<held, hook, dialogActive, history>>
    BY <1>15, <1>i DEF InputInv, KeysOK, KeyInv
  <1>16. CASE PasswordEntered \/ MenuSettings \/ InitFails \/ InitSucceeds \/ LoopEnds
    BY <1>16, <1>15 DEF PasswordEntered, MenuSettings, InitFails, InitSucceeds, LoopEnds
  <1>17. ASSUME NEW e \in BOOLEAN, NEW u \in BOOLEAN, SettingsRefused(e, u)  PROVE InputInv'
    BY <1>17, <1>15 DEF SettingsRefused
  <1>18. CASE Terminated \/ UNCHANGED vars  BY <1>18, <1>15 DEF Terminated, vars
  <1> QED  BY <1>1, <1>2, <1>3, <1>4, <1>5, <1>6, <1>7, <1>8, <1>9, <1>10, <1>11, <1>12, <1>13,
       <1>14, <1>16, <1>17, <1>18 DEF Next, KeyEvent, Answer, Program

(* The inductive invariant, for every number of attempts. *)
THEOREM Invariance == Spec => []IInv
  <1>1. IInv /\ [Next]_vars => IInv'  BY ModalStep, InputStep DEF IInv
  <1> QED  BY InitIInv, <1>1, PTL DEF Spec

-----------------------------------------------------------------------------
(* The type invariant, for every number of attempts. *)
THEOREM TypeCorrect == Spec => []TypeOK
  <1>1. IInv => TypeOK  BY Halves DEF IInv, ModalInv, InputInv
  <1> QED  BY Invariance, <1>1, PTL

(* Whatever is pressed, answered or left, in whatever order, a device whose hook is
   set gets no input to the page of a running kiosk, with the mouse hook or without
   it (main.cpp:348-432, hook_manager.cpp:67-71, 159-163, 186-190). *)
THEOREM PageUnreached == Spec => []NothingReachesPage
  <1>1. IInv => NothingReachesPage  BY DEF IInv, InputInv, NothingReachesPage
  <1> QED  BY Invariance, <1>1, PTL

(* Whatever happened in the dialogs, the main loop of an enabled kiosk has its poll
   timer (main.cpp:391-421, 549-576). *)
THEOREM PollsArmed == Spec => []PollArmed
  <1>1. IInv => PollArmed  BY DEF IInv, ModalInv, TimerInv, PollArmed
  <1> QED  BY Invariance, <1>1, PTL

(* A dialog is opened by one kind of step: a key that was armed, and had been
   pressed on the page, is released there while the 400 ms do not hold it back. *)
LEMMA Opening ==
  ASSUME IInv, [Next]_vars, dialogActive', ~dialogActive
  PROVE  \E k \in Keys : /\ k \in held /\ held' = held \ {k}
                         /\ k \in pressed /\ ~Guards(k) /\ "keyboard" \in installed
  <1>i. ModalInv /\ InputInv  BY DEF IInv
  <1>1. ~(UNCHANGED dialogActive)  OBVIOUS
  <1>2. ~PartDone  BY DEF PartDone
  <1>3. ~(dialogActive' = FALSE)  OBVIOUS
  <1>4. ~SwallowEsc  BY <1>1 DEF SwallowEsc
  <1>5. ASSUME NEW k \in Keys, NEW alt \in BOOLEAN, NEW ctrl \in BOOLEAN
        PROVE  ~PressOnPage(k, alt, ctrl)
    BY <1>1 DEF PressOnPage
  <1>6. ASSUME NEW k \in Keys, NEW alt \in BOOLEAN  PROVE ~PressElsewhere(k, alt)
    BY <1>i, <1>1, <1>2, CancelStep DEF PressElsewhere
  <1>7. ASSUME NEW k \in Keys, ReleaseOnPage(k)
        PROVE  /\ k \in held /\ held' = held \ {k}
               /\ k \in pressed /\ ~Guards(k) /\ "keyboard" \in installed
    <2>1. k \in armed /\ k # "f5"  BY <1>1, <1>7 DEF ReleaseOnPage
    <2> QED  BY <1>i, <1>7, <2>1 DEF ReleaseOnPage, Passes, InputInv, KeyInv
  <1>8. ASSUME NEW k \in Keys  PROVE ~ReleaseElsewhere(k)  BY <1>1 DEF ReleaseElsewhere
  <1>9. ASSUME NEW d \in Devices, NEW b \in BOOLEAN  PROVE ~OtherInput(d) /\ ~SwitchWindow(b)
    BY <1>1 DEF OtherInput, SwitchWindow
  <1>10. ~GuardEnds /\ ~PasswordEntered /\ ~MenuSettings
    BY <1>1 DEF GuardEnds, PasswordEntered, MenuSettings
  <1>11. ~MenuExit  BY <1>3 DEF MenuExit
  <1>12. ASSUME NEW e \in BOOLEAN, NEW u \in BOOLEAN
         PROVE  ~SettingsRefused(e, u) /\ ~SettingsSaved(e, u)
    BY <1>i, <1>1 DEF SettingsRefused, SettingsSaved, Answering, ModalInv, LockInv
  <1>13. ~RegisterEntered  BY <1>i DEF RegisterEntered, Answering, ModalInv, LockInv
  <1>14. ~ButtonClicked  BY <1>i, <1>2, CancelStep DEF ButtonClicked
  <1>15. ~ClosedByQuit  BY <1>i, <1>2, ClosedByQuitStep
  <1>16. ~InitFails /\ ~InitSucceeds /\ ~ShutdownForUpdate /\ ~LoopEnds
    BY <1>1 DEF InitFails, InitSucceeds, ShutdownForUpdate, LoopEnds
  <1>17. ~Terminated /\ ~(UNCHANGED vars)  BY <1>1 DEF Terminated, vars
  <1>18. \E k \in Keys : ReleaseOnPage(k)
    BY <1>4, <1>5, <1>6, <1>8, <1>9, <1>10, <1>11, <1>12, <1>13, <1>14, <1>15, <1>16, <1>17
    DEF Next, KeyEvent, Answer, Program
  <1> QED  BY <1>7, <1>18

(* The password is asked for only when a key is released whose last press was on
   the locked page (hook_manager.cpp:67-71, 99-103, 117-130). *)
THEOREM OpenedByPress == Spec => AskedByPress
  <1>1. IInv /\ [Next]_vars
        => [(dialogActive' /\ ~dialogActive) => (held \ held') \cap pressed # {}]_vars
    <2> SUFFICES ASSUME IInv, [Next]_vars, dialogActive', ~dialogActive
                 PROVE  (held \ held') \cap pressed # {}
      OBVIOUS
    <2>1. PICK k \in Keys : k \in held /\ held' = held \ {k} /\ k \in pressed  BY Opening
    <2> QED  BY <2>1
  <1> QED  BY Invariance, <1>1, PTL DEF Spec, AskedByPress

(* The ESC that closed a dialog does not open the next one, as long as it is held
   and its 400 ms last (hook_manager.cpp:59-62, 121, 128). *)
THEOREM StaysClosed == Spec => ClosedStaysClosed
  <1>1. IInv /\ [Next]_vars
        => [(dialogActive' /\ ~dialogActive /\ "esc" \in held \ held') => ~closedBy]_vars
    <2> SUFFICES ASSUME IInv, [Next]_vars, dialogActive', ~dialogActive, "esc" \in held \ held'
                 PROVE  ~closedBy
      OBVIOUS
    <2>1. PICK k \in Keys : k \in held /\ held' = held \ {k} /\ ~Guards(k) /\ "keyboard" \in installed
      BY Opening
    <2>2. k = "esc"  BY <2>1
    <2> QED  BY <2>1, <2>2 DEF IInv, InputInv, KeyInv, Guards
  <1> QED  BY Invariance, <1>1, PTL DEF Spec, ClosedStaysClosed

-----------------------------------------------------------------------------
(* What closes, shows or saves something after the password is, at the gate, a
   change of the settings, the end of the dialogs, or nothing. *)
LEMMA PartAtGate ==
  ASSUME ModalInv, PartDone, UNCHANGED <<initBox, attempts, exiting>>
  PROVE  [Gate!Next]_(Gate!gateVars)
  <1> USE DEF gate, Gate!gateVars
  <1>1. CASE UNCHANGED administered
    <2>1. CASE dialogActive'
      <3>1. UNCHANGED gate  BY <2>1 DEF PartDone
      <3> QED  BY <1>1, <3>1
    <2>2. CASE ~dialogActive' /\ dialogActive
      <3>1. gate # "shut" /\ gate' = "shut"  BY <2>2 DEF PartDone, ModalInv, DialogInv
      <3> QED  BY <1>1, <3>1 DEF Gate!Next, Gate!Leave
    <2>3. CASE ~dialogActive' /\ ~dialogActive
      <3>1. UNCHANGED gate  BY <2>3 DEF PartDone, ModalInv, DialogInv
      <3> QED  BY <1>1, <3>1
    <2> QED  BY <2>1, <2>2, <2>3
  <1>2. CASE verified
    <2>1. gate = "open" /\ gate' \in {"open", "shut"}  BY <1>2 DEF PartDone, ModalInv, DialogInv
    <2>2. administered' \in BOOLEAN \X BOOLEAN \X BOOLEAN \X BOOLEAN
      BY DEF PartDone, ModalInv, ModalOK
    <2> QED  BY <2>1, <2>2 DEF Gate!Next, Gate!Change
  <1> QED  BY <1>1, <1>2 DEF PartDone

(* The box about the browser that failed is over everything else at the gate. *)
LEMMA InitBoxAtGate ==
  ASSUME initBox, InitBoxClosed, UNCHANGED <<dialog, box, attempts, verified, dialogActive, remote>>
  PROVE  Gate!GiveUp
  BY DEF InitBoxClosed, Gate!GiveUp, gate

(* Whatever closes on top, it is one step at the gate. *)
LEMMA CloseAtGate ==
  ASSUME ModalInv, PartDone, Close(Cancelled) \/ ClosedByQuit
  PROVE  [Gate!Next]_(Gate!gateVars)
  <1>1. CASE initBox
    BY <1>1, InitBoxAtGate DEF Close, ClosedByQuit, Gate!Next
  <1>2. CASE ~initBox
    BY <1>2, PartAtGate DEF Close, ClosedByQuit
  <1> QED  BY <1>1, <1>2

(* Every step of the kiosk is a step at the gate, or none. *)
LEMMA StepAtGate == ModalInv /\ [Next]_vars => [Gate!Next]_(Gate!gateVars)
  <1> SUFFICES ASSUME ModalInv, [Next]_vars PROVE [Gate!Next]_(Gate!gateVars)  OBVIOUS
  <1> USE DEF gate, Gate!gateVars
  <1>1. CASE UNCHANGED <<dialogActive, verified, attempts, administered, initBox, exiting>>
    BY <1>1
  <1>2. CASE SwallowEsc \/ GuardEnds \/ InitSucceeds \/ LoopEnds
    BY <1>1, <1>2 DEF SwallowEsc, GuardEnds, InitSucceeds, LoopEnds
  <1>3. ASSUME NEW k \in Keys, NEW alt \in BOOLEAN, NEW ctrl \in BOOLEAN, PressOnPage(k, alt, ctrl)
        PROVE  [Gate!Next]_(Gate!gateVars)
    BY <1>1, <1>3 DEF PressOnPage
  <1>4. ASSUME NEW k \in Keys, NEW alt \in BOOLEAN, PressElsewhere(k, alt)
        PROVE  [Gate!Next]_(Gate!gateVars)
    <2>1. CASE Close(Cancelled)  BY <2>1, CancelStep, CloseAtGate
    <2>2. CASE UNCHANGED <<fg, locked, guarded, modal, flow, remote>>  BY <1>1, <2>2
    <2> QED  BY <1>4, <2>1, <2>2 DEF PressElsewhere
  <1>5. ASSUME NEW k \in Keys, ReleaseOnPage(k)  PROVE [Gate!Next]_(Gate!gateVars)
    <2>1. ~dialogActive /\ ~verified
      BY <1>5 DEF ReleaseOnPage, Passes, ModalInv, LockInv, DialogInv
    <2>2. CASE OnHotkeyPressed /\ ~exiting
      BY <1>5, <2>1, <2>2 DEF ReleaseOnPage, OnHotkeyPressed, Gate!Next, Gate!Ask
    <2>3. CASE OnHotkeyPressed /\ exiting  BY <1>1, <1>5, <2>3 DEF ReleaseOnPage, OnHotkeyPressed
    <2>4. CASE UNCHANGED <<dialogActive, locked, guarded, modal, fg>>
      BY <1>1, <1>5, <2>4 DEF ReleaseOnPage
    <2> QED  BY <1>5, <2>2, <2>3, <2>4 DEF ReleaseOnPage
  <1>6. ASSUME NEW k \in Keys, ReleaseElsewhere(k)  PROVE [Gate!Next]_(Gate!gateVars)
    BY <1>1, <1>6 DEF ReleaseElsewhere
  <1>7. ASSUME NEW d \in Devices, NEW b \in BOOLEAN, OtherInput(d) \/ SwitchWindow(b)
        PROVE  [Gate!Next]_(Gate!gateVars)
    BY <1>1, <1>7 DEF OtherInput, SwitchWindow
  <1>8. CASE PasswordEntered
    <2>1. gate = "asked" /\ attempts < MaxAttempts
      BY <1>8 DEF PasswordEntered, Answering, ModalInv, LockInv, DialogInv
    <2>2. CASE dialog' = "menu" /\ UNCHANGED <<box, attempts>>
      BY <1>8, <2>1, <2>2 DEF PasswordEntered, Gate!Next, Gate!AnswerRight
    <2>3. CASE box' = "wrong" /\ attempts' = attempts + 1 /\ UNCHANGED dialog
      BY <1>8, <2>1, <2>3 DEF PasswordEntered, Gate!Next, Gate!AnswerWrong
    <2> QED  BY <1>8, <2>2, <2>3 DEF PasswordEntered
  <1>9. CASE MenuExit
    BY <1>9 DEF MenuExit, Answering, Shutdown, ModalInv, LockInv, DialogInv, Gate!Next, Gate!Exit
  <1>10. CASE MenuSettings
    <2>1. UNCHANGED gate  BY <1>10 DEF MenuSettings, Answering
    <2> QED  BY <1>10, <2>1 DEF MenuSettings
  <1>11. ASSUME NEW e \in BOOLEAN, NEW u \in BOOLEAN, SettingsRefused(e, u)
         PROVE  [Gate!Next]_(Gate!gateVars)
    <2>1. gate = "open" /\ UNCHANGED gate
      BY <1>11 DEF SettingsRefused, Answering, ModalInv, LockInv, DialogInv
    <2>2. administered' \in BOOLEAN \X BOOLEAN \X BOOLEAN \X BOOLEAN
      BY <1>11 DEF SettingsRefused, ModalInv, ModalOK
    <2> QED  BY <1>11, <2>1, <2>2 DEF SettingsRefused, Gate!Next, Gate!Change
  <1>12. ASSUME NEW e \in BOOLEAN, NEW u \in BOOLEAN, SettingsSaved(e, u)
         PROVE  [Gate!Next]_(Gate!gateVars)
    <2>1. Open /\ verified /\ UNCHANGED Elsewhere
      BY <1>12 DEF SettingsSaved, Answering, Open, Elsewhere, ModalInv, LockInv, DialogInv
    <2>2. CASE AfterSave(e, u)  BY <2>1, <2>2, AfterSaveStep, PartAtGate DEF Elsewhere
    <2>3. CASE /\ box' = "warning" /\ enabled' = e /\ autoUpdate' = u
               /\ UNCHANGED <<dialog, verified, fg, dialogActive, locked, guarded, allowed, token, timers>>
      <3>1. gate = "open" /\ UNCHANGED gate  BY <2>1, <2>3 DEF Open
      <3>2. administered' \in BOOLEAN \X BOOLEAN \X BOOLEAN \X BOOLEAN
        BY <2>3 DEF ModalInv, ModalOK
      <3> QED  BY <2>1, <3>1, <3>2 DEF Elsewhere, Gate!Next, Gate!Change
    <2> QED  BY <1>12, <2>2, <2>3 DEF SettingsSaved
  <1>13. CASE RegisterEntered
    <2>1. Open /\ verified /\ enabled /\ UNCHANGED Elsewhere
      BY <1>13 DEF RegisterEntered, Answering, Open, Elsewhere, ModalInv, LockInv, DialogInv,
         TimerInv
    <2>2. CASE (\E b \in {"refused", "rejected"} : Show("register", b)) /\ UNCHANGED remote
      BY <1>1, <2>1, <2>2 DEF Show, StayOpen, Elsewhere
    <2>3. CASE /\ token' = TRUE /\ UNCHANGED <<enabled, autoUpdate, allowed>>
               /\ PerformRemoteSync(timers)
      <3>1. PartDone  BY <2>1, <2>3, SyncStep DEF ModalInv, ModalOK
      <3> QED  BY <2>1, <3>1, PartAtGate DEF Elsewhere
    <2> QED  BY <1>13, <2>2, <2>3 DEF RegisterEntered
  <1>14. CASE ButtonClicked  BY <1>14, CancelStep, CloseAtGate DEF ButtonClicked
  <1>15. CASE ClosedByQuit  BY <1>15, ClosedByQuitStep, CloseAtGate
  <1>16. CASE InitFails
    <2>1. CASE exiting  BY <1>1, <1>16, <2>1 DEF InitFails
    <2>2. CASE ~exiting  BY <1>16, <2>2 DEF InitFails, Gate!Next, Gate!Break
    <2> QED  BY <2>1, <2>2
  <1>17. CASE ShutdownForUpdate
    BY <1>17 DEF ShutdownForUpdate, Shutdown, ModalInv, LockInv, DialogInv, Gate!Next, Gate!Update
  <1>18. CASE Terminated \/ UNCHANGED vars  BY <1>1, <1>18 DEF Terminated, vars
  <1> QED  BY <1>2, <1>3, <1>4, <1>5, <1>6, <1>7, <1>8, <1>9, <1>10, <1>11, <1>12, <1>13, <1>14,
       <1>15, <1>16, <1>17, <1>18 DEF Next, KeyEvent, Answer, Program

(* README.md:10: the kiosk implements the gate it promises.  Only the password opens
   it, for at most MaxAttempts answers; without it the settings stay and the program
   ends by a failure of the browser or a staged update alone. *)
THEOREM GateIsKept == Spec => KeepsGate
  <1>1. Init => Gate!Init
    BY DEF Init, Gate!Init, gate
  <1>2. IInv => ModalInv  BY DEF IInv
  <1> QED  BY Invariance, StepAtGate, <1>1, <1>2, PTL DEF Spec, KeepsGate, Gate!Spec
=============================================================================
