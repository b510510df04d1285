----------------------------- MODULE PasswordGate -----------------------------
(***************************************************************************)
(* What README.md:10 promises of the kiosk, with no keys, no windows and no *)
(* message boxes: the settings change, and the user ends the program, only  *)
(* between the right password and the end of the dialogs it opened; each    *)
(* time the password is asked for there are at most MaxAttempts answers.    *)
(***************************************************************************)
EXTENDS Naturals

CONSTANTS
    MaxAttempts,  \* answers to one asking
    Settings      \* everything the settings can be

VARIABLES
    gate,      \* "shut", "asked" for the password, or "open" after it
    wrong,     \* wrong answers to this asking
    settings,  \* what only an administrator may change
    broken,    \* the page's browser has failed, and the program says so
    ending     \* the program is to end

gateVars == <<gate, wrong, settings, broken, ending>>

Init ==
    /\ gate = "shut" /\ wrong = 0 /\ settings \in Settings
    /\ broken = FALSE /\ ending = FALSE

Ask ==
    /\ gate = "shut" /\ ~ending
    /\ gate' = "asked" /\ wrong' = 0
    /\ UNCHANGED <<settings, broken, ending>>

AnswerRight ==
    /\ gate = "asked" /\ wrong < MaxAttempts
    /\ gate' = "open"
    /\ UNCHANGED <<wrong, settings, broken, ending>>

AnswerWrong ==
    /\ gate = "asked" /\ wrong < MaxAttempts
    /\ wrong' = wrong + 1
    /\ UNCHANGED <<gate, settings, broken, ending>>

(* The administrator changes the settings; the dialogs may end with it. *)
Change ==
    /\ gate = "open" /\ gate' \in {"open", "shut"}
    /\ settings' \in Settings
    /\ UNCHANGED <<wrong, broken, ending>>

Leave ==
    /\ gate # "shut" /\ gate' = "shut"
    /\ UNCHANGED <<wrong, settings, broken, ending>>

Exit ==
    /\ gate = "open" /\ gate' = "shut"
    /\ ending' = TRUE
    /\ UNCHANGED <<wrong, settings, broken>>

(* Without anybody's password the program ends for two reasons only: there is no
   browser to show the page, or an update is ready while nobody is at the gate. *)
Break ==
    /\ ~ending /\ broken' = TRUE
    /\ UNCHANGED <<gate, wrong, settings, ending>>

GiveUp ==
    /\ broken /\ broken' = FALSE /\ ending' = TRUE
    /\ UNCHANGED <<gate, wrong, settings>>

Update ==
    /\ gate = "shut" /\ ~broken /\ ~ending /\ ending' = TRUE
    /\ UNCHANGED <<gate, wrong, settings, broken>>

Next ==
    \/ Ask \/ AnswerRight \/ AnswerWrong \/ Change \/ Leave \/ Exit
    \/ Break \/ GiveUp \/ Update

Spec == Init /\ [][Next]_gateVars
=============================================================================
