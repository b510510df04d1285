-------------------------- MODULE AutoUpdateProofs --------------------------
(***************************************************************************)
(* The safety properties of AutoUpdate, for every set of versions, every    *)
(* number of start attempts and of concurrent swaps, and both sources.      *)
(***************************************************************************)
EXTENDS AutoUpdate, TLAPS

USE VersionsAssumption, SentinelAssumption, BadAssumption, MaxAttemptsAssumption
USE DEF files, control, timers, outside, history, Contents, MutexExists

(* The device as installed satisfies the inductive invariant. *)
LEMMA InitIInv == Init => IInv
  <1> SUFFICES ASSUME Init PROVE IInv  OBVIOUS
  <1> USE DEF Init
  <1>1. TypeOK
    <2>1. FlagsOK  BY DEF FlagsOK
    <2>2. ImagesOK  BY DEF ImagesOK
    <2>3. CountersOK  BY DEF CountersOK
    <2>4. ControlOK  BY DEF ControlOK, PCs, SwapStates
    <2> QED  BY <2>1, <2>2, <2>3, <2>4 DEF TypeOK
  <1>2. CountInv  BY DEF CountInv, AfterMark
  <1>3. ImageInv  BY DEF ImageInv, ConfirmPCs, FallbackUntilTrusted
  <1>4. SwapInv  BY DEF SwapInv, CheckPCs, ConfirmPCs
  <1>5. StagedInv  BY DEF StagedInv, PendingIsVerified, RollPCs
  <1> QED  BY <1>1, <1>2, <1>3, <1>4, <1>5 DEF IInv

(* The markers, settings and timers stay Boolean. *)
LEMMA FlagsStep == IInv /\ [Next]_vars => FlagsOK'
  <1> SUFFICES ASSUME IInv, [Next]_vars PROVE FlagsOK'  OBVIOUS
  <1> USE DEF IInv, TypeOK, FlagsOK
  <1>1. CASE StartProgram \/ StartSecond \/ DismissBox
    BY <1>1 DEF StartProgram, StartSecond, DismissBox
  <1>2. CASE RecoverNone  BY <1>2 DEF RecoverNone
  <1>3. CASE RecoverRetry  BY <1>3 DEF RecoverRetry
  <1>4. CASE RecoverCount  BY <1>4 DEF RecoverCount
  <1>5. CASE WriteAttempts  BY <1>5 DEF WriteAttempts
  <1>6. CASE RollbackCopy  BY <1>6 DEF RollbackCopy
  <1>7. CASE RollbackDelete
    <2>1. applied' \in {FALSE, applied} /\ pending' \in {FALSE, pending}
      BY <1>7 DEF RollbackDelete, Delete
    <2>2. UNCHANGED <<throttled, windowAtCheck, timers, outside, countLost>>
      BY <1>7 DEF RollbackDelete, Delete
    <2> QED  BY <2>1, <2>2
  <1>8. CASE Relaunch  BY <1>8 DEF Relaunch, ProcessGone
  <1>9. CASE StageMark  BY <1>9 DEF StageMark, StageReturn, ProcessGone
  <1>10. CASE StageClear  BY <1>10 DEF StageClear, Delete
  <1>11. CASE StageLaunch  BY <1>11 DEF StageLaunch, StageReturn, ProcessGone
  <1>12. CASE CheckWritten  BY <1>12 DEF CheckWritten, IsNewerVersion
  <1>13. CASE CheckWriteFails  BY <1>13 DEF CheckWriteFails, CheckEnds
  <1>14. CASE CheckVerify  BY <1>14 DEF CheckVerify, CheckEnds
  <1>15. CASE CheckMarkPending  BY <1>15 DEF CheckMarkPending, CheckEnds
  <1>16. CASE CheckDecide  BY <1>16 DEF CheckDecide, CheckEnds
  <1>17. CASE CheckNothing  BY <1>17 DEF CheckNothing, CheckEnds
  <1>18. CASE CheckStaged  BY <1>18 DEF CheckStaged
  <1>19. CASE CheckDownload  BY <1>19 DEF CheckDownload
  <1>20. CASE ConfirmTick  BY <1>20 DEF ConfirmTick
  <1>21. CASE ConfirmDelete
    <2>1. applied' \in {FALSE, applied} /\ pending' \in {FALSE, pending}
      BY <1>21 DEF ConfirmDelete, Delete
    <2>2. UNCHANGED <<throttled, windowAtCheck, timers, outside, countLost>>
      BY <1>21 DEF ConfirmDelete, Delete
    <2> QED  BY <2>1, <2>2
  <1>22. CASE ExitProcess  BY <1>22 DEF ExitProcess, ProcessGone
  <1>23. CASE Crash  BY <1>23 DEF Crash, ProcessGone, AttemptsCutShort
  <1>24. CASE PowerCut  BY <1>24 DEF PowerCut, ProcessGone, AttemptsCutShort
  <1>25. CASE SaveSettings  BY <1>25 DEF SaveSettings
  <1>26. CASE ExitByUser  BY <1>26 DEF ExitByUser
  <1>27. CASE CheckDue  BY <1>27 DEF CheckDue
  <1>28. CASE WindowTurns  BY <1>28 DEF WindowTurns
  <1>29. ASSUME NEW j \in Jobs, SwapCopy(j) PROVE FlagsOK'  BY <1>29 DEF SwapCopy
  <1>30. ASSUME NEW j \in Jobs, SwapCopied(j) PROVE FlagsOK'  BY <1>30 DEF SwapCopied
  <1>31. ASSUME NEW j \in Jobs, SwapMove(j) PROVE FlagsOK'  BY <1>31 DEF SwapMove
  <1>32. ASSUME NEW j \in Jobs, SwapMoveFails(j) PROVE FlagsOK'  BY <1>32 DEF SwapMoveFails
  <1>33. ASSUME NEW j \in Jobs, SwapStart(j) PROVE FlagsOK'  BY <1>33 DEF SwapStart
  <1>34. CASE UNCHANGED vars  BY <1>34 DEF vars
  <1> QED  BY <1>1, <1>2, <1>3, <1>4, <1>5, <1>6, <1>7, <1>8, <1>9, <1>10, <1>11, <1>12,
       <1>13, <1>14, <1>15, <1>16, <1>17, <1>18, <1>19, <1>20, <1>21, <1>22, <1>23, <1>24,
       <1>25, <1>26, <1>27, <1>28, <1>29, <1>30, <1>31, <1>32, <1>33, <1>34 DEF Next,
       ProcessStep, Recovery, Staging, Checking, CheckTick, SwapStep

(* The files of the executable hold versions or torn copies of one. *)
LEMMA ImagesStep == IInv /\ [Next]_vars => ImagesOK'
  <1> SUFFICES ASSUME IInv, [Next]_vars PROVE ImagesOK'  OBVIOUS
  <1> USE DEF IInv, TypeOK, ImagesOK, ImageInv
  <1>1. CASE StartProgram \/ StartSecond \/ DismissBox
    BY <1>1 DEF StartProgram, StartSecond, DismissBox
  <1>2. CASE RecoverNone  BY <1>2 DEF RecoverNone
  <1>3. CASE RecoverRetry  BY <1>3 DEF RecoverRetry
  <1>4. CASE RecoverCount  BY <1>4 DEF RecoverCount
  <1>5. CASE WriteAttempts  BY <1>5 DEF WriteAttempts
  <1>6. CASE RollbackCopy  BY <1>6 DEF RollbackCopy
  <1>7. CASE RollbackDelete  BY <1>7 DEF RollbackDelete, Delete
  <1>8. CASE Relaunch  BY <1>8 DEF Relaunch, ProcessGone
  <1>9. CASE StageMark  BY <1>9 DEF StageMark, StageReturn, ProcessGone
  <1>10. CASE StageClear  BY <1>10 DEF StageClear, Delete
  <1>11. CASE StageLaunch  BY <1>11 DEF StageLaunch, StageReturn, ProcessGone
  <1>12. CASE CheckWritten  BY <1>12 DEF CheckWritten, IsNewerVersion
  <1>13. CASE CheckWriteFails  BY <1>13 DEF CheckWriteFails, CheckEnds
  <1>14. CASE CheckVerify  BY <1>14 DEF CheckVerify, CheckEnds
  <1>15. CASE CheckMarkPending  BY <1>15 DEF CheckMarkPending, CheckEnds
  <1>16. CASE CheckDecide  BY <1>16 DEF CheckDecide, CheckEnds
  <1>17. CASE CheckNothing  BY <1>17 DEF CheckNothing, CheckEnds
  <1>18. CASE CheckStaged  BY <1>18 DEF CheckStaged
  <1>19. CASE CheckDownload  BY <1>19 DEF CheckDownload
  <1>20. CASE ConfirmTick  BY <1>20 DEF ConfirmTick
  <1>21. CASE ConfirmDelete  BY <1>21 DEF ConfirmDelete, Delete
  <1>22. CASE ExitProcess  BY <1>22 DEF ExitProcess, ProcessGone
  <1>23. CASE Crash  BY <1>23 DEF Crash, ProcessGone, AttemptsCutShort
  <1>24. CASE PowerCut  BY <1>24 DEF PowerCut, ProcessGone, AttemptsCutShort
  <1>25. CASE SaveSettings  BY <1>25 DEF SaveSettings
  <1>26. CASE ExitByUser  BY <1>26 DEF ExitByUser
  <1>27. CASE CheckDue  BY <1>27 DEF CheckDue
  <1>28. CASE WindowTurns  BY <1>28 DEF WindowTurns
  <1>29. ASSUME NEW j \in Jobs, SwapCopy(j) PROVE ImagesOK'  BY <1>29 DEF SwapCopy
  <1>30. ASSUME NEW j \in Jobs, SwapCopied(j) PROVE ImagesOK'  BY <1>30 DEF SwapCopied
  <1>31. ASSUME NEW j \in Jobs, SwapMove(j) PROVE ImagesOK'  BY <1>31 DEF SwapMove
  <1>32. ASSUME NEW j \in Jobs, SwapMoveFails(j) PROVE ImagesOK'  BY <1>32 DEF SwapMoveFails
  <1>33. ASSUME NEW j \in Jobs, SwapStart(j) PROVE ImagesOK'  BY <1>33 DEF SwapStart
  <1>34. CASE UNCHANGED vars  BY <1>34 DEF vars
  <1> QED  BY <1>1, <1>2, <1>3, <1>4, <1>5, <1>6, <1>7, <1>8, <1>9, <1>10, <1>11, <1>12,
       <1>13, <1>14, <1>15, <1>16, <1>17, <1>18, <1>19, <1>20, <1>21, <1>22, <1>23, <1>24,
       <1>25, <1>26, <1>27, <1>28, <1>29, <1>30, <1>31, <1>32, <1>33, <1>34 DEF Next,
       ProcessStep, Recovery, Staging, Checking, CheckTick, SwapStep

(* The counters stay within their bounds. *)
LEMMA CountersStep == IInv /\ [Next]_vars => CountersOK'
  <1> SUFFICES ASSUME IInv, [Next]_vars PROVE CountersOK'  OBVIOUS
  <1> USE DEF IInv, TypeOK, CountersOK, CountInv
  <1>1. CASE StartProgram \/ StartSecond \/ DismissBox
    BY <1>1 DEF StartProgram, StartSecond, DismissBox
  <1>2. CASE RecoverNone  BY <1>2 DEF RecoverNone
  <1>3. CASE RecoverRetry  BY <1>3 DEF RecoverRetry
  <1>4. CASE RecoverCount  BY <1>4 DEF RecoverCount
  <1>5. CASE WriteAttempts  BY <1>5 DEF WriteAttempts
  <1>6. CASE RollbackCopy  BY <1>6 DEF RollbackCopy
  <1>7. CASE RollbackDelete
    <2>1. attempts' \in {0, attempts} /\ runs' \in {0, runs}
      BY <1>7 DEF RollbackDelete, Delete
    <2> QED  BY <2>1
  <1>8. CASE Relaunch  BY <1>8 DEF Relaunch, ProcessGone
  <1>9. CASE StageMark  BY <1>9 DEF StageMark, StageReturn, ProcessGone
  <1>10. CASE StageClear  BY <1>10 DEF StageClear, Delete
  <1>11. CASE StageLaunch  BY <1>11 DEF StageLaunch, StageReturn, ProcessGone
  <1>12. CASE CheckWritten  BY <1>12 DEF CheckWritten, IsNewerVersion
  <1>13. CASE CheckWriteFails  BY <1>13 DEF CheckWriteFails, CheckEnds
  <1>14. CASE CheckVerify  BY <1>14 DEF CheckVerify, CheckEnds
  <1>15. CASE CheckMarkPending  BY <1>15 DEF CheckMarkPending, CheckEnds
  <1>16. CASE CheckDecide  BY <1>16 DEF CheckDecide, CheckEnds
  <1>17. CASE CheckNothing  BY <1>17 DEF CheckNothing, CheckEnds
  <1>18. CASE CheckStaged  BY <1>18 DEF CheckStaged
  <1>19. CASE CheckDownload  BY <1>19 DEF CheckDownload
  <1>20. CASE ConfirmTick  BY <1>20 DEF ConfirmTick
  <1>21. CASE ConfirmDelete
    <2>1. attempts' \in {0, attempts} /\ runs' \in {0, runs}
      BY <1>21 DEF ConfirmDelete, Delete
    <2> QED  BY <2>1
  <1>22. CASE ExitProcess  BY <1>22 DEF ExitProcess, ProcessGone
  <1>23. CASE Crash  BY <1>23 DEF Crash, ProcessGone, AttemptsCutShort
  <1>24. CASE PowerCut  BY <1>24 DEF PowerCut, ProcessGone, AttemptsCutShort
  <1>25. CASE SaveSettings  BY <1>25 DEF SaveSettings
  <1>26. CASE ExitByUser  BY <1>26 DEF ExitByUser
  <1>27. CASE CheckDue  BY <1>27 DEF CheckDue
  <1>28. CASE WindowTurns  BY <1>28 DEF WindowTurns
  <1>29. ASSUME NEW j \in Jobs, SwapCopy(j) PROVE CountersOK'  BY <1>29 DEF SwapCopy
  <1>30. ASSUME NEW j \in Jobs, SwapCopied(j) PROVE CountersOK'  BY <1>30 DEF SwapCopied
  <1>31. ASSUME NEW j \in Jobs, SwapMove(j) PROVE CountersOK'  BY <1>31 DEF SwapMove
  <1>32. ASSUME NEW j \in Jobs, SwapMoveFails(j) PROVE CountersOK'  BY <1>32 DEF SwapMoveFails
  <1>33. ASSUME NEW j \in Jobs, SwapStart(j) PROVE CountersOK'  BY <1>33 DEF SwapStart
  <1>34. CASE UNCHANGED vars  BY <1>34 DEF vars
  <1> QED  BY <1>1, <1>2, <1>3, <1>4, <1>5, <1>6, <1>7, <1>8, <1>9, <1>10, <1>11, <1>12,
       <1>13, <1>14, <1>15, <1>16, <1>17, <1>18, <1>19, <1>20, <1>21, <1>22, <1>23, <1>24,
       <1>25, <1>26, <1>27, <1>28, <1>29, <1>30, <1>31, <1>32, <1>33, <1>34 DEF Next,
       ProcessStep, Recovery, Staging, Checking, CheckTick, SwapStep

(* Control stays at the program points of the client and of its swaps. *)
LEMMA ControlStep == IInv /\ [Next]_vars => ControlOK'
  <1> SUFFICES ASSUME IInv, [Next]_vars PROVE ControlOK'  OBVIOUS
  <1> USE DEF IInv, TypeOK, ControlOK, SwapStates, PCs, StagePCs, CheckPCs, ConfirmPCs, RollPCs
  <1>1. CASE StartProgram \/ StartSecond \/ DismissBox
    BY <1>1 DEF StartProgram, StartSecond, DismissBox
  <1>2. CASE RecoverNone  BY <1>2 DEF RecoverNone
  <1>3. CASE RecoverRetry  BY <1>3 DEF RecoverRetry
  <1>4. CASE RecoverCount  BY <1>4 DEF RecoverCount
  <1>5. CASE WriteAttempts  BY <1>5 DEF WriteAttempts
  <1>6. CASE RollbackCopy  BY <1>6 DEF RollbackCopy
  <1>7. CASE RollbackDelete  BY <1>7 DEF RollbackDelete, Delete
  <1>8. CASE Relaunch  BY <1>8 DEF Relaunch, ProcessGone
  <1>9. CASE StageMark  BY <1>9 DEF StageMark, StageReturn, ProcessGone
  <1>10. CASE StageClear  BY <1>10 DEF StageClear, Delete
  <1>11. CASE StageLaunch  BY <1>11 DEF StageLaunch, StageReturn, ProcessGone
  <1>12. CASE CheckWritten  BY <1>12 DEF CheckWritten, IsNewerVersion
  <1>13. CASE CheckWriteFails  BY <1>13 DEF CheckWriteFails, CheckEnds
  <1>14. CASE CheckVerify  BY <1>14 DEF CheckVerify, CheckEnds
  <1>15. CASE CheckMarkPending  BY <1>15 DEF CheckMarkPending, CheckEnds
  <1>16. CASE CheckDecide  BY <1>16 DEF CheckDecide, CheckEnds
  <1>17. CASE CheckNothing  BY <1>17 DEF CheckNothing, CheckEnds
  <1>18. CASE CheckStaged  BY <1>18 DEF CheckStaged
  <1>19. CASE CheckDownload  BY <1>19 DEF CheckDownload
  <1>20. CASE ConfirmTick  BY <1>20 DEF ConfirmTick
  <1>21. CASE ConfirmDelete  BY <1>21 DEF ConfirmDelete, Delete
  <1>22. CASE ExitProcess  BY <1>22 DEF ExitProcess, ProcessGone
  <1>23. CASE Crash  BY <1>23 DEF Crash, ProcessGone, AttemptsCutShort
  <1>24. CASE PowerCut  BY <1>24 DEF PowerCut, ProcessGone, AttemptsCutShort
  <1>25. CASE SaveSettings  BY <1>25 DEF SaveSettings
  <1>26. CASE ExitByUser  BY <1>26 DEF ExitByUser
  <1>27. CASE CheckDue  BY <1>27 DEF CheckDue
  <1>28. CASE WindowTurns  BY <1>28 DEF WindowTurns
  <1>29. ASSUME NEW j \in Jobs, SwapCopy(j) PROVE ControlOK'  BY <1>29 DEF SwapCopy
  <1>30. ASSUME NEW j \in Jobs, SwapCopied(j) PROVE ControlOK'  BY <1>30 DEF SwapCopied
  <1>31. ASSUME NEW j \in Jobs, SwapMove(j) PROVE ControlOK'  BY <1>31 DEF SwapMove
  <1>32. ASSUME NEW j \in Jobs, SwapMoveFails(j) PROVE ControlOK'  BY <1>32 DEF SwapMoveFails
  <1>33. ASSUME NEW j \in Jobs, SwapStart(j) PROVE ControlOK'  BY <1>33 DEF SwapStart
  <1>34. CASE UNCHANGED vars  BY <1>34 DEF vars
  <1> QED  BY <1>1, <1>2, <1>3, <1>4, <1>5, <1>6, <1>7, <1>8, <1>9, <1>10, <1>11, <1>12,
       <1>13, <1>14, <1>15, <1>16, <1>17, <1>18, <1>19, <1>20, <1>21, <1>22, <1>23, <1>24,
       <1>25, <1>26, <1>27, <1>28, <1>29, <1>30, <1>31, <1>32, <1>33, <1>34 DEF Next,
       ProcessStep, Recovery, Staging, Checking, CheckTick, SwapStep

(* No step lets the counter fall behind the starts it counts. *)
LEMMA CountStep == IInv /\ [Next]_vars => CountInv'
  <1> SUFFICES ASSUME IInv, [Next]_vars PROVE CountInv'  OBVIOUS
  <1> USE DEF IInv, TypeOK, FlagsOK, CountersOK, CountInv, SwapInv, AfterMark, RollPCs
  <1>1. CASE StartProgram \/ StartSecond \/ DismissBox
    BY <1>1 DEF StartProgram, StartSecond, DismissBox
  <1>2. CASE RecoverNone  BY <1>2 DEF RecoverNone
  <1>3. CASE RecoverRetry  BY <1>3 DEF RecoverRetry
  <1>4. CASE RecoverCount  BY <1>4 DEF RecoverCount
  <1>5. CASE WriteAttempts  BY <1>5 DEF WriteAttempts
  <1>6. CASE RollbackCopy  BY <1>6 DEF RollbackCopy
  <1>7. CASE RollbackDelete  BY <1>7 DEF RollbackDelete, Delete
  <1>8. CASE Relaunch  BY <1>8 DEF Relaunch, ProcessGone
  <1>9. CASE StageMark  BY <1>9 DEF StageMark, StageReturn, ProcessGone
  <1>10. CASE StageClear  BY <1>10 DEF StageClear, Delete
  <1>11. CASE StageLaunch  BY <1>11 DEF StageLaunch, StageReturn, ProcessGone
  <1>12. CASE CheckWritten  BY <1>12 DEF CheckWritten, IsNewerVersion
  <1>13. CASE CheckWriteFails  BY <1>13 DEF CheckWriteFails, CheckEnds
  <1>14. CASE CheckVerify  BY <1>14 DEF CheckVerify, CheckEnds
  <1>15. CASE CheckMarkPending  BY <1>15 DEF CheckMarkPending, CheckEnds
  <1>16. CASE CheckDecide  BY <1>16 DEF CheckDecide, CheckEnds
  <1>17. CASE CheckNothing  BY <1>17 DEF CheckNothing, CheckEnds
  <1>18. CASE CheckStaged  BY <1>18 DEF CheckStaged
  <1>19. CASE CheckDownload  BY <1>19 DEF CheckDownload
  <1>20. CASE ConfirmTick  BY <1>20 DEF ConfirmTick
  <1>21. CASE ConfirmDelete  BY <1>21 DEF ConfirmDelete, Delete
  <1>22. CASE ExitProcess  BY <1>22 DEF ExitProcess, ProcessGone
  <1>23. CASE Crash  BY <1>23 DEF Crash, ProcessGone, AttemptsCutShort
  <1>24. CASE PowerCut  BY <1>24 DEF PowerCut, ProcessGone, AttemptsCutShort
  <1>25. CASE SaveSettings  BY <1>25 DEF SaveSettings
  <1>26. CASE ExitByUser  BY <1>26 DEF ExitByUser
  <1>27. CASE CheckDue  BY <1>27 DEF CheckDue
  <1>28. CASE WindowTurns  BY <1>28 DEF WindowTurns
  <1>29. ASSUME NEW j \in Jobs, SwapCopy(j) PROVE CountInv'  BY <1>29 DEF SwapCopy
  <1>30. ASSUME NEW j \in Jobs, SwapCopied(j) PROVE CountInv'  BY <1>30 DEF SwapCopied
  <1>31. ASSUME NEW j \in Jobs, SwapMove(j) PROVE CountInv'  BY <1>31 DEF SwapMove
  <1>32. ASSUME NEW j \in Jobs, SwapMoveFails(j) PROVE CountInv'  BY <1>32 DEF SwapMoveFails
  <1>33. ASSUME NEW j \in Jobs, SwapStart(j) PROVE CountInv'  BY <1>33 DEF SwapStart
  <1>34. CASE UNCHANGED vars  BY <1>34 DEF vars
  <1> QED  BY <1>1, <1>2, <1>3, <1>4, <1>5, <1>6, <1>7, <1>8, <1>9, <1>10, <1>11, <1>12,
       <1>13, <1>14, <1>15, <1>16, <1>17, <1>18, <1>19, <1>20, <1>21, <1>22, <1>23, <1>24,
       <1>25, <1>26, <1>27, <1>28, <1>29, <1>30, <1>31, <1>32, <1>33, <1>34 DEF Next,
       ProcessStep, Recovery, Staging, Checking, CheckTick, SwapStep

(* No step leaves an untrusted image without a fallback. *)
LEMMA ImageStep == IInv /\ [Next]_vars => ImageInv'
  <1> SUFFICES ASSUME IInv, [Next]_vars PROVE ImageInv'  OBVIOUS
  <1> USE DEF IInv, TypeOK, ImagesOK, ControlOK, ImageInv, SwapInv, ConfirmPCs, NoSwaps,
       FallbackUntilTrusted
  <1>1. CASE StartProgram \/ StartSecond \/ DismissBox
    BY <1>1 DEF StartProgram, StartSecond, DismissBox
  <1>2. CASE RecoverNone  BY <1>2 DEF RecoverNone
  <1>3. CASE RecoverRetry  BY <1>3 DEF RecoverRetry
  <1>4. CASE RecoverCount  BY <1>4 DEF RecoverCount
  <1>5. CASE WriteAttempts  BY <1>5 DEF WriteAttempts
  <1>6. CASE RollbackCopy  BY <1>6 DEF RollbackCopy
  <1>7. CASE RollbackDelete  BY <1>7 DEF RollbackDelete, Delete
  <1>8. CASE Relaunch  BY <1>8 DEF Relaunch, ProcessGone
  <1>9. CASE StageMark  BY <1>9 DEF StageMark, StageReturn, ProcessGone
  <1>10. CASE StageClear  BY <1>10 DEF StageClear, Delete
  <1>11. CASE StageLaunch  BY <1>11 DEF StageLaunch, StageReturn, ProcessGone
  <1>12. CASE CheckWritten  BY <1>12 DEF CheckWritten, IsNewerVersion
  <1>13. CASE CheckWriteFails  BY <1>13 DEF CheckWriteFails, CheckEnds
  <1>14. CASE CheckVerify  BY <1>14 DEF CheckVerify, CheckEnds
  <1>15. CASE CheckMarkPending  BY <1>15 DEF CheckMarkPending, CheckEnds
  <1>16. CASE CheckDecide  BY <1>16 DEF CheckDecide, CheckEnds
  <1>17. CASE CheckNothing  BY <1>17 DEF CheckNothing, CheckEnds
  <1>18. CASE CheckStaged  BY <1>18 DEF CheckStaged
  <1>19. CASE CheckDownload  BY <1>19 DEF CheckDownload
  <1>20. CASE ConfirmTick  BY <1>20 DEF ConfirmTick
  <1>21. CASE ConfirmDelete  BY <1>21 DEF ConfirmDelete, Delete
  <1>22. CASE ExitProcess  BY <1>22 DEF ExitProcess, ProcessGone
  <1>23. CASE Crash  BY <1>23 DEF Crash, ProcessGone, AttemptsCutShort
  <1>24. CASE PowerCut  BY <1>24 DEF PowerCut, ProcessGone, AttemptsCutShort
  <1>25. CASE SaveSettings  BY <1>25 DEF SaveSettings
  <1>26. CASE ExitByUser  BY <1>26 DEF ExitByUser
  <1>27. CASE CheckDue  BY <1>27 DEF CheckDue
  <1>28. CASE WindowTurns  BY <1>28 DEF WindowTurns
  <1>29. ASSUME NEW j \in Jobs, SwapCopy(j) PROVE ImageInv'  BY <1>29 DEF SwapCopy
  <1>30. ASSUME NEW j \in Jobs, SwapCopied(j) PROVE ImageInv'  BY <1>30 DEF SwapCopied
  <1>31. ASSUME NEW j \in Jobs, SwapMove(j) PROVE ImageInv'  BY <1>31 DEF SwapMove
  <1>32. ASSUME NEW j \in Jobs, SwapMoveFails(j) PROVE ImageInv'  BY <1>32 DEF SwapMoveFails
  <1>33. ASSUME NEW j \in Jobs, SwapStart(j) PROVE ImageInv'  BY <1>33 DEF SwapStart
  <1>34. CASE UNCHANGED vars  BY <1>34 DEF vars
  <1> QED  BY <1>1, <1>2, <1>3, <1>4, <1>5, <1>6, <1>7, <1>8, <1>9, <1>10, <1>11, <1>12,
       <1>13, <1>14, <1>15, <1>16, <1>17, <1>18, <1>19, <1>20, <1>21, <1>22, <1>23, <1>24,
       <1>25, <1>26, <1>27, <1>28, <1>29, <1>30, <1>31, <1>32, <1>33, <1>34 DEF Next,
       ProcessStep, Recovery, Staging, Checking, CheckTick, SwapStep

(* No step lets a swap move a file without the marker. *)
LEMMA SwapStepInv == IInv /\ [Next]_vars => SwapInv'
  <1> SUFFICES ASSUME IInv, [Next]_vars PROVE SwapInv'  OBVIOUS
  <1> USE DEF IInv, TypeOK, ImagesOK, ControlOK, SwapInv, StagedInv, NoSwaps, CheckPCs,
       ConfirmPCs, RollPCs
  <1>1. CASE StartProgram \/ StartSecond \/ DismissBox
    BY <1>1 DEF StartProgram, StartSecond, DismissBox
  <1>2. CASE RecoverNone  BY <1>2 DEF RecoverNone
  <1>3. CASE RecoverRetry  BY <1>3 DEF RecoverRetry
  <1>4. CASE RecoverCount  BY <1>4 DEF RecoverCount
  <1>5. CASE WriteAttempts  BY <1>5 DEF WriteAttempts
  <1>6. CASE RollbackCopy  BY <1>6 DEF RollbackCopy
  <1>7. CASE RollbackDelete  BY <1>7 DEF RollbackDelete, Delete
  <1>8. CASE Relaunch  BY <1>8 DEF Relaunch, ProcessGone
  <1>9. CASE StageMark  BY <1>9 DEF StageMark, StageReturn, ProcessGone
  <1>10. CASE StageClear  BY <1>10 DEF StageClear, Delete
  <1>11. CASE StageLaunch  BY <1>11 DEF StageLaunch, StageReturn, ProcessGone
  <1>12. CASE CheckWritten  BY <1>12 DEF CheckWritten, IsNewerVersion
  <1>13. CASE CheckWriteFails  BY <1>13 DEF CheckWriteFails, CheckEnds
  <1>14. CASE CheckVerify  BY <1>14 DEF CheckVerify, CheckEnds
  <1>15. CASE CheckMarkPending  BY <1>15 DEF CheckMarkPending, CheckEnds
  <1>16. CASE CheckDecide  BY <1>16 DEF CheckDecide, CheckEnds
  <1>17. CASE CheckNothing  BY <1>17 DEF CheckNothing, CheckEnds
  <1>18. CASE CheckStaged  BY <1>18 DEF CheckStaged
  <1>19. CASE CheckDownload  BY <1>19 DEF CheckDownload
  <1>20. CASE ConfirmTick  BY <1>20 DEF ConfirmTick
  <1>21. CASE ConfirmDelete  BY <1>21 DEF ConfirmDelete, Delete
  <1>22. CASE ExitProcess  BY <1>22 DEF ExitProcess, ProcessGone
  <1>23. CASE Crash  BY <1>23 DEF Crash, ProcessGone, AttemptsCutShort
  <1>24. CASE PowerCut  BY <1>24 DEF PowerCut, ProcessGone, AttemptsCutShort
  <1>25. CASE SaveSettings  BY <1>25 DEF SaveSettings
  <1>26. CASE ExitByUser  BY <1>26 DEF ExitByUser
  <1>27. CASE CheckDue  BY <1>27 DEF CheckDue
  <1>28. CASE WindowTurns  BY <1>28 DEF WindowTurns
  <1>29. ASSUME NEW j \in Jobs, SwapCopy(j) PROVE SwapInv'  BY <1>29 DEF SwapCopy
  <1>30. ASSUME NEW j \in Jobs, SwapCopied(j) PROVE SwapInv'  BY <1>30 DEF SwapCopied
  <1>31. ASSUME NEW j \in Jobs, SwapMove(j) PROVE SwapInv'  BY <1>31 DEF SwapMove
  <1>32. ASSUME NEW j \in Jobs, SwapMoveFails(j) PROVE SwapInv'  BY <1>32 DEF SwapMoveFails
  <1>33. ASSUME NEW j \in Jobs, SwapStart(j) PROVE SwapInv'  BY <1>33 DEF SwapStart
  <1>34. CASE UNCHANGED vars  BY <1>34 DEF vars
  <1> QED  BY <1>1, <1>2, <1>3, <1>4, <1>5, <1>6, <1>7, <1>8, <1>9, <1>10, <1>11, <1>12,
       <1>13, <1>14, <1>15, <1>16, <1>17, <1>18, <1>19, <1>20, <1>21, <1>22, <1>23, <1>24,
       <1>25, <1>26, <1>27, <1>28, <1>29, <1>30, <1>31, <1>32, <1>33, <1>34 DEF Next,
       ProcessStep, Recovery, Staging, Checking, CheckTick, SwapStep

(* No step puts update.pending beside an unverified file. *)
LEMMA StagedStep == IInv /\ [Next]_vars => StagedInv'
  <1> SUFFICES ASSUME IInv, [Next]_vars PROVE StagedInv'  OBVIOUS
  <1> USE DEF IInv, TypeOK, ImagesOK, StagedInv, ImageInv, PendingIsVerified,
       IsNewerVersion, FileVersionPasses, RollPCs
  <1>1. CASE StartProgram \/ StartSecond \/ DismissBox
    BY <1>1 DEF StartProgram, StartSecond, DismissBox
  <1>2. CASE RecoverNone  BY <1>2 DEF RecoverNone
  <1>3. CASE RecoverRetry  BY <1>3 DEF RecoverRetry
  <1>4. CASE RecoverCount  BY <1>4 DEF RecoverCount
  <1>5. CASE WriteAttempts  BY <1>5 DEF WriteAttempts
  <1>6. CASE RollbackCopy  BY <1>6 DEF RollbackCopy
  <1>7. CASE RollbackDelete  BY <1>7 DEF RollbackDelete, Delete
  <1>8. CASE Relaunch  BY <1>8 DEF Relaunch, ProcessGone
  <1>9. CASE StageMark  BY <1>9 DEF StageMark, StageReturn, ProcessGone
  <1>10. CASE StageClear  BY <1>10 DEF StageClear, Delete
  <1>11. CASE StageLaunch  BY <1>11 DEF StageLaunch, StageReturn, ProcessGone
  <1>12. CASE CheckWritten  BY <1>12 DEF CheckWritten, IsNewerVersion
  <1>13. CASE CheckWriteFails  BY <1>13 DEF CheckWriteFails, CheckEnds
  <1>14. CASE CheckVerify  BY <1>14 DEF CheckVerify, CheckEnds
  <1>15. CASE CheckMarkPending  BY <1>15 DEF CheckMarkPending, CheckEnds
  <1>16. CASE CheckDecide  BY <1>16 DEF CheckDecide, CheckEnds
  <1>17. CASE CheckNothing  BY <1>17 DEF CheckNothing, CheckEnds
  <1>18. CASE CheckStaged  BY <1>18 DEF CheckStaged
  <1>19. CASE CheckDownload  BY <1>19 DEF CheckDownload
  <1>20. CASE ConfirmTick  BY <1>20 DEF ConfirmTick
  <1>21. CASE ConfirmDelete  BY <1>21 DEF ConfirmDelete, Delete
  <1>22. CASE ExitProcess  BY <1>22 DEF ExitProcess, ProcessGone
  <1>23. CASE Crash  BY <1>23 DEF Crash, ProcessGone, AttemptsCutShort
  <1>24. CASE PowerCut  BY <1>24 DEF PowerCut, ProcessGone, AttemptsCutShort
  <1>25. CASE SaveSettings  BY <1>25 DEF SaveSettings
  <1>26. CASE ExitByUser  BY <1>26 DEF ExitByUser
  <1>27. CASE CheckDue  BY <1>27 DEF CheckDue
  <1>28. CASE WindowTurns  BY <1>28 DEF WindowTurns
  <1>29. ASSUME NEW j \in Jobs, SwapCopy(j) PROVE StagedInv'  BY <1>29 DEF SwapCopy
  <1>30. ASSUME NEW j \in Jobs, SwapCopied(j) PROVE StagedInv'  BY <1>30 DEF SwapCopied
  <1>31. ASSUME NEW j \in Jobs, SwapMove(j) PROVE StagedInv'  BY <1>31 DEF SwapMove
  <1>32. ASSUME NEW j \in Jobs, SwapMoveFails(j) PROVE StagedInv'  BY <1>32 DEF SwapMoveFails
  <1>33. ASSUME NEW j \in Jobs, SwapStart(j) PROVE StagedInv'  BY <1>33 DEF SwapStart
  <1>34. CASE UNCHANGED vars  BY <1>34 DEF vars
  <1> QED  BY <1>1, <1>2, <1>3, <1>4, <1>5, <1>6, <1>7, <1>8, <1>9, <1>10, <1>11, <1>12,
       <1>13, <1>14, <1>15, <1>16, <1>17, <1>18, <1>19, <1>20, <1>21, <1>22, <1>23, <1>24,
       <1>25, <1>26, <1>27, <1>28, <1>29, <1>30, <1>31, <1>32, <1>33, <1>34 DEF Next,
       ProcessStep, Recovery, Staging, Checking, CheckTick, SwapStep

(* The inductive invariant holds in every reachable state. *)
THEOREM Invariance == Spec => []IInv
  <1>1. IInv /\ [Next]_vars => IInv'
    BY FlagsStep, ImagesStep, CountersStep, ControlStep, CountStep, ImageStep, SwapStepInv,
       StagedStep DEF IInv, TypeOK
  <1> QED  BY InitIInv, <1>1, PTL DEF Spec

(* AutoUpdate keeps its types. *)
THEOREM TypeCorrect == Spec => []TypeOK
  <1>1. IInv => TypeOK  BY DEF IInv
  <1> QED  BY Invariance, <1>1, PTL

(* auto_update.cpp:369-390: unless a write of the counter was lost, a swapped-in
   exe is started at most MaxAttempts times without being confirmed. *)
THEOREM StartsBounded == Spec => []BoundedUnconfirmedStarts
  <1>1. IInv => BoundedUnconfirmedStarts
    BY DEF IInv, TypeOK, FlagsOK, CountersOK, CountInv, BoundedUnconfirmedStarts
  <1> QED  BY Invariance, <1>1, PTL

(* auto_update.cpp:294-296, 399-402: an exe nobody vouches for has a .bak. *)
THEOREM FallbackPresent == Spec => []FallbackUntilTrusted
  <1>1. IInv => FallbackUntilTrusted  BY DEF IInv, ImageInv
  <1> QED  BY Invariance, <1>1, PTL

(* auto_update.cpp:418-426: update.pending stands for a checked .new, which is a
   whole and newer version unless GitHub's download broke off. *)
THEOREM PendingVerified == Spec => []PendingIsVerified
  <1>1. IInv => PendingIsVerified  BY DEF IInv, StagedInv
  <1> QED  BY Invariance, <1>1, PTL

(* Only a move of a swap and the copy of a rollback change the executable. *)
LEMMA WhoReplaces ==
  ASSUME [Next]_vars, exe' # exe
  PROVE  RollbackCopy \/ \E j \in Jobs : SwapMove(j)
  <1> USE DEF files
  <1>1. CASE ProcessStep
    BY <1>1 DEF ProcessStep, Recovery, RecoverNone, RecoverRetry, RecoverCount, WriteAttempts,
         RollbackDelete, Relaunch, Staging, StageMark, StageClear, StageLaunch, Checking,
         CheckWritten, CheckWriteFails, CheckVerify, CheckMarkPending, CheckDecide,
         ConfirmDelete, ExitProcess, Delete
  <1>2. CASE CheckTick \/ ConfirmTick
    BY <1>2 DEF CheckTick, CheckNothing, CheckStaged, CheckDownload, ConfirmTick
  <1>3. ASSUME NEW j \in Jobs, SwapStep(j) PROVE SwapMove(j)
    BY <1>3 DEF SwapStep, SwapCopy, SwapCopied, SwapMoveFails, SwapStart
  <1>4. CASE \/ StartProgram \/ StartSecond \/ DismissBox \/ Crash \/ PowerCut
             \/ SaveSettings \/ ExitByUser \/ CheckDue \/ WindowTurns
    BY <1>4 DEF StartProgram, StartSecond, DismissBox, Crash, PowerCut, SaveSettings, ExitByUser, CheckDue, WindowTurns
  <1>5. CASE UNCHANGED vars  BY <1>5 DEF vars
  <1> QED  BY <1>1, <1>2, <1>3, <1>4, <1>5 DEF Next

(* auto_update.cpp:287-288: the executable is replaced only under the marker. *)
THEOREM AlwaysUnderMarker == Spec => ReplacedUnderMarker
  <1>1. IInv /\ [Next]_vars => [exe' # exe => applied]_vars
    <2> SUFFICES ASSUME IInv, [Next]_vars, exe' # exe PROVE applied  OBVIOUS
    <2>1. CASE RollbackCopy  BY <2>1 DEF RollbackCopy, IInv, SwapInv
    <2>2. ASSUME NEW j \in Jobs, SwapMove(j) PROVE applied
      BY <2>2 DEF SwapMove, IInv, SwapInv, NoSwaps
    <2> QED  BY <2>1, <2>2, WhoReplaces
  <1> QED  BY Invariance, <1>1, PTL DEF Spec, ReplacedUnderMarker

(* auto_update.cpp:473: the self-hosted source never moves an older version in. *)
THEOREM SelfHostedUpgradesOnly == Spec => SelfHostedNeverDowngrades
  <1> DEFINE Upgrade == Source = "self" /\ exe' # exe /\ exe' \in Versions /\ pc # "rb_copy"
                          => exe \in Versions /\ IsNewerVersion(exe', exe)
  <1>1. IInv /\ [Next]_vars => [Upgrade]_vars
    <2> SUFFICES ASSUME IInv, [Next]_vars, Source = "self", exe' # exe, exe' \in Versions,
                        pc # "rb_copy"
                 PROVE  exe \in Versions /\ IsNewerVersion(exe', exe)
      OBVIOUS
    <2>1. CASE RollbackCopy  BY <2>1 DEF RollbackCopy
    <2>2. ASSUME NEW j \in Jobs, SwapMove(j) PROVE exe \in Versions /\ IsNewerVersion(exe', exe)
      BY <2>2 DEF SwapMove, IInv, StagedInv
    <2> QED  BY <2>1, <2>2, WhoReplaces
  <1> QED  BY Invariance, <1>1, PTL DEF Spec, SelfHostedNeverDowngrades
=============================================================================
