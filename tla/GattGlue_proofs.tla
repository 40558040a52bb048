---------------------------- MODULE GattGlue_proofs ----------------------------
(****************************************************************************)
(* What TLAPS proves of GattGlue, for any size of the key array, any halves  *)
(* of keys and any number of crashes.                                        *)
(****************************************************************************)
EXTENDS GattGlue, TLAPS

(* Advertising needs a free connection, and starting it cleared the counter. *)
AdvFresh ==
  adv => link = "none" /\ keysReceived = 0

(* Nobody can connect, and no restart can be submitted, while the beacon     *)
(* broadcasts; the window is opened with the work queue empty.               *)
QuietOutside ==
  /\ main \in {"boot", "closed", "cleared"} => ~adv /\ link = "none"
  /\ main \in {"boot", "closed"} => "running" \notin work
  /\ main \in {"cleared", "started"} => work = {}
  /\ main \in {"boot", "closed", "cleared", "started", "disable"} => ~advIsSettings

(* A restart is on its way only after a client left, before the next one.    *)
RestartAlone ==
  ~Uploading /\ work # {} =>
    /\ ~adv /\ link = "none"
    /\ ~("queued" \in work /\ "running" \in work)

(* Only a copied request leads into the firmware-upload branch. *)
UploadCopied == Uploading => snap.pause

(* Keys that came in whole are in flash, or will be at the disconnection.    *)
KeysPending == ~Uploading => Saved \/ (Alive /\ updateKeysAtDisconnect)

IInv ==
  /\ TypeOK /\ AuthNotInherited /\ ChunkPositionFresh
  /\ AdvFresh /\ QuietOutside /\ RestartAlone /\ UploadCopied /\ KeysPending

--------------------------------------------------------------------------------

LEMMA InitInv == Init => IInv
<1> SUFFICES ASSUME Init PROVE IInv
  OBVIOUS
<1> USE DEF Init
<1>1. TypeOK
  <2>1. FlagsOK
    BY Zenon DEF FlagsOK
  <2>2. NoKeys \in KeyArray
    BY DEF NoKeys, KeyArray, HalfKey
  <2>3. DataOK
    BY <2>2, MaxKeysAssumption, MaxCrashesAssumption DEF DataOK, NoSnap, MainPCs
  <2> QED
    BY <2>1, <2>3 DEF TypeOK
<1>2. AuthNotInherited /\ ChunkPositionFresh /\ AdvFresh /\ QuietOutside
  BY DEF AuthNotInherited, ChunkPositionFresh, AdvFresh, QuietOutside, Alive
<1>3. RestartAlone /\ UploadCopied /\ KeysPending
  BY DEF RestartAlone, UploadCopied, KeysPending, Uploading, Saved
<1> QED
  BY <1>1, <1>2, <1>3 DEF IInv

(* Every action preserves the type of the flags. *)
LEMMA FlagsStep ==
  ASSUME TypeOK, [Next]_vars
  PROVE  FlagsOK'
<1> USE DEF TypeOK, FlagsOK, MainGoes,
           flags, requests, upload, advertising, keys, history
<1>1. CASE Boot
  BY <1>1, Zenon DEF Boot
<1>2. CASE OpenWindow
  BY <1>2, Zenon DEF OpenWindow, CancelSync
<1>3. CASE StartWindow
  BY <1>3, Zenon DEF StartWindow, StartSettingsAdv
<1>4. CASE MarkWindow
  BY <1>4, Zenon DEF MarkWindow
<1>5. CASE Sync
  BY <1>5, Zenon DEF Sync, TakeSnap
<1>6. CASE StayOpen
  BY <1>6, Zenon DEF StayOpen
<1>7. CASE TimeIsUp
  BY <1>7, Zenon DEF TimeIsUp
<1>8. CASE ConnectedWaitOver
  BY <1>8, Zenon DEF ConnectedWaitOver
<1>9. CASE AuthorizedWaitOver
  BY <1>9, Zenon DEF AuthorizedWaitOver
<1>10. CASE LeaveWindow
  BY <1>10, Zenon DEF LeaveWindow, CancelSync
<1>11. CASE StopWindow
  BY <1>11, Zenon DEF StopWindow, StopSettingsAdv
<1>12. CASE UnmarkWindow
  BY <1>12, Zenon DEF UnmarkWindow
<1>13. CASE Disable
  BY <1>13, Zenon DEF Disable
<1>14. CASE UploadStop
  BY <1>14, Zenon DEF UploadStop, StopSettingsAdv
<1>15. CASE UploadUnmark
  BY <1>15, Zenon DEF UploadUnmark
<1>16. CASE UploadStart
  BY <1>16, Zenon DEF UploadStart, StartSettingsAdv
<1>17. CASE UploadMark
  BY <1>17, Zenon DEF UploadMark
<1>18. CASE UploadOver
  BY <1>18, Zenon DEF UploadOver
<1>19. CASE Reboot
  BY <1>19, Zenon DEF Reboot, Reset, NoSnap
<1>20. CASE HandlerCheck
  BY <1>20, Zenon DEF HandlerCheck
<1>21. CASE HandlerStart
  BY <1>21, Zenon DEF HandlerStart, StartSettingsAdv
<1>22. CASE Connected
  BY <1>22, Zenon DEF Connected, Settled
<1>23. CASE ConnectFailed
  BY <1>23, Zenon DEF ConnectFailed, Settled
<1>24. CASE Disconnected
  BY <1>24, Zenon DEF Disconnected, SavedKeys, ForgetSession
<1>25. CASE Recycled
  BY <1>25, Zenon DEF Recycled, Resubmitted
<1>26. CASE AuthAccepted
  BY <1>26, Zenon DEF AuthAccepted
<1>27. CASE AuthRefused
  BY <1>27, Zenon DEF AuthRefused
<1>28. CASE WriteSetting
  BY <1>28, Zenon DEF WriteSetting, MayWrite
<1>29. CASE WriteLive
  BY <1>29, Zenon DEF WriteLive, MayWrite
<1>30. CASE RequestUpload
  BY <1>30, Zenon DEF RequestUpload, MayWrite
<1>31. CASE Crash
  BY <1>31, Zenon DEF Crash, Reset, NoSnap
<1>32. CASE \E c \in Chunk : WriteKey(c)
  BY <1>32, Zenon DEF WriteKey, MayWrite, Room, Stored, KeyAt, IsSecond
<1>33. CASE UNCHANGED vars
  BY <1>33, Zenon DEF vars
<1> QED
  BY <1>1, <1>2, <1>3, <1>4, <1>5, <1>6, <1>7, <1>8, <1>9, <1>10, <1>11, <1>12, <1>13, <1>14, <1>15, <1>16, <1>17, <1>18, <1>19, <1>20, <1>21, <1>22, <1>23, <1>24, <1>25, <1>26, <1>27, <1>28, <1>29, <1>30, <1>31, <1>32, <1>33 DEF Next, Main, Callbacks

(* Every action preserves the type of the other variables. *)
LEMMA DataStep ==
  ASSUME TypeOK, [Next]_vars
  PROVE  DataOK'
<1> USE MaxKeysAssumption, MaxCrashesAssumption DEF TypeOK, FlagsOK, DataOK, MainPCs, MainGoes,
           flags, requests, upload, advertising, keys, history
<1>1. CASE Boot
  BY <1>1 DEF Boot
<1>2. CASE OpenWindow
  BY <1>2 DEF OpenWindow, CancelSync
<1>3. CASE StartWindow
  BY <1>3 DEF StartWindow, StartSettingsAdv
<1>4. CASE MarkWindow
  BY <1>4 DEF MarkWindow
<1>5. CASE Sync
  BY <1>5 DEF Sync, TakeSnap
<1>6. CASE StayOpen
  BY <1>6 DEF StayOpen
<1>7. CASE TimeIsUp
  BY <1>7 DEF TimeIsUp
<1>8. CASE ConnectedWaitOver
  BY <1>8 DEF ConnectedWaitOver
<1>9. CASE AuthorizedWaitOver
  BY <1>9 DEF AuthorizedWaitOver
<1>10. CASE LeaveWindow
  BY <1>10 DEF LeaveWindow, CancelSync
<1>11. CASE StopWindow
  BY <1>11 DEF StopWindow, StopSettingsAdv
<1>12. CASE UnmarkWindow
  BY <1>12 DEF UnmarkWindow
<1>13. CASE Disable
  BY <1>13 DEF Disable
<1>14. CASE UploadStop
  BY <1>14 DEF UploadStop, StopSettingsAdv
<1>15. CASE UploadUnmark
  BY <1>15 DEF UploadUnmark
<1>16. CASE UploadStart
  BY <1>16 DEF UploadStart, StartSettingsAdv
<1>17. CASE UploadMark
  BY <1>17 DEF UploadMark
<1>18. CASE UploadOver
  BY <1>18 DEF UploadOver
<1>19. CASE Reboot
  BY <1>19 DEF Reboot, Reset, NoSnap
<1>20. CASE HandlerCheck
  BY <1>20 DEF HandlerCheck
<1>21. CASE HandlerStart
  BY <1>21 DEF HandlerStart, StartSettingsAdv
<1>22. CASE Connected
  BY <1>22 DEF Connected, Settled
<1>23. CASE ConnectFailed
  BY <1>23 DEF ConnectFailed, Settled
<1>24. CASE Disconnected
  BY <1>24 DEF Disconnected, SavedKeys, ForgetSession
<1>25. CASE Recycled
  BY <1>25 DEF Recycled, Resubmitted
<1>26. CASE AuthAccepted
  BY <1>26 DEF AuthAccepted
<1>27. CASE AuthRefused
  BY <1>27 DEF AuthRefused
<1>28. CASE WriteSetting
  BY <1>28 DEF WriteSetting, MayWrite
<1>29. CASE WriteLive
  BY <1>29 DEF WriteLive, MayWrite
<1>30. CASE RequestUpload
  BY <1>30 DEF RequestUpload, MayWrite
<1>31. CASE Crash
  BY <1>31 DEF Crash, Reset, NoSnap
<1>32. CASE \E c \in Chunk : WriteKey(c)
  <2>1. PICK c \in Chunk : WriteKey(c)
    BY <1>32
  <2> USE DEF WriteKey, Room, MayWrite
  <2>2. KeyAt \in KeyIndex
    BY <2>1 DEF KeyAt, KeyIndex
  <2>3. Stored(c) \in KeyArray
    BY <2>2 DEF Stored, KeyArray, HalfKey
  <2>4. /\ keysReceived' \in 0..(2 * MaxKeys) /\ chunks' \in 0..(2 * MaxKeys + 1)
    BY <2>1
  <2>5. whole' \subseteq KeyIndex
    BY <2>1, <2>2
  <2> QED
    BY <2>1, <2>3, <2>4, <2>5
<1>33. CASE UNCHANGED vars
  BY <1>33 DEF vars
<1> QED
  BY <1>1, <1>2, <1>3, <1>4, <1>5, <1>6, <1>7, <1>8, <1>9, <1>10, <1>11, <1>12, <1>13, <1>14, <1>15, <1>16, <1>17, <1>18, <1>19, <1>20, <1>21, <1>22, <1>23, <1>24, <1>25, <1>26, <1>27, <1>28, <1>29, <1>30, <1>31, <1>32, <1>33 DEF Next, Main, Callbacks

(* Every action preserves what is known of the window and its advertising. *)
LEMMA WindowStep ==
  ASSUME TypeOK, AdvFresh, QuietOutside, RestartAlone, UploadCopied, [Next]_vars
  PROVE  AdvFresh' /\ QuietOutside' /\ RestartAlone' /\ UploadCopied'
<1> USE DEF AdvFresh, QuietOutside, RestartAlone, UploadCopied, TypeOK, FlagsOK, DataOK, Uploading,
           Alive, MainGoes, flags, requests, upload, advertising, keys, history
<1>1. CASE Boot
  BY <1>1 DEF Boot
<1>2. CASE OpenWindow
  BY <1>2 DEF OpenWindow, CancelSync
<1>3. CASE StartWindow
  BY <1>3 DEF StartWindow, StartSettingsAdv
<1>4. CASE MarkWindow
  BY <1>4 DEF MarkWindow
<1>5. CASE Sync
  BY <1>5 DEF Sync, TakeSnap
<1>6. CASE StayOpen
  BY <1>6 DEF StayOpen
<1>7. CASE TimeIsUp
  BY <1>7 DEF TimeIsUp
<1>8. CASE ConnectedWaitOver
  BY <1>8 DEF ConnectedWaitOver
<1>9. CASE AuthorizedWaitOver
  BY <1>9 DEF AuthorizedWaitOver
<1>10. CASE LeaveWindow
  BY <1>10 DEF LeaveWindow, CancelSync
<1>11. CASE StopWindow
  BY <1>11 DEF StopWindow, StopSettingsAdv
<1>12. CASE UnmarkWindow
  BY <1>12 DEF UnmarkWindow
<1>13. CASE Disable
  BY <1>13 DEF Disable
<1>14. CASE UploadStop
  BY <1>14 DEF UploadStop, StopSettingsAdv
<1>15. CASE UploadUnmark
  BY <1>15 DEF UploadUnmark
<1>16. CASE UploadStart
  BY <1>16 DEF UploadStart, StartSettingsAdv
<1>17. CASE UploadMark
  BY <1>17 DEF UploadMark
<1>18. CASE UploadOver
  BY <1>18 DEF UploadOver
<1>19. CASE Reboot
  BY <1>19 DEF Reboot, Reset, NoSnap
<1>20. CASE HandlerCheck
  BY <1>20 DEF HandlerCheck
<1>21. CASE HandlerStart
  BY <1>21 DEF HandlerStart, StartSettingsAdv
<1>22. CASE Connected
  BY <1>22 DEF Connected, Settled
<1>23. CASE ConnectFailed
  BY <1>23 DEF ConnectFailed, Settled
<1>24. CASE Disconnected
  BY <1>24 DEF Disconnected, SavedKeys, ForgetSession
<1>25. CASE Recycled
  BY <1>25 DEF Recycled, Resubmitted
<1>26. CASE AuthAccepted
  BY <1>26 DEF AuthAccepted
<1>27. CASE AuthRefused
  BY <1>27 DEF AuthRefused
<1>28. CASE WriteSetting
  BY <1>28 DEF WriteSetting, MayWrite
<1>29. CASE WriteLive
  BY <1>29 DEF WriteLive, MayWrite
<1>30. CASE RequestUpload
  BY <1>30 DEF RequestUpload, MayWrite
<1>31. CASE Crash
  BY <1>31 DEF Crash, Reset, NoSnap
<1>32. CASE \E c \in Chunk : WriteKey(c)
  BY <1>32 DEF WriteKey, MayWrite, Room, Stored, KeyAt, IsSecond
<1>33. CASE UNCHANGED vars
  BY <1>33 DEF vars
<1> QED
  BY <1>1, <1>2, <1>3, <1>4, <1>5, <1>6, <1>7, <1>8, <1>9, <1>10, <1>11, <1>12, <1>13, <1>14, <1>15, <1>16, <1>17, <1>18, <1>19, <1>20, <1>21, <1>22, <1>23, <1>24, <1>25, <1>26, <1>27, <1>28, <1>29, <1>30, <1>31, <1>32, <1>33 DEF Next, Main, Callbacks

(* Every action preserves what is known of the session. *)
LEMMA SessionStep ==
  ASSUME TypeOK, AdvFresh, QuietOutside, RestartAlone, UploadCopied,
         AuthNotInherited, ChunkPositionFresh, [Next]_vars
  PROVE  AuthNotInherited' /\ ChunkPositionFresh'
<1> USE MaxKeysAssumption, MaxCrashesAssumption DEF AdvFresh, QuietOutside, RestartAlone, UploadCopied, AuthNotInherited,
           ChunkPositionFresh,         TypeOK, FlagsOK, DataOK, Uploading, Alive, MainGoes, flags, requests, upload, advertising, keys, history
<1>1. CASE Boot
  BY <1>1 DEF Boot
<1>2. CASE OpenWindow
  BY <1>2 DEF OpenWindow, CancelSync
<1>3. CASE StartWindow
  BY <1>3 DEF StartWindow, StartSettingsAdv
<1>4. CASE MarkWindow
  BY <1>4 DEF MarkWindow
<1>5. CASE Sync
  BY <1>5 DEF Sync, TakeSnap
<1>6. CASE StayOpen
  BY <1>6 DEF StayOpen
<1>7. CASE TimeIsUp
  BY <1>7 DEF TimeIsUp
<1>8. CASE ConnectedWaitOver
  BY <1>8 DEF ConnectedWaitOver
<1>9. CASE AuthorizedWaitOver
  BY <1>9 DEF AuthorizedWaitOver
<1>10. CASE LeaveWindow
  BY <1>10 DEF LeaveWindow, CancelSync
<1>11. CASE StopWindow
  BY <1>11 DEF StopWindow, StopSettingsAdv
<1>12. CASE UnmarkWindow
  BY <1>12 DEF UnmarkWindow
<1>13. CASE Disable
  BY <1>13 DEF Disable
<1>14. CASE UploadStop
  BY <1>14 DEF UploadStop, StopSettingsAdv
<1>15. CASE UploadUnmark
  BY <1>15 DEF UploadUnmark
<1>16. CASE UploadStart
  BY <1>16 DEF UploadStart, StartSettingsAdv
<1>17. CASE UploadMark
  BY <1>17 DEF UploadMark
<1>18. CASE UploadOver
  BY <1>18 DEF UploadOver
<1>19. CASE Reboot
  BY <1>19 DEF Reboot, Reset, NoSnap
<1>20. CASE HandlerCheck
  BY <1>20 DEF HandlerCheck
<1>21. CASE HandlerStart
  BY <1>21 DEF HandlerStart, StartSettingsAdv
<1>22. CASE Connected
  BY <1>22 DEF Connected, Settled
<1>23. CASE ConnectFailed
  BY <1>23 DEF ConnectFailed, Settled
<1>24. CASE Disconnected
  BY <1>24 DEF Disconnected, SavedKeys, ForgetSession
<1>25. CASE Recycled
  BY <1>25 DEF Recycled, Resubmitted
<1>26. CASE AuthAccepted
  BY <1>26 DEF AuthAccepted
<1>27. CASE AuthRefused
  BY <1>27 DEF AuthRefused
<1>28. CASE WriteSetting
  BY <1>28 DEF WriteSetting, MayWrite
<1>29. CASE WriteLive
  BY <1>29 DEF WriteLive, MayWrite
<1>30. CASE RequestUpload
  BY <1>30 DEF RequestUpload, MayWrite
<1>31. CASE Crash
  BY <1>31 DEF Crash, Reset, NoSnap
<1>32. CASE \E c \in Chunk : WriteKey(c)
  BY <1>32 DEF WriteKey, MayWrite, Room, Stored, KeyAt, IsSecond
<1>33. CASE UNCHANGED vars
  BY <1>33 DEF vars
<1> QED
  BY <1>1, <1>2, <1>3, <1>4, <1>5, <1>6, <1>7, <1>8, <1>9, <1>10, <1>11, <1>12, <1>13, <1>14, <1>15, <1>16, <1>17, <1>18, <1>19, <1>20, <1>21, <1>22, <1>23, <1>24, <1>25, <1>26, <1>27, <1>28, <1>29, <1>30, <1>31, <1>32, <1>33 DEF Next, Main, Callbacks

(* Every action preserves what is known of the keys. *)
LEMMA KeysStep ==
  ASSUME TypeOK, QuietOutside, RestartAlone, UploadCopied, AdvFresh, AuthNotInherited,
         KeysPending, [Next]_vars
  PROVE  KeysPending'
<1> USE DEF QuietOutside, RestartAlone, UploadCopied, AdvFresh, KeysPending, Saved, TypeOK, FlagsOK, DataOK, Uploading,
           Alive, MainGoes, flags, requests, upload, advertising, keys, history
<1>1. CASE Boot
  BY <1>1 DEF Boot
<1>2. CASE OpenWindow
  BY <1>2 DEF OpenWindow, CancelSync
<1>3. CASE StartWindow
  BY <1>3 DEF StartWindow, StartSettingsAdv
<1>4. CASE MarkWindow
  BY <1>4 DEF MarkWindow
<1>5. CASE Sync
  BY <1>5 DEF Sync, TakeSnap
<1>6. CASE StayOpen
  BY <1>6 DEF StayOpen
<1>7. CASE TimeIsUp
  BY <1>7 DEF TimeIsUp
<1>8. CASE ConnectedWaitOver
  BY <1>8 DEF ConnectedWaitOver
<1>9. CASE AuthorizedWaitOver
  BY <1>9 DEF AuthorizedWaitOver
<1>10. CASE LeaveWindow
  BY <1>10 DEF LeaveWindow, CancelSync
<1>11. CASE StopWindow
  BY <1>11 DEF StopWindow, StopSettingsAdv
<1>12. CASE UnmarkWindow
  BY <1>12 DEF UnmarkWindow
<1>13. CASE Disable
  BY <1>13 DEF Disable
<1>14. CASE UploadStop
  BY <1>14 DEF UploadStop, StopSettingsAdv
<1>15. CASE UploadUnmark
  BY <1>15 DEF UploadUnmark
<1>16. CASE UploadStart
  BY <1>16 DEF UploadStart, StartSettingsAdv
<1>17. CASE UploadMark
  BY <1>17 DEF UploadMark
<1>18. CASE UploadOver
  BY <1>18 DEF UploadOver
<1>19. CASE Reboot
  BY <1>19 DEF Reboot, Reset, NoSnap
<1>20. CASE HandlerCheck
  BY <1>20 DEF HandlerCheck
<1>21. CASE HandlerStart
  BY <1>21 DEF HandlerStart, StartSettingsAdv
<1>22. CASE Connected
  BY <1>22 DEF Connected, Settled
<1>23. CASE ConnectFailed
  BY <1>23 DEF ConnectFailed, Settled
<1>24. CASE Disconnected
  BY <1>24 DEF Disconnected, SavedKeys, ForgetSession
<1>25. CASE Recycled
  BY <1>25 DEF Recycled, Resubmitted
<1>26. CASE AuthAccepted
  BY <1>26 DEF AuthAccepted
<1>27. CASE AuthRefused
  BY <1>27 DEF AuthRefused
<1>28. CASE WriteSetting
  BY <1>28 DEF WriteSetting, MayWrite
<1>29. CASE WriteLive
  BY <1>29 DEF WriteLive, MayWrite
<1>30. CASE RequestUpload
  BY <1>30 DEF RequestUpload, MayWrite
<1>31. CASE Crash
  BY <1>31 DEF Crash, Reset, NoSnap
<1>32. CASE \E c \in Chunk : WriteKey(c)
  BY <1>32 DEF WriteKey, MayWrite, Room, Stored, KeyAt, IsSecond
<1>33. CASE UNCHANGED vars
  BY <1>33 DEF vars
<1> QED
  BY <1>1, <1>2, <1>3, <1>4, <1>5, <1>6, <1>7, <1>8, <1>9, <1>10, <1>11, <1>12, <1>13, <1>14, <1>15, <1>16, <1>17, <1>18, <1>19, <1>20, <1>21, <1>22, <1>23, <1>24, <1>25, <1>26, <1>27, <1>28, <1>29, <1>30, <1>31, <1>32, <1>33 DEF Next, Main, Callbacks

--------------------------------------------------------------------------------

LEMMA Invariance == Spec => []IInv
<1>1. IInv /\ [Next]_vars => IInv'
  <2> SUFFICES ASSUME IInv, [Next]_vars PROVE IInv'
    OBVIOUS
  <2> USE DEF IInv
  <2>1. TypeOK'
    BY FlagsStep, DataStep DEF TypeOK
  <2>2. AdvFresh' /\ QuietOutside' /\ RestartAlone' /\ UploadCopied'
    BY WindowStep
  <2>3. AuthNotInherited' /\ ChunkPositionFresh'
    BY SessionStep
  <2>4. KeysPending'
    BY KeysStep
  <2> QED
    BY <2>1, <2>2, <2>3, <2>4
<1> QED
  BY InitInv, <1>1, PTL DEF Spec

(* The variables keep their types; in particular a client that goes on       *)
(* writing never gets the key counter past the array.                        *)
THEOREM TypeCorrect == Spec => []TypeOK
<1>1. IInv => TypeOK
  BY DEF IInv
<1> QED
  BY Invariance, <1>1, PTL

(* In every interleaving of the callbacks, the work queue and the main       *)
(* thread, the permission to write belongs to the connection that gave the   *)
(* code: no client inherits it.                                              *)
THEOREM NoInheritedAuth == Spec => []AuthNotInherited
<1>1. IInv => AuthNotInherited
  BY DEF IInv
<1> QED
  BY Invariance, <1>1, PTL

(* Outside the firmware-upload branch the key counter of gatt_glue.c is the  *)
(* number of halves the connected client has sent, whatever restarts there   *)
(* were before.                                                              *)
THEOREM ChunksInPlace == Spec => []ChunkPositionFresh
<1>1. IInv => ChunkPositionFresh
  BY DEF IInv
<1> QED
  BY Invariance, <1>1, PTL

(* Outside the firmware-upload branch, keys a client sent in whole are in    *)
(* flash once it is gone.                                                    *)
THEOREM KeysReachFlash == Spec => []WholeKeysSaved
<1>1. IInv => WholeKeysSaved
  BY DEF IInv, KeysPending, WholeKeysSaved, Saved
<1> QED
  BY Invariance, <1>1, PTL

--------------------------------------------------------------------------------
(* The refinement: what the main thread, the callbacks, the work queue and   *)
(* the resets are to BeaconModes.                                            *)

LEMMA InitModes == Init => Modes!Init
<1> SUFFICES ASSUME Init PROVE Modes!Init
  OBVIOUS
<1> QED
  BY DEF Init, NoSnap, Modes!Init, Window, Alive

(* A step that leaves the place of the main thread alone, in a window or an  *)
(* upload, is a step of the session when only an owner raises the request.   *)
LEMMA CallbackModes ==
  ASSUME IInv, UNCHANGED <<main, snap>>, main \notin {"boot", "closed"},
         allowedChange' /\ Alive' => Alive,
         pauseUpload' => pauseUpload \/ (Alive /\ allowedChange)
  PROVE  Modes!SessionStep
<1>1. /\ main \in MainPCs /\ allowedChange \in BOOLEAN /\ pauseUpload \in BOOLEAN
      /\ snap.pause \in BOOLEAN
  BY DEF IInv, TypeOK, FlagsOK, DataOK
<1> QED
  BY <1>1 DEF Modes!SessionStep, Modes!Listening, MainPCs, Window

(* A client is there, or comes, in a window or an upload only. *)
LEMMA ClientNeedsWindow ==
  ASSUME IInv, adv \/ link # "none" \/ "running" \in work
  PROVE  main \notin {"boot", "closed"}
BY DEF IInv, QuietOutside

(* The callbacks and the restart handler step the session, or nothing. *)
LEMMA ThreadsModes ==
  ASSUME IInv, Callbacks \/ HandlerCheck \/ HandlerStart
  PROVE  [Modes!Next]_(Modes!vars)
<1> USE DEF Modes!Next, Modes!vars, flags, requests
<1>1. CASE HandlerCheck
  BY <1>1 DEF HandlerCheck, Alive
<1>2. CASE HandlerStart
  BY <1>2, ClientNeedsWindow, CallbackModes DEF HandlerStart, StartSettingsAdv, Alive
<1>3. CASE Connected \/ ConnectFailed
  BY <1>3, ClientNeedsWindow, CallbackModes DEF Connected, ConnectFailed, Alive
<1>4. CASE Disconnected \/ Recycled
  BY <1>4, ClientNeedsWindow, CallbackModes DEF Disconnected, ForgetSession, Recycled, Alive
<1>5. CASE AuthAccepted \/ AuthRefused
  BY <1>5, ClientNeedsWindow, CallbackModes DEF AuthAccepted, AuthRefused, Alive
<1>6. CASE WriteSetting \/ WriteLive \/ RequestUpload
  BY <1>6, ClientNeedsWindow, CallbackModes
  DEF WriteSetting, WriteLive, RequestUpload, MayWrite, Alive
<1>7. CASE \E c \in Chunk : WriteKey(c)
  BY <1>7, ClientNeedsWindow, CallbackModes DEF WriteKey, MayWrite, Alive
<1> QED
  BY <1>1, <1>2, <1>3, <1>4, <1>5, <1>6, <1>7 DEF Callbacks

(* Every step is a step of the modes or none. *)
LEMMA ModesStep ==
  ASSUME IInv, [Next]_vars
  PROVE  [Modes!Next]_(Modes!vars)
<1> USE DEF Modes!Next, Modes!vars, MainGoes, flags, requests
<1>1. /\ main \in MainPCs /\ allowedChange \in BOOLEAN /\ pauseUpload \in BOOLEAN
      /\ snap.pause \in BOOLEAN
  BY DEF IInv, TypeOK, FlagsOK, DataOK
<1>2. link # "none" => main \notin {"boot", "closed", "cleared"}
  BY DEF IInv, QuietOutside
<1>3. CASE Boot
  BY <1>2, <1>3 DEF Boot, Modes!Start, Window, Alive
<1>4. CASE OpenWindow
  BY <1>2, <1>4 DEF OpenWindow, Modes!OpenWindow, Window, Alive
<1>5. CASE StartWindow
  BY <1>2, <1>5 DEF StartWindow, StartSettingsAdv, Window, Alive
<1>6. CASE Sync
  <2>1. snap'.pause = pauseUpload /\ UNCHANGED <<allowedChange, pauseUpload, link>>
    BY <1>6 DEF Sync, TakeSnap
  <2>2. CASE snap.pause => pauseUpload
    BY <1>1, <1>6, <2>1, <2>2 DEF Sync, Window, Alive
  <2>3. CASE snap.pause /\ ~pauseUpload
    BY <1>1, <1>6, <2>1, <2>3 DEF Sync, Window, Alive, Modes!Withdraw
  <2> QED
    BY <2>2, <2>3
<1>7. CASE LeaveWindow
  BY <1>1, <1>7 DEF LeaveWindow, Modes!Upload, Window, Alive
<1>8. CASE StopWindow \/ UploadStop
  BY <1>8 DEF StopWindow, UploadStop, StopSettingsAdv, Window, Alive
<1>9. CASE Disable
  BY <1>1, <1>9 DEF Disable, Modes!CloseWindow, Modes!Upload, Window, Alive
<1>10. CASE UploadStart
  <2>1. /\ main = "dfuStart" /\ main' = "dfuStarted" /\ UNCHANGED <<snap, pauseUpload, link>>
        /\ ~allowedChange'
    BY <1>10 DEF UploadStart, StartSettingsAdv
  <2> QED
    BY <1>1, <2>1 DEF Modes!SessionStep, Modes!Listening, Window, Alive
<1>11. CASE UploadOver
  BY <1>11 DEF UploadOver, IInv, UploadCopied, Uploading, Window, Alive
<1>12. CASE Reboot \/ Crash
  BY <1>12 DEF Reboot, Crash, Reset, NoSnap, Modes!Restart, Window, Alive
<1>13. CASE Callbacks \/ HandlerCheck \/ HandlerStart
  BY <1>13, ThreadsModes
<1>14. CASE \/ MarkWindow \/ StayOpen \/ TimeIsUp \/ ConnectedWaitOver \/ AuthorizedWaitOver
            \/ UnmarkWindow \/ UploadUnmark \/ UploadMark
  BY <1>14 DEF MarkWindow, StayOpen, TimeIsUp, ConnectedWaitOver, AuthorizedWaitOver,
     UnmarkWindow, UploadUnmark, UploadMark, Window, Alive
<1>15. CASE UNCHANGED vars
  BY <1>15 DEF vars, Alive
<1> QED
  BY <1>3, <1>4, <1>5, <1>6, <1>7, <1>8, <1>9, <1>10, <1>11, <1>12, <1>13, <1>14, <1>15
  DEF Next, Main

(* The window at the grain of its threads implements the modes: a callback   *)
(* or a restart that comes between two steps of the main thread never        *)
(* connects a beacon that broadcasts, never makes an owner of nobody, and    *)
(* an upload begins on a request an owner made.                              *)
THEOREM ThreadsImplementModes == Spec => ImplementsModes
<1>1. IInv /\ [Next]_vars => [Modes!Next]_(Modes!vars)
  BY ModesStep
<1> QED
  BY InitModes, Invariance, <1>1, PTL DEF Spec, ImplementsModes, Modes!Spec

================================================================================
