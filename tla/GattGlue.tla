-------------------------------- MODULE GattGlue --------------------------------
(****************************************************************************)
(* The settings window at the grain of its threads: the main thread opening, *)
(* watching and closing it (beacon_state.cpp), the Bluetooth callbacks and   *)
(* the globals they share with it (gatt_glue.c), the work queue that starts  *)
(* advertising again after a client left (zephyr_hardware.cpp), and the      *)
(* upload of AirTag keys, half a key at a time.                              *)
(*                                                                           *)
(* A step ends where its thread may be preempted: the main thread blocks in  *)
(* every call into the Bluetooth host, a callback runs to its end, and the   *)
(* restart handler checks first and acts later.                              *)
(****************************************************************************)
EXTENDS Integers, FiniteSets

CONSTANTS
  MaxKeys,     \* kMaxKeysInMemory
  Chunk,       \* the half keys a client may send
  Zero,        \* the half key of an erased array
  MaxCrashes   \* bound on crashes

ASSUME MaxKeysAssumption == MaxKeys \in Nat \ {0}
ASSUME MaxCrashesAssumption == MaxCrashes \in Nat

VARIABLES
  main,                    \* where the main thread is
  snap,                    \* the copies glue_sync_gatt_state takes
  connectedGatt, authorizedGatt, allowedChange,
  needsReset, pauseUpload, keysReceived, updateKeysAtDisconnect,
  advIsSettings,           \* adv_is_settings
  work,                    \* adv_restart_work: subset of {"queued", "running"}
  adv,                     \* the connectable advertising is on the air
  link,                    \* the connection: none, up, closing, dropped
  ram, nvs,                \* the key array, and its copy in flash
  authed, chunks, whole, crashes  \* history of the connection, the keys, the bound

flags == <<connectedGatt, authorizedGatt, allowedChange>>
requests == <<needsReset, pauseUpload>>
upload == <<keysReceived, updateKeysAtDisconnect>>
advertising == <<advIsSettings, work, adv>>
keys == <<ram, nvs, whole>>
history == <<authed, chunks>>
vars == <<main, snap, flags, requests, upload, advertising, link, keys, history, crashes>>

KeyIndex == 0..(MaxKeys - 1)
NoKeys == [i \in KeyIndex |-> [first |-> Zero, second |-> Zero]]
NoSnap == [connected |-> FALSE, authorized |-> FALSE, pause |-> FALSE, reset |-> FALSE]

(* What RAM holds after a reset: the globals are zero, the keys are loaded.  *)
Reset ==
  /\ main' = "boot" /\ snap' = NoSnap
  /\ connectedGatt' = FALSE /\ authorizedGatt' = FALSE /\ allowedChange' = FALSE
  /\ needsReset' = FALSE /\ pauseUpload' = FALSE
  /\ keysReceived' = 0 /\ updateKeysAtDisconnect' = FALSE
  /\ advIsSettings' = FALSE /\ work' = {} /\ adv' = FALSE /\ link' = "none"
  /\ ram' = nvs /\ whole' = {}
  /\ authed' = FALSE /\ chunks' = 0
  /\ UNCHANGED nvs

Init ==
  /\ main = "boot" /\ snap = NoSnap
  /\ connectedGatt = FALSE /\ authorizedGatt = FALSE /\ allowedChange = FALSE
  /\ needsReset = FALSE /\ pauseUpload = FALSE
  /\ keysReceived = 0 /\ updateKeysAtDisconnect = FALSE
  /\ advIsSettings = FALSE /\ work = {} /\ adv = FALSE /\ link = "none"
  /\ ram = NoKeys /\ nvs = NoKeys /\ whole = {}
  /\ authed = FALSE /\ chunks = 0 /\ crashes = 0

--------------------------------------------------------------------------------
(* The main thread. *)

(* start_settings_adv() of gatt_glue.c.  The controller has one connection   *)
(* object: while it is in use the advertising cannot be started.             *)
StartKeepingCount ==  \* mutant: keysReceived is not cleared
  /\ connectedGatt' = FALSE /\ authorizedGatt' = FALSE /\ allowedChange' = FALSE
  /\ updateKeysAtDisconnect' = FALSE /\ UNCHANGED keysReceived
  /\ adv' = (link = "none")
StartSettingsAdv ==
  /\ connectedGatt' = FALSE /\ authorizedGatt' = FALSE /\ allowedChange' = FALSE
  /\ keysReceived' = 0 /\ updateKeysAtDisconnect' = FALSE
  /\ adv' = (link = "none")

(* stop_settings_adv() of gatt_glue.c: the disconnection is only asked for.  *)
StopSettingsAdv ==
  /\ adv' = FALSE
  /\ link' = IF link = "up" THEN "closing" ELSE link

MainGoes(from, to) == main = from /\ main' = to

(* beacon_adv_cancel_sync(): takes queued work back, waits for running work. *)
CancelSync ==
  /\ "running" \notin work
  /\ work' = {}

(* initialize() brings Bluetooth up and starts broadcasting. *)
Boot ==
  /\ MainGoes("boot", "closed")
  /\ UNCHANGED <<snap, flags, requests, upload, advertising, link, keys, history, crashes>>

OpenWindow ==
  /\ MainGoes("closed", "cleared")
  /\ CancelSync
  /\ UNCHANGED <<snap, flags, requests, upload, advIsSettings, adv, link, keys, history, crashes>>

StartWindow ==
  /\ MainGoes("cleared", "started")
  /\ StartSettingsAdv
  /\ UNCHANGED <<snap, requests, advIsSettings, work, link, keys, history, crashes>>

MarkWindow ==
  /\ MainGoes("started", "open")
  /\ advIsSettings' = TRUE
  /\ UNCHANGED <<snap, flags, requests, upload, work, adv, link, keys, history, crashes>>

(* glue_sync_gatt_state() at the head of the loop; the tick's sleep follows. *)
TakeSnap ==
  [connected |-> connectedGatt, authorized |-> authorizedGatt,
   pause |-> pauseUpload, reset |-> needsReset]

Sync ==
  /\ MainGoes("open", "tick")
  /\ snap' = TakeSnap
  /\ UNCHANGED <<flags, requests, upload, advertising, link, keys, history, crashes>>

StayOpen ==
  /\ MainGoes("tick", "open")
  /\ UNCHANGED <<snap, flags, requests, upload, advertising, link, keys, history, crashes>>

(* handle_settings_mode_exit(): the sleeps look at the copies. *)
TimeIsUp ==
  /\ MainGoes("tick", IF snap.connected \/ snap.authorized THEN "connwait" ELSE "leave")
  /\ UNCHANGED <<snap, flags, requests, upload, advertising, link, keys, history, crashes>>

ConnectedWaitOver ==
  /\ MainGoes("connwait", IF snap.authorized THEN "authwait" ELSE "leave")
  /\ UNCHANGED <<snap, flags, requests, upload, advertising, link, keys, history, crashes>>

AuthorizedWaitOver ==
  /\ MainGoes("authwait", "leave")
  /\ UNCHANGED <<snap, flags, requests, upload, advertising, link, keys, history, crashes>>

LeaveWindow ==
  /\ MainGoes("leave", IF snap.pause THEN "dfuStop" ELSE "stop")
  /\ CancelSync
  /\ UNCHANGED <<snap, flags, requests, upload, advIsSettings, adv, link, keys, history, crashes>>

(* The normal branch: stop, forget the mode, take Bluetooth down.            *)
StopWindow ==
  /\ MainGoes("stop", "stopped")
  /\ StopSettingsAdv
  /\ UNCHANGED <<snap, flags, requests, upload, advIsSettings, work, keys, history, crashes>>

UnmarkWindow ==
  /\ MainGoes("stopped", "disable")
  /\ advIsSettings' = FALSE
  /\ UNCHANGED <<snap, flags, requests, upload, work, adv, link, keys, history, crashes>>

(* bt_disable() runs the callbacks of a connection that is still there, and  *)
(* blocks: a handler that is running gets to its end, and fails.             *)
Disable ==
  /\ MainGoes("disable", IF snap.reset THEN "reboot" ELSE "closed")
  /\ link = "none" /\ "running" \notin work
  /\ adv' = FALSE
  /\ UNCHANGED <<snap, flags, requests, upload, advIsSettings, work, link, keys, history, crashes>>

(* The firmware-upload branch: stop, and start again. *)
UploadStop ==
  /\ MainGoes("dfuStop", "dfuStopped")
  /\ StopSettingsAdv
  /\ UNCHANGED <<snap, flags, requests, upload, advIsSettings, work, keys, history, crashes>>

UploadUnmark ==
  /\ MainGoes("dfuStopped", "dfuStart")
  /\ advIsSettings' = FALSE
  /\ UNCHANGED <<snap, flags, requests, upload, work, adv, link, keys, history, crashes>>

UploadStart ==
  /\ MainGoes("dfuStart", "dfuStarted")
  /\ StartSettingsAdv
  /\ UNCHANGED <<snap, requests, advIsSettings, work, link, keys, history, crashes>>

UploadMark ==
  /\ MainGoes("dfuStarted", "upload")
  /\ advIsSettings' = TRUE
  /\ UNCHANGED <<snap, flags, requests, upload, work, adv, link, keys, history, crashes>>

UploadOver ==
  /\ MainGoes("upload", "reboot")
  /\ UNCHANGED <<snap, flags, requests, upload, advertising, link, keys, history, crashes>>

Reboot ==
  /\ main = "reboot"
  /\ Reset
  /\ UNCHANGED crashes

Main ==
  \/ Boot \/ OpenWindow \/ StartWindow \/ MarkWindow \/ Sync \/ StayOpen \/ TimeIsUp
  \/ ConnectedWaitOver \/ AuthorizedWaitOver \/ LeaveWindow
  \/ StopWindow \/ UnmarkWindow \/ Disable
  \/ UploadStop \/ UploadUnmark \/ UploadStart \/ UploadMark \/ UploadOver \/ Reboot

--------------------------------------------------------------------------------
(* The work queue.  It has a lower priority than every other thread here.    *)

HandlerCheck ==
  /\ "queued" \in work /\ "running" \notin work
  /\ work' = (work \ {"queued"}) \cup (IF advIsSettings THEN {"running"} ELSE {})
  /\ UNCHANGED <<main, snap, flags, requests, upload, advIsSettings, adv, link, keys, history, crashes>>

HandlerStart ==
  /\ "running" \in work
  /\ StartSettingsAdv
  /\ work' = work \ {"running"}
  /\ UNCHANGED <<main, snap, requests, advIsSettings, link, keys, history, crashes>>

--------------------------------------------------------------------------------
(* The Bluetooth callbacks.  A connection uses the advertising up.  It takes *)
(* a client milliseconds: by then the main thread, which does not block      *)
(* there, has noted that the advertising it started is the settings one.     *)

Settled == main \notin {"started", "dfuStarted"}

Connected ==
  /\ adv /\ Settled
  /\ adv' = FALSE /\ link' = "up"
  /\ connectedGatt' = TRUE /\ allowedChange' = FALSE
  /\ authed' = FALSE /\ chunks' = 0
  /\ UNCHANGED <<main, snap, authorizedGatt, requests, upload, advIsSettings, work, keys, crashes>>

(* connected() with an error: there never was a connection to lose. *)
ConnectFailed ==
  /\ adv /\ Settled
  /\ adv' = FALSE /\ link' = "dropped"
  /\ allowedChange' = FALSE
  /\ UNCHANGED <<main, snap, connectedGatt, authorizedGatt, requests, upload, advIsSettings,
                 work, keys, history, crashes>>

Alive == link \in {"up", "closing"}

(* disconnected(): at the client's wish, at ours, or because it is out of    *)
(* reach.  Keys that came in whole are saved here.                           *)
SavedByOwner ==  \* mutant: only a client that still has the permission saves
  IF updateKeysAtDisconnect /\ allowedChange THEN ram ELSE nvs
SavedKeys == IF updateKeysAtDisconnect THEN ram ELSE nvs

OnlyUnlinked ==  \* mutant: the permission is left to the recycled callback
  connectedGatt' = FALSE /\ UNCHANGED <<authorizedGatt, allowedChange>>
ForgetSession == connectedGatt' = FALSE /\ authorizedGatt' = FALSE /\ allowedChange' = FALSE

Disconnected ==
  /\ Alive
  /\ link' = "dropped"
  /\ ForgetSession
  /\ nvs' = SavedKeys
  /\ updateKeysAtDisconnect' = FALSE
  /\ authed' = FALSE
  /\ UNCHANGED <<main, snap, requests, keysReceived, advertising, ram, whole, chunks, crashes>>

(* recycled(), and beacon_adv_recycled_cb(): the connection object is free.  *)
ResubmittedIfConnected ==  \* mutant: asks a flag disconnected() has cleared
  IF advIsSettings /\ connectedGatt THEN work \cup {"queued"} ELSE work
Resubmitted == IF advIsSettings THEN work \cup {"queued"} ELSE work

Recycled ==
  /\ link = "dropped"
  /\ link' = "none"
  /\ authorizedGatt' = FALSE /\ allowedChange' = FALSE
  /\ work' = Resubmitted
  /\ UNCHANGED <<main, snap, connectedGatt, requests, upload, advIsSettings, adv, keys, history,
                 crashes>>

(* chrc_write_auth() with the right code, and with another one. *)
AuthAccepted ==
  /\ Alive
  /\ allowedChange' = TRUE /\ authorizedGatt' = TRUE
  /\ authed' = TRUE
  /\ UNCHANGED <<main, snap, connectedGatt, requests, upload, advertising, link, keys, chunks,
                 crashes>>

AuthRefused ==
  /\ Alive
  /\ allowedChange' = FALSE /\ needsReset' = FALSE /\ pauseUpload' = FALSE
  /\ authed' = FALSE
  /\ UNCHANGED <<main, snap, connectedGatt, authorizedGatt, upload, advertising, link, keys, chunks,
                 crashes>>

(* A write passes write_authorize() and the allowedChange test. *)
AuthorizedOnly == Alive /\ authorizedGatt  \* mutant: allowedChange is not tested
MayWrite == Alive /\ authorizedGatt /\ allowedChange

(* chrc_write_key() and beacon_glue_handle_key(): half a key is stored where *)
(* keysReceived says; the second half makes the key count.                   *)
KeyAt == keysReceived \div 2
IsSecond == keysReceived % 2 = 1

Stored(c) == [ram EXCEPT ![KeyAt] = IF IsSecond THEN [@ EXCEPT !.second = c]
                                                ELSE [@ EXCEPT !.first = c]]

RoomForOneMore == keysReceived <= 2 * MaxKeys  \* mutant
Room == keysReceived < 2 * MaxKeys

WriteKey(c) ==
  /\ MayWrite /\ Room
  /\ ram' = Stored(c)
  /\ keysReceived' = keysReceived + 1
  /\ chunks' = IF chunks <= 2 * MaxKeys THEN chunks + 1 ELSE chunks
  /\ \/ /\ IsSecond
        /\ needsReset' = TRUE /\ updateKeysAtDisconnect' = TRUE /\ pauseUpload' = FALSE
        /\ whole' = whole \cup {KeyAt}
     \/ /\ ~IsSecond
        /\ whole' = whole \ {KeyAt}
        /\ UNCHANGED <<requests, updateKeysAtDisconnect>>
  /\ UNCHANGED <<main, snap, flags, advertising, link, nvs, authed, crashes>>

(* The other characteristics: those that ask for a reset, those that do not. *)
WriteSetting ==
  /\ MayWrite
  /\ needsReset' = TRUE /\ pauseUpload' = FALSE
  /\ UNCHANGED <<main, snap, flags, upload, advertising, link, keys, history, crashes>>

WriteLive ==
  /\ MayWrite
  /\ pauseUpload' = FALSE
  /\ UNCHANGED <<main, snap, flags, needsReset, upload, advertising, link, keys, history, crashes>>

(* chrc_write_status() with the reserved value. *)
RequestUpload ==
  /\ MayWrite
  /\ pauseUpload' = TRUE
  /\ UNCHANGED <<main, snap, flags, needsReset, upload, advertising, link, keys, history, crashes>>

Callbacks ==
  \/ Connected \/ ConnectFailed \/ Disconnected \/ Recycled
  \/ AuthAccepted \/ AuthRefused \/ WriteSetting \/ WriteLive \/ RequestUpload
  \/ \E c \in Chunk : WriteKey(c)

(* Loss of power or a watchdog reset. *)
Crash ==
  /\ crashes < MaxCrashes
  /\ Reset
  /\ crashes' = crashes + 1

Next == Main \/ HandlerCheck \/ HandlerStart \/ Callbacks \/ Crash

Spec == Init /\ [][Next]_vars

(* The main thread goes on, the work queue gets the processor while it       *)
(* sleeps, and a connection that ended is cleaned up.  A client need not do  *)
(* anything, but a disconnection that was asked for happens.                 *)
FairSpec ==
  /\ Spec
  /\ WF_vars(Main) /\ WF_vars(HandlerCheck) /\ WF_vars(HandlerStart)
  /\ WF_vars(Recycled) /\ WF_vars(link = "closing" /\ Disconnected)

--------------------------------------------------------------------------------
(* What the window promises. *)

MainPCs == {"boot", "closed", "cleared", "started", "open", "tick", "connwait", "authwait", "leave",
            "stop", "stopped", "disable", "dfuStop", "dfuStopped", "dfuStart", "dfuStarted",
            "upload", "reboot"}
HalfKey == Chunk \cup {Zero}
Uploading ==
  \/ main \in {"dfuStop", "dfuStopped", "dfuStart", "dfuStarted", "upload"}
  \/ main = "reboot" /\ snap.pause
KeyArray == [KeyIndex -> [first : HalfKey, second : HalfKey]]

FlagsOK ==
  /\ connectedGatt \in BOOLEAN /\ authorizedGatt \in BOOLEAN /\ allowedChange \in BOOLEAN
  /\ needsReset \in BOOLEAN /\ pauseUpload \in BOOLEAN /\ updateKeysAtDisconnect \in BOOLEAN
  /\ advIsSettings \in BOOLEAN /\ adv \in BOOLEAN /\ authed \in BOOLEAN

DataOK ==
  /\ main \in MainPCs
  /\ snap \in [connected : BOOLEAN, authorized : BOOLEAN, pause : BOOLEAN, reset : BOOLEAN]
  /\ keysReceived \in 0..(2 * MaxKeys) /\ chunks \in 0..(2 * MaxKeys + 1)
  /\ work \subseteq {"queued", "running"}
  /\ link \in {"none", "up", "closing", "dropped"}
  /\ ram \in KeyArray /\ nvs \in KeyArray /\ whole \subseteq KeyIndex
  /\ crashes \in 0..MaxCrashes

(* Every variable holds a value of its type, the key counter within the      *)
(* array included.                                                           *)
TypeOK == FlagsOK /\ DataOK

(* The permission to change settings belongs to the connection that gave the *)
(* code, and to its last answer: no client inherits it from another one,     *)
(* however disconnection, recycling, restart and window changes interleave.  *)
AuthNotInherited ==
  /\ allowedChange => authed /\ Alive
  /\ authorizedGatt => Alive

(* The halves of a key go where the client means them: the position of the   *)
(* next half is the number of halves this connection has sent, so no restart *)
(* of the advertising clears or keeps the counter at the wrong moment.  (The *)
(* firmware-upload branch starts the advertising whoever is connected.)      *)
ChunkPositionFresh ==
  link = "up" /\ ~Uploading => keysReceived = chunks

(* Keys that came in whole are in flash once the client is gone, outside the *)
(* firmware-upload branch.                                                   *)
Saved == \A i \in whole : nvs[i] = ram[i]
WholeKeysSaved ==
  ~Uploading /\ ~Alive => Saved

(* The window at this grain implements BeaconModes as the main loop does.    *)
Window == {"cleared", "started", "open", "tick", "connwait", "authwait", "leave", "stop",
           "stopped", "disable"}
Modes == INSTANCE BeaconModes WITH
  mode <- CASE main = "boot" -> "Initializing"
            [] main = "closed" -> "Broadcasting"
            [] main \in Window \/ (main = "reboot" /\ ~snap.pause) -> "SettingsMode"
            [] OTHER -> "FirmwareUpload",
  session <- CASE Alive /\ allowedChange -> "owner"
               [] Alive /\ ~allowedChange -> "guest"
               [] OTHER -> "none",
  asked <- pauseUpload \/ snap.pause

ImplementsModes == Modes!Spec

(* A client that leaves does not end the window: the advertising comes back, *)
(* or the window is closed.                                                  *)
AdvertisingComesBack ==
  main = "open" /\ link = "none" ~> adv \/ main \notin {"open", "tick", "connwait", "authwait"}

================================================================================
