--------------------------- MODULE PhysicalDisplay ---------------------------
(* The OLED of the device: OledDisplay's task with its uploads and its recovery  *)
(* (esp32/components/oled/src/oled_display.cpp, shared/oled/oled_recovery.cpp),  *)
(* the sink and the router that hand it the application's scenes, and the pause  *)
(* for a Wi-Fi scan.  A screen is the number of the scene it shows; it is 0 when *)
(* it shows the diagnostics page, half an upload or, initialised, nothing.       *)
EXTENDS Naturals

CONSTANTS MaxReinit,   \* cfg_.maxReinit: failed uploads before a recovery
          MaxCycles,   \* kMaxReinitCycles
          MaxScenes,   \* bound: changes of the application's scene
          MaxPauses,   \* bound: Wi-Fi scans
          MaxStarts,   \* bound: starts of the task
          OledBudgets  \* bounds, one of them for a behaviour: <<transfers that fail,
                       \* changes of the display mode>>

ASSUME OledBounds ==
  /\ {MaxReinit, MaxCycles, MaxScenes, MaxPauses, MaxStarts} \subseteq Nat
  /\ OledBudgets \subseteq Nat \X Nat

VARIABLES
  running, exited, suspended,  \* running_, taskExited_, suspendedForWifiScan_
  life,        \* state_
  caller,      \* where start() or stop() is: out, created, joining
  task,        \* where the task is: none, idle, check, send, done
  job,         \* what it transfers: upload, init, recover; what for: a screen
  left,        \* transfers of the job that are left
  failed,      \* the job was given up (an abort or a failed transfer)
  busReady,    \* the task's local of that name
  errors,      \* consecutiveErrors_
  cycles,      \* ReinitPolicy: failed initialisations in this window
  wait,        \* ReinitPolicy: nothing may be tried yet
  appDirty, appFb,      \* appFrameDirty_ and the scene in the application's buffer
  panel,             \* what the panel shows
  mode, appFrames, scene,  \* the router's mode, appFramesEnabled_ and scene_
  want, sceneDirty,  \* the application's scene and LvglDemoApp::sceneDirty_
  lost,              \* history: the newest scene was dropped, or taken from the panel,
                     \* and is not owed any more
  traffic,           \* history: transfers since the pause
  oledBudget             \* what is left of the bounds

oledTaskVars == <<task, job, left, failed, busReady, errors, cycles, wait>>
sceneVars == <<appDirty, appFb, mode, appFrames, scene, want, sceneDirty>>
oledVars == <<running, exited, suspended, life, caller, oledTaskVars, sceneVars, panel,
              lost, traffic, oledBudget>>

Segments == 2    \* bound: transfers of an upload or of an initialisation
SpendOled(k) == oledBudget[k] > 0 /\ oledBudget' = [oledBudget EXCEPT ![k] = @ - 1]

OledInit ==
  /\ running = FALSE /\ exited = TRUE /\ suspended = FALSE /\ life = "disabled"
  /\ caller = "out" /\ task = "none" /\ job = [kind |-> "none", screen |-> 0]
  /\ left = 0 /\ failed = FALSE /\ busReady = FALSE /\ errors = 0 /\ cycles = 0
  /\ wait = FALSE /\ appDirty = FALSE /\ appFb = 0 /\ panel = 0 /\ mode = "virtual"
  /\ appFrames = FALSE /\ scene = "diagnostics" /\ want = 1 /\ sceneDirty = TRUE
  /\ lost = TRUE /\ traffic = 0
  /\ \E b \in OledBudgets :
       oledBudget = [scene |-> MaxScenes, fault |-> b[1], pause |-> MaxPauses,
                     mode |-> b[2], start |-> MaxStarts]

\* start(): the task exists, and may have run, before kInitializing is stored.
Start ==
  /\ caller = "out" /\ ~running /\ exited /\ SpendOled("start")
  /\ running' = TRUE /\ exited' = FALSE /\ caller' = "created" /\ task' = "idle"
  /\ busReady' = FALSE /\ wait' = FALSE /\ cycles' = 0
  /\ UNCHANGED <<suspended, life, job, left, failed, errors, sceneVars, panel, lost, traffic>>

StartStores ==
  /\ caller = "created" /\ caller' = "out" /\ life' = "initializing"
  /\ UNCHANGED <<running, exited, suspended, oledTaskVars, sceneVars, panel, lost, traffic, oledBudget>>

\* stop(): it waits for the task, for at most five seconds.
Stop ==
  /\ caller = "out" /\ running
  /\ running' = FALSE /\ suspended' = FALSE /\ life' = "stopping" /\ caller' = "joining"
  /\ UNCHANGED <<exited, oledTaskVars, sceneVars, panel, lost, traffic, oledBudget>>

StopReturns ==
  /\ caller = "joining" /\ caller' = "out"
  /\ UNCHANGED <<running, exited, suspended, life, oledTaskVars, sceneVars, panel, lost,
                 traffic, oledBudget>>

TaskExits ==
  /\ task = "idle" /\ ~running
  /\ task' = "none" /\ exited' = TRUE /\ life' = "disabled" /\ busReady' = FALSE
  /\ UNCHANGED <<running, suspended, caller, job, left, failed, errors, cycles, wait,
                 sceneVars, panel, lost, traffic, oledBudget>>

\* A turn of taskLoop, when the refresh interval is over.
AppScene == scene = "application" /\ appFrames
Begin(kind, screen) ==
  /\ task' = "check" /\ job' = [kind |-> kind, screen |-> screen] /\ left' = Segments
  /\ failed' = FALSE
Turn == task = "idle" /\ running /\ ~suspended

\* Mutant of TurnInits: an initialisation that failed is not tried again.
TurnInitsOnce ==
  /\ Turn /\ ~busReady /\ ~wait /\ cycles = 0 /\ Begin("init", 0) /\ wait' = TRUE
  /\ UNCHANGED <<running, exited, suspended, life, caller, busReady, errors, cycles,
                 sceneVars, panel, lost, traffic, oledBudget>>
TurnInits ==
  /\ Turn /\ ~busReady /\ ~wait /\ Begin("init", 0) /\ wait' = TRUE
  /\ UNCHANGED <<running, exited, suspended, life, caller, busReady, errors, cycles,
                 sceneVars, panel, lost, traffic, oledBudget>>

\* tryBegin, onSuccess and onFailure put the next try off by a time that ends.
WaitEnds ==
  /\ wait /\ task = "idle" /\ wait' = FALSE
  /\ UNCHANGED <<running, exited, suspended, life, caller, task, job, left, failed, busReady,
                 errors, cycles, sceneVars, panel, lost, traffic, oledBudget>>

TurnUploads ==
  /\ Turn /\ busReady
  /\ \/ AppScene /\ appDirty /\ appDirty' = FALSE /\ Begin("upload", appFb)
     \/ ~AppScene /\ Begin("upload", 0) /\ UNCHANGED appDirty
  /\ UNCHANGED <<running, exited, suspended, life, caller, busReady, errors, cycles, wait,
                 appFb, mode, appFrames, scene, want, sceneDirty, panel, lost, traffic, oledBudget>>

\* Mutant of CheckAbort: the pause is not looked at between two transfers.
CheckAbortStopOnly ==
  /\ task = "check"
  /\ task' = IF running THEN "send" ELSE "done"
  /\ failed' = ~running
  /\ UNCHANGED <<running, exited, suspended, life, caller, job, left, busReady, errors,
                 cycles, wait, sceneVars, panel, lost, traffic, oledBudget>>
\* The abort predicate, before each transfer.
CheckAbort ==
  /\ task = "check"
  /\ task' = IF running /\ ~suspended THEN "send" ELSE "done"
  /\ failed' = ~(running /\ ~suspended)
  /\ UNCHANGED <<running, exited, suspended, life, caller, job, left, busReady, errors,
                 cycles, wait, sceneVars, panel, lost, traffic, oledBudget>>

\* One transfer: a segment, a probed address, the reset of the bus.
Transfers ==
  /\ task = "send" /\ left' = left - 1
  /\ task' = IF left = 1 THEN "done" ELSE "check"
  /\ panel' = IF left = 1 THEN job.screen ELSE 0
  /\ lost' = (lost \/ (job.screen = 0 /\ ~appDirty))
  /\ traffic' = IF suspended THEN traffic + 1 ELSE traffic
  /\ UNCHANGED <<running, exited, suspended, life, caller, job, failed, busReady, errors,
                 cycles, wait, sceneVars, oledBudget>>

TransferFails ==
  /\ task = "send" /\ SpendOled("fault") /\ task' = "done" /\ failed' = TRUE
  /\ traffic' = IF suspended THEN traffic + 1 ELSE traffic
  /\ UNCHANGED <<running, exited, suspended, life, caller, job, left, busReady, errors,
                 cycles, wait, sceneVars, panel, lost>>

\* handleUploadResult(true).
Uploaded ==
  /\ task = "done" /\ job.kind = "upload" /\ ~failed
  /\ task' = "idle" /\ life' = "ready" /\ errors' = 0
  /\ UNCHANGED <<running, exited, suspended, caller, job, left, failed, busReady, cycles,
                 wait, sceneVars, panel, lost, traffic, oledBudget>>

\* Mutant of UploadAborted: the scene that was cut short is not owed any more.
UploadAbortedForgets ==
  /\ task = "done" /\ job.kind = "upload" /\ failed /\ suspended
  /\ task' = "idle"
  /\ UNCHANGED <<running, exited, suspended, life, caller, job, left, failed, busReady,
                 errors, cycles, wait, sceneVars, panel, lost, traffic, oledBudget>>
\* A pause is seen after the upload has failed: no error, and the scene is still owed.
UploadAborted ==
  /\ task = "done" /\ job.kind = "upload" /\ failed /\ suspended
  /\ task' = "idle" /\ appDirty' = (appDirty \/ job.screen # 0)
  /\ UNCHANGED <<running, exited, suspended, life, caller, job, left, failed, busReady,
                 errors, cycles, wait, appFb, mode, appFrames, scene, want, sceneDirty, panel,
                 lost, traffic, oledBudget>>

\* handleUploadResult(false): after MaxReinit failures in a row a recovery begins, with
\* the reset of the bus.  An abort whose pause is over by now counts as a failure too.
UploadFailed ==
  /\ task = "done" /\ job.kind = "upload" /\ failed /\ ~suspended
  /\ life' = "degraded" /\ lost' = (lost \/ ~appDirty)
  /\ IF errors + 1 >= MaxReinit
     THEN /\ Begin("recover", 0) /\ errors' = 0
     ELSE /\ task' = "idle" /\ errors' = errors + 1 /\ UNCHANGED <<job, left, failed>>
  /\ UNCHANGED <<running, exited, suspended, caller, busReady, cycles, wait, sceneVars,
                 panel, traffic, oledBudget>>

\* The recovery is over.  It leaves the state degraded, and a bus it could not revive
\* is set up anew by a later turn.
Recovered ==
  /\ task = "done" /\ job.kind = "recover" /\ task' = "idle" /\ busReady' = ~failed
  /\ UNCHANGED <<running, exited, suspended, life, caller, job, left, failed, errors,
                 cycles, wait, sceneVars, panel, lost, traffic, oledBudget>>

\* initOnce and what the loop makes of it; a pause does not count as a failure.
InitEnds ==
  /\ task = "done" /\ job.kind = "init" /\ task' = "idle" /\ busReady' = ~failed
  /\ life' = IF failed THEN "degraded" ELSE "ready"
  /\ cycles' = IF ~failed THEN 0
               ELSE IF suspended THEN cycles ELSE (cycles + 1) % MaxCycles
  /\ UNCHANGED <<running, exited, suspended, caller, job, left, failed, errors, wait,
                 sceneVars, panel, lost, traffic, oledBudget>>

\* pauseForWifiScan and resumeAfterWifiScan.
Pause ==
  /\ running /\ ~suspended /\ SpendOled("pause") /\ suspended' = TRUE /\ traffic' = 0
  /\ UNCHANGED <<running, exited, life, caller, oledTaskVars, sceneVars, panel, lost>>
Resume ==
  /\ suspended /\ suspended' = FALSE
  /\ UNCHANGED <<running, exited, life, caller, oledTaskVars, sceneVars, panel, lost, traffic,
                 oledBudget>>

\* applyDisplayMode: the router's mode under its lock, the sink's scene after it.
RouteMode(m) ==
  /\ SpendOled("mode") /\ m # mode
  /\ mode' = m /\ appFrames' = (m # "virtual")
  /\ UNCHANGED <<running, exited, suspended, life, caller, oledTaskVars, appDirty, appFb, scene,
                 want, sceneDirty, panel, lost, traffic>>
SceneOf(m) == IF m = "mirror" THEN "application" ELSE "diagnostics"
SetScene ==
  /\ scene # SceneOf(mode) /\ scene' = SceneOf(mode)
  /\ UNCHANGED <<running, exited, suspended, life, caller, oledTaskVars, appDirty, appFb, mode,
                 appFrames, want, sceneDirty, panel, lost, traffic, oledBudget>>

\* The application's state changes: LvglDemoApp::markSceneDirty.
SceneChanges ==
  /\ SpendOled("scene") /\ want' = want + 1 /\ sceneDirty' = TRUE
  /\ UNCHANGED <<running, exited, suspended, life, caller, oledTaskVars, appDirty, appFb, mode,
                 appFrames, scene, panel, lost, traffic>>

\* isAvailable of the sink: a paused display is not ready.
IsAvailable == life = "ready" /\ ~suspended

\* The last flush of a cycle takes the scene, and the router hands it to the panel or
\* drops it; nothing presents it again until the application's state changes.
PresentScene ==
  /\ sceneDirty /\ sceneDirty' = FALSE
  /\ IF mode = "mirror" /\ IsAvailable /\ AppScene
     THEN appFb' = want /\ appDirty' = TRUE /\ lost' = FALSE
     ELSE lost' = TRUE /\ UNCHANGED <<appFb, appDirty>>
  /\ UNCHANGED <<running, exited, suspended, life, caller, oledTaskVars, mode, appFrames, scene,
                 want, panel, traffic, oledBudget>>

OledTask == \/ TaskExits \/ TurnInits \/ WaitEnds \/ TurnUploads \/ CheckAbort \/ Transfers
        \/ TransferFails \/ Uploaded \/ UploadAborted \/ UploadFailed \/ Recovered
        \/ InitEnds
OledOthers == \/ Start \/ StartStores \/ Stop \/ StopReturns \/ Pause \/ Resume \/ SetScene
          \/ SceneChanges \/ PresentScene
          \/ \E m \in {"virtual", "split", "mirror"} : RouteMode(m)
OledNext == OledTask \/ OledOthers

OledSpec == OledInit /\ [][OledNext]_oledVars

-----------------------------------------------------------------------------
\* Once a Wi-Fi scan has paused the display, at most the transfer that was already
\* committed touches the I2C bus, in an upload, a recovery or an initialisation.
OneTransferAfterPause == suspended => traffic <= 1

\* A panel at rest that owes nothing shows the newest scene, whatever scans cut uploads
\* short; but for a scene that was dropped (the panel was not ready, or the mode did not
\* show it), that an upload lost, or that an initialisation or the diagnostics page of
\* another mode took from the panel: a return to the mode does not present it again.
SceneSurvivesScan ==
  task = "idle" /\ ~appDirty /\ ~sceneDirty /\ ~lost => panel = want

\* Nothing is left to upload: only a new scene can make the panel ready again.
NothingToUpload == busReady /\ AppScene /\ ~appDirty

\* A display that lost its panel becomes ready again, once the bus works and the scan is
\* over; but for the application's page, which is uploaded only when it changes.
OledComesBack ==
  (running /\ life # "ready") ~> (life = "ready" \/ ~running \/ NothingToUpload)

=============================================================================
