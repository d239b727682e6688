----------------------------- MODULE AgentLink -----------------------------
(***************************************************************************)
(* The link between NaoQi's DCM thread (libagent) and the Motion thread of *)
(* runswift: a block of shared memory (AgentData), a named semaphore, the  *)
(* safety behaviour of the agent when the player goes away, and the life   *)
(* cycle of the runswift process the agent kills and launches.             *)
(*                                                                         *)
(* Two threads of two processes interleave at the granularity of their     *)
(* accesses to AgentData.  Abstracted: the contents of a sensor frame or a *)
(* joint command (only who is accessing which slot is kept), LEDs, speech, *)
(* sonar and battery, and the debouncing that turns the chest button into  *)
(* clicks: here a gesture is an input.                                     *)
(***************************************************************************)
EXTENDS Integers

CONSTANTS
  MAX_SKIPS,      \* cycles without contact before the agent sits the robot
  StiffSitSteps,  \* steps of the ramp with stiffness 1   (0 <= sit_step < 1)
  SoftSitSteps,   \* steps of the ramp with stiffness 0.2 (1 <= sit_step < 2)
  AgentMayStop,   \* may NaoQi be stopped or crash?
  AgentMayStart   \* may it be started again after that?

ASSUME LinkConstants ==
  /\ MAX_SKIPS \in Nat
  /\ StiffSitSteps \in Nat \ {0}
  /\ SoftSitSteps \in Nat \ {0}
  /\ AgentMayStop \in BOOLEAN
  /\ AgentMayStart \in BOOLEAN

VARIABLES
  \* AgentData, the shared memory
  sensors_read, sensors_latest, actuators_read, actuators_latest,
  stiffen,          \* the stiffen request in each slot
  standing,
  semaphore,
  \* the agent (NaoQi process)
  naoqi,            \* "up" or "down"
  dcm,              \* where the DCM thread is in its cycle
  sensor_slot,      \* the slot postCallback is writing
  skipped_frames, sit_step, limp,
  body,             \* what the body joints were last commanded to do
  child,            \* the process forked to become runswift
  \* runswift
  runswift,         \* "off", "running", or "terminating" after a SIGTERM
  motion,           \* where the Motion thread is in its tick
  actuator_slot,    \* the slot actuate() is writing
  kill_standing,
  \* history, read by the properties only
  stand_request,    \* "none", or "asked" while a request of somebody is pending
  served,           \* what this NaoQi did with the command in each slot:
                    \* "new" nothing yet, "served" doStiffen acted on it,
                    \* "raced" it was written between doStiffen and the wipe
  since_take,       \* cycles since Motion last took the semaphore
  lost              \* was the sitting ramp entered since the last stand-up?

memory   == <<sensors_read, sensors_latest, actuators_read, actuators_latest,
              stiffen, standing, semaphore>>
agent    == <<naoqi, dcm, sensor_slot, skipped_frames, sit_step, limp, body,
              child>>
player   == <<runswift, motion, actuator_slot, kill_standing>>
history  == <<stand_request, served, since_take, lost>>
vars     == <<memory, agent, player, history>>

Slots    == 0..2
SitSteps == StiffSitSteps + SoftSitSteps

(* The ranges of the counters.                                             *)
SkipRange  == 0..(MAX_SKIPS + 1)
SitRange   == (-1)..SitSteps
SinceRange == 0..(MAX_SKIPS + 2)

TypeOK ==
  /\ sensors_read \in Slots /\ sensors_latest \in Slots
  /\ actuators_read \in Slots /\ actuators_latest \in Slots
  /\ stiffen \in [Slots -> {"NONE", "STIFFEN"}]
  /\ standing \in BOOLEAN
  /\ semaphore \in {0, 1}
  /\ naoqi \in {"up", "down"}
  /\ dcm \in {"pre", "apply", "post", "buttons", "head", "stiffen", "clear",
              "publish"}
  /\ sensor_slot \in Slots
  /\ skipped_frames \in SkipRange
  /\ sit_step \in SitRange
  /\ limp \in BOOLEAN
  /\ body \in {"limp", "obey", "sit_stiff", "sit_soft"}
  /\ child \in {"none", "kill", "exec"}
  /\ runswift \in {"off", "running", "terminating"}
  /\ motion \in {"off", "loop", "wait", "copy", "standing", "actuate",
                 "write", "clear", "settle"}
  /\ actuator_slot \in Slots
  /\ kill_standing \in BOOLEAN
  /\ stand_request \in {"none", "asked"}
  /\ served \in [Slots -> {"new", "raced", "served"}]
  /\ since_take \in SinceRange
  /\ lost \in BOOLEAN

-----------------------------------------------------------------------------
(* The search for the slot to write, in both processes:                    *)
(*    for (i = 0; i != latest && i != read; ++i) ;                         *)
(* The loop goes on while i is neither, so it ends at the first slot that  *)
(* IS the latest one or the one being read.                                *)
FindSlot(latest, read) ==
  CHOOSE i \in Slots : /\ i = latest \/ i = read
                       /\ \A j \in Slots : j < i => j # latest /\ j # read

(* Agent::Agent: the values the constructor gives the shared memory and the *)
(* agent's own state.  The named semaphore and the stiffen slots outlive    *)
(* NaoQi and are not reset.                                                 *)
Init ==
  /\ sensors_read = 0 /\ sensors_latest = 0
  /\ actuators_read = 0 /\ actuators_latest = 0
  /\ stiffen = [i \in Slots |-> "NONE"]
  /\ standing = FALSE
  /\ semaphore = 0
  /\ naoqi = "up" /\ dcm = "pre" /\ sensor_slot = 0
  /\ skipped_frames = 0 /\ sit_step = -1 /\ limp = TRUE
  /\ body = "limp"
  /\ child = "none"
  /\ runswift = "off" /\ motion = "off" /\ actuator_slot = 0
  /\ kill_standing = FALSE
  /\ stand_request = "none"
  /\ served = [i \in Slots |-> "new"]
  /\ since_take = 0
  /\ lost = FALSE

InContact == skipped_frames <= MAX_SKIPS

-----------------------------------------------------------------------------
(* The DCM thread: preCallback, then postCallback, every cycle.            *)

Dcm(from, to) == naoqi = "up" /\ dcm = from /\ dcm' = to

(* preCallback reads the index of the latest command.                      *)
PreLatch ==
  /\ Dcm("pre", "apply")
  /\ actuators_read' = actuators_latest
  /\ UNCHANGED <<sensors_read, sensors_latest, actuators_latest, stiffen,
                 standing, semaphore, naoqi, sensor_slot, skipped_frames,
                 sit_step, limp, body, child, player, history>>

(* preCallback commands the body: limp, what runswift asked for, or one    *)
(* step of the ramp that sits the robot down.  No generator ever requests  *)
(* AL_ON, so the body commands are always sent.                            *)
ApplyLimp ==
  /\ limp \/ standing
  /\ body' = "limp"
  /\ UNCHANGED <<limp, sit_step, lost>>

ApplyRunswift ==
  /\ ~(limp \/ standing)
  /\ InContact /\ sit_step = -1
  /\ body' = "obey"
  /\ UNCHANGED <<limp, sit_step, lost>>

(* The ramp ends without making the robot limp...                          *)
ApplySit_StaysStiff ==
  LET step == IF sit_step = -1 THEN 0 ELSE sit_step
  IN  /\ ~(limp \/ standing)
      /\ ~(InContact /\ sit_step = -1)
      /\ lost' = TRUE
      /\ sit_step' = IF step < SitSteps THEN step + 1 ELSE -1
      /\ body' = IF step < StiffSitSteps THEN "sit_stiff" ELSE "sit_soft"
      /\ UNCHANGED limp

(* ... or does not advance.                                                *)
ApplySit_NoProgress ==
  LET step == IF sit_step = -1 THEN 0 ELSE sit_step
  IN  /\ ~(limp \/ standing)
      /\ ~(InContact /\ sit_step = -1)
      /\ lost' = TRUE
      /\ sit_step' = step
      /\ body' = "sit_stiff"
      /\ UNCHANGED limp

ApplySit ==
  LET step == IF sit_step = -1 THEN 0 ELSE sit_step
  IN  /\ ~(limp \/ standing)
      /\ ~(InContact /\ sit_step = -1)
      /\ lost' = TRUE
      /\ \/ /\ step < SitSteps
            /\ sit_step' = step + 1
            /\ body' = IF step < StiffSitSteps THEN "sit_stiff" ELSE "sit_soft"
            /\ UNCHANGED limp
         \/ /\ step = SitSteps
            /\ sit_step' = -1
            /\ limp' = TRUE
            /\ body' = "limp"

PreApply ==
  /\ Dcm("apply", "post")
  /\ ApplyLimp \/ ApplyRunswift \/ ApplySit
  /\ UNCHANGED <<memory, naoqi, sensor_slot, skipped_frames, child, player,
                 stand_request, served, since_take>>

(* postCallback picks a slot and starts to write the sensor frame.         *)
PostSensors ==
  /\ Dcm("post", "buttons")
  /\ sensor_slot' = FindSlot(sensors_latest, sensors_read)
  /\ UNCHANGED <<memory, naoqi, skipped_frames, sit_step, limp, body, child,
                 player, history>>

(* killall runswift.  The first SIGTERM asks for a shutdown; the handler   *)
(* is installed with SA_RESETHAND, so the second one kills.                *)
Killall ==
  /\ runswift' = IF runswift = "running" THEN "terminating" ELSE "off"
  /\ motion' = IF runswift = "running" THEN motion ELSE "off"

(* The agent asks for a stand-up: limp = false; standing = true.           *)
RequestStand ==
  /\ limp' = FALSE
  /\ standing' = TRUE
  /\ stand_request' = "asked"
  /\ lost' = FALSE

(* Two clicks of the chest button toggle between limp and standing.        *)
DoubleClick ==
  \/ limp /\ RequestStand /\ UNCHANGED sit_step
  \/ /\ ~limp
     /\ limp' = TRUE
     /\ sit_step' = -1
     /\ standing' = FALSE
     /\ stand_request' = "none"
     /\ UNCHANGED lost

(* Three clicks launch runswift when it is away and kill it when it is     *)
(* there (one child at a time: clicks are far apart in cycles).            *)
TripleClick ==
  \/ /\ ~InContact /\ child = "none"
     /\ child' = "kill"
     /\ UNCHANGED <<runswift, motion>>
  \/ InContact /\ Killall /\ UNCHANGED child

(* doButtons: no gesture, a click for runswift, head limp or wifi; two     *)
(* clicks; three clicks; three clicks with a foot bumper (restart) or a    *)
(* long press (shutdown), which both kill runswift; the long press also    *)
(* makes the robot limp and leaves sit_step as it is.                      *)
PostButtons ==
  /\ Dcm("buttons", "head")
  /\ \/ UNCHANGED <<limp, sit_step, standing, stand_request, lost, child,
                    runswift, motion>>
     \/ DoubleClick /\ UNCHANGED <<child, runswift, motion>>
     \/ /\ TripleClick
        /\ UNCHANGED <<limp, sit_step, standing, stand_request, lost>>
     \/ /\ Killall
        /\ limp' \in {limp, TRUE}
        /\ UNCHANGED <<sit_step, standing, stand_request, lost, child>>
  /\ UNCHANGED <<sensors_read, sensors_latest, actuators_read,
                 actuators_latest, stiffen, semaphore, naoqi, sensor_slot,
                 skipped_frames, body, actuator_slot, kill_standing, served,
                 since_take>>

(* doHeadTouch: a stroke forwards kills runswift, a stroke backwards       *)
(* launches it when it is away, without a killall first.                   *)
PostHead ==
  /\ Dcm("head", "stiffen")
  /\ \/ UNCHANGED <<child, runswift, motion>>
     \/ Killall /\ UNCHANGED child
     \/ /\ ~InContact /\ child = "none"
        /\ child' = "exec"
        /\ UNCHANGED <<runswift, motion>>
  /\ UNCHANGED <<memory, naoqi, sensor_slot, skipped_frames, sit_step, limp,
                 body, actuator_slot, kill_standing, history>>

(* doStiffen acts on the request in the slot preCallback latched...        *)
PostStiffen ==
  /\ Dcm("stiffen", "clear")
  /\ \/ /\ stiffen[actuators_read] = "STIFFEN"
        /\ RequestStand
        /\ served' = [served EXCEPT ![actuators_read] = "served"]
     \/ /\ stiffen[actuators_read] = "NONE"
        /\ UNCHANGED <<limp, standing, stand_request, lost, served>>
  /\ UNCHANGED <<sensors_read, sensors_latest, actuators_read,
                 actuators_latest, stiffen, semaphore, naoqi, sensor_slot,
                 skipped_frames, sit_step, body, child, player, since_take>>

(* The wipe is left out.                                                   *)
PostClear_Keeps ==
  /\ Dcm("clear", "publish")
  /\ UNCHANGED <<memory, naoqi, sensor_slot, skipped_frames, sit_step, limp,
                 body, child, player, history>>

(* ... and the request is wiped so that it is not processed again.         *)
PostClear ==
  /\ Dcm("clear", "publish")
  /\ stiffen' = [stiffen EXCEPT ![actuators_read] = "NONE"]
  /\ served' = [served EXCEPT ![actuators_read] = "new"]
  /\ UNCHANGED <<sensors_read, sensors_latest, actuators_read,
                 actuators_latest, standing, semaphore, naoqi, sensor_slot,
                 skipped_frames, sit_step, limp, body, child, player,
                 stand_request, since_take, lost>>

(* The semaphore is raised every cycle...                                  *)
PostPublish_AlwaysPosts ==
  /\ Dcm("publish", "pre")
  /\ sensors_latest' = sensor_slot
  /\ semaphore' = semaphore + 1
  /\ skipped_frames' = 0
  /\ UNCHANGED <<sensors_read, actuators_read, actuators_latest, stiffen,
                 standing, naoqi, sensor_slot, sit_step, limp, body, child,
                 player, history>>

(* ... or the missed cycles are not counted.                               *)
PostPublish_NoCount ==
  /\ Dcm("publish", "pre")
  /\ sensors_latest' = sensor_slot
  /\ semaphore' = 1
  /\ since_take' = IF since_take < MAX_SKIPS + 2 THEN since_take + 1
                                                 ELSE since_take
  /\ UNCHANGED <<sensors_read, actuators_read, actuators_latest, stiffen,
                 standing, naoqi, sensor_slot, skipped_frames, sit_step, limp,
                 body, child, player, stand_request, served, lost>>

(* The frame is published, and the semaphore is raised only when it is 0:  *)
(* a token still there means that runswift missed the previous frame.      *)
(* skipped_frames saturates just above MAX_SKIPS, the last value the code  *)
(* tells apart.                                                            *)
PostPublish ==
  /\ Dcm("publish", "pre")
  /\ sensors_latest' = sensor_slot
  /\ \/ /\ semaphore <= 0
        /\ semaphore' = semaphore + 1
        /\ skipped_frames' = 0
     \/ /\ semaphore > 0
        /\ skipped_frames' = IF InContact THEN skipped_frames + 1
                                          ELSE skipped_frames
        /\ UNCHANGED semaphore
  /\ since_take' = IF since_take < MAX_SKIPS + 2 THEN since_take + 1
                                                 ELSE since_take
  /\ UNCHANGED <<sensors_read, actuators_read, actuators_latest, stiffen,
                 standing, naoqi, sensor_slot, sit_step, limp, body, child,
                 player, stand_request, served, lost>>

DcmStep ==
  \/ PreLatch \/ PreApply
  \/ PostSensors \/ PostButtons \/ PostHead \/ PostStiffen \/ PostClear
  \/ PostPublish

-----------------------------------------------------------------------------
(* NaoQi itself.                                                           *)

(* Agent::~Agent sets shuttingDown (both callbacks then return at once)    *)
(* and kills runswift; a crash of NaoQi does not.                          *)
AgentStop ==
  /\ AgentMayStop /\ naoqi = "up"
  /\ naoqi' = "down"
  /\ Killall \/ UNCHANGED <<runswift, motion>>
  /\ UNCHANGED <<memory, dcm, sensor_slot, skipped_frames, sit_step, limp,
                 body, child, actuator_slot, kill_standing, history>>

AgentStart ==
  /\ AgentMayStart /\ naoqi = "down"
  /\ naoqi' = "up" /\ dcm' = "pre"
  /\ sensors_read' = 0 /\ sensors_latest' = 0
  /\ actuators_read' = 0 /\ actuators_latest' = 0
  /\ standing' = FALSE /\ stand_request' = "none"
  /\ skipped_frames' = 0 /\ since_take' = 0
  /\ sit_step' = -1 /\ limp' = TRUE /\ lost' = FALSE
  /\ body' = "limp"
  /\ served' = [i \in Slots |-> "new"]
  /\ UNCHANGED <<stiffen, semaphore, sensor_slot, child, player>>

-----------------------------------------------------------------------------
(* The runswift process.                                                   *)

(* A runswift that starts takes the lock on its pid file; a second         *)
(* instance finds the lock taken and exits.                                *)
StartRunswift ==
  IF runswift = "off"
    THEN runswift' = "running" /\ motion' = "loop" /\ kill_standing' = FALSE
    ELSE UNCHANGED <<runswift, motion, kill_standing>>

(* The forked child runs killall runswift (after three clicks only), and   *)
(* then becomes runswift.                                                  *)
ChildKill ==
  /\ child = "kill" /\ child' = "exec"
  /\ Killall
  /\ UNCHANGED <<memory, naoqi, dcm, sensor_slot, skipped_frames, sit_step,
                 limp, body, actuator_slot, kill_standing, history>>

ChildExec ==
  /\ child = "exec" /\ child' = "none"
  /\ StartRunswift
  /\ UNCHANGED <<memory, naoqi, dcm, sensor_slot, skipped_frames, sit_step,
                 limp, body, actuator_slot, history>>

(* A person starts runswift from a shell.                                  *)
ShellStart ==
  /\ runswift = "off"
  /\ StartRunswift
  /\ UNCHANGED <<memory, agent, actuator_slot, history>>

(* The process dies wherever it is.                                        *)
RunswiftCrash ==
  /\ runswift # "off"
  /\ runswift' = "off" /\ motion' = "off"
  /\ UNCHANGED <<memory, agent, actuator_slot, kill_standing, history>>

-----------------------------------------------------------------------------
(* The Motion thread.                                                      *)

Motion(from, to) == runswift # "off" /\ motion = from /\ motion' = to

(* The loop does not look at attemptingShutdown.                           *)
MotionLoop_Unchecked ==
  /\ Motion("loop", "wait")
  /\ UNCHANGED <<memory, agent, runswift, actuator_slot, kill_standing,
                 history>>

(* ThreadManager::safelyRun checks attemptingShutdown before every tick.   *)
(* When Motion leaves its loop main joins it and the process ends.         *)
MotionLoop ==
  /\ runswift = "running" /\ Motion("loop", "wait")
  /\ UNCHANGED <<memory, agent, runswift, actuator_slot, kill_standing,
                 history>>

MotionExit ==
  /\ runswift = "terminating" /\ Motion("loop", "off")
  /\ runswift' = "off"
  /\ UNCHANGED <<memory, agent, actuator_slot, kill_standing, history>>

(* A signal or an exception in a tick: the thread builds a new             *)
(* MotionAdapter and starts again.  kill_standing is a static variable and *)
(* survives.                                                               *)
MotionRestart ==
  /\ motion \notin {"loop", "wait"} /\ Motion(motion, "loop")
  /\ UNCHANGED <<memory, agent, runswift, actuator_slot, kill_standing,
                 history>>

(* AgentTouch::getSensors waits for the semaphore, whatever SIGTERM said   *)
(* in between, and latches the index of the latest frame.                  *)
GetSensors ==
  /\ Motion("wait", "copy")
  /\ semaphore > 0
  /\ semaphore' = semaphore - 1
  /\ sensors_read' = sensors_latest
  /\ since_take' = 0
  /\ UNCHANGED <<sensors_latest, actuators_read, actuators_latest, stiffen,
                 standing, agent, runswift, actuator_slot, kill_standing,
                 stand_request, served, lost>>

(* The frame has been copied out of its slot.                              *)
SensorsCopied ==
  /\ Motion("copy", "standing")
  /\ UNCHANGED <<memory, agent, runswift, actuator_slot, kill_standing,
                 history>>

(* The tick asks whether to stand.  If so it resets the generators and     *)
(* requests INITIAL.                                                       *)
GetStanding ==
  /\ Motion("standing", "actuate")
  /\ UNCHANGED <<memory, agent, runswift, actuator_slot, kill_standing,
                 history>>

(* AgentEffector::actuate picks a slot and starts to write the command...  *)
ActuateBegin ==
  /\ Motion("actuate", "write")
  /\ actuator_slot' = FindSlot(actuators_latest, actuators_read)
  /\ UNCHANGED <<memory, agent, runswift, kill_standing, history>>

(* ... with a stiffen request or without, and publishes it.                *)
ActuatePublish ==
  /\ Motion("write", "clear")
  /\ \E s \in {"NONE", "STIFFEN"} :
       stiffen' = [stiffen EXCEPT ![actuator_slot] = s]
  /\ served' = [served EXCEPT ![actuator_slot] =
                  IF dcm = "clear" /\ actuator_slot = actuators_read
                    THEN "raced" ELSE "new"]
  /\ actuators_latest' = actuator_slot
  /\ UNCHANGED <<sensors_read, sensors_latest, actuators_read, standing,
                 semaphore, agent, runswift, actuator_slot, kill_standing,
                 stand_request, since_take, lost>>

(* standing = kill_standing, whatever standing was...                      *)
ActuateClear ==
  /\ Motion("clear", "settle")
  /\ standing' = kill_standing
  /\ stand_request' = IF kill_standing THEN stand_request ELSE "none"
  /\ UNCHANGED <<sensors_read, sensors_latest, actuators_read,
                 actuators_latest, stiffen, semaphore, agent, runswift,
                 actuator_slot, kill_standing, served, since_take, lost>>

(* ... then on every second tick it is cleared once more.                  *)
ActuateSettle ==
  /\ Motion("settle", "loop")
  /\ kill_standing' = ~kill_standing
  /\ standing' = IF kill_standing THEN FALSE ELSE standing
  /\ stand_request' = IF kill_standing THEN "none" ELSE stand_request
  /\ UNCHANGED <<sensors_read, sensors_latest, actuators_read,
                 actuators_latest, stiffen, semaphore, agent, runswift,
                 actuator_slot, served, since_take, lost>>

MotionStep ==
  \/ MotionLoop \/ MotionExit
  \/ GetSensors \/ SensorsCopied \/ GetStanding
  \/ ActuateBegin \/ ActuatePublish \/ ActuateClear \/ ActuateSettle

Next ==
  \/ DcmStep \/ AgentStop \/ AgentStart
  \/ ChildKill \/ ChildExec \/ ShellStart \/ RunswiftCrash
  \/ MotionStep \/ MotionRestart

Spec == Init /\ [][Next]_vars

(* The DCM calls both callbacks every 10 ms for as long as NaoQi runs, and *)
(* the Motion thread (SCHED_FIFO, priority 65) is never starved.           *)
Fairness == WF_vars(DcmStep) /\ WF_vars(MotionStep)

FairSpec == Spec /\ Fairness
-----------------------------------------------------------------------------
(* Safety.                                                                 *)

(* Once the agent has begun to sit the robot down, the body never follows  *)
(* runswift again before a stand-up is asked for: the return of runswift,  *)
(* in the middle of the ramp or after it, is not enough.                   *)
LostNeedsStand == body = "obey" => ~lost

(* A body that follows runswift does so because Motion took a token at     *)
(* most MAX_SKIPS + 1 cycles ago: the semaphore and skipped_frames         *)
(* measure together how long the player has been away.                     *)
ContactRecent ==
  [][(dcm = "apply" /\ dcm' = "post" /\ body' = "obey")
       => since_take <= MAX_SKIPS + 1]_vars

(* Between the look of doStiffen and its wipe Motion may write the slot.   *)
(* No request is acted on twice, and the wipe destroys no request that was *)
(* there when doStiffen looked without its having been acted on: what it   *)
(* loses was written between the two lines.                                *)
StiffenServed ==
  [][stiffen[actuators_read] = "STIFFEN"
       => /\ dcm = "stiffen" /\ dcm' = "clear"
               => served[actuators_read] # "served"
          /\ dcm = "clear" /\ dcm' = "publish"
               => served[actuators_read] # "new"]_vars

(* Liveness.                                                               *)

(* When runswift is gone for good and NaoQi is there, the body ends up     *)
(* limp and stays so, whatever the buttons say.                            *)
GoneMeansLimp ==
  <>[](runswift = "off" /\ naoqi = "up") => <>[](body = "limp")

(* The ramp never leaves the robot half-way down with its joints stiff:    *)
(* it ends, or the body goes limp, even if runswift comes back, stands the *)
(* robot up or goes away again meanwhile.                                  *)
SitEnds ==
  (sit_step >= 0 /\ naoqi = "up")
     ~> (sit_step = -1 \/ body = "limp" \/ naoqi = "down")

(* A Motion thread in front of an empty semaphore, with NaoQi away.        *)
Stranded == naoqi = "down" /\ motion = "wait" /\ semaphore = 0

(* A runswift told to shut down leaves (ThreadManager.cpp:49: "End the     *)
(* rUNSWift module"), so that another one can be launched.  Exactly one    *)
(* thing keeps it: sem_wait, after NaoQi has gone, with no token left.     *)
SigtermEnds ==
  runswift = "terminating" ~> (runswift # "terminating" \/ Stranded)

(* What a comment of AgentEffector.cpp says, and the code does not do.     *)

(* "effector needs to set standing to false if we got standing": a body    *)
(* that follows runswift only goes limp because a person or a stiffen      *)
(* request asked for it, never because actuate() touched standing.         *)
LimpWasAsked ==
  [][(dcm = "apply" /\ dcm' = "post" /\ body = "obey" /\ body' = "limp")
       => limp \/ stand_request # "none"]_vars
=============================================================================
