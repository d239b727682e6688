-------------------------- MODULE AgentLinkProofs --------------------------
(***************************************************************************)
(* Proofs about the link between the agent and the Motion thread, for      *)
(* every MAX_SKIPS, every length of the ramp, and whether or not NaoQi may *)
(* stop and start.                                                         *)
(***************************************************************************)
EXTENDS AgentLink, FiniteSetTheorems, WellFoundedInduction, TLAPS

(* The search returns one of the three slots, never an index past them     *)
(* (its for loop has no upper bound).                                      *)
LEMMA FindSlotInSlots ==
  ASSUME NEW latest \in Slots, NEW read \in Slots
  PROVE  FindSlot(latest, read) \in Slots
<1> DEFINE P(i) == /\ i = latest \/ i = read
                   /\ \A j \in Slots : j < i => j # latest /\ j # read
<1>1. \E i \in Slots : P(i)
  <2>1. CASE latest <= read
    BY <2>1, P(latest) DEF Slots
  <2>2. CASE read < latest
    BY <2>2, P(read) DEF Slots
  <2>3. QED
    BY <2>1, <2>2 DEF Slots
<1>2. (CHOOSE i \in Slots : P(i)) \in Slots
  BY <1>1
<1>3. QED
  BY <1>2 DEF FindSlot

(* With both indices at 0 the search stops at once, at slot 0.             *)
LEMMA FindSlotZero == FindSlot(0, 0) = 0
<1> DEFINE P(i) == /\ i = 0 \/ i = 0
                   /\ \A j \in Slots : j < i => j # 0 /\ j # 0
<1>1. P(0) /\ 0 \in Slots
  BY DEF Slots
<1>2. P(CHOOSE i \in Slots : P(i))
  BY <1>1
<1>3. (CHOOSE i \in Slots : P(i)) = 0
  BY <1>2
<1>4. QED
  BY <1>3 DEF FindSlot

-----------------------------------------------------------------------------
(* Every variable keeps its type; in particular the semaphore never holds  *)
(* more than one token, whoever crashes or restarts.                       *)
LEMMA TypePreserved == TypeOK /\ [Next]_vars => TypeOK'
<1> SUFFICES ASSUME TypeOK, [Next]_vars PROVE TypeOK'
  OBVIOUS
<1> USE DEF TypeOK, memory, agent, player, history
<1>1. CASE PreLatch
  BY <1>1 DEF PreLatch, Dcm
<1>2. CASE PreApply
  <2>1. sit_step' \in SitRange
    BY <1>2, LinkConstants
       DEF PreApply, ApplyLimp, ApplyRunswift, ApplySit, SitRange, SitSteps
  <2>2. limp' \in BOOLEAN /\ lost' \in BOOLEAN
    BY <1>2 DEF PreApply, ApplyLimp, ApplyRunswift, ApplySit
  <2>3. body' \in {"limp", "obey", "sit_stiff", "sit_soft"}
    BY <1>2 DEF PreApply, ApplyLimp, ApplyRunswift, ApplySit
  <2>4. QED
    BY <1>2, <2>1, <2>2, <2>3 DEF PreApply, Dcm
<1>3. CASE PostSensors
  BY <1>3, FindSlotInSlots DEF PostSensors, Dcm
<1>4. CASE PostButtons
  <2>1. sit_step' \in SitRange
    <3>1. -1 \in SitRange
      BY LinkConstants DEF SitRange, SitSteps
    <3>2. QED
      BY <1>4, <3>1 DEF PostButtons, DoubleClick
  <2>2. limp' \in BOOLEAN /\ standing' \in BOOLEAN /\ lost' \in BOOLEAN
    BY <1>4 DEF PostButtons, DoubleClick, RequestStand
  <2>3. stand_request' \in {"none", "asked"}
    BY <1>4 DEF PostButtons, DoubleClick, RequestStand
  <2>4. /\ child' \in {"none", "kill", "exec"}
        /\ runswift' \in {"off", "running", "terminating"}
        /\ motion' \in {"off", motion}
    BY <1>4 DEF PostButtons, TripleClick, Killall
  <2>5. QED
    BY <1>4, <2>1, <2>2, <2>3, <2>4 DEF PostButtons, Dcm
<1>5. CASE PostHead
  BY <1>5 DEF PostHead, Killall, Dcm
<1>6. CASE PostStiffen
  <2>1. limp' \in BOOLEAN /\ standing' \in BOOLEAN /\ lost' \in BOOLEAN
    BY <1>6 DEF PostStiffen, RequestStand
  <2>2. /\ stand_request' \in {"none", "asked"}
        /\ served' \in [Slots -> {"new", "raced", "served"}]
    BY <1>6 DEF PostStiffen, RequestStand
  <2>3. QED
    BY <1>6, <2>1, <2>2 DEF PostStiffen, Dcm
<1>7. CASE PostClear
  BY <1>7 DEF PostClear, Dcm
<1>8. CASE PostPublish
  <2>1. skipped_frames' \in SkipRange /\ since_take' \in SinceRange
    BY <1>8, LinkConstants
       DEF PostPublish, InContact, SkipRange, SinceRange
  <2>2. semaphore' \in {0, 1}
    BY <1>8 DEF PostPublish
  <2>3. QED
    BY <1>8, <2>1, <2>2 DEF PostPublish, Dcm
<1>9. CASE AgentStop
  BY <1>9 DEF AgentStop, Killall
<1>10. CASE AgentStart
  <2>1. 0 \in SkipRange /\ 0 \in SinceRange /\ -1 \in SitRange /\ 0 \in Slots
    BY LinkConstants DEF SkipRange, SinceRange, SitRange, SitSteps, Slots
  <2>2. QED
    BY <1>10, <2>1 DEF AgentStart
<1>11. CASE ChildKill
  BY <1>11 DEF ChildKill, Killall
<1>12. CASE ChildExec
  <2>1. /\ runswift' \in {runswift, "running"}
        /\ motion' \in {motion, "loop"}
    BY <1>12 DEF ChildExec, StartRunswift
  <2>2. kill_standing' \in BOOLEAN
    BY <1>12 DEF ChildExec, StartRunswift
  <2>3. QED
    BY <1>12, <2>1, <2>2 DEF ChildExec
<1>13. CASE ShellStart
  <2>1. /\ runswift' = "running" /\ motion' = "loop"
        /\ kill_standing' \in BOOLEAN
        /\ UNCHANGED <<memory, agent, actuator_slot, history>>
    BY <1>13 DEF ShellStart, StartRunswift
  <2>2. QED
    BY <2>1
<1>14. CASE RunswiftCrash
  BY <1>14 DEF RunswiftCrash
<1>15. CASE MotionStep
  <2>1. CASE MotionLoop
    BY <2>1 DEF MotionLoop, Motion
  <2>2. CASE MotionExit
    BY <2>2 DEF MotionExit, Motion
  <2>3. CASE GetSensors
    <3>1. 0 \in SinceRange
      BY LinkConstants DEF SinceRange
    <3>2. semaphore' \in {0, 1}
      BY <2>3 DEF GetSensors
    <3>3. QED
      BY <2>3, <3>1, <3>2 DEF GetSensors, Motion
  <2>4. CASE SensorsCopied
    BY <2>4 DEF SensorsCopied, Motion
  <2>5. CASE GetStanding
    BY <2>5 DEF GetStanding, Motion
  <2>6. CASE ActuateBegin
    BY <2>6, FindSlotInSlots DEF ActuateBegin, Motion
  <2>7. CASE ActuatePublish
    BY <2>7 DEF ActuatePublish, Motion
  <2>8. CASE ActuateClear
    BY <2>8 DEF ActuateClear, Motion
  <2>9. CASE ActuateSettle
    <3>1. standing' \in BOOLEAN /\ kill_standing' \in BOOLEAN
      BY <2>9 DEF ActuateSettle
    <3>2. stand_request' \in {"none", "asked"}
      BY <2>9 DEF ActuateSettle
    <3>3. /\ motion' = "loop"
          /\ UNCHANGED <<sensors_read, sensors_latest, actuators_read,
                         actuators_latest, stiffen, semaphore, agent,
                         runswift, actuator_slot, served, since_take, lost>>
      BY <2>9 DEF ActuateSettle, Motion
    <3>4. QED
      BY <3>1, <3>2, <3>3
  <2>10. QED
    BY <1>15, <2>1, <2>2, <2>3, <2>4, <2>5, <2>6, <2>7, <2>8, <2>9
       DEF MotionStep
<1>16. CASE MotionRestart
  BY <1>16 DEF MotionRestart, Motion
<1>17. CASE UNCHANGED vars
  BY <1>17 DEF vars
<1>18. QED
  BY <1>1, <1>2, <1>3, <1>4, <1>5, <1>6, <1>7, <1>8, <1>9, <1>10, <1>11,
     <1>12, <1>13, <1>14, <1>15, <1>16, <1>17 DEF Next, DcmStep

(* The type invariant of the link.                                         *)
THEOREM TypeCorrect == Spec => []TypeOK
<1>1. Init => TypeOK
  <2>1. 0 \in SkipRange /\ 0 \in SinceRange /\ -1 \in SitRange /\ 0 \in Slots
    BY LinkConstants DEF SkipRange, SinceRange, SitRange, SitSteps, Slots
  <2>2. QED
    BY <2>1 DEF Init, TypeOK
<1>2. QED
  BY <1>1, TypePreserved, PTL DEF Spec

-----------------------------------------------------------------------------
(* The three slots of AgentData are one: since FindSlot ends at a slot in  *)
(* use and all the indices start at 0, both directions of the link only    *)
(* ever use slot 0 (libagent.cpp:508, AgentEffector.cpp:94), which is not  *)
(* what the three slots are for.                                           *)
SingleSlot ==
  /\ sensors_latest = 0 /\ sensors_read = 0 /\ sensor_slot = 0
  /\ actuators_latest = 0 /\ actuators_read = 0 /\ actuator_slot = 0

(* No action takes an index away from slot 0: those that set one set it to *)
(* 0, or to what FindSlot returns from 0 and 0.                            *)
LEMMA SlotZeroKept ==
  ASSUME SingleSlot, [Next]_vars PROVE SingleSlot'
<1> USE DEF SingleSlot, memory, agent, player
<1>1. CASE UNCHANGED vars \/ RunswiftCrash \/ ShellStart \/ ChildExec
           \/ ChildKill \/ AgentStart \/ AgentStop
  BY <1>1 DEF vars, RunswiftCrash, ShellStart, ChildExec, ChildKill,
              AgentStart, AgentStop
<1>2. CASE MotionRestart \/ MotionStep
  BY <1>2, FindSlotZero
     DEF MotionRestart, MotionStep, GetSensors, SensorsCopied, GetStanding,
         ActuateBegin, ActuatePublish, ActuateClear, ActuateSettle,
         MotionLoop, MotionExit
<1>3. CASE DcmStep
  BY <1>3, FindSlotZero
     DEF DcmStep, PreLatch, PreApply, PostSensors, PostButtons, PostHead,
         PostStiffen, PostClear, PostPublish
<1> QED
  BY <1>1, <1>2, <1>3 DEF Next

(* Both directions of the link use slot 0 only, for ever.                  *)
LEMMA OnlySlotZero == Spec => []SingleSlot
<1>1. Init => SingleSlot
  BY DEF Init, SingleSlot
<1> QED
  BY <1>1, SlotZeroKept, PTL DEF Spec

-----------------------------------------------------------------------------
(* What the semaphore says about the player's absence.  A token is posted  *)
(* only where none is, so an empty semaphore means that Motion has taken   *)
(* one since the last cycle, and skipped_frames counts the others.         *)
ContactInv ==
  /\ semaphore = 0 => since_take = 0
  /\ since_take <= skipped_frames + 1

LEMMA ContactPreserved == TypeOK /\ ContactInv /\ [Next]_vars => ContactInv'
<1> SUFFICES ASSUME TypeOK, ContactInv, [Next]_vars PROVE ContactInv'
  OBVIOUS
<1>1. /\ semaphore \in {0, 1}
      /\ skipped_frames \in 0..(MAX_SKIPS + 1)
      /\ since_take \in 0..(MAX_SKIPS + 2)
  BY DEF TypeOK, SkipRange, SinceRange
<1>2. CASE PostPublish
  BY <1>1, <1>2, LinkConstants DEF PostPublish, ContactInv, InContact
<1>3. CASE GetSensors
  BY <1>1, <1>3 DEF GetSensors, ContactInv, agent
<1>4. CASE AgentStart
  BY <1>4 DEF AgentStart, ContactInv
<1>5. CASE UNCHANGED <<semaphore, since_take, skipped_frames>>
  BY <1>5 DEF ContactInv
<1>6. CASE ~(PostPublish \/ GetSensors \/ AgentStart)
  <2> UNCHANGED <<semaphore, since_take, skipped_frames>>
    BY <1>6
       DEF Next, DcmStep, MotionStep, PreLatch, PreApply, PostSensors,
           PostButtons, PostHead, PostStiffen, PostClear, AgentStop,
           ChildKill, ChildExec, ShellStart, RunswiftCrash, MotionLoop,
           MotionExit, MotionRestart, SensorsCopied, GetStanding,
           ActuateBegin, ActuatePublish, ActuateClear, ActuateSettle,
           vars, memory, agent, player, history
  <2> QED
    BY <1>5
<1>7. QED
  BY <1>2, <1>3, <1>4, <1>6

(* A body that follows runswift: Motion took a token at most MAX_SKIPS + 1 *)
(* cycles ago.                                                             *)
THEOREM FollowsRecentContact == Spec => ContactRecent
<1>1. Init => ContactInv
  BY DEF Init, ContactInv
<1>2. /\ TypeOK /\ ContactInv /\ [Next]_vars
      => [(dcm = "apply" /\ dcm' = "post" /\ body' = "obey")
            => since_take <= MAX_SKIPS + 1]_vars
  <2> SUFFICES ASSUME TypeOK, ContactInv, Next,
                      dcm = "apply", dcm' = "post", body' = "obey"
               PROVE  since_take <= MAX_SKIPS + 1
    BY DEF vars, memory, agent, player, history
  <2>1. PreApply
    BY DEF Next, DcmStep, MotionStep, PreLatch, PostSensors, PostButtons,
           PostHead, PostStiffen, PostClear, PostPublish, AgentStop,
           AgentStart, ChildKill, ChildExec, ShellStart, RunswiftCrash,
           MotionLoop, MotionExit, MotionRestart, GetSensors, SensorsCopied,
           GetStanding, ActuateBegin, ActuatePublish, ActuateClear,
           ActuateSettle, Dcm, agent
  <2>2. InContact
    BY <2>1 DEF PreApply, ApplyLimp, ApplyRunswift, ApplySit
  <2>3. QED
    BY <2>2, LinkConstants
       DEF InContact, ContactInv, TypeOK, SkipRange, SinceRange
<1>3. QED
  BY <1>1, <1>2, TypeCorrect, ContactPreserved, PTL DEF Spec, ContactRecent

-----------------------------------------------------------------------------
(* Why a lost robot needs a stand-up.  From the first step of the ramp on, *)
(* the robot is either on the ramp or limp until a stand-up is asked for;  *)
(* in both the body does not follow runswift.                              *)
LostInv ==
  /\ LostNeedsStand
  /\ lost => limp \/ sit_step # -1

LEMMA LostPreserved == TypeOK /\ LostInv /\ [Next]_vars => LostInv'
<1> SUFFICES ASSUME TypeOK, LostInv, [Next]_vars PROVE LostInv'
  OBVIOUS
<1> USE DEF LostInv, LostNeedsStand
<1>1. CASE PreApply
  <2>1. CASE ApplyLimp
    BY <2>1 DEF ApplyLimp
  <2>2. CASE ApplyRunswift
    BY <2>2 DEF ApplyRunswift
  <2>3. CASE ApplySit
    <3>1. body' # "obey"
      BY <2>3 DEF ApplySit
    <3>2. limp' \/ sit_step' # -1
      BY <2>3, LinkConstants DEF ApplySit, TypeOK, SitRange, SitSteps
    <3>3. QED
      BY <3>1, <3>2
  <2>4. QED
    BY <1>1, <2>1, <2>2, <2>3 DEF PreApply
<1>2. CASE PostButtons
  <2>1. body' = body
    BY <1>2 DEF PostButtons
  <2>2. lost' => lost
    BY <1>2 DEF PostButtons, DoubleClick, RequestStand
  <2>3. lost' => limp' \/ (sit_step' = sit_step /\ (limp => limp'))
    BY <1>2 DEF PostButtons, DoubleClick, RequestStand
  <2>4. QED
    BY <2>1, <2>2, <2>3
<1>3. CASE PostStiffen
  BY <1>3 DEF PostStiffen, RequestStand
<1>4. CASE AgentStart
  BY <1>4 DEF AgentStart
<1>5. CASE ~(PreApply \/ PostButtons \/ PostStiffen \/ AgentStart)
  <2> UNCHANGED <<body, lost, limp, sit_step>>
    BY <1>5
       DEF Next, DcmStep, MotionStep, PreLatch, PostSensors, PostHead,
           PostClear, PostPublish, AgentStop, ChildKill, ChildExec,
           ShellStart, RunswiftCrash, MotionLoop, MotionExit, MotionRestart,
           GetSensors, SensorsCopied, GetStanding, ActuateBegin,
           ActuatePublish, ActuateClear, ActuateSettle, vars, agent, history
  <2> QED
    OBVIOUS
<1>6. QED
  BY <1>1, <1>2, <1>3, <1>4, <1>5

(* Once the agent has begun to sit the robot down, only a stand-up request *)
(* lets the body follow runswift again.                                    *)
THEOREM LostUntilStand == Spec => []LostNeedsStand
<1>1. Init => LostInv
  BY DEF Init, LostInv, LostNeedsStand
<1>2. LostInv => LostNeedsStand
  BY DEF LostInv
<1>3. QED
  BY <1>1, <1>2, TypeCorrect, LostPreserved, PTL DEF Spec

-----------------------------------------------------------------------------
(* Why a stiffen request is served once, and not wiped unserved.  Outside  *)
(* of the two lines every request is new; between them the one in the slot *)
(* the agent latched, which cannot change, is not: it was acted on, or     *)
(* Motion wrote it since.                                                  *)
ServedInv ==
  naoqi = "up" =>
    \A s \in Slots :
      IF dcm = "clear" /\ s = actuators_read
        THEN stiffen[s] = "STIFFEN" => served[s] # "new"
        ELSE served[s] = "new"

LEMMA ServedPreserved == TypeOK /\ ServedInv /\ [Next]_vars => ServedInv'
<1> SUFFICES ASSUME TypeOK, ServedInv, [Next]_vars, naoqi' = "up"
             PROVE  ServedInv'
  BY DEF ServedInv
<1>1. /\ served \in [Slots -> {"new", "raced", "served"}]
      /\ stiffen \in [Slots -> {"NONE", "STIFFEN"}]
      /\ actuators_read \in Slots /\ actuator_slot \in Slots
  BY DEF TypeOK
<1> USE DEF ServedInv
<1>2. CASE PostStiffen
  BY <1>1, <1>2 DEF PostStiffen, Dcm
<1>3. CASE PostClear
  BY <1>1, <1>3 DEF PostClear, Dcm
<1>4. CASE ActuatePublish
  BY <1>1, <1>4 DEF ActuatePublish, agent
<1>5. CASE AgentStart
  BY <1>5 DEF AgentStart
<1>6. CASE PreLatch
  BY <1>6 DEF PreLatch, Dcm, history
<1>7. CASE ~(PostStiffen \/ PostClear \/ ActuatePublish \/ AgentStart
              \/ PreLatch)
  <2>1. UNCHANGED <<served, stiffen, actuators_read>>
    BY <1>7
       DEF Next, DcmStep, MotionStep, PreApply, PostSensors, PostButtons,
           PostHead, PostPublish, AgentStop, ChildKill, ChildExec,
           ShellStart, RunswiftCrash, MotionLoop, MotionExit, MotionRestart,
           GetSensors, SensorsCopied, GetStanding, ActuateBegin,
           ActuateClear, ActuateSettle, vars, memory, history
  <2>2. /\ dcm' = dcm \/ (dcm # "clear" /\ dcm' # "clear")
        /\ naoqi = "up"
    BY <1>7
       DEF Next, DcmStep, MotionStep, PreApply, PostSensors, PostButtons,
           PostHead, PostPublish, AgentStop, ChildKill, ChildExec,
           ShellStart, RunswiftCrash, MotionLoop, MotionExit, MotionRestart,
           GetSensors, SensorsCopied, GetStanding, ActuateBegin,
           ActuateClear, ActuateSettle, vars, agent, Dcm
  <2>3. QED
    BY <2>1, <2>2
<1>8. QED
  BY <1>2, <1>3, <1>4, <1>5, <1>6, <1>7

(* A stiffen request is acted on at most once, and none that was there     *)
(* when doStiffen looked is wiped before it was acted on.                  *)
THEOREM StiffenOnce == Spec => StiffenServed
<1> DEFINE Kept ==
      stiffen[actuators_read] = "STIFFEN"
        => /\ dcm = "stiffen" /\ dcm' = "clear"
                => served[actuators_read] # "served"
           /\ dcm = "clear" /\ dcm' = "publish"
                => served[actuators_read] # "new"
<1>1. Init => ServedInv
  BY DEF Init, ServedInv
<1>2. TypeOK /\ ServedInv /\ [Next]_vars => [Kept]_vars
  <2> SUFFICES ASSUME TypeOK, ServedInv, Next, dcm' # dcm, dcm' # "pre"
               PROVE  Kept
    BY DEF vars, agent
  <2>1. naoqi = "up"
    BY DEF Next, DcmStep, MotionStep, PreLatch, PreApply, PostSensors,
           PostButtons, PostHead, PostStiffen, PostClear, PostPublish,
           AgentStop, AgentStart, ChildKill, ChildExec, ShellStart,
           RunswiftCrash, MotionLoop, MotionExit, MotionRestart, GetSensors,
           SensorsCopied, GetStanding, ActuateBegin, ActuatePublish,
           ActuateClear, ActuateSettle, Dcm, agent
  <2> QED
    BY <2>1 DEF TypeOK, ServedInv
<1>3. QED
  BY <1>1, <1>2, TypeCorrect, ServedPreserved, PTL DEF Spec, StiffenServed
-----------------------------------------------------------------------------
(* What is left of liveness.  The fairness of FairSpec is used as it is    *)
(* unfolded, with a guard in place of ENABLED: the DCM thread takes steps  *)
(* for ever unless NaoQi is down again and again, and the Motion thread    *)
(* does unless it is not there, or waits for a token, again and again.     *)
NaoqiUp     == naoqi = "up"
MotionReady == runswift # "off" /\ (motion = "wait" => semaphore > 0)

DcmRuns    == []<>~NaoqiUp \/ []<><<DcmStep>>_vars
MotionRuns == []<>~MotionReady \/ []<><<MotionStep>>_vars

Inv == TypeOK /\ (runswift = "off" <=> motion = "off")

LEMMA InvAlways == Spec => []Inv
<1>1. Init => (runswift = "off" <=> motion = "off")
  BY DEF Init
<1>2. /\ TypeOK /\ (runswift = "off" <=> motion = "off") /\ [Next]_vars
      => (runswift = "off" <=> motion = "off")'
  <2> SUFFICES ASSUME TypeOK, runswift = "off" <=> motion = "off",
                      [Next]_vars
               PROVE  runswift' = "off" <=> motion' = "off"
    OBVIOUS
  <2> USE DEF memory, agent, player, Killall, StartRunswift, Motion
  <2>1. CASE DcmStep
    <3>1. CASE PostButtons
      <4>1. \/ UNCHANGED <<runswift, motion>>
            \/ Killall
        BY <3>1 DEF PostButtons, TripleClick
      <4> QED
        BY <4>1 DEF TypeOK
    <3>2. CASE PostHead
      BY <3>2 DEF PostHead, TypeOK
    <3> QED
      BY <2>1, <3>1, <3>2
         DEF DcmStep, PreLatch, PreApply, PostSensors, PostStiffen,
             PostClear, PostPublish
  <2>2. CASE AgentStop \/ AgentStart \/ ChildKill
    BY <2>2 DEF AgentStop, AgentStart, ChildKill, TypeOK
  <2>3. CASE ChildExec \/ ShellStart \/ RunswiftCrash
    BY <2>3 DEF ChildExec, ShellStart, RunswiftCrash
  <2>4. CASE MotionStep \/ MotionRestart
    BY <2>4
       DEF MotionStep, MotionRestart, MotionLoop, MotionExit, GetSensors,
           SensorsCopied, GetStanding, ActuateBegin, ActuatePublish,
           ActuateClear, ActuateSettle
  <2>5. CASE UNCHANGED vars
    BY <2>5 DEF vars
  <2> QED
    BY <2>1, <2>2, <2>3, <2>4, <2>5 DEF Next
<1> QED
  BY <1>1, <1>2, TypeCorrect, PTL DEF Spec, Inv

-----------------------------------------------------------------------------
(* Why a SIGTERM ends runswift.  A Motion thread in its last tick goes     *)
(* through the places of the tick, or starts again at its loop; at the     *)
(* loop it leaves.  In front of the semaphore it needs a token, which the  *)
(* DCM thread posts within one cycle if there is none.                     *)
Doomed(m)  == runswift = "terminating" /\ motion = m
Token      == Doomed("wait") /\ semaphore = 1
Starved(d) == Doomed("wait") /\ semaphore = 0 /\ dcm = d
Left       == runswift # "terminating"

Tick == {<<"copy", "standing">>, <<"standing", "actuate">>,
         <<"actuate", "write">>, <<"write", "clear">>, <<"clear", "settle">>,
         <<"settle", "loop">>}

Cycle == {<<"pre", "apply">>, <<"apply", "post">>, <<"post", "buttons">>,
          <<"buttons", "head">>, <<"head", "stiffen">>,
          <<"stiffen", "clear">>, <<"clear", "publish">>}

(* What everybody else does to a Motion thread in its last tick.           *)
LEMMA OthersAndMotion ==
  ASSUME Inv, [Next]_vars, ~MotionStep, runswift = "terminating"
  PROVE  /\ \/ Left'
            \/ runswift' = "terminating" /\ motion' = motion
            \/ /\ runswift' = "terminating" /\ motion' = "loop"
               /\ motion \notin {"loop", "wait"}
         /\ semaphore' \in {semaphore, 1}
<1> USE DEF Left, memory, agent, player, Killall, StartRunswift, Inv
<1>1. CASE DcmStep
  <2>1. CASE PostPublish
    BY <2>1 DEF PostPublish, TypeOK
  <2>2. CASE PostButtons
    BY <2>2 DEF PostButtons, TripleClick
  <2>3. CASE PostHead
    BY <2>3 DEF PostHead
  <2> QED
    BY <1>1, <2>1, <2>2, <2>3
       DEF DcmStep, PreLatch, PreApply, PostSensors, PostStiffen, PostClear
<1>2. CASE AgentStop \/ AgentStart \/ ChildKill
  BY <1>2 DEF AgentStop, AgentStart, ChildKill
<1>3. CASE ChildExec \/ ShellStart \/ RunswiftCrash
  BY <1>3 DEF ChildExec, ShellStart, RunswiftCrash
<1>4. CASE MotionRestart
  BY <1>4 DEF MotionRestart, Motion
<1>5. CASE UNCHANGED vars
  BY <1>5 DEF vars
<1> QED
  BY <1>1, <1>2, <1>3, <1>4, <1>5 DEF Next

(* A place of the tick leads to the next one, or back to the loop.         *)
TickGoesOn(m, n) ==
  Spec /\ MotionRuns => (Doomed(m) ~> Doomed(n) \/ Doomed("loop") \/ Left)

LEMMA LastTick ==
  ASSUME NEW m, NEW n, <<m, n>> \in Tick
  PROVE  TickGoesOn(m, n)
<1>1. MotionStep => (Doomed(m) => Doomed(n)' \/ Left')
  BY DEF Tick, Doomed, Left, Motion, MotionStep, MotionLoop, MotionExit,
         GetSensors, SensorsCopied, GetStanding, ActuateBegin,
         ActuatePublish, ActuateClear, ActuateSettle
<1>2. Inv /\ [Next]_vars
        => (Doomed(m) => Doomed(m)' \/ Doomed(n)' \/ Doomed("loop")' \/ Left')
  BY <1>1, OthersAndMotion DEF Doomed
<1>3. Doomed(m) => MotionReady
  BY DEF Doomed, MotionReady, Tick
<1> QED
  BY <1>1, <1>2, <1>3, InvAlways, PTL DEF Spec, MotionRuns, TickGoesOn

(* At the loop it leaves.                                                  *)
LEMMA LoopLeft == Spec /\ MotionRuns => (Doomed("loop") ~> Left)
<1>1. MotionStep => (Doomed("loop") => Left')
  BY DEF Doomed, Left, Motion, MotionStep, MotionLoop, MotionExit,
         GetSensors, SensorsCopied, GetStanding, ActuateBegin,
         ActuatePublish, ActuateClear, ActuateSettle
<1>2. Inv /\ [Next]_vars => (Doomed("loop") => Doomed("loop")' \/ Left')
  BY <1>1, OthersAndMotion DEF Doomed
<1>3. Doomed("loop") => MotionReady
  BY DEF Doomed, MotionReady
<1> QED
  BY <1>1, <1>2, <1>3, InvAlways, PTL DEF Spec, MotionRuns

(* A token is taken.                                                       *)
LEMMA TokenTaken ==
  Spec /\ MotionRuns => (Token ~> Doomed("copy") \/ Left)
<1>1. MotionStep => (Token => Doomed("copy")' \/ Left')
  BY DEF Token, Doomed, Left, Motion, MotionStep, MotionLoop, MotionExit,
         GetSensors, SensorsCopied, GetStanding, ActuateBegin,
         ActuatePublish, ActuateClear, ActuateSettle
<1>2. Inv /\ [Next]_vars => (Token => Token' \/ Doomed("copy")' \/ Left')
  BY <1>1, OthersAndMotion DEF Token, Doomed
<1>3. Token => MotionReady
  BY DEF Token, Doomed, MotionReady
<1> QED
  BY <1>1, <1>2, <1>3, InvAlways, PTL DEF Spec, MotionRuns

(* While NaoQi is up only the DCM thread moves itself.                     *)
LEMMA DcmPlace ==
  ASSUME [Next]_vars, NaoqiUp, ~DcmStep
  PROVE  dcm' = dcm
BY DEF Next, MotionStep, MotionRestart, MotionLoop, MotionExit, GetSensors,
       SensorsCopied, GetStanding, ActuateBegin, ActuatePublish,
       ActuateClear, ActuateSettle, AgentStop, AgentStart, ChildKill,
       ChildExec, ShellStart, RunswiftCrash, vars, agent, NaoqiUp

(* A Motion thread without a token keeps the semaphore at 0 or gets one.   *)
LEMMA StarvedStep ==
  ASSUME Inv, [Next]_vars, Doomed("wait"), semaphore = 0
  PROVE  \/ Left' \/ Token'
         \/ Doomed("wait")' /\ semaphore' = 0
<1>1. ~MotionStep
  BY DEF Doomed, Motion, MotionStep, MotionLoop, MotionExit, GetSensors,
         SensorsCopied, GetStanding, ActuateBegin, ActuatePublish,
         ActuateClear, ActuateSettle
<1> QED
  BY <1>1, OthersAndMotion DEF Doomed, Token

(* Unless NaoQi goes, the DCM thread goes through its cycle...             *)
CycleGoesOn(d, e) ==
  Spec /\ DcmRuns
    => (Starved(d) ~> Starved(e) \/ Token \/ Left \/ Stranded)

LEMMA Strands ==
  ASSUME Inv, NEW d, Starved(d), ~NaoqiUp PROVE Stranded
BY DEF Inv, TypeOK, Starved, Doomed, NaoqiUp, Stranded

LEMMA StarvedCycle ==
  ASSUME NEW d, NEW e, <<d, e>> \in Cycle
  PROVE  CycleGoesOn(d, e)
<1>1. Inv /\ DcmStep /\ [Next]_vars
        => (Starved(d) => Starved(e)' \/ Token' \/ Left')
  <2> SUFFICES ASSUME Inv, DcmStep, [Next]_vars, Starved(d)
               PROVE  Starved(e)' \/ Token' \/ Left'
    OBVIOUS
  <2>1. dcm' = e
    BY DEF Starved, Cycle, DcmStep, PreLatch, PreApply, PostSensors,
           PostButtons, PostHead, PostStiffen, PostClear, PostPublish, Dcm
  <2> QED
    BY <2>1, StarvedStep DEF Starved
<1>2. Inv /\ NaoqiUp /\ [Next]_vars
        => (Starved(d) => Starved(d)' \/ Starved(e)' \/ Token' \/ Left')
  BY <1>1, StarvedStep, DcmPlace DEF Starved
<1>3. Inv /\ Starved(d) /\ ~NaoqiUp => Stranded
  BY Strands
<1> QED
  BY <1>1, <1>2, <1>3, InvAlways, PTL DEF Spec, DcmRuns, CycleGoesOn

(* ... and at its end posts a token.                                       *)
LEMMA StarvedFed ==
  Spec /\ DcmRuns
    => (Starved("publish") ~> Token \/ Left \/ Stranded)
<1>1. Inv /\ DcmStep /\ [Next]_vars
        => (Starved("publish") => Token' \/ Left')
  <2> SUFFICES ASSUME Inv, DcmStep, [Next]_vars, Starved("publish")
               PROVE  Token' \/ Left'
    OBVIOUS
  <2>1. semaphore' = 1
    BY DEF Starved, DcmStep, PreLatch, PreApply, PostSensors,
           PostButtons, PostHead, PostStiffen, PostClear, PostPublish, Dcm
  <2> QED
    BY <2>1, StarvedStep DEF Starved
<1>2. Inv /\ NaoqiUp /\ [Next]_vars
        => (Starved("publish") => Starved("publish")' \/ Token' \/ Left')
  BY <1>1, StarvedStep, DcmPlace DEF Starved
<1>3. Inv /\ Starved("publish") /\ ~NaoqiUp => Stranded
  BY Strands
<1> QED
  BY <1>1, <1>2, <1>3, InvAlways, PTL DEF Spec, DcmRuns

(* A Motion thread in front of the semaphore gets its token, or NaoQi goes *)
(* and leaves it there without one.                                        *)
LEMMA WaitEnds ==
  Spec /\ DcmRuns => (Doomed("wait") ~> Token \/ Left \/ Stranded)
<1>1. /\ CycleGoesOn("pre", "apply") /\ CycleGoesOn("apply", "post")
      /\ CycleGoesOn("post", "buttons") /\ CycleGoesOn("buttons", "head")
      /\ CycleGoesOn("head", "stiffen") /\ CycleGoesOn("stiffen", "clear")
      /\ CycleGoesOn("clear", "publish")
  BY StarvedCycle DEF Cycle
<1>2. Spec /\ DcmRuns
        => (Starved("head") ~> Token \/ Left \/ Stranded)
  BY <1>1, StarvedFed, PTL DEF CycleGoesOn
<1>3. Spec /\ DcmRuns
        => (Starved("apply")
              ~> Starved("head") \/ Token \/ Left \/ Stranded)
  BY <1>1, PTL DEF CycleGoesOn
<1>4. Inv /\ Doomed("wait")
        => \/ Token
           \/ Starved("pre") \/ Starved("apply") \/ Starved("post")
           \/ Starved("buttons") \/ Starved("head") \/ Starved("stiffen")
           \/ Starved("clear") \/ Starved("publish")
  BY DEF Inv, TypeOK, Starved, Token
<1> QED
  BY <1>1, <1>2, <1>3, <1>4, StarvedFed, InvAlways, PTL
     DEF Spec, CycleGoesOn

(* A runswift told to shut down leaves, wherever its Motion thread was,    *)
(* whatever the buttons do meanwhile and whenever NaoQi stops or starts,   *)
(* or it is stranded in front of an empty semaphore that nobody will raise *)
(* while NaoQi is away: there is no other way to hang.                     *)
THEOREM SigtermObeyed ==
  Spec /\ DcmRuns /\ MotionRuns => SigtermEnds
<1>1. /\ TickGoesOn("copy", "standing") /\ TickGoesOn("standing", "actuate")
      /\ TickGoesOn("actuate", "write") /\ TickGoesOn("write", "clear")
      /\ TickGoesOn("clear", "settle") /\ TickGoesOn("settle", "loop")
  BY LastTick DEF Tick
<1>2. Spec /\ MotionRuns => (Doomed("write") ~> Left)
  BY <1>1, LoopLeft, PTL DEF TickGoesOn
<1>3. Spec /\ MotionRuns => (Doomed("copy") ~> Left)
  BY <1>1, <1>2, LoopLeft, PTL DEF TickGoesOn
<1>4. Spec /\ DcmRuns /\ MotionRuns
        => (Doomed("wait") ~> Left \/ Stranded)
  BY <1>3, WaitEnds, TokenTaken, PTL
<1>5. Inv /\ ~Left
        => \/ Doomed("loop") \/ Doomed("wait") \/ Doomed("copy")
           \/ Doomed("standing") \/ Doomed("actuate") \/ Doomed("write")
           \/ Doomed("clear") \/ Doomed("settle")
  BY DEF Inv, TypeOK, Left, Doomed
<1>6. (runswift = "terminating") <=> ~Left
  BY DEF Left
<1> QED
  BY <1>1, <1>2, <1>3, <1>4, <1>5, <1>6, LoopLeft, InvAlways, PTL
     DEF SigtermEnds, TickGoesOn, Left
-----------------------------------------------------------------------------
(* Counting the steps of the DCM thread: to the next command it gives the  *)
(* body, and to the next frame it publishes.                               *)
ToApply ==
  CASE dcm = "apply" -> 1 [] dcm = "pre" -> 2 [] dcm = "publish" -> 3
    [] dcm = "clear" -> 4 [] dcm = "stiffen" -> 5 [] dcm = "head" -> 6
    [] dcm = "buttons" -> 7 [] dcm = "post" -> 8

ToPublish ==
  CASE dcm = "publish" -> 1 [] dcm = "clear" -> 2 [] dcm = "stiffen" -> 3
    [] dcm = "head" -> 4 [] dcm = "buttons" -> 5 [] dcm = "post" -> 6
    [] dcm = "apply" -> 7 [] dcm = "pre" -> 8

LEMMA StepCounts ==
  ASSUME TypeOK, DcmStep
  PROVE  /\ ToApply \in 1..8 /\ ToPublish \in 1..8
         /\ naoqi = "up" /\ naoqi' = "up"
         /\ \/ PreApply /\ ToApply = 1 /\ ToApply' = 8
            \/ dcm # "apply" /\ ToApply' = ToApply - 1
         /\ \/ PostPublish /\ ToPublish = 1 /\ ToPublish' = 8
            \/ dcm # "publish" /\ ToPublish' = ToPublish - 1
<1>1. /\ naoqi = "up" /\ naoqi' = "up"
      /\ \/ PreApply /\ dcm = "apply" /\ dcm' = "post"
         \/ PostPublish /\ dcm = "publish" /\ dcm' = "pre"
         \/ <<dcm, dcm'>> \in Cycle \ {<<"apply", "post">>}
  BY DEF Cycle, DcmStep, PreLatch, PreApply, PostSensors, PostButtons,
         PostHead, PostStiffen, PostClear, PostPublish, Dcm
<1>2. CASE dcm = "apply" /\ dcm' = "post"
  BY <1>1, <1>2 DEF ToApply, ToPublish, Cycle
<1>3. CASE dcm = "publish" /\ dcm' = "pre"
  BY <1>1, <1>3 DEF ToApply, ToPublish, Cycle
<1>4. CASE <<dcm, dcm'>> \in Cycle \ {<<"apply", "post">>}
  BY <1>1, <1>4 DEF ToApply, ToPublish, Cycle
<1> QED
  BY <1>1, <1>2, <1>3, <1>4

LEMMA CountsInRange == TypeOK => ToApply \in 1..8 /\ ToPublish \in 1..8
BY DEF TypeOK, ToApply, ToPublish

(* What the steps of everybody else leave alone while NaoQi is up.         *)
LEMMA OthersAndDcm ==
  ASSUME [Next]_vars, naoqi = "up", ~DcmStep
  PROVE  UNCHANGED <<dcm, skipped_frames, sit_step, limp, body>>
BY DEF Next, MotionStep, MotionRestart, MotionLoop, MotionExit, GetSensors,
       SensorsCopied, GetStanding, ActuateBegin, ActuatePublish,
       ActuateClear, ActuateSettle, AgentStop, AgentStart, ChildKill,
       ChildExec, ShellStart, RunswiftCrash, vars, agent

(* The ramp: every step of the DCM thread brings its end nearer.           *)
RampLeft   == 8 * (SitSteps - sit_step) + ToApply
OnRamp(n)  == naoqi = "up" /\ body # "limp" /\ sit_step >= 0 /\ RampLeft <= n
RampEnded  == sit_step = -1 \/ body = "limp" \/ naoqi = "down"

LEMMA RampStep ==
  ASSUME Inv, [Next]_vars, NEW n \in Nat, OnRamp(n + 1)
  PROVE  /\ OnRamp(n + 1)' \/ RampEnded'
         /\ DcmStep => OnRamp(n)' \/ RampEnded'
<1> USE DEF OnRamp, RampEnded, RampLeft, Inv
<1>1. CASE DcmStep
  <2>1. sit_step \in Int /\ SitSteps \in Int /\ ToApply \in 1..8
    BY LinkConstants, CountsInRange DEF TypeOK, SitRange, SitSteps
  <2>2. CASE PreApply
    <3>1. ToApply = 1 /\ ToApply' = 8 /\ naoqi' = "up"
      BY <1>1, <2>2, StepCounts DEF PreApply, Dcm
    <3>2. RampEnded' \/ (sit_step' = sit_step + 1)
      BY <2>1, <2>2 DEF PreApply, ApplyLimp, ApplyRunswift, ApplySit
    <3>3. CASE sit_step' = sit_step + 1 /\ body' # "limp"
      <4>1. RampLeft' = 8 * (SitSteps - (sit_step + 1)) + 8
        BY <3>1, <3>3
      <4>2. 8 * (SitSteps - (sit_step + 1)) + 8 <= n
        BY <2>1, <3>1
      <4> QED
        BY <2>1, <3>1, <3>3, <4>1, <4>2
    <3> QED
      BY <3>2, <3>3
  <2>3. CASE ~PreApply
    <3>1. ToApply' = ToApply - 1 /\ naoqi' = "up"
      BY <1>1, <2>3, StepCounts
    <3>2. body' = body /\ sit_step' \in {sit_step, -1}
      BY <1>1, <2>3
         DEF DcmStep, PreLatch, PostSensors, PostButtons, PostHead,
             PostStiffen, PostClear, PostPublish, DoubleClick, RequestStand
    <3>3. CASE sit_step' = sit_step
      <4>1. RampLeft' = RampLeft - 1
        BY <2>1, <3>1, <3>3
      <4>2. RampLeft \in Int
        BY <2>1
      <4>3. RampLeft - 1 <= n /\ RampLeft - 1 <= n + 1
        BY <4>2
      <4> QED
        BY <3>1, <3>2, <3>3, <4>1, <4>3
    <3> QED
      BY <3>2, <3>3
  <2> QED
    BY <2>2, <2>3
<1>2. CASE ~DcmStep
  <2>1. UNCHANGED <<dcm, sit_step, body>>
    BY <1>2, OthersAndDcm
  <2>2. ToApply' = ToApply
    BY <2>1 DEF ToApply
  <2>3. naoqi' \in {"up", "down"}
    BY TypePreserved DEF TypeOK
  <2> QED
    BY <1>2, <2>1, <2>2, <2>3
<1> QED
  BY <1>1, <1>2

(* While runswift is away and NaoQi up, the DCM thread is alone with the   *)
(* memory.                                                                 *)
Away == runswift = "off" /\ naoqi = "up"

LEMMA AloneStep ==
  ASSUME Inv, [Next]_vars, Away, Away', ~DcmStep
  PROVE  /\ UNCHANGED <<dcm, skipped_frames, sit_step, limp, body>>
         /\ UNCHANGED <<semaphore, standing>>
<1>1. UNCHANGED <<dcm, skipped_frames, sit_step, limp, body>>
  BY OthersAndDcm DEF Away
<1>2. UNCHANGED <<semaphore, standing>>
  BY DEF Next, MotionStep, MotionRestart, MotionLoop, MotionExit, GetSensors,
         SensorsCopied, GetStanding, ActuateBegin, ActuatePublish,
         ActuateClear, ActuateSettle, AgentStop, AgentStart, ChildKill,
         ChildExec, ShellStart, RunswiftCrash, vars, memory, Away, Motion
<1> QED
  BY <1>1, <1>2

(* Contact lapses: a token stays, and every frame published after it       *)
(* counts as missed.                                                       *)
Lapsed     == semaphore = 1 /\ ~InContact
LapseLeft  == ToPublish + IF semaphore = 0
                            THEN 8 * (MAX_SKIPS + 2)
                            ELSE 8 * (MAX_SKIPS + 1 - skipped_frames)
Lapsing(n) == ~Lapsed /\ LapseLeft <= n

LEMMA LapseStep ==
  ASSUME Inv, [Next]_vars, Away, Away', NEW n \in Nat
  PROVE  /\ Lapsed => Lapsed'
         /\ Lapsing(n + 1) => Lapsing(n + 1)' \/ Lapsed'
         /\ Lapsing(n + 1) /\ DcmStep => Lapsing(n)' \/ Lapsed'
<1> USE DEF Inv, Lapsed, Lapsing, LapseLeft, InContact
<1>1. /\ semaphore \in {0, 1} /\ skipped_frames \in Int
      /\ MAX_SKIPS \in Int /\ ToPublish \in 1..8
  BY LinkConstants, CountsInRange DEF TypeOK, SkipRange
<1>2. CASE DcmStep
  <2>1. CASE PostPublish
    <3>1. ToPublish = 1 /\ ToPublish' = 8
      BY <1>2, <2>1, StepCounts DEF PostPublish, Dcm
    <3>2. CASE semaphore = 0
      <4>1. semaphore' = 1 /\ skipped_frames' = 0
        BY <2>1, <3>2 DEF PostPublish
      <4> QED
        BY <1>1, <3>1, <3>2, <4>1
    <3>3. CASE semaphore = 1
      <4>1. /\ semaphore' = 1
            /\ skipped_frames' = IF InContact THEN skipped_frames + 1
                                              ELSE skipped_frames
        BY <2>1, <3>3 DEF PostPublish
      <4> QED
        BY <1>1, <3>1, <3>3, <4>1
    <3> QED
      BY <1>1, <3>2, <3>3
  <2>2. CASE ~PostPublish
    <3>1. ToPublish' = ToPublish - 1
      BY <1>2, <2>2, StepCounts
    <3>2. UNCHANGED <<semaphore, skipped_frames>>
      BY <1>2, <2>2
         DEF DcmStep, PreLatch, PreApply, PostSensors, PostButtons, PostHead,
             PostStiffen, PostClear, memory
    <3> QED
      BY <1>1, <3>1, <3>2
  <2> QED
    BY <2>1, <2>2
<1>3. CASE ~DcmStep
  <2>1. UNCHANGED <<dcm, semaphore, skipped_frames>>
    BY <1>3, AloneStep
  <2>2. ToPublish' = ToPublish
    BY <2>1 DEF ToPublish
  <2> QED
    BY <1>3, <2>1, <2>2
<1> QED
  BY <1>2, <1>3

LEMMA Nearer ==
  ASSUME NEW a \in Int, NEW i \in Int, NEW j \in Int, NEW n \in Int,
         j >= i + 1, 8 * (a - i) + 1 <= n + 1
  PROVE  8 * (a - j) + 8 <= n
OBVIOUS

(* Without contact the ramp runs, from wherever it was left, to the point  *)
(* where the agent makes the robot limp, unless a person or a stiffen      *)
(* request asks for a stand-up, which nobody answers any more.             *)
Safe       == limp \/ standing
Sinking(n) == Lapsed /\ ~Safe /\ RampLeft <= n

LEMMA SafeStep ==
  ASSUME Inv, [Next]_vars, Away, Away', Safe
  PROVE  /\ Safe' /\ (PreApply => body' = "limp")
         /\ body = "limp" => body' = "limp"
<1> USE DEF Safe
<1>1. CASE PreApply
  BY <1>1 DEF PreApply, ApplyLimp, ApplyRunswift, ApplySit, memory
<1>2. CASE PostButtons
  <2>1. /\ body' = body /\ ~PreApply
        /\ \/ UNCHANGED <<limp, standing>>
           \/ DoubleClick
           \/ limp' \in {limp, TRUE} /\ UNCHANGED standing
    BY <1>2 DEF PostButtons, PreApply, Dcm
  <2>2. CASE UNCHANGED <<limp, standing>>
    BY <2>1, <2>2
  <2>3. CASE DoubleClick
    BY <2>1, <2>3 DEF DoubleClick, RequestStand
  <2>4. CASE limp' \in {limp, TRUE} /\ UNCHANGED standing
    BY <2>1, <2>4
  <2> QED
    BY <2>1, <2>2, <2>3, <2>4
<1>3. CASE PostStiffen
  BY <1>3 DEF PostStiffen, RequestStand, PreApply, Dcm
<1>4. CASE DcmStep /\ ~(PreApply \/ PostButtons \/ PostStiffen)
  BY <1>4 DEF DcmStep, PreLatch, PostSensors, PostHead, PostClear,
              PostPublish, memory
<1>5. CASE ~DcmStep
  BY <1>5, AloneStep DEF DcmStep
<1> QED
  BY <1>1, <1>2, <1>3, <1>4, <1>5

LEMMA SinkStep ==
  ASSUME Inv, [Next]_vars, Away, Away', NEW n \in Nat, Sinking(n + 1)
  PROVE  /\ Sinking(n + 1)' \/ Safe'
         /\ DcmStep => Sinking(n)' \/ Safe'
<1> USE DEF Inv, Sinking, RampLeft
<1>1. Lapsed'
  BY LapseStep
<1>2. /\ sit_step \in Int /\ sit_step >= -1 /\ SitSteps \in Int /\ SitSteps >= 1
      /\ ToApply \in 1..8
  BY LinkConstants, CountsInRange DEF TypeOK, SitRange, SitSteps
<1>3. CASE DcmStep
  <2>1. CASE PreApply
    <3>1. ToApply = 1 /\ ToApply' = 8
      BY <1>3, <2>1, StepCounts DEF PreApply, Dcm
    <3>2. ApplySit
      BY <2>1 DEF PreApply, ApplyLimp, ApplyRunswift, Safe, Lapsed
    <3>3. Safe' \/ (sit_step' >= sit_step + 1 /\ sit_step' \in Int)
      BY <1>2, <3>2 DEF ApplySit, Safe
    <3>4. CASE sit_step' >= sit_step + 1 /\ sit_step' \in Int
      <4>1. RampLeft' = 8 * (SitSteps - sit_step') + 8
        BY <3>1
      <4>2. RampLeft' <= n
        <5>1. 8 * (SitSteps - sit_step) + 1 <= n + 1
          BY <3>1
        <5>2. SitSteps \in Int /\ sit_step \in Int /\ n \in Int
          BY <1>2
        <5>3. 8 * (SitSteps - sit_step') + 8 <= n
          BY <3>4, <5>1, <5>2, Nearer, Zenon
        <5> QED
          BY <4>1, <5>3
      <4>3. RampLeft' <= n + 1
        BY <1>2, <3>4, <4>1, <4>2
      <4> QED
        BY <1>1, <4>2, <4>3
    <3> QED
      BY <3>3, <3>4
  <2>2. CASE ~PreApply
    <3>1. ToApply' = ToApply - 1
      BY <1>3, <2>2, StepCounts
    <3>2. Safe' \/ sit_step' = sit_step
      BY <1>3, <2>2
         DEF DcmStep, PreLatch, PostSensors, PostButtons, PostHead,
             PostStiffen, PostClear, PostPublish, DoubleClick, RequestStand,
             Safe
    <3>3. CASE sit_step' = sit_step
      <4>1. RampLeft' = RampLeft - 1 /\ RampLeft \in Int
        BY <1>2, <3>1, <3>3
      <4>2. RampLeft - 1 <= n /\ RampLeft - 1 <= n + 1
        BY <4>1
      <4> QED
        BY <1>1, <4>1, <4>2
    <3> QED
      BY <3>2, <3>3
  <2> QED
    BY <2>1, <2>2
<1>4. CASE ~DcmStep
  <2>1. UNCHANGED <<dcm, sit_step>>
    BY <1>4, AloneStep
  <2>2. RampLeft' = RampLeft
    BY <2>1 DEF ToApply
  <2> QED
    BY <1>1, <1>4, <2>2
<1> QED
  BY <1>3, <1>4

(* Safe, and with the next command to the body, limp.                      *)
Limp        == Safe /\ body = "limp"
Settling(n) == Safe /\ ToApply <= n

LEMMA SettleStep ==
  ASSUME Inv, [Next]_vars, Away, Away', NEW n \in Nat, Settling(n + 1)
  PROVE  /\ Settling(n + 1)' \/ Limp'
         /\ DcmStep => Settling(n)' \/ Limp'
<1> USE DEF Inv, Settling, Limp
<1>1. Safe' /\ (PreApply => body' = "limp")
  BY SafeStep
<1>2. ToApply \in 1..8
  BY CountsInRange
<1>3. CASE DcmStep /\ ~PreApply
  <2>1. ToApply' = ToApply - 1
    BY <1>3, StepCounts
  <2>2. ToApply' <= n /\ ToApply' <= n + 1
    BY <1>2, <2>1
  <2> QED
    BY <1>1, <2>2
<1>4. CASE ~DcmStep
  <2>1. ToApply' = ToApply
    BY <1>4, AloneStep DEF ToApply
  <2> QED
    BY <1>1, <1>4, <2>1
<1> QED
  BY <1>1, <1>3, <1>4

-----------------------------------------------------------------------------
(* The measures reach their ends, by induction on the bound n: a measure   *)
(* of at most n + 1 comes down to n at a step of the DCM thread.           *)
DcmAlways  == []Inv /\ [][Next]_vars /\ DcmRuns
AwayAlways == DcmAlways /\ []Away

RampEndsBy(n) == DcmAlways => [](OnRamp(n) => <>RampEnded)
LapsesBy(n)   == AwayAlways => [](Lapsing(n) => <>Lapsed)
SinksBy(n)    == AwayAlways => [](Sinking(n) => <>Safe)
SettlesBy(n)  == AwayAlways => [](Settling(n) => <>Limp)

(* The three claims for one bound.                                         *)
Measured(n) ==
  \A m \in Nat :
    m = n => RampEndsBy(m) /\ LapsesBy(m) /\ SinksBy(m) /\ SettlesBy(m)

(* A non-empty set of natural numbers has a least element: the intervals   *)
(* 1..k are well-founded by inclusion.                                     *)
LEMMA LeastElement ==
  ASSUME NEW S, S \subseteq Nat, S # {}
  PROVE  \E n \in S : \A m \in S : n <= m
<1> DEFINE Below   == {1..k : k \in S}
           Smaller == StrictSubsetOrdering(Nat)
<1>1. Below \subseteq FiniteSubsetsOf(Nat) /\ Below # {}
  <2>1. \A k \in Nat : 1..k \in FiniteSubsetsOf(Nat)
    BY FS_Interval DEF FiniteSubsetsOf
  <2> QED
    BY <2>1
<1>2. \E X \in Below : \A Y \in Below : <<Y, X>> \notin Smaller
  <2>1. IsWellFoundedOn(Smaller, FiniteSubsetsOf(Nat))
    BY FS_StrictSubsetOrderingWellFounded
  <2> HIDE DEF Below, Smaller
  <2> QED
    BY <1>1, <2>1, WFMin, Zenon
<1>3. PICK n \in S : \A m \in S : <<1..m, 1..n>> \notin Smaller
  BY <1>2
<1>4. ASSUME NEW m \in S, m < n PROVE FALSE
  <2>1. n \in 1..n /\ n \notin 1..m
    BY <1>4
  <2>2. 1..m \subseteq 1..n /\ 1..m \in SUBSET Nat /\ 1..n \in SUBSET Nat
    BY <1>4
  <2> QED
    BY <1>3, <2>1, <2>2 DEF StrictSubsetOrdering
<1> QED
  BY <1>4

(* Induction.  The theorems of the library take a predicate as parameter,  *)
(* which the provers cannot instantiate; here it is the table of its       *)
(* values, a function.  Named(h) says nothing: it brings the table h to    *)
(* the provers' attention.                                                 *)
Named(h) == TRUE

LEMMA TableInduction ==
  \A h : Named(h) =>
    (/\ h[0] = TRUE
     /\ \A n \in Nat : h[n] = TRUE => h[n + 1] = TRUE
     => \A n \in Nat : h[n] = TRUE)
<1> SUFFICES ASSUME NEW h, h[0] = TRUE,
                    \A n \in Nat : h[n] = TRUE => h[n + 1] = TRUE,
                    {n \in Nat : h[n] # TRUE} # {}
             PROVE  FALSE
  OBVIOUS
<1>1. PICK n \in Nat : /\ h[n] # TRUE
                       /\ \A m \in Nat : h[m] # TRUE => n <= m
  BY LeastElement
<1>2. n # 0
  BY <1>1, Zenon
<1>3. n - 1 \in Nat /\ ~(n <= n - 1) /\ (n - 1) + 1 = n
  BY <1>2
<1>4. h[n - 1] = TRUE
  BY <1>1, <1>3, Zenon
<1>5. h[(n - 1) + 1] = TRUE
  BY <1>3, <1>4, Zenon
<1> QED
  BY <1>1, <1>3, <1>5, Zenon

LEMMA MeasuredInduction ==
  /\ Measured(0)
  /\ \A n \in Nat : Measured(n) => Measured(n + 1)
  => \A n \in Nat : Measured(n)
<1>1. Named([n \in Nat |-> IF Measured(n) THEN TRUE ELSE FALSE])
  BY DEF Named
<1> QED
  BY <1>1, TableInduction

LEMMA MeasuredZero == Measured(0)
<1>1. Inv => ~OnRamp(0) /\ ~Lapsing(0) /\ ~Sinking(0) /\ ~Settling(0)
  <2> SUFFICES ASSUME Inv
               PROVE  ~OnRamp(0) /\ ~Lapsing(0) /\ ~Sinking(0) /\ ~Settling(0)
    OBVIOUS
  <2>1. /\ semaphore \in {0, 1} /\ skipped_frames \in 0..(MAX_SKIPS + 1)
        /\ sit_step \in (-1)..SitSteps /\ SitSteps \in Int
        /\ MAX_SKIPS \in Int /\ ToPublish \in 1..8 /\ ToApply \in 1..8
    BY LinkConstants, CountsInRange
       DEF Inv, TypeOK, SkipRange, SitRange, SitSteps
  <2>2. RampLeft > 0
    BY <2>1 DEF RampLeft
  <2>3. LapseLeft > 0
    BY <2>1 DEF LapseLeft
  <2>4. RampLeft \in Int /\ LapseLeft \in Int
    BY <2>1 DEF RampLeft, LapseLeft
  <2> QED
    BY <2>1, <2>2, <2>3, <2>4 DEF OnRamp, Lapsing, Sinking, Settling
<1>2. RampEndsBy(0) /\ LapsesBy(0) /\ SinksBy(0) /\ SettlesBy(0)
  BY <1>1, PTL
     DEF RampEndsBy, LapsesBy, SinksBy, SettlesBy, DcmAlways, AwayAlways
<1> QED
  BY <1>2 DEF Measured

LEMMA MeasuredStep == \A n \in Nat : Measured(n) => Measured(n + 1)
<1> SUFFICES ASSUME NEW n \in Nat
             PROVE  /\ RampEndsBy(n) => RampEndsBy(n + 1)
                    /\ LapsesBy(n) => LapsesBy(n + 1)
                    /\ SinksBy(n) => SinksBy(n + 1)
                    /\ SettlesBy(n) => SettlesBy(n + 1)
  BY DEF Measured
<1>1. RampEndsBy(n) => RampEndsBy(n + 1)
  <2>1. Inv /\ OnRamp(n + 1) /\ [Next]_vars => OnRamp(n + 1)' \/ RampEnded'
    BY RampStep
  <2>2. Inv /\ OnRamp(n + 1) /\ <<DcmStep>>_vars /\ [Next]_vars
          => OnRamp(n)' \/ RampEnded'
    BY RampStep
  <2>3. OnRamp(n + 1) => NaoqiUp
    BY DEF OnRamp, NaoqiUp
  <2> QED
    BY <2>1, <2>2, <2>3, PTL DEF RampEndsBy, DcmAlways, DcmRuns
<1>2. LapsesBy(n) => LapsesBy(n + 1)
  <2>1. Inv /\ Away /\ Away' /\ Lapsing(n + 1) /\ [Next]_vars
          => Lapsing(n + 1)' \/ Lapsed'
    BY LapseStep
  <2>2. /\ Inv /\ Away /\ Away' /\ Lapsing(n + 1)
        /\ <<DcmStep>>_vars /\ [Next]_vars
        => Lapsing(n)' \/ Lapsed'
    BY LapseStep
  <2>3. Away => NaoqiUp
    BY DEF Away, NaoqiUp
  <2> QED
    BY <2>1, <2>2, <2>3, PTL DEF LapsesBy, AwayAlways, DcmAlways, DcmRuns
<1>3. SinksBy(n) => SinksBy(n + 1)
  <2>1. Inv /\ Away /\ Away' /\ Sinking(n + 1) /\ [Next]_vars
          => Sinking(n + 1)' \/ Safe'
    BY SinkStep
  <2>2. /\ Inv /\ Away /\ Away' /\ Sinking(n + 1)
        /\ <<DcmStep>>_vars /\ [Next]_vars
        => Sinking(n)' \/ Safe'
    BY SinkStep
  <2>3. Away => NaoqiUp
    BY DEF Away, NaoqiUp
  <2> QED
    BY <2>1, <2>2, <2>3, PTL DEF SinksBy, AwayAlways, DcmAlways, DcmRuns
<1>4. SettlesBy(n) => SettlesBy(n + 1)
  <2>1. Inv /\ Away /\ Away' /\ Settling(n + 1) /\ [Next]_vars
          => Settling(n + 1)' \/ Limp'
    BY SettleStep
  <2>2. /\ Inv /\ Away /\ Away' /\ Settling(n + 1)
        /\ <<DcmStep>>_vars /\ [Next]_vars
        => Settling(n)' \/ Limp'
    BY SettleStep
  <2>3. Away => NaoqiUp
    BY DEF Away, NaoqiUp
  <2> QED
    BY <2>1, <2>2, <2>3, PTL DEF SettlesBy, AwayAlways, DcmAlways, DcmRuns
<1> QED
  BY <1>1, <1>2, <1>3, <1>4

LEMMA EveryBound ==
  \A n \in Nat :
    RampEndsBy(n) /\ LapsesBy(n) /\ SinksBy(n) /\ SettlesBy(n)
BY MeasuredInduction, MeasuredZero, MeasuredStep DEF Measured

(* Every state has its bound.                                              *)
OnTheRamp == sit_step >= 0 /\ naoqi = "up"

LEMMA Bounds ==
  ASSUME Inv
  PROVE  /\ OnTheRamp => RampEnded \/ \E n \in Nat : OnRamp(n)
         /\ Lapsed \/ \E n \in Nat : Lapsing(n)
         /\ Lapsed => Safe \/ \E n \in Nat : Sinking(n)
         /\ Safe => \E n \in Nat : Settling(n)
<1>1. /\ semaphore \in {0, 1} /\ skipped_frames \in Int
      /\ skipped_frames <= MAX_SKIPS + 1
      /\ sit_step \in Int /\ sit_step <= SitSteps /\ SitSteps \in Int
      /\ MAX_SKIPS \in Nat /\ ToPublish \in 1..8 /\ ToApply \in 1..8
  BY LinkConstants, CountsInRange
     DEF Inv, TypeOK, SkipRange, SitRange, SitSteps
<1>2. RampLeft \in Nat
  BY <1>1 DEF RampLeft
<1>3. LapseLeft \in Nat
  BY <1>1 DEF LapseLeft
<1>4. ToApply \in Nat
  BY <1>1
<1>5. \A k \in Nat : k <= k
  OBVIOUS
<1> QED
  BY <1>2, <1>3, <1>4, <1>5, Zenon
     DEF OnTheRamp, OnRamp, RampEnded, Lapsing, Sinking, Settling

LEMMA RampEnds == DcmAlways => (OnTheRamp => <>RampEnded)
<1> SUFFICES ASSUME DcmAlways, OnTheRamp, ~RampEnded PROVE <>RampEnded
  BY PTL
<1>1. Inv
  BY PTL DEF DcmAlways
<1>2. PICK n \in Nat : OnRamp(n)
  BY <1>1, Bounds
<1>3. RampEndsBy(n)
  BY EveryBound
<1> QED
  BY <1>2, <1>3, PTL DEF RampEndsBy

LEMMA ContactLapses == AwayAlways => <>Lapsed
<1> SUFFICES ASSUME AwayAlways, ~Lapsed PROVE <>Lapsed
  BY PTL
<1>1. Inv
  BY PTL DEF AwayAlways, DcmAlways
<1>2. PICK n \in Nat : Lapsing(n)
  BY <1>1, Bounds
<1>3. LapsesBy(n)
  BY EveryBound
<1> QED
  BY <1>2, <1>3, PTL DEF LapsesBy

LEMMA RobotSinks == AwayAlways => (Lapsed => <>Safe)
<1> SUFFICES ASSUME AwayAlways, Lapsed, ~Safe PROVE <>Safe
  BY PTL
<1>1. Inv
  BY PTL DEF AwayAlways, DcmAlways
<1>2. PICK n \in Nat : Sinking(n)
  BY <1>1, Bounds
<1>3. SinksBy(n)
  BY EveryBound
<1> QED
  BY <1>2, <1>3, PTL DEF SinksBy

LEMMA RobotSettles == AwayAlways => (Safe => <>Limp)
<1> SUFFICES ASSUME AwayAlways, Safe PROVE <>Limp
  BY PTL
<1>1. Inv
  BY PTL DEF AwayAlways, DcmAlways
<1>2. PICK n \in Nat : Settling(n)
  BY <1>1, Bounds
<1>3. SettlesBy(n)
  BY EveryBound
<1> QED
  BY <1>2, <1>3, PTL DEF SettlesBy

(* The ramp never leaves the robot half-way down with its joints stiff,    *)
(* for any length of the ramp and whatever runswift and the buttons do     *)
(* meanwhile, as long as the DCM calls its callbacks.                      *)
THEOREM RampFinishes == Spec /\ DcmRuns => SitEnds
<1>1. OnTheRamp <=> (sit_step >= 0 /\ naoqi = "up")
  BY DEF OnTheRamp
<1>2. RampEnded <=> (sit_step = -1 \/ body = "limp" \/ naoqi = "down")
  BY DEF RampEnded
<1> QED
  BY <1>1, <1>2, RampEnds, InvAlways, PTL DEF SitEnds, Spec, DcmAlways, DcmRuns

(* A runswift that never comes back means a robot that lies still: contact *)
(* lapses, the ramp runs to its end, and the limp body stays limp, for any *)
(* number of frames that may be missed and any length of the ramp.         *)
THEOREM AbandonedGoesLimp == Spec /\ DcmRuns => GoneMeansLimp
<1>1. Away <=> (runswift = "off" /\ naoqi = "up")
  BY DEF Away
<1>2. Inv /\ [Next]_vars /\ Away /\ Away' /\ Limp => Limp'
  BY SafeStep DEF Limp
<1>3. Limp => (body = "limp")
  BY DEF Limp
<1> QED
  BY <1>1, <1>2, <1>3, ContactLapses, RobotSinks, RobotSettles, InvAlways, PTL
     DEF GoneMeansLimp, Spec, DcmAlways, AwayAlways, DcmRuns
=============================================================================
