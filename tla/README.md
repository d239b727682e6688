# Specifications of the rUNSWift player

TLA+ models of the concurrent and distributed parts of the robot player in
`src/robot`: the link between the NaoQi agent and the Motion thread, the
GameController thread, the team's start on the whistle, the sharing of
observations between team mates, the double buffer of behaviour requests, the
choice of the generator that drives the body, the guard that restarts threads
that fail, and the way of a button press from the sensor to the game state.
TLC checks the modules on small instances; TLAPS proves the safety properties
they are checked for, and the liveness properties from fairness that is written
out, for every value of the constants.

Paths below are relative to `src/robot` unless they say otherwise.

## 1. The system

Two processes run on a Nao.

* **NaoQi** loads `libagent`. The DCM thread calls `Agent::preCallback` and
  `Agent::postCallback` every 10 ms: joint commands go out, sensors come in,
  and buttons are looked at. Shared memory (`AgentData`) and a named semaphore
  link it to the other process.
* **runswift** (`main.cpp`) starts a thread per module with
  `ThreadManager::safelyRun`, which restarts a thread that threw, faulted or
  overran: *Perception* (kinematics, vision, localisation, behaviour in one
  tick), *Motion* (SCHED_FIFO 65, woken by the agent's semaphore),
  *GameController*, *TeamTransmitter* (every 200 ms), *TeamReceiver* (a tick
  every 100 ms, and boost's thread that handles packets), *OffnaoTransmitter*
  (50 ms). They share the *Blackboard*, whose `readFrom` and `writeTo` are plain
  accesses: apart from a `serialization` lock around some of them there is no
  locking.

Robots broadcast to their team over UDP; the referee's GameController program
broadcasts to all.

### Inventory

| Component | State | Operations | Hard part | Correct when | Module |
|---|---|---|---|---|---|
| Agent, `libagent/` | `AgentData`, `skipped_frames`, `sit_step`, `limp`, stiffness | the two DCM callbacks; double and triple click, head touch, stiffen; fork/exec and killall of runswift | races with Motion on `AgentData`, crash and restart of either process | a body without a driver sits and goes limp; no command moves it again before a person says so | `AgentLink` |
| Motion's touch and effector, `motion/touch`, `motion/effector` | slot indices, `kill_standing` | `getSensors`, `getStanding`, `actuate` | as above; waiting on a semaphore nobody may post | each stand-up request is seen before it is cleared; SIGTERM ends the process | `AgentLink` |
| Process and thread life, `main.cpp`, `thread/` | pid-file lock, per-thread jump points | start, SIGTERM, fault, restart | longjmp out of a fault, locks left behind | a new runswift can start; a restarted thread does no harm | `ThreadGuard`; in part in `AgentLink`, `GameController`, `ActionRequest` |
| GameController thread, `gamecontroller/` | `data`, `team_red`, `gameState` | poll packets, button, whistle, team opinion, publish | packets lost or late, values carried from tick to tick, four separate writes | the referee is obeyed, a start on the whistle is neither taken back nor invented | `GameState`, `GameController` |
| Team messages, `transmitter/Team.cpp`, `receiver/Team.cpp` | table of team mates | broadcast, handle, mark as incapacitated | loss, stale entries, two threads on one table | a false start stays with those who made it; a true one spreads | `KickOff`, `SharedBundles` |
| Shared localisation, `perception/localisation/` | shared distribution, bundle, two flags | observe, publish, reset, fuse | flags without locks between three threads of two robots | an observation is sent, and fused once | `SharedBundles` |
| Behaviour requests, `perception/behaviour/`, `blackboard/` | `request[2]`, `readBuf` | write and turn, look and copy, configure | double buffer without lock; restarts | readers get whole requests | `ActionRequest`, `RequestRegister` |
| Chest button, `ButtonPresses` | counters, slots of presses | debounce, push, pop | two threads that rewrite one mask without a lock, a single slot | a press acts, and once | `ButtonPath` |
| Motion generators, `motion/generator/` | current and previous generator, where each is in its pose file | preempt, hand over, go on, ask to stop | four rules on two tests of one state, over long sequences of requests and falls | a getup is never cut off; a limp robot never shoots up; a fallen one tries to get up | `BodyGenerators` |
| Safety skill, `perception/behaviour/SafetySkill.cpp` | – | override a request by how the robot lies | it looks a tick before Motion acts | a fallen robot is asked to get up | `BodyGenerators` |
| Thread guard, serialization lock | jump points, blocked signals, the mutex | fault, throw, restart, free the lock, shut down | a fault with a lock held | first faults are survived, Perception keeps seeing, the process ends when told to | `ThreadGuard` |
| Localisation resets, `LocalisationAdapter.cpp` | the state of the tick before, latches | reset when penalised, placed, started, fallen | reads the game state many times in a tick | each change of state resets once | not modelled |
| Position allocation | the best allocation known | override, gossip | read-compare-write by two threads, reordering | the team agrees | not modelled |
| Off-Nao transmitter | connections | configuration commands, streaming | rewrites requests in place | as for requests | `ActionRequest` (its effect on requests), `ThreadGuard` (its use of the lock) |
| Vision, kinematics, walk engine, localisation's filters | images, matrices | numerics | none for a model checker | – | not modelled |
| Python skills, whistle detector, simulation, host tools, Eigen, FADBAD++, snappy, pyalsaaudio | – | – | outside the player's own control logic, or third-party | – | not modelled |

`PROJECT.json` lists the same components with their files, and under "hazards"
every place in this code that is hard to test, with the properties that watch
it.

## 2. The modules

Every module models one tick-level protocol at the granularity at which other
threads can see it: where two threads share memory, an action is a stretch of
code with at most one access that matters to the other; where they do not, a
whole handler is one action. History variables are declared last, under
"history"; no guard reads them except in the properties.

### AgentLink

*State.* `AgentData` (the indices, `stiffen`, `standing`, `semaphore`), the
agent's fields, the player's fields, a program counter for the DCM thread and
one for Motion. *Actions.* `Pre…` and `Post…` are the stretches of the two
callbacks, in their order; `MotionLoop` to `ActuateSettle` those of the Motion
thread; `AgentStop/Start`, `ChildKill/Exec`, `ShellStart`, `StartRunswift` and
`RunswiftCrash` are the lives of the processes. `FindSlot` is the slot search as
the code has it. The contents of a frame are abstracted to who is accessing which
slot. The sitting ramp of floating-point steps is a count of `StiffSitSteps` and
`SoftSitSteps`. The semaphore is the named one that survives both processes.

*Safety.* `LostNeedsStand` (a body that was sat down needs a person before it
follows runswift again), `ContactRecent` (a body that follows is at most
`MAX_SKIPS` + 1 cycles from the last token taken), `StiffenServed` (between the look
of `doStiffen` and its wipe no request is acted on twice, and the wipe destroys
none that was there to be seen; one that Motion writes between the two lines, or
overwrites before the agent looks, is lost in the code as it is). *Liveness.*
`GoneMeansLimp`, `SitEnds`, and `SigtermEnds`: a runswift told to shut down leaves,
unless it is `Stranded`: NaoQi is away and Motion waits for a semaphore that is
empty. That is the deadlock of the code, and the property says that nothing else
between the two threads keeps a runswift.

### GameState, GameController

`GameState` holds the decisions as operators: `ParseState` (what a packet does
to the state, including the rule that SET does not undo PLAYING), `PressState`
(manual penalty), `ToldState` (what the team is told), `Enough` and `TeamState`
(the 30% rule). `GameController` is one robot's thread: a tick takes what it
needs from the blackboard, polls up to `MAX_POLLS` times (`PollPacket`,
`PollNothing`), looks at the button, decides, and writes `data`, `our_team` and
`gameState` one after the other, `gameState` once more when it overrides it.
Between any two of these the referee may move, and the transmitter may read the
blackboard. `Restart` is safelyRun's: the thread object is made anew and the
blackboard stays. `Init` allows any `gameState`, as the constructor leaves it
uninitialised.

*Safety.* `PenaltyObeyed` and `PenaltyHasCause` (the blackboard says penalised
exactly when the last packet or the button did, once the side is known),
`PlayNeedsLicence`, `EarlyStartKept`.
*Liveness.* `RefereeObeyed`.

### KickOff

Composes the decisions of `GameState` for a team: a robot's whole tick is one
action (`Tick`, `Whistle`, `Press`), and so are a reception (`Receive`, which
hands over what `Said` allows the sender to be saying, the flicker of `gameState`
included) and a mark as incapacitated (`Incapacitate`). Loss, delay and repetition
of messages are receptions that happen late, never or twice, as a broadcast
carries the present state and nothing accumulates. A robot in `behind` began its
tick before the referee's last move, and so may conclude it on the packets of the
phase before.

*Safety.* `FalseStartContained`: robots that start for no reason do not start
the rest while they are fewer than 30% of the active team mates any robot counts.
*Liveness.* `WhistleSpreads`.

### SharedBundles

One sender, one receiver, and the five threads involved. Observations are
numbers, a bundle is a set of them. The sender's localisation is four steps
(`HandleMine`, `Localise` or `StartAfresh`, `WriteBundle`, `WriteFlag`), its transmitter
three (`ReadBundle`, `ClearFlag`, `Send`), the receiver's handler sets the flag before
it stores the data, and a message of a third robot reads and writes back all flags
(`HandleOther`, `SetOtherFlag`). A torn copy of a bundle is abstracted away.

*Safety.* `DroppedWasLate`: an observation is only reset away unsent if it was
published between the transmitter's read and its clearing of the flag.
`TwiceNeedsRace`: one is only fused again if it was in two messages (`resent`), if
localisation ran between the flag of a new message and its data, or if the handler
raised a flag again that localisation had cleared (`stale`).
*Liveness.* `EverythingLeaves`.

### ActionRequest

The two copies of the request and `readBuf`; Perception writes in three steps and
may be restarted between them; Off-Nao's configuration command rewrites whichever
copy is shown; readers look, then copy. A request is the number of the tick that
made it.

*Safety.* `ShownWhole`, `WrongNeedsLap`.

*Refinement.* `RequestRegister` says what the blackboard promises to readers,
with no word of copies and buffers: a register that shows one whole request, each
later than the one before, and gives it whole to any reader that was not
overtaken. `ImplementsRegister` says that the two copies and `readBuf` implement it:
`Showing` is the copy `readBuf` points to, `Holding(r)` what a reader would have if it
ended now, `Undisturbed` those that were neither lapped nor met a rewriting.

### BodyGenerators

*State.* The body action on the blackboard (`asked`), how the robot lies
(`sensed`), `current_generator`, `prev_generator`, `isStopping`, what each generator
keeps (`gen`: the frame of a pose file, the walk engine's "walking", the counters of
the dead and of the picked-up robot, a getup's poses and its `fallen` latch), and
`motion.active.body` (`told`). *Actions.* `Tick` is `MotionAdapter::tick`, in the four
ways `DistributedGenerator::makeJoints` may go (`Preempt`, `HandOver`, `CarryOn`,
`AskToStop`); `StandUp` a tick that finds the agent's stand-up; `Behave` Perception's
tick with `SafetySkill::wrapRequest` at its end; `Configure` a command from Off-Nao;
`MotionRestart` a new Motion. Nature chooses a posture in every tick, until `Calm`.
The actions of the walk engine share one generator, as in the code, and it may
answer a kick or a dribble with another of its actions (`Answer`).

*Safety.* `PriorityServed`, `GetupPlayedOut`, `NoJumpFromDead`, `SmoothStart`,
`WalkKept`. *Liveness*, once nothing disturbs the robot: `TriesToGetUp`,
`RequestServed`.

What the exceptions in these properties say of the code:

* A getup that restarted for the other side keeps `fallen` set until it sees the
  robot off the ground; if the robot then stays down on the first side again, it
  plays the wrong poses for ever (`Latched`). The comment at
  `GetupGenerator.cpp:118` speaks of giving up after three falls; that code is
  commented out.
* `TIP_OVER`, for a robot on its side, is played once and its end held.
* A robot asked to be `DEAD` while it is dead is driven by `REF_PICKUP` for a
  tick in every 101, when the dead generator has run out.
* The walk engine's `stop()` does nothing, so the special case that lets a kick
  continue (`DistributedGenerator.cpp:252-257`) changes only `isStopping`, and a walking
  robot asked to stand is stopped by the walk engine itself, which the model
  does not follow (`RequestServed` excepts it).
* `Generator.hpp:71` says that `reset` makes a generator inactive. The pose players,
  the dead and the pickup become active by it, about to play.
* Nothing resets generators that were just constructed, so the first pose after a
  restart of Motion is taken without interpolation (`virgin` in `SmoothStart`).

### ThreadGuard

*State.* Where each of three threads is (Perception, Off-Nao's transmitter and
Motion, the ones that share a lock or wait for another process), the serialization
lock, the caught fault and blocked signals of each, the signals back at their
default action, `attemptingShutdown`. *Actions.* `Begin`, `Build`, `Tick` and
`WakeUp` are the loop of `safelyRun`; `Fault` and `HandleSignal` a fault and its
`longjmp`; `Throw` an exception; `Acquire` and `Release` the lock, which
`BuildPerception` frees whoever holds it; `Terminate`, `TimeUp` and `Return` the end.

*Safety.* `LockSound`, `SurvivesFirst`. *Liveness.* `PerceptionSees`,
`ShutdownEnds`.

What the exceptions say: an Off-Nao transmitter that dies in the middle of a
save leaves a lock nobody but a new Perception frees, and Perception itself may
be waiting for it; a dump that throws also begins a shutdown, which then waits for
a transmitter that waits for the lock; a second SIGTERM or a second fault of the same
kind kills the process without a destructor being run.

### ButtonPath

*State.* The debouncing counters of the agent, the slot of presses, the copies that
Motion and GameController have in their hands, the blackboard's mask. A press is a
number, so that the same press can be told from the next. *Actions.* `Cycle` and
`Post` are `postCallback`; `GetSensors`, `GetButtons`, `Merge` and `WriteButtons` Motion's
tick; `ButtonUpdate` and `WriteBack` GameController's.

*Safety.* `RepeatNeedsRace`. *Liveness.* `Delivered`. The four races they name are the
ways the code loses or repeats a press: Motion comes late for a slot (lost) or
reads it again; GameController writes back a mask that Motion has added to since
(erased); Motion writes back a mask from which GameController has popped since
(restored). Other limits of the path, by construction and without a property:
presses that meet on the blackboard before GameController looks act as one; after
a hold of three seconds the button is dead until NaoQi restarts; gestures of five
clicks or more leave a bit nobody pops, and those of more than eight none.

### Proof modules

`AgentLinkProofs`, `GameControllerProofs`, `KickOffProofs`, `SharedBundlesProofs`,
`ActionRequestProofs`, `BodyGeneratorsProofs`, `ThreadGuardProofs` and
`ButtonPathProofs` each extend one of the above. `MCKickOff` adds the
symmetry of the robots and the state constraint for TLC.

## 3. What TLC checks

| Run (`.cfg`) | Bounds | Shows |
|---|---|---|
| `AgentLink` | MAX_SKIPS 2, ramp of 1+1 steps, NaoQi may stop and start | the safety properties of the link |
| `AgentLinkLive` | MAX_SKIPS 0, ramp of 1+1 steps, NaoQi may stop | the liveness properties |
| `GameController` | 1 poll in a tick, our team red, restarts | the safety properties of one robot and `RefereeObeyed` |
| `KickOff` | 4 robots, 1 false starter, 1 team mate not heard, whole games, all faults | `FalseStartContained` |
| `KickOffLive` | 3 robots, SET and PLAYING | `WhistleSpreads` |
| `SharedBundles` | 1 observation | `DroppedWasLate`, `TwiceNeedsRace`, `EverythingLeaves` |
| `ActionRequest` | 2 readers, 4 requests, 2 commands | `ShownWhole`, `WrongNeedsLap`, `ImplementsRegister` |
| `BodyGenerators` | pose files of 3 frames, limits of 1 and 2 cycles, 4 wishes of the skills | who drives the body, and what is served in the end |
| `ThreadGuard` | 2 fault signals, 2 mishaps | the lock, faults, restarts, shutdown |
| `ButtonPath` | intervals of 1 cycle, gestures of 2 clicks, 2 presses | a press acts, and once |

Why the bounds are enough to be interesting.

* The agent's `MAX_SKIPS` (50) only sets how long contact may be lost; with 2 the
  counters still separate "missed one", "missed all that are allowed" and "lost".
  One step of each kind on the ramp reaches its start, its change of stiffness
  and its end. The liveness run takes 0, where the first missed cycle loses contact:
  what it asks is that the robot gets to the end of the ramp and lies still,
  however often contact comes and goes.
* One poll suffices for `GameController`: a tick without a packet is possible too, and
  packets of two phases meet in what the blackboard carries over; that several
  packets of one tick do no harm is left to the theorems, which hold for any number
  of polls and for both colours. A red team is the harder case, as
  `team_red` starts as false; that teams swap sides is left to the theorems.
* Four is the smallest team in which one false starter is less than 30% of the active
  team mates (a robot is one of its own), so that `FalseStartContained` has something to
  contain: one that missed that the game before has ended, hears a whistle nobody blew,
  or has its button pressed, while its broadcasts are repeated, late or half-written.
  Once one of the four counts as incapacitated the false starter is enough, and the
  property says nothing more of this SET. `FewStarted` in `MCKickOff`, a state constraint
  of the run, therefore gives up a behaviour where the false starters are no longer
  few of what some robot takes for active, and takes up a new SET, or a new game,
  from teams in which nobody else plays. Bigger teams, more false starters and a team
  in which nobody has been heard yet are left to the theorem `FalseStart`.
* In `SharedBundles` observations never affect each other, so one is enough for it
  to be sent, late, dropped or left.
* Four requests let Perception come round to a reader's copy twice.
* Three frames separate a generator's first, its last and one between; `SETTLE` = 1
  lets a getup see a new fall in its last frame only. The wishes
  are one of each priority that behaves differently (`STAND`, `WALK`, `KICK`, a dive); with
  them come the bodies that SafetySkill and a stand-up add.
* Two mishaps are enough for a fault that leaves the lock and another that meets it,
  and for the second fault of a kind, which kills.
* One cycle of each interval still separates a click, the gap in a double click, the
  end of a gesture and a hold. Two presses can meet, follow each other and overtake.

Bounded counters are the constants above; nothing else is cut off. Only
`ThreadGuard` switches the deadlock check off: a process that has ended takes no
step.

### Where the code and its own text part

Each of these runs checks one property that a comment of the code states, and
TLC finds a behaviour of the code that breaks it. The quotes are in
`PROJECT.json`, under "findings".

| Run | Property | What happens |
|---|---|---|
| `AgentLinkGlitch` | `LimpWasAsked` | `actuate` itself raises `standing` for a moment on every second tick, and preCallback limps the body. |
| `SharedBundlesReset` | `ResetAfterBroadcast` | The transmitter clears the flag while localisation is in its tick; at its end localisation raises the flag again, so its next tick does not reset what was broadcast. |

Other places where the code is weaker than its text, without a run of their own:

* `ThreadManager.cpp:57-63` announces "ATTEMPTING SHUTDOWN" on SIGTERM. With NaoQi
  gone Motion waits for the semaphore for ever, and main for Motion:
  `SigtermEnds` excepts exactly this state (`Stranded`), and `ShutdownEnds` NaoQi's absence.
* `GameController.cpp:72` says that the state told to the team is "same as
  data.state unless we hear a whistle". A PLAYING told before is also kept (line
  102), and the first one told before is an uninitialised field.
* `Localiser.hpp:120-124` describes a reset in the first frame of PLAYING. The
  localisation tick reads the state of the game again at its end, so a change in
  between is never seen as one.
* The comments of `AgentEffector.cpp:92-93` expect the slots to be swapped.
  `OnlySlotZero`, a lemma of `AgentLinkProofs`, shows that they never are, so a
  command may be written while `preCallback` reads it.
* `AgentEffector.cpp:107` waits a cycle lest a stand-up request be cleared
  unseen; as `kill_standing` remembers the tick before and not this request, it
  may be.
* `GameController.cpp:152` writes SET over an announced PLAYING that line 158
  restores. `KickOff` lets a robot broadcast in between ("flicker").
* `Blackboard.hpp:172` has two copies of the request "to avoid concurrent access".
  `WrongNeedsLap` says what is true: a reader that was lapped has no such guarantee.

### Fairness

* `AgentLink`: weak fairness of the DCM thread's steps and of the Motion thread's.
  The DCM calls the callbacks every 10 ms while NaoQi runs, and Motion has a
  real-time priority. Nothing is assumed of people or of crashes.
* `GameController`: weak fairness of the tick; strong fairness of `PollPacket`: the
  referee's program broadcasts twice a second, so although any packet may be lost
  not all are.
* `KickOff`: strong fairness of a robot's tick near the centre circle, which is an
  assumption about the game and not about the code: the 30% rule only applies
  there, and a robot that keeps away is never started by its team (the proof
  shows that weak fairness of that tick would do). Weak fairness of each
  reception: a message of each pair gets through now and then.
* `SharedBundles`: weak fairness of the sender's two threads. The receiver and
  the network owe nothing.
* `BodyGenerators`: weak fairness of Motion's tick and of Perception's, which are
  scheduled by the DCM and by the camera. Nothing is assumed of the walk engine.
* `ThreadGuard`: weak fairness of each thread that is not waiting, strong fairness of
  taking the lock: neither thread holds it most of the time, and the Off-Nao
  transmitter sleeps between two ticks. Faults owe nothing.
* `ButtonPath`: weak fairness of the DCM's cycle, of Motion and of GameController, as
  above. Presses owe nothing.

## 4. What is proved

### Safety

TLAPS proves, for every value of the constants that satisfies the named
assumptions (`LinkConstants`, `ControllerConstants`, `KickOffConstants`,
`BundleConstants`, `RequestConstants`: counts are naturals, the team is finite):

* **AgentLinkProofs.** `TypeCorrect`; `FollowsRecentContact`
  from `ContactInv`, which ties the semaphore, `skipped_frames` and the time since a
  token was taken at each point of the two threads; `LostUntilStand` from
  `LostInv`, which says where in the ramp a body may be that was given up;
  `StiffenOnce` from `ServedInv`, which says that a request is new to NaoQi except
  between the two lines, where the one in the slot is served or was written since.
* **GameControllerProofs.** `TypeCorrect`; `Penalty`, `Cause` and `Licence` from
  `IInv`: what the thread holds and what the blackboard holds are each *explained* by
  packets, button and team (`Explained`); the properties only speak of the
  blackboard, but a step copies the thread's data to it. `EarlyStart` from
  `StillPlays`: while nothing but SET came in, a thread that began its tick playing
  still plays.
* **KickOffProofs.** `TypeCorrect`; `FalseStart`, for a team of any size: the
  robots outside `origin` neither play, say so, nor are reported to; a count of
  PLAYING reports is at most `origin`, a count of active ones at least `fewest`, so the
  share stays below 30%. It rests on cardinality lemmas of the library.
* **SharedBundlesProofs.** `DroppedLate`. `DroppedWasLate` is not inductive by
  itself: `Published` (the blackboard's bundle is the distribution, except while
  it is being made), `Overtaken` (what the transmitter did not read is late) and
  `Vouched` (a lowered flag means that all of the bundle is sent, on its way or
  late) carry it. `FusedTwice`: `OnePlace` says that an observation of one message is in
  one place on its way (network, handler, blackboard), `Fresh` that what the flag
  announces has not been fused yet, the two races aside.
* **ActionRequestProofs.** `TypeCorrect`, `Whole` and `Lap`. `Apart` says that
  Perception writes the copy that is not shown and finishes it before it turns
  `readBuf`; `Faithful` that an unlapped reader's copy is the one shown, as it was;
  `Rested` that a reader begins with a clean slate.

  `Refinement`: each step of the double buffer is a step of `RequestRegister` or
  leaves it unchanged (`Numbered` adds that requests only grow).
* **BodyGeneratorsProofs.** `TypeCorrect`, for pose files of any length; `Priority`,
  `GetupNotCutOff`, `DeadIsSoftened`, `StartsSmoothly`, `WalkIsKept`. Inductive is `IInv`:
  types, `prev_generator` = `current_generator` between ticks, and `Waiting`: a pose
  player that does not drive the body waits at its first frame, unless nothing
  has reset it since Motion started.
* **ThreadGuardProofs.** `TypeCorrect`, `LockIsSound`, `FirstFaultSurvived`. `SignalInv`
  ties a signal that is back at its default action to a thread that is handling
  it; `LockInv` says who is inside, who died inside, and who can still have
  the lock while Perception waits.
* **ButtonPathProofs.** `TypeCorrect`; `RepeatsAreRaces` from `RaceInv`: a press that
  met no race is in one place at a time (`Once`); `NothingVanishes` from `KeptInv`: a
  press is in the slot, with Motion, on the blackboard, acted on, or marked as late or
  erased, for any intervals and any number of presses. This is the safety half of
  `Delivered`.

### Liveness

ENABLED is out of the prover's reach, so these theorems do not start from
`WF_vars(A)`. They start from what it says once ENABLED is replaced by a guard
that is written out: `[]<>~Guard \/ []<><<A>>_vars` for weak fairness,
`<>[]~Guard \/ []<><<A>>_vars` for strong fairness, and `[]<><<A>>_vars` where the
thread is never without a step. The fairness of `FairSpec` implies these hypotheses
because each guard describes states in which A has a step that changes something,
which is read off the actions and not proved. TLC checks the same properties from
`FairSpec` itself, on the instances of the runs.

| Theorem | From | Along |
|---|---|---|
| `SigtermObeyed`: `SigtermEnds` | `DcmRuns`, `MotionRuns` | the Motion thread's tick is a chain of points, each left for the next; a thread that waits for a token gets one from the DCM thread's round, or NaoQi goes first |
| `RampFinishes`: `SitEnds` | `DcmRuns` | each round of the DCM thread takes a step of the ramp; induction on the steps left |
| `AbandonedGoesLimp`: `GoneMeansLimp` | `DcmRuns` | frames that may still be missed, then steps of the ramp: one bound on both falls with each round, and a limp body without a driver stays limp |
| `Obedience`: `RefereeObeyed` | `TickRuns`, `PacketsHeard`, MAX_POLLS > 0 | what becomes true for good, one after the other: the thread knows its side, then the team's colour, its data say the phase, the blackboard's data do, the team is told so |
| `TeamStarts`: `WhistleSpreads` | `Undisturbed`, `MessagesRun`, `TicksRun` | two inductions on cardinalities: of the pairs of robots that have not heard of the tellers, then of the robots that do not play |
| `NothingWaits`: `EverythingLeaves` | `SenderRuns` | an observation is shared, in the bundle, shown on the blackboard, taken by the transmitter, sent |
| `RequestsServed`: `RequestServed` | `TickRuns` | `Patience`, a bound on the ticks the generator that drives the body can still hold it |
| `TriesAgainAndAgain`: `TriesToGetUp` | `TickRuns`, `BehaveRuns` | `RoundLeft`, the ticks of a getup until it looks at the robot again, once the request for the getup stands (by `RequestsServed`) |
| `ShutdownObeyed`: `ShutdownEnds` | `ThreadsRun`, `ReturnRuns` | mishaps are bounded, so they cease (by induction on how many are left); then `Total`, the steps the threads still have to take until they have all returned, falls |
| `SightKept`: `PerceptionSees` | `SightRuns` | mishaps cease; then the loop of `safelyRun` is a chain of points, and the transmitter leaves the lock whenever it did not die in it |
| `EveryPressEnds`: `Delivered` | `ThreadsRun` | the places of `KeptInv`, in the order of the path |

The hypotheses that are not fairness:

* `Undisturbed` in `TeamStarts` (no faults, nobody taken out), as in its run: a penalised
  teller forgets what it heard, and the whistle with it.
* MAX_POLLS > 0 in `Obedience`: a thread that never polls hears no referee.

Induction is done without the library's induction rules, whose predicate the
provers cannot instantiate. A claim about the bound n becomes the entry n of a table
of truth values (`TableInduction`), and that a set of naturals has a least element
(`LeastElement`) follows from the library's theorem that finite sets are well-founded
by inclusion.

Only model-checked: that `FairSpec` itself implies these properties, and the runs
that end in a violation.

## 5. Not modelled

* Contents of frames, commands, bundles and requests, beyond what a property needs.
* Memory that is read while written is marked as torn, with no value chosen for it.
* `havePendingIncomingSharedBundle` has five flags and player numbers go to six:
  the access outside the vector has no outcome to model.
* A NaoQi whose forked child fails to exec and lives on as a second DCM client.
* A Motion thread that crashes and restarts often enough to stay in contact.
* Faults in threads that have no jump point: main, and the thread of boost's
  io_service that runs the receiver's handler. A jump to another thread's stack has no
  outcome to enumerate; so has a fault inside a catch block of `safelyRun`.
* The pose files that a configuration command makes the generators read again: the
  frames are appended to those they have, so the file is played twice in a row.
* An Off-Nao transmitter that cannot bind its port again after a fault.
* Vision, kinematics, the walk engine and the filters of localisation. They are most
  of the code by far, and sequential numerics: what would be wrong in them is a number,
  and no state machine says which. The walk engine's choice of its option
  (`Walk2014Generator.cpp:402-535`) depends on such numbers.
* The resets of localisation and the gossip of position allocations (section 6).
* Python skills, the whistle detector, host tools and vendored libraries.

## 6. Plan

*Done:* `AgentLink`, `GameState`, `GameController`, `KickOff`, `SharedBundles`,
`ActionRequest` with `RequestRegister`, `BodyGenerators`, `ThreadGuard`, `ButtonPath`, and
the proofs of every property their passing runs check.

*Next, in this order:*

1. `LocalisationResets`: the reset decisions of the localisation tick (penalised,
   manual placement, start of play, fallen), with the game state read several times in a
   tick while GameController writes it. Property: every change of state is seen as one,
   unless it fell between the reads.
2. The walk engine's options, once what it reads of the body is reduced to a few
   predicates; then `RequestServed` loses its exception.
3. A watchdog that `AgentLink` implements, and a referee's view of one robot that
   `GameController` implements; the refinements proved like that of `ActionRequest`.
4. `TeamAllocation`: the gossip of position allocations, when a skill sets one.
