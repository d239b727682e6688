--------------------------- MODULE BodyGenerators ---------------------------
(***************************************************************************)
(* Who drives the body.  Perception publishes the body action it wants,    *)
(* after SafetySkill has looked at how the robot lies; in every cycle of   *)
(* 10 ms the Motion thread takes that request, and DistributedGenerator    *)
(* decides which of its generators makes the joint commands: the one of    *)
(* the cycle before until that says it is idle, unless the request has a   *)
(* higher priority.                                                        *)
(*                                                                         *)
(* A whole tick of Motion is one step, and so is one of Perception; module *)
(* ActionRequest takes the request's way from one to the other apart.      *)
(* What a pose file makes of the joints is left out: a generator is where  *)
(* it is in its file.                                                      *)
(***************************************************************************)
EXTENDS Integers

CONSTANTS
  FRAMES,        \* cycles that a pose file takes
  SETTLE,        \* cycles a getup runs before it looks for a fall (4)
  MIN_TICKS,     \* cycles the dead generator insists on (100)
  PICKUP_TICKS,  \* cycles a picked up robot is given to stand (100)
  USE_GETUPS,    \* behaviour.use_getups
  Wishes         \* the body actions the skills ask for

(* ActionCommand::priorities.                                              *)
Urgent == {"GETUP_FRONT", "GETUP_BACK", "TIP_OVER"}
Prompt == {"INITIAL", "GOALIE_SIT", "GOALIE_DIVE_LEFT", "GOALIE_DIVE_RIGHT",
           "GOALIE_CENTRE", "GOALIE_UNCENTRE", "DEFENDER_CENTRE",
           "GOALIE_FAST_SIT"}
Relaxed == {"NONE", "STAND", "WALK", "DRIBBLE", "TURN_DRIBBLE", "KICK",
            "REF_PICKUP", "GOALIE_INITIAL", "GOALIE_AFTERSIT_INITIAL",
            "MOTION_CALIBRATE", "STAND_STRAIGHT", "LINE_UP"}
Bodies == Urgent \cup Prompt \cup Relaxed \cup {"DEAD"}

priorities == [b \in Bodies |-> CASE b \in Urgent -> 3
                                  [] b \in Prompt -> 2
                                  [] b = "DEAD" -> 1
                                  [] OTHER -> 0]

(* The actions of the walk engine share one generator.                     *)
Walkers == {"WALK", "KICK", "DRIBBLE", "TURN_DRIBBLE", "LINE_UP"}
Generator == [b \in Bodies |-> IF b \in Walkers THEN "WALK" ELSE b]
Generators == (Bodies \ Walkers) \cup {"WALK"}
Getups == {"GETUP_FRONT", "GETUP_BACK"}

(* Those that play a pose file; a picked up robot is played "stand".       *)
Players == Generators \ {"NONE", "WALK", "DEAD"}

(* How the robot lies, by the angles that SafetySkill and GetupGenerator   *)
(* compare with FALLEN_ANG and FALLING_ANG.                                *)
Sides == {"front", "back"}
Postures == Sides \cup {"side", "falling", "upright"}

ASSUME GeneratorConstants ==
  /\ FRAMES \in Nat \ {0, 1} /\ SETTLE \in Nat
  /\ MIN_TICKS \in Nat /\ PICKUP_TICKS \in Nat \ {0}
  /\ USE_GETUPS \in BOOLEAN
  /\ Wishes \subseteq Bodies

VARIABLES
  asked,       \* the body action Motion finds on the blackboard
  sensed,      \* how the robot lay in Motion's last tick
  current,     \* current_generator
  prev,        \* prev_generator
  isStopping,
  gen,         \* the generators
  told,        \* the body action in motion.active
  \* history and environment
  virgin,      \* generators as their constructors left them
  calm         \* nobody and nothing disturbs the robot from now on

vars == <<asked, sensed, current, prev, isStopping, gen, told, virgin, calm>>

NotRunning == -1
Frames == NotRunning..(FRAMES - 1)

(* frame: current_time of a pose file; poses, fallen: of the two getups,   *)
(* the side whose file is loaded and whether a fall was seen since the     *)
(* robot last was upright in it; walking: the walk engine's ~stopped;      *)
(* ticks: the dead generator's; down, counting, counted: the pickup's t,   *)
(* stopping and stopped.                                                   *)
GenState == [frame : [Players -> Frames], poses : [Getups -> Sides],
             fallen : [Getups -> BOOLEAN], walking : BOOLEAN, ticks : Nat,
             down : Int, counting : BOOLEAN, counted : BOOLEAN]

Constructed ==
  [frame |-> [p \in Players |-> NotRunning],
   poses |-> [g \in Getups |-> IF g = "GETUP_FRONT" THEN "front" ELSE "back"],
   fallen |-> [g \in Getups |-> FALSE], walking |-> FALSE, ticks |-> 0,
   down |-> PICKUP_TICKS, counting |-> FALSE, counted |-> FALSE]

TypeOK ==
  /\ asked \in Bodies /\ told \in Bodies
  /\ current \in Bodies /\ prev \in Bodies
  /\ sensed \in Postures
  /\ isStopping \in BOOLEAN /\ calm \in BOOLEAN
  /\ gen \in GenState /\ gen.ticks <= MIN_TICKS + 1
  /\ virgin \in SUBSET Players

Init ==
  /\ asked = "NONE" /\ sensed = "upright" /\ told = "NONE"
  /\ current = "NONE" /\ prev = "NONE" /\ isStopping = FALSE
  /\ gen = Constructed /\ virgin = Players
  /\ calm = FALSE

-----------------------------------------------------------------------------
(* What the generators do.                                                 *)

isActive(g, o) ==
  CASE o = "NONE" -> FALSE
    [] o = "WALK" -> g.walking
    [] o = "DEAD" -> g.ticks <= MIN_TICKS
    [] o = "REF_PICKUP" -> ~g.counted \/ g.frame[o] # NotRunning
    [] OTHER -> g.frame[o] # NotRunning

(* A dead generator that goes on counting where it was.                    *)
reset_KeepsTicks(g, S) ==
  [g EXCEPT
     !.frame = [p \in Players |-> IF p \in S THEN 0 ELSE g.frame[p]],
     !.walking = @ /\ "WALK" \notin S,
     !.down = IF "REF_PICKUP" \in S THEN PICKUP_TICKS ELSE @,
     !.counting = @ /\ "REF_PICKUP" \notin S,
     !.counted = @ /\ "REF_PICKUP" \notin S]

(* reset() of the generators in S: most are about to play, not inactive.   *)
reset(g, S) ==
  [g EXCEPT
     !.frame = [p \in Players |-> IF p \in S THEN 0 ELSE g.frame[p]],
     !.walking = @ /\ "WALK" \notin S,
     !.ticks = IF "DEAD" \in S THEN 0 ELSE @,
     !.down = IF "REF_PICKUP" \in S THEN PICKUP_TICKS ELSE @,
     !.counting = @ /\ "REF_PICKUP" \notin S,
     !.counted = @ /\ "REF_PICKUP" \notin S]

(* The pickup takes no notice either.                                      *)
stop_None(g, o) == g

(* stop(): the walk engine and the pose players take no notice.            *)
stop(g, o) == [g EXCEPT !.counting = @ \/ o = "REF_PICKUP"]

After(f) == IF f \in {NotRunning, FRAMES - 1} THEN NotRunning ELSE f + 1

PlayFrame(g, o) == [g EXCEPT !.frame[o] = After(@)]

(* A getup that sees the robot fall again starts over, with the poses for  *)
(* the side it fell on.                                                    *)
PlayGetup(g, o, posture) ==
  LET running  == g.frame[o] # NotRunning
      fallsNow == /\ running /\ posture \in Sides
                  /\ g.frame[o] > SETTLE /\ ~g.fallen[o]
      restarted ==
        IF fallsNow THEN [g EXCEPT !.frame[o] = 0, !.poses[o] = posture,
                                   !.fallen[o] = TRUE]
        ELSE IF running /\ posture \notin Sides
          THEN [g EXCEPT !.fallen[o] = FALSE]
        ELSE g
  IN  PlayFrame(restarted, o)

CountDown(g) ==
  IF ~g.counting THEN g
  ELSE [g EXCEPT !.down = @ - 1, !.counting = g.down # 1,
                 !.counted = @ \/ g.down = 1]

(* makeJoints() of generator o.                                            *)
makeJoints(g, o, posture) ==
  CASE o = "NONE" -> g
    [] o = "WALK" -> [g EXCEPT !.walking = TRUE]
    [] o = "DEAD" -> [g EXCEPT !.ticks = @ + 1]
    [] o = "REF_PICKUP" -> PlayFrame(CountDown(g), o)
    [] o \in Getups -> PlayGetup(g, o, posture)
    [] OTHER -> PlayFrame(g, o)

-----------------------------------------------------------------------------
(* Motion's tick.                                                          *)

(* Only being asked to stand is softened.                                  *)
Softened_Stand(b) ==
  IF prev = "DEAD" /\ b \in {"STAND", "WALK"} THEN "REF_PICKUP" ELSE b

(* From being dead the robot may only get up or stand up slowly.           *)
Softened(b) ==
  IF prev = "DEAD" /\ b \notin Urgent THEN "REF_PICKUP" ELSE b

(* The walk engine may finish a kick or a dribble that nobody asks for any *)
(* more, or leave it for a walk, and says so.                              *)
Answer(c, b) ==
  IF c \in Walkers THEN {b, "WALK", "DRIBBLE", "TURN_DRIBBLE"} ELSE {b}

(* Only getups go before others; any of equal priority goes before.        *)
Outranks_Urgent(b) == priorities[b] = 3
Outranks_Equal(b) == priorities[b] >= priorities[current]

(* The end of a tick: generator c makes the joints out of state g.         *)
Drive(g, c, b, stopping) ==
  /\ \E posture \in IF calm THEN {sensed} ELSE Postures :
       /\ sensed' = posture
       /\ gen' = makeJoints(g, Generator[c], posture)
  /\ told' \in Answer(c, b)
  /\ current' = IF c = "KICK" /\ told' = "WALK" THEN "WALK" ELSE c
  /\ prev' = current'
  /\ isStopping' = stopping
  /\ UNCHANGED <<asked, calm>>

Outranks(b) == priorities[b] > priorities[current]

(* A generator that was asked to stop counts as idle.                      *)
Idle_Stopping == isStopping \/ ~isActive(gen, Generator[current])

Idle == ~isActive(gen, Generator[current])
Same(b) == Generator[b] = Generator[current]

Preempt(b) ==
  /\ Outranks(b)
  /\ Drive(reset(gen, Generators), b, b, FALSE)
  /\ virgin' = {}

(* A generator is reset only if it was stopped; only if it is left.        *)
Rewinds_Stopped(b) == isStopping
Rewinds_Left(b) == ~Same(b) \/ isStopping

(* The idle generator is reset when it is left, or stopped, or has to get  *)
(* up again; otherwise it stays where it ended.                            *)
Rewinds(b) == ~Same(b) \/ isStopping \/ (current \in Getups /\ b = current)

HandOver(b) ==
  /\ ~Outranks(b) /\ Idle
  /\ LET S == IF Rewinds(b) THEN {Generator[current]} ELSE {}
     IN  /\ Drive(reset(gen, S), b, b, FALSE)
         /\ virgin' = virgin \ S

KickGoesOn(b) == current = "KICK" /\ b = "STAND"

CarryOn(b) ==
  /\ ~Outranks(b) /\ ~Idle /\ (Same(b) \/ KickGoesOn(b))
  /\ Drive(gen, current, b, isStopping)
  /\ UNCHANGED virgin

AskToStop(b) ==
  /\ ~Outranks(b) /\ ~Idle /\ ~Same(b) /\ ~KickGoesOn(b)
  /\ Drive(stop(gen, Generator[current]), current, b, TRUE)
  /\ UNCHANGED virgin

Tick ==
  \/ Preempt(Softened(asked))
  \/ HandOver(Softened(asked))
  \/ CarryOn(Softened(asked))
  \/ AskToStop(Softened(asked))

(* A tick that finds that the agent had the robot stand up.                *)
StandUp ==
  /\ ~calm
  /\ LET b == Softened("INITIAL")
     IN  Drive(reset(gen, Generators), b, b, FALSE)
  /\ virgin' = {}

(* The Motion thread ended and is made anew.                               *)
MotionRestart ==
  /\ ~calm
  /\ gen' = Constructed /\ virgin' = Players
  /\ current' = "NONE" /\ prev' = "NONE" /\ isStopping' = FALSE
  /\ UNCHANGED <<asked, sensed, told, calm>>

-----------------------------------------------------------------------------
(* SafetySkill::wrapRequest; light: the feet carry too little.             *)
wrapRequest(wish, posture, light) ==
  CASE wish = "MOTION_CALIBRATE" -> wish
    [] posture \in Sides -> IF ~USE_GETUPS THEN "DEAD"
                            ELSE IF posture = "front" THEN "GETUP_FRONT"
                            ELSE "GETUP_BACK"
    [] posture = "side" -> "TIP_OVER"
    [] posture = "falling" -> "DEAD"
    [] OTHER -> IF light THEN "REF_PICKUP" ELSE wish

(* Perception's tick.                                                      *)
Behave ==
  /\ \E wish \in IF calm THEN {asked} ELSE Wishes,
        light \in IF calm THEN {FALSE} ELSE BOOLEAN :
       asked' = wrapRequest(wish, sensed, light)
  /\ UNCHANGED <<sensed, current, prev, isStopping, gen, told, virgin, calm>>

(* A command from Off-Nao sets the request, past SafetySkill.              *)
Configure ==
  /\ ~calm
  /\ asked' \in Wishes
  /\ UNCHANGED <<sensed, current, prev, isStopping, gen, told, virgin, calm>>

Calm ==
  /\ ~calm /\ calm' = TRUE
  /\ UNCHANGED <<asked, sensed, current, prev, isStopping, gen, told, virgin>>

Next == Tick \/ StandUp \/ MotionRestart \/ Behave \/ Configure \/ Calm

Spec == Init /\ [][Next]_vars

FairSpec == Spec /\ WF_vars(Tick) /\ WF_vars(Behave)
-----------------------------------------------------------------------------
(* No request waits for a generator of a lower priority, also when the     *)
(* request was softened or the walk engine answered something else: what   *)
(* motion.active tells never outranks what drives the body.                *)
PriorityServed ==
  current # "NONE" => priorities[told] <= priorities[current]

(* A getup or a tip-over is played to its end, whatever is asked meanwhile *)
(* and however the robot falls; only a person who has it stand up or a     *)
(* restart of Motion cuts it off.                                          *)
GetupPlayedOut ==
  [][(Tick /\ current \in Urgent /\ ~Idle) => current' = current]_vars

(* From lying limp the robot never shoots up: the next generator gets it   *)
(* up or stands it up slowly, a person's stand-up request included.        *)
NoJumpFromDead ==
  [][(current = "DEAD" /\ ~MotionRestart)
       => current' \in Urgent \cup {"DEAD", "REF_PICKUP"}]_vars

(* A generator that takes over begins with the first frame of its file,    *)
(* interpolated from where the joints are, unless nothing reset it since   *)
(* Motion started.                                                         *)
SmoothStart ==
  [][(current' # current /\ current' \in Players \ virgin)
       => gen'.frame[current'] = 1]_vars

(* Walk2014Generator.hpp:59: "once started by makeJoints, will not be      *)
(* stopped, unless called reset".  Requests of no priority, to stand or    *)
(* for a robot in the referee's hands, are left to the walk engine.        *)
WalkKept ==
  [][(Tick /\ current \in Walkers /\ gen.walking)
       => (current' \in Walkers \/ priorities[current'] > 0)]_vars

(* A robot left lying on its front or back tries again and again to get    *)
(* up, with the poses for that side; unless the getup it uses still takes  *)
(* the robot for falling and holds the poses of the other side, and so     *)
(* never looks again.                                                      *)
GetupFor(side) == IF side = "front" THEN "GETUP_FRONT" ELSE "GETUP_BACK"
Starts(side) ==
  /\ current = GetupFor(side) /\ gen.frame[current] = 1
  /\ gen.poses[current] = side
Latched(side) ==
  gen.fallen[GetupFor(side)] /\ gen.poses[GetupFor(side)] # side
TriesToGetUp ==
  \A side \in Sides :
    []<>((USE_GETUPS /\ calm /\ sensed = side /\ asked # "MOTION_CALIBRATE")
           => (Starts(side) \/ Latched(side)))

(* A request that stays is carried out in the end, except that the walk    *)
(* engine keeps the body once it has it.                                   *)
RequestServed ==
  []<>(calm => (Generator[current] = Generator[asked] \/ current \in Walkers))
=============================================================================
