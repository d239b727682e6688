------------------------ MODULE BodyGeneratorsProofs ------------------------
(***************************************************************************)
(* What holds of the generators for pose files of any length, any patience *)
(* of the dead and the picked up, and whatever the skills ask for.         *)
(***************************************************************************)
EXTENDS BodyGenerators, FiniteSetTheorems, WellFoundedInduction, TLAPS

(* Every variable but the bound on ticks, which needs Waiting.             *)
Typed ==
  /\ asked \in Bodies /\ told \in Bodies /\ current \in Bodies
  /\ sensed \in Postures
  /\ isStopping \in BOOLEAN /\ calm \in BOOLEAN
  /\ gen \in GenState
  /\ virgin \in SUBSET Players

(* A generator that does not drive the body is as reset() leaves it, or as *)
(* it was constructed.                                                     *)
Waiting ==
  /\ \A p \in Players \ virgin : p # Generator[current] => gen.frame[p] = 0
  /\ Generator[current] # "DEAD" => gen.ticks = 0
  /\ gen.ticks <= MIN_TICKS + 1

IInv == Typed /\ prev = current /\ Waiting /\ PriorityServed

-----------------------------------------------------------------------------
(* Priorities and generators of the body actions.                          *)

LEMMA PriorityRange ==
  /\ \A b \in Bodies : priorities[b] \in 0..3
  /\ \A b \in Walkers : b \in Bodies /\ priorities[b] = 0
  /\ \A b \in Urgent : b \in Bodies /\ priorities[b] = 3
BY SMTT(60) DEF priorities, Bodies, Urgent, Prompt, Relaxed, Walkers

LEMMA GeneratorOf ==
  /\ \A b \in Bodies : Generator[b] \in Generators
  /\ \A b \in Walkers : Generator[b] = "WALK"
  /\ \A b \in Bodies : b \notin Walkers => Generator[b] = b
  /\ \A p \in Players : p \in Bodies /\ p \notin Walkers /\ p \in Generators
                        /\ p \notin {"NONE", "WALK", "DEAD"}
  /\ Urgent \subseteq Players /\ Getups \subseteq Urgent
<1>1. Walkers \subseteq Bodies
  BY PriorityRange
<1>2. "WALK" \in Walkers
  BY DEF Walkers
<1>3. Urgent \subseteq Players
  BY DEF Urgent, Bodies, Players, Generators, Walkers
<1>4. Getups \subseteq Urgent
  BY DEF Getups, Urgent
<1> QED
  BY <1>1, <1>2, <1>3, <1>4 DEF Generator, Generators, Players

-----------------------------------------------------------------------------
(* What the generators' own operations keep.                               *)

LEMMA ResetKeeps ==
  ASSUME NEW g \in GenState, NEW S
  PROVE  /\ reset(g, S) \in GenState
         /\ \A p \in Players :
              reset(g, S).frame[p] = IF p \in S THEN 0 ELSE g.frame[p]
         /\ reset(g, S).ticks = IF "DEAD" \in S THEN 0 ELSE g.ticks
<1>1. 0 \in Frames
  BY GeneratorConstants DEF Frames, NotRunning
<1>2. PICKUP_TICKS \in Int
  BY GeneratorConstants
<1> QED
  BY <1>1, <1>2 DEF reset, GenState

LEMMA StopKeeps ==
  ASSUME NEW g \in GenState, NEW o
  PROVE  /\ stop(g, o) \in GenState
         /\ stop(g, o).frame = g.frame /\ stop(g, o).ticks = g.ticks
BY DEF stop, GenState

LEMMA AfterFrame ==
  /\ \A f \in Frames : After(f) \in Frames
  /\ 0 \in Frames /\ After(0) = 1
BY GeneratorConstants DEF After, Frames, NotRunning

LEMMA PlayFrameKeeps ==
  ASSUME NEW g \in GenState, NEW o \in Players
  PROVE  /\ PlayFrame(g, o) \in GenState
         /\ \A p \in Players : p # o => PlayFrame(g, o).frame[p] = g.frame[p]
         /\ g.frame[o] = 0 => PlayFrame(g, o).frame[o] = 1
         /\ PlayFrame(g, o).ticks = g.ticks
BY AfterFrame DEF PlayFrame, GenState

LEMMA PlayGetupKeeps ==
  ASSUME NEW g \in GenState, NEW o \in Getups, NEW posture \in Postures
  PROVE  /\ PlayGetup(g, o, posture) \in GenState
         /\ \A p \in Players :
              p # o => PlayGetup(g, o, posture).frame[p] = g.frame[p]
         /\ g.frame[o] = 0 => PlayGetup(g, o, posture).frame[o] = 1
         /\ PlayGetup(g, o, posture).ticks = g.ticks
<1> DEFINE running  == g.frame[o] # NotRunning
           fallsNow == /\ running /\ posture \in Sides
                       /\ g.frame[o] > SETTLE /\ ~g.fallen[o]
           again    == [g EXCEPT !.frame[o] = 0, !.poses[o] = posture,
                                 !.fallen[o] = TRUE]
           upright  == [g EXCEPT !.fallen[o] = FALSE]
           before   == IF fallsNow THEN again
                       ELSE IF running /\ posture \notin Sides THEN upright
                       ELSE g
<1>0. o \in Players
  BY GeneratorOf
<1>1. PlayGetup(g, o, posture) = PlayFrame(before, o)
  BY DEF PlayGetup
<1>2. CASE fallsNow
  <2>1. again \in GenState
    BY <1>0, <1>2, AfterFrame DEF GenState
  <2>2. \A p \in Players : p # o => again.frame[p] = g.frame[p]
    BY <1>0 DEF GenState
  <2>3. again.frame[o] = 0 /\ again.ticks = g.ticks
    BY <1>0 DEF GenState
  <2>4. before = again
    BY <1>2
  <2> HIDE DEF again, before, fallsNow, running, upright
  <2> QED
    BY <1>0, <1>1, <2>1, <2>2, <2>3, <2>4, PlayFrameKeeps
<1>3. CASE ~fallsNow /\ running /\ posture \notin Sides
  <2>1. upright \in GenState /\ upright.frame = g.frame /\ upright.ticks = g.ticks
    BY DEF GenState
  <2>2. before = upright
    BY <1>3
  <2> HIDE DEF again, before, fallsNow, running, upright
  <2> QED
    BY <1>0, <1>1, <2>1, <2>2, PlayFrameKeeps
<1>4. CASE ~fallsNow /\ ~(running /\ posture \notin Sides)
  <2>1. before = g
    BY <1>4
  <2> HIDE DEF again, before, fallsNow, running, upright
  <2> QED
    BY <1>0, <1>1, <2>1, PlayFrameKeeps
<1> QED
  BY <1>2, <1>3, <1>4

LEMMA CountDownKeeps ==
  ASSUME NEW g \in GenState
  PROVE  /\ CountDown(g) \in GenState
         /\ CountDown(g).frame = g.frame /\ CountDown(g).ticks = g.ticks
<1> DEFINE goesOn == g.down # 1
           ended  == g.counted \/ g.down = 1
<1>1. goesOn \in BOOLEAN /\ ended \in BOOLEAN /\ g.down - 1 \in Int
  BY DEF GenState
<1>2. CountDown(g) = IF ~g.counting THEN g
                     ELSE [g EXCEPT !.down = @ - 1, !.counting = goesOn,
                                    !.counted = ended]
  BY DEF CountDown
<1> HIDE DEF goesOn, ended
<1> QED
  BY <1>1, <1>2 DEF GenState

LEMMA MakeJointsKeeps ==
  ASSUME NEW g \in GenState, NEW o \in Generators, NEW posture \in Postures
  PROVE  /\ makeJoints(g, o, posture) \in GenState
         /\ \A p \in Players :
              p # o => makeJoints(g, o, posture).frame[p] = g.frame[p]
         /\ (o \in Players /\ g.frame[o] = 0)
              => makeJoints(g, o, posture).frame[o] = 1
         /\ makeJoints(g, o, posture).ticks
              = IF o = "DEAD" THEN g.ticks + 1 ELSE g.ticks
<1>1. CASE o = "NONE"
  BY <1>1, GeneratorOf DEF makeJoints, Getups
<1>2. CASE o = "WALK"
  <2>1. makeJoints(g, o, posture) = [g EXCEPT !.walking = TRUE]
    BY <1>2 DEF makeJoints, Getups
  <2> QED
    BY <1>2, <2>1, GeneratorOf DEF GenState
<1>3. CASE o = "DEAD"
  <2>1. makeJoints(g, o, posture) = [g EXCEPT !.ticks = @ + 1]
    BY <1>3 DEF makeJoints, Getups
  <2> QED
    BY <1>3, <2>1, GeneratorOf DEF GenState
<1>4. CASE o = "REF_PICKUP"
  <2> DEFINE h == CountDown(g)
  <2>1. makeJoints(g, o, posture) = PlayFrame(h, o)
    BY <1>4 DEF makeJoints, Getups
  <2>2. o \in Players
    BY <1>4, GeneratorOf DEF Players
  <2>3. h \in GenState /\ h.frame = g.frame /\ h.ticks = g.ticks
    BY CountDownKeeps
  <2> HIDE DEF h
  <2>4. /\ PlayFrame(h, o) \in GenState
        /\ \A p \in Players : p # o => PlayFrame(h, o).frame[p] = h.frame[p]
        /\ h.frame[o] = 0 => PlayFrame(h, o).frame[o] = 1
        /\ PlayFrame(h, o).ticks = h.ticks
    BY <2>2, <2>3, PlayFrameKeeps
  <2> QED
    BY <1>4, <2>1, <2>3, <2>4
<1>5. CASE o \in Getups
  <2>1. makeJoints(g, o, posture) = PlayGetup(g, o, posture)
    BY <1>5 DEF makeJoints, Getups
  <2>2. o # "DEAD"
    BY <1>5 DEF Getups
  <2> QED
    BY <1>5, <2>1, <2>2, PlayGetupKeeps
<1>6. CASE o \in Players \ (Getups \cup {"REF_PICKUP"})
  <2>1. o # "NONE" /\ o # "WALK" /\ o # "DEAD"
    BY <1>6, GeneratorOf
  <2>2. makeJoints(g, o, posture) = PlayFrame(g, o)
    BY <1>6, <2>1 DEF makeJoints, Getups
  <2> QED
    BY <1>6, <2>1, <2>2, PlayFrameKeeps
<1> QED
  BY <1>1, <1>2, <1>3, <1>4, <1>5, <1>6 DEF Players

-----------------------------------------------------------------------------
(* The end of a tick, whoever drives.                                      *)

LEMMA DriveFacts ==
  ASSUME Typed, NEW g \in GenState, NEW c \in Bodies, NEW b \in Bodies,
         NEW stopping \in BOOLEAN, Drive(g, c, b, stopping)
  PROVE  /\ asked' \in Bodies /\ told' \in Bodies /\ current' \in Bodies
         /\ sensed' \in Postures
         /\ isStopping' \in BOOLEAN /\ calm' \in BOOLEAN
         /\ \E posture \in Postures :
              gen' = makeJoints(g, Generator[c], posture)
         /\ prev' = current' /\ Generator[current'] = Generator[c]
         /\ c \notin Walkers => current' = c
         /\ c \in Walkers => current' \in Walkers
         /\ (told' = b /\ current' = c)
              \/ (c \in Walkers /\ priorities[told'] <= priorities[b])
              \/ (c \in Walkers /\ told' \in Walkers)
<1>1. PICK posture \in Postures : /\ sensed' = posture
                                 /\ gen' = makeJoints(g, Generator[c], posture)
  BY DEF Drive, Typed
<1>2. told' = b \/ (c \in Walkers /\ told' \in Walkers)
  BY DEF Drive, Answer, Walkers
<1>3. current' = c \/ (c = "KICK" /\ told' = "WALK" /\ current' = "WALK")
  BY DEF Drive
<1>4. "KICK" \in Walkers /\ "WALK" \in Walkers
  BY DEF Walkers
<1>5. asked' = asked /\ calm' = calm /\ prev' = current' /\ isStopping' = stopping
  BY DEF Drive
<1>6. told' \in Bodies /\ current' \in Bodies
  BY <1>2, <1>3, <1>4, PriorityRange
<1>7. Generator[current'] = Generator[c]
  BY <1>3, <1>4, GeneratorOf
<1> QED
  BY <1>1, <1>2, <1>3, <1>4, <1>5, <1>6, <1>7, PriorityRange DEF Typed

(* If g holds what Waiting says of all generators but the one of c, then   *)
(* the tick ends with Waiting.                                             *)
LEMMA DriveWaits ==
  ASSUME Typed, NEW g \in GenState, NEW c \in Bodies, NEW b \in Bodies,
         NEW stopping \in BOOLEAN, Drive(g, c, b, stopping),
         virgin' \in SUBSET Players,
         \A p \in Players \ virgin' : p # Generator[c] => g.frame[p] = 0,
         Generator[c] # "DEAD" => g.ticks = 0,
         Generator[c] = "DEAD" => g.ticks <= MIN_TICKS
  PROVE  Typed' /\ Waiting'
<1>1. PICK posture \in Postures : gen' = makeJoints(g, Generator[c], posture)
  BY DriveFacts
<1>2. Generator[c] \in Generators
  BY GeneratorOf
<1>3. /\ gen' \in GenState
      /\ \A p \in Players : p # Generator[c] => gen'.frame[p] = g.frame[p]
      /\ gen'.ticks = IF Generator[c] = "DEAD" THEN g.ticks + 1 ELSE g.ticks
  BY <1>1, <1>2, MakeJointsKeeps
<1>4. Generator[current'] = Generator[c]
  BY DriveFacts
<1>5. Typed'
  BY <1>3, DriveFacts DEF Typed
<1>6. g.ticks \in Nat /\ MIN_TICKS \in Nat
  BY GeneratorConstants DEF GenState
<1> QED
  BY <1>3, <1>4, <1>5, <1>6 DEF Waiting

LEMMA SoftenedBody == Typed => Softened(asked) \in Bodies
BY DEF Softened, Typed, Bodies, Relaxed

LEMMA SoftenedInitial == Softened("INITIAL") \in Bodies
BY DEF Softened, Bodies, Relaxed, Prompt

-----------------------------------------------------------------------------
(* Starting afresh: Preempt, and a person's stand-up.                      *)
LEMMA AfreshWaits ==
  ASSUME IInv, NEW b \in Bodies,
         Drive(reset(gen, Generators), b, b, FALSE), virgin' = {}
  PROVE  Typed' /\ Waiting'
<1> DEFINE g == reset(gen, Generators)
<1>1. gen \in GenState
  BY DEF IInv, Typed
<1>2. g \in GenState /\ g.ticks = 0
  BY <1>1, ResetKeeps DEF Generators, Bodies, Walkers
<1>3. \A p \in Players : g.frame[p] = 0
  BY <1>1, ResetKeeps, GeneratorOf
<1> HIDE DEF g
<1>4. Drive(g, b, b, FALSE)
  BY DEF g
<1>5. 0 <= MIN_TICKS
  BY GeneratorConstants
<1> QED
  BY <1>2, <1>3, <1>4, <1>5, DriveWaits DEF IInv

LEMMA HandOverWaits ==
  ASSUME IInv, NEW b \in Bodies, HandOver(b), prev = "DEAD" => b # "DEAD"
  PROVE  Typed' /\ Waiting'
<1> DEFINE S == IF Rewinds(b) THEN {Generator[current]} ELSE {}
           g == reset(gen, S)
<1>1. Drive(g, b, b, FALSE) /\ virgin' = virgin \ S
  BY DEF HandOver
<1>2. gen \in GenState /\ current \in Bodies /\ virgin \in SUBSET Players
  BY DEF IInv, Typed
<1>3. /\ g \in GenState
      /\ \A p \in Players : g.frame[p] = IF p \in S THEN 0 ELSE gen.frame[p]
      /\ g.ticks = IF "DEAD" \in S THEN 0 ELSE gen.ticks
  BY <1>2, ResetKeeps
<1>4. Generator[b] # Generator[current] => S = {Generator[current]}
  BY DEF Rewinds, Same
<1>5. S \subseteq {Generator[current]}
  OBVIOUS
<1>6. Generator[b] = "DEAD" => Generator[current] # "DEAD"
  <2>1. \A a \in Bodies : Generator[a] = "DEAD" => a = "DEAD"
    BY GeneratorOf
  <2> QED
    BY <1>2, <2>1 DEF IInv
<1>7. ASSUME NEW p \in Players \ virgin', p # Generator[b]
      PROVE  g.frame[p] = 0
  <2>1. CASE p \in S
    BY <1>3, <2>1
  <2>2. CASE p \notin S
    <3>1. p \notin virgin /\ p # Generator[current]
      BY <1>1, <1>4, <1>7, <2>2
    <3> QED
      BY <1>3, <2>2, <3>1 DEF IInv, Waiting
  <2> QED
    BY <2>1, <2>2
<1>8. Generator[b] # "DEAD" => g.ticks = 0
  <2>1. CASE Generator[current] = "DEAD" /\ Generator[b] # "DEAD"
    BY <1>3, <1>4, <2>1
  <2>2. CASE Generator[current] # "DEAD"
    BY <1>3, <2>2 DEF IInv, Waiting
  <2> QED
    BY <2>1, <2>2
<1>9. Generator[b] = "DEAD" => g.ticks <= MIN_TICKS
  <2>1. 0 <= MIN_TICKS
    BY GeneratorConstants
  <2> QED
    BY <1>3, <1>6, <2>1 DEF IInv, Waiting
<1>10. virgin' \in SUBSET Players
  BY <1>1, <1>2
<1>11. g \in GenState /\ Drive(g, b, b, FALSE) /\ Typed
  BY <1>1, <1>3 DEF IInv
<1>12. \A p \in Players \ virgin' : p # Generator[b] => g.frame[p] = 0
  BY <1>7
<1> HIDE DEF g, S
<1> QED
  BY <1>8, <1>9, <1>10, <1>11, <1>12, DriveWaits

LEMMA GoesOnWaits ==
  ASSUME IInv, NEW b \in Bodies, NEW stopping \in BOOLEAN, ~Idle,
         NEW g \in GenState, g.frame = gen.frame, g.ticks = gen.ticks,
         Drive(g, current, b, stopping), virgin' = virgin
  PROVE  Typed' /\ Waiting'
<1>1. current \in Bodies /\ virgin' \in SUBSET Players
  BY DEF IInv, Typed
<1>2. \A p \in Players \ virgin' : p # Generator[current] => g.frame[p] = 0
  BY DEF IInv, Waiting
<1>3. Generator[current] # "DEAD" => g.ticks = 0
  BY DEF IInv, Waiting
<1>4. Generator[current] = "DEAD" => g.ticks <= MIN_TICKS
  BY DEF Idle, isActive, Getups
<1> QED
  BY <1>1, <1>2, <1>3, <1>4, DriveWaits DEF IInv

-----------------------------------------------------------------------------
(* Priorities.                                                             *)
LEMMA DriveServes ==
  ASSUME Typed, NEW g \in GenState, NEW c \in Bodies, NEW b \in Bodies,
         NEW stopping \in BOOLEAN, Drive(g, c, b, stopping),
         priorities[b] <= priorities[c]
  PROVE  priorities[told'] <= priorities[current']
<1>1. /\ priorities[b] \in 0..3 /\ priorities[c] \in 0..3
      /\ \A w \in Walkers : priorities[w] = 0
  BY PriorityRange
<1>2. /\ c \notin Walkers => current' = c
      /\ c \in Walkers => current' \in Walkers
      /\ (told' = b /\ current' = c)
           \/ (c \in Walkers /\ priorities[told'] <= priorities[b])
           \/ (c \in Walkers /\ told' \in Walkers)
      /\ told' \in Bodies
  BY DriveFacts
<1>3. priorities[told'] \in 0..3
  BY <1>2, PriorityRange
<1> QED
  BY <1>1, <1>2, <1>3

(* What a tick with request b leaves behind.                               *)
LEMMA TickStep ==
  ASSUME IInv, NEW b \in Bodies, prev = "DEAD" => b # "DEAD",
         Preempt(b) \/ HandOver(b) \/ CarryOn(b) \/ AskToStop(b)
  PROVE  IInv'
<1>1. Typed /\ gen \in GenState /\ current \in Bodies /\ isStopping \in BOOLEAN
  BY DEF IInv, Typed
<1>2. priorities[b] \in 0..3 /\ priorities[current] \in 0..3
  BY <1>1, PriorityRange
<1>3. CASE Preempt(b)
  <2>1. Drive(reset(gen, Generators), b, b, FALSE) /\ virgin' = {}
    BY <1>3 DEF Preempt
  <2>2. Typed' /\ Waiting'
    BY <2>1, AfreshWaits
  <2>3. reset(gen, Generators) \in GenState /\ priorities[b] <= priorities[b]
    BY <1>1, <1>2, ResetKeeps
  <2>4. priorities[told'] <= priorities[current']
    BY <1>1, <2>1, <2>3, DriveServes
  <2>5. prev' = current'
    BY <1>1, <2>1, <2>3, DriveFacts
  <2> QED
    BY <2>2, <2>4, <2>5 DEF IInv, PriorityServed
<1>4. CASE HandOver(b)
  <2> DEFINE g == reset(gen, IF Rewinds(b) THEN {Generator[current]} ELSE {})
  <2>1. Drive(g, b, b, FALSE)
    BY <1>4 DEF HandOver
  <2>2. Typed' /\ Waiting'
    BY <1>4, HandOverWaits
  <2>3. g \in GenState /\ priorities[b] <= priorities[b]
    BY <1>1, <1>2, ResetKeeps
  <2> HIDE DEF g
  <2>4. priorities[told'] <= priorities[current']
    BY <1>1, <2>1, <2>3, DriveServes
  <2>5. prev' = current'
    BY <1>1, <2>1, <2>3, DriveFacts
  <2> QED
    BY <2>2, <2>4, <2>5 DEF IInv, PriorityServed
<1>5. CASE CarryOn(b)
  <2>1. /\ Drive(gen, current, b, isStopping) /\ virgin' = virgin
        /\ ~Idle /\ ~Outranks(b)
    BY <1>5 DEF CarryOn
  <2>2. Typed' /\ Waiting'
    BY <1>1, <2>1, GoesOnWaits
  <2>3. priorities[b] <= priorities[current]
    BY <1>2, <2>1 DEF Outranks
  <2>4. priorities[told'] <= priorities[current'] /\ prev' = current'
    BY <1>1, <2>1, <2>3, DriveServes, DriveFacts
  <2> QED
    BY <2>2, <2>4 DEF IInv, PriorityServed
<1>6. CASE AskToStop(b)
  <2> DEFINE g == stop(gen, Generator[current])
  <2>1. /\ Drive(g, current, b, TRUE) /\ virgin' = virgin
        /\ ~Idle /\ ~Outranks(b)
    BY <1>6 DEF AskToStop
  <2>2. g \in GenState /\ g.frame = gen.frame /\ g.ticks = gen.ticks
    BY <1>1, StopKeeps
  <2> HIDE DEF g
  <2>3. Typed' /\ Waiting'
    BY <2>1, <2>2, GoesOnWaits
  <2>4. priorities[b] <= priorities[current]
    BY <1>2, <2>1 DEF Outranks
  <2>5. priorities[told'] <= priorities[current'] /\ prev' = current'
    BY <1>1, <2>1, <2>2, <2>4, DriveServes, DriveFacts
  <2> QED
    BY <2>3, <2>5 DEF IInv, PriorityServed
<1> QED
  BY <1>3, <1>4, <1>5, <1>6

LEMMA SoftenedDead == Softened(asked) # "DEAD" \/ prev # "DEAD"
BY DEF Softened, Urgent

LEMMA ConstructedType == Constructed \in GenState
<1>1. NotRunning \in Frames
  BY GeneratorConstants DEF Frames, NotRunning
<1>2. PICKUP_TICKS \in Int
  BY GeneratorConstants
<1> QED
  BY <1>1, <1>2 DEF Constructed, GenState, Sides

-----------------------------------------------------------------------------
LEMMA InitInv == Init => IInv
<1> SUFFICES ASSUME Init PROVE IInv
  OBVIOUS
<1>1. "NONE" \in Bodies /\ "NONE" \notin Walkers
  BY DEF Bodies, Relaxed, Walkers
<1>2. Typed
  BY <1>1, ConstructedType DEF Init, Typed, Postures
<1>3. Waiting
  <2>1. gen.ticks = 0 /\ virgin = Players
    BY DEF Init, Constructed
  <2>2. 0 <= MIN_TICKS + 1
    BY GeneratorConstants
  <2> QED
    BY <2>1, <2>2 DEF Waiting
<1>4. prev = current /\ PriorityServed
  BY DEF Init, PriorityServed
<1> QED
  BY <1>2, <1>3, <1>4 DEF IInv

LEMMA NextInv == IInv /\ [Next]_vars => IInv'
<1> SUFFICES ASSUME IInv, [Next]_vars PROVE IInv'
  OBVIOUS
<1>0. Typed
  BY DEF IInv
<1>1. CASE Tick
  <2>1. Softened(asked) \in Bodies
    BY <1>0, SoftenedBody
  <2>2. prev = "DEAD" => Softened(asked) # "DEAD"
    BY SoftenedDead
  <2>3. \/ Preempt(Softened(asked)) \/ HandOver(Softened(asked))
        \/ CarryOn(Softened(asked)) \/ AskToStop(Softened(asked))
    BY <1>1 DEF Tick
  <2> QED
    BY <2>1, <2>2, <2>3, TickStep
<1>2. CASE StandUp
  <2> DEFINE b == Softened("INITIAL")
             g == reset(gen, Generators)
  <2>1. Drive(g, b, b, FALSE) /\ virgin' = {}
    BY <1>2 DEF StandUp
  <2>2. b \in Bodies
    BY SoftenedInitial
  <2> HIDE DEF b
  <2>3. Typed' /\ Waiting'
    BY <2>1, <2>2, AfreshWaits
  <2>4. g \in GenState
    BY <1>0, ResetKeeps DEF Typed
  <2>5. priorities[b] <= priorities[b]
    BY <2>2, PriorityRange
  <2> HIDE DEF g
  <2>6. priorities[told'] <= priorities[current'] /\ prev' = current'
    BY <1>0, <2>1, <2>2, <2>4, <2>5, DriveServes, DriveFacts
  <2> QED
    BY <2>3, <2>6 DEF IInv, PriorityServed
<1>3. CASE MotionRestart
  <2>1. "NONE" \in Bodies /\ "NONE" \notin Walkers
    BY DEF Bodies, Relaxed, Walkers
  <2>2. Typed'
    BY <1>0, <1>3, <2>1, ConstructedType DEF MotionRestart, Typed
  <2>3. gen'.ticks = 0 /\ virgin' = Players
    BY <1>3 DEF MotionRestart, Constructed
  <2>4. 0 <= MIN_TICKS + 1
    BY GeneratorConstants
  <2>5. Waiting'
    BY <2>3, <2>4 DEF Waiting
  <2> QED
    BY <1>3, <2>2, <2>5 DEF MotionRestart, IInv, PriorityServed
<1>4. CASE /\ asked' \in Bodies /\ calm' \in BOOLEAN
           /\ UNCHANGED <<sensed, current, prev, isStopping, gen, told, virgin>>
  BY <1>4 DEF IInv, Typed, Waiting, PriorityServed
<1>5. Behave => asked' \in Bodies /\ calm' = calm
  <2>1. \A w \in Bodies, p \in Postures, l \in BOOLEAN :
          wrapRequest(w, p, l) \in Bodies
    BY DEF wrapRequest, Bodies, Urgent, Relaxed, Sides, Postures
  <2> QED
    BY <1>0, <2>1, GeneratorConstants DEF Behave, Typed
<1>6. CASE Behave
  BY <1>0, <1>4, <1>5, <1>6 DEF Behave, Typed
<1>7. CASE Configure
  BY <1>0, <1>4, <1>7, GeneratorConstants DEF Configure, Typed
<1>8. CASE Calm
  BY <1>0, <1>4, <1>8 DEF Calm, Typed
<1>9. CASE UNCHANGED vars
  BY <1>0, <1>4, <1>9 DEF vars, Typed
<1> QED
  BY <1>1, <1>2, <1>3, <1>6, <1>7, <1>8, <1>9 DEF Next

(* Every variable keeps its type; the dead generator never counts further  *)
(* than one past MIN_TICKS.                                                *)
THEOREM TypeCorrect == Spec => []TypeOK
<1>1. IInv => TypeOK
  BY DEF IInv, Typed, Waiting, TypeOK
<1> QED
  BY <1>1, InitInv, NextInv, PTL DEF Spec

(* What motion.active tells never outranks what drives the body.           *)
THEOREM Priority == Spec => []PriorityServed
<1>1. IInv => PriorityServed
  BY DEF IInv
<1> QED
  BY <1>1, InitInv, NextInv, PTL DEF Spec

-----------------------------------------------------------------------------
(* Who drives after a tick: the request, or who drove before.              *)
LEMMA NextDriver ==
  ASSUME IInv, NEW b \in Bodies,
         Preempt(b) \/ HandOver(b) \/ CarryOn(b) \/ AskToStop(b)
  PROVE  /\ \/ Outranks(b) \/ Idle
            \/ current' = current \/ (current \in Walkers /\ current' \in Walkers)
         /\ \/ current' = b \/ (b \in Walkers /\ current' \in Walkers)
            \/ current' = current \/ (current \in Walkers /\ current' \in Walkers)
         /\ Outranks(b) => (current' = b \/ (b \in Walkers /\ current' \in Walkers))
<1>1. Typed /\ gen \in GenState /\ current \in Bodies /\ isStopping \in BOOLEAN
  BY DEF IInv, Typed
<1>2. CASE Preempt(b)
  <2>1. Drive(reset(gen, Generators), b, b, FALSE) /\ Outranks(b)
    BY <1>2 DEF Preempt
  <2>2. reset(gen, Generators) \in GenState
    BY <1>1, ResetKeeps
  <2>3. /\ b \notin Walkers => current' = b
        /\ b \in Walkers => current' \in Walkers
    BY <1>1, <2>1, <2>2, DriveFacts
  <2> QED
    BY <2>1, <2>3
<1>3. CASE HandOver(b)
  <2> DEFINE g == reset(gen, IF Rewinds(b) THEN {Generator[current]} ELSE {})
  <2>1. Drive(g, b, b, FALSE) /\ ~Outranks(b) /\ Idle
    BY <1>3 DEF HandOver
  <2>2. g \in GenState
    BY <1>1, ResetKeeps
  <2> HIDE DEF g
  <2>3. /\ b \notin Walkers => current' = b
        /\ b \in Walkers => current' \in Walkers
    BY <1>1, <2>1, <2>2, DriveFacts
  <2> QED
    BY <2>1, <2>3
<1>4. CASE CarryOn(b)
  <2>1. Drive(gen, current, b, isStopping) /\ ~Outranks(b)
    BY <1>4 DEF CarryOn
  <2>2. /\ current \notin Walkers => current' = current
        /\ current \in Walkers => current' \in Walkers
    BY <1>1, <2>1, DriveFacts
  <2> QED
    BY <2>1, <2>2
<1>5. CASE AskToStop(b)
  <2> DEFINE g == stop(gen, Generator[current])
  <2>1. Drive(g, current, b, TRUE) /\ ~Outranks(b)
    BY <1>5 DEF AskToStop
  <2>2. g \in GenState
    BY <1>1, StopKeeps
  <2> HIDE DEF g
  <2>3. /\ current \notin Walkers => current' = current
        /\ current \in Walkers => current' \in Walkers
    BY <1>1, <2>1, <2>2, DriveFacts
  <2> QED
    BY <2>1, <2>3
<1> QED
  BY <1>2, <1>3, <1>4, <1>5

(* A getup is played to its end.                                           *)
THEOREM GetupNotCutOff == Spec => GetupPlayedOut
<1>1. IInv /\ [Next]_vars
        => [(Tick /\ current \in Urgent /\ ~Idle) => current' = current]_vars
  <2> SUFFICES ASSUME IInv, Tick, current \in Urgent, ~Idle
               PROVE  current' = current
    OBVIOUS
  <2>1. Softened(asked) \in Bodies
    BY SoftenedBody DEF IInv
  <2>2. ~Outranks(Softened(asked))
    BY <2>1, PriorityRange DEF Outranks
  <2>3. current \notin Walkers
    BY DEF Urgent, Walkers
  <2>4. \/ Preempt(Softened(asked)) \/ HandOver(Softened(asked))
        \/ CarryOn(Softened(asked)) \/ AskToStop(Softened(asked))
    BY DEF Tick
  <2> QED
    BY <2>1, <2>2, <2>3, <2>4, NextDriver
<1> QED
  BY <1>1, InitInv, NextInv, PTL DEF Spec, GetupPlayedOut

(* From lying limp the robot never shoots up.                              *)
THEOREM DeadIsSoftened == Spec => NoJumpFromDead
<1>1. IInv /\ [Next]_vars
        => [(current = "DEAD" /\ ~MotionRestart)
              => current' \in Urgent \cup {"DEAD", "REF_PICKUP"}]_vars
  <2> SUFFICES ASSUME IInv, Next, current = "DEAD", ~MotionRestart
               PROVE  current' \in Urgent \cup {"DEAD", "REF_PICKUP"}
    OBVIOUS
  <2>1. prev = "DEAD" /\ Typed
    BY DEF IInv
  <2>2. /\ Softened(asked) \in Urgent \cup {"REF_PICKUP"}
        /\ Softened("INITIAL") = "REF_PICKUP"
    BY <2>1 DEF Softened, Urgent
  <2>3. "REF_PICKUP" \notin Walkers /\ "DEAD" \notin Walkers
        /\ \A u \in Urgent : u \notin Walkers
    BY DEF Walkers, Urgent
  <2>4. CASE Tick
    <3>1. Softened(asked) \in Bodies
      BY <2>1, SoftenedBody
    <3>2. \/ Preempt(Softened(asked)) \/ HandOver(Softened(asked))
          \/ CarryOn(Softened(asked)) \/ AskToStop(Softened(asked))
      BY <2>4 DEF Tick
    <3> QED
      BY <2>2, <2>3, <3>1, <3>2, NextDriver
  <2>5. CASE StandUp
    <3>1. Drive(reset(gen, Generators), "REF_PICKUP", "REF_PICKUP", FALSE)
      BY <2>2, <2>5 DEF StandUp
    <3>2. reset(gen, Generators) \in GenState
      BY <2>1, ResetKeeps DEF Typed
    <3>3. "REF_PICKUP" \in Bodies
      BY DEF Bodies, Relaxed
    <3> QED
      BY <2>1, <2>3, <3>1, <3>2, <3>3, DriveFacts
  <2>6. CASE Behave \/ Configure \/ Calm
    BY <2>6 DEF Behave, Configure, Calm
  <2> QED
    BY <2>4, <2>5, <2>6 DEF Next
<1> QED
  BY <1>1, InitInv, NextInv, PTL DEF Spec, NoJumpFromDead

-----------------------------------------------------------------------------
(* A pose file that has not begun begins with its first frame.             *)
LEMMA DriveStarts ==
  ASSUME Typed, NEW g \in GenState, NEW c \in Players,
         Drive(g, c, c, FALSE), g.frame[c] = 0
  PROVE  gen'.frame[c] = 1
<1>1. c \in Bodies /\ c \in Generators /\ Generator[c] = c
  BY GeneratorOf
<1>2. PICK posture \in Postures : gen' = makeJoints(g, Generator[c], posture)
  BY <1>1, DriveFacts
<1> QED
  BY <1>1, <1>2, MakeJointsKeeps

LEMMA AfreshStarts ==
  ASSUME Typed, NEW c \in Players, Drive(reset(gen, Generators), c, c, FALSE)
  PROVE  gen'.frame[c] = 1
<1> DEFINE g == reset(gen, Generators)
<1>1. g \in GenState /\ g.frame[c] = 0
  BY ResetKeeps, GeneratorOf DEF Typed
<1>2. Drive(g, c, c, FALSE)
  OBVIOUS
<1> HIDE DEF g
<1> QED
  BY <1>1, <1>2, DriveStarts

LEMMA HandOverStarts ==
  ASSUME IInv, NEW c \in Players, HandOver(c), c # current, c \notin virgin
  PROVE  gen'.frame[c] = 1
<1> DEFINE S == IF Rewinds(c) THEN {Generator[current]} ELSE {}
           g == reset(gen, S)
<1>1. Typed /\ gen \in GenState /\ current \in Bodies
  BY DEF IInv, Typed
<1>2. Drive(g, c, c, FALSE)
  BY DEF HandOver
<1>3. c # Generator[current]
  <2>1. CASE current \in Walkers
    BY <2>1, GeneratorOf
  <2>2. CASE current \notin Walkers
    BY <1>1, <2>2, GeneratorOf
  <2> QED
    BY <2>1, <2>2
<1>4. gen.frame[c] = 0
  BY <1>3 DEF IInv, Waiting
<1>5. c \notin S
  BY <1>3
<1>6. g \in GenState /\ g.frame[c] = 0
  BY <1>1, <1>4, <1>5, ResetKeeps
<1> HIDE DEF g, S
<1> QED
  BY <1>1, <1>2, <1>6, DriveStarts

(* A generator that takes over begins at the beginning.                    *)
THEOREM StartsSmoothly == Spec => SmoothStart
<1>1. IInv /\ [Next]_vars
        => [(current' # current /\ current' \in Players \ virgin)
              => gen'.frame[current'] = 1]_vars
  <2> SUFFICES ASSUME IInv, Next, current' # current,
                      current' \in Players \ virgin
               PROVE  gen'.frame[current'] = 1
    OBVIOUS
  <2>1. Typed /\ current' \in Bodies /\ current' \notin Walkers
    BY GeneratorOf DEF IInv
  <2>2. CASE Tick
    <3> DEFINE b == Softened(asked)
    <3>1. b \in Bodies
      BY <2>1, SoftenedBody
    <3>2. Preempt(b) \/ HandOver(b) \/ CarryOn(b) \/ AskToStop(b)
      BY <2>2 DEF Tick
    <3> HIDE DEF b
    <3>3. current' = b
      BY <2>1, <3>1, <3>2, NextDriver
    <3>4. ~CarryOn(b) /\ ~AskToStop(b)
      <4>1. (CarryOn(b) \/ AskToStop(b)) => (~Outranks(b) /\ ~Idle)
        BY DEF CarryOn, AskToStop
      <4> QED
        BY <2>1, <3>1, <4>1, NextDriver
    <3>5. CASE Preempt(b)
      BY <2>1, <3>3, <3>5, AfreshStarts DEF Preempt
    <3>6. CASE HandOver(b)
      BY <3>3, <3>6, HandOverStarts
    <3> QED
      BY <3>2, <3>4, <3>5, <3>6
  <2>3. CASE StandUp
    <3> DEFINE b == Softened("INITIAL")
    <3>1. Drive(reset(gen, Generators), b, b, FALSE)
      BY <2>3 DEF StandUp
    <3>2. b \in Bodies
      BY SoftenedInitial
    <3> HIDE DEF b
    <3>3. reset(gen, Generators) \in GenState
      BY <2>1, ResetKeeps DEF Typed
    <3>4. /\ b \notin Walkers => current' = b
          /\ b \in Walkers => current' \in Walkers
      BY <2>1, <3>1, <3>2, <3>3, DriveFacts
    <3> QED
      BY <2>1, <3>1, <3>4, AfreshStarts
  <2>4. CASE MotionRestart
    BY <2>4, GeneratorOf DEF MotionRestart
  <2>5. CASE Behave \/ Configure \/ Calm
    BY <2>5 DEF Behave, Configure, Calm
  <2> QED
    BY <2>2, <2>3, <2>4, <2>5 DEF Next
<1> QED
  BY <1>1, InitInv, NextInv, PTL DEF Spec, SmoothStart

(* The walk engine keeps the body against every request of no priority.    *)
THEOREM WalkIsKept == Spec => WalkKept
<1>1. IInv /\ [Next]_vars
        => [(Tick /\ current \in Walkers /\ gen.walking)
              => (current' \in Walkers \/ priorities[current'] > 0)]_vars
  <2> SUFFICES ASSUME IInv, Tick, current \in Walkers, gen.walking,
                      current' \notin Walkers
               PROVE  priorities[current'] > 0
    OBVIOUS
  <2> DEFINE b == Softened(asked)
  <2>1. b \in Bodies
    BY SoftenedBody DEF IInv
  <2>2. Preempt(b) \/ HandOver(b) \/ CarryOn(b) \/ AskToStop(b)
    BY DEF Tick
  <2> HIDE DEF b
  <2>3. Generator[current] = "WALK"
    BY GeneratorOf
  <2>4. ~Idle
    BY <2>3 DEF Idle, isActive
  <2>5. Outranks(b) /\ current' = b
    BY <2>1, <2>2, <2>4, NextDriver
  <2> QED
    BY <2>1, <2>5, PriorityRange DEF Outranks
<1> QED
  BY <1>1, InitInv, NextInv, PTL DEF Spec, WalkKept

-----------------------------------------------------------------------------
(* What every state of the generators keeps: the pickup counts down to     *)
(* zero and then has counted; a getup that never looks for a fall keeps    *)
(* the poses it was constructed with.                                      *)
Sound(g) ==
  /\ ~g.counted => g.down \in 1..PICKUP_TICKS
  /\ FRAMES - 1 <= SETTLE => g.poses = Constructed.poses

LEMMA SoundStart == Sound(Constructed)
BY GeneratorConstants DEF Sound, Constructed

LEMMA SoundReset ==
  ASSUME NEW g \in GenState, Sound(g), NEW S
  PROVE  Sound(reset(g, S))
<1> DEFINE walks  == g.walking /\ "WALK" \notin S
           counts == g.counting /\ "REF_PICKUP" \notin S
           still  == g.counted /\ "REF_PICKUP" \notin S
<1>0. still \in BOOLEAN
  BY DEF GenState
<1>1. reset(g, S) = [g EXCEPT
        !.frame = [p \in Players |-> IF p \in S THEN 0 ELSE g.frame[p]],
        !.walking = walks,
        !.ticks = IF "DEAD" \in S THEN 0 ELSE @,
        !.down = IF "REF_PICKUP" \in S THEN PICKUP_TICKS ELSE @,
        !.counting = counts, !.counted = still]
  BY DEF reset
<1>2. still => g.counted /\ "REF_PICKUP" \notin S
  OBVIOUS
<1>3. ~still => ~g.counted \/ "REF_PICKUP" \in S
  OBVIOUS
<1> HIDE DEF walks, counts, still
<1>4. /\ reset(g, S).down = IF "REF_PICKUP" \in S THEN PICKUP_TICKS ELSE g.down
      /\ reset(g, S).poses = g.poses
      /\ reset(g, S).counted = still
  BY <1>1 DEF GenState
<1> QED
  BY <1>0, <1>2, <1>3, <1>4, GeneratorConstants DEF Sound

LEMMA SoundStop ==
  ASSUME NEW g \in GenState, Sound(g), NEW o
  PROVE  Sound(stop(g, o))
BY DEF stop, GenState, Sound

LEMMA FramePlays ==
  ASSUME NEW g \in GenState, NEW o \in Players
  PROVE  /\ PlayFrame(g, o).frame[o] = After(g.frame[o])
         /\ PlayFrame(g, o).poses = g.poses
         /\ PlayFrame(g, o).fallen = g.fallen
         /\ PlayFrame(g, o).down = g.down
         /\ PlayFrame(g, o).counted = g.counted
         /\ PlayFrame(g, o).counting = g.counting
BY DEF PlayFrame, GenState

(* A getup that runs.                                                      *)
Falls(g, o, posture) ==
  posture \in Sides /\ g.frame[o] > SETTLE /\ ~g.fallen[o]

LEMMA GetupPlays ==
  ASSUME NEW g \in GenState, NEW o \in Getups, NEW posture \in Postures
  PROVE  /\ PlayGetup(g, o, posture).down = g.down
         /\ PlayGetup(g, o, posture).counted = g.counted
         /\ g.frame[o] # NotRunning /\ Falls(g, o, posture)
              => /\ PlayGetup(g, o, posture).frame[o] = 1
                 /\ PlayGetup(g, o, posture).fallen[o]
                 /\ PlayGetup(g, o, posture).poses[o] = posture
         /\ g.frame[o] # NotRunning /\ ~Falls(g, o, posture)
              => /\ PlayGetup(g, o, posture).frame[o] = After(g.frame[o])
                 /\ PlayGetup(g, o, posture).poses = g.poses
                 /\ posture \in Sides
                      => (PlayGetup(g, o, posture).fallen[o] <=> g.fallen[o])
         /\ g.frame[o] = NotRunning
              => /\ PlayGetup(g, o, posture).frame[o] = NotRunning
                 /\ PlayGetup(g, o, posture).poses = g.poses
<1> DEFINE running  == g.frame[o] # NotRunning
           fallsNow == /\ running /\ posture \in Sides
                       /\ g.frame[o] > SETTLE /\ ~g.fallen[o]
           again    == [g EXCEPT !.frame[o] = 0, !.poses[o] = posture,
                                 !.fallen[o] = TRUE]
           upright  == [g EXCEPT !.fallen[o] = FALSE]
           before   == IF fallsNow THEN again
                       ELSE IF running /\ posture \notin Sides THEN upright
                       ELSE g
<1>0. o \in Players
  BY GeneratorOf
<1>1. PlayGetup(g, o, posture) = PlayFrame(before, o)
  BY DEF PlayGetup
<1>2. fallsNow <=> running /\ Falls(g, o, posture)
  BY DEF Falls
<1>3. CASE fallsNow
  <2>1. posture \in Sides
    BY <1>3
  <2>2. again \in GenState
    BY <1>0, <2>1, AfterFrame DEF GenState
  <2>3. /\ again.frame[o] = 0 /\ again.fallen[o] = TRUE
        /\ again.poses[o] = posture
        /\ again.down = g.down /\ again.counted = g.counted
    BY <1>0 DEF GenState
  <2>4. before = again
    BY <1>3
  <2>5. running /\ Falls(g, o, posture)
    BY <1>2, <1>3
  <2> HIDE DEF again, before, fallsNow, upright
  <2> QED
    BY <1>0, <1>1, <2>2, <2>3, <2>4, <2>5, FramePlays, AfterFrame
<1>4. CASE ~fallsNow /\ running /\ posture \notin Sides
  <2>1. /\ upright \in GenState /\ upright.frame = g.frame
        /\ upright.poses = g.poses /\ upright.fallen[o] = FALSE
        /\ upright.down = g.down /\ upright.counted = g.counted
    BY <1>0 DEF GenState
  <2>2. before = upright
    BY <1>4
  <2> HIDE DEF again, before, fallsNow, upright
  <2> QED
    BY <1>0, <1>1, <1>2, <1>4, <2>1, <2>2, FramePlays
<1>5. CASE ~fallsNow /\ ~(running /\ posture \notin Sides)
  <2>1. before = g
    BY <1>5
  <2>2. After(NotRunning) = NotRunning
    BY DEF After
  <2> HIDE DEF again, before, fallsNow, upright
  <2> QED
    BY <1>0, <1>1, <1>2, <1>5, <2>1, <2>2, FramePlays
<1> QED
  BY <1>3, <1>4, <1>5

(* Cycles until the pickup's clock says that it has counted.               *)
PickupLeft(g) == IF g.counted THEN 0 ELSE g.down

LEMMA Counts ==
  ASSUME NEW g \in GenState, Sound(g)
  PROVE  /\ Sound(CountDown(g)) /\ PickupLeft(g) \in 0..PICKUP_TICKS
         /\ PickupLeft(CountDown(g)) <= PickupLeft(g)
         /\ g.counting /\ ~g.counted
              => PickupLeft(CountDown(g)) < PickupLeft(g)
         /\ CountDown(g).poses = g.poses
<1> DEFINE goesOn == g.down # 1
           ended  == g.counted \/ g.down = 1
<1>1. goesOn \in BOOLEAN /\ ended \in BOOLEAN /\ g.down - 1 \in Int
  BY DEF GenState
<1>2. CountDown(g) = IF ~g.counting THEN g
                     ELSE [g EXCEPT !.down = @ - 1, !.counting = goesOn,
                                    !.counted = ended]
  BY DEF CountDown
<1>3. /\ ended <=> (g.counted \/ g.down = 1)
      /\ g.down \in Int
  BY DEF GenState
<1>4. g.counted \in BOOLEAN /\ g.counting \in BOOLEAN
  BY DEF GenState
<1> HIDE DEF goesOn, ended
<1>5. CASE ~g.counting
  <2>1. CountDown(g) = g
    BY <1>2, <1>5
  <2> QED
    BY <1>3, <1>5, <2>1, GeneratorConstants DEF Sound, PickupLeft
<1>6. CASE g.counting
  <2>1. /\ CountDown(g).down = g.down - 1 /\ CountDown(g).counted = ended
        /\ CountDown(g).poses = g.poses
    BY <1>2, <1>6 DEF GenState
  <2> QED
    BY <1>1, <1>3, <2>1, GeneratorConstants DEF Sound, PickupLeft
<1> QED
  BY <1>4, <1>5, <1>6

LEMMA SoundJoints ==
  ASSUME NEW g \in GenState, Sound(g), NEW o \in Generators,
         NEW posture \in Postures
  PROVE  Sound(makeJoints(g, o, posture))
<1>1. CASE o \in {"NONE", "WALK", "DEAD"}
  <2>1. makeJoints(g, o, posture) \in
          {g, [g EXCEPT !.walking = TRUE], [g EXCEPT !.ticks = @ + 1]}
    BY <1>1 DEF makeJoints, Getups
  <2>2. \A h \in {g, [g EXCEPT !.walking = TRUE], [g EXCEPT !.ticks = @ + 1]} :
          h.down = g.down /\ h.counted = g.counted /\ h.poses = g.poses
    BY DEF GenState
  <2> HIDE DEF makeJoints
  <2> QED
    BY <2>1, <2>2 DEF Sound
<1>2. CASE o = "REF_PICKUP"
  <2> DEFINE h == CountDown(g)
  <2>1. makeJoints(g, o, posture) = PlayFrame(h, o)
    BY <1>2 DEF makeJoints, Getups
  <2>2. o \in Players
    BY <1>2, GeneratorOf DEF Players
  <2>3. h \in GenState /\ Sound(h)
    BY CountDownKeeps, Counts
  <2> HIDE DEF h
  <2> QED
    BY <2>1, <2>2, <2>3, FramePlays DEF Sound
<1>3. CASE o \in Getups
  <2> DEFINE h == PlayGetup(g, o, posture)
  <2>1. makeJoints(g, o, posture) = h
    BY <1>3 DEF makeJoints, Getups
  <2>2. o \in Players
    BY <1>3, GeneratorOf
  <2>3. /\ h.down = g.down /\ h.counted = g.counted
        /\ g.frame[o] # NotRunning /\ ~Falls(g, o, posture)
              => h.poses = g.poses
        /\ g.frame[o] = NotRunning => h.poses = g.poses
    BY <1>3, GetupPlays
  <2>4. FRAMES - 1 <= SETTLE => ~Falls(g, o, posture)
    <3>1. g.frame[o] \in Frames
      BY <2>2 DEF GenState
    <3> QED
      BY <3>1, GeneratorConstants DEF Falls, Frames, NotRunning
  <2> HIDE DEF h
  <2> QED
    BY <2>1, <2>3, <2>4 DEF Sound
<1>4. CASE o \in Players \ (Getups \cup {"REF_PICKUP"})
  <2>1. o # "NONE" /\ o # "WALK" /\ o # "DEAD"
    BY <1>4, GeneratorOf
  <2>2. makeJoints(g, o, posture) = PlayFrame(g, o)
    BY <1>4, <2>1 DEF makeJoints, Getups
  <2> QED
    BY <1>4, <2>2, FramePlays DEF Sound
<1> QED
  BY <1>1, <1>2, <1>3, <1>4 DEF Players

(* What a tick makes of the generators.                                    *)
Made(g, c) ==
  \E posture \in Postures :
    /\ sensed' = posture /\ (calm => posture = sensed)
    /\ gen' = makeJoints(g, Generator[c], posture)

LEMMA DriveMakes ==
  ASSUME Typed, NEW g, NEW c, NEW b, NEW stopping, Drive(g, c, b, stopping)
  PROVE  Made(g, c)
BY DEF Drive, Made, Typed

LEMMA MadeSound ==
  ASSUME NEW g \in GenState, Sound(g), NEW c \in Bodies, Made(g, c)
  PROVE  Sound(gen')
BY GeneratorOf, SoundJoints DEF Made

SoundInv == IInv /\ Sound(gen)

LEMMA SoundNext == SoundInv /\ [Next]_vars => SoundInv'
<1> SUFFICES ASSUME IInv, Sound(gen), [Next]_vars PROVE Sound(gen')
  BY NextInv DEF SoundInv
<1>0. Typed /\ gen \in GenState /\ current \in Bodies
  BY DEF IInv, Typed
<1> DEFINE b == Softened(asked)
           i == Softened("INITIAL")
           r == reset(gen, Generators)
           h == reset(gen, IF Rewinds(b) THEN {Generator[current]} ELSE {})
           s == stop(gen, Generator[current])
<1>1. b \in Bodies /\ i \in Bodies
  BY <1>0, SoftenedBody, SoftenedInitial
<1>2. /\ r \in GenState /\ Sound(r) /\ h \in GenState /\ Sound(h)
      /\ s \in GenState /\ Sound(s)
  BY <1>0, ResetKeeps, StopKeeps, SoundReset, SoundStop
<1>3. Preempt(b) => Made(r, b)
  BY <1>0, DriveMakes DEF Preempt
<1>4. HandOver(b) => Made(h, b)
  BY <1>0, DriveMakes DEF HandOver
<1>5. CarryOn(b) => Made(gen, current)
  BY <1>0, DriveMakes DEF CarryOn
<1>6. AskToStop(b) => Made(s, current)
  BY <1>0, DriveMakes DEF AskToStop
<1>7. StandUp => Made(r, i)
  BY <1>0, DriveMakes DEF StandUp
<1>8. Tick => Preempt(b) \/ HandOver(b) \/ CarryOn(b) \/ AskToStop(b)
  BY DEF Tick
<1>9. CASE MotionRestart
  BY <1>9, SoundStart DEF MotionRestart
<1>10. Behave \/ Configure \/ Calm \/ UNCHANGED vars => gen' = gen
  BY DEF Behave, Configure, Calm, vars
<1> HIDE DEF b, i, r, h, s
<1>11. Tick \/ StandUp => Sound(gen')
  BY <1>0, <1>1, <1>2, <1>3, <1>4, <1>5, <1>6, <1>7, <1>8, MadeSound
<1> QED
  BY <1>9, <1>10, <1>11 DEF Next

LEMMA SoundAlways == Spec => []SoundInv
<1>1. Init => SoundInv
  BY InitInv, SoundStart DEF Init, SoundInv
<1> QED
  BY <1>1, SoundNext, PTL DEF Spec

-----------------------------------------------------------------------------
(* A request that stays is served.  Patience: how many ticks the generator *)
(* that drives the body, and the pickup after a dead one, can last.        *)
Served == Generator[current] = Generator[asked] \/ current \in Walkers

FrameLeft(f) == IF f = NotRunning THEN 0 ELSE FRAMES - f
FallLeft == IF sensed \in Sides /\ ~gen.fallen[current] THEN FRAMES + 1 ELSE 0

Patience ==
  IF current = "DEAD"
    THEN FRAMES + PICKUP_TICKS + 1 + (MIN_TICKS + 1 - gen.ticks)
  ELSE IF current = "REF_PICKUP"
    THEN PickupLeft(gen) + FrameLeft(gen.frame[current])
  ELSE IF current \in Getups THEN FallLeft + FrameLeft(gen.frame[current])
  ELSE IF current \in Players THEN FrameLeft(gen.frame[current])
  ELSE 0

LEMMA FrameFalls ==
  \A f \in Frames :
    /\ FrameLeft(f) \in 0..FRAMES /\ After(f) \in Frames
    /\ f # NotRunning => FrameLeft(After(f)) < FrameLeft(f)
BY GeneratorConstants DEF FrameLeft, After, Frames, NotRunning

LEMMA FramesOf ==
  ASSUME NEW g \in GenState, NEW p \in Players
  PROVE  g.frame[p] \in Frames
BY DEF GenState

LEMMA PickupIsPlayer ==
  /\ "REF_PICKUP" \in Players /\ Generator["REF_PICKUP"] = "REF_PICKUP"
  /\ "REF_PICKUP" \notin Walkers /\ "REF_PICKUP" # "DEAD"
  /\ "REF_PICKUP" \notin Getups
BY GeneratorOf DEF Players, Generators, Bodies, Relaxed, Walkers, Getups

LEMMA PatienceNat == SoundInv => Patience \in Nat
<1> SUFFICES ASSUME SoundInv PROVE Patience \in Nat
  OBVIOUS
<1>1. gen \in GenState /\ gen.ticks \in Nat /\ gen.ticks <= MIN_TICKS + 1
  BY DEF SoundInv, IInv, Typed, Waiting, GenState
<1>2. PickupLeft(gen) \in Nat
  BY <1>1, Counts DEF SoundInv
<1>3. /\ FRAMES \in Nat /\ PICKUP_TICKS \in Nat /\ MIN_TICKS \in Nat
  BY GeneratorConstants
<1>4. \A p \in Players : FrameLeft(gen.frame[p]) \in Nat
  BY <1>1, <1>3, FramesOf, FrameFalls
<1>5. FallLeft \in Nat
  BY <1>3 DEF FallLeft
<1>6. current = "DEAD" => Patience \in Nat
  BY <1>1, <1>3 DEF Patience
<1>7. current = "REF_PICKUP" => Patience \in Nat
  BY <1>2, <1>4, PickupIsPlayer DEF Patience
<1>8. current \notin {"DEAD", "REF_PICKUP"} => Patience \in Nat
  BY <1>4, <1>5, GeneratorOf DEF Patience
<1> QED
  BY <1>6, <1>7, <1>8

(* A change of generators serves the request, or leads from a dead         *)
(* generator to the pickup.                                                *)
LEMMA ChangeServes ==
  ASSUME SoundInv, NEW g \in GenState, Sound(g), asked' = asked,
         Drive(g, Softened(asked), Softened(asked), FALSE)
  PROVE  Served' \/ Patience' < Patience
<1> DEFINE b == Softened(asked)
<1>1. Typed /\ prev = current /\ asked \in Bodies /\ b \in Bodies
  BY SoftenedBody DEF SoundInv, IInv, Typed
<1>2. /\ b \notin Walkers => current' = b
      /\ b \in Walkers => current' \in Walkers
  BY <1>1, DriveFacts
<1>3. CASE b = asked
  BY <1>1, <1>2, <1>3 DEF Served
<1>4. CASE b # asked
  <2>1. prev = "DEAD" /\ b = "REF_PICKUP"
    BY <1>4 DEF Softened
  <2>2. current = "DEAD" /\ current' = "REF_PICKUP"
    BY <1>1, <1>2, <2>1, PickupIsPlayer
  <2>3. Made(g, b)
    BY <1>1, DriveMakes
  <2>4. gen' \in GenState
    BY <1>1, <2>1, <2>3, MakeJointsKeeps, GeneratorOf DEF Made
  <2>5. Sound(gen')
    BY <1>1, <2>3, MadeSound
  <2>6. PickupLeft(gen') \in 0..PICKUP_TICKS
    BY <2>4, <2>5, Counts
  <2>7. FrameLeft(gen'.frame["REF_PICKUP"]) \in 0..FRAMES
    BY <2>4, PickupIsPlayer, FramesOf, FrameFalls
  <2>8. gen.ticks \in Nat /\ gen.ticks <= MIN_TICKS + 1
    BY DEF SoundInv, IInv, Typed, Waiting, GenState
  <2>9. Patience = FRAMES + PICKUP_TICKS + 1 + (MIN_TICKS + 1 - gen.ticks)
    BY <2>2 DEF Patience
  <2>10. Patience' = PickupLeft(gen') + FrameLeft(gen'.frame["REF_PICKUP"])
    BY <2>2 DEF Patience
  <2> QED
    BY <2>6, <2>7, <2>8, <2>9, <2>10, GeneratorConstants
<1> QED
  BY <1>3, <1>4

LEMMA StopStays ==
  ASSUME NEW g \in GenState, NEW o
  PROVE  /\ stop(g, o).fallen = g.fallen /\ stop(g, o).down = g.down
         /\ stop(g, o).counted = g.counted
         /\ o = "REF_PICKUP" => stop(g, o).counting
BY DEF stop, GenState

(* While it does not give way, a generator that is not asked for gets      *)
(* closer to its end.                                                      *)
LEMMA GivesWay ==
  ASSUME SoundInv, calm, ~Served,
         CarryOn(Softened(asked)) \/ AskToStop(Softened(asked))
  PROVE  Patience' < Patience
<1> DEFINE b == Softened(asked)
<1>1. /\ Typed /\ prev = current /\ asked \in Bodies /\ b \in Bodies
      /\ gen \in GenState /\ Sound(gen) /\ current \in Bodies
      /\ sensed \in Postures /\ isStopping \in BOOLEAN
  BY SoftenedBody DEF SoundInv, IInv, Typed
<1>2. current \notin Walkers /\ Generator[current] = current
  BY <1>1, GeneratorOf DEF Served
<1>3. current # "KICK"
  BY <1>2 DEF Walkers
<1>4. PICK g \in {gen, stop(gen, current)} :
        /\ Made(g, current) /\ current' = current
        /\ current = "REF_PICKUP" => g = stop(gen, current)
  <2>1. CASE CarryOn(b)
    <3>1. Drive(gen, current, b, isStopping) /\ (Same(b) \/ KickGoesOn(b))
      BY <2>1 DEF CarryOn
    <3>2. Made(gen, current) /\ current' = current
      BY <1>1, <1>2, <3>1, DriveMakes, DriveFacts
    <3>3. Generator[b] = Generator[current]
      BY <1>3, <3>1 DEF Same, KickGoesOn
    <3>4. current = "DEAD" \/ b = asked
      BY <1>1 DEF Softened
    <3>5. current # "REF_PICKUP"
      BY <3>3, <3>4 DEF Served
    <3> QED
      BY <3>2, <3>5
  <2>2. CASE AskToStop(b)
    <3>1. Drive(stop(gen, current), current, b, TRUE)
      BY <1>2, <2>2 DEF AskToStop
    <3>2. stop(gen, current) \in GenState
      BY <1>1, StopKeeps
    <3>3. Made(stop(gen, current), current) /\ current' = current
      BY <1>1, <1>2, <3>1, <3>2, DriveMakes, DriveFacts
    <3> QED
      BY <3>3
  <2> QED
    BY <2>1, <2>2
<1>5. /\ g \in GenState /\ g.frame = gen.frame /\ g.ticks = gen.ticks
      /\ g.fallen = gen.fallen /\ g.down = gen.down
      /\ g.counted = gen.counted
      /\ current = "REF_PICKUP" => g.counting
  BY <1>1, <1>4, StopKeeps, StopStays
<1>6. gen' = makeJoints(g, current, sensed) /\ sensed' = sensed
  BY <1>2, <1>4 DEF Made
<1>7. isActive(gen, current)
  BY <1>2 DEF CarryOn, AskToStop, Idle
<1>8. current \in Generators
  BY <1>1, <1>2, GeneratorOf
<1>9. \A p \in Players : p = current => gen.frame[p] \in Frames
  BY <1>1, FramesOf
<1>10. CASE current = "DEAD"
  <2>1. gen'.ticks = gen.ticks + 1
    BY <1>1, <1>5, <1>6, <1>8, <1>10, MakeJointsKeeps
  <2>2. gen.ticks \in Nat
    BY <1>1 DEF GenState
  <2>3. /\ Patience = FRAMES + PICKUP_TICKS + 1 + (MIN_TICKS + 1 - gen.ticks)
        /\ Patience' = FRAMES + PICKUP_TICKS + 1 + (MIN_TICKS + 1 - gen'.ticks)
    BY <1>4, <1>10 DEF Patience
  <2> QED
    BY <2>1, <2>2, <2>3, GeneratorConstants
<1>11. CASE current = "REF_PICKUP"
  <2> DEFINE h == CountDown(g)
  <2>1. gen' = PlayFrame(h, current)
    BY <1>6, <1>11 DEF makeJoints, Getups
  <2>2. Sound(g)
    BY <1>1, <1>4, SoundStop
  <2>3. /\ h \in GenState /\ h.frame = gen.frame
        /\ PickupLeft(h) <= PickupLeft(g)
        /\ ~g.counted => PickupLeft(h) < PickupLeft(g)
        /\ PickupLeft(h) \in 0..PICKUP_TICKS /\ PickupLeft(g) \in 0..PICKUP_TICKS
    BY <1>5, <1>11, <2>2, CountDownKeeps, Counts
  <2> HIDE DEF h
  <2>4. /\ gen'.frame[current] = After(gen.frame[current])
        /\ PickupLeft(gen') = PickupLeft(h)
    BY <1>11, <2>1, <2>3, PickupIsPlayer, FramePlays DEF PickupLeft
  <2>5. PickupLeft(g) = PickupLeft(gen)
    BY <1>5 DEF PickupLeft
  <2>6. ~gen.counted \/ gen.frame[current] # NotRunning
    BY <1>7, <1>11 DEF isActive
  <2>7. /\ FrameLeft(gen.frame[current]) \in 0..FRAMES
        /\ FrameLeft(gen'.frame[current]) \in 0..FRAMES
        /\ FrameLeft(gen'.frame[current]) <= FrameLeft(gen.frame[current])
        /\ gen.frame[current] # NotRunning
             => FrameLeft(gen'.frame[current]) < FrameLeft(gen.frame[current])
    <3>1. gen.frame[current] \in Frames
      BY <1>9, <1>11, PickupIsPlayer
    <3>2. After(NotRunning) = NotRunning
      BY DEF After
    <3> QED
      BY <2>4, <3>1, <3>2, FrameFalls, GeneratorConstants
  <2>8. /\ Patience = PickupLeft(gen) + FrameLeft(gen.frame[current])
        /\ Patience' = PickupLeft(gen') + FrameLeft(gen'.frame[current])
    BY <1>4, <1>11 DEF Patience
  <2> QED
    BY <1>5, <2>3, <2>4, <2>5, <2>6, <2>7, <2>8, GeneratorConstants
<1>12. CASE current \in Getups
  <2>1. gen' = PlayGetup(g, current, sensed)
    BY <1>6, <1>12 DEF makeJoints, Getups
  <2>2. current \in Players /\ current # "DEAD" /\ current # "REF_PICKUP"
    BY <1>12, GeneratorOf, PickupIsPlayer
  <2>3. gen.frame[current] # NotRunning
    BY <1>7, <1>12, <2>2 DEF isActive, Getups
  <2>4. Falls(g, current, sensed)
          => /\ gen'.frame[current] = 1 /\ gen'.fallen[current]
             /\ sensed \in Sides /\ ~gen.fallen[current]
    BY <1>1, <1>5, <1>12, <2>1, <2>3, GetupPlays DEF Falls
  <2>5. ~Falls(g, current, sensed)
          => /\ gen'.frame[current] = After(gen.frame[current])
             /\ sensed \in Sides => (gen'.fallen[current] <=> gen.fallen[current])
    BY <1>1, <1>5, <1>12, <2>1, <2>3, GetupPlays
  <2>6. /\ Patience = FallLeft + FrameLeft(gen.frame[current])
        /\ Patience' = FallLeft' + FrameLeft(gen'.frame[current])
    BY <1>4, <1>12, <2>2 DEF Patience
  <2>7. /\ FrameLeft(gen.frame[current]) \in 0..FRAMES
        /\ FrameLeft(After(gen.frame[current])) < FrameLeft(gen.frame[current])
        /\ FrameLeft(After(gen.frame[current])) \in 0..FRAMES
    BY <1>9, <2>2, <2>3, FrameFalls
  <2>8. 1 \in Frames /\ FrameLeft(1) = FRAMES - 1
    BY GeneratorConstants DEF Frames, FrameLeft, NotRunning
  <2>9. FallLeft \in {0, FRAMES + 1}
    BY DEF FallLeft
  <2>10. CASE Falls(g, current, sensed)
    <3>1. FallLeft = FRAMES + 1 /\ FallLeft' = 0
      BY <1>4, <1>6, <2>4, <2>10 DEF FallLeft
    <3> QED
      BY <2>4, <2>6, <2>7, <2>8, <2>10, <3>1, GeneratorConstants
  <2>11. CASE ~Falls(g, current, sensed)
    <3>1. FallLeft' = FallLeft
      BY <1>4, <1>6, <2>5, <2>11 DEF FallLeft
    <3> QED
      BY <2>5, <2>6, <2>7, <2>9, <2>11, <3>1, GeneratorConstants
  <2> QED
    BY <2>10, <2>11
<1>13. CASE current \in Players \ (Getups \cup {"REF_PICKUP"})
  <2>1. current # "NONE" /\ current # "WALK" /\ current # "DEAD"
    BY <1>13, GeneratorOf
  <2>2. gen' = PlayFrame(g, current)
    BY <1>6, <1>13, <2>1 DEF makeJoints, Getups
  <2>3. gen'.frame[current] = After(gen.frame[current])
    BY <1>5, <1>13, <2>2, FramePlays
  <2>4. gen.frame[current] # NotRunning
    BY <1>7, <1>13, <2>1 DEF isActive
  <2>5. /\ Patience = FrameLeft(gen.frame[current])
        /\ Patience' = FrameLeft(gen'.frame[current])
    BY <1>4, <1>13, <2>1 DEF Patience
  <2> QED
    BY <1>9, <1>13, <2>3, <2>4, <2>5, FrameFalls
<1>14. current # "NONE" /\ current # "WALK"
  BY <1>2, <1>7 DEF isActive, Walkers
<1> QED
  BY <1>8, <1>10, <1>11, <1>12, <1>13, <1>14 DEF Players

LEMMA TickServes ==
  ASSUME SoundInv, calm, ~Served, Tick
  PROVE  Served' \/ Patience' < Patience
<1> DEFINE b == Softened(asked)
           r == reset(gen, Generators)
           h == reset(gen, IF Rewinds(b) THEN {Generator[current]} ELSE {})
<1>1. gen \in GenState /\ Sound(gen)
  BY DEF SoundInv, IInv, Typed
<1>2. r \in GenState /\ Sound(r) /\ h \in GenState /\ Sound(h)
  BY <1>1, ResetKeeps, SoundReset
<1>3. Preempt(b) \/ HandOver(b) \/ CarryOn(b) \/ AskToStop(b)
  BY DEF Tick
<1>4. Preempt(b) => Drive(r, Softened(asked), Softened(asked), FALSE)
  BY DEF Preempt
<1>5. HandOver(b) => Drive(h, Softened(asked), Softened(asked), FALSE)
  BY DEF HandOver
<1> HIDE DEF r, h
<1>6. Preempt(b) \/ HandOver(b) => asked' = asked
  BY <1>4, <1>5 DEF Drive
<1>7. Preempt(b) \/ HandOver(b) => Served' \/ Patience' < Patience
  BY <1>2, <1>4, <1>5, <1>6, ChangeServes
<1> QED
  BY <1>3, <1>7, GivesWay

(* When nothing disturbs the robot any more, Perception changes its mind   *)
(* at most once, and only its ticks and Motion's change anything.          *)
Settled == wrapRequest(asked, sensed, FALSE) = asked
Steady == asked' = asked

LEMMA CalmStep ==
  ASSUME Typed, calm, [Next]_vars
  PROVE  /\ calm' /\ sensed' = sensed
         /\ \/ Tick /\ asked' = asked
            \/ /\ asked' = wrapRequest(asked, sensed, FALSE)
               /\ UNCHANGED <<current, prev, isStopping, gen, told, virgin>>
            \/ UNCHANGED vars
<1>1. CASE Tick
  <2> DEFINE b == Softened(asked)
  <2>1. Preempt(b) \/ HandOver(b) \/ CarryOn(b) \/ AskToStop(b)
    BY <1>1 DEF Tick
  <2>2. \E g, c, stopping : Drive(g, c, b, stopping)
    BY <2>1 DEF Preempt, HandOver, CarryOn, AskToStop
  <2>3. sensed' = sensed /\ asked' = asked /\ calm' = calm
    BY <2>2 DEF Drive
  <2> QED
    BY <1>1, <2>3
<1>2. CASE Behave
  BY <1>2 DEF Behave
<1>3. CASE UNCHANGED vars
  BY <1>3 DEF vars
<1> QED
  BY <1>1, <1>2, <1>3 DEF Next, StandUp, MotionRestart, Configure, Calm

LEMMA SettledOnce ==
  /\ IInv /\ calm /\ [Next]_vars => calm'
  /\ IInv /\ calm /\ [Next]_vars => asked' = asked \/ Settled'
  /\ IInv /\ calm /\ Settled /\ [Next]_vars => Settled' /\ asked' = asked
<1>1. \A w \in Bodies, p \in Postures :
        wrapRequest(wrapRequest(w, p, FALSE), p, FALSE) = wrapRequest(w, p, FALSE)
  BY DEF wrapRequest
<1> SUFFICES ASSUME IInv, calm, [Next]_vars
             PROVE  /\ calm'
                    /\ asked' = asked \/ Settled'
                    /\ Settled => Settled' /\ asked' = asked
  OBVIOUS
<1>2. Typed
  BY DEF IInv
<1>3. calm' /\ sensed' = sensed
  BY <1>2, CalmStep
<1>4. asked' = asked \/ asked' = wrapRequest(asked, sensed, FALSE)
  BY <1>2, CalmStep DEF vars
<1>5. wrapRequest(asked, sensed, FALSE)
        = wrapRequest(wrapRequest(asked, sensed, FALSE), sensed, FALSE)
  BY <1>1, <1>2 DEF Typed
<1> QED
  BY <1>3, <1>4, <1>5 DEF Settled

LEMMA SteadyVars == [Steady]_vars => Steady
BY DEF Steady, vars

(* A tick that may change something.                                       *)
TickMoves ==
  ~Served \/ current \in Getups \/ Outranks(Softened(asked))
TickRuns == []<>~TickMoves \/ []<><<Tick>>_vars

Calmed == /\ []SoundInv /\ [][Next]_vars /\ TickRuns
          /\ []calm /\ [][Steady]_vars
Patient(n) == Patience < n

Counted == Patience \in Nat

LEMMA PatienceCounts == SoundInv => Counted
BY PatienceNat DEF Counted

LEMMA PatientStep ==
  ASSUME NEW n \in Nat
  PROVE  /\ SoundInv /\ calm /\ Steady /\ [Next]_vars /\ Patient(n + 1)
              => Served \/ Served' \/ Patient(n + 1)'
         /\ SoundInv /\ calm /\ Tick /\ Patient(n + 1)
              => Served \/ Served' \/ Patient(n)'
<1>1. SoundInv => Patience \in Nat
  BY PatienceNat
<1>2. SoundInv /\ [Next]_vars => Patience' \in Nat
  <2>1. SoundInv' => Counted'
    BY PatienceCounts, PTL
  <2> QED
    BY <2>1, SoundNext DEF Counted
<1>3. Tick => [Next]_vars
  BY DEF Next
<1>4. SoundInv /\ calm /\ Tick /\ ~Served => Served' \/ Patience' < Patience
  BY TickServes
<1>5. ASSUME SoundInv, calm, Steady, [Next]_vars, ~Tick
      PROVE  Patience' = Patience
  <2>1. Typed
    BY <1>5 DEF SoundInv, IInv
  <2>2. UNCHANGED <<current, gen, sensed>>
    BY <1>5, <2>1, CalmStep DEF vars
  <2> QED
    BY <2>2 DEF Patience, FallLeft
<1>6. ASSUME SoundInv, calm, Tick, ~Served, ~Served', Patient(n + 1)
      PROVE  Patient(n)'
  BY <1>1, <1>2, <1>3, <1>4, <1>6 DEF Patient
<1>7. Patient(n)' /\ SoundInv /\ [Next]_vars => Patient(n + 1)'
  BY <1>2 DEF Patient
<1>8. ASSUME SoundInv, calm, Steady, [Next]_vars, ~Tick, Patient(n + 1)
      PROVE  Patient(n + 1)'
  BY <1>5, <1>8 DEF Patient
<1> QED
  BY <1>3, <1>6, <1>7, <1>8

ServedBy(n) == Calmed => [](Patient(n) => <>Served)
ServedIn(n) == \A m \in Nat : m = n => ServedBy(m)

(* A non-empty set of natural numbers has a least element: the intervals   *)
(* 1..k are well-founded by inclusion.                                     *)
LEMMA LeastElement ==
  ASSUME NEW S, S \subseteq Nat, S # {}
  PROVE  \E n \in S : \A m \in S : n <= m
<1> DEFINE Below   == {1..k : k \in S}
           Smaller == StrictSubsetOrdering(Nat)
<1>1. Below \subseteq FiniteSubsetsOf(Nat) /\ Below # {}
  <2>1. \A k \in Nat : 1..k \in FiniteSubsetsOf(Nat)
    BY FS_Interval DEF FiniteSubsetsOf
  <2> QED
    BY <2>1
<1>2. \E X \in Below : \A Y \in Below : <<Y, X>> \notin Smaller
  <2>1. IsWellFoundedOn(Smaller, FiniteSubsetsOf(Nat))
    BY FS_StrictSubsetOrderingWellFounded
  <2> HIDE DEF Below, Smaller
  <2> QED
    BY <1>1, <2>1, WFMin, Zenon
<1>3. PICK n \in S : \A m \in S : <<1..m, 1..n>> \notin Smaller
  BY <1>2
<1>4. ASSUME NEW m \in S, m < n PROVE FALSE
  <2>1. n \in 1..n /\ n \notin 1..m
    BY <1>4
  <2>2. 1..m \subseteq 1..n /\ 1..m \in SUBSET Nat /\ 1..n \in SUBSET Nat
    BY <1>4
  <2> QED
    BY <1>3, <2>1, <2>2 DEF StrictSubsetOrdering
<1> QED
  BY <1>4

(* Induction.  The theorems of the library take a predicate as parameter,  *)
(* which the provers cannot instantiate; here it is the table of its       *)
(* values, a function.  Named(h) says nothing: it brings the table h to    *)
(* the provers' attention.                                                 *)
Named(h) == TRUE

LEMMA TableInduction ==
  \A h : Named(h) =>
    (/\ h[0] = TRUE
     /\ \A n \in Nat : h[n] = TRUE => h[n + 1] = TRUE
     => \A n \in Nat : h[n] = TRUE)
<1> SUFFICES ASSUME NEW h, h[0] = TRUE,
                    \A n \in Nat : h[n] = TRUE => h[n + 1] = TRUE,
                    {n \in Nat : h[n] # TRUE} # {}
             PROVE  FALSE
  OBVIOUS
<1>1. PICK n \in Nat : /\ h[n] # TRUE
                       /\ \A m \in Nat : h[m] # TRUE => n <= m
  BY LeastElement
<1>2. n # 0
  BY <1>1, Zenon
<1>3. n - 1 \in Nat /\ ~(n <= n - 1) /\ (n - 1) + 1 = n
  BY <1>2
<1>4. h[n - 1] = TRUE
  BY <1>1, <1>3, Zenon
<1>5. h[(n - 1) + 1] = TRUE
  BY <1>3, <1>4, Zenon
<1> QED
  BY <1>1, <1>3, <1>5, Zenon


LEMMA ServedInduction ==
  /\ ServedIn(0)
  /\ \A n \in Nat : ServedIn(n) => ServedIn(n + 1)
  => \A n \in Nat : ServedIn(n)
<1>1. Named([n \in Nat |-> IF ServedIn(n) THEN TRUE ELSE FALSE])
  BY DEF Named
<1> QED
  BY <1>1, TableInduction

LEMMA ServedZero == ServedIn(0)
<1>1. SoundInv => ~Patient(0)
  BY PatienceNat DEF Patient
<1>2. ServedBy(0)
  BY <1>1, PTL DEF ServedBy, Calmed
<1> QED
  BY <1>2 DEF ServedIn

LEMMA ServedStep == \A n \in Nat : ServedIn(n) => ServedIn(n + 1)
<1> SUFFICES ASSUME NEW n \in Nat PROVE ServedBy(n) => ServedBy(n + 1)
  BY DEF ServedIn
<1>1. /\ SoundInv /\ calm /\ Steady /\ [Next]_vars /\ Patient(n + 1)
           => Served \/ Served' \/ Patient(n + 1)'
      /\ SoundInv /\ calm /\ Tick /\ Patient(n + 1)
           => Served \/ Served' \/ Patient(n)'
  BY PatientStep
<1>2. ~TickMoves => Served
  BY DEF TickMoves
<1> QED
  BY <1>1, <1>2, SteadyVars, PTL DEF ServedBy, Calmed, TickRuns

LEMMA ServedAtLast == Calmed => <>Served
<1> SUFFICES ASSUME Calmed PROVE <>Served
  OBVIOUS
<1>1. SoundInv
  BY PTL DEF Calmed
<1>2. Patience \in Nat
  BY <1>1, PatienceNat
<1>3. PICK n \in Nat : Patient(n)
  <2>1. Patience + 1 \in Nat /\ Patience < Patience + 1
    BY <1>2
  <2> QED
    BY <2>1 DEF Patient
<1>4. ServedBy(n)
  BY ServedInduction, ServedZero, ServedStep DEF ServedIn
<1> QED
  BY <1>3, <1>4, PTL DEF ServedBy

(* Once nothing disturbs the robot the request stays.                      *)
LEMMA CalmStays ==
  SoundInv /\ [Next]_vars =>
    /\ calm => calm' /\ (Steady \/ Settled')
    /\ calm /\ Settled => Settled' /\ Steady
BY SettledOnce DEF SoundInv, Steady

LEMMA CalmIsCalmed ==
  Spec /\ TickRuns => [](calm => <>Calmed)
<1>1. [](SoundInv) /\ [][Next]_vars /\ TickRuns => [](calm => <>Calmed)
  BY CalmStays, PTL DEF Calmed, TickRuns
<1> QED
  BY <1>1, SoundAlways, PTL DEF Spec

(* A request that stays is served, with pose files of any length and any   *)
(* patience of the dead and the picked up.                                 *)
THEOREM RequestsServed == Spec /\ TickRuns => RequestServed
<1> QED
  BY CalmIsCalmed, ServedAtLast, PTL DEF RequestServed, Served

-----------------------------------------------------------------------------
(* A robot left lying tries to get up.  RoundLeft: how many ticks the      *)
(* getup it is asked for can last before it begins anew.                   *)
Lying(side) ==
  USE_GETUPS /\ calm /\ sensed = side /\ asked # "MOTION_CALIBRATE"
Tries(side) == Starts(side) \/ Latched(side)
Wants(side) == Lying(side) /\ asked = GetupFor(side)
Getting(side) == Wants(side) /\ current \in Walkers \cup {GetupFor(side)}

RoundLeft(side) ==
  IF current # GetupFor(side) THEN FRAMES + 3
  ELSE IF gen.frame[current] = NotRunning
    THEN IF gen.poses[current] = side THEN 1 ELSE FRAMES + 2
  ELSE FRAMES - gen.frame[current] + 1

LEMMA GetupOf ==
  ASSUME NEW side \in Sides
  PROVE  /\ GetupFor(side) \in Getups /\ GetupFor(side) \in Players
         /\ GetupFor(side) \in Bodies /\ GetupFor(side) \in Urgent
         /\ Generator[GetupFor(side)] = GetupFor(side)
         /\ GetupFor(side) \notin Walkers /\ GetupFor(side) # "DEAD"
         /\ GetupFor(side) # "MOTION_CALIBRATE"
         /\ Constructed.poses[GetupFor(side)] = side
         /\ side \in Postures
<1>1. GetupFor(side) \in Getups /\ side \in Postures
  BY DEF GetupFor, Getups, Postures
<1>2. Constructed.poses[GetupFor(side)] = side
  BY <1>1 DEF Constructed, GetupFor, Sides
<1>3. GetupFor(side) # "MOTION_CALIBRATE" /\ GetupFor(side) # "DEAD"
  BY DEF GetupFor
<1> QED
  BY <1>1, <1>2, <1>3, GeneratorOf

(* A robot that lies wants the getup for its side, and nothing else.       *)
LEMMA LyingStep ==
  ASSUME NEW side \in Sides
  PROVE  /\ SoundInv /\ [Next]_vars /\ Lying(side) => Lying(side)'
         /\ SoundInv /\ [Next]_vars /\ Wants(side) => Wants(side)'
         /\ SoundInv /\ Lying(side) /\ Behave => Wants(side)'
         /\ Lying(side) /\ ~(calm /\ wrapRequest(asked, sensed, FALSE) # asked)
              => Wants(side)
<1>1. Lying(side) => wrapRequest(asked, sensed, FALSE) = GetupFor(side)
  BY DEF Lying, wrapRequest, GetupFor, Sides
<1>2. GetupFor(side) # "MOTION_CALIBRATE"
  BY GetupOf
<1>3. ASSUME SoundInv, [Next]_vars, Lying(side)
      PROVE  /\ calm' /\ sensed' = sensed
             /\ asked' = asked \/ asked' = GetupFor(side)
  <2>1. Typed /\ calm
    BY <1>3 DEF SoundInv, IInv, Lying
  <2> QED
    BY <1>1, <1>3, <2>1, CalmStep DEF vars
<1>4. ASSUME SoundInv, Lying(side), Behave
      PROVE  /\ calm' /\ sensed' = sensed /\ asked' = GetupFor(side)
  BY <1>1, <1>4 DEF Behave, Lying
<1> QED
  BY <1>1, <1>2, <1>3, <1>4 DEF Lying, Wants

LEMMA RoundPositive ==
  ASSUME NEW side \in Sides
  PROVE  SoundInv => RoundLeft(side) \in Nat \ {0}
<1> SUFFICES ASSUME SoundInv PROVE RoundLeft(side) \in Nat \ {0}
  OBVIOUS
<1>1. current = GetupFor(side) => gen.frame[current] \in Frames
  BY GetupOf, FramesOf DEF SoundInv, IInv, Typed
<1> QED
  BY <1>1, GeneratorConstants DEF RoundLeft, Frames, NotRunning

LEMMA ResetPoses ==
  ASSUME NEW g \in GenState, NEW S
  PROVE  reset(g, S).poses = g.poses
BY DEF reset, GenState

(* A getup that begins at its first frame.                                 *)
LEMMA GetupBegins ==
  ASSUME NEW side \in Sides, NEW g \in GenState, g.frame[GetupFor(side)] = 0,
         Made(g, GetupFor(side)), current' = GetupFor(side), calm, sensed = side
  PROVE  gen'.frame[current'] = 1 /\ gen'.poses = g.poses
<1> DEFINE o == GetupFor(side)
<1>1. o \in Getups /\ Generator[o] = o /\ side \in Postures
  BY GetupOf
<1>2. gen' = PlayGetup(g, o, side)
  BY <1>1 DEF Made, makeJoints, Getups
<1>3. ~Falls(g, o, side) /\ g.frame[o] # NotRunning /\ After(0) = 1
  BY GeneratorConstants, AfterFrame DEF Falls, NotRunning
<1> HIDE DEF o
<1>4. current' = o /\ g.frame[o] = 0
  BY DEF o
<1> QED
  BY <1>1, <1>2, <1>3, <1>4, GetupPlays

LEMMA RoundFalls ==
  ASSUME SoundInv, NEW side \in Sides, Getting(side), ~Tries(side), Tick
  PROVE  /\ current' = GetupFor(side)
         /\ Tries(side)' \/ RoundLeft(side)' < RoundLeft(side)
<1> DEFINE o == GetupFor(side)
           r == reset(gen, Generators)
           h == reset(gen, {o})
<1>1. /\ Typed /\ gen \in GenState /\ Sound(gen) /\ current \in Bodies
      /\ isStopping \in BOOLEAN
  BY DEF SoundInv, IInv, Typed
<1>2. /\ calm /\ sensed = side /\ asked = o
      /\ current \in Walkers \/ current = o
  BY DEF Getting, Wants, Lying
<1>3. /\ o \in Getups /\ o \in Players /\ o \in Bodies /\ o \in Urgent
      /\ Generator[o] = o /\ o \notin Walkers /\ side \in Postures
      /\ Constructed.poses[o] = side
  BY GetupOf
<1>4. Softened(asked) = o
  BY <1>2, <1>3 DEF Softened
<1>5. Preempt(o) \/ HandOver(o) \/ CarryOn(o) \/ AskToStop(o)
  BY <1>4 DEF Tick
<1>6. priorities[o] = 3 /\ \A w \in Walkers : priorities[w] = 0
  BY <1>3, PriorityRange
<1>7. gen.frame[o] \in Frames /\ FRAMES \in Nat
  BY <1>1, <1>3, FramesOf, GeneratorConstants
<1> HIDE DEF o
<1>8. GetupFor(side) = o
  BY DEF o
<1>9. ASSUME NEW g \in GenState, g.frame[o] = 0, g.poses = gen.poses,
             Drive(g, o, o, FALSE)
      PROVE  current' = o /\ gen'.frame[o] = 1 /\ gen'.poses = gen.poses
  <2>1. Made(g, o) /\ current' = o
    BY <1>1, <1>3, <1>9, DriveMakes, DriveFacts
  <2> QED
    BY <1>2, <1>8, <1>9, <2>1, GetupBegins
<1>10. /\ r \in GenState /\ r.frame[o] = 0 /\ r.poses = gen.poses
       /\ h \in GenState /\ h.frame[o] = 0 /\ h.poses = gen.poses
  <2>1. o \in Generators
    BY <1>3, GeneratorOf
  <2>2. r.poses = gen.poses /\ h.poses = gen.poses
    BY <1>1, ResetPoses
  <2> QED
    BY <1>1, <1>3, <2>1, <2>2, ResetKeeps
<1>11. CASE current \in Walkers
  <2>1. Outranks(o)
    BY <1>6, <1>11 DEF Outranks
  <2>2. Drive(r, o, o, FALSE)
    BY <1>5, <2>1 DEF Preempt, HandOver, CarryOn, AskToStop
  <2>3. current' = o /\ gen'.frame[o] = 1
    BY <1>9, <1>10, <2>2
  <2>4. RoundLeft(side)' = FRAMES
    BY <1>7, <1>8, <2>3 DEF RoundLeft, NotRunning
  <2>5. RoundLeft(side) = FRAMES + 3
    BY <1>3, <1>8, <1>11 DEF RoundLeft
  <2> QED
    BY <1>7, <1>8, <2>3, <2>4, <2>5
<1>12. CASE current = o
  <2>1. ~Outranks(o) /\ Same(o)
    BY <1>6, <1>12 DEF Outranks, Same
  <2>2. HandOver(o) \/ CarryOn(o)
    BY <1>5, <2>1 DEF Preempt, AskToStop
  <2>3. Idle <=> gen.frame[o] = NotRunning
    BY <1>3, <1>12, GeneratorOf DEF Idle, isActive, Getups
  <2>4. CASE HandOver(o)
    <3>1. Rewinds(o)
      BY <1>3, <1>12 DEF Rewinds
    <3>2. Drive(h, o, o, FALSE) /\ gen.frame[o] = NotRunning
      BY <1>3, <1>12, <2>3, <2>4, <3>1 DEF HandOver
    <3>3. current' = o /\ gen'.frame[o] = 1 /\ gen'.poses = gen.poses
      BY <1>9, <1>10, <3>2
    <3>4. CASE gen.poses[o] = side
      BY <1>8, <3>3, <3>4 DEF Tries, Starts
    <3>5. CASE gen.poses[o] # side
      <4>1. RoundLeft(side)' = FRAMES
        BY <1>7, <1>8, <3>3 DEF RoundLeft, NotRunning
      <4>2. RoundLeft(side) = FRAMES + 2
        BY <1>8, <1>12, <3>2, <3>5 DEF RoundLeft
      <4> QED
        BY <1>7, <1>8, <3>3, <4>1, <4>2
    <3> QED
      BY <3>4, <3>5
  <2>5. CASE CarryOn(o)
    <3>1. Drive(gen, o, o, isStopping) /\ gen.frame[o] # NotRunning
      BY <1>12, <2>3, <2>5 DEF CarryOn
    <3>2. Made(gen, o) /\ current' = o
      BY <1>1, <1>3, <3>1, DriveMakes, DriveFacts
    <3>3. gen' = PlayGetup(gen, o, side)
      BY <1>2, <1>3, <3>2 DEF Made, makeJoints, Getups
    <3>4. CASE Falls(gen, o, side)
      <4>1. gen'.frame[o] = 1 /\ gen'.poses[o] = side
        BY <1>1, <1>3, <3>1, <3>3, <3>4, GetupPlays
      <4> QED
        BY <1>8, <3>2, <4>1 DEF Tries, Starts
    <3>5. CASE ~Falls(gen, o, side)
      <4>1. gen'.frame[o] = After(gen.frame[o]) /\ gen'.poses = gen.poses
        BY <1>1, <1>3, <3>1, <3>3, <3>5, GetupPlays
      <4>2. RoundLeft(side) = FRAMES - gen.frame[o] + 1
        BY <1>8, <1>12, <3>1 DEF RoundLeft
      <4>3. CASE gen.frame[o] # FRAMES - 1
        <5>1. gen'.frame[o] = gen.frame[o] + 1
          BY <3>1, <4>1, <4>3 DEF After
        <5>2. RoundLeft(side)' = FRAMES - (gen.frame[o] + 1) + 1
          BY <1>7, <1>8, <3>1, <3>2, <5>1 DEF RoundLeft, Frames, NotRunning
        <5> QED
          BY <1>7, <1>8, <3>2, <4>2, <5>2 DEF Frames, NotRunning
      <4>4. CASE gen.frame[o] = FRAMES - 1
        <5>1. gen'.frame[o] = NotRunning
          BY <4>1, <4>4 DEF After
        <5>2. gen.poses[o] = side
          <6> SUFFICES ASSUME gen.poses[o] # side PROVE FALSE
            OBVIOUS
          <6>1. ~gen.fallen[o]
            BY <1>8 DEF Tries, Latched
          <6>2. ~(FRAMES - 1 > SETTLE)
            BY <3>5, <4>4, <6>1 DEF Falls
          <6>3. FRAMES - 1 <= SETTLE
            BY <6>2, GeneratorConstants
          <6> QED
            BY <1>1, <1>3, <6>3 DEF Sound
        <5>3. RoundLeft(side)' = 1
          BY <1>8, <3>2, <4>1, <5>1, <5>2 DEF RoundLeft
        <5>4. RoundLeft(side) = 2
          BY <1>7, <4>2, <4>4
        <5> QED
          BY <1>8, <3>2, <5>3, <5>4
      <4> QED
        BY <4>3, <4>4
    <3> QED
      BY <3>4, <3>5
  <2> QED
    BY <2>2, <2>4, <2>5
<1> QED
  BY <1>2, <1>11, <1>12

BehaveMoves == calm /\ wrapRequest(asked, sensed, FALSE) # asked
BehaveRuns == []<>~BehaveMoves \/ []<><<Behave>>_vars

Trying == /\ []SoundInv /\ [][Next]_vars /\ TickRuns /\ BehaveRuns
          /\ []<>(calm => Served)
Round(side, n) == Getting(side) /\ RoundLeft(side) < n

LEMMA RoundStep ==
  ASSUME NEW side \in Sides, NEW n \in Nat
  PROVE  /\ SoundInv /\ [Next]_vars /\ Round(side, n + 1)
              => Tries(side) \/ Tries(side)' \/ Round(side, n + 1)'
         /\ SoundInv /\ Tick /\ Round(side, n + 1)
              => Tries(side) \/ Tries(side)' \/ Round(side, n)'
         /\ Round(side, n + 1) => TickMoves
<1>1. SoundInv => RoundLeft(side) \in Nat \ {0}
  BY RoundPositive
<1> DEFINE Counting == RoundLeft(side) \in Nat \ {0}
<1>2. SoundInv /\ [Next]_vars => RoundLeft(side)' \in Nat \ {0}
  <2>1. SoundInv => Counting
    BY <1>1
  <2>2. SoundInv' => Counting'
    BY <2>1, PTL
  <2> QED
    BY <2>2, SoundNext
<1>3. Tick => [Next]_vars
  BY DEF Next
<1>4. ASSUME SoundInv, Round(side, n + 1), Tick, ~Tries(side), ~Tries(side)'
      PROVE  Round(side, n)'
  <2>1. Getting(side) /\ RoundLeft(side) < n + 1 /\ Wants(side)
    BY <1>4 DEF Round, Getting
  <2>2. current' = GetupFor(side) /\ RoundLeft(side)' < RoundLeft(side)
    BY <1>4, <2>1, RoundFalls
  <2>3. Wants(side)'
    BY <1>3, <1>4, <2>1, LyingStep
  <2>4. RoundLeft(side)' < n
    BY <1>1, <1>2, <1>3, <1>4, <2>1, <2>2
  <2> QED
    BY <2>2, <2>3, <2>4 DEF Round, Getting
<1>5. ASSUME SoundInv, Round(side, n + 1), [Next]_vars, ~Tick
      PROVE  Round(side, n + 1)'
  <2>1. Wants(side) /\ Typed /\ calm
    BY <1>5 DEF Round, Getting, SoundInv, IInv, Wants, Lying
  <2>2. Wants(side)'
    BY <1>5, <2>1, LyingStep
  <2>3. UNCHANGED <<current, gen>>
    BY <1>5, <2>1, CalmStep DEF vars
  <2> QED
    BY <1>5, <2>2, <2>3 DEF Round, Getting, RoundLeft
<1>6. ASSUME SoundInv, [Next]_vars, Round(side, n)'
      PROVE  Round(side, n + 1)'
  BY <1>2, <1>6 DEF Round
<1>7. ASSUME Round(side, n + 1)
      PROVE  TickMoves
  <2>1. asked = GetupFor(side) /\ current \in Walkers \cup {GetupFor(side)}
    BY <1>7 DEF Round, Getting, Wants
  <2>2. CASE current \in Walkers
    <3>1. Softened(asked) = asked
      BY <2>1, GetupOf DEF Softened
    <3>2. priorities[asked] = 3 /\ priorities[current] = 0
      BY <2>1, <2>2, GetupOf, PriorityRange
    <3> QED
      BY <3>1, <3>2 DEF TickMoves, Outranks
  <2>3. CASE current = GetupFor(side)
    BY <2>3, GetupOf DEF TickMoves
  <2> QED
    BY <2>1, <2>2, <2>3
<1> QED
  BY <1>3, <1>4, <1>5, <1>6, <1>7

TriesBy(side, n) == Trying => [](Round(side, n) => <>Tries(side))
TriesIn(side, n) == \A m \in Nat : m = n => TriesBy(side, m)

LEMMA TriesInduction ==
  ASSUME NEW side
  PROVE  /\ TriesIn(side, 0)
         /\ \A n \in Nat : TriesIn(side, n) => TriesIn(side, n + 1)
         => \A n \in Nat : TriesIn(side, n)
<1>1. Named([n \in Nat |-> IF TriesIn(side, n) THEN TRUE ELSE FALSE])
  BY DEF Named
<1> QED
  BY <1>1, TableInduction

LEMMA TriesZero ==
  ASSUME NEW side \in Sides
  PROVE  TriesIn(side, 0)
<1>1. SoundInv => ~Round(side, 0)
  BY RoundPositive DEF Round
<1>2. TriesBy(side, 0)
  BY <1>1, PTL DEF TriesBy, Trying
<1> QED
  BY <1>2 DEF TriesIn

LEMMA TriesStep ==
  ASSUME NEW side \in Sides
  PROVE  \A n \in Nat : TriesIn(side, n) => TriesIn(side, n + 1)
<1> SUFFICES ASSUME NEW n \in Nat
             PROVE  TriesBy(side, n) => TriesBy(side, n + 1)
  BY DEF TriesIn
<1>1. /\ SoundInv /\ [Next]_vars /\ Round(side, n + 1)
           => Tries(side) \/ Tries(side)' \/ Round(side, n + 1)'
      /\ SoundInv /\ Tick /\ Round(side, n + 1)
           => Tries(side) \/ Tries(side)' \/ Round(side, n)'
      /\ Round(side, n + 1) => TickMoves
  BY RoundStep
<1> QED
  BY <1>1, PTL DEF TriesBy, Trying, TickRuns, BehaveRuns

(* Whoever drives, the getup gets the body.                                *)
LEMMA GetsTheBody ==
  ASSUME NEW side \in Sides
  PROVE  Trying => [](Lying(side) => <>Getting(side))
<1>1. /\ SoundInv /\ [Next]_vars /\ Lying(side) => Lying(side)'
      /\ SoundInv /\ [Next]_vars /\ Wants(side) => Wants(side)'
      /\ SoundInv /\ Lying(side) /\ Behave => Wants(side)'
  BY LyingStep
<1>2. Lying(side) /\ ~BehaveMoves => Wants(side)
  BY LyingStep DEF BehaveMoves
<1>3. SoundInv /\ Wants(side) /\ (calm => Served) => Getting(side)
  <2> SUFFICES ASSUME SoundInv, Wants(side), Served
               PROVE  Getting(side)
    BY DEF Wants, Lying
  <2>1. asked = GetupFor(side) /\ current \in Bodies
    BY DEF Wants, SoundInv, IInv, Typed
  <2>2. current \in Walkers \/ Generator[current] = GetupFor(side)
    BY <2>1, GetupOf DEF Served
  <2> QED
    BY <2>1, <2>2, GeneratorOf DEF Getting
<1> QED
  BY <1>1, <1>2, <1>3, PTL DEF Trying, TickRuns, BehaveRuns

LEMMA TriesAtLast ==
  ASSUME NEW side \in Sides
  PROVE  Trying /\ Getting(side) => <>Tries(side)
<1> SUFFICES ASSUME Trying, Getting(side) PROVE <>Tries(side)
  OBVIOUS
<1>1. SoundInv
  BY PTL DEF Trying
<1>2. RoundLeft(side) \in Nat
  BY <1>1, RoundPositive
<1>3. PICK n \in Nat : Round(side, n)
  <2>1. RoundLeft(side) + 1 \in Nat /\ RoundLeft(side) < RoundLeft(side) + 1
    BY <1>2
  <2> QED
    BY <2>1 DEF Round
<1>4. TriesBy(side, n)
  BY TriesInduction, TriesZero, TriesStep DEF TriesIn
<1> QED
  BY <1>3, <1>4, PTL DEF TriesBy

TriesAgain(side) == []<>(Lying(side) => Tries(side))

(* A robot left lying tries again and again to get up, with pose files of  *)
(* any length and any patience before a fall is looked for.                *)
THEOREM TriesAgainAndAgain == Spec /\ TickRuns /\ BehaveRuns => TriesToGetUp
<1>1. Spec /\ TickRuns => []<>(calm => Served)
  BY RequestsServed DEF RequestServed, Served
<1>2. ASSUME NEW side \in Sides
      PROVE  Spec /\ TickRuns /\ BehaveRuns => TriesAgain(side)
  <2>1. Trying => [](Lying(side) => <>Getting(side))
    BY GetsTheBody
  <2>2. Trying /\ Getting(side) => <>Tries(side)
    BY TriesAtLast
  <2> QED
    BY <1>1, <2>1, <2>2, SoundAlways, PTL
       DEF Spec, Trying, TickRuns, BehaveRuns, TriesAgain
<1> QED
  BY <1>2 DEF TriesToGetUp, TriesAgain, Lying, Tries
=============================================================================
