--------------------------- MODULE ButtonPathProofs ---------------------------
(***************************************************************************)
(* For any intervals and any number of presses: what becomes of a press on *)
(* its way to GameController.                                              *)
(***************************************************************************)
EXTENDS ButtonPath, TLAPS

(* A person who may still press leaves room for what the press becomes.    *)
Room ==
  /\ (chest_presses > 0 \/ chest_down > 0) => made < MAX_PRESSES
  /\ chest_down > 0 => chest_presses < MAX_CLICKS /\ chest_up = 0

(* A press that met no race: Motion has it before the blackboard, and once *)
(* GameController has acted on it, it is there only until the mask is      *)
(* written back.                                                           *)
Once(p) ==
  /\ acts[p] <= 1
  /\ (acts[p] > 0 /\ p \in buttons) => gc = "write" /\ p \in popped
  /\ p \in read => acts[p] = 0 /\ p \notin buttons \cup added
  /\ p \notin seen => acts[p] = 0 /\ p \notin read \cup buttons \cup added

RaceInv == \A p \in Presses : p \notin reread \cup restored => Once(p)

(* A press that Motion has read is with Motion or on the blackboard, or    *)
(* has been acted on, or was erased.                                       *)
Kept(p) == p \in read \cup buttons \cup erased \/ acts[p] > 0

KeptInv ==
  /\ \A p \in Presses : p \in seen => Kept(p)
  /\ \A p \in Presses : p <= made => p \in seen \cup late \cup slot
  /\ gc = "write" => \A p \in popped : acts[p] > 0
  /\ motion = "write" => buttons \subseteq added
  /\ motion \in {"wait", "slot"} => read = {}

-----------------------------------------------------------------------------
(* What postCallback's arithmetic keeps.                                   *)
LEMMA CycleTyped ==
  ASSUME TypeOK, Room, Cycle
  PROVE  /\ chest_up' \in UpRange /\ chest_down' \in DownRange
         /\ chest_presses' \in ClickRange /\ made' \in MadeRange
         /\ Pushed \in SUBSET Presses
         /\ \/ made' = made /\ Pushed = {}
            \/ made' = made + 1 /\ Pushed = {made'}
         /\ Room'
<1> USE ButtonConstants DEF UpRange, DownRange, ClickRange, MadeRange, Lost
<1>1. /\ chest_up \in UpRange /\ chest_down \in DownRange
      /\ chest_presses \in ClickRange /\ made \in MadeRange
  BY DEF TypeOK
<1>2. Held \in DownRange /\ Held <= MAX_HOLD /\ (Held > 0 => chest_down > 0)
  BY <1>1 DEF Held
<1>3. /\ Clicks \in ClickRange /\ (Clicks > 0 => chest_presses > 0)
      /\ Clicks <= chest_presses
  BY <1>1 DEF Clicks
<1>4. \/ made' = made /\ Pushed = {}
      \/ made' = made + 1 /\ Pushed = {made'} /\ chest_presses > 0 /\ Clicks = 0
         /\ GestureEnds
  <2>1. made' = IF Pushed = {} THEN made ELSE made + 1
    BY DEF Cycle
  <2>2. \/ Pushed = {}
        \/ Pushed = {made + 1} /\ GestureEnds /\ chest_presses = 1
    BY DEF Pushed
  <2>3. {made + 1} # {}
    OBVIOUS
  <2> QED
    BY <2>1, <2>2, <2>3 DEF Clicks
<1>5. made' \in MadeRange /\ Pushed \in SUBSET Presses
  BY <1>1, <1>4 DEF Room, Presses
<1>6. CASE /\ made' < MAX_PRESSES /\ Clicks < MAX_CLICKS
           /\ CountDown
           /\ chest_presses' = Clicks
  <2>1. /\ chest_down' = IF Held >= 0 THEN Held + 1 ELSE Held
        /\ chest_up' = 0
    BY <1>6 DEF CountDown
  <2>2. chest_up' \in UpRange /\ chest_down' \in DownRange
    BY <1>2, <2>1
  <2> QED
    BY <1>3, <1>4, <1>5, <1>6, <2>1, <2>2 DEF Room
<1>7. CASE /\ CountUp
           /\ chest_presses' = IF Held > 0 THEN Clicks + 1 ELSE Clicks
  <2>1. /\ chest_up' = IF chest_up <= MAX_CLICK_INTERVAL THEN chest_up + 1 ELSE chest_up
        /\ chest_down' = IF Held > 0 THEN 0 ELSE Held
    BY <1>7 DEF CountUp
  <2>2. chest_up' \in UpRange
    BY <1>1, <2>1
  <2>3. chest_down' \in DownRange /\ chest_down' <= 0
    BY <1>2, <2>1
  <2>4. chest_presses' \in ClickRange
    BY <1>1, <1>2, <1>3, <1>7 DEF Room
  <2>5. chest_presses' > 0 => made' < MAX_PRESSES
    <3>1. Held > 0 => ~GestureEnds
      BY <1>2 DEF Room, GestureEnds
    <3> QED
      BY <1>1, <1>2, <1>3, <1>4, <1>7, <3>1 DEF Room
  <2> QED
    BY <1>4, <1>5, <2>2, <2>3, <2>4, <2>5 DEF Room
<1> QED
  BY <1>6, <1>7 DEF Cycle

LEMMA RoomKept ==
  ASSUME TypeOK, Room, [Next]_vars
  PROVE  Room'
<1>1. CASE Cycle
  BY <1>1, CycleTyped
<1>2. CASE ~Cycle
  <2>1. UNCHANGED <<chest_up, chest_down, chest_presses, made>>
    BY <1>2 DEF Next, vars, agent, Post, Motion, GetSensors, GetButtons, Merge,
                WriteButtons, GameController, ButtonUpdate, WriteBack
  <2> QED
    BY <2>1 DEF Room
<1> QED
  BY <1>1, <1>2

LEMMA TypeKept ==
  ASSUME TypeOK, Room, [Next]_vars
  PROVE  TypeOK'
<1>1. CASE Cycle
  <2>1. /\ dcm' = "post" /\ slot' = Pushed
        /\ late' = late \cup (slot \ seen)
        /\ UNCHANGED <<semaphore, Motions, buttons, player, acts, seen, reread,
                      erased, restored>>
    BY <1>1 DEF Cycle
  <2>2. /\ chest_up' \in UpRange /\ chest_down' \in DownRange
        /\ chest_presses' \in ClickRange /\ made' \in MadeRange
        /\ Pushed \in SUBSET Presses
    BY <1>1, CycleTyped
  <2> QED
    BY <2>1, <2>2 DEF TypeOK, Motions, player
<1>2. CASE ~Cycle
  <2> USE DEF TypeOK, agent, memory, Motions, player, marks
  <2>1. CASE Post
    BY <2>1 DEF Post
  <2>2. CASE GetSensors
    BY <2>2 DEF GetSensors
  <2>3. CASE GetButtons
    BY <2>3 DEF GetButtons
  <2>4. CASE Merge
    BY <2>4 DEF Merge
  <2>5. CASE WriteButtons
    BY <2>5 DEF WriteButtons
  <2>6. CASE ButtonUpdate
    BY <2>6 DEF ButtonUpdate
  <2>7. CASE WriteBack
    BY <2>7 DEF WriteBack
  <2>8. CASE UNCHANGED vars
    BY <2>8 DEF vars
  <2> QED
    BY <1>2, <2>1, <2>2, <2>3, <2>4, <2>5, <2>6, <2>7, <2>8
       DEF Next, Motion, GameController
<1> QED
  BY <1>1, <1>2

LEMMA InitTyped == Init => TypeOK /\ Room /\ RaceInv /\ KeptInv
<1> SUFFICES ASSUME Init PROVE TypeOK /\ Room /\ RaceInv /\ KeptInv
  OBVIOUS
<1> USE DEF Init
<1>1. /\ chest_up \in UpRange /\ chest_down \in DownRange
      /\ chest_presses \in ClickRange /\ made \in MadeRange
  BY ButtonConstants DEF UpRange, DownRange, ClickRange, MadeRange, Lost
<1>2. TypeOK
  BY <1>1 DEF TypeOK
<1>3. Room
  BY DEF Room
<1>4. RaceInv
  BY DEF RaceInv, Once
<1>5. KeptInv
  BY DEF KeptInv, Kept, Presses
<1> QED
  BY <1>2, <1>3, <1>4, <1>5

-----------------------------------------------------------------------------
(* Races.                                                                  *)
LEMMA RaceKept ==
  ASSUME TypeOK, RaceInv, [Next]_vars
  PROVE  RaceInv'
<1> SUFFICES ASSUME NEW p \in Presses, p \notin reread' \cup restored'
             PROVE  Once(p)'
  BY DEF RaceInv
<1>1. acts[p] \in 0..2
  BY DEF TypeOK
<1>2. p \notin reread \cup restored
  BY DEF Next, vars, Cycle, Post, Motion, GetSensors, GetButtons, Merge,
         WriteButtons, GameController, ButtonUpdate, WriteBack, marks
<1>3. Once(p)
  BY <1>2 DEF RaceInv
<1> USE DEF Once
<1>4. CASE Cycle
  BY <1>3, <1>4 DEF Cycle, Motions, player
<1>5. CASE Post
  BY <1>3, <1>5 DEF Post, Motions, player, marks
<1>6. CASE GetSensors
  BY <1>3, <1>6 DEF GetSensors, player, marks
<1>7. CASE GetButtons
  <2>1. /\ read' = slot /\ seen' = seen \cup slot
        /\ UNCHANGED <<added, buttons, gc, popped, acts>>
        /\ p \in slot => p \notin seen
    BY <1>7 DEF GetButtons, player
  <2> QED
    BY <1>3, <2>1
<1>8. CASE Merge
  BY <1>3, <1>8 DEF Merge, player, marks
<1>9. CASE WriteButtons
  <2>1. /\ buttons' = read \cup added /\ read' = {} /\ added' = {}
        /\ UNCHANGED <<gc, popped, acts, seen>>
        /\ p \in added => p \in buttons
    BY <1>9 DEF WriteButtons, player
  <2> QED
    BY <1>3, <2>1
<1>10. CASE ButtonUpdate
  <2>1. /\ gc = "look" /\ gc' = "write" /\ popped' = buttons
        /\ acts'[p] = IF p \in buttons /\ acts[p] < 2 THEN acts[p] + 1 ELSE acts[p]
        /\ UNCHANGED <<read, added, buttons, seen>>
    BY <1>10 DEF ButtonUpdate, Motions, marks
  <2>2. CASE p \in buttons
    <3>1. acts[p] = 0
      BY <1>1, <1>3, <2>1, <2>2
    <3> QED
      BY <1>3, <2>1, <2>2, <3>1
  <2>3. CASE p \notin buttons
    BY <1>3, <2>1, <2>3
  <2> QED
    BY <2>2, <2>3
<1>11. CASE WriteBack
  BY <1>3, <1>11 DEF WriteBack, Motions
<1>12. CASE UNCHANGED vars
  BY <1>3, <1>12 DEF vars, Motions, player, marks
<1> QED
  BY <1>4, <1>5, <1>6, <1>7, <1>8, <1>9, <1>10, <1>11, <1>12
     DEF Next, Motion, GameController

(* Nothing leaves the way but by being acted on, missed or erased.         *)
LEMMA KeptKept ==
  ASSUME TypeOK, Room, KeptInv, [Next]_vars
  PROVE  KeptInv'
<1> USE DEF KeptInv, Kept
<1>0. \A p \in Presses : acts[p] \in 0..2
  BY DEF TypeOK
<1>1. CASE Cycle
  <2>1. /\ slot' = Pushed /\ late' = late \cup (slot \ seen)
        /\ UNCHANGED <<motion, read, added, buttons, gc, popped, acts, seen, erased>>
    BY <1>1 DEF Cycle, Motions, player
  <2>2. \/ made' = made
        \/ made' = made + 1 /\ Pushed = {made'}
    BY <1>1, CycleTyped
  <2>3. made \in Nat
    BY ButtonConstants DEF TypeOK, MadeRange
  <2>4. ASSUME NEW p \in Presses, p <= made' PROVE p \in seen' \cup late' \cup slot'
    <3>1. p <= made \/ p \in slot'
      BY <2>1, <2>2, <2>3, <2>4 DEF Presses
    <3> QED
      BY <2>1, <3>1
  <2> QED
    BY <2>1, <2>4
<1>2. CASE Post
  BY <1>2 DEF Post, Motions, player, marks
<1>3. CASE GetSensors
  BY <1>3 DEF GetSensors, player, marks
<1>4. CASE GetButtons
  <2>1. /\ read' = slot /\ seen' = seen \cup slot /\ motion' = "look"
        /\ UNCHANGED <<slot, buttons, gc, popped, acts, made, late, erased>>
        /\ read = {}
    BY <1>4 DEF GetButtons, player, memory
  <2> QED
    BY <2>1
<1>5. CASE Merge
  BY <1>5 DEF Merge, memory, player, marks
<1>6. CASE WriteButtons
  BY <1>6 DEF WriteButtons, memory, player
<1>7. CASE ButtonUpdate
  <2>1. /\ gc' = "write" /\ popped' = buttons
        /\ \A p \in Presses : acts'[p] = IF p \in buttons /\ acts[p] < 2
                                        THEN acts[p] + 1 ELSE acts[p]
        /\ UNCHANGED <<slot, motion, read, added, buttons, made, seen, late, erased>>
    BY <1>7 DEF ButtonUpdate, memory, Motions, marks
  <2>2. \A p \in Presses : /\ acts[p] > 0 => acts'[p] > 0
                           /\ p \in buttons => acts'[p] > 0
    BY <1>0, <2>1
  <2>3. buttons \subseteq Presses
    BY DEF TypeOK
  <2> QED
    BY <2>1, <2>2, <2>3
<1>8. CASE WriteBack
  <2>1. /\ gc = "write" /\ gc' = "look" /\ buttons' = {}
        /\ erased' = erased \cup (buttons \ popped)
        /\ UNCHANGED <<slot, motion, read, added, made, acts, seen, late>>
    BY <1>8 DEF WriteBack, memory, Motions
  <2> QED
    BY <2>1
<1>9. CASE UNCHANGED vars
  BY <1>9 DEF vars, memory, Motions, player, marks
<1> QED
  BY <1>1, <1>2, <1>3, <1>4, <1>5, <1>6, <1>7, <1>8, <1>9
     DEF Next, Motion, GameController

-----------------------------------------------------------------------------
LEMMA Inductive == Spec => [](TypeOK /\ Room /\ RaceInv /\ KeptInv)
<1>1. TypeOK /\ Room /\ RaceInv /\ KeptInv /\ [Next]_vars
        => (TypeOK /\ Room /\ RaceInv /\ KeptInv)'
  BY TypeKept, RoomKept, RaceKept, KeptKept
<1> QED
  BY <1>1, InitTyped, PTL DEF Spec

(* The types, whatever the intervals: the semaphore is 0 or 1.             *)
THEOREM TypeCorrect == Spec => []TypeOK
BY Inductive, PTL

(* However many presses, one is acted on twice only after one of the two   *)
(* races on its way.                                                       *)
THEOREM RepeatsAreRaces == Spec => []RepeatNeedsRace
<1>1. TypeOK /\ RaceInv => RepeatNeedsRace
  BY DEF TypeOK, RaceInv, Once, RepeatNeedsRace
<1> QED
  BY <1>1, Inductive, PTL

(* Where a press can be.                                                   *)
Accounted ==
  \A p \in Presses : p <= made =>
    \/ p \in slot \cup read \cup buttons
    \/ acts[p] > 0
    \/ p \in late \cup erased

(* No press vanishes: one that is not under way has been acted on, was     *)
(* missed by Motion, or was erased by GameController.                      *)
THEOREM NothingVanishes == Spec => []Accounted
<1>1. KeptInv => Accounted
  BY DEF KeptInv, Kept, Accounted
<1> QED
  BY <1>1, Inductive, PTL

-----------------------------------------------------------------------------
(* Every press arrives.  The prover knows no ENABLED, so that fairness is  *)
(* written out: the DCM calls back and GameController ticks for ever, for  *)
(* they never lack a step, and Motion finishes a tick in which it has      *)
(* looked at the buttons.  That Motion gets a token is not needed: a press *)
(* that waits for it too long is late.                                     *)
InTick == motion \in {"look", "write"}

ThreadsRun ==
  /\ []<><<Cycle \/ Post>>_vars
  /\ []<>~InTick \/ []<><<Motion>>_vars
  /\ []<><<GameController>>_vars

Inv == TypeOK /\ Room /\ KeptInv

(* Where press p is until its end.                                         *)
Made(p)   == made >= p
Ended(p)  == acts[p] > 0 \/ p \in late \cup erased
Posting(p) == ~Ended(p) /\ p \in slot \ seen /\ dcm = "post"
Posted(p)  == ~Ended(p) /\ p \in slot \ seen /\ dcm = "cycle"
Read(p)    == ~Ended(p) /\ p \in read /\ motion = "look"
Merged(p)  == ~Ended(p) /\ p \in read /\ motion = "write"
OnBoard(p) == ~Ended(p) /\ p \in buttons

(* What each thread does with a press that has not come to its end.        *)
LEMMA AgentMoves ==
  ASSUME Inv, NEW p \in Presses, ~Ended(p), Cycle \/ Post
  PROVE  /\ UNCHANGED <<motion, read, buttons, seen, gc>>
         /\ Posting(p) => Posted(p)'
         /\ Posted(p) => Ended(p)'
         /\ acts' = acts /\ erased' = erased
<1> USE DEF Ended, Posting, Posted
<1>1. CASE Cycle
  <2>1. late' = late \cup (slot \ seen)
        /\ UNCHANGED <<motion, read, buttons, gc, acts, seen, erased>>
        /\ dcm = "cycle"
    BY <1>1 DEF Cycle, Motions, player
  <2> QED
    BY <2>1
<1>2. CASE Post
  BY <1>2 DEF Post, Motions, player, marks
<1> QED
  BY <1>1, <1>2

LEMMA MotionMoves ==
  ASSUME Inv, NEW p \in Presses, ~Ended(p), Motion
  PROVE  /\ ~Ended(p)' /\ UNCHANGED <<dcm, slot, gc>>
         /\ p \in slot \ seen => p \in slot' \ seen' \/ Read(p)'
         /\ Read(p) => Merged(p)'
         /\ Merged(p) => OnBoard(p)'
         /\ OnBoard(p) => OnBoard(p)'
<1> USE DEF Ended, Read, Merged, OnBoard, agent, memory, player, marks
<1>1. CASE GetSensors
  BY <1>1 DEF GetSensors
<1>2. CASE GetButtons
  BY <1>2 DEF GetButtons
<1>3. CASE Merge
  BY <1>3 DEF Merge
<1>4. CASE WriteButtons
  BY <1>4 DEF WriteButtons, Inv, KeptInv
<1> QED
  BY <1>1, <1>2, <1>3, <1>4 DEF Motion

LEMMA GameControllerMoves ==
  ASSUME Inv, NEW p \in Presses, ~Ended(p), GameController
  PROVE  /\ UNCHANGED <<dcm, slot, seen, motion, read, late>>
         /\ OnBoard(p) => Ended(p)'
<1>1. CASE ButtonUpdate
  <2>1. acts[p] \in 0..2 /\ ~(acts[p] > 0)
    BY DEF Inv, TypeOK, Ended
  <2>2. /\ acts'[p] = IF p \in buttons /\ acts[p] < 2 THEN acts[p] + 1 ELSE acts[p]
        /\ UNCHANGED <<dcm, slot, seen, motion, read, late, erased>>
    BY <1>1 DEF ButtonUpdate, agent, memory, Motions, marks
  <2>3. p \in buttons => acts'[p] = 1
    BY <2>1, <2>2
  <2> QED
    BY <2>2, <2>3 DEF Ended, OnBoard
<1>2. CASE WriteBack
  <2>1. /\ gc = "write" /\ erased' = erased \cup (buttons \ popped)
        /\ UNCHANGED <<dcm, slot, seen, motion, read, late, acts>>
    BY <1>2 DEF WriteBack, agent, memory, Motions
  <2>2. p \notin popped
    BY <2>1 DEF Inv, KeptInv, Ended
  <2> QED
    BY <2>1, <2>2 DEF Ended, OnBoard
<1> QED
  BY <1>1, <1>2 DEF GameController

LEMMA PressMoves ==
  ASSUME Inv, NEW p \in Presses, [Next]_vars
  PROVE  /\ Posting(p) => Posting(p)' \/ Posted(p)' \/ Read(p)' \/ Ended(p)'
         /\ Posted(p) => Posted(p)' \/ Read(p)' \/ Ended(p)'
         /\ Read(p) => Read(p)' \/ Merged(p)' \/ Ended(p)'
         /\ Merged(p) => Merged(p)' \/ OnBoard(p)' \/ Ended(p)'
         /\ OnBoard(p) => OnBoard(p)' \/ Ended(p)'
<1> USE DEF Posting, Posted, Read, Merged, OnBoard
<1>1. CASE Cycle \/ Post
  BY <1>1, AgentMoves DEF Ended
<1>2. CASE Motion
  BY <1>2, MotionMoves
<1>3. CASE GameController
  BY <1>3, GameControllerMoves
<1>4. CASE UNCHANGED vars
  BY <1>4 DEF vars, agent, memory, Motions, player, marks, Ended
<1> QED
  BY <1>1, <1>2, <1>3, <1>4 DEF Next

(* Every press switches the state, is overtaken in the slot, or is erased  *)
(* by GameController, for any number of presses: the races named are the   *)
(* only ways to lose one, and none waits for ever.                         *)
THEOREM EveryPressEnds == Spec /\ ThreadsRun => Delivered
<1> SUFFICES ASSUME NEW p \in Presses
             PROVE  Spec /\ ThreadsRun => (Made(p) ~> Ended(p))
  BY DEF Delivered, Made, Ended
<1>1. Inv /\ Made(p) =>
        Posting(p) \/ Posted(p) \/ Read(p) \/ Merged(p) \/ OnBoard(p) \/ Ended(p)
  <2> SUFFICES ASSUME Inv, Made(p), ~Ended(p)
               PROVE  Posting(p) \/ Posted(p) \/ Read(p) \/ Merged(p) \/ OnBoard(p)
    OBVIOUS
  <2>1. p <= made
    BY ButtonConstants DEF Inv, TypeOK, MadeRange, Presses, Made
  <2>2. p \in slot \ seen \/ p \in read \cup buttons
    BY <2>1 DEF Inv, KeptInv, Kept, Ended
  <2>3. p \in read => motion \in {"look", "write"}
    BY DEF Inv, KeptInv, TypeOK
  <2> QED
    BY <2>2, <2>3 DEF Inv, TypeOK, Posting, Posted, Read, Merged, OnBoard
<1>2. Inv /\ [Next]_vars =>
        /\ Posting(p) => Posting(p)' \/ Posted(p)' \/ Read(p)' \/ Ended(p)'
        /\ Posted(p) => Posted(p)' \/ Read(p)' \/ Ended(p)'
        /\ Read(p) => Read(p)' \/ Merged(p)' \/ Ended(p)'
        /\ Merged(p) => Merged(p)' \/ OnBoard(p)' \/ Ended(p)'
        /\ OnBoard(p) => OnBoard(p)' \/ Ended(p)'
  BY PressMoves
<1>3. Inv /\ <<Cycle \/ Post>>_vars =>
        /\ Posting(p) => Posted(p)'
        /\ Posted(p) => Ended(p)'
  BY AgentMoves DEF Posting, Posted
<1>4. Inv /\ <<Motion>>_vars =>
        /\ Read(p) => Merged(p)'
        /\ Merged(p) => OnBoard(p)'
  BY MotionMoves DEF Read, Merged
<1>5. Inv /\ <<GameController>>_vars => (OnBoard(p) => Ended(p)')
  BY GameControllerMoves DEF OnBoard
<1>6. Read(p) \/ Merged(p) => InTick
  BY DEF Read, Merged, InTick
<1> QED
  BY <1>1, <1>2, <1>3, <1>4, <1>5, <1>6, Inductive, PTL DEF Spec, ThreadsRun, Inv
=============================================================================
