----------------------------- MODULE ButtonPath -----------------------------
(***************************************************************************)
(* How a press of the chest button reaches the GameController thread.  The *)
(* agent in NaoQi tells clicks from holds, deals with two, three and four  *)
(* clicks itself and puts a single click into the shared memory; Motion    *)
(* takes it from there to the blackboard; GameController takes it from the *)
(* blackboard and switches the robot's state.  Motion and GameController   *)
(* read, change and write the blackboard's mask with no lock: the mutex    *)
(* made for it is never taken.                                             *)
(*                                                                         *)
(* The mask's bit for a single click is the set of the presses it stands   *)
(* for; the bits that GameController never asks for are left out.  The     *)
(* shared memory has one slot (SingleSlot in AgentLinkProofs).  Both       *)
(* processes stay up.                                                      *)
(***************************************************************************)
EXTENDS Integers

CONSTANTS
  MAX_CLICK_INTERVAL, \* cycles the button is up between clicks of a gesture
  MAX_HOLD,           \* cycles after which a hold shuts the robot down
  MAX_CLICKS,         \* bound on the clicks of a gesture
  MAX_PRESSES         \* bound on the single clicks of a run

ASSUME ButtonConstants ==
  /\ MAX_CLICK_INTERVAL \in Nat /\ MAX_HOLD \in Nat
  /\ MAX_CLICKS \in Nat /\ MAX_PRESSES \in Nat

VARIABLES
  \* the agent: cycles the button has been up, or down; clicks so far
  chest_up, chest_down, chest_presses,
  dcm,            \* where postCallback is
  \* shared memory
  slot, semaphore,
  \* Motion: where it is; what it read in the slot and on the blackboard
  motion, read, added,
  \* the blackboard's motion.buttons
  buttons,
  \* GameController: where it is, and what it read
  gc, popped,
  \* history
  made,           \* single clicks so far; a press is its number
  acts,           \* how often each switched the state (2: twice or more)
  seen,           \* presses that Motion has read
  late,           \* overwritten in the slot before Motion read them
  reread,         \* read by Motion more than once
  erased,         \* wiped off the blackboard by a mask read without them
  restored        \* written back to it by Motion after they were popped

agent   == <<chest_up, chest_down, chest_presses, dcm>>
memory  == <<slot, semaphore>>
Motions == <<motion, read, added>>
player  == <<gc, popped>>
marks   == <<seen, late, reread, erased, restored>>
vars    == <<agent, memory, Motions, buttons, player, made, acts, marks>>

Presses == 1..MAX_PRESSES
Lost    == -1   \* what chest_down is set to: the least integer

UpRange    == 0..(MAX_CLICK_INTERVAL + 1)
DownRange  == Lost..(MAX_HOLD + 1)
ClickRange == 0..MAX_CLICKS
MadeRange  == 0..MAX_PRESSES

TypeOK ==
  /\ chest_up \in UpRange /\ chest_down \in DownRange
  /\ chest_presses \in ClickRange
  /\ dcm \in {"cycle", "post"}
  /\ slot \in SUBSET Presses /\ semaphore \in {0, 1}
  /\ motion \in {"wait", "slot", "look", "write"}
  /\ read \in SUBSET Presses /\ added \in SUBSET Presses
  /\ buttons \in SUBSET Presses
  /\ gc \in {"look", "write"} /\ popped \in SUBSET Presses
  /\ made \in MadeRange
  /\ acts \in [Presses -> 0..2]
  /\ seen \in SUBSET Presses /\ late \in SUBSET Presses
  /\ reread \in SUBSET Presses
  /\ erased \in SUBSET Presses /\ restored \in SUBSET Presses

Init ==
  /\ chest_up = 0 /\ chest_down = 0 /\ chest_presses = 0 /\ dcm = "cycle"
  /\ slot = {} /\ semaphore = 0
  /\ motion = "wait" /\ read = {} /\ added = {}
  /\ buttons = {}
  /\ gc = "look" /\ popped = {}
  /\ made = 0 /\ acts = [p \in Presses |-> 0]
  /\ seen = {} /\ late = {} /\ reread = {} /\ erased = {} /\ restored = {}

-----------------------------------------------------------------------------
(* The agent.                                                              *)

(* A gesture ends when the button has been up for long.                    *)
GestureEnds == chest_up > MAX_CLICK_INTERVAL /\ chest_presses > 0

(* A single click is left in the mask: the other gestures are the agent's, *)
(* or nobody's.                                                            *)
Pushed ==
  IF GestureEnds /\ chest_presses = 1 THEN {made + 1} ELSE {}

(* After a hold the counter is far below zero, and stays there.            *)
Held == IF chest_down > MAX_HOLD THEN Lost ELSE chest_down

CountDown ==
  /\ chest_down' = IF Held >= 0 THEN Held + 1 ELSE Held
  /\ chest_up' = 0

CountUp ==
  /\ chest_up' = IF chest_up <= MAX_CLICK_INTERVAL THEN chest_up + 1 ELSE chest_up
  /\ chest_down' = IF Held > 0 THEN 0 ELSE Held

Clicks == IF GestureEnds THEN 0 ELSE chest_presses

(* postCallback, until the mask is in the slot: what was there is gone.    *)
(* The bounds stop the person, who presses no more.                        *)
Cycle ==
  /\ dcm = "cycle" /\ dcm' = "post"
  /\ made' = IF Pushed = {} THEN made ELSE made + 1
  /\ \/ /\ made' < MAX_PRESSES /\ Clicks < MAX_CLICKS
        /\ CountDown
        /\ chest_presses' = Clicks
     \/ /\ CountUp
        /\ chest_presses' = IF Held > 0 THEN Clicks + 1 ELSE Clicks
  /\ slot' = Pushed
  /\ late' = late \cup (slot \ seen)
  /\ UNCHANGED <<semaphore, Motions, buttons, player, acts, seen, reread,
                 erased, restored>>

(* The semaphore is raised however late Motion is.                         *)
Post_Always ==
  /\ dcm = "post" /\ dcm' = "cycle"
  /\ semaphore' = semaphore + 1
  /\ UNCHANGED <<chest_up, chest_down, chest_presses, slot, Motions, buttons,
                 player, made, acts, marks>>

(* The rest of postCallback.                                               *)
Post ==
  /\ dcm = "post" /\ dcm' = "cycle"
  /\ semaphore' = IF semaphore <= 0 THEN semaphore + 1 ELSE semaphore
  /\ UNCHANGED <<chest_up, chest_down, chest_presses, slot, Motions, buttons,
                 player, made, acts, marks>>

-----------------------------------------------------------------------------
(* Motion.                                                                 *)

GetSensors ==
  /\ motion = "wait" /\ motion' = "slot"
  /\ semaphore > 0 /\ semaphore' = semaphore - 1
  /\ UNCHANGED <<agent, slot, read, added, buttons, player, made, acts, marks>>

(* The buttons are read some time after the sensors.                       *)
GetButtons ==
  /\ motion = "slot" /\ motion' = "look"
  /\ read' = slot
  /\ seen' = seen \cup slot
  /\ reread' = reread \cup (slot \cap seen)
  /\ UNCHANGED <<agent, memory, added, buttons, player, made, acts, late,
                 erased, restored>>

(* buttons |= readFrom(motion, buttons)...                                 *)
Merge ==
  /\ motion = "look" /\ motion' = "write"
  /\ added' = buttons
  /\ UNCHANGED <<agent, memory, read, buttons, player, made, acts, marks>>

(* What is on the blackboard is replaced.                                  *)
WriteButtons_Replace ==
  /\ motion = "write" /\ motion' = "wait"
  /\ buttons' = read
  /\ restored' = restored \cup (added \ buttons)
  /\ read' = {} /\ added' = {}
  /\ UNCHANGED <<agent, memory, player, made, acts, seen, late, reread, erased>>

(* ... and writeTo(motion, buttons, buttons).                              *)
WriteButtons ==
  /\ motion = "write" /\ motion' = "wait"
  /\ buttons' = read \cup added
  /\ restored' = restored \cup (added \ buttons)
  /\ read' = {} /\ added' = {}
  /\ UNCHANGED <<agent, memory, player, made, acts, seen, late, reread, erased>>

Motion == GetSensors \/ GetButtons \/ Merge \/ WriteButtons

-----------------------------------------------------------------------------
(* GameController.                                                         *)

(* It reads the mask, pops the single click and acts on it: one switch for *)
(* all the presses the bit stands for.                                     *)
ButtonUpdate ==
  /\ gc = "look" /\ gc' = "write"
  /\ popped' = buttons
  /\ acts' = [p \in Presses |->
                IF p \in buttons /\ acts[p] < 2 THEN acts[p] + 1 ELSE acts[p]]
  /\ UNCHANGED <<agent, memory, Motions, buttons, made, marks>>

(* The popped mask is not written.                                         *)
WriteBack_Not ==
  /\ gc = "write" /\ gc' = "look"
  /\ popped' = {}
  /\ UNCHANGED <<agent, memory, Motions, buttons, made, acts, marks>>

(* The mask without that bit is written.                                   *)
WriteBack ==
  /\ gc = "write" /\ gc' = "look"
  /\ buttons' = {}
  /\ erased' = erased \cup (buttons \ popped)
  /\ popped' = {}
  /\ UNCHANGED <<agent, memory, Motions, made, acts, seen, late, reread,
                 restored>>

GameController == ButtonUpdate \/ WriteBack

Next == Cycle \/ Post \/ Motion \/ GameController

Spec == Init /\ [][Next]_vars

(* The DCM calls back every 10 ms, and both threads are scheduled.         *)
Fairness ==
  WF_vars(Cycle \/ Post) /\ WF_vars(Motion) /\ WF_vars(GameController)

FairSpec == Spec /\ Fairness
-----------------------------------------------------------------------------
(* One press switches the state twice only when Motion read it twice, in a *)
(* tick that was late for its slot, or wrote back a mask it had read       *)
(* before GameController popped it.                                        *)
RepeatNeedsRace ==
  \A p \in Presses : acts[p] > 1 => p \in reread \cup restored

(* Every press switches the state, unless Motion missed the cycle it was   *)
(* in or came between GameController's reading and its writing.            *)
Delivered ==
  \A p \in Presses : made >= p ~> (acts[p] > 0 \/ p \in late \cup erased)
=============================================================================
