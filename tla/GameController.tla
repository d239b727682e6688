--------------------------- MODULE GameController ---------------------------
(***************************************************************************)
(* The GameController thread of one robot: it polls the referee's packets, *)
(* the chest button, the whistle and its team mates' opinion, and writes   *)
(* what follows to the blackboard, which other threads read meanwhile.     *)
(*                                                                         *)
(* The referee, the person at the button, the whistle and the team mates   *)
(* are the environment.  A tick is split at every access to the blackboard *)
(* and at every poll, so the referee moves on within a tick, packets are   *)
(* lost, and the transmitter reads half-written states.  Abstracted:       *)
(* everything of a packet but its phase, the side our team plays on and    *)
(* this robot's penalty (the other team's player with the same number may  *)
(* be penalised or not); speech.                                           *)
(***************************************************************************)
EXTENDS GameState

CONSTANTS
  MAX_POLLS,    \* polls in a tick (5 in the code)
  Sides,        \* the sides our team may play on
  MayRestart    \* may the thread die and be restarted?

ASSUME ControllerConstants ==
  /\ MAX_POLLS \in Nat
  /\ Sides \subseteq {"BLUE", "RED"} /\ Sides # {}
  /\ MayRestart \in BOOLEAN

VARIABLES
  gc,         \* what the referee's computer broadcasts
  \* the thread
  pc, polls, data, team_red, previousGameState, gameState,
  \* the blackboard
  bb_data, bb_our_penalty, bb_gameState,
  \* history, read by the properties only
  why,        \* about data: was the last packet parsed with the right
              \* team_red, was the button pressed since; and has PLAYING been
              \* said, by a packet, the button or the team, since the last
              \* packet of another phase?
  bb_why,     \* the same about bb_data
  calm        \* since the tick began: only SET packets, nobody penalised,
              \* nobody pressed the button

thread     == <<pc, polls, data, team_red, previousGameState, gameState>>
blackboard == <<bb_data, bb_our_penalty, bb_gameState>>
history    == <<why, bb_why, calm>>
vars       == <<gc, thread, blackboard, history>>

(* A packet: the phase, our team's side once BLUE is sorted first, and     *)
(* this robot's penalty.  What a robot keeps has the same fields, with     *)
(* more states.                                                            *)
Packets == [state : Phases, side : Sides, mine : BOOLEAN]
Data    == [state : GameStates, side : {"BLUE", "RED"}, mine : BOOLEAN]
Reasons == [sound : BOOLEAN, touched : BOOLEAN, licence : BOOLEAN]

TypeOK ==
  /\ gc \in Packets
  /\ pc \in {"begin", "poll", "decide", "write_data", "write_team",
             "write_state", "override"}
  /\ polls \in 0..MAX_POLLS
  /\ data \in Data
  /\ team_red \in BOOLEAN
  /\ previousGameState \in GameStates
  /\ gameState \in GameStates
  /\ bb_data \in Data
  /\ bb_our_penalty \in BOOLEAN
  /\ bb_gameState \in GameStates
  /\ why \in Reasons /\ bb_why \in Reasons
  /\ calm \in BOOLEAN

(* teams[team_red].players[playerNumber - 1].penalty: this robot's, or,    *)
(* with the wrong team_red, some other robot's.                            *)
PenaltiesAt(d, red) == IF red = (d.side = "RED") THEN {d.mine} ELSE BOOLEAN

SetPenalty(d, red, value) ==
  IF red = (d.side = "RED") THEN [d EXCEPT !.mine = value] ELSE d

(* The configuration's defaults: state INITIAL, our colour blue.  The      *)
(* blackboard's constructor leaves gameState uninitialised.                *)
Init ==
  /\ gc \in [state : {"INITIAL"}, side : Sides, mine : {FALSE}]
  /\ pc = "begin" /\ polls = 0
  /\ bb_data = [state |-> "INITIAL", side |-> "BLUE", mine |-> FALSE]
  /\ data = bb_data
  /\ team_red = FALSE
  /\ bb_our_penalty = FALSE
  /\ bb_gameState \in GameStates
  /\ previousGameState = "INVALID" /\ gameState = "INVALID"
  /\ bb_why = [sound |-> TRUE, touched |-> FALSE, licence |-> FALSE]
  /\ why = bb_why
  /\ calm = TRUE

-----------------------------------------------------------------------------
(* The referee.                                                            *)

Follows == [INITIAL  |-> {"READY"},
            READY    |-> {"SET"},
            SET      |-> {"PLAYING"},
            PLAYING  |-> {"READY", "FINISHED"},
            FINISHED |-> {"INITIAL"}]

(* The game goes on; the teams may swap sides between two halves.          *)
Referee ==
  /\ \E s \in Follows[gc.state], side \in Sides :
       /\ side = gc.side \/ s = "INITIAL"
       /\ gc' = [gc EXCEPT !.state = s, !.side = side]
  /\ UNCHANGED <<thread, blackboard, history>>

(* The robot is penalised, or its penalty ends.                            *)
Penalise ==
  /\ gc' = [gc EXCEPT !.mine = ~@]
  /\ UNCHANGED <<thread, blackboard, history>>

-----------------------------------------------------------------------------
(* The thread.                                                             *)

Step(from, to) == pc = from /\ pc' = to

TickBegin ==
  /\ Step("begin", "poll")
  /\ previousGameState' = bb_gameState
  /\ data' = bb_data
  /\ why' = bb_why
  /\ UNCHANGED <<gc, polls, team_red, gameState, blackboard, bb_why, calm>>

(* wirelessUpdate polls once more than it should.                          *)
PollNothing_OneMore ==
  /\ Step("poll", "poll") /\ polls <= MAX_POLLS
  /\ polls' = polls + 1
  /\ UNCHANGED <<gc, data, team_red, previousGameState, gameState,
                 blackboard, history>>

(* One poll of wirelessUpdate: nothing comes within 200 ms, or what comes  *)
(* is invalid or about another game...                                     *)
PollNothing ==
  /\ Step("poll", "poll") /\ polls < MAX_POLLS
  /\ polls' = polls + 1
  /\ UNCHANGED <<gc, data, team_red, previousGameState, gameState,
                 blackboard, history>>

(* ... or a packet, which parseData copies.  The penalty is looked up with *)
(* the team_red of the tick before.                                        *)
PollPacket ==
  /\ Step("poll", "poll") /\ polls < MAX_POLLS
  /\ polls' = polls + 1
  /\ \E penalised \in PenaltiesAt(gc, team_red) :
       /\ data' = [gc EXCEPT !.state =
                     ParseState(data.state, gc.state, penalised)]
       /\ calm' = (calm /\ gc.state = "SET" /\ ~penalised)
  /\ why' = [sound   |-> team_red = (gc.side = "RED"),
             touched |-> FALSE,
             licence |-> \/ gc.state = "PLAYING"
                         \/ gc.state = "SET" /\ why.licence]
  /\ UNCHANGED <<gc, team_red, previousGameState, gameState, blackboard,
                 bb_why>>

(* buttonUpdate: a single click of the chest button, or none.              *)
NoButton ==
  /\ Step("poll", "decide") /\ polls = MAX_POLLS
  /\ polls' = 0
  /\ UNCHANGED <<gc, data, team_red, previousGameState, gameState,
                 blackboard, history>>

Button ==
  /\ Step("poll", "decide") /\ polls = MAX_POLLS
  /\ polls' = 0
  /\ LET state == PressState(data.state)
     IN  /\ data' = [SetPenalty(data, team_red, state = "PENALISED")
                       EXCEPT !.state = state]
         /\ why' = [why EXCEPT !.touched = TRUE,
                                !.licence = @ \/ state = "PLAYING"]
  /\ calm' = FALSE
  /\ UNCHANGED <<gc, team_red, previousGameState, gameState, blackboard,
                 bb_why>>

(* A robot that tells its team it plays plays itself.                      *)
Decide_Selfish ==
  /\ Step("decide", "write_data")
  /\ team_red' = (data.side = "RED")
  /\ \E whistle \in BOOLEAN :
       LET told == ToldState(data.state, previousGameState, whistle)
       IN  /\ gameState' = told
           /\ data' = [data EXCEPT !.state = told]
  /\ UNCHANGED <<gc, polls, previousGameState, blackboard, why, bb_why, calm>>

(* Which team is ours, what to tell the team, and what the team says.  The *)
(* team's opinion is the environment's: some numbers of team mates.        *)
Decide ==
  /\ Step("decide", "write_data")
  /\ team_red' = (data.side = "RED")
  /\ \E whistle, agreed \in BOOLEAN :
       LET told == ToldState(data.state, previousGameState, whistle)
           state == TeamState(data.state, IF agreed THEN 1 ELSE 0, 1, TRUE)
       IN  /\ gameState' = told
           /\ data' = [data EXCEPT !.state = state]
           /\ why' = [why EXCEPT !.licence = @ \/ (agreed /\ data.state = "SET")]
  /\ UNCHANGED <<gc, polls, previousGameState, blackboard, bb_why, calm>>

(* The blackboard is written field by field.                               *)
WriteData ==
  /\ Step("write_data", "write_team")
  /\ bb_data' = data
  /\ bb_why' = why
  /\ UNCHANGED <<gc, polls, data, team_red, previousGameState, gameState,
                 bb_our_penalty, bb_gameState, why, calm>>

WriteTeam ==
  /\ Step("write_team", "write_state")
  /\ bb_our_penalty' = data.mine
  /\ UNCHANGED <<gc, polls, data, team_red, previousGameState, gameState,
                 bb_data, bb_gameState, history>>

WriteState ==
  /\ Step("write_state", "override")
  /\ bb_gameState' = data.state
  /\ UNCHANGED <<gc, polls, data, team_red, previousGameState, gameState,
                 bb_data, bb_our_penalty, history>>

(* A robot that has heard the whistle tells its team PLAYING although its  *)
(* own data still say SET.  The locals of tick() end here.                 *)
WriteOverride ==
  /\ Step("override", "begin")
  /\ bb_gameState' = IF gameState = "PLAYING" /\ data.state = "SET"
                       THEN gameState ELSE bb_gameState
  /\ previousGameState' = "INVALID" /\ gameState' = "INVALID"
  /\ calm' = TRUE
  /\ UNCHANGED <<gc, polls, data, team_red, bb_data, bb_our_penalty, why,
                 bb_why>>

(* safelyRun builds a new GameController after an exception or a signal.   *)
(* Its data will be read from the blackboard when the tick begins.         *)
Restart ==
  /\ MayRestart
  /\ pc' = "begin" /\ polls' = 0
  /\ team_red' = FALSE
  /\ data' = bb_data /\ why' = bb_why /\ calm' = TRUE
  /\ previousGameState' = "INVALID" /\ gameState' = "INVALID"
  /\ UNCHANGED <<gc, blackboard, bb_why>>

Tick ==
  \/ TickBegin \/ PollNothing \/ PollPacket \/ NoButton \/ Button
  \/ Decide \/ WriteData \/ WriteTeam \/ WriteState \/ WriteOverride

Next == Referee \/ Penalise \/ Tick \/ Restart

Spec == Init /\ [][Next]_vars

(* The thread is scheduled, and packets keep arriving: a referee that      *)
(* broadcasts twice a second is heard now and then.                        *)
Fairness == WF_vars(Tick) /\ SF_vars(PollPacket)

FairSpec == Spec /\ Fairness
-----------------------------------------------------------------------------
(* Safety.                                                                 *)

(* A robot that the last packet penalised is penalised on the blackboard,  *)
(* however many packets, whistles and opinions there were in the same tick *)
(* or have been since, unless someone pressed its button.  It takes a      *)
(* packet parsed with the right team_red, which is that of the tick before *)
(* the packet: false at first, and stale when the teams swap sides.        *)
PenaltyObeyed ==
  bb_data.mine /\ bb_why.sound /\ ~bb_why.touched
    => bb_data.state \in Penalised

(* And no robot stands aside for somebody else's penalty, or for one that  *)
(* is over, once a packet has been parsed with the right team_red.         *)
PenaltyHasCause ==
  bb_data.state \in Penalised /\ bb_why.sound
    => bb_data.mine \/ bb_why.touched

(* No robot plays of its own accord: a robot whose data say PLAYING was    *)
(* told so by a packet, by its button or by enough of its team since the   *)
(* last packet of another phase.  Its own whistle alone is not enough, nor *)
(* is an uninitialised gameState.                                          *)
PlayNeedsLicence == bb_data.state = "PLAYING" => bb_why.licence

(* A kick-off is not taken back: if a robot plays, the SET packets of a    *)
(* referee who delays PLAYING do not stop it.                              *)
EarlyStartKept ==
  [][(pc = "write_data" /\ pc' = "write_team" /\ calm
        /\ bb_data.state = "PLAYING")
       => bb_data'.state = "PLAYING"]_vars

(* Liveness.                                                               *)

(* If the referee stays in one phase and does not penalise the robot, and  *)
(* if the button is not pressed and the thread does not die for ever, the  *)
(* robot ends in that phase, whatever it believed before, and tells its    *)
(* team so, whatever it told before; in SET it may also play.              *)
RefereeObeyed ==
  \A p \in Phases :
    (<>[](gc.state = p /\ ~gc.mine) /\ <>[][~Button]_vars
                                    /\ <>[][~Restart]_vars)
      => <>[]({bb_data.state, bb_gameState} \subseteq
                {p} \cup (IF p = "SET" THEN {"PLAYING"} ELSE {}))
=============================================================================
