------------------------ MODULE GameControllerProofs ------------------------
(***************************************************************************)
(* What the GameController thread promises, for any number of polls in a   *)
(* tick, either side, and whether or not the thread may be restarted.      *)
(***************************************************************************)
EXTENDS GameController, FiniteSetTheorems, WellFoundedInduction, TLAPS

LEMMA States ==
  ASSUME NEW s \in GameStates, NEW t \in GameStates,
         NEW phase \in Phases, NEW b \in BOOLEAN, NEW n, NEW k, NEW near
  PROVE  /\ ParseState(s, phase, b) \in GameStates
         /\ PressState(s) \in GameStates
         /\ ToldState(s, t, b) \in GameStates
         /\ TeamState(s, n, k, near) \in GameStates
  BY DEF GameStates, Phases, Penalised, ParseState, PressState, ToldState,
         TeamState

LEMMA PenaltyType ==
  ASSUME NEW d \in Data, NEW red \in BOOLEAN
  PROVE  PenaltiesAt(d, red) \subseteq BOOLEAN
  BY DEF PenaltiesAt, Data

(* A packet's side is one of the two.                                      *)
LEMMA PacketsAreData == Packets \subseteq Data
  BY ControllerConstants DEF Packets, Data, GameStates

(* What buttonUpdate makes of the data.                                    *)
LEMMA PressType ==
  ASSUME NEW d \in Data, NEW red \in BOOLEAN, NEW s \in GameStates,
         NEW v \in BOOLEAN
  PROVE  [SetPenalty(d, red, v) EXCEPT !.state = s] \in Data
  BY DEF SetPenalty, Data

-----------------------------------------------------------------------------
(* Every variable keeps its type.                                          *)
THEOREM TypeCorrect == Spec => []TypeOK
<1>1. Init => TypeOK
  <2> SUFFICES ASSUME Init PROVE TypeOK
    OBVIOUS
  <2>1. gc \in Packets
    BY DEF Init, Packets, Phases
  <2>2. polls \in 0..MAX_POLLS
    BY ControllerConstants DEF Init
  <2>3. data \in Data /\ bb_data \in Data
    BY DEF Init, Data, GameStates, Phases
  <2>4. previousGameState \in GameStates /\ gameState \in GameStates
    BY DEF Init, GameStates
  <2>5. why \in Reasons /\ bb_why \in Reasons
    BY DEF Init, Reasons
  <2> QED
    BY <2>1, <2>2, <2>3, <2>4, <2>5 DEF Init, TypeOK
<1>2. TypeOK /\ [Next]_vars => TypeOK'
  <2> SUFFICES ASSUME TypeOK, [Next]_vars PROVE TypeOK'
    OBVIOUS
  <2> USE DEF TypeOK
  <2>1. CASE Referee
    <3>1. \A s \in Phases : Follows[s] \subseteq Phases
      BY DEF Follows, Phases
    <3>2. gc' \in Packets
      BY <2>1, <3>1 DEF Referee, Packets
    <3> QED
      BY <2>1, <3>2 DEF Referee, thread, blackboard, history
  <2>2. CASE Penalise
    <3>1. gc' \in Packets
      BY <2>2 DEF Penalise, Packets
    <3> QED
      BY <2>2, <3>1 DEF Penalise, thread, blackboard, history
  <2>3. CASE TickBegin
    BY <2>3 DEF TickBegin, Step, blackboard
  <2>4. CASE PollNothing
    <3>1. polls' \in 0..MAX_POLLS
      BY <2>4, ControllerConstants DEF PollNothing
    <3> QED
      BY <2>4, <3>1 DEF PollNothing, Step, blackboard, history
  <2>5. CASE PollPacket
    <3>1. polls' \in 0..MAX_POLLS
      BY <2>5, ControllerConstants DEF PollPacket
    <3>2. PICK penalised \in PenaltiesAt(gc, team_red) :
            /\ data' = [gc EXCEPT !.state =
                          ParseState(data.state, gc.state, penalised)]
            /\ calm' = (calm /\ gc.state = "SET" /\ ~penalised)
      BY <2>5 DEF PollPacket
    <3>3. gc \in Data /\ gc.state \in Phases /\ data.state \in GameStates
      BY PacketsAreData DEF Packets, Data
    <3>4. penalised \in BOOLEAN
      BY <3>3, PenaltyType
    <3>5. ParseState(data.state, gc.state, penalised) \in GameStates
      BY <3>3, <3>4, States
    <3>6. data' \in Data
      BY <3>2, <3>3, <3>5 DEF Data
    <3>7. why' \in Reasons
      BY <2>5 DEF PollPacket, Reasons
    <3>8. calm' \in BOOLEAN
      BY <3>2
    <3>9. pc' = "poll"
      BY <2>5 DEF PollPacket, Step
    <3>10. UNCHANGED <<gc, team_red, previousGameState, gameState,
                       bb_data, bb_our_penalty, bb_gameState, bb_why>>
      BY <2>5 DEF PollPacket, blackboard
    <3> QED
      BY <3>1, <3>6, <3>7, <3>8, <3>9, <3>10
  <2>6. CASE NoButton
    <3>1. polls' \in 0..MAX_POLLS
      BY <2>6, ControllerConstants DEF NoButton
    <3> QED
      BY <2>6, <3>1 DEF NoButton, Step, blackboard, history
  <2>7. CASE Button
    <3>1. polls' \in 0..MAX_POLLS
      BY <2>7, ControllerConstants DEF Button
    <3>2. data.state \in GameStates
      BY DEF Data
    <3>3. PressState(data.state) \in GameStates
      BY <3>2, States DEF PressState, GameStates, Phases, Penalised
    <3>4. data' = [SetPenalty(data, team_red,
                              PressState(data.state) = "PENALISED")
                     EXCEPT !.state = PressState(data.state)]
      BY <2>7 DEF Button
    <3>5. data' \in Data
      BY <3>3, <3>4, PressType
    <3>6. why' \in Reasons
      BY <2>7 DEF Button, Reasons
    <3> QED
      BY <2>7, <3>1, <3>5, <3>6 DEF Button, Step, blackboard
  <2>8. CASE Decide
    <3>1. PICK whistle \in BOOLEAN, agreed \in BOOLEAN :
            /\ gameState' = ToldState(data.state, previousGameState, whistle)
            /\ data' = [data EXCEPT !.state =
                 TeamState(data.state, IF agreed THEN 1 ELSE 0, 1, TRUE)]
            /\ why' = [why EXCEPT !.licence =
                         @ \/ (agreed /\ data.state = "SET")]
      BY <2>8 DEF Decide
    <3>2. data.state \in GameStates
      BY DEF Data
    <3>3. TeamState(data.state, IF agreed THEN 1 ELSE 0, 1, TRUE) \in GameStates
      BY <3>2 DEF TeamState, GameStates, Phases
    <3>4. gameState' \in GameStates
      BY <3>1, <3>2, States DEF ToldState, GameStates, Phases
    <3>5. data' \in Data
      BY <3>1, <3>3 DEF Data
    <3>6. why' \in Reasons
      BY <3>1 DEF Reasons
    <3>7. team_red' \in BOOLEAN
      BY <2>8 DEF Decide
    <3>8. pc' = "write_data"
      BY <2>8 DEF Decide, Step
    <3>9. UNCHANGED <<gc, polls, previousGameState, bb_data, bb_our_penalty,
                       bb_gameState, bb_why, calm>>
      BY <2>8 DEF Decide, blackboard
    <3> QED
      BY <3>4, <3>5, <3>6, <3>7, <3>8, <3>9
  <2>9. CASE WriteData
    BY <2>9 DEF WriteData, Step
  <2>10. CASE WriteTeam
    <3>1. bb_our_penalty' \in BOOLEAN
      BY <2>10 DEF WriteTeam, Data
    <3> QED
      BY <2>10, <3>1 DEF WriteTeam, Step, history
  <2>11. CASE WriteState
    <3>1. bb_gameState' \in GameStates
      BY <2>11 DEF WriteState, Data
    <3> QED
      BY <2>11, <3>1 DEF WriteState, Step, history
  <2>12. CASE WriteOverride
    <3>1. bb_gameState' \in GameStates /\ "INVALID" \in GameStates
      BY <2>12 DEF WriteOverride, GameStates
    <3> QED
      BY <2>12, <3>1 DEF WriteOverride, Step
  <2>13. CASE Restart
    <3>1. polls' \in 0..MAX_POLLS /\ "INVALID" \in GameStates
      BY <2>13, ControllerConstants DEF Restart, GameStates
    <3> QED
      BY <2>13, <3>1 DEF Restart, blackboard
  <2>14. CASE UNCHANGED vars
    BY <2>14 DEF vars, thread, blackboard, history
  <2> QED
    BY <2>1, <2>2, <2>3, <2>4, <2>5, <2>6, <2>7, <2>8, <2>9, <2>10, <2>11,
       <2>12, <2>13, <2>14 DEF Next, Tick
<1> QED
  BY <1>1, <1>2, PTL DEF Spec
-----------------------------------------------------------------------------
(* Penalties and licences.  What the properties say of the blackboard must *)
(* hold of the thread's own copy at every step of the tick as well.        *)
Explained(d, reason) ==
  /\ d.mine /\ reason.sound /\ ~reason.touched => d.state \in Penalised
  /\ d.state \in Penalised /\ reason.sound => d.mine \/ reason.touched
  /\ d.state = "PLAYING" => reason.licence

IInv == Explained(data, why) /\ Explained(bb_data, bb_why)

(* The side of a packet decides between this robot's penalty and another's.*)
LEMMA SoundPenalty ==
  ASSUME NEW d \in Data, NEW red \in BOOLEAN, NEW p \in PenaltiesAt(d, red),
         red = (d.side = "RED")
  PROVE  p = d.mine
  BY DEF PenaltiesAt

LEMMA ParsePenalised ==
  ASSUME NEW s, NEW phase
  PROVE  ParseState(s, phase, TRUE) \in Penalised
  BY DEF ParseState, Penalised

LEMMA ParseFree ==
  ASSUME NEW s, NEW phase \in Phases
  PROVE  ParseState(s, phase, FALSE) \notin Penalised
  BY DEF ParseState, Penalised, Phases

LEMMA ParsePlaying ==
  ASSUME NEW s, NEW phase, NEW p \in BOOLEAN,
         ParseState(s, phase, p) = "PLAYING"
  PROVE  phase = "PLAYING" \/ (phase = "SET" /\ s = "PLAYING")
  BY DEF ParseState

LEMMA PacketExplained ==
  ASSUME TypeOK, IInv, PollPacket
  PROVE  Explained(data', why')
<1>1. PICK p \in PenaltiesAt(gc, team_red) :
        data' = [gc EXCEPT !.state = ParseState(data.state, gc.state, p)]
  BY DEF PollPacket
<1>2. gc \in Data /\ team_red \in BOOLEAN
  BY PacketsAreData DEF TypeOK
<1>3. p \in BOOLEAN
  BY <1>2, PenaltyType
<1>4. data'.mine = gc.mine /\ data'.state = ParseState(data.state, gc.state, p)
  BY <1>1, <1>2 DEF Data
<1>5. /\ why'.sound = (team_red = (gc.side = "RED"))
      /\ why'.licence = (gc.state = "PLAYING" \/ (gc.state = "SET" /\ why.licence))
  BY DEF PollPacket
<1>6. ASSUME data'.mine, why'.sound PROVE data'.state \in Penalised
  <2>1. p = gc.mine
    BY <1>2, <1>5, <1>6, SoundPenalty
  <2>2. p = TRUE
    BY <1>3, <1>4, <1>6, <2>1
  <2> QED
    BY <1>4, <2>2, ParsePenalised
<1>7. ASSUME data'.state = "PLAYING" PROVE why'.licence
  <2>1. gc.state = "PLAYING" \/ (gc.state = "SET" /\ data.state = "PLAYING")
    BY <1>3, <1>4, <1>7, ParsePlaying
  <2>2. data.state = "PLAYING" => why.licence
    BY DEF IInv, Explained
  <2> QED
    BY <1>5, <2>1, <2>2
<1>8. ASSUME data'.state \in Penalised, why'.sound PROVE data'.mine
  <2>1. p = gc.mine
    BY <1>2, <1>5, <1>8, SoundPenalty
  <2>2. gc.state \in Phases
    BY DEF TypeOK, Packets
  <2>3. p # FALSE
    BY <1>4, <1>8, <2>2, ParseFree
  <2> QED
    BY <1>3, <1>4, <2>1, <2>3
<1> QED
  BY <1>6, <1>7, <1>8 DEF Explained

LEMMA ButtonExplained ==
  ASSUME TypeOK, IInv, Button
  PROVE  Explained(data', why')
<1> DEFINE s == PressState(data.state)
<1>1. data' = [SetPenalty(data, team_red, s = "PENALISED") EXCEPT !.state = s]
  BY DEF Button
<1>2. s \in GameStates
  BY DEF PressState, GameStates, Phases, Penalised
<1>3. data \in Data
  BY DEF TypeOK
<1> HIDE DEF s
<1>4. data'.state = s
  BY <1>1, <1>3 DEF SetPenalty, Data
<1>5. why'.touched = TRUE /\ why'.licence = (why.licence \/ s = "PLAYING")
  BY DEF Button, TypeOK, Reasons, s
<1> QED
  BY <1>4, <1>5 DEF Explained

LEMMA DecideExplained ==
  ASSUME TypeOK, IInv, Decide
  PROVE  Explained(data', why')
<1>1. PICK agreed \in BOOLEAN :
        /\ data' = [data EXCEPT !.state =
             TeamState(data.state, IF agreed THEN 1 ELSE 0, 1, TRUE)]
        /\ why' = [why EXCEPT !.licence = @ \/ (agreed /\ data.state = "SET")]
  BY DEF Decide
<1>2. TeamState(data.state, IF agreed THEN 1 ELSE 0, 1, TRUE)
        = IF data.state = "SET" /\ agreed THEN "PLAYING" ELSE data.state
  BY DEF TeamState, Enough
<1>3. /\ data'.mine = data.mine
      /\ data'.state = IF data.state = "SET" /\ agreed THEN "PLAYING"
                                                      ELSE data.state
  BY <1>1, <1>2 DEF TypeOK, Data
<1>4. /\ why'.sound = why.sound /\ why'.touched = why.touched
      /\ why'.licence = (why.licence \/ (agreed /\ data.state = "SET"))
  BY <1>1 DEF TypeOK, Reasons
<1>5. Explained(data, why)
  BY DEF IInv
<1>6. "SET" \notin Penalised /\ "PLAYING" \notin Penalised
  BY DEF Penalised
<1>7. CASE data.state = "SET" /\ agreed
  BY <1>3, <1>4, <1>5, <1>6, <1>7 DEF Explained
<1>8. CASE ~(data.state = "SET" /\ agreed)
  BY <1>3, <1>4, <1>5, <1>8 DEF Explained
<1> QED
  BY <1>7, <1>8

LEMMA ExplainedStays ==
  TypeOK /\ IInv /\ [Next]_vars => IInv'
<1> SUFFICES ASSUME TypeOK, IInv, [Next]_vars PROVE IInv'
  OBVIOUS
<1>1. CASE PollPacket
  <2>1. UNCHANGED <<bb_data, bb_why>>
    BY <1>1 DEF PollPacket, blackboard
  <2> QED
    BY <1>1, <2>1, PacketExplained DEF IInv
<1>2. CASE Button
  <2>1. UNCHANGED <<bb_data, bb_why>>
    BY <1>2 DEF Button, blackboard
  <2> QED
    BY <1>2, <2>1, ButtonExplained DEF IInv
<1>3. CASE Decide
  <2>1. UNCHANGED <<bb_data, bb_why>>
    BY <1>3 DEF Decide, blackboard
  <2> QED
    BY <1>3, <2>1, DecideExplained DEF IInv
<1>4. CASE TickBegin \/ Restart
  <2>1. /\ data' = bb_data /\ why' = bb_why
        /\ UNCHANGED <<bb_data, bb_why>>
    BY <1>4 DEF TickBegin, Restart, blackboard
  <2> QED
    BY <2>1 DEF IInv
<1>5. CASE WriteData
  <2>1. bb_data' = data /\ bb_why' = why /\ UNCHANGED <<data, why>>
    BY <1>5 DEF WriteData
  <2> QED
    BY <2>1 DEF IInv
<1>6. CASE \/ Referee \/ Penalise \/ PollNothing \/ NoButton \/ WriteTeam
           \/ WriteState \/ WriteOverride \/ UNCHANGED vars
  <2>1. UNCHANGED <<data, why, bb_data, bb_why>>
    BY <1>6 DEF Referee, Penalise, PollNothing, NoButton, WriteTeam,
                WriteState, WriteOverride, vars, thread, blackboard, history
  <2> QED
    BY <2>1 DEF IInv
<1> QED
  BY <1>1, <1>2, <1>3, <1>4, <1>5, <1>6 DEF Next, Tick

LEMMA AlwaysExplained == Spec => []IInv
<1>1. Init => IInv
  <2> SUFFICES ASSUME Init PROVE IInv
    OBVIOUS
  <2>1. bb_data.state = "INITIAL" /\ bb_data.mine = FALSE
    BY DEF Init
  <2>2. "INITIAL" \notin Penalised
    BY DEF Penalised
  <2>3. Explained(bb_data, bb_why)
    BY <2>1, <2>2 DEF Explained
  <2> QED
    BY <2>3 DEF Init, IInv
<1> QED
  BY <1>1, ExplainedStays, TypeCorrect, PTL DEF Spec

(* A penalised robot is penalised on its blackboard.                       *)
THEOREM Penalty == Spec => []PenaltyObeyed
<1>1. IInv => PenaltyObeyed
  BY DEF IInv, Explained, PenaltyObeyed
<1> QED
  BY <1>1, AlwaysExplained, PTL

(* A robot that stands aside was penalised, or its button was pressed.     *)
THEOREM Cause == Spec => []PenaltyHasCause
<1>1. IInv => PenaltyHasCause
  BY DEF IInv, Explained, PenaltyHasCause
<1> QED
  BY <1>1, AlwaysExplained, PTL

(* A robot plays only when a packet, its button or its team said so.       *)
THEOREM Licence == Spec => []PlayNeedsLicence
<1>1. IInv => PlayNeedsLicence
  BY DEF IInv, Explained, PlayNeedsLicence
<1> QED
  BY <1>1, AlwaysExplained, PTL

-----------------------------------------------------------------------------
(* An early start.  Through a calm tick the thread's copy plays on.        *)
StillPlays ==
  (pc \in {"poll", "decide", "write_data"} /\ calm /\ bb_data.state = "PLAYING")
    => data.state = "PLAYING"

LEMMA PlaysOn == TypeOK /\ StillPlays /\ [Next]_vars => StillPlays'
<1> SUFFICES ASSUME TypeOK, StillPlays, [Next]_vars PROVE StillPlays'
  OBVIOUS
<1>1. CASE PollPacket
  <2>1. PICK p \in PenaltiesAt(gc, team_red) :
          /\ data' = [gc EXCEPT !.state = ParseState(data.state, gc.state, p)]
          /\ calm' = (calm /\ gc.state = "SET" /\ ~p)
    BY <1>1 DEF PollPacket
  <2>2. gc \in Data
    BY PacketsAreData DEF TypeOK
  <2>3. data'.state = ParseState(data.state, gc.state, p)
    BY <2>1, <2>2 DEF Data
  <2>4. pc = "poll" /\ bb_data' = bb_data
    BY <1>1 DEF PollPacket, Step, blackboard
  <2>5. p = FALSE => ParseState("PLAYING", "SET", p) = "PLAYING"
    BY DEF ParseState
  <2>6. p \in BOOLEAN
    BY <2>2, PenaltyType DEF TypeOK
  <2> QED
    BY <2>1, <2>3, <2>4, <2>5, <2>6 DEF StillPlays
<1>2. CASE Decide
  <2>1. PICK agreed \in BOOLEAN :
          data' = [data EXCEPT !.state =
                     TeamState(data.state, IF agreed THEN 1 ELSE 0, 1, TRUE)]
    BY <1>2 DEF Decide
  <2>2. data.state = "PLAYING" => data'.state = "PLAYING"
    BY <2>1 DEF TypeOK, Data, TeamState
  <2>3. pc = "decide" /\ UNCHANGED <<calm, bb_data>>
    BY <1>2 DEF Decide, Step, blackboard
  <2> QED
    BY <2>2, <2>3 DEF StillPlays
<1>3. CASE TickBegin
  BY <1>3 DEF TickBegin, StillPlays, blackboard
<1>4. CASE PollNothing \/ NoButton
  BY <1>4 DEF PollNothing, NoButton, Step, StillPlays, blackboard, history
<1>5. CASE Button
  BY <1>5 DEF Button, StillPlays
<1>6. CASE WriteData \/ WriteTeam \/ WriteState \/ WriteOverride \/ Restart
  BY <1>6 DEF WriteData, WriteTeam, WriteState, WriteOverride, Restart, Step,
              StillPlays
<1>7. CASE Referee \/ Penalise \/ UNCHANGED vars
  BY <1>7 DEF Referee, Penalise, vars, thread, blackboard, history, StillPlays
<1> QED
  BY <1>1, <1>2, <1>3, <1>4, <1>5, <1>6, <1>7 DEF Next, Tick

(* A robot that plays is not stopped by a referee who still says SET.      *)
THEOREM EarlyStart == Spec => EarlyStartKept
<1>1. Init => StillPlays
  BY DEF Init, StillPlays
<1>2. StillPlays /\ [Next]_vars
        => [(pc = "write_data" /\ pc' = "write_team" /\ calm
               /\ bb_data.state = "PLAYING")
              => bb_data'.state = "PLAYING"]_vars
  <2> SUFFICES ASSUME StillPlays, [Next]_vars,
                      pc = "write_data", pc' = "write_team", calm,
                      bb_data.state = "PLAYING"
               PROVE  bb_data'.state = "PLAYING"
    OBVIOUS
  <2>1. WriteData
    BY DEF Next, Tick, Referee, Penalise, TickBegin, PollNothing, PollPacket,
           NoButton, Button, Decide, WriteTeam, WriteState, WriteOverride,
           Restart, Step, vars, thread
  <2> QED
    BY <2>1 DEF WriteData, StillPlays
<1> QED
  BY <1>1, <1>2, PlaysOn, TypeCorrect, PTL DEF Spec, EarlyStartKept
-----------------------------------------------------------------------------
(* The referee is obeyed.  A tick is always possible, so weak fairness of  *)
(* Tick says TickRuns; SF_vars(PollPacket) says PacketsHeard, since the    *)
(* poll can hear a packet whenever the thread listens.                     *)
TickRuns     == []<><<Tick>>_vars
Listening    == pc = "poll" /\ polls < MAX_POLLS
PacketsHeard == <>[]~Listening \/ []<><<PollPacket>>_vars

(* Between two ticks the thread's copy of the data is the blackboard's.    *)
Inv ==
  /\ TypeOK
  /\ pc # "poll" => polls = 0
  /\ pc \in {"begin", "write_team", "write_state", "override"}
       => bb_data = data

LEMMA InvAlways == Spec => []Inv
<1>1. Init => pc = "begin" /\ polls = 0 /\ bb_data = data
  BY DEF Init
<1>2. TypeOK /\ TypeOK' /\ Inv /\ [Next]_vars => Inv'
  BY DEF Inv, Next, Tick, Referee, Penalise, TickBegin, PollNothing,
         PollPacket, NoButton, Button, Decide, WriteData, WriteTeam,
         WriteState, WriteOverride, Restart, Step, vars, thread, blackboard
<1>3. TypeOK /\ pc = "begin" /\ polls = 0 /\ bb_data = data => Inv
  BY DEF Inv
<1> QED
  BY <1>1, <1>2, <1>3, TypeCorrect, PTL DEF Spec

(* The steps of a tick, polls apart.                                       *)
Steps == {<<"begin", "poll">>, <<"decide", "write_data">>,
          <<"write_data", "write_team">>, <<"write_team", "write_state">>,
          <<"write_state", "override">>, <<"override", "begin">>}

TickPlace ==
  \/ <<pc, pc'>> \in Steps
  \/ pc = "poll" /\ pc' = "decide"
  \/ pc = "poll" /\ pc' = "poll" /\ polls' = polls + 1

At(s) == pc = s

LEMMA Place ==
  ASSUME Inv, [Next]_vars, [~Restart]_vars
  PROVE  /\ pc' = pc \/ Tick
         /\ Tick => TickPlace
         /\ ~Tick => polls' = polls
<1>1. Tick => TickPlace
  BY DEF Tick, TickBegin, PollNothing, PollPacket, NoButton, Button, Decide,
         WriteData, WriteTeam, WriteState, WriteOverride, Step, Steps, TickPlace
<1>2. CASE ~Tick
  <2>1. Referee \/ Penalise \/ UNCHANGED vars
    BY <1>2 DEF Next
  <2> QED
    BY <1>2, <2>1 DEF Referee, Penalise, vars, thread
<1> QED
  BY <1>1, <1>2

(* A thread that is not restarted goes through its tick...                 *)
Running == []Inv /\ [][Next]_vars /\ [][~Restart]_vars /\ TickRuns

TickGoesOn(s, t) == Running => (At(s) ~> At(t))

LEMMA GoesOn ==
  ASSUME NEW s, NEW t, <<s, t>> \in Steps
  PROVE  TickGoesOn(s, t)
<1>1. Inv /\ [Next]_vars /\ [~Restart]_vars
        => /\ At(s) => At(s)' \/ At(t)'
           /\ At(s) /\ Tick => At(t)'
  BY Place DEF At, Steps, TickPlace
<1> QED
  BY <1>1, PTL DEF TickGoesOn, Running, TickRuns

-----------------------------------------------------------------------------
(* A non-empty set of natural numbers has a least element: the intervals   *)
(* 1..k are well-founded by inclusion.                                     *)
LEMMA LeastElement ==
  ASSUME NEW S, S \subseteq Nat, S # {}
  PROVE  \E n \in S : \A m \in S : n <= m
<1> DEFINE Below   == {1..k : k \in S}
           Smaller == StrictSubsetOrdering(Nat)
<1>1. Below \subseteq FiniteSubsetsOf(Nat) /\ Below # {}
  <2>1. \A k \in Nat : 1..k \in FiniteSubsetsOf(Nat)
    BY FS_Interval DEF FiniteSubsetsOf
  <2> QED
    BY <2>1
<1>2. \E X \in Below : \A Y \in Below : <<Y, X>> \notin Smaller
  <2>1. IsWellFoundedOn(Smaller, FiniteSubsetsOf(Nat))
    BY FS_StrictSubsetOrderingWellFounded
  <2> HIDE DEF Below, Smaller
  <2> QED
    BY <1>1, <2>1, WFMin, Zenon
<1>3. PICK n \in S : \A m \in S : <<1..m, 1..n>> \notin Smaller
  BY <1>2
<1>4. ASSUME NEW m \in S, m < n PROVE FALSE
  <2>1. n \in 1..n /\ n \notin 1..m
    BY <1>4
  <2>2. 1..m \subseteq 1..n /\ 1..m \in SUBSET Nat /\ 1..n \in SUBSET Nat
    BY <1>4
  <2> QED
    BY <1>3, <2>1, <2>2 DEF StrictSubsetOrdering
<1> QED
  BY <1>4

(* Induction.  The theorems of the library take a predicate as parameter,  *)
(* which the provers cannot instantiate; here it is the table of its       *)
(* values, a function.  Named(h) says nothing: it brings the table h to    *)
(* the provers' attention.                                                 *)
Named(h) == TRUE

LEMMA TableInduction ==
  \A h : Named(h) =>
    (/\ h[0] = TRUE
     /\ \A n \in Nat : h[n] = TRUE => h[n + 1] = TRUE
     => \A n \in Nat : h[n] = TRUE)
<1> SUFFICES ASSUME NEW h, h[0] = TRUE,
                    \A n \in Nat : h[n] = TRUE => h[n + 1] = TRUE,
                    {n \in Nat : h[n] # TRUE} # {}
             PROVE  FALSE
  OBVIOUS
<1>1. PICK n \in Nat : /\ h[n] # TRUE
                       /\ \A m \in Nat : h[m] # TRUE => n <= m
  BY LeastElement
<1>2. n # 0
  BY <1>1, Zenon
<1>3. n - 1 \in Nat /\ ~(n <= n - 1) /\ (n - 1) + 1 = n
  BY <1>2
<1>4. h[n - 1] = TRUE
  BY <1>1, <1>3, Zenon
<1>5. h[(n - 1) + 1] = TRUE
  BY <1>3, <1>4, Zenon
<1> QED
  BY <1>1, <1>3, <1>5, Zenon

-----------------------------------------------------------------------------
(* ... and the polls of a tick end, by induction on those left.            *)
Polling(n)    == pc = "poll" /\ MAX_POLLS + 1 - polls <= n
PollsEndBy(n) == Running => [](Polling(n) => <>At("decide"))
PollsEnd(n)   == \A m \in Nat : m = n => PollsEndBy(m)

LEMMA PollsInduction ==
  /\ PollsEnd(0)
  /\ \A n \in Nat : PollsEnd(n) => PollsEnd(n + 1)
  => \A n \in Nat : PollsEnd(n)
<1>1. Named([n \in Nat |-> IF PollsEnd(n) THEN TRUE ELSE FALSE])
  BY DEF Named
<1> QED
  BY <1>1, TableInduction

LEMMA PollsZero == PollsEnd(0)
<1>1. Inv => ~Polling(0)
  BY ControllerConstants DEF Inv, TypeOK, Polling
<1>2. PollsEndBy(0)
  BY <1>1, PTL DEF PollsEndBy, Running
<1> QED
  BY <1>2 DEF PollsEnd

LEMMA PollsStep == \A n \in Nat : PollsEnd(n) => PollsEnd(n + 1)
<1> SUFFICES ASSUME NEW n \in Nat
             PROVE  PollsEndBy(n) => PollsEndBy(n + 1)
  BY DEF PollsEnd
<1>1. Inv /\ [Next]_vars /\ [~Restart]_vars /\ Polling(n + 1)
        => /\ Polling(n + 1)' \/ At("decide")'
           /\ Tick => Polling(n)' \/ At("decide")'
  <2> SUFFICES ASSUME Inv, [Next]_vars, [~Restart]_vars, Polling(n + 1)
               PROVE  /\ Polling(n + 1)' \/ At("decide")'
                      /\ Tick => Polling(n)' \/ At("decide")'
    OBVIOUS
  <2>1. polls \in Int /\ MAX_POLLS \in Int
    BY ControllerConstants DEF Inv, TypeOK
  <2>2. CASE Tick
    <3>1. \/ pc' = "decide"
          \/ pc' = "poll" /\ polls' = polls + 1
      BY <2>2, Place DEF Polling, Steps, TickPlace
    <3> QED
      BY <2>1, <3>1 DEF Polling, At
  <2>3. CASE ~Tick
    <3>1. pc' = pc /\ polls' = polls
      BY <2>3, Place
    <3> QED
      BY <2>3, <3>1 DEF Polling
  <2> QED
    BY <2>2, <2>3
<1> QED
  BY <1>1, PTL DEF PollsEndBy, Running, TickRuns

LEMMA PollsOver == Running => (At("poll") => <>At("decide"))
<1> SUFFICES ASSUME Running, At("poll") PROVE <>At("decide")
  OBVIOUS
<1>1. Inv
  BY PTL DEF Running
<1>2. MAX_POLLS + 1 - polls \in Nat
  BY <1>1, ControllerConstants DEF Inv, TypeOK
<1>3. PICK n \in Nat : Polling(n)
  BY <1>2 DEF Polling, At
<1>4. PollsEndBy(n)
  BY PollsInduction, PollsZero, PollsStep DEF PollsEnd
<1> QED
  BY <1>3, <1>4, PTL DEF PollsEndBy

(* So it comes by every place again and again.                             *)
LEMMA Rounds ==
  Running => /\ []<>At("begin") /\ []<>At("decide")
             /\ []<>At("write_data") /\ []<>At("write_state")
<1>1. /\ TickGoesOn("begin", "poll") /\ TickGoesOn("decide", "write_data")
      /\ TickGoesOn("write_data", "write_team")
      /\ TickGoesOn("write_team", "write_state")
      /\ TickGoesOn("write_state", "override")
      /\ TickGoesOn("override", "begin")
  BY GoesOn DEF Steps
<1>2. Running => (At("poll") ~> At("decide"))
  BY PollsOver, PTL DEF Running, TickRuns
<1>3. Inv => \/ At("begin") \/ At("poll") \/ At("decide") \/ At("write_data")
             \/ At("write_team") \/ At("write_state") \/ At("override")
  BY DEF Inv, TypeOK, At
<1>4. Running => []<>At("decide")
  BY <1>1, <1>2, <1>3, PTL DEF Running, TickGoesOn
<1>5. Running => []<>At("write_state")
  BY <1>1, <1>4, PTL DEF Running, TickGoesOn
<1>6. Running => []<>At("begin")
  BY <1>1, <1>5, PTL DEF Running, TickGoesOn
<1> QED
  BY <1>1, <1>4, <1>5, <1>6, PTL DEF Running, TickGoesOn

LEMMA PacketsCome ==
  ASSUME MAX_POLLS > 0
  PROVE  Running /\ PacketsHeard => []<><<PollPacket>>_vars
<1>1. Inv /\ At("begin") /\ [Next]_vars /\ [~Restart]_vars
        => /\ At("begin")' \/ Listening'
           /\ Tick => Listening'
  <2> SUFFICES ASSUME Inv, At("begin"), [Next]_vars, [~Restart]_vars
               PROVE  /\ At("begin")' \/ Listening'
                      /\ Tick => Listening'
    OBVIOUS
  <2>1. CASE Tick
    <3>1. TickBegin
      BY <2>1 DEF At, Tick, PollNothing, PollPacket, NoButton, Button, Decide,
                  WriteData, WriteTeam, WriteState, WriteOverride, Step
    <3>2. pc' = "poll" /\ polls' = 0
      BY <3>1 DEF TickBegin, Step, Inv
    <3> QED
      BY <3>2 DEF Listening
  <2>2. CASE ~Tick
    BY <2>2, Place DEF At
  <2> QED
    BY <2>1, <2>2
<1> QED
  BY <1>1, Rounds, PTL DEF Running, TickRuns, PacketsHeard
-----------------------------------------------------------------------------
(* The referee stays in phase p, and nobody touches the robot.             *)
Calls(p)   == gc.state = p /\ ~gc.mine
Allowed(p) == {p} \cup (IF p = "SET" THEN {"PLAYING"} ELSE {})

(* What becomes right, and stays so, in turn.                              *)
SideKnown    == data.side = gc.side
TeamKnown    == SideKnown /\ team_red = (gc.side = "RED")
Agrees(p)    == TeamKnown /\ data.state \in Allowed(p)
Publishes(p) == Agrees(p) /\ bb_data.state \in Allowed(p)
Obeys(p)     == Publishes(p) /\ bb_gameState \in Allowed(p)

(* Nobody but the thread moves, and nobody presses the button.             *)
LEMMA Undisturbed ==
  ASSUME [Next]_vars, [~Restart]_vars, [~Button]_vars, NEW p \in Phases,
         Calls(p), Calls(p)', TypeOK
  PROVE  /\ gc' = gc
         /\ \/ UNCHANGED <<pc, data, team_red, blackboard>>
            \/ TickBegin \/ PollPacket \/ Decide \/ WriteData
            \/ WriteState \/ WriteOverride
            \/ WriteTeam /\ UNCHANGED <<data, team_red, bb_data, bb_gameState>>
            \/ NoButton /\ UNCHANGED <<data, team_red, bb_data, bb_gameState>>
<1>1. ~Referee
  <2> SUFFICES ASSUME Referee PROVE FALSE
    OBVIOUS
  <2>1. PICK s \in Follows[p] : gc'.state = s
    BY DEF Referee, Calls, TypeOK, Packets
  <2>2. p \notin Follows[p]
    BY DEF Follows, Phases
  <2> QED
    BY <2>1, <2>2 DEF Calls
<1>2. ~Penalise
  BY DEF Penalise, Calls, TypeOK, Packets
<1>3. CASE UNCHANGED vars
  BY <1>3 DEF vars, thread
<1>4. CASE Tick /\ ~Button
  BY <1>4 DEF Tick, TickBegin, PollNothing, PollPacket, NoButton, Decide,
              WriteData, WriteTeam, WriteState, WriteOverride, Step, blackboard
<1> QED
  BY <1>1, <1>2, <1>3, <1>4 DEF Next

(* One thing follows the other: the next packet brings the side, the next  *)
(* decision the team, the next packet after that the phase, and the writes *)
(* of the tick publish it.  None is lost again.                            *)
LEMMA Lessons ==
  ASSUME Inv, [Next]_vars, [~Restart]_vars, [~Button]_vars, NEW p \in Phases,
         Calls(p), Calls(p)'
  PROVE  /\ SideKnown => SideKnown'
         /\ PollPacket => SideKnown'
         /\ TeamKnown => TeamKnown'
         /\ SideKnown /\ At("decide") /\ Tick => TeamKnown'
         /\ Agrees(p) => Agrees(p)'
         /\ TeamKnown /\ PollPacket => Agrees(p)'
         /\ Publishes(p) => Publishes(p)'
         /\ Agrees(p) /\ At("write_data") /\ Tick => Publishes(p)'
         /\ Obeys(p) => Obeys(p)'
         /\ Publishes(p) /\ At("write_state") /\ Tick => Obeys(p)'
<1> USE DEF Inv, At, SideKnown, TeamKnown, Agrees, Publishes, Obeys
<1>1. gc' = gc
  BY Undisturbed
<1>2. CASE TickBegin
  <2>1. data = bb_data /\ data' = data
    BY <1>2 DEF TickBegin, Step
  <2>2. UNCHANGED <<team_red, bb_data, bb_gameState>> /\ pc = "begin"
    BY <1>2 DEF TickBegin, Step, blackboard
  <2>3. ~PollPacket
    BY <2>2 DEF PollPacket, Step
  <2> QED
    BY <1>1, <2>1, <2>2, <2>3
<1>3. CASE PollPacket
  <2>1. PICK penalised \in PenaltiesAt(gc, team_red) :
          data' = [gc EXCEPT !.state =
                     ParseState(data.state, gc.state, penalised)]
    BY <1>3 DEF PollPacket
  <2>2. /\ data'.side = gc.side
        /\ data'.state = ParseState(data.state, p, penalised)
    BY <2>1 DEF TypeOK, Packets, Calls
  <2>3. TeamKnown => penalised = FALSE
    BY SoundPenalty, PacketsAreData DEF TypeOK, Calls, Packets
  <2>4. TeamKnown => data'.state \in Allowed(p)
    BY <2>2, <2>3 DEF ParseState, Allowed
  <2>5. UNCHANGED <<team_red, bb_data, bb_gameState>> /\ pc = "poll"
    BY <1>3 DEF PollPacket, Step, blackboard
  <2> QED
    BY <1>1, <2>2, <2>4, <2>5
<1>4. CASE Decide
  <2>1. PICK agreed \in BOOLEAN :
          data' = [data EXCEPT !.state =
                     TeamState(data.state, IF agreed THEN 1 ELSE 0, 1, TRUE)]
    BY <1>4 DEF Decide
  <2>2. /\ data'.side = data.side
        /\ data.state \in Allowed(p) => data'.state \in Allowed(p)
    BY <2>1 DEF TypeOK, Data, TeamState, Allowed
  <2>3. /\ team_red' = (data.side = "RED")
        /\ UNCHANGED <<bb_data, bb_gameState>> /\ pc = "decide"
    BY <1>4 DEF Decide, Step, blackboard
  <2>4. ~PollPacket
    BY <2>3 DEF PollPacket, Step
  <2> QED
    BY <1>1, <2>2, <2>3, <2>4
<1>5. CASE WriteData
  BY <1>1, <1>5 DEF WriteData, Step, PollPacket
<1>6. CASE WriteState
  BY <1>1, <1>6 DEF WriteState, Step, PollPacket
<1>7. CASE WriteOverride
  <2>1. UNCHANGED <<data, team_red, bb_data>> /\ pc = "override"
    BY <1>7 DEF WriteOverride, Step
  <2>2. \/ bb_gameState' = bb_gameState
        \/ data.state = "SET" /\ bb_gameState' = "PLAYING"
    BY <1>7 DEF WriteOverride
  <2>3. "SET" \in Allowed(p) => "PLAYING" \in Allowed(p)
    BY DEF Allowed
  <2>4. ~PollPacket
    BY <2>1 DEF PollPacket, Step
  <2> QED
    BY <1>1, <2>1, <2>2, <2>3, <2>4
<1>8. CASE UNCHANGED <<data, team_red, bb_data, bb_gameState>>
           /\ ~TickBegin /\ ~PollPacket /\ ~Decide /\ ~WriteData /\ ~WriteState
           /\ ~WriteOverride
  <2>1. Tick => At("poll") \/ At("write_team")
    BY <1>8 DEF Tick, PollNothing, NoButton, Button, WriteTeam, Step
  <2> QED
    BY <1>1, <1>8, <2>1
<1> QED
  BY <1>2, <1>3, <1>4, <1>5, <1>6, <1>7, <1>8, Undisturbed DEF blackboard

(* The hypotheses of RefereeObeyed, once they hold for good.               *)
Settled(p) ==
  Running /\ PacketsHeard /\ [][~Button]_vars /\ []Calls(p)

Obedient(p) == Settled(p) => <>[]Obeys(p)

LEMMA LearnsAll ==
  ASSUME MAX_POLLS > 0, NEW p \in Phases
  PROVE  Obedient(p)
<1> DEFINE Calm == /\ Inv /\ [Next]_vars /\ [~Restart]_vars /\ [~Button]_vars
                   /\ Calls(p) /\ Calls(p)'
<1>1. Calm => /\ SideKnown => SideKnown'
              /\ PollPacket => SideKnown'
              /\ TeamKnown => TeamKnown'
              /\ SideKnown /\ At("decide") /\ Tick => TeamKnown'
              /\ Agrees(p) => Agrees(p)'
              /\ TeamKnown /\ PollPacket => Agrees(p)'
              /\ Publishes(p) => Publishes(p)'
              /\ Agrees(p) /\ At("write_data") /\ Tick => Publishes(p)'
              /\ Obeys(p) => Obeys(p)'
              /\ Publishes(p) /\ At("write_state") /\ Tick => Obeys(p)'
  BY Lessons
<1>2. Calm => (At("decide") => At("decide")' \/ Tick)
  BY Place DEF At
<1>3. Calm => (At("write_data") => At("write_data")' \/ Tick)
  BY Place DEF At
<1>4. Calm => (At("write_state") => At("write_state")' \/ Tick)
  BY Place DEF At
<1>5. Settled(p) => []<><<PollPacket>>_vars
  BY PacketsCome DEF Settled
<1>6. Settled(p) => <>[]SideKnown
  BY <1>1, <1>5, PTL DEF Settled, Running
<1>7. Settled(p) => <>[]TeamKnown
  BY <1>1, <1>2, <1>6, Rounds, PTL DEF Settled, Running, TickRuns
<1>8. Settled(p) => <>[]Agrees(p)
  BY <1>1, <1>5, <1>7, PTL DEF Settled, Running
<1>9. Settled(p) => <>[]Publishes(p)
  BY <1>1, <1>3, <1>8, Rounds, PTL DEF Settled, Running, TickRuns
<1> QED
  BY <1>1, <1>4, <1>9, Rounds, PTL
     DEF Obedient, Settled, Running, TickRuns

(* A referee who stays in one phase is obeyed, for any number of polls in  *)
(* a tick and either side, whatever the robot believed before, provided    *)
(* that the ticks go on and packets get through.                           *)
THEOREM Obedience ==
  MAX_POLLS > 0 => (Spec /\ TickRuns /\ PacketsHeard => RefereeObeyed)
<1> SUFFICES ASSUME MAX_POLLS > 0
             PROVE  Spec /\ TickRuns /\ PacketsHeard => RefereeObeyed
  OBVIOUS
<1> DEFINE Claim(p) ==
      (<>[](gc.state = p /\ ~gc.mine) /\ <>[][~Button]_vars
                                      /\ <>[][~Restart]_vars)
        => <>[]({bb_data.state, bb_gameState} \subseteq
                  {p} \cup (IF p = "SET" THEN {"PLAYING"} ELSE {}))
<1>1. ASSUME NEW p \in Phases
      PROVE  Spec /\ TickRuns /\ PacketsHeard => Claim(p)
  <2>1. Obedient(p)
    BY LearnsAll
  <2>2. Calls(p) <=> (gc.state = p /\ ~gc.mine)
    BY DEF Calls
  <2>3. Obeys(p) => {bb_data.state, bb_gameState} \subseteq
                      {p} \cup (IF p = "SET" THEN {"PLAYING"} ELSE {})
    BY DEF Obeys, Publishes, Allowed
  <2> QED
    BY <2>1, <2>2, <2>3, InvAlways, PTL
       DEF Obedient, Settled, Running, TickRuns, PacketsHeard, Spec
<1> QED
  BY <1>1 DEF RefereeObeyed
=============================================================================
