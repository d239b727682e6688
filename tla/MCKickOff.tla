----------------------------- MODULE MCKickOff -----------------------------
(***************************************************************************)
(* A team whose robots are interchangeable, for model checking: all that a *)
(* few false starters can do to it.                                        *)
(***************************************************************************)
EXTENDS KickOff, TLC

Symmetry == Permutations(Robots)

(* Fewer than 30% of the team mates that any robot takes for active.       *)
Few(some) == \A r \in Robots : 10 * Cardinality(some) < 3 * Active(r)

(* The behaviours followed to the end: FalseStartContained says nothing of *)
(* a SET with more false starters than that, until the next one begins;    *)
(* the referee announces a SET, and the next game, to a team in which no   *)
(* more play, or are thought to, than may.                                 *)
FewStarted ==
  CASE gc = "READY"   -> Few(Started)
    [] gc = "SET"     -> Few(origin) /\ 10 * Cardinality(origin) < 3 * fewest
    [] gc = "PLAYING" -> Started = {}
=============================================================================
