--------------------------- MODULE RequestRegister ---------------------------
(***************************************************************************)
(* What the blackboard promises to those who read the request of           *)
(* behaviour, with no word of copies and buffers.  It is a register that   *)
(* shows one whole request, each later than the one before.  A reader      *)
(* takes time: it gets the request that was shown when it began, whole,    *)
(* if it ends before the register moves on or is rewritten in place.  A    *)
(* reader that is overtaken is owed nothing.                               *)
(***************************************************************************)
EXTENDS Integers

CONSTANTS
  Readers,
  Requests    \* numbers

Torn    == -1 \* what is no whole request
Nothing == -2 \* what a reader has that does not read

VARIABLES
  value,      \* the request shown
  held,       \* what each reader would have, if it ended now
  owed,       \* the readers that have not been overtaken
  rewriting   \* is the request shown being rewritten in place?

vars == <<value, held, owed, rewriting>>

Reading(r) == held[r] # Nothing

(* Nobody but the readers in S begins or ends, and who is still owed a     *)
(* request has it.                                                         *)
Unharmed(S) ==
  \A r \in Readers \ S :
    /\ r \in owed' => held'[r] = held[r]
    /\ held'[r] = Nothing <=> held[r] = Nothing

Init ==
  /\ value \in Requests
  /\ held = [r \in Readers |-> Nothing]
  /\ owed = {} /\ rewriting = FALSE

Show ==
  /\ value' \in {v \in Requests : v > value}
  /\ owed' = {}
  /\ Unharmed({}) /\ UNCHANGED rewriting

BeginRewrite ==
  /\ ~rewriting /\ rewriting' = TRUE
  /\ owed' = {}
  /\ Unharmed({}) /\ UNCHANGED value

EndRewrite ==
  /\ rewriting /\ rewriting' = FALSE
  /\ UNCHANGED <<value, held, owed>>

BeginRead(r) ==
  /\ ~Reading(r)
  /\ held'[r] = value
  /\ owed' = IF rewriting THEN owed ELSE owed \cup {r}
  /\ Unharmed({r}) /\ UNCHANGED <<value, rewriting>>

EndRead(r) ==
  /\ Reading(r)
  /\ held'[r] = Nothing
  /\ owed' = owed \ {r}
  /\ Unharmed({r}) /\ UNCHANGED <<value, rewriting>>

(* A reader that was overtaken reads what comes.                           *)
Mix == Unharmed({}) /\ UNCHANGED <<value, owed, rewriting>>

Next ==
  \/ Show \/ BeginRewrite \/ EndRewrite \/ Mix
  \/ \E r \in Readers : BeginRead(r) \/ EndRead(r)

Spec == Init /\ [][Next]_vars
=============================================================================
