----------------------------- MODULE ThreadGuard -----------------------------
(***************************************************************************)
(* What keeps runswift going when a thread fails.  safelyRun builds a      *)
(* thread's component and ticks it until shutdown; an exception unwinds    *)
(* the component, half a second later a new one is built; a fault (SIGSEGV *)
(* and the like) jumps out of its signal handler back into safelyRun, so   *)
(* nothing is unwound: the locks the thread held stay locked and the       *)
(* signal stays blocked in it.                                             *)
(*                                                                         *)
(* Perception and the Off-Nao transmitter share the serialization lock,    *)
(* Motion waits for NaoQi in every tick; GameController and the two Team   *)
(* threads do less, and are left out.  So is time, and with it the alarm   *)
(* that only speaks when Perception freezes; so are faults in the catch    *)
(* blocks of safelyRun, whose jump point is freed memory.                  *)
(***************************************************************************)
EXTENDS Naturals

CONSTANTS
  Faults,       \* SIGSEGV, SIGFPE, SIGSTKFLT
  MAX_MISHAPS   \* bound on the faults and exceptions of a run

ASSUME GuardConstants ==
  /\ MAX_MISHAPS \in Nat
  /\ Faults \cap {"TERM", "none"} = {}

Threads == {"Perception", "OffnaoTransmitter", "Motion"}

VARIABLES
  pc,         \* where each thread is
  lock,       \* is locks.serialization locked?
  naoqi,      \* does NaoQi still post the semaphore Motion waits for?
  attemptingShutdown,
  process,    \* "up"; "ended" by returning from main; "killed"
  \* signals
  caught,     \* the fault each thread is handling
  blocked,    \* the signals blocked in each thread
  reset,      \* signals with their default action (SA_RESETHAND)
  \* history
  mishaps,    \* how many there were
  stolen,     \* was the lock taken from a thread that is still inside?
  orphan      \* who died with the lock

vars == <<pc, lock, naoqi, attemptingShutdown, process, caught, blocked,
          reset, mishaps, stolen, orphan>>

signals == <<caught, blocked, reset>>
history == <<mishaps, stolen, orphan>>

(* Sections that hold the lock, and where a thread is about to enter them. *)
Wants == [seeing   |-> "to_see",  locating |-> "to_locate",
          dumping  |-> "to_dump", saving   |-> "to_save"]
Sections == DOMAIN Wants

Waiting(t)  == \E s \in Sections : pc[t] = Wants[s]
Holding(t)  == pc[t] \in Sections
Holders     == {t \in Threads : Holding(t)}

(* Where a thread runs its component's code, and may fail in it.           *)
Building(t) == pc[t] = "building"
Running(t)  == pc[t] \in {"building", "idle", "ticking"} \/ Holding(t)

Places == {"ready", "building", "idle", "ticking", "semaphore", "caught",
           "asleep", "ended"}
            \cup {Wants[s] : s \in Sections} \cup Sections

TypeOK ==
  /\ pc \in [Threads -> Places]
  /\ lock \in BOOLEAN /\ naoqi \in BOOLEAN /\ attemptingShutdown \in BOOLEAN
  /\ process \in {"up", "ended", "killed"}
  /\ caught \in [Threads -> Faults \cup {"none"}]
  /\ blocked \in [Threads -> SUBSET Faults]
  /\ reset \subseteq Faults \cup {"TERM"}
  /\ mishaps \in 0..MAX_MISHAPS
  /\ stolen \in BOOLEAN
  /\ orphan \in Threads \cup {"none"}
  /\ \A t \in Threads : pc[t] = "caught" => caught[t] \in blocked[t] \cap reset

Init ==
  /\ pc = [t \in Threads |-> "ready"]
  /\ lock = FALSE /\ naoqi = TRUE /\ attemptingShutdown = FALSE
  /\ process = "up"
  /\ caught = [t \in Threads |-> "none"]
  /\ blocked = [t \in Threads |-> {}] /\ reset = {}
  /\ mishaps = 0 /\ stolen = FALSE /\ orphan = "none"

-----------------------------------------------------------------------------
(* Steps of safelyRun.                                                     *)

Go(t, from, to) ==
  /\ process = "up" /\ pc[t] = from
  /\ pc' = [pc EXCEPT ![t] = to]

(* The head of the outer loop.                                             *)
Begin(t) ==
  /\ Go(t, "ready", IF attemptingShutdown THEN "ended" ELSE "building")
  /\ UNCHANGED <<lock, naoqi, attemptingShutdown, process, signals, history>>

(* T t(bb), for a component that does not touch the lock.                  *)
Build(t) ==
  /\ t # "Perception"
  /\ Go(t, "building", "idle")
  /\ UNCHANGED <<lock, naoqi, attemptingShutdown, process, signals, history>>

(* PerceptionThread's constructor unlocks nothing.                         *)
BuildPerception_KeepsLock ==
  /\ Go("Perception", "building", "idle")
  /\ UNCHANGED <<lock, naoqi, attemptingShutdown, process, signals, history>>

(* PerceptionThread's constructor unlocks, whoever locked.                 *)
(* PythonSkill's gives up when the skills cannot be imported.              *)
BuildPerception ==
  /\ Go("Perception", "building", "idle")
  /\ lock' = FALSE
  /\ stolen' = (stolen \/ Holders # {}) /\ orphan' = "none"
  /\ attemptingShutdown' \in {attemptingShutdown, TRUE}
  /\ UNCHANGED <<naoqi, process, signals, mishaps>>

(* The inner loop does not look whether to shut down.                      *)
Tick_Unchecked(t, first) ==
  /\ Go(t, "idle", first)
  /\ UNCHANGED <<lock, naoqi, attemptingShutdown, process, signals, history>>

(* The head of the inner loop.  After it, the component is destroyed.      *)
Tick(t, first) ==
  /\ Go(t, "idle", IF attemptingShutdown THEN "ended" ELSE first)
  /\ UNCHANGED <<lock, naoqi, attemptingShutdown, process, signals, history>>

Leave(t, from, to) ==
  /\ Go(t, from, to)
  /\ UNCHANGED <<lock, naoqi, attemptingShutdown, process, signals, history>>

(* Entering a section before the lock is free.                             *)
Acquire_Barging(t) ==
  \E s \in Sections :
    /\ Go(t, Wants[s], s)
    /\ lock' = TRUE
    /\ UNCHANGED <<naoqi, attemptingShutdown, process, signals, history>>

Acquire(t) ==
  \E s \in Sections :
    /\ Go(t, Wants[s], s)
    /\ ~lock /\ lock' = TRUE
    /\ UNCHANGED <<naoqi, attemptingShutdown, process, signals, history>>

(* Who unlocks frees the lock, also when it is another's.                  *)
Release(t, section, to) ==
  /\ Go(t, section, to)
  /\ lock' = FALSE
  /\ stolen' = (stolen /\ Holders # {t})
  /\ UNCHANGED <<naoqi, attemptingShutdown, process, signals, mishaps, orphan>>

Perception ==
  \/ Tick("Perception", Wants["seeing"])
  \/ Release("Perception", "seeing", Wants["locating"])
  \/ Release("Perception", "locating", "ticking")
  \/ Leave("Perception", "ticking", "idle")
  \/ Leave("Perception", "ticking", Wants["dumping"])
  \/ Release("Perception", "dumping", "idle")

(* A client may have joined or not.                                        *)
OffnaoTransmitter ==
  \/ Tick("OffnaoTransmitter", "ticking")
  \/ Leave("OffnaoTransmitter", "ticking", "idle")
  \/ Leave("OffnaoTransmitter", "ticking", Wants["saving"])
  \/ Release("OffnaoTransmitter", "saving", "idle")

Motion ==
  \/ Tick("Motion", "semaphore")
  \/ naoqi /\ Leave("Motion", "semaphore", "idle")

-----------------------------------------------------------------------------
(* Failing.                                                                *)

Mishap ==
  /\ mishaps < MAX_MISHAPS
  /\ mishaps' = mishaps + 1

Die(t) ==
  /\ orphan' = IF Holding(t) /\ lock THEN t ELSE orphan
  /\ stolen' = (stolen /\ Holders \ {t} # {})
  /\ UNCHANGED <<lock, naoqi>>

(* The kernel kills the process for a fault that the thread blocks or that *)
(* no handler is registered for; else the handler runs, unregistered and   *)
(* with its signal blocked.                                                *)
Fault(t, k) ==
  /\ process = "up" /\ Running(t)
  /\ Mishap
  /\ IF k \in blocked[t] \cup reset
       THEN /\ process' = "killed"
            /\ UNCHANGED <<pc, signals, lock, naoqi, stolen, orphan>>
       ELSE /\ pc' = [pc EXCEPT ![t] = "caught"]
            /\ caught' = [caught EXCEPT ![t] = k]
            /\ blocked' = [blocked EXCEPT ![t] = @ \cup {k}]
            /\ reset' = reset \cup {k}
            /\ Die(t)
            /\ UNCHANGED process
  /\ UNCHANGED attemptingShutdown

(* The handler registers all handlers again.                               *)
HandleSignal_All(t) ==
  /\ Go(t, "caught", "ready")
  /\ reset' = {}
  /\ caught' = [caught EXCEPT ![t] = "none"]
  /\ UNCHANGED <<blocked, lock, naoqi, attemptingShutdown, process, history>>

(* The handler does not register itself again.                             *)
HandleSignal_Once(t) ==
  /\ Go(t, "caught", "ready")
  /\ caught' = [caught EXCEPT ![t] = "none"]
  /\ UNCHANGED <<reset, blocked, lock, naoqi, attemptingShutdown, process,
                 history>>

(* handleSignals registers the handler again and jumps out of it: there is *)
(* no return that would unblock the signal.                                *)
HandleSignal(t) ==
  /\ Go(t, "caught", "ready")
  /\ reset' = reset \ {caught[t]}
  /\ caught' = [caught EXCEPT ![t] = "none"]
  /\ UNCHANGED <<blocked, lock, naoqi, attemptingShutdown, process, history>>

(* An exception unwinds the component: no lock is scoped.  But around the  *)
(* dump there is a handler of its own, which gives up.                     *)
Throw(t) ==
  /\ process = "up" /\ Running(t)
  /\ Mishap
  /\ IF pc[t] = "dumping"
       THEN pc' = [pc EXCEPT ![t] = "idle"] /\ attemptingShutdown' = TRUE
       ELSE pc' = [pc EXCEPT ![t] = "asleep"] /\ UNCHANGED attemptingShutdown
  /\ Die(t)
  /\ UNCHANGED <<process, signals>>

WakeUp(t) == Leave(t, "asleep", "ready")

-----------------------------------------------------------------------------
(* SIGTERM, as killall sends it, or the shutdown timer.                    *)
Terminate ==
  /\ process = "up"
  /\ IF "TERM" \in reset
       THEN process' = "killed" /\ UNCHANGED <<attemptingShutdown, reset>>
       ELSE /\ attemptingShutdown' = TRUE
            /\ reset' = reset \cup {"TERM"}
            /\ UNCHANGED process
  /\ UNCHANGED <<pc, lock, naoqi, caught, blocked, history>>

TimeUp ==
  /\ process = "up" /\ ~attemptingShutdown /\ attemptingShutdown' = TRUE
  /\ UNCHANGED <<pc, lock, naoqi, process, signals, history>>

NaoqiEnds ==
  /\ process = "up" /\ naoqi /\ naoqi' = FALSE
  /\ UNCHANGED <<pc, lock, attemptingShutdown, process, signals, history>>

(* main joins the threads.                                                 *)
Return ==
  /\ process = "up" /\ \A t \in Threads : pc[t] = "ended"
  /\ process' = "ended"
  /\ UNCHANGED <<pc, lock, naoqi, attemptingShutdown, signals, history>>

Works(t) ==
  \/ Begin(t) \/ Build(t) \/ HandleSignal(t) \/ WakeUp(t)
  \/ t = "Perception" /\ (BuildPerception \/ Perception)
  \/ t = "OffnaoTransmitter" /\ OffnaoTransmitter
  \/ t = "Motion" /\ Motion

Next ==
  \/ \E t \in Threads :
       \/ Works(t) \/ Acquire(t) \/ Throw(t)
       \/ \E k \in Faults : Fault(t, k)
  \/ Terminate \/ TimeUp \/ NaoqiEnds \/ Return

Spec == Init /\ [][Next]_vars

(* Threads are scheduled.  Between two sections that hold the lock there   *)
(* is time to take it: the transmitter sleeps, Perception has more to do.  *)
Fairness ==
  /\ \A t \in Threads : WF_vars(Works(t)) /\ SF_vars(Acquire(t))
  /\ WF_vars(Return)

FairSpec == Spec /\ Fairness
-----------------------------------------------------------------------------
(* What the lock is worth.  Threads exclude each other from its sections   *)
(* unless a new Perception took the lock from one inside; and a lock that  *)
(* nobody inside holds was left by a thread that died: when Perception     *)
(* waits for it, by the transmitter in the middle of a save.               *)
LockSound ==
  /\ (\E t, u \in Holders : t # u) => stolen
  /\ (lock /\ Holders = {}) => orphan # "none"
  /\ (lock /\ Holders = {} /\ Waiting("Perception"))
       => orphan = "OffnaoTransmitter"

(* runswift survives the first fault of every kind in every thread, except *)
(* one that comes while another thread has just caught one of that kind.   *)
SurvivesFirst ==
  [][\A t \in Threads, k \in Faults :
       (Fault(t, k) /\ process' = "killed")
         => (k \in blocked[t] \/ \E u \in Threads \ {t} : caught[u] = k)]_vars

(* Perception keeps seeing whatever fails in it, unless the transmitter    *)
(* died in a save, or runswift ends.                                       *)
Stuck == lock /\ Holders = {}
PerceptionSees ==
  []<>(\/ pc["Perception"] = "seeing"
       \/ Stuck /\ orphan = "OffnaoTransmitter"
       \/ attemptingShutdown \/ process # "up")

(* A shutdown ends runswift, unless NaoQi has gone or a thread waits for a *)
(* lock whose holder died.                                                 *)
ShutdownEnds ==
  attemptingShutdown
    ~> (process # "up" \/ ~naoqi \/ (Stuck /\ \E t \in Threads : Waiting(t)))
=============================================================================
