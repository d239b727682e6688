--------------------------- MODULE ThreadGuardProofs ---------------------------
(***************************************************************************)
(* For any faults and any number of them: the handlers of ThreadGuard are  *)
(* registered when they are needed, and its lock excludes as long as no    *)
(* new Perception takes it from a living holder.                           *)
(***************************************************************************)
EXTENDS ThreadGuard, FiniteSetTheorems, WellFoundedInduction, TLAPS

(* Where a thread can be that died in a section and is not built again.    *)
Dead == {"caught", "asleep", "ready", "building", "ended"}
Waits == {Wants[s] : s \in Sections}

SectionNames ==
  /\ Sections = {"seeing", "locating", "dumping", "saving"}
  /\ Waits = {"to_see", "to_locate", "to_dump", "to_save"}

(* Who is in a handler knows its fault, no two of one fault; and a fault's *)
(* default action is back only while a thread handles that fault.          *)
SignalInv ==
  /\ \A t \in Threads : pc[t] = "caught" <=> caught[t] # "none"
  /\ \A t, u \in Threads :
       (pc[t] = "caught" /\ pc[u] = "caught" /\ caught[t] = caught[u]) => t = u
  /\ \A k \in reset \cap Faults : \E u \in Threads : caught[u] = k

(* Unless stolen, the one holder holds the lock.  A lock that nobody holds *)
(* was left by Perception, which is dead or ending, or the transmitter.    *)
LockInv ==
  /\ pc["Motion"] \notin Sections \cup Waits
  /\ ~stolen => /\ \A t, u \in Holders : t = u
                /\ Holders # {} => lock
  /\ (lock /\ Holders = {}) => orphan # "none"
  /\ orphan # "Motion"
  /\ orphan = "Perception" =>
       \/ pc["Perception"] \in Dead
       \/ pc["Perception"] = "idle" /\ attemptingShutdown

IInv == TypeOK /\ SignalInv /\ LockInv

LEMMA NamesHold == SectionNames
  BY DEF SectionNames, Sections, Wants, Waits

-----------------------------------------------------------------------------
(* Types.                                                                  *)

LEMMA InitHolds == Init => IInv
<1> SUFFICES ASSUME Init PROVE IInv
  OBVIOUS
<1> USE GuardConstants, NamesHold DEF Init, Threads
<1>1. TypeOK
  <2>1. pc \in [Threads -> Places]
    BY DEF Places
  <2>2. mishaps \in 0..MAX_MISHAPS
    OBVIOUS
  <2>3. caught \in [Threads -> Faults \cup {"none"}]
    OBVIOUS
  <2> QED
    BY <2>1, <2>2, <2>3 DEF TypeOK
<1>2. SignalInv
  BY DEF SignalInv
<1>3. Holders = {}
  BY DEF Holders, Holding, SectionNames
<1>4. LockInv
  BY <1>3 DEF LockInv, SectionNames, Dead
<1> QED
  BY <1>1, <1>2, <1>4 DEF IInv

(* A step of one thread that neither handles a signal nor receives one     *)
(* keeps the signals' part.                                                *)
LEMMA SignalsKept ==
  ASSUME SignalInv, TypeOK, NEW t \in Threads, NEW to,
         pc' = [pc EXCEPT ![t] = to], pc[t] # "caught", to # "caught",
         caught' = caught, reset' \cap Faults = reset \cap Faults
  PROVE  SignalInv'
<1>1. \A u \in Threads : pc'[u] = "caught" <=> pc[u] = "caught"
  BY DEF TypeOK
<1> QED
  BY <1>1 DEF SignalInv

(* A step of one thread outside of the sections keeps the lock's part.     *)
LEMMA LockKept ==
  ASSUME LockInv, TypeOK, NEW t \in Threads, NEW to,
         pc' = [pc EXCEPT ![t] = to], pc[t] \notin Sections, to \notin Sections,
         UNCHANGED <<lock, stolen, orphan, attemptingShutdown>>,
         t = "Motion" => to \notin Waits,
         t = "Perception" =>
           /\ pc[t] \in Dead => to \in Dead
           /\ (pc[t] = "idle" /\ attemptingShutdown) => to \in Dead
  PROVE  LockInv'
<1>1. \A u \in Threads : pc'[u] \in Sections <=> pc[u] \in Sections
  BY DEF TypeOK
<1>2. Holders' = Holders
  BY <1>1 DEF Holders, Holding
<1>3. pc'["Motion"] \notin Sections \cup Waits
  BY DEF LockInv, TypeOK, Threads
<1>4. orphan = "Perception" =>
       \/ pc'["Perception"] \in Dead
       \/ pc'["Perception"] = "idle" /\ attemptingShutdown
  BY DEF LockInv, TypeOK, Threads
<1> QED
  BY <1>2, <1>3, <1>4 DEF LockInv

(* A thread that dies leaves the lock as it is, and its name if it held it.*)
LEMMA LockAfterDeath ==
  ASSUME LockInv, TypeOK, NEW t \in Threads, NEW to,
         pc' = [pc EXCEPT ![t] = to], Die(t),
         \/ to \in {"caught", "asleep"} /\ attemptingShutdown' = attemptingShutdown
         \/ to = "idle" /\ attemptingShutdown'
  PROVE  LockInv'
<1>1. to \notin Sections \cup Waits
  BY NamesHold DEF SectionNames
<1>2. Holders' = Holders \ {t}
  BY <1>1 DEF Holders, Holding, TypeOK
<1>3. pc'["Motion"] \notin Sections \cup Waits
  BY <1>1 DEF LockInv, TypeOK, Threads
<1>4. ~stolen' => /\ \A u, v \in Holders' : u = v
                  /\ Holders' # {} => lock'
  BY <1>2 DEF LockInv, Die
<1>5. (lock' /\ Holders' = {}) => orphan' # "none"
  BY <1>2 DEF LockInv, Die, Holders, Holding, Threads
<1>6. orphan' # "Motion"
  BY DEF LockInv, Die, Holding
<1>7. orphan' = "Perception" =>
       \/ pc'["Perception"] \in Dead
       \/ pc'["Perception"] = "idle" /\ attemptingShutdown'
  <2>1. CASE t = "Perception"
    BY <2>1 DEF TypeOK, Dead
  <2>2. CASE t # "Perception"
    <3>1. pc'["Perception"] = pc["Perception"]
      BY <2>2 DEF TypeOK, Threads
    <3>2. orphan' = "Perception" => orphan = "Perception"
      BY <2>2 DEF Die
    <3>3. attemptingShutdown => attemptingShutdown'
      OBVIOUS
    <3> QED
      BY <3>1, <3>2, <3>3 DEF LockInv
  <2> QED
    BY <2>1, <2>2
<1> QED
  BY <1>3, <1>4, <1>5, <1>6, <1>7 DEF LockInv

(* A step of one thread outside of the sections and of the handlers, which *)
(* changes nothing but where the thread is.                                *)
LEMMA PlainStep ==
  ASSUME IInv, NEW t \in Threads, NEW to \in Places,
         pc' = [pc EXCEPT ![t] = to], pc[t] \notin Sections, to \notin Sections,
         pc[t] # "caught", to # "caught",
         UNCHANGED <<lock, naoqi, attemptingShutdown, process, signals, history>>,
         t = "Motion" => to \notin Waits,
         t = "Perception" =>
           /\ pc[t] \in Dead => to \in Dead
           /\ (pc[t] = "idle" /\ attemptingShutdown) => to \in Dead
  PROVE  IInv'
<1> USE DEF signals, history
<1>1. TypeOK'
  BY DEF IInv, TypeOK
<1>2. SignalInv'
  BY SignalsKept DEF IInv
<1>3. LockInv'
  BY LockKept DEF IInv
<1> QED
  BY <1>1, <1>2, <1>3 DEF IInv

LEMMA AcquireStep ==
  ASSUME IInv, NEW t \in Threads, Acquire(t)
  PROVE  IInv'
<1> USE DEF signals, history
<1>1. PICK s \in Sections : /\ Go(t, Wants[s], s)
                            /\ ~lock /\ lock' = TRUE
                            /\ UNCHANGED <<naoqi, attemptingShutdown, process,
                                          signals, history>>
  BY DEF Acquire
<1>2. /\ pc[t] = Wants[s] /\ pc' = [pc EXCEPT ![t] = s]
      /\ Wants[s] \in Waits
  BY <1>1 DEF Go, Waits
<1>3. /\ s \in Places /\ s \notin Dead \cup {"caught"}
      /\ Wants[s] \notin Dead \cup Sections \cup {"caught", "idle"}
  BY <1>2, NamesHold DEF SectionNames, Places, Dead
<1>4. TypeOK'
  BY <1>1, <1>2, <1>3 DEF IInv, TypeOK
<1>5. SignalInv'
  BY <1>1, <1>2, <1>3, SignalsKept DEF IInv
<1>6. t # "Motion"
  BY <1>2 DEF IInv, LockInv
<1>7. Holders' = Holders \cup {t}
  BY <1>1, <1>2 DEF IInv, TypeOK, Holders, Holding
<1>8. stolen \/ Holders = {}
  BY <1>1 DEF IInv, LockInv
<1>9. pc'["Motion"] = pc["Motion"]
  BY <1>2, <1>6 DEF IInv, TypeOK, Threads
<1>10. orphan = "Perception" =>
         \/ pc'["Perception"] \in Dead
         \/ pc'["Perception"] = "idle" /\ attemptingShutdown
  BY <1>2, <1>3 DEF IInv, LockInv, TypeOK, Threads
<1>11. LockInv'
  BY <1>1, <1>7, <1>8, <1>9, <1>10 DEF IInv, LockInv
<1> QED
  BY <1>4, <1>5, <1>11 DEF IInv

LEMMA ReleaseStep ==
  ASSUME IInv, NEW t \in Threads, NEW section \in Sections, NEW to \in Places,
         to \notin Sections \cup {"caught"}, Release(t, section, to)
  PROVE  IInv'
<1> USE DEF signals, history
<1>1. /\ pc[t] = section /\ pc' = [pc EXCEPT ![t] = to]
      /\ lock' = FALSE /\ stolen' = (stolen /\ Holders # {t})
      /\ UNCHANGED <<naoqi, attemptingShutdown, process, signals, mishaps, orphan>>
  BY DEF Release, Go
<1>2. section \notin Dead \cup {"caught", "idle"} /\ section \notin Waits
  BY NamesHold DEF SectionNames, Dead
<1>3. TypeOK'
  <2>1. lock' \in BOOLEAN /\ stolen' \in BOOLEAN
    BY <1>1
  <2> QED
    BY <1>1, <2>1 DEF IInv, TypeOK
<1>4. SignalInv'
  BY <1>1, <1>2, SignalsKept DEF IInv
<1>5. t # "Motion"
  BY <1>1 DEF IInv, LockInv
<1>6. Holders' = Holders \ {t} /\ t \in Holders
  BY <1>1 DEF IInv, TypeOK, Holders, Holding
<1>7. pc'["Motion"] = pc["Motion"]
  BY <1>1, <1>5 DEF IInv, TypeOK, Threads
<1>8. orphan = "Perception" =>
         \/ pc'["Perception"] \in Dead
         \/ pc'["Perception"] = "idle" /\ attemptingShutdown
  BY <1>1, <1>2 DEF IInv, LockInv, TypeOK, Threads
<1>9. ~stolen' => Holders' = {}
  BY <1>1, <1>6 DEF IInv, LockInv
<1>10. LockInv'
  BY <1>1, <1>6, <1>7, <1>8, <1>9 DEF IInv, LockInv
<1> QED
  BY <1>3, <1>4, <1>10 DEF IInv

LEMMA BuildPerceptionStep ==
  ASSUME IInv, BuildPerception
  PROVE  IInv'
<1> USE DEF signals, history, Threads
<1>1. /\ pc["Perception"] = "building"
      /\ pc' = [pc EXCEPT !["Perception"] = "idle"]
      /\ lock' = FALSE /\ stolen' = (stolen \/ Holders # {})
      /\ orphan' = "none"
      /\ UNCHANGED <<naoqi, process, signals, mishaps>>
  BY DEF BuildPerception, Go
<1>2. "idle" \notin Sections \cup Waits /\ "building" \notin Sections
  BY NamesHold DEF SectionNames
<1>3. TypeOK'
  <2>1. lock' \in BOOLEAN /\ stolen' \in BOOLEAN
    BY <1>1 DEF IInv, TypeOK
  <2>2. attemptingShutdown' \in BOOLEAN
    BY DEF BuildPerception, IInv, TypeOK
  <2>3. pc' \in [Threads -> Places]
    BY <1>1 DEF IInv, TypeOK, Places
  <2> QED
    BY <1>1, <2>1, <2>2, <2>3 DEF IInv, TypeOK
<1>4. SignalInv'
  BY <1>1, SignalsKept DEF IInv
<1>5. Holders' = Holders
  BY <1>1, <1>2 DEF IInv, TypeOK, Holders, Holding
<1>6. pc'["Motion"] = pc["Motion"]
  BY <1>1 DEF IInv, TypeOK
<1>7. ~stolen' => Holders' = {}
  BY <1>1, <1>5
<1>8. LockInv'
  BY <1>1, <1>6, <1>7 DEF IInv, LockInv
<1> QED
  BY <1>3, <1>4, <1>8 DEF IInv

-----------------------------------------------------------------------------
(* Failing.                                                                *)

LEMMA DieTyped ==
  ASSUME TypeOK, NEW t \in Threads, Die(t)
  PROVE  /\ lock' \in BOOLEAN /\ stolen' \in BOOLEAN /\ naoqi' \in BOOLEAN
         /\ orphan' \in Threads \cup {"none"}
<1>1. lock' \in BOOLEAN /\ naoqi' \in BOOLEAN
  BY DEF Die, TypeOK
<1>2. stolen' \in BOOLEAN
  BY DEF Die, TypeOK
<1>3. orphan' \in Threads \cup {"none"}
  BY DEF Die, TypeOK
<1> QED
  BY <1>1, <1>2, <1>3

LEMMA FaultStep ==
  ASSUME IInv, NEW t \in Threads, NEW k \in Faults, Fault(t, k)
  PROVE  IInv'
<1> USE DEF signals, history
<1>1. /\ Running(t) /\ attemptingShutdown' = attemptingShutdown
      /\ mishaps' \in 0..MAX_MISHAPS
  BY GuardConstants DEF Fault, Mishap, IInv, TypeOK
<1>2. CASE k \in blocked[t] \cup reset
  <2>1. process' = "killed"
        /\ UNCHANGED <<pc, signals, lock, naoqi, stolen, orphan>>
    BY <1>2 DEF Fault
  <2>2. TypeOK'
    BY <1>1, <2>1 DEF IInv, TypeOK
  <2>3. SignalInv'
    BY <2>1 DEF IInv, SignalInv
  <2>4. LockInv'
    BY <1>1, <2>1 DEF IInv, LockInv, Holders, Holding
  <2> QED
    BY <2>2, <2>3, <2>4 DEF IInv
<1>3. CASE k \notin blocked[t] \cup reset
  <2>1. /\ pc' = [pc EXCEPT ![t] = "caught"]
        /\ caught' = [caught EXCEPT ![t] = k]
        /\ blocked' = [blocked EXCEPT ![t] = @ \cup {k}]
        /\ reset' = reset \cup {k}
        /\ Die(t) /\ process' = process
    BY <1>3 DEF Fault
  <2>2. pc[t] # "caught"
    BY <1>1, NamesHold DEF Running, Holding, SectionNames
  <2>3. TypeOK'
    <3>1. pc' \in [Threads -> Places]
      BY <2>1 DEF IInv, TypeOK, Places
    <3>2. /\ caught' \in [Threads -> Faults \cup {"none"}]
          /\ blocked' \in [Threads -> SUBSET Faults]
          /\ reset' \subseteq Faults \cup {"TERM"}
      BY <2>1 DEF IInv, TypeOK
    <3>3. \A u \in Threads : pc'[u] = "caught" =>
                               caught'[u] \in blocked'[u] \cap reset'
      BY <2>1 DEF IInv, TypeOK
    <3>4. TypeOK
      BY DEF IInv
    <3>5. /\ lock' \in BOOLEAN /\ stolen' \in BOOLEAN /\ naoqi' \in BOOLEAN
          /\ orphan' \in Threads \cup {"none"}
      BY <2>1, <3>4, DieTyped
    <3>6. attemptingShutdown' \in BOOLEAN
      BY <1>1, <3>4 DEF TypeOK
    <3> QED
      BY <1>1, <2>1, <3>1, <3>2, <3>3, <3>4, <3>5, <3>6 DEF TypeOK
  <2>4. SignalInv'
    <3>1. k # "none"
      BY GuardConstants
    <3>2. \A u \in Threads \ {t} : /\ pc'[u] = pc[u] /\ caught'[u] = caught[u]
                                   /\ pc[u] = "caught" => caught[u] # k
      BY <1>3, <2>1 DEF IInv, TypeOK
    <3>3. pc'[t] = "caught" /\ caught'[t] = k
      BY <2>1 DEF IInv, TypeOK
    <3>4. caught[t] = "none"
      BY <2>2 DEF IInv, SignalInv
    <3>5. \A j \in reset' \cap Faults : \E u \in Threads : caught'[u] = j
      <4> SUFFICES ASSUME NEW j \in reset' \cap Faults
                   PROVE  \E u \in Threads : caught'[u] = j
        OBVIOUS
      <4>1. CASE j = k
        BY <3>3, <4>1
      <4>2. CASE j # k
        <5>1. PICK u \in Threads : caught[u] = j
          BY <2>1, <4>2 DEF IInv, SignalInv
        <5>2. u # t
          BY <3>4, <5>1, GuardConstants
        <5> QED
          BY <3>2, <5>1, <5>2
      <4> QED
        BY <4>1, <4>2
    <3> QED
      BY <3>1, <3>2, <3>3, <3>5 DEF IInv, SignalInv
  <2>5. LockInv'
    BY <1>1, <2>1, LockAfterDeath DEF IInv
  <2> QED
    BY <2>3, <2>4, <2>5 DEF IInv
<1> QED
  BY <1>2, <1>3

LEMMA ThrowStep ==
  ASSUME IInv, NEW t \in Threads, Throw(t)
  PROVE  IInv'
<1> USE DEF signals, history
<1> DEFINE to == IF pc[t] = "dumping" THEN "idle" ELSE "asleep"
<1>1. /\ Running(t) /\ Die(t) /\ mishaps' \in 0..MAX_MISHAPS
      /\ UNCHANGED <<process, signals>>
  BY GuardConstants DEF Throw, Mishap, IInv, TypeOK
<1>2. /\ pc' = [pc EXCEPT ![t] = to]
      /\ \/ to = "asleep" /\ attemptingShutdown' = attemptingShutdown
         \/ to = "idle" /\ attemptingShutdown' = TRUE
  BY DEF Throw
<1>3. to \in Places /\ to # "caught"
  BY DEF Places
<1> HIDE DEF to
<1>4. pc[t] # "caught"
  BY <1>1, NamesHold DEF Running, Holding, SectionNames
<1>5. TypeOK
  BY DEF IInv
<1>6. TypeOK'
  <2>1. /\ lock' \in BOOLEAN /\ stolen' \in BOOLEAN /\ naoqi' \in BOOLEAN
        /\ orphan' \in Threads \cup {"none"}
    BY <1>1, <1>5, DieTyped
  <2>2. attemptingShutdown' \in BOOLEAN
    BY <1>2, <1>5 DEF TypeOK
  <2>3. pc' \in [Threads -> Places]
    BY <1>2, <1>3, <1>5 DEF TypeOK
  <2>4. \A u \in Threads : pc'[u] = "caught" => pc[u] = "caught"
    BY <1>2, <1>3, <1>5 DEF TypeOK
  <2> QED
    BY <1>1, <1>5, <2>1, <2>2, <2>3, <2>4 DEF TypeOK
<1>7. SignalInv'
  BY <1>1, <1>2, <1>3, <1>4, <1>5, SignalsKept DEF IInv
<1>8. LockInv'
  <2>1. \/ to \in {"caught", "asleep"} /\ attemptingShutdown' = attemptingShutdown
        \/ to = "idle" /\ attemptingShutdown'
    BY <1>2
  <2>2. LockInv
    BY DEF IInv
  <2> QED
    BY <1>1, <1>2, <1>5, <2>1, <2>2, LockAfterDeath
<1> QED
  BY <1>6, <1>7, <1>8 DEF IInv

LEMMA HandleSignalStep ==
  ASSUME IInv, NEW t \in Threads, HandleSignal(t)
  PROVE  IInv'
<1> USE DEF signals, history
<1>1. /\ pc[t] = "caught" /\ pc' = [pc EXCEPT ![t] = "ready"]
      /\ reset' = reset \ {caught[t]}
      /\ caught' = [caught EXCEPT ![t] = "none"]
      /\ UNCHANGED <<blocked, lock, naoqi, attemptingShutdown, process, history>>
  BY DEF HandleSignal, Go
<1>2. \A u \in Threads \ {t} : /\ pc'[u] = pc[u] /\ caught'[u] = caught[u]
                               /\ pc[u] = "caught" => caught[u] # caught[t]
  BY <1>1 DEF IInv, TypeOK, SignalInv
<1>3. pc'[t] = "ready" /\ caught'[t] = "none"
  BY <1>1 DEF IInv, TypeOK
<1>4. TypeOK'
  <2>1. pc' \in [Threads -> Places]
    BY <1>1 DEF IInv, TypeOK, Places
  <2>2. /\ caught' \in [Threads -> Faults \cup {"none"}]
        /\ reset' \subseteq Faults \cup {"TERM"}
    BY <1>1 DEF IInv, TypeOK
  <2>3. \A u \in Threads : pc'[u] = "caught" =>
                             caught'[u] \in blocked'[u] \cap reset'
    BY <1>1, <1>2, <1>3 DEF IInv, TypeOK
  <2> QED
    BY <1>1, <2>1, <2>2, <2>3 DEF IInv, TypeOK
<1>5. SignalInv'
  <2>1. \A j \in reset' \cap Faults : \E u \in Threads : caught'[u] = j
    BY <1>1, <1>2 DEF IInv, SignalInv
  <2> QED
    BY <1>2, <1>3, <2>1 DEF IInv, SignalInv
<1>6. LockInv'
  <2>1. {"caught", "ready"} \cap (Sections \cup Waits) = {}
    BY NamesHold DEF SectionNames
  <2> QED
    BY <1>1, <2>1, LockKept DEF IInv, Dead
<1> QED
  BY <1>4, <1>5, <1>6 DEF IInv

-----------------------------------------------------------------------------
(* The threads' own steps.                                                 *)

LEMMA LeaveStep ==
  ASSUME IInv, NEW t \in Threads, NEW from, NEW to \in Places, Leave(t, from, to),
         from \notin Sections \cup {"caught"}, to \notin Sections \cup {"caught"},
         t = "Motion" => to \notin Waits,
         from \in Dead => to \in Dead, from # "idle"
  PROVE  IInv'
<1>1. /\ pc[t] = from /\ pc' = [pc EXCEPT ![t] = to]
      /\ UNCHANGED <<lock, naoqi, attemptingShutdown, process, signals, history>>
  BY DEF Leave, Go
<1> QED
  BY <1>1, PlainStep

LEMMA TickStep ==
  ASSUME IInv, NEW t \in Threads, NEW first \in Places, Tick(t, first),
         first \notin Sections \cup {"caught"},
         t = "Motion" => first \notin Waits
  PROVE  IInv'
<1> DEFINE to == IF attemptingShutdown THEN "ended" ELSE first
<1>1. /\ pc[t] = "idle" /\ pc' = [pc EXCEPT ![t] = to]
      /\ UNCHANGED <<lock, naoqi, attemptingShutdown, process, signals, history>>
  BY DEF Tick, Go
<1>2. /\ to \in Places /\ to \notin Sections \cup {"caught"}
      /\ t = "Motion" => to \notin Waits
      /\ attemptingShutdown => to \in Dead
  BY NamesHold DEF SectionNames, Places, Dead
<1>3. "idle" \notin Sections \cup {"caught"} \cup Dead
  BY NamesHold DEF SectionNames, Dead
<1> HIDE DEF to
<1> QED
  BY <1>1, <1>2, <1>3, PlainStep

LEMMA WorksStep ==
  ASSUME IInv, NEW t \in Threads, Works(t)
  PROVE  IInv'
<1> USE NamesHold DEF SectionNames
<1>0. /\ {"ready", "building", "idle", "ticking", "semaphore", "caught",
           "asleep", "ended"} \cap (Sections \cup Waits) = {}
      /\ Waits \cap (Sections \cup Dead \cup {"caught", "idle"}) = {}
      /\ Waits \subseteq Places
      /\ {"ready", "building", "idle", "ticking", "semaphore", "caught",
           "asleep", "ended"} \subseteq Places
      /\ \A s \in Sections : Wants[s] \in Waits
      /\ {"idle", "ticking", "semaphore"} \cap Dead = {}
  BY DEF Dead, Waits, Places
<1>1. CASE Begin(t)
  <2> DEFINE to == IF attemptingShutdown THEN "ended" ELSE "building"
  <2>1. /\ pc[t] = "ready" /\ pc' = [pc EXCEPT ![t] = to]
        /\ UNCHANGED <<lock, naoqi, attemptingShutdown, process, signals, history>>
    BY <1>1 DEF Begin, Go
  <2>2. to \in Dead \cap Places /\ to \notin Sections \cup Waits \cup {"caught"}
    BY <1>0 DEF Dead
  <2> HIDE DEF to
  <2> QED
    BY <1>0, <2>1, <2>2, PlainStep
<1>2. CASE Build(t)
  <2>1. /\ pc[t] = "building" /\ pc' = [pc EXCEPT ![t] = "idle"]
        /\ t # "Perception"
        /\ UNCHANGED <<lock, naoqi, attemptingShutdown, process, signals, history>>
    BY <1>2 DEF Build, Go
  <2> QED
    BY <1>0, <2>1, PlainStep
<1>3. CASE HandleSignal(t)
  BY <1>3, HandleSignalStep
<1>4. CASE WakeUp(t)
  BY <1>0, <1>4, LeaveStep DEF WakeUp, Dead
<1>5. CASE t = "Perception" /\ BuildPerception
  BY <1>5, BuildPerceptionStep
<1>6. CASE t = "Perception" /\ Perception
  <2>1. CASE Tick("Perception", Wants["seeing"])
    BY <1>0, <1>6, <2>1, TickStep
  <2>2. CASE Release("Perception", "seeing", Wants["locating"])
    BY <1>0, <1>6, <2>2, ReleaseStep
  <2>3. CASE Release("Perception", "locating", "ticking")
    BY <1>0, <1>6, <2>3, ReleaseStep
  <2>4. CASE Leave("Perception", "ticking", "idle")
    BY <1>0, <1>6, <2>4, LeaveStep
  <2>5. CASE Leave("Perception", "ticking", Wants["dumping"])
    BY <1>0, <1>6, <2>5, LeaveStep
  <2>6. CASE Release("Perception", "dumping", "idle")
    BY <1>0, <1>6, <2>6, ReleaseStep
  <2> QED
    BY <1>6, <2>1, <2>2, <2>3, <2>4, <2>5, <2>6 DEF Perception
<1>7. CASE t = "OffnaoTransmitter" /\ OffnaoTransmitter
  <2>1. CASE Tick("OffnaoTransmitter", "ticking")
    BY <1>0, <1>7, <2>1, TickStep
  <2>2. CASE Leave("OffnaoTransmitter", "ticking", "idle")
    BY <1>0, <1>7, <2>2, LeaveStep
  <2>3. CASE Leave("OffnaoTransmitter", "ticking", Wants["saving"])
    BY <1>0, <1>7, <2>3, LeaveStep
  <2>4. CASE Release("OffnaoTransmitter", "saving", "idle")
    BY <1>0, <1>7, <2>4, ReleaseStep
  <2> QED
    BY <1>7, <2>1, <2>2, <2>3, <2>4 DEF OffnaoTransmitter
<1>8. CASE t = "Motion" /\ Motion
  <2>1. CASE Tick("Motion", "semaphore")
    BY <1>0, <1>8, <2>1, TickStep
  <2>2. CASE Leave("Motion", "semaphore", "idle")
    BY <1>0, <1>8, <2>2, LeaveStep
  <2> QED
    BY <1>8, <2>1, <2>2 DEF Motion
<1> QED
  BY <1>1, <1>2, <1>3, <1>4, <1>5, <1>6, <1>7, <1>8 DEF Works

-----------------------------------------------------------------------------
(* The whole system.                                                       *)

LEMMA NextStep ==
  ASSUME IInv, [Next]_vars
  PROVE  IInv'
<1> USE DEF signals, history
<1>1. CASE \E t \in Threads : Works(t) \/ Acquire(t) \/ Throw(t)
  BY <1>1, WorksStep, AcquireStep, ThrowStep
<1>2. CASE \E t \in Threads, k \in Faults : Fault(t, k)
  BY <1>2, FaultStep
<1>3. CASE Terminate \/ TimeUp \/ NaoqiEnds \/ Return
  <2>1. UNCHANGED <<pc, lock, caught, blocked, history>>
    BY <1>3 DEF Terminate, TimeUp, NaoqiEnds, Return
  <2>2. attemptingShutdown' \in {attemptingShutdown, TRUE}
    BY <1>3 DEF Terminate, TimeUp, NaoqiEnds, Return
  <2>3. reset \subseteq reset' /\ reset' \subseteq reset \cup {"TERM"}
    BY <1>3 DEF Terminate, TimeUp, NaoqiEnds, Return
  <2>4. naoqi' \in BOOLEAN /\ process' \in {"up", "ended", "killed"}
    BY <1>3 DEF Terminate, TimeUp, NaoqiEnds, Return, IInv, TypeOK
  <2>5. TypeOK'
    <3>1. attemptingShutdown' \in BOOLEAN
      BY <2>2 DEF IInv, TypeOK
    <3> QED
      BY <2>1, <2>3, <2>4, <3>1 DEF IInv, TypeOK
  <2>6. SignalInv'
    <3>1. reset' \cap Faults = reset \cap Faults
      BY <2>3, GuardConstants
    <3> QED
      BY <2>1, <3>1 DEF IInv, SignalInv
  <2>7. LockInv'
    BY <2>1, <2>2 DEF IInv, LockInv, Holders, Holding
  <2> QED
    BY <2>5, <2>6, <2>7 DEF IInv
<1>4. CASE UNCHANGED vars
  BY <1>4 DEF vars, IInv, TypeOK, SignalInv, LockInv, Holders, Holding
<1> QED
  BY <1>1, <1>2, <1>3, <1>4 DEF Next

LEMMA Inductive == Spec => []IInv
<1>1. Init => IInv
  BY InitHolds
<1>2. IInv /\ [Next]_vars => IInv'
  BY NextStep
<1> QED
  BY <1>1, <1>2, PTL DEF Spec

(* Every signal a thread is handling is blocked in it and back to its      *)
(* default action, for any faults and however many.                        *)
THEOREM TypeCorrect == Spec => []TypeOK
<1>1. IInv => TypeOK
  BY DEF IInv
<1> QED
  BY <1>1, Inductive, PTL

(* The serialization lock excludes unless it was taken from a living       *)
(* holder, and a lock nobody holds was left by a dead thread: when         *)
(* Perception waits for it, by the Off-Nao transmitter.                    *)
THEOREM LockIsSound == Spec => []LockSound
<1>1. IInv => LockSound
  <2> SUFFICES ASSUME IInv PROVE LockSound
    OBVIOUS
  <2>1. (\E t, u \in Holders : t # u) => stolen
    BY DEF IInv, LockInv
  <2>2. (lock /\ Holders = {}) => orphan # "none"
    BY DEF IInv, LockInv
  <2>3. ASSUME lock, Holders = {}, Waiting("Perception")
        PROVE  orphan = "OffnaoTransmitter"
    <3>1. pc["Perception"] \in Waits
      BY <2>3 DEF Waiting, Waits
    <3>2. pc["Perception"] \notin Dead \cup {"idle"}
      BY <3>1, NamesHold DEF SectionNames, Dead
    <3>3. orphan # "Perception" /\ orphan # "Motion" /\ orphan # "none"
      BY <2>2, <2>3, <3>2 DEF IInv, LockInv
    <3> QED
      BY <3>3 DEF IInv, TypeOK, Threads
  <2> QED
    BY <2>1, <2>2, <2>3 DEF LockSound
<1> QED
  BY <1>1, Inductive, PTL

(* The first fault of a kind in a thread kills runswift only if another    *)
(* thread is in the handler for that kind.                                 *)
THEOREM FirstFaultSurvived == Spec => SurvivesFirst
<1> DEFINE Spared == \A t \in Threads, k \in Faults :
                       (Fault(t, k) /\ process' = "killed")
                         => (k \in blocked[t] \/ \E u \in Threads \ {t} : caught[u] = k)
<1>1. IInv => Spared
  <2> SUFFICES ASSUME IInv, NEW t \in Threads, NEW k \in Faults,
                      Fault(t, k), process' = "killed", k \notin blocked[t]
               PROVE  \E u \in Threads \ {t} : caught[u] = k
    OBVIOUS
  <2>1. process = "up" /\ Running(t)
    BY DEF Fault
  <2>2. k \in reset
    BY <2>1 DEF Fault
  <2>3. PICK u \in Threads : caught[u] = k
    BY <2>2 DEF IInv, SignalInv
  <2>4. pc[t] # "caught"
    BY <2>1, NamesHold DEF Running, Holding, SectionNames
  <2>5. caught[t] = "none"
    BY <2>4 DEF IInv, SignalInv
  <2>6. k # "none"
    BY GuardConstants
  <2> QED
    BY <2>3, <2>5, <2>6
<1>2. IInv /\ [Next]_vars => [Spared]_vars
  BY <1>1
<1> QED
  BY <1>2, Inductive, PTL DEF Spec, SurvivesFirst
-----------------------------------------------------------------------------
(* How a thread moves through safelyRun, failures apart.                   *)
Anyone == {<<"ready", "building">>, <<"ready", "ended">>,
           <<"building", "idle">>, <<"idle", "ended">>,
           <<"caught", "ready">>, <<"asleep", "ready">>}

Moves(t, from, to) ==
  \/ <<from, to>> \in Anyone
  \/ /\ t = "Perception"
     /\ <<from, to>> \in {<<"idle", "to_see">>, <<"seeing", "to_locate">>,
                          <<"locating", "ticking">>, <<"ticking", "idle">>,
                          <<"ticking", "to_dump">>, <<"dumping", "idle">>}
  \/ /\ t = "OffnaoTransmitter"
     /\ <<from, to>> \in {<<"idle", "ticking">>, <<"ticking", "idle">>,
                          <<"ticking", "to_save">>, <<"saving", "idle">>}
  \/ /\ t = "Motion"
     /\ <<from, to>> \in {<<"idle", "semaphore">>, <<"semaphore", "idle">>}

Enters(from, to) ==
  <<from, to>> \in {<<"to_see", "seeing">>, <<"to_locate", "locating">>,
                   <<"to_dump", "dumping">>, <<"to_save", "saving">>}

LEMMA WorksMoves ==
  ASSUME NEW t \in Threads, Works(t)
  PROVE  \E to :
           /\ pc' = [pc EXCEPT ![t] = to] /\ Moves(t, pc[t], to)
           /\ pc[t] \in {"ready", "idle"} =>
                (to = "ended" <=> attemptingShutdown)
           /\ process = "up"
           /\ UNCHANGED <<process, naoqi, mishaps>>
           /\ pc[t] \notin Sections \cup {"building"} => UNCHANGED lock
<1> USE NamesHold DEF SectionNames, Moves, Anyone, Go, signals, history
<1>1. CASE Begin(t)
  BY <1>1 DEF Begin
<1>2. CASE Build(t)
  BY <1>2 DEF Build
<1>3. CASE HandleSignal(t)
  BY <1>3 DEF HandleSignal
<1>4. CASE WakeUp(t)
  BY <1>4 DEF WakeUp, Leave
<1>5. CASE t = "Perception" /\ BuildPerception
  BY <1>5 DEF BuildPerception
<1>6. CASE t = "Perception" /\ Perception
  BY <1>6 DEF Perception, Tick, Leave, Release, Wants
<1>7. CASE t = "OffnaoTransmitter" /\ OffnaoTransmitter
  BY <1>7 DEF OffnaoTransmitter, Tick, Leave, Release, Wants
<1>8. CASE t = "Motion" /\ Motion
  BY <1>8 DEF Motion, Tick, Leave
<1> QED
  BY <1>1, <1>2, <1>3, <1>4, <1>5, <1>6, <1>7, <1>8 DEF Works

LEMMA AcquireEnters ==
  ASSUME NEW t \in Threads, Acquire(t)
  PROVE  \E to : /\ pc' = [pc EXCEPT ![t] = to] /\ Enters(pc[t], to)
                 /\ process = "up" /\ ~lock /\ lock'
                 /\ UNCHANGED <<process, naoqi, mishaps, attemptingShutdown>>
<1>1. PICK s \in Sections : /\ Go(t, Wants[s], s) /\ ~lock /\ lock' = TRUE
                            /\ UNCHANGED <<naoqi, attemptingShutdown, process,
                                           signals, history>>
  BY DEF Acquire
<1>2. Enters(Wants[s], s)
  BY NamesHold DEF SectionNames, Enters, Wants
<1> QED
  BY <1>1, <1>2 DEF Go, history

(* No thread is where only another one can be, and none ends before it is  *)
(* told to.                                                                *)
PlacesOf(t) ==
  {"ready", "building", "idle", "caught", "asleep", "ended"} \cup
    CASE t = "Perception" ->
           {"to_see", "seeing", "to_locate", "locating", "ticking",
            "to_dump", "dumping"}
      [] t = "OffnaoTransmitter" -> {"ticking", "to_save", "saving"}
      [] t = "Motion" -> {"semaphore"}

AtHome ==
  /\ \A t \in Threads : pc[t] \in PlacesOf(t)
  /\ (\E t \in Threads : pc[t] = "ended") => attemptingShutdown

LEMMA StaysHome == IInv /\ AtHome /\ [Next]_vars => AtHome'
<1> SUFFICES ASSUME IInv, AtHome, [Next]_vars PROVE AtHome'
  OBVIOUS
<1> USE DEF AtHome
<1>0. pc \in [Threads -> Places] /\ attemptingShutdown \in BOOLEAN
  BY DEF IInv, TypeOK
<1>1. ASSUME NEW t \in Threads, NEW to, pc' = [pc EXCEPT ![t] = to],
             to \in PlacesOf(t), to = "ended" => attemptingShutdown',
             attemptingShutdown => attemptingShutdown'
      PROVE  AtHome'
  BY <1>0, <1>1
<1>2. ASSUME NEW t \in Threads, Works(t) PROVE AtHome'
  <2>1. PICK to : /\ pc' = [pc EXCEPT ![t] = to] /\ Moves(t, pc[t], to)
                  /\ pc[t] \in {"ready", "idle"} =>
                       (to = "ended" <=> attemptingShutdown)
    BY <1>2, WorksMoves
  <2>2. to \in PlacesOf(t) /\ (to = "ended" => pc[t] \in {"ready", "idle"})
    BY <2>1 DEF Moves, Anyone, PlacesOf, Threads
  <2>3. attemptingShutdown => attemptingShutdown'
    BY <1>2 DEF Works, Begin, Build, BuildPerception, HandleSignal, WakeUp,
                Perception, OffnaoTransmitter, Motion, Tick, Leave, Release
  <2> QED
    BY <1>1, <2>1, <2>2, <2>3
<1>3. ASSUME NEW t \in Threads, Acquire(t) PROVE AtHome'
  <2>1. PICK to : /\ pc' = [pc EXCEPT ![t] = to] /\ Enters(pc[t], to)
                  /\ attemptingShutdown' = attemptingShutdown
    BY <1>3, AcquireEnters
  <2>2. to \in PlacesOf(t) /\ to # "ended"
    BY <2>1 DEF Enters, PlacesOf, Threads
  <2> QED
    BY <1>1, <2>1, <2>2
<1>4. ASSUME NEW t \in Threads, Throw(t) \/ \E k \in Faults : Fault(t, k)
      PROVE  AtHome'
  <2>1. /\ \/ pc' = pc
           \/ \E to \in {"idle", "asleep", "caught"} :
                pc' = [pc EXCEPT ![t] = to]
        /\ attemptingShutdown' \in {attemptingShutdown, TRUE}
    BY <1>4 DEF Throw, Fault
  <2>2. {"idle", "asleep", "caught"} \subseteq PlacesOf(t) \ {"ended"}
    BY DEF PlacesOf
  <2>3. attemptingShutdown => attemptingShutdown'
    BY <1>0, <2>1
  <2>4. CASE pc' = pc
    BY <2>3, <2>4
  <2>5. ASSUME NEW to \in {"idle", "asleep", "caught"},
               pc' = [pc EXCEPT ![t] = to]
        PROVE  AtHome'
    BY <1>1, <2>2, <2>3, <2>5
  <2> QED
    BY <2>1, <2>4, <2>5
<1>5. CASE Terminate \/ TimeUp \/ NaoqiEnds \/ Return \/ UNCHANGED vars
  <2>1. pc' = pc /\ attemptingShutdown' \in {attemptingShutdown, TRUE}
    BY <1>5 DEF Terminate, TimeUp, NaoqiEnds, Return, vars
  <2> QED
    BY <2>1
<1> QED
  BY <1>2, <1>3, <1>4, <1>5 DEF Next

LEMMA HomeAlways == Spec => [](IInv /\ AtHome)
<1>1. Init => AtHome
  BY DEF Init, AtHome, PlacesOf
<1> QED
  BY <1>1, StaysHome, Inductive, PTL DEF Spec

(* What a step without a failure does: a thread works or enters a section, *)
(* or nothing the threads look at changes but the switches.                *)
Quiet == mishaps' = mishaps

LEMMA QuietStep ==
  ASSUME IInv, [Next]_vars, Quiet
  PROVE  /\ \/ \E t \in Threads : Works(t) \/ Acquire(t)
            \/ /\ UNCHANGED <<pc, lock, orphan>>
               /\ naoqi' = naoqi \/ ~naoqi'
               /\ process' = process \/ process' # "up"
         /\ attemptingShutdown => attemptingShutdown'
         /\ (\E t \in Threads : Works(t) \/ Acquire(t))
              => process = "up" /\ UNCHANGED <<process, naoqi>>
<1>0. mishaps \in Nat
  BY GuardConstants DEF IInv, TypeOK
<1>1. ~Mishap
  BY <1>0 DEF Quiet, Mishap
<1>2. ASSUME NEW t \in Threads
      PROVE  ~Throw(t) /\ ~\E k \in Faults : Fault(t, k)
  BY <1>1 DEF Throw, Fault
<1>3. CASE \E t \in Threads : Works(t) \/ Acquire(t)
  <2>1. PICK t \in Threads : Works(t) \/ Acquire(t)
    BY <1>3
  <2>2. process = "up" /\ UNCHANGED <<process, naoqi>>
    BY <2>1, WorksMoves, AcquireEnters
  <2>3. attemptingShutdown => attemptingShutdown'
    BY <2>1 DEF Works, Begin, Build, BuildPerception, HandleSignal, WakeUp,
                Perception, OffnaoTransmitter, Motion, Tick, Leave, Release,
                Acquire
  <2> QED
    BY <2>2, <2>3, <1>3
<1>4. CASE Terminate \/ TimeUp \/ NaoqiEnds \/ Return \/ UNCHANGED vars
  <2>1. /\ UNCHANGED <<pc, lock, orphan>>
        /\ naoqi' = naoqi \/ ~naoqi'
        /\ process' = process \/ process' # "up"
        /\ attemptingShutdown => attemptingShutdown'
    BY <1>4 DEF Terminate, TimeUp, NaoqiEnds, Return, vars, history
  <2> QED
    BY <1>3, <2>1
<1> QED
  BY <1>2, <1>3, <1>4 DEF Next

-----------------------------------------------------------------------------
(* A non-empty set of natural numbers has a least element: the intervals   *)
(* 1..k are well-founded by inclusion.                                     *)
LEMMA LeastElement ==
  ASSUME NEW S, S \subseteq Nat, S # {}
  PROVE  \E n \in S : \A m \in S : n <= m
<1> DEFINE Below   == {1..k : k \in S}
           Smaller == StrictSubsetOrdering(Nat)
<1>1. Below \subseteq FiniteSubsetsOf(Nat) /\ Below # {}
  <2>1. \A k \in Nat : 1..k \in FiniteSubsetsOf(Nat)
    BY FS_Interval DEF FiniteSubsetsOf
  <2> QED
    BY <2>1
<1>2. \E X \in Below : \A Y \in Below : <<Y, X>> \notin Smaller
  <2>1. IsWellFoundedOn(Smaller, FiniteSubsetsOf(Nat))
    BY FS_StrictSubsetOrderingWellFounded
  <2> HIDE DEF Below, Smaller
  <2> QED
    BY <1>1, <2>1, WFMin, Zenon
<1>3. PICK n \in S : \A m \in S : <<1..m, 1..n>> \notin Smaller
  BY <1>2
<1>4. ASSUME NEW m \in S, m < n PROVE FALSE
  <2>1. n \in 1..n /\ n \notin 1..m
    BY <1>4
  <2>2. 1..m \subseteq 1..n /\ 1..m \in SUBSET Nat /\ 1..n \in SUBSET Nat
    BY <1>4
  <2> QED
    BY <1>3, <2>1, <2>2 DEF StrictSubsetOrdering
<1> QED
  BY <1>4

(* Induction.  The theorems of the library take a predicate as parameter,  *)
(* which the provers cannot instantiate; here it is the table of its       *)
(* values, a function.  Named(h) says nothing: it brings the table h to    *)
(* the provers' attention.                                                 *)
Named(h) == TRUE

LEMMA TableInduction ==
  \A h : Named(h) =>
    (/\ h[0] = TRUE
     /\ \A n \in Nat : h[n] = TRUE => h[n + 1] = TRUE
     => \A n \in Nat : h[n] = TRUE)
<1> SUFFICES ASSUME NEW h, h[0] = TRUE,
                    \A n \in Nat : h[n] = TRUE => h[n + 1] = TRUE,
                    {n \in Nat : h[n] # TRUE} # {}
             PROVE  FALSE
  OBVIOUS
<1>1. PICK n \in Nat : /\ h[n] # TRUE
                       /\ \A m \in Nat : h[m] # TRUE => n <= m
  BY LeastElement
<1>2. n # 0
  BY <1>1, Zenon
<1>3. n - 1 \in Nat /\ ~(n <= n - 1) /\ (n - 1) + 1 = n
  BY <1>2
<1>4. h[n - 1] = TRUE
  BY <1>1, <1>3, Zenon
<1>5. h[(n - 1) + 1] = TRUE
  BY <1>3, <1>4, Zenon
<1> QED
  BY <1>1, <1>3, <1>5, Zenon

-----------------------------------------------------------------------------
(* Failures cease, by induction on how many are left: the bound on them is *)
(* arbitrary.                                                              *)
Going == [](IInv /\ AtHome) /\ [][Next]_vars

Spare(n)   == MAX_MISHAPS - mishaps <= n
CeaseBy(n) == Going => [](Spare(n) => <>[][Quiet]_vars)
Cease(n)   == \A m \in Nat : m = n => CeaseBy(m)

LEMMA CeaseInduction ==
  /\ Cease(0)
  /\ \A n \in Nat : Cease(n) => Cease(n + 1)
  => \A n \in Nat : Cease(n)
<1>1. Named([n \in Nat |-> IF Cease(n) THEN TRUE ELSE FALSE])
  BY DEF Named
<1> QED
  BY <1>1, TableInduction

LEMMA MishapStep ==
  ASSUME IInv, [Next]_vars
  PROVE  Quiet \/ (mishaps < MAX_MISHAPS /\ mishaps' = mishaps + 1)
<1>1. ASSUME NEW t \in Threads, Works(t) \/ Acquire(t) PROVE Quiet
  BY <1>1, WorksMoves, AcquireEnters DEF Quiet
<1>2. CASE Terminate \/ TimeUp \/ NaoqiEnds \/ Return \/ UNCHANGED vars
  BY <1>2 DEF Terminate, TimeUp, NaoqiEnds, Return, vars, history, Quiet
<1> QED
  BY <1>1, <1>2 DEF Next, Throw, Fault, Mishap

LEMMA SpareStep ==
  ASSUME IInv, [Next]_vars, NEW n \in Nat
  PROVE  /\ Spare(0) => Spare(0)' /\ Quiet
         /\ Spare(n + 1) => Spare(n)' \/ (Spare(n + 1)' /\ Quiet)
<1>1. mishaps \in Int /\ MAX_MISHAPS \in Int
  BY GuardConstants DEF IInv, TypeOK
<1>2. CASE Quiet
  BY <1>2 DEF Quiet, Spare
<1>3. CASE mishaps < MAX_MISHAPS /\ mishaps' = mishaps + 1
  BY <1>1, <1>3 DEF Spare
<1> QED
  BY <1>2, <1>3, MishapStep

LEMMA MishapsCease == Going => <>[][Quiet]_vars
<1>1. Cease(0)
  <2>1. IInv /\ [Next]_vars /\ Spare(0) => Spare(0)' /\ Quiet
    BY SpareStep
  <2>2. CeaseBy(0)
    BY <2>1, PTL DEF CeaseBy, Going
  <2> QED
    BY <2>2 DEF Cease
<1>2. \A n \in Nat : Cease(n) => Cease(n + 1)
  <2> SUFFICES ASSUME NEW n \in Nat PROVE CeaseBy(n) => CeaseBy(n + 1)
    BY DEF Cease
  <2>1. IInv /\ [Next]_vars /\ Spare(n + 1)
          => Spare(n)' \/ (Spare(n + 1)' /\ Quiet)
    BY SpareStep
  <2> QED
    BY <2>1, PTL DEF CeaseBy, Going
<1> SUFFICES ASSUME Going PROVE <>[][Quiet]_vars
  OBVIOUS
<1>3. IInv
  BY PTL DEF Going
<1>4. MAX_MISHAPS - mishaps \in Nat
  BY <1>3, GuardConstants DEF IInv, TypeOK
<1>5. PICK n \in Nat : Spare(n)
  BY <1>4 DEF Spare
<1>6. CeaseBy(n)
  BY <1>1, <1>2, CeaseInduction DEF Cease
<1> QED
  BY <1>5, <1>6, PTL DEF CeaseBy
-----------------------------------------------------------------------------
(* A shutdown.  Weak fairness of Works(t), of Acquire(t) (which strong     *)
(* fairness implies) and of Return, written out with the conditions under  *)
(* which a thread can work, enter a section, or main return.               *)
CanWork(t) ==
  /\ process = "up" /\ pc[t] \in PlacesOf(t) \ (Waits \cup {"ended"})
  /\ pc[t] = "semaphore" => naoqi
CanEnter(t) == process = "up" /\ Waiting(t) /\ ~lock
CanReturn   == process = "up" /\ \A t \in Threads : pc[t] = "ended"

WorksRuns(t) == []<>~CanWork(t) \/ []<><<Works(t)>>_vars
EnterRuns(t) == []<>~CanEnter(t) \/ []<><<Acquire(t)>>_vars
ReturnRuns   == []<>~CanReturn \/ []<><<Return>>_vars
ThreadsRun   ==
  /\ WorksRuns("Perception") /\ WorksRuns("OffnaoTransmitter")
  /\ WorksRuns("Motion")
  /\ EnterRuns("Perception") /\ EnterRuns("OffnaoTransmitter")

(* How many moves a thread has left once it is told to end.                *)
MovesLeft(p) ==
  CASE p = "ended" -> 0
    [] p \in {"ready", "idle"} -> 1
    [] p \in {"building", "caught", "asleep", "semaphore", "dumping",
              "saving"} -> 2
    [] p \in {"to_dump", "to_save"} -> 3
    [] p = "ticking" -> 4 [] p = "locating" -> 5 [] p = "to_locate" -> 6
    [] p = "seeing" -> 7 [] p = "to_see" -> 8

Total == MovesLeft(pc["Perception"]) + MovesLeft(pc["OffnaoTransmitter"])
           + MovesLeft(pc["Motion"])

LEMMA LeftTyped == \A p \in Places : MovesLeft(p) \in 0..8
BY NamesHold DEF SectionNames, Places, Wants, MovesLeft

LEMMA EveryMoveCounts ==
  ASSUME NEW t \in Threads, NEW from, NEW to,
         Moves(t, from, to) \/ Enters(from, to),
         from \in {"ready", "idle"} => to = "ended"
  PROVE  MovesLeft(to) < MovesLeft(from)
BY DEF Moves, Anyone, Enters, MovesLeft

LEMMA ThreadMoves ==
  ASSUME IInv, AtHome, attemptingShutdown, NEW t \in Threads,
         Works(t) \/ Acquire(t)
  PROVE  Total' < Total
<1>1. PICK to : /\ pc' = [pc EXCEPT ![t] = to]
                /\ Moves(t, pc[t], to) \/ Enters(pc[t], to)
                /\ pc[t] \in {"ready", "idle"} => to = "ended"
  <2>1. \A to : Enters(pc[t], to) => pc[t] \notin {"ready", "idle"}
    BY DEF Enters
  <2> QED
    BY <2>1, WorksMoves, AcquireEnters
<1>2. MovesLeft(to) < MovesLeft(pc[t])
  BY <1>1, EveryMoveCounts
<1>3. pc \in [Threads -> Places] /\ pc' \in [Threads -> Places]
  BY NextStep DEF Next, IInv, TypeOK
<1>4. /\ MovesLeft(pc["Perception"]) \in 0..8
      /\ MovesLeft(pc["OffnaoTransmitter"]) \in 0..8
      /\ MovesLeft(pc["Motion"]) \in 0..8 /\ MovesLeft(to) \in 0..8
  BY <1>1, <1>3, LeftTyped DEF Threads
<1>5. \A u \in Threads \ {t} : pc'[u] = pc[u]
  BY <1>1, <1>3
<1>6. pc'[t] = to
  BY <1>1, <1>3
<1> QED
  BY <1>2, <1>4, <1>5, <1>6 DEF Threads, Total

Over    == process # "up" \/ ~naoqi \/ (Stuck /\ \E t \in Threads : Waiting(t))
Ends(n) == Total <= n

LEMMA EndStep ==
  ASSUME IInv, AtHome, attemptingShutdown, [Next]_vars, Quiet,
         NEW n \in Nat, Ends(n + 1)
  PROVE  /\ \/ Over' \/ Ends(n)'
            \/ /\ Ends(n + 1)'
               /\ CanReturn => CanReturn'
               /\ \A t \in Threads : /\ CanWork(t) => CanWork(t)'
                                     /\ CanEnter(t) => CanEnter(t)'
         /\ \A t \in Threads : Works(t) \/ Acquire(t) => Ends(n)'
<1>1. Total \in Int /\ Total' \in Int
  <2>1. pc \in [Threads -> Places] /\ pc' \in [Threads -> Places]
    BY NextStep DEF IInv, TypeOK
  <2> QED
    BY <2>1, LeftTyped DEF Total, Threads
<1>2. ASSUME NEW t \in Threads, Works(t) \/ Acquire(t) PROVE Ends(n)'
  <2>1. Total' < Total
    BY <1>2, ThreadMoves
  <2> QED
    BY <1>1, <2>1 DEF Ends
<1>3. CASE /\ UNCHANGED <<pc, lock, orphan>>
           /\ naoqi' = naoqi \/ ~naoqi'
           /\ process' = process \/ process' # "up"
  <2>1. Ends(n + 1)'
    BY <1>3 DEF Ends, Total
  <2>2. CASE naoqi' = naoqi /\ process' = process
    BY <1>2, <1>3, <2>1, <2>2 DEF CanWork, CanEnter, CanReturn, Waiting
  <2>3. CASE ~(naoqi' = naoqi /\ process' = process)
    BY <1>2, <1>3, <2>3 DEF Over
  <2> QED
    BY <1>2, <2>2, <2>3
<1> QED
  BY <1>2, <1>3, QuietStep

LEMMA EndZero ==
  ASSUME IInv, AtHome, attemptingShutdown
  PROVE  /\ Total >= 0
         /\ Ends(0) => CanReturn \/ process # "up"
<1>1. pc \in [Threads -> Places]
  BY DEF IInv, TypeOK
<1>2. /\ MovesLeft(pc["Perception"]) \in 0..8
      /\ MovesLeft(pc["OffnaoTransmitter"]) \in 0..8
      /\ MovesLeft(pc["Motion"]) \in 0..8
  BY <1>1, LeftTyped DEF Threads
<1>3. \A p \in Places : MovesLeft(p) = 0 => p = "ended"
  BY NamesHold DEF SectionNames, Places, Wants, MovesLeft
<1>4. ASSUME Ends(0) PROVE \A t \in Threads : pc[t] = "ended"
  BY <1>1, <1>2, <1>3, <1>4 DEF Ends, Total, Threads
<1> QED
  BY <1>2, <1>4 DEF Total, CanReturn

LEMMA SomeoneCan ==
  ASSUME IInv, AtHome, ~Over
  PROVE  \/ CanReturn
         \/ CanWork("Perception") \/ CanWork("OffnaoTransmitter")
         \/ CanWork("Motion")
         \/ CanEnter("Perception") \/ CanEnter("OffnaoTransmitter")
<1> SUFFICES ASSUME \A t \in Threads : ~CanWork(t), ~CanReturn
             PROVE  CanEnter("Perception") \/ CanEnter("OffnaoTransmitter")
  BY DEF Threads
<1>1. process = "up" /\ naoqi
  BY DEF Over
<1>2. \A t \in Threads : pc[t] \in Waits \cup {"ended"}
  BY <1>1 DEF CanWork, AtHome
<1>3. Holders = {}
  BY <1>2, NamesHold DEF SectionNames, Holders, Holding
<1>4. PICK t \in Threads : pc[t] \in Waits
  BY <1>1, <1>2 DEF CanReturn
<1>5. Waiting(t)
  BY <1>4 DEF Waiting, Waits
<1>6. ~lock
  BY <1>3, <1>5 DEF Over, Stuck
<1>7. t # "Motion"
  BY <1>4 DEF IInv, LockInv
<1> QED
  BY <1>1, <1>5, <1>6, <1>7 DEF CanEnter, Threads

(* Told to end, runswift ends, by induction on the moves left.             *)
Ending ==
  /\ Going /\ [][Quiet]_vars /\ []attemptingShutdown
  /\ ThreadsRun /\ ReturnRuns

EndsBy(n)   == Ending => [](Ends(n) => <>Over)
EndsUpTo(n) == \A m \in Nat : m = n => EndsBy(m)

LEMMA EndsInduction ==
  /\ EndsUpTo(0)
  /\ \A n \in Nat : EndsUpTo(n) => EndsUpTo(n + 1)
  => \A n \in Nat : EndsUpTo(n)
<1>1. Named([n \in Nat |-> IF EndsUpTo(n) THEN TRUE ELSE FALSE])
  BY DEF Named
<1> QED
  BY <1>1, TableInduction

LEMMA ReturnEnds == Return => Over'
BY DEF Return, Over

LEMMA QuietVars == [Quiet]_vars => Quiet
BY DEF Quiet, vars

LEMMA EndsZero == EndsUpTo(0)
<1>1. IInv /\ AtHome /\ attemptingShutdown /\ Ends(0)
        => CanReturn \/ Over
  BY EndZero DEF Over
<1>2. IInv /\ [Next]_vars /\ CanReturn => CanReturn' \/ Over'
  <2> SUFFICES ASSUME IInv, [Next]_vars, CanReturn PROVE CanReturn' \/ Over'
    OBVIOUS
  <2>1. \A t \in Threads : pc[t] = "ended"
    BY DEF CanReturn
  <2>2. ASSUME NEW t \in Threads, Works(t) PROVE FALSE
    <3>1. PICK to : Moves(t, pc[t], to)
      BY <2>2, WorksMoves
    <3> QED
      BY <2>1, <3>1 DEF Moves, Anyone
  <2>3. ASSUME NEW t \in Threads, Acquire(t) PROVE FALSE
    <3>1. PICK to : Enters(pc[t], to)
      BY <2>3, AcquireEnters
    <3> QED
      BY <2>1, <3>1 DEF Enters
  <2>4. ASSUME NEW t \in Threads
        PROVE  ~Throw(t) /\ ~\E k \in Faults : Fault(t, k)
    BY <2>1, NamesHold DEF Throw, Fault, Running, Holding, SectionNames
  <2>5. CASE Terminate \/ TimeUp \/ NaoqiEnds \/ Return \/ UNCHANGED vars
    <3>1. pc' = pc /\ (process' = process \/ process' # "up")
      BY <2>5 DEF Terminate, TimeUp, NaoqiEnds, Return, vars
    <3> QED
      BY <3>1 DEF CanReturn, Over
  <2> QED
    BY <2>2, <2>3, <2>4, <2>5 DEF Next
<1>3. EndsBy(0)
  BY <1>1, <1>2, ReturnEnds, PTL DEF EndsBy, Ending, Going, ReturnRuns
<1> QED
  BY <1>3 DEF EndsUpTo

LEMMA EndsStep == \A n \in Nat : EndsUpTo(n) => EndsUpTo(n + 1)
<1> SUFFICES ASSUME NEW n \in Nat PROVE EndsBy(n) => EndsBy(n + 1)
  BY DEF EndsUpTo
<1>1. /\ IInv /\ AtHome /\ attemptingShutdown /\ [Next]_vars /\ Quiet
      /\ Ends(n + 1)
      => \/ Over' \/ Ends(n)'
         \/ /\ Ends(n + 1)'
            /\ CanReturn => CanReturn'
            /\ CanWork("Perception") => CanWork("Perception")'
            /\ CanWork("OffnaoTransmitter") => CanWork("OffnaoTransmitter")'
            /\ CanWork("Motion") => CanWork("Motion")'
            /\ CanEnter("Perception") => CanEnter("Perception")'
            /\ CanEnter("OffnaoTransmitter") => CanEnter("OffnaoTransmitter")'
  BY EndStep DEF Threads
<1>2. /\ IInv /\ AtHome /\ attemptingShutdown /\ [Next]_vars /\ Quiet
      /\ Ends(n + 1)
      => /\ Works("Perception") => Ends(n)'
         /\ Works("OffnaoTransmitter") => Ends(n)'
         /\ Works("Motion") => Ends(n)'
         /\ Acquire("Perception") => Ends(n)'
         /\ Acquire("OffnaoTransmitter") => Ends(n)'
  BY EndStep DEF Threads
<1> QED
  BY <1>1, <1>2, SomeoneCan, ReturnEnds, QuietVars, PTL
     DEF EndsBy, Ending, Going, ThreadsRun, WorksRuns, EnterRuns, ReturnRuns

LEMMA EndsAtLast == Ending => <>Over
<1> SUFFICES ASSUME Ending PROVE <>Over
  OBVIOUS
<1>1. IInv /\ AtHome /\ attemptingShutdown
  BY PTL DEF Ending, Going
<1>2. Total \in Nat
  <2>1. pc \in [Threads -> Places]
    BY <1>1 DEF IInv, TypeOK
  <2> QED
    BY <2>1, LeftTyped DEF Total, Threads
<1>3. PICK n \in Nat : Ends(n)
  BY <1>2 DEF Ends
<1>4. EndsBy(n)
  BY EndsInduction, EndsZero, EndsStep DEF EndsUpTo
<1> QED
  BY <1>3, <1>4, PTL DEF EndsBy

(* A shutdown ends runswift, for any faults and however many there may be, *)
(* unless NaoQi has gone or a thread waits for a lock whose holder died.   *)
THEOREM ShutdownObeyed == Spec /\ ThreadsRun /\ ReturnRuns => ShutdownEnds
<1>1. IInv /\ [Next]_vars /\ attemptingShutdown => attemptingShutdown'
  BY DEF Next, Works, Begin, Build, BuildPerception, HandleSignal, WakeUp,
         Perception, OffnaoTransmitter, Motion, Tick, Leave, Release,
         Acquire, Throw, Fault, Terminate, TimeUp, NaoqiEnds, Return, vars
<1>2. Over <=> (process # "up" \/ ~naoqi
                  \/ (Stuck /\ \E t \in Threads : Waiting(t)))
  BY DEF Over
<1> QED
  BY <1>1, <1>2, HomeAlways, MishapsCease, EndsAtLast, PTL
     DEF ShutdownEnds, Spec, Going, Ending, ThreadsRun, WorksRuns, EnterRuns,
         ReturnRuns

-----------------------------------------------------------------------------
(* Perception keeps seeing.  Here the fairness of its way into a section   *)
(* is strong: the transmitter may take the lock again and again.           *)
EnterAgain ==
  <>[]~CanEnter("Perception") \/ []<><<Acquire("Perception")>>_vars
SightRuns ==
  /\ WorksRuns("Perception") /\ WorksRuns("OffnaoTransmitter")
  /\ EnterAgain

AtWork   == process = "up" /\ ~attemptingShutdown
Watching == Going /\ [][Quiet]_vars /\ []AtWork /\ SightRuns

PAt(x)  == pc["Perception"] = x
Lost    == Stuck /\ orphan = "OffnaoTransmitter"
Saves   == pc["OffnaoTransmitter"] = "saving"
Locked  == lock

Onward(x, y, z) == Watching => (PAt(x) ~> PAt(y) \/ PAt(z) \/ Lost)

LEMMA PerceptionStep ==
  ASSUME IInv, AtHome, [Next]_vars, Quiet, AtWork
  PROVE  /\ pc'["Perception"] = pc["Perception"]
              \/ Works("Perception") \/ Acquire("Perception")
         /\ Works("Perception")
              => /\ Moves("Perception", pc["Perception"], pc'["Perception"])
                 /\ pc'["Perception"] # "ended"
         /\ Acquire("Perception")
              => /\ Enters(pc["Perception"], pc'["Perception"])
                 /\ ~lock
<1>1. pc \in [Threads -> Places] /\ "Perception" \in Threads
  BY DEF IInv, TypeOK, Threads
<1>2. ASSUME Works("Perception")
      PROVE  /\ Moves("Perception", pc["Perception"], pc'["Perception"])
             /\ pc'["Perception"] # "ended"
  <2>1. PICK to : /\ pc' = [pc EXCEPT !["Perception"] = to]
                  /\ Moves("Perception", pc["Perception"], to)
                  /\ pc["Perception"] \in {"ready", "idle"} =>
                       (to = "ended" <=> attemptingShutdown)
    BY <1>1, <1>2, WorksMoves
  <2>2. pc'["Perception"] = to
    BY <1>1, <2>1
  <2>3. to = "ended" => pc["Perception"] \in {"ready", "idle"}
    BY <2>1 DEF Moves, Anyone
  <2> QED
    BY <2>1, <2>2, <2>3 DEF AtWork
<1>3. ASSUME Acquire("Perception")
      PROVE  Enters(pc["Perception"], pc'["Perception"]) /\ ~lock
  <2>1. PICK to : /\ pc' = [pc EXCEPT !["Perception"] = to]
                  /\ Enters(pc["Perception"], to) /\ ~lock
    BY <1>1, <1>3, AcquireEnters
  <2> QED
    BY <1>1, <2>1
<1>4. ASSUME NEW t \in Threads \ {"Perception"}, Works(t) \/ Acquire(t)
      PROVE  pc'["Perception"] = pc["Perception"]
  <2>1. \E to : pc' = [pc EXCEPT ![t] = to]
    BY <1>4, WorksMoves, AcquireEnters
  <2> QED
    BY <1>1, <2>1
<1> QED
  BY <1>2, <1>3, <1>4, QuietStep

(* Where Perception has work to do, it does it...                          *)
LEMMA WorkGoesOn ==
  ASSUME NEW x, NEW y, NEW z, x \notin Waits \cup {"ended"},
         \A to : Moves("Perception", x, to) => to \in {y, z, "ended"}
  PROVE  Onward(x, y, z)
<1>1. IInv /\ AtHome /\ [Next]_vars /\ Quiet /\ AtWork
        => /\ PAt(x) => PAt(x)' \/ PAt(y)' \/ PAt(z)'
           /\ PAt(x) /\ Works("Perception") => PAt(y)' \/ PAt(z)'
  <2> SUFFICES ASSUME IInv, AtHome, [Next]_vars, Quiet, AtWork, PAt(x)
               PROVE  /\ PAt(x)' \/ PAt(y)' \/ PAt(z)'
                      /\ Works("Perception") => PAt(y)' \/ PAt(z)'
    OBVIOUS
  <2>1. ~Acquire("Perception")
    BY PerceptionStep, NamesHold DEF PAt, Enters, SectionNames
  <2> QED
    BY <2>1, PerceptionStep DEF PAt
<1>2. AtHome /\ AtWork /\ PAt(x) => CanWork("Perception")
  BY DEF AtHome, AtWork, PAt, CanWork, Threads, PlacesOf
<1> QED
  BY <1>1, <1>2, QuietVars, PTL
     DEF Onward, Watching, Going, SightRuns, WorksRuns

(* ... and where it waits, the lock is freed, unless it was lost.          *)
LEMMA EntryGoesOn ==
  ASSUME NEW w \in Waits, NEW s, Enters(w, s)
  PROVE  Onward(w, s, s)
<1>1. IInv /\ AtHome /\ [Next]_vars /\ Quiet /\ AtWork
        => /\ PAt(w) => PAt(w)' \/ PAt(s)'
           /\ PAt(w) /\ Acquire("Perception") => PAt(s)'
  <2> SUFFICES ASSUME IInv, AtHome, [Next]_vars, Quiet, AtWork, PAt(w)
               PROVE  /\ PAt(w)' \/ PAt(s)'
                      /\ Acquire("Perception") => PAt(s)'
    OBVIOUS
  <2>1. ~Works("Perception")
    BY PerceptionStep, NamesHold DEF PAt, Moves, Anyone, SectionNames
  <2>2. \A r : Enters(w, r) => r = s
    BY DEF Enters
  <2> QED
    BY <2>1, <2>2, PerceptionStep DEF PAt
<1>2. IInv /\ AtHome /\ PAt(w) /\ Locked => Saves \/ Lost
  <2> SUFFICES ASSUME IInv, AtHome, PAt(w), lock, ~Saves PROVE Lost
    BY DEF Locked
  <2>1. Holders = {}
    <3>1. pc["Perception"] \notin Sections
      BY NamesHold DEF PAt, SectionNames
    <3>2. pc["OffnaoTransmitter"] \notin Sections
      BY NamesHold DEF AtHome, PlacesOf, Threads, SectionNames, Saves
    <3>3. pc["Motion"] \notin Sections
      BY DEF IInv, LockInv
    <3> QED
      BY <3>1, <3>2, <3>3 DEF Holders, Holding, Threads
  <2>2. orphan # "none" /\ orphan # "Motion"
    BY <2>1 DEF IInv, LockInv
  <2>3. pc["Perception"] \notin Dead \cup {"idle"}
    BY NamesHold DEF PAt, SectionNames, Dead
  <2>4. orphan # "Perception"
    BY <2>3 DEF IInv, LockInv
  <2> QED
    BY <2>1, <2>2, <2>4 DEF Lost, Stuck, IInv, TypeOK, Threads
<1>3. IInv /\ AtHome /\ [Next]_vars /\ Quiet /\ AtWork
        => /\ Saves => Saves' \/ ~Locked'
           /\ Saves /\ Works("OffnaoTransmitter") => ~Locked'
  <2> SUFFICES ASSUME IInv, AtHome, [Next]_vars, Quiet, AtWork, Saves
               PROVE  /\ Saves' \/ ~Locked'
                      /\ Works("OffnaoTransmitter") => ~Locked'
    OBVIOUS
  <2>1. pc \in [Threads -> Places] /\ "OffnaoTransmitter" \in Threads
    BY DEF IInv, TypeOK, Threads
  <2>2. Works("OffnaoTransmitter") => ~Locked'
    BY NamesHold DEF Saves, Locked, Works, Begin, Build, HandleSignal, WakeUp,
                     OffnaoTransmitter, Tick, Leave, Release, Go
  <2>3. ~Acquire("OffnaoTransmitter")
    <3>1. \A to : ~Enters("saving", to)
      BY DEF Enters
    <3> QED
      BY <2>1, <3>1, AcquireEnters DEF Saves
  <2>4. ASSUME NEW t \in Threads \ {"OffnaoTransmitter"},
               Works(t) \/ Acquire(t)
        PROVE  Saves'
    <3>1. \E to : pc' = [pc EXCEPT ![t] = to]
      BY <2>4, WorksMoves, AcquireEnters
    <3> QED
      BY <2>1, <3>1 DEF Saves
  <2> QED
    BY <2>2, <2>3, <2>4, QuietStep DEF Saves
<1>4. AtHome /\ AtWork /\ Saves => CanWork("OffnaoTransmitter")
  BY NamesHold DEF AtHome, AtWork, Saves, CanWork, Threads, SectionNames
<1>5. AtWork /\ PAt(w) /\ ~Locked => CanEnter("Perception")
  BY DEF AtWork, PAt, Locked, CanEnter, Waiting, Waits
<1> QED
  BY <1>1, <1>2, <1>3, <1>4, <1>5, QuietVars, PTL
     DEF Onward, Watching, Going, SightRuns, WorksRuns, EnterAgain

(* Perception keeps seeing whatever fails in it, unless the transmitter    *)
(* died in a save or runswift ends, for any faults and however many.       *)
THEOREM SightKept == Spec /\ SightRuns => PerceptionSees
<1>1. /\ Onward("ready", "building", "building")
      /\ Onward("building", "idle", "idle")
      /\ Onward("caught", "ready", "ready")
      /\ Onward("asleep", "ready", "ready")
      /\ Onward("idle", "to_see", "to_see")
      /\ Onward("seeing", "to_locate", "to_locate")
      /\ Onward("locating", "ticking", "ticking")
      /\ Onward("ticking", "idle", "to_dump")
      /\ Onward("dumping", "idle", "idle")
  BY WorkGoesOn, NamesHold DEF Moves, Anyone, SectionNames
<1>2. /\ Onward("to_see", "seeing", "seeing")
      /\ Onward("to_locate", "locating", "locating")
      /\ Onward("to_dump", "dumping", "dumping")
  BY EntryGoesOn, NamesHold DEF Enters, SectionNames
<1>3. Watching => (PAt("idle") ~> PAt("seeing") \/ Lost)
  BY <1>1, <1>2, PTL DEF Onward
<1>4. Watching => (PAt("ticking") ~> PAt("seeing") \/ Lost)
  BY <1>1, <1>2, <1>3, PTL DEF Onward
<1>5. Watching => (PAt("ready") ~> PAt("seeing") \/ Lost)
  BY <1>1, <1>3, PTL DEF Onward
<1>6. IInv /\ AtHome /\ AtWork
        => \/ PAt("ready") \/ PAt("building") \/ PAt("idle") \/ PAt("caught")
           \/ PAt("asleep") \/ PAt("to_see") \/ PAt("seeing")
           \/ PAt("to_locate") \/ PAt("locating") \/ PAt("ticking")
           \/ PAt("to_dump") \/ PAt("dumping")
  BY DEF AtHome, AtWork, PlacesOf, PAt, Threads
<1>7. Watching => []<>(PAt("seeing") \/ Lost)
  BY <1>1, <1>2, <1>3, <1>4, <1>5, <1>6, PTL DEF Onward, Watching, Going
<1>8. (\/ pc["Perception"] = "seeing"
       \/ Stuck /\ orphan = "OffnaoTransmitter"
       \/ attemptingShutdown \/ process # "up")
        <=> (PAt("seeing") \/ Lost \/ ~AtWork)
  BY DEF PAt, Lost, AtWork
<1> QED
  BY <1>7, <1>8, HomeAlways, MishapsCease, PTL
     DEF PerceptionSees, Spec, Going, Watching, SightRuns, WorksRuns, EnterAgain
=============================================================================
