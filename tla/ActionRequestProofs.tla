------------------------ MODULE ActionRequestProofs ------------------------
(***************************************************************************)
(* What the double buffer of requests gives, for any number of readers,    *)
(* requests and configuration commands.                                    *)
(***************************************************************************)
EXTENDS ActionRequest, TLAPS

(* Perception writes the copy that is not shown, and what it is about to   *)
(* show is written in full.                                                *)
Apart ==
  /\ perception # "think" => writeBuf # readBuf
  /\ perception = "publish" => writeBuf \notin halfway

(* A reader that was not lapped holds the copy that is shown, and unless   *)
(* Off-Nao touched that one it is as it was when the reader looked.        *)
Untouched(r) == request[buf[r]] = wanted[r] /\ r \notin torn /\ ~offnao

Faithful ==
  \A r \in Readers : reader[r] # "look" /\ r \notin lapped =>
    /\ buf[r] = readBuf
    /\ r \notin meddled => Untouched(r)

(* A reader that has not looked carries nothing of its last copy.          *)
Rested ==
  \A r \in Readers : reader[r] = "look" => r \notin torn \cup lapped \cup meddled

Safe == Apart /\ ShownWhole /\ Faithful /\ Rested
IInv == TypeOK /\ Safe

-----------------------------------------------------------------------------
(* The types of all variables, for every set of readers.                   *)
THEOREM TypeCorrect == Spec => []TypeOK
<1>1. Init => TypeOK
  <2> SUFFICES ASSUME Init PROVE TypeOK
    OBVIOUS
  <2>1. 0 \in Requests /\ 0 \in 0..MAX_CONFIGS
    BY RequestConstants DEF Requests
  <2>2. request \in [Bufs -> Requests] /\ readBuf \in Bufs /\ writeBuf \in Bufs
    BY <2>1 DEF Init, Bufs
  <2>3. /\ reader \in [Readers -> {"look", "copy", "copying"}]
        /\ buf \in [Readers -> Bufs] /\ wanted \in [Readers -> Requests]
    BY <2>1 DEF Init, Bufs
  <2> QED
    BY <2>1, <2>2, <2>3 DEF Init, TypeOK
<1>2. TypeOK /\ [Next]_vars => TypeOK'
  <2> SUFFICES ASSUME TypeOK, [Next]_vars PROVE TypeOK'
    OBVIOUS
  <2> USE RequestConstants DEF TypeOK, Bufs, Requests, shown, writers, readers, history
  <2>1. CASE BeginWrite
    BY <2>1 DEF BeginWrite, Copying, Shown
  <2>2. CASE EndWrite
    BY <2>2 DEF EndWrite
  <2>3. CASE Publish
    BY <2>3 DEF Publish, Copying, Shown
  <2>4. CASE Restart
    BY <2>4 DEF Restart
  <2>5. CASE BeginConfig
    BY <2>5 DEF BeginConfig, Copying, Shown
  <2>6. CASE EndConfig
    BY <2>6 DEF EndConfig
  <2>7. ASSUME NEW r \in Readers, Look(r) PROVE TypeOK'
    BY <2>7 DEF Look
  <2>8. ASSUME NEW r \in Readers, BeginCopy(r) PROVE TypeOK'
    BY <2>8 DEF BeginCopy
  <2>9. ASSUME NEW r \in Readers, EndCopy(r) PROVE TypeOK'
    BY <2>9 DEF EndCopy
  <2>10. CASE UNCHANGED vars
    BY <2>10 DEF vars
  <2> QED
    BY <2>1, <2>2, <2>3, <2>4, <2>5, <2>6, <2>7, <2>8, <2>9, <2>10 DEF Next
<1> QED
  BY <1>1, <1>2, PTL DEF Spec

-----------------------------------------------------------------------------
LEMMA SafeInit == Init => Safe
BY DEF Init, Safe, Apart, ShownWhole, Faithful, Rested, Bufs

(* No step points a reader to a copy being written, or changes what an     *)
(* undisturbed reader holds.                                               *)
LEMMA SafeStep ==
  ASSUME TypeOK, Safe, [Next]_vars
  PROVE  Safe'
<1> USE DEF TypeOK, Bufs, Safe, Apart, ShownWhole, Faithful, Rested, Untouched,
            Copying, Shown, shown, writers, readers, history
<1>1. CASE BeginWrite
  <2> DEFINE other == (readBuf + 1) % 2
  <2>1. other \in {0, 1} /\ other # readBuf
    OBVIOUS
  <2>2. /\ perception' = "write" /\ writeBuf' = other /\ readBuf' = readBuf
        /\ halfway' = halfway \cup {other} /\ torn' = torn \cup Copying(other)
        /\ request' = [request EXCEPT ![other] = made + 1]
        /\ offnao' = offnao /\ lapped' = lapped /\ meddled' = meddled
        /\ reader' = reader /\ buf' = buf /\ wanted' = wanted
    BY <1>1 DEF BeginWrite
  <2>3. Apart' /\ ShownWhole'
    BY <2>1, <2>2
  <2>4. Faithful'
    <3> SUFFICES ASSUME NEW r \in Readers, reader[r] # "look", r \notin lapped
                 PROVE  /\ buf[r] = readBuf
                        /\ r \notin meddled => Untouched(r)'
      BY <2>2
    <3>1. buf[r] = readBuf
      OBVIOUS
    <3>2. r \notin Copying(other)
      BY <2>1, <3>1
    <3>3. request'[buf[r]] = request[buf[r]]
      BY <2>1, <2>2, <3>1
    <3> QED
      BY <2>2, <3>1, <3>2, <3>3
  <2>5. Rested'
    BY <2>2
  <2> QED
    BY <2>3, <2>4, <2>5
<1>2. CASE EndWrite
  BY <1>2 DEF EndWrite
<1>3. CASE Publish
  <2>1. /\ perception' = "think" /\ readBuf' = writeBuf
        /\ halfway' = halfway /\ reader' = reader
        /\ lapped' = lapped \cup {r \in Readers : reader[r] # "look"}
        /\ torn' \subseteq torn \cup {r \in Readers : reader[r] # "look"}
        /\ meddled' \subseteq meddled \cup {r \in Readers : reader[r] # "look"}
    BY <1>3 DEF Publish
  <2>2. writeBuf \notin halfway
    BY <1>3 DEF Publish
  <2> QED
    BY <2>1, <2>2
<1>4. CASE Restart
  BY <1>4 DEF Restart
<1>5. CASE BeginConfig
  BY <1>5 DEF BeginConfig
<1>6. CASE EndConfig
  BY <1>6 DEF EndConfig
<1>7. ASSUME NEW r \in Readers, Look(r) PROVE Safe'
  <2>1. /\ UNCHANGED <<shown, perception, writeBuf, offnao, halfway, torn, lapped>>
        /\ reader' = [reader EXCEPT ![r] = "copy"]
        /\ buf' = [buf EXCEPT ![r] = readBuf]
        /\ wanted' = [wanted EXCEPT ![r] = request[readBuf]]
        /\ meddled' = IF offnao THEN meddled \cup {r} ELSE meddled
        /\ r \notin torn
    BY <1>7 DEF Look
  <2>2. Faithful' /\ Rested'
    BY <2>1
  <2> QED
    BY <2>1, <2>2
<1>8. ASSUME NEW r \in Readers, BeginCopy(r) PROVE Safe'
  <2>1. /\ UNCHANGED <<shown, writers, buf, wanted, halfway, lapped, meddled>>
        /\ reader[r] = "copy" /\ reader' = [reader EXCEPT ![r] = "copying"]
        /\ torn' = IF buf[r] \in halfway \/ (offnao /\ buf[r] = readBuf)
                     THEN torn \cup {r} ELSE torn
    BY <1>8 DEF BeginCopy
  <2>2. r \in lapped \cup meddled \/ torn' = torn
    BY <2>1
  <2> QED
    BY <2>1, <2>2
<1>9. ASSUME NEW r \in Readers, EndCopy(r) PROVE Safe'
  BY <1>9 DEF EndCopy
<1>10. CASE UNCHANGED vars
  BY <1>10 DEF vars
<1> QED
  BY <1>1, <1>2, <1>3, <1>4, <1>5, <1>6, <1>7, <1>8, <1>9, <1>10 DEF Next

LEMMA Invariant == Spec => []IInv
<1>1. Init => Safe
  BY SafeInit
<1>2. TypeOK /\ Safe /\ [Next]_vars => Safe'
  BY SafeStep
<1> QED
  BY <1>1, <1>2, TypeCorrect, PTL DEF Spec, IInv

(* No reader is ever pointed to a request that is only half written, not   *)
(* even after Perception was ended in the middle of a write.               *)
THEOREM Whole == Spec => []ShownWhole
<1>1. IInv => ShownWhole
  BY DEF IInv, Safe
<1> QED
  BY <1>1, Invariant, PTL

(* A reader that neither was lapped nor read under Off-Nao's hands has the *)
(* request it was shown, whole.                                            *)
THEOREM Lap == Spec => []WrongNeedsLap
<1>1. IInv => WrongNeedsLap
  <2> SUFFICES ASSUME IInv, NEW r \in Readers, reader[r] = "copying",
                      r \notin lapped \cup meddled
               PROVE  r \notin torn /\ request[buf[r]] = wanted[r]
    BY DEF WrongNeedsLap
  <2> QED
    BY DEF IInv, Safe, Faithful, Untouched
<1> QED
  BY <1>1, Invariant, PTL

-----------------------------------------------------------------------------
(* The register.                                                           *)

(* Requests are numbered in the order they are made.                       *)
Numbered ==
  /\ \A b \in Bufs : request[b] <= made
  /\ perception # "think" => request[writeBuf] = made /\ request[readBuf] < made

LEMMA NumberedKept ==
  ASSUME TypeOK, Numbered, [Next]_vars
  PROVE  Numbered'
<1> USE DEF Numbered
<1>0. /\ readBuf \in {0, 1} /\ writeBuf \in {0, 1} /\ made \in Nat
      /\ request[0] \in Nat /\ request[1] \in Nat
      /\ request \in [{0, 1} -> Requests]
  BY RequestConstants DEF TypeOK, Bufs, Requests
<1>1. CASE BeginWrite
  <2> DEFINE other == (readBuf + 1) % 2
  <2>1. other \in {0, 1} /\ other # readBuf
    BY <1>0
  <2>2. /\ writeBuf' = other /\ made' = made + 1 /\ readBuf' = readBuf
        /\ request' = [request EXCEPT ![other] = made + 1]
    BY <1>1 DEF BeginWrite
  <2>3. request'[other] = made + 1 /\ request'[readBuf] = request[readBuf]
    BY <1>0, <2>1, <2>2
  <2> QED
    BY <1>0, <2>1, <2>2, <2>3 DEF Bufs
<1>2. CASE ~BeginWrite
  <2>1. request' = request /\ made' = made
    BY <1>2 DEF Next, vars, EndWrite, Publish, Restart, BeginConfig, EndConfig,
                Look, BeginCopy, EndCopy, shown, writers
  <2>2. \/ perception' = "think"
        \/ perception # "think" /\ writeBuf' = writeBuf /\ readBuf' = readBuf
        \/ perception' = perception /\ writeBuf' = writeBuf /\ readBuf' = readBuf
    BY <1>2 DEF Next, vars, EndWrite, Publish, Restart, BeginConfig, EndConfig,
                Look, BeginCopy, EndCopy, shown, writers
  <2> QED
    BY <2>1, <2>2
<1> QED
  BY <1>1, <1>2

LEMMA NumberedInit == Init => Numbered
BY DEF Init, Numbered, Bufs

LEMMA Ordered == Spec => [](IInv /\ Numbered)
<1>1. TypeOK /\ Numbered /\ [Next]_vars => Numbered'
  BY NumberedKept
<1> QED
  BY <1>1, NumberedInit, Invariant, TypeCorrect, PTL DEF Spec

(* An undisturbed reader has the request it was shown.                     *)
LEMMA HoldingOf ==
  ASSUME IInv, NEW r \in Readers
  PROVE  /\ Holding(r) = -2 <=> reader[r] = "look"
         /\ r \in Undisturbed => Holding(r) = wanted[r]
<1>1. request[buf[r]] \in Nat
  BY RequestConstants DEF IInv, TypeOK, Bufs, Requests
<1>2. r \in Undisturbed => request[buf[r]] = wanted[r] /\ r \notin torn
  BY DEF IInv, Safe, Faithful, Untouched, Undisturbed
<1>3. r \in Undisturbed => reader[r] # "look"
  BY DEF Undisturbed
<1> QED
  BY <1>1, <1>2, <1>3 DEF Holding

LEMMA Unharmed ==
  ASSUME IInv, IInv', NEW S,
         \A r \in Readers \ S :
           /\ reader'[r] = "look" <=> reader[r] = "look"
           /\ r \in Undisturbed' => r \in Undisturbed /\ wanted'[r] = wanted[r]
  PROVE  Register!Unharmed(S)
<1> DEFINE held == [r \in Readers |-> Holding(r)]
<1> SUFFICES ASSUME NEW r \in Readers \ S
             PROVE  /\ r \in Undisturbed' => Holding(r)' = Holding(r)
                    /\ Holding(r)' = -2 <=> Holding(r) = -2
  <2>1. \A r \in Readers : held[r] = Holding(r) /\ held'[r] = Holding(r)'
    OBVIOUS
  <2> HIDE DEF held
  <2>2. ASSUME \A r \in Readers \ S :
                 /\ r \in Undisturbed' => Holding(r)' = Holding(r)
                 /\ Holding(r)' = -2 <=> Holding(r) = -2
        PROVE  \A r \in Readers \ S :
                 /\ r \in Undisturbed' => held'[r] = held[r]
                 /\ held'[r] = -2 <=> held[r] = -2
    BY <2>1, <2>2
  <2> QED
    BY <2>2 DEF Register!Unharmed, Register!Nothing, held
<1>1. /\ Holding(r) = -2 <=> reader[r] = "look"
      /\ r \in Undisturbed => Holding(r) = wanted[r]
  BY HoldingOf
<1>2. /\ Holding(r)' = -2 <=> reader'[r] = "look"
      /\ r \in Undisturbed' => Holding(r)' = wanted'[r]
  <2>1. request'[buf'[r]] \in Nat
    BY RequestConstants DEF IInv, TypeOK, Bufs, Requests
  <2>2. r \in Undisturbed' => request'[buf'[r]] = wanted'[r] /\ r \notin torn'
    BY DEF IInv, Safe, Faithful, Untouched, Undisturbed
  <2>3. r \in Undisturbed' => reader'[r] # "look"
    BY DEF Undisturbed
  <2> QED
    BY <2>1, <2>2, <2>3 DEF Holding
<1> QED
  BY <1>1, <1>2

LEMMA StepImplements ==
  ASSUME IInv, IInv', Numbered, [Next]_vars
  PROVE  [Register!Next]_(Register!vars)
<1>0. Showing = request[readBuf] /\ Showing' = request'[readBuf']
  BY DEF IInv, Safe, ShownWhole, Showing
<1> USE DEF shown, writers, readers, history
<1>1. CASE Publish
  <2>1. /\ perception = "publish" /\ readBuf' = writeBuf
        /\ UNCHANGED <<request, offnao, reader, wanted>>
        /\ lapped' = lapped \cup {r \in Readers : reader[r] # "look"}
    BY <1>1 DEF Publish
  <2>2. Undisturbed' = {}
    BY <2>1 DEF Undisturbed
  <2>3. Showing' > Showing /\ Showing' \in Requests
    BY <1>0, <2>1 DEF Numbered, IInv, TypeOK
  <2>4. Register!Unharmed({})
    BY <2>1, <2>2, Unharmed
  <2>5. Register!Show
    BY <2>1, <2>2, <2>3, <2>4 DEF Register!Show
  <2> QED
    BY <2>5 DEF Register!Next
<1>2. CASE BeginConfig
  <2>1. /\ ~offnao /\ offnao' = TRUE
        /\ UNCHANGED <<request, readBuf, reader, wanted, buf, lapped>>
        /\ meddled' = meddled \cup Shown(readBuf)
    BY <1>2 DEF BeginConfig
  <2>2. Undisturbed' = {}
    <3>1. \A r \in Readers : reader[r] # "look" /\ r \notin lapped => r \in Shown(readBuf)
      BY DEF IInv, Safe, Faithful, Shown
    <3> QED
      BY <2>1, <3>1 DEF Undisturbed
  <2>3. Showing' = Showing
    BY <1>0, <2>1
  <2>4. Register!Unharmed({})
    BY <2>1, <2>2, Unharmed
  <2>5. Register!BeginRewrite
    BY <2>1, <2>2, <2>3, <2>4 DEF Register!BeginRewrite
  <2> QED
    BY <2>5 DEF Register!Next
<1>3. CASE EndConfig
  <2>1. /\ offnao /\ offnao' = FALSE
        /\ UNCHANGED <<request, readBuf, reader, buf, halfway, torn, lapped, meddled>>
    BY <1>3 DEF EndConfig
  <2>2. Register!EndRewrite
    BY <2>1 DEF Register!EndRewrite, Showing, Holding, Undisturbed
  <2> QED
    BY <2>2 DEF Register!Next
<1>4. ASSUME NEW r \in Readers, Look(r)
      PROVE  Register!BeginRead(r)
  <2>1. /\ reader[r] = "look" /\ reader' = [reader EXCEPT ![r] = "copy"]
        /\ buf' = [buf EXCEPT ![r] = readBuf]
        /\ wanted' = [wanted EXCEPT ![r] = request[readBuf]]
        /\ meddled' = IF offnao THEN meddled \cup {r} ELSE meddled
        /\ UNCHANGED <<request, readBuf, offnao, torn, lapped>>
    BY <1>4 DEF Look
  <2>2. r \notin torn \cup lapped \cup meddled
    BY <2>1 DEF IInv, Safe, Rested
  <2>3. /\ reader'[r] = "copy" /\ buf'[r] = readBuf
        /\ \A q \in Readers \ {r} : reader'[q] = reader[q] /\ wanted'[q] = wanted[q]
    BY <2>1 DEF IInv, TypeOK
  <2>4. Undisturbed' = IF offnao THEN Undisturbed ELSE Undisturbed \cup {r}
    BY <2>1, <2>2, <2>3 DEF Undisturbed
  <2>5. Holding(r)' = Showing
    BY <1>0, <2>1, <2>2, <2>3 DEF Holding
  <2>6. Holding(r) = -2 /\ Showing' = Showing
    BY <1>0, <2>1 DEF Holding
  <2>7. Register!Unharmed({r})
    BY <2>3, <2>4, Unharmed
  <2> QED
    BY <2>1, <2>4, <2>5, <2>6, <2>7
       DEF Register!BeginRead, Register!Reading, Register!Nothing
<1>5. ASSUME NEW r \in Readers, EndCopy(r)
      PROVE  Register!EndRead(r)
  <2>1. /\ reader[r] = "copying" /\ reader' = [reader EXCEPT ![r] = "look"]
        /\ lapped' = lapped \ {r} /\ meddled' = meddled \ {r}
        /\ UNCHANGED <<request, readBuf, offnao, wanted>>
    BY <1>5 DEF EndCopy
  <2>2. /\ reader'[r] = "look"
        /\ \A q \in Readers \ {r} : reader'[q] = reader[q]
    BY <2>1 DEF IInv, TypeOK
  <2>3. Undisturbed' = Undisturbed \ {r}
    BY <2>1, <2>2 DEF Undisturbed
  <2>4. Holding(r)' = -2 /\ Showing' = Showing
    BY <1>0, <2>1, <2>2 DEF Holding
  <2>5. Holding(r) # -2
    BY <2>1, HoldingOf
  <2>6. Register!Unharmed({r})
    BY <2>1, <2>2, <2>3, Unharmed
  <2> QED
    BY <2>1, <2>3, <2>4, <2>5, <2>6
       DEF Register!EndRead, Register!Reading, Register!Nothing
<1>6. CASE \/ BeginWrite \/ EndWrite \/ Restart
           \/ \E r \in Readers : BeginCopy(r)
           \/ UNCHANGED vars
  <2>1. /\ UNCHANGED <<readBuf, offnao, wanted, lapped, meddled>>
        /\ \A q \in Readers : reader'[q] = "look" <=> reader[q] = "look"
    BY <1>6 DEF BeginWrite, EndWrite, Restart, BeginCopy, vars, IInv, TypeOK
  <2>2. Undisturbed' = Undisturbed
    BY <2>1 DEF Undisturbed
  <2>3. request'[readBuf] = request[readBuf]
    <3>1. CASE BeginWrite
      <4>1. (readBuf + 1) % 2 # readBuf
        BY DEF IInv, TypeOK, Bufs
      <4> QED
        BY <3>1, <4>1 DEF BeginWrite, IInv, TypeOK
    <3>2. CASE ~BeginWrite
      BY <1>6, <3>2 DEF EndWrite, Restart, BeginCopy, vars
    <3> QED
      BY <3>1, <3>2
  <2>4. Showing' = Showing
    BY <1>0, <2>1, <2>3
  <2>5. Register!Unharmed({})
    BY <2>1, <2>2, Unharmed
  <2>6. Register!Mix
    BY <2>1, <2>2, <2>4, <2>5 DEF Register!Mix
  <2> QED
    BY <2>6 DEF Register!Next
<1> QED
  BY <1>1, <1>2, <1>3, <1>4, <1>5, <1>6 DEF Next, Register!Next

(* However many readers, requests and commands: the two copies on the      *)
(* blackboard are a register of whole requests in order.                   *)
THEOREM Refinement == Spec => ImplementsRegister
<1>1. Init => Register!Init
  <2> SUFFICES ASSUME Init PROVE Register!Init
    OBVIOUS
  <2>1. Showing = 0 /\ 0 \in Requests
    BY RequestConstants DEF Init, Showing, Bufs, Requests
  <2>2. Undisturbed = {} /\ \A r \in Readers : Holding(r) = -2
    BY DEF Init, Undisturbed, Holding
  <2> QED
    BY <2>1, <2>2 DEF Init, Register!Init, Register!Nothing
<1>2. IInv /\ IInv' /\ Numbered /\ [Next]_vars => [Register!Next]_(Register!vars)
  BY StepImplements
<1> QED
  BY <1>1, <1>2, Ordered, PTL DEF Spec, Register!Spec, ImplementsRegister
=============================================================================
