------------------------- MODULE TransportRefinement -------------------------
(***************************************************************************)
(* The transport layer implements the connection service of TcService, for *)
(* every number of slots and connections: every step of Transport is, seen *)
(* through the refinement mapping, one step of the service or none.  The   *)
(* inductive invariant of TransportProofs is what makes it so.             *)
(***************************************************************************)
EXTENDS TransportProofs

\* The refinement mapping of Transport, under names of its own.
upBar == {s \in Slots : hndl[s] # NoHndl}
phaseBar == [p \in Slots \X Conns |-> PhaseOf(state[p])]

\* The phase of each state.
LEMMA Phases ==
    /\ PhaseOf(T_STATE_IDLE) = "closed"
    /\ PhaseOf(T_STATE_IN_CREATION) = "opening"
    /\ PhaseOf(T_STATE_ACTIVE) = "open"
    /\ PhaseOf(T_STATE_ACTIVE_DELETEQUEUED) = "closing"
    /\ PhaseOf(T_STATE_IN_DELETION) = "closing"
  BY DEF PhaseOf, T_STATE_IDLE, T_STATE_IN_CREATION, T_STATE_ACTIVE,
         T_STATE_ACTIVE_DELETEQUEUED, T_STATE_IN_DELETION

\* Setting one connection's state sets its phase, and no other's.
LEMMA PhaseOfUpdate ==
    ASSUME TypeOK, NEW q \in Slots \X Conns, NEW st \in States,
           state' = [state EXCEPT ![q] = st]
    PROVE  phaseBar' = [phaseBar EXCEPT ![q] = PhaseOf(st)]
  <1>1. phaseBar' = [p \in Slots \X Conns |-> PhaseOf(state'[p])]
    BY DEF phaseBar, PhaseOf
  <1>2. \A p \in Slots \X Conns : state'[p] = IF p = q THEN st ELSE state[p]
    BY DEF TypeOK
  <1>3. \A p \in Slots \X Conns :
            PhaseOf(state'[p]) = IF p = q THEN PhaseOf(st) ELSE PhaseOf(state[p])
    BY <1>2
  <1>4. phaseBar' = [p \in Slots \X Conns |->
                        IF p = q THEN PhaseOf(st) ELSE PhaseOf(state[p])]
    BY <1>1, <1>3
  <1> QED BY <1>4 DEF phaseBar

\* A step that keeps the table of slots, the states and what was reported is a
\* stuttering step of the service.
LEMMA Stutters ==
    ASSUME UNCHANGED <<hndl, state, told>>
    PROVE  UNCHANGED Service!svars
  BY DEF Service!svars, PhaseOf

-----------------------------------------------------------------------------
(* One lemma for each step of the service on a connection.                 *)

\* The phase a connection is in, from its state.
LEMMA PhaseIs ==
    ASSUME NEW q \in Slots \X Conns
    PROVE  phaseBar[q] = PhaseOf(state[q])
  BY DEF phaseBar

LEMMA MapsToOpen ==
    ASSUME TypeOK, NEW q \in Slots \X Conns, hndl[q[1]] # NoHndl,
           state[q] = T_STATE_IDLE,
           state' = [state EXCEPT ![q] = T_STATE_IN_CREATION],
           UNCHANGED <<hndl, told>>
    PROVE  Service!SNext
  <1>1. phaseBar[q] = "closed"
    BY PhaseIs, Phases
  <1>2. phaseBar' = [phaseBar EXCEPT ![q] = "opening"]
    BY PhaseOfUpdate, Phases DEF States
  <1>3. Service!Open(q)
    BY <1>1, <1>2 DEF Service!Open, upBar, phaseBar
  <1> QED BY <1>3 DEF Service!SNext

LEMMA MapsToAccept ==
    ASSUME TypeOK, NEW q \in Slots \X Conns, state[q] = T_STATE_IN_CREATION,
           state' = [state EXCEPT ![q] = T_STATE_ACTIVE],
           told' = told \cup {q}, UNCHANGED hndl
    PROVE  Service!SNext
  <1>1. phaseBar[q] = "opening"
    BY PhaseIs, Phases
  <1>2. phaseBar' = [phaseBar EXCEPT ![q] = "open"]
    BY PhaseOfUpdate, Phases DEF States
  <1>3. Service!Accept(q)
    BY <1>1, <1>2 DEF Service!Accept, upBar, phaseBar
  <1> QED BY <1>3 DEF Service!SNext

LEMMA MapsToRelease ==
    ASSUME TypeOK, NEW q \in Slots \X Conns, state[q] = T_STATE_ACTIVE,
           state' = [state EXCEPT ![q] = T_STATE_ACTIVE_DELETEQUEUED],
           UNCHANGED <<hndl, told>>
    PROVE  Service!SNext
  <1>1. phaseBar[q] = "open"
    BY PhaseIs, Phases
  <1>2. phaseBar' = [phaseBar EXCEPT ![q] = "closing"]
    BY PhaseOfUpdate, Phases DEF States
  <1>3. Service!Release(q)
    BY <1>1, <1>2 DEF Service!Release, upBar, phaseBar
  <1> QED BY <1>3 DEF Service!SNext

\* en50221_tl_del_tc on a connection being deleted, and the sending of its
\* T_DELETE_T_C, stay within the phase "closing".
LEMMA StaysClosing ==
    ASSUME TypeOK, NEW q \in Slots \X Conns,
           NEW st \in {T_STATE_ACTIVE_DELETEQUEUED, T_STATE_IN_DELETION},
           state[q] \in {T_STATE_ACTIVE_DELETEQUEUED, T_STATE_IN_DELETION},
           state' = [state EXCEPT ![q] = st],
           UNCHANGED <<hndl, told>>
    PROVE  UNCHANGED Service!svars
  <1>1. phaseBar[q] = "closing" /\ PhaseOf(st) = "closing"
    BY PhaseIs, Phases
  <1> st \in States
    BY DEF States
  <1>2. phaseBar' = [phaseBar EXCEPT ![q] = PhaseOf(st)]
    BY PhaseOfUpdate
  <1>3. phaseBar' = phaseBar
    BY <1>1, <1>2 DEF phaseBar
  <1> QED BY <1>3 DEF Service!svars, phaseBar

LEMMA MapsToClose ==
    ASSUME TypeOK, NEW q \in Slots \X Conns, state[q] # T_STATE_IDLE,
           state' = [state EXCEPT ![q] = T_STATE_IDLE],
           UNCHANGED <<hndl, told>>
    PROVE  Service!SNext
  <1>1. phaseBar[q] # "closed"
    BY PhaseIs, Phases DEF TypeOK, States
  <1>2. phaseBar' = [phaseBar EXCEPT ![q] = "closed"]
    BY PhaseOfUpdate, Phases DEF States
  <1>3. Service!Close(q)
    BY <1>1, <1>2 DEF Service!Close, upBar, phaseBar
  <1> QED BY <1>3 DEF Service!SNext

LEMMA MapsToHangup ==
    ASSUME TypeOK, NEW q \in Slots \X Conns,
           state[q] \in {T_STATE_ACTIVE, T_STATE_IN_DELETION},
           state' = [state EXCEPT ![q] = T_STATE_IDLE],
           told' = told \ {q}, UNCHANGED hndl
    PROVE  Service!SNext
  <1>1. phaseBar[q] \in {"open", "closing"}
    BY PhaseIs, Phases
  <1>2. phaseBar' = [phaseBar EXCEPT ![q] = "closed"]
    BY PhaseOfUpdate, Phases DEF States
  <1>3. Service!Hangup(q)
    BY <1>1, <1>2 DEF Service!Hangup, upBar, phaseBar
  <1> QED BY <1>3 DEF Service!SNext

-----------------------------------------------------------------------------
(* Steps on a slot.                                                        *)

\* en50221_tl_register_slot takes a slot that was not registered.
LEMMA MapsToInsert ==
    ASSUME TypeOK, NEW ca \in CAs, NEW n \in CamNums, RegisterSlot(ca, n)
    PROVE  Service!SNext
  <1>1. PICK s \in Slots : /\ hndl[s] = NoHndl
                           /\ hndl' = [hndl EXCEPT ![s] = ca]
                           /\ UNCHANGED <<state, told>>
    BY DEF RegisterSlot, connVars
  <1>2. upBar' = upBar \cup {s} /\ s \notin upBar
    BY <1>1, HandlesAssumption DEF TypeOK, upBar
  <1>3. phaseBar' = phaseBar
    BY <1>1 DEF phaseBar, PhaseOf
  <1>4. Service!Insert(s)
    BY <1>1, <1>2, <1>3 DEF Service!Insert, upBar, phaseBar
  <1> QED BY <1>4 DEF Service!SNext

\* en50221_tl_destroy_slot closes every connection of the slot.
LEMMA MapsToRemove ==
    ASSUME TypeOK, NEW s \in Slots, DestroySlot(s)
    PROVE  Service!SNext
  <1>1. upBar' = upBar \ {s}
    BY DEF TypeOK, DestroySlot, upBar
  <1>2. \A p \in Slots \X Conns :
            PhaseOf(state'[p]) = IF p[1] = s THEN "closed" ELSE PhaseOf(state[p])
    BY Phases DEF DestroySlot, Cleared
  <1>3. phaseBar' = [p \in Slots \X Conns |-> PhaseOf(state'[p])]
    BY DEF phaseBar, PhaseOf
  <1>4. phaseBar' = [p \in Slots \X Conns |->
                        IF p[1] = s THEN "closed" ELSE PhaseOf(state[p])]
    BY <1>2, <1>3
  <1>5. phaseBar' = [p \in Slots \X Conns |->
                        IF p[1] = s THEN "closed" ELSE phaseBar[p]]
    BY <1>4 DEF phaseBar
  <1>6. told' = told
    BY DEF DestroySlot
  <1>7. Service!Remove(s)
    BY <1>1, <1>5, <1>6 DEF Service!Remove, upBar, phaseBar
  <1> QED BY <1>7 DEF Service!SNext

\* The SLOTCLOSE callback comes while the slot is still unregistered.
LEMMA MapsToReport ==
    ASSUME IInv, NotifySlotClose
    PROVE  Service!SNext
  <1>1. closing \in Slots /\ hndl[closing] = NoHndl
    BY DEF IInv, TypeOK, ClosingIsGone, NotifySlotClose
  <1>2. told' = {p \in told : p[1] # closing} /\ UNCHANGED <<hndl, state>>
    BY DEF NotifySlotClose, slotVars, connVars
  <1>3. UNCHANGED <<upBar, phaseBar>>
    BY <1>2 DEF upBar, phaseBar, PhaseOf
  <1>4. Service!Report(closing)
    BY <1>1, <1>2, <1>3 DEF Service!Report, upBar, phaseBar
  <1> QED BY <1>1, <1>4 DEF Service!SNext

-----------------------------------------------------------------------------
\* Every step of the transport layer is a step of the service or a stutter.
LEMMA StepMaps ==
    ASSUME IInv, [Next]_vars
    PROVE  Service!SNext \/ UNCHANGED Service!svars
  <1> TypeOK
    BY DEF IInv
  <1> DEFINE Goal == Service!SNext \/ UNCHANGED Service!svars
  <1> SUFFICES Goal
    OBVIOUS
  <1> HIDE DEF Goal
  <1>0. (Service!SNext \/ UNCHANGED Service!svars) => Goal
    BY DEF Goal
  <1>1. CASE UNCHANGED <<hndl, state, told>>
    BY <1>0, <1>1, Stutters
  <1>2. ASSUME NEW ca \in CAs, NEW n \in CamNums, RegisterSlot(ca, n) PROVE Goal
    BY <1>0, <1>2, MapsToInsert
  <1>3. ASSUME NEW s \in Slots, DestroySlot(s) PROVE Goal
    BY <1>0, <1>3, MapsToRemove
  <1>4. CASE NotifySlotClose
    BY <1>0, <1>4, MapsToReport
  <1>5. ASSUME NEW s \in Slots, NewTc(s) PROVE Goal
    <2>1. PICK c \in Conns :
             /\ hndl[s] # NoHndl /\ state[<<s, c>>] = T_STATE_IDLE
             /\ state' = [state EXCEPT ![<<s, c>>] = T_STATE_IN_CREATION]
             /\ UNCHANGED <<hndl, told>>
      BY <1>5 DEF NewTc, FirstIdle, slotVars
    <2>2. <<s, c>> \in Slots \X Conns /\ <<s, c>>[1] = s
      OBVIOUS
    <2> QED BY <1>0, <2>1, <2>2, MapsToOpen
  <1>6. ASSUME NEW s \in Slots, NEW c \in Conns, DelTc(s, c) PROVE Goal
    <2>1. /\ state[<<s, c>>] \in {T_STATE_ACTIVE, T_STATE_IN_DELETION}
          /\ state' = [state EXCEPT ![<<s, c>>] = T_STATE_ACTIVE_DELETEQUEUED]
          /\ UNCHANGED <<hndl, told>>
      BY <1>6 DEF DelTc, slotVars
    <2>2. <<s, c>> \in Slots \X Conns
      OBVIOUS
    <2>3. CASE state[<<s, c>>] = T_STATE_ACTIVE
      BY <1>0, <2>1, <2>2, <2>3, MapsToRelease
    <2>4. CASE state[<<s, c>>] = T_STATE_IN_DELETION
      BY <1>0, <2>1, <2>2, <2>4, StaysClosing
    <2> QED BY <2>1, <2>3, <2>4
  <1>7. ASSUME NEW c \in Conns, HandleCreateTcReply(c) PROVE Goal
    <2>1. <<tgt, c>> \in Slots \X Conns
      BY DEF TypeOK
    <2>2. CASE UNCHANGED <<hndl, state, told>>
      BY <1>1, <2>2
    <2>3. CASE /\ state[<<tgt, c>>] = T_STATE_IN_CREATION
               /\ state' = [state EXCEPT ![<<tgt, c>>] = T_STATE_ACTIVE]
               /\ told' = told \cup {<<tgt, c>>} /\ UNCHANGED hndl
      BY <1>0, <2>1, <2>3, MapsToAccept
    <2> QED BY <1>7, <2>2, <2>3 DEF HandleCreateTcReply, tableVars
  <1>8. ASSUME NEW c \in Conns, HandleDeleteTc(c) PROVE Goal
    <2>1. <<tgt, c>> \in Slots \X Conns
      BY DEF TypeOK
    <2>2. CASE UNCHANGED <<hndl, state, told>>
      BY <1>1, <2>2
    <2>3. CASE /\ state[<<tgt, c>>] \in {T_STATE_ACTIVE, T_STATE_IN_DELETION}
               /\ state' = [state EXCEPT ![<<tgt, c>>] = T_STATE_IDLE]
               /\ UNCHANGED <<hndl, told>>
      <3>1. state[<<tgt, c>>] # T_STATE_IDLE
        BY <2>3 DEF T_STATE_ACTIVE, T_STATE_IN_DELETION, T_STATE_IDLE
      <3> QED BY <1>0, <2>1, <2>3, <3>1, MapsToClose
    <2>4. CASE /\ state[<<tgt, c>>] \in {T_STATE_ACTIVE, T_STATE_IN_DELETION}
               /\ state' = [state EXCEPT ![<<tgt, c>>] = T_STATE_IDLE]
               /\ told' = told \ {<<tgt, c>>} /\ UNCHANGED hndl
      BY <1>0, <2>1, <2>4, MapsToHangup
    <2> QED BY <1>8, <2>2, <2>3, <2>4 DEF HandleDeleteTc, tableVars
  <1>9. ASSUME NEW c \in Conns, HandleDeleteTcReply(c) PROVE Goal
    <2>1. <<tgt, c>> \in Slots \X Conns
      BY DEF TypeOK
    <2>2. CASE UNCHANGED <<hndl, state, told>>
      BY <1>1, <2>2
    <2>3. CASE /\ state[<<tgt, c>>] = T_STATE_IN_DELETION
               /\ state' = [state EXCEPT ![<<tgt, c>>] = T_STATE_IDLE]
               /\ UNCHANGED <<hndl, told>>
      <3>1. state[<<tgt, c>>] # T_STATE_IDLE
        BY <2>3 DEF T_STATE_IN_DELETION, T_STATE_IDLE
      <3> QED BY <1>0, <2>1, <2>3, <3>1, MapsToClose
    <2> QED BY <1>9, <2>2, <2>3 DEF HandleDeleteTcReply, tableVars
  <1>10. ASSUME NEW c \in Conns, HandleRequestTc(c) PROVE Goal
    <2>1. UNCHANGED <<hndl, told>>
      BY <1>10 DEF HandleRequestTc, tableVars
    <2>2. CASE UNCHANGED state
      BY <1>1, <2>1, <2>2
    <2>3. ASSUME NEW d \in Conns, FirstIdle(tgt, d), TRUE \in WriteOutcomes(tgt),
                 state' = [state EXCEPT ![<<tgt, d>>] = T_STATE_IN_CREATION]
          PROVE  Goal
      <3>1. <<tgt, d>> \in Slots \X Conns /\ <<tgt, d>>[1] = tgt
        BY DEF TypeOK
      <3>2. hndl[tgt] # NoHndl
        BY <2>3 DEF WriteOutcomes
      <3>3. state[<<tgt, d>>] = T_STATE_IDLE
        BY <2>3 DEF FirstIdle
      <3> QED BY <1>0, <2>1, <2>3, <3>1, <3>2, <3>3, MapsToOpen
    <2> QED BY <1>10, <2>2, <2>3 DEF HandleRequestTc
  <1>11. CASE SendQueued
    <2> DEFINE q == <<cur, conn>>
    <2>1. q \in Slots \X Conns /\ UNCHANGED <<hndl, told>>
      BY <1>11 DEF SendQueued, TypeOK, tableVars
    <2>2. CASE UNCHANGED state
      BY <1>1, <2>1, <2>2
    <2>3. CASE /\ Head(queue[q]) = T_DELETE_T_C
               /\ state' = [state EXCEPT ![q] = T_STATE_IN_DELETION]
      <3>1. queue[q] \in Seq(Messages) /\ queue[q] # << >>
        BY <1>11, <2>1 DEF SendQueued, MaySend, TypeOK
      <3>2. 1 \in 1 .. Len(queue[q]) /\ queue[q][1] = T_DELETE_T_C
        BY <2>3, <3>1, TailIndices
      <3>3. state[q] = T_STATE_ACTIVE_DELETEQUEUED
        BY <2>1, <3>2 DEF IInv, DeleteIsLast
      <3> QED BY <1>0, <2>1, <2>3, <3>3, StaysClosing
    <2> QED BY <1>11, <2>2, <2>3 DEF SendQueued
  <1>12. CASE CheckTimeout
    <2>1. <<cur, conn>> \in Slots \X Conns /\ UNCHANGED <<hndl, told>>
      BY <1>12 DEF CheckTimeout, TypeOK, tableVars
    <2>2. CASE UNCHANGED state
      BY <1>1, <2>1, <2>2
    <2>3. CASE /\ state[<<cur, conn>>] \in HandshakeStates
               /\ state' = [state EXCEPT ![<<cur, conn>>] = T_STATE_IDLE]
      <3>1. state[<<cur, conn>>] # T_STATE_IDLE
        BY <2>3 DEF HandshakeStates, T_STATE_IN_CREATION, T_STATE_IN_DELETION, T_STATE_IDLE
      <3> QED BY <1>0, <2>1, <2>3, <3>1, MapsToClose
    <2> QED BY <1>12, <2>2, <2>3 DEF CheckTimeout
  <1>13. ASSUME NEW s \in Slots, NEW c \in Conns, SendData(s, c) \/ TimeoutElapses(s, c)
         PROVE  Goal
    BY <1>1, <1>13 DEF SendData, TimeoutElapses, slotVars, tableVars
  <1>14. ASSUME NEW c \in Conns, HandleDataMore(c) \/ HandleDataLast(c) \/ HandleSb(c)
         PROVE  Goal
    BY <1>1, <1>14 DEF HandleDataMore, HandleDataLast, HandleSb, tableVars
  <1>15. CASE PollTc \/ Quiet
    BY <1>1, <1>15 DEF PollTc, Quiet, tableVars
  <1> QED
    BY <1>2, <1>3, <1>4, <1>5, <1>6, <1>7, <1>8, <1>9, <1>10, <1>11, <1>12, <1>13,
       <1>14, <1>15, StepKinds

\* The initial states map to the service's: nothing is registered, open or reported.
LEMMA InitMaps == Init => Service!SInit
  BY Phases DEF Init, Service!SInit

\* en50221_transport.c keeps the promises of the connection service, whatever the
\* CAM sends, whichever writes fail and however the threads interleave: connections
\* open only on registered slots, opening one and telling the session layer of it
\* is one step, and a slot is reported gone only while it is gone.
THEOREM ImplementsService == Spec => ServiceSpec
  <1>1. Init => Service!SInit
    BY InitMaps
  <1>2. IInv /\ [Next]_vars => [Service!SNext]_(Service!svars)
    BY StepMaps
  <1> QED BY <1>1, <1>2, InductiveInvariant, PTL DEF Spec, ServiceSpec, Service!SSpec
=============================================================================
