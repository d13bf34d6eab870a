--------------------------- MODULE TransportProofs ---------------------------
(***************************************************************************)
(* Proofs about Transport, for every number of slots and connections, every *)
(* set of CA devices and CAM numbers, and all bounds.                      *)
(***************************************************************************)
EXTENDS Transport, SequenceTheorems, TLAPS

-----------------------------------------------------------------------------
(* Type correctness.                                                       *)

\* Leaving en50221_tl_poll or going on to the next slot or connection keeps the
\* poll thread's locals in range.
LEMMA ReturnType ==
    ASSUME TypeOK, NEW r \in {"done", "failed"}, Return(r)
    PROVE  /\ pc' \in PollSteps /\ cur' \in Slots /\ tgt' \in Slots
           /\ conn' \in Conns /\ rx' \in 0 .. MaxTpdus
  BY SizesAssumption DEF Return, PollSteps, Slots, Conns

LEMMA FailType ==
    ASSUME TypeOK, NEW s \in Slots, Fail(s)
    PROVE  /\ pc' \in PollSteps /\ cur' \in Slots /\ tgt' \in Slots
           /\ conn' \in Conns /\ rx' \in 0 .. MaxTpdus
           /\ error_slot' \in Slots \cup {NoSlot}
  BY ReturnType DEF Fail

LEMMA NextSlotType ==
    ASSUME TypeOK, NextSlot
    PROVE  /\ pc' \in PollSteps /\ cur' \in Slots /\ tgt' \in Slots
           /\ conn' \in Conns /\ rx' \in 0 .. MaxTpdus
  <1>1. CASE cur = MaxSlots - 1 /\ Return("done")
    BY <1>1, ReturnType
  <1>2. CASE cur < MaxSlots - 1 /\ pc' = "slot"
             /\ cur' = cur + 1 /\ tgt' = 0 /\ conn' = 0 /\ rx' = 0
    BY <1>2, SizesAssumption DEF TypeOK, PollSteps, Slots, Conns
  <1> QED BY <1>1, <1>2 DEF NextSlot

LEMMA NextConnType ==
    ASSUME TypeOK, NextConn
    PROVE  /\ pc' \in PollSteps /\ cur' \in Slots /\ tgt' \in Slots
           /\ conn' \in Conns /\ rx' \in 0 .. MaxTpdus
  <1>1. CASE conn = MaxConns - 1 /\ NextSlot
    BY <1>1, NextSlotType
  <1>2. CASE conn < MaxConns - 1 /\ pc' = "send" /\ conn' = conn + 1
             /\ UNCHANGED <<cur, tgt, rx>>
    BY <1>2, SizesAssumption DEF TypeOK, PollSteps, Slots, Conns
  <1> QED BY <1>1, <1>2 DEF NextConn

LEMMA ConsumedType ==
    ASSUME TypeOK, Parsing, Consumed
    PROVE  /\ pc' \in PollSteps /\ cur' \in Slots /\ tgt' \in Slots
           /\ conn' \in Conns /\ rx' \in 0 .. MaxTpdus
           /\ error_slot' \in Slots \cup {NoSlot}
  BY SizesAssumption DEF TypeOK, Parsing, Consumed, PollSteps

\* Setting one connection's field keeps the table's type.
LEMMA TimerType ==
    ASSUME TypeOK, NEW s \in Slots, NEW c \in Conns,
           StartTimer(s, c) \/ StopTimer(s, c) \/ UNCHANGED tx
    PROVE  tx' \in [Slots \X Conns -> {"ok", "wait", "late"}]
  BY DEF TypeOK, StartTimer, StopTimer

LEMMA ChainType ==
    ASSUME TypeOK, NEW s \in Slots, NEW c \in Conns,
           FreeChain(s, c) \/ UNCHANGED chained
    PROVE  chained' \in [Slots \X Conns -> BOOLEAN]
  BY DEF TypeOK, FreeChain

LEMMA StateType ==
    ASSUME TypeOK, NEW s \in Slots, NEW c \in Conns, NEW st \in States,
           state' = [state EXCEPT ![<<s, c>>] = st]
    PROVE  state' \in [Slots \X Conns -> States]
  BY DEF TypeOK

\* Init makes every variable of its type.
LEMMA InitType == Init => TypeOK
  <1> SUFFICES ASSUME Init PROVE TypeOK
    OBVIOUS
  <1>1. /\ 0 \in Slots /\ 0 \in Conns /\ 0 \in 0 .. MaxTpdus
    BY SizesAssumption DEF Slots, Conns
  <1>2. hndl \in [Slots -> CAs \cup {NoHndl}] /\ cam \in [Slots -> CamNums]
    BY DEF Init
  <1>3. state \in [Slots \X Conns -> States]
    BY DEF Init, States
  <1>4. tx \in [Slots \X Conns -> {"ok", "wait", "late"}]
    BY DEF Init
  <1>5. chained \in [Slots \X Conns -> BOOLEAN]
    BY DEF Init
  <1>6. queue \in [Slots \X Conns -> Seq(Messages)]
    <2>1. << >> \in Seq(Messages)
      OBVIOUS
    <2> QED BY <2>1 DEF Init
  <1>7. pc \in PollSteps
    BY DEF Init, PollSteps
  <1> QED BY <1>1, <1>2, <1>3, <1>4, <1>5, <1>6, <1>7 DEF Init, TypeOK

\* Every step keeps the types.
LEMMA NextType == TypeOK /\ [Next]_vars => TypeOK'
  <1> SUFFICES ASSUME TypeOK, [Next]_vars PROVE TypeOK'
    OBVIOUS
  <1> USE DEF TypeOK
  <1>1. ASSUME NEW ca \in CAs, NEW n \in CamNums, RegisterSlot(ca, n) PROVE TypeOK'
    BY <1>1 DEF RegisterSlot, connVars, pollVars
  <1>2. ASSUME NEW s \in Slots, DestroySlot(s) PROVE TypeOK'
    <2>1. << >> \in Seq(Messages) /\ T_STATE_IDLE \in States
      BY DEF States
    <2>2. /\ state' \in [Slots \X Conns -> States]
          /\ tx' \in [Slots \X Conns -> {"ok", "wait", "late"}]
          /\ chained' \in [Slots \X Conns -> BOOLEAN]
      BY <1>2, <2>1 DEF DestroySlot, Cleared
    <2>3. queue' \in [Slots \X Conns -> Seq(Messages)]
      BY <1>2, <2>1 DEF DestroySlot, Cleared
    <2> QED BY <1>2, <2>2, <2>3 DEF DestroySlot, pollVars
  <1>3. ASSUME NEW s \in Slots, NewTc(s) PROVE TypeOK'
    BY <1>3 DEF NewTc, Enqueue, FreeChain, slotVars, pollVars, States, Messages
  <1>4. ASSUME NEW s \in Slots, RejectedCall(s) PROVE TypeOK'
    BY <1>4 DEF RejectedCall, slotVars, connVars, pollVars
  <1>5. ASSUME NEW s \in Slots, NEW c \in Conns, SendData(s, c) PROVE TypeOK'
    BY <1>5 DEF SendData, Enqueue, slotVars, pollVars, Messages
  <1>6. ASSUME NEW s \in Slots, NEW c \in Conns, DelTc(s, c) PROVE TypeOK'
    BY <1>6 DEF DelTc, Enqueue, slotVars, pollVars, States, Messages
  <1>7. CASE NotifySlotClose
    BY <1>7 DEF NotifySlotClose, slotVars, connVars, pollVars
  <1>8. CASE PollBegin
    BY <1>8 DEF PollBegin, slotVars, connVars, PollSteps
  <1>9. CASE PollSkip
    BY <1>9, NextSlotType DEF PollSkip, tableVars, connVars
  <1>10. CASE PollNoEvent
    BY <1>10, SizesAssumption DEF PollNoEvent, tableVars, connVars, PollSteps, Conns
  <1>11. CASE PollReadError
    BY <1>11, FailType DEF PollReadError, tableVars, connVars
  <1>12. ASSUME NEW n \in CamNums, NEW k \in 1 .. MaxTpdus, PollRead(n, k) PROVE TypeOK'
    BY <1>12, ReturnType DEF PollRead, tableVars, connVars, PollSteps
  <1>13. CASE LockRouted
    BY <1>13 DEF LockRouted, tableVars, connVars, PollSteps
  <1>14. CASE HandleBadTpdu
    BY <1>14, FailType DEF HandleBadTpdu, tableVars, connVars
  <1>15. CASE ProcessDone
    BY <1>15, SizesAssumption DEF ProcessDone, tableVars, connVars, PollSteps, Conns, Slots
  <1>16. CASE CallbackReturns
    BY <1>16 DEF CallbackReturns, tableVars, connVars, PollSteps
  <1>17. ASSUME NEW c \in Conns, HandleCreateTcReply(c) PROVE TypeOK'
    <2>1. <<tgt, c>> \in Slots \X Conns /\ T_STATE_ACTIVE \in States
      BY DEF States
    <2>2. CASE state[<<tgt, c>>] = T_STATE_IN_CREATION
      <3>1. told' \in SUBSET (Slots \X Conns) /\ state' \in [Slots \X Conns -> States]
        BY <1>17, <2>1, <2>2 DEF HandleCreateTcReply
      <3> QED BY <1>17, <2>2, <3>1, ConsumedType, TimerType
              DEF HandleCreateTcReply, tableVars
    <2>3. CASE state[<<tgt, c>>] # T_STATE_IN_CREATION
      BY <1>17, <2>3, FailType DEF HandleCreateTcReply, tableVars
    <2> QED BY <2>2, <2>3
  <1>18. ASSUME NEW c \in Conns, HandleDeleteTc(c) PROVE TypeOK'
    BY <1>18, FailType, ConsumedType, ChainType DEF HandleDeleteTc, tableVars, States
  <1>19. ASSUME NEW c \in Conns, HandleDeleteTcReply(c) PROVE TypeOK'
    BY <1>19, FailType, ConsumedType DEF HandleDeleteTcReply, tableVars, States
  <1>20. ASSUME NEW c \in Conns, HandleRequestTc(c) PROVE TypeOK'
    BY <1>20, FailType, ConsumedType, TimerType, ChainType
    DEF HandleRequestTc, tableVars, States
  <1>21. ASSUME NEW c \in Conns, HandleDataMore(c) PROVE TypeOK'
    BY <1>21, FailType, ConsumedType, TimerType DEF HandleDataMore, tableVars
  <1>22. ASSUME NEW c \in Conns, HandleDataLast(c) PROVE TypeOK'
    <2>1. CASE Consumed \/ Fail(tgt)
      BY <1>22, <2>1, FailType, ConsumedType, TimerType, ChainType
      DEF HandleDataLast, tableVars
    <2>2. CASE pc' = "callback" /\ rx' = rx - 1 /\ UNCHANGED <<cur, tgt, conn, error_slot>>
      <3>1. rx' \in 0 .. MaxTpdus /\ pc' \in PollSteps
        BY <1>22, <2>2, SizesAssumption DEF HandleDataLast, Parsing, PollSteps
      <3>2. /\ tx' \in [Slots \X Conns -> {"ok", "wait", "late"}]
            /\ chained' \in [Slots \X Conns -> BOOLEAN]
        BY <1>22, TimerType, ChainType DEF HandleDataLast
      <3> QED BY <1>22, <2>2, <3>1, <3>2 DEF HandleDataLast, tableVars
    <2> QED BY <1>22, <2>1, <2>2 DEF HandleDataLast
  <1>23. ASSUME NEW c \in Conns, HandleSb(c) PROVE TypeOK'
    BY <1>23, FailType, ConsumedType, TimerType DEF HandleSb, tableVars
  <1>24. CASE SkipIdle
    BY <1>24, NextConnType DEF SkipIdle, tableVars, connVars
  <1>25. CASE SendQueued
    <2>1. queue' \in [Slots \X Conns -> Seq(Messages)]
      BY <1>25 DEF SendQueued, MaySend
    <2>2. CASE Fail(cur) /\ UNCHANGED <<state, tx, chained>>
      BY <1>25, <2>1, <2>2, FailType DEF SendQueued, tableVars
    <2>3. CASE StartTimer(cur, conn) /\ pc' = "poll"
               /\ UNCHANGED <<cur, tgt, conn, rx, error_slot>>
      <3>1. /\ state' \in [Slots \X Conns -> States]
            /\ chained' \in [Slots \X Conns -> BOOLEAN]
        BY <1>25, ChainType DEF SendQueued, States
      <3>2. tx' \in [Slots \X Conns -> {"ok", "wait", "late"}]
        BY <2>3, TimerType
      <3> QED BY <1>25, <2>1, <2>3, <3>1, <3>2 DEF SendQueued, tableVars, PollSteps
    <2> QED BY <1>25, <2>2, <2>3 DEF SendQueued
  <1>26. CASE SendNothing
    BY <1>26 DEF SendNothing, tableVars, connVars, PollSteps
  <1>27. CASE PollTc
    BY <1>27, FailType, TimerType DEF PollTc, tableVars, PollSteps
  <1>28. CASE NotPolled
    BY <1>28 DEF NotPolled, tableVars, connVars, PollSteps
  <1>29. CASE CheckTimeout
    BY <1>29, FailType, NextConnType DEF CheckTimeout, tableVars, States
  <1>30. ASSUME NEW s \in Slots, NEW c \in Conns, TimeoutElapses(s, c) PROVE TypeOK'
    BY <1>30 DEF TimeoutElapses, tableVars, pollVars
  <1>31. CASE UNCHANGED vars
    BY <1>31 DEF vars
  <1> QED
    BY <1>1, <1>2, <1>3, <1>4, <1>5, <1>6, <1>7, <1>8, <1>9, <1>10, <1>11, <1>12, <1>13,
       <1>14, <1>15, <1>16, <1>17, <1>18, <1>19, <1>20, <1>21, <1>22, <1>23, <1>24, <1>25,
       <1>26, <1>27, <1>28, <1>29, <1>30, <1>31 DEF Next, Api, Poll, Process

\* In every reachable state every variable of the transport layer has its type: the
\* poll thread's indices never leave the tables of slots and connections.
THEOREM TypeCorrect == Spec => []TypeOK
  BY InitType, NextType, PTL DEF Spec

-----------------------------------------------------------------------------
(* The inductive invariant.                                                *)

\* While a SLOTCLOSE callback is due the slot it is about stays unregistered:
\* en50221_tl_destroy_slot keeps global_lock until the callback has returned.
ClosingIsGone == closing # NoSlot => hndl[closing] = NoHndl

IInv ==
    /\ TypeOK
    /\ ClosingIsGone
    /\ NoChainLeftBehind
    /\ UnregisteredIsClean
    /\ DeleteIsLast
    /\ OpenIsAnnounced

\* The actions that change neither a connection nor who is registered or told.
Quiet == UNCHANGED <<hndl, state, tx, chained, queue, closing, told>>

\* Every step is quiet or one of the actions that change a connection.
LEMMA StepKinds ==
    ASSUME TypeOK, [Next]_vars
    PROVE  \/ Quiet
           \/ \E ca \in CAs, n \in CamNums : RegisterSlot(ca, n)
           \/ \E s \in Slots : DestroySlot(s) \/ NewTc(s)
           \/ \E s \in Slots, c \in Conns :
                 SendData(s, c) \/ DelTc(s, c) \/ TimeoutElapses(s, c)
           \/ NotifySlotClose
           \/ \E c \in Conns :
                 \/ HandleCreateTcReply(c) \/ HandleDeleteTc(c) \/ HandleDeleteTcReply(c)
                 \/ HandleRequestTc(c) \/ HandleDataMore(c) \/ HandleDataLast(c)
                 \/ HandleSb(c)
           \/ SendQueued \/ PollTc \/ CheckTimeout
  <1>1. ASSUME NEW s \in Slots, RejectedCall(s) PROVE Quiet
    BY <1>1 DEF RejectedCall, Quiet, slotVars, connVars
  <1>2. CASE PollBegin
    BY <1>2 DEF PollBegin, Quiet, slotVars, connVars
  <1>3. ASSUME NEW n \in CamNums, NEW k \in 1 .. MaxTpdus, PollRead(n, k) PROVE Quiet
    BY <1>3 DEF PollRead, Quiet, tableVars, connVars
  <1>4. CASE PollSkip \/ PollNoEvent \/ PollReadError \/ LockRouted
    BY <1>4 DEF PollSkip, PollNoEvent, PollReadError, LockRouted, Quiet, tableVars, connVars
  <1>5. CASE HandleBadTpdu \/ ProcessDone \/ CallbackReturns
    BY <1>5 DEF HandleBadTpdu, ProcessDone, CallbackReturns, Quiet, tableVars, connVars
  <1>6. CASE SkipIdle \/ SendNothing \/ NotPolled
    BY <1>6 DEF SkipIdle, SendNothing, NotPolled, Quiet, tableVars, connVars
  <1>7. CASE UNCHANGED vars
    BY <1>7 DEF vars, Quiet
  <1> QED
    BY <1>1, <1>2, <1>3, <1>4, <1>5, <1>6, <1>7 DEF Next, Api, Poll, Process

\* The SLOTCLOSE callback is about an unregistered slot.
LEMMA ClosingStep == ASSUME IInv, [Next]_vars PROVE ClosingIsGone'
  <1> USE DEF IInv, TypeOK, ClosingIsGone
  <1>1. CASE Quiet
    BY <1>1 DEF Quiet
  <1>2. ASSUME NEW ca \in CAs, NEW n \in CamNums, RegisterSlot(ca, n) PROVE ClosingIsGone'
    BY <1>2 DEF RegisterSlot, GlobalFree
  <1>3. ASSUME NEW s \in Slots, DestroySlot(s) PROVE ClosingIsGone'
    BY <1>3 DEF DestroySlot
  <1>4. CASE NotifySlotClose
    BY <1>4 DEF NotifySlotClose
  <1>5. CASE UNCHANGED <<hndl, closing>>
    BY <1>5
  <1> QED
    BY <1>1, <1>2, <1>3, <1>4, <1>5, StepKinds
    DEF NewTc, SendData, DelTc, TimeoutElapses, HandleCreateTcReply, HandleDeleteTc,
        HandleDeleteTcReply, HandleRequestTc, HandleDataMore, HandleDataLast, HandleSb,
        SendQueued, PollTc, CheckTimeout, tableVars, slotVars

\* Chained data stays with connections that can still get the rest.
LEMMA ChainStep == ASSUME IInv, [Next]_vars PROVE NoChainLeftBehind'
  <1> USE DEF IInv, TypeOK, NoChainLeftBehind
  <1> USE DEF T_STATE_IDLE, T_STATE_ACTIVE, T_STATE_ACTIVE_DELETEQUEUED, T_STATE_IN_CREATION,
        T_STATE_IN_DELETION
  <1>1. CASE Quiet
    BY <1>1 DEF Quiet
  <1>2. ASSUME NEW ca \in CAs, NEW n \in CamNums, RegisterSlot(ca, n) PROVE NoChainLeftBehind'
    BY <1>2 DEF RegisterSlot, connVars
  <1>3. ASSUME NEW s \in Slots, DestroySlot(s) PROVE NoChainLeftBehind'
    BY <1>3 DEF DestroySlot, Cleared
  <1>4. ASSUME NEW s \in Slots, NewTc(s) PROVE NoChainLeftBehind'
    BY <1>4 DEF NewTc, FirstIdle, Enqueue, FreeChain, slotVars
  <1>5. ASSUME NEW s \in Slots, NEW c \in Conns, SendData(s, c) PROVE NoChainLeftBehind'
    BY <1>5 DEF SendData, AcceptsData, Enqueue, slotVars
  <1>6. ASSUME NEW s \in Slots, NEW c \in Conns, DelTc(s, c) PROVE NoChainLeftBehind'
    BY <1>6 DEF DelTc, Enqueue, slotVars
  <1>7. ASSUME NEW s \in Slots, NEW c \in Conns, TimeoutElapses(s, c) PROVE NoChainLeftBehind'
    BY <1>7 DEF TimeoutElapses, tableVars
  <1>8. CASE NotifySlotClose
    BY <1>8 DEF NotifySlotClose, slotVars, connVars
  <1>9. ASSUME NEW c \in Conns, HandleCreateTcReply(c) PROVE NoChainLeftBehind'
    BY <1>9 DEF HandleCreateTcReply, StopTimer, tableVars
  <1>10. ASSUME NEW c \in Conns, HandleDeleteTc(c) PROVE NoChainLeftBehind'
    BY <1>10 DEF HandleDeleteTc, FreeChain, tableVars
  <1>11. ASSUME NEW c \in Conns, HandleDeleteTcReply(c) PROVE NoChainLeftBehind'
    BY <1>11 DEF HandleDeleteTcReply, tableVars
  <1>12. ASSUME NEW c \in Conns, HandleRequestTc(c) PROVE NoChainLeftBehind'
    BY <1>12 DEF HandleRequestTc, FirstIdle, StopTimer, FreeChain, WriteOutcomes, tableVars
  <1>13. ASSUME NEW c \in Conns, HandleDataMore(c) PROVE NoChainLeftBehind'
    BY <1>13 DEF HandleDataMore, StopTimer, tableVars
  <1>14. ASSUME NEW c \in Conns, HandleDataLast(c) PROVE NoChainLeftBehind'
    BY <1>14 DEF HandleDataLast, StopTimer, FreeChain, tableVars
  <1>15. ASSUME NEW c \in Conns, HandleSb(c) PROVE NoChainLeftBehind'
    BY <1>15 DEF HandleSb, StartTimer, StopTimer, tableVars
  <1>16. CASE SendQueued
    BY <1>16 DEF SendQueued, MaySend, SendStates, StartTimer, FreeChain, WriteOutcomes, tableVars
  <1>17. CASE PollTc
    BY <1>17 DEF PollTc, StartTimer, tableVars
  <1>18. CASE CheckTimeout
    BY <1>18 DEF CheckTimeout, HandshakeStates, tableVars
  <1> QED
    BY <1>1, <1>2, <1>3, <1>4, <1>5, <1>6, <1>7, <1>8,
       <1>9, <1>10, <1>11, <1>12, <1>13, <1>14, <1>15, <1>16, <1>17, <1>18, StepKinds

\* A slot that is not registered stays clean.
LEMMA CleanStep == ASSUME IInv, [Next]_vars PROVE UnregisteredIsClean'
  <1> USE DEF IInv, TypeOK, UnregisteredIsClean
  <1> USE DEF T_STATE_IDLE, T_STATE_ACTIVE, T_STATE_ACTIVE_DELETEQUEUED, T_STATE_IN_CREATION,
        T_STATE_IN_DELETION
  <1>1. CASE Quiet
    BY <1>1 DEF Quiet
  <1>2. ASSUME NEW ca \in CAs, NEW n \in CamNums, RegisterSlot(ca, n) PROVE UnregisteredIsClean'
    BY <1>2 DEF RegisterSlot, connVars
  <1>3. ASSUME NEW s \in Slots, DestroySlot(s) PROVE UnregisteredIsClean'
    BY <1>3 DEF DestroySlot, Cleared
  <1>4. ASSUME NEW s \in Slots, NewTc(s) PROVE UnregisteredIsClean'
    BY <1>4 DEF NewTc, FirstIdle, Enqueue, FreeChain, slotVars
  <1>5. ASSUME NEW s \in Slots, NEW c \in Conns, SendData(s, c) PROVE UnregisteredIsClean'
    BY <1>5 DEF SendData, AcceptsData, Enqueue, slotVars
  <1>6. ASSUME NEW s \in Slots, NEW c \in Conns, DelTc(s, c) PROVE UnregisteredIsClean'
    BY <1>6 DEF DelTc, Enqueue, slotVars
  <1>7. ASSUME NEW s \in Slots, NEW c \in Conns, TimeoutElapses(s, c) PROVE UnregisteredIsClean'
    BY <1>7 DEF TimeoutElapses, tableVars
  <1>8. CASE NotifySlotClose
    BY <1>8 DEF NotifySlotClose, slotVars, connVars
  <1>9. ASSUME NEW c \in Conns, HandleCreateTcReply(c) PROVE UnregisteredIsClean'
    BY <1>9 DEF HandleCreateTcReply, StopTimer, tableVars
  <1>10. ASSUME NEW c \in Conns, HandleDeleteTc(c) PROVE UnregisteredIsClean'
    <2>1. UNCHANGED <<hndl, tx, queue>>
      BY <1>10 DEF HandleDeleteTc, tableVars
    <2>2. ASSUME NEW p \in Slots \X Conns, hndl[p[1]] = NoHndl
          PROVE  state'[p] = T_STATE_IDLE /\ ~chained'[p]
      BY <1>10, <2>2 DEF HandleDeleteTc, FreeChain
    <2> QED BY <2>1, <2>2
  <1>11. ASSUME NEW c \in Conns, HandleDeleteTcReply(c) PROVE UnregisteredIsClean'
    BY <1>11 DEF HandleDeleteTcReply, tableVars
  <1>12. ASSUME NEW c \in Conns, HandleRequestTc(c) PROVE UnregisteredIsClean'
    <2> SUFFICES ASSUME NEW p \in Slots \X Conns, hndl[p[1]] = NoHndl
                 PROVE  /\ state'[p] = T_STATE_IDLE /\ tx'[p] = "ok"
                        /\ queue'[p] = << >> /\ ~chained'[p]
      BY <1>12 DEF HandleRequestTc, tableVars
    <2>1. queue' = queue
      BY <1>12 DEF HandleRequestTc
    <2>2. ~chained'[p]
      BY <1>12 DEF HandleRequestTc, FreeChain
    <2>3. CASE hndl[tgt] = NoHndl
      <3>1. WriteOutcomes(tgt) = {FALSE}
        BY <2>3 DEF WriteOutcomes
      <3>2. UNCHANGED <<state, tx>>
        BY <1>12, <3>1 DEF HandleRequestTc
      <3> QED BY <2>1, <2>2, <3>2
    <2>4. CASE hndl[tgt] # NoHndl
      <3>1. p[1] # tgt
        BY <2>4
      <3>2. \A d \in Conns : p # <<tgt, d>>
        BY <3>1
      <3>3. state'[p] = state[p]
        BY <1>12, <3>2 DEF HandleRequestTc
      <3>4. tx'[p] = tx[p]
        BY <1>12, <3>2 DEF HandleRequestTc, StopTimer
      <3> QED BY <2>1, <2>2, <3>3, <3>4
    <2> QED BY <2>3, <2>4
  <1>13. ASSUME NEW c \in Conns, HandleDataMore(c) PROVE UnregisteredIsClean'
    BY <1>13 DEF HandleDataMore, StopTimer, tableVars
  <1>14. ASSUME NEW c \in Conns, HandleDataLast(c) PROVE UnregisteredIsClean'
    <2>1. UNCHANGED <<hndl, state, queue>>
      BY <1>14 DEF HandleDataLast, tableVars
    <2>2. ASSUME NEW p \in Slots \X Conns, hndl[p[1]] = NoHndl
          PROVE  tx'[p] = "ok" /\ ~chained'[p]
      BY <1>14, <2>2 DEF HandleDataLast, StopTimer, FreeChain
    <2> QED BY <2>1, <2>2
  <1>15. ASSUME NEW c \in Conns, HandleSb(c) PROVE UnregisteredIsClean'
    BY <1>15 DEF HandleSb, StartTimer, StopTimer, tableVars
  <1>16. CASE SendQueued
    <2>1. <<cur, conn>> \in Slots \X Conns /\ state[<<cur, conn>>] # T_STATE_IDLE
      BY <1>16 DEF SendQueued, MaySend, SendStates
    <2>2. hndl[cur] # NoHndl
      BY <2>1
    <2>3. hndl' = hndl
      BY <1>16 DEF SendQueued, tableVars
    <2>4. ASSUME NEW p \in Slots \X Conns, hndl[p[1]] = NoHndl
          PROVE  /\ state'[p] = state[p] /\ tx'[p] = tx[p]
                 /\ queue'[p] = queue[p] /\ chained'[p] = chained[p]
      <3>1. p # <<cur, conn>>
        BY <2>2, <2>4
      <3> QED BY <1>16, <3>1 DEF SendQueued, StartTimer, FreeChain
    <2> QED BY <2>3, <2>4
  <1>17. CASE PollTc
    BY <1>17 DEF PollTc, StartTimer, tableVars
  <1>18. CASE CheckTimeout
    BY <1>18 DEF CheckTimeout, HandshakeStates, tableVars
  <1> QED
    BY <1>1, <1>2, <1>3, <1>4, <1>5, <1>6, <1>7, <1>8,
       <1>9, <1>10, <1>11, <1>12, <1>13, <1>14, <1>15, <1>16, <1>17, <1>18, StepKinds

\* What Append and Tail do to the indices of a queue.
LEMMA AppendIndices ==
    ASSUME NEW q \in Seq(Messages), NEW m \in Messages
    PROVE  /\ Append(q, m) \in Seq(Messages)
           /\ Len(Append(q, m)) = Len(q) + 1
           /\ \A i \in 1 .. Len(q) : Append(q, m)[i] = q[i]
           /\ Append(q, m)[Len(q) + 1] = m
  BY AppendProperties

LEMMA TailIndices ==
    ASSUME NEW q \in Seq(Messages), q # << >>
    PROVE  /\ Len(q) \in Nat /\ Len(q) >= 1 /\ Head(q) = q[1]
           /\ Tail(q) \in Seq(Messages)
           /\ Len(Tail(q)) = Len(q) - 1
           /\ \A i \in 1 .. Len(q) - 1 : Tail(q)[i] = q[i + 1]
           /\ Len(q) = 1 => Tail(q) = << >>
  <1>1. Len(q) \in Nat /\ Len(q) >= 1
    BY EmptySeq
  <1>2. /\ Tail(q) \in Seq(Messages) /\ Len(Tail(q)) = Len(q) - 1
        /\ \A i \in 1 .. Len(q) - 1 : Tail(q)[i] = q[i + 1]
    BY HeadTailProperties
  <1>3. Head(q) = q[1]
    OBVIOUS
  <1>4. Len(q) = 1 => Tail(q) = << >>
    <2> SUFFICES ASSUME Len(q) = 1, Tail(q) # << >> PROVE FALSE
      OBVIOUS
    <2>1. Len(Tail(q)) = 0
      BY <1>2
    <2>2. Len(Tail(q)) \in Nat \ {0}
      BY <1>2, EmptySeq
    <2> QED BY <2>1, <2>2
  <1> QED BY <1>1, <1>2, <1>3, <1>4

\* A connection that is not about to be deleted has no T_DELETE_T_C queued, so it
\* may go to any state but T_STATE_IN_DELETION.
LEMMA DeleteOtherState ==
    ASSUME TypeOK, DeleteIsLast, NEW q \in Slots \X Conns, NEW st,
           state[q] # T_STATE_ACTIVE_DELETEQUEUED, st # T_STATE_IN_DELETION,
           state' = [state EXCEPT ![q] = st], queue' = queue
    PROVE  DeleteIsLast'
  <1> SUFFICES ASSUME NEW p \in Slots \X Conns
               PROVE  /\ \A i \in 1 .. Len(queue[p]) : queue[p][i] = T_DELETE_T_C =>
                            i = Len(queue[p]) /\ state'[p] = T_STATE_ACTIVE_DELETEQUEUED
                      /\ state'[p] = T_STATE_IN_DELETION => queue[p] = << >>
    BY DEF DeleteIsLast
  <1>1. CASE p = q
    BY <1>1 DEF TypeOK, DeleteIsLast
  <1>2. CASE p # q
    BY <1>2 DEF TypeOK, DeleteIsLast
  <1> QED BY <1>1, <1>2

\* T_DELETE_T_C stays the last message of its queue.
LEMMA DeleteStep == ASSUME IInv, [Next]_vars PROVE DeleteIsLast'
  <1> USE DEF IInv, TypeOK, DeleteIsLast
  <1> USE DEF T_STATE_IDLE, T_STATE_ACTIVE, T_STATE_ACTIVE_DELETEQUEUED, T_STATE_IN_CREATION,
        T_STATE_IN_DELETION, T_CREATE_T_C, T_DELETE_T_C, T_DATA_LAST
  <1>1. CASE Quiet
    BY <1>1 DEF Quiet
  <1>2. ASSUME NEW ca \in CAs, NEW n \in CamNums, RegisterSlot(ca, n) PROVE DeleteIsLast'
    BY <1>2 DEF RegisterSlot, connVars
  <1>3. ASSUME NEW s \in Slots, DestroySlot(s) PROVE DeleteIsLast'
    BY <1>3 DEF DestroySlot, Cleared
  <1>4. ASSUME NEW s \in Slots, NewTc(s) PROVE DeleteIsLast'
    BY <1>4 DEF NewTc, FirstIdle, Enqueue, FreeChain, slotVars
  <1>5. ASSUME NEW s \in Slots, NEW c \in Conns, SendData(s, c) PROVE DeleteIsLast'
    <2> SUFFICES ASSUME NEW p \in Slots \X Conns
                 PROVE  /\ \A i \in 1 .. Len(queue'[p]) : queue'[p][i] = T_DELETE_T_C =>
                              i = Len(queue'[p]) /\ state'[p] = T_STATE_ACTIVE_DELETEQUEUED
                        /\ state'[p] = T_STATE_IN_DELETION => queue'[p] = << >>
      OBVIOUS
    <2>1. state' = state /\ queue' = [queue EXCEPT ![<<s, c>>] = Append(@, T_DATA_LAST)]
      BY <1>5 DEF SendData, Enqueue
    <2>2. CASE p = <<s, c>>
      <3>1. queue[p] \in Seq(Messages) /\ T_DATA_LAST \in Messages
        BY DEF Messages
      <3>2. queue'[p] = Append(queue[p], T_DATA_LAST) /\ state[p] = T_STATE_ACTIVE
        BY <1>5, <2>1, <2>2 DEF SendData, AcceptsData
      <3>3. \A i \in 1 .. Len(queue[p]) : queue[p][i] # T_DELETE_T_C
        BY <3>2
      <3> HIDE DEF T_DELETE_T_C, T_DATA_LAST
      <3>4. T_DATA_LAST # T_DELETE_T_C
        BY DEF T_DELETE_T_C, T_DATA_LAST
      <3>5. \A i \in 1 .. Len(queue'[p]) : queue'[p][i] # T_DELETE_T_C
        BY <3>1, <3>2, <3>3, <3>4, AppendIndices
      <3> QED BY <2>1, <3>2, <3>5
    <2>3. CASE p # <<s, c>>
      <3>1. queue'[p] = queue[p]
        BY <2>1, <2>3
      <3> QED BY <2>1, <3>1
    <2> QED BY <2>2, <2>3
  <1>6. ASSUME NEW s \in Slots, NEW c \in Conns, DelTc(s, c) PROVE DeleteIsLast'
    BY <1>6 DEF DelTc, Enqueue, slotVars
  <1>7. ASSUME NEW s \in Slots, NEW c \in Conns, TimeoutElapses(s, c) PROVE DeleteIsLast'
    BY <1>7 DEF TimeoutElapses, tableVars
  <1>8. CASE NotifySlotClose
    BY <1>8 DEF NotifySlotClose, slotVars, connVars
  <1>9. ASSUME NEW c \in Conns, HandleCreateTcReply(c) PROVE DeleteIsLast'
    <2>1. CASE UNCHANGED <<state, queue>>
      BY <2>1
    <2>2. CASE state' = [state EXCEPT ![<<tgt, c>>] = T_STATE_ACTIVE]
               /\ state[<<tgt, c>>] # T_STATE_ACTIVE_DELETEQUEUED
      BY <1>9, <2>2, DeleteOtherState DEF HandleCreateTcReply
    <2> QED BY <1>9, <2>1, <2>2 DEF HandleCreateTcReply
  <1>10. ASSUME NEW c \in Conns, HandleDeleteTc(c) PROVE DeleteIsLast'
    <2>1. CASE UNCHANGED <<state, queue>>
      BY <2>1
    <2>2. CASE state' = [state EXCEPT ![<<tgt, c>>] = T_STATE_IDLE]
               /\ state[<<tgt, c>>] # T_STATE_ACTIVE_DELETEQUEUED
      BY <1>10, <2>2, DeleteOtherState DEF HandleDeleteTc
    <2> QED BY <1>10, <2>1, <2>2 DEF HandleDeleteTc
  <1>11. ASSUME NEW c \in Conns, HandleDeleteTcReply(c) PROVE DeleteIsLast'
    <2>1. CASE UNCHANGED <<state, queue>>
      BY <2>1
    <2>2. CASE state' = [state EXCEPT ![<<tgt, c>>] = T_STATE_IDLE]
               /\ state[<<tgt, c>>] # T_STATE_ACTIVE_DELETEQUEUED
      BY <1>11, <2>2, DeleteOtherState DEF HandleDeleteTcReply
    <2> QED BY <1>11, <2>1, <2>2 DEF HandleDeleteTcReply
  <1>12. ASSUME NEW c \in Conns, HandleRequestTc(c) PROVE DeleteIsLast'
    <2>1. CASE UNCHANGED <<state, queue>>
      BY <2>1
    <2>2. ASSUME NEW d \in Conns, FirstIdle(tgt, d), queue' = queue,
                 state' = [state EXCEPT ![<<tgt, d>>] = T_STATE_IN_CREATION]
          PROVE  DeleteIsLast'
      BY <2>2, DeleteOtherState DEF FirstIdle
    <2> QED BY <1>12, <2>1, <2>2 DEF HandleRequestTc
  <1>13. ASSUME NEW c \in Conns, HandleDataMore(c) PROVE DeleteIsLast'
    BY <1>13 DEF HandleDataMore, StopTimer, tableVars
  <1>14. ASSUME NEW c \in Conns, HandleDataLast(c) PROVE DeleteIsLast'
    BY <1>14 DEF HandleDataLast, StopTimer, FreeChain, tableVars
  <1>15. ASSUME NEW c \in Conns, HandleSb(c) PROVE DeleteIsLast'
    BY <1>15 DEF HandleSb, StartTimer, StopTimer, tableVars
  <1>16. CASE SendQueued
    <2> DEFINE q == <<cur, conn>>
    <2> SUFFICES ASSUME NEW p \in Slots \X Conns
                 PROVE  /\ \A i \in 1 .. Len(queue'[p]) : queue'[p][i] = T_DELETE_T_C =>
                              i = Len(queue'[p]) /\ state'[p] = T_STATE_ACTIVE_DELETEQUEUED
                        /\ state'[p] = T_STATE_IN_DELETION => queue'[p] = << >>
      OBVIOUS
    <2>1. /\ queue' = [queue EXCEPT ![q] = Tail(@)]
          /\ queue[q] # << >> /\ queue[q] \in Seq(Messages)
          /\ state[q] \in SendStates
      BY <1>16 DEF SendQueued, MaySend
    <2>2. CASE p # q
      <3>1. queue'[p] = queue[p] /\ state'[p] = state[p]
        BY <1>16, <2>1, <2>2 DEF SendQueued
      <3> QED BY <3>1
    <2>3. CASE p = q
      <3>1. /\ queue'[p] = Tail(queue[p])
            /\ queue[p] # << >> /\ queue[p] \in Seq(Messages)
        BY <2>1, <2>3
      <3>2. CASE Head(queue[p]) = T_DELETE_T_C
        <4>1. 1 \in 1 .. Len(queue[p]) /\ queue[p][1] = T_DELETE_T_C
          BY <3>1, <3>2, TailIndices
        <4>2. 1 = Len(queue[p])
          BY <4>1
        <4>3. queue'[p] = << >>
          BY <3>1, <4>2, TailIndices
        <4> QED BY <4>3
      <3>3. CASE Head(queue[p]) # T_DELETE_T_C
        <4>1. state'[p] = state[p] /\ state[p] # T_STATE_IN_DELETION
          BY <1>16, <2>1, <2>3, <3>3 DEF SendQueued, SendStates
        <4>2. ASSUME NEW i \in 1 .. Len(queue'[p]), queue'[p][i] = T_DELETE_T_C
              PROVE  i = Len(queue'[p]) /\ state[p] = T_STATE_ACTIVE_DELETEQUEUED
          <5>1. /\ Len(queue'[p]) = Len(queue[p]) - 1
                /\ i + 1 \in 1 .. Len(queue[p]) /\ queue[p][i + 1] = T_DELETE_T_C
            BY <3>1, <4>2, TailIndices
          <5>2. i + 1 = Len(queue[p]) /\ state[p] = T_STATE_ACTIVE_DELETEQUEUED
            BY <5>1
          <5> QED BY <5>1, <5>2
        <4> QED BY <4>1, <4>2
      <3> QED BY <3>2, <3>3
    <2> QED BY <2>2, <2>3
  <1>17. CASE PollTc
    BY <1>17 DEF PollTc, StartTimer, tableVars
  <1>18. CASE CheckTimeout
    <2>1. CASE UNCHANGED <<state, queue>>
      BY <2>1
    <2>2. CASE state' = [state EXCEPT ![<<cur, conn>>] = T_STATE_IDLE]
               /\ state[<<cur, conn>>] \in HandshakeStates
      BY <1>18, <2>2, DeleteOtherState DEF CheckTimeout, HandshakeStates
    <2> QED BY <1>18, <2>1, <2>2 DEF CheckTimeout
  <1> QED
    BY <1>1, <1>2, <1>3, <1>4, <1>5, <1>6, <1>7, <1>8,
       <1>9, <1>10, <1>11, <1>12, <1>13, <1>14, <1>15, <1>16, <1>17, <1>18, StepKinds

\* An open connection stays announced.
LEMMA AnnouncedStep == ASSUME IInv, [Next]_vars PROVE OpenIsAnnounced'
  <1> USE DEF IInv, TypeOK, OpenIsAnnounced
  <1> USE DEF T_STATE_IDLE, T_STATE_ACTIVE, T_STATE_ACTIVE_DELETEQUEUED, T_STATE_IN_CREATION,
        T_STATE_IN_DELETION
  <1>1. CASE Quiet
    BY <1>1 DEF Quiet
  <1>2. ASSUME NEW ca \in CAs, NEW n \in CamNums, RegisterSlot(ca, n) PROVE OpenIsAnnounced'
    BY <1>2 DEF RegisterSlot, connVars
  <1>3. ASSUME NEW s \in Slots, DestroySlot(s) PROVE OpenIsAnnounced'
    BY <1>3 DEF DestroySlot, Cleared
  <1>4. ASSUME NEW s \in Slots, NewTc(s) PROVE OpenIsAnnounced'
    BY <1>4 DEF NewTc, FirstIdle, Enqueue, FreeChain, slotVars
  <1>5. ASSUME NEW s \in Slots, NEW c \in Conns, SendData(s, c) PROVE OpenIsAnnounced'
    BY <1>5 DEF SendData, AcceptsData, Enqueue, slotVars
  <1>6. ASSUME NEW s \in Slots, NEW c \in Conns, DelTc(s, c) PROVE OpenIsAnnounced'
    BY <1>6 DEF DelTc, Enqueue, slotVars
  <1>7. ASSUME NEW s \in Slots, NEW c \in Conns, TimeoutElapses(s, c) PROVE OpenIsAnnounced'
    BY <1>7 DEF TimeoutElapses, tableVars
  <1>8. CASE NotifySlotClose
    <2> SUFFICES ASSUME NEW p \in Slots \X Conns,
                        state[p] \notin {T_STATE_IDLE, T_STATE_IN_CREATION}
                 PROVE  p \in told'
      BY <1>8 DEF NotifySlotClose, connVars
    <2>1. hndl[closing] = NoHndl
      BY <1>8 DEF NotifySlotClose, ClosingIsGone
    <2>2. p[1] # closing
      BY <2>1 DEF UnregisteredIsClean
    <2> QED BY <1>8, <2>2 DEF NotifySlotClose
  <1>9. ASSUME NEW c \in Conns, HandleCreateTcReply(c) PROVE OpenIsAnnounced'
    BY <1>9 DEF HandleCreateTcReply, StopTimer, tableVars
  <1>10. ASSUME NEW c \in Conns, HandleDeleteTc(c) PROVE OpenIsAnnounced'
    BY <1>10 DEF HandleDeleteTc, FreeChain, tableVars
  <1>11. ASSUME NEW c \in Conns, HandleDeleteTcReply(c) PROVE OpenIsAnnounced'
    BY <1>11 DEF HandleDeleteTcReply, tableVars
  <1>12. ASSUME NEW c \in Conns, HandleRequestTc(c) PROVE OpenIsAnnounced'
    BY <1>12 DEF HandleRequestTc, FirstIdle, StopTimer, FreeChain, WriteOutcomes, tableVars
  <1>13. ASSUME NEW c \in Conns, HandleDataMore(c) PROVE OpenIsAnnounced'
    BY <1>13 DEF HandleDataMore, StopTimer, tableVars
  <1>14. ASSUME NEW c \in Conns, HandleDataLast(c) PROVE OpenIsAnnounced'
    BY <1>14 DEF HandleDataLast, StopTimer, FreeChain, tableVars
  <1>15. ASSUME NEW c \in Conns, HandleSb(c) PROVE OpenIsAnnounced'
    BY <1>15 DEF HandleSb, StartTimer, StopTimer, tableVars
  <1>16. CASE SendQueued
    <2> SUFFICES ASSUME NEW p \in Slots \X Conns,
                        state'[p] \notin {T_STATE_IDLE, T_STATE_IN_CREATION}
                 PROVE  p \in told
      BY <1>16 DEF SendQueued
    <2>1. CASE state'[p] = state[p]
      BY <2>1
    <2>2. CASE p = <<cur, conn>> /\ Head(queue[<<cur, conn>>]) = T_DELETE_T_C
      <3>1. 1 \in 1 .. Len(queue[p]) /\ queue[p][1] = T_DELETE_T_C
        BY <1>16, <2>2, TailIndices DEF SendQueued, MaySend
      <3>2. state[p] = T_STATE_ACTIVE_DELETEQUEUED
        BY <3>1 DEF DeleteIsLast
      <3> QED BY <3>2
    <2> QED BY <1>16, <2>1, <2>2 DEF SendQueued
  <1>17. CASE PollTc
    BY <1>17 DEF PollTc, StartTimer, tableVars
  <1>18. CASE CheckTimeout
    BY <1>18 DEF CheckTimeout, HandshakeStates, tableVars
  <1> QED
    BY <1>1, <1>2, <1>3, <1>4, <1>5, <1>6, <1>7, <1>8,
       <1>9, <1>10, <1>11, <1>12, <1>13, <1>14, <1>15, <1>16, <1>17, <1>18, StepKinds

\* Init satisfies the invariant and every step keeps it.
LEMMA InitInvariant == Init => IInv
  <1> SUFFICES ASSUME Init PROVE IInv
    OBVIOUS
  <1>1. TypeOK /\ ClosingIsGone
    BY InitType DEF Init, ClosingIsGone
  <1>2. NoChainLeftBehind /\ UnregisteredIsClean /\ OpenIsAnnounced
    BY DEF Init, NoChainLeftBehind, UnregisteredIsClean, OpenIsAnnounced
  <1>3. DeleteIsLast
    <2>1. \A p \in Slots \X Conns : queue[p] = << >>
      BY DEF Init
    <2>2. Len(<< >>) = 0
      OBVIOUS
    <2> QED BY <2>1, <2>2 DEF DeleteIsLast
  <1> QED BY <1>1, <1>2, <1>3 DEF IInv

LEMMA NextInvariant == IInv /\ [Next]_vars => IInv'
  <1> SUFFICES ASSUME IInv, [Next]_vars PROVE IInv'
    OBVIOUS
  <1>1. TypeOK'
    BY NextType DEF IInv
  <1> QED
    BY <1>1, ClosingStep, ChainStep, CleanStep, DeleteStep, AnnouncedStep DEF IInv

\* IInv is an invariant of the transport layer.
THEOREM InductiveInvariant == Spec => []IInv
  BY InitInvariant, NextInvariant, PTL DEF Spec

\* No chained data is left behind on a connection that was closed, for any number
\* of slots, connections and threads calling the API.
THEOREM NoChainLost == Spec => []NoChainLeftBehind
  BY InductiveInvariant, PTL DEF IInv

\* en50221_tl_destroy_slot leaves nothing behind, whatever the poll thread was doing
\* with data of the CAM that was removed.
THEOREM DestroyedSlotIsClean == Spec => []UnregisteredIsClean
  BY InductiveInvariant, PTL DEF IInv

\* Nothing is ever queued behind T_DELETE_T_C.
THEOREM NothingAfterDelete == Spec => []DeleteIsLast
  BY InductiveInvariant, PTL DEF IInv

\* A connection in use has been reported to the session layer and no stale report
\* of its end is under way.
THEOREM OpenConnectionsAnnounced == Spec => []OpenIsAnnounced
  BY InductiveInvariant, PTL DEF IInv
-----------------------------------------------------------------------------
(* Every handshake is driven, while writes succeed and the CAM is polite.   *)

\* What HandshakeIsDriven says of one connection.
Driven(p) ==
    /\ state[p] = T_STATE_IN_CREATION => Queued(p, T_CREATE_T_C) \/ tx[p] # "ok"
    /\ state[p] = T_STATE_IN_DELETION => tx[p] # "ok"
    /\ state[p] = T_STATE_ACTIVE_DELETEQUEUED => Queued(p, T_DELETE_T_C)

\* Appending a message queues it and leaves queued what was.
LEMMA QueuedAppend ==
    ASSUME NEW p \in Slots \X Conns, NEW m \in Messages, NEW k \in Messages,
           queue[p] \in Seq(Messages), queue'[p] = Append(queue[p], m),
           k = m \/ Queued(p, k)
    PROVE  Queued(p, k)'
  <1>1. Len(queue[p]) \in Nat /\ Len(queue'[p]) = Len(queue[p]) + 1
    BY AppendIndices
  <1>2. CASE k = m
    BY <1>1, <1>2, AppendIndices DEF Queued
  <1>3. CASE Queued(p, k)
    <2>1. PICK i \in 1 .. Len(queue[p]) : queue[p][i] = k
      BY <1>3 DEF Queued
    <2>2. i \in 1 .. Len(queue'[p]) /\ queue'[p][i] = k
      BY <1>1, <2>1, AppendIndices
    <2> QED BY <2>2 DEF Queued
  <1> QED BY <1>2, <1>3

\* A message that is not the head stays queued when the head is taken.
LEMMA QueuedTail ==
    ASSUME NEW p \in Slots \X Conns, NEW k \in Messages,
           queue[p] \in Seq(Messages), queue[p] # << >>, queue'[p] = Tail(queue[p]),
           Head(queue[p]) # k, Queued(p, k)
    PROVE  Queued(p, k)'
  <1>1. PICK i \in 1 .. Len(queue[p]) : queue[p][i] = k
    BY DEF Queued
  <1>2. /\ Len(queue[p]) \in Nat /\ Head(queue[p]) = queue[p][1]
        /\ Len(queue'[p]) = Len(queue[p]) - 1
        /\ \A j \in 1 .. Len(queue[p]) - 1 : queue'[p][j] = queue[p][j + 1]
    BY TailIndices
  <1>3. i # 1
    BY <1>1, <1>2
  <1>4. i - 1 \in 1 .. Len(queue'[p]) /\ queue'[p][i - 1] = k
    BY <1>1, <1>2, <1>3
  <1> QED BY <1>4 DEF Queued

\* A connection stays driven when its state, timer and queue do not change, when it
\* becomes idle or active, and when only its timer starts.
LEMMA DrivenFrame ==
    ASSUME NEW p \in Slots \X Conns, Driven(p), queue'[p] = queue[p],
           \/ state'[p] = state[p] /\ (tx'[p] = tx[p] \/ tx'[p] # "ok")
           \/ state'[p] \in {T_STATE_IDLE, T_STATE_ACTIVE}
    PROVE  Driven(p)'
  BY DEF Driven, Queued, T_STATE_IDLE, T_STATE_ACTIVE, T_STATE_ACTIVE_DELETEQUEUED,
         T_STATE_IN_CREATION, T_STATE_IN_DELETION

\* A write to a connection that is in use succeeds: its slot is registered.
LEMMA WritesSucceed ==
    ASSUME IInv, ~WriteMayFail, NEW s \in Slots, NEW c \in Conns,
           state[<<s, c>>] # T_STATE_IDLE
    PROVE  WriteOutcomes(s) = {TRUE}
  <1>1. <<s, c>> \in Slots \X Conns /\ <<s, c>>[1] = s
    OBVIOUS
  <1>2. hndl[s] # NoHndl
    BY <1>1 DEF IInv, UnregisteredIsClean
  <1> QED BY <1>2 DEF WriteOutcomes

LEMMA DrivenStep ==
    ASSUME IInv, [Next]_vars, ~WriteMayFail, CamPolite,
           NEW p \in Slots \X Conns, Driven(p)
    PROVE  Driven(p)'
  <1> USE DEF T_STATE_IDLE, T_STATE_ACTIVE, T_STATE_ACTIVE_DELETEQUEUED, T_STATE_IN_CREATION,
        T_STATE_IN_DELETION
  <1> TypeOK
    BY DEF IInv
  <1>0. /\ queue[p] \in Seq(Messages) /\ state[p] \in States
        /\ {T_CREATE_T_C, T_DELETE_T_C, T_DATA_LAST} \subseteq Messages
    BY DEF TypeOK, Messages
  <1>1. CASE Quiet
    BY <1>1, DrivenFrame DEF Quiet
  <1>2. ASSUME NEW ca \in CAs, NEW n \in CamNums, RegisterSlot(ca, n) PROVE Driven(p)'
    BY <1>2, DrivenFrame DEF RegisterSlot, connVars
  <1>3. ASSUME NEW s \in Slots, DestroySlot(s) PROVE Driven(p)'
    <2>1. CASE p[1] = s
      BY <1>3, <2>1 DEF DestroySlot, Cleared, Driven
    <2>2. CASE p[1] # s
      BY <1>3, <2>2, DrivenFrame DEF DestroySlot, Cleared
    <2> QED BY <2>1, <2>2
  <1>4. ASSUME NEW s \in Slots, NewTc(s) PROVE Driven(p)'
    <2>1. PICK c \in Conns : /\ Enqueue(s, c, T_CREATE_T_C) /\ tx' = tx
                             /\ state' = [state EXCEPT ![<<s, c>>] = T_STATE_IN_CREATION]
      BY <1>4 DEF NewTc
    <2>2. CASE p = <<s, c>>
      <3>1. queue'[p] = Append(queue[p], T_CREATE_T_C) /\ state'[p] = T_STATE_IN_CREATION
        BY <2>1, <2>2 DEF Enqueue, TypeOK
      <3>2. Queued(p, T_CREATE_T_C)'
        BY <1>0, <3>1, QueuedAppend
      <3> QED BY <3>1, <3>2 DEF Driven
    <2>3. CASE p # <<s, c>>
      <3>1. queue'[p] = queue[p] /\ state'[p] = state[p]
        BY <2>1, <2>3 DEF Enqueue, TypeOK
      <3> QED BY <2>1, <3>1, DrivenFrame
    <2> QED BY <2>2, <2>3
  <1>5. ASSUME NEW s \in Slots, NEW c \in Conns, SendData(s, c) PROVE Driven(p)'
    <2>1. /\ state[<<s, c>>] = T_STATE_ACTIVE /\ UNCHANGED <<state, tx>>
          /\ Enqueue(s, c, T_DATA_LAST)
      BY <1>5 DEF SendData, AcceptsData
    <2>2. CASE p = <<s, c>>
      BY <2>1, <2>2 DEF Driven
    <2>3. CASE p # <<s, c>>
      <3>1. queue'[p] = queue[p]
        BY <2>1, <2>3 DEF Enqueue, TypeOK
      <3> QED BY <2>1, <3>1, DrivenFrame
    <2> QED BY <2>2, <2>3
  <1>6. ASSUME NEW s \in Slots, NEW c \in Conns, DelTc(s, c) PROVE Driven(p)'
    <2>1. /\ Enqueue(s, c, T_DELETE_T_C) /\ tx' = tx
          /\ state' = [state EXCEPT ![<<s, c>>] = T_STATE_ACTIVE_DELETEQUEUED]
      BY <1>6 DEF DelTc
    <2>2. CASE p = <<s, c>>
      <3>1. /\ queue'[p] = Append(queue[p], T_DELETE_T_C)
            /\ state'[p] = T_STATE_ACTIVE_DELETEQUEUED
        BY <2>1, <2>2 DEF Enqueue, TypeOK
      <3>2. Queued(p, T_DELETE_T_C)'
        BY <1>0, <3>1, QueuedAppend
      <3> QED BY <3>1, <3>2 DEF Driven
    <2>3. CASE p # <<s, c>>
      <3>1. queue'[p] = queue[p] /\ state'[p] = state[p]
        BY <2>1, <2>3 DEF Enqueue, TypeOK
      <3> QED BY <2>1, <3>1, DrivenFrame
    <2> QED BY <2>2, <2>3
  <1>7. ASSUME NEW s \in Slots, NEW c \in Conns, TimeoutElapses(s, c) PROVE Driven(p)'
    BY <1>7, DrivenFrame DEF TimeoutElapses, TypeOK
  <1>8. CASE NotifySlotClose
    BY <1>8, DrivenFrame DEF NotifySlotClose, connVars
  <1>9. ASSUME NEW c \in Conns, HandleCreateTcReply(c) PROVE Driven(p)'
    BY <1>9, DrivenFrame DEF HandleCreateTcReply, StopTimer, TypeOK
  <1>10. ASSUME NEW c \in Conns, HandleDeleteTc(c) PROVE Driven(p)'
    BY <1>10, DrivenFrame DEF HandleDeleteTc, TypeOK
  <1>11. ASSUME NEW c \in Conns, HandleDeleteTcReply(c) PROVE Driven(p)'
    BY <1>11, DrivenFrame DEF HandleDeleteTcReply, TypeOK
  <1>12. ASSUME NEW c \in Conns, HandleRequestTc(c) PROVE Driven(p)'
    <2>1. /\ state[<<tgt, c>>] = T_STATE_ACTIVE /\ queue' = queue
          /\ <<tgt, c>> \in Slots \X Conns
      BY <1>12 DEF HandleRequestTc, TypeOK
    <2>2. CASE /\ state' = state
               /\ tx' = tx \/ tx' = [tx EXCEPT ![<<tgt, c>>] = "ok"]
      <3>1. CASE p = <<tgt, c>>
        BY <2>1, <2>2, <3>1, DrivenFrame
      <3>2. CASE p # <<tgt, c>>
        BY <2>1, <2>2, <3>2, DrivenFrame DEF TypeOK
      <3> QED BY <3>1, <3>2
    <2>3. ASSUME NEW d \in Conns, FirstIdle(tgt, d),
                 tx' = [tx EXCEPT ![<<tgt, c>>] = "ok", ![<<tgt, d>>] = "wait"],
                 state' = [state EXCEPT ![<<tgt, d>>] = T_STATE_IN_CREATION]
          PROVE  Driven(p)'
      <3>1. <<tgt, d>> # <<tgt, c>>
        BY <2>1, <2>3 DEF FirstIdle
      <3>2. CASE p = <<tgt, d>>
        <4>1. state'[p] = T_STATE_IN_CREATION /\ tx'[p] = "wait"
          BY <2>3, <3>2 DEF TypeOK
        <4> QED BY <4>1 DEF Driven
      <3>3. CASE p = <<tgt, c>>
        BY <2>1, <2>3, <3>1, <3>3, DrivenFrame DEF TypeOK
      <3>4. CASE p # <<tgt, c>> /\ p # <<tgt, d>>
        BY <2>1, <2>3, <3>4, DrivenFrame DEF TypeOK
      <3> QED BY <3>2, <3>3, <3>4
    <2> QED BY <1>12, <2>2, <2>3 DEF HandleRequestTc, StopTimer
  <1>13. ASSUME NEW c \in Conns, HandleDataMore(c) PROVE Driven(p)'
    BY <1>13, DrivenFrame DEF HandleDataMore, StopTimer, TypeOK
  <1>14. ASSUME NEW c \in Conns, HandleDataLast(c) PROVE Driven(p)'
    BY <1>14, DrivenFrame DEF HandleDataLast, StopTimer, TypeOK
  <1>15. ASSUME NEW c \in Conns, HandleSb(c) PROVE Driven(p)'
    BY <1>15, DrivenFrame DEF HandleSb, StartTimer, StopTimer, TypeOK
  <1>16. CASE SendQueued
    <2> DEFINE q == <<cur, conn>>
    <2>1. /\ q \in Slots \X Conns /\ cur \in Slots /\ conn \in Conns
          /\ queue' = [queue EXCEPT ![q] = Tail(@)] /\ queue[q] # << >>
          /\ state[q] \in SendStates
      BY <1>16 DEF SendQueued, MaySend, TypeOK
    <2>2. WriteOutcomes(cur) = {TRUE}
      BY <2>1, WritesSucceed DEF SendStates
    <2>3. /\ tx' = [tx EXCEPT ![q] = "wait"]
          /\ IF Head(queue[q]) = T_DELETE_T_C
             THEN state' = [state EXCEPT ![q] = T_STATE_IN_DELETION]
             ELSE UNCHANGED state
      BY <1>16, <2>2 DEF SendQueued, StartTimer
    <2>4. CASE p # q
      <3>1. queue'[p] = queue[p] /\ state'[p] = state[p] /\ tx'[p] = tx[p]
        BY <2>1, <2>3, <2>4 DEF TypeOK
      <3> QED BY <3>1, DrivenFrame
    <2>5. CASE p = q
      <3>1. tx'[p] # "ok" /\ queue'[p] = Tail(queue[p]) /\ queue[p] # << >>
        BY <2>1, <2>3, <2>5 DEF TypeOK
      <3>2. CASE Head(queue[p]) = T_DELETE_T_C
        <4>1. state'[p] = T_STATE_IN_DELETION
          BY <2>3, <2>5, <3>2 DEF TypeOK
        <4> QED BY <3>1, <4>1 DEF Driven
      <3>3. CASE Head(queue[p]) # T_DELETE_T_C
        <4>1. state'[p] = state[p]
          BY <2>3, <2>5, <3>3
        <4>2. state[p] = T_STATE_ACTIVE_DELETEQUEUED => Queued(p, T_DELETE_T_C)'
          BY <1>0, <3>1, <3>3, QueuedTail DEF Driven
        <4> QED BY <3>1, <4>1, <4>2 DEF Driven
      <3> QED BY <3>2, <3>3
    <2> QED BY <2>4, <2>5
  <1>17. CASE PollTc
    BY <1>17, DrivenFrame DEF PollTc, StartTimer, TypeOK
  <1>18. CASE CheckTimeout
    BY <1>18, DrivenFrame DEF CheckTimeout, TypeOK
  <1> QED
    BY <1>1, <1>2, <1>3, <1>4, <1>5, <1>6, <1>7, <1>8,
       <1>9, <1>10, <1>11, <1>12, <1>13, <1>14, <1>15, <1>16, <1>17, <1>18, StepKinds

\* While writes succeed and the CAM requests connections on open ones only, no
\* connection ever waits for an answer to a request that nobody will send.
THEOREM HandshakesDriven == Spec => []HandshakeIsDriven
  <1>1. Init => HandshakeIsDriven
    BY DEF Init, HandshakeIsDriven, T_STATE_IDLE, T_STATE_ACTIVE_DELETEQUEUED,
           T_STATE_IN_CREATION, T_STATE_IN_DELETION
  <1>2. IInv /\ HandshakeIsDriven /\ [Next]_vars => HandshakeIsDriven'
    <2> SUFFICES ASSUME IInv, HandshakeIsDriven, [Next]_vars, ~WriteMayFail, CamPolite,
                        NEW p \in Slots \X Conns
                 PROVE  Driven(p)'
      BY DEF HandshakeIsDriven, Driven
    <2>1. Driven(p)
      BY DEF HandshakeIsDriven, Driven
    <2> QED BY <2>1, DrivenStep
  <1> QED BY <1>1, <1>2, InductiveInvariant, PTL DEF Spec
=============================================================================
