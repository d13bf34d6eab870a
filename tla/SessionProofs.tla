---------------------------- MODULE SessionProofs ----------------------------
(***************************************************************************)
(* Proofs about Session, for every number of sessions, slots, connections  *)
(* and user threads.                                                       *)
(***************************************************************************)
EXTENDS Session, TLAPS

-----------------------------------------------------------------------------
(* The inductive invariants.                                               *)

\* A thread that works on a session has a number of the table in its hands.
NumInTable ==
    \A t \in Threads : pc[t] \notin {"idle", "conn_scan", "slot_scan"} => num[t] \in Sessions

TypeInv2 == TypeInv /\ NumInTable

\* A session the upper layer may use, or is ending.
Live(n) == state[n] \in {S_STATE_ACTIVE, S_STATE_IN_DELETION}

\* Where the poll thread is about to tell that the session in its hands is open, that
\* it is closed, and where it has allocated a session that is not open yet.
TellsOpen == pc[Poller] \in {"open_look", "open_tell", "connected_tell"}
TellsClosed == pc[Poller] \in {"close_tell", "conn_tell", "slot_tell"}
Opening == pc[Poller] \in {"open_fill", "open_ask", "open_send", "open_refuse", "open_done"}

\* The only active session the upper layer was not told of is the one the poll thread is
\* about to tell of.  Only the poll thread makes sessions active, so the one it has closed
\* or is still opening is not in use, whoever allocated the number again.
ActiveButOne ==
    /\ \A n \in Sessions :
          state[n] = S_STATE_ACTIVE /\ n \notin upper => TellsOpen /\ n = num[Poller]
    /\ TellsClosed \/ Opening => ~Live(num[Poller])

\* The only session the upper layer was told of, did not end and that is not active is the
\* one the poll thread is about to tell is closed.  One it is opening has not been told
\* of, and one it is about to tell of is active or has been ended.
ToldButOne ==
    /\ \A n \in Sessions :
          n \in upper /\ n \notin ended /\ state[n] # S_STATE_ACTIVE =>
              TellsClosed /\ n = num[Poller]
    /\ Opening => num[Poller] \notin upper
    /\ TellsOpen => state[num[Poller]] = S_STATE_ACTIVE \/ num[Poller] \in ended

\* What the connection service keeps: a connection in use is on a registered slot, and
\* one that was open has been announced.
ServiceInv ==
    \A p \in Pairs : /\ phase[p] # "closed" => p[1] \in up
                     /\ phase[p] \in {"open", "closing"} => p \in announced

\* The users create no session, or there is only one connection to create them on: the
\* fields of a session that is allocated are never those of another connection.
OwnersSettled == HostConns = {} \/ \A p, q \in Pairs : p = q

\* Without host connections no user allocates.
UsersFillNothing == HostConns = {} => \A t \in Users : pc[t] # "create_fill"

\* A session in use is on a connection that is announced, but for those the poll thread
\* has not come to after the connection was closed; after a slot was removed, none that
\* it has passed is on that slot.
OnAnnounced ==
    /\ \A n \in Sessions : Live(n) =>
          \/ owner[n] \in announced
          \/ /\ pc[Poller] \in {"conn_scan", "conn_tell"}
             /\ owner[n] = on[Poller] /\ num[Poller] <= n
    /\ pc[Poller] \in {"slot_scan", "slot_tell"} =>
          \A n \in Sessions : Live(n) /\ n < num[Poller] => owner[n][1] # on[Poller][1]
    /\ Opening => on[Poller] \in announced
    /\ Opening /\ pc[Poller] # "open_fill" => owner[num[Poller]] = on[Poller]

OrphanInv == ServiceInv /\ UsersFillNothing /\ OnAnnounced

-----------------------------------------------------------------------------
(* Type correctness.                                                       *)

LEMMA InitType == Init => TypeInv2
  BY SessionAssumption DEF Init, SInit, TypeInv2, TypeInv, NumInTable, Threads, Sessions,
     Pairs, Steps, SessionStates, Phases, NoThread, S_STATE_IDLE

\* The memberships the steps rely on.
LEMMA Members ==
    /\ Poller \in Threads /\ Remover \in Threads /\ Users \subseteq Threads
    /\ HostConns \subseteq Pairs
    /\ {S_STATE_IDLE, S_STATE_ACTIVE, S_STATE_IN_CREATION, S_STATE_IN_DELETION} \subseteq SessionStates
    /\ \A n \in Sessions : n \in 0 .. MaxSessions /\ n + 1 \in 0 .. MaxSessions
    /\ \A n \in 0 .. MaxSessions : n < MaxSessions => n \in Sessions
    /\ 0 \in 0 .. MaxSessions
    /\ \A s \in Slots, c \in Conns : <<s, c>> \in Pairs
  BY SessionAssumption DEF Threads, Pairs, SessionStates, Sessions

LEMMA TypeStep ==
    ASSUME TypeInv2, Next
    PROVE  TypeInv2'
  <1> USE Members DEF TypeInv2, TypeInv, NumInTable, Steps, Phases, svcVars,
     sessionVars, locals, told
  <1>1. ASSUME NEW s \in Slots, TcInsert(s) PROVE TypeInv2'
    BY <1>1 DEF TcInsert, Insert
  <1>2. ASSUME NEW s \in Slots, TcRemove(s) PROVE TypeInv2'
    BY <1>2 DEF TcRemove, Remove, Goto, NoRemoval, Pairs
  <1>3. ASSUME NEW p \in Pairs, TcStep(p) PROVE TypeInv2'
    BY <1>3 DEF TcStep, Open, Release, Close
  <1>4. ASSUME NEW p \in Pairs, TcAccept(p) PROVE TypeInv2'
    BY <1>4 DEF TcAccept, Accept
  <1>5. ASSUME NEW p \in Pairs, TcHangup(p) PROVE TypeInv2'
    BY <1>5 DEF TcHangup, Hangup, Goto
  <1>6. CASE ConnScan
    BY <1>6 DEF ConnScan, Scan, Goto, ClosedWithConn
  <1>7. CASE ConnTell
    BY <1>7 DEF ConnTell, ScanTell, Goto
  <1>8. CASE ConnScanDone
    BY <1>8 DEF ConnScanDone, Done, Goto
  <1>9. CASE SlotScan
    BY <1>9 DEF SlotScan, Scan, Goto, ClosedWithSlot
  <1>10. CASE SlotTell
    BY <1>10 DEF SlotTell, ScanTell, Goto
  <1>11. CASE SlotScanDone
    BY <1>11 DEF SlotScanDone, Done, Goto, Report
  <1>12. ASSUME NEW t \in Users, NEW p \in HostConns, CreateSession(t, p)
         PROVE  TypeInv2'
    BY <1>12 DEF CreateSession, Alloc, Goto, FirstIdle
  <1>13. ASSUME NEW t \in Users, CreateFill(t) PROVE TypeInv2'
    BY <1>13 DEF CreateFill, Fill, Goto
  <1>14. ASSUME NEW t \in Users, CreateSend(t) PROVE TypeInv2'
    BY <1>14 DEF CreateSend, Done, Goto
  <1>15. ASSUME NEW t \in Users, CreateUndo(t) PROVE TypeInv2'
    BY <1>15 DEF CreateUndo, Undo, Done, Goto
  <1>16. ASSUME NEW t \in Users, NEW n \in Sessions, DestroySession(t, n)
         PROVE  TypeInv2'
    BY <1>16 DEF DestroySession, Goto
  <1>17. ASSUME NEW t \in Users, DestroySend(t) PROVE TypeInv2'
    BY <1>17 DEF DestroySend, Done, Goto
  <1>18. ASSUME NEW t \in Users, DestroyUndo(t) PROVE TypeInv2'
    BY <1>18 DEF DestroyUndo, Undo, Done, Goto
  <1>19. ASSUME NEW p \in Pairs, OpenRequest(p) PROVE TypeInv2'
    BY <1>19 DEF OpenRequest, Alloc, Goto, FirstIdle
  <1>20. CASE OpenFill
    BY <1>20 DEF OpenFill, Fill, Goto
  <1>21. CASE OpenAsk
    BY <1>21 DEF OpenAsk, Goto
  <1>22. CASE OpenSend
    BY <1>22 DEF OpenSend, Goto
  <1>23. CASE OpenRefuse
    BY <1>23 DEF OpenRefuse, Done, Goto
  <1>24. CASE OpenDone
    BY <1>24 DEF OpenDone, Goto
  <1>25. CASE OpenTell
    BY <1>25 DEF OpenTell, Done, Goto
  <1>26. ASSUME NEW p \in Pairs, NEW n \in Sessions, CloseRequest(p, n) PROVE TypeInv2'
    BY <1>26 DEF CloseRequest, Expected, Then, Goto
  <1>27. ASSUME NEW p \in Pairs, NEW n \in Sessions, CreateResponse(p, n)
         PROVE  TypeInv2'
    BY <1>27 DEF CreateResponse, Expected, Then, Goto
  <1>28. ASSUME NEW p \in Pairs, NEW n \in Sessions, NEW len \in {ResLength, ResLengthExpected}, CloseResponse(p, n, len)
         PROVE  TypeInv2'
    BY <1>28 DEF CloseResponse, Expected
  <1>29. CASE CloseTell
    BY <1>29 DEF CloseTell, Done, Goto
  <1>30. CASE ConnectedTell
    BY <1>30 DEF ConnectedTell, Done, Goto
  <1>31. CASE OpenLook
    BY <1>31 DEF OpenLook, Done, Goto
  <1> HIDE DEF TypeInv2, TypeInv, NumInTable, Steps, Phases, svcVars, sessionVars,
     locals, told
  <1> QED BY <1>1, <1>2, <1>3, <1>4, <1>5, <1>6, <1>7, <1>8, <1>9, <1>10, <1>11, <1>12,
     <1>13, <1>14, <1>15, <1>16, <1>17, <1>18, <1>19, <1>20, <1>21, <1>22, <1>23,
     <1>24, <1>25, <1>26, <1>27, <1>28, <1>29, <1>30, <1>31
     DEF Next, Transport, Api, Handle

\* TypeInv is an invariant of the session layer whoever removes slots: in particular no
\* loop of en50221_sl_transport_callback leaves sl->sessions, and no thread comes back
\* from a callback with a session number outside it.
THEOREM TypeCorrect == Spec => []TypeInv
  <1>1. TypeInv2 /\ UNCHANGED vars => TypeInv2'
    BY DEF TypeInv2, TypeInv, NumInTable, vars
  <1>2. TypeInv2 => TypeInv
    BY DEF TypeInv2
  <1> QED BY InitType, TypeStep, <1>1, <1>2, PTL DEF Spec

-----------------------------------------------------------------------------
(* The upper layer is told what is active.                                 *)

LEMMA InitTold == Init => ActiveButOne /\ ToldButOne
  BY SessionAssumption, Members DEF Init, ActiveButOne, ToldButOne, TellsOpen, TellsClosed,
     Opening, Live, S_STATE_IDLE, S_STATE_ACTIVE, S_STATE_IN_DELETION

LEMMA ActiveStep ==
    ASSUME Remover = Poller, TypeInv2, ActiveButOne, Next
    PROVE  ActiveButOne'
  <1>1. \A t \in Users : t # Poller
    BY SessionAssumption
  <1> USE <1>1, Members DEF TypeInv2, TypeInv, NumInTable, ActiveButOne, TellsOpen,
     TellsClosed, Opening, Live, S_STATE_IDLE, S_STATE_ACTIVE, S_STATE_IN_CREATION,
     S_STATE_IN_DELETION, svcVars, sessionVars, locals, told
  <1>2. ASSUME NEW s \in Slots, TcInsert(s) PROVE ActiveButOne'
    BY <1>2 DEF TcInsert, Insert
  <1>3. ASSUME NEW s \in Slots, TcRemove(s) PROVE ActiveButOne'
    BY <1>3 DEF TcRemove, Remove, Goto, NoRemoval
  <1>4. ASSUME NEW p \in Pairs, TcStep(p) PROVE ActiveButOne'
    BY <1>4 DEF TcStep, Open, Release, Close
  <1>5. ASSUME NEW p \in Pairs, TcAccept(p) PROVE ActiveButOne'
    BY <1>5 DEF TcAccept, Accept
  <1>6. ASSUME NEW p \in Pairs, TcHangup(p) PROVE ActiveButOne'
    BY <1>6 DEF TcHangup, Hangup, Goto
  <1>7. CASE ConnScan
    BY <1>7 DEF ConnScan, Scan, Goto, ClosedWithConn
  <1>8. CASE ConnTell
    BY <1>8 DEF ConnTell, ScanTell, Goto
  <1>9. CASE ConnScanDone
    BY <1>9 DEF ConnScanDone, Done, Goto
  <1>10. CASE SlotScan
    BY <1>10 DEF SlotScan, Scan, Goto, ClosedWithSlot
  <1>11. CASE SlotTell
    BY <1>11 DEF SlotTell, ScanTell, Goto
  <1>12. CASE SlotScanDone
    BY <1>12 DEF SlotScanDone, Done, Goto, Report
  <1>13. ASSUME NEW t \in Users, NEW p \in HostConns, CreateSession(t, p)
         PROVE  ActiveButOne'
    BY <1>13 DEF CreateSession, Alloc, Goto, FirstIdle
  <1>14. ASSUME NEW t \in Users, CreateFill(t) PROVE ActiveButOne'
    BY <1>14 DEF CreateFill, Fill, Goto
  <1>15. ASSUME NEW t \in Users, CreateSend(t) PROVE ActiveButOne'
    BY <1>15 DEF CreateSend, Done, Goto
  <1>16. ASSUME NEW t \in Users, CreateUndo(t) PROVE ActiveButOne'
    BY <1>16 DEF CreateUndo, Undo, Done, Goto
  <1>17. ASSUME NEW t \in Users, NEW n \in Sessions, DestroySession(t, n)
         PROVE  ActiveButOne'
    BY <1>17 DEF DestroySession, Goto
  <1>18. ASSUME NEW t \in Users, DestroySend(t) PROVE ActiveButOne'
    BY <1>18 DEF DestroySend, Done, Goto
  <1>19. ASSUME NEW t \in Users, DestroyUndo(t) PROVE ActiveButOne'
    BY <1>19 DEF DestroyUndo, Undo, Done, Goto
  <1>20. ASSUME NEW p \in Pairs, OpenRequest(p) PROVE ActiveButOne'
    BY <1>20 DEF OpenRequest, Alloc, Goto, FirstIdle
  <1>21. CASE OpenFill
    BY <1>21 DEF OpenFill, Fill, Goto
  <1>22. CASE OpenAsk
    BY <1>22 DEF OpenAsk, Goto
  <1>23. CASE OpenSend
    BY <1>23 DEF OpenSend, Goto
  <1>24. CASE OpenRefuse
    BY <1>24 DEF OpenRefuse, Done, Goto
  <1>25. CASE OpenDone
    BY <1>25 DEF OpenDone, Goto
  <1>26. CASE OpenTell
    BY <1>26 DEF OpenTell, Done, Goto
  <1>27. ASSUME NEW p \in Pairs, NEW n \in Sessions, CloseRequest(p, n)
         PROVE  ActiveButOne'
    BY <1>27 DEF CloseRequest, Expected, Then, Goto
  <1>28. ASSUME NEW p \in Pairs, NEW n \in Sessions, CreateResponse(p, n)
         PROVE  ActiveButOne'
    BY <1>28 DEF CreateResponse, Expected, Then, Goto
  <1>29. ASSUME NEW p \in Pairs, NEW n \in Sessions, NEW len \in {ResLength, ResLengthExpected}, CloseResponse(p, n, len)
         PROVE  ActiveButOne'
    BY <1>29 DEF CloseResponse, Expected
  <1>30. CASE CloseTell
    BY <1>30 DEF CloseTell, Done, Goto
  <1>31. CASE ConnectedTell
    BY <1>31 DEF ConnectedTell, Done, Goto
  <1>32. CASE OpenLook
    BY <1>32 DEF OpenLook, Done, Goto
  <1> HIDE DEF TypeInv2, TypeInv, NumInTable, ActiveButOne, TellsOpen, TellsClosed,
     Opening, Live, S_STATE_IDLE, S_STATE_ACTIVE, S_STATE_IN_CREATION,
     S_STATE_IN_DELETION, svcVars, sessionVars, locals, told
  <1> QED BY <1>2, <1>3, <1>4, <1>5, <1>6, <1>7, <1>8, <1>9, <1>10, <1>11, <1>12, <1>13,
     <1>14, <1>15, <1>16, <1>17, <1>18, <1>19, <1>20, <1>21, <1>22, <1>23, <1>24,
     <1>25, <1>26, <1>27, <1>28, <1>29, <1>30, <1>31, <1>32
     DEF Next, Transport, Api, Handle

\* When the thread that polls also removes the slots, ActiveIsTold is an invariant with any
\* number of user threads, on whichever connections these create sessions, and whichever
\* numbers they destroy: no callback that en50221_session.c makes after it has let go of
\* the session's lock leaves an active session the upper layer was not told of.
THEOREM ActiveTold == Remover = Poller => (Spec => []ActiveIsTold)
  <1> SUFFICES ASSUME Remover = Poller PROVE Spec => []ActiveIsTold
    OBVIOUS
  <1> DEFINE AInv == TypeInv2 /\ ActiveButOne
  <1>1. Init => AInv
    BY InitType, InitTold
  <1>2. AInv /\ Next => AInv'
    BY TypeStep, ActiveStep
  <1>3. AInv /\ UNCHANGED vars => AInv'
    BY DEF TypeInv2, TypeInv, NumInTable, ActiveButOne, TellsOpen, TellsClosed, Opening,
       Live, vars
  <1>4. AInv => ActiveIsTold
    BY DEF ActiveButOne, ActiveIsTold, TellsOpen
  <1> QED BY <1>1, <1>2, <1>3, <1>4, PTL DEF Spec

LEMMA ToldStep ==
    ASSUME Remover = Poller, HostConns = {}, TypeInv2, ActiveButOne, ToldButOne, Next
    PROVE  ToldButOne'
  <1>1. \A t \in Users : t # Poller
    BY SessionAssumption
  <1> USE <1>1, Members DEF TypeInv2, TypeInv, NumInTable, ActiveButOne, ToldButOne, TellsOpen,
     TellsClosed, Opening, Live, S_STATE_IDLE, S_STATE_ACTIVE, S_STATE_IN_CREATION,
     S_STATE_IN_DELETION, svcVars, sessionVars, locals, told
  <1>2. ASSUME NEW s \in Slots, TcInsert(s) PROVE ToldButOne'
    BY <1>2 DEF TcInsert, Insert
  <1>3. ASSUME NEW s \in Slots, TcRemove(s) PROVE ToldButOne'
    BY <1>3 DEF TcRemove, Remove, Goto, NoRemoval
  <1>4. ASSUME NEW p \in Pairs, TcStep(p) PROVE ToldButOne'
    BY <1>4 DEF TcStep, Open, Release, Close
  <1>5. ASSUME NEW p \in Pairs, TcAccept(p) PROVE ToldButOne'
    BY <1>5 DEF TcAccept, Accept
  <1>6. ASSUME NEW p \in Pairs, TcHangup(p) PROVE ToldButOne'
    BY <1>6 DEF TcHangup, Hangup, Goto
  <1>7. CASE ConnScan
    BY <1>7 DEF ConnScan, Scan, Goto, ClosedWithConn
  <1>8. CASE ConnTell
    BY <1>8 DEF ConnTell, ScanTell, Goto
  <1>9. CASE ConnScanDone
    BY <1>9 DEF ConnScanDone, Done, Goto
  <1>10. CASE SlotScan
    BY <1>10 DEF SlotScan, Scan, Goto, ClosedWithSlot
  <1>11. CASE SlotTell
    BY <1>11 DEF SlotTell, ScanTell, Goto
  <1>12. CASE SlotScanDone
    BY <1>12 DEF SlotScanDone, Done, Goto, Report
  <1>13. ASSUME NEW t \in Users, NEW p \in HostConns, CreateSession(t, p)
         PROVE  ToldButOne'
    BY <1>13 DEF CreateSession, Alloc, Goto, FirstIdle
  <1>14. ASSUME NEW t \in Users, CreateFill(t) PROVE ToldButOne'
    BY <1>14 DEF CreateFill, Fill, Goto
  <1>15. ASSUME NEW t \in Users, CreateSend(t) PROVE ToldButOne'
    BY <1>15 DEF CreateSend, Done, Goto
  <1>16. ASSUME NEW t \in Users, CreateUndo(t) PROVE ToldButOne'
    BY <1>16 DEF CreateUndo, Undo, Done, Goto
  <1>17. ASSUME NEW t \in Users, NEW n \in Sessions, DestroySession(t, n)
         PROVE  ToldButOne'
    BY <1>17 DEF DestroySession, Goto
  <1>18. ASSUME NEW t \in Users, DestroySend(t) PROVE ToldButOne'
    BY <1>18 DEF DestroySend, Done, Goto
  <1>19. ASSUME NEW t \in Users, DestroyUndo(t) PROVE ToldButOne'
    BY <1>19 DEF DestroyUndo, Undo, Done, Goto
  <1>20. ASSUME NEW p \in Pairs, OpenRequest(p) PROVE ToldButOne'
    BY <1>20 DEF OpenRequest, Alloc, Goto, FirstIdle
  <1>21. CASE OpenFill
    BY <1>21 DEF OpenFill, Fill, Goto
  <1>22. CASE OpenAsk
    BY <1>22 DEF OpenAsk, Goto
  <1>23. CASE OpenSend
    BY <1>23 DEF OpenSend, Goto
  <1>24. CASE OpenRefuse
    BY <1>24 DEF OpenRefuse, Done, Goto
  <1>25. CASE OpenDone
    BY <1>25 DEF OpenDone, Goto
  <1>26. CASE OpenTell
    BY <1>26 DEF OpenTell, Done, Goto
  <1>27. ASSUME NEW p \in Pairs, NEW n \in Sessions, CloseRequest(p, n)
         PROVE  ToldButOne'
    BY <1>27 DEF CloseRequest, Expected, Then, Goto
  <1>28. ASSUME NEW p \in Pairs, NEW n \in Sessions, CreateResponse(p, n)
         PROVE  ToldButOne'
    BY <1>28 DEF CreateResponse, Expected, Then, Goto
  <1>29. ASSUME NEW p \in Pairs, NEW n \in Sessions, NEW len \in {ResLength, ResLengthExpected}, CloseResponse(p, n, len)
         PROVE  ToldButOne'
    BY <1>29 DEF CloseResponse, Expected
  <1>30. CASE CloseTell
    BY <1>30 DEF CloseTell, Done, Goto
  <1>31. CASE ConnectedTell
    BY <1>31 DEF ConnectedTell, Done, Goto
  <1>32. CASE OpenLook
    BY <1>32 DEF OpenLook, Done, Goto
  <1> HIDE DEF TypeInv2, TypeInv, NumInTable, ActiveButOne, ToldButOne, TellsOpen, TellsClosed,
     Opening, Live, S_STATE_IDLE, S_STATE_ACTIVE, S_STATE_IN_CREATION,
     S_STATE_IN_DELETION, svcVars, sessionVars, locals, told
  <1> QED BY <1>2, <1>3, <1>4, <1>5, <1>6, <1>7, <1>8, <1>9, <1>10, <1>11, <1>12, <1>13,
     <1>14, <1>15, <1>16, <1>17, <1>18, <1>19, <1>20, <1>21, <1>22, <1>23, <1>24,
     <1>25, <1>26, <1>27, <1>28, <1>29, <1>30, <1>31, <1>32
     DEF Next, Transport, Api, Handle

\* When the thread that polls also removes the slots, and the CAM opens the sessions (as in
\* all programs of the repository), ToldWhatIsActive is an invariant with any number of
\* user threads, which may destroy any session at any time: after the callbacks the upper
\* layer knows exactly the sessions that are active, but for those it has ended itself.
\* Where users create sessions the second half fails: a user that ends a session between
\* its activation and the CONNECTED callback, and gets the same number for another one, is
\* told that this one is connected.
THEOREM ToldAll ==
    Remover = Poller /\ HostConns = {} => (Spec => []ToldWhatIsActive)
  <1> SUFFICES ASSUME Remover = Poller, HostConns = {} PROVE Spec => []ToldWhatIsActive
    OBVIOUS
  <1> DEFINE TInv == TypeInv2 /\ ActiveButOne /\ ToldButOne
  <1>1. Init => TInv
    BY InitType, InitTold
  <1>2. TInv /\ Next => TInv'
    BY TypeStep, ActiveStep, ToldStep
  <1>3. TInv /\ UNCHANGED vars => TInv'
    BY DEF TypeInv2, TypeInv, NumInTable, ActiveButOne, ToldButOne, TellsOpen, TellsClosed,
       Opening, Live, vars
  <1>4. TInv => ToldWhatIsActive
    BY DEF ActiveButOne, ToldButOne, ToldWhatIsActive, TellsOpen, TellsClosed
  <1> QED BY <1>1, <1>2, <1>3, <1>4, PTL DEF Spec

-----------------------------------------------------------------------------
(* No session outlives the report that its connection was closed.          *)

LEMMA InitOrphan == Init => OrphanInv
  BY SessionAssumption, Members DEF Init, SInit, OrphanInv, ServiceInv, UsersFillNothing,
     OnAnnounced, Opening, Live, Pairs, S_STATE_IDLE, S_STATE_ACTIVE, S_STATE_IN_DELETION

\* Whatever the session layer does, it uses the connection service as TcService allows.
LEMMA ServiceStep ==
    ASSUME TypeInv2, Next
    PROVE  [SNext]_svars
  <1>1. ASSUME NEW s \in Slots, TcInsert(s) \/ TcRemove(s) PROVE SNext
    BY <1>1 DEF TcInsert, TcRemove, SNext
  <1>2. ASSUME NEW p \in Pairs, TcStep(p) \/ TcAccept(p) \/ TcHangup(p) PROVE SNext
    BY <1>2 DEF TcStep, TcAccept, TcHangup, SNext, Pairs
  <1>3. CASE SlotScanDone
    <2>1. on[Remover][1] \in Slots
      BY Members DEF TypeInv2, TypeInv, Pairs
    <2> QED BY <1>3, <2>1 DEF SlotScanDone, SNext
  <1>4. CASE ConnScan \/ ConnTell \/ ConnScanDone \/ SlotScan \/ SlotTell
    BY <1>4 DEF ConnScan, ConnTell, ConnScanDone, SlotScan, SlotTell, Scan, ScanTell,
       svcVars, svars
  <1>5. CASE Api
    BY <1>5 DEF Api, CreateSession, CreateFill, CreateSend, CreateUndo, DestroySession,
       DestroySend, DestroyUndo, Alloc, Fill, Undo, svcVars, svars
  <1>6. CASE Handle
    BY <1>6 DEF Handle, OpenRequest, OpenFill, OpenAsk, OpenSend, OpenRefuse, OpenDone,
       OpenLook, OpenTell, CloseRequest, CreateResponse, CloseResponse, CloseTell, ConnectedTell,
       Alloc, Fill, Then, svcVars, svars
  <1> QED BY <1>1, <1>2, <1>3, <1>4, <1>5, <1>6 DEF Next, Transport

\* The connection service keeps ServiceInv by itself.
LEMMA ServiceKept ==
    ASSUME phase \in [Pairs -> Phases], ServiceInv, [SNext]_svars
    PROVE  ServiceInv'
  <1> USE DEF ServiceInv, Pairs, Phases
  <1>1. ASSUME NEW s \in Slots, Insert(s) \/ Remove(s) \/ Report(s) PROVE ServiceInv'
    BY <1>1 DEF Insert, Remove, Report
  <1>2. ASSUME NEW p \in Pairs, Open(p) \/ Accept(p) \/ Release(p) \/ Close(p) \/ Hangup(p)
        PROVE  ServiceInv'
    BY <1>2 DEF Open, Accept, Release, Close, Hangup
  <1>3. CASE UNCHANGED svars
    BY <1>3 DEF svars
  <1> HIDE DEF ServiceInv
  <1> QED BY <1>1, <1>2, <1>3 DEF SNext

\* Only en50221_sl_create_session brings a user to the filling of a session's fields.
LEMMA UsersStep ==
    ASSUME Remover = Poller, TypeInv2, UsersFillNothing, Next
    PROVE  UsersFillNothing'
  <1> SUFFICES ASSUME HostConns = {}, NEW t \in Users, pc'[t] = "create_fill"
               PROVE  pc[t] = "create_fill"
    BY DEF UsersFillNothing
  <1>1. pc \in [Threads -> Steps] /\ t \in Threads /\ t # Poller
    BY SessionAssumption, Members DEF TypeInv2, TypeInv
  <1>2. CASE Transport
    BY <1>1, <1>2 DEF Transport, TcInsert, TcRemove, TcStep, TcAccept, TcHangup, ConnScan,
       ConnTell, ConnScanDone, SlotScan, SlotTell, SlotScanDone, Scan, ScanTell, Done,
       Goto, locals
  <1>3. ASSUME NEW u \in Users,
               \/ CreateFill(u) \/ CreateSend(u) \/ CreateUndo(u)
               \/ \E n \in Sessions : DestroySession(u, n)
               \/ DestroySend(u) \/ DestroyUndo(u)
        PROVE  pc[t] = "create_fill"
    BY <1>1, <1>3, Members DEF CreateFill, CreateSend, CreateUndo, DestroySession,
       DestroySend, DestroyUndo, Fill, Undo, Done, Goto
  <1>4. CASE Handle
    BY <1>1, <1>4 DEF Handle, OpenRequest, OpenFill, OpenAsk, OpenSend, OpenRefuse, OpenDone,
       OpenLook, OpenTell, CloseRequest, CreateResponse, CloseResponse, CloseTell, ConnectedTell,
       Alloc, Fill, Then, Done, Goto, locals
  <1> QED BY <1>2, <1>3, <1>4 DEF Next, Api

LEMMA AnnouncedStep ==
    ASSUME Remover = Poller, OwnersSettled, TypeInv2, ActiveButOne, OrphanInv, Next
    PROVE  OnAnnounced'
  <1>1. \A t \in Users : t # Poller
    BY SessionAssumption
  <1> USE <1>1, Members DEF TypeInv2, TypeInv, NumInTable, ActiveButOne, TellsClosed,
     OrphanInv, ServiceInv, OnAnnounced, Opening, Live, S_STATE_IDLE, S_STATE_ACTIVE,
     S_STATE_IN_CREATION, S_STATE_IN_DELETION, svcVars, sessionVars, locals, told
  <1>2. ASSUME NEW s \in Slots, TcInsert(s) PROVE OnAnnounced'
    BY <1>2 DEF TcInsert, Insert
  <1>3. ASSUME NEW s \in Slots, TcRemove(s) PROVE OnAnnounced'
    BY <1>3 DEF TcRemove, Remove, Goto, NoRemoval
  <1>4. ASSUME NEW p \in Pairs, TcStep(p) PROVE OnAnnounced'
    BY <1>4 DEF TcStep, Open, Release, Close
  <1>5. ASSUME NEW p \in Pairs, TcAccept(p) PROVE OnAnnounced'
    BY <1>5 DEF TcAccept, Accept
  <1>6. ASSUME NEW p \in Pairs, TcHangup(p) PROVE OnAnnounced'
    BY <1>6 DEF TcHangup, Hangup, Goto
  <1>7. CASE ConnScan
    <2>1. CASE ClosedWithConn(num[Poller], on[Poller])
      BY <1>7, <2>1 DEF ConnScan, Scan, Goto
    <2>2. CASE ~ClosedWithConn(num[Poller], on[Poller])
      <3>1. \A n \in Sessions : num[Poller] <= n => num[Poller] + 1 <= n \/ n = num[Poller]
        BY DEF Sessions
      <3> QED BY <1>7, <2>2, <3>1 DEF ConnScan, Scan, Goto, ClosedWithConn
    <2> QED BY <2>1, <2>2
  <1>8. CASE ConnTell
    BY <1>8 DEF ConnTell, ScanTell, Goto
  <1>9. CASE ConnScanDone
    BY <1>9 DEF ConnScanDone, Done, Goto
  <1>10. CASE SlotScan
    <2>1. CASE ClosedWithSlot(num[Remover], on[Remover])
      BY <1>10, <2>1 DEF SlotScan, Scan, Goto
    <2>2. CASE ~ClosedWithSlot(num[Remover], on[Remover])
      <3>1. \A n \in Sessions : n < num[Poller] + 1 => n < num[Poller] \/ n = num[Poller]
        BY DEF Sessions
      <3> QED BY <1>10, <2>2, <3>1 DEF SlotScan, Scan, Goto, ClosedWithSlot
    <2> QED BY <2>1, <2>2
  <1>11. CASE SlotTell
    BY <1>11 DEF SlotTell, ScanTell, Goto
  <1>12. CASE SlotScanDone
    BY <1>12 DEF SlotScanDone, Done, Goto, Report
  <1>13. ASSUME NEW t \in Users, NEW p \in HostConns, CreateSession(t, p)
         PROVE  OnAnnounced'
    BY <1>13 DEF CreateSession, Alloc, Goto, FirstIdle
  <1>14. ASSUME NEW t \in Users, CreateFill(t) PROVE OnAnnounced'
    BY <1>14 DEF CreateFill, Fill, Goto, OwnersSettled, UsersFillNothing
  <1>15. ASSUME NEW t \in Users, CreateSend(t) PROVE OnAnnounced'
    BY <1>15 DEF CreateSend, Done, Goto
  <1>16. ASSUME NEW t \in Users, CreateUndo(t) PROVE OnAnnounced'
    BY <1>16 DEF CreateUndo, Undo, Done, Goto
  <1>17. ASSUME NEW t \in Users, NEW n \in Sessions, DestroySession(t, n)
         PROVE  OnAnnounced'
    BY <1>17 DEF DestroySession, Goto
  <1>18. ASSUME NEW t \in Users, DestroySend(t) PROVE OnAnnounced'
    BY <1>18 DEF DestroySend, Done, Goto
  <1>19. ASSUME NEW t \in Users, DestroyUndo(t) PROVE OnAnnounced'
    BY <1>19 DEF DestroyUndo, Undo, Done, Goto
  <1>20. ASSUME NEW p \in Pairs, OpenRequest(p) PROVE OnAnnounced'
    BY <1>20 DEF OpenRequest, Alloc, Goto, FirstIdle
  <1>21. CASE OpenFill
    BY <1>21 DEF OpenFill, Fill, Goto
  <1>22. CASE OpenAsk
    BY <1>22 DEF OpenAsk, Goto
  <1>23. CASE OpenSend
    BY <1>23 DEF OpenSend, Goto
  <1>24. CASE OpenRefuse
    BY <1>24 DEF OpenRefuse, Done, Goto
  <1>25. CASE OpenDone
    BY <1>25 DEF OpenDone, Goto
  <1>26. CASE OpenTell
    BY <1>26 DEF OpenTell, Done, Goto
  <1>27. ASSUME NEW p \in Pairs, NEW n \in Sessions, CloseRequest(p, n)
         PROVE  OnAnnounced'
    BY <1>27 DEF CloseRequest, Expected, Then, Goto
  <1>28. ASSUME NEW p \in Pairs, NEW n \in Sessions, CreateResponse(p, n)
         PROVE  OnAnnounced'
    BY <1>28 DEF CreateResponse, Expected, Then, Goto
  <1>29. ASSUME NEW p \in Pairs, NEW n \in Sessions, NEW len \in {ResLength, ResLengthExpected}, CloseResponse(p, n, len)
         PROVE  OnAnnounced'
    BY <1>29 DEF CloseResponse, Expected
  <1>30. CASE CloseTell
    BY <1>30 DEF CloseTell, Done, Goto
  <1>31. CASE ConnectedTell
    BY <1>31 DEF ConnectedTell, Done, Goto
  <1>32. CASE OpenLook
    BY <1>32 DEF OpenLook, Done, Goto
  <1> HIDE DEF TypeInv2, TypeInv, NumInTable, ActiveButOne, TellsClosed, OrphanInv,
     ServiceInv, OnAnnounced, Opening, Live, S_STATE_IDLE, S_STATE_ACTIVE,
     S_STATE_IN_CREATION, S_STATE_IN_DELETION, svcVars, sessionVars, locals, told
  <1> QED BY <1>2, <1>3, <1>4, <1>5, <1>6, <1>7, <1>8, <1>9, <1>10, <1>11, <1>12, <1>13,
     <1>14, <1>15, <1>16, <1>17, <1>18, <1>19, <1>20, <1>21, <1>22, <1>23, <1>24,
     <1>25, <1>26, <1>27, <1>28, <1>29, <1>30, <1>31, <1>32
     DEF Next, Transport, Api, Handle

\* When the thread that polls also removes the slots, and the users create no sessions
\* or there is one connection only, NoOrphanSession is an invariant: no session that the
\* CAM or the host opened outlives the report that its connection was closed, or its slot
\* removed.  The hypotheses are those under which the code keeps it: TLC refutes it when
\* another thread removes the slot (run SessionSlotRemoved), and when a user creates
\* sessions on one of several connections:
\* en50221_sl_alloc_new_session marks the session before it sets the connection, and a
\* create response that comes in between is taken for one on the old connection.
THEOREM NoOrphans ==
    Remover = Poller /\ OwnersSettled => (Spec => []NoOrphanSession)
  <1> SUFFICES ASSUME Remover = Poller, OwnersSettled PROVE Spec => []NoOrphanSession
    OBVIOUS
  <1> DEFINE OInv == TypeInv2 /\ ActiveButOne /\ OrphanInv
  <1>1. Init => OInv
    BY InitType, InitTold, InitOrphan
  <1>2. ASSUME OInv, Next PROVE OInv'
    <2>1. phase \in [Pairs -> Phases]
      BY <1>2 DEF TypeInv2, TypeInv
    <2>2. ServiceInv'
      BY <1>2, <2>1, ServiceStep, ServiceKept DEF OrphanInv
    <2>3. UsersFillNothing'
      BY <1>2, UsersStep DEF OrphanInv
    <2> QED BY <1>2, <2>2, <2>3, TypeStep, ActiveStep, AnnouncedStep DEF OrphanInv
  <1>3. OInv /\ UNCHANGED vars => OInv'
    BY DEF TypeInv2, TypeInv, NumInTable, ActiveButOne, TellsOpen, TellsClosed, Opening, Live,
       OrphanInv, ServiceInv, UsersFillNothing, OnAnnounced, vars
  <1>4. OInv => NoOrphanSession
    BY DEF OrphanInv, OnAnnounced, NoOrphanSession, Live
  <1> QED BY <1>1, <1>2, <1>3, <1>4, PTL DEF Spec
=============================================================================
