---------------------------- MODULE StdCamProofs ----------------------------
(***************************************************************************)
(* Proofs about StdCam, for every number of sessions, every set of the     *)
(* resources a CAM may ask for and every bound on the pieces of a menu.    *)
(***************************************************************************)
EXTENDS StdCam, WellFoundedInduction, TLAPS

-----------------------------------------------------------------------------
(* The inductive invariant.                                                *)

\* The program ends in order: the DVB thread is joined, then the CAM thread, and only
\* then is anything freed.
EndsInOrder ==
    /\ main \in {"ui", "answer", "answered", "dvb_stop", "ca_stop", "stdcam"} =>
          alive = {"stdcam", "sl", "tl"}
    /\ main \in {"ca_stop", "stdcam", "sl", "tl", "done"} => dvb = "exit"
    /\ main \in {"stdcam", "sl", "tl", "done"} => cam = "exit"
    /\ main \in {"ui", "answer", "answered", "dvb_stop", "ca_stop", "stdcam", "sl", "tl",
                 "done"}

\* While the main thread has not answered, an open question is one that is owed an
\* answer.
QuestionIsOwed ==
    /\ main = "answer" => owed
    /\ main = "ui" /\ mmi_state \in {"enq", "menu"} => owed

\* A callback is outstanding at these points of the CAM thread.
Asking == cam \in {"opening", "connected"}
Telling == cam \in {"told", "told_next"}

\* Where the CAM thread can go from its loop over the sessions, and what is true there.
CamOrder ==
    /\ after \in {"menu", "removed"}
    /\ pending # 0 <=> Asking \/ Telling
    /\ cam = "opening" => session[pending].state = "creation"
    /\ cam = "connected" => session[pending].state = "active"
    /\ Telling => session[pending].state = "idle"
    /\ \A n \in Numbers : n # pending => session[n].state # "creation"
    /\ cam = "removed" => \A n \in Numbers : session[n].state = "idle"

\* A number that is held is an open session of its resource, or one whose end is
\* being told.
HeldIsKnown ==
    \A r \in Limited : held[r] # -1 =>
        /\ session[held[r]].res = r
        /\ Open(held[r]) \/ (Telling /\ held[r] = pending)
        /\ ~(Asking /\ held[r] = pending)

\* An open MMI session that the stdcam was told of, or is about to be.
Mmi(n) == Open(n) /\ session[n].res = "mmi"

\* The pieces in the chain of a session are those of its current menu and those that
\* earlier sessions have left; without an MMI session there is no current menu.
ChainIsCounted ==
    cam # "exit" =>
        \A n \in Numbers : chain[n] = left[n] + mine[n] /\ (~Mmi(n) => mine[n] = 0)

\* The DVB thread reads the number of the CA session only when there is such a resource.
CaIsKnown == (connected \/ dvb = "pmt") => "ca" \in Limited

IInv ==
    /\ TypeOK
    /\ EndsInOrder
    /\ CamOrder
    /\ HeldIsKnown
    /\ ChainIsCounted
    /\ CaIsKnown
    /\ MenusAreWhole

\* The first free number is a free number.
LEMMA MinIsIn ==
    ASSUME NEW S \in SUBSET Nat, S # {}
    PROVE  Min(S) \in S
  <1>1. PICK x \in S : \A y \in S : ~(<<y, x>> \in OpToRel(<, Nat))
    BY NatLessThanWellFounded, WFMin
  <1>2. \A y \in S : x =< y
    <2> TAKE y \in S
    <2>1. ~(y < x)
      <3> SUFFICES ASSUME y < x PROVE FALSE
        OBVIOUS
      <3>1. <<y, x>> \in {p \in Nat \X Nat : p[1] < p[2]}
        OBVIOUS
      <3>2. OpToRel(<, Nat) = {p \in Nat \X Nat : p[1] < p[2]}
        BY DEF OpToRel
      <3> QED BY <1>1, <3>1, <3>2
    <2> QED BY <2>1
  <1> QED BY <1>2 DEF Min

-----------------------------------------------------------------------------
(* Who changes what.                                                       *)

\* The CAM thread takes no step once it has ended, and leaves the other threads alone.
LEMMA CamThreadFrame ==
    ASSUME CamThread
    PROVE  cam # "exit" /\ UNCHANGED <<opts, dvbstate, mainvars>>
  <1> USE DEF dvbvars, dvbstate, mainvars
  <1>1. CASE en50221_stdcam_llci_poll
    BY <1>1 DEF en50221_stdcam_llci_poll
  <1>2. CASE Removed \/ EnterMenu \/ CamThreadEnds \/ Quiet
    BY <1>2 DEF Removed, EnterMenu, CamThreadEnds, Quiet, Polling
  <1>3. CASE Answer \/ Connected \/ AllClosed \/ Told
    BY <1>3 DEF Answer, Connected, AllClosed, Told
  <1>4. CASE CloseNext
    BY <1>4 DEF CloseNext, Closes
  <1>5. ASSUME NEW r \in Resources, NEW v \in Versions, OpenSession(r, v)
        PROVE  cam # "exit" /\ UNCHANGED <<opts, dvbstate, mainvars>>
    BY <1>5 DEF OpenSession, Polling
  <1>6. ASSUME NEW n \in Numbers, CloseSession(n)
        PROVE  cam # "exit" /\ UNCHANGED <<opts, dvbstate, mainvars>>
    BY <1>6 DEF CloseSession, Closes, Polling
  <1>7. CASE CloseConnection \/ CaInfo \/ MmiObject
    BY <1>7 DEF CloseConnection, CaInfo, MmiObject, Object, Polling
  <1>8. ASSUME NEW n \in Numbers, NEW last \in BOOLEAN, MmiMenu(n, last)
        PROVE  cam # "exit" /\ UNCHANGED <<opts, dvbstate, mainvars>>
    BY <1>8 DEF MmiMenu, Polling
  <1> QED BY <1>1, <1>2, <1>3, <1>4, <1>5, <1>6, <1>7, <1>8 DEF CamThread

\* The DVB thread takes no step once it has ended, and leaves the other threads alone.
LEMMA DvbThreadFrame ==
    ASSUME DvbThread
    PROVE  /\ dvb # "exit"
           /\ UNCHANGED <<opts, slotvars, llcivars, session, held, connected, entered_menu,
                          mmivars, camvars, mainvars>>
  BY DEF DvbThread, NewPat, NoPmtFilter, process_pmt, gnutv_ca_new_pmt,
         en50221_sl_send_datav, SendPmt, PmtDone, DvbThreadEnds, DvbFrame

\* The main thread leaves the others alone; sessions end by it only when the program does.
LEMMA MainThreadFrame ==
    ASSUME MainThread
    PROVE  /\ UNCHANGED <<opts, slotvars, connected, entered_menu, chain, mine, left,
                          shown, camvars, dvbstate>>
           /\ en50221_stdcam_llci_destroy \/ UNCHANGED <<llcivars, session, held>>
  BY DEF MainThread, gnutv_ca_ui, SendAnswer, AnswerSent, QuitApp, DvbStopped, CamStopped,
         en50221_stdcam_llci_destroy, DestroyLayer, MainFrame

-----------------------------------------------------------------------------
(* The end of the program.                                                 *)

LEMMA EndsInOrderStep == EndsInOrder /\ [Next]_vars => EndsInOrder'
  <1> SUFFICES ASSUME EndsInOrder, [Next]_vars PROVE EndsInOrder'
    OBVIOUS
  <1> USE DEF EndsInOrder
  <1>1. CASE UNCHANGED vars \/ SlotChanges \/ AirChanges
    BY <1>1 DEF vars, SlotChanges, AirChanges, camvars, dvbvars, dvbstate, mainvars
  <1>2. CASE CamThread
    BY <1>2, CamThreadFrame DEF dvbvars, dvbstate, mainvars
  <1>3. CASE DvbThread
    BY <1>3, DvbThreadFrame DEF camvars, mainvars
  <1>4. CASE MainThread
    <2>1. UNCHANGED <<cam, dvb>>
      BY <1>4, MainThreadFrame DEF camvars, dvbvars, dvbstate
    <2> QED BY <1>4, <2>1
            DEF MainThread, gnutv_ca_ui, SendAnswer, AnswerSent, QuitApp, DvbStopped,
                gnutv_dvb_stop, CamStopped, en50221_stdcam_llci_destroy, DestroyLayer
  <1> QED BY <1>1, <1>2, <1>3, <1>4 DEF Next

\* gnutv stops its threads before it frees what they use: a CAM thread that runs has the
\* stdcam and both layers, a DVB thread that runs has the stdcam, and the stdcam goes
\* first; whatever the CAM asks for and whenever the user quits.
THEOREM NothingUsedAfterFree == Spec => []FreedIsUnused
  <1>1. Init => EndsInOrder
    BY DEF Init, EndsInOrder
  <1>2. EndsInOrder => FreedIsUnused
    BY DEF EndsInOrder, FreedIsUnused
  <1> QED BY <1>1, <1>2, EndsInOrderStep, PTL DEF Spec

-----------------------------------------------------------------------------
(* Questions and answers.                                                  *)

\* The CAM thread asks only by setting both, and takes nothing back that is owed.
LEMMA CamThreadAsks ==
    ASSUME CamThread
    PROVE  /\ owed => owed'
           /\ UNCHANGED mmi_state \/ mmi_state' \in {"open", "closed"} \/ owed'
  <1> USE DEF mmivars
  <1>1. CASE en50221_stdcam_llci_poll
    BY <1>1 DEF en50221_stdcam_llci_poll
  <1>2. CASE Removed \/ EnterMenu \/ CamThreadEnds \/ Quiet
    BY <1>2 DEF Removed, EnterMenu, CamThreadEnds, Quiet
  <1>3. CASE Answer \/ Connected \/ AllClosed \/ Told
    BY <1>3 DEF Answer, Connected, AllClosed, Told
  <1>4. CASE CloseNext
    BY <1>4 DEF CloseNext, Closes
  <1>5. ASSUME NEW r \in Resources, NEW v \in Versions, OpenSession(r, v)
        PROVE  UNCHANGED <<owed, mmi_state>>
    BY <1>5 DEF OpenSession
  <1>6. ASSUME NEW n \in Numbers, CloseSession(n)
        PROVE  UNCHANGED <<owed, mmi_state>>
    BY <1>6 DEF CloseSession, Closes
  <1>7. CASE CloseConnection \/ CaInfo
    BY <1>7 DEF CloseConnection, CaInfo
  <1>8. ASSUME NEW n \in Numbers, NEW last \in BOOLEAN, MmiMenu(n, last)
        PROVE  (owed => owed') /\ (UNCHANGED mmi_state \/ owed')
    BY <1>8 DEF MmiMenu
  <1>9. CASE MmiObject
    BY <1>9 DEF MmiObject
  <1> QED BY <1>1, <1>2, <1>3, <1>4, <1>5, <1>6, <1>7, <1>8, <1>9 DEF CamThread

LEMMA QuestionStep == QuestionIsOwed /\ [Next]_vars => QuestionIsOwed'
  <1> SUFFICES ASSUME QuestionIsOwed, [Next]_vars PROVE QuestionIsOwed'
    OBVIOUS
  <1> USE DEF QuestionIsOwed
  <1>1. CASE UNCHANGED vars \/ SlotChanges \/ AirChanges
    BY <1>1 DEF vars, SlotChanges, AirChanges, mmivars, mainvars
  <1>2. CASE CamThread
    BY <1>2, CamThreadFrame, CamThreadAsks DEF mainvars
  <1>3. CASE DvbThread
    BY <1>3, DvbThreadFrame DEF mmivars, mainvars
  <1>4. CASE MainThread
    BY <1>4
    DEF MainThread, gnutv_ca_ui, SendAnswer, AnswerSent, Answered, QuitApp, DvbStopped,
        CamStopped, en50221_stdcam_llci_destroy, DestroyLayer
  <1> QED BY <1>1, <1>2, <1>3, <1>4 DEF Next

\* The answer gnutv sends is owed: a question is never answered twice, however the
\* question of the CAM, the line the user types and mmi_state cross.
THEOREM NoAnswerUnasked == Spec => AnsweredOnce
  <1>1. Init => QuestionIsOwed
    BY DEF Init, QuestionIsOwed
  <1>2. QuestionIsOwed /\ [Next]_vars =>
            [main = "answer" /\ main' = "answered" => owed]_vars
    BY DEF QuestionIsOwed
  <1> QED BY <1>1, <1>2, QuestionStep, PTL DEF Spec, AnsweredOnce

-----------------------------------------------------------------------------
(* Sessions and the numbers that are held.                                 *)

table == <<session, held, pending>>
pieces == <<chain, mine, left>>

\* The CAM thread goes on without a change to the sessions.
Walks ==
    /\ cam \in {"poll", "stack", "menu"}
    /\ cam' \in {"poll", "stack", "menu", "closing", "exit"}
    /\ after' \in {after, "removed"}
    /\ UNCHANGED <<table, pieces>>

\* A session of resource r is allocated, with a number n that was free.
Allocates(r, n) ==
    /\ cam = "stack" /\ session[n].state = "idle"
    /\ session' = [session EXCEPT ![n] = [state |-> "creation", res |-> r]]
    /\ pending' = n /\ cam' = "opening"
    /\ UNCHANGED <<held, after, pieces>>

\* A session that is not idle is closed, on its own or with others.
Ends(n) ==
    /\ \/ cam = "stack" /\ cam' = "told"
       \/ cam = "closing" /\ cam' = "told_next"
    /\ session[n].state # "idle"
    /\ Closes(n)
    /\ UNCHANGED after

\* Every step leaves the sessions alone or is one of these.
LEMMA SessionKinds ==
    ASSUME TypeOK, EndsInOrder, [Next]_vars
    PROVE  \/ UNCHANGED <<table, pieces, cam, after>>
           \/ Walks
           \/ Removed \/ Answer \/ Connected \/ AllClosed \/ Told
           \/ \E r \in Resources, n \in Numbers : Allocates(r, n)
           \/ \E n \in Numbers : Ends(n)
           \/ \E n \in Numbers, last \in BOOLEAN : MmiMenu(n, last)
           \/ en50221_stdcam_llci_destroy
  <1> USE DEF table, pieces, mmivars, camvars
  <1>1. CASE UNCHANGED vars \/ SlotChanges \/ AirChanges
    BY <1>1 DEF vars, SlotChanges, AirChanges
  <1>2. CASE DvbThread
    BY <1>2, DvbThreadFrame
  <1>3. CASE MainThread
    BY <1>3, MainThreadFrame
  <1>4. CASE en50221_stdcam_llci_poll
    BY <1>4 DEF en50221_stdcam_llci_poll, SameState, llci_cam_added, llci_cam_in_reset,
                llci_cam_removed, Walks
  <1>5. CASE EnterMenu \/ CamThreadEnds \/ Quiet \/ CloseConnection \/ CaInfo \/ MmiObject
    BY <1>5 DEF EnterMenu, CamThreadEnds, Quiet, CloseConnection, CaInfo, MmiObject,
                Object, Polling, Walks
  <1>6. ASSUME NEW r \in Resources, NEW v \in Versions, OpenSession(r, v)
        PROVE  Walks \/ \E n \in Numbers : Allocates(r, n)
    <2> DEFINE free == {n \in Numbers : session[n].state = "idle"}
    <2> DEFINE n == en50221_sl_alloc_new_session
    <2>1. CASE llci_lookup_callback(r, v) /\ n # 0
      <3>1. free # {} /\ n = Min(free)
        BY <2>1 DEF en50221_sl_alloc_new_session
      <3>2. free \in SUBSET Nat
        BY StdCamAssumption DEF Numbers
      <3>3. n \in free
        BY <3>1, <3>2, MinIsIn
      <3> HIDE DEF n
      <3>4. Allocates(r, n)
        BY <1>6, <2>1, <3>3 DEF OpenSession, Polling, Allocates, n
      <3> QED BY <3>3, <3>4
    <2>2. CASE ~(llci_lookup_callback(r, v) /\ n # 0)
      BY <1>6, <2>2 DEF OpenSession, Polling, Walks
    <2> QED BY <2>1, <2>2
  <1>7. ASSUME NEW n \in Numbers, CloseSession(n) PROVE Ends(n)
    BY <1>7 DEF CloseSession, Polling, Open, Ends
  <1>8. CASE CloseNext
    <2> DEFINE rest == {n \in Numbers : session[n].state # "idle"}
    <2>1. rest # {} /\ rest \in SUBSET Nat
      BY <1>8, StdCamAssumption DEF CloseNext, Numbers
    <2>2. Min(rest) \in rest
      BY <2>1, MinIsIn
    <2>3. Ends(Min(rest))
      BY <1>8, <2>2 DEF CloseNext, Ends
    <2> QED BY <2>2, <2>3
  <1> QED
    BY <1>1, <1>2, <1>3, <1>4, <1>5, <1>6, <1>7, <1>8 DEF Next, CamThread

\* What TypeOK says of the sessions and the pieces.
TableType ==
    /\ session \in [Numbers -> [state : {"idle", "creation", "active"},
                                res : Resources \cup {"none"}]]
    /\ held \in [Limited -> Numbers \cup {-1}]
    /\ cam \in {"poll", "closing", "told", "told_next", "removed", "stack", "opening",
                "connected", "menu", "exit"}
    /\ pending \in Numbers \cup {0}

\* -1 and 0 are no session numbers, and "none" is no resource.
LEMMA NotNumbers ==
    /\ 0 \notin Numbers /\ -1 \notin Numbers /\ Numbers \subseteq Nat
    /\ "none" \notin Resources /\ Limited \subseteq Resources
  BY StdCamAssumption DEF Numbers, Limited

\* A callback stays outstanding where one is, and the loop over the sessions ends with
\* none open.
LEMMA CamOrderStep ==
    ASSUME IInv, [Next]_vars
    PROVE  CamOrder'
  <1> USE DEF IInv, TypeOK, CamOrder, Asking, Telling
  <1> USE NotNumbers
  <1>1. CASE UNCHANGED <<table, pieces, cam, after>>
    BY <1>1 DEF table, pieces
  <1>2. CASE Walks
    BY <1>2 DEF Walks, table, pieces
  <1>3. CASE Removed
    BY <1>3 DEF Removed, mmivars
  <1>4. CASE Answer
    BY <1>4 DEF Answer, mmivars, Idle
  <1>5. CASE Connected
    BY <1>5 DEF Connected, llci_session_callback, mmivars
  <1>6. CASE AllClosed
    BY <1>6 DEF AllClosed, mmivars
  <1>7. CASE Told
    BY <1>7 DEF Told, llci_session_callback, mmivars, Idle
  <1>8. ASSUME NEW r \in Resources, NEW n \in Numbers, Allocates(r, n)
        PROVE  CamOrder'
    BY <1>8 DEF Allocates, pieces
  <1>9. ASSUME NEW n \in Numbers, Ends(n) PROVE CamOrder'
    BY <1>9 DEF Ends, Closes
  <1>10. ASSUME NEW n \in Numbers, NEW last \in BOOLEAN, MmiMenu(n, last)
         PROVE  CamOrder'
    BY <1>10 DEF MmiMenu, Polling, en50221_app_mmi_defragment
  <1>11. CASE en50221_stdcam_llci_destroy
    BY <1>11 DEF en50221_stdcam_llci_destroy, MainFrame, camvars, EndsInOrder, Idle
  <1> QED
    BY <1>1, <1>2, <1>3, <1>4, <1>5, <1>6, <1>7, <1>8, <1>9, <1>10, <1>11, SessionKinds

\* The table of sessions keeps its type.
LEMMA TableTypeStep ==
    ASSUME IInv, [Next]_vars
    PROVE  TableType'
  <1> USE DEF IInv, TypeOK, TableType, CamOrder, Asking, Telling
  <1> USE NotNumbers
  <1>1. CASE UNCHANGED <<table, pieces, cam, after>>
    BY <1>1 DEF table, pieces
  <1>2. CASE Walks
    BY <1>2 DEF Walks, table, pieces
  <1>3. CASE Removed
    BY <1>3 DEF Removed, mmivars
  <1>4. CASE Answer
    BY <1>4 DEF Answer, mmivars, Idle
  <1>5. CASE Connected
    BY <1>5 DEF Connected, llci_session_callback, mmivars
  <1>6. CASE AllClosed
    BY <1>6 DEF AllClosed, mmivars
  <1>7. CASE Told
    BY <1>7 DEF Told, llci_session_callback, mmivars, Idle
  <1>8. ASSUME NEW r \in Resources, NEW n \in Numbers, Allocates(r, n)
        PROVE  TableType'
    BY <1>8 DEF Allocates, pieces
  <1>9. ASSUME NEW n \in Numbers, Ends(n) PROVE TableType'
    BY <1>9 DEF Ends, Closes
  <1>10. ASSUME NEW n \in Numbers, NEW last \in BOOLEAN, MmiMenu(n, last)
         PROVE  TableType'
    BY <1>10 DEF MmiMenu, Polling, en50221_app_mmi_defragment
  <1>11. CASE en50221_stdcam_llci_destroy
    BY <1>11 DEF en50221_stdcam_llci_destroy, MainFrame, camvars, EndsInOrder, Idle
  <1> QED
    BY <1>1, <1>2, <1>3, <1>4, <1>5, <1>6, <1>7, <1>8, <1>9, <1>10, <1>11, SessionKinds

\* What is held stays known.
LEMMA HeldIsKnownStep ==
    ASSUME IInv, [Next]_vars
    PROVE  HeldIsKnown'
  <1> USE DEF IInv, TypeOK, CamOrder, Asking, Telling, HeldIsKnown, Open
  <1> USE NotNumbers
  <1>1. CASE UNCHANGED <<table, pieces, cam, after>>
    BY <1>1 DEF table, pieces
  <1>2. CASE Walks
    BY <1>2 DEF Walks, table, pieces
  <1>3. CASE Removed
    BY <1>3 DEF Removed, mmivars
  <1>4. CASE Answer
    BY <1>4 DEF Answer, mmivars, Idle
  <1>5. CASE Connected
    BY <1>5 DEF Connected, llci_session_callback, mmivars
  <1>6. CASE AllClosed
    BY <1>6 DEF AllClosed, mmivars
  <1>7. CASE Told
    BY <1>7 DEF Told, llci_session_callback, mmivars, Idle
  <1>8. ASSUME NEW r \in Resources, NEW n \in Numbers, Allocates(r, n)
        PROVE  HeldIsKnown'
    BY <1>8 DEF Allocates, pieces
  <1>9. ASSUME NEW n \in Numbers, Ends(n) PROVE HeldIsKnown'
    BY <1>9 DEF Ends, Closes
  <1>10. ASSUME NEW n \in Numbers, NEW last \in BOOLEAN, MmiMenu(n, last)
         PROVE  HeldIsKnown'
    BY <1>10 DEF MmiMenu, Polling, en50221_app_mmi_defragment
  <1>11. CASE en50221_stdcam_llci_destroy
    BY <1>11 DEF en50221_stdcam_llci_destroy, MainFrame, camvars, EndsInOrder, Idle
  <1> QED
    BY <1>1, <1>2, <1>3, <1>4, <1>5, <1>6, <1>7, <1>8, <1>9, <1>10, <1>11, SessionKinds

\* What the count says of one session.
LEMMA Counted ==
    ASSUME IInv, cam # "exit", NEW n \in Numbers
    PROVE  /\ chain[n] = left[n] + mine[n]
           /\ ~Mmi(n) => mine[n] = 0
           /\ chain[n] \in 0 .. MaxPieces /\ left[n] \in 0 .. MaxPieces
           /\ mine[n] \in 0 .. MaxPieces
  <1>1. chain[n] = left[n] + mine[n] /\ (~Mmi(n) => mine[n] = 0)
    BY DEF IInv, ChainIsCounted
  <1>2. /\ chain[n] \in 0 .. MaxPieces /\ left[n] \in 0 .. MaxPieces
        /\ mine[n] \in 0 .. MaxPieces
    BY DEF IInv, TypeOK
  <1> QED BY <1>1, <1>2

\* The pieces stay counted.
LEMMA ChainIsCountedStep ==
    ASSUME IInv, [Next]_vars
    PROVE  ChainIsCounted'
  <1> USE DEF IInv, TypeOK, CamOrder, Asking, Telling, Open, Mmi, ChainIsCounted
  <1> USE NotNumbers
  <1>1. CASE UNCHANGED <<table, pieces, cam, after>>
    BY <1>1 DEF table, pieces
  <1>2. CASE Walks
    BY <1>2 DEF Walks, table, pieces
  <1>3. CASE Removed
    BY <1>3 DEF Removed, mmivars
  <1>4. CASE Answer
    <2>1. /\ cam = "opening" /\ pending \in Numbers /\ session[pending].state = "creation"
          /\ UNCHANGED pieces
      BY <1>4 DEF Answer, mmivars, pieces
    <2>2. \A n \in Numbers : ~Mmi(n)' => ~Mmi(n)
      BY <1>4, <2>1 DEF Answer, Idle
    <2> QED BY <2>1, <2>2 DEF pieces
  <1>5. CASE Connected
    BY <1>5 DEF Connected, llci_session_callback, mmivars
  <1>6. CASE AllClosed
    BY <1>6 DEF AllClosed, mmivars
  <1>7. CASE Told
    BY <1>7 DEF Told, llci_session_callback, mmivars, Idle
  <1>8. ASSUME NEW r \in Resources, NEW n \in Numbers, Allocates(r, n)
        PROVE  ChainIsCounted'
    BY <1>8 DEF Allocates, pieces
  <1>9. ASSUME NEW n \in Numbers, Ends(n) PROVE ChainIsCounted'
    <2>1. /\ cam # "exit" /\ session' = [session EXCEPT ![n].state = "idle"]
          /\ chain' = chain
          /\ left' = IF session[n].res = "mmi" THEN [left EXCEPT ![n] = chain[n]] ELSE left
          /\ mine' = [mine EXCEPT ![n] = 0]
      BY <1>9 DEF Ends, Closes
    <2>2. /\ chain \in [Numbers -> 0 .. MaxPieces] /\ left \in [Numbers -> 0 .. MaxPieces]
          /\ mine \in [Numbers -> 0 .. MaxPieces]
      OBVIOUS
    <2>3. ASSUME NEW m \in Numbers, m # n
          PROVE  chain'[m] = left'[m] + mine'[m] /\ (~Mmi(m)' => mine'[m] = 0)
      <3>1. Mmi(m)' <=> Mmi(m)
        BY <2>1, <2>3
      <3>2. chain'[m] = chain[m] /\ left'[m] = left[m] /\ mine'[m] = mine[m]
        BY <2>1, <2>2, <2>3
      <3> HIDE DEF Mmi, IInv
      <3> QED BY <2>1, <3>1, <3>2, Counted
    <2>4. chain'[n] = left'[n] + mine'[n] /\ mine'[n] = 0
      <3>1. mine'[n] = 0
        BY <2>1, <2>2
      <3>2. CASE session[n].res = "mmi"
        <4>1. left'[n] = chain[n] /\ chain[n] \in Int
          BY <2>1, <2>2, <3>2
        <4> QED BY <2>1, <3>1, <4>1
      <3>3. CASE session[n].res # "mmi"
        <4>1. ~Mmi(n)
          BY <3>3
        <4>2. left'[n] = left[n]
          BY <2>1, <3>3
        <4> HIDE DEF Mmi, IInv
        <4> QED BY <2>1, <3>1, <4>1, <4>2, Counted
      <3> QED BY <3>2, <3>3
    <2> HIDE DEF Mmi, IInv, TypeOK, CamOrder
    <2> QED BY <2>3, <2>4
  <1>10. ASSUME NEW n \in Numbers, NEW last \in BOOLEAN, MmiMenu(n, last)
         PROVE  ChainIsCounted'
    <2>1. /\ cam = "stack" /\ Mmi(n) /\ session' = session
          /\ chain' = [chain EXCEPT ![n] = IF last THEN 0 ELSE @ + 1]
          /\ left' = IF last THEN [left EXCEPT ![n] = 0] ELSE left
          /\ mine' = [mine EXCEPT ![n] = IF last THEN 0 ELSE @ + 1]
      BY <1>10 DEF MmiMenu, Polling, en50221_app_mmi_defragment
    <2>2. /\ chain \in [Numbers -> 0 .. MaxPieces] /\ left \in [Numbers -> 0 .. MaxPieces]
          /\ mine \in [Numbers -> 0 .. MaxPieces]
      OBVIOUS
    <2>3. \A m \in Numbers : Mmi(m)' <=> Mmi(m)
      BY <2>1
    <2> HIDE DEF Mmi, IInv, TypeOK, CamOrder
    <2>4. ASSUME NEW m \in Numbers, m # n
          PROVE  chain'[m] = left'[m] + mine'[m] /\ (~Mmi(m)' => mine'[m] = 0)
      <3>1. chain'[m] = chain[m] /\ left'[m] = left[m] /\ mine'[m] = mine[m]
        BY <2>1, <2>2, <2>4
      <3> QED BY <2>1, <2>3, <3>1, Counted
    <2>5. chain'[n] = left'[n] + mine'[n]
      <3>1. /\ chain[n] = left[n] + mine[n]
            /\ chain[n] \in Int /\ left[n] \in Int /\ mine[n] \in Int
        BY <2>1, <2>2, Counted
      <3>2. chain'[n] = IF last THEN 0 ELSE chain[n] + 1
        BY <2>1, <2>2
      <3>3. left'[n] = IF last THEN 0 ELSE left[n]
        BY <2>1, <2>2
      <3>4. mine'[n] = IF last THEN 0 ELSE mine[n] + 1
        BY <2>1, <2>2
      <3> QED BY <3>1, <3>2, <3>3, <3>4
    <2> QED BY <2>1, <2>3, <2>4, <2>5
  <1>11. CASE en50221_stdcam_llci_destroy
    BY <1>11 DEF en50221_stdcam_llci_destroy, MainFrame, camvars, EndsInOrder, Idle
  <1> QED
    BY <1>1, <1>2, <1>3, <1>4, <1>5, <1>6, <1>7, <1>8, <1>9, <1>10, <1>11, SessionKinds

-----------------------------------------------------------------------------
(* Type correctness.                                                       *)

PiecesType ==
    /\ chain \in [Numbers -> 0 .. MaxPieces] /\ left \in [Numbers -> 0 .. MaxPieces]
    /\ mine \in [Numbers -> 0 .. MaxPieces]

\* No menu grows past the bound: the pieces of the current menu are in the chain.
LEMMA PiecesTypeStep ==
    ASSUME IInv, [Next]_vars
    PROVE  PiecesType'
  <1> USE DEF IInv, TypeOK, PiecesType
  <1> USE StdCamAssumption
  <1>1. CASE UNCHANGED <<table, pieces, cam, after>>
    BY <1>1 DEF table, pieces
  <1>2. CASE Walks
    BY <1>2 DEF Walks, table, pieces
  <1>3. CASE Removed
    BY <1>3 DEF Removed, mmivars
  <1>4. CASE Answer
    BY <1>4 DEF Answer, mmivars, Idle
  <1>5. CASE Connected
    BY <1>5 DEF Connected, llci_session_callback, mmivars
  <1>6. CASE AllClosed
    BY <1>6 DEF AllClosed, mmivars
  <1>7. CASE Told
    BY <1>7 DEF Told, llci_session_callback, mmivars, Idle
  <1>8. ASSUME NEW r \in Resources, NEW n \in Numbers, Allocates(r, n)
        PROVE  PiecesType'
    BY <1>8 DEF Allocates, pieces
  <1>9. ASSUME NEW n \in Numbers, Ends(n) PROVE PiecesType'
    BY <1>9 DEF Ends, Closes
  <1>10. ASSUME NEW n \in Numbers, NEW last \in BOOLEAN, MmiMenu(n, last)
         PROVE  PiecesType'
    <2>1. CASE last
      BY <1>10, <2>1 DEF MmiMenu, en50221_app_mmi_defragment
    <2>2. CASE ~last
      <3>1. cam = "stack" /\ Mmi(n) /\ chain[n] < MaxPieces
        BY <1>10, <2>2 DEF MmiMenu, Polling, Mmi
      <3>2. /\ chain[n] = left[n] + mine[n] /\ chain[n] \in 0 .. MaxPieces
            /\ left[n] \in 0 .. MaxPieces /\ mine[n] \in 0 .. MaxPieces
        BY <3>1, Counted
      <3>3. mine[n] + 1 \in 0 .. MaxPieces /\ chain[n] + 1 \in 0 .. MaxPieces
        <4> HIDE DEF IInv, TypeOK
        <4> QED BY <3>1, <3>2
      <3> QED BY <1>10, <2>2, <3>3 DEF MmiMenu, en50221_app_mmi_defragment
    <2> QED BY <2>1, <2>2
  <1>11. CASE en50221_stdcam_llci_destroy
    BY <1>11 DEF en50221_stdcam_llci_destroy, MainFrame, camvars, EndsInOrder, Idle
  <1> QED
    BY <1>1, <1>2, <1>3, <1>4, <1>5, <1>6, <1>7, <1>8, <1>9, <1>10, <1>11, SessionKinds

SlotType ==
    /\ opts \in Options
    /\ slot \in {"missing", "reset", "ready"} /\ camconn \in BOOLEAN
    /\ llci \in {"none", "inreset", "ok", "bad"}
    /\ tl_slot_id \in {-1, 0} /\ registered \in BOOLEAN /\ tc \in BOOLEAN
    /\ llci = "none" => tl_slot_id = -1
    /\ llci = "ok" => tl_slot_id = 0

FlagType ==
    /\ connected \in BOOLEAN /\ entered_menu \in BOOLEAN
    /\ owed \in BOOLEAN /\ astray \in BOOLEAN
    /\ mmi_state \in {"closed", "open", "enq", "menu"}

ThreadType ==
    /\ dvb \in {"loop", "pmt", "send", "write", "exit"}
    /\ number \in Numbers \cup {-1}
    /\ main \in {"ui", "answer", "answered", "dvb_stop", "ca_stop", "stdcam", "sl", "tl",
                 "done"}
    /\ shutdown \subseteq {"cam", "dvb"}
    /\ alive \subseteq {"stdcam", "sl", "tl"}

\* TypeOK, part by part.
LEMMA TypeParts ==
    TypeOK <=> SlotType /\ TableType /\ PiecesType /\ FlagType /\ ThreadType
  BY DEF TypeOK, SlotType, TableType, PiecesType, FlagType, ThreadType

\* The steps of the CAM thread that touch neither the slot nor gnutv's flags.
LEMMA CamThreadSlot ==
    ASSUME CamThread
    PROVE  \/ UNCHANGED <<slot, camconn, llci, tl_slot_id, registered, tc>>
           \/ en50221_stdcam_llci_poll \/ Removed \/ CloseConnection
  <1> USE DEF slotvars, llcivars
  <1>1. CASE EnterMenu \/ CamThreadEnds \/ Quiet
    BY <1>1 DEF EnterMenu, CamThreadEnds, Quiet
  <1>2. CASE Answer \/ Connected \/ AllClosed \/ Told
    BY <1>2 DEF Answer, Connected, AllClosed, Told
  <1>3. ASSUME NEW r \in Resources, NEW v \in Versions, OpenSession(r, v)
        PROVE  UNCHANGED <<slot, camconn, llci, tl_slot_id, registered, tc>>
    BY <1>3 DEF OpenSession
  <1>4. ASSUME NEW n, Closes(n)
        PROVE  UNCHANGED <<slot, camconn, llci, tl_slot_id, registered, tc>>
    BY <1>4 DEF Closes
  <1>5. CASE CaInfo \/ MmiObject
    BY <1>5 DEF CaInfo, MmiObject
  <1>6. ASSUME NEW n \in Numbers, NEW last \in BOOLEAN, MmiMenu(n, last)
        PROVE  UNCHANGED <<slot, camconn, llci, tl_slot_id, registered, tc>>
    BY <1>6 DEF MmiMenu
  <1> QED BY <1>1, <1>2, <1>3, <1>4, <1>5, <1>6 DEF CamThread, CloseNext, CloseSession

LEMMA CamThreadFlags ==
    ASSUME CamThread
    PROVE  \/ UNCHANGED <<connected, entered_menu, owed, mmi_state>>
           \/ EnterMenu \/ CaInfo \/ MmiObject
           \/ \E n \in Numbers, last \in BOOLEAN : MmiMenu(n, last)
  <1> USE DEF mmivars
  <1>1. CASE en50221_stdcam_llci_poll \/ Removed \/ CamThreadEnds \/ Quiet \/ CloseConnection
    BY <1>1 DEF en50221_stdcam_llci_poll, Removed, CamThreadEnds, Quiet, CloseConnection
  <1>2. CASE Answer \/ Connected \/ AllClosed \/ Told
    BY <1>2 DEF Answer, Connected, AllClosed, Told
  <1>3. ASSUME NEW r \in Resources, NEW v \in Versions, OpenSession(r, v)
        PROVE  UNCHANGED <<connected, entered_menu, owed, mmi_state>>
    BY <1>3 DEF OpenSession
  <1>4. ASSUME NEW n, Closes(n)
        PROVE  UNCHANGED <<connected, entered_menu, owed, mmi_state>>
    BY <1>4 DEF Closes
  <1> QED BY <1>1, <1>2, <1>3, <1>4 DEF CamThread, CloseNext, CloseSession

LEMMA SlotTypeStep == ASSUME TypeOK, [Next]_vars PROVE SlotType'
  <1>0. SlotType
    BY TypeParts
  <1> USE <1>0 DEF SlotType
  <1>1. CASE UNCHANGED vars \/ SlotChanges \/ AirChanges
    BY <1>1 DEF vars, SlotChanges, AirChanges, slotvars, llcivars
  <1>2. CASE CamThread
    <2>1. opts' = opts
      BY <1>2, CamThreadFrame
    <2>2. CASE en50221_stdcam_llci_poll
      BY <2>1, <2>2 DEF en50221_stdcam_llci_poll, SameState, llci_cam_added,
                        llci_cam_in_reset, llci_cam_removed, slotvars, llcivars
    <2>3. CASE Removed \/ CloseConnection
      BY <2>1, <2>3 DEF Removed, CloseConnection, slotvars, llcivars
    <2> QED BY <1>2, <2>1, <2>2, <2>3, CamThreadSlot
  <1>3. CASE DvbThread
    BY <1>3, DvbThreadFrame DEF slotvars, llcivars
  <1>4. CASE MainThread
    BY <1>4, MainThreadFrame DEF slotvars, llcivars, en50221_stdcam_llci_destroy
  <1> QED BY <1>1, <1>2, <1>3, <1>4 DEF Next

LEMMA FlagTypeStep == ASSUME TypeOK, [Next]_vars PROVE FlagType'
  <1> USE DEF TypeOK, FlagType
  <1>1. CASE UNCHANGED vars \/ SlotChanges \/ AirChanges
    BY <1>1 DEF vars, SlotChanges, AirChanges, mmivars, dvbvars, dvbstate
  <1>2. CASE CamThread
    <2>1. astray' = astray
      BY <1>2, CamThreadFrame DEF dvbvars, dvbstate
    <2>2. CASE EnterMenu \/ CaInfo \/ MmiObject
      BY <2>1, <2>2 DEF EnterMenu, CaInfo, MmiObject, mmivars
    <2>3. ASSUME NEW n \in Numbers, NEW last \in BOOLEAN, MmiMenu(n, last)
          PROVE  FlagType'
      BY <2>1, <2>3 DEF MmiMenu
    <2> QED BY <1>2, <2>1, <2>2, <2>3, CamThreadFlags
  <1>3. CASE DvbThread
    <2>1. astray' \in BOOLEAN
      BY <1>3 DEF DvbThread, NewPat, NoPmtFilter, process_pmt, gnutv_ca_new_pmt,
                  en50221_sl_send_datav, SendPmt, PmtDone, DvbThreadEnds
    <2> QED BY <1>3, <2>1, DvbThreadFrame DEF mmivars
  <1>4. CASE MainThread
    <2>1. owed' \in BOOLEAN /\ mmi_state' \in {"closed", "open", "enq", "menu"}
      BY <1>4 DEF MainThread, gnutv_ca_ui, SendAnswer, AnswerSent, Answered, QuitApp,
                  DvbStopped, CamStopped, en50221_stdcam_llci_destroy, DestroyLayer
    <2> QED BY <1>4, <2>1, MainThreadFrame DEF dvbvars, dvbstate
  <1> QED BY <1>1, <1>2, <1>3, <1>4 DEF Next

\* connected is set by an object on a CA session, so there is a CA resource.
LEMMA CaIsKnownStep == ASSUME TypeOK, CaIsKnown, [Next]_vars PROVE CaIsKnown'
  <1> USE DEF CaIsKnown
  <1>1. CASE UNCHANGED vars \/ SlotChanges \/ AirChanges
    BY <1>1 DEF vars, SlotChanges, AirChanges, dvbvars, dvbstate
  <1>2. CASE CamThread
    <2>1. dvb' = dvb
      BY <1>2, CamThreadFrame DEF dvbvars, dvbstate
    <2>2. CASE CaInfo
      BY <2>2, StdCamAssumption DEF CaInfo, Object, TypeOK, Limited
    <2>3. CASE EnterMenu \/ MmiObject
      BY <2>1, <2>3 DEF EnterMenu, MmiObject
    <2>4. ASSUME NEW n \in Numbers, NEW last \in BOOLEAN, MmiMenu(n, last)
          PROVE  connected' = connected
      BY <2>4 DEF MmiMenu
    <2> QED BY <1>2, <2>1, <2>2, <2>3, <2>4, CamThreadFlags
  <1>3. CASE DvbThread
    BY <1>3, DvbThreadFrame
    DEF DvbThread, NewPat, NoPmtFilter, process_pmt, gnutv_ca_new_pmt,
        en50221_sl_send_datav, SendPmt, PmtDone, DvbThreadEnds
  <1>4. CASE MainThread
    BY <1>4, MainThreadFrame DEF dvbvars, dvbstate
  <1> QED BY <1>1, <1>2, <1>3, <1>4 DEF Next

LEMMA ThreadTypeStep == ASSUME TypeOK, CaIsKnown, [Next]_vars PROVE ThreadType'
  <1> USE DEF TypeOK, ThreadType
  <1>1. CASE UNCHANGED vars \/ SlotChanges \/ AirChanges
    BY <1>1 DEF vars, SlotChanges, AirChanges, dvbvars, dvbstate, mainvars
  <1>2. CASE CamThread
    BY <1>2, CamThreadFrame DEF dvbvars, dvbstate, mainvars
  <1>3. CASE DvbThread
    <2>1. UNCHANGED <<main, shutdown, alive>>
      BY <1>3, DvbThreadFrame DEF mainvars
    <2>2. CASE gnutv_ca_new_pmt
      BY <2>1, <2>2 DEF gnutv_ca_new_pmt, CaIsKnown
    <2>3. CASE \/ NewPat \/ NoPmtFilter \/ process_pmt \/ en50221_sl_send_datav \/ SendPmt
               \/ DvbThreadEnds
      BY <2>1, <2>3 DEF NewPat, NoPmtFilter, process_pmt, en50221_sl_send_datav, SendPmt,
                        PmtDone, DvbThreadEnds
    <2> QED BY <1>3, <2>2, <2>3 DEF DvbThread
  <1>4. CASE MainThread
    <2>1. UNCHANGED <<dvb, number>>
      BY <1>4, MainThreadFrame DEF dvbvars, dvbstate
    <2> QED BY <1>4, <2>1
            DEF MainThread, gnutv_ca_ui, SendAnswer, AnswerSent, QuitApp, DvbStopped,
                CamStopped, en50221_stdcam_llci_destroy, DestroyLayer
  <1> QED BY <1>1, <1>2, <1>3, <1>4 DEF Next

-----------------------------------------------------------------------------
(* Menus.                                                                  *)

\* A menu is handed on only by its last piece, with what the chain holds.
LEMMA MenusStep == ASSUME IInv, [Next]_vars PROVE MenusAreWhole'
  <1>1. CASE UNCHANGED shown
    BY <1>1 DEF IInv, MenusAreWhole
  <1>2. CASE EnterMenu
    BY <1>2 DEF EnterMenu, NoMenu, MenusAreWhole
  <1>3. ASSUME NEW n \in Numbers, NEW last \in BOOLEAN, MmiMenu(n, last)
        PROVE  MenusAreWhole'
    <2>1. CASE last
      <3>1. cam = "stack" /\ Mmi(n)
        BY <1>3 DEF MmiMenu, Polling, Mmi
      <3>2. /\ chain[n] = left[n] + mine[n]
            /\ chain[n] \in Int /\ left[n] \in Int /\ mine[n] \in Int
        BY <3>1, Counted
      <3>3. shown' = [got |-> chain[n] + 1, sent |-> mine[n] + 1, left |-> left[n]]
        BY <1>3, <2>1 DEF MmiMenu, en50221_app_mmi_defragment
      <3> QED BY <3>2, <3>3 DEF MenusAreWhole
    <2>2. CASE ~last
      BY <1>1, <1>3, <2>2 DEF MmiMenu, en50221_app_mmi_defragment
    <2> QED BY <2>1, <2>2
  <1>4. CASE CamThread
    <2> USE DEF mmivars
    <2>1. CASE en50221_stdcam_llci_poll \/ Removed \/ CamThreadEnds \/ Quiet
      BY <1>1, <2>1 DEF en50221_stdcam_llci_poll, Removed, CamThreadEnds, Quiet
    <2>2. CASE Answer \/ Connected \/ AllClosed \/ Told
      BY <1>1, <2>2 DEF Answer, Connected, AllClosed, Told
    <2>3. ASSUME NEW r \in Resources, NEW v \in Versions, OpenSession(r, v)
          PROVE  UNCHANGED shown
      BY <2>3 DEF OpenSession
    <2>4. ASSUME NEW n, Closes(n) PROVE UNCHANGED shown
      BY <2>4 DEF Closes
    <2>5. CASE CloseConnection \/ CaInfo \/ MmiObject
      BY <1>1, <2>5 DEF CloseConnection, CaInfo, MmiObject
    <2> QED BY <1>1, <1>2, <1>3, <1>4, <2>1, <2>2, <2>3, <2>4, <2>5
            DEF CamThread, CloseNext, CloseSession
  <1>5. CASE UNCHANGED vars \/ SlotChanges \/ AirChanges
    BY <1>1, <1>5 DEF vars, SlotChanges, AirChanges, mmivars
  <1>6. CASE DvbThread
    BY <1>1, <1>6, DvbThreadFrame DEF mmivars
  <1>7. CASE MainThread
    BY <1>1, <1>7, MainThreadFrame
  <1> QED BY <1>4, <1>5, <1>6, <1>7 DEF Next

-----------------------------------------------------------------------------
(* The invariant, and what follows from it.                                *)

LEMMA InitInvariant == Init => IInv
  <1> SUFFICES ASSUME Init PROVE IInv
    OBVIOUS
  <1> USE NotNumbers, StdCamAssumption DEF Init
  <1>1. TypeOK
    <2>1. SlotType
      BY DEF SlotType
    <2>2. TableType /\ PiecesType
      BY DEF TableType, PiecesType, Idle
    <2>3. FlagType /\ ThreadType
      BY DEF FlagType, ThreadType
    <2> QED BY <2>1, <2>2, <2>3, TypeParts
  <1>2. EndsInOrder /\ CamOrder
    BY DEF EndsInOrder, CamOrder, Asking, Telling, Idle
  <1>3. HeldIsKnown
    BY DEF HeldIsKnown, Idle
  <1>4. ChainIsCounted
    BY DEF ChainIsCounted, Mmi, Open, Idle
  <1>5. CaIsKnown /\ MenusAreWhole
    BY DEF CaIsKnown, MenusAreWhole, NoMenu
  <1> QED BY <1>1, <1>2, <1>3, <1>4, <1>5 DEF IInv

LEMMA NextInvariant == IInv /\ [Next]_vars => IInv'
  <1> SUFFICES ASSUME IInv, [Next]_vars PROVE IInv'
    OBVIOUS
  <1>1. TypeOK /\ EndsInOrder /\ CaIsKnown
    BY DEF IInv
  <1>2. SlotType' /\ TableType' /\ PiecesType' /\ FlagType' /\ ThreadType'
    BY <1>1, SlotTypeStep, TableTypeStep, PiecesTypeStep, FlagTypeStep, ThreadTypeStep
  <1>3. TypeOK'
    BY <1>2 DEF TypeOK, SlotType, TableType, PiecesType, FlagType, ThreadType
  <1>4. EndsInOrder' /\ CaIsKnown' /\ MenusAreWhole'
    BY <1>1, EndsInOrderStep, CaIsKnownStep, MenusStep
  <1>5. CamOrder' /\ HeldIsKnown' /\ ChainIsCounted'
    BY CamOrderStep, HeldIsKnownStep, ChainIsCountedStep
  <1> QED BY <1>3, <1>4, <1>5 DEF IInv

\* IInv is an invariant, whatever sessions the CAM asks for.
THEOREM InductiveInvariant == Spec => []IInv
  BY InitInvariant, NextInvariant, PTL DEF Spec

\* The state of the CAM, the stdcam and gnutv's threads has its type; no menu outgrows
\* its chain.
THEOREM TypeCorrect == Spec => []TypeOK
  BY InductiveInvariant, PTL DEF IInv

\* A session number the stdcam keeps is that of an open session of its resource, but for
\* the step between a change of the table and the callback that tells of it, whichever
\* versions of the resources the CAM asks for and also where it gets several sessions of
\* one: llci_session_callback() never leaves a number behind that is closed or was given
\* to another resource.
THEOREM NumbersAgree == Spec => []HeldIsOpen
  <1>1. IInv => HeldIsOpen
    BY NotNumbers DEF IInv, TypeOK, HeldIsKnown, HeldIsOpen
  <1> QED BY <1>1, InductiveInvariant, PTL

\* en50221_app_mmi_defragment() hands on the pieces of one menu, also with several MMI
\* sessions, unless an earlier session with that number was closed in the middle of a menu.
THEOREM WholeMenus == Spec => []MenusAreWhole
  BY InductiveInvariant, PTL DEF IInv
=============================================================================
