------------------------------- MODULE Session -------------------------------
(***************************************************************************)
(* The EN 50221 session layer, lib/libdvben50221/en50221_session.c, over   *)
(* the connection service TcService that the transport layer implements.   *)
(*                                                                         *)
(* The poll thread runs the session layer's transport callback; other      *)
(* threads call its API.  Unlike the transport layer's, the functions of   *)
(* the session layer let go of the session's lock before they call down or *)
(* up, so each is a sequence of actions, and a thread's locals (the         *)
(* session number, the connection) may be stale when it goes on.           *)
(*                                                                         *)
(* Resource ids and data are left out: sending data and receiving APDUs    *)
(* change no session.                                                      *)
(***************************************************************************)
EXTENDS TcService

CONSTANTS
    MaxSessions,    \* sl->max_sessions
    Poller,         \* the thread that calls en50221_tl_poll
    Users,          \* the threads that call the session layer's API
    HostConns,      \* the connections on which the users create sessions
    Remover         \* the thread that calls en50221_tl_destroy_slot

ASSUME SessionAssumption ==
    /\ MaxSessions \in Nat \ {0}
    /\ Poller \notin Users
    /\ Remover \in Users \cup {Poller}
    /\ Slots # {} /\ Conns # {}
    /\ HostConns \subseteq Slots \X Conns

Sessions == 0 .. MaxSessions - 1
Threads == Users \cup {Poller}
NoThread == "none"
Pairs == Slots \X Conns

S_STATE_IDLE == "IDLE"
S_STATE_ACTIVE == "ACTIVE"
S_STATE_IN_CREATION == "IN_CREATION"
S_STATE_IN_DELETION == "IN_DELETION"

SessionStates == {S_STATE_IDLE, S_STATE_ACTIVE, S_STATE_IN_CREATION, S_STATE_IN_DELETION}

VARIABLES
    state,      \* sessions[n].state
    owner,      \* sessions[n].slot_id and connection_id
    lock,       \* the holder of sl->global_lock
    pc,         \* where each thread is
    num,        \* session number in each thread's hands
    on,         \* slot and connection in each thread's hands
    upper,      \* history: sessions the upper layer was told are open
    ended       \* history: sessions en50221_sl_destroy_session was called for

locals == <<pc, num, on>>
sessionVars == <<state, owner>>
svcVars == <<up, phase, announced>>
told == <<upper, ended>>
vars == <<up, phase, announced, state, owner, lock, pc, num, on, upper, ended>>

Steps == {"idle", "create_fill", "create_send", "create_undo", "destroy_send",
          "destroy_undo", "open_fill", "open_ask", "open_send", "open_refuse",
          "open_done", "open_look", "open_tell", "close_tell", "connected_tell",
          "conn_scan", "conn_tell", "slot_scan", "slot_tell"}

\* The fields of the sessions and the locals of every thread have their types: the
\* loops of en50221_sl_transport_callback stay inside sl->sessions.
TypeInv ==
    /\ up \in SUBSET Slots
    /\ phase \in [Pairs -> Phases]
    /\ announced \in SUBSET Pairs
    /\ state \in [Sessions -> SessionStates]
    /\ owner \in [Sessions -> Pairs]
    /\ lock \in Threads \cup {NoThread}
    /\ pc \in [Threads -> Steps]
    /\ num \in [Threads -> 0 .. MaxSessions]
    /\ on \in [Threads -> Pairs]
    /\ upper \in SUBSET Sessions
    /\ ended \in SUBSET Sessions

\* en50221_sl_create.  slot_id and connection_id of a session are not set.
Init ==
    /\ SInit
    /\ state = [n \in Sessions |-> S_STATE_IDLE]
    /\ \E p \in Pairs : /\ owner = [n \in Sessions |-> p]
                        /\ on = [t \in Threads |-> p]
    /\ lock = NoThread
    /\ pc = [t \in Threads |-> "idle"]
    /\ num = [t \in Threads |-> 0]
    /\ upper = {}
    /\ ended = {}

Goto(t, step) == pc' = [pc EXCEPT ![t] = step]

\* Thread t is done; its locals are gone.
Done(t) ==
    /\ Goto(t, "idle")
    /\ num' = [num EXCEPT ![t] = 0]
    /\ UNCHANGED on

\* The poll thread holds the slot's lock while it reports a closed connection.
SlotFree(s) == ~(pc[Poller] \in {"conn_scan", "conn_tell"} /\ on[Poller][1] = s)

\* tl->global_lock is held while a removed slot is reported.
NoRemoval == \A t \in Threads : pc[t] \notin {"slot_scan", "slot_tell"}

\* en50221_tl_send_data of thread t returns 0: the connection is active.
Sends(t) == phase[on[t]] = "open"

-----------------------------------------------------------------------------
(* The transport layer: the steps of TcService, and the callbacks.         *)

TcInsert(s) ==
    /\ NoRemoval
    /\ Insert(s)
    /\ UNCHANGED <<sessionVars, lock, locals, told>>

\* A connection is asked for or released by the host; the poll thread ends one.
TcStep(p) ==
    /\ \/ SlotFree(p[1]) /\ (Open(p) \/ Release(p))
       \/ pc[Poller] = "idle" /\ Close(p)
    /\ UNCHANGED <<sessionVars, lock, locals, told>>

\* T_CALLBACK_REASON_CONNECTIONOPEN is passed on and changes no session.
TcAccept(p) ==
    /\ pc[Poller] = "idle"
    /\ Accept(p)
    /\ UNCHANGED <<sessionVars, lock, locals, told>>

\* T_CALLBACK_REASON_CONNECTIONCLOSE: the sessions are gone through one by one.
TcHangup(p) ==
    /\ pc[Poller] = "idle"
    /\ Hangup(p)
    /\ Goto(Poller, "conn_scan")
    /\ num' = [num EXCEPT ![Poller] = 0]
    /\ on' = [on EXCEPT ![Poller] = p]
    /\ UNCHANGED <<sessionVars, lock, told>>

\* en50221_tl_destroy_slot, and its T_CALLBACK_REASON_SLOTCLOSE.
TcRemove(s) ==
    /\ pc[Remover] = "idle"
    /\ NoRemoval
    /\ SlotFree(s)
    /\ Remove(s)
    /\ Goto(Remover, "slot_scan")
    /\ num' = [num EXCEPT ![Remover] = 0]
    /\ \E c \in Conns : on' = [on EXCEPT ![Remover] = <<s, c>>]
    /\ UNCHANGED <<sessionVars, lock, told>>

\* Session n is closed with connection p: only the connection ids are compared.
ClosedWithConn(n, p) == state[n] # S_STATE_IDLE /\ owner[n][2] = p[2]

\* Mutant: a session the host is ending is not closed with its slot.
ClosedWithSlotActive(n, p) == state[n] = S_STATE_ACTIVE /\ owner[n][1] = p[1]

\* Session n is closed with the slot of p.
ClosedWithSlot(n, p) == state[n] # S_STATE_IDLE /\ owner[n][1] = p[1]

\* One round of the loop over the sessions, up to the unlock.
Scan(t, scan, tell, closes) ==
    /\ pc[t] = scan
    /\ num[t] < MaxSessions
    /\ \/ /\ closes
          /\ state' = [state EXCEPT ![num[t]] = S_STATE_IDLE]
          /\ Goto(t, tell)
          /\ UNCHANGED num
       \/ /\ ~closes
          /\ num' = [num EXCEPT ![t] = @ + 1]
          /\ UNCHANGED <<state, pc>>
    /\ UNCHANGED <<svcVars, owner, lock, on, told>>

\* Mutant: the loop variable moves on twice.
ScanTellTwice(t, scan, tell) ==
    /\ pc[t] = tell
    /\ upper' = upper \ {num[t]}
    /\ Goto(t, scan)
    /\ num' = [num EXCEPT ![t] = @ + 2]
    /\ UNCHANGED <<svcVars, sessionVars, lock, on, ended>>

\* S_SCALLBACK_REASON_CLOSE for the session, and on to the next one.
ScanTell(t, scan, tell) ==
    /\ pc[t] = tell
    /\ upper' = upper \ {num[t]}
    /\ Goto(t, scan)
    /\ num' = [num EXCEPT ![t] = @ + 1]
    /\ UNCHANGED <<svcVars, sessionVars, lock, on, ended>>

ConnScan ==
    Scan(Poller, "conn_scan", "conn_tell", ClosedWithConn(num[Poller], on[Poller]))

SlotScan ==
    Scan(Remover, "slot_scan", "slot_tell", ClosedWithSlot(num[Remover], on[Remover]))

ConnTell == ScanTell(Poller, "conn_scan", "conn_tell")
SlotTell == ScanTell(Remover, "slot_scan", "slot_tell")

ConnScanDone ==
    /\ pc[Poller] = "conn_scan" /\ num[Poller] = MaxSessions
    /\ Done(Poller)
    /\ UNCHANGED <<svcVars, sessionVars, lock, told>>

SlotScanDone ==
    /\ pc[Remover] = "slot_scan" /\ num[Remover] = MaxSessions
    /\ Report(on[Remover][1])
    /\ Done(Remover)
    /\ UNCHANGED <<sessionVars, lock, told>>

-----------------------------------------------------------------------------
(* The API.                                                                *)

\* The number en50221_sl_alloc_new_session picks: session 0 is never used.
FirstIdle(n) ==
    /\ n > 0
    /\ state[n] = S_STATE_IDLE
    /\ \A m \in 1 .. n - 1 : state[m] # S_STATE_IDLE

\* en50221_sl_alloc_new_session, for connection p, up to the write of the state.
\* global_lock is held; no session_lock is.  The number begins another life, of which
\* nothing has been told yet.
Alloc(t, p, next) ==
    /\ pc[t] = "idle"
    /\ lock = NoThread
    /\ lock' = t
    /\ \E n \in Sessions :
          /\ FirstIdle(n)
          /\ state' = [state EXCEPT ![n] = S_STATE_IN_CREATION]
          /\ num' = [num EXCEPT ![t] = n]
          /\ upper' = upper \ {n}
          /\ ended' = ended \ {n}
    /\ on' = [on EXCEPT ![t] = p]
    /\ Goto(t, next)
    /\ UNCHANGED <<svcVars, owner>>

\* The rest of it: the session's fields, then the unlock.
Fill(t, fill, next) ==
    /\ pc[t] = fill
    /\ owner' = [owner EXCEPT ![num[t]] = on[t]]
    /\ lock' = NoThread
    /\ Goto(t, next)
    /\ UNCHANGED <<svcVars, state, num, on, told>>

\* en50221_sl_create_session
CreateSession(t, p) == Alloc(t, p, "create_fill")

CreateFill(t) == Fill(t, "create_fill", "create_send")

CreateSend(t) ==
    /\ pc[t] = "create_send"
    /\ SlotFree(on[t][1])
    /\ \/ Sends(t) /\ Done(t)
       \/ ~Sends(t) /\ Goto(t, "create_undo") /\ UNCHANGED <<num, on>>
    /\ UNCHANGED <<svcVars, sessionVars, lock, told>>

\* Mutant: a request that failed is undone without a look at the state.
UndoAnyway(t, step, from) ==
    /\ pc[t] = step
    /\ state' = [state EXCEPT ![num[t]] = S_STATE_IDLE]
    /\ Done(t)
    /\ UNCHANGED <<svcVars, owner, lock, told>>

\* Mutant: the session a failed request was to end is put back as it was.
UndoBack(t, step, from) ==
    /\ pc[t] = step
    /\ state' = [state EXCEPT ![num[t]] =
                    IF from = S_STATE_IN_DELETION THEN S_STATE_ACTIVE ELSE S_STATE_IDLE]
    /\ Done(t)
    /\ UNCHANGED <<svcVars, owner, lock, told>>

\* A request that failed is undone, if the session still is in the state it left.
Undo(t, step, from) ==
    /\ pc[t] = step
    /\ state' = IF state[num[t]] = from
                THEN [state EXCEPT ![num[t]] = S_STATE_IDLE] ELSE state
    /\ Done(t)
    /\ UNCHANGED <<svcVars, owner, lock, told>>

CreateUndo(t) == Undo(t, "create_undo", S_STATE_IN_CREATION)

\* en50221_sl_destroy_session, for any session that is active or being ended: the
\* caller may know the number before any callback has told of it.
DestroySession(t, n) ==
    /\ pc[t] = "idle"
    /\ state[n] \in {S_STATE_ACTIVE, S_STATE_IN_DELETION}
    /\ state' = [state EXCEPT ![n] = S_STATE_IN_DELETION]
    /\ num' = [num EXCEPT ![t] = n]
    /\ on' = [on EXCEPT ![t] = owner[n]]
    /\ ended' = ended \cup {n}
    /\ Goto(t, "destroy_send")
    /\ UNCHANGED <<svcVars, owner, lock, upper>>

DestroySend(t) ==
    /\ pc[t] = "destroy_send"
    /\ SlotFree(on[t][1])
    /\ \/ Sends(t) /\ Done(t)
       \/ ~Sends(t) /\ Goto(t, "destroy_undo") /\ UNCHANGED <<num, on>>
    /\ UNCHANGED <<svcVars, sessionVars, lock, told>>

DestroyUndo(t) == Undo(t, "destroy_undo", S_STATE_IN_DELETION)

-----------------------------------------------------------------------------
(* T_CALLBACK_REASON_DATA: the SPDUs of the CAM, on an active connection.  *)

\* en50221_sl_handle_open_session_request, when the resource is found and a
\* session is free; otherwise it only sends a refusal.
OpenRequest(p) ==
    /\ phase[p] = "open"
    /\ Alloc(Poller, p, "open_fill")

OpenFill == Fill(Poller, "open_fill", "open_ask")

\* S_SCALLBACK_REASON_CAMCONNECTING: the upper layer accepts or refuses.
OpenAsk ==
    /\ pc[Poller] = "open_ask"
    /\ Goto(Poller, "open_send") \/ Goto(Poller, "open_refuse")
    /\ UNCHANGED <<svcVars, sessionVars, lock, num, on, told>>

\* The response to an accepted request; if it cannot be sent, all is off.
OpenSend ==
    /\ pc[Poller] = "open_send"
    /\ Goto(Poller, IF Sends(Poller) THEN "open_done" ELSE "open_refuse")
    /\ UNCHANGED <<svcVars, sessionVars, lock, num, on, told>>

\* The session's state is set, whatever became of the session in the meantime.
OpenRefuse ==
    /\ pc[Poller] = "open_refuse"
    /\ state' = [state EXCEPT ![num[Poller]] = S_STATE_IDLE]
    /\ Done(Poller)
    /\ UNCHANGED <<svcVars, owner, lock, told>>

OpenDone ==
    /\ pc[Poller] = "open_done"
    /\ state' = [state EXCEPT ![num[Poller]] = S_STATE_ACTIVE]
    /\ Goto(Poller, "open_look")
    /\ UNCHANGED <<svcVars, owner, lock, num, on, told>>

\* The state is looked at again, without the lock.
OpenLook ==
    /\ pc[Poller] = "open_look"
    /\ \/ /\ state[num[Poller]] = S_STATE_ACTIVE
          /\ Goto(Poller, "open_tell")
          /\ UNCHANGED <<num, on>>
       \/ /\ state[num[Poller]] # S_STATE_ACTIVE
          /\ Done(Poller)
    /\ UNCHANGED <<svcVars, sessionVars, lock, told>>

\* S_SCALLBACK_REASON_CAMCONNECTED
OpenTell ==
    /\ pc[Poller] = "open_tell"
    /\ upper' = upper \cup {num[Poller]}
    /\ Done(Poller)
    /\ UNCHANGED <<svcVars, sessionVars, lock, ended>>

\* The checks of the handlers: session n is on connection p and in one of states.
Expected(n, p, states) ==
    /\ pc[Poller] = "idle"
    /\ phase[p] = "open"
    /\ owner[n] = p
    /\ state[n] \in states

\* The handler has changed the state of session n and goes on to tell.
Then(n, st, tell) ==
    /\ state' = [state EXCEPT ![n] = st]
    /\ num' = [num EXCEPT ![Poller] = n]
    /\ Goto(Poller, tell)
    /\ UNCHANGED <<svcVars, owner, lock, on, told>>

\* en50221_sl_handle_close_session_request
CloseRequest(p, n) ==
    /\ Expected(n, p, {S_STATE_ACTIVE, S_STATE_IN_DELETION})
    /\ Then(n, S_STATE_IDLE, "close_tell")

\* S_SCALLBACK_REASON_CLOSE
CloseTell ==
    /\ pc[Poller] = "close_tell"
    /\ upper' = upper \ {num[Poller]}
    /\ Done(Poller)
    /\ UNCHANGED <<svcVars, sessionVars, lock, ended>>

\* en50221_sl_handle_create_session_response; n is the number it reads, which is
\* not where the layout of the response has it.  A failure is told as CONNECTFAIL.
CreateResponse(p, n) ==
    /\ Expected(n, p, {S_STATE_IN_CREATION})
    /\ \/ Then(n, S_STATE_ACTIVE, "connected_tell")
       \/ /\ state' = [state EXCEPT ![n] = S_STATE_IDLE]
          /\ UNCHANGED <<svcVars, owner, lock, locals, told>>

\* S_SCALLBACK_REASON_CONNECTED
ConnectedTell ==
    /\ pc[Poller] = "connected_tell"
    /\ upper' = upper \cup {num[Poller]}
    /\ Done(Poller)
    /\ UNCHANGED <<svcVars, sessionVars, lock, ended>>

\* The length ST_CLOSE_SESSION_RES has when the host sends it, and the one
\* en50221_sl_handle_close_session_response insists on.
ResLength == 3
ResLengthExpected == 4

\* en50221_sl_handle_close_session_response, for a response of length len
CloseResponse(p, n, len) ==
    /\ Expected(n, p, {S_STATE_IN_DELETION})
    /\ state' = IF len = ResLengthExpected
                THEN [state EXCEPT ![n] = S_STATE_IDLE] ELSE state
    /\ UNCHANGED <<svcVars, owner, lock, locals, told>>

-----------------------------------------------------------------------------
Transport ==
    \/ \E s \in Slots : TcInsert(s) \/ TcRemove(s)
    \/ \E p \in Pairs : TcStep(p) \/ TcAccept(p) \/ TcHangup(p)
    \/ ConnScan \/ ConnTell \/ ConnScanDone
    \/ SlotScan \/ SlotTell \/ SlotScanDone

Api ==
    \E t \in Users :
        \/ \E p \in HostConns : CreateSession(t, p)
        \/ CreateFill(t) \/ CreateSend(t) \/ CreateUndo(t)
        \/ \E n \in Sessions : DestroySession(t, n)
        \/ DestroySend(t) \/ DestroyUndo(t)

Handle ==
    \/ \E p \in Pairs : OpenRequest(p)
    \/ OpenFill \/ OpenAsk \/ OpenSend \/ OpenRefuse \/ OpenDone \/ OpenLook \/ OpenTell
    \/ \E p \in Pairs, n \in Sessions :
          \/ CloseRequest(p, n)
          \/ CreateResponse(p, n)
          \/ \E len \in {ResLength, ResLengthExpected} : CloseResponse(p, n, len)
    \/ CloseTell \/ ConnectedTell

Next == Transport \/ Api \/ Handle

Spec == Init /\ [][Next]_vars

-----------------------------------------------------------------------------
(* Properties.                                                             *)

\* Whenever the poll thread is between two callbacks, the upper layer has been told
\* of every session that is active, and every session it was told is open, and has not
\* itself ended since, is active: the callbacks of en50221_session.c run after the
\* session's lock is released, and another thread may have moved the session on by
\* then.  The second half is one for sessions the CAM opens: where users create them
\* (HostConns), a session that is ended and created again before the callback of its
\* first life has run is told of too early.
ToldWhatIsActive ==
    pc[Poller] = "idle" =>
        \A n \in Sessions :
            /\ state[n] = S_STATE_ACTIVE => n \in upper
            /\ n \in upper /\ n \notin ended => state[n] = S_STATE_ACTIVE

\* Whenever the poll thread is between two callbacks, the upper layer has been told,
\* by CAMCONNECTED or CONNECTED, of every session that is active, and has not been
\* told since that it is closed: neither a request that fails half way nor a late
\* CLOSE for an earlier session of the same number leaves an active session nobody
\* knows of, whoever creates and destroys sessions.
ActiveIsTold ==
    pc[Poller] = "idle" => \A n \in Sessions : state[n] = S_STATE_ACTIVE => n \in upper

\* Whenever no removed slot or closed connection is being reported, a session in
\* use is on a connection the session layer was told is open and not told is closed: no
\* session outlives the report that its connection was closed or its slot removed.
\* A connection that ends without a report (transport.c, when the reply to the CAM's
\* T_DELETE_T_C cannot be written) leaves its sessions behind, and where users create
\* sessions on more than one connection en50221_sl_alloc_new_session itself may put
\* one on a closed connection; neither is claimed here.
NoOrphanSession ==
    pc[Poller] = "idle" /\ NoRemoval =>
        \A n \in Sessions :
            state[n] \in {S_STATE_ACTIVE, S_STATE_IN_DELETION} => owner[n] \in announced
=============================================================================
