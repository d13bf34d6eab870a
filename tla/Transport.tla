------------------------------ MODULE Transport ------------------------------
(***************************************************************************)
(* The EN 50221 transport layer: lib/libdvben50221/en50221_transport.c.    *)
(*                                                                         *)
(* The host keeps a table of CAM slots; each slot has a fixed array of     *)
(* transport connections with a state, a response timer, a queue of        *)
(* messages to send and a buffer for chained packets.  One thread runs     *)
(* en50221_tl_poll in a loop; other threads (and the DATA callback itself) *)
(* call the API.  Every API function holds the slot's slot_lock from its   *)
(* checks to its last assignment, so it is one action, enabled when the    *)
(* poll thread does not hold that lock.  The poll thread holds the lock of *)
(* the slot it visits and lets go of it only around the DATA callback.     *)
(*                                                                         *)
(* The CAM is unrestricted: each TPDU it sends is chosen when the poll     *)
(* thread parses it.  Messages are their tags; of the chain buffer only    *)
(* whether it exists is kept.                                              *)
(***************************************************************************)
EXTENDS Integers, Sequences, FiniteSets

CONSTANTS
    MaxSlots,       \* tl->max_slots
    MaxConns,       \* tl->max_connections_per_slot
    CAs,            \* file handles of CA devices
    CamNums,        \* CAM numbers on one CA device
    NoHndl,         \* ca_hndl == -1: the slot is not registered
    WriteMayFail,   \* whether dvbca_link_write may fail on an open handle
    CamPolite,      \* whether the CAM requests connections on open ones only
    MaxQueue,       \* bound: messages in one send queue
    MaxTpdus        \* bound: TPDUs in one link read

ASSUME SizesAssumption ==
    /\ MaxSlots \in Nat \ {0}
    /\ MaxConns \in Nat \ {0}
    /\ MaxQueue \in Nat \ {0}
    /\ MaxTpdus \in Nat \ {0}

ASSUME HandlesAssumption ==
    /\ NoHndl \notin CAs
    /\ CamNums # {}
    /\ WriteMayFail \in BOOLEAN
    /\ CamPolite \in BOOLEAN

Slots == 0 .. MaxSlots - 1
Conns == 0 .. MaxConns - 1
NoSlot == -1

T_STATE_IDLE == "IDLE"
T_STATE_ACTIVE == "ACTIVE"
T_STATE_ACTIVE_DELETEQUEUED == "ACTIVE_DELETEQUEUED"
T_STATE_IN_CREATION == "IN_CREATION"
T_STATE_IN_DELETION == "IN_DELETION"

States == { T_STATE_IDLE, T_STATE_ACTIVE, T_STATE_ACTIVE_DELETEQUEUED,
            T_STATE_IN_CREATION, T_STATE_IN_DELETION }

T_CREATE_T_C == "CREATE_T_C"
T_DELETE_T_C == "DELETE_T_C"
T_DATA_LAST == "DATA_LAST"

Messages == { T_CREATE_T_C, T_DELETE_T_C, T_DATA_LAST }

VARIABLES
    hndl,           \* slots[s].ca_hndl
    cam,            \* slots[s].slot
    state,          \* connections[c].state
    tx,             \* connections[c].tx_time: "ok" is 0, "wait" a request is
                    \*   unanswered, "late" for longer than response_timeout
    chained,        \* connections[c].chain_buffer is not NULL
    queue,          \* connections[c].send_queue
    slots_changed,  \* tl->slots_changed
    watched,        \* slots whose slot_pollfds entry holds a handle
    error_slot,     \* tl->error_slot
    closing,        \* slot whose SLOTCLOSE callback is due; global_lock is held
    pc,             \* where the poll thread is
    cur,            \* slot_id of the loop of en50221_tl_poll
    tgt,            \* slot whose CAM sent the data being parsed
    conn,           \* j of the loop of en50221_tl_poll
    rx,             \* TPDUs of the current read that are not parsed yet
    told            \* history: connections reported open to the upper layer

slotVars == <<hndl, cam>>
connVars == <<state, tx, chained, queue>>
pollVars == <<pc, cur, tgt, conn, rx>>
vars == <<hndl, cam, state, tx, chained, queue, slots_changed, watched,
          error_slot, closing, pc, cur, tgt, conn, rx, told>>

\* Outside en50221_tl_poll pc is "done" or "failed": the last call returned 0 or -1.
PollSteps == {"done", "failed", "slot", "routed", "rx", "callback",
              "send", "poll", "late"}

\* The fields of struct en50221_transport_layer, its slots and connections, and the
\* locals of en50221_tl_poll have their types: the loops stay inside the arrays.
TypeOK ==
    /\ hndl \in [Slots -> CAs \cup {NoHndl}]
    /\ cam \in [Slots -> CamNums]
    /\ state \in [Slots \X Conns -> States]
    /\ tx \in [Slots \X Conns -> {"ok", "wait", "late"}]
    /\ chained \in [Slots \X Conns -> BOOLEAN]
    /\ queue \in [Slots \X Conns -> Seq(Messages)]
    /\ slots_changed \in BOOLEAN
    /\ watched \in SUBSET Slots
    /\ error_slot \in Slots \cup {NoSlot}
    /\ closing \in Slots \cup {NoSlot}
    /\ pc \in PollSteps
    /\ cur \in Slots
    /\ tgt \in Slots
    /\ conn \in Conns
    /\ rx \in 0 .. MaxTpdus
    /\ told \in SUBSET (Slots \X Conns)

\* The poll thread holds slots[s].slot_lock.
PollHolds(s) ==
    \/ s = cur /\ pc \in {"routed", "rx", "send", "poll", "late"}
    \/ s = cur /\ pc = "callback" /\ tgt # cur
    \/ s = tgt /\ pc = "rx"

\* Mutant: en50221_tl_destroy_slot lets go of global_lock before the callback.
GlobalFreeEarly == TRUE

\* No other thread holds tl->global_lock.
GlobalFree == closing = NoSlot

\* Mutant: the handlers write to the handle of the slot that was polled.
WriteOutcomesOfPolled(s) ==
    IF hndl[cur] = NoHndl THEN {FALSE} ELSE IF WriteMayFail THEN BOOLEAN ELSE {TRUE}

\* The results a dvbca_link_write to slot s can have: handle -1 is not open.
WriteOutcomes(s) ==
    IF hndl[s] = NoHndl THEN {FALSE} ELSE IF WriteMayFail THEN BOOLEAN ELSE {TRUE}

\* Mutant: a connection is cleared down without its chain.
KeepChain(s, c) == UNCHANGED chained

\* The connection's chain_buffer is freed and set to NULL.
FreeChain(s, c) == chained' = [chained EXCEPT ![<<s, c>>] = FALSE]

\* Mutant: tx_time is not set when a request is sent.
StartNoTimer(s, c) == UNCHANGED tx

\* The connection's tx_time is set to now, or cleared.
StartTimer(s, c) == tx' = [tx EXCEPT ![<<s, c>>] = "wait"]
StopTimer(s, c) == tx' = [tx EXCEPT ![<<s, c>>] = "ok"]

-----------------------------------------------------------------------------
\* en50221_tl_create.  The CAM number of a slot is not read before it is set.
Init ==
    /\ hndl = [s \in Slots |-> NoHndl]
    /\ \E n \in CamNums : cam = [s \in Slots |-> n]
    /\ state = [p \in Slots \X Conns |-> T_STATE_IDLE]
    /\ tx = [p \in Slots \X Conns |-> "ok"]
    /\ chained = [p \in Slots \X Conns |-> FALSE]
    /\ queue = [p \in Slots \X Conns |-> << >>]
    /\ slots_changed = TRUE
    /\ watched = {}
    /\ error_slot = 0
    /\ closing = NoSlot
    /\ pc = "done" /\ cur = 0 /\ tgt = 0 /\ conn = 0 /\ rx = 0
    /\ told = {}

-----------------------------------------------------------------------------
(* The API.                                                                *)

\* en50221_tl_register_slot: the first unused slot is set up.
RegisterSlot(ca, n) ==
    \E s \in Slots :
        /\ hndl[s] = NoHndl
        /\ \A r \in Slots : r < s => hndl[r] # NoHndl
        /\ GlobalFree
        /\ ~PollHolds(s)
        /\ hndl' = [hndl EXCEPT ![s] = ca]
        /\ cam' = [cam EXCEPT ![s] = n]
        /\ slots_changed' = TRUE
        /\ UNCHANGED <<connVars, watched, error_slot, closing, pollVars, told>>

\* Mutant: the loop over the connections stops one short.
ClearedButLast(f, s, v) ==
    [p \in Slots \X Conns |-> IF p[1] = s /\ p[2] < MaxConns - 1 THEN v ELSE f[p]]

\* The field f of every connection of slot s is set to v.
Cleared(f, s, v) == [p \in Slots \X Conns |-> IF p[1] = s THEN v ELSE f[p]]

\* en50221_tl_destroy_slot up to the release of slot_lock; it keeps global_lock.
DestroySlot(s) ==
    /\ GlobalFree
    /\ ~PollHolds(s)
    /\ hndl' = [hndl EXCEPT ![s] = NoHndl]
    /\ state' = Cleared(state, s, T_STATE_IDLE)
    /\ tx' = Cleared(tx, s, "ok")
    /\ chained' = Cleared(chained, s, FALSE)
    /\ queue' = Cleared(queue, s, << >>)
    /\ closing' = s
    /\ UNCHANGED <<cam, slots_changed, watched, error_slot, pollVars, told>>

\* The rest of en50221_tl_destroy_slot: the SLOTCLOSE callback, then the unlock.
NotifySlotClose ==
    /\ closing # NoSlot
    /\ told' = {p \in told : p[1] # closing}
    /\ slots_changed' = TRUE
    /\ closing' = NoSlot
    /\ UNCHANGED <<slotVars, connVars, watched, error_slot, pollVars>>

\* queue_message
Enqueue(s, c, m) ==
    /\ Len(queue[<<s, c>>]) < MaxQueue
    /\ queue' = [queue EXCEPT ![<<s, c>>] = Append(@, m)]

\* Mutant: the state is tested as a mask of the states with ACTIVE in their name.
AcceptsDataMask(s, c) == state[<<s, c>>] \in {T_STATE_ACTIVE, T_STATE_ACTIVE_DELETEQUEUED}

AcceptsData(s, c) == state[<<s, c>>] = T_STATE_ACTIVE

\* en50221_tl_send_data and en50221_tl_send_datav
SendData(s, c) ==
    /\ ~PollHolds(s)
    /\ hndl[s] # NoHndl
    /\ AcceptsData(s, c)
    /\ Enqueue(s, c, T_DATA_LAST)
    /\ UNCHANGED <<slotVars, state, tx, chained, slots_changed, watched, error_slot,
                   closing, pollVars, told>>

\* Mutant: a connection that is still being deleted is taken for a free one.
FirstIdleOrDying(s, c) ==
    /\ c > 0
    /\ state[<<s, c>>] \in {T_STATE_IDLE, T_STATE_IN_DELETION}
    /\ \A d \in 1 .. c - 1 : state[<<s, d>>] # T_STATE_IDLE

\* The connection en50221_tl_alloc_new_tc picks: connection 0 is never used.
FirstIdle(s, c) ==
    /\ c > 0
    /\ state[<<s, c>>] = T_STATE_IDLE
    /\ \A d \in 1 .. c - 1 : state[<<s, d>>] # T_STATE_IDLE

\* en50221_tl_new_tc
NewTc(s) ==
    \E c \in Conns :
        /\ ~PollHolds(s)
        /\ hndl[s] # NoHndl
        /\ FirstIdle(s, c)
        /\ Enqueue(s, c, T_CREATE_T_C)
        /\ state' = [state EXCEPT ![<<s, c>>] = T_STATE_IN_CREATION]
        /\ FreeChain(s, c)
        /\ UNCHANGED <<slotVars, tx, slots_changed, watched, error_slot, closing,
                       pollVars, told>>

\* en50221_tl_del_tc
DelTc(s, c) ==
    /\ ~PollHolds(s)
    /\ hndl[s] # NoHndl
    /\ state[<<s, c>>] \in {T_STATE_ACTIVE, T_STATE_IN_DELETION}
    /\ Enqueue(s, c, T_DELETE_T_C)
    /\ state' = [state EXCEPT ![<<s, c>>] = T_STATE_ACTIVE_DELETEQUEUED]
    /\ UNCHANGED <<slotVars, tx, chained, slots_changed, watched, error_slot,
                   closing, pollVars, told>>

\* The early returns of the API that record the slot: a connection id out of
\* range, no idle connection left, a connection in the wrong state.
RejectedCall(s) ==
    /\ ~PollHolds(s)
    /\ hndl[s] # NoHndl
    /\ error_slot' = s
    /\ UNCHANGED <<slotVars, connVars, slots_changed, watched, closing, pollVars,
                   told>>

-----------------------------------------------------------------------------
(* The poll thread: en50221_tl_poll.                                       *)

Returned == pc \in {"done", "failed"}

\* What the rest of the program shares with the poll loop and the loop only reads.
tableVars == <<hndl, cam, slots_changed, watched, closing>>

\* en50221_tl_poll returns; its locals are gone.
Return(result) ==
    /\ pc' = result
    /\ cur' = 0 /\ tgt' = 0 /\ conn' = 0 /\ rx' = 0

\* An error is recorded against slot s and en50221_tl_poll returns -1.
Fail(s) ==
    /\ Return("failed")
    /\ error_slot' = s

\* The poll set is rebuilt under global_lock, then poll() is called.
PollBegin ==
    /\ Returned
    /\ GlobalFree
    /\ watched' = IF slots_changed THEN {s \in Slots : hndl[s] # NoHndl} ELSE watched
    /\ slots_changed' = FALSE
    /\ \/ pc' = "slot" /\ UNCHANGED error_slot
       \/ pc' = "failed" /\ error_slot' = NoSlot
    /\ UNCHANGED <<slotVars, connVars, closing, cur, tgt, conn, rx, told>>

\* Mutant: the loop over the slots runs one slot too far.
NextSlotTooFar ==
    \/ /\ cur <= MaxSlots - 1
       /\ pc' = "slot"
       /\ cur' = cur + 1 /\ tgt' = 0 /\ conn' = 0 /\ rx' = 0
    \/ /\ cur = MaxSlots
       /\ Return("done")

\* The loop over the slots goes on, or ends and en50221_tl_poll returns 0.
NextSlot ==
    \/ /\ cur < MaxSlots - 1
       /\ pc' = "slot"
       /\ cur' = cur + 1 /\ tgt' = 0 /\ conn' = 0 /\ rx' = 0
    \/ /\ cur = MaxSlots - 1
       /\ Return("done")

\* The slot is not registered (any more).
PollSkip ==
    /\ pc = "slot"
    /\ hndl[cur] = NoHndl
    /\ NextSlot
    /\ UNCHANGED <<tableVars, connVars, error_slot, told>>

\* No event, or an empty read: straight to the connections.
PollNoEvent ==
    /\ pc = "slot"
    /\ hndl[cur] # NoHndl
    /\ pc' = "send" /\ conn' = 0
    /\ UNCHANGED <<tableVars, connVars, error_slot, cur, tgt, rx, told>>

\* The read fails, or POLLERR.
PollReadError ==
    /\ pc = "slot"
    /\ hndl[cur] # NoHndl
    /\ cur \in watched
    /\ Fail(cur)
    /\ UNCHANGED <<tableVars, connVars, told>>

\* Slot x holds CAM n of the CA device of slot s, and is the first to do so.
Routes(s, n, x) ==
    /\ hndl[x] = hndl[s] /\ cam[x] = n
    /\ \A y \in Slots : y < x => ~(hndl[y] = hndl[s] /\ cam[y] = n)

\* A read of k TPDUs from CAM n: for this slot, for another slot of the same CA
\* device, whose lock is still to be taken, or for no registered slot.
PollRead(n, k) ==
    /\ pc = "slot"
    /\ hndl[cur] # NoHndl
    /\ cur \in watched
    /\ \/ /\ n = cam[cur]
          /\ pc' = "rx" /\ tgt' = cur /\ rx' = k
          /\ UNCHANGED <<cur, conn, error_slot>>
       \/ /\ n # cam[cur]
          /\ \E x \in Slots : Routes(cur, n, x) /\ tgt' = x
          /\ pc' = "routed" /\ rx' = k
          /\ UNCHANGED <<cur, conn, error_slot>>
       \/ /\ n # cam[cur]
          /\ ~ \E x \in Slots : Routes(cur, n, x)
          /\ Return("failed")
          /\ UNCHANGED error_slot
    /\ UNCHANGED <<tableVars, connVars, told>>

\* The lock of the slot the data is for is taken; nothing is checked again.
LockRouted ==
    /\ pc = "routed"
    /\ pc' = "rx"
    /\ UNCHANGED <<tableVars, connVars, error_slot, cur, tgt, conn, rx, told>>

-----------------------------------------------------------------------------
(* en50221_tl_process_data and its handlers, on slot tgt.                  *)

Parsing == pc = "rx" /\ rx > 0

\* One TPDU is done with; the loop of en50221_tl_process_data goes on.
Consumed ==
    /\ rx' = rx - 1
    /\ UNCHANGED <<pc, cur, tgt, conn, error_slot>>

\* Bad ASN.1, a bad length, connection id or tag, a T_SB of the wrong length.
HandleBadTpdu ==
    /\ Parsing
    /\ Fail(tgt)
    /\ UNCHANGED <<tableVars, connVars, told>>

\* en50221_tl_handle_create_tc_reply
HandleCreateTcReply(c) ==
    /\ Parsing
    /\ \/ /\ state[<<tgt, c>>] = T_STATE_IN_CREATION
          /\ state' = [state EXCEPT ![<<tgt, c>>] = T_STATE_ACTIVE]
          /\ StopTimer(tgt, c)
          /\ told' = told \cup {<<tgt, c>>}
          /\ Consumed
       \/ /\ state[<<tgt, c>>] # T_STATE_IN_CREATION
          /\ Fail(tgt)
          /\ UNCHANGED <<state, tx, told>>
    /\ UNCHANGED <<tableVars, chained, queue>>

\* en50221_tl_handle_delete_tc: the connection is idle whether or not the reply
\* can be written, but the upper layer hears of it only if it can.
HandleDeleteTc(c) ==
    /\ Parsing
    /\ \/ /\ state[<<tgt, c>>] \in {T_STATE_ACTIVE, T_STATE_IN_DELETION}
          /\ state' = [state EXCEPT ![<<tgt, c>>] = T_STATE_IDLE]
          /\ FreeChain(tgt, c)
          /\ \/ /\ FALSE \in WriteOutcomes(tgt)
                /\ Fail(tgt)
                /\ UNCHANGED told
             \/ /\ TRUE \in WriteOutcomes(tgt)
                /\ told' = told \ {<<tgt, c>>}
                /\ Consumed
       \/ /\ state[<<tgt, c>>] \notin {T_STATE_ACTIVE, T_STATE_IN_DELETION}
          /\ Fail(tgt)
          /\ UNCHANGED <<state, chained, told>>
    /\ UNCHANGED <<tableVars, tx, queue>>

\* en50221_tl_handle_delete_tc_reply
HandleDeleteTcReply(c) ==
    /\ Parsing
    /\ \/ /\ state[<<tgt, c>>] = T_STATE_IN_DELETION
          /\ state' = [state EXCEPT ![<<tgt, c>>] = T_STATE_IDLE]
          /\ Consumed
       \/ /\ state[<<tgt, c>>] # T_STATE_IN_DELETION
          /\ Fail(tgt)
          /\ UNCHANGED state
    /\ UNCHANGED <<tableVars, tx, chained, queue, told>>

\* en50221_tl_handle_request_tc, received on connection c: T_NEW_T_C is written
\* on c, then T_CREATE_T_C on the new connection d, or T_T_C_ERROR when there is
\* no idle connection.  The state of c is not looked at.
HandleRequestTc(c) ==
    /\ Parsing
    /\ CamPolite => state[<<tgt, c>>] = T_STATE_ACTIVE
    /\ \/ \E d \in Conns :
             /\ FirstIdle(tgt, d)
             /\ FreeChain(tgt, d)
             /\ \/ /\ FALSE \in WriteOutcomes(tgt)
                   /\ Fail(tgt)
                   /\ UNCHANGED <<state, tx>>
                \/ /\ BOOLEAN \subseteq WriteOutcomes(tgt)
                   /\ StopTimer(tgt, c)
                   /\ Fail(tgt)
                   /\ UNCHANGED state
                \/ /\ TRUE \in WriteOutcomes(tgt)
                   /\ tx' = [tx EXCEPT ![<<tgt, c>>] = "ok", ![<<tgt, d>>] = "wait"]
                   /\ state' = [state EXCEPT ![<<tgt, d>>] = T_STATE_IN_CREATION]
                   /\ Consumed
       \/ /\ ~ \E d \in Conns : FirstIdle(tgt, d)
          /\ \/ FALSE \in WriteOutcomes(tgt) /\ Fail(tgt) /\ UNCHANGED tx
             \/ TRUE \in WriteOutcomes(tgt) /\ StopTimer(tgt, c) /\ Consumed
          /\ UNCHANGED <<state, chained>>
    /\ UNCHANGED <<tableVars, queue, told>>

\* en50221_tl_handle_data_more with a body that is not empty
HandleDataMore(c) ==
    /\ Parsing
    /\ \/ /\ state[<<tgt, c>>] = T_STATE_ACTIVE
          /\ StopTimer(tgt, c)
          /\ chained' = [chained EXCEPT ![<<tgt, c>>] = TRUE]
          /\ Consumed
       \/ /\ state[<<tgt, c>>] # T_STATE_ACTIVE
          /\ Fail(tgt)
          /\ UNCHANGED <<tx, chained>>
    /\ UNCHANGED <<tableVars, state, queue, told>>

\* en50221_tl_handle_data_last: with a body, the slot's lock is let go of and the
\* DATA callback called; without one the chain collected so far is freed.
HandleDataLast(c) ==
    /\ Parsing
    /\ \/ /\ state[<<tgt, c>>] = T_STATE_ACTIVE
          /\ StopTimer(tgt, c)
          /\ FreeChain(tgt, c)
          /\ \/ /\ pc' = "callback"
                /\ rx' = rx - 1
                /\ UNCHANGED <<cur, tgt, conn, error_slot>>
             \/ Consumed
       \/ /\ state[<<tgt, c>>] # T_STATE_ACTIVE
          /\ Fail(tgt)
          /\ UNCHANGED <<tx, chained>>
    /\ UNCHANGED <<tableVars, state, queue, told>>

\* The DATA callback returns and the lock is taken back.
CallbackReturns ==
    /\ pc = "callback"
    /\ pc' = "rx"
    /\ UNCHANGED <<tableVars, connVars, error_slot, cur, tgt, conn, rx, told>>

\* en50221_tl_handle_sb: the CAM has data, and is told to send it, or has none.
HandleSb(c) ==
    /\ Parsing
    /\ \/ /\ state[<<tgt, c>>] = T_STATE_ACTIVE
          /\ \/ FALSE \in WriteOutcomes(tgt) /\ Fail(tgt) /\ UNCHANGED tx
             \/ TRUE \in WriteOutcomes(tgt) /\ StartTimer(tgt, c) /\ Consumed
             \/ StopTimer(tgt, c) /\ Consumed
       \/ /\ state[<<tgt, c>>] # T_STATE_ACTIVE
          /\ Fail(tgt)
          /\ UNCHANGED tx
    /\ UNCHANGED <<tableVars, state, chained, queue, told>>

\* All data is parsed; the lock of slot tgt is let go of unless it is slot cur.
ProcessDone ==
    /\ pc = "rx" /\ rx = 0
    /\ pc' = "send" /\ conn' = 0 /\ tgt' = 0
    /\ UNCHANGED <<tableVars, connVars, error_slot, cur, rx, told>>

-----------------------------------------------------------------------------
(* The loop over the connections of slot cur.                              *)

NextConn ==
    \/ /\ conn < MaxConns - 1
       /\ pc' = "send" /\ conn' = conn + 1
       /\ UNCHANGED <<cur, tgt, rx>>
    \/ /\ conn = MaxConns - 1
       /\ NextSlot

SkipIdle ==
    /\ pc = "send"
    /\ state[<<cur, conn>>] = T_STATE_IDLE
    /\ NextConn
    /\ UNCHANGED <<tableVars, connVars, error_slot, told>>

SendStates == {T_STATE_IN_CREATION, T_STATE_ACTIVE, T_STATE_ACTIVE_DELETEQUEUED}

MaySend ==
    /\ state[<<cur, conn>>] \in SendStates
    /\ queue[<<cur, conn>>] # << >>
    /\ tx[<<cur, conn>>] = "ok"

\* The head of the queue is written.  A message that cannot be written is gone.
SendQueued ==
    /\ pc = "send"
    /\ MaySend
    /\ queue' = [queue EXCEPT ![<<cur, conn>>] = Tail(@)]
    /\ \/ /\ FALSE \in WriteOutcomes(cur)
          /\ Fail(cur)
          /\ UNCHANGED <<state, tx, chained>>
       \/ /\ TRUE \in WriteOutcomes(cur)
          /\ StartTimer(cur, conn)
          /\ IF Head(queue[<<cur, conn>>]) = T_DELETE_T_C
             THEN /\ state' = [state EXCEPT ![<<cur, conn>>] = T_STATE_IN_DELETION]
                  /\ FreeChain(cur, conn)
             ELSE UNCHANGED <<state, chained>>
          /\ pc' = "poll"
          /\ UNCHANGED <<cur, tgt, conn, rx, error_slot>>
    /\ UNCHANGED <<tableVars, told>>

SendNothing ==
    /\ pc = "send"
    /\ state[<<cur, conn>>] # T_STATE_IDLE
    /\ ~MaySend
    /\ pc' = "poll"
    /\ UNCHANGED <<tableVars, connVars, error_slot, cur, tgt, conn, rx, told>>

\* en50221_tl_poll_tc, when poll_delay has passed: the timer is started first.
PollTc ==
    /\ pc = "poll"
    /\ state[<<cur, conn>>] = T_STATE_ACTIVE
    /\ tx[<<cur, conn>>] = "ok"
    /\ StartTimer(cur, conn)
    /\ \/ FALSE \in WriteOutcomes(cur) /\ Fail(cur)
       \/ /\ TRUE \in WriteOutcomes(cur)
          /\ pc' = "late"
          /\ UNCHANGED <<cur, tgt, conn, rx, error_slot>>
    /\ UNCHANGED <<tableVars, state, chained, queue, told>>

\* The connection is not polled: its state, its timer or poll_delay is against it.
NotPolled ==
    /\ pc = "poll"
    /\ pc' = "late"
    /\ UNCHANGED <<tableVars, connVars, error_slot, cur, tgt, conn, rx, told>>

\* Mutant: only deletion times out to idle.
HandshakeStatesDeletion == {T_STATE_IN_DELETION}

HandshakeStates == {T_STATE_IN_CREATION, T_STATE_IN_DELETION}

\* The response timeout is handled.
CheckTimeout ==
    /\ pc = "late"
    /\ \/ /\ tx[<<cur, conn>>] = "late"
          /\ state[<<cur, conn>>] \in HandshakeStates
          /\ state' = [state EXCEPT ![<<cur, conn>>] = T_STATE_IDLE]
          /\ NextConn
          /\ UNCHANGED error_slot
       \/ /\ tx[<<cur, conn>>] = "late"
          /\ state[<<cur, conn>>] \notin HandshakeStates
          /\ Fail(cur)
          /\ UNCHANGED state
       \/ /\ tx[<<cur, conn>>] # "late"
          /\ NextConn
          /\ UNCHANGED <<state, error_slot>>
    /\ UNCHANGED <<tableVars, tx, chained, queue, told>>

\* response_timeout passes since tx_time was set.
TimeoutElapses(s, c) ==
    /\ tx[<<s, c>>] = "wait"
    /\ tx' = [tx EXCEPT ![<<s, c>>] = "late"]
    /\ UNCHANGED <<tableVars, state, chained, queue, error_slot, pollVars, told>>

-----------------------------------------------------------------------------
Api ==
    \/ \E ca \in CAs, n \in CamNums : RegisterSlot(ca, n)
    \/ \E s \in Slots : DestroySlot(s) \/ NewTc(s) \/ RejectedCall(s)
    \/ \E s \in Slots, c \in Conns : SendData(s, c) \/ DelTc(s, c)

Process ==
    \/ HandleBadTpdu
    \/ ProcessDone
    \/ CallbackReturns
    \/ \E c \in Conns :
          \/ HandleCreateTcReply(c)
          \/ HandleDeleteTc(c)
          \/ HandleDeleteTcReply(c)
          \/ HandleRequestTc(c)
          \/ HandleDataMore(c)
          \/ HandleDataLast(c)
          \/ HandleSb(c)

Poll ==
    \/ PollBegin
    \/ PollSkip
    \/ PollNoEvent
    \/ PollReadError
    \/ \E n \in CamNums, k \in 1 .. MaxTpdus : PollRead(n, k)
    \/ LockRouted
    \/ Process
    \/ SkipIdle
    \/ SendQueued
    \/ SendNothing
    \/ PollTc
    \/ NotPolled
    \/ CheckTimeout

Next ==
    \/ Api
    \/ NotifySlotClose
    \/ Poll
    \/ \E s \in Slots, c \in Conns : TimeoutElapses(s, c)

Spec == Init /\ [][Next]_vars

\* The application calls en50221_tl_poll for ever, time passes, and a thread in
\* en50221_tl_destroy_slot finishes.  Nothing is assumed of the CAM or of the
\* callers of the API.
FairSpec ==
    /\ Spec
    /\ WF_vars(Poll)
    /\ WF_vars(NotifySlotClose)
    /\ \A s \in Slots, c \in Conns : WF_vars(TimeoutElapses(s, c))

-----------------------------------------------------------------------------
(* Properties.                                                             *)

Queued(p, m) == \E i \in 1 .. Len(queue[p]) : queue[p][i] = m

\* Chained data is kept only for a connection that can still get the rest of it:
\* en50221_tl_alloc_new_tc overwrites chain_buffer without freeing it, so a chain
\* left on a connection that became idle would be lost memory.
NoChainLeftBehind ==
    \A p \in Slots \X Conns :
        chained[p] => state[p] \in {T_STATE_ACTIVE, T_STATE_ACTIVE_DELETEQUEUED}

\* A slot that is not registered has nothing left in it, also while the poll
\* thread is still working through data the CAM sent before en50221_tl_destroy_slot.
UnregisteredIsClean ==
    \A p \in Slots \X Conns : hndl[p[1]] = NoHndl =>
        /\ state[p] = T_STATE_IDLE
        /\ tx[p] = "ok"
        /\ queue[p] = << >>
        /\ ~chained[p]

\* Nothing is queued behind T_DELETE_T_C, it is queued only while the connection
\* is about to be deleted, and once it is sent nothing is left to send.
DeleteIsLast ==
    \A p \in Slots \X Conns :
        /\ \A i \in 1 .. Len(queue[p]) : queue[p][i] = T_DELETE_T_C =>
              i = Len(queue[p]) /\ state[p] = T_STATE_ACTIVE_DELETEQUEUED
        /\ state[p] = T_STATE_IN_DELETION => queue[p] = << >>

\* A connection that is open, or being deleted, has been reported open and not
\* reported closed since: a late SLOTCLOSE never hits a connection opened after it.
OpenIsAnnounced ==
    \A p \in Slots \X Conns :
        state[p] \notin {T_STATE_IDLE, T_STATE_IN_CREATION} => p \in told

\* While writes succeed and the CAM requests connections on open ones only, a
\* connection that waits for an answer has its request queued or its timer
\* running, and one about to be deleted has T_DELETE_T_C queued: no connection
\* waits for something nobody will send.
HandshakeIsDriven ==
    (~WriteMayFail /\ CamPolite) => \A p \in Slots \X Conns :
        /\ state[p] = T_STATE_IN_CREATION => Queued(p, T_CREATE_T_C) \/ tx[p] # "ok"
        /\ state[p] = T_STATE_IN_DELETION => tx[p] # "ok"
        /\ state[p] = T_STATE_ACTIVE_DELETEQUEUED => Queued(p, T_DELETE_T_C)

\* The poll thread visits connection p.
Visits(p) == pc = "send" /\ cur = p[1] /\ conn = p[2]

\* As long as the poll thread keeps visiting it, a connection does not stay in
\* creation or in deletion for ever: the answer comes or the timeout ends it.
HandshakeCompletes ==
    \A p \in Slots \X Conns : ([]<>Visits(p)) =>
        /\ state[p] = T_STATE_IN_CREATION ~> state[p] # T_STATE_IN_CREATION
        /\ state[p] = T_STATE_IN_DELETION ~> state[p] # T_STATE_IN_DELETION

\* As long as the poll thread keeps visiting it, T_DELETE_T_C is sent on a
\* connection for which en50221_tl_del_tc returned 0.
DeletionCompletes ==
    \A p \in Slots \X Conns : ([]<>Visits(p)) =>
        (state[p] = T_STATE_ACTIVE_DELETEQUEUED
             ~> state[p] # T_STATE_ACTIVE_DELETEQUEUED)

\* The abstract view: a connection about to be deleted is closing already.
PhaseOf(st) ==
    CASE st = T_STATE_IDLE -> "closed"
      [] st = T_STATE_IN_CREATION -> "opening"
      [] st = T_STATE_ACTIVE -> "open"
      [] OTHER -> "closing"

Service == INSTANCE TcService WITH
    up <- {s \in Slots : hndl[s] # NoHndl},
    phase <- [p \in Slots \X Conns |-> PhaseOf(state[p])],
    announced <- told

\* The transport layer implements the connection service.
ServiceSpec == Service!SSpec

-----------------------------------------------------------------------------
(* What the comments and documentation say and the code does not do.       *)

\* "this transport waits for a T_C_T_C_REPLY to become active": creation is given
\* up for want of a reply only after the request was sent.
GivenUpAfterSending ==
    [][\A p \in Slots \X Conns :
          state[p] = T_STATE_IN_CREATION /\ state'[p] = T_STATE_IDLE
              => ~Queued(p, T_CREATE_T_C)']_vars
=============================================================================
