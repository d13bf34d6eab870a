------------------------------- MODULE StdCam -------------------------------
(***************************************************************************)
(* A CAM as gnutv drives it, through the low level standard CAM of         *)
(* libdvben50221 (en50221_stdcam_llci.c).  Three threads share the stdcam: *)
(*   the CAM thread   polls the slot and the stack, and runs the callbacks *)
(*                    of the session layer and of the resources;           *)
(*   the DVB thread   hands every new PMT to the CAM;                      *)
(*   the main thread  answers the menus of the CAM, and ends the program.  *)
(* The transport layer appears as the slot that is registered with it and  *)
(* the connection as the CAM and as the host see it (module Transport), the *)
(* session layer as its table of sessions (module Session).                *)
(*                                                                         *)
(* Left out: the date and time resource, the list management byte of a     *)
(* PMT, malformed objects (module AppFormats), further connections a CAM   *)
(* may ask for, the data thread.                                           *)
(***************************************************************************)
EXTENDS Integers, FiniteSets, FiniteSetsExt

CONSTANTS
    Resources,      \* the resources a CAM asks for: "rm", "ai", "ca", "mmi"
    Versions,       \* the versions of them it asks for; ours is 1
    MaxSession,     \* sl->max_sessions - 1
    Options,        \* how gnutv was started: "channel", "menu" (-cammenu, no channel)
    MaxPieces       \* bound on the pieces of a menu that are kept

ASSUME StdCamAssumption ==
    /\ Resources \subseteq {"rm", "ai", "ca", "mmi"}
    /\ MaxSession \in Nat \ {0}
    /\ MaxPieces \in Nat
    /\ Options \subseteq {"channel", "menu"}

Numbers == 1 .. MaxSession

\* The resources with one session at a time, whose number the stdcam keeps.
Limited == Resources \ {"rm"}

VARIABLES
    opts,           \* an option
    slot,           \* what dvbca_get_cam_state() says: "missing", "reset", "ready"
    camconn,        \* the CAM in the slot has a transport connection
    llci,           \* llci->state: "none", "inreset", "ok", "bad"
    tl_slot_id,     \* -1, or the slot registered in the transport layer
    registered,     \* whether the only slot of the transport layer is in use
    tc,             \* whether its connection is T_STATE_ACTIVE
    session,        \* the table of the session layer
    held,           \* x_session_number of each limited resource, -1 if none
    connected,      \* ca_resource_connected
    entered_menu,
    chain,          \* pieces in menu_block_chain, for each session number
    mine,           \* pieces of its current menu that the CAM has sent, for each
    left,           \* pieces that closed sessions have left in the chain
    shown,          \* the menu that was handed to the application in this poll
    mmi_state,
    owed,           \* the CAM has asked something that was not answered
    cam,            \* where the CAM thread is
    pending,        \* the session whose callback is outstanding, 0 if none
    after,          \* where the CAM thread goes when the sessions are closed
    air,            \* the PAT and PMT version on air
    dvb,            \* where the DVB thread is
    pat_version,
    pmt_fd,         \* the PAT version whose PMT is filtered, or -1
    ca_pmt_version,
    section,        \* the PMT that is being handed on
    number,         \* the session number it is handed to
    sent,           \* the PMT the CA session that is held was given last
    astray,         \* the last PMT went elsewhere than to the CA session held then
    main,           \* where the main thread is
    shutdown,       \* the threads that were told to end
    alive           \* what has been created and not destroyed

slotvars == <<slot, camconn>>
llcivars == <<llci, tl_slot_id, registered, tc>>
mmivars == <<chain, mine, left, shown, mmi_state, owed>>
dvbstate == <<air, dvb, pat_version, pmt_fd, ca_pmt_version, section, number, astray>>
dvbvars == <<dvbstate, sent>>
camvars == <<cam, pending, after>>
mainvars == <<main, shutdown, alive>>
vars == <<opts, slotvars, llcivars, session, held, connected, entered_menu, mmivars,
          camvars, dvbvars, mainvars>>

Idle == [state |-> "idle", res |-> "none"]
NoPmt == [pat |-> -1, pmt |-> -1]
NoMenu == [got |-> 0, sent |-> 0, left |-> 0]
Open(n) == session[n].state = "active"

TypeOK ==
    /\ opts \in Options
    /\ slot \in {"missing", "reset", "ready"} /\ camconn \in BOOLEAN
    /\ llci \in {"none", "inreset", "ok", "bad"}
    /\ tl_slot_id \in {-1, 0} /\ registered \in BOOLEAN /\ tc \in BOOLEAN
    /\ session \in [Numbers -> [state : {"idle", "creation", "active"},
                                res : Resources \cup {"none"}]]
    /\ held \in [Limited -> Numbers \cup {-1}]
    /\ {connected, entered_menu, owed, astray} \subseteq BOOLEAN
    /\ chain \in [Numbers -> 0 .. MaxPieces] /\ left \in [Numbers -> 0 .. MaxPieces]
    /\ mine \in [Numbers -> 0 .. MaxPieces]
    /\ mmi_state \in {"closed", "open", "enq", "menu"}
    /\ cam \in {"poll", "closing", "told", "told_next", "removed", "stack", "opening", "connected",
                "menu", "exit"}
    /\ pending \in Numbers \cup {0}
    /\ dvb \in {"loop", "pmt", "send", "write", "exit"}
    /\ number \in Numbers \cup {-1}
    /\ main \in {"ui", "answer", "answered", "dvb_stop", "ca_stop", "stdcam", "sl", "tl",
                 "done"}
    /\ shutdown \subseteq {"cam", "dvb"}
    /\ alive \subseteq {"stdcam", "sl", "tl"}
    /\ llci = "none" => tl_slot_id = -1
    /\ llci = "ok" => tl_slot_id = 0

\* gnutv_ca_start() has returned; the DVB thread is started when there is a channel.
Init ==
    /\ opts \in Options
    /\ slot \in {"missing", "ready"}
    /\ camconn = FALSE
    /\ llci = "none"
    /\ tl_slot_id = -1
    /\ registered = FALSE
    /\ tc = FALSE
    /\ session = [n \in Numbers |-> Idle]
    /\ held = [r \in Limited |-> -1]
    /\ connected = FALSE
    /\ entered_menu = FALSE
    /\ chain = [n \in Numbers |-> 0]
    /\ mine = [n \in Numbers |-> 0]
    /\ left = [n \in Numbers |-> 0]
    /\ shown = NoMenu
    /\ mmi_state = "closed"
    /\ owed = FALSE
    /\ cam = "poll"
    /\ pending = 0
    /\ after = "menu"
    /\ air = [pat |-> 0, pmt |-> 0]
    /\ dvb = IF opts = "channel" THEN "loop" ELSE "exit"
    /\ pat_version = -1
    /\ pmt_fd = -1
    /\ ca_pmt_version = -1
    /\ section = NoPmt
    /\ number = -1
    /\ sent = NoPmt
    /\ astray = FALSE
    /\ main = "ui"
    /\ shutdown = {}
    /\ alive = {"stdcam", "sl", "tl"}

-----------------------------------------------------------------------------
(* The slot.                                                               *)

\* The CAM is pulled out, another one is put in, a CAM has finished its reset.
SlotChanges ==
    /\ \/ slot # "missing" /\ slot' = "missing" /\ camconn' = FALSE /\ sent' = NoPmt
       \/ slot # "ready" /\ slot' = "ready" /\ UNCHANGED <<camconn, sent>>
    /\ UNCHANGED <<opts, llcivars, session, held, connected, entered_menu, mmivars,
                   camvars, dvbstate, mainvars>>

-----------------------------------------------------------------------------
(* The CAM thread: en50221_stdcam_llci_poll(), over and over.              *)

\* Nothing to do for the state of the slot.
SameState ==
    /\ \/ slot = "missing" /\ llci = "none"
       \/ slot = "reset"
       \/ slot = "ready" /\ llci \in {"ok", "bad"}
    /\ cam' = "stack"
    /\ UNCHANGED <<slotvars, llcivars, after, sent>>

\* The CAM is reset before anything else is done with it.
llci_cam_added ==
    /\ slot = "ready"
    /\ llci = "none"
    /\ slot' = "reset"
    /\ camconn' = FALSE
    /\ sent' = NoPmt
    /\ llci' = "inreset"
    /\ cam' = "stack"
    /\ UNCHANGED <<tl_slot_id, registered, tc, after>>

\* The slot is registered, and a connection is created.  When that fails, tl_slot_id is
\* cleared before the slot is destroyed: it stays registered.
llci_cam_in_reset ==
    /\ slot = "ready"
    /\ llci = "inreset"
    /\ \/ /\ registered
          /\ llci' = "bad"
          /\ UNCHANGED <<tl_slot_id, registered, tc, camconn>>
       \/ /\ ~registered
          /\ registered' = TRUE
          /\ \/ llci' = "ok" /\ tl_slot_id' = 0 /\ camconn' = TRUE /\ tc' = TRUE
             \/ llci' = "bad" /\ tl_slot_id' = -1 /\ UNCHANGED <<camconn, tc>>
    /\ cam' = "stack"
    /\ UNCHANGED <<slot, after, sent>>

\* The slot is destroyed, which closes its sessions one after another.
llci_cam_removed ==
    /\ slot = "missing"
    /\ llci # "none"
    /\ IF tl_slot_id = -1
       THEN llci' = "none" /\ cam' = "stack" /\ UNCHANGED <<registered, tc, after>>
       ELSE /\ registered' = FALSE
            /\ tc' = FALSE
            /\ cam' = "closing"
            /\ after' = "removed"
            /\ UNCHANGED llci
    /\ UNCHANGED <<slotvars, tl_slot_id, sent>>

en50221_stdcam_llci_poll ==
    /\ cam = "poll"
    /\ "cam" \notin shutdown
    /\ SameState \/ llci_cam_added \/ llci_cam_in_reset \/ llci_cam_removed
    /\ UNCHANGED <<opts, session, held, connected, entered_menu, mmivars, pending, dvbstate,
                   mainvars>>

\* The sessions are gone; llci_cam_removed() goes on.
Removed ==
    /\ cam = "removed"
    /\ tl_slot_id' = -1
    /\ held' = [r \in Limited |-> -1]
    /\ sent' = NoPmt
    /\ llci' = "none"
    /\ cam' = "stack"
    /\ UNCHANGED <<opts, slotvars, registered, tc, session, connected, entered_menu, mmivars,
                   pending, after, dvbstate, mainvars>>

\* After the poll: the menu is asked for, once, when there is a CA resource.
EnterMenu ==
    /\ cam = "menu"
    /\ entered_menu' = (entered_menu \/ (opts = "menu" /\ connected))
    /\ shown' = NoMenu
    /\ cam' = "poll"
    /\ UNCHANGED <<opts, slotvars, llcivars, session, held, connected, chain, mine, left,
                   mmi_state, owed, pending, after, dvbvars, mainvars>>

CamThreadEnds ==
    /\ cam = "poll"
    /\ "cam" \in shutdown
    /\ cam' = "exit"
    /\ UNCHANGED <<opts, slotvars, llcivars, session, held, connected, entered_menu,
                   mmivars, pending, after, dvbvars, mainvars>>

-----------------------------------------------------------------------------
(* en50221_tl_poll() hands one message of the CAM to the session layer.    *)

Polling == cam = "stack"
CanTalk == camconn /\ tc

\* Nothing was received.
Quiet ==
    /\ Polling
    /\ cam' = "menu"
    /\ UNCHANGED <<opts, slotvars, llcivars, session, held, connected, entered_menu,
                   mmivars, pending, after, dvbvars, mainvars>>

\* llci_lookup_callback(): only a request for our own version is limited.
llci_lookup_callback(r, version) ==
    r \in Resources /\ (r \in Limited /\ version = 1 => held[r] = -1)

\* Mutant: the loop goes one too far.
en50221_sl_alloc_new_session_past ==
    LET free == {n \in Numbers : session[n].state = "idle"}
    IN  IF free = {} THEN MaxSession + 1 ELSE Min(free)

\* The first free number.
en50221_sl_alloc_new_session ==
    LET free == {n \in Numbers : session[n].state = "idle"}
    IN  IF free = {} THEN 0 ELSE Min(free)

\* The CAM asks for a session; it gets one, or is refused.
OpenSession(r, version) ==
    LET n == en50221_sl_alloc_new_session
    IN  /\ Polling
        /\ CanTalk
        /\ IF llci_lookup_callback(r, version) /\ n # 0
           THEN /\ session' = [session EXCEPT ![n] = [state |-> "creation", res |-> r]]
                /\ pending' = n
                /\ cam' = "opening"
           ELSE UNCHANGED <<session, pending>> /\ cam' = "menu"
        /\ UNCHANGED <<opts, slotvars, llcivars, held, connected, entered_menu, mmivars,
                       after, dvbvars, mainvars>>

\* The answer was sent, or could not be.
Answer ==
    /\ cam = "opening"
    /\ \/ session' = [session EXCEPT ![pending].state = "active"]
          /\ cam' = "connected"
          /\ UNCHANGED pending
       \/ session' = [session EXCEPT ![pending] = Idle]
          /\ cam' = "menu"
          /\ pending' = 0
    /\ UNCHANGED <<opts, slotvars, llcivars, held, connected, entered_menu, mmivars, after,
                   dvbvars, mainvars>>

\* Mutant: the number of a closed CA session is kept.
llci_session_callback_keeps(reason, n, r) ==
    IF r \in Limited /\ ~(reason = "close" /\ r = "ca")
    THEN [held EXCEPT ![r] = IF reason = "connected" THEN n ELSE -1]
    ELSE held

\* What llci_session_callback() makes of the numbers when session n of resource r is
\* connected, or closed.
llci_session_callback(reason, n, r) ==
    IF r \in Limited
    THEN [held EXCEPT ![r] = IF reason = "connected" THEN n ELSE -1]
    ELSE held

\* What the CA session that is held was given counts no longer when that changes.
StillSent == sent' = IF session[pending].res = "ca" THEN NoPmt ELSE sent

Connected ==
    /\ cam = "connected"
    /\ held' = llci_session_callback("connected", pending, session[pending].res)
    /\ StillSent
    /\ pending' = 0
    /\ cam' = "menu"
    /\ UNCHANGED <<opts, slotvars, llcivars, session, connected, entered_menu, mmivars,
                   after, dvbstate, mainvars>>

\* The session layer has made session n idle; its number is free, and the callback is
\* outstanding.  The fragments of menus stay where they are.
Closes(n) ==
    /\ session' = [session EXCEPT ![n].state = "idle"]
    /\ pending' = n
    /\ left' = IF session[n].res = "mmi" THEN [left EXCEPT ![n] = chain[n]] ELSE left
    /\ mine' = [mine EXCEPT ![n] = 0]
    /\ UNCHANGED <<opts, slotvars, llcivars, held, connected, entered_menu, chain, shown,
                   mmi_state, owed, dvbvars, mainvars>>

\* The CAM closes a session.
CloseSession(n) ==
    /\ Polling
    /\ CanTalk
    /\ Open(n)
    /\ Closes(n)
    /\ cam' = "told"
    /\ UNCHANGED after

\* The CAM closes its connection, and with it all sessions.  When the reply cannot be
\* written nobody is told: the sessions stay.
CloseConnection ==
    /\ Polling
    /\ CanTalk
    /\ camconn' = FALSE
    /\ tc' = FALSE
    /\ sent' = NoPmt
    /\ cam' \in {"closing", "menu"}
    /\ UNCHANGED <<opts, slot, llci, tl_slot_id, registered, session, held, connected,
                   entered_menu, mmivars, pending, after, dvbstate, mainvars>>

\* The loop over the sessions, for CONNECTIONCLOSE and SLOTCLOSE.
CloseNext ==
    LET rest == {n \in Numbers : session[n].state # "idle"}
    IN  /\ cam = "closing"
        /\ rest # {}
        /\ Closes(Min(rest))
        /\ cam' = "told_next"
        /\ UNCHANGED after

AllClosed ==
    /\ cam = "closing"
    /\ \A n \in Numbers : session[n].state = "idle"
    /\ cam' = after
    /\ after' = "menu"
    /\ UNCHANGED <<opts, slotvars, llcivars, session, held, connected, entered_menu,
                   mmivars, pending, dvbvars, mainvars>>

\* The callback.  The loop goes on behind it, if there is one.
Told ==
    /\ cam \in {"told", "told_next"}
    /\ held' = llci_session_callback("close", pending, session[pending].res)
    /\ StillSent
    /\ session' = [session EXCEPT ![pending] = Idle]
    /\ pending' = 0
    /\ cam' = IF cam = "told_next" THEN "closing" ELSE "menu"
    /\ UNCHANGED <<opts, slotvars, llcivars, connected, entered_menu, mmivars, after,
                   dvbstate, mainvars>>

-----------------------------------------------------------------------------
(* Objects on a session, and the callbacks of gnutv.                       *)

Object(r) == Polling /\ CanTalk /\ \E n \in Numbers : Open(n) /\ session[n].res = r

\* gnutv_ca_info_callback(): there is a CA resource, from now on.
CaInfo ==
    /\ Object("ca")
    /\ connected' = TRUE
    /\ cam' = "menu"
    /\ UNCHANGED <<opts, slotvars, llcivars, session, held, entered_menu, mmivars, pending,
                   after, dvbvars, mainvars>>

\* Mutant: the chain is not emptied behind the last piece.
en50221_app_mmi_defragment_keeps(n, last) ==
    /\ chain' = [chain EXCEPT ![n] = IF last THEN @ ELSE @ + 1]
    /\ left' = IF last THEN [left EXCEPT ![n] = 0] ELSE left
    /\ mine' = [mine EXCEPT ![n] = IF last THEN 0 ELSE @ + 1]
    /\ shown' = IF last THEN [got |-> chain[n] + 1, sent |-> mine[n] + 1, left |-> left[n]]
                        ELSE shown

\* en50221_app_mmi_defragment(): a piece is kept until the last one arrives.
en50221_app_mmi_defragment(n, last) ==
    /\ chain' = [chain EXCEPT ![n] = IF last THEN 0 ELSE @ + 1]
    /\ left' = IF last THEN [left EXCEPT ![n] = 0] ELSE left
    /\ mine' = [mine EXCEPT ![n] = IF last THEN 0 ELSE @ + 1]
    /\ shown' = IF last THEN [got |-> chain[n] + 1, sent |-> mine[n] + 1, left |-> left[n]]
                        ELSE shown

\* A piece of a menu or a list, on session n.
MmiMenu(n, last) ==
    /\ Polling /\ CanTalk /\ Open(n) /\ session[n].res = "mmi"
    /\ last \/ chain[n] < MaxPieces
    /\ en50221_app_mmi_defragment(n, last)
    /\ mmi_state' = IF last THEN "menu" ELSE mmi_state
    /\ owed' = (owed \/ last)
    /\ cam' = "menu"
    /\ UNCHANGED <<opts, slotvars, llcivars, session, held, connected, entered_menu,
                   pending, after, dvbvars, mainvars>>

\* The other objects: an enquiry, the opening and the closing of the dialogue.
MmiObject ==
    /\ Object("mmi")
    /\ \/ mmi_state' = "enq" /\ owed' = TRUE
       \/ mmi_state' \in {"open", "closed"} /\ UNCHANGED owed
    /\ cam' = "menu"
    /\ UNCHANGED <<opts, slotvars, llcivars, session, held, connected, entered_menu, chain,
                   mine, left, shown, pending, after, dvbvars, mainvars>>

CamThread ==
    \/ en50221_stdcam_llci_poll \/ Removed \/ EnterMenu \/ CamThreadEnds
    \/ Quiet \/ Answer \/ Connected \/ CloseNext \/ AllClosed \/ Told
    \/ \E r \in Resources, v \in Versions : OpenSession(r, v)
    \/ \E n \in Numbers : CloseSession(n)
    \/ CloseConnection
    \/ CaInfo
    \/ opts = "menu" /\ \E n \in Numbers, last \in BOOLEAN : MmiMenu(n, last)
    \/ opts = "menu" /\ MmiObject

-----------------------------------------------------------------------------
(* The DVB thread of gnutv.                                                *)

\* The broadcaster moves the PMT, or changes it.
AirChanges ==
    /\ opts = "channel"
    /\ \/ air.pat = 0 /\ air' = [air EXCEPT !.pat = 1]
       \/ air.pmt = 0 /\ air' = [air EXCEPT !.pmt = 1]
    /\ UNCHANGED <<opts, slotvars, llcivars, session, held, connected, entered_menu,
                   mmivars, camvars, dvb, pat_version, pmt_fd, ca_pmt_version, section,
                   number, sent, astray, mainvars>>

\* What the DVB thread leaves alone.
DvbFrame ==
    UNCHANGED <<opts, slotvars, llcivars, session, held, connected, entered_menu, mmivars,
                camvars, air, mainvars>>

\* Mutant: a PMT on another pid does not count as new.
process_pat_samepmt ==
    /\ pmt_fd' = air.pat
    /\ pat_version' = air.pat
    /\ ca_pmt_version' = ca_pmt_version

\* A new PAT: the PMT is filtered on its new pid, and counts as new.
process_pat ==
    /\ pmt_fd' = air.pat
    /\ pat_version' = air.pat
    /\ ca_pmt_version' = -1

NewPat ==
    /\ dvb = "loop"
    /\ pat_version # air.pat
    /\ process_pat
    /\ UNCHANGED <<dvb, section, number, sent, astray>>
    /\ DvbFrame

\* The old filter is closed, the new one cannot be created: the PAT stays unseen.
NoPmtFilter ==
    /\ dvb = "loop"
    /\ pat_version # air.pat
    /\ pmt_fd' = -1
    /\ UNCHANGED <<dvb, pat_version, ca_pmt_version, section, number, sent, astray>>
    /\ DvbFrame

\* process_pmt() and gnutv_ca_new_pmt(), as far as the check for a CA resource.
process_pmt ==
    /\ dvb = "loop"
    /\ pmt_fd = air.pat
    /\ air.pmt # ca_pmt_version
    /\ connected
    /\ section' = air
    /\ astray' = FALSE
    /\ dvb' = "pmt"
    /\ UNCHANGED <<pat_version, pmt_fd, ca_pmt_version, number, sent>>
    /\ DvbFrame

\* The session number is read.
gnutv_ca_new_pmt ==
    /\ dvb = "pmt"
    /\ number' = held["ca"]
    /\ dvb' = "send"
    /\ UNCHANGED <<pat_version, pmt_fd, ca_pmt_version, section, sent, astray>>
    /\ DvbFrame

\* The PMT is done with.
PmtDone ==
    /\ number' = -1
    /\ section' = NoPmt
    /\ dvb' = "loop"
    /\ UNCHANGED <<pat_version, pmt_fd>>
    /\ DvbFrame

\* A number that names an open session.
Usable(n) == n # -1 /\ Open(n)

\* en50221_sl_send_datav() refuses a session that is not open, and lets go of its lock.
en50221_sl_send_datav ==
    /\ dvb = "send"
    /\ \/ /\ Usable(number)
          /\ dvb' = "write"
          /\ UNCHANGED <<pat_version, pmt_fd, section, number>>
          /\ DvbFrame
       \/ /\ ~Usable(number)
          /\ PmtDone
    /\ UNCHANGED <<ca_pmt_version, sent, astray>>

\* en50221_tl_send_datav() refuses a slot that is gone and a connection that is not
\* active.
Accepts == registered /\ tc

\* What is sent to session n is taken by the CAM, for the CA session that is held.
Reaches(n) == camconn /\ n = held["ca"] /\ Open(n)

\* The PMT is sent, and its version remembered when that succeeds.
SendPmt ==
    /\ dvb = "write"
    /\ \/ /\ Accepts
          /\ ca_pmt_version' = section.pmt
          /\ sent' = IF Reaches(number) THEN section ELSE sent
          /\ astray' = ~Reaches(number)
       \/ /\ ~Accepts
          /\ UNCHANGED <<ca_pmt_version, sent, astray>>
    /\ PmtDone

DvbThreadEnds ==
    /\ dvb = "loop"
    /\ "dvb" \in shutdown
    /\ dvb' = "exit"
    /\ UNCHANGED <<pat_version, pmt_fd, ca_pmt_version, section, number, sent, astray>>
    /\ DvbFrame

DvbThread ==
    \/ NewPat \/ NoPmtFilter \/ process_pmt \/ gnutv_ca_new_pmt
    \/ en50221_sl_send_datav \/ SendPmt \/ DvbThreadEnds

-----------------------------------------------------------------------------
(* The main thread of gnutv.                                               *)

\* What the main thread leaves alone, but for mmi_state and owed.
MainFrame ==
    UNCHANGED <<opts, slotvars, connected, entered_menu, chain, mine, left, shown, camvars,
                dvbstate>>

\* gnutv_ca_ui() has read a line, and looks at mmi_state.
gnutv_ca_ui ==
    /\ main = "ui"
    /\ opts = "menu"
    /\ mmi_state \in {"enq", "menu"}
    /\ main' = "answer"
    /\ UNCHANGED <<llcivars, session, held, sent, mmi_state, owed, shutdown, alive>>
    /\ MainFrame

SendAnswer ==
    /\ main = "answer"
    /\ owed' = FALSE
    /\ main' = "answered"
    /\ UNCHANGED <<llcivars, session, held, sent, mmi_state, shutdown, alive>>
    /\ MainFrame

\* Mutant: the question stays open.
Answered_unchanged == mmi_state

\* mmi_state behind the answer.
Answered == "open"

AnswerSent ==
    /\ main = "answered"
    /\ mmi_state' = Answered
    /\ main' = "ui"
    /\ UNCHANGED <<llcivars, session, held, sent, owed, shutdown, alive>>
    /\ MainFrame

\* The user ends the program.
QuitApp ==
    /\ main = "ui"
    /\ main' = "dvb_stop"
    /\ shutdown' = {"dvb"}
    /\ UNCHANGED <<llcivars, session, held, sent, mmi_state, owed, alive>>
    /\ MainFrame

\* Mutant: the DVB thread is told to end and not waited for.
gnutv_dvb_stop_nojoin == TRUE

\* Whether the DVB thread can be joined.
gnutv_dvb_stop == dvb = "exit"

DvbStopped ==
    /\ main = "dvb_stop"
    /\ gnutv_dvb_stop
    /\ main' = "ca_stop"
    /\ shutdown' = shutdown \cup {"cam"}
    /\ UNCHANGED <<llcivars, session, held, sent, mmi_state, owed, alive>>
    /\ MainFrame

CamStopped ==
    /\ main = "ca_stop"
    /\ cam = "exit"
    /\ main' = "stdcam"
    /\ UNCHANGED <<llcivars, session, held, sent, mmi_state, owed, shutdown, alive>>
    /\ MainFrame

\* The CAM is removed, with its slot and its sessions; then the stdcam is freed.
en50221_stdcam_llci_destroy ==
    /\ main = "stdcam"
    /\ llci' = "none"
    /\ tl_slot_id' = -1
    /\ registered' = (registered /\ tl_slot_id = -1)
    /\ tc' = (tc /\ tl_slot_id = -1)
    /\ session' = [n \in Numbers |-> Idle]
    /\ held' = [r \in Limited |-> -1]
    /\ sent' = NoPmt
    /\ alive' = alive \ {"stdcam"}
    /\ main' = "sl"
    /\ UNCHANGED <<mmi_state, owed, shutdown>>
    /\ MainFrame

\* The layers are destroyed, the session layer first.
DestroyLayer ==
    /\ main \in {"sl", "tl"}
    /\ alive' = alive \ {main}
    /\ main' = IF main = "sl" THEN "tl" ELSE "done"
    /\ UNCHANGED <<llcivars, session, held, sent, mmi_state, owed, shutdown>>
    /\ MainFrame

MainThread ==
    \/ gnutv_ca_ui \/ SendAnswer \/ AnswerSent
    \/ QuitApp \/ DvbStopped \/ CamStopped
    \/ en50221_stdcam_llci_destroy \/ DestroyLayer

-----------------------------------------------------------------------------

Next == SlotChanges \/ CamThread \/ AirChanges \/ DvbThread \/ MainThread

Spec == Init /\ [][Next]_vars

\* The threads run on; the PMT is repeated on air, and its filter can be created at last.
FairSpec ==
    /\ Spec
    /\ WF_vars(CamThread)
    /\ WF_vars(NewPat)
    /\ WF_vars(process_pmt \/ gnutv_ca_new_pmt \/ en50221_sl_send_datav \/ SendPmt
               \/ DvbThreadEnds)
    /\ WF_vars(DvbStopped \/ CamStopped \/ en50221_stdcam_llci_destroy \/ DestroyLayer)

-----------------------------------------------------------------------------

\* A number the stdcam keeps is that of an open session of its resource, whatever order
\* sessions, connections and slots are opened and closed in, and however many sessions
\* of the resource a CAM gets: what the application sends on it never goes to a session
\* that is closed or belongs to another resource.  Only the step between a change of the
\* table and its callback is excepted.
HeldIsOpen ==
    \A r \in Limited : held[r] # -1 /\ held[r] # pending =>
        Open(held[r]) /\ session[held[r]].res = r

\* A menu that is handed to the application is made of the pieces of that menu and no
\* others, also with two MMI sessions at a time.  Nothing is said of a session that has
\* taken the number over from one that was closed in the middle of a menu: its first
\* menu does get the pieces that were left (en50221_app_mmi_clear_session() is never
\* called).
MenusAreWhole == shown.left = 0 => shown.got = shown.sent

\* The user's answer is sent for a question of the CAM that was not answered before,
\* however questions and answers cross.
AnsweredOnce == [][main = "answer" /\ main' = "answered" => owed]_vars

\* A thread that runs has its stdcam and its layers, and the stdcam is destroyed while
\* it still has the layers it takes its slot out of.
FreedIsUnused ==
    /\ cam # "exit" => alive = {"stdcam", "sl", "tl"}
    /\ dvb # "exit" => "stdcam" \in alive
    /\ main = "stdcam" => {"sl", "tl"} \subseteq alive

\* The CAM is connected and holds a CA session, and has announced itself.
CaUp ==
    /\ connected /\ held["ca"] # -1 /\ camconn /\ tc
    /\ "dvb" \notin shutdown /\ opts = "channel"

\* The DVB thread has not handed on the PMT that is on air.
NewOnAir == pat_version # air.pat \/ ca_pmt_version # air.pmt

\* While the CAM holds a CA session and can be reached, a PMT that the DVB thread has not
\* handed on yet reaches that session: neither a send that failed nor a PMT that moved to
\* another pid with the same version is forgotten.  Excepted is a PMT that went astray: the
\* number was read, and by the time it was used the session was another one.  Nothing is
\* said of a CA session opened after the PMT was handed on: it gets none before the next
\* version, since ca_pmt_version is not reset when the CAM goes.
PmtGetsThrough == CaUp /\ NewOnAir ~> (sent = air \/ ~CaUp \/ astray)

=============================================================================
