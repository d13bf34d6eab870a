------------------------------ MODULE TcService ------------------------------
(***************************************************************************)
(* What the transport layer promises the session layer about transport     *)
(* connections, without queues, timers, locks or the poll loop: a          *)
(* connection is closed, opening, open or closing; it leaves "closed" only *)
(* on a slot that is registered; opening it and telling the upper layer is *)
(* one step; and the upper layer is told that a slot is gone only while it *)
(* is gone.                                                                *)
(***************************************************************************)
EXTENDS Integers

CONSTANTS Slots, Conns

VARIABLES
    up,         \* registered slots
    phase,      \* phase of each connection
    announced   \* connections reported open and not reported closed since

svars == <<up, phase, announced>>

Phases == {"closed", "opening", "open", "closing"}

SInit ==
    /\ up = {}
    /\ phase = [p \in Slots \X Conns |-> "closed"]
    /\ announced = {}

Insert(s) ==
    /\ s \notin up
    /\ up' = up \cup {s}
    /\ UNCHANGED <<phase, announced>>

\* Every connection of the slot is closed at once.
Remove(s) ==
    /\ up' = up \ {s}
    /\ phase' = [p \in Slots \X Conns |-> IF p[1] = s THEN "closed" ELSE phase[p]]
    /\ UNCHANGED announced

\* The upper layer learns that the slot is gone.
Report(s) ==
    /\ s \notin up
    /\ announced' = {p \in announced : p[1] # s}
    /\ UNCHANGED <<up, phase>>

Open(p) ==
    /\ p[1] \in up
    /\ phase[p] = "closed"
    /\ phase' = [phase EXCEPT ![p] = "opening"]
    /\ UNCHANGED <<up, announced>>

Accept(p) ==
    /\ phase[p] = "opening"
    /\ phase' = [phase EXCEPT ![p] = "open"]
    /\ announced' = announced \cup {p}
    /\ UNCHANGED up

Release(p) ==
    /\ phase[p] = "open"
    /\ phase' = [phase EXCEPT ![p] = "closing"]
    /\ UNCHANGED <<up, announced>>

\* A connection ends without a word to the upper layer: it is refused or released,
\* times out, or the answer to the CAM's T_DELETE_T_C cannot be written.
Close(p) ==
    /\ phase[p] # "closed"
    /\ phase' = [phase EXCEPT ![p] = "closed"]
    /\ UNCHANGED <<up, announced>>

\* The CAM closes a connection and the upper layer is told.
Hangup(p) ==
    /\ phase[p] \in {"open", "closing"}
    /\ phase' = [phase EXCEPT ![p] = "closed"]
    /\ announced' = announced \ {p}
    /\ UNCHANGED up

SNext ==
    \/ \E s \in Slots : Insert(s) \/ Remove(s) \/ Report(s)
    \/ \E p \in Slots \X Conns :
          Open(p) \/ Accept(p) \/ Release(p) \/ Close(p) \/ Hangup(p)

SSpec == SInit /\ [][SNext]_svars
=============================================================================
