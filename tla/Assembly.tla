------------------------------ MODULE Assembly ------------------------------
(***************************************************************************)
(* Sections out of transport packets (lib/libucsi: section_buf.c,          *)
(* transport_packet.c, section.h), driven as test/libucsi/testucsi.c does: *)
(* the continuity of each packet is checked, its payload is given to the   *)
(* section_buf piece by piece, a complete section goes to the table state. *)
(* The packets come over a channel that loses, repeats and damages them.   *)
(*                                                                         *)
(* Byte k of section n is <<n, k>>.  A header that was put together from   *)
(* other bytes announces any length, and a byte inside a section may look  *)
(* like padding when it is taken for the first byte of one.                *)
(***************************************************************************)
EXTENDS Integers, Sequences, FiniteSets, FiniteSetsExt

CONSTANTS
    Payload,        \* bytes of payload in a packet (184 in a full one)
    Modulus,        \* of the continuity counter (16)
    MaxSection,     \* DVB_MAX_SECTION_BYTES
    Sections,       \* how many sections are sent
    Size(_),        \* of section n, its header included
    Version(_), Number(_), LastNumber(_),   \* of section n
    Faults          \* how often the channel fails

ASSUME AssemblyAssumption ==
    /\ Payload \in Nat /\ Payload > 2
    /\ Modulus \in Nat /\ Modulus > 1
    /\ MaxSection \in Nat /\ MaxSection >= 3      \* section_buf_init refuses less
    /\ Sections \in Nat /\ Faults \in Nat
    /\ \A n \in 1 .. Sections :
          /\ Size(n) \in 3 .. MaxSection
          /\ Version(n) \in Nat /\ Number(n) \in Nat /\ LastNumber(n) \in Nat

VARIABLES
    next,           \* the next section to be sent
    cur,            \* what is still to be sent of the section before it
    counter,        \* the sender's continuity counter
    last,           \* the last packet on the channel
    cstate,         \* the receiver's state of the continuity check
    sb,             \* the section_buf
    payload, pusi,  \* what is left of the packet in hand, its start indicator
    tstate,         \* the psi_table_state
    got,            \* the sections handed on that are what was sent
    taken,          \* the sections of tstate's version found useful
    clean,          \* start indicators since the last fault, up to 2
    from,           \* the first section that started at the second of them
    faults          \* how often the channel has failed

sender == <<next, cur, counter, last>>
receiver == <<sb, tstate, got, taken>>
vars == <<next, cur, counter, last, cstate, sb, payload, pusi, tstate, got, taken,
          clean, from, faults>>

SECTION_HDR_SIZE == 3
Pad == <<0, 0>>
None == 0

Bytes(n) == [k \in 1 .. Size(n) |-> <<n, k>>]
Take(s, k) == SubSeq(s, 1, Min({k, Len(s)}))
Drop(s, k) == SubSeq(s, k + 1, Len(s))
Padded(s, k) == s \o [i \in 1 .. k - Len(s) |-> Pad]

NoPacket == [bytes |-> << >>, start |-> FALSE, counter |-> 0, disc |-> FALSE]

-----------------------------------------------------------------------------
(* section_buf.c: a call returns one of a set of [sb, used, status].       *)

section_buf_init == [data |-> << >>, len |-> SECTION_HDR_SIZE, header |-> FALSE,
                     wait_pdu |-> TRUE]

\* wait_pdu survives the reset.
section_buf_reset(s) == [section_buf_init EXCEPT !.wait_pdu = s.wait_pdu]

section_buf_remaining(s) == s.len - Len(s.data)

Complete(s) == s.header /\ s.len = Len(s.data)

\* How many bytes in front of frag are, or look like, padding.
PaddingOf(frag) ==
    {j \in 0 .. Len(frag) :
        /\ \A i \in 1 .. j : frag[i] = Pad \/ frag[i][2] # 1
        /\ j = Len(frag) \/ frag[j + 1] # Pad}

\* The lengths the three bytes of a header can announce.
AnnouncedBy(hdr) ==
    LET n == hdr[1][1]
    IN  IF n \in 1 .. Sections /\ hdr = Take(Bytes(n), SECTION_HDR_SIZE)
        THEN {Size(n)}
        ELSE SECTION_HDR_SIZE .. MaxSection + 1

\* "accumulate frag": u bytes were used before.
Accumulate(s, frag, u) ==
    LET t == [s EXCEPT !.data = @ \o Take(frag, section_buf_remaining(s))]
    IN  [sb |-> t, used |-> u + Len(t.data) - Len(s.data),
         status |-> IF Complete(t) THEN 1 ELSE 0]

\* Mutant: the length is not compared with the size of the buffer.
GrabHeader_unchecked(s, frag, u) ==
    LET copy == Min({SECTION_HDR_SIZE - Len(s.data), Len(frag)})
        t == [s EXCEPT !.data = @ \o Take(frag, copy)]
    IN  IF Len(t.data) # SECTION_HDR_SIZE
        THEN {[sb |-> t, used |-> u + copy, status |-> 0]}
        ELSE {Accumulate([t EXCEPT !.len = l, !.header = TRUE],
                         Drop(frag, copy), u + copy) :
              l \in AnnouncedBy(t.data)}

\* "grab the header to get the section length".
GrabHeader(s, frag, u) ==
    LET copy == Min({SECTION_HDR_SIZE - Len(s.data), Len(frag)})
        t == [s EXCEPT !.data = @ \o Take(frag, copy)]
    IN  IF Len(t.data) # SECTION_HDR_SIZE
        THEN {[sb |-> t, used |-> u + copy, status |-> 0]}
        ELSE {IF l > MaxSection
              THEN [sb |-> [t EXCEPT !.len = l], used |-> u + Len(frag), status |-> -1]
              ELSE Accumulate([t EXCEPT !.len = l, !.header = TRUE],
                              Drop(frag, copy), u + copy) :
              l \in AnnouncedBy(t.data)}

section_buf_add(s, frag) ==
    IF Complete(s) THEN {[sb |-> s, used |-> 0, status |-> 1]}
    ELSE UNION {IF s.data = << >> /\ j = Len(frag)
                THEN {[sb |-> s, used |-> j, status |-> 0]}
                ELSE IF s.header THEN {Accumulate(s, frag, 0)}
                ELSE GrabHeader(s, Drop(frag, j), j) :
                j \in IF s.data = << >> THEN PaddingOf(frag) ELSE {0}}

\* Mutants: it is not checked that this was the end; the pointer's byte is not counted.
FinalFragment_trusting(s, frag) ==
    {[r EXCEPT !.used = 1 + @] : r \in section_buf_add(s, frag)}

FinalFragment_nopointer(s, frag) ==
    {IF r.used # Len(frag) \/ section_buf_remaining(r.sb) # 0 \/ r.status # 1
     THEN [sb |-> [r.sb EXCEPT !.wait_pdu = TRUE], used |-> r.used, status |-> -1]
     ELSE r :
     r \in section_buf_add(s, frag)}

\* The end of a section in front of the start the packet announces.
FinalFragment(s, frag) ==
    {IF r.used # Len(frag) \/ section_buf_remaining(r.sb) # 0 \/ r.status # 1
     THEN [sb |-> [r.sb EXCEPT !.wait_pdu = TRUE], used |-> 1 + r.used, status |-> -1]
     ELSE [r EXCEPT !.used = 1 + @] :
     r \in section_buf_add(s, frag)}

\* "just accumulate the data as normal", behind the first u bytes.
AddFrom(s, data, u) ==
    {[sb |-> IF r.status < 0 THEN [r.sb EXCEPT !.wait_pdu = TRUE] ELSE r.sb,
      used |-> u + r.used, status |-> r.status] :
     r \in section_buf_add(s, Drop(data, u))}

section_buf_add_transport_payload(s, data, start) ==
    LET offset == data[1][2]
        t == [s EXCEPT !.wait_pdu = FALSE]
    IN  CASE Complete(s) -> {[sb |-> s, used |-> 0, status |-> 1]}
          [] ~Complete(s) /\ s.wait_pdu /\ ~start ->
                {[sb |-> s, used |-> Len(data), status |-> 0]}
          [] ~Complete(s) /\ ~s.wait_pdu /\ ~start -> AddFrom(s, data, 0)
          [] ~Complete(s) /\ start /\ offset + 1 > Len(data) ->
                {[sb |-> [s EXCEPT !.wait_pdu = TRUE], used |-> Len(data), status |-> -1]}
          [] ~Complete(s) /\ start /\ offset + 1 <= Len(data) /\ s.data # << >> ->
                FinalFragment(t, SubSeq(data, 2, 1 + offset))
          [] ~Complete(s) /\ start /\ offset + 1 <= Len(data) /\ s.data = << >> ->
                AddFrom(t, data, 1 + offset)

-----------------------------------------------------------------------------
(* transport_packet.c and section.h.                                       *)

\* Is the packet the one that was expected, and the state afterwards.
transport_packet_continuity_check(p) ==
    LET expected == IF p.bytes = << >> THEN cstate.counter
                    ELSE (cstate.counter + 1) % Modulus
        seen(d) == [valid |-> TRUE, dupe |-> d, counter |-> p.counter]
    IN  CASE ~cstate.valid \/ p.disc \/ p.counter = expected ->
                [ok |-> TRUE, state |-> seen(FALSE)]
          [] cstate.valid /\ ~p.disc /\ p.counter # expected ->
                IF p.counter = cstate.counter /\ ~cstate.dupe
                THEN [ok |-> TRUE, state |-> seen(TRUE)]
                ELSE [ok |-> FALSE, state |-> cstate]

NoVersion == 255

psi_table_state_reset(t) == [t EXCEPT !.version = NoVersion]

\* Mutant: the sections of a table are taken as they come.
section_ext_useful_anyorder(t, n) ==
    LET fresh == Version(n) # t.version
        following == IF fresh THEN 1 ELSE t.next + 1
    IN  [yes |-> fresh \/ ~t.complete,
         state |-> IF fresh \/ ~t.complete
                   THEN [version |-> Version(n), next |-> following, new |-> fresh,
                         complete |-> LastNumber(n) < following]
                   ELSE t]

\* Is section n useful, and the state of the table afterwards.
section_ext_useful(t, n) ==
    LET fresh == Version(n) # t.version
        useful == IF fresh THEN Number(n) = 0
                  ELSE ~t.complete /\ Number(n) = t.next
        following == IF fresh THEN 1 ELSE t.next + 1
    IN  [yes |-> useful,
         state |-> IF useful
                   THEN [version |-> Version(n), next |-> following, new |-> fresh,
                         complete |-> LastNumber(n) < following]
                   ELSE t]

-----------------------------------------------------------------------------

Init ==
    /\ next = 1
    /\ cur = << >>
    /\ counter = 0
    /\ last = NoPacket
    /\ cstate = [valid |-> FALSE, dupe |-> FALSE, counter |-> 0]
    /\ sb = section_buf_init
    /\ payload = << >> /\ pusi = FALSE
    /\ tstate = [version |-> NoVersion, next |-> 0, new |-> FALSE, complete |-> FALSE]
    /\ got = {} /\ taken = << >>
    /\ clean = 0 /\ from = None
    /\ faults = 0

\* The multiplexer's next packet: the rest of a section, and then padding or the start
\* of the next section (and of the one behind it), which a pointer announces.
Packets ==
    LET tail == [bytes |-> Padded(Take(cur, Payload), Payload), start |-> FALSE,
                 next |-> next, cur |-> Drop(cur, Payload)]
        begin(k) ==
            LET all == cur \o Bytes(next) \o (IF k = 2 THEN Bytes(next + 1) ELSE << >>)
            IN  [bytes |-> <<<<-1, Len(cur)>>>> \o Padded(Take(all, Payload - 1), Payload - 1),
                 start |-> TRUE, next |-> next + k, cur |-> Drop(all, Payload - 1)]
    IN  (IF cur # << >> THEN {tail} ELSE {})
        \cup {begin(k) : k \in {j \in 1 .. 2 :
                                  /\ next + j - 1 <= Sections
                                  /\ Len(cur) <= Payload - 2
                                  /\ j = 2 => Len(cur) + Size(next) < Payload - 1}}

Idle == payload = << >>

\* The receiver's part of a packet p that arrives: values, continuity, payload.
Handle(p) ==
    LET c == transport_packet_continuity_check(p)
    IN  /\ cstate' = IF c.ok THEN c.state
                     ELSE [valid |-> FALSE, dupe |-> FALSE, counter |-> 0]
        /\ sb' = IF c.ok THEN sb ELSE section_buf_reset(sb)
        /\ payload' = IF c.ok THEN p.bytes ELSE << >>
        /\ pusi' = (c.ok /\ p.start)
        /\ UNCHANGED <<tstate, got, taken>>

\* A packet that was sent is received.
Receive ==
    /\ Idle
    /\ \E p \in Packets, disc \in BOOLEAN :
          /\ next' = p.next /\ cur' = p.cur
          /\ counter' = IF disc THEN 0 ELSE (counter + 1) % Modulus
          /\ last' = [bytes |-> p.bytes, start |-> p.start, counter |-> counter',
                      disc |-> disc]
          /\ Handle(last')
          /\ LET ok == transport_packet_continuity_check(last').ok
             IN  /\ clean' = IF ~ok THEN 0 ELSE IF p.start /\ clean < 2 THEN clean + 1
                             ELSE clean
                 /\ from' = IF ok /\ p.start /\ clean = 1 THEN next ELSE from
    /\ UNCHANGED faults

\* A packet without payload: the counter stays.
ReceiveEmpty ==
    /\ Idle
    /\ last # NoPacket
    /\ last' = [bytes |-> << >>, start |-> FALSE, counter |-> counter, disc |-> FALSE]
    /\ Handle(last')
    /\ clean' = IF transport_packet_continuity_check(last').ok THEN clean ELSE 0
    /\ UNCHANGED <<next, cur, counter, from, faults>>

Fault == Idle /\ faults < Faults /\ faults' = faults + 1 /\ clean' = 0

\* A packet that was sent is lost.
Lose ==
    /\ Fault
    /\ \E p \in Packets : next' = p.next /\ cur' = p.cur
    /\ counter' = (counter + 1) % Modulus
    /\ UNCHANGED <<last, cstate, payload, pusi, from, receiver>>

\* The last packet arrives a second time.
Repeat ==
    /\ Fault
    /\ last # NoPacket
    /\ Handle(last)
    /\ UNCHANGED <<sender, from>>

\* The pointer of a packet is damaged: it points behind the packet.
Damage ==
    /\ Fault
    /\ \E p \in Packets :
          /\ p.start
          /\ next' = p.next /\ cur' = p.cur
          /\ counter' = (counter + 1) % Modulus
          /\ last' = [bytes |-> [p.bytes EXCEPT ![1] = <<-1, Payload>>], start |-> TRUE,
                      counter |-> counter', disc |-> FALSE]
    /\ Handle(last')
    /\ UNCHANGED from

\* One round of "process the payload data as a section".
Process ==
    /\ ~Idle
    /\ \E r \in section_buf_add_transport_payload(sb, payload, pusi) :
          LET n == r.sb.data[1][1]
              genuine == r.status = 1 /\ n \in 1 .. Sections /\ r.sb.data = Bytes(n)
              u == section_ext_useful(tstate, n)
          IN  /\ payload' = Drop(payload, r.used)
              /\ sb' = IF r.status = 0 THEN r.sb ELSE section_buf_reset(r.sb)
              /\ got' = IF genuine THEN got \cup {n} ELSE got
              /\ tstate' = IF genuine THEN u.state ELSE tstate
              /\ taken' = IF genuine /\ u.yes
                          THEN (IF u.state.new THEN << >> ELSE taken) \o <<n>>
                          ELSE taken
    /\ pusi' = FALSE
    /\ UNCHANGED <<sender, cstate, clean, from, faults>>

\* The user wants the table once more.
Restart ==
    /\ Idle
    /\ tstate.version # NoVersion
    /\ tstate' = psi_table_state_reset(tstate)
    /\ taken' = << >>
    /\ UNCHANGED <<sender, cstate, sb, payload, pusi, got, clean, from, faults>>

Next == Receive \/ ReceiveEmpty \/ Lose \/ Repeat \/ Damage \/ Process \/ Restart

Spec == Init /\ [][Next]_vars

-----------------------------------------------------------------------------

\* The section that is being sent: the last one started, if something is left of it.
SentPart ==
    IF cur = << >> THEN << >> ELSE Take(Bytes(next - 1), Size(next - 1) - Len(cur))

\* A section_buf never holds more than it was set up for, and knows its section's
\* length exactly when it has its header.
BufferBounded ==
    /\ Len(sb.data) <= sb.len /\ sb.len <= MaxSection
    /\ sb.header <=> Len(sb.data) >= SECTION_HDR_SIZE
    /\ sb.data = << >> => ~sb.header

\* Whatever the channel did, two start indicators in good order bring section_buf back
\* in step: it holds what was sent of the section under way, and every section that
\* began at the second indicator or later has been handed on.  It says nothing of what
\* is handed on before that, where a section may be put together from parts of two: only
\* the CRC, which section_buf leaves to its caller, tells these apart.
InStep ==
    Idle /\ clean = 2 =>
        /\ sb.data = SentPart
        /\ \A n \in from .. next - 1 : n \in got \/ (n = next - 1 /\ cur # << >>)

\* A table is complete only when each of its sections was found useful, once and in
\* order, and all of one version.
TableComplete ==
    tstate.version # NoVersion /\ tstate.complete =>
        /\ \A i \in 1 .. Len(taken) : Number(taken[i]) = i - 1
        /\ \A i \in 1 .. Len(taken) : Version(taken[i]) = tstate.version
        /\ taken # << >> /\ Len(taken) = LastNumber(taken[Len(taken)]) + 1

\* The loop over a payload ends, whatever is in it: section_buf never gets to where a
\* call uses none of it.
PayloadUsedUp ==
    ~Idle => \A r \in section_buf_add_transport_payload(sb, payload, pusi) : r.used > 0

=============================================================================
