-------------------------------- MODULE Codec --------------------------------
(***************************************************************************)
(* Decoding with libucsi, with the parse functions of libdvben50221 and    *)
(* with libesg.  A caller hands a body to x_codec(), which walks it, swaps *)
(* its integers to host order in place and accepts it or returns NULL; the *)
(* caller then reads an accepted body through the structures, accessors    *)
(* and iterators of x.  The formats are data (module Layout), so that one  *)
(* specification runs the codec and the accessors of each of them over     *)
(* every body within the bounds.                                           *)
(*                                                                         *)
(* The body is not chosen in advance: a byte that is read gets a value the *)
(* first time, and keeps it.  An integer that is read while its bytes are  *)
(* swapped in another way than once is a different, arbitrary value.       *)
(***************************************************************************)
EXTENDS AllFormats, Integers, FiniteSets, SequencesExt

CONSTANTS
    MaxLen(_),  \* the longest body tried for a format
    SizeModulus \* number of values of a size_t

ASSUME MaxLenAssumption == \A f \in DOMAIN Formats : MaxLen(f) \in Nat

ASSUME SizeAssumption == SizeModulus \in Nat /\ SizeModulus > 16

VARIABLES
    fmt,        \* the format being decoded, or "none"
    len,        \* d->len, or what is left of the section without header and CRC; it is
                \* negative where the section is shorter than these
    phase,      \* "idle", "walk" (in the codec), "view" (reading), "done", "null"
    stack,      \* the programs under way, the innermost last
    pos,        \* the cursor
    mem,        \* the values read so far
    swaps,      \* how often each group of bytes was swapped
    fields,     \* the integers of several bytes that the view exposes
    reach,      \* end of the furthest byte that was touched
    torn        \* an iterator did not end where its array ends

vars == <<fmt, len, phase, stack, pos, mem, swaps, fields, reach, torn>>

None == << >>

MaxOf(a, b) == IF a < b THEN b ELSE a

\* A program under way: instruction i of prog is next, b is the start of the structure
\* it is in, l the end of the area it runs over.  exit tells what its end means: "count"
\* n more rounds, otherwise the way its loop is left, k bytes early.
Frame(prog, i, b, l, exit, n, k) ==
    [prog |-> prog, i |-> i, base |-> b, lim |-> l, exit |-> exit, left |-> n,
     slack |-> k]

\* A program that runs once, over the whole body of n bytes.
Body(prog, n) == Frame(prog, 1, 0, n, "count", 0, 0)

\* The next instruction, with b the start of the structure.
Moved(fr, b) ==
    Frame(fr.prog, fr.i + 1, b, fr.lim, fr.exit, fr.left, fr.slack)

\* The program from its start, n rounds being left.
Restarted(fr, b, n) == Frame(fr.prog, 1, b, fr.lim, fr.exit, n, fr.slack)

Replaced(s, fr) == [s EXCEPT ![Len(s)] = fr]

\* The program of the part or loop at the next instruction is put on the stack.
Called(s, prog, l, exit, n, k) ==
    Append(Replaced(s, Moved(Last(s), Last(s).base)),
           Frame(prog, 1, Last(s).base, l, exit, n, k))

TypeOK ==
    /\ phase = "idle" => fmt = "none"
    /\ len \in Int
    /\ phase \in {"idle", "walk", "view", "done", "null"}
    /\ {pos, reach} \subseteq Nat
    /\ \A d \in DOMAIN stack :
          {stack[d].i, stack[d].base} \subseteq Nat /\ stack[d].lim \in Int
    /\ \A s \in DOMAIN swaps : swaps[s] \in Nat \ {0}
    /\ torn \in BOOLEAN

-----------------------------------------------------------------------------

Init ==
    /\ fmt = "none"
    /\ len = 0
    /\ phase = "idle"
    /\ stack = << >>
    /\ pos = 0
    /\ mem = None
    /\ swaps = None
    /\ fields = {}
    /\ reach = 0
    /\ torn = FALSE

\* A body of n bytes is given to the codec of format f, or a section from which -n bytes
\* of the header and the CRC are missing.
Begin(f, n) ==
    /\ phase = "idle"
    /\ fmt' = f
    /\ len' = n
    /\ phase' = "walk"
    /\ stack' = <<Body(Formats[f].walk, n)>>
    /\ UNCHANGED <<pos, mem, swaps, fields, reach, torn>>

Top == Last(stack)
Busy == phase \in {"walk", "view"}
AtEnd == Top.i > Len(Top.prog)

\* The codec returns the structure, and the caller starts to read.
Accept ==
    /\ phase = "walk"
    /\ Len(stack) = 1
    /\ AtEnd
    /\ phase' = "view"
    /\ stack' = <<Body(Formats[fmt].view, len)>>
    /\ pos' = 0
    /\ UNCHANGED <<fmt, len, mem, swaps, fields, reach, torn>>

Finish ==
    /\ phase = "view"
    /\ Len(stack) = 1
    /\ AtEnd
    /\ phase' = "done"
    /\ stack' = << >>
    /\ UNCHANGED <<fmt, len, pos, mem, swaps, fields, reach, torn>>

\* The caller is done with the body.
Release ==
    /\ phase \in {"done", "null"}
    /\ phase' = "idle"
    /\ fmt' = "none"
    /\ len' = 0
    /\ stack' = << >>
    /\ pos' = 0
    /\ mem' = None
    /\ swaps' = None
    /\ fields' = {}
    /\ reach' = 0
    /\ torn' = FALSE

-----------------------------------------------------------------------------
(* The instructions.                                                       *)

Arg == Top.prog[Top.i]
Running(op) == Busy /\ ~AtEnd /\ Arg.op = op
Proceed == stack' = Replaced(stack, Moved(Top, Top.base)) /\ UNCHANGED phase
Call(prog, l, exit, n, k) ==
    stack' = Called(stack, prog, l, exit, n, k) /\ UNCHANGED phase
Fail == phase' = "null" /\ stack' = << >>
Quiet == UNCHANGED <<fmt, len>>

\* return NULL unless ok.
Check(ok) ==
    /\ IF ok THEN Proceed ELSE Fail
    /\ Quiet
    /\ UNCHANGED <<swaps, fields, torn>>

\* The swaps in sw that have changed some of the w bytes at o.
SwapsOf(o, w, sw) ==
    {<<s, sw[s]>> : s \in {t \in DOMAIN sw : t[1] < o + w /\ o < t[1] + t[2]}}

\* Where member f of the structure at b is.
At(f, b) == IF f.part = Doubled THEN 2 * b + f.off ELSE b + f.off

Key(f, b, sw) == <<At(f, b), f.w, f.part, SwapsOf(At(f, b), f.w, sw)>>

KeyOf(f) == Key(f, Top.base, swaps)

\* The values member f can be read with.
ValuesOf(f) ==
    IF f = ToEnd THEN {len - pos}
    ELSE IF f = SizeLeft THEN {IF pos <= len THEN len - pos ELSE len - pos + SizeModulus}
    ELSE IF f = InArea THEN {Top.lim - pos}
    ELSE {v - f.less :
             v \in IF KeyOf(f) \in DOMAIN mem THEN {mem[KeyOf(f)]} ELSE f.vals}

\* The values m and v for the key k.
Noted(m, k, v) == [j \in DOMAIN m \cup {k} |-> IF j = k THEN v ELSE m[j]]

\* Member f is read as v, and the bytes up to end are touched.
Reads(f, v, end) ==
    IF f.w = 0
    THEN UNCHANGED mem /\ reach' = MaxOf(reach, end)
    ELSE /\ mem' = Noted(mem, KeyOf(f), v + f.less)
         /\ reach' = MaxOf(MaxOf(reach, end), At(f, Top.base) + f.w)

Gap ==
    /\ Running("go")
    /\ pos' = pos + Arg.n
    /\ torn' = (torn \/ phase = "view")
    /\ Proceed
    /\ Quiet
    /\ UNCHANGED <<mem, swaps, fields, reach>>

SkipOver ==
    /\ Running("skip")
    /\ \E v \in ValuesOf(Arg.f) : Reads(Arg.f, v, 0) /\ pos' = pos + v
    /\ Proceed
    /\ Quiet
    /\ UNCHANGED <<swaps, fields, torn>>

CheckRoom ==
    /\ \/ Running("need") /\ Check(pos + Arg.n <= len)
       \/ Running("needin") /\ Check(pos + Arg.n <= Top.lim)
       \/ Running("exactly") /\ Check(len - pos = Arg.n)
       \/ Running("exactlyin") /\ Check(Top.lim - pos = Arg.n)
    /\ UNCHANGED <<pos, mem, reach>>

CheckMember ==
    /\ Busy /\ ~AtEnd
    /\ Arg.op \in {"fits", "below", "fills", "atleast", "room", "divides", "oneof",
                   "fitsin", "fillsin"}
    /\ \E v \in ValuesOf(Arg.f) :
          /\ Reads(Arg.f, v, 0)
          /\ Check(CASE Arg.op = "fits" -> pos + v <= len
                     [] Arg.op = "below" -> pos + v < len
                     [] Arg.op = "fills" -> pos + v = len
                     [] Arg.op = "atleast" -> v >= Arg.n
                     [] Arg.op = "room" -> pos > len \/ pos + v <= len
                     [] Arg.op = "divides" -> v % Arg.n = 0
                     [] Arg.op = "oneof" -> v \in Arg.vals
                     [] Arg.op = "fitsin" -> pos + v <= Top.lim
                     [] Arg.op = "fillsin" -> pos + v + Arg.n = Top.lim)
    /\ UNCHANGED pos

TakeMember ==
    /\ Running("take")
    /\ \E v \in ValuesOf(Arg.f) :
          Reads(Arg.f, v, 0) /\ Check(pos + v <= len) /\ pos' = pos + v

\* A structure of the codec: with a check that it fits, or without.
EnterStruct ==
    /\ \/ Running("struct") /\ pos + Arg.n <= len
       \/ Running("step")
    /\ stack' = Replaced(stack, Moved(Top, pos))
    /\ pos' = pos + Arg.n
    /\ Quiet
    /\ UNCHANGED <<phase, mem, swaps, fields, reach, torn>>

NoStruct ==
    /\ Running("struct")
    /\ pos + Arg.n > len
    /\ Check(FALSE)
    /\ UNCHANGED <<pos, mem, reach>>

\* The members s of the structure at b.
Placed(s, b) == {<<b + m[1], m[2]>> : m \in s}

Furthest(s, from) ==
    IF s = {} THEN from
    ELSE LET ends == {m[1] + m[2] : m \in s}
         IN  MaxOf(from, CHOOSE e \in ends : \A d \in ends : d <= e)

SwapBytes ==
    /\ Running("swaps")
    /\ LET done == Placed(Arg.fields, Top.base)
       IN  /\ swaps' = [s \in DOMAIN swaps \cup done |->
                           (IF s \in DOMAIN swaps THEN swaps[s] ELSE 0)
                           + (IF s \in done THEN 1 ELSE 0)]
           /\ reach' = Furthest(done, reach)
    /\ Proceed
    /\ Quiet
    /\ UNCHANGED <<pos, mem, fields, torn>>

\* A conditional part.
Choose ==
    /\ Running("when")
    /\ \E v \in ValuesOf(Arg.f) :
          /\ Reads(Arg.f, v, 0)
          /\ IF v \in Arg.vals THEN Call(Arg.body, Top.lim, "count", 0, 0) ELSE Proceed
    /\ Quiet
    /\ UNCHANGED <<pos, swaps, fields, torn>>

\* The same part several times.
Repeat ==
    /\ Running("times")
    /\ \E v \in ValuesOf(Arg.f) :
          /\ Reads(Arg.f, v, 0)
          /\ IF v > 0 THEN Call(Arg.body, Top.lim, "count", v - 1, 0) ELSE Proceed
    /\ Quiet
    /\ UNCHANGED <<pos, swaps, fields, torn>>

EnterLoop ==
    /\ Running("loop")
    /\ \E v \in ValuesOf(Arg.f) :
          /\ Reads(Arg.f, v, 0)
          /\ IF v > 0 THEN Call(Arg.body, pos + v, Arg.exit, 0, Arg.slack) ELSE Proceed
    /\ Quiet
    /\ UNCHANGED <<pos, swaps, fields, torn>>

\* The end of a part or loop, and the program it belongs to: the structure that was
\* current there is the current one again.
Ended == Busy /\ Len(stack) > 1 /\ AtEnd
Caller == stack[Len(stack) - 1]

OnceMore ==
    /\ Ended
    /\ Top.exit = "count"
    /\ Top.left > 0
    /\ stack' = Replaced(stack, Restarted(Top, Caller.base, Top.left - 1))
    /\ UNCHANGED <<fmt, len, phase, pos, mem, swaps, fields, reach, torn>>

ComeBack ==
    /\ Ended
    /\ Top.exit = "count"
    /\ Top.left = 0
    /\ stack' = Front(stack)
    /\ UNCHANGED <<fmt, len, phase, pos, mem, swaps, fields, reach, torn>>

GoRound ==
    /\ Ended
    /\ Top.exit \in {"stay", "exact", "jump"}
    /\ pos < Top.lim - Top.slack
    /\ stack' = Replaced(stack, Restarted(Top, Caller.base, 0))
    /\ UNCHANGED <<fmt, len, phase, pos, mem, swaps, fields, reach, torn>>

LeaveLoop ==
    /\ Ended
    /\ \/ Top.exit = "once"
       \/ Top.exit \in {"stay", "exact", "jump"} /\ pos >= Top.lim - Top.slack
    /\ IF Top.exit = "exact" /\ pos # Top.lim
       THEN Fail
       ELSE stack' = Front(stack) /\ UNCHANGED phase
    /\ pos' = IF Top.exit \in {"jump", "once"} THEN Top.lim ELSE pos
    /\ torn' = (torn \/ (Top.exit = "jump" /\ pos # Top.lim))
    /\ Quiet
    /\ UNCHANGED <<mem, swaps, fields, reach>>

\* A structure of the view: all of it may be read.
ShowStruct ==
    /\ Running("obj")
    /\ stack' = Replaced(stack, Moved(Top, pos))
    /\ pos' = pos + Arg.n
    /\ reach' = MaxOf(reach, pos + Arg.n)
    /\ fields' = fields \cup Placed(Arg.fields, pos)
    /\ Quiet
    /\ UNCHANGED <<phase, mem, swaps, torn>>

ShowBytes ==
    /\ Running("bytes") \/ Running("data")
    /\ \E v \in ValuesOf(Arg.f) :
          /\ Reads(Arg.f, v, pos + v)
          /\ pos' = IF Arg.op = "data" THEN pos ELSE pos + v
    /\ Proceed
    /\ Quiet
    /\ UNCHANGED <<swaps, fields, torn>>

\* The rest of the body, by an accessor and a length accessor.
ShowRest ==
    /\ Running("rest")
    /\ reach' = MaxOf(reach, pos + (len - Arg.n))
    /\ torn' = (torn \/ len < Arg.n \/ pos + (len - Arg.n) # len)
    /\ pos' = MaxOf(pos, len)
    /\ Proceed
    /\ Quiet
    /\ UNCHANGED <<mem, swaps, fields>>

ShowUnits ==
    /\ Running("units")
    /\ LET n == (len - pos) \div Arg.n
       IN  /\ fields' = fields \cup {<<pos + i * Arg.n, Arg.n>> : i \in 0 .. n - 1}
           /\ torn' = (torn \/ pos + n * Arg.n # len)
           /\ reach' = MaxOf(reach, pos + n * Arg.n)
    /\ pos' = len
    /\ Proceed
    /\ Quiet
    /\ UNCHANGED <<mem, swaps>>

Run ==
    \/ Accept \/ Finish
    \/ Gap \/ SkipOver \/ CheckRoom \/ CheckMember \/ TakeMember
    \/ EnterStruct \/ NoStruct
    \/ SwapBytes \/ Choose \/ Repeat \/ EnterLoop
    \/ OnceMore \/ ComeBack \/ GoRound \/ LeaveLoop
    \/ ShowStruct \/ ShowBytes \/ ShowRest \/ ShowUnits

Next ==
    \/ \E f \in DOMAIN Formats : \E n \in (0 - Missing(f)) .. MaxLen(f) : Begin(f, n)
    \/ Run
    \/ Release

Spec == Init /\ [][Next]_vars

\* A codec and the accessors are code that runs to its end.
FairSpec == Spec /\ WF_vars(Run)

-----------------------------------------------------------------------------

(* The formats whose code does not keep a property.  Each of them breaks   *)
(* it on some short body.                                                  *)

\* Their codec swaps too much, too little or the wrong bytes.
Misswapped ==
    {"dvb_ait_application_descriptor",
     "dvb_ait_external_application_authorisation_descriptor",
     "dvb_bat_section", "dvb_cell_frequency_link_descriptor",
     "dvb_content_identifier_descriptor", "dvb_data_broadcast_descriptor",
     "dvb_linkage_descriptor", "dvb_nit_section", "dvb_sit_section",
     "mpeg_content_labelling_descriptor", "mpeg_metadata_pointer_descriptor",
     "atsc_dccsct_section", "atsc_rrt_section"}

\* Their accessors or their codec trust a length nothing has checked.
Trusting ==
    {"dvb_ait_application_descriptor",
     "dvb_ait_external_application_authorisation_descriptor", "dvb_bat_section",
     "dvb_data_broadcast_descriptor", "dvb_data_broadcast_id_descriptor",
     "dvb_extended_event_descriptor", "dvb_int_section", "dvb_linkage_descriptor",
     "dvb_nit_section", "dvb_sit_section", "dvb_target_ip_address_descriptor",
     "dvb_target_ipv6_address_descriptor", "mpeg_content_labelling_descriptor",
     "mpeg_metadata_descriptor", "mpeg_metadata_pointer_descriptor",
     "mpeg_cat_section", "mpeg_tsdt_section",
     "datagram_section", "section_ext", "atsc_dccsct_section",
     "en50221_app_ca_parse_reply", "en50221_app_mmi_parse_list_menu",
     "esg_access_descriptor", "esg_encapsulated_textual_esg_xml_fragment",
     "esg_encapsulation_structure", "esg_textual_decoder_init"}

\* Their iterators and accessors leave bytes out, overlap or run over the end.
Untiled ==
    {"dvb_bat_section", "dvb_cell_frequency_link_descriptor",
     "dvb_data_broadcast_id_descriptor", "dvb_extended_event_descriptor",
     "dvb_int_section", "dvb_linkage_descriptor", "dvb_nit_section",
     "dvb_s2_satellite_delivery_descriptor", "dvb_target_ip_address_descriptor",
     "dvb_target_ipv6_address_descriptor", "mpeg_content_labelling_descriptor",
     "mpeg_metadata_descriptor", "mpeg_metadata_pointer_descriptor",
     "mpeg_metadata_section", "atsc_dccsct_section", "en50221_app_ca_parse_reply"}

\* The caller of a codec reads integers in host order: when a body has been accepted
\* and read, every integer of several bytes that the accessors expose has been swapped
\* exactly once, and nothing else has been swapped.
FieldsInHostOrder ==
    phase = "done" /\ fmt \notin Misswapped =>
        /\ DOMAIN swaps = fields
        /\ \A s \in fields : swaps[s] = 1

\* Neither the codec nor the accessors touch a byte behind the body, whatever the
\* lengths inside it say, and none at all where the section is too short to have a body.
StaysInside == fmt \notin Trusting => reach <= MaxOf(0, len)

\* An iterator visits all of its array: the last element ends where the array ends,
\* and no element is left out.
IteratorsTile == phase = "done" /\ fmt \notin Untiled => ~torn

\* Every decode ends: no codec and no iterator stays in a loop, whatever is received.
DecodingEnds == phase = "walk" ~> phase \in {"done", "null"}

=============================================================================
