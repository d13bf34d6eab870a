------------------------------- MODULE MCScan -------------------------------
(***************************************************************************)
(* What is on the air: 10 and 11 are one transponder, 20 may also be found *)
(* at 30, and 40 is an ATSC channel.  The PAT has two sections, one of     *)
(* which may name a service twice, and may be sent with a new version      *)
(* number.                                                                 *)
(***************************************************************************)
EXTENDS Scan

MCInitial == <<10, 40>>
MCTypeOf(f) == IF f = 40 THEN "atsc" ELSE "dvb"

MCPat(f, n) ==
    IF f \in {20, 30} THEN << >> ELSE IF n = 0 THEN <<1>> ELSE IF f = 40 THEN << >> ELSE <<1, 2, 2>>

At(f, others) == [freq |-> f, others |-> others]
MCNit(f, n) ==
    IF f \in {10, 11} THEN <<At(11, << >>), At(20, <<10, 30>>), At(40, << >>)>>
    ELSE <<At(10, << >>), At(20, <<30>>)>>

MCVct(f) == <<[type |-> "tv", program |-> 1], [type |-> "data", program |-> 4],
              [type |-> "radio", program |-> 5]>>

MCVersions(kind) == IF kind = "PAT" THEN {0, 1} ELSE {0}

MCLastSection(kind) == IF kind = "PAT" THEN 1 ELSE 0
=============================================================================
