----------------------------- MODULE MCAssembly -----------------------------
(* Two versions of a table of two sections, the first one sent twice.  The *)
(* sections are shorter than, as long as and longer than a packet.         *)
EXTENDS Assembly

SizeOf(n) == <<5, 3, 5, 3, 4, 6>>[n]
VersionOf(n) == IF n <= 4 THEN 0 ELSE 1
NumberOf(n) == (n - 1) % 2
LastOf(n) == 1

=============================================================================
