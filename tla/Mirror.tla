-------------------------------- MODULE Mirror --------------------------------
(***************************************************************************)
(* Formats whose view repeats their walk.  The codec and the accessors of  *)
(* most formats go over the body in the same way: where the codec takes a  *)
(* structure, a member's bytes, a part or a loop, so do the accessors, and *)
(* a check of the codec stands between them.  This module decides, from    *)
(* the two programs of a format alone, whether they match like that and    *)
(* whether the codec's checks cover what it takes: Mirrored is the set of  *)
(* the formats for which they do, and for which they come before anything  *)
(* else where a section may be shorter than its header and its CRC.        *)
(*                                                                         *)
(* A pair of programs is gone through once.  What is known before an       *)
(* instruction of the walk, whatever the body is:                          *)
(*   at     the instruction of the view that is next                       *)
(*   size   bytes of the current structure that are there                  *)
(*   ahead  bytes from the cursor on that are in the area                  *)
(*   fit    the member whose number of bytes is in the area                *)
(*   each   what divides the value of fit, or 0                            *)
(*   unit   what divides the bytes that are left of the area, or 0         *)
(*   mood   "fresh" after a structure, "late" after bytes nothing has      *)
(*          compared with the area, "plain" otherwise                      *)
(*   pend   the integers of the current structure yet to be swapped        *)
(*   off    where the cursor is, or Unknown                                *)
(***************************************************************************)
EXTENDS AllFormats, Integers

Nothing == Member(0, 0, 2, {})
Unknown == 0 - 1

Known(at, size, ahead, fit, each, unit, mood, pend, off) ==
    [at |-> at, size |-> size, ahead |-> ahead, fit |-> fit, each |-> each,
     unit |-> unit, mood |-> mood, pend |-> pend, off |-> off]

\* A walk and the view that is to repeat it.  exit and show are the ways their loop is
\* left; area is "body" when they run to the end of the body; unit divides the length
\* of the area; size bytes of the structure around them are there.
Pair(walk, view, exit, show, area, unit, size, place) ==
    [walk |-> walk, view |-> view, exit |-> exit, show |-> show, area |-> area,
     unit |-> unit, size |-> size, place |-> place]

MainPair(f) == Pair(Formats[f].walk, Formats[f].view, "count", "count", "body", 0, 0, "main")

\* A loop's body is entered only where something is left of its area.
Left(p) == IF p.exit = "count" THEN 0 ELSE IF p.unit = 0 THEN 1 ELSE p.unit

AtStart(p) ==
    Known(1, p.size, Left(p), Nothing, 0, p.unit, "plain", {},
          IF p.place = "main" THEN 0 ELSE Unknown)

Broken == Known(0, 0, 0, Nothing, 0, 0, "broken", {}, Unknown)

-----------------------------------------------------------------------------

\* What is known is consistent, and the integers to be swapped are in the structure.
Consistent(a) ==
    /\ a.mood # "broken"
    /\ a.at \in Nat \ {0}
    /\ {a.size, a.ahead, a.each, a.unit} \subseteq Nat
    /\ \A m \in a.pend : /\ m[1] \in Nat
                        /\ m[2] \in Nat \ {0}
                        /\ m[1] + m[2] <= a.size

\* Member f is in the part of the current structure that is there.
Inside(f, a) ==
    /\ f.w \in Nat \ {0}
    /\ f.off \in Nat
    /\ f.part # Doubled
    /\ f.less = 0
    /\ f.off + f.w <= a.size
    /\ f.vals \subseteq Nat

\* One of the integers s is the last.
HasLast(s) == s = {} \/ \E k \in s : \A m \in s : m[1] + m[2] <= k[1] + k[2]

\* The view takes a structure of n bytes here.
ShowsStruct(p, a, n) ==
    /\ a.at <= Len(p.view)
    /\ p.view[a.at].op = "obj"
    /\ p.view[a.at].n = n
    /\ n \in Nat

\* The view takes the same bytes here, or has the same part or loop.
ShowsSame(p, a, op, f) ==
    /\ a.at <= Len(p.view)
    /\ p.view[a.at].op = op
    /\ p.view[a.at].f = f

\* The loop x of the walk and the loop y of the view.
SameLoop(p, a, x, y) ==
    /\ x.slack = 0
    /\ y.slack = 0
    /\ \/ x.f = ToEnd /\ p.area = "body"
       \/ x.f = a.fit /\ Inside(x.f, a)
    /\ \/ x.exit = "stay" /\ y.exit = "jump" /\ (x.f = ToEnd \/ a.each > 0)
       \/ x.exit = "exact" /\ y.exit = "jump"
       \/ x.exit = "once" /\ y.exit = "once"

\* With a known, instruction x of the walk is covered by what was checked, and has its
\* match in the view.
Covered(p, a, x) ==
    /\ Consistent(a)
    /\ x.op = "swaps" \/ a.pend = {}
    /\ CASE x.op = "struct" -> p.area = "body" /\ ShowsStruct(p, a, x.n)
         [] x.op = "step" ->
              a.mood # "late" /\ x.n <= a.ahead /\ ShowsStruct(p, a, x.n)
         [] x.op = "swaps" -> a.mood = "fresh" /\ x.fields = a.pend /\ HasLast(a.pend)
         [] x.op \in {"need", "exactly"} -> p.area = "body" /\ x.n \in Nat
         [] x.op \in {"needin", "exactlyin"} -> x.n \in Nat
         [] x.op \in {"fits", "below", "fills"} -> p.area = "body" /\ Inside(x.f, a)
         [] x.op = "fillsin" -> x.n \in Nat /\ Inside(x.f, a)
         [] x.op \in {"fitsin", "atleast", "oneof"} -> Inside(x.f, a)
         [] x.op = "divides" ->
              /\ x.n \in Nat \ {0}
              /\ a.mood # "late"
              /\ \/ x.f = ToEnd /\ p.area = "body"
                 \/ x.f = a.fit /\ Inside(x.f, a)
         [] x.op = "take" ->
              p.area = "body" /\ Inside(x.f, a) /\ ShowsSame(p, a, "bytes", x.f)
         [] x.op = "skip" -> Inside(x.f, a) /\ ShowsSame(p, a, "bytes", x.f)
         [] x.op = "when" ->
              /\ a.mood # "late"
              /\ Inside(x.f, a)
              /\ ShowsSame(p, a, "when", x.f)
              /\ p.view[a.at].vals = x.vals
         [] x.op = "times" ->
              a.mood # "late" /\ Inside(x.f, a) /\ ShowsSame(p, a, "times", x.f)
         [] x.op = "loop" ->
              /\ a.mood # "late"
              /\ ShowsSame(p, a, "loop", x.f)
              /\ SameLoop(p, a, x, p.view[a.at])
         [] OTHER -> FALSE

Shift(off, n) == IF off = Unknown THEN Unknown ELSE off + n

Calm(mood) == IF mood = "late" THEN "late" ELSE "plain"

\* What is known after instruction x, with a known before it.
After(p, a, x) ==
    CASE x.op = "struct" ->
           Known(a.at + 1, x.n, 0, Nothing, 0, 0, "fresh", p.view[a.at].fields,
                 Shift(a.off, x.n))
      [] x.op = "step" ->
           Known(a.at + 1, x.n, a.ahead - x.n, Nothing, 0,
                 IF x.n = a.unit THEN x.n ELSE 0, "fresh", p.view[a.at].fields,
                 Shift(a.off, x.n))
      [] x.op = "swaps" ->
           Known(a.at, a.size, a.ahead, Nothing, 0, a.unit, "plain", {}, a.off)
      [] x.op \in {"need", "exactly", "needin", "exactlyin"} ->
           Known(a.at, a.size, x.n, Nothing, 0, a.unit, "plain", {}, a.off)
      [] x.op \in {"fits", "below", "fills", "fitsin", "fillsin"} ->
           Known(a.at, a.size, IF a.mood = "late" THEN 0 ELSE a.ahead, x.f, 0, a.unit,
                 "plain", {}, a.off)
      [] x.op \in {"atleast", "oneof"} ->
           Known(a.at, a.size, a.ahead, a.fit, a.each, a.unit, Calm(a.mood), {}, a.off)
      [] x.op = "divides" ->
           Known(a.at, a.size, a.ahead, a.fit,
                 IF x.f = ToEnd THEN a.each ELSE x.n,
                 IF x.f = ToEnd THEN x.n ELSE a.unit, "plain", {}, a.off)
      [] x.op = "skip" ->
           Known(a.at + 1, a.size, 0, Nothing, 0, 0,
                 IF x.f = a.fit THEN "plain" ELSE "late", {}, Unknown)
      [] OTHER -> Known(a.at + 1, a.size, 0, Nothing, 0, 0, "plain", {}, Unknown)

\* What is known before each instruction of the walk, and at its end.
Track(p) ==
    LET known[i \in 1 .. Len(p.walk) + 1] ==
            IF i = 1 THEN AtStart(p)
            ELSE IF Covered(p, known[i - 1], p.walk[i - 1])
                 THEN After(p, known[i - 1], p.walk[i - 1])
                 ELSE Broken
    IN  known

\* What may be left of the view at the end of the walk.
Leftover(y, a) ==
    \/ y.op = "bytes" /\ y.f = ToEnd
    \/ y.op = "bytes" /\ y.f = a.fit /\ Inside(y.f, a)
    \/ y.op = "rest" /\ y.n = a.off /\ y.n \in Nat

\* With a known at its end, the walk has covered its area and the view is at its end.
EndCovered(p, a) ==
    /\ Consistent(a)
    /\ a.pend = {}
    /\ p.exit = "exact" \/ a.mood # "late"
    /\ p.unit = 0 \/ a.unit = p.unit
    /\ \/ a.at = Len(p.view) + 1
       \/ p.place = "main" /\ a.at = Len(p.view) /\ Leftover(p.view[a.at], a)

SameExit(p) ==
    \/ p.exit = "count" /\ p.show = "count"
    \/ p.exit = "stay" /\ p.show = "jump" /\ (p.area = "body" \/ p.unit > 0)
    \/ p.exit = "exact" /\ p.show = "jump"
    \/ p.exit = "once" /\ p.show = "once"

Sound(p) ==
    /\ {Len(p.walk), Len(p.view)} \subseteq Nat
    /\ SameExit(p)
    /\ Track(p)[1] = AtStart(p)
    /\ \A i \in 1 .. Len(p.walk) :
          /\ Covered(p, Track(p)[i], p.walk[i])
          /\ Track(p)[i + 1] = After(p, Track(p)[i], p.walk[i])
    /\ EndCovered(p, Track(p)[Len(p.walk) + 1])

-----------------------------------------------------------------------------

\* The parts and loops of the walk, each with its match in the view.
Calls(p) == {i \in 1 .. Len(p.walk) : p.walk[i].op \in {"when", "times", "loop"}}

Part(p, i) ==
    LET a == Track(p)[i]
        x == p.walk[i]
        y == p.view[a.at]
    IN  IF x.op # "loop"
        THEN Pair(x.body, y.body, "count", "count", p.area, 0, a.size, "inner")
        ELSE IF x.f = ToEnd
        THEN Pair(x.body, y.body, x.exit, y.exit, "body", a.unit, a.size, "inner")
        ELSE Pair(x.body, y.body, x.exit, y.exit, "part", a.each, a.size, "inner")

\* A set of pairs in which every pair matches, and its parts do.
Closed(ps) == \A p \in ps : Sound(p) /\ \A i \in Calls(p) : Part(p, i) \in ps

Parts(ps) == UNION {{Part(p, i) : i \in Calls(p)} : p \in {q \in ps : Sound(q)}}

\* The pairs of a format.  No format has parts more than five deep.
PairsOf(f) ==
    LET level[n \in 0 .. 5] == IF n = 0 THEN {MainPair(f)} ELSE Parts(level[n - 1])
    IN  {MainPair(f)} \cup UNION {level[n] : n \in 1 .. 5}

\* Where a section may be too short for its header and CRC, the codec asks first.
Guarded(f) ==
    \/ Missing(f) = 0
    \/ LET walk == Formats[f].walk
       IN  Len(walk) \in Nat \ {0} /\ walk[1].op \in {"struct", "need"} /\ walk[1].n \in Nat

Mirrored == {f \in DOMAIN Formats : Guarded(f) /\ Closed(PairsOf(f))}

=============================================================================
