----------------------------- MODULE CodecProofs -----------------------------
(***************************************************************************)
(* Proofs about decoding, for the formats of Mirrored and bodies of every  *)
(* length.  While a codec walks, the places at which the accessors would   *)
(* be are collected: from each of them the accessors get to another, with  *)
(* the values the codec has read, which no later swap changes (Walking).   *)
(* When the codec accepts, these places are the way the accessors go       *)
(* (InView), and it lies inside the body.                                  *)
(***************************************************************************)
EXTENDS Codec, Mirror, SequenceTheorems, TLAPS

-----------------------------------------------------------------------------
(* Lists whose elements may be anything.                                   *)

List(s) == Len(s) \in Nat /\ s \in Seq({s[d] : d \in 1 .. Len(s)})

LEMMA ListOf ==
    ASSUME NEW F, NEW s \in Seq(F)
    PROVE  List(s)
  <1>1. Len(s) \in Nat /\ s \in [1 .. Len(s) -> F]
    BY LenProperties
  <1> DEFINE n == Len(s)
             S == {s[d] : d \in 1 .. n}
  <1>2. \A d \in 1 .. n : s[d] \in S
    OBVIOUS
  <1>3. SubSeq(s, 1, n) \in Seq(S)
    <2> HIDE DEF n, S
    <2>1. n \in Nat
      BY <1>1 DEF n
    <2> QED BY <1>2, <2>1, SubSeqProperties
  <1>4. SubSeq(s, 1, n) = s
    BY <1>1, SubSeqFull
  <1> QED BY <1>1, <1>3, <1>4 DEF List

LEMMA ListEqual ==
    ASSUME NEW s, NEW t, List(s), List(t), Len(s) = Len(t),
           \A d \in 1 .. Len(s) : s[d] = t[d]
    PROVE  s = t
  <1>1. {s[d] : d \in 1 .. Len(s)} = {t[d] : d \in 1 .. Len(t)}
    OBVIOUS
  <1> QED BY <1>1, SeqEqual DEF List

LEMMA ReplacedList ==
    ASSUME NEW s, NEW x, List(s), Len(s) > 0
    PROVE  /\ List(Replaced(s, x)) /\ Len(Replaced(s, x)) = Len(s)
           /\ Last(Replaced(s, x)) = x
           /\ \A d \in 1 .. Len(s) : Replaced(s, x)[d] = IF d = Len(s) THEN x ELSE s[d]
  <1> DEFINE F == {s[d] : d \in 1 .. Len(s)} \cup {x}
  <1>1. s \in Seq(F) /\ Len(s) \in 1 .. Len(s) /\ x \in F
    BY SeqMonotonic DEF List
  <1> HIDE DEF F
  <1>2. /\ Replaced(s, x) \in Seq(F) /\ Len(Replaced(s, x)) = Len(s)
        /\ \A d \in 1 .. Len(s) : Replaced(s, x)[d] = IF d = Len(s) THEN x ELSE s[d]
    BY <1>1, ExceptSeq DEF Replaced
  <1> QED BY <1>1, <1>2, ListOf DEF Last

LEMMA AppendedList ==
    ASSUME NEW s, NEW x, List(s)
    PROVE  /\ List(Append(s, x)) /\ Len(Append(s, x)) = Len(s) + 1
           /\ Last(Append(s, x)) = x
           /\ \A d \in 1 .. Len(s) : Append(s, x)[d] = s[d]
           /\ Append(s, x)[Len(s) + 1] = x
  <1> DEFINE F == {s[d] : d \in 1 .. Len(s)} \cup {x}
  <1>1. s \in Seq(F) /\ x \in F
    BY SeqMonotonic DEF List
  <1> HIDE DEF F
  <1>2. /\ Append(s, x) \in Seq(F) /\ Len(Append(s, x)) = Len(s) + 1
        /\ \A d \in 1 .. Len(s) : Append(s, x)[d] = s[d]
        /\ Append(s, x)[Len(s) + 1] = x
    BY <1>1, AppendProperties
  <1>3. List(Append(s, x))
    BY <1>2, ListOf
  <1> QED BY <1>2, <1>3 DEF Last

LEMMA FrontList ==
    ASSUME NEW s, List(s), Len(s) > 1
    PROVE  /\ List(Front(s)) /\ Len(Front(s)) = Len(s) - 1
           /\ Last(Front(s)) = s[Len(s) - 1]
           /\ \A d \in 1 .. Len(s) - 1 : Front(s)[d] = s[d]
  <1> DEFINE F == {s[d] : d \in 1 .. Len(s)}
             n == Len(s)
  <1>1. n \in Nat /\ n > 1 /\ \A d \in 1 .. n - 1 : s[d] \in F
    BY DEF List
  <1> HIDE DEF F
  <1>2. Front(s) = SubSeq(s, 1, n - 1)
    BY DEF Front
  <1> HIDE DEF n
  <1>3. /\ SubSeq(s, 1, n - 1) \in Seq(F)
        /\ Len(SubSeq(s, 1, n - 1)) = n - 1
        /\ \A d \in 1 .. n - 1 : SubSeq(s, 1, n - 1)[d] = s[d]
    BY <1>1, SubSeqProperties
  <1>4. List(Front(s)) /\ Len(Front(s)) = n - 1 /\ \A d \in 1 .. n - 1 : Front(s)[d] = s[d]
    BY <1>2, <1>3, ListOf
  <1>5. n - 1 \in 1 .. n - 1
    BY <1>1
  <1> QED BY <1>4, <1>5 DEF Last, n

LEMMA SingleList ==
    ASSUME NEW x
    PROVE  List(<<x>>) /\ Len(<<x>>) = 1 /\ Last(<<x>>) = x /\ <<x>>[1] = x
  <1>1. <<x>> \in Seq({x})
    OBVIOUS
  <1> QED BY <1>1, ListOf DEF Last

-----------------------------------------------------------------------------
(* The view that is to repeat a walk: its programs are at the matching     *)
(* instructions, over the same structures and areas.                       *)

ViewFrame(p, fr) ==
    Frame(p.view, Track(p)[fr.i].at, fr.base, fr.lim, p.show, fr.left, 0)

ViewStack(ps, s) == [d \in 1 .. Len(s) |-> ViewFrame(ps[d], s[d])]

LEMMA ViewList ==
    ASSUME NEW s, NEW ps, List(s)
    PROVE  /\ List(ViewStack(ps, s)) /\ Len(ViewStack(ps, s)) = Len(s)
           /\ \A d \in 1 .. Len(s) : ViewStack(ps, s)[d] = ViewFrame(ps[d], s[d])
  <1> DEFINE n == Len(s)
             F == {ViewFrame(ps[d], s[d]) : d \in 1 .. n}
             v == ViewStack(ps, s)
  <1>1. n \in Nat /\ v = [d \in 1 .. n |-> ViewFrame(ps[d], s[d])]
    BY DEF List, ViewStack
  <1>2. v \in Seq(F) /\ Len(v) = n
    <2> HIDE DEF n, v
    <2>1. \A d \in 1 .. n : ViewFrame(ps[d], s[d]) \in F
      OBVIOUS
    <2>2. v \in [1 .. n -> F]
      BY <1>1, <2>1
    <2> HIDE DEF F
    <2> QED BY <1>1, <2>2
  <1>3. \A d \in 1 .. n : v[d] = ViewFrame(ps[d], s[d])
    BY <1>1
  <1> HIDE DEF F
  <1> QED BY <1>2, <1>3, ListOf

LEMMA ViewLast ==
    ASSUME NEW s, NEW ps, List(s), Len(s) > 0, Len(ps) = Len(s)
    PROVE  Last(ViewStack(ps, s)) = ViewFrame(Last(ps), Last(s))
  <1>1. Len(s) \in 1 .. Len(s)
    BY DEF List
  <1> QED BY <1>1, ViewList DEF Last

LEMMA ViewReplaced ==
    ASSUME NEW s, NEW ps, NEW fr, List(s), Len(s) > 0, Len(ps) = Len(s)
    PROVE  ViewStack(ps, Replaced(s, fr))
           = Replaced(ViewStack(ps, s), ViewFrame(Last(ps), fr))
  <1> DEFINE a == ViewStack(ps, Replaced(s, fr))
             b == Replaced(ViewStack(ps, s), ViewFrame(Last(ps), fr))
             v == ViewStack(ps, s)
             w == ViewFrame(Last(ps), fr)
  <1>1. /\ List(Replaced(s, fr)) /\ Len(Replaced(s, fr)) = Len(s)
        /\ \A d \in 1 .. Len(s) : Replaced(s, fr)[d] = IF d = Len(s) THEN fr ELSE s[d]
    BY ReplacedList
  <1>2. /\ List(a) /\ Len(a) = Len(s)
        /\ \A d \in 1 .. Len(s) : a[d] = ViewFrame(ps[d], Replaced(s, fr)[d])
    BY <1>1, ViewList
  <1>3. List(v) /\ Len(v) = Len(s) /\ \A d \in 1 .. Len(s) : v[d] = ViewFrame(ps[d], s[d])
    BY ViewList
  <1>4. b = Replaced(v, w)
    OBVIOUS
  <1> HIDE DEF a, b, v
  <1>5. /\ List(b) /\ Len(b) = Len(s)
        /\ \A d \in 1 .. Len(s) : b[d] = IF d = Len(s) THEN w ELSE v[d]
    BY <1>3, <1>4, ReplacedList
  <1>6. \A d \in 1 .. Len(s) : a[d] = b[d]
    <2> TAKE d \in 1 .. Len(s)
    <2>1. CASE d = Len(s)
      <3>1. a[d] = ViewFrame(ps[d], fr) /\ ps[d] = Last(ps)
        BY <1>1, <1>2, <2>1 DEF Last
      <3> QED BY <1>5, <2>1, <3>1
    <2>2. CASE d # Len(s)
      BY <1>1, <1>2, <1>3, <1>5, <2>2
    <2> QED BY <2>1, <2>2
  <1>7. a = b
    BY <1>2, <1>5, <1>6, ListEqual
  <1> QED BY <1>7 DEF a, b, v

LEMMA ViewAppended ==
    ASSUME NEW s, NEW ps, NEW fr, NEW p, List(s), List(ps), Len(ps) = Len(s)
    PROVE  ViewStack(Append(ps, p), Append(s, fr))
           = Append(ViewStack(ps, s), ViewFrame(p, fr))
  <1> DEFINE a == ViewStack(Append(ps, p), Append(s, fr))
             v == ViewStack(ps, s)
             w == ViewFrame(p, fr)
             b == Append(v, w)
             n == Len(s)
  <1>1. /\ List(Append(s, fr)) /\ Len(Append(s, fr)) = n + 1 /\ n \in Nat
        /\ \A d \in 1 .. n : Append(s, fr)[d] = s[d] /\ Append(ps, p)[d] = ps[d]
        /\ Append(s, fr)[n + 1] = fr /\ Append(ps, p)[n + 1] = p
    BY AppendedList DEF List
  <1>2. /\ List(a) /\ Len(a) = n + 1
        /\ \A d \in 1 .. n + 1 : a[d] = ViewFrame(Append(ps, p)[d], Append(s, fr)[d])
    BY <1>1, ViewList
  <1>3. List(v) /\ Len(v) = n /\ \A d \in 1 .. n : v[d] = ViewFrame(ps[d], s[d])
    BY ViewList
  <1> HIDE DEF a, v, w
  <1>4. /\ List(b) /\ Len(b) = n + 1 /\ b[n + 1] = w
        /\ \A d \in 1 .. n : b[d] = v[d]
    BY <1>3, AppendedList
  <1> HIDE DEF b, n
  <1>5. \A d \in 1 .. n + 1 : a[d] = b[d]
    <2> TAKE d \in 1 .. n + 1
    <2>1. CASE d = n + 1
      BY <1>1, <1>2, <1>4, <2>1 DEF w
    <2>2. CASE d # n + 1
      <3>1. d \in 1 .. n
        BY <1>1, <2>2
      <3> QED BY <1>1, <1>2, <1>3, <1>4, <3>1
    <2> QED BY <2>1, <2>2
  <1>6. a = b
    BY <1>2, <1>4, <1>5, ListEqual
  <1> QED BY <1>6 DEF a, b, v, w

LEMMA ViewFront ==
    ASSUME NEW s, NEW ps, List(s), List(ps), Len(ps) = Len(s), Len(s) > 1
    PROVE  ViewStack(Front(ps), Front(s)) = Front(ViewStack(ps, s))
  <1> DEFINE a == ViewStack(Front(ps), Front(s))
             v == ViewStack(ps, s)
             b == Front(v)
             n == Len(s) - 1
  <1>1. /\ List(Front(s)) /\ Len(Front(s)) = n
        /\ \A d \in 1 .. n : Front(s)[d] = s[d] /\ Front(ps)[d] = ps[d]
    BY FrontList
  <1>2. /\ List(a) /\ Len(a) = n
        /\ \A d \in 1 .. n : a[d] = ViewFrame(Front(ps)[d], Front(s)[d])
    BY <1>1, ViewList
  <1>3. List(v) /\ Len(v) = Len(s) /\ \A d \in 1 .. Len(s) : v[d] = ViewFrame(ps[d], s[d])
    BY ViewList
  <1> HIDE DEF a, v
  <1>4. List(b) /\ Len(b) = n /\ \A d \in 1 .. n : b[d] = v[d]
    BY <1>3, FrontList
  <1>5. \A d \in 1 .. n : d \in 1 .. Len(s)
    BY DEF List
  <1>6. \A d \in 1 .. n : a[d] = b[d]
    BY <1>1, <1>2, <1>3, <1>4, <1>5
  <1> HIDE DEF b, n
  <1>7. a = b
    BY <1>2, <1>4, <1>6, ListEqual
  <1> QED BY <1>7 DEF a, b, v

-----------------------------------------------------------------------------
(* Steps of a view.                                                        *)

\* Where the accessors are.
Config(s, q, fs) == [stack |-> s, pos |-> q, fields |-> fs]

Here(h) == Last(h.stack)
Going(h) == Here(h).i <= Len(Here(h).prog)
Instr(h) == Here(h).prog[Here(h).i]
Over(h) == Replaced(h.stack, Moved(Here(h), Here(h).base))

\* At h member f of the current structure reads v, with the values m and the swaps sw
\* of a body of l bytes.
Reading(f, v, h, m, sw, l) ==
    /\ v \in Nat
    /\ IF f = ToEnd
       THEN v = l - h.pos
       ELSE /\ f.w \in Nat \ {0}
            /\ f.off \in Nat
            /\ f.part # Doubled
            /\ f.less = 0
            /\ Here(h).base \in Nat
            /\ Here(h).base + f.off + f.w <= h.pos
            /\ Key(f, Here(h).base, sw) \in DOMAIN m
            /\ m[Key(f, Here(h).base, sw)] = v

StepStruct(h, k) ==
    /\ Instr(h).op = "obj"
    /\ k = Config(Replaced(h.stack, Moved(Here(h), h.pos)), h.pos + Instr(h).n,
                  h.fields \cup Placed(Instr(h).fields, h.pos))

StepBytes(h, k, v) ==
    /\ Instr(h).op = "bytes"
    /\ k = Config(Over(h), h.pos + v, h.fields)

StepWhen(h, k, v) ==
    /\ Instr(h).op = "when"
    /\ k = Config(IF v \in Instr(h).vals
                  THEN Called(h.stack, Instr(h).body, Here(h).lim, "count", 0, 0)
                  ELSE Over(h),
                  h.pos, h.fields)

StepTimes(h, k, v) ==
    /\ Instr(h).op = "times"
    /\ k = Config(IF v > 0
                  THEN Called(h.stack, Instr(h).body, Here(h).lim, "count", v - 1, 0)
                  ELSE Over(h),
                  h.pos, h.fields)

StepLoop(h, k, v) ==
    /\ Instr(h).op = "loop"
    /\ k = Config(IF v > 0
                  THEN Called(h.stack, Instr(h).body, h.pos + v, Instr(h).exit, 0,
                              Instr(h).slack)
                  ELSE Over(h),
                  h.pos, h.fields)

Under(h) == h.stack[Len(h.stack) - 1]

StepAgain(h, k) ==
    /\ Here(h).exit = "count"
    /\ Here(h).left > 0
    /\ k = Config(Replaced(h.stack, Restarted(Here(h), Under(h).base, Here(h).left - 1)),
                  h.pos, h.fields)

StepBack(h, k) ==
    /\ Here(h).exit = "count"
    /\ Here(h).left = 0
    /\ k = Config(Front(h.stack), h.pos, h.fields)

StepRound(h, k) ==
    /\ Here(h).exit = "jump"
    /\ Here(h).slack = 0
    /\ h.pos < Here(h).lim
    /\ k = Config(Replaced(h.stack, Restarted(Here(h), Under(h).base, 0)),
                  h.pos, h.fields)

StepLeave(h, k) ==
    /\ \/ Here(h).exit = "once"
       \/ Here(h).exit = "jump" /\ Here(h).slack = 0 /\ h.pos = Here(h).lim
    /\ k = Config(Front(h.stack), Here(h).lim, h.fields)

\* From h the accessors get to k.
ViewStep(h, k, m, sw, l) ==
    \/ /\ Going(h)
       /\ \/ StepStruct(h, k)
          \/ \E v : /\ Reading(Instr(h).f, v, h, m, sw, l)
                    /\ \/ StepBytes(h, k, v)
                       \/ StepWhen(h, k, v)
                       \/ StepTimes(h, k, v)
                       \/ StepLoop(h, k, v)
    \/ /\ ~Going(h)
       /\ Len(h.stack) > 1
       /\ StepAgain(h, k) \/ StepBack(h, k) \/ StepRound(h, k) \/ StepLeave(h, k)

\* m2 has the values of m, and perhaps more.
Extends(m2, m) == \A k \in DOMAIN m : k \in DOMAIN m2 /\ m2[k] = m[k]

LEMMA StepKept ==
    ASSUME NEW h, NEW k, NEW m, NEW m2, NEW sw, NEW l,
           ViewStep(h, k, m, sw, l), Extends(m2, m)
    PROVE  ViewStep(h, k, m2, sw, l)
  <1>1. \A f, v : Reading(f, v, h, m, sw, l) => Reading(f, v, h, m2, sw, l)
    BY DEF Reading, Extends
  <1> QED BY <1>1 DEF ViewStep

\* sw2 has the swaps of sw, and perhaps more behind e.
Beyond(sw2, sw, e) ==
    /\ DOMAIN sw \subseteq DOMAIN sw2
    /\ \A s \in DOMAIN sw : sw2[s] = sw[s]
    /\ \A s \in DOMAIN sw2 \ DOMAIN sw : s[1] \in Nat /\ e <= s[1]

LEMMA SameSwaps ==
    ASSUME NEW sw, NEW sw2, NEW e \in Nat, NEW o \in Nat, NEW w \in Nat,
           Beyond(sw2, sw, e), o + w <= e
    PROVE  SwapsOf(o, w, sw2) = SwapsOf(o, w, sw)
  <1>1. \A t \in DOMAIN sw2 : t[1] < o + w => t \in DOMAIN sw
    BY DEF Beyond
  <1>2. {t \in DOMAIN sw2 : t[1] < o + w /\ o < t[1] + t[2]}
        = {t \in DOMAIN sw : t[1] < o + w /\ o < t[1] + t[2]}
    BY <1>1 DEF Beyond
  <1> QED BY <1>2 DEF SwapsOf, Beyond

LEMMA StepSwapped ==
    ASSUME NEW h, NEW k, NEW m, NEW sw, NEW sw2, NEW l, NEW e \in Nat,
           ViewStep(h, k, m, sw, l), Beyond(sw2, sw, e), h.pos \in Nat, h.pos <= e
    PROVE  ViewStep(h, k, m, sw2, l)
  <1>1. \A f, v : Reading(f, v, h, m, sw, l) => Reading(f, v, h, m, sw2, l)
    <2> SUFFICES ASSUME NEW f, NEW v, Reading(f, v, h, m, sw, l), f # ToEnd
                 PROVE  Key(f, Here(h).base, sw2) = Key(f, Here(h).base, sw)
      BY DEF Reading
    <2> DEFINE o == At(f, Here(h).base)
    <2>1. o \in Nat /\ f.w \in Nat /\ o + f.w <= e
      BY DEF Reading, At
    <2> HIDE DEF o
    <2>2. SwapsOf(o, f.w, sw2) = SwapsOf(o, f.w, sw)
      BY <2>1, SameSwaps
    <2> QED BY <2>2 DEF Key, o
  <1> QED BY <1>1 DEF ViewStep

-----------------------------------------------------------------------------
(* The invariant of a walk, with the view it prepares.                     *)

\* Nothing is known but the structure: where a part or loop has been called.
Bland(a) ==
    /\ a.ahead = 0
    /\ a.fit = Nothing
    /\ a.unit = 0
    /\ a.mood = "plain"
    /\ a.pend = {}
    /\ a.off = Unknown

\* What a frame keeps while its parts run: q is the cursor, l the length of the body.
Fitting(p, fr, q, l) ==
    /\ fr.prog = p.walk
    /\ fr.exit = p.exit
    /\ fr.slack = 0
    /\ fr.i \in 1 .. Len(p.walk) + 1
    /\ fr.left \in Nat
    /\ fr.base \in Nat
    /\ fr.lim \in Nat
    /\ fr.lim <= l
    /\ p.area = "body" => fr.lim = l
    /\ fr.base + Track(p)[fr.i].size <= q
    /\ fr.base + Track(p)[fr.i].size <= l

\* A frame and the part or loop it has called.
Linked(p, fr, p2, fr2) ==
    /\ p2.place = "inner"
    /\ fr2.lim <= fr.lim
    /\ fr2.exit = "count" => fr2.lim = fr.lim
    /\ p2.size <= Track(p)[fr.i].size
    /\ Bland(Track(p)[fr.i])

\* The stack s of the walk, the pairs ps its programs belong to.
Stacked(P, ps, s, q, l) ==
    /\ List(s)
    /\ List(ps)
    /\ Len(s) > 0
    /\ Len(ps) = Len(s)
    /\ ps[1].place = "main"
    /\ \A d \in 1 .. Len(s) : ps[d] \in P /\ Fitting(ps[d], s[d], q, l)
    /\ \A d \in 1 .. Len(s) - 1 : Linked(ps[d], s[d], ps[d + 1], s[d + 1])

KnownAt(ps, s) == Track(Last(ps))[Last(s).i]

Multiple(x, n) == \E k \in Nat : x = k * n

\* What is known is true of the innermost frame.
Knows(a, fr, q, m, sw) ==
    /\ a.mood # "late" => q + a.ahead <= fr.lim
    /\ a.fit # Nothing =>
          /\ Inside(a.fit, a)
          /\ Key(a.fit, fr.base, sw) \in DOMAIN m
          /\ q + m[Key(a.fit, fr.base, sw)] <= fr.lim
          /\ a.each > 0 => Multiple(m[Key(a.fit, fr.base, sw)], a.each)
    /\ a.unit > 0 => Multiple(fr.lim - q, a.unit)
    /\ a.off # Unknown => q = a.off

\* Nothing from here on has been swapped, or read by the view.
Edge(a, fr, q) == IF a.mood = "fresh" THEN fr.base ELSE q

Swapped(sw, e) ==
    \A s \in DOMAIN sw : /\ sw[s] = 1
                         /\ s[1] \in Nat
                         /\ s[2] \in Nat \ {0}
                         /\ s[1] + s[2] <= e

\* A place is well formed.
Formed(h) ==
    /\ List(h.stack)
    /\ Len(h.stack) > 0
    /\ \A d \in 1 .. Len(h.stack) :
          /\ Len(h.stack[d].prog) \in Nat
          /\ h.stack[d].i \in Nat /\ h.stack[d].base \in Nat /\ h.stack[d].lim \in Nat

Passed(hs, e) == \A h \in hs : Formed(h) /\ h.pos \in Nat /\ h.pos <= e

Numbers(m) == \A k \in DOMAIN m : m[k] \in Nat

\* Where the view will be when the walk is here.
Shown(ps, s, q, sw) ==
    Config(ViewStack(ps, s), q, DOMAIN sw \cup Placed(KnownAt(ps, s).pend, Last(s).base))

\* From each of the places hs that the walk has passed the view gets to another or to c.
History(hs, c, m, sw, l) == \A h \in hs : \E k \in hs \cup {c} : ViewStep(h, k, m, sw, l)

Origin(p, l) == Config(<<Body(p.view, l)>>, 0, {})

Walking(P, ps, hs, s, q, m, sw, l) ==
    /\ Closed(P)
    /\ l \in Nat
    /\ q \in Nat
    /\ Stacked(P, ps, s, q, l)
    /\ Knows(KnownAt(ps, s), Last(s), q, m, sw)
    /\ Swapped(sw, Edge(KnownAt(ps, s), Last(s), q))
    /\ Passed(hs, Edge(KnownAt(ps, s), Last(s), q))
    /\ Numbers(m)
    /\ History(hs, Shown(ps, s, q, sw), m, sw, l)
    /\ Origin(ps[1], l) \in hs \cup {Shown(ps, s, q, sw)}

\* The innermost frame, and what the static check says of its next instruction.
LEMMA TopFrame ==
    ASSUME NEW P, NEW ps, NEW s, NEW q, NEW l,
           Closed(P), Stacked(P, ps, s, q, l)
    PROVE  /\ List(s) /\ List(ps) /\ Len(s) > 0 /\ Len(ps) = Len(s)
           /\ Last(ps) \in P
           /\ Fitting(Last(ps), Last(s), q, l)
           /\ Sound(Last(ps))
           /\ \A i \in Calls(Last(ps)) : Part(Last(ps), i) \in P
  <1>1. Len(s) \in 1 .. Len(s) /\ Last(ps) = ps[Len(s)] /\ Last(s) = s[Len(s)]
    BY DEF Stacked, List, Last
  <1> QED BY <1>1 DEF Stacked, Closed

LEMMA KnownConsistent ==
    ASSUME NEW p, Sound(p), NEW i \in 1 .. Len(p.walk) + 1
    PROVE  Consistent(Track(p)[i])
  <1>1. CASE i \in 1 .. Len(p.walk)
    BY <1>1 DEF Sound, Covered
  <1>2. CASE i = Len(p.walk) + 1
    BY <1>2 DEF Sound, EndCovered
  <1> QED BY <1>1, <1>2 DEF Sound

LEMMA EdgeBehind ==
    ASSUME NEW P, NEW ps, NEW s, NEW q \in Nat, NEW l,
           Closed(P), Stacked(P, ps, s, q, l)
    PROVE  /\ KnownAt(ps, s).size \in Nat /\ Consistent(KnownAt(ps, s))
           /\ Edge(KnownAt(ps, s), Last(s), q) \in Nat
           /\ Edge(KnownAt(ps, s), Last(s), q) <= q
  <1> DEFINE p == Last(ps)
             i == Last(s).i
             a == Track(p)[i]
  <1>1. Fitting(p, Last(s), q, l) /\ Sound(p)
    BY TopFrame
  <1>2. Consistent(a)
    <2>1. CASE i \in 1 .. Len(p.walk)
      BY <1>1, <2>1 DEF Sound, Covered
    <2>2. CASE i = Len(p.walk) + 1
      BY <1>1, <2>2 DEF Sound, EndCovered
    <2> QED BY <1>1, <2>1, <2>2 DEF Fitting, Sound
  <1>3. a.size \in Nat
    BY <1>2 DEF Consistent
  <1>4. Last(s).base \in Nat /\ Last(s).base + a.size <= q
    BY <1>1 DEF Fitting
  <1> QED BY <1>2, <1>3, <1>4 DEF KnownAt, Edge

LEMMA ShownFormed ==
    ASSUME NEW P, NEW ps, NEW s, NEW q, NEW sw, NEW l,
           Closed(P), Stacked(P, ps, s, q, l)
    PROVE  Formed(Shown(ps, s, q, sw))
  <1> DEFINE v == ViewStack(ps, s)
  <1>1. /\ List(s) /\ Len(s) \in Nat /\ Len(s) > 0
        /\ \A d \in 1 .. Len(s) : ps[d] \in P /\ Fitting(ps[d], s[d], q, l)
    BY DEF Stacked, List
  <1>2. List(v) /\ Len(v) = Len(s) /\ \A d \in 1 .. Len(s) : v[d] = ViewFrame(ps[d], s[d])
    BY <1>1, ViewList
  <1>3. Shown(ps, s, q, sw).stack = v
    BY DEF Shown, Config
  <1> HIDE DEF v
  <1>4. ASSUME NEW d \in 1 .. Len(s)
        PROVE  /\ Len(v[d].prog) \in Nat
               /\ v[d].i \in Nat /\ v[d].base \in Nat /\ v[d].lim \in Nat
    <2> DEFINE p == ps[d]
               fr == s[d]
    <2>1. Sound(p) /\ Fitting(p, fr, q, l)
      BY <1>1 DEF Closed
    <2>2. fr.i \in 1 .. Len(p.walk) + 1 /\ fr.base \in Nat /\ fr.lim \in Nat
      BY <2>1 DEF Fitting
    <2>3. Track(p)[fr.i].at \in Nat
      BY <2>1, <2>2, KnownConsistent DEF Consistent
    <2>4. v[d] = ViewFrame(p, fr)
      BY <1>2
    <2> HIDE DEF p, fr
    <2>5. /\ ViewFrame(p, fr).i = Track(p)[fr.i].at
          /\ ViewFrame(p, fr).base = fr.base
          /\ ViewFrame(p, fr).lim = fr.lim
          /\ ViewFrame(p, fr).prog = p.view
      BY DEF ViewFrame, Frame
    <2>6. Len(p.view) \in Nat
      BY <2>1 DEF Sound
    <2> QED BY <2>2, <2>3, <2>4, <2>5, <2>6
  <1> QED BY <1>1, <1>2, <1>3, <1>4 DEF Formed

\* The view takes a step with the walk.
LEMMA PassStep ==
    ASSUME NEW P, NEW ps, NEW hs, NEW s, NEW q, NEW m, NEW sw, NEW l,
           Walking(P, ps, hs, s, q, m, sw, l),
           NEW ps2, NEW s2, NEW q2 \in Nat, NEW m2,
           Stacked(P, ps2, s2, q2, l), ps2[1] = ps[1],
           Knows(KnownAt(ps2, s2), Last(s2), q2, m2, sw),
           q <= Edge(KnownAt(ps2, s2), Last(s2), q2),
           Numbers(m2), Extends(m2, m),
           ViewStep(Shown(ps, s, q, sw), Shown(ps2, s2, q2, sw), m2, sw, l)
    PROVE  \E hs2 : Walking(P, ps2, hs2, s2, q2, m2, sw, l)
  <1> DEFINE c == Shown(ps, s, q, sw)
             c2 == Shown(ps2, s2, q2, sw)
             e == Edge(KnownAt(ps, s), Last(s), q)
             e2 == Edge(KnownAt(ps2, s2), Last(s2), q2)
             hs2 == hs \cup {c}
  <1>1. q \in Nat /\ e \in Nat /\ e <= q
    BY EdgeBehind DEF Walking
  <1>2. e2 \in Nat /\ q <= e2
    BY EdgeBehind DEF Walking
  <1>3. c.pos = q
    BY DEF Shown, Config
  <1>4. Passed(hs, e) /\ Swapped(sw, e) /\ History(hs, c, m, sw, l)
        /\ Origin(ps[1], l) \in hs \cup {c}
    BY DEF Walking
  <1>5. ViewStep(c, c2, m2, sw, l)
    OBVIOUS
  <1> HIDE DEF c, c2, e, e2
  <1>6. Passed(hs2, e2)
    <2>1. Formed(c)
      BY ShownFormed DEF Walking, c
    <2> QED BY <1>1, <1>2, <1>3, <1>4, <2>1 DEF Passed
  <1>7. Swapped(sw, e2)
    BY <1>1, <1>2, <1>4 DEF Swapped
  <1>8. History(hs2, c2, m2, sw, l)
    <2> SUFFICES ASSUME NEW h \in hs2
                 PROVE  \E k \in hs2 \cup {c2} : ViewStep(h, k, m2, sw, l)
      BY DEF History
    <2>1. CASE h = c
      BY <1>5, <2>1
    <2>2. CASE h \in hs
      <3>1. PICK k \in hs \cup {c} : ViewStep(h, k, m, sw, l)
        BY <1>4, <2>2 DEF History
      <3>2. ViewStep(h, k, m2, sw, l)
        BY <3>1, StepKept
      <3> QED BY <3>1, <3>2
    <2> QED BY <2>1, <2>2
  <1>9. Origin(ps2[1], l) \in hs2 \cup {c2}
    BY <1>4
  <1>10. Closed(P) /\ l \in Nat
    BY DEF Walking
  <1> HIDE DEF hs2
  <1> QED BY <1>6, <1>7, <1>8, <1>9, <1>10 DEF Walking, c2, e2

\* The view stays where it is while the walk checks something.
LEMMA StayStep ==
    ASSUME NEW P, NEW ps, NEW hs, NEW s, NEW q, NEW m, NEW sw, NEW l,
           Walking(P, ps, hs, s, q, m, sw, l),
           NEW s2, NEW m2,
           Stacked(P, ps, s2, q, l),
           Knows(KnownAt(ps, s2), Last(s2), q, m2, sw),
           KnownAt(ps, s2).mood # "fresh",
           Numbers(m2), Extends(m2, m),
           Shown(ps, s, q, sw) = Shown(ps, s2, q, sw)
    PROVE  \E hs2 : Walking(P, ps, hs2, s2, q, m2, sw, l)
  <1> DEFINE c == Shown(ps, s, q, sw)
             e == Edge(KnownAt(ps, s), Last(s), q)
             e2 == Edge(KnownAt(ps, s2), Last(s2), q)
  <1>1. q \in Nat /\ e \in Nat /\ e <= q
    BY EdgeBehind DEF Walking
  <1>2. e2 = q
    BY DEF Edge
  <1>3. Passed(hs, e) /\ Swapped(sw, e) /\ History(hs, c, m, sw, l)
        /\ Origin(ps[1], l) \in hs \cup {c}
    BY DEF Walking
  <1>4. c = Shown(ps, s2, q, sw)
    OBVIOUS
  <1> HIDE DEF c, e, e2
  <1>5. Passed(hs, e2)
    BY <1>1, <1>2, <1>3 DEF Passed
  <1>6. Swapped(sw, e2)
    BY <1>1, <1>2, <1>3 DEF Swapped
  <1>7. History(hs, c, m2, sw, l)
    <2> SUFFICES ASSUME NEW h \in hs
                 PROVE  \E k \in hs \cup {c} : ViewStep(h, k, m2, sw, l)
      BY DEF History
    <2>1. PICK k \in hs \cup {c} : ViewStep(h, k, m, sw, l)
      BY <1>3 DEF History
    <2> QED BY <2>1, StepKept
  <1>8. Closed(P) /\ l \in Nat
    BY DEF Walking
  <1> QED BY <1>1, <1>3, <1>4, <1>5, <1>6, <1>7, <1>8 DEF Walking, e2

-----------------------------------------------------------------------------
(* The stack of the walk.                                                  *)

LEMMA FittingLater ==
    ASSUME NEW p, Sound(p), NEW fr, NEW q \in Nat, NEW q2 \in Nat, NEW l,
           Fitting(p, fr, q, l), q <= q2
    PROVE  Fitting(p, fr, q2, l)
  <1>1. Track(p)[fr.i].size \in Nat
    BY KnownConsistent DEF Fitting, Consistent
  <1> QED BY <1>1 DEF Fitting

LEMMA StackReplaced ==
    ASSUME NEW P, NEW ps, NEW s, NEW q \in Nat, NEW q2 \in Nat, NEW l, NEW fr,
           Closed(P), Stacked(P, ps, s, q, l), q <= q2,
           Fitting(Last(ps), fr, q2, l), fr.lim = Last(s).lim
    PROVE  Stacked(P, ps, Replaced(s, fr), q2, l) /\ Last(Replaced(s, fr)) = fr
  <1> DEFINE t == Replaced(s, fr)
             n == Len(s)
  <1>1. /\ List(s) /\ List(ps) /\ n > 0 /\ Len(ps) = n /\ ps[1].place = "main"
        /\ \A d \in 1 .. n : ps[d] \in P /\ Fitting(ps[d], s[d], q, l)
        /\ \A d \in 1 .. n - 1 : Linked(ps[d], s[d], ps[d + 1], s[d + 1])
        /\ n \in Nat
    BY DEF Stacked, List
  <1>2. /\ List(t) /\ Len(t) = n /\ Last(t) = fr
        /\ \A d \in 1 .. n : t[d] = IF d = n THEN fr ELSE s[d]
    BY <1>1, ReplacedList
  <1>3. Last(ps) = ps[n] /\ Last(s) = s[n] /\ fr.exit = s[n].exit
    BY <1>1 DEF Last, Fitting
  <1> HIDE DEF t, n
  <1>4. \A d \in 1 .. n : ps[d] \in P /\ Fitting(ps[d], t[d], q2, l)
    <2> SUFFICES ASSUME NEW d \in 1 .. n, d # n PROVE Fitting(ps[d], s[d], q2, l)
      BY <1>1, <1>2, <1>3
    <2>1. Sound(ps[d])
      BY <1>1 DEF Closed
    <2> QED BY <1>1, <2>1, FittingLater
  <1>5. \A d \in 1 .. n - 1 : Linked(ps[d], t[d], ps[d + 1], t[d + 1])
    <2> TAKE d \in 1 .. n - 1
    <2>1. t[d] = s[d] /\ Linked(ps[d], s[d], ps[d + 1], s[d + 1])
      BY <1>1, <1>2
    <2>2. CASE d + 1 = n
      <3>1. t[d + 1] = fr /\ s[d + 1] = Last(s)
        BY <1>1, <1>2, <1>3, <2>2
      <3> QED BY <1>3, <2>1, <2>2, <3>1 DEF Linked
    <2>3. CASE d + 1 # n
      <3>1. t[d + 1] = s[d + 1]
        BY <1>1, <1>2, <2>3
      <3> QED BY <2>1, <3>1
    <2> QED BY <2>2, <2>3
  <1> QED BY <1>1, <1>2, <1>4, <1>5 DEF Stacked, t

LEMMA StackCalled ==
    ASSUME NEW P, NEW ps, NEW s, NEW q \in Nat, NEW l, NEW fr, NEW p2 \in P, NEW fr2,
           Closed(P), Stacked(P, ps, s, q, l),
           Fitting(Last(ps), fr, q, l), fr.lim = Last(s).lim,
           Fitting(p2, fr2, q, l), Linked(Last(ps), fr, p2, fr2)
    PROVE  LET ps2 == Append(ps, p2)
               s2 == Append(Replaced(s, fr), fr2)
           IN  /\ Stacked(P, ps2, s2, q, l)
               /\ ps2[1] = ps[1] /\ Last(ps2) = p2 /\ Last(s2) = fr2
  <1> DEFINE t == Replaced(s, fr)
             n == Len(s)
             ps2 == Append(ps, p2)
             s2 == Append(t, fr2)
  <1>1. Stacked(P, ps, t, q, l) /\ Last(t) = fr
    BY StackReplaced
  <1>2. /\ List(t) /\ List(ps) /\ Len(t) > 0 /\ Len(ps) = Len(t)
        /\ ps[1].place = "main"
        /\ \A d \in 1 .. Len(t) : ps[d] \in P /\ Fitting(ps[d], t[d], q, l)
        /\ \A d \in 1 .. Len(t) - 1 : Linked(ps[d], t[d], ps[d + 1], t[d + 1])
    BY <1>1 DEF Stacked
  <1> HIDE DEF t
  <1>3. PICK k : k = Len(t) /\ k \in Nat /\ k > 0
    BY <1>2 DEF List
  <1>4. /\ List(s2) /\ Len(s2) = k + 1 /\ Last(s2) = fr2 /\ s2[k + 1] = fr2
        /\ \A d \in 1 .. k : s2[d] = t[d]
    BY <1>2, <1>3, AppendedList
  <1>5. /\ List(ps2) /\ Len(ps2) = k + 1 /\ Last(ps2) = p2 /\ ps2[k + 1] = p2
        /\ \A d \in 1 .. k : ps2[d] = ps[d]
    BY <1>2, <1>3, AppendedList
  <1> HIDE DEF s2, ps2
  <1>6. \A d \in 1 .. k + 1 : ps2[d] \in P /\ Fitting(ps2[d], s2[d], q, l)
    <2> TAKE d \in 1 .. k + 1
    <2>1. CASE d = k + 1
      BY <1>4, <1>5, <2>1
    <2>2. CASE d # k + 1
      <3>1. d \in 1 .. k
        BY <1>3, <2>2
      <3> QED BY <1>2, <1>3, <1>4, <1>5, <3>1
    <2> QED BY <2>1, <2>2
  <1>7. \A d \in 1 .. k : Linked(ps2[d], s2[d], ps2[d + 1], s2[d + 1])
    <2> TAKE d \in 1 .. k
    <2>1. CASE d = k
      <3>1. ps2[d] = Last(ps) /\ s2[d] = fr
        BY <1>1, <1>2, <1>3, <1>4, <1>5, <2>1 DEF Last
      <3> QED BY <1>4, <1>5, <2>1, <3>1
    <2>2. CASE d # k
      <3>1. d \in 1 .. k - 1 /\ d + 1 \in 1 .. k
        BY <1>3, <2>2
      <3> QED BY <1>2, <1>3, <1>4, <1>5, <3>1
    <2> QED BY <2>1, <2>2
  <1>8. ps2[1] = ps[1]
    BY <1>3, <1>5
  <1>9. Stacked(P, ps2, s2, q, l)
    BY <1>2, <1>3, <1>4, <1>5, <1>6, <1>7, <1>8 DEF Stacked
  <1> QED BY <1>4, <1>5, <1>8, <1>9 DEF s2, ps2, t

LEMMA StackFront ==
    ASSUME NEW P, NEW ps, NEW s, NEW q \in Nat, NEW q2 \in Nat, NEW l,
           Closed(P), Stacked(P, ps, s, q, l), q <= q2, Len(s) > 1
    PROVE  /\ Stacked(P, Front(ps), Front(s), q2, l)
           /\ Front(ps)[1] = ps[1]
           /\ Last(Front(s)) = s[Len(s) - 1]
           /\ Linked(Last(Front(ps)), Last(Front(s)), Last(ps), Last(s))
  <1>1. PICK n : n = Len(s) /\ n \in Nat /\ n > 1
    BY DEF Stacked, List
  <1>2. /\ List(s) /\ List(ps) /\ Len(s) = n /\ Len(ps) = n /\ ps[1].place = "main"
        /\ \A d \in 1 .. n : ps[d] \in P /\ Fitting(ps[d], s[d], q, l)
        /\ \A d \in 1 .. n - 1 : Linked(ps[d], s[d], ps[d + 1], s[d + 1])
    BY <1>1 DEF Stacked
  <1> DEFINE t == Front(s)
             ts == Front(ps)
  <1>3. /\ List(t) /\ Len(t) = n - 1 /\ Last(t) = s[n - 1]
        /\ \A d \in 1 .. n - 1 : t[d] = s[d]
    BY <1>1, <1>2, FrontList
  <1>4. /\ List(ts) /\ Len(ts) = n - 1 /\ Last(ts) = ps[n - 1]
        /\ \A d \in 1 .. n - 1 : ts[d] = ps[d]
    BY <1>1, <1>2, FrontList
  <1> HIDE DEF t, ts
  <1>5. \A d \in 1 .. n - 1 : ts[d] \in P /\ Fitting(ts[d], t[d], q2, l)
    <2> TAKE d \in 1 .. n - 1
    <2>1. d \in 1 .. n /\ ts[d] = ps[d] /\ t[d] = s[d]
      BY <1>1, <1>3, <1>4
    <2>2. ps[d] \in P /\ Fitting(ps[d], s[d], q, l) /\ Sound(ps[d])
      BY <1>2, <2>1 DEF Closed
    <2> QED BY <2>1, <2>2, FittingLater
  <1>6. \A d \in 1 .. n - 2 : Linked(ts[d], t[d], ts[d + 1], t[d + 1])
    <2> TAKE d \in 1 .. n - 2
    <2>1. d \in 1 .. n - 1 /\ d + 1 \in 1 .. n - 1
      BY <1>1
    <2> QED BY <1>2, <1>3, <1>4, <2>1
  <1>7. ts[1] = ps[1]
    BY <1>1, <1>4
  <1>8. Linked(ps[n - 1], s[n - 1], ps[n], s[n])
    <2>1. n - 1 \in 1 .. n - 1 /\ (n - 1) + 1 = n
      BY <1>1
    <2> QED BY <1>2, <2>1
  <1>9. Last(ps) = ps[n] /\ Last(s) = s[n]
    BY <1>2 DEF Last
  <1>10. (n - 1) - 1 = n - 2 /\ n - 1 > 0
    BY <1>1
  <1>11. Stacked(P, ts, t, q2, l)
    BY <1>2, <1>3, <1>4, <1>5, <1>6, <1>7, <1>10 DEF Stacked
  <1> QED BY <1>1, <1>3, <1>4, <1>7, <1>8, <1>9, <1>11 DEF t, ts

-----------------------------------------------------------------------------
(* The instruction the walk is at.                                         *)

Walks(P, p, s, q, m, sw, l) ==
    \E ps, hs : ps[1] = p /\ Walking(P, ps, hs, s, q, m, sw, l)

\* The walk is at instruction x of pair p, with a known, and b known after it.
Doing(p, fr, a, b, x) ==
    /\ Sound(p)
    /\ fr.i \in 1 .. Len(p.walk)
    /\ fr.prog = p.walk
    /\ x = p.walk[fr.i]
    /\ a = Track(p)[fr.i]
    /\ b = Track(p)[fr.i + 1]
    /\ Covered(p, a, x)
    /\ b = After(p, a, x)
    /\ Consistent(a)
    /\ Consistent(b)

LEMMA NextInstr ==
    ASSUME NEW P, NEW ps, NEW hs, NEW s, NEW q, NEW m, NEW sw, NEW l,
           Walking(P, ps, hs, s, q, m, sw, l), Last(s).i <= Len(Last(s).prog)
    PROVE  \E a, b : Doing(Last(ps), Last(s), a, b, Last(s).prog[Last(s).i])
  <1> DEFINE p == Last(ps)
             fr == Last(s)
  <1>1. Fitting(p, fr, q, l) /\ Sound(p)
    BY TopFrame DEF Walking
  <1> HIDE DEF p, fr
  <1>2. fr.prog = p.walk /\ fr.i \in 1 .. Len(p.walk) + 1 /\ Len(p.walk) \in Nat
    BY <1>1 DEF Fitting, Sound
  <1>3. fr.i \in 1 .. Len(p.walk)
    BY <1>2 DEF fr
  <1>4. fr.i + 1 \in 1 .. Len(p.walk) + 1
    BY <1>2, <1>3
  <1>5. Consistent(Track(p)[fr.i]) /\ Consistent(Track(p)[fr.i + 1])
    BY <1>1, <1>2, <1>4, KnownConsistent
  <1>6. /\ Covered(p, Track(p)[fr.i], p.walk[fr.i])
        /\ Track(p)[fr.i + 1] = After(p, Track(p)[fr.i], p.walk[fr.i])
    BY <1>1, <1>3 DEF Sound
  <1>7. Doing(p, fr, Track(p)[fr.i], Track(p)[fr.i + 1], fr.prog[fr.i])
    BY <1>1, <1>2, <1>3, <1>5, <1>6 DEF Doing
  <1> QED BY <1>7 DEF p, fr

\* The place the view will be at.
LEMMA ShownHere ==
    ASSUME NEW P, NEW ps, NEW s, NEW q, NEW sw, NEW l,
           Closed(P), Stacked(P, ps, s, q, l)
    PROVE  LET c == Shown(ps, s, q, sw)
           IN  /\ c.stack = ViewStack(ps, s)
               /\ List(c.stack) /\ Len(c.stack) = Len(s)
               /\ c.pos = q
               /\ Here(c) = ViewFrame(Last(ps), Last(s))
               /\ KnownAt(ps, s).pend = {} => c.fields = DOMAIN sw
  <1>1. List(s) /\ Len(s) > 0 /\ Len(ps) = Len(s)
    BY TopFrame
  <1> DEFINE c == Shown(ps, s, q, sw)
  <1>2. /\ c.stack = ViewStack(ps, s) /\ c.pos = q
        /\ c.fields = DOMAIN sw \cup Placed(KnownAt(ps, s).pend, Last(s).base)
    BY DEF Shown, Config
  <1> HIDE DEF c
  <1>3. Here(c) = ViewFrame(Last(ps), Last(s))
    BY <1>1, <1>2, ViewLast DEF Here
  <1>4. List(c.stack) /\ Len(c.stack) = Len(s)
    BY <1>1, <1>2, ViewList
  <1>5. ASSUME KnownAt(ps, s).pend = {} PROVE c.fields = DOMAIN sw
    BY <1>2, <1>5 DEF Placed
  <1> QED BY <1>2, <1>3, <1>4, <1>5 DEF c

LEMMA MovedFitting ==
    ASSUME NEW p, NEW fr, NEW a, NEW b, NEW x, NEW q \in Nat, NEW q2 \in Nat,
           NEW l \in Nat, NEW e \in Nat,
           Fitting(p, fr, q, l), Doing(p, fr, a, b, x),
           e + b.size <= q2, e + b.size <= l
    PROVE  /\ Fitting(p, Moved(fr, e), q2, l)
           /\ Moved(fr, e).lim = fr.lim /\ Moved(fr, e).base = e
           /\ Moved(fr, e).i = fr.i + 1
  <1>1. /\ Moved(fr, e).lim = fr.lim /\ Moved(fr, e).base = e
        /\ Moved(fr, e).i = fr.i + 1 /\ Moved(fr, e).prog = fr.prog
        /\ Moved(fr, e).exit = fr.exit /\ Moved(fr, e).slack = fr.slack
        /\ Moved(fr, e).left = fr.left
    BY DEF Moved, Frame
  <1>2. Len(p.walk) \in Nat /\ fr.i + 1 \in 1 .. Len(p.walk) + 1 /\ b = Track(p)[fr.i + 1]
    BY DEF Doing, Sound
  <1> QED BY <1>1, <1>2 DEF Fitting

\* The walk is at its next instruction, and the view where it was.
LEMMA StayStack ==
    ASSUME NEW P, NEW ps, NEW s, NEW q \in Nat, NEW l \in Nat,
           Closed(P), Stacked(P, ps, s, q, l),
           NEW a, NEW b, NEW x,
           Doing(Last(ps), Last(s), a, b, x), b.at = a.at, b.size = a.size
    PROVE  LET fr2 == Moved(Last(s), Last(s).base)
               s2 == Replaced(s, fr2)
           IN  /\ Stacked(P, ps, s2, q, l) /\ Last(s2) = fr2
               /\ fr2.lim = Last(s).lim /\ fr2.base = Last(s).base
               /\ KnownAt(ps, s2) = b /\ KnownAt(ps, s) = a
               /\ ViewStack(ps, s2) = ViewStack(ps, s)
  <1> DEFINE p == Last(ps)
             fr == Last(s)
             fr2 == Moved(fr, fr.base)
             s2 == Replaced(s, fr2)
  <1>1. Fitting(p, fr, q, l) /\ List(s) /\ Len(s) > 0 /\ Len(ps) = Len(s)
    BY TopFrame
  <1>2. /\ fr.base \in Nat /\ fr.base + b.size <= q /\ fr.base + b.size <= l
        /\ Doing(p, fr, a, b, x)
    BY <1>1 DEF Fitting, Doing
  <1>3. Fitting(p, fr2, q, l) /\ fr2.lim = fr.lim /\ fr2.base = fr.base /\ fr2.i = fr.i + 1
    <2> HIDE DEF p, fr
    <2>1. PICK e : e = fr.base
      OBVIOUS
    <2>2. e \in Nat /\ e + b.size <= q /\ e + b.size <= l
      BY <1>2, <2>1
    <2>3. /\ Fitting(p, Moved(fr, e), q, l)
          /\ Moved(fr, e).lim = fr.lim /\ Moved(fr, e).base = e
          /\ Moved(fr, e).i = fr.i + 1
      <3> HIDE DEF fr2
      <3> QED BY <1>1, <1>2, <2>2, MovedFitting
    <2> QED BY <2>1, <2>3
  <1> HIDE DEF fr2
  <1>4. Stacked(P, ps, s2, q, l) /\ Last(s2) = fr2
    BY <1>1, <1>3, StackReplaced
  <1>5. KnownAt(ps, s2) = b /\ KnownAt(ps, s) = a
    BY <1>3, <1>4 DEF KnownAt, Doing
  <1>6. ViewFrame(p, fr2) = ViewFrame(p, fr)
    <2>1. /\ Track(p)[fr2.i].at = Track(p)[fr.i].at /\ fr2.left = fr.left
      BY <1>3 DEF Doing, fr2, Moved, Frame
    <2> QED BY <1>3, <2>1 DEF ViewFrame
  <1>7. ViewStack(ps, s2) = ViewStack(ps, s)
    <2> DEFINE v == ViewStack(ps, s)
               w == ViewFrame(p, fr)
    <2>1. ViewStack(ps, s2) = Replaced(v, w)
      BY <1>1, <1>6, ViewReplaced
    <2>2. List(v) /\ Len(v) = Len(s) /\ Last(v) = w
      BY <1>1, ViewList, ViewLast
    <2> HIDE DEF v, w
    <2>3. /\ List(Replaced(v, w)) /\ Len(Replaced(v, w)) = Len(v)
          /\ \A d \in 1 .. Len(v) : Replaced(v, w)[d] = IF d = Len(v) THEN w ELSE v[d]
      BY <1>1, <2>2, ReplacedList
    <2>4. \A d \in 1 .. Len(v) : Replaced(v, w)[d] = v[d]
      BY <2>2, <2>3 DEF Last
    <2>5. Replaced(v, w) = v
      BY <2>2, <2>3, <2>4, ListEqual
    <2> QED BY <2>1, <2>5 DEF v
  <1> QED BY <1>3, <1>4, <1>5, <1>7 DEF fr2

\* A check that succeeds.
LEMMA CheckStep ==
    ASSUME NEW P, NEW ps, NEW hs, NEW s, NEW q, NEW m, NEW sw, NEW l,
           Walking(P, ps, hs, s, q, m, sw, l),
           NEW a, NEW b, NEW x, NEW m2,
           Doing(Last(ps), Last(s), a, b, x),
           b.at = a.at, b.size = a.size, a.pend = {}, b.pend = {}, b.mood # "fresh",
           Knows(b, Last(s), q, m2, sw), Numbers(m2), Extends(m2, m)
    PROVE  Walks(P, ps[1], Replaced(s, Moved(Last(s), Last(s).base)), q, m2, sw, l)
  <1> DEFINE fr2 == Moved(Last(s), Last(s).base)
             s2 == Replaced(s, fr2)
  <1>1. /\ Stacked(P, ps, s2, q, l) /\ Last(s2) = fr2
        /\ fr2.lim = Last(s).lim /\ fr2.base = Last(s).base
        /\ KnownAt(ps, s2) = b /\ KnownAt(ps, s) = a
        /\ ViewStack(ps, s2) = ViewStack(ps, s)
    BY StayStack DEF Walking
  <1> HIDE DEF fr2, s2
  <1>2. Shown(ps, s, q, sw) = Shown(ps, s2, q, sw)
    BY <1>1 DEF Shown, Placed
  <1>3. Knows(b, fr2, q, m2, sw)
    BY <1>1 DEF Knows
  <1>4. \E hs2 : Walking(P, ps, hs2, s2, q, m2, sw, l)
    BY <1>1, <1>2, <1>3, StayStep
  <1> QED BY <1>4 DEF Walks, s2, fr2

-----------------------------------------------------------------------------
(* Multiples.                                                              *)

LEMMA MultipleOf ==
    ASSUME NEW v \in Nat, NEW n \in Nat \ {0}, v % n = 0
    PROVE  Multiple(v, n)
  <1>1. v \div n \in Nat /\ v = n * (v \div n) + (v % n)
    OBVIOUS
  <1>2. v = (v \div n) * n
    BY <1>1
  <1> QED BY <1>1, <1>2 DEF Multiple

LEMMA MultipleLess ==
    ASSUME NEW v \in Int, NEW n \in Nat, Multiple(v, n), v >= n, n > 0
    PROVE  Multiple(v - n, n)
  <1>1. PICK k \in Nat : v = k * n
    BY DEF Multiple
  <1>2. k >= 1
    <2>1. CASE k = 0
      BY <1>1, <2>1
    <2> QED BY <2>1
  <1>3. k - 1 \in Nat /\ v - n = (k - 1) * n
    BY <1>1, <1>2
  <1> QED BY <1>3 DEF Multiple

LEMMA MultipleLeast ==
    ASSUME NEW v \in Int, NEW n \in Nat, Multiple(v, n), v > 0
    PROVE  v >= n
  <1>1. PICK k \in Nat : v = k * n
    BY DEF Multiple
  <1>2. k >= 1
    <2>1. CASE k = 0
      BY <1>1, <2>1
    <2> QED BY <2>1
  <1>3. k * n >= 1 * n
    BY <1>2
  <1> QED BY <1>1, <1>3

-----------------------------------------------------------------------------
(* Reading a member, and the checks.                                       *)

\* The values a member can be read with.
Candidates(f, e, m, sw) == IF Key(f, e, sw) \in DOMAIN m THEN {m[Key(f, e, sw)]} ELSE f.vals

LEMMA KnowsKept ==
    ASSUME NEW a, NEW fr, NEW q, NEW m, NEW m2, NEW sw,
           Knows(a, fr, q, m, sw), Extends(m2, m)
    PROVE  Knows(a, fr, q, m2, sw)
  BY DEF Knows, Extends

\* A check leaves the view where it is.
Stays(a, b) ==
    b.at = a.at /\ b.size = a.size /\ a.pend = {} /\ b.pend = {} /\ b.mood # "fresh"

LEMMA KnowsRoom ==
    ASSUME NEW p, NEW fr, NEW a, NEW b, NEW x, NEW q, NEW m, NEW sw,
           Doing(p, fr, a, b, x), Knows(a, fr, q, m, sw),
           x.op \in {"need", "exactly", "needin", "exactlyin"}
    PROVE  /\ Stays(a, b) /\ x.n \in Nat
           /\ x.op \in {"need", "exactly"} => p.area = "body"
           /\ q + x.n <= fr.lim => Knows(b, fr, q, m, sw)
  <1>1. b = Known(a.at, a.size, x.n, Nothing, 0, a.unit, "plain", {}, a.off)
    BY DEF Doing, After
  <1>2. /\ a.pend = {} /\ x.n \in Nat
        /\ x.op \in {"need", "exactly"} => p.area = "body"
    BY DEF Doing, Covered
  <1>3. /\ b.at = a.at /\ b.size = a.size /\ b.ahead = x.n /\ b.fit = Nothing
        /\ b.unit = a.unit /\ b.mood = "plain" /\ b.pend = {} /\ b.off = a.off
    BY <1>1 DEF Known
  <1> QED BY <1>2, <1>3 DEF Stays, Knows

LEMMA KnowsFits ==
    ASSUME NEW p, NEW fr, NEW a, NEW b, NEW x, NEW q \in Nat, NEW m, NEW sw,
           fr.lim \in Nat, Numbers(m),
           Doing(p, fr, a, b, x), Knows(a, fr, q, m, sw),
           x.op \in {"fits", "below", "fills", "fitsin", "fillsin"}
    PROVE  /\ Stays(a, b) /\ Inside(x.f, a)
           /\ x.op \in {"fits", "below", "fills"} => p.area = "body"
           /\ x.op = "fillsin" => x.n \in Nat
           /\ /\ Key(x.f, fr.base, sw) \in DOMAIN m
              /\ q + m[Key(x.f, fr.base, sw)] <= fr.lim
              => Knows(b, fr, q, m, sw)
  <1>1. b = Known(a.at, a.size, IF a.mood = "late" THEN 0 ELSE a.ahead, x.f, 0, a.unit,
                  "plain", {}, a.off)
    BY DEF Doing, After
  <1>2. /\ a.pend = {} /\ Inside(x.f, a)
        /\ x.op \in {"fits", "below", "fills"} => p.area = "body"
        /\ x.op = "fillsin" => x.n \in Nat
    BY DEF Doing, Covered
  <1>3. /\ b.at = a.at /\ b.size = a.size /\ b.fit = x.f /\ b.each = 0
        /\ b.ahead = (IF a.mood = "late" THEN 0 ELSE a.ahead)
        /\ b.unit = a.unit /\ b.mood = "plain" /\ b.pend = {} /\ b.off = a.off
    BY <1>1 DEF Known
  <1>4. ASSUME Key(x.f, fr.base, sw) \in DOMAIN m,
               q + m[Key(x.f, fr.base, sw)] <= fr.lim
        PROVE  Knows(b, fr, q, m, sw)
    <2>1. m[Key(x.f, fr.base, sw)] \in Nat
      BY <1>4 DEF Numbers
    <2>2. q + b.ahead <= fr.lim
      BY <1>3, <1>4, <2>1 DEF Knows
    <2>3. Inside(x.f, b)
      BY <1>2, <1>3 DEF Inside
    <2> QED BY <1>3, <1>4, <2>2, <2>3 DEF Knows
  <1> QED BY <1>2, <1>3, <1>4 DEF Stays

LEMMA KnowsSame ==
    ASSUME NEW p, NEW fr, NEW a, NEW b, NEW x, NEW q, NEW m, NEW sw,
           Doing(p, fr, a, b, x), Knows(a, fr, q, m, sw),
           x.op \in {"atleast", "oneof"}
    PROVE  Stays(a, b) /\ Inside(x.f, a) /\ Knows(b, fr, q, m, sw)
  <1>1. b = Known(a.at, a.size, a.ahead, a.fit, a.each, a.unit, Calm(a.mood), {}, a.off)
    BY DEF Doing, After
  <1>2. a.pend = {} /\ Inside(x.f, a)
    BY DEF Doing, Covered
  <1>3. /\ b.at = a.at /\ b.size = a.size /\ b.fit = a.fit /\ b.each = a.each
        /\ b.ahead = a.ahead /\ b.mood = Calm(a.mood)
        /\ b.unit = a.unit /\ b.pend = {} /\ b.off = a.off
    BY <1>1 DEF Known
  <1>4. b.mood # "fresh" /\ (a.mood = "late" <=> b.mood = "late")
    BY <1>3 DEF Calm
  <1> QED BY <1>2, <1>3, <1>4 DEF Stays, Knows, Inside

LEMMA KnowsDivides ==
    ASSUME NEW p, NEW fr, NEW a, NEW b, NEW x, NEW q \in Nat, NEW m, NEW sw,
           fr.lim \in Nat, Numbers(m),
           Doing(p, fr, a, b, x), Knows(a, fr, q, m, sw), x.op = "divides"
    PROVE  /\ Stays(a, b) /\ x.n \in Nat \ {0} /\ q <= fr.lim
           /\ x.f = ToEnd =>
                 /\ p.area = "body"
                 /\ (fr.lim - q) % x.n = 0 => Knows(b, fr, q, m, sw)
           /\ x.f # ToEnd =>
                 /\ Inside(x.f, a) /\ Key(x.f, fr.base, sw) \in DOMAIN m
                 /\ m[Key(x.f, fr.base, sw)] % x.n = 0 => Knows(b, fr, q, m, sw)
  <1>1. b = Known(a.at, a.size, a.ahead, a.fit, IF x.f = ToEnd THEN a.each ELSE x.n,
                  IF x.f = ToEnd THEN x.n ELSE a.unit, "plain", {}, a.off)
    BY DEF Doing, After
  <1>2. /\ a.pend = {} /\ a.mood # "late" /\ x.n \in Nat \ {0}
        /\ \/ x.f = ToEnd /\ p.area = "body"
           \/ x.f = a.fit /\ Inside(x.f, a)
    BY DEF Doing, Covered
  <1>3. /\ b.at = a.at /\ b.size = a.size /\ b.fit = a.fit
        /\ b.each = (IF x.f = ToEnd THEN a.each ELSE x.n)
        /\ b.unit = (IF x.f = ToEnd THEN x.n ELSE a.unit)
        /\ b.ahead = a.ahead /\ b.mood = "plain" /\ b.pend = {} /\ b.off = a.off
    BY <1>1 DEF Known
  <1>4. a.ahead \in Nat /\ q + a.ahead <= fr.lim
    BY <1>2 DEF Knows, Doing, Consistent
  <1>5. ASSUME x.f = ToEnd, (fr.lim - q) % x.n = 0 PROVE Knows(b, fr, q, m, sw)
    <2>1. fr.lim - q \in Nat
      BY <1>4
    <2>2. Multiple(fr.lim - q, x.n)
      BY <1>2, <1>5, <2>1, MultipleOf
    <2> QED BY <1>2, <1>3, <1>5, <2>2 DEF Knows, Inside
  <1>6. ASSUME x.f # ToEnd PROVE x.f = a.fit /\ Inside(x.f, a) /\ a.fit # Nothing
    <2>1. x.f = a.fit /\ Inside(x.f, a)
      BY <1>2, <1>6
    <2> QED BY <2>1 DEF Inside, Nothing, Member
  <1>7. ASSUME x.f # ToEnd, m[Key(x.f, fr.base, sw)] % x.n = 0
        PROVE  Knows(b, fr, q, m, sw)
    <2>1. PICK v \in Nat : v = m[Key(x.f, fr.base, sw)]
      BY <1>6, <1>7 DEF Knows, Numbers
    <2>2. Multiple(v, x.n)
      BY <1>2, <1>7, <2>1, MultipleOf
    <2> QED BY <1>2, <1>3, <1>6, <1>7, <2>1, <2>2 DEF Knows, Inside
  <1>8. x.f # ToEnd => Key(x.f, fr.base, sw) \in DOMAIN m
    BY <1>6 DEF Knows
  <1>9. ToEnd.w = 0
    BY DEF ToEnd, Member
  <1>10. x.f = ToEnd => p.area = "body"
    BY <1>2, <1>9 DEF Inside
  <1> QED BY <1>2, <1>3, <1>4, <1>5, <1>6, <1>7, <1>8, <1>10 DEF Stays

-----------------------------------------------------------------------------
(* Swapping the integers of a structure.                                   *)

SwapsWith(sw, done) ==
    [t \in DOMAIN sw \cup done |->
        (IF t \in DOMAIN sw THEN sw[t] ELSE 0) + (IF t \in done THEN 1 ELSE 0)]

LEMMA PlacedBehind ==
    ASSUME NEW a, NEW e \in Nat, Consistent(a)
    PROVE  \A t \in Placed(a.pend, e) :
              /\ t[1] \in Nat /\ t[2] \in Nat \ {0}
              /\ e <= t[1] /\ t[1] + t[2] <= e + a.size
  <1> SUFFICES ASSUME NEW t \in Placed(a.pend, e)
               PROVE  /\ t[1] \in Nat /\ t[2] \in Nat \ {0}
                      /\ e <= t[1] /\ t[1] + t[2] <= e + a.size
    OBVIOUS
  <1>1. PICK k \in a.pend : t = <<e + k[1], k[2]>>
    BY DEF Placed
  <1>2. k[1] \in Nat /\ k[2] \in Nat \ {0} /\ k[1] + k[2] <= a.size /\ a.size \in Nat
    BY DEF Consistent
  <1> QED BY <1>1, <1>2

LEMMA SwapsAdded ==
    ASSUME NEW sw, NEW done, NEW e \in Nat, NEW q \in Nat,
           Swapped(sw, e), e <= q,
           \A t \in done : /\ t[1] \in Nat /\ t[2] \in Nat \ {0}
                           /\ e <= t[1] /\ t[1] + t[2] <= q
    PROVE  LET sw2 == SwapsWith(sw, done)
           IN  /\ DOMAIN sw2 = DOMAIN sw \cup done
               /\ Swapped(sw2, q)
               /\ Beyond(sw2, sw, e)
  <1> DEFINE sw2 == SwapsWith(sw, done)
  <1>1. \A t \in DOMAIN sw : t \notin done
    BY DEF Swapped
  <1>2. /\ DOMAIN sw2 = DOMAIN sw \cup done
        /\ \A t \in DOMAIN sw \cup done :
              sw2[t] = (IF t \in DOMAIN sw THEN sw[t] ELSE 0) + (IF t \in done THEN 1 ELSE 0)
    BY DEF SwapsWith
  <1> HIDE DEF sw2
  <1>3. \A t \in DOMAIN sw : sw2[t] = sw[t] /\ sw[t] = 1
    BY <1>1, <1>2 DEF Swapped
  <1>4. \A t \in done : sw2[t] = 1
    BY <1>1, <1>2
  <1>5. Swapped(sw2, q)
    BY <1>2, <1>3, <1>4 DEF Swapped
  <1>6. Beyond(sw2, sw, e)
    BY <1>2, <1>3 DEF Beyond
  <1> QED BY <1>2, <1>5, <1>6 DEF sw2

LEMMA FurthestInside ==
    ASSUME NEW e \in Nat, NEW a, NEW r \in Nat, NEW l \in Nat,
           Consistent(a), HasLast(a.pend), r <= l, e + a.size <= l
    PROVE  /\ Furthest(Placed(a.pend, e), r) \in Nat
           /\ Furthest(Placed(a.pend, e), r) <= l
  <1> DEFINE done == Placed(a.pend, e)
             ends == {t[1] + t[2] : t \in done}
  <1>1. CASE done = {}
    BY <1>1 DEF Furthest
  <1>2. CASE done # {}
    <2>1. /\ a.size \in Nat
          /\ \A t \in done : /\ t[1] \in Nat /\ t[2] \in Nat
                             /\ t[1] + t[2] <= e + a.size
      BY PlacedBehind DEF Consistent
    <2>2. a.pend # {}
      BY <1>2 DEF Placed
    <2>3. PICK k \in a.pend : \A t \in a.pend : t[1] + t[2] <= k[1] + k[2]
      BY <2>2 DEF HasLast
    <2>4. \A t \in a.pend : t[1] \in Nat /\ t[2] \in Nat
      BY DEF Consistent
    <2>5. <<e + k[1], k[2]>> \in done
      BY DEF Placed
    <2>6. e + k[1] + k[2] \in ends
      <3>1. <<e + k[1], k[2]>>[1] + <<e + k[1], k[2]>>[2] = e + k[1] + k[2]
        BY <2>4
      <3> QED BY <2>5, <3>1
    <2>7. \A d \in ends : d <= e + k[1] + k[2]
      <3> SUFFICES ASSUME NEW t \in done PROVE t[1] + t[2] <= e + k[1] + k[2]
        OBVIOUS
      <3>1. PICK j \in a.pend : t = <<e + j[1], j[2]>>
        BY DEF Placed
      <3>2. j[1] + j[2] <= k[1] + k[2] /\ j[1] \in Nat /\ j[2] \in Nat
            /\ k[1] \in Nat /\ k[2] \in Nat
        BY <2>3, <2>4
      <3> QED BY <3>1, <3>2
    <2>8. \A d \in ends : d \in Nat /\ d <= l
      BY <2>1
    <2> DEFINE top == CHOOSE d \in ends : \A c \in ends : c <= d
    <2>9. Furthest(done, r) = MaxOf(r, top)
      BY <1>2 DEF Furthest
    <2> HIDE DEF ends, done
    <2>10. top \in ends
      BY <2>6, <2>7
    <2>11. top \in Nat /\ top <= l
      BY <2>8, <2>10
    <2> HIDE DEF top
    <2>12. MaxOf(r, top) \in Nat /\ MaxOf(r, top) <= l
      BY <2>11 DEF MaxOf
    <2> QED BY <2>9, <2>12 DEF done
  <1> QED BY <1>1, <1>2

LEMMA SwapStep ==
    ASSUME NEW P, NEW ps, NEW hs, NEW s, NEW q, NEW m, NEW sw, NEW l,
           Walking(P, ps, hs, s, q, m, sw, l),
           NEW a, NEW b, NEW x,
           Doing(Last(ps), Last(s), a, b, x), x.op = "swaps"
    PROVE  LET done == Placed(x.fields, Last(s).base)
           IN  /\ Walks(P, ps[1], Replaced(s, Moved(Last(s), Last(s).base)), q, m,
                        SwapsWith(sw, done), l)
               /\ \A r \in Nat : r <= l => /\ Furthest(done, r) \in Nat
                                           /\ Furthest(done, r) <= l
  <1> DEFINE fr == Last(s)
             fr2 == Moved(fr, fr.base)
             s2 == Replaced(s, fr2)
             done == Placed(x.fields, fr.base)
             sw2 == SwapsWith(sw, done)
             c == Shown(ps, s, q, sw)
  <1>1. b = Known(a.at, a.size, a.ahead, Nothing, 0, a.unit, "plain", {}, a.off)
    BY DEF Doing, After
  <1>2. a.mood = "fresh" /\ x.fields = a.pend /\ HasLast(a.pend) /\ Consistent(a)
    BY DEF Doing, Covered
  <1>3. /\ b.at = a.at /\ b.size = a.size /\ b.fit = Nothing /\ b.ahead = a.ahead
        /\ b.unit = a.unit /\ b.mood = "plain" /\ b.pend = {} /\ b.off = a.off
    BY <1>1 DEF Known
  <1>4. /\ Closed(P) /\ q \in Nat /\ l \in Nat /\ Stacked(P, ps, s, q, l)
        /\ Knows(KnownAt(ps, s), fr, q, m, sw)
        /\ Swapped(sw, Edge(KnownAt(ps, s), fr, q))
        /\ Passed(hs, Edge(KnownAt(ps, s), fr, q))
        /\ Numbers(m) /\ History(hs, c, m, sw, l)
        /\ Origin(ps[1], l) \in hs \cup {c}
    BY DEF Walking
  <1>5. /\ Stacked(P, ps, s2, q, l) /\ Last(s2) = fr2
        /\ fr2.lim = fr.lim /\ fr2.base = fr.base
        /\ KnownAt(ps, s2) = b /\ KnownAt(ps, s) = a
        /\ ViewStack(ps, s2) = ViewStack(ps, s)
    BY <1>3, <1>4, StayStack
  <1>6. fr.base \in Nat /\ fr.base + a.size <= q /\ fr.base + a.size <= l /\ a.size \in Nat
    BY <1>2, <1>4, TopFrame DEF Fitting, Doing, Consistent
  <1>7. Edge(a, fr, q) = fr.base /\ Edge(b, fr2, q) = q
    BY <1>2, <1>3 DEF Edge
  <1>8. c = Config(ViewStack(ps, s), q, DOMAIN sw \cup done)
    BY <1>2, <1>5 DEF Shown
  <1>9. \A t \in done : /\ t[1] \in Nat /\ t[2] \in Nat \ {0}
                        /\ fr.base <= t[1] /\ t[1] + t[2] <= fr.base + a.size
    BY <1>2, <1>6, PlacedBehind
  <1>10. \A r \in Nat : r <= l => Furthest(done, r) \in Nat /\ Furthest(done, r) <= l
    BY <1>2, <1>4, <1>6, FurthestInside
  <1> HIDE DEF fr, fr2, s2, done, c
  <1>11. \A t \in done : /\ t[1] \in Nat /\ t[2] \in Nat \ {0}
                         /\ fr.base <= t[1] /\ t[1] + t[2] <= q
    BY <1>4, <1>6, <1>9
  <1>12. fr.base <= q
    BY <1>4, <1>6
  <1>13. DOMAIN sw2 = DOMAIN sw \cup done /\ Swapped(sw2, q) /\ Beyond(sw2, sw, fr.base)
    BY <1>4, <1>5, <1>6, <1>7, <1>11, <1>12, SwapsAdded
  <1> HIDE DEF sw2
  <1>14. Shown(ps, s2, q, sw2) = c
    BY <1>3, <1>5, <1>8, <1>13 DEF Shown, Placed
  <1>15. Passed(hs, q)
    BY <1>4, <1>5, <1>6, <1>7, <1>12 DEF Passed
  <1>16. History(hs, c, m, sw2, l)
    <2> SUFFICES ASSUME NEW h \in hs
                 PROVE  \E k \in hs \cup {c} : ViewStep(h, k, m, sw2, l)
      BY DEF History
    <2>1. PICK k \in hs \cup {c} : ViewStep(h, k, m, sw, l)
      BY <1>4 DEF History
    <2>2. h.pos \in Nat /\ h.pos <= fr.base
      BY <1>4, <1>5, <1>7 DEF Passed
    <2>3. ViewStep(h, k, m, sw2, l)
      BY <1>6, <1>13, <2>1, <2>2, StepSwapped
    <2> QED BY <2>3
  <1>17. Knows(b, fr2, q, m, sw2)
    BY <1>2, <1>3, <1>4, <1>5 DEF Knows
  <1>18. Walking(P, ps, hs, s2, q, m, sw2, l)
    BY <1>4, <1>5, <1>7, <1>13, <1>14, <1>15, <1>16, <1>17 DEF Walking
  <1> QED BY <1>10, <1>18 DEF Walks, fr, fr2, s2, done, sw2

-----------------------------------------------------------------------------
(* Steps that the view repeats.                                            *)

\* Moving on in the view as in the walk.
LEMMA ViewMoved ==
    ASSUME NEW p, NEW fr, NEW a, NEW b, NEW x, NEW e,
           Doing(p, fr, a, b, x), b.at = a.at + 1
    PROVE  ViewFrame(p, Moved(fr, e)) = Moved(ViewFrame(p, fr), e)
  <1>1. /\ Moved(fr, e).i = fr.i + 1 /\ Moved(fr, e).base = e
        /\ Moved(fr, e).lim = fr.lim /\ Moved(fr, e).left = fr.left
    BY DEF Moved, Frame
  <1>2. Track(p)[fr.i + 1].at = Track(p)[fr.i].at + 1
    BY DEF Doing
  <1>3. ViewFrame(p, Moved(fr, e))
        = Frame(p.view, Track(p)[fr.i].at + 1, e, fr.lim, p.show, fr.left, 0)
    BY <1>1, <1>2 DEF ViewFrame
  <1> DEFINE w == ViewFrame(p, fr)
  <1>4. /\ w.prog = p.view /\ w.i = Track(p)[fr.i].at /\ w.lim = fr.lim
        /\ w.exit = p.show /\ w.left = fr.left /\ w.slack = 0
    BY DEF ViewFrame, Frame
  <1> HIDE DEF w
  <1>5. Moved(w, e) = Frame(w.prog, w.i + 1, e, w.lim, w.exit, w.left, w.slack)
    BY DEF Moved
  <1> QED BY <1>3, <1>4, <1>5 DEF w

LEMMA PassOver ==
    ASSUME NEW P, NEW ps, NEW hs, NEW s, NEW q, NEW m, NEW sw, NEW l,
           Walking(P, ps, hs, s, q, m, sw, l),
           NEW a, NEW b, NEW x, NEW e \in Nat, NEW q2 \in Nat, NEW m2,
           Doing(Last(ps), Last(s), a, b, x),
           b.at = a.at + 1, q <= q2, e + b.size <= q2, e + b.size <= l,
           Knows(b, Moved(Last(s), e), q2, m2, sw),
           q <= Edge(b, Moved(Last(s), e), q2), Numbers(m2), Extends(m2, m),
           LET c == Shown(ps, s, q, sw)
           IN  ViewStep(c, Config(Replaced(c.stack, Moved(Here(c), e)), q2,
                                  DOMAIN sw \cup Placed(b.pend, e)), m2, sw, l)
    PROVE  Walks(P, ps[1], Replaced(s, Moved(Last(s), e)), q2, m2, sw, l)
  <1> DEFINE p == Last(ps)
             fr == Last(s)
             fr2 == Moved(fr, e)
             s2 == Replaced(s, fr2)
             c == Shown(ps, s, q, sw)
             c2 == Config(Replaced(c.stack, Moved(Here(c), e)), q2,
                          DOMAIN sw \cup Placed(b.pend, e))
  <1>1. /\ Closed(P) /\ q \in Nat /\ l \in Nat /\ Stacked(P, ps, s, q, l)
        /\ Fitting(p, fr, q, l) /\ List(s) /\ Len(s) > 0 /\ Len(ps) = Len(s)
    BY TopFrame DEF Walking
  <1>2. Doing(p, fr, a, b, x) /\ ViewStep(c, c2, m2, sw, l)
    OBVIOUS
  <1>3. /\ c.stack = ViewStack(ps, s) /\ Here(c) = ViewFrame(p, fr)
    BY <1>1, ShownHere
  <1>4. Fitting(p, fr2, q2, l) /\ fr2.lim = fr.lim /\ fr2.base = e /\ fr2.i = fr.i + 1
    <2> HIDE DEF p, fr
    <2> QED BY <1>1, <1>2, MovedFitting
  <1>5. ViewFrame(p, fr2) = Moved(ViewFrame(p, fr), e)
    <2> HIDE DEF p, fr
    <2> QED BY <1>2, ViewMoved
  <1> HIDE DEF fr2, c
  <1>6. Stacked(P, ps, s2, q2, l) /\ Last(s2) = fr2
    BY <1>1, <1>4, StackReplaced
  <1>7. KnownAt(ps, s2) = b
    BY <1>4, <1>6 DEF KnownAt, Doing
  <1>8. ViewStack(ps, s2) = Replaced(ViewStack(ps, s), ViewFrame(p, fr2))
    BY <1>1, ViewReplaced
  <1>9. Shown(ps, s2, q2, sw) = c2
    BY <1>3, <1>4, <1>5, <1>6, <1>7, <1>8 DEF Shown
  <1> HIDE DEF c2, s2
  <1>10. \E hs2 : Walking(P, ps, hs2, s2, q2, m2, sw, l)
    BY <1>2, <1>6, <1>7, <1>9, PassStep DEF c, fr2
  <1> QED BY <1>10 DEF Walks, s2, fr2

\* The view is at c when the walk is in frame fr of pair p.
Facing(c, p, fr, a, q, sw) ==
    /\ c.pos = q
    /\ a.pend = {} => c.fields = DOMAIN sw
    /\ Here(c).base = fr.base
    /\ Here(c).lim = fr.lim
    /\ a.at <= Len(p.view) => Going(c) /\ Instr(c) = p.view[a.at]

LEMMA ShownInstr ==
    ASSUME NEW P, NEW ps, NEW hs, NEW s, NEW q, NEW m, NEW sw, NEW l,
           Walking(P, ps, hs, s, q, m, sw, l),
           NEW a, NEW b, NEW x, Doing(Last(ps), Last(s), a, b, x)
    PROVE  /\ a = KnownAt(ps, s)
           /\ Facing(Shown(ps, s, q, sw), Last(ps), Last(s), a, q, sw)
  <1> DEFINE p == Last(ps)
             fr == Last(s)
             c == Shown(ps, s, q, sw)
             w == ViewFrame(p, fr)
  <1>1. a = KnownAt(ps, s) /\ a = Track(p)[fr.i]
    BY DEF Doing, KnownAt
  <1>2. /\ c.pos = q /\ Here(c) = w
        /\ KnownAt(ps, s).pend = {} => c.fields = DOMAIN sw
    BY ShownHere DEF Walking
  <1>3. w.prog = p.view /\ w.i = a.at /\ w.base = fr.base /\ w.lim = fr.lim
    BY <1>1 DEF ViewFrame, Frame
  <1> HIDE DEF p, fr, c, w
  <1>4. Facing(c, p, fr, a, q, sw)
    BY <1>1, <1>2, <1>3 DEF Facing, Going, Instr
  <1> QED BY <1>1, <1>4 DEF p, fr, c

LEMMA StructStep ==
    ASSUME NEW P, NEW ps, NEW hs, NEW s, NEW q, NEW m, NEW sw, NEW l,
           Walking(P, ps, hs, s, q, m, sw, l),
           NEW a, NEW b, NEW x, Doing(Last(ps), Last(s), a, b, x),
           \/ x.op = "struct" /\ q + x.n <= l
           \/ x.op = "step"
    PROVE  Walks(P, ps[1], Replaced(s, Moved(Last(s), q)), q + x.n, m, sw, l)
  <1> DEFINE p == Last(ps)
             fr == Last(s)
             c == Shown(ps, s, q, sw)
             y == p.view[a.at]
             q2 == q + x.n
             fr2 == Moved(fr, q)
             c2 == Config(Replaced(c.stack, Moved(Here(c), q)), q2,
                          DOMAIN sw \cup Placed(b.pend, q))
  <1>1. /\ Closed(P) /\ q \in Nat /\ l \in Nat /\ Stacked(P, ps, s, q, l)
        /\ Fitting(p, fr, q, l) /\ Numbers(m) /\ Knows(KnownAt(ps, s), fr, q, m, sw)
    BY TopFrame DEF Walking
  <1>2. /\ a.pend = {} /\ Consistent(a) /\ ShowsStruct(p, a, x.n)
        /\ x.op = "struct" => p.area = "body"
        /\ x.op = "step" => a.mood # "late" /\ x.n <= a.ahead
    BY DEF Doing, Covered
  <1>3. b = Known(a.at + 1, x.n, IF x.op = "struct" THEN 0 ELSE a.ahead - x.n, Nothing, 0,
                  IF x.op # "struct" /\ x.n = a.unit THEN x.n ELSE 0, "fresh", y.fields,
                  Shift(a.off, x.n))
    BY DEF Doing, After
  <1>4. /\ b.at = a.at + 1 /\ b.size = x.n /\ b.fit = Nothing /\ b.mood = "fresh"
        /\ b.ahead = (IF x.op = "struct" THEN 0 ELSE a.ahead - x.n)
        /\ b.unit = (IF x.op # "struct" /\ x.n = a.unit THEN x.n ELSE 0)
        /\ b.pend = y.fields /\ b.off = Shift(a.off, x.n)
    BY <1>3 DEF Known
  <1>5. a.at <= Len(p.view) /\ y.op = "obj" /\ y.n = x.n /\ x.n \in Nat
    BY <1>2 DEF ShowsStruct
  <1>6. /\ a = KnownAt(ps, s) /\ c.pos = q /\ c.fields = DOMAIN sw
        /\ Going(c) /\ Instr(c) = y
    <2>1. a = KnownAt(ps, s) /\ Facing(c, p, fr, a, q, sw)
      BY ShownInstr
    <2> QED BY <1>2, <1>5, <2>1 DEF Facing
  <1>7. fr2.lim = fr.lim /\ fr2.base = q
    BY DEF Moved, Frame
  <1>8. fr.lim \in Nat /\ fr.lim <= l /\ (p.area = "body" => fr.lim = l)
    BY <1>1 DEF Fitting
  <1>9. Knows(a, fr, q, m, sw) /\ a.ahead \in Nat /\ a.unit \in Nat
    BY <1>1, <1>2, <1>6 DEF Consistent
  <1> HIDE DEF p, fr, c, y, fr2
  <1>10. q2 + b.ahead <= fr.lim /\ q2 <= l
    BY <1>1, <1>2, <1>4, <1>5, <1>8, <1>9 DEF Knows
  <1>11. b.unit > 0 => Multiple(fr.lim - q2, b.unit)
    <2> SUFFICES ASSUME b.unit > 0 PROVE Multiple(fr.lim - q2, b.unit)
      OBVIOUS
    <2>1. b.unit = x.n /\ x.n = a.unit /\ a.unit > 0 /\ x.op # "struct"
      BY <1>4
    <2>2. Multiple(fr.lim - q, a.unit)
      BY <1>9, <2>1 DEF Knows
    <2>3. fr.lim - q >= a.unit
      BY <1>1, <1>2, <1>8, <1>9, <2>1 DEF Knows
    <2>4. PICK v \in Int : v = fr.lim - q
      BY <1>1, <1>8
    <2>5. Multiple(v - a.unit, a.unit)
      BY <1>9, <2>1, <2>2, <2>3, <2>4, MultipleLess
    <2>6. v - a.unit = fr.lim - q2
      BY <1>1, <1>8, <1>9, <2>1, <2>4
    <2> QED BY <2>1, <2>5, <2>6
  <1>12. b.off # Unknown => q2 = b.off
    BY <1>4, <1>9 DEF Shift, Knows
  <1>13. Knows(b, fr2, q2, m, sw)
    BY <1>4, <1>7, <1>10, <1>11, <1>12 DEF Knows
  <1>14. Edge(b, fr2, q2) = q
    BY <1>4, <1>7 DEF Edge
  <1>15. ViewStep(c, c2, m, sw, l)
    <2>1. StepStruct(c, c2)
      BY <1>4, <1>5, <1>6 DEF StepStruct
    <2> QED BY <1>6, <2>1 DEF ViewStep
  <1>16. q2 \in Nat /\ q <= q2 /\ q + b.size <= q2 /\ q + b.size <= l /\ q <= q
    BY <1>1, <1>4, <1>5, <1>10
  <1>17. Extends(m, m)
    BY DEF Extends
  <1> HIDE DEF q2
  <1>18. Walks(P, ps[1], Replaced(s, Moved(Last(s), q)), q2, m, sw, l)
    BY <1>1, <1>4, <1>13, <1>14, <1>15, <1>16, <1>17, PassOver DEF fr2, fr, c
  <1> QED BY <1>18 DEF q2

\* Member f of the structure at e is read as v, and m2 knows it.
IsRead(f, v, e, q, m, m2, sw, l) ==
    /\ v \in Nat
    /\ Extends(m2, m)
    /\ Numbers(m2)
    /\ f = ToEnd => v = l - q
    /\ f # ToEnd => Key(f, e, sw) \in DOMAIN m2 /\ m2[Key(f, e, sw)] = v
    /\ \A h : Here(h).base = e /\ h.pos = q => Reading(f, v, h, m2, sw, l)

\* Nothing is known behind bytes, a part or a loop.
Passing(a, b) ==
    /\ b.at = a.at + 1
    /\ b.size = a.size
    /\ b.ahead = 0
    /\ b.fit = Nothing
    /\ b.unit = 0
    /\ b.mood # "fresh"
    /\ b.pend = {}
    /\ b.off = Unknown

LEMMA OverStep ==
    ASSUME NEW P, NEW ps, NEW hs, NEW s, NEW q, NEW m, NEW sw, NEW l,
           Walking(P, ps, hs, s, q, m, sw, l),
           NEW a, NEW b, NEW x, Doing(Last(ps), Last(s), a, b, x),
           NEW q2 \in Nat, NEW m2, q <= q2, Passing(a, b),
           b.mood # "late" => q2 <= Last(s).lim,
           Numbers(m2), Extends(m2, m),
           LET c == Shown(ps, s, q, sw)
           IN  ViewStep(c, Config(Over(c), q2, DOMAIN sw), m2, sw, l)
    PROVE  Walks(P, ps[1], Replaced(s, Moved(Last(s), Last(s).base)), q2, m2, sw, l)
  <1> DEFINE fr == Last(s)
             c == Shown(ps, s, q, sw)
             c2 == Config(Over(c), q2, DOMAIN sw)
  <1>1. PICK e : e = fr.base
    OBVIOUS
  <1>2. /\ Closed(P) /\ q \in Nat /\ l \in Nat /\ Stacked(P, ps, s, q, l)
        /\ Fitting(Last(ps), fr, q, l)
    BY TopFrame DEF Walking
  <1>3. e \in Nat /\ e + a.size <= q /\ e + a.size <= l /\ a.size \in Nat /\ fr.lim \in Nat
    BY <1>1, <1>2 DEF Fitting, Doing, Consistent
  <1>4. Facing(c, Last(ps), fr, a, q, sw)
    BY ShownInstr
  <1>5. Moved(fr, e).lim = fr.lim /\ Moved(fr, e).base = e
    BY DEF Moved, Frame
  <1>6. Knows(b, Moved(fr, e), q2, m2, sw)
    BY <1>3, <1>5 DEF Knows, Passing
  <1>7. Edge(b, Moved(fr, e), q2) = q2
    BY DEF Edge, Passing
  <1>8. c2 = Config(Replaced(c.stack, Moved(Here(c), e)), q2, DOMAIN sw \cup Placed(b.pend, e))
    BY <1>1, <1>4 DEF Over, Facing, Passing, Placed
  <1>9. ViewStep(c, c2, m2, sw, l)
    OBVIOUS
  <1>10. b.at = a.at + 1 /\ e + b.size <= q2 /\ e + b.size <= l
    BY <1>2, <1>3 DEF Passing
  <1> HIDE DEF c2
  <1>11. Walks(P, ps[1], Replaced(s, Moved(fr, e)), q2, m2, sw, l)
    BY <1>2, <1>3, <1>6, <1>7, <1>8, <1>9, <1>10, PassOver
  <1> QED BY <1>1, <1>11

\* Bytes of the body that the codec passes.
LEMMA TakeStep ==
    ASSUME NEW P, NEW ps, NEW hs, NEW s, NEW q, NEW m, NEW sw, NEW l,
           Walking(P, ps, hs, s, q, m, sw, l),
           NEW a, NEW b, NEW x, Doing(Last(ps), Last(s), a, b, x),
           x.op \in {"take", "skip"}, NEW v, NEW m2,
           IsRead(x.f, v, Last(s).base, q, m, m2, sw, l),
           x.op = "take" => q + v <= l
    PROVE  Walks(P, ps[1], Replaced(s, Moved(Last(s), Last(s).base)), q + v, m2, sw, l)
  <1> DEFINE p == Last(ps)
             fr == Last(s)
             c == Shown(ps, s, q, sw)
             c2 == Config(Over(c), q + v, DOMAIN sw)
  <1>1. /\ q \in Nat /\ l \in Nat /\ Fitting(p, fr, q, l)
        /\ Knows(KnownAt(ps, s), fr, q, m, sw)
    BY TopFrame DEF Walking
  <1>2. /\ a.pend = {} /\ Inside(x.f, a) /\ ShowsSame(p, a, "bytes", x.f)
        /\ x.op = "take" => p.area = "body"
    BY DEF Doing, Covered
  <1>3. b = Known(a.at + 1, a.size, 0, Nothing, 0, 0,
                  IF x.op = "take" \/ x.f = a.fit THEN "plain" ELSE "late", {}, Unknown)
    BY DEF Doing, After
  <1>4. Passing(a, b) /\ (b.mood # "late" => x.op = "take" \/ x.f = a.fit)
    BY <1>3 DEF Known, Passing
  <1>5. a = KnownAt(ps, s) /\ Facing(c, p, fr, a, q, sw)
    BY ShownInstr
  <1>6. v \in Nat /\ Extends(m2, m) /\ Numbers(m2)
    BY DEF IsRead
  <1>7. Going(c) /\ Instr(c).op = "bytes" /\ Instr(c).f = x.f /\ c.fields = DOMAIN sw
        /\ c.pos = q /\ Here(c).base = fr.base
    BY <1>2, <1>5 DEF Facing, ShowsSame
  <1>8. Reading(Instr(c).f, v, c, m2, sw, l)
    BY <1>7 DEF IsRead
  <1> HIDE DEF c
  <1>9. ViewStep(c, c2, m2, sw, l)
    <2>1. StepBytes(c, c2, v)
      BY <1>7 DEF StepBytes
    <2> QED BY <1>7, <1>8, <2>1 DEF ViewStep
  <1>10. b.mood # "late" => q + v <= fr.lim
    <2>1. CASE x.op = "take"
      BY <1>1, <1>2, <2>1 DEF Fitting
    <2>2. CASE x.f = a.fit
      <3>1. x.f # Nothing /\ x.f # ToEnd
        BY <1>2 DEF Inside, Nothing, ToEnd, Member
      <3>2. /\ Key(x.f, fr.base, sw) \in DOMAIN m
            /\ q + m[Key(x.f, fr.base, sw)] <= fr.lim
        BY <1>1, <1>5, <2>2, <3>1 DEF Knows
      <3>3. m[Key(x.f, fr.base, sw)] = v
        BY <1>6, <3>1, <3>2 DEF IsRead, Extends
      <3> QED BY <3>2, <3>3
    <2> QED BY <1>4, <2>1, <2>2
  <1>11. PICK q2 \in Nat : q2 = q + v /\ q <= q2
    BY <1>1, <1>6
  <1>12. Walks(P, ps[1], Replaced(s, Moved(fr, fr.base)), q2, m2, sw, l)
    BY <1>4, <1>6, <1>9, <1>10, <1>11, OverStep DEF c
  <1> QED BY <1>11, <1>12

\* A part or loop that is not entered.
LEMMA NotCalled ==
    ASSUME NEW P, NEW ps, NEW hs, NEW s, NEW q, NEW m, NEW sw, NEW l,
           Walking(P, ps, hs, s, q, m, sw, l),
           NEW a, NEW b, NEW x, Doing(Last(ps), Last(s), a, b, x),
           NEW v, NEW m2, IsRead(x.f, v, Last(s).base, q, m, m2, sw, l),
           \/ x.op = "when" /\ v \notin x.vals
           \/ x.op \in {"times", "loop"} /\ v = 0
    PROVE  Walks(P, ps[1], Replaced(s, Moved(Last(s), Last(s).base)), q, m2, sw, l)
  <1> DEFINE p == Last(ps)
             fr == Last(s)
             c == Shown(ps, s, q, sw)
             c2 == Config(Over(c), q, DOMAIN sw)
  <1>1. /\ q \in Nat /\ l \in Nat /\ Fitting(p, fr, q, l)
        /\ Knows(KnownAt(ps, s), fr, q, m, sw)
    BY TopFrame DEF Walking
  <1>2. /\ a.pend = {} /\ a.mood # "late" /\ ShowsSame(p, a, x.op, x.f)
        /\ x.op = "when" => p.view[a.at].vals = x.vals
    BY DEF Doing, Covered
  <1>3. b = Known(a.at + 1, a.size, 0, Nothing, 0, 0, "plain", {}, Unknown)
    BY DEF Doing, After
  <1>4. Passing(a, b)
    BY <1>3 DEF Known, Passing
  <1>5. a = KnownAt(ps, s) /\ Facing(c, p, fr, a, q, sw)
    BY ShownInstr
  <1>6. v \in Nat /\ Extends(m2, m) /\ Numbers(m2)
    BY DEF IsRead
  <1>7. /\ Going(c) /\ Instr(c).op = x.op /\ Instr(c).f = x.f /\ c.fields = DOMAIN sw
        /\ c.pos = q /\ Here(c).base = fr.base
        /\ x.op = "when" => Instr(c).vals = x.vals
    BY <1>2, <1>5 DEF Facing, ShowsSame
  <1>8. Reading(Instr(c).f, v, c, m2, sw, l)
    BY <1>7 DEF IsRead
  <1>9. q <= fr.lim
    BY <1>1, <1>2, <1>5 DEF Knows, Fitting, Doing, Consistent
  <1> HIDE DEF c
  <1>10. ViewStep(c, c2, m2, sw, l)
    <2>1. StepWhen(c, c2, v) \/ StepTimes(c, c2, v) \/ StepLoop(c, c2, v)
      BY <1>7 DEF StepWhen, StepTimes, StepLoop
    <2> QED BY <1>7, <1>8, <2>1 DEF ViewStep
  <1>11. q <= q
    BY <1>1
  <1> QED BY <1>1, <1>4, <1>6, <1>9, <1>10, <1>11, OverStep DEF c

-----------------------------------------------------------------------------
(* Parts and loops.                                                        *)

\* A part or loop can be entered at q: its pair p2, and the end e2 of its area.
Enterable(p2, a, fr, q, e2, l) ==
    /\ p2.place = "inner"
    /\ p2.size = a.size
    /\ e2 <= fr.lim
    /\ p2.exit = "count" => e2 = fr.lim
    /\ p2.area = "body" => e2 = l
    /\ q + Left(p2) <= e2
    /\ p2.unit > 0 => Multiple(e2 - q, p2.unit)

\* What is known at the start of a part or loop.
LEMMA KnownStart ==
    ASSUME NEW p, Sound(p)
    PROVE  /\ Track(p)[1].at = 1 /\ Track(p)[1].size = p.size
           /\ Track(p)[1].ahead = Left(p) /\ Track(p)[1].fit = Nothing
           /\ Track(p)[1].unit = p.unit /\ Track(p)[1].mood = "plain"
           /\ Track(p)[1].pend = {}
           /\ Track(p)[1].off = (IF p.place = "main" THEN 0 ELSE Unknown)
           /\ Consistent(Track(p)[1])
           /\ 1 \in 1 .. Len(p.walk) + 1
           /\ Left(p) \in Nat /\ p.unit \in Nat /\ p.size \in Nat
  <1>1. Track(p)[1] = AtStart(p) /\ Len(p.walk) \in Nat
    BY DEF Sound
  <1>2. 1 \in 1 .. Len(p.walk) + 1
    BY <1>1
  <1>3. Consistent(Track(p)[1])
    BY <1>2, KnownConsistent
  <1>4. /\ Track(p)[1].at = 1 /\ Track(p)[1].size = p.size
        /\ Track(p)[1].ahead = Left(p) /\ Track(p)[1].fit = Nothing
        /\ Track(p)[1].unit = p.unit /\ Track(p)[1].mood = "plain"
        /\ Track(p)[1].pend = {}
        /\ Track(p)[1].off = (IF p.place = "main" THEN 0 ELSE Unknown)
    BY <1>1 DEF AtStart, Known
  <1> QED BY <1>2, <1>3, <1>4 DEF Consistent

LEMMA CallStep ==
    ASSUME NEW P, NEW ps, NEW hs, NEW s, NEW q, NEW m, NEW sw, NEW l,
           Walking(P, ps, hs, s, q, m, sw, l),
           NEW a, NEW b, NEW x, Doing(Last(ps), Last(s), a, b, x),
           Passing(a, b), b.mood = "plain",
           NEW p2 \in P, NEW n \in Nat, NEW e2 \in Nat, NEW m2,
           Enterable(p2, a, Last(s), q, e2, l), Numbers(m2), Extends(m2, m),
           LET c == Shown(ps, s, q, sw)
           IN  ViewStep(c, Config(Called(c.stack, p2.view, e2, p2.show, n, 0), q, DOMAIN sw),
                        m2, sw, l)
    PROVE  Walks(P, ps[1], Called(s, p2.walk, e2, p2.exit, n, 0), q, m2, sw, l)
  <1> DEFINE p == Last(ps)
             fr == Last(s)
             c == Shown(ps, s, q, sw)
             c2 == Config(Called(c.stack, p2.view, e2, p2.show, n, 0), q, DOMAIN sw)
  <1>1. PICK e : e = fr.base
    OBVIOUS
  <1> DEFINE fr1 == Moved(fr, e)
             fr2 == Frame(p2.walk, 1, e, e2, p2.exit, n, 0)
             t == Replaced(s, fr1)
             s2 == Append(t, fr2)
             ps2 == Append(ps, p2)
  <1>2. /\ Closed(P) /\ q \in Nat /\ l \in Nat /\ Stacked(P, ps, s, q, l)
        /\ Fitting(p, fr, q, l) /\ List(s) /\ List(ps) /\ Len(s) > 0 /\ Len(ps) = Len(s)
    BY TopFrame DEF Walking
  <1>3. /\ e \in Nat /\ e + a.size <= q /\ e + a.size <= l /\ a.size \in Nat
        /\ fr.lim \in Nat /\ fr.lim <= l /\ b.size = a.size
    BY <1>1, <1>2 DEF Fitting, Doing, Consistent, Passing
  <1>4. Doing(p, fr, a, b, x) /\ ViewStep(c, c2, m2, sw, l)
    OBVIOUS
  <1>5. Sound(p2)
    BY <1>2 DEF Closed
  <1>6. Fitting(p, fr1, q, l) /\ fr1.lim = fr.lim /\ fr1.base = e /\ fr1.i = fr.i + 1
    <2> HIDE DEF p, fr
    <2> QED BY <1>2, <1>3, <1>4, MovedFitting
  <1>7. /\ fr2.prog = p2.walk /\ fr2.i = 1 /\ fr2.base = e /\ fr2.lim = e2
        /\ fr2.exit = p2.exit /\ fr2.left = n /\ fr2.slack = 0
    BY DEF Frame
  <1>8. Track(p)[fr.i + 1] = b /\ b.at = a.at + 1
    BY DEF Doing, Passing
  <1>9. c.stack = ViewStack(ps, s) /\ Here(c) = ViewFrame(p, fr)
    BY <1>2, ShownHere
  <1>10. Facing(c, p, fr, a, q, sw)
    BY ShownInstr
  <1>11. ViewFrame(p, fr1) = Moved(ViewFrame(p, fr), e)
    <2> HIDE DEF p, fr
    <2> QED BY <1>4, <1>8, ViewMoved
  <1> HIDE DEF fr1, fr2, c
  <1>12. Fitting(p2, fr2, q, l)
    BY <1>2, <1>3, <1>5, <1>7, KnownStart DEF Fitting, Enterable
  <1>13. Linked(p, fr1, p2, fr2)
    BY <1>3, <1>6, <1>7, <1>8 DEF Linked, Enterable, Passing, Bland
  <1>14. /\ Stacked(P, ps2, s2, q, l)
         /\ ps2[1] = ps[1] /\ Last(ps2) = p2 /\ Last(s2) = fr2
    BY <1>2, <1>6, <1>12, <1>13, StackCalled
  <1>15. KnownAt(ps2, s2) = Track(p2)[1]
    BY <1>7, <1>14 DEF KnownAt
  <1>16. Knows(Track(p2)[1], fr2, q, m2, sw)
    BY <1>5, <1>7, KnownStart DEF Knows, Enterable
  <1>17. Edge(Track(p2)[1], fr2, q) = q
    BY <1>5, KnownStart DEF Edge
  <1>18. ViewStack(ps2, s2) = Append(ViewStack(ps, t), ViewFrame(p2, fr2))
    <2>1. List(t) /\ Len(t) = Len(s)
      BY <1>2, ReplacedList
    <2> HIDE DEF t
    <2> QED BY <1>2, <2>1, ViewAppended
  <1>19. ViewStack(ps, t) = Replaced(ViewStack(ps, s), ViewFrame(p, fr1))
    BY <1>2, ViewReplaced
  <1>20. ViewFrame(p2, fr2) = Frame(p2.view, 1, e, e2, p2.show, n, 0)
    BY <1>5, <1>7, KnownStart DEF ViewFrame
  <1>21. Last(c.stack) = ViewFrame(p, fr) /\ Last(c.stack).base = e
    BY <1>1, <1>9, <1>10 DEF Here, Facing
  <1>22. ViewStack(ps2, s2) = Called(c.stack, p2.view, e2, p2.show, n, 0)
    <2> HIDE DEF s2, ps2, t, p, fr
    <2> QED BY <1>9, <1>11, <1>18, <1>19, <1>20, <1>21 DEF Called
  <1>23. Track(p2)[1].pend = {}
    BY <1>5, KnownStart
  <1>24. Shown(ps2, s2, q, sw) = c2
    <2> HIDE DEF s2, ps2
    <2> QED BY <1>15, <1>22, <1>23 DEF Shown, Placed
  <1>25. s2 = Called(s, p2.walk, e2, p2.exit, n, 0)
    BY <1>1 DEF Called, fr1, fr2
  <1> HIDE DEF s2, ps2, c2
  <1>26. q <= Edge(KnownAt(ps2, s2), Last(s2), q)
    BY <1>2, <1>14, <1>15, <1>17
  <1>27. \E hs2 : Walking(P, ps2, hs2, s2, q, m2, sw, l)
    BY <1>2, <1>4, <1>14, <1>15, <1>16, <1>24, <1>26, PassStep DEF c
  <1> QED BY <1>14, <1>25, <1>27 DEF Walks

\* A part that is entered.
LEMMA PartStep ==
    ASSUME NEW P, NEW ps, NEW hs, NEW s, NEW q, NEW m, NEW sw, NEW l,
           Walking(P, ps, hs, s, q, m, sw, l),
           NEW a, NEW b, NEW x, Doing(Last(ps), Last(s), a, b, x),
           NEW v, NEW m2, IsRead(x.f, v, Last(s).base, q, m, m2, sw, l), NEW n \in Nat,
           \/ x.op = "when" /\ v \in x.vals /\ n = 0
           \/ x.op = "times" /\ v > 0 /\ n = v - 1
    PROVE  Walks(P, ps[1], Called(s, x.body, Last(s).lim, "count", n, 0), q, m2, sw, l)
  <1> DEFINE p == Last(ps)
             fr == Last(s)
             c == Shown(ps, s, q, sw)
             y == p.view[a.at]
             p2 == Part(p, fr.i)
             c2 == Config(Called(c.stack, p2.view, fr.lim, p2.show, n, 0), q, DOMAIN sw)
  <1>1. /\ q \in Nat /\ l \in Nat /\ Fitting(p, fr, q, l)
        /\ Knows(KnownAt(ps, s), fr, q, m, sw)
        /\ \A i \in Calls(p) : Part(p, i) \in P
    BY TopFrame DEF Walking
  <1>2. /\ a.pend = {} /\ a.mood # "late" /\ ShowsSame(p, a, x.op, x.f)
        /\ x.op = "when" => p.view[a.at].vals = x.vals
    BY DEF Doing, Covered
  <1>3. b = Known(a.at + 1, a.size, 0, Nothing, 0, 0, "plain", {}, Unknown)
    BY DEF Doing, After
  <1>4. Passing(a, b) /\ b.mood = "plain"
    BY <1>3 DEF Known, Passing
  <1>5. a = KnownAt(ps, s) /\ Facing(c, p, fr, a, q, sw)
    BY ShownInstr
  <1>6. v \in Nat /\ Extends(m2, m) /\ Numbers(m2)
    BY DEF IsRead
  <1>7. /\ Going(c) /\ Instr(c) = y /\ y.op = x.op /\ y.f = x.f /\ c.fields = DOMAIN sw
        /\ c.pos = q /\ Here(c).base = fr.base /\ Here(c).lim = fr.lim
        /\ x.op = "when" => y.vals = x.vals
    BY <1>2, <1>5 DEF Facing, ShowsSame
  <1>8. Reading(Instr(c).f, v, c, m2, sw, l)
    BY <1>7 DEF IsRead
  <1>9. q <= fr.lim /\ fr.lim \in Nat /\ (p.area = "body" => fr.lim = l)
    BY <1>1, <1>2, <1>5 DEF Knows, Fitting, Doing, Consistent
  <1>10. fr.i \in Calls(p) /\ x = p.walk[fr.i] /\ a = Track(p)[fr.i]
    BY DEF Doing, Calls
  <1> HIDE DEF c, y, p, fr
  <1>11. p2 = Pair(x.body, y.body, "count", "count", p.area, 0, a.size, "inner")
    BY <1>10 DEF Part, y
  <1>12. /\ p2.walk = x.body /\ p2.view = y.body /\ p2.exit = "count" /\ p2.show = "count"
         /\ p2.area = p.area /\ p2.unit = 0 /\ p2.size = a.size /\ p2.place = "inner"
    BY <1>11 DEF Pair
  <1>13. p2 \in P
    BY <1>1, <1>10
  <1> HIDE DEF p2
  <1>14. Enterable(p2, a, fr, q, fr.lim, l)
    BY <1>1, <1>9, <1>12 DEF Enterable, Left
  <1>15. ViewStep(c, c2, m2, sw, l)
    <2>1. StepWhen(c, c2, v) \/ StepTimes(c, c2, v)
      BY <1>7, <1>12 DEF StepWhen, StepTimes
    <2> QED BY <1>7, <1>8, <2>1 DEF ViewStep
  <1>16. Walks(P, ps[1], Called(s, p2.walk, fr.lim, p2.exit, n, 0), q, m2, sw, l)
    <2>1. PICK e2 \in Nat : e2 = fr.lim
      BY <1>9
    <2> QED BY <1>4, <1>6, <1>13, <1>14, <1>15, <2>1, CallStep DEF c, fr
  <1> QED BY <1>12, <1>16 DEF fr

\* A loop that is entered.
LEMMA LoopStep ==
    ASSUME NEW P, NEW ps, NEW hs, NEW s, NEW q, NEW m, NEW sw, NEW l,
           Walking(P, ps, hs, s, q, m, sw, l),
           NEW a, NEW b, NEW x, Doing(Last(ps), Last(s), a, b, x),
           NEW v, NEW m2, IsRead(x.f, v, Last(s).base, q, m, m2, sw, l),
           x.op = "loop", v > 0
    PROVE  Walks(P, ps[1], Called(s, x.body, q + v, x.exit, 0, x.slack), q, m2, sw, l)
  <1> DEFINE p == Last(ps)
             fr == Last(s)
             c == Shown(ps, s, q, sw)
             y == p.view[a.at]
             p2 == Part(p, fr.i)
             c2 == Config(Called(c.stack, p2.view, q + v, p2.show, 0, 0), q, DOMAIN sw)
  <1>1. /\ q \in Nat /\ l \in Nat /\ Fitting(p, fr, q, l)
        /\ Knows(KnownAt(ps, s), fr, q, m, sw)
        /\ \A i \in Calls(p) : Part(p, i) \in P
    BY TopFrame DEF Walking
  <1>2. /\ a.pend = {} /\ a.mood # "late" /\ ShowsSame(p, a, "loop", x.f)
        /\ SameLoop(p, a, x, y) /\ Consistent(a)
    BY DEF Doing, Covered
  <1>3. b = Known(a.at + 1, a.size, 0, Nothing, 0, 0, "plain", {}, Unknown)
    BY DEF Doing, After
  <1>4. Passing(a, b) /\ b.mood = "plain"
    BY <1>3 DEF Known, Passing
  <1>5. a = KnownAt(ps, s) /\ Facing(c, p, fr, a, q, sw)
    BY ShownInstr
  <1>6. v \in Nat /\ Extends(m2, m) /\ Numbers(m2)
    BY DEF IsRead
  <1>7. /\ Going(c) /\ Instr(c) = y /\ y.op = "loop" /\ y.f = x.f /\ c.fields = DOMAIN sw
        /\ c.pos = q /\ Here(c).base = fr.base
    BY <1>2, <1>5 DEF Facing, ShowsSame
  <1>8. Reading(Instr(c).f, v, c, m2, sw, l)
    BY <1>7 DEF IsRead
  <1>9. /\ q <= fr.lim /\ fr.lim \in Nat /\ (p.area = "body" => fr.lim = l)
        /\ Knows(a, fr, q, m, sw) /\ a.unit \in Nat /\ a.each \in Nat
    BY <1>1, <1>2, <1>5 DEF Knows, Fitting, Consistent
  <1>10. fr.i \in Calls(p) /\ x = p.walk[fr.i] /\ a = Track(p)[fr.i]
    BY DEF Doing, Calls
  <1>11. /\ x.slack = 0 /\ y.slack = 0 /\ x.exit # "count"
         /\ \/ x.f = ToEnd /\ p.area = "body"
            \/ x.f = a.fit /\ Inside(x.f, a)
    BY <1>2 DEF SameLoop
  <1> DEFINE e2 == q + v
  <1>12. e2 \in Nat /\ q + 1 <= e2
    BY <1>1, <1>6
  <1>13. IsRead(x.f, v, fr.base, q, m, m2, sw, l)
    OBVIOUS
  <1> HIDE DEF c, y, p, fr
  <1>14. p2 \in P
    BY <1>1, <1>10
  <1>15. ASSUME x.f = ToEnd
         PROVE  /\ p2.walk = x.body /\ p2.view = y.body /\ p2.exit = x.exit
                /\ p2.show = y.exit
                /\ Enterable(p2, a, fr, q, e2, l)
    <2>1. p2 = Pair(x.body, y.body, x.exit, y.exit, "body", a.unit, a.size, "inner")
      BY <1>10, <1>15 DEF Part, y
    <2>2. /\ p2.walk = x.body /\ p2.view = y.body /\ p2.exit = x.exit /\ p2.show = y.exit
          /\ p2.area = "body" /\ p2.unit = a.unit /\ p2.size = a.size /\ p2.place = "inner"
      BY <2>1 DEF Pair
    <2> HIDE DEF p2
    <2>3. v = l - q /\ p.area = "body"
      BY <1>11, <1>13, <1>15 DEF IsRead, Inside, ToEnd, Member
    <2>4. e2 = l /\ e2 = fr.lim
      BY <1>1, <1>9, <2>3
    <2>5. a.unit > 0 => Multiple(e2 - q, a.unit)
      BY <1>9, <2>4 DEF Knows
    <2>6. q + Left(p2) <= e2
      <3>1. CASE a.unit = 0
        BY <1>11, <1>12, <2>2, <3>1 DEF Left
      <3>2. CASE a.unit > 0
        <4>1. PICK w \in Int : w = e2 - q
          BY <1>1, <1>12
        <4>2. w >= a.unit
          BY <1>1, <1>9, <1>12, <2>5, <3>2, <4>1, MultipleLeast
        <4>3. Left(p2) = a.unit
          BY <1>9, <1>11, <2>2, <3>2 DEF Left
        <4> QED BY <1>1, <1>9, <1>12, <4>1, <4>2, <4>3
      <3> QED BY <1>9, <3>1, <3>2
    <2> HIDE DEF e2
    <2> QED BY <1>1, <1>9, <1>11, <2>2, <2>4, <2>5, <2>6 DEF Enterable
  <1>16. ASSUME x.f # ToEnd
         PROVE  /\ p2.walk = x.body /\ p2.view = y.body /\ p2.exit = x.exit
                /\ p2.show = y.exit
                /\ Enterable(p2, a, fr, q, e2, l)
    <2>1. p2 = Pair(x.body, y.body, x.exit, y.exit, "part", a.each, a.size, "inner")
      BY <1>10, <1>16 DEF Part, y
    <2>2. /\ p2.walk = x.body /\ p2.view = y.body /\ p2.exit = x.exit /\ p2.show = y.exit
          /\ p2.area = "part" /\ p2.unit = a.each /\ p2.size = a.size /\ p2.place = "inner"
      BY <2>1 DEF Pair
    <2> HIDE DEF p2
    <2>3. x.f = a.fit /\ x.f # Nothing
      BY <1>11, <1>16 DEF Inside, Nothing, Member
    <2>4. /\ Key(x.f, fr.base, sw) \in DOMAIN m
          /\ q + m[Key(x.f, fr.base, sw)] <= fr.lim
          /\ a.each > 0 => Multiple(m[Key(x.f, fr.base, sw)], a.each)
      BY <1>9, <2>3 DEF Knows
    <2>5. m[Key(x.f, fr.base, sw)] = v
      BY <1>6, <1>13, <1>16, <2>4 DEF IsRead, Extends
    <2>6. e2 <= fr.lim /\ e2 - q = v
      BY <1>1, <1>6, <2>4, <2>5
    <2>7. a.each > 0 => Multiple(e2 - q, a.each)
      BY <2>4, <2>5, <2>6
    <2>8. q + Left(p2) <= e2
      <3>1. CASE a.each = 0
        BY <1>11, <1>12, <2>2, <3>1 DEF Left
      <3>2. CASE a.each > 0
        <4>1. v >= a.each
          BY <1>6, <1>9, <2>6, <2>7, <3>2, MultipleLeast
        <4>2. Left(p2) = a.each
          BY <1>9, <1>11, <2>2, <3>2 DEF Left
        <4> QED BY <1>1, <1>6, <1>9, <4>1, <4>2
      <3> QED BY <1>9, <3>1, <3>2
    <2> HIDE DEF e2
    <2> QED BY <1>1, <1>9, <1>11, <2>2, <2>6, <2>7, <2>8 DEF Enterable
  <1> HIDE DEF p2, e2
  <1>17. /\ p2.walk = x.body /\ p2.view = y.body /\ p2.exit = x.exit /\ p2.show = y.exit
         /\ Enterable(p2, a, fr, q, e2, l)
    BY <1>15, <1>16
  <1>18. ViewStep(c, c2, m2, sw, l)
    <2>1. StepLoop(c, c2, v)
      BY <1>7, <1>11, <1>17 DEF StepLoop
    <2> QED BY <1>7, <1>8, <2>1 DEF ViewStep
  <1>19. Walks(P, ps[1], Called(s, p2.walk, e2, p2.exit, 0, 0), q, m2, sw, l)
    <2>1. ViewStep(Shown(ps, s, q, sw),
                   Config(Called(Shown(ps, s, q, sw).stack, p2.view, e2, p2.show, 0, 0), q,
                          DOMAIN sw), m2, sw, l)
      BY <1>18 DEF c, e2
    <2>2. Enterable(p2, a, Last(s), q, e2, l) /\ 0 \in Nat
      BY <1>17 DEF fr
    <2> QED BY <1>4, <1>6, <1>12, <1>14, <2>1, <2>2, CallStep
  <1> QED BY <1>11, <1>17, <1>19 DEF e2

-----------------------------------------------------------------------------
(* The end of a part or loop.                                              *)

\* The walk is at the end of frame fr of pair p, called by frame g, and the view at c.
Ends(c, p, fr, g, q, l, sw) ==
    /\ p.place = "inner"
    /\ Sound(p)
    /\ fr.exit = p.exit
    /\ fr.slack = 0
    /\ fr.left \in Nat
    /\ fr.lim \in Nat
    /\ fr.lim <= l
    /\ fr.exit = "exact" \/ q <= fr.lim
    /\ p.unit > 0 => Multiple(fr.lim - q, p.unit)
    /\ fr.lim <= g.lim
    /\ g.base \in Nat
    /\ g.base + p.size <= q
    /\ g.base + p.size <= l
    /\ ~Going(c)
    /\ Len(c.stack) > 1
    /\ c.pos = q
    /\ c.fields = DOMAIN sw
    /\ Here(c) = ViewFrame(p, fr)
    /\ Under(c).base = g.base

LEMMA AtEndOf ==
    ASSUME NEW P, NEW ps, NEW hs, NEW s, NEW q, NEW m, NEW sw, NEW l,
           Walking(P, ps, hs, s, q, m, sw, l),
           ~(Last(s).i <= Len(Last(s).prog)), Len(s) > 1
    PROVE  Ends(Shown(ps, s, q, sw), Last(ps), Last(s), s[Len(s) - 1], q, l, sw)
  <1> DEFINE p == Last(ps)
             fr == Last(s)
             c == Shown(ps, s, q, sw)
             a == Track(p)[fr.i]
             g == s[Len(s) - 1]
  <1>1. /\ Closed(P) /\ q \in Nat /\ l \in Nat /\ Stacked(P, ps, s, q, l)
        /\ Fitting(p, fr, q, l) /\ List(s) /\ List(ps) /\ Len(ps) = Len(s)
        /\ Sound(p) /\ Knows(a, fr, q, m, sw)
    BY TopFrame DEF Walking, KnownAt
  <1>2. q <= q
    BY <1>1
  <1>3. /\ Stacked(P, Front(ps), Front(s), q, l) /\ Last(Front(s)) = g
        /\ Linked(Last(Front(ps)), Last(Front(s)), p, fr)
    BY <1>1, <1>2, StackFront
  <1>4. PICK pg : pg = Last(Front(ps))
    OBVIOUS
  <1>5. Fitting(pg, g, q, l) /\ Sound(pg) /\ Linked(pg, g, p, fr)
    BY <1>1, <1>3, <1>4, TopFrame
  <1>6. Track(pg)[g.i].size \in Nat
    BY <1>5, KnownConsistent DEF Fitting, Consistent
  <1>7. p.size \in Nat /\ p.unit \in Nat
    BY <1>1, KnownStart
  <1>8. /\ g.base \in Nat /\ g.base + p.size <= q /\ g.base + p.size <= l
        /\ fr.lim <= g.lim /\ p.place = "inner"
    <2> HIDE DEF p, fr, g, a
    <2>1. /\ g.base \in Nat /\ g.base + Track(pg)[g.i].size <= q
          /\ g.base + Track(pg)[g.i].size <= l
      BY <1>5 DEF Fitting
    <2>2. fr.lim <= g.lim /\ p.place = "inner" /\ p.size <= Track(pg)[g.i].size
      BY <1>5 DEF Linked
    <2> QED BY <1>1, <1>6, <1>7, <2>1, <2>2
  <1>9. Len(p.walk) \in Nat /\ Len(p.view) \in Nat /\ fr.i = Len(p.walk) + 1
    BY <1>1 DEF Fitting, Sound
  <1>10. EndCovered(p, a)
    BY <1>1, <1>9 DEF Sound
  <1>11. /\ a.pend = {} /\ a.at = Len(p.view) + 1 /\ a.ahead \in Nat
         /\ p.exit = "exact" \/ a.mood # "late"
         /\ p.unit = 0 \/ a.unit = p.unit
    BY <1>8, <1>10 DEF EndCovered, Consistent
  <1>12. /\ fr.exit = p.exit /\ fr.slack = 0 /\ fr.left \in Nat /\ fr.lim \in Nat
         /\ fr.lim <= l
    BY <1>1 DEF Fitting
  <1>13. fr.exit = "exact" \/ q <= fr.lim
    BY <1>1, <1>11, <1>12 DEF Knows
  <1>14. p.unit > 0 => Multiple(fr.lim - q, p.unit)
    BY <1>1, <1>11 DEF Knows
  <1>15. /\ c.stack = ViewStack(ps, s) /\ Len(c.stack) = Len(s)
         /\ c.pos = q /\ Here(c) = ViewFrame(p, fr)
         /\ KnownAt(ps, s).pend = {} => c.fields = DOMAIN sw
    BY <1>1, ShownHere
  <1>16. c.fields = DOMAIN sw
    BY <1>11, <1>15 DEF KnownAt
  <1>17. ViewFrame(p, fr).i = Len(p.view) + 1 /\ ViewFrame(p, fr).prog = p.view
    BY <1>11 DEF ViewFrame, Frame
  <1>18. ~Going(c)
    BY <1>9, <1>15, <1>17 DEF Going
  <1>19. Under(c).base = g.base
    <2>1. PICK n : n = Len(s) - 1 /\ n \in 1 .. Len(s)
      <3>1. PICK k : k = Len(s) /\ k \in Nat /\ k > 1
        BY <1>1 DEF List
      <3>2. k - 1 \in 1 .. k
        BY <3>1
      <3> QED BY <3>1, <3>2
    <2>2. ViewStack(ps, s)[n] = ViewFrame(ps[n], s[n])
      BY <1>1, <2>1, ViewList
    <2>3. ViewFrame(ps[n], s[n]).base = s[n].base
      BY DEF ViewFrame, Frame
    <2>4. Under(c) = ViewStack(ps, s)[n] /\ g = s[n]
      BY <1>15, <2>1 DEF Under
    <2> QED BY <2>2, <2>3, <2>4
  <1> HIDE DEF p, fr, c, g
  <1>20. Ends(c, p, fr, g, q, l, sw)
    BY <1>1, <1>8, <1>12, <1>13, <1>14, <1>15, <1>16, <1>18, <1>19 DEF Ends, c
  <1> QED BY <1>20 DEF p, fr, c, g

\* Another round.
LEMMA RestartStep ==
    ASSUME NEW P, NEW ps, NEW hs, NEW s, NEW q, NEW m, NEW sw, NEW l,
           Walking(P, ps, hs, s, q, m, sw, l), NEW g,
           Ends(Shown(ps, s, q, sw), Last(ps), Last(s), g, q, l, sw),
           NEW n \in Nat, q + Left(Last(ps)) <= Last(s).lim,
           LET c == Shown(ps, s, q, sw)
           IN  ViewStep(c, Config(Replaced(c.stack, Restarted(Here(c), g.base, n)), q,
                                  DOMAIN sw), m, sw, l)
    PROVE  Walks(P, ps[1], Replaced(s, Restarted(Last(s), g.base, n)), q, m, sw, l)
  <1> DEFINE p == Last(ps)
             fr == Last(s)
             c == Shown(ps, s, q, sw)
             fr2 == Restarted(fr, g.base, n)
             s2 == Replaced(s, fr2)
             c2 == Config(Replaced(c.stack, Restarted(Here(c), g.base, n)), q, DOMAIN sw)
  <1>1. /\ Closed(P) /\ q \in Nat /\ l \in Nat /\ Stacked(P, ps, s, q, l)
        /\ Fitting(p, fr, q, l) /\ List(s) /\ Len(s) > 0 /\ Len(ps) = Len(s)
        /\ Numbers(m)
    BY TopFrame DEF Walking
  <1>2. Ends(c, p, fr, g, q, l, sw) /\ ViewStep(c, c2, m, sw, l)
    OBVIOUS
  <1>3. c.stack = ViewStack(ps, s)
    BY <1>1, ShownHere
  <1>4. q + Left(p) <= fr.lim
    OBVIOUS
  <1>5. /\ fr2.prog = fr.prog /\ fr2.i = 1 /\ fr2.base = g.base /\ fr2.lim = fr.lim
        /\ fr2.exit = fr.exit /\ fr2.left = n /\ fr2.slack = fr.slack
    BY DEF Restarted, Frame
  <1>6. Restarted(ViewFrame(p, fr), g.base, n) = Frame(p.view, 1, g.base, fr.lim, p.show, n, 0)
    <2>1. /\ ViewFrame(p, fr).prog = p.view /\ ViewFrame(p, fr).lim = fr.lim
          /\ ViewFrame(p, fr).exit = p.show /\ ViewFrame(p, fr).slack = 0
      BY DEF ViewFrame, Frame
    <2> HIDE DEF p, fr
    <2> QED BY <2>1 DEF Restarted
  <1>7. Sound(p)
    BY <1>2 DEF Ends
  <1> HIDE DEF fr2, c
  <1>8. Fitting(p, fr2, q, l)
    BY <1>1, <1>2, <1>5, <1>7, KnownStart DEF Fitting, Ends
  <1>9. Stacked(P, ps, s2, q, l) /\ Last(s2) = fr2
    <2>1. PICK r \in Nat : r = q /\ r <= r
      BY <1>1
    <2>2. /\ Stacked(P, ps, s, r, l) /\ Fitting(Last(ps), fr2, r, l)
          /\ fr2.lim = Last(s).lim
      BY <1>1, <1>5, <1>8, <2>1
    <2>3. Stacked(P, ps, s2, r, l) /\ Last(s2) = fr2
      BY <1>1, <2>1, <2>2, StackReplaced
    <2> QED BY <2>1, <2>3
  <1>10. KnownAt(ps, s2) = Track(p)[1]
    BY <1>5, <1>9 DEF KnownAt
  <1>11. ViewFrame(p, fr2) = Restarted(ViewFrame(p, fr), g.base, n)
    BY <1>5, <1>6, <1>7, KnownStart DEF ViewFrame
  <1>12. ViewStack(ps, s2) = Replaced(ViewStack(ps, s), ViewFrame(p, fr2))
    BY <1>1, ViewReplaced
  <1>13. Here(c) = ViewFrame(p, fr)
    BY <1>2 DEF Ends
  <1>14. ViewStack(ps, s2) = Replaced(c.stack, Restarted(Here(c), g.base, n))
    BY <1>3, <1>11, <1>12, <1>13
  <1>15. Track(p)[1].pend = {}
    BY <1>7, KnownStart
  <1> HIDE DEF s2, p, fr
  <1>16. Shown(ps, s2, q, sw) = c2
    BY <1>10, <1>14, <1>15 DEF Shown, Placed
  <1>17. Knows(Track(p)[1], fr2, q, m, sw)
    BY <1>2, <1>4, <1>5, <1>7, KnownStart DEF Knows, Ends
  <1>18. Edge(Track(p)[1], fr2, q) = q
    BY <1>7, KnownStart DEF Edge
  <1>19. q <= Edge(KnownAt(ps, s2), Last(s2), q) /\ Extends(m, m)
    BY <1>1, <1>9, <1>10, <1>18 DEF Extends
  <1> HIDE DEF c2
  <1>20. \E hs2 : Walking(P, ps, hs2, s2, q, m, sw, l)
    BY <1>1, <1>2, <1>9, <1>10, <1>16, <1>17, <1>19, PassStep DEF c
  <1> QED BY <1>20 DEF Walks, s2, fr2, fr

\* Back to the program that called.
LEMMA ReturnStep ==
    ASSUME NEW P, NEW ps, NEW hs, NEW s, NEW q, NEW m, NEW sw, NEW l,
           Walking(P, ps, hs, s, q, m, sw, l), Len(s) > 1,
           Ends(Shown(ps, s, q, sw), Last(ps), Last(s), s[Len(s) - 1], q, l, sw),
           NEW q2 \in Nat, q <= q2, q2 <= Last(s).lim,
           LET c == Shown(ps, s, q, sw)
           IN  ViewStep(c, Config(Front(c.stack), q2, DOMAIN sw), m, sw, l)
    PROVE  Walks(P, ps[1], Front(s), q2, m, sw, l)
  <1> DEFINE p == Last(ps)
             fr == Last(s)
             c == Shown(ps, s, q, sw)
             g == s[Len(s) - 1]
             s2 == Front(s)
             ps2 == Front(ps)
             c2 == Config(Front(c.stack), q2, DOMAIN sw)
  <1>1. /\ Closed(P) /\ q \in Nat /\ l \in Nat /\ Stacked(P, ps, s, q, l)
        /\ List(s) /\ List(ps) /\ Len(ps) = Len(s) /\ Numbers(m)
    BY TopFrame DEF Walking
  <1>2. Ends(c, p, fr, g, q, l, sw) /\ ViewStep(c, c2, m, sw, l)
    OBVIOUS
  <1>3. c.stack = ViewStack(ps, s)
    BY <1>1, ShownHere
  <1>4. /\ Stacked(P, ps2, s2, q2, l) /\ ps2[1] = ps[1] /\ Last(s2) = g
        /\ Linked(Last(ps2), Last(s2), p, fr)
    BY <1>1, StackFront
  <1>5. ViewStack(ps2, s2) = Front(c.stack)
    BY <1>1, <1>3, ViewFront
  <1>6. Bland(KnownAt(ps2, s2))
    BY <1>4 DEF Linked, KnownAt
  <1>7. fr.lim <= g.lim /\ fr.lim \in Nat
    BY <1>2 DEF Ends
  <1>8. g.lim \in Nat
    BY <1>1, <1>4, TopFrame DEF Fitting
  <1>9. q2 + 0 <= g.lim
    BY <1>7, <1>8
  <1> HIDE DEF p, fr, c, g, s2, ps2
  <1>10. Knows(KnownAt(ps2, s2), Last(s2), q2, m, sw)
    BY <1>4, <1>6, <1>9 DEF Knows, Bland
  <1>11. Edge(KnownAt(ps2, s2), Last(s2), q2) = q2
    BY <1>6 DEF Edge, Bland
  <1>12. Shown(ps2, s2, q2, sw) = c2
    BY <1>5, <1>6 DEF Shown, Bland, Placed
  <1>13. Extends(m, m)
    BY DEF Extends
  <1> HIDE DEF c2
  <1>14. \E hs2 : Walking(P, ps2, hs2, s2, q2, m, sw, l)
    BY <1>1, <1>2, <1>4, <1>10, <1>11, <1>12, <1>13, PassStep DEF c
  <1> QED BY <1>4, <1>14 DEF Walks, s2

LEMMA AgainStep ==
    ASSUME NEW P, NEW ps, NEW hs, NEW s, NEW q, NEW m, NEW sw, NEW l,
           Walking(P, ps, hs, s, q, m, sw, l), NEW g, NEW n,
           Ends(Shown(ps, s, q, sw), Last(ps), Last(s), g, q, l, sw),
           \/ Last(s).exit = "count" /\ Last(s).left > 0 /\ n = Last(s).left - 1
           \/ /\ Last(s).exit \in {"stay", "exact", "jump"}
              /\ q < Last(s).lim - Last(s).slack
              /\ n = 0
    PROVE  Walks(P, ps[1], Replaced(s, Restarted(Last(s), g.base, n)), q, m, sw, l)
  <1> DEFINE p == Last(ps)
             fr == Last(s)
             c == Shown(ps, s, q, sw)
             c2 == Config(Replaced(c.stack, Restarted(Here(c), g.base, n)), q, DOMAIN sw)
  <1>1. Ends(c, p, fr, g, q, l, sw) /\ q \in Nat
    BY DEF Walking
  <1>2. \/ fr.exit = "count" /\ fr.left > 0 /\ n = fr.left - 1
        \/ fr.exit \in {"stay", "exact", "jump"} /\ q < fr.lim - fr.slack /\ n = 0
    OBVIOUS
  <1> HIDE DEF p, fr, c
  <1>3. /\ Sound(p) /\ fr.exit = p.exit /\ fr.slack = 0 /\ fr.left \in Nat /\ fr.lim \in Nat
        /\ fr.exit = "exact" \/ q <= fr.lim
        /\ p.unit > 0 => Multiple(fr.lim - q, p.unit)
        /\ ~Going(c) /\ Len(c.stack) > 1 /\ c.pos = q /\ c.fields = DOMAIN sw
        /\ Here(c) = ViewFrame(p, fr) /\ Under(c).base = g.base
    BY <1>1 DEF Ends
  <1>4. SameExit(p) /\ p.unit \in Nat
    BY <1>3, KnownStart DEF Sound
  <1>5. /\ Here(c).exit = p.show /\ Here(c).left = fr.left /\ Here(c).lim = fr.lim
        /\ Here(c).slack = 0
    BY <1>3 DEF ViewFrame, Frame
  <1>6. n \in Nat
    BY <1>2, <1>3
  <1>7. q + Left(p) <= fr.lim
    <2>1. CASE fr.exit = "count"
      BY <1>1, <1>3, <2>1 DEF Left
    <2>2. CASE fr.exit # "count" /\ p.unit = 0
      BY <1>1, <1>2, <1>3, <2>2 DEF Left
    <2>3. CASE fr.exit # "count" /\ p.unit > 0
      <3>1. PICK w \in Int : w = fr.lim - q /\ w > 0
        BY <1>1, <1>2, <1>3, <2>3
      <3>2. w >= p.unit
        BY <1>3, <1>4, <2>3, <3>1, MultipleLeast
      <3>3. Left(p) = p.unit
        BY <1>3, <1>4, <2>3 DEF Left
      <3> QED BY <1>1, <1>3, <1>4, <3>1, <3>2, <3>3
    <2> QED BY <1>4, <2>1, <2>2, <2>3
  <1>8. ViewStep(c, c2, m, sw, l)
    <2>1. CASE fr.exit = "count"
      <3>1. p.show = "count"
        BY <1>3, <1>4, <2>1 DEF SameExit
      <3>2. StepAgain(c, c2)
        BY <1>2, <1>3, <1>5, <2>1, <3>1 DEF StepAgain
      <3> QED BY <1>3, <3>2 DEF ViewStep
    <2>2. CASE fr.exit # "count"
      <3>1. p.show = "jump"
        BY <1>2, <1>3, <1>4, <2>2 DEF SameExit
      <3>2. q < fr.lim
        BY <1>1, <1>2, <1>3, <2>2
      <3>3. StepRound(c, c2)
        BY <1>2, <1>3, <1>5, <2>2, <3>1, <3>2 DEF StepRound
      <3> QED BY <1>3, <3>3 DEF ViewStep
    <2> QED BY <2>1, <2>2
  <1> QED BY <1>1, <1>6, <1>7, <1>8, RestartStep DEF p, fr, c

LEMMA LeaveStep ==
    ASSUME NEW P, NEW ps, NEW hs, NEW s, NEW q, NEW m, NEW sw, NEW l,
           Walking(P, ps, hs, s, q, m, sw, l), Len(s) > 1, NEW q2,
           Ends(Shown(ps, s, q, sw), Last(ps), Last(s), s[Len(s) - 1], q, l, sw),
           \/ Last(s).exit = "count" /\ Last(s).left = 0 /\ q2 = q
           \/ Last(s).exit = "once" /\ q2 = Last(s).lim
           \/ /\ Last(s).exit = "stay" \/ (Last(s).exit = "exact" /\ q = Last(s).lim)
              /\ q >= Last(s).lim - Last(s).slack
              /\ q2 = q
    PROVE  Walks(P, ps[1], Front(s), q2, m, sw, l)
  <1> DEFINE p == Last(ps)
             fr == Last(s)
             c == Shown(ps, s, q, sw)
             g == s[Len(s) - 1]
             c2 == Config(Front(c.stack), q2, DOMAIN sw)
  <1>1. Ends(c, p, fr, g, q, l, sw) /\ q \in Nat
    BY DEF Walking
  <1>2. \/ fr.exit = "count" /\ fr.left = 0 /\ q2 = q
        \/ fr.exit = "once" /\ q2 = fr.lim
        \/ /\ fr.exit = "stay" \/ (fr.exit = "exact" /\ q = fr.lim)
           /\ q >= fr.lim - fr.slack
           /\ q2 = q
    OBVIOUS
  <1> HIDE DEF p, fr, c, g
  <1>3. /\ Sound(p) /\ fr.exit = p.exit /\ fr.slack = 0 /\ fr.left \in Nat /\ fr.lim \in Nat
        /\ fr.exit = "exact" \/ q <= fr.lim
        /\ ~Going(c) /\ Len(c.stack) > 1 /\ c.pos = q /\ c.fields = DOMAIN sw
        /\ Here(c) = ViewFrame(p, fr)
    BY <1>1 DEF Ends
  <1>4. SameExit(p)
    BY <1>3 DEF Sound
  <1>5. /\ Here(c).exit = p.show /\ Here(c).left = fr.left /\ Here(c).lim = fr.lim
        /\ Here(c).slack = 0
    BY <1>3 DEF ViewFrame, Frame
  <1>6. /\ q2 \in Nat /\ q <= q2 /\ q2 <= fr.lim
        /\ fr.exit # "count" => q2 = fr.lim
        /\ fr.exit \notin {"count", "once"} => q = fr.lim
    BY <1>1, <1>2, <1>3
  <1>7. ViewStep(c, c2, m, sw, l)
    <2>1. CASE fr.exit = "count"
      <3>1. p.show = "count"
        BY <1>3, <1>4, <2>1 DEF SameExit
      <3>2. StepBack(c, c2)
        BY <1>2, <1>3, <1>5, <2>1, <3>1 DEF StepBack
      <3> QED BY <1>3, <3>2 DEF ViewStep
    <2>2. CASE fr.exit # "count"
      <3>1. p.show = "once" \/ (p.show = "jump" /\ q = fr.lim)
        BY <1>2, <1>3, <1>4, <1>6, <2>2 DEF SameExit
      <3>2. StepLeave(c, c2)
        BY <1>3, <1>5, <1>6, <2>2, <3>1 DEF StepLeave
      <3> QED BY <1>3, <3>2 DEF ViewStep
    <2> QED BY <2>1, <2>2
  <1> QED BY <1>1, <1>6, <1>7, ReturnStep DEF p, fr, c, g

-----------------------------------------------------------------------------
(* From the walk to the view.                                              *)

\* What is left of the view at z: nothing, bytes that are in the body, or all of the
\* rest of it.
Remainder(z, m, sw, l) ==
    \/ ~Going(z)
    \/ /\ Going(z)
       /\ Here(z).i = Len(Here(z).prog)
       /\ \/ /\ Instr(z).op = "bytes"
             /\ \E v : Reading(Instr(z).f, v, z, m, sw, l) /\ z.pos + v <= l
          \/ Instr(z).op = "rest" /\ Instr(z).n = z.pos

\* The view goes through the places hs and ends at z.
Viewing(hs, z, m, sw, l) ==
    /\ l \in Nat
    /\ History(hs, z, m, sw, l)
    /\ Passed(hs \cup {z}, l)
    /\ Swapped(sw, l)
    /\ z.fields = DOMAIN sw
    /\ Len(z.stack) = 1
    /\ Remainder(z, m, sw, l)

InView(s, q, fs, m, sw, l) ==
    \E hs, z : Viewing(hs, z, m, sw, l) /\ Config(s, q, fs) \in hs \cup {z}

LEMMA AcceptStep ==
    ASSUME NEW P, NEW ps, NEW hs, NEW s, NEW q, NEW m, NEW sw, NEW l,
           Walking(P, ps, hs, s, q, m, sw, l),
           ~(Last(s).i <= Len(Last(s).prog)), Len(s) = 1,
           ps[1].exit = "count", ps[1].area = "body"
    PROVE  InView(<<Body(ps[1].view, l)>>, 0, {}, m, sw, l)
  <1> DEFINE p == ps[1]
             fr == Last(s)
             z == Shown(ps, s, q, sw)
             a == Track(p)[fr.i]
             y == p.view[a.at]
             e == Edge(KnownAt(ps, s), fr, q)
  <1>1. /\ Closed(P) /\ q \in Nat /\ l \in Nat /\ Stacked(P, ps, s, q, l)
        /\ Swapped(sw, e) /\ Passed(hs, e) /\ Numbers(m) /\ History(hs, z, m, sw, l)
        /\ Origin(p, l) \in hs \cup {z} /\ Knows(KnownAt(ps, s), fr, q, m, sw)
    BY DEF Walking
  <1>2. Last(ps) = p
    BY <1>1 DEF Stacked, Last
  <1>3. Fitting(p, fr, q, l) /\ Sound(p) /\ KnownAt(ps, s) = a /\ Knows(a, fr, q, m, sw)
    BY <1>1, <1>2, TopFrame DEF KnownAt
  <1>4. e \in Nat /\ e <= q
    BY <1>1, EdgeBehind
  <1>5. Len(p.walk) \in Nat /\ Len(p.view) \in Nat /\ fr.i = Len(p.walk) + 1
    BY <1>3 DEF Fitting, Sound
  <1>6. EndCovered(p, a)
    BY <1>3, <1>5 DEF Sound
  <1>7. /\ a.pend = {} /\ a.mood # "late" /\ a.ahead \in Nat /\ a.at \in Nat /\ a.size \in Nat
        /\ \/ a.at = Len(p.view) + 1
           \/ a.at = Len(p.view) /\ Leftover(y, a)
    BY <1>6 DEF EndCovered, Consistent
  <1>8. fr.lim = l /\ fr.base \in Nat /\ fr.base + a.size <= q /\ fr.base + a.size <= l
    BY <1>3 DEF Fitting
  <1>9. q <= l
    BY <1>1, <1>3, <1>7, <1>8 DEF Knows
  <1>10. /\ Len(z.stack) = 1 /\ z.pos = q /\ Here(z) = ViewFrame(p, fr)
         /\ z.fields = DOMAIN sw /\ Formed(z)
    BY <1>1, <1>2, <1>3, <1>7, ShownHere, ShownFormed
  <1>11. Here(z).i = a.at /\ Here(z).prog = p.view /\ Here(z).base = fr.base
    BY <1>10 DEF ViewFrame, Frame
  <1>12. Instr(z) = y
    BY <1>11 DEF Instr
  <1> HIDE DEF z, fr, a, y, p, e
  <1>13. Remainder(z, m, sw, l)
    <2>1. CASE a.at = Len(p.view) + 1
      BY <1>5, <1>11, <2>1 DEF Remainder, Going
    <2>2. CASE a.at = Len(p.view) /\ Leftover(y, a)
      <3>1. Going(z) /\ Here(z).i = Len(Here(z).prog)
        BY <1>5, <1>11, <2>2 DEF Going
      <3>2. CASE y.op = "bytes" /\ y.f = ToEnd
        <4>1. Reading(y.f, l - q, z, m, sw, l) /\ z.pos + (l - q) <= l
          BY <1>1, <1>9, <1>10, <3>2 DEF Reading
        <4> QED BY <1>12, <3>1, <3>2, <4>1 DEF Remainder
      <3>3. CASE y.op = "bytes" /\ y.f = a.fit /\ Inside(y.f, a)
        <4>1. y.f # Nothing /\ y.f # ToEnd
          BY <3>3 DEF Inside, Nothing, ToEnd, Member
        <4>2. PICK v : /\ v = m[Key(y.f, fr.base, sw)]
                       /\ Key(y.f, fr.base, sw) \in DOMAIN m /\ q + v <= l /\ v \in Nat
          BY <1>1, <1>3, <1>8, <3>3, <4>1 DEF Knows, Numbers
        <4>3. fr.base + y.f.off + y.f.w <= q
          BY <1>1, <1>7, <1>8, <3>3 DEF Inside
        <4>4. Reading(y.f, v, z, m, sw, l)
          BY <1>8, <1>10, <1>11, <3>3, <4>1, <4>2, <4>3 DEF Reading, Inside
        <4> QED BY <1>10, <1>12, <3>1, <3>3, <4>2, <4>4 DEF Remainder
      <3>4. CASE y.op = "rest" /\ y.n = a.off /\ y.n \in Nat
        <4>1. q = a.off
          BY <1>3, <3>4 DEF Knows, Unknown
        <4> QED BY <1>10, <1>12, <3>1, <3>4, <4>1 DEF Remainder
      <3> QED BY <2>2, <3>2, <3>3, <3>4 DEF Leftover
    <2> QED BY <1>7, <2>1, <2>2
  <1>14. Passed(hs \cup {z}, l)
    BY <1>1, <1>4, <1>9, <1>10 DEF Passed
  <1>15. Swapped(sw, l)
    BY <1>1, <1>4, <1>9 DEF Swapped
  <1>16. Viewing(hs, z, m, sw, l)
    BY <1>1, <1>10, <1>13, <1>14, <1>15 DEF Viewing
  <1>17. Config(<<Body(p.view, l)>>, 0, {}) \in hs \cup {z}
    BY <1>1 DEF Origin
  <1> QED BY <1>16, <1>17 DEF InView, p

LEMMA WalkStart ==
    ASSUME NEW f \in Mirrored, NEW n \in Nat, NEW m, DOMAIN m = {}
    PROVE  Walks(PairsOf(f), MainPair(f), <<Body(Formats[f].walk, n)>>, 0, m, m, n)
  <1> DEFINE P == PairsOf(f)
             p == MainPair(f)
             fr == Body(Formats[f].walk, n)
             ps == <<p>>
             s == <<fr>>
  <1>1. Closed(P)
    BY DEF Mirrored
  <1>2. p \in P
    BY DEF PairsOf
  <1>3. /\ p.walk = Formats[f].walk /\ p.view = Formats[f].view /\ p.exit = "count"
        /\ p.show = "count" /\ p.area = "body" /\ p.unit = 0 /\ p.size = 0
        /\ p.place = "main"
    BY DEF MainPair, Pair
  <1>4. /\ fr.prog = p.walk /\ fr.i = 1 /\ fr.base = 0 /\ fr.lim = n /\ fr.exit = "count"
        /\ fr.left = 0 /\ fr.slack = 0
    BY <1>3 DEF Body, Frame
  <1>5. Body(p.view, n) = Frame(p.view, 1, 0, n, "count", 0, 0)
    BY DEF Body
  <1>6. Sound(p)
    BY <1>1, <1>2 DEF Closed
  <1> HIDE DEF P, p, fr
  <1>7. List(s) /\ Len(s) = 1 /\ Last(s) = fr /\ s[1] = fr
    BY SingleList
  <1>8. List(ps) /\ Len(ps) = 1 /\ Last(ps) = p /\ ps[1] = p
    BY SingleList
  <1> HIDE DEF ps, s
  <1>9. Fitting(p, fr, 0, n)
    <2>1. Track(p)[fr.i].size = 0 /\ fr.i \in 1 .. Len(p.walk) + 1
      BY <1>3, <1>4, <1>6, KnownStart
    <2>2. fr.base + Track(p)[fr.i].size = 0 /\ n <= n
      BY <1>4, <2>1
    <2> QED BY <1>3, <1>4, <2>1, <2>2 DEF Fitting
  <1>10. Stacked(P, ps, s, 0, n)
    BY <1>2, <1>3, <1>7, <1>8, <1>9 DEF Stacked
  <1>11. KnownAt(ps, s) = Track(p)[1]
    BY <1>4, <1>7, <1>8 DEF KnownAt
  <1>12. Left(p) = 0
    BY <1>3 DEF Left
  <1>13. Knows(Track(p)[1], fr, 0, m, m)
    BY <1>3, <1>4, <1>6, <1>12, KnownStart DEF Knows
  <1>14. Edge(Track(p)[1], fr, 0) = 0
    BY <1>6, KnownStart DEF Edge
  <1>15. Swapped(m, 0) /\ Passed({}, 0) /\ Numbers(m)
    BY DEF Swapped, Passed, Numbers
  <1>16. \A c : History({}, c, m, m, n)
    BY DEF History
  <1>17. ViewFrame(p, fr) = Body(p.view, n)
    BY <1>3, <1>4, <1>5, <1>6, KnownStart DEF ViewFrame
  <1>18. ViewStack(ps, s) = <<Body(p.view, n)>>
    <2> DEFINE w == Body(p.view, n)
               v == ViewStack(ps, s)
               u == <<w>>
    <2>1. List(v) /\ Len(v) = 1 /\ \A d \in 1 .. 1 : v[d] = ViewFrame(ps[d], s[d])
      BY <1>7, ViewList
    <2>2. List(u) /\ Len(u) = 1 /\ u[1] = w
      BY SingleList
    <2> HIDE DEF v, u, w
    <2>3. \A d \in 1 .. 1 : v[d] = u[d]
      BY <1>7, <1>8, <1>17, <2>1, <2>2 DEF w
    <2>4. v = u
      BY <2>1, <2>2, <2>3, ListEqual
    <2> QED BY <2>4 DEF v, u, w
  <1>19. Shown(ps, s, 0, m) = Origin(p, n)
    <2>1. Track(p)[1].pend = {}
      BY <1>6, KnownStart
    <2>2. DOMAIN m \cup Placed(Track(p)[1].pend, Last(s).base) = {}
      BY <2>1 DEF Placed
    <2> QED BY <1>11, <1>18, <2>2 DEF Shown, Origin
  <1>20. Walking(P, ps, {}, s, 0, m, m, n)
    BY <1>1, <1>7, <1>8, <1>10, <1>11, <1>13, <1>14, <1>15, <1>16, <1>19 DEF Walking
  <1> QED BY <1>8, <1>20 DEF Walks, s, fr, P, p

-----------------------------------------------------------------------------
(* Steps of the accessors.                                                 *)

\* What is true at every place of the view.
LEMMA ViewPlace ==
    ASSUME NEW s, NEW q, NEW fs, NEW m, NEW sw, NEW l, InView(s, q, fs, m, sw, l)
    PROVE  /\ l \in Nat /\ q \in Nat /\ q <= l /\ Swapped(sw, l) /\ List(s) /\ Len(s) > 0
           /\ \A d \in 1 .. Len(s) : /\ Len(s[d].prog) \in Nat
                                      /\ s[d].i \in Nat /\ s[d].base \in Nat
                                      /\ s[d].lim \in Nat
  <1>1. PICK hs, z : Viewing(hs, z, m, sw, l) /\ Config(s, q, fs) \in hs \cup {z}
    BY DEF InView
  <1> DEFINE h == Config(s, q, fs)
  <1>2. h.stack = s /\ h.pos = q
    BY DEF Config
  <1> HIDE DEF h
  <1>3. Formed(h) /\ h.pos \in Nat /\ h.pos <= l
    BY <1>1 DEF Viewing, Passed, h
  <1> QED BY <1>1, <1>2, <1>3 DEF Viewing, Formed

LEMMA ViewKept ==
    ASSUME NEW s, NEW q, NEW fs, NEW m, NEW m2, NEW sw, NEW l,
           InView(s, q, fs, m, sw, l), Extends(m2, m)
    PROVE  InView(s, q, fs, m2, sw, l)
  <1>1. PICK hs, z : Viewing(hs, z, m, sw, l) /\ Config(s, q, fs) \in hs \cup {z}
    BY DEF InView
  <1>2. History(hs, z, m2, sw, l)
    <2> SUFFICES ASSUME NEW h \in hs
                 PROVE  \E k \in hs \cup {z} : ViewStep(h, k, m2, sw, l)
      BY DEF History
    <2>1. PICK k \in hs \cup {z} : ViewStep(h, k, m, sw, l)
      BY <1>1 DEF Viewing, History
    <2> QED BY <2>1, StepKept
  <1>3. \A f, v : Reading(f, v, z, m, sw, l) => Reading(f, v, z, m2, sw, l)
    BY DEF Reading, Extends
  <1>4. Remainder(z, m2, sw, l)
    BY <1>1, <1>3 DEF Viewing, Remainder
  <1>5. Viewing(hs, z, m2, sw, l)
    BY <1>1, <1>2, <1>4 DEF Viewing
  <1> QED BY <1>1, <1>5 DEF InView

\* The view gets to k, another of its places.
LEMMA ViewNext ==
    ASSUME NEW s, NEW q, NEW fs, NEW m, NEW sw, NEW l,
           NEW hs, NEW z, Viewing(hs, z, m, sw, l), NEW k \in hs \cup {z},
           k = Config(s, q, fs)
    PROVE  InView(s, q, fs, m, sw, l)
  BY DEF InView

\* The accessors are through with what was left.
LEMMA ViewTail ==
    ASSUME NEW m, NEW sw, NEW l, NEW hs, NEW z, Viewing(hs, z, m, sw, l), Going(z),
           NEW q2 \in Nat, q2 <= l
    PROVE  InView(Over(z), q2, z.fields, m, sw, l)
  <1> DEFINE s == z.stack
             fr == Last(s)
             fr2 == Moved(fr, fr.base)
             z2 == Config(Over(z), q2, z.fields)
  <1>1. /\ l \in Nat /\ Formed(z) /\ Swapped(sw, l) /\ z.fields = DOMAIN sw /\ Len(s) = 1
        /\ Here(z).i = Len(Here(z).prog)
    BY DEF Viewing, Passed, Remainder
  <1>2. /\ List(s) /\ Last(s) = s[1] /\ fr.i \in Nat /\ fr.base \in Nat /\ fr.lim \in Nat
        /\ Len(fr.prog) \in Nat
    BY <1>1 DEF Formed, Last
  <1>3. Over(z) = Replaced(s, fr2)
    BY DEF Over, Here
  <1>4. /\ fr2.i = fr.i + 1 /\ fr2.base = fr.base /\ fr2.lim = fr.lim /\ fr2.prog = fr.prog
    BY DEF Moved, Frame
  <1>5. z2.stack = Over(z) /\ z2.pos = q2 /\ z2.fields = z.fields
    BY DEF Config
  <1> HIDE DEF fr2, z2, s
  <1>6. /\ List(Over(z)) /\ Len(Over(z)) = 1 /\ Last(Over(z)) = fr2
        /\ \A d \in 1 .. 1 : Over(z)[d] = fr2
    <2>1. Len(s) > 0
      BY <1>1
    <2>2. /\ List(Replaced(s, fr2)) /\ Len(Replaced(s, fr2)) = Len(s)
          /\ Last(Replaced(s, fr2)) = fr2
          /\ \A d \in 1 .. Len(s) : Replaced(s, fr2)[d] = IF d = Len(s) THEN fr2 ELSE s[d]
      BY <1>2, <2>1, ReplacedList
    <2> QED BY <1>1, <1>3, <2>2
  <1>7. Formed(z2)
    BY <1>2, <1>4, <1>5, <1>6 DEF Formed
  <1>8. ~Going(z2)
    BY <1>1, <1>2, <1>4, <1>5, <1>6 DEF Going, Here, s
  <1>9. Viewing({}, z2, m, sw, l)
    BY <1>1, <1>5, <1>6, <1>7, <1>8 DEF Viewing, History, Passed, Remainder
  <1> QED BY <1>9 DEF InView, z2

\* Where the accessors are at an instruction, they can take it.
LEMMA ViewGoes ==
    ASSUME NEW s, NEW q, NEW fs, NEW m, NEW sw, NEW l, InView(s, q, fs, m, sw, l),
           Last(s).i <= Len(Last(s).prog)
    PROVE  LET fr == Last(s)
               x == fr.prog[fr.i]
               over == Replaced(s, Moved(fr, fr.base))
           IN  \/ /\ x.op = "obj"
                  /\ InView(Replaced(s, Moved(fr, q)), q + x.n, fs \cup Placed(x.fields, q),
                            m, sw, l)
               \/ \E v : /\ Reading(x.f, v, Config(s, q, fs), m, sw, l)
                         /\ \/ x.op = "bytes" /\ InView(over, q + v, fs, m, sw, l)
                            \/ /\ x.op = "when"
                               /\ InView(IF v \in x.vals
                                         THEN Called(s, x.body, fr.lim, "count", 0, 0)
                                         ELSE over, q, fs, m, sw, l)
                            \/ /\ x.op = "times"
                               /\ InView(IF v > 0
                                         THEN Called(s, x.body, fr.lim, "count", v - 1, 0)
                                         ELSE over, q, fs, m, sw, l)
                            \/ /\ x.op = "loop"
                               /\ InView(IF v > 0
                                         THEN Called(s, x.body, q + v, x.exit, 0, x.slack)
                                         ELSE over, q, fs, m, sw, l)
               \/ x.op = "rest" /\ x.n = q /\ InView(over, l, fs, m, sw, l)
  <1> DEFINE fr == Last(s)
             x == fr.prog[fr.i]
             over == Replaced(s, Moved(fr, fr.base))
             h == Config(s, q, fs)
  <1>1. PICK hs, z : Viewing(hs, z, m, sw, l) /\ h \in hs \cup {z}
    BY DEF InView
  <1>2. h.stack = s /\ h.pos = q /\ h.fields = fs
    BY DEF Config
  <1>3. Going(h) /\ Here(h) = fr /\ Instr(h) = x /\ Over(h) = over
    <2> HIDE DEF h
    <2> QED BY <1>2 DEF Going, Here, Instr, Over
  <1> HIDE DEF h, fr, x, over
  <1>4. CASE h \in hs
    <2>1. PICK k \in hs \cup {z} : ViewStep(h, k, m, sw, l)
      BY <1>1, <1>4 DEF Viewing, History
    <2>2. CASE StepStruct(h, k)
      <3>1. /\ x.op = "obj"
            /\ k = Config(Replaced(s, Moved(fr, q)), q + x.n, fs \cup Placed(x.fields, q))
        BY <1>2, <1>3, <2>2 DEF StepStruct
      <3>2. InView(Replaced(s, Moved(fr, q)), q + x.n, fs \cup Placed(x.fields, q), m, sw, l)
        BY <1>1, <2>1, <3>1, ViewNext
      <3> QED BY <3>1, <3>2 DEF fr, x
    <2>3. ASSUME NEW v, Reading(Instr(h).f, v, h, m, sw, l), StepBytes(h, k, v)
          PROVE  x.op = "bytes" /\ InView(over, q + v, fs, m, sw, l)
      <3>1. x.op = "bytes" /\ k = Config(over, q + v, fs)
        BY <1>2, <1>3, <2>3 DEF StepBytes
      <3> QED BY <1>1, <2>1, <3>1, ViewNext
    <2>4. ASSUME NEW v, Reading(Instr(h).f, v, h, m, sw, l), StepWhen(h, k, v)
          PROVE  /\ x.op = "when"
                 /\ InView(IF v \in x.vals THEN Called(s, x.body, fr.lim, "count", 0, 0)
                           ELSE over, q, fs, m, sw, l)
      <3>1. /\ x.op = "when"
            /\ k = Config(IF v \in x.vals THEN Called(s, x.body, fr.lim, "count", 0, 0)
                          ELSE over, q, fs)
        BY <1>2, <1>3, <2>4 DEF StepWhen
      <3> QED BY <1>1, <2>1, <3>1, ViewNext
    <2>5. ASSUME NEW v, Reading(Instr(h).f, v, h, m, sw, l), StepTimes(h, k, v)
          PROVE  /\ x.op = "times"
                 /\ InView(IF v > 0 THEN Called(s, x.body, fr.lim, "count", v - 1, 0)
                           ELSE over, q, fs, m, sw, l)
      <3>1. /\ x.op = "times"
            /\ k = Config(IF v > 0 THEN Called(s, x.body, fr.lim, "count", v - 1, 0)
                          ELSE over, q, fs)
        BY <1>2, <1>3, <2>5 DEF StepTimes
      <3> QED BY <1>1, <2>1, <3>1, ViewNext
    <2>6. ASSUME NEW v, Reading(Instr(h).f, v, h, m, sw, l), StepLoop(h, k, v)
          PROVE  /\ x.op = "loop"
                 /\ InView(IF v > 0 THEN Called(s, x.body, q + v, x.exit, 0, x.slack)
                           ELSE over, q, fs, m, sw, l)
      <3>1. /\ x.op = "loop"
            /\ k = Config(IF v > 0 THEN Called(s, x.body, q + v, x.exit, 0, x.slack)
                          ELSE over, q, fs)
        BY <1>2, <1>3, <2>6 DEF StepLoop
      <3> QED BY <1>1, <2>1, <3>1, ViewNext
    <2>7. CASE ~StepStruct(h, k)
      <3>1. PICK v : /\ Reading(x.f, v, h, m, sw, l)
                     /\ \/ StepBytes(h, k, v) \/ StepWhen(h, k, v)
                        \/ StepTimes(h, k, v) \/ StepLoop(h, k, v)
        BY <1>3, <2>1, <2>7 DEF ViewStep
      <3>2. Reading(Instr(h).f, v, h, m, sw, l)
        BY <1>3, <3>1
      <3> QED BY <2>3, <2>4, <2>5, <2>6, <3>1, <3>2 DEF fr, x, over, h
    <2> QED BY <2>2, <2>7
  <1>5. CASE h = z
    <2>1. l \in Nat /\ Remainder(z, m, sw, l) /\ Passed(hs \cup {z}, l) /\ Going(z)
      BY <1>1, <1>3, <1>5 DEF Viewing
    <2>2. q \in Nat
      BY <1>2, <1>5, <2>1 DEF Passed
    <2>3. ASSUME x.op = "bytes", NEW v, Reading(x.f, v, h, m, sw, l), q + v <= l
          PROVE  InView(over, q + v, fs, m, sw, l)
      <3>1. PICK q2 \in Nat : q2 = q + v
        BY <2>2, <2>3 DEF Reading
      <3>2. InView(Over(z), q2, z.fields, m, sw, l)
        BY <1>1, <2>1, <2>3, <3>1, ViewTail
      <3> QED BY <1>2, <1>3, <1>5, <3>1, <3>2
    <2>4. ASSUME x.op = "rest" PROVE InView(over, l, fs, m, sw, l)
      <3>1. InView(Over(z), l, z.fields, m, sw, l)
        BY <1>1, <2>1, ViewTail
      <3> QED BY <1>2, <1>3, <1>5, <3>1
    <2>5. \/ x.op = "bytes" /\ \E v : Reading(x.f, v, h, m, sw, l) /\ q + v <= l
          \/ x.op = "rest" /\ x.n = q
      BY <1>2, <1>3, <1>5, <2>1 DEF Remainder
    <2> QED BY <2>3, <2>4, <2>5 DEF fr, x, over, h
  <1> QED BY <1>1, <1>4, <1>5

\* Where the accessors are at the end of a part or loop, they can leave or repeat it.
LEMMA ViewEnds ==
    ASSUME NEW s, NEW q, NEW fs, NEW m, NEW sw, NEW l, InView(s, q, fs, m, sw, l),
           ~(Last(s).i <= Len(Last(s).prog)), Len(s) > 1
    PROVE  LET fr == Last(s)
               g == s[Len(s) - 1]
           IN  \/ /\ fr.exit = "count" /\ fr.left > 0
                  /\ InView(Replaced(s, Restarted(fr, g.base, fr.left - 1)), q, fs, m, sw, l)
               \/ /\ fr.exit = "count" /\ fr.left = 0
                  /\ InView(Front(s), q, fs, m, sw, l)
               \/ /\ fr.exit = "jump" /\ fr.slack = 0 /\ q < fr.lim
                  /\ InView(Replaced(s, Restarted(fr, g.base, 0)), q, fs, m, sw, l)
               \/ /\ \/ fr.exit = "once"
                     \/ fr.exit = "jump" /\ fr.slack = 0 /\ q = fr.lim
                  /\ InView(Front(s), fr.lim, fs, m, sw, l)
  <1> DEFINE fr == Last(s)
             g == s[Len(s) - 1]
             h == Config(s, q, fs)
  <1>1. PICK hs, z : Viewing(hs, z, m, sw, l) /\ h \in hs \cup {z}
    BY DEF InView
  <1>2. h.stack = s /\ h.pos = q /\ h.fields = fs
    BY DEF Config
  <1>3. ~Going(h) /\ Here(h) = fr /\ Under(h) = g
    <2> HIDE DEF h
    <2> QED BY <1>2 DEF Going, Here, Under
  <1> HIDE DEF h, fr, g
  <1>4. h \in hs
    <2>1. Len(z.stack) = 1
      BY <1>1 DEF Viewing
    <2>2. CASE h = z
      <3>1. PICK n : n = Len(s) /\ n = 1 /\ n > 1
        BY <1>2, <2>1, <2>2
      <3> QED BY <3>1
    <2> QED BY <1>1, <2>2
  <1>5. PICK k \in hs \cup {z} : ViewStep(h, k, m, sw, l)
    BY <1>1, <1>4 DEF Viewing, History
  <1>6. CASE StepAgain(h, k)
    <2>1. /\ fr.exit = "count" /\ fr.left > 0
          /\ k = Config(Replaced(s, Restarted(fr, g.base, fr.left - 1)), q, fs)
      BY <1>2, <1>3, <1>6 DEF StepAgain
    <2>2. InView(Replaced(s, Restarted(fr, g.base, fr.left - 1)), q, fs, m, sw, l)
      BY <1>1, <1>5, <2>1, ViewNext
    <2> QED BY <2>1, <2>2 DEF fr, g
  <1>7. CASE StepBack(h, k)
    <2>1. fr.exit = "count" /\ fr.left = 0 /\ k = Config(Front(s), q, fs)
      BY <1>2, <1>3, <1>7 DEF StepBack
    <2>2. InView(Front(s), q, fs, m, sw, l)
      BY <1>1, <1>5, <2>1, ViewNext
    <2> QED BY <2>1, <2>2 DEF fr, g
  <1>8. CASE StepRound(h, k)
    <2>1. /\ fr.exit = "jump" /\ fr.slack = 0 /\ q < fr.lim
          /\ k = Config(Replaced(s, Restarted(fr, g.base, 0)), q, fs)
      BY <1>2, <1>3, <1>8 DEF StepRound
    <2>2. InView(Replaced(s, Restarted(fr, g.base, 0)), q, fs, m, sw, l)
      BY <1>1, <1>5, <2>1, ViewNext
    <2> QED BY <2>1, <2>2 DEF fr, g
  <1>9. CASE StepLeave(h, k)
    <2>1. /\ \/ fr.exit = "once"
             \/ fr.exit = "jump" /\ fr.slack = 0 /\ q = fr.lim
          /\ k = Config(Front(s), fr.lim, fs)
      BY <1>2, <1>3, <1>9 DEF StepLeave
    <2>2. InView(Front(s), fr.lim, fs, m, sw, l)
      BY <1>1, <1>5, <2>1, ViewNext
    <2> QED BY <2>1, <2>2 DEF fr, g
  <1> QED BY <1>3, <1>5, <1>6, <1>7, <1>8, <1>9 DEF ViewStep

\* Where the accessors are through, every integer they have shown was swapped once.
LEMMA ViewOver ==
    ASSUME NEW s, NEW q, NEW fs, NEW m, NEW sw, NEW l, InView(s, q, fs, m, sw, l),
           ~(Last(s).i <= Len(Last(s).prog)), Len(s) = 1
    PROVE  fs = DOMAIN sw /\ \A t \in fs : sw[t] = 1
  <1> DEFINE h == Config(s, q, fs)
  <1>1. PICK hs, z : Viewing(hs, z, m, sw, l) /\ h \in hs \cup {z}
    BY DEF InView
  <1>2. h.stack = s /\ h.pos = q /\ h.fields = fs
    BY DEF Config
  <1> HIDE DEF h
  <1>3. ~Going(h)
    BY <1>2 DEF Going, Here
  <1>4. h = z
    <2>1. CASE h \in hs
      <3>1. PICK k : ViewStep(h, k, m, sw, l)
        BY <1>1, <2>1 DEF Viewing, History
      <3>2. Len(h.stack) > 1
        BY <1>3, <3>1 DEF ViewStep
      <3>3. PICK n : n = Len(s) /\ n = 1 /\ n > 1
        BY <1>2, <3>2
      <3> QED BY <3>3
    <2> QED BY <1>1, <2>1
  <1> QED BY <1>1, <1>2, <1>4 DEF Viewing, Swapped

-----------------------------------------------------------------------------
(* The invariant of Codec.                                                 *)

\* A body of format f is decoded as it should be.
DecodedWell(f, l, ph, s, q, m, sw, fs, r) ==
    /\ l \in Nat
    /\ q \in Nat
    /\ r \in Nat
    /\ r <= l
    /\ \A k \in DOMAIN sw : sw[k] = 1
    /\ ph \in {"idle", "walk", "view", "done", "null"}
    /\ ph = "walk" => fs = {} /\ Walks(PairsOf(f), MainPair(f), s, q, m, sw, l)
    /\ ph = "view" => InView(s, q, fs, m, sw, l)
    /\ ph \in {"idle", "done", "null"} => DOMAIN s = {}
    /\ ph = "done" => fs = DOMAIN sw

\* Nothing is left of the last body.
Blank ==
    /\ fmt = "none"
    /\ len = 0
    /\ stack = << >>
    /\ pos = 0
    /\ mem = None
    /\ swaps = None
    /\ fields = {}
    /\ reach = 0
    /\ torn = FALSE

Inv ==
    /\ phase = "idle" => Blank
    /\ fmt \in Mirrored =>
          /\ DecodedWell(fmt, len, phase, stack, pos, mem, swaps, fields, reach)
          /\ torn = FALSE

\* A member that the codec reads, or the length that is left.
Readable(p, a, f) == Inside(f, a) \/ (f = ToEnd /\ a.mood # "late" /\ p.area = "body")

LEMMA WalkReads ==
    ASSUME NEW P, NEW ps, NEW hs, NEW s, NEW q, NEW m, NEW sw, NEW l,
           Walking(P, ps, hs, s, q, m, sw, l),
           NEW a, NEW b, NEW x, Doing(Last(ps), Last(s), a, b, x),
           NEW v, Inside(x.f, a), v \in Candidates(x.f, Last(s).base, m, sw)
    PROVE  LET m2 == Noted(m, Key(x.f, Last(s).base, sw), v)
           IN  /\ v \in Nat
               /\ IsRead(x.f, v, Last(s).base, q, m, m2, sw, l)
               /\ At(x.f, Last(s).base) + x.f.w \in Nat
               /\ At(x.f, Last(s).base) + x.f.w <= l
  <1> DEFINE p == Last(ps)
             fr == Last(s)
             f == x.f
             m2 == Noted(m, Key(f, fr.base, sw), v)
  <1>1. /\ q \in Nat /\ l \in Nat /\ Fitting(p, fr, q, l) /\ Numbers(m)
        /\ Track(p)[fr.i].size \in Nat /\ Inside(f, Track(p)[fr.i])
        /\ v \in Candidates(f, fr.base, m, sw)
    BY TopFrame DEF Walking, Doing, Consistent
  <1> DEFINE k == Key(f, fr.base, sw)
  <1> HIDE DEF p, fr, f
  <1>2. /\ f.w \in Nat \ {0} /\ f.off \in Nat /\ f.part # Doubled /\ f.less = 0
        /\ f.off + f.w <= Track(p)[fr.i].size /\ f.vals \subseteq Nat
    BY <1>1 DEF Inside
  <1>3. v \in Nat /\ (k \in DOMAIN m => m[k] = v)
    BY <1>1, <1>2 DEF Candidates, Numbers
  <1>4. /\ DOMAIN m2 = {k} \cup DOMAIN m
        /\ m2[k] = v
        /\ \A j \in DOMAIN m : j # k => m2[j] = m[j]
    BY DEF Noted
  <1> HIDE DEF m2
  <1>5. Extends(m2, m) /\ Numbers(m2)
    BY <1>1, <1>3, <1>4 DEF Extends, Numbers
  <1>6. At(f, fr.base) = fr.base + f.off
    BY <1>2 DEF At
  <1>7. /\ fr.base \in Nat /\ fr.base + f.off + f.w \in Nat
        /\ fr.base + f.off + f.w <= q /\ fr.base + f.off + f.w <= l
    <2>1. PICK z : z = Track(p)[fr.i].size /\ z \in Nat /\ f.off + f.w <= z
      BY <1>1, <1>2
    <2>2. fr.base \in Nat /\ fr.base + z <= q /\ fr.base + z <= l
      BY <1>1, <2>1 DEF Fitting
    <2>3. q \in Nat /\ l \in Nat
      BY <1>1
    <2> QED BY <1>2, <2>1, <2>2, <2>3
  <1>8. f # ToEnd
    BY <1>2 DEF ToEnd, Member
  <1>9. \A h : Here(h).base = fr.base /\ h.pos = q => Reading(f, v, h, m2, sw, l)
    BY <1>2, <1>3, <1>4, <1>7, <1>8 DEF Reading
  <1>10. IsRead(f, v, fr.base, q, m, m2, sw, l)
    BY <1>3, <1>4, <1>5, <1>8, <1>9 DEF IsRead
  <1> QED BY <1>3, <1>6, <1>7, <1>10 DEF fr, f, m2

LEMMA WalkToEnd ==
    ASSUME NEW P, NEW ps, NEW hs, NEW s, NEW q, NEW m, NEW sw, NEW l,
           Walking(P, ps, hs, s, q, m, sw, l),
           NEW a, NEW b, NEW x, Doing(Last(ps), Last(s), a, b, x),
           x.f = ToEnd, a.mood # "late", Last(ps).area = "body"
    PROVE  IsRead(x.f, l - q, Last(s).base, q, m, m, sw, l)
  <1> DEFINE p == Last(ps)
             fr == Last(s)
  <1>1. /\ q \in Nat /\ l \in Nat /\ Fitting(p, fr, q, l) /\ Numbers(m)
        /\ a = KnownAt(ps, s) /\ Knows(a, fr, q, m, sw) /\ a.ahead \in Nat
    BY TopFrame DEF Walking, Doing, Consistent, KnownAt
  <1>2. fr.lim = l /\ q + a.ahead <= fr.lim
    BY <1>1 DEF Fitting, Knows
  <1>3. l - q \in Nat
    BY <1>1, <1>2
  <1> QED BY <1>1, <1>3 DEF IsRead, Extends, Reading

\* The codec reads a member.
LEMMA CodecReads ==
    ASSUME NEW P, NEW ps, NEW hs, Walking(P, ps, hs, stack, pos, mem, swaps, len),
           NEW a, NEW b, NEW x, Doing(Last(ps), Top, a, b, x), Readable(Last(ps), a, x.f),
           reach \in Nat, reach <= len,
           NEW v \in ValuesOf(x.f), Reads(x.f, v, 0)
    PROVE  /\ \E m2 : mem' = m2 /\ IsRead(x.f, v, Top.base, pos, mem, m2, swaps, len)
           /\ reach' \in Nat /\ reach' <= len
  <1>1. CASE Inside(x.f, a)
    <2>1. /\ x.f # ToEnd /\ x.f # SizeLeft /\ x.f # InArea
          /\ x.f.w # 0 /\ x.f.less = 0 /\ x.f.vals \subseteq Nat
      BY <1>1 DEF Inside, ToEnd, SizeLeft, InArea, Member
    <2>2. PICK u \in Candidates(x.f, Top.base, mem, swaps) : v = u - x.f.less
      BY <2>1 DEF ValuesOf, Candidates, KeyOf
    <2>3. u \in Nat /\ At(x.f, Top.base) + x.f.w \in Nat /\ At(x.f, Top.base) + x.f.w <= len
      BY <1>1, WalkReads DEF Top
    <2>4. v = u /\ v + x.f.less = v
      BY <2>1, <2>2, <2>3
    <2>5. IsRead(x.f, v, Top.base, pos, mem, Noted(mem, Key(x.f, Top.base, swaps), v), swaps, len)
      BY <1>1, <2>2, <2>4, WalkReads DEF Top
    <2>6. /\ mem' = Noted(mem, Key(x.f, Top.base, swaps), v)
          /\ reach' = MaxOf(MaxOf(reach, 0), At(x.f, Top.base) + x.f.w)
      BY <2>1, <2>4 DEF Reads, KeyOf
    <2>7. reach' \in Nat /\ reach' <= len
      BY <2>3, <2>6 DEF MaxOf
    <2> QED BY <2>5, <2>6, <2>7
  <1>2. CASE x.f = ToEnd /\ a.mood # "late" /\ Last(ps).area = "body"
    <2>1. x.f.w = 0
      BY <1>2 DEF ToEnd, Member
    <2>2. v = len - pos
      BY <1>2 DEF ValuesOf
    <2>3. IsRead(x.f, v, Top.base, pos, mem, mem, swaps, len)
      BY <1>2, <2>2, WalkToEnd DEF Top
    <2>4. mem' = mem /\ reach' = MaxOf(reach, 0)
      BY <2>1 DEF Reads
    <2>5. reach' \in Nat /\ reach' <= len
      BY <2>4 DEF MaxOf
    <2> QED BY <2>3, <2>4, <2>5
  <1> QED BY <1>1, <1>2 DEF Readable

-----------------------------------------------------------------------------
(* Steps of the codec.                                                     *)

LEMMA WalkPlace ==
    ASSUME NEW P, NEW p, NEW s, NEW q, NEW m, NEW sw, NEW l, Walks(P, p, s, q, m, sw, l)
    PROVE  /\ l \in Nat /\ q \in Nat /\ List(s)
           /\ \A k \in DOMAIN sw : sw[k] = 1
           /\ \A d \in 1 .. Len(s) : s[d].i \in Nat /\ s[d].base \in Nat /\ s[d].lim \in Nat
  <1>1. PICK ps, hs : Walking(P, ps, hs, s, q, m, sw, l)
    BY DEF Walks
  <1>2. Closed(P) /\ l \in Nat /\ q \in Nat /\ Stacked(P, ps, s, q, l)
    BY <1>1 DEF Walking
  <1>3. \A k \in DOMAIN sw : sw[k] = 1
    BY <1>1 DEF Walking, Swapped
  <1>4. List(s) /\ \A d \in 1 .. Len(s) : ps[d] \in P /\ Fitting(ps[d], s[d], q, l)
    BY <1>2 DEF Stacked
  <1>5. ASSUME NEW d \in 1 .. Len(s)
        PROVE  s[d].i \in Nat /\ s[d].base \in Nat /\ s[d].lim \in Nat
    <2>1. Sound(ps[d]) /\ Fitting(ps[d], s[d], q, l)
      BY <1>2, <1>4 DEF Closed
    <2>2. Len(ps[d].walk) \in Nat
      BY <2>1 DEF Sound
    <2> QED BY <2>1, <2>2 DEF Fitting
  <1> QED BY <1>2, <1>3, <1>4, <1>5

\* The codec goes on.
LEMMA WalkGoesOn ==
    ASSUME Inv, fmt \in Mirrored, phase = "walk", phase' = "walk",
           UNCHANGED <<fmt, len, fields, torn>>, reach' \in Nat, reach' <= len,
           Walks(PairsOf(fmt), MainPair(fmt), stack', pos', mem', swaps', len)
    PROVE  Inv'
  <1>1. PICK f, l, s, q, m, sw, fs, r :
           /\ f = fmt /\ l = len /\ s = stack' /\ q = pos' /\ m = mem' /\ sw = swaps'
           /\ fs = fields /\ r = reach'
    OBVIOUS
  <1>2. fs = {} /\ torn = FALSE
    BY <1>1 DEF Inv, DecodedWell
  <1>3. Walks(PairsOf(f), MainPair(f), s, q, m, sw, l)
    BY <1>1
  <1>4. l \in Nat /\ q \in Nat /\ \A k \in DOMAIN sw : sw[k] = 1
    BY <1>3, WalkPlace
  <1>5. r \in Nat /\ r <= l
    BY <1>1
  <1>6. DecodedWell(f, l, "walk", s, q, m, sw, fs, r)
    BY <1>2, <1>3, <1>4, <1>5 DEF DecodedWell
  <1>7. DecodedWell(fmt, len, phase, stack, pos, mem, swaps, fields, reach)'
    BY <1>1, <1>6
  <1> QED BY <1>2, <1>7 DEF Inv

\* The codec returns NULL.
LEMMA WalkFails ==
    ASSUME Inv, fmt \in Mirrored, phase = "walk", Fail,
           UNCHANGED <<fmt, len, swaps, fields, torn>>,
           pos' \in Nat, reach' \in Nat, reach' <= len
    PROVE  Inv'
  <1>1. PICK f, l, s, q, m, sw, fs, r :
           /\ f = fmt /\ l = len /\ s = stack' /\ q = pos' /\ m = mem' /\ sw = swaps
           /\ fs = fields /\ r = reach'
    OBVIOUS
  <1>2. torn = FALSE /\ l \in Nat /\ \A k \in DOMAIN sw : sw[k] = 1
    BY <1>1 DEF Inv, DecodedWell
  <1>3. q \in Nat /\ r \in Nat /\ r <= l
    BY <1>1
  <1>4. DOMAIN s = {}
    BY <1>1 DEF Fail
  <1>5. DecodedWell(f, l, "null", s, q, m, sw, fs, r)
    BY <1>2, <1>3, <1>4 DEF DecodedWell
  <1>6. phase' = "null"
    BY DEF Fail
  <1>7. DecodedWell(fmt, len, phase, stack, pos, mem, swaps, fields, reach)'
    BY <1>1, <1>5, <1>6
  <1> QED BY <1>2, <1>6, <1>7 DEF Inv

\* What is known in a walk.
LEMMA InWalk ==
    ASSUME Inv, fmt \in Mirrored, phase = "walk"
    PROVE  /\ \E ps, hs : /\ ps[1] = MainPair(fmt)
                          /\ Walking(PairsOf(fmt), ps, hs, stack, pos, mem, swaps, len)
           /\ pos \in Nat /\ len \in Nat /\ reach \in Nat /\ reach <= len /\ fields = {}
           /\ torn = FALSE
  BY DEF Inv, DecodedWell, Walks

LEMMA GoingWalk ==
    ASSUME NEW P, NEW ps, NEW hs, Walking(P, ps, hs, stack, pos, mem, swaps, len)
    PROVE  /\ ~AtEnd => \E a, b : Doing(Last(ps), Top, a, b, Arg)
           /\ AtEnd => ~(Top.i <= Len(Top.prog))
           /\ Len(stack) \in Nat
  <1>1. Fitting(Last(ps), Top, pos, len) /\ Sound(Last(ps)) /\ List(stack)
    BY TopFrame DEF Walking, Top
  <1>2. Top.i \in Nat /\ Len(Top.prog) \in Nat
    BY <1>1 DEF Fitting, Sound
  <1>3. ASSUME ~AtEnd PROVE \E a, b : Doing(Last(ps), Top, a, b, Arg)
    <2>1. Top.i <= Len(Top.prog)
      BY <1>2, <1>3 DEF AtEnd
    <2> QED BY <2>1, NextInstr DEF Top, Arg
  <1>4. AtEnd => ~(Top.i <= Len(Top.prog))
    BY <1>2 DEF AtEnd
  <1> QED BY <1>1, <1>3, <1>4 DEF List

\* Instructions of a view, and two of codecs outside the class, are not in these walks.
LEMMA Covers ==
    ASSUME NEW p, NEW fr, NEW a, NEW b, NEW x, Doing(p, fr, a, b, x)
    PROVE  /\ x.op \notin {"go", "room", "obj", "bytes", "data", "rest", "units"}
           /\ x.op \in {"fits", "below", "fills", "fitsin", "fillsin", "atleast", "oneof",
                        "divides", "take", "skip", "when", "times", "loop"}
              => Readable(p, a, x.f)
  BY DEF Doing, Covered, Readable, SameLoop

\* The instruction a codec is at.
LEMMA WalkInstr ==
    ASSUME Inv, fmt \in Mirrored, phase = "walk", ~AtEnd
    PROVE  \E ps, hs, a, b, x :
              /\ x = Arg
              /\ ps[1] = MainPair(fmt)
              /\ Walking(PairsOf(fmt), ps, hs, stack, pos, mem, swaps, len)
              /\ Doing(Last(ps), Top, a, b, x)
  <1>1. PICK ps, hs : /\ ps[1] = MainPair(fmt)
                      /\ Walking(PairsOf(fmt), ps, hs, stack, pos, mem, swaps, len)
    BY InWalk
  <1>2. PICK a, b : Doing(Last(ps), Top, a, b, Arg)
    BY <1>1, GoingWalk
  <1> QED BY <1>1, <1>2

\* A codec has none of the instructions that only accessors have.
LEMMA WalkNever ==
    ASSUME Inv, fmt \in Mirrored, phase = "walk"
    PROVE  ~(Gap \/ ShowStruct \/ ShowBytes \/ ShowRest \/ ShowUnits \/ Finish)
  <1> SUFFICES ASSUME ~AtEnd, Arg.op \in {"go", "obj", "bytes", "data", "rest", "units"}
               PROVE  FALSE
    BY DEF Gap, ShowStruct, ShowBytes, ShowRest, ShowUnits, Finish, Running
  <1>1. PICK ps, hs, a, b, x : x = Arg /\ Doing(Last(ps), Top, a, b, x)
    BY WalkInstr
  <1> QED BY <1>1, Covers

LEMMA WalkTake ==
    ASSUME Inv, fmt \in Mirrored, phase = "walk", SkipOver \/ TakeMember
    PROVE  Inv'
  <1>1. ~AtEnd /\ Arg.op \in {"skip", "take"}
    BY DEF SkipOver, TakeMember, Running
  <1>2. PICK ps, hs, a, b, x :
           /\ x = Arg /\ ps[1] = MainPair(fmt)
           /\ Walking(PairsOf(fmt), ps, hs, stack, pos, mem, swaps, len)
           /\ Doing(Last(ps), Top, a, b, x)
    BY <1>1, WalkInstr
  <1>3. Readable(Last(ps), a, x.f)
    BY <1>1, <1>2, Covers
  <1>4. PICK v \in ValuesOf(x.f) :
           /\ Reads(x.f, v, 0)
           /\ pos' = pos + v
           /\ \/ x.op = "skip" /\ Proceed
              \/ x.op = "take" /\ IF pos + v <= len THEN Proceed ELSE Fail
    BY <1>2 DEF SkipOver, TakeMember, Running, Check
  <1>5. pos \in Nat /\ reach \in Nat /\ reach <= len
    BY InWalk
  <1>6. /\ \E m2 : mem' = m2 /\ IsRead(x.f, v, Top.base, pos, mem, m2, swaps, len)
        /\ reach' \in Nat /\ reach' <= len
    BY <1>2, <1>3, <1>4, <1>5, CodecReads
  <1>7. PICK m2 : mem' = m2 /\ IsRead(x.f, v, Top.base, pos, mem, m2, swaps, len)
    BY <1>6
  <1>8. UNCHANGED <<fmt, len, swaps, fields, torn>>
    BY DEF SkipOver, TakeMember, Check, Quiet
  <1>9. CASE Proceed /\ (x.op = "take" => pos + v <= len)
    <2>1. Walks(PairsOf(fmt), ps[1], Replaced(stack, Moved(Top, Top.base)), pos + v, m2,
                swaps, len)
      BY <1>1, <1>2, <1>7, <1>9, TakeStep DEF Top
    <2>2. stack' = Replaced(stack, Moved(Top, Top.base)) /\ phase' = "walk"
      BY <1>9 DEF Proceed
    <2>3. Walks(PairsOf(fmt), MainPair(fmt), stack', pos', mem', swaps', len)
      BY <1>2, <1>4, <1>7, <1>8, <2>1, <2>2
    <2> QED BY <1>6, <1>8, <2>2, <2>3, WalkGoesOn
  <1>10. CASE Fail
    <2>1. pos' \in Nat
      BY <1>4, <1>5, <1>7 DEF IsRead
    <2> QED BY <1>6, <1>8, <1>10, <2>1, WalkFails
  <1> QED BY <1>4, <1>9, <1>10

LEMMA WalkRoom ==
    ASSUME Inv, fmt \in Mirrored, phase = "walk", CheckRoom
    PROVE  Inv'
  <1>1. ~AtEnd /\ Arg.op \in {"need", "needin", "exactly", "exactlyin"}
    BY DEF CheckRoom, Running
  <1>2. PICK ps, hs, a, b, x :
           /\ x = Arg /\ ps[1] = MainPair(fmt)
           /\ Walking(PairsOf(fmt), ps, hs, stack, pos, mem, swaps, len)
           /\ Doing(Last(ps), Top, a, b, x)
    BY <1>1, WalkInstr
  <1>3. pos \in Nat /\ len \in Nat /\ reach \in Nat /\ reach <= len
    BY InWalk
  <1>4. Fitting(Last(ps), Top, pos, len) /\ Knows(a, Top, pos, mem, swaps) /\ Numbers(mem)
    BY <1>2, TopFrame DEF Walking, Doing, KnownAt, Top
  <1>5. /\ Stays(a, b) /\ x.n \in Nat
        /\ x.op \in {"need", "exactly"} => Last(ps).area = "body"
        /\ pos + x.n <= Top.lim => Knows(b, Top, pos, mem, swaps)
    BY <1>1, <1>2, <1>4, KnowsRoom
  <1>6. Top.lim \in Nat /\ (x.op \in {"need", "exactly"} => Top.lim = len)
    BY <1>4, <1>5 DEF Fitting
  <1>7. UNCHANGED <<fmt, len, pos, mem, swaps, fields, reach, torn>>
    BY DEF CheckRoom, Check, Quiet
  <1>8. (Proceed /\ pos + x.n <= Top.lim) \/ Fail
    BY <1>2, <1>3, <1>5, <1>6 DEF CheckRoom, Check, Running
  <1>9. CASE Proceed /\ pos + x.n <= Top.lim
    <2>1. Extends(mem, mem)
      BY DEF Extends
    <2>2. Walks(PairsOf(fmt), ps[1], Replaced(stack, Moved(Top, Top.base)), pos, mem,
                swaps, len)
      BY <1>2, <1>4, <1>5, <1>9, <2>1, CheckStep DEF Top, Stays
    <2>3. stack' = Replaced(stack, Moved(Top, Top.base)) /\ phase' = "walk"
      BY <1>9 DEF Proceed
    <2>4. Walks(PairsOf(fmt), MainPair(fmt), stack', pos', mem', swaps', len)
      BY <1>2, <1>7, <2>2, <2>3
    <2> QED BY <1>3, <1>7, <2>3, <2>4, WalkGoesOn
  <1>10. CASE Fail
    BY <1>3, <1>7, <1>10, WalkFails
  <1> QED BY <1>8, <1>9, <1>10


\* What is known after a check of a member that succeeds.
LEMMA KnowsChecked ==
    ASSUME NEW P, NEW ps, NEW hs, NEW s, NEW q \in Nat, NEW m, NEW sw, NEW l \in Nat,
           Walking(P, ps, hs, s, q, m, sw, l),
           NEW a, NEW b, NEW x, Doing(Last(ps), Last(s), a, b, x),
           NEW v, NEW m2, IsRead(x.f, v, Last(s).base, q, m, m2, sw, l),
           \/ x.op = "fits" /\ q + v <= l
           \/ x.op = "below" /\ q + v < l
           \/ x.op = "fills" /\ q + v = l
           \/ x.op \in {"atleast", "oneof"}
           \/ x.op = "divides" /\ v % x.n = 0
           \/ x.op = "fitsin" /\ q + v <= Last(s).lim
           \/ x.op = "fillsin" /\ q + v + x.n = Last(s).lim
    PROVE  Stays(a, b) /\ Knows(b, Last(s), q, m2, sw)
  <1> DEFINE p == Last(ps)
             fr == Last(s)
  <1>1. Fitting(p, fr, q, l) /\ Knows(a, fr, q, m, sw) /\ Doing(p, fr, a, b, x)
    BY TopFrame DEF Walking, Doing, KnownAt
  <1>2. v \in Nat /\ Extends(m2, m) /\ Numbers(m2)
    BY DEF IsRead
  <1>3. IsRead(x.f, v, fr.base, q, m, m2, sw, l)
    OBVIOUS
  <1>4. \/ x.op = "fits" /\ q + v <= l
        \/ x.op = "below" /\ q + v < l
        \/ x.op = "fills" /\ q + v = l
        \/ x.op \in {"atleast", "oneof"}
        \/ x.op = "divides" /\ v % x.n = 0
        \/ x.op = "fitsin" /\ q + v <= fr.lim
        \/ x.op = "fillsin" /\ q + v + x.n = fr.lim
    OBVIOUS
  <1> HIDE DEF p, fr
  <1>5. Knows(a, fr, q, m2, sw)
    BY <1>1, <1>2, KnowsKept
  <1>6. fr.lim \in Nat /\ (p.area = "body" => fr.lim = l)
    BY <1>1 DEF Fitting
  <1>7. ASSUME Inside(x.f, a) PROVE Key(x.f, fr.base, sw) \in DOMAIN m2 /\ m2[Key(x.f, fr.base, sw)] = v
    <2>1. x.f # ToEnd
      BY <1>7 DEF Inside, ToEnd, Member
    <2> QED BY <1>3, <2>1 DEF IsRead
  <1>8. CASE x.op \in {"fits", "below", "fills", "fitsin", "fillsin"}
    <2>1. /\ Stays(a, b) /\ Inside(x.f, a)
          /\ x.op \in {"fits", "below", "fills"} => p.area = "body"
          /\ x.op = "fillsin" => x.n \in Nat
          /\ /\ Key(x.f, fr.base, sw) \in DOMAIN m2
             /\ q + m2[Key(x.f, fr.base, sw)] <= fr.lim
             => Knows(b, fr, q, m2, sw)
      BY <1>1, <1>2, <1>5, <1>6, <1>8, KnowsFits
    <2>2. q + v <= fr.lim
      BY <1>2, <1>4, <1>6, <1>8, <2>1
    <2> QED BY <1>7, <2>1, <2>2 DEF fr
  <1>9. CASE x.op \in {"atleast", "oneof"}
    <2>1. Stays(a, b) /\ Knows(b, fr, q, m2, sw)
      BY <1>1, <1>5, <1>9, KnowsSame
    <2> QED BY <2>1 DEF fr
  <1>10. CASE x.op = "divides"
    <2>1. /\ Stays(a, b)
          /\ x.f = ToEnd =>
                /\ p.area = "body"
                /\ (fr.lim - q) % x.n = 0 => Knows(b, fr, q, m2, sw)
          /\ x.f # ToEnd =>
                /\ Inside(x.f, a)
                /\ m2[Key(x.f, fr.base, sw)] % x.n = 0 => Knows(b, fr, q, m2, sw)
      BY <1>1, <1>2, <1>5, <1>6, <1>10, KnowsDivides
    <2>2. v % x.n = 0
      BY <1>4, <1>10
    <2>3. CASE x.f = ToEnd
      <3>1. v = fr.lim - q
        BY <1>3, <1>6, <2>1, <2>3 DEF IsRead
      <3> QED BY <2>1, <2>2, <2>3, <3>1 DEF fr
    <2>4. CASE x.f # ToEnd
      BY <1>7, <2>1, <2>2, <2>4 DEF fr
    <2> QED BY <2>3, <2>4
  <1> QED BY <1>4, <1>8, <1>9, <1>10

LEMMA WalkCheck ==
    ASSUME Inv, fmt \in Mirrored, phase = "walk", CheckMember
    PROVE  Inv'
  <1>1. ~AtEnd /\ Arg.op \in {"fits", "below", "fills", "atleast", "room", "divides",
                              "oneof", "fitsin", "fillsin"}
    BY DEF CheckMember
  <1>2. PICK ps, hs, a, b, x :
           /\ x = Arg /\ ps[1] = MainPair(fmt)
           /\ Walking(PairsOf(fmt), ps, hs, stack, pos, mem, swaps, len)
           /\ Doing(Last(ps), Top, a, b, x)
    BY <1>1, WalkInstr
  <1>3. Readable(Last(ps), a, x.f) /\ x.op # "room"
    BY <1>1, <1>2, Covers
  <1>4. PICK v \in ValuesOf(x.f) :
           /\ Reads(x.f, v, 0)
           /\ Check(CASE x.op = "fits" -> pos + v <= len
                      [] x.op = "below" -> pos + v < len
                      [] x.op = "fills" -> pos + v = len
                      [] x.op = "atleast" -> v >= x.n
                      [] x.op = "room" -> pos > len \/ pos + v <= len
                      [] x.op = "divides" -> v % x.n = 0
                      [] x.op = "oneof" -> v \in x.vals
                      [] x.op = "fitsin" -> pos + v <= Top.lim
                      [] x.op = "fillsin" -> pos + v + x.n = Top.lim)
    BY <1>2 DEF CheckMember
  <1>5. pos \in Nat /\ len \in Nat /\ reach \in Nat /\ reach <= len
    BY InWalk
  <1>6. /\ \E m2 : mem' = m2 /\ IsRead(x.f, v, Top.base, pos, mem, m2, swaps, len)
        /\ reach' \in Nat /\ reach' <= len
    BY <1>2, <1>3, <1>4, <1>5, CodecReads
  <1>7. PICK m2 : mem' = m2 /\ IsRead(x.f, v, Top.base, pos, mem, m2, swaps, len)
    BY <1>6
  <1>8. UNCHANGED <<fmt, len, pos, swaps, fields, torn>>
    BY <1>4 DEF CheckMember, Check, Quiet
  <1>9. \/ Fail
        \/ /\ Proceed
           /\ \/ x.op = "fits" /\ pos + v <= len
              \/ x.op = "below" /\ pos + v < len
              \/ x.op = "fills" /\ pos + v = len
              \/ x.op \in {"atleast", "oneof"}
              \/ x.op = "divides" /\ v % x.n = 0
              \/ x.op = "fitsin" /\ pos + v <= Top.lim
              \/ x.op = "fillsin" /\ pos + v + x.n = Top.lim
    BY <1>1, <1>2, <1>3, <1>4 DEF Check
  <1>10. CASE ~Fail
    <2>1. Stays(a, b) /\ Knows(b, Top, pos, m2, swaps)
      BY <1>2, <1>5, <1>7, <1>9, <1>10, KnowsChecked DEF Top
    <2>2. Numbers(m2) /\ Extends(m2, mem)
      BY <1>7 DEF IsRead
    <2>3. Walks(PairsOf(fmt), ps[1], Replaced(stack, Moved(Top, Top.base)), pos, m2,
                swaps, len)
      BY <1>2, <2>1, <2>2, CheckStep DEF Top, Stays
    <2>4. stack' = Replaced(stack, Moved(Top, Top.base)) /\ phase' = "walk"
      BY <1>9, <1>10 DEF Proceed
    <2>5. Walks(PairsOf(fmt), MainPair(fmt), stack', pos', mem', swaps', len)
      BY <1>2, <1>7, <1>8, <2>3, <2>4
    <2> QED BY <1>6, <1>8, <2>4, <2>5, WalkGoesOn
  <1>11. CASE Fail
    BY <1>5, <1>6, <1>8, <1>11, WalkFails
  <1> QED BY <1>10, <1>11

LEMMA WalkStruct ==
    ASSUME Inv, fmt \in Mirrored, phase = "walk", EnterStruct
    PROVE  Inv'
  <1>1. ~AtEnd
    BY DEF EnterStruct, Running
  <1>2. PICK ps, hs, a, b, x :
           /\ x = Arg /\ ps[1] = MainPair(fmt)
           /\ Walking(PairsOf(fmt), ps, hs, stack, pos, mem, swaps, len)
           /\ Doing(Last(ps), Top, a, b, x)
    BY <1>1, WalkInstr
  <1>3. (x.op = "struct" /\ pos + x.n <= len) \/ x.op = "step"
    BY <1>2 DEF EnterStruct, Running
  <1>4. Walks(PairsOf(fmt), ps[1], Replaced(stack, Moved(Top, pos)), pos + x.n, mem, swaps, len)
    BY <1>2, <1>3, StructStep DEF Top
  <1>5. /\ stack' = Replaced(stack, Moved(Top, pos)) /\ pos' = pos + x.n
        /\ UNCHANGED <<fmt, len, phase, mem, swaps, fields, reach, torn>>
    BY <1>2 DEF EnterStruct, Quiet
  <1>6. Walks(PairsOf(fmt), MainPair(fmt), stack', pos', mem', swaps', len)
    BY <1>2, <1>4, <1>5
  <1>7. reach' \in Nat /\ reach' <= len
    BY <1>5, InWalk
  <1> QED BY <1>5, <1>6, <1>7, WalkGoesOn

LEMMA WalkNoStruct ==
    ASSUME Inv, fmt \in Mirrored, phase = "walk", NoStruct
    PROVE  Inv'
  <1>1. Fail /\ UNCHANGED <<fmt, len, pos, mem, swaps, fields, reach, torn>>
    BY DEF NoStruct, Check, Quiet
  <1> QED BY <1>1, InWalk, WalkFails

LEMMA WalkSwaps ==
    ASSUME Inv, fmt \in Mirrored, phase = "walk", SwapBytes
    PROVE  Inv'
  <1>1. ~AtEnd /\ Arg.op = "swaps"
    BY DEF SwapBytes, Running
  <1>2. PICK ps, hs, a, b, x :
           /\ x = Arg /\ ps[1] = MainPair(fmt)
           /\ Walking(PairsOf(fmt), ps, hs, stack, pos, mem, swaps, len)
           /\ Doing(Last(ps), Top, a, b, x)
    BY <1>1, WalkInstr
  <1>3. PICK done : done = Placed(x.fields, Top.base)
    OBVIOUS
  <1>4. /\ Walks(PairsOf(fmt), ps[1], Replaced(stack, Moved(Top, Top.base)), pos, mem,
                 SwapsWith(swaps, done), len)
        /\ \A r \in Nat : r <= len => Furthest(done, r) \in Nat /\ Furthest(done, r) <= len
    BY <1>1, <1>2, <1>3, SwapStep DEF Top
  <1>5. swaps' = SwapsWith(swaps, done) /\ reach' = Furthest(done, reach)
    BY <1>2, <1>3 DEF SwapBytes, SwapsWith
  <1>6. /\ stack' = Replaced(stack, Moved(Top, Top.base)) /\ phase' = "walk"
        /\ UNCHANGED <<fmt, len, pos, mem, fields, torn>>
    BY DEF SwapBytes, Proceed, Quiet
  <1>7. Walks(PairsOf(fmt), MainPair(fmt), stack', pos', mem', swaps', len)
    BY <1>2, <1>4, <1>5, <1>6
  <1>8. reach' \in Nat /\ reach' <= len
    BY <1>4, <1>5, InWalk
  <1> QED BY <1>6, <1>7, <1>8, WalkGoesOn


LEMMA WalkCalls ==
    ASSUME Inv, fmt \in Mirrored, phase = "walk", Choose \/ Repeat \/ EnterLoop
    PROVE  Inv'
  <1>1. ~AtEnd /\ Arg.op \in {"when", "times", "loop"}
    BY DEF Choose, Repeat, EnterLoop, Running
  <1>2. PICK ps, hs, a, b, x :
           /\ x = Arg /\ ps[1] = MainPair(fmt)
           /\ Walking(PairsOf(fmt), ps, hs, stack, pos, mem, swaps, len)
           /\ Doing(Last(ps), Top, a, b, x)
    BY <1>1, WalkInstr
  <1>3. Readable(Last(ps), a, x.f)
    BY <1>1, <1>2, Covers
  <1>4. PICK v \in ValuesOf(x.f) :
           /\ Reads(x.f, v, 0)
           /\ \/ /\ x.op = "when"
                 /\ IF v \in x.vals THEN Call(x.body, Top.lim, "count", 0, 0) ELSE Proceed
              \/ /\ x.op = "times"
                 /\ IF v > 0 THEN Call(x.body, Top.lim, "count", v - 1, 0) ELSE Proceed
              \/ /\ x.op = "loop"
                 /\ IF v > 0 THEN Call(x.body, pos + v, x.exit, 0, x.slack) ELSE Proceed
    BY <1>2 DEF Choose, Repeat, EnterLoop, Running
  <1>5. pos \in Nat /\ reach \in Nat /\ reach <= len
    BY InWalk
  <1>6. /\ \E m2 : mem' = m2 /\ IsRead(x.f, v, Top.base, pos, mem, m2, swaps, len)
        /\ reach' \in Nat /\ reach' <= len
    BY <1>2, <1>3, <1>4, <1>5, CodecReads
  <1>7. PICK m2 : mem' = m2 /\ IsRead(x.f, v, Top.base, pos, mem, m2, swaps, len)
    BY <1>6
  <1>8. UNCHANGED <<fmt, len, pos, swaps, fields, torn>>
    BY DEF Choose, Repeat, EnterLoop, Quiet
  <1>9. v \in Nat
    BY <1>7 DEF IsRead
  <1>10. phase' = "walk"
    BY <1>4 DEF Call, Proceed
  <1>11. Walks(PairsOf(fmt), ps[1], stack', pos, m2, swaps, len)
    <2>1. CASE \/ x.op = "when" /\ v \notin x.vals
               \/ x.op \in {"times", "loop"} /\ v = 0
      <3>1. Walks(PairsOf(fmt), ps[1], Replaced(stack, Moved(Top, Top.base)), pos, m2, swaps, len)
        BY <1>2, <1>7, <2>1, NotCalled DEF Top
      <3>2. stack' = Replaced(stack, Moved(Top, Top.base))
        BY <1>4, <2>1 DEF Proceed
      <3> QED BY <3>1, <3>2
    <2>2. CASE x.op = "when" /\ v \in x.vals
      <3>1. Walks(PairsOf(fmt), ps[1], Called(stack, x.body, Top.lim, "count", 0, 0), pos,
                  m2, swaps, len)
        BY <1>2, <1>7, <2>2, PartStep DEF Top
      <3>2. stack' = Called(stack, x.body, Top.lim, "count", 0, 0)
        BY <1>4, <2>2 DEF Call
      <3> QED BY <3>1, <3>2
    <2>3. CASE x.op = "times" /\ v > 0
      <3>1. PICK n \in Nat : n = v - 1
        BY <1>9, <2>3
      <3>2. Walks(PairsOf(fmt), ps[1], Called(stack, x.body, Top.lim, "count", n, 0), pos,
                  m2, swaps, len)
        BY <1>2, <1>7, <2>3, <3>1, PartStep DEF Top
      <3>3. stack' = Called(stack, x.body, Top.lim, "count", n, 0)
        BY <1>4, <2>3, <3>1 DEF Call
      <3> QED BY <3>2, <3>3
    <2>4. CASE x.op = "loop" /\ v > 0
      <3>1. Walks(PairsOf(fmt), ps[1], Called(stack, x.body, pos + v, x.exit, 0, x.slack),
                  pos, m2, swaps, len)
        BY <1>2, <1>7, <2>4, LoopStep DEF Top
      <3>2. stack' = Called(stack, x.body, pos + v, x.exit, 0, x.slack)
        BY <1>4, <2>4 DEF Call
      <3> QED BY <3>1, <3>2
    <2> QED BY <1>4, <1>9, <2>1, <2>2, <2>3, <2>4
  <1>12. Walks(PairsOf(fmt), MainPair(fmt), stack', pos', mem', swaps', len)
    BY <1>2, <1>7, <1>8, <1>11
  <1> QED BY <1>6, <1>8, <1>10, <1>12, WalkGoesOn

\* A codec at the end of a part or loop.
LEMMA WalkEnd ==
    ASSUME Inv, fmt \in Mirrored, phase = "walk", Ended
    PROVE  \E ps, hs :
              /\ ps[1] = MainPair(fmt)
              /\ Walking(PairsOf(fmt), ps, hs, stack, pos, mem, swaps, len)
              /\ Len(stack) > 1
              /\ Ends(Shown(ps, stack, pos, swaps), Last(ps), Top, Caller, pos, len, swaps)
              /\ Top.exit # "jump" /\ Top.lim \in Nat /\ Top.slack = 0
  <1>1. PICK ps, hs : /\ ps[1] = MainPair(fmt)
                      /\ Walking(PairsOf(fmt), ps, hs, stack, pos, mem, swaps, len)
    BY InWalk
  <1>2. Len(stack) > 1 /\ ~(Top.i <= Len(Top.prog))
    BY <1>1, GoingWalk DEF Ended
  <1>3. Ends(Shown(ps, stack, pos, swaps), Last(ps), Top, Caller, pos, len, swaps)
    BY <1>1, <1>2, AtEndOf DEF Top, Caller
  <1>4. Top.exit # "jump" /\ Top.lim \in Nat /\ Top.slack = 0
    BY <1>3 DEF Ends, Sound, SameExit
  <1> QED BY <1>1, <1>2, <1>3, <1>4

LEMMA WalkAgain ==
    ASSUME Inv, fmt \in Mirrored, phase = "walk", OnceMore \/ GoRound
    PROVE  Inv'
  <1>1. Ended
    BY DEF OnceMore, GoRound
  <1>2. PICK ps, hs :
           /\ ps[1] = MainPair(fmt)
           /\ Walking(PairsOf(fmt), ps, hs, stack, pos, mem, swaps, len)
           /\ Ends(Shown(ps, stack, pos, swaps), Last(ps), Top, Caller, pos, len, swaps)
    BY <1>1, WalkEnd
  <1>3. PICK n :
           /\ stack' = Replaced(stack, Restarted(Top, Caller.base, n))
           /\ \/ Top.exit = "count" /\ Top.left > 0 /\ n = Top.left - 1
              \/ /\ Top.exit \in {"stay", "exact", "jump"}
                 /\ pos < Top.lim - Top.slack
                 /\ n = 0
    BY DEF OnceMore, GoRound
  <1>4. Walks(PairsOf(fmt), ps[1], Replaced(stack, Restarted(Top, Caller.base, n)), pos, mem,
              swaps, len)
    BY <1>2, <1>3, AgainStep DEF Top
  <1>5. UNCHANGED <<fmt, len, phase, pos, mem, swaps, fields, reach, torn>>
    BY DEF OnceMore, GoRound
  <1>6. Walks(PairsOf(fmt), MainPair(fmt), stack', pos', mem', swaps', len)
    BY <1>2, <1>3, <1>4, <1>5
  <1>7. reach' \in Nat /\ reach' <= len
    BY <1>5, InWalk
  <1> QED BY <1>5, <1>6, <1>7, WalkGoesOn

LEMMA WalkLeaves ==
    ASSUME Inv, fmt \in Mirrored, phase = "walk", ComeBack \/ LeaveLoop
    PROVE  Inv'
  <1>1. Ended
    BY DEF ComeBack, LeaveLoop
  <1>2. PICK ps, hs :
           /\ ps[1] = MainPair(fmt)
           /\ Walking(PairsOf(fmt), ps, hs, stack, pos, mem, swaps, len)
           /\ Len(stack) > 1
           /\ Ends(Shown(ps, stack, pos, swaps), Last(ps), Top, Caller, pos, len, swaps)
           /\ Top.exit # "jump" /\ Top.lim \in Nat /\ Top.slack = 0
    BY <1>1, WalkEnd
  <1>3. pos \in Nat /\ reach \in Nat /\ reach <= len /\ torn = FALSE
    BY InWalk
  <1>4. UNCHANGED <<fmt, len, mem, swaps, fields, reach>>
    BY DEF ComeBack, LeaveLoop, Quiet
  <1>5. torn' = torn
    BY <1>2, <1>3 DEF ComeBack, LeaveLoop
  <1>6. \/ Fail /\ pos' = pos
        \/ /\ stack' = Front(stack) /\ phase' = "walk"
           /\ \/ Top.exit = "count" /\ Top.left = 0 /\ pos' = pos
              \/ Top.exit = "once" /\ pos' = Top.lim
              \/ /\ Top.exit = "stay" \/ (Top.exit = "exact" /\ pos = Top.lim)
                 /\ pos >= Top.lim - Top.slack
                 /\ pos' = pos
    BY <1>2 DEF ComeBack, LeaveLoop
  <1>7. CASE Fail /\ pos' = pos
    BY <1>3, <1>4, <1>5, <1>7, WalkFails
  <1>8. CASE ~(Fail /\ pos' = pos)
    <2>1. PICK q2 : q2 = pos'
      OBVIOUS
    <2>2. Walks(PairsOf(fmt), ps[1], Front(stack), q2, mem, swaps, len)
      BY <1>2, <1>6, <1>8, <2>1, LeaveStep DEF Top, Caller
    <2>3. Walks(PairsOf(fmt), MainPair(fmt), stack', pos', mem', swaps', len)
      BY <1>2, <1>4, <1>6, <1>8, <2>1, <2>2
    <2> QED BY <1>3, <1>4, <1>5, <1>6, <1>8, <2>3, WalkGoesOn
  <1> QED BY <1>7, <1>8

LEMMA WalkAccepts ==
    ASSUME Inv, fmt \in Mirrored, phase = "walk", Accept
    PROVE  Inv'
  <1>1. PICK ps, hs : /\ ps[1] = MainPair(fmt)
                      /\ Walking(PairsOf(fmt), ps, hs, stack, pos, mem, swaps, len)
    BY InWalk
  <1>2. Len(stack) = 1 /\ ~(Top.i <= Len(Top.prog))
    BY <1>1, GoingWalk DEF Accept
  <1>3. ps[1].exit = "count" /\ ps[1].area = "body" /\ ps[1].view = Formats[fmt].view
    BY <1>1 DEF MainPair, Pair
  <1>4. InView(<<Body(ps[1].view, len)>>, 0, {}, mem, swaps, len)
    BY <1>1, <1>2, <1>3, AcceptStep DEF Top
  <1>5. /\ fields = {} /\ torn = FALSE /\ len \in Nat /\ reach \in Nat /\ reach <= len
        /\ \A k \in DOMAIN swaps : swaps[k] = 1
    BY DEF Inv, DecodedWell
  <1>6. /\ stack' = <<Body(ps[1].view, len)>> /\ pos' = 0 /\ phase' = "view"
        /\ UNCHANGED <<fmt, len, mem, swaps, fields, reach, torn>>
    BY <1>3 DEF Accept
  <1>7. PICK s : s = stack'
    OBVIOUS
  <1>8. InView(s, 0, fields, mem, swaps, len)
    BY <1>4, <1>5, <1>6, <1>7
  <1>9. DecodedWell(fmt, len, "view", s, 0, mem, swaps, fields, reach)
    BY <1>5, <1>8 DEF DecodedWell
  <1>10. DecodedWell(fmt, len, phase, stack, pos, mem, swaps, fields, reach)'
    BY <1>6, <1>7, <1>9
  <1> QED BY <1>5, <1>6, <1>10 DEF Inv


-----------------------------------------------------------------------------
(* Steps of the accessors.                                                 *)

LEMMA InTheView ==
    ASSUME Inv, fmt \in Mirrored, phase = "view"
    PROVE  /\ InView(stack, pos, fields, mem, swaps, len)
           /\ pos \in Nat /\ len \in Nat /\ pos <= len /\ reach \in Nat /\ reach <= len
           /\ torn = FALSE
           /\ \A k \in DOMAIN swaps : swaps[k] = 1
           /\ Top.base \in Nat /\ Top.lim \in Nat
           /\ ~AtEnd => Top.i <= Len(Top.prog)
           /\ AtEnd => ~(Top.i <= Len(Top.prog))
  <1>1. /\ InView(stack, pos, fields, mem, swaps, len)
        /\ len \in Nat /\ reach \in Nat /\ reach <= len /\ torn = FALSE
        /\ \A k \in DOMAIN swaps : swaps[k] = 1
    BY DEF Inv, DecodedWell
  <1>2. /\ pos \in Nat /\ pos <= len /\ List(stack) /\ Len(stack) > 0
        /\ \A d \in 1 .. Len(stack) : /\ Len(stack[d].prog) \in Nat
                                      /\ stack[d].i \in Nat /\ stack[d].base \in Nat
                                      /\ stack[d].lim \in Nat
    BY <1>1, ViewPlace
  <1>3. PICK n : n = Len(stack)
    OBVIOUS
  <1>4. n \in 1 .. n
    BY <1>2, <1>3 DEF List
  <1>5. Top = stack[n]
    BY <1>3 DEF Top, Last
  <1>6. Len(Top.prog) \in Nat /\ Top.i \in Nat /\ Top.base \in Nat /\ Top.lim \in Nat
    BY <1>2, <1>3, <1>4, <1>5
  <1> QED BY <1>1, <1>2, <1>6 DEF AtEnd

\* The accessors go on.
LEMMA ViewGoesOn ==
    ASSUME Inv, fmt \in Mirrored, phase = "view", phase' = "view",
           UNCHANGED <<fmt, len, swaps>>, torn' = FALSE, reach' \in Nat, reach' <= len,
           InView(stack', pos', fields', mem', swaps, len)
    PROVE  Inv'
  <1>1. PICK f, l, s, q, m, sw, fs, r :
           /\ f = fmt /\ l = len /\ s = stack' /\ q = pos' /\ m = mem' /\ sw = swaps
           /\ fs = fields' /\ r = reach'
    OBVIOUS
  <1>2. InView(s, q, fs, m, sw, l)
    BY <1>1
  <1>3. l \in Nat /\ q \in Nat
    BY <1>2, ViewPlace
  <1>4. r \in Nat /\ r <= l /\ \A k \in DOMAIN sw : sw[k] = 1
    BY <1>1, InTheView
  <1>5. DecodedWell(f, l, "view", s, q, m, sw, fs, r)
    BY <1>2, <1>3, <1>4 DEF DecodedWell
  <1>6. DecodedWell(fmt, len, phase, stack, pos, mem, swaps, fields, reach)'
    BY <1>1, <1>5
  <1> QED BY <1>6 DEF Inv

\* The instruction the accessors are at is one of theirs, and they can take it.
LEMMA ViewInstr ==
    ASSUME Inv, fmt \in Mirrored, phase = "view", ~AtEnd
    PROVE  LET over == Replaced(stack, Moved(Top, Top.base))
               On(s, q) == InView(s, q, fields, mem, swaps, len)
           IN  \/ /\ Arg.op = "obj"
                  /\ InView(Replaced(stack, Moved(Top, pos)), pos + Arg.n,
                            fields \cup Placed(Arg.fields, pos), mem, swaps, len)
               \/ \E v : /\ Reading(Arg.f, v, Config(stack, pos, fields), mem, swaps, len)
                         /\ \/ Arg.op = "bytes" /\ On(over, pos + v)
                            \/ /\ Arg.op = "when"
                               /\ On(IF v \in Arg.vals
                                     THEN Called(stack, Arg.body, Top.lim, "count", 0, 0)
                                     ELSE over, pos)
                            \/ /\ Arg.op = "times"
                               /\ On(IF v > 0
                                     THEN Called(stack, Arg.body, Top.lim, "count", v - 1, 0)
                                     ELSE over, pos)
                            \/ /\ Arg.op = "loop"
                               /\ On(IF v > 0
                                     THEN Called(stack, Arg.body, pos + v, Arg.exit, 0,
                                                 Arg.slack)
                                     ELSE over, pos)
               \/ Arg.op = "rest" /\ Arg.n = pos /\ On(over, len)
  <1>1. InView(stack, pos, fields, mem, swaps, len) /\ Last(stack).i <= Len(Last(stack).prog)
    BY InTheView DEF Top
  <1> QED BY <1>1, ViewGoes DEF Top, Arg

\* Accessors have none of the instructions that only codecs have, and none of those
\* that leave a part of the body out.
LEMMA ViewNever ==
    ASSUME Inv, fmt \in Mirrored, phase = "view"
    PROVE  ~(\/ Gap \/ SkipOver \/ CheckRoom \/ CheckMember \/ TakeMember \/ EnterStruct
             \/ NoStruct \/ SwapBytes \/ ShowUnits \/ Accept)
  <1>1. ~AtEnd => Arg.op \in {"obj", "bytes", "when", "times", "loop", "rest"}
    BY ViewInstr
  <1> QED BY <1>1 DEF Gap, SkipOver, CheckRoom, CheckMember, TakeMember, EnterStruct,
                      NoStruct, SwapBytes, ShowUnits, Accept, Running

\* An accessor reads the value the codec has left.
LEMMA ReadingValue ==
    ASSUME NEW f, NEW v, Reading(f, v, Config(stack, pos, fields), mem, swaps, len),
           NEW u \in ValuesOf(f)
    PROVE  u = v /\ v \in Nat
  <1> DEFINE h == Config(stack, pos, fields)
  <1>1. Here(h).base = Top.base /\ h.pos = pos
    BY DEF Here, Config, Top
  <1>2. Reading(f, v, h, mem, swaps, len)
    OBVIOUS
  <1> HIDE DEF h
  <1>3. CASE f = ToEnd
    BY <1>1, <1>2, <1>3 DEF Reading, ValuesOf
  <1>4. CASE f # ToEnd
    <2>1. /\ v \in Nat /\ f.w \in Nat \ {0} /\ f.less = 0
          /\ Key(f, Top.base, swaps) \in DOMAIN mem
          /\ mem[Key(f, Top.base, swaps)] = v
      BY <1>1, <1>2, <1>4 DEF Reading
    <2>2. f # InArea /\ f # SizeLeft
      BY <2>1 DEF InArea, SizeLeft, Member
    <2>3. u \in {w - f.less : w \in {v}}
      BY <1>4, <2>1, <2>2 DEF ValuesOf, KeyOf
    <2> QED BY <2>1, <2>3
  <1> QED BY <1>3, <1>4

LEMMA AccessorReads ==
    ASSUME NEW f, NEW v, Reading(f, v, Config(stack, pos, fields), mem, swaps, len),
           NEW e \in Nat, e <= len, Reads(f, v, e),
           reach \in Nat, reach <= len, pos \in Nat, pos <= len, len \in Nat
    PROVE  /\ \E m2 : mem' = m2 /\ Extends(m2, mem)
           /\ reach' \in Nat /\ reach' <= len
  <1> DEFINE h == Config(stack, pos, fields)
  <1>1. Here(h).base = Top.base /\ h.pos = pos
    BY DEF Here, Config, Top
  <1>2. Reading(f, v, h, mem, swaps, len)
    OBVIOUS
  <1> HIDE DEF h
  <1>3. CASE f = ToEnd
    <2>1. f.w = 0
      BY <1>3 DEF ToEnd, Member
    <2>2. mem' = mem /\ reach' = MaxOf(reach, e)
      BY <2>1 DEF Reads
    <2>3. Extends(mem, mem)
      BY DEF Extends
    <2>4. reach' \in Nat /\ reach' <= len
      BY <2>2 DEF MaxOf
    <2> QED BY <2>2, <2>3, <2>4
  <1>4. CASE f # ToEnd
    <2>1. /\ v \in Nat /\ f.w \in Nat \ {0} /\ f.less = 0 /\ f.off \in Nat
          /\ f.part # Doubled /\ Top.base \in Nat /\ Top.base + f.off + f.w <= pos
          /\ KeyOf(f) \in DOMAIN mem /\ mem[KeyOf(f)] = v
      BY <1>1, <1>2, <1>4 DEF Reading, KeyOf
    <2>2. /\ mem' = Noted(mem, KeyOf(f), v)
          /\ reach' = MaxOf(MaxOf(reach, e), At(f, Top.base) + f.w)
      BY <2>1 DEF Reads
    <2>3. Extends(Noted(mem, KeyOf(f), v), mem)
      BY <2>1 DEF Extends, Noted
    <2>4. At(f, Top.base) + f.w \in Nat /\ At(f, Top.base) + f.w <= len
      BY <2>1 DEF At
    <2>5. reach' \in Nat /\ reach' <= len
      BY <2>2, <2>4 DEF MaxOf
    <2> QED BY <2>2, <2>3, <2>5
  <1> QED BY <1>3, <1>4


LEMMA ViewStruct ==
    ASSUME Inv, fmt \in Mirrored, phase = "view", ShowStruct
    PROVE  Inv'
  <1>1. ~AtEnd /\ Arg.op = "obj"
    BY DEF ShowStruct, Running
  <1>2. PICK s, q, fs : /\ s = Replaced(stack, Moved(Top, pos)) /\ q = pos + Arg.n
                        /\ fs = fields \cup Placed(Arg.fields, pos)
    OBVIOUS
  <1>3. InView(s, q, fs, mem, swaps, len)
    BY <1>1, <1>2, ViewInstr
  <1>4. /\ stack' = s /\ pos' = q /\ fields' = fs /\ reach' = MaxOf(reach, q)
        /\ UNCHANGED <<fmt, len, phase, mem, swaps, torn>>
    BY <1>2 DEF ShowStruct, Quiet
  <1>5. q \in Nat /\ q <= len
    BY <1>3, ViewPlace
  <1>6. reach' \in Nat /\ reach' <= len /\ torn' = FALSE
    BY <1>4, <1>5, InTheView DEF MaxOf
  <1>7. InView(stack', pos', fields', mem', swaps, len)
    BY <1>3, <1>4
  <1> QED BY <1>4, <1>6, <1>7, ViewGoesOn

LEMMA ViewBytes ==
    ASSUME Inv, fmt \in Mirrored, phase = "view", ShowBytes
    PROVE  Inv'
  <1>1. ~AtEnd /\ Arg.op \in {"bytes", "data"}
    BY DEF ShowBytes, Running
  <1>2. PICK x : x = Arg
    OBVIOUS
  <1>3. PICK s : s = Replaced(stack, Moved(Top, Top.base))
    OBVIOUS
  <1>4. PICK v : /\ Reading(x.f, v, Config(stack, pos, fields), mem, swaps, len)
                 /\ x.op = "bytes" /\ InView(s, pos + v, fields, mem, swaps, len)
    BY <1>1, <1>2, <1>3, ViewInstr
  <1>5. PICK u \in ValuesOf(x.f) : Reads(x.f, u, pos + u) /\ pos' = pos + u
    BY <1>2, <1>4 DEF ShowBytes
  <1>6. u = v
    BY <1>4, ReadingValue
  <1>7. PICK q : q = pos + v
    OBVIOUS
  <1>8. q \in Nat /\ q <= len
    BY <1>4, <1>7, ViewPlace
  <1>9. pos \in Nat /\ pos <= len /\ len \in Nat /\ reach \in Nat /\ reach <= len
    BY InTheView
  <1>10. Reads(x.f, v, q)
    BY <1>5, <1>6, <1>7
  <1>11. /\ \E m2 : mem' = m2 /\ Extends(m2, mem)
         /\ reach' \in Nat /\ reach' <= len
    BY <1>4, <1>8, <1>9, <1>10, AccessorReads
  <1>12. PICK m2 : mem' = m2 /\ Extends(m2, mem)
    BY <1>11
  <1>13. InView(s, q, fields, m2, swaps, len)
    BY <1>4, <1>7, <1>12, ViewKept
  <1>14. stack' = s /\ UNCHANGED <<fmt, len, phase, swaps, fields, torn>>
    BY <1>3 DEF ShowBytes, Proceed, Quiet
  <1>15. InView(stack', pos', fields', mem', swaps, len)
    BY <1>5, <1>6, <1>7, <1>12, <1>13, <1>14
  <1>16. torn' = FALSE
    BY <1>14, InTheView
  <1> QED BY <1>11, <1>14, <1>15, <1>16, ViewGoesOn

LEMMA ViewRest ==
    ASSUME Inv, fmt \in Mirrored, phase = "view", ShowRest
    PROVE  Inv'
  <1>1. ~AtEnd /\ Arg.op = "rest"
    BY DEF ShowRest, Running
  <1>2. PICK s : s = Replaced(stack, Moved(Top, Top.base))
    OBVIOUS
  <1>3. Arg.n = pos /\ InView(s, len, fields, mem, swaps, len)
    BY <1>1, <1>2, ViewInstr
  <1>4. /\ pos \in Nat /\ len \in Nat /\ pos <= len
        /\ reach \in Nat /\ reach <= len /\ torn = FALSE
    BY InTheView
  <1>5. pos + (len - Arg.n) = len /\ ~(len < Arg.n) /\ MaxOf(pos, len) = len
    BY <1>3, <1>4 DEF MaxOf
  <1>6. torn' = FALSE
    BY <1>4, <1>5 DEF ShowRest
  <1>7. reach' = MaxOf(reach, len)
    BY <1>5 DEF ShowRest
  <1>8. reach' \in Nat /\ reach' <= len
    BY <1>4, <1>7 DEF MaxOf
  <1>9. stack' = s /\ pos' = len /\ UNCHANGED <<fmt, len, phase, mem, swaps, fields>>
    BY <1>2, <1>5 DEF ShowRest, Proceed, Quiet
  <1>10. InView(stack', pos', fields', mem', swaps, len)
    BY <1>3, <1>9
  <1> QED BY <1>6, <1>8, <1>9, <1>10, ViewGoesOn

LEMMA ViewCalls ==
    ASSUME Inv, fmt \in Mirrored, phase = "view", Choose \/ Repeat \/ EnterLoop
    PROVE  Inv'
  <1>1. ~AtEnd /\ Arg.op \in {"when", "times", "loop"}
    BY DEF Choose, Repeat, EnterLoop, Running
  <1>2. PICK x : x = Arg
    OBVIOUS
  <1>3. PICK u \in ValuesOf(x.f) :
           /\ Reads(x.f, u, 0)
           /\ \/ /\ x.op = "when"
                 /\ IF u \in x.vals THEN Call(x.body, Top.lim, "count", 0, 0) ELSE Proceed
              \/ /\ x.op = "times"
                 /\ IF u > 0 THEN Call(x.body, Top.lim, "count", u - 1, 0) ELSE Proceed
              \/ /\ x.op = "loop"
                 /\ IF u > 0 THEN Call(x.body, pos + u, x.exit, 0, x.slack) ELSE Proceed
    BY <1>2 DEF Choose, Repeat, EnterLoop, Running
  <1>4. UNCHANGED <<fmt, len, pos, swaps, fields, torn>>
    BY DEF Choose, Repeat, EnterLoop, Quiet
  <1>5. phase' = "view"
    BY <1>3 DEF Call, Proceed
  <1>6. PICK over : over = Replaced(stack, Moved(Top, Top.base))
    OBVIOUS
  <1>7. PICK v :
           /\ Reading(x.f, v, Config(stack, pos, fields), mem, swaps, len)
           /\ \/ /\ x.op = "when"
                 /\ InView(IF v \in x.vals
                           THEN Called(stack, x.body, Top.lim, "count", 0, 0)
                           ELSE over, pos, fields, mem, swaps, len)
              \/ /\ x.op = "times"
                 /\ InView(IF v > 0
                           THEN Called(stack, x.body, Top.lim, "count", v - 1, 0)
                           ELSE over, pos, fields, mem, swaps, len)
              \/ /\ x.op = "loop"
                 /\ InView(IF v > 0
                           THEN Called(stack, x.body, pos + v, x.exit, 0, x.slack)
                           ELSE over, pos, fields, mem, swaps, len)
    BY <1>1, <1>2, <1>6, ViewInstr
  <1>8. u = v
    BY <1>7, ReadingValue
  <1>9. PICK s : s = stack'
    OBVIOUS
  <1>10. InView(s, pos, fields, mem, swaps, len)
    <2>1. CASE x.op = "when"
      <3>1. s = IF v \in x.vals THEN Called(stack, x.body, Top.lim, "count", 0, 0) ELSE over
        BY <1>3, <1>6, <1>8, <1>9, <2>1 DEF Call, Proceed
      <3> QED BY <1>7, <2>1, <3>1
    <2>2. CASE x.op = "times"
      <3>1. s = IF v > 0 THEN Called(stack, x.body, Top.lim, "count", v - 1, 0) ELSE over
        BY <1>3, <1>6, <1>8, <1>9, <2>2 DEF Call, Proceed
      <3> QED BY <1>7, <2>2, <3>1
    <2>3. CASE x.op = "loop"
      <3>1. s = IF v > 0 THEN Called(stack, x.body, pos + v, x.exit, 0, x.slack) ELSE over
        BY <1>3, <1>6, <1>8, <1>9, <2>3 DEF Call, Proceed
      <3> QED BY <1>7, <2>3, <3>1
    <2> QED BY <1>3, <2>1, <2>2, <2>3
  <1>11. pos \in Nat /\ pos <= len /\ len \in Nat /\ reach \in Nat /\ reach <= len
    BY InTheView
  <1>12. 0 \in Nat /\ 0 <= len /\ Reads(x.f, v, 0)
    BY <1>3, <1>8, <1>11
  <1>13. /\ \E m2 : mem' = m2 /\ Extends(m2, mem)
         /\ reach' \in Nat /\ reach' <= len
    BY <1>7, <1>11, <1>12, AccessorReads
  <1>14. PICK m2 : mem' = m2 /\ Extends(m2, mem)
    BY <1>13
  <1>15. InView(s, pos, fields, m2, swaps, len)
    BY <1>10, <1>14, ViewKept
  <1>16. InView(stack', pos', fields', mem', swaps, len)
    BY <1>4, <1>9, <1>14, <1>15
  <1>17. torn' = FALSE
    BY <1>4, InTheView
  <1> QED BY <1>4, <1>5, <1>13, <1>16, <1>17, ViewGoesOn

\* Accessors at the end of a part or loop.
LEMMA ViewEnd ==
    ASSUME Inv, fmt \in Mirrored, phase = "view", Ended
    PROVE  \/ /\ Top.exit = "count" /\ Top.left > 0
              /\ InView(Replaced(stack, Restarted(Top, Caller.base, Top.left - 1)), pos,
                        fields, mem, swaps, len)
           \/ /\ Top.exit = "count" /\ Top.left = 0
              /\ InView(Front(stack), pos, fields, mem, swaps, len)
           \/ /\ Top.exit = "jump" /\ Top.slack = 0 /\ pos < Top.lim
              /\ InView(Replaced(stack, Restarted(Top, Caller.base, 0)), pos,
                        fields, mem, swaps, len)
           \/ /\ \/ Top.exit = "once"
                 \/ Top.exit = "jump" /\ Top.slack = 0 /\ pos = Top.lim
              /\ InView(Front(stack), Top.lim, fields, mem, swaps, len)
  <1>1. /\ InView(stack, pos, fields, mem, swaps, len) /\ Len(stack) > 1
        /\ ~(Last(stack).i <= Len(Last(stack).prog))
    BY InTheView DEF Ended, Top
  <1> QED BY <1>1, ViewEnds DEF Top, Caller

LEMMA ViewTurns ==
    ASSUME Inv, fmt \in Mirrored, phase = "view",
           OnceMore \/ ComeBack \/ GoRound \/ LeaveLoop
    PROVE  Inv'
  <1>1. Ended /\ UNCHANGED <<fmt, len, mem, swaps, fields, reach>>
    BY DEF OnceMore, ComeBack, GoRound, LeaveLoop, Quiet
  <1>2. /\ pos \in Nat /\ len \in Nat /\ reach \in Nat /\ reach <= len /\ torn = FALSE
        /\ Top.lim \in Nat
    BY InTheView
  <1>3. PICK s, q : s = stack' /\ q = pos'
    OBVIOUS
  <1>4. InView(s, q, fields, mem, swaps, len) /\ phase' = "view" /\ torn' = FALSE
    <2>1. CASE OnceMore
      <3>1. /\ Top.exit = "count" /\ Top.left > 0 /\ q = pos
            /\ s = Replaced(stack, Restarted(Top, Caller.base, Top.left - 1))
            /\ phase' = "view" /\ torn' = FALSE
        BY <1>2, <1>3, <2>1 DEF OnceMore
      <3> QED BY <1>1, <3>1, ViewEnd
    <2>2. CASE ComeBack
      <3>1. /\ Top.exit = "count" /\ Top.left = 0 /\ q = pos /\ s = Front(stack)
            /\ phase' = "view" /\ torn' = FALSE
        BY <1>2, <1>3, <2>2 DEF ComeBack
      <3> QED BY <1>1, <3>1, ViewEnd
    <2>3. CASE GoRound
      <3>1. /\ Top.exit \in {"stay", "exact", "jump"} /\ pos < Top.lim - Top.slack
            /\ s = Replaced(stack, Restarted(Top, Caller.base, 0)) /\ q = pos
            /\ phase' = "view" /\ torn' = FALSE
        BY <1>2, <1>3, <2>3 DEF GoRound
      <3>2. InView(Replaced(stack, Restarted(Top, Caller.base, 0)), pos,
                   fields, mem, swaps, len)
        BY <1>1, <1>2, <3>1, ViewEnd
      <3> QED BY <3>1, <3>2
    <2>4. CASE LeaveLoop
      <3>1. /\ Top.exit # "count"
            /\ Top.exit # "once" => pos >= Top.lim - Top.slack
        BY <2>4 DEF LeaveLoop
      <3>2. /\ \/ Top.exit = "once"
               \/ Top.exit = "jump" /\ Top.slack = 0 /\ pos = Top.lim
            /\ InView(Front(stack), Top.lim, fields, mem, swaps, len)
        BY <1>1, <1>2, <3>1, ViewEnd
      <3>3. s = Front(stack) /\ q = Top.lim /\ phase' = "view"
        BY <1>3, <2>4, <3>2 DEF LeaveLoop
      <3>4. torn' = FALSE
        BY <1>2, <2>4, <3>2 DEF LeaveLoop
      <3> QED BY <3>2, <3>3, <3>4
    <2> QED BY <2>1, <2>2, <2>3, <2>4
  <1>5. InView(stack', pos', fields', mem', swaps, len)
    BY <1>1, <1>3, <1>4
  <1>6. reach' \in Nat /\ reach' <= len
    BY <1>1, <1>2
  <1> QED BY <1>1, <1>4, <1>5, <1>6, ViewGoesOn

LEMMA ViewFinishes ==
    ASSUME Inv, fmt \in Mirrored, phase = "view", Finish
    PROVE  Inv'
  <1>1. /\ InView(stack, pos, fields, mem, swaps, len) /\ Len(stack) = 1
        /\ ~(Last(stack).i <= Len(Last(stack).prog))
        /\ pos \in Nat /\ len \in Nat /\ reach \in Nat /\ reach <= len /\ torn = FALSE
        /\ \A k \in DOMAIN swaps : swaps[k] = 1
    BY InTheView DEF Finish, Top
  <1>2. fields = DOMAIN swaps
    BY <1>1, ViewOver
  <1>3. PICK s : s = stack'
    OBVIOUS
  <1>4. DOMAIN s = {}
    BY <1>3 DEF Finish
  <1>5. DecodedWell(fmt, len, "done", s, pos, mem, swaps, fields, reach)
    BY <1>1, <1>2, <1>4 DEF DecodedWell
  <1>6. phase' = "done" /\ UNCHANGED <<fmt, len, pos, mem, swaps, fields, reach, torn>>
    BY DEF Finish
  <1>7. DecodedWell(fmt, len, phase, stack, pos, mem, swaps, fields, reach)'
    BY <1>3, <1>5, <1>6
  <1> QED BY <1>1, <1>6, <1>7 DEF Inv


-----------------------------------------------------------------------------
(* The theorems.                                                           *)

LEMMA RunGoesFrom ==
    ASSUME Run
    PROVE  phase \in {"walk", "view"}
  BY DEF Run, Accept, Finish, Gap, SkipOver, CheckRoom, CheckMember, TakeMember,
         EnterStruct, NoStruct, SwapBytes, Choose, Repeat, EnterLoop, OnceMore, ComeBack,
         GoRound, LeaveLoop, ShowStruct, ShowBytes, ShowRest, ShowUnits, Running, Ended,
         Busy

\* A step of a codec or of the accessors of a format of the class.
LEMMA RunKeeps ==
    ASSUME Inv, fmt \in Mirrored, Run
    PROVE  Inv'
  <1>1. phase \in {"walk", "view"}
    BY RunGoesFrom
  <1>2. CASE phase = "walk"
    BY <1>2, WalkNever, WalkAccepts, WalkTake, WalkRoom, WalkCheck, WalkStruct,
       WalkNoStruct, WalkSwaps, WalkCalls, WalkAgain, WalkLeaves DEF Run
  <1>3. CASE phase = "view"
    BY <1>3, ViewNever, ViewFinishes, ViewStruct, ViewBytes, ViewRest, ViewCalls, ViewTurns
       DEF Run
  <1> QED BY <1>1, <1>2, <1>3

\* Nothing but Release gives a body back.
LEMMA RunGoesOn ==
    ASSUME Run
    PROVE  phase' # "idle" /\ UNCHANGED <<fmt, len>>
  <1>1. CASE Accept \/ Finish
    BY <1>1 DEF Accept, Finish
  <1>2. CASE Gap \/ SkipOver \/ SwapBytes \/ EnterStruct
    BY <1>2 DEF Gap, SkipOver, SwapBytes, EnterStruct, Running, Busy, Proceed, Quiet
  <1>3. CASE CheckRoom \/ CheckMember \/ TakeMember \/ NoStruct
    <2>1. Busy /\ (Proceed \/ Fail) /\ Quiet
      BY <1>3 DEF CheckRoom, CheckMember, TakeMember, NoStruct, Running, Check
    <2> QED BY <2>1 DEF Busy, Proceed, Fail, Quiet
  <1>4. CASE Choose \/ Repeat \/ EnterLoop
    BY <1>4 DEF Choose, Repeat, EnterLoop, Running, Busy, Call, Proceed, Quiet
  <1>5. CASE OnceMore \/ ComeBack \/ GoRound \/ LeaveLoop
    BY <1>5 DEF OnceMore, ComeBack, GoRound, LeaveLoop, Ended, Busy, Fail, Quiet
  <1>6. CASE ShowStruct \/ ShowBytes \/ ShowRest \/ ShowUnits
    BY <1>6 DEF ShowStruct, ShowBytes, ShowRest, ShowUnits, Running, Busy, Proceed, Quiet
  <1> QED BY <1>1, <1>2, <1>3, <1>4, <1>5, <1>6 DEF Run

LEMMA BlankDecoded ==
    ASSUME Blank
    PROVE  DecodedWell(fmt, len, "idle", stack, pos, mem, swaps, fields, reach)
  <1>1. DOMAIN stack = {} /\ DOMAIN swaps = {}
    BY DEF Blank, None
  <1> QED BY <1>1 DEF Blank, DecodedWell

LEMMA BeginKeeps ==
    ASSUME Inv, NEW f \in DOMAIN Formats, NEW n \in Nat, Begin(f, n)
    PROVE  Inv'
  <1>1. Blank
    BY DEF Inv, Begin
  <1>2. n \in Nat
    OBVIOUS
  <1>3. /\ phase' = "walk" /\ fmt' = f /\ len' = n
        /\ stack' = <<Body(Formats[f].walk, n)>>
        /\ UNCHANGED <<pos, mem, swaps, fields, reach, torn>>
    BY DEF Begin
  <1>4. CASE f \in Mirrored
    <2>1. DOMAIN mem = {} /\ swaps = mem
      BY <1>1 DEF Blank, None
    <2>2. PICK s : s = <<Body(Formats[f].walk, n)>>
      OBVIOUS
    <2>3. Walks(PairsOf(f), MainPair(f), s, 0, mem, mem, n)
      BY <1>2, <1>4, <2>1, <2>2, WalkStart
    <2>4. DecodedWell(f, n, "walk", s, pos, mem, swaps, fields, reach) /\ torn = FALSE
      BY <1>1, <1>2, <2>1, <2>3 DEF DecodedWell, Blank
    <2>5. DecodedWell(fmt, len, phase, stack, pos, mem, swaps, fields, reach)'
      BY <1>3, <2>2, <2>4
    <2> QED BY <1>3, <2>4, <2>5 DEF Inv
  <1>5. CASE f \notin Mirrored
    BY <1>3, <1>5 DEF Inv
  <1> QED BY <1>4, <1>5

LEMMA ReleaseEnds ==
    ASSUME Release
    PROVE  Inv'
  <1>1. Blank' /\ phase' = "idle"
    BY DEF Release, Blank
  <1>2. DecodedWell(fmt, len, phase, stack, pos, mem, swaps, fields, reach)'
    BY <1>1 DEF Blank, DecodedWell, None
  <1> QED BY <1>1, <1>2 DEF Inv, Blank

\* A section of a format of the class that is shorter than its header and its CRC is
\* with the codec, which has not begun or has refused it.
TooShort ==
    /\ fmt \in Mirrored
    /\ Missing(fmt) # 0
    /\ len \in Int
    /\ len < 0
    /\ pos = 0
    /\ mem = None
    /\ swaps = None
    /\ fields = {}
    /\ reach = 0
    /\ torn = FALSE
    /\ \/ phase = "walk" /\ stack = <<Body(Formats[fmt].walk, len)>>
       \/ phase = "null" /\ stack = << >>

LEMMA BeginShort ==
    ASSUME Inv, NEW f \in DOMAIN Formats, NEW n \in Int, n < 0, Missing(f) # 0, Begin(f, n)
    PROVE  Inv' \/ TooShort'
  <1>1. Blank
    BY DEF Inv, Begin
  <1>2. CASE f \in Mirrored
    BY <1>1, <1>2 DEF Begin, Blank, TooShort
  <1>3. CASE f \notin Mirrored
    BY <1>3 DEF Begin, Inv
  <1> QED BY <1>2, <1>3

\* The first check of the codec refuses it.
LEMMA ShortFails ==
    ASSUME TooShort, Run
    PROVE  TooShort'
  <1>1. phase = "walk" /\ stack = <<Body(Formats[fmt].walk, len)>>
    BY RunGoesFrom DEF TooShort
  <1> DEFINE w == Formats[fmt].walk
  <1>2. Len(w) \in Nat \ {0} /\ w[1].op \in {"struct", "need"} /\ w[1].n \in Nat
    BY DEF TooShort, Mirrored, Guarded
  <1>3. Len(stack) = 1 /\ Top = Body(w, len)
    BY <1>1 DEF Top, Last
  <1>4. ~AtEnd /\ Arg = w[1] /\ ~Ended
    BY <1>2, <1>3 DEF AtEnd, Arg, Body, Frame, Ended
  <1>5. ~(pos + Arg.n <= len)
    BY <1>2, <1>4 DEF TooShort
  <1>6. CheckRoom \/ NoStruct
    BY <1>1, <1>2, <1>4, <1>5 DEF Run, Accept, Finish, Gap, SkipOver, CheckMember,
       TakeMember, EnterStruct, SwapBytes, Choose, Repeat, EnterLoop, OnceMore, ComeBack,
       GoRound, LeaveLoop, ShowStruct, ShowBytes, ShowRest, ShowUnits, Running
  <1>7. Fail /\ UNCHANGED <<fmt, len, pos, mem, swaps, fields, reach, torn>>
    BY <1>2, <1>4, <1>5, <1>6 DEF CheckRoom, NoStruct, Running, Check, Quiet
  <1> QED BY <1>7 DEF Fail, TooShort

\* Once a codec of the class is given a body, of whatever length, the cursor and what
\* was swapped are those that its accessors need; a section without room for a body is
\* refused before anything of it is touched: the invariant of decoding.
THEOREM DecodingInvariant == Spec => [](Inv \/ TooShort)
  <1>1. Init => Inv
    <2> SUFFICES ASSUME Init PROVE Inv
      OBVIOUS
    <2>1. Blank /\ phase = "idle"
      BY DEF Init, Blank
    <2> QED BY <2>1, BlankDecoded DEF Inv, Blank
  <1>2. Inv /\ [Next]_vars => Inv' \/ TooShort'
    <2> SUFFICES ASSUME Inv, [Next]_vars PROVE Inv' \/ TooShort'
      OBVIOUS
    <2>1. ASSUME NEW f \in DOMAIN Formats, NEW n \in (0 - Missing(f)) .. MaxLen(f), Begin(f, n)
          PROVE  Inv' \/ TooShort'
      <3>1. Missing(f) \in Nat
        BY DEF Missing
      <3>2. n \in Int /\ (n < 0 => Missing(f) # 0)
        BY <3>1, MaxLenAssumption
      <3>3. CASE n < 0
        BY <2>1, <3>2, <3>3, BeginShort
      <3>4. CASE n >= 0
        BY <2>1, <3>2, <3>4, BeginKeeps
      <3> QED BY <3>2, <3>3, <3>4
    <2>2. CASE Run
      <3>1. CASE fmt \in Mirrored
        BY <2>2, <3>1, RunKeeps
      <3>2. CASE fmt \notin Mirrored
        BY <2>2, <3>2, RunGoesOn DEF Inv
      <3> QED BY <3>1, <3>2
    <2>3. CASE Release
      BY <2>3, ReleaseEnds
    <2>4. CASE UNCHANGED vars
      BY <2>4 DEF vars, Inv, Blank, DecodedWell
    <2> QED BY <2>1, <2>2, <2>3, <2>4 DEF Next
  <1>3. TooShort /\ [Next]_vars => Inv' \/ TooShort'
    <2> SUFFICES ASSUME TooShort, [Next]_vars PROVE Inv' \/ TooShort'
      OBVIOUS
    <2>1. CASE \E f \in DOMAIN Formats : \E n \in (0 - Missing(f)) .. MaxLen(f) : Begin(f, n)
      BY <2>1 DEF Begin, TooShort
    <2>2. CASE Run
      BY <2>2, ShortFails
    <2>3. CASE Release
      BY <2>3, ReleaseEnds
    <2>4. CASE UNCHANGED vars
      BY <2>4 DEF vars, TooShort
    <2> QED BY <2>1, <2>2, <2>3, <2>4 DEF Next
  <1> QED BY <1>1, <1>2, <1>3, PTL DEF Spec

\* Neither the codec nor the accessors of a format of the class touch a byte behind the
\* body, whatever its length and the lengths inside it are, and nothing of a section that
\* is too short for its header and its CRC.
THEOREM MirroredStaysInside ==
    Spec => [](fmt \in Mirrored => StaysInside /\ reach <= MaxOf(0, len))
  <1>1. Inv => (fmt \in Mirrored => StaysInside /\ reach <= MaxOf(0, len))
    BY DEF Inv, DecodedWell, StaysInside, MaxOf
  <1>2. TooShort => StaysInside /\ reach <= MaxOf(0, len)
    BY DEF TooShort, StaysInside, MaxOf
  <1> QED BY <1>1, <1>2, DecodingInvariant, PTL

\* When the accessors of a format of the class are through, every integer they have
\* shown was swapped to host order exactly once, and nothing else was swapped.
THEOREM MirroredInHostOrder ==
    Spec => [](fmt \in Mirrored =>
                  /\ FieldsInHostOrder
                  /\ phase = "done" => /\ DOMAIN swaps = fields
                                       /\ \A s \in fields : swaps[s] = 1)
  <1>1. Inv => (fmt \in Mirrored =>
                  /\ FieldsInHostOrder
                  /\ phase = "done" => /\ DOMAIN swaps = fields
                                       /\ \A s \in fields : swaps[s] = 1)
    BY DEF Inv, DecodedWell, FieldsInHostOrder
  <1>2. TooShort => FieldsInHostOrder /\ ~(phase = "done")
    BY DEF TooShort, FieldsInHostOrder
  <1> QED BY <1>1, <1>2, DecodingInvariant, PTL

\* The iterators of a format of the class end where their array ends.
THEOREM MirroredTiles == Spec => [](fmt \in Mirrored => IteratorsTile /\ ~torn)
  <1>1. Inv => (fmt \in Mirrored => IteratorsTile /\ ~torn)
    BY DEF Inv, IteratorsTile
  <1>2. TooShort => IteratorsTile /\ ~torn
    BY DEF TooShort, IteratorsTile
  <1> QED BY <1>1, <1>2, DecodingInvariant, PTL

\* Decoding a format of the class keeps the types: in particular no cursor and no start
\* of a structure is negative.
THEOREM MirroredTypes == Spec => [](fmt \in Mirrored => TypeOK)
  <1>1. Inv => (fmt \in Mirrored => TypeOK)
    <2> SUFFICES ASSUME Inv, fmt \in Mirrored PROVE TypeOK
      OBVIOUS
    <2>1. /\ DecodedWell(fmt, len, phase, stack, pos, mem, swaps, fields, reach)
          /\ torn \in BOOLEAN
          /\ phase = "idle" => fmt = "none"
      BY DEF Inv, Blank
    <2>2. /\ len \in Nat /\ pos \in Nat /\ reach \in Nat
          /\ phase \in {"idle", "walk", "view", "done", "null"}
          /\ \A s \in DOMAIN swaps : swaps[s] \in Nat \ {0}
      BY <2>1 DEF DecodedWell
    <2>3. \A d \in DOMAIN stack : stack[d].i \in Nat /\ stack[d].base \in Nat /\ stack[d].lim \in Nat
      <3>1. CASE phase = "walk"
        <4>1. Walks(PairsOf(fmt), MainPair(fmt), stack, pos, mem, swaps, len)
          BY <2>1, <3>1 DEF DecodedWell
        <4>2. List(stack)
          BY <4>1, WalkPlace
        <4>3. DOMAIN stack = 1 .. Len(stack)
          BY <4>2, LenProperties DEF List
        <4> QED BY <4>1, <4>3, WalkPlace
      <3>2. CASE phase = "view"
        <4>1. InView(stack, pos, fields, mem, swaps, len)
          BY <2>1, <3>2 DEF DecodedWell
        <4>2. List(stack)
          BY <4>1, ViewPlace
        <4>3. DOMAIN stack = 1 .. Len(stack)
          BY <4>2, LenProperties DEF List
        <4> QED BY <4>1, <4>3, ViewPlace
      <3>3. CASE phase \in {"idle", "done", "null"}
        BY <2>1, <3>3 DEF DecodedWell
      <3> QED BY <2>2, <3>1, <3>2, <3>3
    <2> QED BY <2>1, <2>2, <2>3 DEF TypeOK
  <1>2. TooShort => TypeOK
    <2> SUFFICES ASSUME TooShort PROVE TypeOK
      OBVIOUS
    <2>1. \A d \in DOMAIN stack :
             stack[d].i \in Nat /\ stack[d].base \in Nat /\ stack[d].lim \in Int
      BY DEF TooShort, Body, Frame
    <2>2. DOMAIN swaps = {}
      BY DEF TooShort, None
    <2>3. /\ len \in Int /\ pos \in Nat /\ reach \in Nat /\ torn \in BOOLEAN
          /\ phase \in {"walk", "null"}
      BY DEF TooShort
    <2> QED BY <2>1, <2>2, <2>3 DEF TypeOK
  <1> QED BY <1>1, <1>2, DecodingInvariant, PTL


=============================================================================
