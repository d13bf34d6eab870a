--------------------------- MODULE AssemblyProofs ---------------------------
(***************************************************************************)
(* Proofs about Assembly, for every packet size, every number and size of  *)
(* sections and any number of faults of the channel.                       *)
(***************************************************************************)
EXTENDS Assembly, SequenceTheorems, TLAPS

-----------------------------------------------------------------------------
(* The inductive invariants.                                               *)

Byte == Int \X Int

SectionBuf == [data : Seq(Byte), len : Nat, header : BOOLEAN, wait_pdu : BOOLEAN]

\* A section_buf between two calls: it is never left complete, and it waits for a header
\* of SECTION_HDR_SIZE bytes until it has one.
Partial(s) ==
    /\ s \in SectionBuf
    /\ s.header => /\ Len(s.data) >= SECTION_HDR_SIZE
                   /\ Len(s.data) < s.len /\ s.len <= MaxSection
    /\ ~s.header => Len(s.data) < SECTION_HDR_SIZE /\ s.len = SECTION_HDR_SIZE

\* A payload whose packet announces the start of a section begins with a pointer.
Pointed(bytes, start) ==
    /\ bytes \in Seq(Byte)
    /\ start => bytes # << >> /\ bytes[1][2] \in Nat

BufInv ==
    /\ Partial(sb)
    /\ cur \in Seq(Byte)
    /\ next \in Nat \ {0}
    /\ Pointed(last.bytes, last.start)
    /\ Pointed(payload, pusi)
    /\ pusi \in BOOLEAN

-----------------------------------------------------------------------------
(* Parts of sequences.                                                     *)

LEMMA MinOfTwo ==
    ASSUME NEW a \in Int, NEW b \in Int
    PROVE  Min({a, b}) = IF a <= b THEN a ELSE b
  BY DEF Min

LEMMA TakeProperties ==
    ASSUME NEW S, NEW s \in Seq(S), NEW k \in Nat
    PROVE  /\ Take(s, k) \in Seq(S)
           /\ Len(Take(s, k)) = IF k <= Len(s) THEN k ELSE Len(s)
           /\ \A i \in 1 .. Len(Take(s, k)) : Take(s, k)[i] = s[i]
  BY MinOfTwo, SubSeqProperties DEF Take

LEMMA DropProperties ==
    ASSUME NEW S, NEW s \in Seq(S), NEW k \in Nat
    PROVE  /\ Drop(s, k) \in Seq(S)
           /\ Len(Drop(s, k)) = IF k <= Len(s) THEN Len(s) - k ELSE 0
           /\ \A i \in 1 .. Len(Drop(s, k)) : Drop(s, k)[i] = s[k + i]
  BY SubSeqProperties DEF Drop

-----------------------------------------------------------------------------
(* section_buf.c.                                                          *)

\* What a call that was given len bytes may return.
Returns(r, len) ==
    /\ r \in [sb : SectionBuf, used : 0 .. len, status : {-1, 0, 1}]
    /\ r.status = 0 => Partial(r.sb)

\* Any header announces a length of at least its own.
LEMMA AnnouncedProperties ==
    ASSUME NEW hdr
    PROVE  AnnouncedBy(hdr) \subseteq SECTION_HDR_SIZE .. MaxSection + 1
  BY AssemblyAssumption DEF AnnouncedBy, SECTION_HDR_SIZE

\* Bytes are accumulated up to the length of the section, and no more.
LEMMA AccumulateProperties ==
    ASSUME NEW s \in SectionBuf, NEW frag \in Seq(Byte), NEW u \in Nat,
           s.header, Len(s.data) >= SECTION_HDR_SIZE, Len(s.data) <= s.len,
           s.len <= MaxSection,
           NEW r, r = Accumulate(s, frag, u)
    PROVE  /\ Returns(r, u + Len(frag))
           /\ r.used >= u
           /\ frag # << >> /\ Len(s.data) < s.len => r.used > u
  <1> DEFINE p == Take(frag, section_buf_remaining(s))
             t == [s EXCEPT !.data = @ \o p]
  <1>1. /\ section_buf_remaining(s) \in Nat
        /\ section_buf_remaining(s) = s.len - Len(s.data)
    BY DEF section_buf_remaining, SectionBuf
  <1>2. /\ p \in Seq(Byte)
        /\ Len(p) = IF section_buf_remaining(s) <= Len(frag)
                    THEN section_buf_remaining(s) ELSE Len(frag)
    BY <1>1, TakeProperties
  <1>3. /\ t \in SectionBuf /\ t.header /\ t.len = s.len
        /\ Len(t.data) = Len(s.data) + Len(p)
    BY <1>2, ConcatProperties DEF SectionBuf
  <1>4. r = [sb |-> t, used |-> u + Len(t.data) - Len(s.data),
             status |-> IF Complete(t) THEN 1 ELSE 0]
    BY DEF Accumulate
  <1>5. s.len \in Nat /\ Len(s.data) \in Nat /\ Len(frag) \in Nat /\ (frag # << >> => Len(frag) > 0)
    BY EmptySeq, LenProperties DEF SectionBuf
  <1> HIDE DEF p, t
  <1>6. Len(p) \in 0 .. Len(frag)
    BY <1>1, <1>2, <1>5
  <1>7. r.used = u + Len(p)
    BY <1>3, <1>4, <1>5, <1>6
  <1>8. ~Complete(t) => Partial(t)
    BY <1>1, <1>2, <1>3, <1>5 DEF Complete, Partial, SECTION_HDR_SIZE, SectionBuf
  <1>9. frag # << >> /\ Len(s.data) < s.len => Len(p) > 0
    BY <1>1, <1>2, <1>5
  <1>10. r.used \in 0 .. u + Len(frag) /\ r.used >= u
    BY <1>5, <1>6, <1>7
  <1>11. Returns(r, u + Len(frag))
    BY <1>3, <1>4, <1>8, <1>10 DEF Returns
  <1> QED BY <1>5, <1>6, <1>7, <1>9, <1>10, <1>11

\* The header is put together from what was there and what is new; a section longer than
\* the buffer is refused.
LEMMA GrabHeaderProperties ==
    ASSUME NEW s \in SectionBuf, Partial(s), s.header = FALSE, NEW frag \in Seq(Byte),
           NEW u \in Nat, NEW r \in GrabHeader(s, frag, u)
    PROVE  /\ Returns(r, u + Len(frag))
           /\ r.used >= u
           /\ frag # << >> => r.used > u
  <1> DEFINE copy == Min({SECTION_HDR_SIZE - Len(s.data), Len(frag)})
             t == [s EXCEPT !.data = @ \o Take(frag, copy)]
  <1>1. s.data \in Seq(Byte)
    BY DEF SectionBuf
  <1>2. Len(s.data) \in Nat /\ Len(frag) \in Nat /\ (frag # << >> => Len(frag) > 0)
    BY <1>1, EmptySeq, LenProperties
  <1>3. Len(s.data) < SECTION_HDR_SIZE /\ s.len = SECTION_HDR_SIZE
    BY Zenon DEF Partial
  <1>4. Len(s.data) <= 2 /\ s.len = SECTION_HDR_SIZE
    BY <1>2, <1>3 DEF SECTION_HDR_SIZE
  <1>5. copy = IF 3 - Len(s.data) <= Len(frag) THEN 3 - Len(s.data) ELSE Len(frag)
    BY <1>2, MinOfTwo DEF SECTION_HDR_SIZE
  <1>6. copy \in 0 .. Len(frag) /\ (frag # << >> => copy > 0)
    BY <1>4, <1>2, <1>5
  <1>7. copy <= 3 - Len(s.data)
    BY <1>4, <1>2, <1>5
  <1> HIDE DEF copy
  <1>8. Take(frag, copy) \in Seq(Byte) /\ Len(Take(frag, copy)) = copy
    BY <1>2, <1>6, TakeProperties
  <1>9. /\ t \in SectionBuf /\ t.header = FALSE /\ t.len = SECTION_HDR_SIZE
        /\ Len(t.data) = Len(s.data) + copy
    <2>1. s.data \o Take(frag, copy) \in Seq(Byte)
      BY <1>1, <1>8, ConcatProperties
    <2>2. Len(s.data \o Take(frag, copy)) = Len(s.data) + Len(Take(frag, copy))
      BY <1>1, <1>8, ConcatProperties
    <2> QED BY <1>4, <1>8, <2>1, <2>2 DEF SectionBuf
  <1>10. Drop(frag, copy) \in Seq(Byte) /\ Len(Drop(frag, copy)) = Len(frag) - copy
    BY <1>2, <1>6, DropProperties
  <1> HIDE DEF t
  <1>11. CASE Len(t.data) # SECTION_HDR_SIZE
    <2>1. r = [sb |-> t, used |-> u + copy, status |-> 0]
      BY <1>11 DEF GrabHeader, t, copy
    <2>2. Len(t.data) < SECTION_HDR_SIZE
      BY <1>2, <1>6, <1>9, <1>11, <1>7 DEF SECTION_HDR_SIZE
    <2>3. Partial(t)
      BY <1>9, <2>2, Zenon DEF Partial
    <2> QED BY <1>2, <1>6, <1>9, <2>1, <2>3 DEF Returns
  <1>12. CASE Len(t.data) = SECTION_HDR_SIZE
    <2>1. PICK l \in AnnouncedBy(t.data) :
             r = IF l > MaxSection
                 THEN [sb |-> [t EXCEPT !.len = l], used |-> u + Len(frag), status |-> -1]
                 ELSE Accumulate([t EXCEPT !.len = l, !.header = TRUE],
                                 Drop(frag, copy), u + copy)
      BY <1>12 DEF GrabHeader, t, copy
    <2>2. l \in SECTION_HDR_SIZE .. MaxSection + 1 /\ l \in Nat
      BY <2>1, AnnouncedProperties, AssemblyAssumption DEF SECTION_HDR_SIZE
    <2>3. CASE l > MaxSection
      <3>1. [t EXCEPT !.len = l] \in SectionBuf
        BY <1>9, <2>2 DEF SectionBuf
      <3> QED BY <1>2, <2>1, <2>3, <3>1 DEF Returns
    <2>4. CASE ~(l > MaxSection)
      <3> DEFINE h == [t EXCEPT !.len = l, !.header = TRUE]
      <3>1. /\ h \in SectionBuf /\ h.header /\ h.len = l /\ Len(h.data) = SECTION_HDR_SIZE
        BY <1>9, <1>12, <2>2 DEF SectionBuf
      <3>2. r = Accumulate(h, Drop(frag, copy), u + copy)
        BY <2>1, <2>4
      <3> HIDE DEF h
      <3>3. u + copy \in Nat /\ l <= MaxSection
        BY <1>2, <1>6, <2>2, <2>4, AssemblyAssumption
      <3>4. /\ Len(h.data) >= SECTION_HDR_SIZE /\ Len(h.data) <= h.len
            /\ h.len <= MaxSection
        BY <2>2, <3>1, <3>3 DEF SECTION_HDR_SIZE
      <3>5. /\ Returns(r, (u + copy) + Len(Drop(frag, copy)))
            /\ r.used >= u + copy
        BY <1>10, <3>1, <3>2, <3>3, <3>4, AccumulateProperties
      <3>6. r.used \in Int
        BY <3>5 DEF Returns
      <3> QED BY <1>2, <1>6, <1>10, <3>5, <3>6
    <2> QED BY <2>3, <2>4
  <1> QED BY <1>11, <1>12

\* section_buf_add uses something of every fragment that is not empty, and never more
\* than there is; it leaves a section_buf that can go on unless it says otherwise.
LEMMA AddProperties ==
    ASSUME NEW s, Partial(s), NEW frag \in Seq(Byte), NEW r \in section_buf_add(s, frag)
    PROVE  /\ Returns(r, Len(frag))
           /\ frag # << >> => r.used > 0
  <1>1. ~Complete(s) /\ s \in SectionBuf /\ Len(s.data) \in Nat
    BY DEF Partial, Complete, SectionBuf, SECTION_HDR_SIZE
  <1>2. Len(frag) \in Nat /\ (frag # << >> => Len(frag) > 0)
    BY EmptySeq, LenProperties
  <1>3. PICK j \in (IF s.data = << >> THEN PaddingOf(frag) ELSE {0}) :
           r \in IF s.data = << >> /\ j = Len(frag)
                 THEN {[sb |-> s, used |-> j, status |-> 0]}
                 ELSE IF s.header THEN {Accumulate(s, frag, 0)}
                 ELSE GrabHeader(s, Drop(frag, j), j)
    BY <1>1 DEF section_buf_add
  <1>4. j \in 0 .. Len(frag)
    BY <1>2, <1>3 DEF PaddingOf
  <1>5. CASE s.data = << >> /\ j = Len(frag)
    BY <1>1, <1>2, <1>3, <1>5 DEF Returns
  <1>6. CASE ~(s.data = << >> /\ j = Len(frag)) /\ s.header = TRUE
    <2>1. /\ Returns(r, 0 + Len(frag))
          /\ frag # << >> => r.used > 0
      <3>1. Len(s.data) >= SECTION_HDR_SIZE /\ Len(s.data) < s.len /\ s.len <= MaxSection
        BY <1>6, Zenon DEF Partial
      <3>2. Len(s.data) <= s.len /\ s.len \in Nat
        BY <1>1, <3>1 DEF SectionBuf
      <3>3. r = Accumulate(s, frag, 0)
        BY <1>3, <1>6
      <3> QED BY <1>1, <1>6, <3>1, <3>2, <3>3, AccumulateProperties
    <2> QED BY <1>2, <2>1
  <1>7. CASE ~(s.data = << >> /\ j = Len(frag)) /\ s.header = FALSE
    <2>1. Drop(frag, j) \in Seq(Byte) /\ Len(Drop(frag, j)) = Len(frag) - j
      BY <1>2, <1>4, DropProperties
    <2>2. r \in GrabHeader(s, Drop(frag, j), j)
      BY <1>3, <1>7
    <2>3. /\ Returns(r, j + Len(Drop(frag, j)))
          /\ Drop(frag, j) # << >> => r.used > j
      <3>1. j \in Nat
        BY <1>2, <1>4
      <3> QED BY <1>1, <1>7, <2>1, <2>2, <3>1, GrabHeaderProperties
    <2>4. frag # << >> => Drop(frag, j) # << >>
      BY <1>2, <1>3, <1>4, <1>7, <2>1, EmptySeq
    <2>5. r.used \in Int
      BY <2>3 DEF Returns
    <2> QED BY <1>2, <1>4, <2>1, <2>3, <2>4, <2>5
  <1>8. s.header \in BOOLEAN
    BY <1>1 DEF SectionBuf
  <1> QED BY <1>5, <1>6, <1>7, <1>8

\* Whether a packet's data are waited for makes no difference to the rest.
LEMMA WaitPdu ==
    ASSUME NEW s \in SectionBuf, NEW b \in BOOLEAN
    PROVE  /\ [s EXCEPT !.wait_pdu = b] \in SectionBuf
           /\ Partial(s) => Partial([s EXCEPT !.wait_pdu = b])
  BY DEF Partial, SectionBuf

LEMMA AddFromProperties ==
    ASSUME NEW s, Partial(s), NEW data \in Seq(Byte), NEW u \in 0 .. Len(data),
           NEW r \in AddFrom(s, data, u)
    PROVE  /\ Returns(r, Len(data))
           /\ r.used >= u
           /\ u < Len(data) => r.used > u
  <1>1. Len(data) \in Nat
    BY LenProperties
  <1>2. /\ Drop(data, u) \in Seq(Byte) /\ Len(Drop(data, u)) = Len(data) - u
    BY <1>1, DropProperties
  <1>3. PICK a \in section_buf_add(s, Drop(data, u)) :
           r = [sb |-> IF a.status < 0 THEN [a.sb EXCEPT !.wait_pdu = TRUE] ELSE a.sb,
                used |-> u + a.used, status |-> a.status]
    BY DEF AddFrom
  <1>4. /\ Returns(a, Len(Drop(data, u)))
        /\ Drop(data, u) # << >> => a.used > 0
    BY <1>2, <1>3, AddProperties
  <1>5. u < Len(data) => Drop(data, u) # << >>
    BY <1>1, <1>2, EmptySeq
  <1>6. a.status = 0 => r.sb = a.sb
    BY <1>3
  <1>7. r.sb \in SectionBuf
    BY <1>3, <1>4, WaitPdu DEF Returns
  <1>8. a.used \in 0 .. Len(Drop(data, u)) /\ r.used = u + a.used /\ r.status = a.status
    BY <1>3, <1>4 DEF Returns
  <1>9. r.used \in 0 .. Len(data) /\ r.used >= u
    BY <1>1, <1>2, <1>8
  <1>10. Returns(r, Len(data))
    BY <1>3, <1>4, <1>6, <1>7, <1>8, <1>9 DEF Returns
  <1> QED BY <1>1, <1>2, <1>4, <1>5, <1>8, <1>9, <1>10

LEMMA FinalFragmentProperties ==
    ASSUME NEW s, Partial(s), NEW frag \in Seq(Byte), NEW r \in FinalFragment(s, frag)
    PROVE  Returns(r, 1 + Len(frag)) /\ r.used > 0
  <1>1. Len(frag) \in Nat
    BY LenProperties
  <1>2. PICK a \in section_buf_add(s, frag) :
           r = IF a.used # Len(frag) \/ section_buf_remaining(a.sb) # 0 \/ a.status # 1
               THEN [sb |-> [a.sb EXCEPT !.wait_pdu = TRUE], used |-> 1 + a.used,
                     status |-> -1]
               ELSE [a EXCEPT !.used = 1 + @]
    BY DEF FinalFragment
  <1>3. Returns(a, Len(frag))
    BY <1>2, AddProperties
  <1>4. CASE a.used # Len(frag) \/ section_buf_remaining(a.sb) # 0 \/ a.status # 1
    <2>1. r = [sb |-> [a.sb EXCEPT !.wait_pdu = TRUE], used |-> 1 + a.used, status |-> -1]
      BY <1>2, <1>4
    <2>2. [a.sb EXCEPT !.wait_pdu = TRUE] \in SectionBuf /\ a.used \in 0 .. Len(frag)
      BY <1>3, WaitPdu DEF Returns
    <2>3. 1 + a.used \in 0 .. 1 + Len(frag) /\ 1 + a.used > 0
      BY <1>1, <2>2
    <2> QED BY <2>1, <2>2, <2>3 DEF Returns
  <1>5. CASE ~(a.used # Len(frag) \/ section_buf_remaining(a.sb) # 0 \/ a.status # 1)
    <2>1. r = [a EXCEPT !.used = 1 + a.used]
      BY <1>2, <1>5
    <2>2. 1 + a.used \in 0 .. 1 + Len(frag) /\ 1 + a.used > 0
      BY <1>1, <1>3 DEF Returns
    <2> QED BY <1>3, <1>5, <2>1, <2>2 DEF Returns
  <1> QED BY <1>4, <1>5

\* section_buf_add_transport_payload uses something of every payload it is given, and
\* never more than there is.
LEMMA PayloadProperties ==
    ASSUME NEW s, Partial(s), NEW data, NEW start \in BOOLEAN, Pointed(data, start),
           data # << >>, NEW r \in section_buf_add_transport_payload(s, data, start)
    PROVE  Returns(r, Len(data)) /\ r.used > 0
  <1> DEFINE offset == data[1][2]
             t == [s EXCEPT !.wait_pdu = FALSE]
  <1>1. data \in Seq(Byte) /\ Len(data) \in Nat /\ Len(data) > 0
    BY EmptySeq, LenProperties DEF Pointed
  <1>2. s \in SectionBuf /\ Partial(t)
    BY WaitPdu DEF Partial
  <1>3. ~Complete(s)
    BY <1>2 DEF Partial, Complete, SectionBuf, SECTION_HDR_SIZE
  <1>4. CASE start = FALSE /\ s.wait_pdu = TRUE
    <2>1. r = [sb |-> s, used |-> Len(data), status |-> 0]
      BY <1>3, <1>4 DEF section_buf_add_transport_payload
    <2> QED BY <1>1, <1>2, <2>1 DEF Returns
  <1>5. CASE start = FALSE /\ s.wait_pdu = FALSE
    <2>1. r \in AddFrom(s, data, 0)
      BY <1>3, <1>5 DEF section_buf_add_transport_payload
    <2> QED BY <1>1, <2>1, AddFromProperties
  <1>6. CASE start = TRUE
    <2>1. offset \in Nat
      BY <1>6 DEF Pointed
    <2> HIDE DEF offset
    <2>2. CASE offset + 1 > Len(data)
      <3>1. r = [sb |-> [s EXCEPT !.wait_pdu = TRUE], used |-> Len(data), status |-> -1]
        BY <1>1, <1>3, <1>6, <2>1, <2>2 DEF section_buf_add_transport_payload, offset
      <3>2. [s EXCEPT !.wait_pdu = TRUE] \in SectionBuf
        BY <1>2, WaitPdu
      <3>3. \A n \in Nat : n \in 0 .. n
        OBVIOUS
      <3> QED BY <1>1, <3>1, <3>2, <3>3 DEF Returns
    <2>3. CASE offset + 1 <= Len(data) /\ s.data # << >>
      <3> DEFINE frag == SubSeq(data, 2, 1 + offset)
      <3>1. r \in FinalFragment(t, frag)
        BY <1>1, <1>3, <1>6, <2>1, <2>3 DEF section_buf_add_transport_payload, offset
      <3>2. frag \in Seq(Byte) /\ Len(frag) = offset
        <4>1. \A i \in 2 .. 1 + offset : data[i] \in Byte
          BY <1>1, <2>1, <2>3, ElementOfSeq
        <4> QED BY <2>1, <4>1, SubSeqProperties
      <3>3. Returns(r, 1 + offset) /\ r.used > 0
        BY <1>2, <3>1, <3>2, FinalFragmentProperties
      <3>4. r.used \in 0 .. Len(data)
        BY <1>1, <2>1, <2>3, <3>3 DEF Returns
      <3> QED BY <3>3, <3>4 DEF Returns
    <2>4. CASE offset + 1 <= Len(data) /\ s.data = << >>
      <3>1. r \in AddFrom(t, data, 1 + offset)
        BY <1>1, <1>3, <1>6, <2>1, <2>4 DEF section_buf_add_transport_payload, offset
      <3>2. 1 + offset \in 0 .. Len(data)
        BY <1>1, <2>1, <2>4
      <3>3. Returns(r, Len(data)) /\ r.used >= 1 + offset
        BY <1>1, <1>2, <3>1, <3>2, AddFromProperties
      <3> QED BY <1>1, <2>1, <3>3 DEF Returns
    <2> QED BY <1>1, <2>1, <2>2, <2>3, <2>4
  <1>7. s.wait_pdu \in BOOLEAN
    BY <1>2 DEF SectionBuf
  <1> QED BY <1>4, <1>5, <1>6, <1>7

\* A reset section_buf is one that has nothing yet.
LEMMA ResetProperties ==
    ASSUME NEW s \in SectionBuf
    PROVE  Partial(section_buf_reset(s)) /\ section_buf_reset(s).data = << >>
  <1> DEFINE i == section_buf_init
  <1>1. i \in SectionBuf /\ i.data = << >>
    BY EmptySeq DEF section_buf_init, SectionBuf, SECTION_HDR_SIZE
  <1>2. i.header = FALSE /\ Len(i.data) < SECTION_HDR_SIZE /\ i.len = SECTION_HDR_SIZE
    BY EmptySeq DEF section_buf_init, SECTION_HDR_SIZE
  <1>3. s.wait_pdu \in BOOLEAN
    BY DEF SectionBuf
  <1> HIDE DEF i
  <1>4. Partial(i)
    BY <1>1, <1>2, Zenon DEF Partial
  <1>5. section_buf_reset(s) = [i EXCEPT !.wait_pdu = s.wait_pdu]
    BY DEF section_buf_reset, i
  <1> QED BY <1>1, <1>3, <1>4, <1>5, WaitPdu DEF SectionBuf

-----------------------------------------------------------------------------
(* The section_buf is never overrun, and the payload is used up.           *)

\* Padding and cutting keep a sequence of bytes one.
LEMMA PaddedProperties ==
    ASSUME NEW s \in Seq(Byte), NEW k \in Nat
    PROVE  Padded(s, k) \in Seq(Byte) /\ Len(Padded(s, k)) >= Len(s)
  <1> DEFINE pad == [i \in 1 .. k - Len(s) |-> Pad]
  <1>1. Len(s) \in Nat
    BY LenProperties
  <1>2. Pad \in Byte
    BY DEF Pad, Byte
  <1>3. pad \in Seq(Byte)
    <2>1. CASE k - Len(s) \in Nat
      BY <1>2, <2>1, IsASeq
    <2>2. CASE k - Len(s) < 0
      <3>1. 1 .. k - Len(s) = 1 .. 0
        BY <1>1, <2>2
      <3> QED BY <1>2, <3>1, IsASeq
    <2> QED BY <1>1, <2>1, <2>2
  <1> HIDE DEF pad
  <1>4. Padded(s, k) = s \o pad
    BY DEF Padded, pad
  <1> QED BY <1>1, <1>3, <1>4, ConcatProperties, LenProperties

LEMMA BytesProperties ==
    ASSUME NEW n \in 1 .. Sections
    PROVE  Bytes(n) \in Seq(Byte) /\ Len(Bytes(n)) = Size(n)
  <1>1. Size(n) \in Nat
    BY AssemblyAssumption
  <1>2. \A k \in 1 .. Size(n) : <<n, k>> \in Byte
    BY <1>1, AssemblyAssumption DEF Byte
  <1>3. Bytes(n) \in Seq(Byte)
    BY <1>1, <1>2, IsASeq DEF Bytes
  <1> QED BY <1>1, <1>3, LenProperties DEF Bytes

\* What the multiplexer sends is as the receiver takes it.
LEMMA PacketsProperties ==
    ASSUME cur \in Seq(Byte), next \in Nat \ {0}, NEW p \in Packets
    PROVE  /\ Pointed(p.bytes, p.start)
           /\ p.start \in BOOLEAN
           /\ p.next \in Nat \ {0} /\ p.cur \in Seq(Byte)
           /\ p.start => Len(p.bytes) >= 1
  <1>1. Payload \in Nat /\ Payload - 1 \in Nat /\ Len(cur) \in Nat
    BY AssemblyAssumption, LenProperties
  <1>2. CASE p = [bytes |-> Padded(Take(cur, Payload), Payload), start |-> FALSE,
                  next |-> next, cur |-> Drop(cur, Payload)]
    BY <1>1, <1>2, TakeProperties, DropProperties, PaddedProperties DEF Pointed
  <1>3. ASSUME NEW k \in 1 .. 2, next + k - 1 <= Sections,
               LET all == cur \o Bytes(next) \o (IF k = 2 THEN Bytes(next + 1) ELSE << >>)
               IN  p = [bytes |-> <<<<-1, Len(cur)>>>>
                                  \o Padded(Take(all, Payload - 1), Payload - 1),
                        start |-> TRUE, next |-> next + k, cur |-> Drop(all, Payload - 1)]
        PROVE  /\ Pointed(p.bytes, p.start)
               /\ p.start \in BOOLEAN
               /\ p.next \in Nat \ {0} /\ p.cur \in Seq(Byte)
               /\ p.start => Len(p.bytes) >= 1
    <2> DEFINE second == IF k = 2 THEN Bytes(next + 1) ELSE << >>
               all == cur \o Bytes(next) \o second
               rest == Padded(Take(all, Payload - 1), Payload - 1)
               ptr == <<<<-1, Len(cur)>>>>
    <2>1. next \in 1 .. Sections /\ (k = 2 => next + 1 \in 1 .. Sections)
      BY <1>3, AssemblyAssumption
    <2>2. Bytes(next) \in Seq(Byte) /\ second \in Seq(Byte)
      BY <2>1, BytesProperties, EmptySeq
    <2> HIDE DEF second
    <2>3. all \in Seq(Byte)
      BY <2>2, ConcatProperties
    <2>4. p = [bytes |-> ptr \o rest, start |-> TRUE, next |-> next + k,
               cur |-> Drop(all, Payload - 1)]
      BY <1>3 DEF second
    <2> HIDE DEF all
    <2>5. rest \in Seq(Byte) /\ Drop(all, Payload - 1) \in Seq(Byte)
      BY <1>1, <2>3, TakeProperties, DropProperties, PaddedProperties
    <2> HIDE DEF rest
    <2>6. ptr \in Seq(Byte) /\ Len(ptr) = 1 /\ ptr[1][2] = Len(cur)
      <3>1. <<-1, Len(cur)>> \in Byte
        BY <1>1 DEF Byte
      <3> QED BY <3>1
    <2> HIDE DEF ptr
    <2>7. ptr \o rest \in Seq(Byte) /\ Len(ptr \o rest) >= 1 /\ (ptr \o rest)[1] = ptr[1]
      BY <2>5, <2>6, ConcatProperties, LenProperties
    <2>8. ptr \o rest # << >>
      BY <2>7, EmptySeq
    <2> QED BY <1>1, <2>4, <2>5, <2>6, <2>7, <2>8 DEF Pointed
  <1> QED BY <1>2, <1>3 DEF Packets

LEMMA InitBuf == Init => BufInv
  <1> SUFFICES ASSUME Init PROVE BufInv
    OBVIOUS
  <1>1. section_buf_init \in SectionBuf /\ section_buf_init.header = FALSE
    BY EmptySeq DEF section_buf_init, SectionBuf, SECTION_HDR_SIZE
  <1>2. Len(section_buf_init.data) < SECTION_HDR_SIZE /\ section_buf_init.len = SECTION_HDR_SIZE
    BY EmptySeq DEF section_buf_init, SECTION_HDR_SIZE
  <1>3. Partial(sb)
    BY <1>1, <1>2, Zenon DEF Init, Partial
  <1>4. Pointed(last.bytes, last.start) /\ Pointed(payload, pusi)
    BY EmptySeq DEF Init, NoPacket, Pointed
  <1>5. cur \in Seq(Byte) /\ next \in Nat \ {0}
    BY EmptySeq DEF Init
  <1>6. pusi \in BOOLEAN
    BY Zenon DEF Init
  <1> QED BY <1>3, <1>4, <1>5, <1>6 DEF BufInv

\* A packet that is taken replaces the payload; one that is not resets the section_buf.
LEMMA HandleKeeps ==
    ASSUME Partial(sb), NEW p, Pointed(p.bytes, p.start), Handle(p)
    PROVE  Partial(sb') /\ Pointed(payload', pusi') /\ pusi' \in BOOLEAN
  <1>1. pusi' \in BOOLEAN
    BY Zenon DEF Handle
  <1> DEFINE c == transport_packet_continuity_check(p)
  <1>2. CASE c.ok
    BY <1>1, <1>2 DEF Handle, Pointed
  <1>3. CASE ~c.ok
    <2>1. sb' = section_buf_reset(sb) /\ payload' = << >> /\ ~pusi'
      BY <1>3 DEF Handle
    <2> QED BY <1>1, <2>1, ResetProperties, EmptySeq DEF Partial, Pointed
  <1> QED BY <1>2, <1>3

LEMMA BufStep ==
    ASSUME BufInv, Next
    PROVE  BufInv'
  <1>1. CASE Receive
    <2>1. PICK p \in Packets, disc \in BOOLEAN :
             /\ next' = p.next /\ cur' = p.cur
             /\ last' = [bytes |-> p.bytes, start |-> p.start, counter |-> counter',
                         disc |-> disc]
             /\ Handle(last')
      BY <1>1 DEF Receive
    <2>2. Pointed(p.bytes, p.start) /\ p.next \in Nat \ {0} /\ p.cur \in Seq(Byte)
      BY PacketsProperties DEF BufInv
    <2>3. last'.bytes = p.bytes /\ last'.start = p.start
      BY <2>1
    <2>4. Pointed(last'.bytes, last'.start)
      BY <2>2, <2>3
    <2> QED BY <2>1, <2>2, <2>4, HandleKeeps DEF BufInv
  <1>2. CASE ReceiveEmpty
    <2>1. last'.bytes = << >> /\ last'.start = FALSE
      BY <1>2 DEF ReceiveEmpty
    <2>2. Pointed(last'.bytes, last'.start)
      BY <2>1, EmptySeq DEF Pointed
    <2> QED BY <1>2, <2>2, HandleKeeps DEF BufInv, ReceiveEmpty
  <1>3. CASE Lose
    <2>1. PICK p \in Packets : next' = p.next /\ cur' = p.cur
      BY <1>3 DEF Lose
    <2>2. p.next \in Nat \ {0} /\ p.cur \in Seq(Byte)
      BY PacketsProperties DEF BufInv
    <2> QED BY <1>3, <2>1, <2>2 DEF BufInv, Lose, receiver
  <1>4. CASE Repeat
    BY <1>4, HandleKeeps DEF BufInv, Repeat, sender
  <1>5. CASE Damage
    <2>1. PICK p \in Packets :
             /\ p.start
             /\ next' = p.next /\ cur' = p.cur
             /\ last' = [bytes |-> [p.bytes EXCEPT ![1] = <<-1, Payload>>], start |-> TRUE,
                         counter |-> counter', disc |-> FALSE]
      BY <1>5 DEF Damage
    <2>2. /\ Pointed(p.bytes, p.start) /\ p.next \in Nat \ {0} /\ p.cur \in Seq(Byte)
          /\ Len(p.bytes) >= 1
      BY <2>1, PacketsProperties DEF BufInv
    <2> DEFINE b == [p.bytes EXCEPT ![1] = <<-1, Payload>>]
    <2>3. <<-1, Payload>> \in Byte /\ p.bytes \in Seq(Byte) /\ 1 \in 1 .. Len(p.bytes)
      BY <2>2, AssemblyAssumption, LenProperties DEF Byte, Pointed
    <2>4. b \in Seq(Byte) /\ Len(b) = Len(p.bytes) /\ b[1] = <<-1, Payload>>
      BY <2>3, ExceptSeq
    <2> HIDE DEF b
    <2>5. last'.bytes = b
      BY <2>1 DEF b
    <2>6. b # << >>
      BY <2>2, <2>4, EmptySeq
    <2>7. b[1][2] \in Nat
      BY <2>4, AssemblyAssumption
    <2>8. Pointed(last'.bytes, last'.start)
      BY <2>4, <2>5, <2>6, <2>7 DEF Pointed
    <2> QED BY <1>5, <2>1, <2>2, <2>8, HandleKeeps DEF BufInv, Damage
  <1>6. CASE Process
    <2>1. PICK r \in section_buf_add_transport_payload(sb, payload, pusi) :
             /\ payload' = Drop(payload, r.used)
             /\ sb' = IF r.status = 0 THEN r.sb ELSE section_buf_reset(r.sb)
      BY <1>6 DEF Process
    <2>2. Returns(r, Len(payload))
      BY <1>6, <2>1, PayloadProperties DEF BufInv, Process, Idle
    <2>3. Partial(sb')
      BY <2>1, <2>2, ResetProperties DEF Returns
    <2>4. r.used \in Nat /\ payload \in Seq(Byte)
      BY <2>2, LenProperties DEF Returns, BufInv, Pointed
    <2>5. payload' \in Seq(Byte) /\ pusi' = FALSE
      BY <1>6, <2>1, <2>4, DropProperties DEF Process
    <2> QED BY <1>6, <2>3, <2>5 DEF BufInv, Process, sender, Pointed
  <1>7. CASE Restart
    BY <1>7 DEF BufInv, Restart, sender
  <1> QED BY <1>1, <1>2, <1>3, <1>4, <1>5, <1>6, <1>7 DEF Next

\* Between two calls a section_buf is within its bounds, whatever lengths the bytes taken
\* for a header announce and wherever the channel cut the stream.
THEOREM NeverOverrun == Spec => []BufferBounded
  <1>1. BufInv /\ UNCHANGED vars => BufInv'
    BY DEF BufInv, vars
  <1>2. BufInv => BufferBounded
    BY AssemblyAssumption, EmptySeq DEF BufInv, Partial, BufferBounded, SectionBuf,
       SECTION_HDR_SIZE
  <1> QED BY InitBuf, BufStep, <1>1, <1>2, PTL DEF Spec

\* The loop that hands a payload to section_buf_add_transport_payload always makes
\* progress, so it ends, for every payload size and every damage to the stream.
THEOREM PayloadsEnd == Spec => []PayloadUsedUp
  <1>1. BufInv /\ UNCHANGED vars => BufInv'
    BY DEF BufInv, vars
  <1>2. BufInv => PayloadUsedUp
    BY PayloadProperties DEF BufInv, PayloadUsedUp, Idle
  <1> QED BY InitBuf, BufStep, <1>1, <1>2, PTL DEF Spec

-----------------------------------------------------------------------------
(* Tables are complete.                                                    *)

\* No section has a number behind the last one it names, as EN 300 468 has it.
Numbered == \A n \in 1 .. Sections : Number(n) <= LastNumber(n)

\* The sections found useful for the version in hand are its first ones, in order.
TableInv ==
    /\ tstate \in [version : Nat, next : Nat, new : BOOLEAN, complete : BOOLEAN]
    /\ taken \in Seq(1 .. Sections)
    /\ tstate.version # NoVersion =>
          /\ taken # << >> /\ tstate.next = Len(taken)
          /\ \A i \in 1 .. Len(taken) :
                Number(taken[i]) = i - 1 /\ Version(taken[i]) = tstate.version
          /\ tstate.complete = TRUE => LastNumber(taken[Len(taken)]) = Len(taken) - 1

\* One section is taken behind those that were.
LEMMA TakenAppend ==
    ASSUME NEW s \in Seq(1 .. Sections), NEW n \in 1 .. Sections
    PROVE  /\ s \o <<n>> \in Seq(1 .. Sections) /\ s \o <<n>> # << >>
           /\ Len(s \o <<n>>) = Len(s) + 1
           /\ \A i \in 1 .. Len(s) : (s \o <<n>>)[i] = s[i]
           /\ (s \o <<n>>)[Len(s) + 1] = n
  BY AppendIsConcat, AppendProperties

\* A genuine section n is looked at by section_ext_useful.
LooksAt(n) ==
    LET u == section_ext_useful(tstate, n)
    IN  /\ tstate' = u.state
        /\ taken' = IF u.yes THEN (IF u.state.new THEN << >> ELSE taken) \o <<n>> ELSE taken

LEMMA UsefulKeeps ==
    ASSUME Numbered, TableInv, NEW n \in 1 .. Sections, LooksAt(n)
    PROVE  TableInv'
  <1>1. /\ Version(n) \in Nat /\ Number(n) \in Nat /\ LastNumber(n) \in Nat
        /\ Number(n) <= LastNumber(n)
    BY AssemblyAssumption DEF Numbered
  <1>2. tstate.next \in Nat /\ taken \in Seq(1 .. Sections) /\ Len(taken) \in Nat
    BY LenProperties DEF TableInv
  <1>3. CASE Version(n) # tstate.version /\ Number(n) = 0
    <2>1. /\ taken' = << >> \o <<n>>
          /\ tstate' = [version |-> Version(n), next |-> 1, new |-> TRUE,
                        complete |-> LastNumber(n) < 1]
      BY <1>3 DEF section_ext_useful, LooksAt
    <2>2. taken' = <<n>>
      BY <2>1
    <2>3. taken' \in Seq(1 .. Sections) /\ taken' # << >> /\ Len(taken') = 1 /\ taken'[1] = n
      BY <2>2
    <2>4. /\ tstate'.version = Version(n) /\ tstate'.next = 1
          /\ tstate'.complete = TRUE => LastNumber(n) < 1
      BY <2>1
    <2>5. tstate' \in [version : Nat, next : Nat, new : BOOLEAN, complete : BOOLEAN]
      BY <1>1, <2>1
    <2> QED BY <1>1, <1>3, <2>3, <2>4, <2>5 DEF TableInv
  <1>4. CASE Version(n) = tstate.version /\ tstate.complete = FALSE /\ Number(n) = tstate.next
    <2>1. /\ taken' = taken \o <<n>>
          /\ tstate' = [version |-> Version(n), next |-> tstate.next + 1, new |-> FALSE,
                        complete |-> LastNumber(n) < tstate.next + 1]
      BY <1>4 DEF section_ext_useful, LooksAt
    <2>2. /\ taken' \in Seq(1 .. Sections) /\ taken' # << >> /\ Len(taken') = Len(taken) + 1
          /\ \A i \in 1 .. Len(taken) : taken'[i] = taken[i]
          /\ taken'[Len(taken) + 1] = n
      BY <1>2, <2>1, TakenAppend
    <2>3. /\ tstate'.version = Version(n) /\ tstate'.next = tstate.next + 1
          /\ tstate'.complete = TRUE => LastNumber(n) < tstate.next + 1
      BY <2>1
    <2>4. tstate' \in [version : Nat, next : Nat, new : BOOLEAN, complete : BOOLEAN]
      <3>1. tstate.next + 1 \in Nat
        BY <1>2
      <3> QED BY <1>1, <2>1, <3>1
    <2>5. ASSUME tstate.version # NoVersion, NEW i \in 1 .. Len(taken')
          PROVE  Number(taken'[i]) = i - 1 /\ Version(taken'[i]) = Version(n)
      <3>1. CASE i \in 1 .. Len(taken)
        BY <1>4, <2>2, <2>5, <3>1 DEF TableInv
      <3>2. CASE i = Len(taken) + 1
        BY <1>2, <1>4, <2>2, <2>5, <3>2 DEF TableInv
      <3> QED BY <1>2, <2>2, <3>1, <3>2
    <2>6. tstate.version # NoVersion => tstate.next = Len(taken)
      BY DEF TableInv
    <2> QED BY <1>1, <1>2, <1>4, <2>2, <2>3, <2>4, <2>5, <2>6 DEF TableInv
  <1>5. CASE ~section_ext_useful(tstate, n).yes
    <2>1. tstate' = tstate /\ taken' = taken
      BY <1>5 DEF section_ext_useful, LooksAt
    <2> QED BY <2>1 DEF TableInv
  <1>6. tstate.complete \in BOOLEAN
    BY DEF TableInv
  <1> QED BY <1>3, <1>4, <1>5, <1>6 DEF section_ext_useful

LEMMA InitTable == Init => TableInv
  <1> SUFFICES ASSUME Init PROVE TableInv
    OBVIOUS
  <1>1. NoVersion \in Nat /\ << >> \in Seq(1 .. Sections)
    BY EmptySeq DEF NoVersion
  <1>2. tstate \in [version : Nat, next : Nat, new : BOOLEAN, complete : BOOLEAN]
    BY <1>1 DEF Init
  <1> QED BY <1>1, <1>2 DEF Init, TableInv

LEMMA TableStep ==
    ASSUME Numbered, TableInv, Next
    PROVE  TableInv'
  <1>1. CASE Process
    <2>1. \/ UNCHANGED <<tstate, taken>>
          \/ \E n \in 1 .. Sections : LooksAt(n)
      BY <1>1 DEF Process, LooksAt
    <2>2. CASE UNCHANGED <<tstate, taken>>
      BY <2>2 DEF TableInv
    <2> QED BY <2>1, <2>2, UsefulKeeps
  <1>2. CASE Restart
    <2>1. taken' = << >> /\ tstate' = [tstate EXCEPT !.version = NoVersion]
      BY <1>2 DEF Restart, psi_table_state_reset
    <2> QED BY <2>1, EmptySeq DEF TableInv, NoVersion
  <1>3. CASE UNCHANGED <<tstate, taken>>
    BY <1>3 DEF TableInv
  <1>4. Receive \/ ReceiveEmpty \/ Lose \/ Repeat \/ Damage => UNCHANGED <<tstate, taken>>
    BY DEF Receive, ReceiveEmpty, Lose, Repeat, Damage, Handle, receiver
  <1> QED BY <1>1, <1>2, <1>3, <1>4 DEF Next

\* section_ext_useful declares a table complete only when each of its sections was found
\* useful, once, in order and all of one version, whatever was lost, repeated or sent with
\* a new version in between, provided no section names a last number before its own.
THEOREM TablesComplete == Numbered => (Spec => []TableComplete)
  <1> SUFFICES ASSUME Numbered PROVE Spec => []TableComplete
    OBVIOUS
  <1>1. TableInv /\ UNCHANGED vars => TableInv'
    BY DEF TableInv, vars
  <1>2. TableInv => TableComplete
    <2> SUFFICES ASSUME TableInv, tstate.version # NoVersion, tstate.complete
                 PROVE  /\ \A i \in 1 .. Len(taken) : Number(taken[i]) = i - 1
                        /\ \A i \in 1 .. Len(taken) : Version(taken[i]) = tstate.version
                        /\ taken # << >> /\ Len(taken) = LastNumber(taken[Len(taken)]) + 1
      BY DEF TableComplete
    <2>1. tstate.complete = TRUE
      BY DEF TableInv
    <2>2. Len(taken) \in Nat
      BY LenProperties DEF TableInv
    <2> QED BY <2>1, <2>2 DEF TableInv
  <1> QED BY InitTable, TableStep, <1>1, <1>2, PTL DEF Spec

-----------------------------------------------------------------------------
(* Back in step.                                                           *)

\* data are the first bytes of section m; frag continues it behind the first a bytes.
Begins(data, m) == \A i \in 1 .. Len(data) : data[i] = <<m, i>>

Continues(frag, m, a) ==
    \A i \in 1 .. Len(frag) : i <= Size(m) - a => frag[i] = <<m, a + i>>

\* The section_buf s has the first bytes of section m and takes what comes next for the
\* rest of it; it may have none of them yet.
Holds(s, m) ==
    /\ s.wait_pdu = FALSE
    /\ Begins(s.data, m)
    /\ s.data # << >> => m \in 1 .. Sections /\ Len(s.data) < Size(m)
    /\ s.header = TRUE => s.len = Size(m)

\* The packet in hand has sections m up to next - 1, the last of them up to cur, and
\* padding behind them; section n begins behind place st[n] of what is left of it.
Carries(m, st) ==
    /\ \A n \in m .. next - 1 : st[n + 1] = st[n] + Size(n)
    /\ \A a, b \in m .. next : a <= b => st[a] <= st[b]
    /\ \A n \in m .. next - 1 : \A i \in 1 .. Len(payload) :
          st[n] < i /\ i <= st[n + 1] => payload[i] = <<n, i - st[n]>>
    /\ \A i \in 1 .. Len(payload) : i > st[next] => payload[i] = Pad
    /\ Len(cur) = IF st[next] > Len(payload) THEN st[next] - Len(payload) ELSE 0

\* The receiver is at section m of the packet in hand, and has handed on those before it.
InRun(m, st) ==
    /\ pusi = FALSE
    /\ Holds(sb, m)
    /\ Carries(m, st) /\ st[m] = 0 - Len(sb.data)
    /\ m = next => sb.data = << >>
    /\ clean = 2 => \A n \in from .. m - 1 : n \in got

\* The receiver has a packet in hand whose pointer shows where section q begins.  It has
\* nothing of the section before, or the part of it before this packet; after the first
\* start indicator since a fault it may have anything.
AtStart(q, st) ==
    /\ pusi = TRUE
    /\ q < next
    /\ Carries(q, st) /\ st[q] = 1 + payload[1][2] /\ st[q] < Len(payload)
    /\ \/ sb.data = << >>
       \/ clean = 1
       \/ /\ sb.data # << >> /\ Holds(sb, q - 1)
          /\ payload[1][2] = Size(q - 1) - Len(sb.data)
          /\ \A i \in 2 .. 1 + payload[1][2] : payload[i] = <<q - 1, Len(sb.data) + i - 1>>
    /\ clean = 2 => \A n \in from .. q - 1 : n \in got \/ (n = q - 1 /\ sb.data # << >>)

\* The receiver skips all packets up to the next start indicator.
Waiting == pusi = FALSE /\ sb.data = << >> /\ sb.wait_pdu = TRUE /\ clean = 1

\* cur is the end of the last section that was started.
CurInv ==
    /\ next \in 1 .. Sections + 1
    /\ cur # << >> => next > 1 /\ Len(cur) < Size(next - 1)
    /\ \A i \in 1 .. Len(cur) : cur[i] = <<next - 1, Size(next - 1) - Len(cur) + i>>

StepInv ==
    /\ clean \in {0, 1, 2}
    /\ from \in Nat
    /\ clean # 0 =>
         \/ Waiting
         \/ \E m \in 1 .. next : \E st \in [m .. next -> Int] : InRun(m, st)
         \/ \E q \in 1 .. next : \E st \in [q .. next -> Int] : AtStart(q, st)

\* What a call returns that was given len bytes, the first of them those of section m that
\* follow what s has, when u bytes were used before.
Reads(r, s, m, u, len) ==
    LET left == Size(m) - Len(s.data)
        k == IF left <= len THEN left ELSE len
    IN  /\ r.used = u + k
        /\ Len(r.sb.data) = Len(s.data) + k
        /\ Begins(r.sb.data, m)
        /\ r.sb.wait_pdu = s.wait_pdu
        /\ r.sb.header = TRUE => r.sb.len = Size(m)
        /\ left <= len => r.status = 1 /\ r.sb.header = TRUE
        /\ left > len => r.status = 0

\* The first bytes of frag are put behind the data of s.
LEMMA AppendRun ==
    ASSUME NEW data \in Seq(Byte), NEW frag \in Seq(Byte), NEW m \in 1 .. Sections,
           Begins(data, m), Continues(frag, m, Len(data)),
           NEW k \in Nat, k <= Len(frag), k <= Size(m) - Len(data)
    PROVE  /\ data \o Take(frag, k) \in Seq(Byte)
           /\ Len(data \o Take(frag, k)) = Len(data) + k
           /\ Begins(data \o Take(frag, k), m)
  <1>1. Len(data) \in Nat /\ Len(frag) \in Nat /\ Size(m) \in Nat
    BY AssemblyAssumption, LenProperties
  <1> DEFINE v == Take(frag, k)
  <1>2. v \in Seq(Byte) /\ Len(v) = k /\ \A i \in 1 .. k : v[i] = frag[i]
    BY <1>1, TakeProperties
  <1> HIDE DEF v
  <1>3. /\ data \o v \in Seq(Byte)
        /\ Len(data \o v) = Len(data) + Len(v)
        /\ \A i \in 1 .. Len(data) + Len(v) :
              (data \o v)[i] = IF i <= Len(data) THEN data[i] ELSE v[i - Len(data)]
    BY <1>2, ConcatProperties
  <1>4. /\ data \o v \in Seq(Byte)
        /\ Len(data \o v) = Len(data) + k
        /\ \A i \in 1 .. Len(data) + k :
              (data \o v)[i] = IF i <= Len(data) THEN data[i] ELSE v[i - Len(data)]
    BY <1>2, <1>3
  <1>5. ASSUME NEW i \in 1 .. Len(data) + k
        PROVE  (data \o v)[i] = <<m, i>>
    <2>1. CASE i <= Len(data)
      BY <1>1, <1>4, <2>1 DEF Begins
    <2>2. CASE ~(i <= Len(data))
      <3>1. /\ i - Len(data) \in 1 .. k /\ i - Len(data) \in 1 .. Len(frag)
            /\ i - Len(data) <= Size(m) - Len(data)
            /\ Len(data) + (i - Len(data)) = i
        BY <1>1, <2>2
      <3>2. frag[i - Len(data)] = <<m, i>>
        BY <3>1 DEF Continues
      <3> QED BY <1>2, <1>4, <2>2, <3>1, <3>2
    <2> QED BY <2>1, <2>2
  <1> QED BY <1>4, <1>5 DEF v, Begins

LEMMA AccumulateRun ==
    ASSUME NEW s \in SectionBuf, NEW frag \in Seq(Byte), NEW u \in Nat,
           NEW m \in 1 .. Sections, s.header = TRUE, s.len = Size(m),
           Len(s.data) <= Size(m), Begins(s.data, m),
           Continues(frag, m, Len(s.data)),
           NEW r, r = Accumulate(s, frag, u)
    PROVE  Reads(r, s, m, u, Len(frag))
  <1> DEFINE left == Size(m) - Len(s.data)
             k == IF left <= Len(frag) THEN left ELSE Len(frag)
             d == s.data \o Take(frag, k)
             t == [s EXCEPT !.data = d]
  <1>1. s.data \in Seq(Byte) /\ Len(s.data) \in Nat /\ Len(frag) \in Nat /\ Size(m) \in Nat
    BY AssemblyAssumption, LenProperties DEF SectionBuf
  <1>2. section_buf_remaining(s) = left /\ left \in Nat /\ k \in Nat /\ k <= left /\ k <= Len(frag)
    BY <1>1 DEF section_buf_remaining
  <1>3. Take(frag, section_buf_remaining(s)) = Take(frag, k)
    <2> HIDE DEF left
    <2>1. Min({left, Len(frag)}) = k
      BY <1>1, <1>2, MinOfTwo
    <2> HIDE DEF k
    <2>2. Min({k, Len(frag)}) = k
      BY <1>1, <1>2, MinOfTwo
    <2> QED BY <1>2, <2>1, <2>2 DEF Take
  <1>4. k <= Size(m) - Len(s.data)
    BY <1>2
  <1> HIDE DEF left, k
  <1>5. d \in Seq(Byte) /\ Len(d) = Len(s.data) + k /\ Begins(d, m)
    BY <1>1, <1>2, <1>4, AppendRun
  <1>6. r = [sb |-> t, used |-> u + Len(t.data) - Len(s.data),
             status |-> IF Complete(t) THEN 1 ELSE 0]
    BY <1>3 DEF Accumulate
  <1>7. /\ t.data = d /\ t.header = TRUE /\ t.len = Size(m) /\ t.wait_pdu = s.wait_pdu
    BY DEF SectionBuf
  <1> HIDE DEF t, d
  <1>8. Complete(t) <=> left <= Len(frag)
    <2>1. Complete(t) <=> Size(m) = Len(s.data) + k
      BY <1>5, <1>7 DEF Complete
    <2>2. Size(m) = Len(s.data) + k <=> left <= Len(frag)
      BY <1>1, <1>2 DEF left, k
    <2> QED BY <2>1, <2>2
  <1>9. r.sb = t /\ r.used = u + k /\ r.status = IF left <= Len(frag) THEN 1 ELSE 0
    <2>1. u + Len(t.data) - Len(s.data) = u + k
      BY <1>1, <1>2, <1>5, <1>7
    <2>2. r = [sb |-> t, used |-> u + k, status |-> IF Complete(t) THEN 1 ELSE 0]
      BY <1>6, <2>1
    <2> QED BY <1>8, <2>2
  <1>10. left > Len(frag) <=> ~(left <= Len(frag))
    BY <1>1, <1>2
  <1> QED BY <1>1, <1>5, <1>7, <1>9, <1>10 DEF Reads, left, k

\* A genuine header announces the size of its section.
LEMMA GenuineHeader ==
    ASSUME NEW m \in 1 .. Sections, NEW hdr \in Seq(Byte), Len(hdr) = SECTION_HDR_SIZE,
           Begins(hdr, m)
    PROVE  AnnouncedBy(hdr) = {Size(m)}
  <1>1. Size(m) \in Nat /\ Size(m) >= 3
    BY AssemblyAssumption
  <1>2. Bytes(m) \in Seq(Byte) /\ Len(Bytes(m)) = Size(m) /\ \A i \in 1 .. 3 : Bytes(m)[i] = <<m, i>>
    BY <1>1, BytesProperties DEF Bytes
  <1> DEFINE v == Take(Bytes(m), SECTION_HDR_SIZE)
  <1>3. v \in Seq(Byte) /\ Len(v) = 3 /\ \A i \in 1 .. 3 : v[i] = Bytes(m)[i]
    BY <1>1, <1>2, TakeProperties DEF SECTION_HDR_SIZE
  <1> HIDE DEF v
  <1>4. \A i \in 1 .. 3 : hdr[i] = <<m, i>>
    BY DEF Begins, SECTION_HDR_SIZE
  <1>5. hdr = v
    <2>1. Len(hdr) = Len(v) /\ \A i \in 1 .. Len(hdr) : hdr[i] = v[i]
      BY <1>2, <1>3, <1>4 DEF SECTION_HDR_SIZE
    <2> QED BY <1>3, <2>1, SeqEqual
  <1>6. hdr[1][1] = m
    BY <1>4
  <1> QED BY <1>5, <1>6 DEF AnnouncedBy, v

LEMMA GrabHeaderRun ==
    ASSUME NEW s \in SectionBuf, Partial(s), s.header = FALSE, NEW frag \in Seq(Byte),
           NEW u \in Nat, NEW m \in 1 .. Sections, Begins(s.data, m),
           Continues(frag, m, Len(s.data)), NEW r \in GrabHeader(s, frag, u)
    PROVE  Reads(r, s, m, u, Len(frag))
  <1> DEFINE a == Len(s.data)
             b == Len(frag)
             z == Size(m)
             copy == Min({SECTION_HDR_SIZE - Len(s.data), Len(frag)})
             d == s.data \o Take(frag, copy)
             t == [s EXCEPT !.data = d]
  <1>1. s.data \in Seq(Byte)
    BY DEF SectionBuf
  <1>2. a \in Nat /\ b \in Nat /\ z \in Nat /\ z >= 3
    BY <1>1, AssemblyAssumption, LenProperties
  <1>3. a < SECTION_HDR_SIZE
    BY Zenon DEF Partial
  <1>4. copy = Min({3 - a, b}) /\ a < 3
    BY <1>3 DEF SECTION_HDR_SIZE
  <1> HIDE DEF a, b, z, copy
  <1>5. copy = IF 3 - a <= b THEN 3 - a ELSE b
    BY <1>2, <1>4, MinOfTwo
  <1>6. copy \in Nat /\ copy <= b /\ copy <= 3 - a /\ copy <= z - a
    BY <1>2, <1>4, <1>5
  <1>7. d \in Seq(Byte) /\ Len(d) = a + copy /\ Begins(d, m)
    BY <1>1, <1>6, AppendRun DEF a, b, z
  <1> HIDE DEF d
  <1>8. /\ t \in SectionBuf /\ t.data = d /\ t.header = FALSE /\ t.len = s.len
        /\ t.wait_pdu = s.wait_pdu
    BY <1>7 DEF SectionBuf
  <1> HIDE DEF t
  <1>9. CASE Len(d) # SECTION_HDR_SIZE
    <2>1. r = [sb |-> t, used |-> u + copy, status |-> 0]
      BY <1>8, <1>9 DEF GrabHeader, t, d, copy
    <2>2. a + copy # 3
      BY <1>7, <1>9 DEF SECTION_HDR_SIZE
    <2>3. copy = b /\ z - a > b /\ ~(z - a <= b)
      BY <1>2, <1>4, <1>5, <2>2
    <2> QED BY <1>7, <1>8, <2>1, <2>3 DEF Reads, a, b, z
  <1>10. CASE Len(d) = SECTION_HDR_SIZE
    <2>1. AnnouncedBy(t.data) = {Size(m)}
      BY <1>7, <1>8, <1>10, GenuineHeader
    <2>2. PICK l \in AnnouncedBy(t.data) :
             r = IF l > MaxSection
                 THEN [sb |-> [t EXCEPT !.len = l], used |-> u + Len(frag), status |-> -1]
                 ELSE Accumulate([t EXCEPT !.len = l, !.header = TRUE],
                                 Drop(frag, copy), u + copy)
      BY <1>8, <1>10 DEF GrabHeader, t, d, copy
    <2> DEFINE h == [t EXCEPT !.len = Size(m), !.header = TRUE]
               f == Drop(frag, copy)
               c == Len(f)
    <2>3. l = Size(m) /\ ~(l > MaxSection)
      BY <2>1, <2>2, AssemblyAssumption
    <2>4. r = Accumulate(h, f, u + copy)
      BY <2>2, <2>3
    <2>5. /\ h \in SectionBuf /\ h.data = d /\ h.header = TRUE /\ h.len = Size(m)
          /\ h.wait_pdu = s.wait_pdu
      BY <1>2, <1>8 DEF SectionBuf, z
    <2>6. /\ f \in Seq(Byte) /\ c = b - copy
          /\ \A i \in 1 .. c : f[i] = frag[copy + i]
      BY <1>2, <1>6, DropProperties DEF b
    <2>7. a + copy = 3 /\ Len(h.data) = 3
      BY <1>7, <1>10, <2>5 DEF SECTION_HDR_SIZE
    <2> HIDE DEF h, f, c
    <2>8. Continues(f, m, Len(h.data))
      <3>1. SUFFICES ASSUME NEW i \in 1 .. c, i <= z - 3
                     PROVE  f[i] = <<m, 3 + i>>
        BY <2>7 DEF Continues, c, z
      <3>2. copy + i \in 1 .. b /\ copy + i <= z - a /\ a + (copy + i) = 3 + i
        BY <1>2, <1>6, <2>6, <2>7, <3>1
      <3>3. frag[copy + i] = <<m, a + (copy + i)>>
        BY <3>2 DEF Continues, a, b, z
      <3> QED BY <2>6, <3>2, <3>3
    <2>9. Len(h.data) <= Size(m) /\ Begins(h.data, m) /\ u + copy \in Nat
      BY <1>2, <1>6, <1>7, <2>5, <2>7 DEF z
    <2>10. Reads(r, h, m, u + copy, c)
      BY <2>4, <2>5, <2>6, <2>8, <2>9, AccumulateRun DEF c
    <2>11. /\ z - 3 <= c <=> z - a <= b
           /\ z - 3 > c <=> z - a > b
           /\ (u + copy) + (z - 3) = u + (z - a)
           /\ (u + copy) + c = u + b
           /\ 3 + (z - 3) = a + (z - a)
           /\ 3 + c = a + b
      BY <1>2, <1>6, <2>6, <2>7
    <2> QED BY <2>5, <2>7, <2>10, <2>11 DEF Reads, a, b, z
  <1> QED BY <1>9, <1>10

\* section_buf_add goes on with section m.
LEMMA AddRun ==
    ASSUME NEW s, Partial(s), NEW m \in 1 .. Sections, Begins(s.data, m),
           s.header = TRUE => s.len = Size(m), Len(s.data) < Size(m),
           NEW frag \in Seq(Byte), frag # << >>,
           Continues(frag, m, Len(s.data)), NEW r \in section_buf_add(s, frag)
    PROVE  Reads(r, s, m, 0, Len(frag))
  <1>1. ~Complete(s) /\ s \in SectionBuf /\ Len(s.data) \in Nat
    BY DEF Partial, Complete, SectionBuf, SECTION_HDR_SIZE
  <1>2. Len(frag) \in Nat /\ Len(frag) > 0 /\ Size(m) \in Nat
    BY AssemblyAssumption, EmptySeq, LenProperties
  <1>3. s.data = << >> => frag[1] = <<m, 1>>
    <2>1. SUFFICES ASSUME s.data = << >> PROVE frag[1] = <<m, 1>>
      OBVIOUS
    <2>2. Len(s.data) = 0
      BY <2>1, EmptySeq
    <2>3. 1 \in 1 .. Len(frag) /\ 1 <= Size(m) - Len(s.data) /\ Len(s.data) + 1 = 1
      BY <1>2, <2>2
    <2> QED BY <2>3 DEF Continues
  <1>4. s.data = << >> => PaddingOf(frag) \subseteq {0}
    <2>1. SUFFICES ASSUME s.data = << >>, NEW j \in PaddingOf(frag), j # 0 PROVE FALSE
      OBVIOUS
    <2>2. 1 \in 1 .. j
      BY <1>2, <2>1 DEF PaddingOf
    <2>3. frag[1] = Pad \/ frag[1][2] # 1
      BY <2>2 DEF PaddingOf
    <2>4. <<m, 1>> # Pad /\ <<m, 1>>[2] = 1
      BY DEF Pad
    <2> QED BY <1>3, <2>1, <2>3, <2>4
  <1>5. PICK j \in (IF s.data = << >> THEN PaddingOf(frag) ELSE {0}) :
           r \in IF s.data = << >> /\ j = Len(frag)
                 THEN {[sb |-> s, used |-> j, status |-> 0]}
                 ELSE IF s.header THEN {Accumulate(s, frag, 0)}
                 ELSE GrabHeader(s, Drop(frag, j), j)
    BY <1>1 DEF section_buf_add
  <1>6. j = 0 /\ j # Len(frag)
    BY <1>2, <1>4, <1>5
  <1>7. CASE s.header = TRUE
    <2>1. r = Accumulate(s, frag, 0)
      BY <1>5, <1>6, <1>7
    <2>2. Len(s.data) <= Size(m) /\ s.len = Size(m)
      BY <1>1, <1>2, <1>7
    <2> QED BY <1>1, <1>7, <2>1, <2>2, AccumulateRun
  <1>8. CASE s.header = FALSE
    <2>1. r \in GrabHeader(s, Drop(frag, 0), 0)
      BY <1>5, <1>6, <1>8
    <2>2. Drop(frag, 0) = frag
      BY SubSeqFull DEF Drop
    <2> QED BY <1>1, <1>8, <2>1, <2>2, GrabHeaderRun
  <1>9. s.header \in BOOLEAN
    BY <1>1 DEF SectionBuf
  <1> QED BY <1>7, <1>8, <1>9

\* Padding is skipped by a section_buf that has nothing.
LEMMA AddPadding ==
    ASSUME NEW s, Partial(s), s.data = << >>, NEW frag \in Seq(Byte), frag # << >>,
           \A i \in 1 .. Len(frag) : frag[i] = Pad, NEW r \in section_buf_add(s, frag)
    PROVE  r = [sb |-> s, used |-> Len(frag), status |-> 0]
  <1>1. ~Complete(s)
    BY DEF Partial, Complete, SectionBuf, SECTION_HDR_SIZE
  <1>2. Len(frag) \in Nat
    BY LenProperties
  <1>3. \A j \in PaddingOf(frag) : j = Len(frag)
    BY <1>2 DEF PaddingOf
  <1> QED BY <1>1, <1>3 DEF section_buf_add

\* section_buf_add leaves wait_pdu alone.
LEMMA AddKeepsWait ==
    ASSUME NEW s, Partial(s), NEW frag \in Seq(Byte), NEW r \in section_buf_add(s, frag)
    PROVE  r.sb.wait_pdu = s.wait_pdu
  <1>1. s \in SectionBuf /\ s.header \in BOOLEAN
    BY DEF Partial, SectionBuf
  <1>2. ASSUME NEW t \in SectionBuf, NEW f, NEW u
        PROVE  Accumulate(t, f, u).sb.wait_pdu = t.wait_pdu
    BY DEF Accumulate, SectionBuf
  <1>3. ASSUME NEW f \in Seq(Byte), NEW u, NEW g \in GrabHeader(s, f, u), s.header = FALSE
        PROVE  g.sb.wait_pdu = s.wait_pdu
    <2> DEFINE copy == Min({SECTION_HDR_SIZE - Len(s.data), Len(f)})
               t == [s EXCEPT !.data = @ \o Take(f, copy)]
    <2>1. t.wait_pdu = s.wait_pdu /\ DOMAIN t = DOMAIN s
      BY <1>1 DEF SectionBuf
    <2>2. t \in SectionBuf
      <3>1. Len(s.data) < SECTION_HDR_SIZE /\ s.data \in Seq(Byte)
        BY <1>1, <1>3, Zenon DEF Partial, SectionBuf
      <3>2. Len(s.data) \in Nat /\ Len(f) \in Nat
        BY <3>1, LenProperties
      <3>3. copy \in Nat
        <4> DEFINE a == Len(s.data)
                   b == Len(f)
        <4>1. a \in Nat /\ b \in Nat /\ a < 3 /\ copy = Min({3 - a, b})
          BY <3>1, <3>2 DEF SECTION_HDR_SIZE
        <4> HIDE DEF a, b, copy
        <4>2. copy = IF 3 - a <= b THEN 3 - a ELSE b
          BY <4>1, MinOfTwo
        <4> QED BY <4>1, <4>2
      <3> HIDE DEF copy
      <3>4. Take(f, copy) \in Seq(Byte)
        BY <3>3, TakeProperties
      <3>5. s.data \o Take(f, copy) \in Seq(Byte)
        BY <3>1, <3>4, ConcatProperties
      <3> QED BY <1>1, <3>5 DEF SectionBuf
    <2> HIDE DEF t
    <2>3. CASE Len(t.data) # SECTION_HDR_SIZE
      <3>1. g = [sb |-> t, used |-> u + copy, status |-> 0]
        BY <1>3, <2>3 DEF GrabHeader, t, copy
      <3> QED BY <2>1, <3>1
    <2>4. CASE Len(t.data) = SECTION_HDR_SIZE
      <3>1. PICK l \in AnnouncedBy(t.data) :
               g = IF l > MaxSection
                   THEN [sb |-> [t EXCEPT !.len = l], used |-> u + Len(f), status |-> -1]
                   ELSE Accumulate([t EXCEPT !.len = l, !.header = TRUE],
                                   Drop(f, copy), u + copy)
        BY <1>3, <2>4 DEF GrabHeader, t, copy
      <3>2. l \in Nat
        BY <3>1, AnnouncedProperties, AssemblyAssumption DEF SECTION_HDR_SIZE
      <3> DEFINE h == [t EXCEPT !.len = l, !.header = TRUE]
      <3>3. /\ h \in SectionBuf /\ h.wait_pdu = t.wait_pdu
            /\ [t EXCEPT !.len = l].wait_pdu = t.wait_pdu
        BY <2>2, <3>2 DEF SectionBuf
      <3> HIDE DEF h
      <3>4. CASE l > MaxSection
        BY <2>1, <3>1, <3>3, <3>4
      <3>5. CASE ~(l > MaxSection)
        <4>1. g = Accumulate(h, Drop(f, copy), u + copy)
          BY <3>1, <3>5 DEF h
        <4> QED BY <1>2, <2>1, <3>3, <4>1
      <3> QED BY <3>4, <3>5
    <2> QED BY <2>3, <2>4
  <1>4. ~Complete(s)
    BY DEF Partial, Complete, SectionBuf, SECTION_HDR_SIZE
  <1>5. PICK j \in (IF s.data = << >> THEN PaddingOf(frag) ELSE {0}) :
           r \in IF s.data = << >> /\ j = Len(frag)
                 THEN {[sb |-> s, used |-> j, status |-> 0]}
                 ELSE IF s.header THEN {Accumulate(s, frag, 0)}
                 ELSE GrabHeader(s, Drop(frag, j), j)
    BY <1>4 DEF section_buf_add
  <1>6. j \in Nat /\ Drop(frag, j) \in Seq(Byte)
    <2>1. j \in Nat
      BY <1>5, LenProperties DEF PaddingOf
    <2> QED BY <2>1, DropProperties
  <1>7. CASE s.data = << >> /\ j = Len(frag)
    BY <1>5, <1>7
  <1>8. CASE ~(s.data = << >> /\ j = Len(frag)) /\ s.header = TRUE
    <2>1. r = Accumulate(s, frag, 0)
      BY <1>5, <1>8
    <2> QED BY <1>1, <1>2, <2>1
  <1>9. CASE ~(s.data = << >> /\ j = Len(frag)) /\ s.header = FALSE
    <2>1. r \in GrabHeader(s, Drop(frag, j), j)
      BY <1>5, <1>9
    <2> QED BY <1>3, <1>6, <1>9, <2>1
  <1> QED BY <1>1, <1>7, <1>8, <1>9

\* The places of section l and those behind it, once k bytes are used.
Shifted(su, st, l, k) == su = [n \in l .. next |-> st[n] - k]

\* The first k bytes of the payload are used: the rest still has the later sections.
LEMMA CarriesOn ==
    ASSUME payload \in Seq(Byte), NEW k \in Nat, k <= Len(payload),
           payload' = Drop(payload, k), UNCHANGED <<next, cur>>, next \in 1 .. Sections + 1,
           NEW m \in 1 .. next, NEW l \in m .. next, NEW st \in [m .. next -> Int],
           Carries(m, st), NEW su, Shifted(su, st, l, k)
    PROVE  su \in [l .. next' -> Int] /\ Carries(l, su)'
  <1> DEFINE c == Len(payload)
             d == Len(payload')
  <1>1. /\ c \in Nat /\ d = c - k
        /\ \A i \in 1 .. d : payload'[i] = payload[k + i]
    BY LenProperties, DropProperties
  <1> HIDE DEF c, d
  <1>2. /\ \A n \in l .. next : su[n] = st[n] - k /\ st[n] \in Int /\ n \in m .. next
        /\ su \in [l .. next -> Int]
    BY DEF Shifted
  <1>3. \A n \in l .. next - 1 : /\ n \in l .. next /\ n + 1 \in l .. next
                                 /\ n \in m .. next - 1
    OBVIOUS
  <1>4. \A n \in l .. next - 1 : su[n + 1] = su[n] + Size(n)
    <2> TAKE n \in l .. next - 1
    <2>1. st[n + 1] = st[n] + Size(n)
      BY <1>3 DEF Carries
    <2>2. Size(n) \in Int
      BY <1>3, AssemblyAssumption
    <2> QED BY <1>2, <1>3, <2>1, <2>2
  <1>5. \A a, b \in l .. next : a <= b => su[a] <= su[b]
    BY <1>2 DEF Carries
  <1>6. ASSUME NEW n \in l .. next - 1, NEW i \in 1 .. d, su[n] < i, i <= su[n + 1]
        PROVE  payload'[i] = <<n, i - su[n]>>
    <2>1. /\ su[n] = st[n] - k /\ su[n + 1] = st[n + 1] - k
          /\ st[n] \in Int /\ st[n + 1] \in Int
      BY <1>2, <1>3
    <2>2. k + i \in 1 .. c /\ st[n] < k + i /\ k + i <= st[n + 1]
      BY <1>1, <1>6, <2>1
    <2>3. payload[k + i] = <<n, (k + i) - st[n]>>
      BY <1>3, <2>2 DEF Carries, c
    <2>4. (k + i) - st[n] = i - su[n]
      BY <1>2, <1>3
    <2> QED BY <1>1, <2>3, <2>4
  <1>7. ASSUME NEW i \in 1 .. d, i > su[next]
        PROVE  payload'[i] = Pad
    <2>1. k + i \in 1 .. c /\ k + i > st[next]
      BY <1>1, <1>2, <1>7
    <2> QED BY <1>1, <2>1 DEF Carries, c
  <1>8. Len(cur) = IF su[next] > d THEN su[next] - d ELSE 0
    <2>1. next \in l .. next
      OBVIOUS
    <2>2. su[next] = st[next] - k /\ st[next] \in Int
      BY <1>2, <2>1
    <2>3. Len(cur) = IF st[next] > c THEN st[next] - c ELSE 0
      BY DEF Carries, c
    <2> QED BY <1>1, <2>2, <2>3
  <1> QED BY <1>2, <1>4, <1>5, <1>6, <1>7, <1>8 DEF Carries, d

\* What Process does with the result r of a call, tables aside.
Applies(r) ==
    LET n == r.sb.data[1][1]
        genuine == r.status = 1 /\ n \in 1 .. Sections /\ r.sb.data = Bytes(n)
    IN  /\ payload' = Drop(payload, r.used)
        /\ sb' = IF r.status = 0 THEN r.sb ELSE section_buf_reset(r.sb)
        /\ got' = IF genuine THEN got \cup {n} ELSE got
        /\ pusi' = FALSE
        /\ UNCHANGED <<next, cur, clean, from>>

\* The section that was read to its end is handed on.
LEMMA HandedOn ==
    ASSUME NEW r, Applies(r), NEW m \in 1 .. Sections, r.sb \in SectionBuf, r.status = 1,
           Begins(r.sb.data, m), Len(r.sb.data) = Size(m)
    PROVE  /\ got' = got \cup {m}
           /\ sb' = section_buf_reset(r.sb)
  <1>1. r.sb.data \in Seq(Byte)
    BY DEF SectionBuf
  <1>2. Bytes(m) \in Seq(Byte) /\ Len(Bytes(m)) = Size(m) /\ Size(m) \in Nat /\ Size(m) >= 3
    BY BytesProperties, AssemblyAssumption
  <1>3. \A i \in 1 .. Size(m) : Bytes(m)[i] = <<m, i>>
    BY DEF Bytes
  <1>4. \A i \in 1 .. Size(m) : r.sb.data[i] = <<m, i>>
    BY DEF Begins
  <1>5. r.sb.data = Bytes(m)
    <2>1. Len(r.sb.data) = Len(Bytes(m))
          /\ \A i \in 1 .. Len(r.sb.data) : r.sb.data[i] = Bytes(m)[i]
      BY <1>2, <1>3, <1>4
    <2> QED BY <1>1, <1>2, <2>1, SeqEqual
  <1>6. r.sb.data[1][1] = m
    <2>1. 1 \in 1 .. Size(m)
      BY <1>2
    <2> QED BY <1>4, <2>1
  <1> QED BY <1>5, <1>6 DEF Applies

\* An empty section_buf holds the first none bytes of any section.
LEMMA EmptyHolds ==
    ASSUME NEW s, Partial(s), s.data = << >>, s.wait_pdu = FALSE, NEW m
    PROVE  Holds(s, m) /\ s.header = FALSE
  <1>1. s.header = FALSE
    BY EmptySeq DEF Partial, SectionBuf, SECTION_HDR_SIZE
  <1>2. Begins(s.data, m)
    BY EmptySeq DEF Begins
  <1> QED BY <1>1, <1>2 DEF Holds

LEMMA ResetHolds ==
    ASSUME NEW s \in SectionBuf, NEW m
    PROVE  LET t == section_buf_reset(s)
           IN  /\ Partial(t) /\ t.data = << >> /\ t.wait_pdu = s.wait_pdu
               /\ s.wait_pdu = FALSE => Holds(t, m)
  <1>1. section_buf_reset(s).wait_pdu = s.wait_pdu
    BY DEF section_buf_reset, section_buf_init
  <1> QED BY <1>1, ResetProperties, EmptyHolds

\* The receiver reads on in section m, behind the first u bytes of the payload.
LEMMA ReadsOn ==
    ASSUME BufInv, CurInv, payload # << >>, NEW m \in 1 .. next,
           NEW st \in [m .. next -> Int], Carries(m, st), NEW t, Partial(t), Holds(t, m),
           NEW u \in Nat, u < Len(payload), st[m] = u - Len(t.data),
           m = next => t.data = << >>,
           clean = 2 => \A n \in from .. m - 1 : n \in got,
           NEW r \in AddFrom(t, payload, u), Applies(r)
    PROVE  \E l \in 1 .. next' : \E su \in [l .. next' -> Int] : InRun(l, su)'
  <1> DEFINE a == Len(t.data)
             c == Len(payload)
             f == Drop(payload, u)
             b == Len(f)
  <1>1. /\ payload \in Seq(Byte) /\ t \in SectionBuf /\ t.data \in Seq(Byte)
        /\ next \in 1 .. Sections + 1 /\ Sections \in Nat
    BY AssemblyAssumption DEF BufInv, CurInv, Pointed, Partial, SectionBuf
  <1>2. a \in Nat /\ c \in Nat
    BY <1>1, LenProperties
  <1>3. f \in Seq(Byte) /\ b = c - u /\ \A i \in 1 .. b : f[i] = payload[u + i]
    <2>1. u <= Len(payload)
      BY <1>2
    <2> QED BY <1>1, <2>1, DropProperties
  <1>4. f # << >>
    BY <1>2, <1>3, EmptySeq
  <1>5. PICK x \in section_buf_add(t, f) :
           r = [sb |-> IF x.status < 0 THEN [x.sb EXCEPT !.wait_pdu = TRUE] ELSE x.sb,
                used |-> u + x.used, status |-> x.status]
    BY DEF AddFrom, f
  <1>6. Returns(x, b)
    BY <1>3, <1>5, AddProperties
  <1>7. UNCHANGED <<next, cur, clean, from>> /\ pusi' = FALSE
    BY DEF Applies
  <1> HIDE DEF a, c, f, b
  <1>8. CASE m = next
    <2>1. t.data = << >> /\ a = 0 /\ st[next] = u
      BY <1>2, <1>8, EmptySeq DEF a
    <2>2. \A i \in 1 .. b : f[i] = Pad
      <3> TAKE i \in 1 .. b
      <3>1. u + i \in 1 .. c /\ u + i > st[next]
        BY <1>2, <1>3, <2>1
      <3> QED BY <1>3, <3>1 DEF Carries, c
    <2>3. x = [sb |-> t, used |-> b, status |-> 0]
      BY <1>3, <1>4, <1>5, <2>1, <2>2, AddPadding DEF b
    <2>4. r.sb = t /\ r.used = c /\ r.status = 0
      BY <1>2, <1>3, <1>5, <2>3
    <2>5. sb' = t /\ payload' = Drop(payload, c)
      BY <2>4 DEF Applies
    <2>6. got' = got
      BY <2>4 DEF Applies
    <2>7. payload' \in Seq(Byte) /\ Len(payload') = 0
      BY <1>1, <1>2, <2>5, DropProperties DEF c
    <2>8. Len(cur) = 0
      BY <1>2, <2>1 DEF Carries, c
    <2>9. PICK l \in 1 .. next : l = next
      BY <1>1
    <2>10. PICK su \in [l .. l -> Int] : su[l] = 0
      <3>1. [n \in l .. l |-> 0] \in [l .. l -> Int] /\ [n \in l .. l |-> 0][l] = 0
        BY <1>1
      <3> QED BY <3>1
    <2>11. Carries(l, su)'
      <3>1. next' = l /\ cur' = cur /\ l \in Nat
        BY <1>1, <1>7, <2>9
      <3>2. \A n \in l .. l - 1 : FALSE
        BY <3>1
      <3>3. \A i, j \in l .. l : i <= j => su[i] <= su[j]
        BY <2>10, <3>1
      <3>4. \A i \in 1 .. 0 : FALSE
        OBVIOUS
      <3>5. 0 = IF su[l] > 0 THEN su[l] - 0 ELSE 0
        BY <2>10
      <3> QED BY <2>7, <2>8, <3>1, <3>2, <3>3, <3>4, <3>5 DEF Carries
    <2>12. su[l] = 0 - Len(sb'.data) /\ sb'.data = << >>
      BY <2>1, <2>5, <2>10, EmptySeq
    <2>13. Holds(sb', l)
      BY <1>8, <2>5, <2>9
    <2>14. (clean = 2 => \A n \in from .. l - 1 : n \in got)'
      BY <1>7, <1>8, <2>6, <2>9
    <2>15. InRun(l, su)'
      BY <1>7, <2>11, <2>12, <2>13, <2>14 DEF InRun, Holds, Begins
    <2> QED BY <1>7, <2>9, <2>10, <2>15
  <1>9. CASE m < next
    <2> DEFINE z == Size(m)
    <2>1. /\ m \in 1 .. Sections /\ m \in m .. next /\ m + 1 \in m .. next
          /\ m \in m .. next - 1 /\ m + 1 \in 1 .. next
      BY <1>1, <1>9
    <2>2. z \in Nat /\ z >= 3 /\ st[m] \in Int /\ st[m + 1] \in Int
      BY <2>1, AssemblyAssumption
    <2>3. st[m + 1] = st[m] + z /\ st[m] = u - a
      BY <2>1 DEF Carries, a
    <2>4. a < z /\ Begins(t.data, m) /\ (t.header = TRUE => t.len = Size(m))
      <3>1. t.data = << >> => a = 0
        BY EmptySeq DEF a
      <3> QED BY <2>2, <3>1 DEF Holds, a
    <2> HIDE DEF z
    <2>5. Continues(f, m, a)
      <3>1. SUFFICES ASSUME NEW i \in 1 .. b, i <= z - a
                     PROVE  f[i] = <<m, a + i>>
        BY DEF Continues, b, z
      <3>2. /\ u + i \in 1 .. c /\ u - a < u + i /\ u + i <= (u - a) + z
            /\ (u + i) - (u - a) = a + i
        BY <1>2, <1>3, <2>2, <3>1
      <3>3. /\ u + i \in 1 .. c /\ st[m] < u + i /\ u + i <= st[m + 1]
            /\ (u + i) - st[m] = a + i
        BY <2>3, <3>2
      <3>4. payload[u + i] = <<m, (u + i) - st[m]>>
        BY <2>1, <3>3 DEF Carries, c
      <3> QED BY <1>3, <3>3, <3>4
    <2>6. Reads(x, t, m, 0, b)
      BY <1>3, <1>4, <1>5, <2>1, <2>4, <2>5, AddRun DEF a, b, z
    <2>7. x.sb \in SectionBuf /\ x.sb.wait_pdu = FALSE /\ x.sb.data \in Seq(Byte)
      BY <1>6, <2>6 DEF Returns, Reads, Holds, SectionBuf
    <2>8. CASE z - a <= b
      <3>1. /\ x.used = z - a /\ Len(x.sb.data) = z /\ Begins(x.sb.data, m)
            /\ x.status = 1
        <4>1. /\ x.used = 0 + (z - a) /\ Len(x.sb.data) = a + (z - a)
              /\ Begins(x.sb.data, m) /\ x.status = 1
          BY <2>6, <2>8 DEF Reads, a, z
        <4> QED BY <1>2, <2>2, <4>1
      <3>2. r.sb = x.sb /\ r.used = u + (z - a) /\ r.status = 1
        BY <1>5, <3>1
      <3>3. got' = got \cup {m} /\ sb' = section_buf_reset(x.sb)
        BY <2>1, <2>7, <3>1, <3>2, HandedOn DEF z
      <3>4. /\ sb'.data = << >> /\ Holds(sb', m + 1)
        BY <2>7, <3>3, ResetHolds
      <3> DEFINE k == u + (z - a)
      <3>5. k \in Nat /\ k <= Len(payload) /\ payload' = Drop(payload, k)
        <4>1. k \in Nat /\ k <= c
          BY <1>2, <1>3, <2>2, <2>4, <2>8
        <4> QED BY <3>2, <4>1 DEF Applies, c
      <3>6. st[m + 1] - k = 0
        BY <1>2, <2>2, <2>3
      <3> HIDE DEF k
      <3>7. PICK su : Shifted(su, st, m + 1, k)
        BY DEF Shifted
      <3>8. su \in [m + 1 .. next' -> Int] /\ Carries(m + 1, su)'
        BY <1>1, <1>7, <2>1, <3>5, <3>7, CarriesOn
      <3>9. su[m + 1] = 0 - Len(sb'.data)
        <4>1. m + 1 \in m + 1 .. next
          BY <2>1
        <4>2. su[m + 1] = 0
          BY <3>6, <3>7, <4>1 DEF Shifted
        <4>3. Len(sb'.data) = 0
          BY <3>4, EmptySeq
        <4>4. 0 = 0 - 0
          OBVIOUS
        <4> QED BY <4>2, <4>3, <4>4
      <3>10. (clean = 2 => \A n \in from .. m : n \in got)'
        <4>1. SUFFICES ASSUME clean = 2, NEW n \in from .. m PROVE n \in got'
          BY <1>7
        <4>2. CASE n = m
          BY <3>3, <4>2
        <4>3. CASE n # m
          <5>1. n \in from .. m - 1
            BY <2>1, <4>3
          <5> QED BY <3>3, <4>1, <5>1
        <4> QED BY <4>2, <4>3
      <3>11. m = (m + 1) - 1 /\ m + 1 \in 1 .. next'
        BY <1>7, <2>1
      <3>12. InRun(m + 1, su)'
        BY <1>7, <3>4, <3>8, <3>9, <3>10, <3>11 DEF InRun, Holds, Begins
      <3> QED BY <3>8, <3>11, <3>12
    <2>9. CASE z - a > b
      <3>1. /\ x.used = b /\ Len(x.sb.data) = a + b /\ Begins(x.sb.data, m)
            /\ x.status = 0 /\ (x.sb.header = TRUE => x.sb.len = Size(m))
        <4>1. ~(z - a <= b)
          BY <1>2, <1>3, <2>2, <2>9
        <4>2. x.used = 0 + b /\ Len(x.sb.data) = a + b
          BY <2>6, <4>1 DEF Reads, a, z
        <4> QED BY <1>2, <1>3, <2>6, <2>9, <4>2 DEF Reads, a, z
      <3>2. r.sb = x.sb /\ r.used = c /\ r.status = 0
        BY <1>2, <1>3, <1>5, <3>1
      <3>3. got' = got /\ sb' = x.sb /\ payload' = Drop(payload, c)
        BY <3>2 DEF Applies
      <3>4. Holds(sb', m)
        <4>1. Len(x.sb.data) < Size(m)
          BY <1>2, <1>3, <2>2, <2>9, <3>1 DEF z
        <4> QED BY <2>1, <2>7, <3>1, <3>3, <4>1 DEF Holds
      <3>5. PICK k \in Nat : k = c
        BY <1>2
      <3>6. PICK su : Shifted(su, st, m, k)
        BY DEF Shifted
      <3>7. su \in [m .. next' -> Int] /\ Carries(m, su)'
        <4>1. k <= Len(payload)
          BY <1>2, <3>5 DEF c
        <4>2. UNCHANGED <<next, cur>> /\ payload' = Drop(payload, k)
          BY <1>7, <3>3, <3>5
        <4>3. m \in 1 .. next /\ m \in m .. next /\ next \in 1 .. Sections + 1
          BY <1>1, <2>1
        <4> QED BY <1>1, <3>6, <4>1, <4>2, <4>3, CarriesOn
      <3>8. su[m] = 0 - Len(sb'.data)
        <4>1. su[m] = st[m] - c
          BY <2>1, <3>6, <3>5 DEF Shifted
        <4>2. st[m] - c = 0 - (a + b)
          <5>1. (u - a) - c = 0 - (a + b)
            BY <1>2, <1>3
          <5> QED BY <2>3, <5>1
        <4> QED BY <3>1, <3>3, <4>1, <4>2
      <3>9. (clean = 2 => \A n \in from .. m - 1 : n \in got)'
        BY <1>7, <3>3
      <3>10. InRun(m, su)'
        BY <1>7, <1>9, <3>4, <3>7, <3>8, <3>9 DEF InRun, Holds, Begins
      <3> QED BY <1>7, <3>7, <3>10
    <2> QED BY <1>2, <1>3, <2>2, <2>8, <2>9
  <1>10. m < next \/ m = next
    BY <1>1
  <1> QED BY <1>8, <1>9, <1>10

InSomeRun == \E m \in 1 .. next : \E st \in [m .. next -> Int] : InRun(m, st)

\* The section_buf reaches the place where section q begins, with nothing in hand.
LEMMA RunBegins ==
    ASSUME BufInv, CurInv, NEW q \in 1 .. next, NEW st \in [q .. next -> Int],
           AtStart(q, st), NEW r, Applies(r), r.sb \in SectionBuf, r.status = 1,
           r.sb.wait_pdu = FALSE, r.used = st[q],
           (clean = 2 => \A n \in from .. q - 1 : n \in got)'
    PROVE  InSomeRun'
  <1>1. /\ payload \in Seq(Byte) /\ next \in 1 .. Sections + 1
        /\ payload[1][2] \in Nat /\ Len(payload) \in Nat
    BY LenProperties DEF BufInv, CurInv, Pointed, AtStart
  <1>2. PICK k \in Nat : k = st[q]
    BY <1>1 DEF AtStart
  <1>3. k <= Len(payload) /\ payload' = Drop(payload, k) /\ Carries(q, st)
    BY <1>1, <1>2 DEF AtStart, Applies
  <1>4. UNCHANGED <<next, cur>> /\ pusi' = FALSE /\ sb' = section_buf_reset(r.sb)
    BY DEF Applies
  <1>5. q \in q .. next
    BY <1>1
  <1>6. PICK su : Shifted(su, st, q, k)
    BY DEF Shifted
  <1>7. su \in [q .. next' -> Int] /\ Carries(q, su)'
    BY <1>1, <1>3, <1>4, <1>5, <1>6, CarriesOn
  <1>8. sb'.data = << >> /\ Holds(sb', q)
    BY <1>4, ResetHolds
  <1>9. su[q] = 0 - Len(sb'.data)
    <2>1. su[q] = k - k
      BY <1>2, <1>5, <1>6 DEF Shifted
    <2>2. su[q] = 0 /\ Len(sb'.data) = 0
      BY <1>8, <2>1, EmptySeq
    <2> QED BY <2>2
  <1>10. InRun(q, su)'
    BY <1>4, <1>7, <1>8, <1>9 DEF InRun, Holds, Begins
  <1> QED BY <1>4, <1>7, <1>10 DEF InSomeRun

LEMMA ProcessStart ==
    ASSUME BufInv, CurInv, NEW q \in 1 .. next, NEW st \in [q .. next -> Int],
           AtStart(q, st),
           NEW r \in section_buf_add_transport_payload(sb, payload, pusi), Applies(r)
    PROVE  InSomeRun' \/ Waiting'
  <1> DEFINE offset == payload[1][2]
             t == [sb EXCEPT !.wait_pdu = FALSE]
             frag == SubSeq(payload, 2, 1 + offset)
             c == Len(payload)
             a == Len(sb.data)
  <1>1. /\ payload \in Seq(Byte) /\ next \in 1 .. Sections + 1
        /\ offset \in Nat /\ c \in Nat /\ payload # << >> /\ pusi = TRUE
        /\ st[q] = 1 + offset /\ st[q] < c
    BY LenProperties DEF BufInv, CurInv, Pointed, AtStart
  <1>2. /\ sb \in SectionBuf /\ Partial(sb) /\ Partial(t)
        /\ t.wait_pdu = FALSE /\ t.data = sb.data /\ t.header = sb.header /\ t.len = sb.len
        /\ sb.data \in Seq(Byte) /\ a \in Nat
    <2>1. Partial(sb) /\ sb \in SectionBuf
      BY DEF BufInv, Partial
    <2>2. sb.data \in Seq(Byte)
      BY <2>1 DEF SectionBuf
    <2> QED BY <2>1, <2>2, WaitPdu, LenProperties DEF SectionBuf
  <1>3. ~Complete(sb)
    BY <1>2 DEF Partial, Complete, SectionBuf, SECTION_HDR_SIZE
  <1>4. frag \in Seq(Byte) /\ Len(frag) = offset /\ \A i \in 1 .. offset : frag[i] = payload[1 + i]
    <2> HIDE DEF offset
    <2>1. \A i \in 2 .. 1 + offset : payload[i] \in Byte
      BY <1>1, ElementOfSeq
    <2> QED BY <1>1, <2>1, SubSeqProperties
  <1>5. /\ sb.data # << >> => r \in FinalFragment(t, frag)
        /\ sb.data = << >> => r \in AddFrom(t, payload, 1 + offset)
    <2> HIDE DEF offset
    <2>1. offset + 1 <= Len(payload) /\ ~(offset + 1 > Len(payload))
      BY <1>1
    <2> QED BY <1>1, <1>3, <2>1 DEF section_buf_add_transport_payload, offset
  <1>6. q < next /\ Carries(q, st)
    BY DEF AtStart
  <1> HIDE DEF offset, t, frag, c, a
  <1>7. CASE sb.data = << >>
    <2>1. Holds(t, q)
      BY <1>2, <1>7, EmptyHolds
    <2>2. 1 + offset \in Nat /\ 1 + offset < Len(payload) /\ st[q] = (1 + offset) - Len(t.data)
      BY <1>1, <1>2, <1>7, EmptySeq DEF c
    <2>3. clean = 2 => \A n \in from .. q - 1 : n \in got
      BY <1>7 DEF AtStart
    <2>4. PICK u \in Nat : u = 1 + offset
      BY <1>1
    <2>5. PICK s : s = t
      OBVIOUS
    <2>6. /\ u < Len(payload) /\ st[q] = u - Len(s.data) /\ Partial(s) /\ Holds(s, q)
          /\ r \in AddFrom(s, payload, u) /\ (q = next => s.data = << >>)
      BY <1>1, <1>2, <1>5, <1>6, <1>7, <2>1, <2>2, <2>4, <2>5
    <2> QED BY <1>1, <1>6, <2>3, <2>6, ReadsOn DEF InSomeRun
  <1>8. CASE sb.data # << >>
    <2>1. PICK x \in section_buf_add(t, frag) :
             r = IF x.used # Len(frag) \/ section_buf_remaining(x.sb) # 0 \/ x.status # 1
                 THEN [sb |-> [x.sb EXCEPT !.wait_pdu = TRUE], used |-> 1 + x.used,
                       status |-> -1]
                 ELSE [x EXCEPT !.used = 1 + @]
      BY <1>5, <1>8 DEF FinalFragment
    <2>2. Returns(x, offset) /\ x.sb.wait_pdu = FALSE
      BY <1>2, <1>4, <2>1, AddProperties, AddKeepsWait
    <2>3. x.sb \in SectionBuf /\ x \in [sb : SectionBuf, used : 0 .. offset, status : {-1, 0, 1}]
      BY <2>2 DEF Returns
    <2>4. CASE ~(x.used # Len(frag) \/ section_buf_remaining(x.sb) # 0 \/ x.status # 1)
               /\ (clean = 2 => \A n \in from .. q - 1 : n \in got)'
      <3>1. r = [x EXCEPT !.used = 1 + x.used] /\ x.used = offset /\ x.status = 1
        BY <1>4, <2>1, <2>4
      <3>2. r.sb = x.sb /\ r.status = 1 /\ r.used = st[q]
        BY <1>1, <2>3, <3>1
      <3> QED BY <2>2, <2>3, <2>4, <3>2, RunBegins
    <2>5. CASE clean = 1
      <3>1. clean' # 2
        BY <2>5 DEF Applies
      <3>2. CASE x.used # Len(frag) \/ section_buf_remaining(x.sb) # 0 \/ x.status # 1
        <4>1. r.sb = [x.sb EXCEPT !.wait_pdu = TRUE] /\ r.status = -1
          BY <2>1, <3>2
        <4>2. r.sb \in SectionBuf /\ r.sb.wait_pdu = TRUE
          BY <2>3, <4>1, WaitPdu DEF SectionBuf
        <4>3. sb' = section_buf_reset(r.sb) /\ pusi' = FALSE /\ clean' = 1
          BY <2>5, <4>1 DEF Applies
        <4> QED BY <4>2, <4>3, ResetHolds DEF Waiting
      <3> QED BY <2>4, <3>1, <3>2
    <2>6. CASE /\ Holds(sb, q - 1) /\ offset = Size(q - 1) - Len(sb.data)
               /\ \A i \in 2 .. 1 + offset : payload[i] = <<q - 1, Len(sb.data) + i - 1>>
      <3> DEFINE m == q - 1
                 z == Size(m)
      <3>1. /\ m \in 1 .. Sections /\ Begins(t.data, m) /\ a < z
            /\ t.header = TRUE => t.len = Size(m)
        BY <1>2, <1>8, <2>6 DEF Holds, a
      <3>2. z \in Nat
        BY <3>1, AssemblyAssumption
      <3> HIDE DEF m, z
      <3>3. offset > 0 /\ offset = z - a
        BY <1>2, <2>6, <3>1, <3>2 DEF a, z, m
      <3>4. frag # << >>
        BY <1>4, <3>3, EmptySeq
      <3>5. Continues(frag, m, Len(t.data))
        <4> SUFFICES ASSUME NEW i \in 1 .. offset
                     PROVE  frag[i] = <<m, a + i>>
          BY <1>2, <1>4 DEF Continues, a
        <4>1. 1 + i \in 2 .. 1 + offset /\ a + (1 + i) - 1 = a + i
          BY <1>1, <1>2
        <4>2. payload[1 + i] = <<m, a + (1 + i) - 1>>
          BY <2>6, <4>1 DEF a, m
        <4> QED BY <1>4, <4>1, <4>2
      <3>6. Reads(x, t, m, 0, offset)
        <4>1. Len(t.data) < Size(m)
          BY <1>2, <3>1 DEF a, z
        <4> QED BY <1>2, <1>4, <2>1, <3>1, <3>4, <3>5, <4>1, AddRun
      <3>7. /\ x.used = offset /\ Len(x.sb.data) = z /\ Begins(x.sb.data, m)
            /\ x.status = 1 /\ x.sb.len = z
        <4>1. z - a <= offset /\ 0 + (z - a) = offset /\ a + (z - a) = z
          BY <1>1, <1>2, <3>2, <3>3
        <4>2. /\ x.used = 0 + (z - a) /\ Len(x.sb.data) = a + (z - a) /\ Begins(x.sb.data, m)
              /\ x.status = 1 /\ x.sb.len = z
          BY <1>2, <3>6, <4>1 DEF Reads, a, z
        <4> QED BY <4>1, <4>2
      <3>8. ~(x.used # Len(frag) \/ section_buf_remaining(x.sb) # 0 \/ x.status # 1)
        BY <1>4, <3>2, <3>7 DEF section_buf_remaining
      <3>9. r.sb = x.sb /\ r.status = 1
        BY <2>1, <2>3, <3>8
      <3>10. got' = got \cup {m}
        BY <2>3, <3>1, <3>7, <3>9, HandedOn DEF z
      <3>11. (clean = 2 => \A n \in from .. q - 1 : n \in got)'
        <4>1. UNCHANGED <<clean, from>>
          BY DEF Applies
        <4> QED BY <3>10, <4>1 DEF AtStart, m
      <3> QED BY <2>4, <3>8, <3>11
    <2> QED BY <1>8, <2>5, <2>6 DEF AtStart, offset
  <1> QED BY <1>7, <1>8

LEMMA StepProcess ==
    ASSUME BufInv, CurInv, StepInv, Process
    PROVE  StepInv'
  <1>1. PICK r \in section_buf_add_transport_payload(sb, payload, pusi) : Applies(r)
    BY DEF Process, Applies, sender
  <1>2. UNCHANGED <<clean, from>>
    BY <1>1 DEF Applies
  <1>3. Partial(sb) /\ payload # << >> /\ payload \in Seq(Byte) /\ pusi \in BOOLEAN
    BY DEF BufInv, Process, Idle, Pointed
  <1>4. ~Complete(sb) /\ sb \in SectionBuf
    BY <1>3 DEF Partial, Complete, SectionBuf, SECTION_HDR_SIZE
  <1>5. CASE clean = 0
    BY <1>2, <1>5 DEF StepInv
  <1>6. CASE Waiting
    <2>1. r = [sb |-> sb, used |-> Len(payload), status |-> 0]
      BY <1>1, <1>4, <1>6 DEF section_buf_add_transport_payload, Waiting
    <2>2. sb' = sb /\ pusi' = FALSE
      BY <1>1, <2>1 DEF Applies
    <2> QED BY <1>2, <1>6, <2>2 DEF StepInv, Waiting
  <1>7. ASSUME NEW m \in 1 .. next, NEW st \in [m .. next -> Int], InRun(m, st)
        PROVE  InSomeRun'
    <2>1. r \in AddFrom(sb, payload, 0)
      BY <1>1, <1>4, <1>7 DEF section_buf_add_transport_payload, InRun, Holds
    <2>2. PICK s : s = sb
      OBVIOUS
    <2>3. 0 \in Nat /\ 0 < Len(payload)
      BY <1>3, EmptySeq, LenProperties
    <2>4. /\ Partial(s) /\ Holds(s, m) /\ st[m] = 0 - Len(s.data) /\ Carries(m, st)
          /\ (m = next => s.data = << >>) /\ r \in AddFrom(s, payload, 0)
          /\ (clean = 2 => \A n \in from .. m - 1 : n \in got)
      BY <1>3, <1>7, <2>1, <2>2 DEF InRun
    <2> QED BY <1>1, <1>3, <2>3, <2>4, ReadsOn DEF InSomeRun
  <1>8. ASSUME NEW q \in 1 .. next, NEW st \in [q .. next -> Int], AtStart(q, st)
        PROVE  InSomeRun' \/ Waiting'
    BY <1>1, <1>8, ProcessStart
  <1> QED BY <1>2, <1>5, <1>6, <1>7, <1>8 DEF StepInv, InSomeRun

-----------------------------------------------------------------------------
(* What the multiplexer sends.                                             *)

\* A packet with nothing but the rest of the section under way, or its first part.
IsTail(p) ==
    /\ cur # << >>
    /\ p.start = FALSE /\ p.next = next
    /\ Len(p.bytes) = Payload
    /\ \A i \in 1 .. Payload : p.bytes[i] = IF i <= Len(cur) THEN cur[i] ELSE Pad
    /\ Len(p.cur) = IF Len(cur) > Payload THEN Len(cur) - Payload ELSE 0
    /\ \A i \in 1 .. Len(p.cur) : p.cur[i] = cur[Payload + i]

\* How much there is to send, and byte i of it, when k sections begin in a packet.
Total(k) == IF k = 2 THEN Len(cur) + Size(next) + Size(next + 1) ELSE Len(cur) + Size(next)

Stream(k, i) ==
    IF i <= Len(cur) THEN cur[i]
    ELSE IF i <= Len(cur) + Size(next) THEN <<next, i - Len(cur)>>
    ELSE IF i <= Total(k) THEN <<next + 1, i - Len(cur) - Size(next)>>
    ELSE Pad

\* A packet in which k sections begin.
IsStart(p, k) ==
    /\ next + k - 1 <= Sections /\ Len(cur) <= Payload - 2
    /\ k = 2 => Len(cur) + Size(next) < Payload - 1
    /\ p.start = TRUE /\ p.next = next + k
    /\ Len(p.bytes) = Payload
    /\ p.bytes[1] = <<-1, Len(cur)>>
    /\ \A i \in 2 .. Payload : p.bytes[i] = Stream(k, i - 1)
    /\ Len(p.cur) = IF Total(k) > Payload - 1 THEN Total(k) - (Payload - 1) ELSE 0
    /\ \A i \in 1 .. Len(p.cur) : p.cur[i] = Stream(k, Payload - 1 + i)

LEMMA PaddedTake ==
    ASSUME NEW s \in Seq(Byte), NEW k \in Nat
    PROVE  LET b == Padded(Take(s, k), k)
           IN  /\ b \in Seq(Byte) /\ Len(b) = k
               /\ \A i \in 1 .. k : b[i] = IF i <= Len(s) THEN s[i] ELSE Pad
  <1> DEFINE v == Take(s, k)
             c == Len(s)
             a == Len(v)
             pad == [i \in 1 .. k - a |-> Pad]
  <1>1. c \in Nat /\ v \in Seq(Byte) /\ a = (IF k <= c THEN k ELSE c)
        /\ \A i \in 1 .. a : v[i] = s[i]
    BY LenProperties, TakeProperties
  <1> HIDE DEF c, a, v
  <1>2. k - a \in Nat /\ a \in Nat /\ Pad \in Byte
    BY <1>1 DEF Pad, Byte
  <1>3. pad \in Seq(Byte) /\ Len(pad) = k - a /\ \A i \in 1 .. k - a : pad[i] = Pad
    <2>1. pad \in Seq(Byte)
      BY <1>2, IsASeq
    <2> QED BY <1>2, <2>1, LenProperties
  <1> HIDE DEF pad
  <1>4. Padded(v, k) = v \o pad
    BY DEF Padded, pad, a
  <1>5. /\ v \o pad \in Seq(Byte) /\ Len(v \o pad) = a + (k - a)
        /\ \A i \in 1 .. a + (k - a) : (v \o pad)[i] = IF i <= a THEN v[i] ELSE pad[i - a]
    <2>1. /\ v \o pad \in Seq(Byte) /\ Len(v \o pad) = Len(v) + Len(pad)
          /\ \A i \in 1 .. Len(v) + Len(pad) :
                (v \o pad)[i] = IF i <= Len(v) THEN v[i] ELSE pad[i - Len(v)]
      BY <1>1, <1>3, ConcatProperties
    <2>2. Len(v) = a
      BY DEF a
    <2> QED BY <1>3, <2>1, <2>2
  <1>6. a + (k - a) = k
    BY <1>2
  <1>7. ASSUME NEW i \in 1 .. k
        PROVE  (v \o pad)[i] = IF i <= c THEN s[i] ELSE Pad
    <2>1. CASE i <= a
      <3>1. i \in 1 .. a /\ i <= c
        BY <1>1, <1>2, <2>1
      <3> QED BY <1>1, <1>5, <1>6, <2>1, <3>1
    <2>2. CASE ~(i <= a)
      <3>1. i - a \in 1 .. k - a /\ ~(i <= c)
        BY <1>1, <1>2, <2>2
      <3> QED BY <1>3, <1>5, <1>6, <2>2, <3>1
    <2> QED BY <2>1, <2>2
  <1> QED BY <1>4, <1>5, <1>6, <1>7 DEF v, c

\* The bytes that are to be sent when k sections begin.
LEMMA StreamProperties ==
    ASSUME cur \in Seq(Byte), next \in Nat \ {0}, NEW k \in 1 .. 2,
           next + k - 1 <= Sections
    PROVE  LET all == cur \o Bytes(next) \o (IF k = 2 THEN Bytes(next + 1) ELSE << >>)
           IN  /\ all \in Seq(Byte) /\ Len(all) = Total(k)
               /\ \A i \in 1 .. Total(k) : all[i] = Stream(k, i)
               /\ \A i \in Nat : i > Total(k) => Stream(k, i) = Pad
  <1> DEFINE second == IF k = 2 THEN Bytes(next + 1) ELSE << >>
             one == cur \o Bytes(next)
             all == one \o second
             c == Len(cur)
             z == Size(next)
             y == IF k = 2 THEN Size(next + 1) ELSE 0
  <1>1. /\ next \in 1 .. Sections /\ (k = 2 => next + 1 \in 1 .. Sections)
    BY AssemblyAssumption
  <1>2. /\ c \in Nat /\ z \in Nat /\ y \in Nat
    <2>1. c \in Nat
      BY LenProperties
    <2>2. Size(next) \in Nat /\ (k = 2 => Size(next + 1) \in Nat)
      BY <1>1, AssemblyAssumption
    <2> QED BY <2>1, <2>2
  <1>3. /\ Bytes(next) \in Seq(Byte) /\ Len(Bytes(next)) = z
        /\ \A i \in 1 .. z : Bytes(next)[i] = <<next, i>>
    BY <1>1, BytesProperties DEF Bytes
  <1>4. /\ second \in Seq(Byte) /\ Len(second) = y
        /\ \A i \in 1 .. y : second[i] = <<next + 1, i>>
    <2>1. CASE k = 2
      BY <1>1, <2>1, BytesProperties DEF Bytes
    <2>2. CASE k # 2
      <3>1. second = << >> /\ y = 0
        BY <2>2
      <3> HIDE DEF second, y
      <3>2. \A i \in 1 .. 0 : FALSE
        OBVIOUS
      <3>3. second \in Seq(Byte) /\ Len(second) = 0
        BY <3>1, EmptySeq
      <3> QED BY <3>1, <3>2, <3>3
    <2> QED BY <2>1, <2>2
  <1>5. Total(k) = c + z + y
    BY <1>2 DEF Total
  <1> HIDE DEF second, c, z, y
  <1>6. /\ one \in Seq(Byte) /\ Len(one) = c + z
        /\ \A i \in 1 .. c + z : one[i] = IF i <= c THEN cur[i] ELSE Bytes(next)[i - c]
    BY <1>3, ConcatProperties DEF c
  <1> HIDE DEF one
  <1>7. /\ all \in Seq(Byte) /\ Len(all) = (c + z) + y
        /\ \A i \in 1 .. (c + z) + y : all[i] = IF i <= c + z THEN one[i] ELSE second[i - (c + z)]
    <2>1. /\ all \in Seq(Byte) /\ Len(all) = Len(one) + Len(second)
          /\ \A i \in 1 .. Len(one) + Len(second) :
                all[i] = IF i <= Len(one) THEN one[i] ELSE second[i - Len(one)]
      BY <1>4, <1>6, ConcatProperties
    <2> QED BY <1>4, <1>6, <2>1
  <1> HIDE DEF all
  <1>8. ASSUME NEW i \in 1 .. Total(k)
        PROVE  all[i] = Stream(k, i)
    <2>1. i \in 1 .. (c + z) + y /\ i <= Total(k)
      BY <1>2, <1>5
    <2>2. CASE i <= c
      <3>1. i <= c + z /\ i \in 1 .. c + z
        BY <1>2, <2>2
      <3> QED BY <1>6, <1>7, <2>1, <2>2, <3>1 DEF Stream, c
    <2>3. CASE ~(i <= c) /\ i <= c + z
      <3>1. i \in 1 .. c + z /\ i - c \in 1 .. z
        BY <1>2, <2>3
      <3> QED BY <1>3, <1>6, <1>7, <2>1, <2>3, <3>1 DEF Stream, c, z
    <2>4. CASE ~(i <= c + z)
      <3>1. /\ ~(i <= c) /\ i - (c + z) \in 1 .. y
            /\ i - (c + z) = i - c - z
        BY <1>2, <2>1, <2>4
      <3> QED BY <1>4, <1>7, <2>1, <2>4, <3>1 DEF Stream, c, z
    <2> QED BY <2>2, <2>3, <2>4
  <1>9. ASSUME NEW i \in Nat, i > Total(k)
        PROVE  Stream(k, i) = Pad
    <2>1. ~(i <= c) /\ ~(i <= c + z) /\ ~(i <= Total(k))
      BY <1>2, <1>5, <1>9
    <2> QED BY <2>1 DEF Stream, c, z
  <1> QED BY <1>2, <1>5, <1>7, <1>8, <1>9 DEF all, one, second

LEMMA PacketShapes ==
    ASSUME cur \in Seq(Byte), next \in Nat \ {0}, NEW p \in Packets
    PROVE  IsTail(p) \/ \E k \in 1 .. 2 : IsStart(p, k)
  <1>1. Payload \in Nat /\ Payload > 2 /\ Payload - 1 \in Nat /\ Len(cur) \in Nat
    BY AssemblyAssumption, LenProperties
  <1>2. CASE cur # << >> /\ p = [bytes |-> Padded(Take(cur, Payload), Payload), start |-> FALSE,
                                 next |-> next, cur |-> Drop(cur, Payload)]
    <2>1. /\ Len(Padded(Take(cur, Payload), Payload)) = Payload
          /\ \A i \in 1 .. Payload :
                Padded(Take(cur, Payload), Payload)[i] = IF i <= Len(cur) THEN cur[i] ELSE Pad
      BY <1>1, PaddedTake
    <2>2. /\ Len(Drop(cur, Payload)) = IF Payload <= Len(cur) THEN Len(cur) - Payload ELSE 0
          /\ \A i \in 1 .. Len(Drop(cur, Payload)) : Drop(cur, Payload)[i] = cur[Payload + i]
      BY <1>1, DropProperties
    <2>3. Len(Drop(cur, Payload)) = IF Len(cur) > Payload THEN Len(cur) - Payload ELSE 0
      BY <1>1, <2>2
    <2> QED BY <1>2, <2>1, <2>2, <2>3 DEF IsTail
  <1>3. ASSUME NEW k \in 1 .. 2, next + k - 1 <= Sections, Len(cur) <= Payload - 2,
               k = 2 => Len(cur) + Size(next) < Payload - 1,
               LET all == cur \o Bytes(next) \o (IF k = 2 THEN Bytes(next + 1) ELSE << >>)
               IN  p = [bytes |-> <<<<-1, Len(cur)>>>>
                                  \o Padded(Take(all, Payload - 1), Payload - 1),
                        start |-> TRUE, next |-> next + k, cur |-> Drop(all, Payload - 1)]
        PROVE  IsStart(p, k)
    <2> DEFINE all == cur \o Bytes(next) \o (IF k = 2 THEN Bytes(next + 1) ELSE << >>)
               q == Payload - 1
               rest == Padded(Take(all, q), q)
               ptr == <<<<-1, Len(cur)>>>>
    <2>1. p = [bytes |-> ptr \o rest, start |-> TRUE, next |-> next + k, cur |-> Drop(all, q)]
      BY <1>3
    <2>2. /\ all \in Seq(Byte) /\ Len(all) = Total(k)
          /\ \A i \in 1 .. Total(k) : all[i] = Stream(k, i)
          /\ \A i \in Nat : i > Total(k) => Stream(k, i) = Pad
      BY <1>3, StreamProperties
    <2>3. Total(k) \in Nat
      BY <2>2, LenProperties
    <2> HIDE DEF all, q
    <2>4. q \in Nat /\ q = Payload - 1
      BY <1>1 DEF q
    <2>5. /\ rest \in Seq(Byte) /\ Len(rest) = q
          /\ \A i \in 1 .. q : rest[i] = IF i <= Len(all) THEN all[i] ELSE Pad
      BY <2>2, <2>4, PaddedTake
    <2> HIDE DEF rest
    <2>6. \A i \in 1 .. q : rest[i] = Stream(k, i)
      BY <2>2, <2>3, <2>4, <2>5
    <2>7. ptr \in Seq(Byte) /\ Len(ptr) = 1 /\ ptr[1] = <<-1, Len(cur)>>
      <3>1. <<-1, Len(cur)>> \in Byte
        BY <1>1 DEF Byte
      <3> QED BY <3>1
    <2> HIDE DEF ptr
    <2>8. /\ Len(ptr \o rest) = 1 + q
          /\ \A i \in 1 .. 1 + q : (ptr \o rest)[i] = IF i <= 1 THEN ptr[i] ELSE rest[i - 1]
      <3>1. /\ Len(ptr \o rest) = Len(ptr) + Len(rest)
            /\ \A i \in 1 .. Len(ptr) + Len(rest) :
                  (ptr \o rest)[i] = IF i <= Len(ptr) THEN ptr[i] ELSE rest[i - Len(ptr)]
        BY <2>5, <2>7, ConcatProperties
      <3> QED BY <2>5, <2>7, <3>1
    <2>9. 1 + q = Payload
      BY <1>1, <2>4
    <2>10. (ptr \o rest)[1] = <<-1, Len(cur)>>
      BY <1>1, <2>7, <2>8, <2>9
    <2>11. ASSUME NEW i \in 2 .. Payload
           PROVE  (ptr \o rest)[i] = Stream(k, i - 1)
      <3>1. i \in 1 .. 1 + q /\ ~(i <= 1) /\ i - 1 \in 1 .. q
        BY <1>1, <2>4
      <3> QED BY <2>6, <2>8, <3>1
    <2>12. /\ Len(Drop(all, q)) = IF q <= Len(all) THEN Len(all) - q ELSE 0
           /\ \A i \in 1 .. Len(Drop(all, q)) : Drop(all, q)[i] = all[q + i]
      BY <2>2, <2>4, DropProperties
    <2>13. Len(Drop(all, q)) = IF Total(k) > q THEN Total(k) - q ELSE 0
      BY <2>2, <2>3, <2>4, <2>12
    <2>14. ASSUME NEW i \in 1 .. Len(Drop(all, q))
           PROVE  Drop(all, q)[i] = Stream(k, q + i)
      <3>1. q + i \in 1 .. Total(k)
        BY <2>3, <2>4, <2>13
      <3> QED BY <2>2, <2>12, <3>1
    <2>15. /\ p.bytes = ptr \o rest /\ p.start = TRUE /\ p.next = next + k
           /\ p.cur = Drop(all, q)
      BY <2>1
    <2>16. Len(p.bytes) = Payload /\ p.bytes[1] = <<-1, Len(cur)>>
      BY <2>8, <2>9, <2>10, <2>15
    <2>17. \A i \in 2 .. Payload : p.bytes[i] = Stream(k, i - 1)
      BY <2>11, <2>15
    <2>18. /\ Len(p.cur) = IF Total(k) > Payload - 1 THEN Total(k) - (Payload - 1) ELSE 0
           /\ \A i \in 1 .. Len(p.cur) : p.cur[i] = Stream(k, Payload - 1 + i)
      BY <2>4, <2>13, <2>14, <2>15
    <2> QED BY <1>3, <2>15, <2>16, <2>17, <2>18 DEF IsStart
  <1> QED BY <1>2, <1>3 DEF Packets

\* Section next, and the one behind it if two begin in the packet, have their sizes.
LEMMA StartSizes ==
    ASSUME BufInv, CurInv, NEW k \in 1 .. 2, next + k - 1 <= Sections
    PROVE  /\ Len(cur) \in Nat /\ Payload \in Nat /\ Payload > 2
           /\ next \in 1 .. Sections /\ Sections \in Nat
           /\ Size(next) \in Nat /\ Size(next) >= 3
           /\ k = 2 => next + 1 \in 1 .. Sections /\ Size(next + 1) \in Nat /\ Size(next + 1) >= 3
           /\ k # 2 => k = 1
           /\ Total(k) \in Nat
           /\ k = 2 => Total(k) = Len(cur) + Size(next) + Size(next + 1)
           /\ k = 1 => Total(k) = Len(cur) + Size(next)
  <1>1. Len(cur) \in Nat /\ next \in 1 .. Sections + 1 /\ Sections \in Nat
        /\ Payload \in Nat /\ Payload > 2
    BY AssemblyAssumption, LenProperties DEF BufInv, CurInv
  <1>2. next \in 1 .. Sections /\ (k = 2 => next + 1 \in 1 .. Sections)
    BY <1>1
  <1>3. /\ Size(next) \in Nat /\ Size(next) >= 3
        /\ k = 2 => Size(next + 1) \in Nat /\ Size(next + 1) >= 3
    BY <1>2, AssemblyAssumption
  <1> QED BY <1>1, <1>2, <1>3 DEF Total

LEMMA CurSent ==
    ASSUME BufInv, CurInv, NEW p \in Packets, next' = p.next, cur' = p.cur
    PROVE  CurInv'
  <1> DEFINE c == Len(cur)
             d == Len(cur')
             e == Payload
  <1>1. /\ cur \in Seq(Byte) /\ c \in Nat /\ e \in Nat /\ e > 2
        /\ next \in 1 .. Sections + 1 /\ next \in Nat \ {0} /\ Sections \in Nat
    BY AssemblyAssumption, LenProperties DEF BufInv, CurInv
  <1>2. cur' \in Seq(Byte) /\ d \in Nat /\ (cur' # << >> => d > 0)
    <2>1. cur' \in Seq(Byte)
      BY <1>1, PacketsProperties
    <2> QED BY <2>1, EmptySeq, LenProperties
  <1>3. IsTail(p) \/ \E k \in 1 .. 2 : IsStart(p, k)
    BY <1>1, PacketShapes
  <1>4. CASE IsTail(p)
    <2>1. /\ next' = next /\ cur # << >>
          /\ d = IF c > e THEN c - e ELSE 0
          /\ \A i \in 1 .. d : cur'[i] = cur[e + i]
      BY <1>4 DEF IsTail
    <2> DEFINE z == Size(next - 1)
    <2>2. next > 1 /\ c < z
      BY <2>1 DEF CurInv
    <2>3. z \in Nat
      <3>1. next - 1 \in 1 .. Sections
        BY <1>1, <2>2
      <3> QED BY <3>1, AssemblyAssumption
    <2> HIDE DEF c, d, e, z
    <2>4. d < z
      BY <1>1, <2>1, <2>2, <2>3
    <2>5. ASSUME NEW i \in 1 .. d
          PROVE  cur'[i] = <<next - 1, z - d + i>>
      <3>1. e + i \in 1 .. c /\ z - c + (e + i) = z - d + i
        BY <1>1, <1>2, <2>1, <2>3
      <3>2. cur[e + i] = <<next - 1, z - c + (e + i)>>
        BY <3>1 DEF CurInv, c, z
      <3> QED BY <2>1, <3>1, <3>2
    <2> QED BY <1>1, <2>1, <2>2, <2>4, <2>5 DEF CurInv, d, z
  <1>5. ASSUME NEW k \in 1 .. 2, IsStart(p, k)
        PROVE  CurInv'
    <2> DEFINE z == Size(next)
               l == next + k - 1
               y == Size(l)
               g == Total(k)
    <2>1. /\ next' = next + k /\ next + k - 1 <= Sections /\ c <= e - 2
          /\ k = 2 => c + z < e - 1
          /\ d = IF g > e - 1 THEN g - (e - 1) ELSE 0
          /\ \A i \in 1 .. d : cur'[i] = Stream(k, e - 1 + i)
      BY <1>5 DEF IsStart
    <2>2. /\ z \in Nat /\ z >= 3 /\ (k # 2 => k = 1) /\ g \in Nat
          /\ k = 2 => g = c + z + Size(next + 1)
          /\ k = 1 => g = c + z
      BY <2>1, StartSizes
    <2>3. /\ l \in 1 .. Sections /\ next' - 1 = l /\ (k = 2 => l = next + 1)
          /\ (k = 1 => l = next) /\ next' \in 1 .. Sections + 1
      BY <1>1, <2>1
    <2>4. y \in Nat /\ y >= 3 /\ (k = 1 => y = z) /\ (k = 2 => g = c + z + y)
      <3> HIDE DEF l
      <3>1. y \in Nat /\ y >= 3
        BY <2>3, AssemblyAssumption
      <3>2. (k = 1 => y = z) /\ (k = 2 => y = Size(next + 1))
        BY <2>3
      <3> QED BY <2>2, <3>1, <3>2
    <2> HIDE DEF z, y, g, l, c, d, e
    <2>5. d > 0 => d < y
      BY <1>1, <1>2, <2>1, <2>2, <2>4
    <2>6. ASSUME NEW i \in 1 .. d
          PROVE  cur'[i] = <<l, y - d + i>>
      <3>1. d = g - (e - 1) /\ g > e - 1
        BY <1>1, <1>2, <2>1, <2>2
      <3> DEFINE j == e - 1 + i
      <3>2. ~(j <= c) /\ j <= g
        BY <1>1, <1>2, <2>1, <2>2, <3>1
      <3>3. CASE k = 1
        <4>1. j <= c + z /\ j - c = y - d + i
          BY <1>1, <1>2, <2>2, <2>4, <3>1, <3>2, <3>3
        <4> HIDE DEF j
        <4>2. Stream(k, j) = <<next, j - c>>
          BY <3>2, <4>1 DEF Stream, c, z
        <4> QED BY <2>1, <2>3, <3>3, <4>1, <4>2 DEF j
      <3>4. CASE k = 2
        <4>1. c + z < e - 1 /\ g = c + z + y /\ d = g - (e - 1)
          BY <2>1, <2>4, <3>1, <3>4
        <4>2. ~(j <= c + z) /\ j - c - z = y - d + i
          <5>1. i \in Nat /\ i >= 1
            BY <1>2
          <5>2. ~(j <= c + z)
            BY <1>1, <2>2, <4>1, <5>1
          <5>3. j - c - z = y - d + i
            BY <1>1, <2>2, <2>4, <4>1, <5>1
          <5> QED BY <5>2, <5>3
        <4> HIDE DEF j
        <4>3. Stream(k, j) = <<next + 1, j - c - z>>
          BY <3>2, <4>2 DEF Stream, c, z, g
        <4> QED BY <2>1, <2>3, <3>4, <4>2, <4>3 DEF j
      <3> QED BY <2>2, <3>3, <3>4
    <2>7. next' > 1
      BY <1>1, <2>3
    <2> QED BY <1>2, <2>3, <2>5, <2>6, <2>7 DEF CurInv, d, y
  <1> QED BY <1>3, <1>4, <1>5

LEMMA CurStep ==
    ASSUME BufInv, CurInv, Next
    PROVE  CurInv'
  <1>1. CASE UNCHANGED <<next, cur>>
    <2>1. next' = next /\ cur' = cur
      BY <1>1
    <2> QED BY <2>1, Zenon DEF CurInv
  <1>2. UNCHANGED <<next, cur>> \/ \E p \in Packets : next' = p.next /\ cur' = p.cur
    BY DEF Next, Receive, ReceiveEmpty, Lose, Repeat, Damage, Process, Restart, sender
  <1> QED BY <1>1, <1>2, CurSent

-----------------------------------------------------------------------------

\* Between two packets: the section_buf has what was sent of the section under way.
Ready ==
    /\ sb.wait_pdu = FALSE
    /\ cur = << >> => sb.data = << >>
    /\ cur # << >> => /\ sb.data # << >> /\ Holds(sb, next - 1)
                      /\ Len(sb.data) = Size(next - 1) - Len(cur)
    /\ clean = 2 => \A n \in from .. next - 1 : n \in got \/ (n = next - 1 /\ cur # << >>)

LEMMA RunIsReady ==
    ASSUME BufInv, CurInv, Idle, NEW m \in 1 .. next, NEW st \in [m .. next -> Int],
           InRun(m, st)
    PROVE  Ready
  <1> DEFINE a == Len(sb.data)
             c == Len(cur)
  <1>1. /\ sb.data \in Seq(Byte) /\ cur \in Seq(Byte) /\ a \in Nat /\ c \in Nat
        /\ (sb.data = << >> <=> a = 0) /\ (cur = << >> <=> c = 0)
        /\ next \in 1 .. Sections + 1 /\ Sections \in Nat
    <2>1. sb.data \in Seq(Byte) /\ cur \in Seq(Byte)
      BY DEF BufInv, Partial, SectionBuf
    <2> QED BY <2>1, AssemblyAssumption, EmptySeq, LenProperties DEF CurInv
  <1>2. next \in m .. next /\ m \in m .. next
    BY <1>1
  <1>3. st[next] \in Int /\ st[m] \in Int /\ st[m] = 0 - a
    BY <1>2 DEF InRun
  <1>4. c = IF st[next] > 0 THEN st[next] ELSE 0
    <2>1. Len(payload) = 0
      BY EmptySeq DEF Idle
    <2>2. c = IF st[next] > 0 THEN st[next] - 0 ELSE 0
      BY <2>1 DEF InRun, Carries
    <2> QED BY <1>3, <2>2
  <1>5. /\ sb.wait_pdu = FALSE /\ Holds(sb, m)
        /\ clean = 2 => \A n \in from .. m - 1 : n \in got
    BY DEF InRun, Holds
  <1> HIDE DEF a, c
  <1>6. CASE m = next
    <2>1. sb.data = << >> /\ a = 0
      BY <1>1, <1>6 DEF InRun
    <2>2. cur = << >>
      BY <1>1, <1>3, <1>4, <1>6, <2>1
    <2> QED BY <1>5, <1>6, <2>1, <2>2 DEF Ready
  <1>7. CASE m < next
    <2>1. m \in m .. next - 1 /\ m \in 1 .. Sections /\ m + 1 \in m .. next
      BY <1>1, <1>7
    <2> DEFINE z == Size(m)
    <2>2. z \in Nat /\ z >= 3
      BY <2>1, AssemblyAssumption
    <2>3. a < z
      BY <1>1, <1>5, <2>2 DEF Holds, a
    <2>4. st[m + 1] = st[m] + z /\ st[m + 1] \in Int
      BY <2>1 DEF InRun, Carries
    <2>5. \A i, j \in m .. next : i <= j => st[i] <= st[j]
      BY DEF InRun, Carries
    <2> HIDE DEF z
    <2>6. st[m + 1] > 0
      BY <1>1, <1>3, <2>2, <2>3, <2>4
    <2>7. st[m + 1] <= st[next]
      <3>1. m + 1 <= next
        BY <1>1, <1>7
      <3> QED BY <1>2, <2>1, <2>5, <3>1
    <2>8. c = st[next] /\ c > 0 /\ cur # << >>
      BY <1>1, <1>3, <1>4, <2>4, <2>6, <2>7
    <2>9. m = next - 1
      <3>1. SUFFICES ASSUME m + 1 < next PROVE FALSE
        BY <1>1, <1>7
      <3> DEFINE l == next - 1
                 y == Size(l)
      <3>2. /\ l \in m .. next - 1 /\ l \in m .. next /\ l \in 1 .. Sections
            /\ m + 1 <= l /\ l + 1 = next
        BY <1>1, <3>1
      <3>3. y \in Nat /\ c < y
        BY <2>8, <3>2, AssemblyAssumption DEF CurInv, c
      <3>4. st[l + 1] = st[l] + y /\ st[l] \in Int
        BY <3>2 DEF InRun, Carries
      <3>5. st[m + 1] <= st[l]
        BY <2>1, <2>5, <3>2
      <3> HIDE DEF l, y
      <3> QED BY <2>4, <2>6, <2>8, <3>2, <3>3, <3>4, <3>5
    <2>10. c = z - a
      <3>1. m + 1 = next
        BY <1>1, <2>9
      <3> QED BY <1>1, <1>3, <2>2, <2>4, <2>8, <3>1
    <2>11. a = z - c /\ sb.data # << >>
      <3>1. c < z
        BY <2>8, <2>9 DEF CurInv, c, z
      <3> QED BY <1>1, <2>2, <2>10, <3>1
    <2>12. clean = 2 => \A n \in from .. next - 1 : n \in got \/ (n = next - 1 /\ cur # << >>)
      <3> SUFFICES ASSUME clean = 2, NEW n \in from .. next - 1, n # next - 1
                   PROVE  n \in got
        BY <2>8
      <3>1. n \in from .. m - 1
        BY <1>1, <2>9
      <3> QED BY <1>5, <3>1
    <2> QED BY <1>5, <2>8, <2>9, <2>11, <2>12 DEF Ready, a, c, z
  <1> QED BY <1>1, <1>6, <1>7

\* The rest of the section under way goes on.
LEMMA TailReceived ==
    ASSUME BufInv, CurInv, Ready, NEW p \in Packets, IsTail(p), next' = p.next, cur' = p.cur,
           payload' = p.bytes, pusi' = FALSE, UNCHANGED <<sb, got, clean, from>>
    PROVE  InSomeRun'
  <1> DEFINE a == Len(sb.data)
             c == Len(cur)
             e == Payload
             m == next - 1
             z == Size(m)
  <1>1. /\ cur # << >> /\ next' = next /\ Len(payload') = e
        /\ \A i \in 1 .. e : payload'[i] = IF i <= c THEN cur[i] ELSE Pad
        /\ Len(cur') = IF c > e THEN c - e ELSE 0
    BY DEF IsTail
  <1>2. /\ c \in Nat /\ a \in Nat /\ e \in Nat
        /\ next \in 1 .. Sections + 1 /\ Sections \in Nat
    <2>1. cur \in Seq(Byte) /\ sb.data \in Seq(Byte)
      BY DEF BufInv, Partial, SectionBuf
    <2> QED BY <2>1, AssemblyAssumption, LenProperties DEF CurInv
  <1>3. /\ next > 1 /\ c < z
        /\ \A i \in 1 .. c : cur[i] = <<m, z - c + i>>
    BY <1>1 DEF CurInv
  <1>4. /\ m \in 1 .. Sections /\ m \in 1 .. next /\ m + 1 = next /\ m < next
    BY <1>2, <1>3
  <1>5. z \in Nat
    BY <1>4, AssemblyAssumption
  <1>6. a = z - c /\ Holds(sb, m) /\ sb.data # << >>
    BY <1>1 DEF Ready
  <1>7. PICK l \in 1 .. next : l = m
    BY <1>4
  <1>8. PICK st \in [l .. l + 1 -> Int] : st[l] = 0 - a /\ st[l + 1] = c
    <2> DEFINE f == [n \in l .. l + 1 |-> IF n = l THEN 0 - a ELSE c]
    <2>1. l \in Nat /\ l # l + 1 /\ l \in l .. l + 1 /\ l + 1 \in l .. l + 1
      BY <1>2
    <2>2. f \in [l .. l + 1 -> Int] /\ f[l] = 0 - a /\ f[l + 1] = c
      BY <1>2, <2>1
    <2> QED BY <2>2
  <1>9. l \in Nat /\ next' = l + 1 /\ next = l + 1
    BY <1>1, <1>2, <1>4, <1>7
  <1>10. \A n \in l .. l + 1 - 1 : n = l
    BY <1>9
  <1> HIDE DEF a, c, e, z, m
  <1>11. \A n \in l .. l + 1 - 1 : st[n + 1] = st[n] + Size(n)
    <2>1. c = (0 - a) + z
      BY <1>2, <1>5, <1>6
    <2> QED BY <1>7, <1>8, <1>10, <2>1 DEF z
  <1>12. \A i, j \in l .. l + 1 : i <= j => st[i] <= st[j]
    <2>1. \A i \in l .. l + 1 : i = l \/ i = l + 1
      BY <1>9
    <2>2. st[l] <= st[l + 1] /\ st[l] <= st[l] /\ st[l + 1] <= st[l + 1]
      BY <1>2, <1>8
    <2>3. ~(l + 1 <= l)
      BY <1>9
    <2> QED BY <2>1, <2>2, <2>3
  <1>13. ASSUME NEW n \in l .. l + 1 - 1, NEW i \in 1 .. e, st[n] < i, i <= st[n + 1]
         PROVE  payload'[i] = <<n, i - st[n]>>
    <2>1. n = m /\ st[n] = 0 - a /\ i <= c
      BY <1>7, <1>8, <1>10, <1>13
    <2>2. i \in 1 .. c /\ z - c + i = i - (0 - a)
      BY <1>2, <1>5, <1>6, <2>1
    <2> QED BY <1>1, <1>3, <2>1, <2>2
  <1>14. ASSUME NEW i \in 1 .. e, i > st[l + 1]
         PROVE  payload'[i] = Pad
    <2>1. ~(i <= c)
      BY <1>2, <1>8, <1>14
    <2> QED BY <1>1, <2>1
  <1>15. Len(cur') = IF st[l + 1] > e THEN st[l + 1] - e ELSE 0
    BY <1>1, <1>8
  <1>16. Carries(l, st)'
    BY <1>1, <1>9, <1>11, <1>12, <1>13, <1>14, <1>15 DEF Carries
  <1>17. (clean = 2 => \A n \in from .. l - 1 : n \in got)'
    <2> SUFFICES ASSUME clean = 2, NEW n \in from .. l - 1 PROVE n \in got
      OBVIOUS
    <2>1. n \in from .. next - 1 /\ n # next - 1
      BY <1>9
    <2> QED BY <2>1 DEF Ready
  <1>18. l # next'
    BY <1>9
  <1>19. InRun(l, st)'
    BY <1>6, <1>7, <1>8, <1>16, <1>17, <1>18 DEF InRun, Holds, Begins, a
  <1>20. l \in 1 .. next' /\ st \in [l .. next' -> Int]
    BY <1>7, <1>9
  <1> QED BY <1>19, <1>20 DEF InSomeRun

\* A packet in which k sections begin is in hand; what the section_buf had before goes
\* on in it, unless this is the first start indicator since a fault.
LEMMA StartReceived ==
    ASSUME BufInv, CurInv, NEW p \in Packets, NEW k \in 1 .. 2, IsStart(p, k),
           next' = p.next, cur' = p.cur, payload' = p.bytes, pusi' = TRUE,
           UNCHANGED <<sb, got>>,
           clean' = 1 \/ sb.data = << >> \/ Ready,
           clean' = 2 => from' = next \/ (Ready /\ clean = 2 /\ from' = from)
    PROVE  \E q \in 1 .. next' : \E st \in [q .. next' -> Int] : AtStart(q, st)'
  <1> DEFINE c == Len(cur)
             e == Payload
             z == Size(next)
             g == Total(k)
  <1>1. /\ next' = next + k /\ next + k - 1 <= Sections /\ c <= e - 2
        /\ k = 2 => c + z < e - 1
        /\ Len(payload') = e /\ payload'[1] = <<-1, c>>
        /\ \A i \in 2 .. e : payload'[i] = Stream(k, i - 1)
        /\ Len(cur') = IF g > e - 1 THEN g - (e - 1) ELSE 0
    BY DEF IsStart
  <1>2. /\ c \in Nat /\ e \in Nat /\ e > 2 /\ z \in Nat /\ z >= 3 /\ g \in Nat
        /\ next \in 1 .. Sections /\ Sections \in Nat
    BY <1>1, StartSizes
  <1>3. PICK q \in 1 .. next : q = next
    BY <1>2
  <1>4. PICK st \in [q .. q + k -> Int] :
           /\ st[q] = 1 + c /\ st[q + 1] = 1 + c + z /\ st[q + k] = 1 + g
           /\ \A n \in q .. q + k - 1 : st[n + 1] = st[n] + Size(n)
           /\ \A i, j \in q .. q + k : i <= j => st[i] <= st[j]
    <2> DEFINE f == [n \in q .. q + k |-> IF n = q THEN 1 + c
                                        ELSE IF n = q + 1 THEN 1 + c + z ELSE 1 + g]
    <2>1. /\ (k # 2 => k = 1) /\ (k = 1 => g = c + z)
          /\ (k = 2 => g = c + z + Size(next + 1) /\ Size(next + 1) \in Nat)
      BY <1>1, StartSizes
    <2>2. q \in Nat /\ z = Size(q) /\ (k = 2 => Size(next + 1) = Size(q + 1))
      BY <1>2, <1>3
    <2> HIDE DEF c, z, g
    <2>3. CASE k = 1
      <3>1. /\ f \in [q .. q + 1 -> Int] /\ f[q] = 1 + c /\ f[q + 1] = 1 + c + z /\ g = c + z
        BY <1>2, <2>1, <2>2, <2>3
      <3>2. \A n \in q .. q + 1 : n = q \/ n = q + 1
        BY <2>2
      <3>3. \A n \in q .. q + 1 - 1 : n = q
        BY <2>2
      <3> HIDE DEF f
      <3>4. \A n \in q .. q + 1 - 1 : f[n + 1] = f[n] + Size(n)
        BY <1>2, <2>2, <3>1, <3>3
      <3>5. \A i, j \in q .. q + 1 : i <= j => f[i] <= f[j]
        <4>1. ~(q + 1 <= q)
          BY <2>2
        <4>2. f[q] <= f[q] /\ f[q] <= f[q + 1] /\ f[q + 1] <= f[q + 1]
          BY <1>2, <3>1
        <4> QED BY <3>2, <4>1, <4>2
      <3>6. f[q + k] = 1 + g
        BY <1>2, <2>3, <3>1
      <3> QED BY <2>3, <3>1, <3>4, <3>5, <3>6
    <2>4. CASE k = 2
      <3>1. /\ f \in [q .. q + 2 -> Int] /\ f[q] = 1 + c /\ f[q + 1] = 1 + c + z
            /\ f[q + 2] = 1 + g
        BY <1>2, <2>1, <2>2, <2>4
      <3>2. \A n \in q .. q + 2 : n = q \/ n = q + 1 \/ n = q + 2
        BY <2>2
      <3>3. \A n \in q .. q + 2 - 1 : n = q \/ n = q + 1
        BY <2>2
      <3> HIDE DEF f
      <3>4. f[q + 1] = f[q] + Size(q) /\ f[(q + 1) + 1] = f[q + 1] + Size(q + 1)
        <4>1. (q + 1) + 1 = q + 2
          BY <2>2
        <4>2. 1 + c + z = (1 + c) + z /\ f[q + 1] = f[q] + Size(q)
          BY <1>2, <2>2, <3>1
        <4> DEFINE y == Size(q + 1)
        <4>3. y \in Nat /\ g = c + z + y
          BY <2>1, <2>2, <2>4
        <4> HIDE DEF y
        <4>4. 1 + g = (1 + c + z) + y
          BY <1>2, <4>3
        <4> QED BY <3>1, <4>1, <4>2, <4>4 DEF y
      <3>5. \A n \in q .. q + 2 - 1 : f[n + 1] = f[n] + Size(n)
        BY <3>3, <3>4
      <3>6. \A i, j \in q .. q + 2 : i <= j => f[i] <= f[j]
        <4>1. ~(q + 1 <= q) /\ ~(q + 2 <= q) /\ ~(q + 2 <= q + 1)
          BY <2>2
        <4>2. /\ f[q] <= f[q] /\ f[q] <= f[q + 1] /\ f[q + 1] <= f[q + 1]
              /\ f[q] <= f[q + 2] /\ f[q + 1] <= f[q + 2] /\ f[q + 2] <= f[q + 2]
          BY <1>2, <2>1, <2>4, <3>1
        <4> QED BY <3>2, <4>1, <4>2
      <3> QED BY <2>4, <3>1, <3>5, <3>6
    <2> QED BY <2>1, <2>3, <2>4
  <1> HIDE DEF c, e, z, g
  <1>5. q \in Nat /\ next' = q + k /\ next = q
    BY <1>1, <1>2, <1>3
  <1>6. ASSUME NEW n \in q .. q + k - 1, NEW i \in 1 .. e, st[n] < i, i <= st[n + 1]
        PROVE  payload'[i] = <<n, i - st[n]>>
    <2>1. n = q \/ (k = 2 /\ n = q + 1)
      BY <1>5
    <2>2. CASE n = q
      <3>1. i > 1 + c /\ i <= 1 + c + z /\ i - st[n] = (i - 1) - c
        BY <1>2, <1>4, <1>6, <2>2
      <3>2. i \in 2 .. e /\ ~(i - 1 <= c) /\ i - 1 <= c + z
        BY <1>2, <3>1
      <3>3. Stream(k, i - 1) = <<q, (i - 1) - c>>
        BY <1>5, <3>2 DEF Stream, c, z
      <3> QED BY <1>1, <2>2, <3>1, <3>2, <3>3
    <2>3. CASE k = 2 /\ n = q + 1
      <3>1. n + 1 = q + k
        BY <1>5, <2>3
      <3>2. i > 1 + c + z /\ i <= 1 + g /\ i - st[n] = (i - 1) - c - z
        BY <1>2, <1>4, <1>6, <2>3, <3>1
      <3>3. i \in 2 .. e /\ ~(i - 1 <= c) /\ ~(i - 1 <= c + z) /\ i - 1 <= g
        BY <1>2, <3>2
      <3>4. Stream(k, i - 1) = <<q + 1, (i - 1) - c - z>>
        BY <1>5, <3>3 DEF Stream, c, z, g
      <3> QED BY <1>1, <2>3, <3>2, <3>3, <3>4
    <2> QED BY <2>1, <2>2, <2>3
  <1>7. ASSUME NEW i \in 1 .. e, i > st[q + k]
        PROVE  payload'[i] = Pad
    <2>1. i \in 2 .. e /\ i - 1 \in Nat /\ i - 1 > g
      BY <1>2, <1>4, <1>7
    <2>2. Stream(k, i - 1) = Pad
      <3>1. cur \in Seq(Byte) /\ next \in Nat \ {0}
        BY DEF BufInv
      <3>2. \A j \in Nat : j > Total(k) => Stream(k, j) = Pad
        BY <1>1, <3>1, StreamProperties
      <3> QED BY <2>1, <3>2 DEF g
    <2> QED BY <1>1, <2>1, <2>2
  <1>8. Len(cur') = IF st[q + k] > e THEN st[q + k] - e ELSE 0
    BY <1>1, <1>2, <1>4
  <1>9. Carries(q, st)'
    <2>1. q .. next' = q .. q + k /\ q .. next' - 1 = q .. q + k - 1
      BY <1>5
    <2>2. \A n \in q .. next' - 1 : st[n + 1] = st[n] + Size(n)
      BY <1>4, <2>1
    <2>3. \A i, j \in q .. next' : i <= j => st[i] <= st[j]
      BY <1>4, <2>1
    <2>4. \A n \in q .. next' - 1 : \A i \in 1 .. Len(payload') :
             st[n] < i /\ i <= st[n + 1] => payload'[i] = <<n, i - st[n]>>
      <3> TAKE n \in q .. next' - 1
      <3> TAKE i \in 1 .. Len(payload')
      <3>1. n \in q .. q + k - 1 /\ i \in 1 .. e
        BY <1>1, <2>1
      <3> QED BY <1>6, <3>1
    <2>5. \A i \in 1 .. Len(payload') : i > st[next'] => payload'[i] = Pad
      BY <1>1, <1>5, <1>7
    <2>6. Len(cur') = IF st[next'] > Len(payload') THEN st[next'] - Len(payload') ELSE 0
      BY <1>1, <1>5, <1>8
    <2> QED BY <2>2, <2>3, <2>4, <2>5, <2>6 DEF Carries
  <1>10. payload'[1][2] = c /\ st[q] < e /\ q < next'
    BY <1>1, <1>2, <1>4, <1>5
  <1>11. (\/ sb.data = << >>
          \/ clean = 1
          \/ /\ sb.data # << >> /\ Holds(sb, q - 1)
             /\ payload[1][2] = Size(q - 1) - Len(sb.data)
             /\ \A i \in 2 .. 1 + payload[1][2] : payload[i] = <<q - 1, Len(sb.data) + i - 1>>)'
    <2>1. CASE clean' = 1
      BY <2>1
    <2>2. CASE sb.data = << >>
      BY <2>2
    <2>3. CASE Ready /\ sb.data # << >>
      <3> DEFINE a == Len(sb.data)
                 y == Size(q - 1)
      <3>1. cur # << >> /\ Holds(sb, q - 1) /\ a = y - c
        BY <1>5, <2>3 DEF Ready, c
      <3>2. c < y /\ \A i \in 1 .. c : cur[i] = <<q - 1, y - c + i>>
        BY <1>5, <3>1 DEF CurInv, c
      <3>3. y \in Nat /\ a \in Nat
        <4>1. q - 1 \in 1 .. Sections /\ sb.data \in Seq(Byte)
          BY <2>3, <3>1 DEF Holds, BufInv, Partial, SectionBuf
        <4>2. y \in Nat
          BY <4>1, AssemblyAssumption
        <4>3. a \in Nat
          BY <4>1, LenProperties
        <4> QED BY <4>2, <4>3
      <3> HIDE DEF a, y
      <3>4. c = y - a
        BY <1>2, <3>1, <3>3
      <3>5. ASSUME NEW i \in 2 .. 1 + c
            PROVE  payload'[i] = <<q - 1, a + i - 1>>
        <4>1. i \in 2 .. e /\ i - 1 <= c /\ i - 1 \in 1 .. c /\ y - c + (i - 1) = a + i - 1
          <5>1. i \in Nat /\ i >= 2 /\ i <= 1 + c
            BY <1>2
          <5>2. i \in 2 .. e /\ i - 1 <= c /\ i - 1 \in 1 .. c
            BY <1>1, <1>2, <5>1
          <5>3. y - c + (i - 1) = a + i - 1
            BY <1>2, <3>3, <3>4, <5>1
          <5> QED BY <5>2, <5>3
        <4>2. Stream(k, i - 1) = cur[i - 1]
          BY <4>1 DEF Stream, c
        <4> QED BY <1>1, <3>2, <4>1, <4>2
      <3>6. payload'[1][2] = c
        BY <1>10
      <3> QED BY <2>3, <3>1, <3>4, <3>5, <3>6 DEF a, y, Holds, Begins
    <2> QED BY <2>1, <2>2, <2>3
  <1>12. (clean = 2 => \A n \in from .. q - 1 : n \in got \/ (n = q - 1 /\ sb.data # << >>))'
    <2>1. CASE clean' = 2 /\ from' = next
      <3>1. \A n \in next .. next - 1 : FALSE
        BY <1>2
      <3> QED BY <1>5, <2>1, <3>1
    <2>2. CASE clean' = 2 /\ Ready /\ clean = 2 /\ from' = from
      BY <1>5, <2>2 DEF Ready
    <2> QED BY <2>1, <2>2
  <1>13. AtStart(q, st)'
    BY <1>1, <1>4, <1>9, <1>10, <1>11, <1>12 DEF AtStart, e, Holds, Begins
  <1>14. q \in 1 .. next' /\ st \in [q .. next' -> Int]
    BY <1>3, <1>5
  <1> QED BY <1>13, <1>14

LEMMA InitStep == Init => CurInv /\ StepInv
  <1> SUFFICES ASSUME Init PROVE CurInv /\ StepInv
    OBVIOUS
  <1>1. CurInv
    BY AssemblyAssumption, EmptySeq DEF Init, CurInv
  <1>2. StepInv
    BY DEF Init, StepInv, None
  <1> QED BY <1>1, <1>2

\* Between two packets the receiver waits or is ready.
LEMMA IdleStep ==
    ASSUME BufInv, CurInv, StepInv, Idle, clean # 0
    PROVE  Waiting \/ (InSomeRun /\ Ready)
  <1>1. \A q \in 1 .. next : \A st \in [q .. next -> Int] : ~AtStart(q, st)
    <2> SUFFICES ASSUME NEW q \in 1 .. next, NEW st \in [q .. next -> Int], AtStart(q, st)
                 PROVE  FALSE
      OBVIOUS
    <2> QED BY DEF AtStart, BufInv, Pointed, Idle
  <1> QED BY <1>1, RunIsReady DEF StepInv, InSomeRun

LEMMA StepKept ==
    ASSUME StepInv, UNCHANGED <<next, cur, payload, sb, pusi, got, clean, from>>
    PROVE  StepInv'
  <1>1. ASSUME NEW m, NEW st, InRun(m, st)
        PROVE  InRun(m, st)'
    BY <1>1 DEF InRun, Holds, Begins, Carries
  <1>2. ASSUME NEW q, NEW st, AtStart(q, st)
        PROVE  AtStart(q, st)'
    BY <1>2 DEF AtStart, Holds, Begins, Carries
  <1>3. Waiting => Waiting'
    BY DEF Waiting
  <1> QED BY <1>1, <1>2, <1>3 DEF StepInv

LEMMA StepStep ==
    ASSUME BufInv, CurInv, StepInv, Next
    PROVE  StepInv'
  <1>1. CASE Receive
    <2>1. PICK p \in Packets, disc \in BOOLEAN :
             /\ next' = p.next /\ cur' = p.cur
             /\ last' = [bytes |-> p.bytes, start |-> p.start, counter |-> counter',
                         disc |-> disc]
             /\ Handle(last')
             /\ LET ok == transport_packet_continuity_check(last').ok
                IN  /\ clean' = IF ~ok THEN 0 ELSE IF p.start /\ clean < 2 THEN clean + 1
                                ELSE clean
                    /\ from' = IF ok /\ p.start /\ clean = 1 THEN next ELSE from
      BY <1>1 DEF Receive
    <2> DEFINE ok == transport_packet_continuity_check(last').ok
    <2>2. clean \in {0, 1, 2} /\ from \in Nat /\ next \in Nat \ {0} /\ cur \in Seq(Byte) /\ Idle
      BY <1>1 DEF StepInv, BufInv, Receive
    <2> HIDE DEF ok
    <2>3. clean' \in {0, 1, 2} /\ from' \in Nat
      BY <2>1, <2>2 DEF ok
    <2>4. CASE ~ok
      BY <2>1, <2>3, <2>4 DEF ok, StepInv
    <2>5. CASE ok
      <3>1. /\ payload' = p.bytes /\ sb' = sb /\ got' = got /\ pusi' = p.start
            /\ clean' = (IF p.start /\ clean < 2 THEN clean + 1 ELSE clean)
            /\ from' = IF p.start /\ clean = 1 THEN next ELSE from
        <4>1. last'.bytes = p.bytes /\ last'.start = p.start
          BY <2>1
        <4>2. p.start \in BOOLEAN
          BY <2>2, PacketsProperties
        <4> QED BY <2>1, <2>5, <4>1, <4>2 DEF Handle, ok
      <3>2. CASE IsTail(p)
        <4>1. pusi' = FALSE /\ clean' = clean /\ from' = from
          BY <3>1, <3>2 DEF IsTail
        <4>2. CASE clean = 0
          BY <2>3, <4>1, <4>2 DEF StepInv
        <4>3. CASE Waiting
          BY <2>3, <3>1, <4>1, <4>3 DEF StepInv, Waiting
        <4>4. CASE Ready
          <5>1. InSomeRun'
            BY <2>1, <3>1, <3>2, <4>1, <4>4, TailReceived
          <5> QED BY <2>3, <5>1 DEF StepInv, InSomeRun
        <4> QED BY <2>2, <4>2, <4>3, <4>4, IdleStep
      <3>3. ASSUME NEW k \in 1 .. 2, IsStart(p, k)
            PROVE  StepInv'
        <4>1. /\ pusi' = TRUE /\ clean' = (IF clean < 2 THEN clean + 1 ELSE clean)
              /\ from' = IF clean = 1 THEN next ELSE from
          BY <3>1, <3>3 DEF IsStart
        <4>2. clean = 0 \/ Waiting \/ Ready
          BY <2>2, IdleStep
        <4>3. clean' = 1 \/ sb.data = << >> \/ Ready
          BY <4>1, <4>2 DEF Waiting
        <4>4. clean' = 2 => from' = next \/ (Ready /\ clean = 2 /\ from' = from)
          <5>1. CASE clean = 0
            BY <4>1, <5>1
          <5>2. CASE clean = 1
            BY <4>1, <5>2
          <5>3. CASE clean = 2
            BY <4>1, <4>2, <5>3 DEF Waiting
          <5> QED BY <2>2, <5>1, <5>2, <5>3
        <4>5. \E q \in 1 .. next' : \E st \in [q .. next' -> Int] : AtStart(q, st)'
          BY <2>1, <3>1, <3>3, <4>1, <4>3, <4>4, StartReceived
        <4> QED BY <2>3, <4>5 DEF StepInv
      <3> QED BY <2>2, <3>2, <3>3, PacketShapes
    <2> QED BY <2>4, <2>5
  <1>2. CASE ReceiveEmpty
    <2> DEFINE ok == transport_packet_continuity_check(last').ok
    <2>1. /\ Idle /\ Handle(last') /\ last'.bytes = << >> /\ last'.start = FALSE
          /\ clean' = (IF ok THEN clean ELSE 0)
          /\ UNCHANGED <<next, cur, from>>
      BY <1>2 DEF ReceiveEmpty
    <2> HIDE DEF ok
    <2>2. clean \in {0, 1, 2} /\ from \in Nat
      BY DEF StepInv
    <2>3. CASE ~ok
      BY <2>1, <2>2, <2>3 DEF StepInv
    <2>4. CASE ok
      <3>1. payload' = payload /\ sb' = sb /\ pusi' = FALSE /\ got' = got /\ clean' = clean
        BY <2>1, <2>4 DEF Handle, Idle, ok
      <3>2. CASE clean = 0
        BY <2>1, <2>2, <3>1, <3>2 DEF StepInv
      <3>3. CASE Waiting
        BY <2>1, <2>2, <3>1, <3>3 DEF StepInv, Waiting
      <3>4. ASSUME NEW m \in 1 .. next, NEW st \in [m .. next -> Int], InRun(m, st)
            PROVE  InRun(m, st)'
        <4>1. UNCHANGED <<payload, sb, pusi, got, clean, from, next, cur>>
          BY <2>1, <3>1, <3>4 DEF InRun
        <4> QED BY <3>4, <4>1 DEF InRun, Holds, Begins, Carries
      <3>5. InSomeRun => InSomeRun'
        BY <2>1, <3>4 DEF InSomeRun
      <3>6. CASE InSomeRun
        BY <2>1, <2>2, <3>1, <3>5, <3>6 DEF StepInv, InSomeRun
      <3> QED BY <2>1, <3>2, <3>3, <3>6, IdleStep
    <2> QED BY <2>3, <2>4
  <1>3. CASE Lose \/ Repeat \/ Damage
    <2>1. clean' = 0 /\ from' = from
      BY <1>3 DEF Lose, Repeat, Damage, Fault
    <2> QED BY <2>1 DEF StepInv
  <1>4. CASE Process
    BY <1>4, StepProcess
  <1>5. CASE Restart
    <2>1. UNCHANGED <<next, cur, payload, sb, pusi, got, clean, from>>
      BY <1>5 DEF Restart, sender
    <2> QED BY <2>1, StepKept
  <1> QED BY <1>1, <1>2, <1>3, <1>4, <1>5 DEF Next

\* Whatever was lost, repeated or damaged before, two start indicators in good order bring
\* section_buf back in step with the sender: between two packets it holds exactly what was
\* sent of the section under way, and every section that began at the second indicator or
\* later was handed on, for every packet size and all sizes of sections.
THEOREM BackInStep == Spec => []InStep
  <1> DEFINE Inv == BufInv /\ CurInv /\ StepInv
  <1>1. Init => Inv
    BY InitBuf, InitStep
  <1>2. Inv /\ [Next]_vars => Inv'
    <2>1. Inv /\ Next => Inv'
      BY BufStep, CurStep, StepStep
    <2>2. Inv /\ UNCHANGED vars => Inv'
      <3>1. BufInv /\ UNCHANGED vars => BufInv'
        BY DEF vars, BufInv
      <3>2. CurInv /\ UNCHANGED vars => CurInv'
        BY DEF vars, CurInv
      <3>3. StepInv /\ UNCHANGED vars => StepInv'
        <4> SUFFICES ASSUME StepInv, UNCHANGED vars PROVE StepInv'
          OBVIOUS
        <4>1. UNCHANGED <<next, cur, payload, sb, pusi, got, clean, from>>
          BY DEF vars
        <4> QED BY <4>1, StepKept
      <3> QED BY <3>1, <3>2, <3>3
    <2> QED BY <2>1, <2>2
  <1>3. Inv => InStep
    <2> SUFFICES ASSUME Inv, Idle, clean = 2
                 PROVE  /\ sb.data = SentPart
                        /\ \A n \in from .. next - 1 : n \in got \/ (n = next - 1 /\ cur # << >>)
      BY DEF InStep
    <2>1. Ready
      BY IdleStep DEF Waiting
    <2>2. CASE cur = << >>
      BY <2>1, <2>2 DEF Ready, SentPart
    <2>3. CASE cur # << >>
      <3> DEFINE m == next - 1
                 k == Size(m) - Len(cur)
                 v == Take(Bytes(m), k)
      <3>1. /\ sb.data # << >> /\ Begins(sb.data, m) /\ m \in 1 .. Sections
            /\ Len(sb.data) = k
        BY <2>1, <2>3 DEF Ready, Holds
      <3>2. sb.data \in Seq(Byte) /\ cur \in Seq(Byte)
        BY DEF BufInv, Partial, SectionBuf
      <3>3. k \in Nat /\ k <= Size(m) /\ Size(m) \in Nat
        <4> HIDE DEF m
        <4>1. Size(m) \in Nat
          BY <3>1, AssemblyAssumption
        <4>2. Len(cur) \in Nat /\ Len(sb.data) \in Nat
          BY <3>2, LenProperties
        <4> QED BY <3>1, <4>1, <4>2
      <3>4. Bytes(m) \in Seq(Byte) /\ Len(Bytes(m)) = Size(m)
        BY <3>1, BytesProperties
      <3> HIDE DEF k, m
      <3>5. v \in Seq(Byte) /\ Len(v) = k /\ \A i \in 1 .. k : v[i] = Bytes(m)[i]
        BY <3>3, <3>4, TakeProperties
      <3>6. \A i \in 1 .. k : sb.data[i] = Bytes(m)[i]
        <4> TAKE i \in 1 .. k
        <4>1. i \in 1 .. Size(m)
          BY <3>3
        <4>2. Bytes(m)[i] = <<m, i>> /\ sb.data[i] = <<m, i>>
          BY <3>1, <4>1 DEF Bytes, Begins
        <4> QED BY <4>2
      <3> HIDE DEF v
      <3>7. sb.data = v
        <4>1. Len(sb.data) = Len(v) /\ \A i \in 1 .. Len(sb.data) : sb.data[i] = v[i]
          BY <3>1, <3>5, <3>6
        <4> QED BY <3>2, <3>5, <4>1, SeqEqual
      <3> QED BY <2>1, <2>3, <3>7 DEF Ready, SentPart, v, k, m
    <2> QED BY <2>2, <2>3
  <1> QED BY <1>1, <1>2, <1>3, PTL DEF Spec
=============================================================================
