------------------------------- MODULE Layout -------------------------------
(***************************************************************************)
(* The vocabulary in which the table and descriptor formats of libucsi are *)
(* written down.  A format has two programs over a cursor in the body of a *)
(* section or descriptor:                                                  *)
(*   walk  what x_codec() does: its checks, its byte swaps, its loops;     *)
(*   view  what the structures, accessors and iterators of x then expose.  *)
(* A program is a sequence of the instructions below, run by module Codec. *)
(* Offsets count from the end of the generic header (2 bytes for a         *)
(* descriptor, 3 for a section, 8 for a section_ext), widths are in bytes. *)
(***************************************************************************)
EXTENDS Naturals, Sequences

CONSTANTS
    Lengths     \* the values tried for a length or count read from the body

ASSUME LengthsAssumption == Lengths \subseteq Nat /\ Lengths # {}

-----------------------------------------------------------------------------
(* Members of a structure, by offset from its start.                       *)

H(o) == <<o, 2>>                        \* uint16_t, or 16 bits of bit fields
T(o) == <<o, 3>>                        \* 24 bits
W(o) == <<o, 4>>                        \* uint32_t

\* A member whose value is used: a length or count, or (Tag, Bits) a selector of which
\* only the values in vals are told apart.  part tells bit fields of one byte apart,
\* less is subtracted from the value.
Member(o, w, p, vals) == [off |-> o, w |-> w, part |-> p, less |-> 0, vals |-> vals]
U8(o) == Member(o, 1, 0, Lengths)
U16(o) == Member(o, 2, 0, Lengths)
U32(o) == Member(o, 4, 0, Lengths)
Tag(o, vals) == Member(o, 1, 0, vals)
Tag16(o, vals) == Member(o, 2, 0, vals)
Bits(o, p, vals) == Member(o, 1, p, vals)
Less(f, k) == [f EXCEPT !.less = k]
ToEnd == Member(0, 0, 0, {})            \* no member: whatever is left of the body
InArea == Member(0, 0, 1, {})           \* the same of the area of a loop
SizeLeft == Member(0, 0, 3, {})         \* len - pos as a size_t, which may wrap

\* A 16 bit member of the structure that `(struct x *) buf + pos` points to: the
\* offset from the start of the section (head bytes before the body) is doubled.
Doubled == 99
Twice(head) == Member(head, 2, Doubled, Lengths)

-----------------------------------------------------------------------------
(* Instructions of both programs.                                          *)

Go(n) == [op |-> "go", n |-> n]                     \* pos += n
Skip(f) == [op |-> "skip", f |-> f]                 \* pos += f
When(f, vals, p) == [op |-> "when", f |-> f, vals |-> vals, body |-> p]
Times(f, p) == [op |-> "times", f |-> f, body |-> p]        \* for (i = 0; i < f; i++)
Loop(f, slack, p, exit) ==
    [op |-> "loop", f |-> f, slack |-> slack, body |-> p, exit |-> exit]

(* Instructions of a codec.  Each check returns NULL when it fails.        *)

Need(n) == [op |-> "need", n |-> n]                 \* pos + n > len
Fits(f) == [op |-> "fits", f |-> f]                 \* pos + f > len
Below(f) == [op |-> "below", f |-> f]               \* pos + f >= len
Fills(f) == [op |-> "fills", f |-> f]               \* pos + f != len
AtLeast(f, n) == [op |-> "atleast", f |-> f, n |-> n]       \* f < n
Room(f) == [op |-> "room", f |-> f]                 \* len - pos < f, both unsigned
Take(f) == [op |-> "take", f |-> f]                 \* pos += f, then pos > len
OneOf(f, vals) == [op |-> "oneof", f |-> f, vals |-> vals]
Exactly(n) == [op |-> "exactly", n |-> n]           \* len - pos != n
Divides(f, k) == [op |-> "divides", f |-> f, n |-> k]       \* f % k
NeedIn(n) == [op |-> "needin", n |-> n]             \* Need inside the area of a loop
FitsIn(f) == [op |-> "fitsin", f |-> f]             \* Fits inside the area of a loop
ExactlyIn(n) == [op |-> "exactlyin", n |-> n]       \* Exactly inside the area of a loop
FillsIn(f, n) == [op |-> "fillsin", f |-> f, n |-> n]       \* pos + f + n != end of the area
End == Exactly(0)
Step(n) == [op |-> "step", n |-> n]                 \* a structure, not checked
Swaps(s) == [op |-> "swaps", fields |-> s]          \* bswapNN() in the structure
Struct(n) == [op |-> "struct", n |-> n]             \* Need(n), then Step(n)
Each(p) == Loop(ToEnd, 0, p, "stay")                \* while (pos < len)
EachIn(f, p) == Loop(f, 0, p, "stay")               \* while (pos2 < f)

(* Instructions of a view.                                                 *)

Obj(n, fields) == [op |-> "obj", n |-> n, fields |-> fields]  \* a structure
Bytes(f) == [op |-> "bytes", f |-> f]               \* f bytes
Data(f) == [op |-> "data", f |-> f]                 \* f bytes, the cursor staying
Rest(n) == [op |-> "rest", n |-> n]                 \* x_length() is len - n
Units(w) == [op |-> "units", n |-> w]               \* array of w byte integers
Items(p) == Loop(ToEnd, 0, p, "jump")               \* x_first(), x_next() to the end
ItemsIn(f, p) == Loop(f, 0, p, "jump")              \* the same in f bytes
ItemsShort(f, k, p) == Loop(f, k, p, "jump")        \* the same, k bytes too early
Area(f, p) == Loop(f, 0, p, "once")                 \* p in f bytes, if there are any

\* verify_descriptors(buf + pos, f), followed by pos += f.
verify_descriptors(f) ==
    Loop(f, 0, <<NeedIn(2), Step(2), Skip(U8(1))>>, "exact")

\* The iteration with x_descriptors_first() and next_descriptor() over f bytes.
next_descriptor(f) == ItemsIn(f, <<Obj(2, {}), Bytes(U8(1))>>)

\* atsc_text_validate(buf + pos, f), followed by pos += f.
atsc_text_validate(f) ==
    Area(f, <<Step(1),
              Times(U8(0), <<NeedIn(4), Step(4),
                             Times(U8(3), <<NeedIn(3), Step(3),
                                            FitsIn(U8(2)), Skip(U8(2))>>)>>)>>)

\* The strings and segments of a text of f bytes.
atsc_text(f) ==
    Area(f, <<Obj(1, {}),
              Times(U8(0), <<Obj(4, {}),
                             Times(U8(3), <<Obj(3, {}), Bytes(U8(2))>>)>>)>>)

=============================================================================
