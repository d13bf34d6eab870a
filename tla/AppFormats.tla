----------------------------- MODULE AppFormats -----------------------------
(***************************************************************************)
(* The objects that the application resources of libdvben50221 receive     *)
(* from a CAM, as programs of module Layout: what the parse function       *)
(* checks and swaps (walk), what it hands to the application's callback    *)
(* (view).  The body is what follows the tag of the object.                *)
(***************************************************************************)
EXTENDS Layout, Integers

\* The lengths below 0x80 that are tried for an object; 14 bytes hold a menu.
ShortLengths == Lengths \cup {14}

\* The first byte of a length field: a length below 0x80, 0x81, 0x82 or anything else.
LengthField == Tag(0, ShortLengths \cup {129, 130, 131})

\* asn_1_decode, and what is done then with a length of one byte or of two.
asn_1_decode(byte, word) ==
    <<NeedIn(1), Step(1), OneOf(LengthField, ShortLengths \cup {129, 130}),
      When(LengthField, ShortLengths, byte),
      When(LengthField, {129}, <<NeedIn(1), Step(1)>> \o byte),
      When(LengthField, {130}, <<NeedIn(2), Step(2)>> \o word)>>

\* The length field in the view, and what is shown of the data.
Decoded(byte, word) ==
    <<Obj(1, {}),
      When(LengthField, ShortLengths, byte),
      When(LengthField, {129}, <<Obj(1, {})>> \o byte),
      When(LengthField, {130}, <<Obj(2, {})>> \o word)>>

\* An object of at least n bytes, handed over as it is.
AtLeastBytes(n) ==
    LET check(f) == <<Fits(f), AtLeast(f, n), Skip(f)>>
        show(f) == <<Bytes(f)>>
    IN  [walk |-> asn_1_decode(check(U8(0)), check(U16(0))),
         view |-> Decoded(show(U8(0)), show(U16(0)))]

\* A fixed length n in one byte, followed by that many bytes, or (exact) nothing else.
FixedBytes(n, exact) ==
    [walk |-> <<IF exact THEN Exactly(n + 1) ELSE Need(n + 1), Step(n + 1),
                OneOf(Tag(0, {n, n + 1}), {n})>>,
     view |-> <<Obj(n + 1, {})>>]

en50221_app_auth_parse_request == AtLeastBytes(2)
en50221_app_teletext_parse_ebu == AtLeastBytes(0)
en50221_app_datetime_parse_enquiry == FixedBytes(1, TRUE)
en50221_app_epg_parse_reply == FixedBytes(1, TRUE)
en50221_app_dvb_parse_tune == FixedBytes(8, FALSE)
en50221_app_dvb_parse_replace == FixedBytes(5, FALSE)
en50221_app_dvb_parse_clear_replace == FixedBytes(1, FALSE)
en50221_app_smartcard_parse_command == FixedBytes(1, TRUE)

\* The resource identifiers, as far as they are whole.
en50221_app_rm_parse_profile_reply ==
    LET check(f) == <<Fits(f), Loop(Less(f, 3), 0, <<Step(4), Swaps({W(0)})>>, "stay")>>
        show(f) == <<Loop(Less(f, 3), 0, <<Obj(4, {W(0)})>>, "stay")>>
    IN  [walk |-> asn_1_decode(check(U8(0)), check(U16(0))),
         view |-> Decoded(show(U8(0)), show(U16(0)))]

\* The menu string is cut off at the end of the object.
en50221_app_ai_parse_app_info == AtLeastBytes(6)

\* The CA system identifiers.
en50221_app_ca_parse_info ==
    LET check(f) == <<Fits(f), Loop(Less(f, 1), 0, <<Step(2), Swaps({H(0)})>>, "stay")>>
        show(f) == <<Loop(Less(f, 1), 0, <<Obj(2, {H(0)})>>, "stay")>>
    IN  [walk |-> asn_1_decode(check(U8(0)), check(U16(0))),
         view |-> Decoded(show(U8(0)), show(U16(0)))]

\* A program and its streams of three bytes; what is left over is taken for a stream.
en50221_app_ca_parse_reply ==
    LET check(f) == <<AtLeast(f, 4), Fits(f),
                      Area(f, <<Step(4), Swaps({H(0)}),
                                EachIn(InArea, <<Step(3), Swaps({H(0)})>>)>>)>>
        show(f) == <<Area(f, <<Obj(4, {H(0)}), ItemsIn(InArea, <<Obj(3, {H(0)})>>)>>)>>
    IN  [walk |-> asn_1_decode(check(U8(0)), check(U16(0))),
         view |-> Decoded(show(U8(0)), show(U16(0)))]

\* length_in bytes between a header of six and a trailer of two bytes.
en50221_app_smartcard_parse_send ==
    LET check(f) == <<AtLeast(f, 8), Fits(f), Area(f, <<Step(6), FillsIn(U16(4), 2)>>)>>
        show(f) == <<Area(f, <<Obj(6, {}), Bytes(U16(4)), Obj(2, {})>>)>>
    IN  [walk |-> asn_1_decode(check(U8(0)), check(U16(0))),
         view |-> Decoded(show(U8(0)), show(U16(0)))]

-----------------------------------------------------------------------------
(* Low speed communication.                                                *)

\* The type of a connection: telephone, cable channel or unknown.
DescriptorType == Tag(0, {1, 2, 3})

\* A connection descriptor, then the retry count and the timeout.
en50221_app_lowspeed_parse_connect_on_channel ==
    LET descriptor == <<Step(1), OneOf(DescriptorType, {1, 2}),
                        When(DescriptorType, {1}, <<NeedIn(2), Step(2), FillsIn(U8(1), 0)>>),
                        When(DescriptorType, {2}, <<ExactlyIn(1)>>)>>
        check(f) == <<FitsIn(f), AtLeast(f, 1), Area(f, descriptor)>>
    IN  <<NeedIn(3), Step(3), OneOf(Tag(0, {0, 1}), {1})>>
        \o asn_1_decode(check(U8(0)), check(U16(0))) \o <<ExactlyIn(2)>>

\* The command: connect on channel, disconnect, set parameters, enquire, get buffer.
CommandId == Tag(0, 1 .. 6)

en50221_app_lowspeed_parse_command ==
    LET check(f) ==
            <<AtLeast(f, 1), Fits(f),
              Area(f, <<Step(1), OneOf(CommandId, 1 .. 5),
                        When(CommandId, {1}, en50221_app_lowspeed_parse_connect_on_channel),
                        When(CommandId, {3}, <<ExactlyIn(2)>>),
                        When(CommandId, {5}, <<ExactlyIn(1)>>)>>)>>
        show(f) ==
            <<Area(f, <<Obj(1, {}),
                        When(CommandId, {1}, <<Bytes(InArea)>>),
                        When(CommandId, {3}, <<Obj(2, {})>>),
                        When(CommandId, {5}, <<Obj(1, {})>>)>>)>>
    IN  [walk |-> asn_1_decode(check(U8(0)), check(U16(0))),
         view |-> Decoded(show(U8(0)), show(U16(0)))]

\* A block that comes in one piece.
en50221_app_lowspeed_parse_send == AtLeastBytes(1)

-----------------------------------------------------------------------------
(* Man-machine interface.                                                  *)

\* A command, with one more byte if it is the one in more.
WithOption(more) ==
    [walk |-> <<Need(2), Step(1), Fits(U8(0)),
                When(Tag(1, {1, 2}), {more}, <<OneOf(U8(0), {2})>>)>>,
     view |-> <<Obj(2, {}), When(Tag(1, {1, 2}), {more}, <<Obj(1, {})>>)>>]

en50221_app_mmi_parse_close == WithOption(1)
en50221_app_mmi_parse_display_control == WithOption(1)
en50221_app_mmi_parse_keypad_control == AtLeastBytes(1)
en50221_app_mmi_parse_enq == AtLeastBytes(2)
en50221_app_mmi_parse_subtitle == AtLeastBytes(0)    \* one piece of it
en50221_app_mmi_parse_scene_end_mark == FixedBytes(1, TRUE)
en50221_app_mmi_parse_scene_control == FixedBytes(1, TRUE)
en50221_app_mmi_parse_flush_download == FixedBytes(0, TRUE)

\* The tag of a text: last, more or neither.
TextTag == Tag(0, {1, 2, 3})

\* One text, in up to two pieces.  The length of a piece is not checked.
en50221_app_mmi_defragment_text ==
    LET text == asn_1_decode(<<Skip(U8(0))>>, <<Skip(U16(0))>>)
        piece == <<NeedIn(3), Step(3), OneOf(TextTag, {1, 2})>>
    IN  piece \o <<When(TextTag, {2}, text \o piece
                                      \o <<OneOf(TextTag, {1})>>)>>
        \o text

\* The same texts as the application gets them.
Text ==
    LET shown == Decoded(<<Bytes(U8(0))>>, <<Bytes(U16(0))>>)
    IN  <<Obj(3, {}), When(TextTag, {2}, shown \o <<Obj(3, {})>>)>> \o shown

\* A title, a subtitle, a bottom line and the choices.
en50221_app_mmi_parse_list_menu ==
    LET check(f) == <<Fits(f), AtLeast(f, 1),
                      Area(f, <<Step(1), Times(Less(U8(0), -3),
                                               en50221_app_mmi_defragment_text)>>)>>
        show(f) == <<Area(f, <<Obj(1, {}), Times(Less(U8(0), -3), Text)>>)>>
    IN  [walk |-> asn_1_decode(check(U8(0)), check(U16(0))),
         view |-> Decoded(show(U8(0)), show(U16(0)))]

=============================================================================
