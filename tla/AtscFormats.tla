---------------------------- MODULE AtscFormats ----------------------------
(***************************************************************************)
(* The ATSC descriptors and tables, lib/libucsi/atsc, as programs of       *)
(* module Layout.  The offsets of a table count from the end of the psip   *)
(* header of 9 bytes, whose presence atsc_section_psip_decode checks.      *)
(***************************************************************************)
EXTENDS Layout, Integers

(* Descriptors.                                                            *)

\* The codec asks for one byte more than the structure has.
atsc_ac3_descriptor == [walk |-> <<Need(4), Step(3)>>, view |-> <<Obj(3, {}), Rest(3)>>]

\* number_of_services entries.
atsc_caption_service_descriptor ==
    [walk |-> <<Struct(1), Times(U8(0), <<Struct(6), Swaps({H(4)})>>)>>,
     view |-> <<Obj(1, {}), Times(U8(0), <<Obj(6, {H(4)})>>)>>]

atsc_component_name_descriptor ==
    [walk |-> <<atsc_text_validate(ToEnd)>>, view |-> <<atsc_text(ToEnd)>>]

\* rating_region_count entries, each with rated_dimensions dimensions and a text.
atsc_content_advisory_descriptor_codec ==
    <<Struct(1),
      Times(U8(0), <<Struct(2), Times(U8(1), <<Struct(2)>>), Struct(1),
                     Fits(U8(0)), atsc_text_validate(U8(0))>>)>>

atsc_content_advisory_descriptor ==
    [walk |-> atsc_content_advisory_descriptor_codec,
     view |-> <<Obj(1, {}),
                Times(U8(0), <<Obj(2, {}), Times(U8(1), <<Obj(2, {})>>), Obj(1, {}),
                               atsc_text(U8(0))>>)>>]

atsc_dcc_arriving_request_descriptor ==
    [walk |-> <<Struct(2), Fills(U8(1)), atsc_text_validate(U8(1))>>,
     view |-> <<Obj(2, {}), atsc_text(ToEnd)>>]

atsc_dcc_departing_request_descriptor ==
    [walk |-> <<Struct(2), Fills(U8(1)), atsc_text_validate(U8(1))>>,
     view |-> <<Obj(2, {}), atsc_text(ToEnd)>>]

atsc_extended_channel_name_descriptor ==
    [walk |-> <<atsc_text_validate(ToEnd)>>, view |-> <<atsc_text(ToEnd)>>]

atsc_genre_descriptor ==
    [walk |-> <<Struct(1), Fills(U8(0))>>, view |-> <<Obj(1, {}), Bytes(U8(0))>>]

atsc_rc_descriptor == [walk |-> << >>, view |-> <<Rest(0)>>]

atsc_service_location_descriptor ==
    [walk |-> <<Struct(3), Swaps({H(0)}), Times(U8(2), <<Struct(6), Swaps({H(1)})>>)>>,
     view |-> <<Obj(3, {H(0)}), Times(U8(2), <<Obj(6, {H(1)})>>)>>]

atsc_stuffing_descriptor == [walk |-> << >>, view |-> <<Rest(0)>>]

atsc_time_shifted_service_descriptor ==
    [walk |-> <<Struct(1), Times(U8(0), <<Struct(5), Swaps({H(0), T(2)})>>)>>,
     view |-> <<Obj(1, {}), Times(U8(0), <<Obj(5, {H(0), T(2)})>>)>>]

-----------------------------------------------------------------------------
(* Tables.                                                                 *)

\* A length and a loop of descriptors: part2 of several structures.
Part2Walk == <<Struct(2), Swaps({H(0)}), Fits(U16(0)), verify_descriptors(U16(0))>>
Part2View == <<Obj(2, {H(0)}), next_descriptor(U16(0))>>

\* The members of a channel; its short_name stays in network order.
ChannelFields == {W(14), W(18), H(22), H(24), H(26), H(28), H(30)}
ChannelView == <<Obj(32, ChannelFields), next_descriptor(U16(30))>>

atsc_cvct_section_codec ==
    <<Struct(1),
      Times(U8(0), <<Struct(32), Swaps({W(14), W(18), H(22), H(24), H(26), H(28), H(30)}),
                     Fits(U16(30)), verify_descriptors(U16(30))>>)>>
    \o Part2Walk \o <<End>>

atsc_cvct_section ==
    [walk |-> atsc_cvct_section_codec,
     view |-> <<Obj(1, {}),
                Times(U8(0), ChannelView)>>
              \o Part2View]

atsc_tvct_section_codec ==
    <<Struct(1),
      Times(U8(0), <<Struct(32), Swaps({W(14), W(18), H(22), H(24), H(26), H(28), H(30)}),
                     Fits(U16(30)), verify_descriptors(U16(30))>>)>>
    \o Part2Walk \o <<End>>

atsc_tvct_section ==
    [walk |-> atsc_tvct_section_codec,
     view |-> <<Obj(1, {}),
                Times(U8(0), ChannelView)>>
              \o Part2View]

\* A new genre or state (1, 2) is a code and a text, a new county (3) three bytes and a
\* text.  The length of an update's descriptors is read at twice the right offset.
UpdateType == Tag(0, 0 .. 3)

atsc_dccsct_section_codec ==
    <<Struct(1),
      Times(U8(0),
            <<Struct(2), Fits(U8(1)),
              When(UpdateType, {1, 2},
                   <<AtLeast(U8(1), 1), Go(1), atsc_text_validate(Less(U8(1), 1))>>),
              When(UpdateType, {3},
                   <<AtLeast(U8(1), 3), Swaps({H(3)}), Go(3),
                     atsc_text_validate(Less(U8(1), 3))>>),
              When(UpdateType, {0}, <<Skip(U8(1))>>),
              Struct(2), Swaps({H(0)}), Fits(Twice(9)), verify_descriptors(Twice(9))>>)>>
    \o Part2Walk \o <<End>>

\* The names are looked for at the size of the code's structure from the update's
\* start, instead of from its end.
atsc_dccsct_update ==
    <<Obj(2, {}),
      When(UpdateType, {1, 2}, <<Obj(1, {}), Go(-1)>>),
      When(UpdateType, {1, 2}, <<Go(-1), atsc_text(Less(U8(1), 1)), Go(2)>>),
      When(UpdateType, {3}, <<Obj(3, {H(1)}), Go(-3)>>),
      When(UpdateType, {3}, <<Go(1), atsc_text(Less(U8(1), 3)), Go(2)>>),
      When(UpdateType, {0}, <<Skip(U8(1))>>)>>

atsc_dccsct_section ==
    [walk |-> atsc_dccsct_section_codec,
     view |-> <<Obj(1, {}),
                Times(U8(0), atsc_dccsct_update \o Part2View)>> \o Part2View]

TestFields == {T(0), T(3), W(6), W(10)}
TermFields == {<<1, 8>>, H(9)}

atsc_dcct_section_codec ==
    <<Struct(1),
      Times(U8(0),
            <<Struct(15), Swaps({T(0), T(3), W(6), W(10)}),
              Times(U8(14), <<Struct(11), Swaps({<<1, 8>>, H(9)}), Fits(U16(9)),
                              verify_descriptors(U16(9))>>)>>
            \o Part2Walk)>>
    \o Part2Walk \o <<End>>

atsc_dcct_term == <<Obj(11, TermFields), next_descriptor(U16(9))>>

atsc_dcct_test == <<Obj(15, TestFields), Times(U8(14), atsc_dcct_term)>>

atsc_dcct_section ==
    [walk |-> atsc_dcct_section_codec,
     view |-> <<Obj(1, {}),
                Times(U8(0), atsc_dcct_test \o Part2View)>> \o Part2View]

\* title_length is the last byte of the 32 bits at 6.
atsc_eit_section_codec ==
    <<Struct(1),
      Times(U8(0), <<Struct(10), Swaps({H(0), W(2), W(6)}), Fits(U32(6)),
                     atsc_text_validate(U32(6))>> \o Part2Walk),
      End>>

atsc_eit_section ==
    [walk |-> atsc_eit_section_codec,
     view |-> <<Obj(1, {}),
                Times(U8(0), <<Obj(10, {H(0), W(2), W(6)}), atsc_text(U32(6))>>
                             \o Part2View)>>]

atsc_ett_section_codec == <<Struct(4), Swaps({W(0)}), atsc_text_validate(ToEnd)>>

atsc_ett_section ==
    [walk |-> atsc_ett_section_codec, view |-> <<Obj(4, {W(0)}), atsc_text(ToEnd)>>]

atsc_mgt_section_codec ==
    <<Struct(2), Swaps({H(0)}),
      Times(U16(0), <<Struct(11), Swaps({H(0), H(2), W(5), H(9)}), Fits(U16(9)),
                      verify_descriptors(U16(9))>>)>>
    \o Part2Walk \o <<End>>

atsc_mgt_table == <<Obj(11, {H(0), H(2), W(5), H(9)}), next_descriptor(U16(9))>>

atsc_mgt_section ==
    [walk |-> atsc_mgt_section_codec,
     view |-> <<Obj(2, {H(0)}),
                Times(U16(0), atsc_mgt_table)>> \o Part2View]

\* A length and a text of that length.
TextWalk == <<Struct(1), Fits(U8(0)), atsc_text_validate(U8(0))>>
TextView == <<Obj(1, {}), atsc_text(U8(0))>>

\* The length of the last descriptors is not swapped.
atsc_rrt_section_codec ==
    TextWalk
    \o <<Struct(1),
         Times(U8(0), TextWalk
                      \o <<Struct(1), Times(U8(0), TextWalk \o TextWalk)>>),
         Struct(2), Fits(U16(0)), verify_descriptors(U16(0)), End>>

atsc_rrt_dimension_value == TextView \o TextView

atsc_rrt_dimension ==
    TextView \o <<Obj(1, {}), Times(U8(0), atsc_rrt_dimension_value)>>

atsc_rrt_section ==
    [walk |-> atsc_rrt_section_codec,
     view |-> TextView \o <<Obj(1, {}), Times(U8(0), atsc_rrt_dimension)>> \o Part2View]

atsc_stt_section_codec ==
    <<Struct(7), Swaps({W(0), H(5)}), verify_descriptors(ToEnd)>>

atsc_stt_section ==
    [walk |-> atsc_stt_section_codec,
     view |-> <<Obj(7, {W(0), H(5)}), next_descriptor(ToEnd)>>]

=============================================================================
