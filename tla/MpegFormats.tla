---------------------------- MODULE MpegFormats ----------------------------
(***************************************************************************)
(* The MPEG descriptors and tables, lib/libucsi/mpeg, as programs of       *)
(* module Layout: what a codec does (walk), what accessors and iterators   *)
(* expose (view).                                                          *)
(***************************************************************************)
EXTENDS Layout, Integers

(* Single structures, and a structure followed by data.                    *)

\* A descriptor of exactly n bytes of which the codec swaps the members in swapped.
Whole(n, swapped, fields) ==
    [walk |-> <<Exactly(n), Step(n), Swaps(swapped)>>, view |-> <<Obj(n, fields)>>]

mpeg_audio_stream_descriptor == Whole(1, {}, {})
mpeg_data_stream_alignment_descriptor == Whole(1, {}, {})
mpeg_external_es_id_descriptor == Whole(2, {H(0)}, {H(0)})
mpeg_hierarchy_descriptor == Whole(4, {}, {})
mpeg_ibp_descriptor == Whole(2, {H(0)}, {H(0)})
mpeg_maximum_bitrate_descriptor == Whole(3, {T(0)}, {T(0)})
mpeg_metadata_std_descriptor == Whole(9, {T(0), T(3), T(6)}, {T(0), T(3), T(6)})
mpeg4_audio_descriptor == Whole(1, {}, {})
mpeg4_video_descriptor == Whole(1, {}, {})
mpeg_multiplex_buffer_descriptor == Whole(6, {<<0, 6>>}, {<<0, 6>>})
mpeg_multiplex_buffer_utilization_descriptor == Whole(4, {H(0), H(2)}, {H(0), H(2)})
mpeg_private_data_indicator_descriptor == Whole(4, {W(0)}, {W(0)})
mpeg_sl_descriptor == Whole(2, {H(0)}, {H(0)})
mpeg_smoothing_buffer_descriptor == Whole(6, {<<0, 6>>}, {<<0, 6>>})
mpeg_std_descriptor == Whole(1, {}, {})
mpeg_system_clock_descriptor == Whole(2, {}, {})
mpeg_target_background_grid_descriptor == Whole(4, {W(0)}, {W(0)})
mpeg_video_window_descriptor == Whole(4, {W(0)}, {W(0)})

mpeg_ca_descriptor ==
    [walk |-> <<Struct(4), Swaps({H(0), H(2)})>>,
     view |-> <<Obj(4, {H(0), H(2)}), Rest(4)>>]

mpeg_copyright_descriptor ==
    [walk |-> <<Struct(4), Swaps({W(0)})>>, view |-> <<Obj(4, {W(0)}), Rest(4)>>]

mpeg_registration_descriptor ==
    [walk |-> <<Struct(4), Swaps({W(0)})>>, view |-> <<Obj(4, {W(0)}), Rest(4)>>]

mpeg_iod_descriptor == [walk |-> <<Struct(2)>>, view |-> <<Obj(2, {}), Rest(2)>>]

mpeg_fmxbuffer_size_descriptor == [walk |-> << >>, view |-> <<Rest(0)>>]

mpeg_muxcode_descriptor == [walk |-> << >>, view |-> <<Rest(0)>>]

mpeg_fmc_descriptor ==
    [walk |-> <<Divides(ToEnd, 3), Each(<<Step(3), Swaps({H(0)})>>)>>,
     view |-> <<Items(<<Obj(3, {H(0)})>>)>>]

mpeg_iso_639_language_descriptor ==
    [walk |-> <<Divides(ToEnd, 4)>>, view |-> <<Items(<<Obj(4, {})>>)>>]

\* mpeg_1_only_flag 0: there is an extra structure.
Mpeg1Only == Bits(0, 1, {0, 1})

mpeg_video_stream_descriptor ==
    [walk |-> <<Struct(1), When(Mpeg1Only, {0}, <<Exactly(2), Step(2)>>)>>,
     view |-> <<Obj(1, {}), When(Mpeg1Only, {0}, <<Obj(2, {})>>)>>]

-----------------------------------------------------------------------------
(* The descriptors with optional parts.                                    *)

ApplicationFormat == Tag16(0, {0, 65535})
MetadataFormat == Tag(0, {0, 255})

\* A length and that many bytes: what the codec steps over.
RecordWalk == <<Struct(1), Take(U8(0))>>

\* The accessors of what follows a record add the byte after its length, not its length.
RecordView == <<Obj(1, {}), Data(U8(0)), Skip(U8(1))>>

ReferenceIdFlag == Bits(0, 1, {0, 1})
TimeBaseIndicator == Bits(0, 2, 0 .. 3)

mpeg_content_labelling_descriptor_codec ==
    <<Struct(2), Swaps({H(0)}),
      When(ApplicationFormat, {65535}, <<Struct(4), Swaps({W(0)})>>),
      Struct(1),
      When(ReferenceIdFlag, {1}, RecordWalk),
      When(TimeBaseIndicator, {1, 2}, <<Struct(10), Swaps({<<0, 5>>, <<5, 5>>})>>),
      When(TimeBaseIndicator, {2}, <<Struct(1)>>),
      When(TimeBaseIndicator, {3}, RecordWalk),
      Need(0)>>

\* The data is put behind a record the indicator says is not there.
TimeBaseView ==
    <<When(TimeBaseIndicator, {1, 2}, <<Obj(10, {<<0, 5>>, <<5, 5>>})>>),
      When(TimeBaseIndicator, {2}, <<Obj(1, {})>>),
      When(TimeBaseIndicator, {3}, <<Obj(1, {}), Data(U8(0)), Go(-1)>>),
      When(TimeBaseIndicator, {0, 1, 2}, <<Step(0), Go(1), Skip(U8(1))>>),
      Bytes(ToEnd)>>

\* The flags are looked for 4 bytes late when there is no identifier, and 4 bytes early
\* when there is one.
mpeg_content_labelling_descriptor ==
    [walk |-> mpeg_content_labelling_descriptor_codec,
     view |-> <<Obj(2, {H(0)}),
                When(ApplicationFormat, {65535}, <<Obj(4, {W(0)}), Go(-4)>>),
                When(ApplicationFormat, {0}, <<Go(4)>>),
                Obj(1, {}),
                When(ReferenceIdFlag, {1}, RecordView)>> \o TimeBaseView]

DsmCcFlag == Bits(1, 1, {0, 1})
DecoderConfigFlags == Bits(1, 2, {0, 1, 3, 4, 5})   \* 5 stands for 5 and 6

\* What both metadata descriptors begin with.
MetadataHeadWalk ==
    <<Struct(2), Swaps({H(0)}),
      When(ApplicationFormat, {65535}, <<Struct(4), Swaps({W(0)})>>),
      Struct(1),
      When(MetadataFormat, {255}, <<Struct(4), Swaps({W(0)})>>),
      Struct(2)>>

\* The accessor of the flags does not count the byte of the metadata format.
MetadataHeadView ==
    <<Obj(2, {H(0)}),
      When(ApplicationFormat, {65535}, <<Obj(4, {W(0)})>>),
      Obj(1, {}),
      When(MetadataFormat, {255}, <<Obj(4, {W(0)})>>),
      Go(-1), Obj(2, {})>>

mpeg_metadata_descriptor_codec ==
    MetadataHeadWalk
    \o <<When(DsmCcFlag, {1}, RecordWalk),
         When(DecoderConfigFlags, {1, 3, 5}, RecordWalk),
         When(DecoderConfigFlags, {4}, <<Struct(1)>>),
         Need(0)>>

mpeg_metadata_descriptor ==
    [walk |-> mpeg_metadata_descriptor_codec,
     view |-> MetadataHeadView
              \o <<When(DsmCcFlag, {1}, RecordView),
                   When(DecoderConfigFlags, {1, 3, 5}, RecordView),
                   When(DecoderConfigFlags, {4}, <<Obj(1, {})>>),
                   Bytes(ToEnd)>>]

LocatorFlag == Bits(1, 1, {0, 1})
CarriageFlags == Bits(1, 2, {0, 1, 3})              \* 0 stands for 0 and 2

mpeg_metadata_pointer_descriptor_codec ==
    MetadataHeadWalk
    \o <<When(LocatorFlag, {1}, RecordWalk),
         When(CarriageFlags, {0, 1}, <<Struct(2), Swaps({H(0)})>>),
         When(CarriageFlags, {1}, <<Struct(4), Swaps({H(0), H(2)})>>),
         Need(0)>>

\* The program number is returned when it is not there, and the private data is looked
\* for behind a carriage structure when that is not there.
mpeg_metadata_pointer_descriptor ==
    [walk |-> mpeg_metadata_pointer_descriptor_codec,
     view |-> MetadataHeadView
              \o <<When(LocatorFlag, {1}, RecordView),
                   When(CarriageFlags, {3}, <<Obj(2, {H(0)}), Go(-2)>>),
                   When(CarriageFlags, {0, 1}, <<Go(2)>>),
                   When(CarriageFlags, {1}, <<Obj(4, {H(0), H(2)}), Go(-4)>>),
                   When(CarriageFlags, {0, 3}, <<Go(4)>>),
                   Bytes(ToEnd)>>]

-----------------------------------------------------------------------------
(* Tables.                                                                 *)

\* The codec does not ask whether the section is as long as its header and its CRC:
\* the length it gives to verify_descriptors() wraps when it is not.  The accessors do.
mpeg_cat_section_codec == <<verify_descriptors(SizeLeft)>>

mpeg_cat_section ==
    [walk |-> mpeg_cat_section_codec, view |-> <<next_descriptor(ToEnd)>>]

\* As for a CAT.
mpeg_tsdt_section_codec == <<verify_descriptors(SizeLeft)>>

mpeg_tsdt_section ==
    [walk |-> mpeg_tsdt_section_codec, view |-> <<next_descriptor(ToEnd)>>]

\* Nothing is checked: the length of the data is negative when the section is too short.
mpeg_metadata_section == [walk |-> << >>, view |-> <<Rest(0)>>]

\* The codec checks nothing: the 9 bytes of the header need not be there, and the
\* length of the data is a size_t.
datagram_section == [walk |-> << >>, view |-> <<Obj(9, {}), Bytes(SizeLeft)>>]

\* stream_count 0 announces one stream without an fmc byte.  Its length must leave
\* something over, and then nothing may be left over.
mpeg_odsmt_section_codec ==
    <<Struct(1),
      When(U8(0), {0}, <<Struct(3), Swaps({H(0)}), Below(U8(2)),
                         verify_descriptors(U8(2))>>),
      Times(U8(0), <<Struct(4), Swaps({H(0)}), Fits(U8(3)),
                     verify_descriptors(U8(3))>>),
      End>>

mpeg_odsmt_stream == <<Obj(4, {H(0)}), next_descriptor(U8(3))>>

\* The streams end where the section does; there are stream_count of them.
mpeg_odsmt_section ==
    [walk |-> mpeg_odsmt_section_codec, view |-> <<Obj(1, {}), Items(mpeg_odsmt_stream)>>]

mpeg_pat_section_codec == <<Need(0), Each(<<Struct(4), Swaps({H(0), H(2)})>>), End>>

mpeg_pat_section ==
    [walk |-> mpeg_pat_section_codec, view |-> <<Items(<<Obj(4, {H(0), H(2)})>>)>>]

\* Mutant: the length of a stream's descriptors is not swapped.
mpeg_pmt_section_codec_unswapped ==
    <<Struct(4), Swaps({H(0), H(2)}), Fits(U16(2)), verify_descriptors(U16(2)),
      Each(<<Struct(5), Swaps({H(1)}), Fits(U16(3)), verify_descriptors(U16(3))>>),
      End>>

mpeg_pmt_section_codec ==
    <<Struct(4), Swaps({H(0), H(2)}), Fits(U16(2)), verify_descriptors(U16(2)),
      Each(<<Struct(5), Swaps({H(1), H(3)}), Fits(U16(3)), verify_descriptors(U16(3))>>),
      End>>

mpeg_pmt_section ==
    [walk |-> mpeg_pmt_section_codec,
     view |-> <<Obj(4, {H(0), H(2)}), next_descriptor(U16(2)),
                Items(<<Obj(5, {H(1), H(3)}), next_descriptor(U16(3))>>)>>]

-----------------------------------------------------------------------------
(* The header of a section, and the transport packet, lib/libucsi.         *)

section_codec == <<Struct(3), Swaps({H(1)}), Fills(U16(1))>>

section == [walk |-> section_codec, view |-> <<Obj(3, {H(1)}), Bytes(U16(1))>>]

\* The CRC, which covers the unswapped bytes, is not modelled.  That a section is long
\* enough for the longer header is not checked.
section_ext_decode ==
    section_codec \o <<OneOf(Bits(1, 1, {0, 1}), {1}), Swaps({H(3)})>>

section_ext == [walk |-> section_ext_decode, view |-> <<Obj(8, {H(1), H(3)})>>]

\* adaptation_field_control: 2 is an adaptation field, 1 a payload.
AdaptationField == Bits(3, 1, {0, 1})
PayloadField == Bits(3, 2, {0, 1})

\* A value of n bytes that flag f announces, inside the adaptation field.
Announced(f, n) == When(Bits(0, f, {0, 1}), {1}, <<NeedIn(n), Obj(n, {})>>)

\* The extension's values are compared with the end of the field around it.
ExtensionWalk == <<Obj(1, {}), Announced(1, 2), Announced(2, 3), Announced(3, 5)>>

AdaptationWalk ==
    <<Obj(1, {}),
      Announced(1, 6), Announced(2, 6), Announced(3, 1),
      When(Bits(0, 4, {0, 1}), {1},
           <<NeedIn(1), Step(1), FitsIn(U8(0)), Bytes(U8(0))>>),
      When(Bits(0, 5, {0, 1}), {1},
           <<NeedIn(1), Step(1), FitsIn(U8(0)),
             When(U8(0), Lengths \ {0}, ExtensionWalk)>>)>>

\* A packet has 188 bytes; Need stands for that.
transport_packet_values_extract ==
    <<Need(12), Step(4),
      When(AdaptationField, {1}, <<Step(1), Fits(U8(0)), Area(U8(0), AdaptationWalk)>>)>>

transport_packet ==
    [walk |-> transport_packet_values_extract,
     view |-> <<Obj(4, {}), When(AdaptationField, {1}, <<Obj(1, {}), Bytes(U8(0))>>),
                When(PayloadField, {1}, <<Bytes(ToEnd)>>)>>]

=============================================================================
