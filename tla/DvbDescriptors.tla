--------------------------- MODULE DvbDescriptors ---------------------------
(***************************************************************************)
(* The DVB descriptors, lib/libucsi/dvb: for each of them what its codec   *)
(* checks and swaps (walk) and what its accessors and iterators expose     *)
(* (view), as programs of module Layout.                                   *)
(***************************************************************************)
EXTENDS Layout, Integers

(* Formats that are a single structure, or a structure and the rest.       *)

dvb_ac3_descriptor ==
    [walk |-> <<Struct(1)>>, view |-> <<Obj(1, {}), Rest(1)>>]

dvb_adaptation_field_data_descriptor ==
    [walk |-> <<Exactly(1), Step(1)>>, view |-> <<Obj(1, {})>>]

dvb_ancillary_data_descriptor ==
    [walk |-> <<Exactly(1), Step(1)>>, view |-> <<Obj(1, {})>>]

dvb_bouquet_name_descriptor == [walk |-> << >>, view |-> <<Rest(0)>>]

dvb_cable_delivery_descriptor ==
    [walk |-> <<Exactly(11), Step(11), Swaps({W(0), H(4), W(7)})>>,
     view |-> <<Obj(11, {W(0), H(4), W(7)})>>]

dvb_component_descriptor ==
    [walk |-> <<Struct(6)>>, view |-> <<Obj(6, {}), Rest(6)>>]

dvb_default_authority_descriptor == [walk |-> << >>, view |-> <<Rest(0)>>]

dvb_dsng_descriptor == [walk |-> << >>, view |-> <<Rest(0)>>]

dvb_ip_platform_name_descriptor ==
    [walk |-> <<Struct(3)>>, view |-> <<Obj(3, {}), Rest(3)>>]

dvb_ip_platform_provider_name_descriptor ==
    [walk |-> <<Struct(3)>>, view |-> <<Obj(3, {}), Rest(3)>>]

dvb_ip_mac_stream_location_descriptor ==
    [walk |-> <<Exactly(9), Step(9), Swaps({H(0), H(2), H(4), H(6)})>>,
     view |-> <<Obj(9, {H(0), H(2), H(4), H(6)})>>]

dvb_network_name_descriptor == [walk |-> << >>, view |-> <<Rest(0)>>]

dvb_partial_transport_stream_descriptor ==
    [walk |-> <<Exactly(8), Step(8), Swaps({<<0, 8>>})>>,
     view |-> <<Obj(8, {<<0, 8>>})>>]

dvb_pdc_descriptor ==
    [walk |-> <<Exactly(3), Step(3), Swaps({T(0)})>>, view |-> <<Obj(3, {T(0)})>>]

dvb_private_data_specifier_descriptor ==
    [walk |-> <<Exactly(4), Step(4), Swaps({W(0)})>>, view |-> <<Obj(4, {W(0)})>>]

dvb_related_content_descriptor == [walk |-> << >>, view |-> << >>]

dvb_satellite_delivery_descriptor ==
    [walk |-> <<Struct(11), Swaps({W(0), H(4), W(7)})>>,
     view |-> <<Obj(11, {W(0), H(4), W(7)})>>]

dvb_scrambling_descriptor ==
    [walk |-> <<Exactly(1), Step(1)>>, view |-> <<Obj(1, {})>>]

dvb_service_identifier_descriptor == [walk |-> << >>, view |-> <<Rest(0)>>]

dvb_service_move_descriptor ==
    [walk |-> <<Exactly(6), Step(6), Swaps({H(0), H(2), H(4)})>>,
     view |-> <<Obj(6, {H(0), H(2), H(4)})>>]

dvb_short_smoothing_buffer_descriptor ==
    [walk |-> <<Struct(1)>>, view |-> <<Obj(1, {}), Rest(1)>>]

dvb_stream_identifier_descriptor ==
    [walk |-> <<Exactly(1), Step(1)>>, view |-> <<Obj(1, {})>>]

dvb_stuffing_descriptor == [walk |-> << >>, view |-> <<Rest(0)>>]

dvb_terrestrial_delivery_descriptor ==
    [walk |-> <<Exactly(11), Step(11), Swaps({W(0), W(7)})>>,
     view |-> <<Obj(11, {W(0), W(7)})>>]

dvb_time_shifted_event_descriptor ==
    [walk |-> <<Exactly(4), Step(4), Swaps({H(0), H(2)})>>,
     view |-> <<Obj(4, {H(0), H(2)})>>]

dvb_time_shifted_service_descriptor ==
    [walk |-> <<Exactly(2), Step(2), Swaps({H(0)})>>, view |-> <<Obj(2, {H(0)})>>]

dvb_time_slice_fec_identifier_descriptor ==
    [walk |-> <<Struct(3)>>, view |-> <<Obj(3, {}), Rest(3)>>]

dvb_transport_stream_descriptor == [walk |-> << >>, view |-> <<Rest(0)>>]

-----------------------------------------------------------------------------
(* Formats that are an array of entries of one size: len % n is checked,   *)
(* every entry is swapped.                                                 *)

\* An array of structures of n bytes, of which the codec swaps the members in swapped.
ArrayOf(n, swapped, fields) ==
    [walk |-> <<Divides(ToEnd, n), Each(<<Step(n), Swaps(swapped)>>)>>,
     view |-> <<Items(<<Obj(n, fields)>>)>>]

dvb_application_signalling_descriptor == ArrayOf(3, {H(0)}, {H(0)})

dvb_content_descriptor == ArrayOf(2, {}, {})

dvb_local_time_offset_descriptor == ArrayOf(13, {}, {})

dvb_nvod_reference_descriptor == ArrayOf(6, {H(0), H(2), H(4)}, {H(0), H(2), H(4)})

dvb_parental_rating_descriptor == ArrayOf(4, {}, {})

dvb_rnt_rnt_scan_descriptor == ArrayOf(5, {H(0), H(2)}, {H(0), H(2)})

dvb_service_list_descriptor == ArrayOf(3, {H(0)}, {H(0)})

dvb_subtitling_descriptor == ArrayOf(8, {H(4), H(6)}, {H(4), H(6)})

dvb_target_ip_slash_descriptor == ArrayOf(5, {}, {})

dvb_target_ip_source_slash_descriptor == ArrayOf(10, {}, {})

dvb_target_ipv6_slash_descriptor == ArrayOf(17, {}, {})

dvb_target_ipv6_source_slash_descriptor == ArrayOf(34, {}, {})

dvb_teletext_descriptor == ArrayOf(5, {}, {})

dvb_tva_id_descriptor == ArrayOf(3, {H(0)}, {H(0)})

dvb_vbi_teletext_descriptor == ArrayOf(5, {}, {})

-----------------------------------------------------------------------------
(* Arrays of 16 or 32 bit integers, read through a pointer and a count.    *)

dvb_ca_identifier_descriptor ==
    [walk |-> <<Divides(ToEnd, 2), Each(<<Step(2), Swaps({H(0)})>>)>>,
     view |-> <<Units(2)>>]

dvb_frequency_list_descriptor ==
    [walk |-> <<Step(1), Divides(ToEnd, 4), Each(<<Step(4), Swaps({W(0)})>>)>>,
     view |-> <<Obj(1, {}), Units(4)>>]

dvb_service_availability_descriptor ==
    [walk |-> <<Step(1), Divides(ToEnd, 2), Each(<<Step(2), Swaps({H(0)})>>)>>,
     view |-> <<Obj(1, {}), Units(2)>>]

-----------------------------------------------------------------------------
(* Formats with lengths inside.                                            *)

\* The codec steps over 3 of the 5 bytes of a profile.
dvb_ait_application_descriptor_codec ==
    <<Struct(1), Fits(U8(0)), Divides(U8(0), 5),
      EachIn(U8(0), <<Step(3), Swaps({H(0)})>>), Need(2)>>

dvb_ait_application_descriptor ==
    [walk |-> dvb_ait_application_descriptor_codec,
     view |-> <<Obj(1, {}), ItemsIn(U8(0), <<Obj(5, {H(0)})>>), Obj(2, {}), Bytes(ToEnd)>>]

dvb_ait_application_icons_descriptor ==
    [walk |-> <<Struct(1), Take(U8(0)), Struct(2), Swaps({H(0)})>>,
     view |-> <<Obj(1, {}), Bytes(U8(0)), Obj(2, {H(0)}), Bytes(ToEnd)>>]

\* Mutant: the cursor stays where it is.
NamesWalk_stuck == Each(<<Need(4), Step(0), Fits(U8(3))>>)

\* Names in several languages: three letters, a length, a name.
NamesWalk == Each(<<Struct(4), Take(U8(3))>>)
NamesView == Items(<<Obj(4, {}), Bytes(U8(3))>>)

dvb_ait_application_name_descriptor == [walk |-> <<NamesWalk>>, view |-> <<NamesView>>]

dvb_multilingual_bouquet_name_descriptor ==
    [walk |-> <<NamesWalk>>, view |-> <<NamesView>>]

dvb_multilingual_network_name_descriptor ==
    [walk |-> <<NamesWalk>>, view |-> <<NamesView>>]

dvb_multilingual_component_descriptor ==
    [walk |-> <<Struct(1), NamesWalk>>, view |-> <<Obj(1, {}), NamesView>>]

\* The 16 bit application_id is swapped as 32 bits.
dvb_ait_external_application_authorisation_descriptor ==
    [walk |-> <<Divides(ToEnd, 7), Each(<<Step(7), Swaps({W(0), W(4)})>>)>>,
     view |-> <<Items(<<Obj(7, {W(0), H(4)})>>)>>]

\* reference_type 1, 2 and 3 are followed by a reference.
Reference == Tag(0, {0, 1})

dvb_announcement_support_descriptor_codec ==
    <<Struct(2), Swaps({H(0)}),
      Each(<<Struct(1),
             When(Reference, {1}, <<Struct(7), Swaps({H(0), H(2), H(4)})>>)>>)>>

dvb_announcement_support_descriptor ==
    [walk |-> dvb_announcement_support_descriptor_codec,
     view |-> <<Obj(2, {H(0)}),
                Items(<<Obj(1, {}),
                        When(Reference, {1}, <<Obj(7, {H(0), H(2), H(4)})>>)>>)>>]

dvb_cell_frequency_link_descriptor_codec ==
    <<Each(<<Struct(7), Swaps({H(0), W(2)}), Fits(U8(6)), Divides(U8(6), 5),
             EachIn(U8(6), <<Step(5), Swaps({W(1)})>>)>>)>>

\* The iterator over the subcells does not count the cell's own structure.
dvb_cell_frequency_link_descriptor ==
    [walk |-> dvb_cell_frequency_link_descriptor_codec,
     view |-> <<Items(<<Obj(7, {H(0), W(2)}),
                        ItemsShort(U8(6), 7, <<Obj(5, {W(1)})>>)>>)>>]

\* subcell_info_loop_length is the last byte of the 32 bits at 6.
dvb_cell_list_descriptor_codec ==
    <<Each(<<Struct(10), Swaps({H(0), H(2), H(4), W(6)}),
             Fits(U32(6)), Divides(U32(6), 8),
             EachIn(U32(6), <<Step(8), Swaps({H(1), H(3), T(5)})>>)>>)>>

dvb_cell_list_descriptor ==
    [walk |-> dvb_cell_list_descriptor_codec,
     view |-> <<Items(<<Obj(10, {H(0), H(2), H(4), W(6)}),
                        ItemsIn(U32(6), <<Obj(8, {H(1), H(3), T(5)})>>)>>)>>]

\* For crid_location 1 the codec swaps the reference and reads it again as entries.
\* The iterator is not modelled.
dvb_content_identifier_descriptor_codec ==
    [walk |-> <<Each(<<Struct(1),
                       When(Bits(0, 1, {0, 1, 2}), {0}, <<Struct(1), Take(U8(0))>>),
                       When(Bits(0, 1, {0, 1, 2}), {1},
                            <<Need(2), Step(0), Swaps({H(0)})>>)>>),
                End>>,
     view |-> << >>]

\* Mutant: the iterator stops one country early.
dvb_country_availability_descriptor_early ==
    [walk |-> <<Struct(1), Divides(ToEnd, 3)>>,
     view |-> <<Obj(1, {}), ItemsShort(ToEnd, 3, <<Obj(3, {})>>)>>]

dvb_country_availability_descriptor ==
    [walk |-> <<Struct(1), Divides(ToEnd, 3)>>,
     view |-> <<Obj(1, {}), Items(<<Obj(3, {})>>)>>]

\* The codec swaps two bytes that are no integer, and reads text_length two bytes late.
dvb_data_broadcast_descriptor ==
    [walk |-> <<Struct(4), Swaps({H(2)}), Take(U8(3)), Struct(4), Skip(U8(5)), End>>,
     view |-> <<Obj(4, {H(0)}), Bytes(U8(3)), Obj(4, {}), Bytes(U8(3))>>]

dvb_data_broadcast_id_descriptor_codec == <<Struct(2), Swaps({H(0)})>>

\* Only for id 0x000b is the selector read further; its iterator swaps as it goes.
dvb_data_broadcast_id_descriptor ==
    [walk |-> dvb_data_broadcast_id_descriptor_codec,
     view |-> <<Obj(2, {H(0)}),
                When(Tag16(0, {0, 11}), {11},
                     <<Obj(1, {}),
                       ItemsShort(U8(0), 1, <<Obj(5, {W(0)}), Swaps({W(0)}), Go(1)>>),
                       Bytes(ToEnd)>>),
                When(Tag16(0, {0, 11}), {0}, <<Rest(2)>>)>>]

dvb_mhp_data_broadcast_id_descriptor ==
    [walk |-> dvb_data_broadcast_id_descriptor_codec
              \o <<OneOf(Tag16(0, {0, 240}), {240}), Divides(ToEnd, 2),
                   Each(<<Step(2), Swaps({H(0)})>>)>>,
     view |-> <<Obj(2, {H(0)}), Units(2)>>]

\* The lengths inside the items are not checked.
dvb_extended_event_descriptor_codec ==
    <<Struct(5), Take(U8(4)), Struct(1), Skip(U8(0)), End>>

dvb_extended_event_descriptor ==
    [walk |-> dvb_extended_event_descriptor_codec,
     view |-> <<Obj(5, {}),
                ItemsIn(U8(4), <<Obj(1, {}), Bytes(U8(0)), Obj(1, {}), Bytes(U8(0))>>),
                Obj(1, {}), Bytes(U8(0))>>]

\* linkage_type: mobile handover (0x08), IP/MAC notification (0x0b), deferred (0x0c).
LinkType == Tag(6, {0, 8, 11, 12})
HandoverType == Bits(0, 1, {0, 1})      \* 1, 2 and 3 are followed by a network
OriginType == Bits(0, 2, {0, 1})        \* 0 is followed by a service

\* The length of a platform's names is taken from 32 bits, its identifier included, and
\* the names are not checked.
dvb_linkage_descriptor_codec ==
    <<Struct(7), Swaps({H(0), H(2), H(4)}),
      When(LinkType, {8},
           <<Struct(1),
             When(HandoverType, {1}, <<Struct(2), Swaps({H(0)})>>),
             When(OriginType, {0}, <<Struct(2), Swaps({H(0)})>>)>>),
      When(LinkType, {11},
           <<Struct(1), Fits(U8(0)),
             EachIn(U8(0), <<Step(0), Swaps({W(0)}), Fits(U32(0)), Go(4), Skip(U32(0))>>)>>),
      When(LinkType, {12},
           <<Struct(1),
             When(Tag(0, {0, 2}), {2}, <<Need(2), Step(0), Swaps({H(0)})>>)>>)>>

dvb_linkage_data_08 ==
    <<Obj(1, {}),
      When(HandoverType, {1}, <<Obj(2, {H(0)})>>),
      When(OriginType, {0}, <<Obj(2, {H(0)})>>),
      Bytes(ToEnd)>>

\* platform_name_loop_length is the last byte of the 32 bits at 0.
dvb_platform_id ==
    <<Obj(4, {W(0)}), ItemsShort(U32(0), 4, <<Obj(4, {}), Bytes(U8(3))>>)>>

dvb_linkage_data_0b == <<Obj(1, {}), ItemsShort(U8(0), 1, dvb_platform_id)>>

dvb_linkage_data_0c ==
    <<Obj(1, {}), When(Tag(0, {0, 2}), {2}, <<Obj(2, {H(0)})>>)>>

dvb_linkage_descriptor ==
    [walk |-> dvb_linkage_descriptor_codec,
     view |-> <<Obj(7, {H(0), H(2), H(4)}),
                When(LinkType, {8}, dvb_linkage_data_08),
                When(LinkType, {11}, dvb_linkage_data_0b),
                When(LinkType, {12}, dvb_linkage_data_0c),
                When(LinkType, {0}, <<Rest(7)>>)>>]

\* cell_linkage_info tells what the linkage of a logical cell is to.
CellLinkage == Tag(0, 0 .. 4)

dvb_mosaic_descriptor_codec ==
    <<Struct(1),
      Each(<<Struct(3), Swaps({H(0)}), Take(U8(2)), Struct(1),
             When(CellLinkage, {1}, <<Struct(2), Swaps({H(0)})>>),
             When(CellLinkage, {2, 3}, <<Struct(6), Swaps({H(0), H(2), H(4)})>>),
             When(CellLinkage, {4}, <<Struct(8), Swaps({H(0), H(2), H(4), H(6)})>>)>>)>>

dvb_mosaic_descriptor ==
    [walk |-> dvb_mosaic_descriptor_codec,
     view |-> <<Obj(1, {}),
                Items(<<Obj(3, {H(0)}), ItemsIn(U8(2), <<Obj(1, {})>>), Obj(1, {}),
                        When(CellLinkage, {1}, <<Obj(2, {H(0)})>>),
                        When(CellLinkage, {2, 3}, <<Obj(6, {H(0), H(2), H(4)})>>),
                        When(CellLinkage, {4},
                             <<Obj(8, {H(0), H(2), H(4), H(6)})>>)>>)>>]

dvb_multilingual_service_name_descriptor_codec ==
    <<Each(<<Struct(4), Take(U8(3)), Struct(1), Take(U8(0))>>)>>

dvb_multilingual_service_name_descriptor ==
    [walk |-> dvb_multilingual_service_name_descriptor_codec,
     view |-> <<Items(<<Obj(4, {}), Bytes(U8(3)), Obj(1, {}), Bytes(U8(0))>>)>>]

dvb_rnt_rar_over_dvb_stream_descriptor ==
    [walk |-> <<Struct(18), Swaps({H(11), H(13), H(15)}),
                When(Bits(10, 1, {0, 1}), {1}, <<Struct(7)>>)>>,
     view |-> <<Obj(18, {H(11), H(13), H(15)}),
                When(Bits(10, 1, {0, 1}), {1}, <<Obj(7, {})>>)>>]

dvb_rnt_rar_over_ip_descriptor ==
    [walk |-> <<Struct(12), Fits(U8(11))>>, view |-> <<Obj(12, {}), Bytes(U8(11))>>]

\* The scrambling sequence index and the input stream identifier.  The codec asks for
\* two bytes more than it uses, the accessors look at overlapping bytes.
SequenceSelector == Bits(0, 1, {0, 1})
MultipleStreams == Bits(0, 2, {0, 1})

\* Mutant: the second accessor steps back over the whole descriptor.
dvb_s2_satellite_delivery_descriptor_back ==
    [walk |-> <<Struct(1), Go(2), When(SequenceSelector, {1}, <<Go(3)>>),
                When(MultipleStreams, {1}, <<Go(1)>>), Need(0)>>,
     view |-> <<Obj(1, {}),
                When(SequenceSelector, {1}, <<Go(1), Obj(3, {}), Go(-6)>>),
                When(MultipleStreams, {1}, <<Obj(1, {})>>)>>]

dvb_s2_satellite_delivery_descriptor ==
    [walk |-> <<Struct(1), Go(2), When(SequenceSelector, {1}, <<Go(3)>>),
                When(MultipleStreams, {1}, <<Go(1)>>), Need(0)>>,
     view |-> <<Obj(1, {}),
                When(SequenceSelector, {1}, <<Go(1), Obj(3, {}), Go(-1)>>),
                When(MultipleStreams, {1}, <<Obj(1, {})>>)>>]

dvb_service_descriptor ==
    [walk |-> <<Struct(2), Take(U8(1)), Struct(1), Skip(U8(0)), End>>,
     view |-> <<Obj(2, {}), Bytes(U8(1)), Obj(1, {}), Bytes(U8(0))>>]

dvb_short_event_descriptor ==
    [walk |-> <<Struct(4), Take(U8(3)), Struct(1), Skip(U8(0)), End>>,
     view |-> <<Obj(4, {}), Bytes(U8(3)), Obj(1, {}), Bytes(U8(0))>>]

\* The iterators end a structure too early.
dvb_target_ip_address_descriptor ==
    [walk |-> <<Step(4), Divides(ToEnd, 4)>>,
     view |-> <<Obj(4, {}), ItemsShort(ToEnd, 4, <<Obj(4, {})>>)>>]

dvb_target_ipv6_address_descriptor ==
    [walk |-> <<Step(16), Divides(ToEnd, 16)>>,
     view |-> <<Obj(16, {}), ItemsShort(ToEnd, 16, <<Obj(16, {})>>)>>]

\* The five parts of a number, their lengths in bit fields.
NumberParts == <<Bits(1, 1, 0 .. 2), Bits(1, 2, 0 .. 2), Bits(1, 3, 0 .. 2),
                 Bits(2, 1, 0 .. 2), Bits(2, 2, 0 .. 2)>>

dvb_telephone_descriptor ==
    [walk |-> <<Struct(3)>> \o [i \in 1 .. 5 |-> Skip(NumberParts[i])] \o <<End>>,
     view |-> <<Obj(3, {})>> \o [i \in 1 .. 5 |-> Bytes(NumberParts[i])]]

dvb_vbi_data_descriptor_codec == <<Each(<<Struct(2), Take(U8(1))>>)>>

\* data_service_id 1, 2 and 4 to 7 have lines.
dvb_vbi_data_descriptor ==
    [walk |-> dvb_vbi_data_descriptor_codec,
     view |-> <<Items(<<Obj(2, {}),
                        When(Tag(0, {0, 1}), {1}, <<ItemsIn(U8(1), <<Obj(1, {})>>)>>),
                        When(Tag(0, {0, 1}), {0}, <<Bytes(U8(1))>>)>>)>>]

=============================================================================
