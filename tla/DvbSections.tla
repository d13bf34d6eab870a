---------------------------- MODULE DvbSections ----------------------------
(***************************************************************************)
(* The DVB tables, lib/libucsi/dvb: for each section what its codec does   *)
(* (x_section_codec, from x_section.c) and what its accessors and          *)
(* iterators expose (x_section, from x_section.h).                         *)
(***************************************************************************)
EXTENDS Layout

\* Two loops of descriptors, the second inside a loop of transport streams.  The length
\* of the loop of transport streams is swapped but not compared with the section's.
dvb_bat_section_codec ==
    <<Struct(2), Swaps({H(0)}), Fits(U16(0)), verify_descriptors(U16(0)),
      Struct(2), Swaps({H(0)}),
      Each(<<Struct(6), Swaps({H(0), H(2), H(4)}), Fits(U16(4)),
             verify_descriptors(U16(4))>>),
      End>>

dvb_bat_transport == <<Obj(6, {H(0), H(2), H(4)}), next_descriptor(U16(4))>>

dvb_bat_section ==
    [walk |-> dvb_bat_section_codec,
     view |-> <<Obj(2, {H(0)}), next_descriptor(U16(0)), Obj(2, {H(0)}),
                ItemsIn(U16(0), dvb_bat_transport)>>]

dvb_dit_section == [walk |-> <<Struct(1)>>, view |-> <<Obj(1, {})>>]

dvb_eit_section_codec ==
    <<Struct(6), Swaps({H(0), H(2)}),
      Each(<<Struct(12), Swaps({H(0), H(10)}), Fits(U16(10)),
             verify_descriptors(U16(10))>>),
      End>>

dvb_eit_section ==
    [walk |-> dvb_eit_section_codec,
     view |-> <<Obj(6, {H(0), H(2)}),
                Items(<<Obj(12, {H(0), H(10)}), next_descriptor(U16(10))>>)>>]

\* The two loops of a target and its operations are swapped before it is known that
\* they are there, and the room for the second is computed unsigned.
dvb_int_section_codec ==
    <<Struct(6), Swaps({W(0), H(4)}), Fits(U16(4)), verify_descriptors(U16(4)),
      Each(<<Step(0), Swaps({H(0)}), Fits(U16(0)), Go(2), verify_descriptors(U16(0)),
             Step(0), Swaps({H(0)}), Room(U16(0)), Go(2), verify_descriptors(U16(0))>>)>>

\* A target and its operational loop.
dvb_int_target ==
    <<Obj(2, {H(0)}), next_descriptor(U16(0)), Obj(2, {H(0)}), next_descriptor(U16(0))>>

dvb_int_section ==
    [walk |-> dvb_int_section_codec,
     view |-> <<Obj(6, {W(0), H(4)}), next_descriptor(U16(4)), Items(dvb_int_target)>>]

\* As in a BAT, the length of the loop of transport streams is not compared.
dvb_nit_section_codec ==
    <<Struct(2), Swaps({H(0)}), Fits(U16(0)), verify_descriptors(U16(0)),
      Struct(2), Swaps({H(0)}),
      Each(<<Struct(6), Swaps({H(0), H(2), H(4)}), Fits(U16(4)),
             verify_descriptors(U16(4))>>),
      End>>

dvb_nit_transport == <<Obj(6, {H(0), H(2), H(4)}), next_descriptor(U16(4))>>

dvb_nit_section ==
    [walk |-> dvb_nit_section_codec,
     view |-> <<Obj(2, {H(0)}), next_descriptor(U16(0)), Obj(2, {H(0)}),
                ItemsIn(U16(0), dvb_nit_transport)>>]

dvb_rst_section_codec ==
    <<Each(<<Struct(9), Swaps({H(0), H(2), H(4), H(6)})>>), End>>

dvb_rst_section ==
    [walk |-> dvb_rst_section_codec,
     view |-> <<Items(<<Obj(9, {H(0), H(2), H(4), H(6)})>>)>>]

\* Mutant: the length of a service's descriptors is not compared with the section's.
dvb_sdt_section_codec_unchecked ==
    <<Struct(3), Swaps({H(0)}),
      Each(<<Struct(5), Swaps({H(0), H(3)}), verify_descriptors(U16(3))>>),
      End>>

dvb_sdt_section_codec ==
    <<Struct(3), Swaps({H(0)}),
      Each(<<Struct(5), Swaps({H(0), H(3)}), Fits(U16(3)), verify_descriptors(U16(3))>>),
      End>>

dvb_sdt_section ==
    [walk |-> dvb_sdt_section_codec,
     view |-> <<Obj(3, {H(0)}),
                Items(<<Obj(5, {H(0), H(3)}), next_descriptor(U16(3))>>)>>]

\* The codec also swaps the two bytes behind the structure of a service.
dvb_sit_section_codec ==
    <<Struct(2), Swaps({H(0)}), Fits(U16(0)), verify_descriptors(U16(0)),
      Each(<<Struct(4), Swaps({H(0), H(2), H(4)}), Fits(U16(2)),
             verify_descriptors(U16(2))>>),
      End>>

dvb_sit_section ==
    [walk |-> dvb_sit_section_codec,
     view |-> <<Obj(2, {H(0)}), next_descriptor(U16(0)),
                Items(<<Obj(4, {H(0), H(2)}), next_descriptor(U16(2))>>)>>]

dvb_st_section == [walk |-> << >>, view |-> <<Rest(0)>>]

dvb_tdt_section == [walk |-> <<Exactly(5), Step(5)>>, view |-> <<Obj(5, {})>>]

dvb_tot_section_codec ==
    <<Struct(7), Swaps({H(5)}), Fits(U16(5)), verify_descriptors(U16(5)), End>>

dvb_tot_section ==
    [walk |-> dvb_tot_section_codec,
     view |-> <<Obj(7, {H(5)}), next_descriptor(U16(5))>>]

dvb_tva_container_section == [walk |-> <<Need(0)>>, view |-> <<Bytes(ToEnd)>>]

=============================================================================
