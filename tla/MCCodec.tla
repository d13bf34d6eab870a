------------------------------ MODULE MCCodec ------------------------------
(***************************************************************************)
(* The longest body tried for each format: long enough that every loop of  *)
(* the format can go round, short where its lengths multiply the bodies.   *)
(***************************************************************************)
EXTENDS Codec, Mirror

AllLengths(f) ==
    CASE f = "dvb_target_ipv6_address_descriptor" -> 48
      [] f \in {"atsc_cvct_section", "atsc_tvct_section",
                "dvb_target_ipv6_slash_descriptor",
                "dvb_target_ipv6_source_slash_descriptor"} -> 37
      [] f = "atsc_dcct_section" -> 31
      [] f \in {"dvb_local_time_offset_descriptor", "dvb_cell_list_descriptor",
                "dvb_rnt_rar_over_dvb_stream_descriptor", "dvb_eit_section",
                "dvb_target_ip_source_slash_descriptor", "esg_access_descriptor"} -> 26
      [] f \in {"dvb_cell_frequency_link_descriptor", "dvb_ait_application_descriptor",
                "dvb_rnt_rar_over_ip_descriptor", "dvb_subtitling_descriptor",
                "dvb_rst_section", "atsc_mgt_section", "atsc_eit_section",
                "atsc_service_location_descriptor",
                "atsc_caption_service_descriptor"} -> 18
      [] f \in {"dvb_int_section", "atsc_content_advisory_descriptor"} -> 11
      [] f = "en50221_app_mmi_parse_list_menu" -> 15
      [] f = "dvb_vbi_data_descriptor" -> 9
      [] f \in {"atsc_rrt_section", "dvb_content_identifier_descriptor",
                "mpeg_cat_section", "mpeg_tsdt_section"} -> 7
      [] f \in {"dvb_bat_section", "dvb_nit_section", "atsc_dccsct_section",
                "mpeg_metadata_descriptor", "mpeg_metadata_pointer_descriptor",
                "mpeg_content_labelling_descriptor"} -> 5
      [] OTHER -> 12

\* The theorems of CodecProofs are about most of the formats, and about none of those
\* whose code does not keep a property.
ASSUME ClassAssumption ==
    /\ 3 * Cardinality(Mirrored) > 2 * Cardinality(DOMAIN Formats)
    /\ Mirrored \cap (Misswapped \cup Trusting \cup Untiled) = {}

=============================================================================
