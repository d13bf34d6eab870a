----------------------------- MODULE AllFormats -----------------------------
(***************************************************************************)
(* The table and descriptor formats of libucsi, the application objects of *)
(* libdvben50221 and the structures of libesg, by name.                    *)
(***************************************************************************)
EXTENDS DvbDescriptors, DvbSections, MpegFormats, AtscFormats, AppFormats,
        EsgFormats, TLC

Formats ==
    "section" :> section @@
    "section_ext" :> section_ext @@
    "transport_packet" :> transport_packet @@
    "dvb_ac3_descriptor" :> dvb_ac3_descriptor @@
    "dvb_adaptation_field_data_descriptor" :> dvb_adaptation_field_data_descriptor @@
    "dvb_ancillary_data_descriptor" :> dvb_ancillary_data_descriptor @@
    "dvb_bouquet_name_descriptor" :> dvb_bouquet_name_descriptor @@
    "dvb_cable_delivery_descriptor" :> dvb_cable_delivery_descriptor @@
    "dvb_component_descriptor" :> dvb_component_descriptor @@
    "dvb_default_authority_descriptor" :> dvb_default_authority_descriptor @@
    "dvb_dsng_descriptor" :> dvb_dsng_descriptor @@
    "dvb_ip_platform_name_descriptor" :> dvb_ip_platform_name_descriptor @@
    "dvb_ip_platform_provider_name_descriptor" :> dvb_ip_platform_provider_name_descriptor @@
    "dvb_ip_mac_stream_location_descriptor" :> dvb_ip_mac_stream_location_descriptor @@
    "dvb_network_name_descriptor" :> dvb_network_name_descriptor @@
    "dvb_partial_transport_stream_descriptor" :> dvb_partial_transport_stream_descriptor @@
    "dvb_pdc_descriptor" :> dvb_pdc_descriptor @@
    "dvb_private_data_specifier_descriptor" :> dvb_private_data_specifier_descriptor @@
    "dvb_related_content_descriptor" :> dvb_related_content_descriptor @@
    "dvb_satellite_delivery_descriptor" :> dvb_satellite_delivery_descriptor @@
    "dvb_scrambling_descriptor" :> dvb_scrambling_descriptor @@
    "dvb_service_identifier_descriptor" :> dvb_service_identifier_descriptor @@
    "dvb_service_move_descriptor" :> dvb_service_move_descriptor @@
    "dvb_short_smoothing_buffer_descriptor" :> dvb_short_smoothing_buffer_descriptor @@
    "dvb_stream_identifier_descriptor" :> dvb_stream_identifier_descriptor @@
    "dvb_stuffing_descriptor" :> dvb_stuffing_descriptor @@
    "dvb_terrestrial_delivery_descriptor" :> dvb_terrestrial_delivery_descriptor @@
    "dvb_time_shifted_event_descriptor" :> dvb_time_shifted_event_descriptor @@
    "dvb_time_shifted_service_descriptor" :> dvb_time_shifted_service_descriptor @@
    "dvb_time_slice_fec_identifier_descriptor" :> dvb_time_slice_fec_identifier_descriptor @@
    "dvb_transport_stream_descriptor" :> dvb_transport_stream_descriptor @@
    "dvb_application_signalling_descriptor" :> dvb_application_signalling_descriptor @@
    "dvb_content_descriptor" :> dvb_content_descriptor @@
    "dvb_local_time_offset_descriptor" :> dvb_local_time_offset_descriptor @@
    "dvb_nvod_reference_descriptor" :> dvb_nvod_reference_descriptor @@
    "dvb_parental_rating_descriptor" :> dvb_parental_rating_descriptor @@
    "dvb_rnt_rnt_scan_descriptor" :> dvb_rnt_rnt_scan_descriptor @@
    "dvb_service_list_descriptor" :> dvb_service_list_descriptor @@
    "dvb_subtitling_descriptor" :> dvb_subtitling_descriptor @@
    "dvb_target_ip_slash_descriptor" :> dvb_target_ip_slash_descriptor @@
    "dvb_target_ip_source_slash_descriptor" :> dvb_target_ip_source_slash_descriptor @@
    "dvb_target_ipv6_slash_descriptor" :> dvb_target_ipv6_slash_descriptor @@
    "dvb_target_ipv6_source_slash_descriptor" :> dvb_target_ipv6_source_slash_descriptor @@
    "dvb_teletext_descriptor" :> dvb_teletext_descriptor @@
    "dvb_tva_id_descriptor" :> dvb_tva_id_descriptor @@
    "dvb_vbi_teletext_descriptor" :> dvb_vbi_teletext_descriptor @@
    "dvb_ca_identifier_descriptor" :> dvb_ca_identifier_descriptor @@
    "dvb_frequency_list_descriptor" :> dvb_frequency_list_descriptor @@
    "dvb_service_availability_descriptor" :> dvb_service_availability_descriptor @@
    "dvb_ait_application_descriptor" :> dvb_ait_application_descriptor @@
    "dvb_ait_application_icons_descriptor" :> dvb_ait_application_icons_descriptor @@
    "dvb_ait_application_name_descriptor" :> dvb_ait_application_name_descriptor @@
    "dvb_multilingual_bouquet_name_descriptor" :> dvb_multilingual_bouquet_name_descriptor @@
    "dvb_multilingual_network_name_descriptor" :> dvb_multilingual_network_name_descriptor @@
    "dvb_multilingual_component_descriptor" :> dvb_multilingual_component_descriptor @@
    "dvb_ait_external_application_authorisation_descriptor" :> dvb_ait_external_application_authorisation_descriptor @@
    "dvb_announcement_support_descriptor" :> dvb_announcement_support_descriptor @@
    "dvb_cell_frequency_link_descriptor" :> dvb_cell_frequency_link_descriptor @@
    "dvb_cell_list_descriptor" :> dvb_cell_list_descriptor @@
    "dvb_content_identifier_descriptor" :> dvb_content_identifier_descriptor_codec @@
    "dvb_country_availability_descriptor" :> dvb_country_availability_descriptor @@
    "dvb_data_broadcast_descriptor" :> dvb_data_broadcast_descriptor @@
    "dvb_data_broadcast_id_descriptor" :> dvb_data_broadcast_id_descriptor @@
    "dvb_mhp_data_broadcast_id_descriptor" :> dvb_mhp_data_broadcast_id_descriptor @@
    "dvb_extended_event_descriptor" :> dvb_extended_event_descriptor @@
    "dvb_linkage_descriptor" :> dvb_linkage_descriptor @@
    "dvb_mosaic_descriptor" :> dvb_mosaic_descriptor @@
    "dvb_multilingual_service_name_descriptor" :> dvb_multilingual_service_name_descriptor @@
    "dvb_rnt_rar_over_dvb_stream_descriptor" :> dvb_rnt_rar_over_dvb_stream_descriptor @@
    "dvb_rnt_rar_over_ip_descriptor" :> dvb_rnt_rar_over_ip_descriptor @@
    "dvb_s2_satellite_delivery_descriptor" :> dvb_s2_satellite_delivery_descriptor @@
    "dvb_service_descriptor" :> dvb_service_descriptor @@
    "dvb_short_event_descriptor" :> dvb_short_event_descriptor @@
    "dvb_target_ip_address_descriptor" :> dvb_target_ip_address_descriptor @@
    "dvb_target_ipv6_address_descriptor" :> dvb_target_ipv6_address_descriptor @@
    "dvb_telephone_descriptor" :> dvb_telephone_descriptor @@
    "dvb_vbi_data_descriptor" :> dvb_vbi_data_descriptor @@
    "dvb_bat_section" :> dvb_bat_section @@
    "dvb_dit_section" :> dvb_dit_section @@
    "dvb_eit_section" :> dvb_eit_section @@
    "dvb_int_section" :> dvb_int_section @@
    "dvb_nit_section" :> dvb_nit_section @@
    "dvb_rst_section" :> dvb_rst_section @@
    "dvb_sdt_section" :> dvb_sdt_section @@
    "dvb_sit_section" :> dvb_sit_section @@
    "dvb_st_section" :> dvb_st_section @@
    "dvb_tdt_section" :> dvb_tdt_section @@
    "dvb_tot_section" :> dvb_tot_section @@
    "dvb_tva_container_section" :> dvb_tva_container_section @@
    "mpeg_audio_stream_descriptor" :> mpeg_audio_stream_descriptor @@
    "mpeg_data_stream_alignment_descriptor" :> mpeg_data_stream_alignment_descriptor @@
    "mpeg_external_es_id_descriptor" :> mpeg_external_es_id_descriptor @@
    "mpeg_hierarchy_descriptor" :> mpeg_hierarchy_descriptor @@
    "mpeg_ibp_descriptor" :> mpeg_ibp_descriptor @@
    "mpeg_maximum_bitrate_descriptor" :> mpeg_maximum_bitrate_descriptor @@
    "mpeg_metadata_std_descriptor" :> mpeg_metadata_std_descriptor @@
    "mpeg4_audio_descriptor" :> mpeg4_audio_descriptor @@
    "mpeg4_video_descriptor" :> mpeg4_video_descriptor @@
    "mpeg_multiplex_buffer_descriptor" :> mpeg_multiplex_buffer_descriptor @@
    "mpeg_multiplex_buffer_utilization_descriptor" :> mpeg_multiplex_buffer_utilization_descriptor @@
    "mpeg_private_data_indicator_descriptor" :> mpeg_private_data_indicator_descriptor @@
    "mpeg_sl_descriptor" :> mpeg_sl_descriptor @@
    "mpeg_smoothing_buffer_descriptor" :> mpeg_smoothing_buffer_descriptor @@
    "mpeg_std_descriptor" :> mpeg_std_descriptor @@
    "mpeg_system_clock_descriptor" :> mpeg_system_clock_descriptor @@
    "mpeg_target_background_grid_descriptor" :> mpeg_target_background_grid_descriptor @@
    "mpeg_video_window_descriptor" :> mpeg_video_window_descriptor @@
    "mpeg_ca_descriptor" :> mpeg_ca_descriptor @@
    "mpeg_copyright_descriptor" :> mpeg_copyright_descriptor @@
    "mpeg_registration_descriptor" :> mpeg_registration_descriptor @@
    "mpeg_iod_descriptor" :> mpeg_iod_descriptor @@
    "mpeg_fmxbuffer_size_descriptor" :> mpeg_fmxbuffer_size_descriptor @@
    "mpeg_muxcode_descriptor" :> mpeg_muxcode_descriptor @@
    "mpeg_fmc_descriptor" :> mpeg_fmc_descriptor @@
    "mpeg_iso_639_language_descriptor" :> mpeg_iso_639_language_descriptor @@
    "mpeg_video_stream_descriptor" :> mpeg_video_stream_descriptor @@
    "mpeg_content_labelling_descriptor" :> mpeg_content_labelling_descriptor @@
    "mpeg_metadata_descriptor" :> mpeg_metadata_descriptor @@
    "mpeg_metadata_pointer_descriptor" :> mpeg_metadata_pointer_descriptor @@
    "mpeg_cat_section" :> mpeg_cat_section @@
    "mpeg_tsdt_section" :> mpeg_tsdt_section @@
    "mpeg_metadata_section" :> mpeg_metadata_section @@
    "datagram_section" :> datagram_section @@
    "mpeg_odsmt_section" :> mpeg_odsmt_section @@
    "mpeg_pat_section" :> mpeg_pat_section @@
    "mpeg_pmt_section" :> mpeg_pmt_section @@
    "atsc_ac3_descriptor" :> atsc_ac3_descriptor @@
    "atsc_caption_service_descriptor" :> atsc_caption_service_descriptor @@
    "atsc_component_name_descriptor" :> atsc_component_name_descriptor @@
    "atsc_content_advisory_descriptor" :> atsc_content_advisory_descriptor @@
    "atsc_dcc_arriving_request_descriptor" :> atsc_dcc_arriving_request_descriptor @@
    "atsc_dcc_departing_request_descriptor" :> atsc_dcc_departing_request_descriptor @@
    "atsc_extended_channel_name_descriptor" :> atsc_extended_channel_name_descriptor @@
    "atsc_genre_descriptor" :> atsc_genre_descriptor @@
    "atsc_rc_descriptor" :> atsc_rc_descriptor @@
    "atsc_service_location_descriptor" :> atsc_service_location_descriptor @@
    "atsc_stuffing_descriptor" :> atsc_stuffing_descriptor @@
    "atsc_time_shifted_service_descriptor" :> atsc_time_shifted_service_descriptor @@
    "atsc_cvct_section" :> atsc_cvct_section @@
    "atsc_tvct_section" :> atsc_tvct_section @@
    "atsc_dccsct_section" :> atsc_dccsct_section @@
    "atsc_dcct_section" :> atsc_dcct_section @@
    "atsc_eit_section" :> atsc_eit_section @@
    "atsc_ett_section" :> atsc_ett_section @@
    "atsc_mgt_section" :> atsc_mgt_section @@
    "atsc_rrt_section" :> atsc_rrt_section @@
    "atsc_stt_section" :> atsc_stt_section @@
    "en50221_app_auth_parse_request" :> en50221_app_auth_parse_request @@
    "en50221_app_teletext_parse_ebu" :> en50221_app_teletext_parse_ebu @@
    "en50221_app_datetime_parse_enquiry" :> en50221_app_datetime_parse_enquiry @@
    "en50221_app_epg_parse_reply" :> en50221_app_epg_parse_reply @@
    "en50221_app_dvb_parse_tune" :> en50221_app_dvb_parse_tune @@
    "en50221_app_dvb_parse_replace" :> en50221_app_dvb_parse_replace @@
    "en50221_app_dvb_parse_clear_replace" :> en50221_app_dvb_parse_clear_replace @@
    "en50221_app_smartcard_parse_command" :> en50221_app_smartcard_parse_command @@
    "en50221_app_rm_parse_profile_reply" :> en50221_app_rm_parse_profile_reply @@
    "en50221_app_ai_parse_app_info" :> en50221_app_ai_parse_app_info @@
    "en50221_app_ca_parse_info" :> en50221_app_ca_parse_info @@
    "en50221_app_ca_parse_reply" :> en50221_app_ca_parse_reply @@
    "en50221_app_smartcard_parse_send" :> en50221_app_smartcard_parse_send @@
    "en50221_app_lowspeed_parse_command" :> en50221_app_lowspeed_parse_command @@
    "en50221_app_lowspeed_parse_send" :> en50221_app_lowspeed_parse_send @@
    "en50221_app_mmi_parse_close" :> en50221_app_mmi_parse_close @@
    "en50221_app_mmi_parse_display_control" :> en50221_app_mmi_parse_display_control @@
    "en50221_app_mmi_parse_keypad_control" :> en50221_app_mmi_parse_keypad_control @@
    "en50221_app_mmi_parse_enq" :> en50221_app_mmi_parse_enq @@
    "en50221_app_mmi_parse_subtitle" :> en50221_app_mmi_parse_subtitle @@
    "en50221_app_mmi_parse_scene_end_mark" :> en50221_app_mmi_parse_scene_end_mark @@
    "en50221_app_mmi_parse_scene_control" :> en50221_app_mmi_parse_scene_control @@
    "en50221_app_mmi_parse_flush_download" :> en50221_app_mmi_parse_flush_download @@
    "en50221_app_mmi_parse_list_menu" :> en50221_app_mmi_parse_list_menu @@
    "esg_access_descriptor" :> esg_access_descriptor @@
    "esg_provider_discovery_descriptor" :> esg_provider_discovery_descriptor @@
    "esg_data_repository" :> esg_data_repository @@
    "esg_string_repository" :> esg_string_repository @@
    "esg_encapsulation_structure" :> esg_encapsulation_structure @@
    "esg_encapsulated_textual_esg_xml_fragment" :> esg_encapsulated_textual_esg_xml_fragment @@
    "esg_textual_decoder_init" :> esg_textual_decoder_init

\* The sections with the longer header of 8 bytes and a CRC, whose codec gets them from
\* section_ext_decode().
Extended ==
    {"dvb_bat_section", "dvb_eit_section", "dvb_int_section", "dvb_nit_section",
     "dvb_sdt_section", "dvb_sit_section", "dvb_tva_container_section",
     "mpeg_cat_section", "mpeg_metadata_section", "mpeg_odsmt_section",
     "mpeg_pat_section", "mpeg_pmt_section", "mpeg_tsdt_section"}

\* How many bytes may be missing of the header and the CRC of a section of format f:
\* section_ext_length() and the codec of the TOT subtract the CRC, and the codecs the
\* header, from a length nothing has compared with them.  A section with a CRC has a
\* length of 1 at least: no 3 bytes have the CRC 0.  The header of an ATSC section was
\* checked by atsc_section_psip_decode(), the other bodies have no header in them.
Missing(f) ==
    IF f \in Extended THEN 8
    ELSE IF f = "dvb_tot_section" THEN 3
    ELSE IF f = "datagram_section" THEN 4
    ELSE 0

=============================================================================
