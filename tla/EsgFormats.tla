----------------------------- MODULE EsgFormats -----------------------------
(***************************************************************************)
(* The structures of the electronic service guide that libesg decodes, as  *)
(* programs of module Layout.  esg_x_decode() copies what it reads as it   *)
(* goes, so its reads belong to the walk; the integers are put together    *)
(* byte by byte and nothing is swapped.  A view is the part that is copied *)
(* as a block.  The variable lengths that vluimsbf8() reads are those of   *)
(* one byte, below 0x80.                                                   *)
(***************************************************************************)
EXTENDS Layout, Integers

\* The two addresses of an entry, IPv6 when bit p of the byte at o is set.
Addresses(o, p) ==
    <<When(Bits(o, p, {0, 1}), {1}, <<Obj(32, {})>>),
      When(Bits(o, p, {0, 1}), {0}, <<Obj(8, {})>>)>>

\* The length of an entry is checked, but is not what the entry then takes.
esg_access_descriptor ==
    [walk |-> <<Need(3), Obj(2, {}),
                Times(U16(0),
                      <<Obj(2, {}), Fits(U8(1)), Obj(3, {})>>
                      \o Addresses(0, 6) \o <<Obj(4, {})>>)>>,
     view |-> << >>]

\* The whole buffer, which may be empty.
esg_provider_discovery_descriptor == [walk |-> << >>, view |-> <<Rest(0)>>]

esg_data_repository == [walk |-> <<Need(1)>>, view |-> <<Rest(0)>>]

esg_string_repository == [walk |-> <<Need(2), Step(1)>>, view |-> <<Obj(1, {}), Rest(1)>>]

\* The only format of a fragment reference that is known.
ReferenceFormat == Tag(1, {33, 34})

\* Entries of 8 bytes while there is anything left.
esg_encapsulation_structure ==
    [walk |-> <<Need(3), Obj(2, {}),
                Each(<<OneOf(ReferenceFormat, {33}), Obj(8, {})>>)>>,
     view |-> << >>]

\* The length is compared with size - 2, which wraps for a fragment of one byte.
esg_encapsulated_textual_esg_xml_fragment ==
    [walk |-> <<Need(1), Step(2), Room(Less(U8(2), -1))>>,
     view |-> <<Obj(3, {}), Bytes(U8(2))>>]

\* The prefixes and fragment types are taken by their counts, not by the length.
esg_textual_decoder_init ==
    [walk |-> <<Need(2), Obj(2, {}), Fits(U8(1)),
                Obj(1, {}), Times(U8(0), <<Obj(4, {})>>),
                Obj(1, {}), Times(U8(0), <<Obj(4, {})>>)>>,
     view |-> << >>]

=============================================================================
