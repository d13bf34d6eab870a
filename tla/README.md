# A TLA+ model of dvb-apps

dvb-apps is a set of libraries and command line programs for Digital Video
Broadcasting on Linux. Its parts with state, concurrency or a protocol of their own
are `lib/libdvben50221`, the host side of the Common Interface (EN 50221) through
which a conditional access module (CAM) is driven; `lib/libucsi`, which makes tables
out of transport packets; `util/scan`, which walks through transponders; and
`util/gnutv`, whose threads share a CAM. This project models the CAM stack from the
bottom up to gnutv, the assembly of sections, the scanner, and the formats of the
sections, descriptors and objects that are received. The rest of the repository is
inventoried below.

## The system

| Component | State | Operations | Hard part |
|---|---|---|---|
| Transport layer, `en50221_transport.c` | slots; per slot an array of connections with a state, a response timer, a send queue and a chain buffer; the poll set | register and destroy a slot, open and delete a connection, send, poll; one handler per TPDU | API threads against the poll thread, which drops its lock around one callback; timers; two CAMs behind one file handle; writes that fail |
| Session layer, `en50221_session.c` | sessions with a state, a slot and a connection | create, destroy, send; handlers of session requests and responses; the transport callback | locks released between a decision and its effect |
| Standard CAM, `en50221_stdcam_*.c` | life cycle of the CAM, one session number per resource | poll, destroy, session and lookup callbacks | CAM removed at any time, one step of several failing |
| Application resources, `en50221_app_*.c` | callbacks; the MMI keeps pieces of menus by session number | one function per APDU | numbers used again; lengths a CAM chose |
| `libucsi`, assembly | a section being assembled; a continuity counter; the state of a table | add a packet's payload; check continuity; is this section useful | lost, repeated and damaged packets |
| `libucsi`, codecs | none between calls | one codec with accessors and iterators per section and descriptor | swaps in place, lengths from the air, ends computed by hand |
| `libesg` | none between calls | one decoder per structure | lengths from the air |
| `util/scan` | running and waiting section filters, transponders to scan | tune, start, stop and read filters, parse a section | a limit on filters, timeouts, an array rebuilt while it is walked, lists changed while they are walked |
| `util/gnutv`, `util/zap` | CAM thread, DVB thread, user interface, PMT version | poll, enter menu, answer, new PMT, stop | state shared by three threads without a lock |
| `libdvbapi`, `libdvbsec`, `libdvbcfg`, the other tools | none between calls | ioctls, parsing, printing | - |

The layers call down with plain function calls and are called back from below.
The application calls `en50221_tl_poll` in a loop from one thread; that call reads
from the CA device, parses TPDUs, and calls `en50221_sl_transport_callback`,
which calls the application. Other threads call `en50221_tl_*` and
`en50221_sl_*` at any time. `en50221_tl_destroy_slot` calls back as well, from the
thread that calls it.

What makes the parts correct:

* transport: what a connection goes through is what the layer above is told; a
  slot that is gone has nothing left in it; nothing leaks when a connection id is
  used again; every handshake ends;
* session: the upper layer is told of exactly the sessions that are active; no
  session outlives the report that its connection is closed;
* standard CAM and gnutv: the session number kept for a resource is that of an open
  session of it; a menu is made of its own pieces; an answer
  belongs to a question; the PMT reaches the CAM; nothing is used after it is freed;
* assembly: the buffer never overflows, comes back in step after any fault, and a
  table is complete only when it is;
* codecs: what is exposed is in host order, inside the body and complete, and decoding
  ends, whatever is received;
* scan: every filter is polled or waits, none outlives its transponder, no transponder
  is lost or scanned twice, and the scan ends.

## Modules

| Module | What it is |
|---|---|
| `TcService` | The connection service the transport layer gives: slots that are up, the phase of each connection, the connections announced to the layer above |
| `Transport` | `en50221_transport.c` |
| `TransportProofs`, `TransportRefinement` | The invariants of `Transport` proved, and that it implements `TcService` |
| `Session` | `en50221_session.c`, over `TcService` |
| `SessionProofs` | Theorems about `Session` |
| `StdCam` | `en50221_stdcam_llci.c`, the menus of `en50221_app_mmi.c`, and gnutv's threads |
| `StdCamProofs` | Theorems about `StdCam` |
| `Assembly` | `section_buf.c`, the continuity check, `psi_table_state`, the loop of `testucsi.c` |
| `AssemblyProofs` | Theorems about `Assembly` |
| `Scan` | `util/scan/scan.c` |
| `ScanProofs` | Theorems about `Scan` |
| `Layout` | The vocabulary in which a format is written |
| `DvbDescriptors`, `DvbSections`, `MpegFormats`, `AtscFormats` | The formats of libucsi, one definition per section or descriptor |
| `AppFormats`, `EsgFormats` | The objects a CAM sends, the structures of libesg |
| `AllFormats` | All formats by name |
| `Codec` | Decoding and reading a body of any format |
| `Mirror` | A static check of a format: do its accessors repeat what its codec does |
| `CodecProofs` | Theorems about `Codec`, for the formats that pass that check |
| `MCTransport`, `MCSession`, `MCAssembly`, `MCScan`, `MCCodec` | Modules the runs are started from |

`Session` extends `TcService`, and `Transport` implements it (`ServiceSpec`, with the
refinement mapping at the end of `Transport`; checked in two runs, and proved for all
sizes in `TransportRefinement`). So what holds of `Session` holds over the transport
layer. `StdCam` is on top of both: a slot that is registered or not, a connection the CAM has or has not,
and the table of sessions, each changing in the ways the two modules below allow to the
single polling thread of gnutv.

### Transport

One variable for each field that the code branches on: `hndl` and `cam` are
`ca_hndl` and `slot`, `state`, `tx`, `chained` and `queue` the fields of a
connection, `slots_changed`, `watched` (the poll set) and `error_slot` those of
the layer. `tx` abstracts `tx_time` to *ok* (zero), *wait* and *late* (older than
`response_timeout`); `TimeoutElapses` is time passing. Messages are their tags,
and of a chain only its existence is kept. `told` is a history variable.

Each API function holds `slot_lock` from its checks to its last assignment and is
one action, enabled when the poll thread does not hold that lock (`PollHolds`).
`en50221_tl_destroy_slot` is two, because it releases `slot_lock` before its
callback; it keeps `global_lock` (`GlobalFree`). The poll thread is a program
counter `pc` with its locals: `slot` (about to look at a slot), `routed` (data is
for another slot, whose lock it does not have yet), `rx` (parsing), `callback` (in
the DATA callback, lock released), `send`, `poll` and `late` (the three parts of
the visit of one connection), `done` and `failed` (returned). Each handler of a
TPDU is an action with all its early returns. Since the lock is held between
them, splitting a visit in three adds no behaviour another thread can see, but
lets time pass in between, as it does.

The CAM is not modelled: at every TPDU the handler that runs, the connection and
the status are chosen freely, so a confused CAM is covered. `dvbca_link_write` is
external; `WriteMayFail` says whether it may fail on an open handle, and it always
does on handle -1. `CamPolite` limits `T_REQUEST_T_C` to open connections, which
only the liveness runs need.

Left out: allocation failures, `en50221_tl_destroy` (nothing else may run then),
`tl->error`, `T_DATA_MORE` with an empty body (`realloc` to size 0), and the
`poll_delay` (a connection may or may not be polled at each visit).

### Session

`state` and `owner` are the fields of a session; `pc`, `num` and `on` are the
program counter and the locals of each thread. The functions of this layer let go
of the session's lock before they call down or up, so each is a chain of actions:
for example `OpenRequest`, `OpenFill`, `OpenAsk`, `OpenSend`, `OpenDone`, `OpenLook`,
`OpenTell` are `en50221_sl_handle_open_session_request`, cut at its callbacks and
locks; the look at the state before the last callback is taken without the lock.
`en50221_sl_alloc_new_session` writes the state before the other fields and
holds only `global_lock`, hence `Alloc` and `Fill`. A user may end any session that is
active, before or after the callback that tells of it, as `en50221_sl_destroy_session`
lets it. `upper` and `ended` are history variables: the sessions the upper layer was
told are open and not told are closed, and those a user has asked to end, since the
number was last allocated.

Constants choose the set-up: `Users` call the API, `HostConns` are the connections
they create sessions on, `Remover` is the thread that destroys slots. In
`en50221_stdcam_llci.c` that is the polling thread itself; in
`test/libdvben50221/test-session.c` it is another.

Left out: data (`en50221_sl_send_data`, `en50221_sl_broadcast_data`, APDUs), which
changes no session; resource ids and the lookup. A request that finds no resource
or no free session only sends a refusal. In `CreateResponse` the number is the one
the handler reads, wherever it reads it.

### StdCam

The variables are the fields of the LLCI (`llci`, `tl_slot_id`, `held` for the three
session numbers), whether the slot is registered and its connection active in the
transport layer (`registered`, `tc`), gnutv's globals (`connected`, `entered_menu`, `mmi_state`,
`pat_version`, `pmt_fd`, `ca_pmt_version`) and a program counter for each thread: `cam`,
`dvb`, `main`. The CAM thread is `en50221_stdcam_llci_poll` over and over: the state of
the slot (`SameState`, `llci_cam_added`, `llci_cam_in_reset`, `llci_cam_removed`), then
one event of the stack: the CAM opens or closes a session or its connection, or sends an
object. It may ask for any of `Versions` of a resource. A connection may end without a
callback, as it does when the transport layer cannot write its reply (`CloseConnection`);
its sessions then stay. Closing a session and the callback that clears its number are two steps, as the
session layer calls back after it has changed its table, and `pending` is the session
in between. The DVB thread reads the session number of the CA resource, has the session
checked (`en50221_sl_send_datav`) and sends (`SendPmt`) in three steps; the main thread
looks at `mmi_state` and answers in two. `sent` is the PMT that the CA session held now
was given last, and none when that session is another one or the CAM was reset. `chain`
counts the pieces of a menu kept for a session number, `mine` those the CAM has sent of the
current menu, `left` those that closed sessions have left behind.

The slot is pulled and filled at any moment. Left out: date and time, the list management
byte of a PMT, the data thread.

### Assembly

A byte is named by its section and its place, so that a mixture of two sections is
visible as such. A sender cuts sections into packets with a pointer field and a start
indicator; the channel loses, repeats and damages a bounded number of them; the receiver
checks the continuity counter, gives each payload to `section_buf_add_transport_payload`
until it is used up, and resets the buffer when a call says so. A header put together
from other bytes announces any length, and a stray byte may look like padding. `clean` and
`from` count the start indicators since the last fault and are only there for `InStep`.

### Scan

One thread, so the interest is in sequences. `pc` goes through tuning (`TuneNext`,
`Retry`, `GiveUp`, `OtherFrequency` are `tune_to_next_transponder` with its gotos),
setting up the filters (`ScanTp`), and `read_filters`, one filter per step: `ReadSection`
parses one section with all it starts and removes, `PassOver` goes on to the next place
of the array, `EndPass` leaves the loop. A truncated section is passed over as well, but
only after its version may have made the table begin again (`Truncated`). `polled` is the
array `poll_section_bufs`, which `update_poll_fds` rebuilds in the middle of that loop,
whenever a filter is started or stopped (`PollFds`). `NoPsip` and `AtscType` are the
options `-P` and `-A` for ATSC transponders. What is on the air is a parameter;
which filter has data, when a timeout passes, whether the frontend locks and whether the
demux can be opened is open. Left out: what services contain, `current_tp_only`.

### Formats and Codec

A format is a pair of small programs over a cursor: `walk`, what the codec does (checks,
swaps, loops, in order), and `view`, what structures, accessors and iterators then expose.
`Codec` runs them, with a stack of frames: one for the program and one for each
conditional part and loop it is in (`i` the next instruction, `base` the current structure,
`lim` the end of the area, `left` the rounds to go). A body is not chosen in advance: a
length that is read gets one of `Lengths` and keeps it, and a read of bytes that were
swapped in a different way is a different, arbitrary value, which is what an unswapped
length is. `len` is the length of the body as the codec computes it, header and CRC taken
off the length in the section. That length is from the air, so `len` may be negative for
a section, by `Missing` bytes at most: the code subtracts without a check and unsigned.
Where a codec compares the size with what it needs first, the section is refused; where
it uses what is left as it is (`SizeLeft`), it gets the value modulo `SizeModulus`, which
stands for the range of `size_t`. (A section of length 0, for which `section_ext_length`
itself would wrap, does not come this far: every caller has the CRC checked, and no
three bytes have the CRC 0.) So one run covers every body within the bounds, and each format is a few lines
that can be compared with the source. Selectors (tags, flags, types) have the values the
code tells apart.

Some formats do not keep a property, each on some short body. They are listed by name in
`Codec` as exceptions, so that the properties hold of all others:

* `Misswapped`. Swapped too much (`dvb_sit_section`, the two bytes behind each service),
  too little (`atsc_rrt_section`, the last length), as the wrong width, or exposed over
  more bytes than the codec went through: `dvb_nit_section` and `dvb_bat_section` have a
  loop length that is swapped and then not compared with anything, and the iterators
  go by it.
* `Trusting`. A length is used that nothing has checked: in the codec
  (`dvb_linkage_descriptor`; `mpeg_cat_section` and `mpeg_tsdt_section`, where what is left
  of a section shorter than its header and CRC wraps), in an iterator (`dvb_extended_event_descriptor`), or after
  a check of something else (`en50221_app_ca_parse_reply`, most decoders of libesg).
* `Untiled`. The iterator or the length accessor leaves bytes out or goes over the end
  (`dvb_cell_frequency_link_descriptor`, `dvb_target_ip_address_descriptor`), or has a
  negative length (`mpeg_metadata_section`, for a section without a body).

The comments at these formats say what is wrong with them.

`Mirror` looks at the two programs of a format and not at bodies. It goes through walk and
view side by side and notes, before each instruction of the walk, what is known whatever
the body is: how many bytes of the current structure are there, how many follow, which
length was compared with the area and what divides it, which integers are yet to be
swapped. An instruction is `Covered` if what is known allows it and the view has the same
one; `Mirrored` are the formats in which all are and in which the first thing a codec of a
section does is to compare its size (`Guarded`). Of the 178 formats 129 pass, and none of
the 31 exceptions does (`ClassAssumption` of `MCCodec`, which TLC evaluates). The other 18
keep the properties for a reason the check does not follow: an accessor that shows an
array as a whole and not item by item (`dvb_ca_identifier_descriptor`,
`dvb_frequency_list_descriptor`, `dvb_service_availability_descriptor`,
`dvb_mhp_data_broadcast_id_descriptor`); an array of which the codec only checks or passes
over the length (`mpeg_iso_639_language_descriptor`, `dvb_country_availability_descriptor`,
`dvb_mosaic_descriptor`, `dvb_vbi_data_descriptor`); bytes the codec goes into and the
accessors do not (`transport_packet`); an end that the codec finds by a count or a length
and the accessors by what is left (`mpeg_odsmt_section`,
`atsc_dcc_arriving_request_descriptor`, `atsc_dcc_departing_request_descriptor`); a
structure that is there because a length has one certain value
(`en50221_app_mmi_parse_close`, `en50221_app_mmi_parse_display_control`,
`en50221_app_lowspeed_parse_command`, `en50221_app_smartcard_parse_send`); or a loop that
ignores a remainder (`en50221_app_rm_parse_profile_reply`, `en50221_app_ca_parse_info`).

## Runs

| Run | Instance | Result |
|---|---|---|
| `Transport` | 1 slot, connections 0-2, queues of 2, reads of 2 TPDUs, failing writes, arbitrary CAM | invariants and `ServiceSpec` hold |
| `TransportTwoCams` | 2 slots on one CA device, connections 0-1; the two CAM numbers are interchangeable (no fairness, no `CHOOSE` over them), so the run uses symmetry | `UnregisteredIsClean`, `ServiceSpec` hold |
| `TransportLive` | 1 slot, connections 0-2, writes succeed | `HandshakeIsDriven`, `HandshakeCompletes` hold |
| `TransportStaleTimer` | 1 slot, 1 usable connection | `GivenUpAfterSending` violated |
| `TransportDelete` | the same, with fairness | `DeletionCompletes` violated |
| `Session` | CAMs in 2 slots, 2 usable sessions, 1 user | invariants hold |
| `SessionHost` | 1 slot with 2 connections, 1 usable session, 2 users that create sessions on both | `ActiveIsTold` holds |
| `SessionSlotRemoved` | slots destroyed by another thread | `NoOrphanSession` violated |
| `StdCam` | resource manager, CA and MMI, each asked for in versions 1 and 2; 2 sessions; 2 pieces of a menu kept | invariants, `AnsweredOnce`, `PmtGetsThrough` hold |
| `Assembly` | 6 sections of 3 to 6 bytes in packets of 5, two versions of a table, 3 faults | invariants hold |
| `Scan` | 2 initial transponders, 2 more announced, one of them with other frequencies; 2 running filters; both VCTs asked for; 2 failures to open | invariants and `ScanEnds` hold |
| `Codecs` | all formats, bodies from too short for their header up to long enough for every loop to go round | invariants and `DecodingEnds` hold, but for the exceptions |

Bounds. `MaxQueue` and `MaxTpdus` are the only bounds that are not parameters of
the code; 2 messages are enough for one behind another, and 2 TPDUs for the slot to
be destroyed between them. Connection 0 and session 0 are never allocated, so
`MaxConns = 3` gives two that compete, and one that is asked for while the other is
in use. The two-CAM run has one usable connection per slot, because what it is
about is two slots under one thread. The models have no deadlock: the application
can always poll. The runs of `StdCam`, `Assembly`, `Scan` and `Codecs` allow it to stop:
the program ends, everything has been sent, the scan is over.

In `Assembly` the counter's modulus is 3, so that three lost packets can go unnoticed as
16 can in the code, and sections are shorter than, as long as and longer than a packet.
In `Scan` two running filters make others wait, as 27 do, two frequencies are the same
transponder, and a PAT names a service twice. In `StdCam` two session numbers are fewer than the resources
that want one, so that numbers are used again by another resource. In `SessionHost` all
compete for one session number, so that it has another owner each time it is used.
`SizeModulus` is 17: a size that has wrapped ends 17 bytes behind the body wherever it is
taken, and more would only make the walk there longer. `Lengths` has 0, 1,
values shorter and longer than the smallest structures, and one that no short body holds;
`MCCodec` gives each format a body that lets its loops go round at least once more after
the first, or the longest that can be exhausted where its lengths multiply.

Fairness. `Codec`: code that is called runs on. `Scan`: the only thread runs on, and time
passes. `StdCam`: the threads run on and the PMT is repeated on air; nothing is assumed
of the CAM or of the user. `Transport` (`FairSpec`): the application keeps calling `en50221_tl_poll`, as
`en50221_transport.h` demands, and a call that runs goes on; time passes; a thread
in `en50221_tl_destroy_slot` finishes. Nothing is assumed of the CAM or of callers.
`HandshakeCompletes` is about connections the poll thread keeps visiting: an
overdue active connection makes `en50221_tl_poll` return early each time, and
starves those behind it.

### What the violations show

* `TransportStaleTimer`: a creation that times out leaves `tx_time` set. The next
  `en50221_tl_new_tc` on that connection does not send `T_CREATE_T_C` and is given
  up in the same visit, again and again until the slot is destroyed.
* `TransportDelete`: `en50221_tl_del_tc` while an answer is outstanding. The answer
  is rejected in state `ACTIVE_DELETEQUEUED` and does not clear `tx_time`; the queue
  waits for that, so `T_DELETE_T_C` is never sent.
* `SessionSlotRemoved`: a slot is destroyed while the CAM's session request is being
  answered; the session is closed, and then made active unconditionally.

### Seen while modelling, without a run

* The DATA callback for data routed to another slot runs with the polled slot's lock
  held, against `en50221_transport.h:64`.
* With sessions created by the host on two connections, `NoOrphanSession` fails: a
  response that arrives between `Alloc` and `Fill` is checked against the previous
  owner. The second half of `ToldWhatIsActive` fails too: a session that is ended and
  created again before the callback of its first life has run is told of while it is
  still being created. Run `SessionHost` checks what is left, `ActiveIsTold`. Nothing in
  the repository calls `en50221_sl_create_session`.
* `en50221_sl_handle_create_session_response` reads the number one byte early.
* A connection closed by the CAM keeps its send queue for the next one.
* A `T_DATA_LAST` without a body drops the chain collected before it.
* `EN50221ERR_BADSLOTID` leaves `error_slot` as it was.
* `S_SCALLBACK_REASON_CAMCONNECTFAIL` is never delivered: its branch is inside
  the test for an active session.
* `en50221_tl_del_tc` by the host closes no session.
* A closed connection closes sessions by connection id, on every slot
  (`en50221_session.c:926`; connection ids start at 1 in each slot).
* `ST_CLOSE_SESSION_RES` is expected with length 4 (`en50221_session.c:724`), and sent
  with length 3 by the host itself: a session the host ends keeps its number until its
  connection or slot goes.
* `llci_cam_in_reset` clears `tl_slot_id` before it destroys the slot, which stays
  registered; with the one slot gnutv has, every later CAM is BAD.
* `llci_lookup_callback` finds a resource by class and type and limits it by the whole
  resource id, version included. A CAM that asks for another version than ours gets a
  second session, and the number of the first, which stays open, is overwritten. So that
  there is one session of a resource is not among the properties; `HeldIsOpen` is checked
  with such a CAM.
* `en50221_app_mmi_clear_session` and its counterpart for lowspeed return with the lock
  held, and nothing calls them: pieces of a menu of a closed session are put in front of
  the next one with that number (`MenusAreWhole` excepts this).
* gnutv: `ca_resource_connected` and `seenpmt` are never reset, so a CAM that is put in
  again gets no PMT before the next version, and then as an update; `mmi_state` is not
  reset when the session closes, and the user interface may overwrite a new question with
  OPEN; a PMT may go to the session of another resource that took the number over between
  reading and sending it (`astray`); `entered_menu` is set without a session to enter.
* A CAM that is exchanged between two polls is not noticed.
* `zap_ca_stop` destroys the layers before the stdcam that uses them; gnutv does it in
  the right order.
* `en50221_app_mmi_parse_list_menu` counts texts in a `uint8_t` that wraps.
* scan: filters that wait are started only when another one ends, so a scan whose last
  waiting filters found no demux device never ends (`Stalled`); `parse_psip_vct` does not
  go on after a channel it passes over; transponders that are in the initial file twice
  are scanned twice; of a chain of overlapping frequencies the first match decides.
* `section_buf.h` says that after a reset the buffer waits for the first start indicator;
  `wait_pdu` is left as it is.
* `mpeg_cat_section_codec` and `mpeg_tsdt_section_codec` make no check of the size: for a
  section shorter than its header and CRC `verify_descriptors` is given a huge size and
  goes through what lies behind it. `mpeg_metadata_section_data_length` is negative for
  such a section. The datagram section is not checked at all. All other codecs of
  sections compare the size first.
* `mpeg_odsmt_section_codec` accepts no section with `stream_count` 0.
* `transport_packet_values_extract` tests the flag of the piecewise rate for the seamless
  splice.
* libesg: `esg_encapsulation_structure_free` frees its first entry twice, and
  `esg_session_partition_declaration_free` follows the link of the last stream.

## Proofs

All theorems are about the specifications the runs check, for every value of the
constants that the `ASSUME` of the module allows. Those assumptions are sizes: array
sizes are positive, the numbers in a section are naturals, `MaxSection` is at least
the size of a header (`section_buf_init` refuses less), and bodies are at most naturally
long and lack at most their header and CRC. `Scan` also says what kinds of
things are on the air: sequences of service numbers, of entries with frequencies, of
channels; nothing about which. Each invariant below was checked
as an invariant by TLC, on the instances of the runs, before it was proved, but for that
of `CodecProofs` (see there).

### Transport: `TransportProofs`, `TransportRefinement`

* `TypeCorrect`: `Spec => []TypeOK`;
* `InductiveInvariant`: `Spec => []IInv`, and from it `NoChainLost`,
  `DestroyedSlotIsClean`, `NothingAfterDelete` and `OpenConnectionsAnnounced`;
* `HandshakesDriven`: `Spec => []HandshakeIsDriven`;
* `ImplementsService`: `Spec => ServiceSpec`.

`IInv` is the conjunction of `TypeOK`, the four invariants and `ClosingIsGone`: a slot
whose SLOTCLOSE callback is due is not registered. None of the invariants is inductive
alone. `OpenIsAnnounced` needs `ClosingIsGone` and `UnregisteredIsClean`: the callback
forgets the slot's announcements, which is harmless only because a slot that is not
registered has no connection. `UnregisteredIsClean` needs that the poll thread holds the
lock of the slot it works on, so that the slot is not destroyed between its check and the
start of a timer, and that on a slot destroyed during the callback every handler finds an
idle connection and a handle that cannot be written. `DeleteIsLast` needs that data is
accepted in state ACTIVE only. `StepKinds` first sorts the actions by the variables they
change, and each conjunct has one lemma with a step for each action that can disturb it.

The refinement has one step per action too: each maps to one step of the service on one
slot or connection, or to a stutter, and `IInv` is what makes the guards of the service
true (a connection that opens is on a slot that is up; a slot that is reported gone is
still gone when its callback runs).

### Session: `SessionProofs`

* `TypeCorrect`: `Spec => []TypeInv`;
* `ActiveTold`: if `Remover = Poller`, `Spec => []ActiveIsTold`;
* `ToldAll`: if `Remover = Poller` and `HostConns = {}`, `Spec => []ToldWhatIsActive`;
* `NoOrphans`: if `Remover = Poller` and `OwnersSettled`, `Spec => []NoOrphanSession`.

The properties speak of the moments between two callbacks; `ActiveButOne` and
`ToldButOne` say what is true during one. The only active session the upper layer was not
told of is the one the poll thread is about to tell of, and the one it has closed or is
still opening is not in use, since only the poll thread makes sessions active; that is
enough for `ActiveIsTold`, whoever creates and ends sessions. And the only session that was
told of, was not ended and is not active is the one the poll thread is about to report
closed, if the one it is opening cannot be told of before (`ToldAll`, where the CAM opens
the sessions, as in every program of the repository). For `NoOrphanSession`, `OrphanInv` says what the
connection service keeps by itself (`ServiceInv`), that no user fills in a session
(`UsersFillNothing`) when users create none, and that live sessions are on announced
connections but for those a scan over the sessions has still to reach (`OnAnnounced`).
The hypotheses cannot be left out. `Remover = Poller` is how the stdcam uses the layer,
and run `SessionSlotRemoved` refutes the invariant without it. `OwnersSettled` (users
create no sessions, as in this repository, or there is only one connection) excludes the
response between `Alloc` and `Fill` described above.

### StdCam: `StdCamProofs`

* `NothingUsedAfterFree`: `Spec => []FreedIsUnused`;
* `NoAnswerUnasked`: `Spec => AnsweredOnce`;
* `InductiveInvariant`: `Spec => []IInv`, and from it `TypeCorrect`, `NumbersAgree`
  (`HeldIsOpen`) and `WholeMenus` (`MenusAreWhole`), whatever versions of the resources
  the CAM asks for.

The first two need little: the order in which the program ends (`EndsInOrder`), and that
an open question is owed an answer as long as the main thread has not answered
(`QuestionIsOwed`). The others are proved together: which session the CAM thread has
pending and in what state (`CamOrder`), held numbers are open sessions or the pending one
(`HeldIsKnown`), and the pieces in the chain of a session number are those of its current
menu and those left behind (`ChainIsCounted`). A resource may have several open sessions,
since `llci_lookup_callback` limits requests for version 1 only; the number that is held
is the last one's.

### Assembly: `AssemblyProofs`

* `NeverOverrun`: `Spec => []BufferBounded`, and `PayloadsEnd`: `Spec => []PayloadUsedUp`;
* `TablesComplete`: if `Numbered`, `Spec => []TableComplete`;
* `BackInStep`: `Spec => []InStep`.

`BufInv` describes a `section_buf` between two calls: never complete, and expecting three
bytes until it has a header. The lemmas up to `PayloadProperties` show what each function
of `section_buf.c` makes of such a buffer and how much of its input it uses. `TableInv`
relates `psi_table_state` to the sections that were found useful; `Numbered` says that no
section names a last number before its own, without which the code declares a table
complete that is not.

`InStep` is about the end of a payload only. `StepInv` says what holds inside one: once a
start indicator has come since the last fault, the buffer waits for a start, or holds the
beginning of a section of which the payload has the rest (`InRun`), or is about to follow
a pointer to the start of a section (`AtStart`). The places at which the sections of a
packet start in what is left of it are a function `st` that is bound in the invariant.
`CurInv` and `PacketShapes` say what a packet looks like: the tail of a section, or a
pointer, the rest of one, and beginnings of others. `AddRun` and `ReadsOn` then follow one
call through a packet of that shape, and `TailReceived` and `StartReceived` show that
what a packet adds continues the run.

### Scan: `ScanProofs`

* `TypeCorrect`: `Spec => []TypeOK`;
* `PollsRunning`: `Spec => []PollsWhatRuns`, and `NoStrayFilters`:
  `Spec => []FiltersOfCurrent`;
* `StayKnown`: if `Apart`, `Spec => []KnownStaysKnown`;
* `NoneTwice`: if `Apart` and `InitialApart`, `Spec => []EachScannedOnce`.

What `parse_nit`, `parse_pat` and `add_filters` make of a list of any length is a recursive
function over its places. That such a function exists is proved first (`FoldExists`), and
what it computes by going up from one place to the next (`CountingUp`, by the least place
where it fails): `ParseNit`, `ParsePat` and `AddFilters` are the results, `TakenOut` and
`RemoveFilter` those for taking a filter or a transponder off its list.

`FilterInv` is about filters: each is on one list once, at most `MaxRunning` run, the array
that is polled is the list of those that run, there are none while no transponder is read,
and those for PMTs belong to services that are marked as having one. The mark is what
keeps `parse_pat` from linking a filter a second time, whatever versions and repetitions of
the PAT arrive, and it is why the lists stay lists. `ListInv` says the same of the lists of
transponders, and that what is tuned is on the list of the scanned ones, which is where
`Retry` takes it from. `Follows` is what a step does to them: `FilterStep` and `ListStep`
have one case per action.

`Apart` says that of the frequencies that are named anywhere, closeness is transitive.
Without it `copy_transponder` may move an entry from the frequency that was named to
another close to it, and from there to a third that is no longer close to the first.
`InitialApart` says that the initial file names each transponder once: `tune_initial` does
not look for what it has already.

### Codec: `CodecProofs`

* `DecodingInvariant`: `Spec => [](Inv \/ TooShort)`, and from it, for every format of `Mirrored`,
  `MirroredStaysInside` (`StaysInside`), `MirroredInHostOrder` (`FieldsInHostOrder`),
  `MirroredTiles` (`IteratorsTile`) and `MirroredTypes` (`TypeOK`).

The theorems hold for bodies of every length (`MaxLen` is any function to naturals), and
for sections too short to have one: these are refused by the first instruction, before
anything of them is read or swapped (`TooShort`, `ShortFails`). Loops
go round as often as the body lets them, and a format that is added is covered as soon as
it passes `Mirror`. What has to be shown is about two programs that run one after the
other: what the codec has checked and swapped, instruction by instruction, is what the
accessors need when they come by later. `Walking` is the invariant of the codec:

* `Stacked`: every frame belongs to a pair of programs that `Mirror` accepts, runs inside
  the area of the frame that called it, and its current structure is behind the cursor;
* `Knows`: what `Mirror` says is known at this instruction is true of the body;
* `Swapped`: every swap was done once, and lies before the edge (the current structure if
  its swaps are due, the cursor otherwise);
* `History`: from every place at which the accessors would have been when the codec passed
  (a stack, a cursor, the integers shown so far) they get to another of these places, or
  to where they would be now (`Shown`), reading the values the codec has read; and they
  start at one of them. Later swaps lie behind the edge and change none of these values
  (`StepSwapped`), later reads only add some (`StepKept`).

There is one lemma for each kind of instruction (`SwapStep`, `StructStep`, `TakeStep`,
`PartStep`, `LoopStep`, ...), which carries `Walking` on, and one for the ends of parts and
loops. When the codec accepts, what it has passed is the way the accessors will go
(`AcceptStep`): `InView` says that they are at one of these places. Then `ViewGoes`,
`ViewEnds` and `ViewOver` show that the instruction they are at can be taken as foreseen,
inside the body, and that at the end they have shown exactly what was swapped.

### Only model-checked

* Liveness (`HandshakeCompletes`, `PmtGetsThrough`, `ScanEnds`, `DecodingEnds`): fairness
  is out of the prover's reach.
* `Codec` for the 49 formats outside `Mirrored`; and that a format is in `Mirrored`, which
  is a fact about this list of formats that TLC evaluates, for the `Lengths` of the run
  (they only matter in being naturals).
* The invariant `Inv` of `CodecProofs` itself: it says that a set of places and a sequence
  of pairs of programs exist, of which TLC would have to try all. The properties that
  follow from it are those of run `Codecs`.

## Not modelled

* HLCI: one thread, one ioctl per message, fixed session numbers.
* `libdvbapi`, `libdvbsec`, the zap programs: straight sequences of ioctls. The devices
  appear in `Transport`, `StdCam` and `Scan` as what the code sees of them.
* `libdvbcfg`, charsets, dates, Huffman texts, output: conversions of data no property is
  about.
* `dvbscan` is unfinished; `alevt` is a program of its own kept in the tree; the
  monitoring tools and hardware tests read a device and print.
* Encoders of application objects, `asn_1_encode`, and in libesg the structures that are
  found by offsets: their properties would be about contents, not control.

## Plan

1. `StdCam` over `Session` by refinement: the table of sessions there as an abstract
   specification that `Session` with one polling thread implements.
2. The round trip of application objects: what is formatted is parsed again as it was.
