-------------------------------- MODULE Scan --------------------------------
(***************************************************************************)
(* The channel scanner, util/scan/scan.c: one thread that tunes to a       *)
(* transponder after the other, and on each of them runs section filters   *)
(* until all have their tables or have timed out.  The tables announce     *)
(* further transponders (NIT) and want further filters (PAT).  What varies *)
(* is what is on the air, which filter has data, when time is up, whether  *)
(* the frontend locks and whether the demux device can be opened.          *)
(*                                                                         *)
(* A transponder is named by its place in tps, its lists hold the names.   *)
(***************************************************************************)
EXTENDS Integers, Sequences, FiniteSets, SequencesExt

CONSTANTS
    MaxRunning,         \* MAX_RUNNING
    Bandwidth,          \* frequencies closer than this are one transponder
    Frequencies,        \* the frequencies that are named anywhere
    Initial,            \* those of the initial tuning data
    TypeOf(_),          \* "dvb" or "atsc", of a frequency
    Pat(_, _),          \* the services with a PMT in section n of the PAT on a frequency
    Nit(_, _),          \* the transponders in section n of a NIT on a frequency
    Vct(_),             \* the channels of the VCT on a frequency, in order
    LastSection(_),     \* last_section_number of the tables of a kind
    Versions(_),        \* the version numbers the tables of a kind are sent with
    Networks,           \* the networks that NIT-other is segmented by
    NoPsip,             \* no_ATSC_PSIP: the option -P
    AtscType,           \* ATSC_type: 1 terrestrial, 2 cable, 3 both
    OpenFailures        \* how often the demux device cannot be opened

ASSUME ScanAssumption ==
    /\ MaxRunning \in Nat \ {0}
    /\ Bandwidth \in Nat \ {0}
    /\ OpenFailures \in Nat
    /\ NoPsip \in BOOLEAN
    /\ AtscType \in 1 .. 3
    /\ Frequencies \subseteq Int
    /\ Initial \in Seq(Frequencies)
    /\ \A kind \in {"PAT", "SDT", "NIT", "NITother", "VCT", "CVCT", "PMT"} :
          LastSection(kind) \in Nat
    /\ \A f \in Frequencies :
          /\ \A n \in 0 .. LastSection("PAT") : Pat(f, n) \in Seq(Nat)
          /\ \A kind \in {"NIT", "NITother"} : \A n \in 0 .. LastSection(kind) :
                Nit(f, n) \in Seq([freq : Frequencies, others : Seq(Frequencies)])
          /\ Vct(f) \in Seq([type : {"tv", "radio", "data"}, program : Nat])

VARIABLES
    pc,                 \* "tune", "retry", "next", "setup", "poll", "pass" or "end"
    tps,                \* the transponders, in the order of their allocation
    new, scanned,       \* new_transponders, scanned_transponders
    cur,                \* current_tp: what is tuned, or being tuned
    feType,             \* fe_info.type
    services,           \* the services of the transponders
    priv,               \* those that have a filter for their PMT
    running, waiting,   \* running_filters, waiting_filters
    polled,             \* poll_section_bufs
    ready,              \* poll_fds still holds the events of the last poll()
    place,              \* the place in read_filters' loop
    state,              \* of the filters that are running or waiting
    announced,          \* the frequencies the NITs have named
    failures            \* how often the demux device could not be opened

tuning == <<tps, new, scanned, cur, feType>>
filters == <<running, waiting, polled, ready, state, failures>>
vars == <<pc, tps, new, scanned, cur, feType, services, priv, running, waiting, polled,
          ready, place, state, announced, failures>>

-----------------------------------------------------------------------------
(* Transponders.                                                           *)

is_same_transponder(f1, f2) == f1 - f2 < Bandwidth /\ f2 - f1 < Bandwidth

\* The lists, as one value: l.tps, l.new, l.scanned.
Lists == [tps |-> tps, new |-> new, scanned |-> scanned]

\* Mutant: transponders still to be scanned are not looked at.
find_transponder_scanned(l, freq) ==
    LET k == SelectInSeq(l.scanned, LAMBDA t : is_same_transponder(l.tps[t].freq, freq))
    IN  IF k = 0 THEN 0 ELSE l.scanned[k]

\* The first transponder of the lists at that frequency, or 0.
find_transponder(l, freq) ==
    LET all == l.scanned \o l.new
        k == SelectInSeq(all, LAMBDA t : is_same_transponder(l.tps[t].freq, freq))
    IN  IF k = 0 THEN 0 ELSE all[k]

Transponder(freq, others) == [freq |-> freq, others |-> others, wrong |-> FALSE]

alloc_transponder(l, freq) ==
    [tps |-> Append(l.tps, Transponder(freq, << >>)),
     new |-> Append(l.new, Len(l.tps) + 1),
     scanned |-> l.scanned]

\* What scan uses of the other one's members: wrong_frequency is not copied.
copy_transponder(l, d, s) ==
    [l EXCEPT !.tps[d] = [s EXCEPT !.wrong = l.tps[d].wrong]]

\* One transponder of a NIT: it is passed over if it is of another type.
parse_nit_entry(l, a) ==
    LET t == find_transponder(l, a.freq)
    IN  IF TypeOf(a.freq) # feType THEN l
        ELSE IF t # 0 THEN copy_transponder(l, t, Transponder(a.freq, a.others))
        ELSE copy_transponder(alloc_transponder(l, a.freq), Len(l.tps) + 1,
                              Transponder(a.freq, a.others))

parse_nit(l, transponders) ==
    LET after[k \in 0 .. Len(transponders)] ==
            IF k = 0 THEN l ELSE parse_nit_entry(after[k - 1], transponders[k])
    IN  after[Len(transponders)]

\* The pointer stays at a channel that is passed over, so that nothing behind it is read.
parse_psip_vct(channels) ==
    LET k == SelectInSeq(channels, LAMBDA c : c.type = "data")
    IN  {channels[j].program : j \in 1 .. IF k = 0 THEN Len(channels) ELSE k - 1}

-----------------------------------------------------------------------------
(* Filters.  A filter is <<kind, transponder, service>>; the lists as one  *)
(* value: q.r and q.w, running and waiting, and q.left, the failures still *)
(* possible.                                                               *)

Filter(kind) == <<kind, cur, 0>>
Segmented(f) == f[1] = "NITother"
Queues == [r |-> running, w |-> waiting, left |-> OpenFailures - failures]

setup_filter == [tab |-> << >>, complete |-> FALSE, expired |-> FALSE]

\* start_filter as the new filter's first try: it fails for want of room or of a device.
add_filter(q, f) ==
    (IF Len(q.r) < MaxRunning THEN {[q EXCEPT !.r = <<f>> \o @]} ELSE {})
    \cup (IF Len(q.r) >= MaxRunning THEN {[q EXCEPT !.w = Append(@, f)]} ELSE {})
    \cup (IF Len(q.r) < MaxRunning /\ q.left > 0
          THEN {[q EXCEPT !.w = Append(@, f), !.left = @ - 1]} ELSE {})

add_filters(q, fs) ==
    LET after[k \in 0 .. Len(fs)] ==
            IF k = 0 THEN {q} ELSE UNION {add_filter(p, fs[k]) : p \in after[k - 1]}
    IN  after[Len(fs)]

stop_filter(q, f) == [q EXCEPT !.r = RemoveFirst(@, f)]

\* Mutant: no waiting filter takes the place.
remove_filter_only(q, f) == {stop_filter(q, f)}

\* Waiting filters are started until one of them cannot be.
remove_filter(q, f) ==
    LET p == stop_filter(q, f)
        most == Min({MaxRunning - Len(p.r), Len(p.w)})
    IN  {[r |-> Reverse(SubSeq(p.w, 1, n)) \o p.r,
          w |-> SubSeq(p.w, n + 1, Len(p.w)),
          left |-> IF n < most THEN p.left - 1 ELSE p.left] :
         n \in {k \in 0 .. most : k = most \/ p.left > 0}}

\* The lists are q afterwards.
SetQueues(q) ==
    /\ running' = q.r /\ waiting' = q.w
    /\ failures' = OpenFailures - q.left

\* Mutant: the arrays stay as they were.
update_poll_fds_never == UNCHANGED <<polled, ready>>

update_poll_fds ==
    /\ polled' = running'
    /\ ready' = FALSE

\* The arrays are made anew by every start_filter that succeeds and by every stop_filter:
\* by whatever changes the list.
PollFds == IF running' # running THEN update_poll_fds ELSE UNCHANGED <<polled, ready>>

\* What parse_section does to the state of a filter before it looks at the length of the
\* section: the table is begun again if table_id_ext ext or version v is another one.
begin_section(s, ext, v) ==
    IF ext \in DOMAIN s.tab /\ s.tab[ext].version = v
    THEN s
    ELSE [s EXCEPT !.tab = [e \in (DOMAIN s.tab) \cup {ext} |->
                               IF e = ext THEN [version |-> v, seen |-> {}] ELSE s.tab[e]],
                   !.complete = FALSE]

\* The rest of it: section n of last + 1 arrives.
parse_section(s, ext, v, n, last) ==
    LET t == begin_section(s, ext, v)
        seen == t.tab[ext].seen
    IN  [fresh |-> n \notin seen,
         state |-> [t EXCEPT !.tab[ext].seen = @ \cup {n},
                             !.complete = @ \/ 0 .. last \subseteq seen \cup {n}]]

-----------------------------------------------------------------------------

Init ==
    /\ pc = "tune"
    /\ tps = [k \in 1 .. Len(Initial) |-> Transponder(Initial[k], << >>)]
    /\ new = [k \in 1 .. Len(Initial) |-> k]
    /\ scanned = << >>
    /\ cur = 0
    /\ feType = "dvb"
    /\ services = {} /\ priv = {}
    /\ running = << >> /\ waiting = << >>
    /\ polled = << >> /\ ready = FALSE
    /\ place = 1
    /\ state = << >>
    /\ announced = {}
    /\ failures = 0

\* The outcomes of tune_to_transponder, which has put t into the scanned list.
TuneTo(t) ==
    LET type == TypeOf(tps[t].freq)
    IN  \/ feType' = type /\ cur' = t /\ pc' = "setup"      \* locked
        \/ feType' = type /\ cur' = t /\ pc' = "next"       \* no lock, twice
        \/ /\ type # feType                                 \* not compatible
           /\ pc' = "next" /\ cur' = t /\ UNCHANGED feType

\* tune_to_next_transponder takes the next new transponder.
TuneNext ==
    /\ pc = "tune"
    /\ new # << >>
    /\ new' = Tail(new)
    /\ scanned' = Append(scanned, Head(new))
    /\ TuneTo(Head(new))
    /\ UNCHANGED <<tps, services, priv, filters, place, announced>>

\* Mutant: the transponder is put into the list where it is already.
Retry_linked ==
    /\ pc = "retry"
    /\ scanned' = Append(scanned, cur)
    /\ TuneTo(cur)
    /\ UNCHANGED <<tps, new, services, priv, filters, place, announced>>

\* The same transponder at another frequency.
Retry ==
    /\ pc = "retry"
    /\ scanned' = Append(RemoveFirst(scanned, cur), cur)
    /\ TuneTo(cur)
    /\ UNCHANGED <<tps, new, services, priv, filters, place, announced>>

\* Tuning has failed and there is no other frequency.
GiveUp ==
    /\ pc = "next"
    /\ tps[cur].others = << >>
    /\ pc' = "tune"
    /\ UNCHANGED <<tuning, services, priv, filters, place, announced>>

\* Mutant: the old frequency is forgotten.
OtherFrequency_forgets ==
    /\ pc = "next"
    /\ tps[cur].others # << >>
    /\ LET f == Last(tps[cur].others)
           rest == Front(tps[cur].others)
       IN  IF find_transponder(Lists, f) # 0
           THEN /\ tps' = [tps EXCEPT ![cur].others = rest]
                /\ UNCHANGED <<pc, scanned>>
           ELSE /\ tps' = [tps EXCEPT ![cur].others = rest, ![cur].freq = f]
                /\ UNCHANGED scanned
                /\ pc' = "retry"
    /\ UNCHANGED <<new, cur, feType, services, priv, filters, place, announced>>

\* The last of the other frequencies, if it is new; the old one is remembered.
OtherFrequency ==
    /\ pc = "next"
    /\ tps[cur].others # << >>
    /\ LET f == Last(tps[cur].others)
           rest == Front(tps[cur].others)
       IN  IF find_transponder(Lists, f) # 0
           THEN /\ tps' = [tps EXCEPT ![cur].others = rest]
                /\ UNCHANGED <<pc, scanned>>
           ELSE /\ tps' = Append([tps EXCEPT ![cur] = [freq |-> f, others |-> rest,
                                                       wrong |-> @.wrong]],
                                 [freq |-> tps[cur].freq, others |-> rest, wrong |-> TRUE])
                /\ scanned' = Append(scanned, Len(tps) + 1)
                /\ pc' = "retry"
    /\ UNCHANGED <<new, cur, feType, services, priv, filters, place, announced>>

\* The tables a transponder begins with.
scan_tp_atsc ==
    IF NoPsip THEN <<"PAT">>
    ELSE IF AtscType = 1 THEN <<"VCT", "PAT">>
    ELSE IF AtscType = 2 THEN <<"CVCT", "PAT">>
    ELSE <<"VCT", "CVCT", "PAT">>

scan_tp_dvb ==
    <<"PAT", "SDT", "NIT">> \o (IF Networks = {} THEN << >> ELSE <<"NITother">>)

ScanTp ==
    /\ pc = "setup"
    /\ LET kinds == IF feType = "atsc" THEN scan_tp_atsc ELSE scan_tp_dvb
           fs == [k \in DOMAIN kinds |-> Filter(kinds[k])]
       IN  /\ \E q \in add_filters(Queues, fs) : SetQueues(q)
           /\ state' = [f \in Range(fs) |-> setup_filter]
    /\ PollFds
    /\ pc' = "poll"
    /\ UNCHANGED <<tuning, services, priv, place, announced>>

\* poll() comes back; which filters have events shows when they are looked at.
Poll ==
    /\ pc = "poll"
    /\ ready' = TRUE
    /\ place' = 1
    /\ pc' = "pass"
    /\ UNCHANGED <<tuning, services, priv, running, waiting, polled, state, announced,
                   failures>>

\* What a section that was not seen before says.
Parse(kind, n) ==
    LET f == tps[cur].freq
        sids == IF kind = "PAT" THEN Range(Pat(f, n))
                ELSE IF kind = "SDT" THEN UNION {Range(Pat(f, k)) : k \in 0 .. LastSection("PAT")}
                ELSE IF kind \in {"VCT", "CVCT"} THEN parse_psip_vct(Vct(f))
                ELSE {}
        heard == IF kind \in {"NIT", "NITother"} THEN Nit(f, n) ELSE << >>
        l == parse_nit(Lists, heard)
    IN  /\ services' = services \cup {<<cur, s>> : s \in sids}
        /\ priv' = IF kind = "PAT" THEN priv \cup {<<cur, s>> : s \in sids} ELSE priv
        /\ tps' = l.tps /\ new' = l.new /\ scanned' = l.scanned
        /\ announced' = announced \cup {a.freq : a \in {b \in Range(heard) :
                                                           TypeOf(b.freq) = feType}}

\* The filters parse_pat adds for the services of a section: one for each that has none,
\* however often it is named.
parse_pat(sids) ==
    LET after[k \in 0 .. Len(sids)] ==
            IF k = 0 THEN << >>
            ELSE LET f == <<"PMT", cur, sids[k]>>
                 IN  IF <<cur, sids[k]>> \in priv \/ f \in Range(after[k - 1])
                     THEN after[k - 1] ELSE Append(after[k - 1], f)
    IN  after[Len(sids)]

Wanted(kind, n) == IF kind = "PAT" THEN parse_pat(Pat(tps[cur].freq, n)) ELSE << >>

Without(s, f) == [g \in (DOMAIN s) \ {f} |-> s[g]]

ExtsOf(f) == IF Segmented(f) THEN Networks ELSE {0}

\* What is left of the state of a filter whose section is too short to have a body.
Truncated(f) ==
    {begin_section(state[f], ext, v) : ext \in ExtsOf(f), v \in Versions(f[1])}

\* One round of read_filters' loop for a filter that takes nothing from a section: there
\* is none to read, a read error, a section of another table, or a truncated one.
PassOver ==
    /\ pc = "pass"
    /\ place <= Len(running)
    /\ LET f == polled[place]
       IN  IF state[f].expired
           THEN /\ \E q \in remove_filter(Queues, f) : SetQueues(q)
                /\ state' = Without(state, f)
                /\ PollFds
           ELSE /\ \E s \in {state[f]} \cup (IF ready THEN Truncated(f) ELSE {}) :
                      state' = [state EXCEPT ![f] = s]
                /\ UNCHANGED <<running, waiting, polled, ready, failures>>
    /\ place' = place + 1
    /\ UNCHANGED <<pc, tuning, services, priv, announced>>

\* Section n of the table of filter f has been read, and p is what parse_section made of it:
\* what it says is taken, filters are added for it, and the filter is removed if it is done.
SectionTaken(f, n, p) ==
    LET want == IF p.fresh THEN Wanted(f[1], n) ELSE << >>
        done == (p.state.complete /\ ~Segmented(f)) \/ p.state.expired
        old == [state EXCEPT ![f] = p.state]
        all == [g \in DOMAIN old \cup Range(want) |->
                   IF g \in DOMAIN old THEN old[g] ELSE setup_filter]
    IN  /\ IF p.fresh THEN Parse(f[1], n)
           ELSE UNCHANGED <<services, priv, tps, new, scanned, announced>>
        /\ \E q \in add_filters(Queues, want) :
              IF done THEN \E r \in remove_filter(q, f) : SetQueues(r)
              ELSE SetQueues(q)
        /\ state' = IF done THEN Without(all, f) ELSE all
        /\ PollFds

\* One round of the loop for a filter that has a section.
ReadSection ==
    /\ pc = "pass"
    /\ place <= Len(running)
    /\ ready
    /\ LET f == polled[place]
           last == LastSection(f[1])
       IN  \E n \in 0 .. last, v \in Versions(f[1]), ext \in ExtsOf(f) :
             SectionTaken(f, n, parse_section(state[f], ext, v, n, last))
    /\ place' = place + 1
    /\ UNCHANGED <<pc, cur, feType>>

\* Mutant: filters that wait are left behind.
EndPass_running ==
    /\ pc = "pass"
    /\ place > Len(running)
    /\ pc' = IF running = << >> THEN "tune" ELSE "poll"
    /\ place' = 1
    /\ UNCHANGED <<tuning, services, priv, filters, announced>>

\* The end of a pass: once more, or on to the next transponder.
EndPass ==
    /\ pc = "pass"
    /\ place > Len(running)
    /\ pc' = IF running = << >> /\ waiting = << >> THEN "tune" ELSE "poll"
    /\ place' = 1
    /\ UNCHANGED <<tuning, services, priv, filters, announced>>

\* There is no further transponder.
Finish ==
    /\ pc = "tune"
    /\ new = << >>
    /\ pc' = "end"
    /\ UNCHANGED <<tuning, services, priv, filters, place, announced>>

\* The clock passes the timeout of a running filter.
Expire(f) ==
    /\ pc \in {"poll", "pass"}
    /\ f \in Range(running)
    /\ ~state[f].expired
    /\ state' = [state EXCEPT ![f].expired = TRUE]
    /\ UNCHANGED <<pc, tuning, services, priv, running, waiting, polled, ready, place,
                   announced, failures>>

Thread ==
    \/ TuneNext \/ Retry \/ GiveUp \/ OtherFrequency \/ ScanTp \/ Poll \/ PassOver
    \/ ReadSection \/ EndPass \/ Finish

SomeExpire == \E f \in Range(running) : Expire(f)

Next == Thread \/ SomeExpire

Spec == Init /\ [][Next]_vars

\* The program's only thread goes on as long as it is not at its end, and time passes.
FairSpec == Spec /\ WF_vars(Thread) /\ WF_vars(SomeExpire)

-----------------------------------------------------------------------------
(* Properties.                                                             *)

Filters == Range(running) \cup Range(waiting)

TypeOK ==
    /\ pc \in {"tune", "retry", "next", "setup", "poll", "pass", "end"}
    /\ Range(new) \cup Range(scanned) = DOMAIN tps
    /\ Range(new) \cap Range(scanned) = {}
    /\ IsInjective(new) /\ IsInjective(scanned)
    /\ Range(running) \cap Range(waiting) = {}
    /\ IsInjective(running) /\ IsInjective(waiting)
    /\ DOMAIN state = Filters
    /\ services \subseteq (DOMAIN tps) \X Nat
    /\ priv \subseteq services
    /\ failures \in 0 .. OpenFailures

\* The loop of read_filters finds a running filter at every place it looks at, though
\* filters are added, removed and started from the waiting list while it runs: none of
\* the fatal() checks of read_filters and update_poll_fds can fail.  That the pass under
\* way comes to each of them is not said: a filter that moves to an earlier place when
\* another one is removed has to wait for the next pass.
PollsWhatRuns == Len(running) <= MaxRunning /\ polled = running

\* No filter outlives its transponder: while a transponder is scanned every filter is one of
\* its own, so that parse_pat and parse_pmt, which go by current_tp, find their services.
FiltersOfCurrent ==
    \A f \in Filters :
        /\ f[2] = cur
        /\ f[1] = "PMT" => <<cur, f[3]>> \in services

\* A transponder once announced by a NIT for the frontend's type is known from then on,
\* whatever frequency its entry is tuned to or copied to later: it is on one of the lists.
\* This needs frequencies of which those close to a third one are close to each other; along
\* a chain of close ones copy_transponder() moves an entry away from the first.
KnownStaysKnown ==
    \A f \in announced :
        \E t \in Range(new) \cup Range(scanned) : is_same_transponder(tps[t].freq, f)

\* No transponder is scanned twice: entries of the same transponder are never both to be
\* scanned or scanned, however the NITs and the other frequencies name it.  As above close
\* frequencies are to be one transponder; and the initial tuning data, which is not looked
\* through when it is read, is to name none twice.
EachScannedOnce ==
    \A t, u \in DOMAIN tps : t # u => ~is_same_transponder(tps[t].freq, tps[u].freq)

\* Nothing runs and only a filter that stops would start the ones that wait, because the
\* demux device could not be opened for them.
Stalled == failures > 0 /\ pc \in {"poll", "pass"} /\ running = << >> /\ waiting # << >>

\* The scan ends, in spite of devices that cannot be opened for a while, as long as one
\* filter of the transponder runs: its removal starts those that wait.  Where none does the
\* scan may wait for ever, since remove_filter alone starts waiting filters: that half of
\* the hazard is the exception made here.
ScanEnds == <>(pc = "end" \/ Stalled)

=============================================================================
