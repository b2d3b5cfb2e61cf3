-------------------------------- MODULE Files ------------------------------
(***************************************************************************)
(* sigrok-cli from the input to the file: a device, an input module or the *)
(* virtual device of a session file feeds datafeed_in(), which filters the *)
(* samples and stores them for a session file or hands them to an output   *)
(* module.  Command lines run one after the other, each in a process of    *)
(* its own, and what one writes the next may read.                         *)
(***************************************************************************)
EXTENDS Datastore, Outputs, FiniteSets

CONSTANTS
    Plans,          \* sequences of command lines
    DevProbes,      \* the names of the probes of the device
    DevUnitsize,    \* the size of its samples
    Signal,         \* what it measures
    Channels,       \* the names of the probes of the oscilloscope
    MaxPacket,      \* bound: samples in one packet of a device
    La8Packets, La8PacketSize,  \* NUM_PACKETS, PACKET_SIZE
    DefaultProbes,  \* DEFAULT_NUM_PROBES
    SamplesPerLine  \* of the text formats

Devices == {"device", "scope"}

\* The options of a command line that matter here.
Commands == [input : Devices \cup {"file"}, probes : Seq([n : Nat, name : STRING]),
             triggers : Seq(STRING), format : Formats \cup {""}, save : BOOLEAN,
             limit : Nat, wait : BOOLEAN, numprobes : Int,
             input_format : {"", "binary", "chronovu-la8"}]

ASSUME FilesAssumption ==
    /\ FilterAssumption /\ DatastoreAssumption
    /\ {DevUnitsize, MaxPacket, La8Packets, La8PacketSize, DefaultProbes,
        SamplesPerLine} \subseteq Nat \ {0}
    /\ {DevProbes, Channels} \subseteq Seq(STRING) \ {<<>>}
    /\ Len(DevProbes) <= DevUnitsize * ByteBits
    /\ Signal \in Seq(SUBSET (0 .. DevUnitsize * ByteBits - 1))
    /\ Plans \subseteq Seq(Commands) \ {<<>>}

VARIABLES
    plan, k,        \* the command lines, and which of them runs
    pc,             \* what its process is doing
    file,           \* the file the commands write and read
    source,         \* where the samples come from
    dev,            \* struct sr_dev: driver and probes
    in_unitsize,    \* logic->unitsize
    pos,            \* bytes or packets of the input read
    o,              \* the output module
    store,          \* dev->datastore
    logic_probelist, unitsize, triggered, received_samples,
    fed,            \* history: bytes, or samples, sent to datafeed_in()
    given,          \* history: the packed bytes each command passed on
    labels,         \* history: names and triggers of its enabled probes
    origin,         \* history: the command that wrote the file, 0 if it was ragged
    marked,         \* history: samples passed on before the last trigger
    ragged,         \* history: a packet has ended within a sample
    torn            \* history: a packet has ended within a line of bytes

inputVars == <<source, dev, in_unitsize>>
feedVars == <<logic_probelist, unitsize, triggered, received_samples>>
history == <<fed, given, marked, ragged, torn>>
vars == <<plan, k, pc, file, origin, inputVars, pos, o, store, feedVars, history,
          labels>>

cmd == plan[k]

-----------------------------------------------------------------------------
(* The probes: sr_dev_probe_add(), select_probes() *)

Probe(name, trigger) == [name |-> name, enabled |-> TRUE, trigger |-> trigger]

Numbered(n) == [i \in 1 .. n |-> Probe(ToString(i - 1), "")]

\* parse_probestring() gives up at a number out of range.
ProbesOk(probes) == \A i \in DOMAIN cmd.probes : cmd.probes[i].n \in DOMAIN probes

\* The last name given for a probe counts; the others are disabled.
Select(probes) ==
    IF cmd.probes = <<>> \/ ~ProbesOk(probes) THEN probes
    ELSE [i \in DOMAIN probes |->
             LET at == {j \in DOMAIN cmd.probes : cmd.probes[j].n = i}
             IN  IF at = {} THEN [probes[i] EXCEPT !.enabled = FALSE]
                 ELSE [probes[i] EXCEPT !.name = cmd.probes[Max(at)].name]]

\* sr_dev_trigger_set() for those of the trigger string.
WithTriggers(probes) ==
    [i \in DOMAIN probes |->
        [probes[i] EXCEPT !.trigger =
            IF i \in DOMAIN cmd.triggers THEN cmd.triggers[i] ELSE @]]

\* The elements at some places of a sequence, in their order.
Kept(s, places) ==
    LET kept[n \in 0 .. Len(s)] ==
            IF n = 0 THEN <<>>
            ELSE IF n \in places THEN Append(kept[n - 1], s[n]) ELSE kept[n - 1]
    IN  kept[Len(s)]

EnabledOf(probes) == Kept(probes, {i \in DOMAIN probes : probes[i].enabled})

Labels(probes) ==
    LET enabled == EnabledOf(probes)
    IN  [i \in DOMAIN enabled |->
            [name |-> enabled[i].name, trigger |-> enabled[i].trigger]]

Names(probes) ==
    LET enabled == EnabledOf(probes)
    IN  [i \in DOMAIN enabled |-> enabled[i].name]

UnitsizeOf(bits) == (bits + ByteBits - 1) \div ByteBits

-----------------------------------------------------------------------------
(* Files *)

NoFile == [kind |-> "none", data |-> <<>>, unitsize |-> 0, total |-> 0,
           rate |-> FALSE, probes |-> <<>>]

RawFile(kind, data) == [NoFile EXCEPT !.kind = kind, !.data = data]

\* Mutant: disabled probes are counted as well.
SavedNumbered(probes, ds) ==
    [kind |-> "session", data |-> Contents(ds), unitsize |-> ds.unitsize,
     total |-> Len(probes), rate |-> dev.rate,
     probes |-> [i \in DOMAIN EnabledOf(probes) |->
                    [name |-> probes[i].name, trigger |-> probes[i].trigger]]]

\* sr_session_save(): the enabled probes are numbered anew.
Saved(probes, ds) ==
    [kind |-> "session", data |-> Contents(ds), unitsize |-> ds.unitsize,
     total |-> Len(probes), rate |-> dev.rate, probes |-> Labels(probes)]

\* sr_session_load(): as many probes, of which the first are named and the
\* others disabled.
Loaded(f) ==
    [i \in 1 .. f.total |->
        IF i \in DOMAIN f.probes
        THEN Probe(f.probes[i].name, f.probes[i].trigger)
        ELSE [Numbered(f.total)[i] EXCEPT !.enabled = FALSE]]

\* What hw_dev_config_set() of the session driver keeps of the file.
Vdev(f) == [unitsize |-> f.unitsize, num_probes |-> f.total]

\* determine_input_file_format(): by the length, unless the user says.
La8Trailer == 5
InputFormat ==
    IF cmd.input_format # "" THEN cmd.input_format
    ELSE IF Len(file.data) = La8Packets * La8PacketSize + La8Trailer
    THEN "chronovu-la8" ELSE "binary"

-----------------------------------------------------------------------------
(* run_session() and load_input_file() up to the start of the session *)

Uses(from, driver, rate, probes, size) ==
    /\ source' = from /\ in_unitsize' = size
    /\ dev' = [driver |-> driver, rate |-> rate, probes |-> probes]
    /\ pc' = "ready"

Fails == pc' = "failed" /\ UNCHANGED inputVars

OpenDevice ==
    /\ cmd.input \in Devices
    /\ LET probes == [i \in DOMAIN DevProbes |-> Probe(DevProbes[i], "")]
           channels == [i \in DOMAIN Channels |-> Probe(Channels[i], "")]
       IN  IF cmd.input = "scope"
           THEN Uses("scope", "hw", FALSE, Select(channels), 0)
           ELSE IF ~ProbesOk(probes) THEN Fails
           ELSE Uses("device", "hw", TRUE, WithTriggers(Select(probes)),
                     DevUnitsize)

\* sr_session_load(); -p is not looked at.
OpenSession ==
    /\ cmd.input = "file" /\ file.kind = "session"
    /\ Uses("session", "session", FALSE, Loaded(file),
            Vdev(file).unitsize)

\* load_input_file_format(): a bad -p is not noticed.
OpenRaw ==
    /\ cmd.input = "file" /\ file.kind # "session"
    /\ LET n == IF cmd.numprobes = -1 THEN DefaultProbes ELSE cmd.numprobes
       IN  IF file.kind = "none" \/ n < 1 THEN Fails
           ELSE Uses(InputFormat, "none", FALSE, Select(Numbered(n)),
                     UnitsizeOf(n))

Begin ==
    /\ pc = "start"
    /\ OpenDevice \/ OpenSession \/ OpenRaw
    /\ labels' = IF pc' = "ready" THEN [labels EXCEPT ![k] = Labels(dev'.probes)]
                 ELSE labels
    /\ UNCHANGED <<plan, k, file, origin, pos, o, store, feedVars, history>>

-----------------------------------------------------------------------------
(* datafeed_in() *)

Saving == cmd.save /\ cmd.format = ""

\* The default output format is bits.
Format == IF cmd.format = "" THEN "bits" ELSE cmd.format

\* SR_DF_HEADER
Header ==
    /\ pc = "ready"
    /\ o' = Open(Format, Names(dev.probes), SamplesPerLine, dev.rate,
                 dev.driver)
    /\ pc' = IF o' = NoContext THEN "failed" ELSE "header"
    /\ UNCHANGED <<plan, k, file, origin, inputVars, pos, store, feedVars, history,
                   labels>>

\* meta.num_probes of the virtual devices, and of the others.
VdevProbes == Vdev(file).num_probes
NumProbes == IF source = "session" THEN VdevProbes ELSE Len(dev.probes)

\* SR_DF_META_LOGIC; an oscilloscope sends SR_DF_META_ANALOG, and unitsize
\* stays 0, which a datastore cannot be made for.
Meta ==
    /\ pc = "header"
    /\ IF source = "scope" THEN UNCHANGED <<logic_probelist, unitsize>>
       ELSE LET list == Kept([i \in 1 .. NumProbes |-> i],
                             {i \in 1 .. NumProbes : dev.probes[i].enabled})
            IN  logic_probelist' = list /\ unitsize' = UnitsizeOf(Len(list))
    /\ IF Saving /\ unitsize' = 0 THEN pc' = "failed" ELSE pc' = "feed"
    /\ store' = IF Saving THEN New(unitsize') ELSE store
    /\ UNCHANGED <<plan, k, file, origin, inputVars, pos, o, triggered,
                   received_samples, history, labels>>

Copied == Len(logic_probelist) = in_unitsize * ByteBits

\* sr_filter_probes() on the bytes of a packet.
Filtered(bytes, garbage) ==
    IF Copied THEN bytes
    ELSE ToBytes(FilterProbes(in_unitsize, unitsize, logic_probelist,
                              Words(bytes, in_unitsize), garbage), unitsize)

\* The last packet is cut off to the limit, in bytes.
Cut(bytes, n) ==
    IF cmd.limit # 0 /\ received_samples + n > cmd.limit * in_unitsize
    THEN SubSeq(bytes, 1, cmd.limit * in_unitsize - received_samples)
    ELSE bytes

LimitReached == cmd.limit # 0 /\ received_samples >= cmd.limit

Ignored == LimitReached \/ (cmd.wait /\ ~triggered)

\* Less than a sample, where the length is taken for a big one.
Overruns(bytes, out) ==
    \/ ~Copied /\ Len(bytes) < in_unitsize
    \/ ~Saving /\ Format \in Unguarded /\ Len(out) < unitsize

PassOn(out, garbage) ==
    /\ store' = IF Saving THEN Put(store, out) ELSE store
    /\ o' = IF Saving \/ Format = "float" THEN o ELSE Data(o, out, unitsize, garbage)
    /\ given' = [given EXCEPT ![k] = @ \o out]
    /\ torn' = (torn \/ (Format = "hex" /\ o.off # 0))

\* SR_DF_LOGIC. The float output has no use for it: output_buf, which is not
\* initialized then, is written and freed.
Logic(bytes, garbage) ==
    LET n == Len(bytes) \div in_unitsize
        out == Cut(Filtered(bytes, garbage), n)
    IN  /\ fed' = fed + Len(bytes)
        /\ ragged' = (ragged \/ (fed % in_unitsize) # 0)
        /\ IF bytes = <<>> \/ Ignored
           THEN UNCHANGED <<pc, o, store, received_samples, given, torn>>
           ELSE IF Overruns(bytes, out)
           THEN pc' = "crashed"
                /\ UNCHANGED <<o, store, received_samples, given, torn>>
           ELSE \/ /\ PassOn(out, garbage)
                   /\ received_samples' = received_samples + n
                   /\ UNCHANGED pc
                \/ /\ ~Saving /\ Format = "float" /\ pc' = "crashed"
                   /\ UNCHANGED <<o, store, received_samples, given, torn>>

\* SR_DF_ANALOG with the values of m samples of every enabled channel, in a
\* frame: num_samples is m.
Analog(m) ==
    LET names == Names(dev.probes)
        values == [i \in 1 .. m * Len(names) |->
                      [name |-> names[((i - 1) % Len(names)) + 1],
                       n |-> fed + (i - 1) \div Len(names)]]
        begun == Event(o, "frame-begin")
    IN  /\ fed' = fed + m
        /\ IF LimitReached
           THEN o' = Event(begun, "frame-end") /\ UNCHANGED received_samples
           ELSE /\ o' = Event(IF Format = "float"
                              THEN FloatData(begun, values, m) ELSE begun,
                              "frame-end")
                /\ received_samples' = received_samples + m

-----------------------------------------------------------------------------
(* The inputs *)

Chunk(size) == SubSeq(file.data, pos + 1, Min({pos + size, Len(file.data)}))

\* receive_data() of the session driver, and loadfile() of input/binary.c.
ReadChunk ==
    /\ pc = "feed" /\ source \in {"session", "binary"}
    /\ pos < Len(file.data)
    /\ \E garbage \in Garbage(in_unitsize) : Logic(Chunk(ChunkSize), garbage)
    /\ pos' = pos + Len(Chunk(ChunkSize))
    /\ UNCHANGED <<plan, k, file, origin, inputVars, logic_probelist, unitsize,
                   triggered, marked, labels>>

\* loadfile() of input/chronovu_la8.c: always so many packets.
ReadLa8 ==
    /\ pc = "feed" /\ source = "chronovu-la8"
    /\ pos < La8Packets * La8PacketSize
    /\ \E garbage \in Garbage(in_unitsize) : Logic(Chunk(La8PacketSize), garbage)
    /\ pos' = pos + La8PacketSize
    /\ UNCHANGED <<plan, k, file, origin, inputVars, logic_probelist, unitsize,
                   triggered, marked, labels>>

DeviceSends ==
    /\ pc = "feed" /\ source = "device"
    /\ \E n \in 1 .. MaxPacket, garbage \in Garbage(in_unitsize) :
          /\ pos + n <= Len(Signal)
          /\ Logic(ToBytes(SubSeq(Signal, pos + 1, pos + n), DevUnitsize),
                   garbage)
          /\ pos' = pos + n
    /\ UNCHANGED <<plan, k, file, origin, inputVars, logic_probelist, unitsize,
                   triggered, marked, labels>>

\* SR_DF_TRIGGER
DeviceTriggers ==
    /\ pc = "feed" /\ source = "device" /\ ~triggered
    /\ triggered' = TRUE /\ o' = Event(o, "trigger")
    /\ marked' = Len(given[k]) \div unitsize
    /\ UNCHANGED <<plan, k, pc, file, origin, inputVars, pos, store, logic_probelist,
                   unitsize, received_samples, fed, given, ragged, torn,
                   labels>>

ScopeSends ==
    /\ pc = "feed" /\ source = "scope"
    /\ \E m \in 1 .. MaxPacket : pos + m <= Len(Signal) /\ pos' = pos + m
                                 /\ Analog(m)
    /\ UNCHANGED <<plan, k, pc, file, origin, inputVars, store, logic_probelist,
                   unitsize, triggered, given, marked, ragged, torn, labels>>

\* Mutant: the input is read on after its last byte.
AtEndBeyond ==
    CASE source \in Devices -> TRUE
      [] source = "chronovu-la8" -> pos >= La8Packets * La8PacketSize
      [] OTHER -> pos > Len(file.data)

AtEnd ==
    CASE source \in Devices -> TRUE
      [] source = "chronovu-la8" -> pos >= La8Packets * La8PacketSize
      [] OTHER -> pos >= Len(file.data)

\* SR_DF_END; the session is stopped.
EndOfFeed ==
    /\ pc = "feed" /\ AtEnd
    /\ pc' = "ended" /\ o' = Event(o, "end")
    /\ UNCHANGED <<plan, k, file, origin, inputVars, pos, store, feedVars, history,
                   labels>>

-----------------------------------------------------------------------------
(* The end of the process, and the next one *)

BytesOf(items) == [i \in DOMAIN items |-> items[i].byte]

\* With -o, and the default format, run_session() and the input modules save
\* the session; load_input_file() does not for a session file.
Writes == cmd.save /\ ~(Saving /\ source = "session")
Written ==
    IF ~Writes THEN file
    ELSE IF Saving THEN Saved(dev.probes, store)
    ELSE IF Format \in Raw THEN RawFile(Format, BytesOf(o.out))
    ELSE RawFile("text", <<>>)

Exit ==
    /\ pc = "ended" /\ pc' = "left" /\ file' = Written
    /\ origin' = IF ~Writes THEN origin ELSE IF Saving /\ ragged THEN 0 ELSE k
    /\ UNCHANGED <<plan, k, inputVars, pos, o, store, feedVars, history, labels>>

NoDev == [driver |-> "none", rate |-> FALSE, probes |-> <<>>]

NextCommand ==
    /\ pc = "left" /\ k < Len(plan)
    /\ k' = k + 1 /\ pc' = "start"
    /\ source' = "" /\ dev' = NoDev /\ in_unitsize' = 0 /\ pos' = 0
    /\ o' = NoContext /\ store' = NoStore
    /\ logic_probelist' = <<>> /\ unitsize' = 0
    /\ triggered' = FALSE /\ received_samples' = 0
    /\ fed' = 0 /\ marked' = -1 /\ ragged' = FALSE /\ torn' = FALSE
    /\ UNCHANGED <<plan, file, origin, given, labels>>

Init ==
    /\ plan \in Plans /\ k = 1 /\ pc = "start" /\ file = NoFile /\ origin = 0
    /\ source = "" /\ dev = NoDev /\ in_unitsize = 0 /\ pos = 0
    /\ o = NoContext /\ store = NoStore
    /\ logic_probelist = <<>> /\ unitsize = 0
    /\ triggered = FALSE /\ received_samples = 0
    /\ fed = 0 /\ marked = -1 /\ ragged = FALSE /\ torn = FALSE
    /\ given = [c \in DOMAIN plan |-> <<>>]
    /\ labels = [c \in DOMAIN plan |-> <<>>]

Next ==
    \/ Begin \/ Header \/ Meta
    \/ ReadChunk \/ ReadLa8 \/ DeviceSends \/ DeviceTriggers \/ ScopeSends
    \/ EndOfFeed \/ Exit \/ NextCommand

\* The program keeps running; nothing makes a device send, or stop.
Reading == Begin \/ Header \/ Meta \/ ReadChunk \/ ReadLa8
Spec == Init /\ [][Next]_vars /\ WF_vars(Reading)
             /\ WF_vars(source \notin Devices /\ EndOfFeed) /\ WF_vars(Exit)

-----------------------------------------------------------------------------
(* Reading the files back *)

Passed == Words(given[k], unitsize)

Items(kind) == Kept(o.out, {i \in DOMAIN o.out : o.out[i].kind = kind})

Lines == Items("line")

\* How many samples a line holds: all but the last are full.
LineLength(i) == Min({SamplesPerLine, Len(Passed) - SamplesPerLine * (i - 1)})

\* The sample q (from 0) of the line i, from the cells of the line; a hex cell
\* shows a byte of samples, the last one of a line perhaps fewer.
Shows(i, q) ==
    LET cells == Lines[i].cells
    IN  IF o.format # "hex" THEN cells[q + 1].high
        ELSE LET c == q \div ByteBits
                 held == Min({ByteBits, LineLength(i) - c * ByteBits})
             IN  cells[c + 1].bits[ByteBits - held + (q % ByteBits) + 1]

CellsOf(n) == IF o.format = "hex" THEN UnitsizeOf(n) ELSE n

IsEdge(c, i) ==
    /\ c.rise = c.high \ (IF i = 1 THEN {} ELSE Passed[i - 1])
    /\ i < Len(Passed) => c.fall = c.high \ Passed[i + 1]

LinesShow ==
    /\ Len(Lines) = (Len(Passed) + SamplesPerLine - 1) \div SamplesPerLine
    /\ \A i \in DOMAIN Lines :
          /\ Len(Lines[i].cells) = CellsOf(LineLength(i))
          /\ \A q \in 0 .. LineLength(i) - 1 :
                /\ Shows(i, q) = Passed[SamplesPerLine * (i - 1) + q + 1]
                /\ o.format = "ascii" =>
                      IsEdge(Lines[i].cells[q + 1], SamplesPerLine * (i - 1) + q + 1)

\* What the changes make of the signals at sample n: the last word on a probe
\* counts.
Level(n) ==
    LET changes == Items("change")
        until == {i \in DOMAIN changes : changes[i].at <= n}
    IN  {p \in Probes0(o) : \E i \in until :
            /\ p \in changes[i].high
            /\ \A j \in until : j > i => p \notin changes[j].low}

Destutter(s) == Kept(s, {i \in DOMAIN s : i = 1 \/ s[i] # s[i - 1]})

Points == [i \in DOMAIN Items("point") |-> Items("point")[i].s]

\* A reader of the output finds the samples in it.
ReadsBack ==
    CASE o.format \in Text -> LinesShow
      [] o.format = "vcd" ->
            o.rate => \A n \in DOMAIN Passed : Level(n) = Passed[n]
      [] o.format = "csv" ->
            [i \in DOMAIN Items("row") |->
                {p \in Probes0(o) : Items("row")[i].cells[Len(o.names) - p]}]
            = Passed
      [] o.format = "ols" ->
            Items("sample") = [i \in DOMAIN Passed |->
                [kind |-> "sample", n |-> i - 1, s |-> Passed[i]]]
      [] o.format = "gnuplot" ->
            /\ Destutter(Points) = Destutter(Passed)
            /\ Passed # <<>> => Points # <<>>
      [] OTHER -> SubSeq(BytesOf(o.out), 1, Len(given[k])) = given[k]

-----------------------------------------------------------------------------
(* Properties *)

Ended == pc \in {"ended", "left"}

TypeOK ==
    /\ plan \in Plans /\ k \in DOMAIN plan
    /\ pc \in {"start", "ready", "header", "feed", "ended", "left", "failed",
               "crashed"}
    /\ source \in {"", "device", "scope", "session", "binary", "chronovu-la8"}
    /\ in_unitsize \in Nat /\ unitsize \in Nat /\ pos \in Nat
    /\ received_samples \in Nat /\ fed \in Nat /\ triggered \in BOOLEAN
    /\ origin \in 0 .. k /\ marked \in Int /\ ragged \in BOOLEAN /\ torn \in BOOLEAN
    /\ \A i \in DOMAIN logic_probelist : logic_probelist[i] \in 1 .. Len(dev.probes)
    /\ \A c \in DOMAIN given : given[c] \in Seq(SUBSET (0 .. ByteBits - 1))

\* The shift (1 << i) of an int does not reach its sign bit.
FewProbes ==
    /\ Len(DevProbes) < IntBits /\ DefaultProbes < IntBits
    /\ \A p \in Plans : \A c \in DOMAIN p : p[c].numprobes < IntBits

\* However the samples are cut into packets, as long as each begins with a
\* sample: they are stored one after the other, the next one where the last
\* chunk has room or ends, and what is saved are the samples passed on.
StoredInOrder ==
    store # NoStore /\ ~ragged =>
        /\ (fed % in_unitsize) = 0 /\ ~LimitReached =>
              ChunkOffset(store) \in 0 .. ChunkSize
        /\ Contents(store) = ToBytes(Passed, unitsize)

\* The samples of the probes in the list, from those of an earlier command.
Selected(samples) ==
    [i \in DOMAIN samples |->
        {b - 1 : b \in {b \in DOMAIN logic_probelist :
                            logic_probelist[b] - 1 \in samples[i]}}]

\* A command that reads what an earlier one wrote passes on the samples of the
\* probes that were enabled, of those that it selects; a session file keeps
\* their names and triggers as well.  (A file of an LA8 is read up to its size,
\* whatever it is.)
RoundTrip ==
    /\ pc = "ended" /\ source = file.kind /\ origin # 0
    /\ ~ragged /\ cmd.limit = 0 /\ ~cmd.wait
    /\ source = "chronovu-la8" => Len(given[origin]) = La8Packets * La8PacketSize
    =>
        /\ Passed = Selected(Words(given[origin], in_unitsize))
        /\ source = "session" => labels[k] = labels[origin]

\* Whatever the packets are, a reader of the output gets the samples that
\* were passed on, in all formats: in the hex format only when each packet
\* begins with a line, or in its first byte.
OutputReadsBack ==
    (pc = "ended" /\ ~Saving /\ source # "scope" /\ Format # "float"
        /\ ~ragged /\ ~torn) => ReadsBack

\* In the bits format the trigger mark is under the first sample after the
\* trigger, in its line and in no other.
MarkUnderSample ==
    (pc = "ended" /\ o.format = "bits" /\ ~Saving /\ ~ragged) =>
        \A i \in DOMAIN Lines :
            Lines[i].mark =
                IF marked \in SamplesPerLine * (i - 1) .. SamplesPerLine * i - 1
                THEN marked - SamplesPerLine * (i - 1) ELSE -1

\* Each value of an oscilloscope carries the name of its channel; with one
\* channel, none is missing.
ValuesLabelled ==
    \A i \in DOMAIN Items("value") :
        /\ Items("value")[i].name = Items("value")[i].value.name
        /\ Len(o.names) = 1 => Items("value")[i].value.n = i - 1

\* What is saved is what was passed on, and what is loaded is what was saved.
StoredAndReadBack == StoredInOrder /\ RoundTrip

\* An output file says what was measured: its samples, its trigger mark, and
\* the names of its channels.
OutputFaithful == OutputReadsBack /\ MarkUnderSample /\ ValuesLabelled

\* A file is read to its end, in every format.
EveryFileEnds ==
    (pc = "start" /\ cmd.input = "file") ~> pc \in {"left", "failed", "crashed"}
=============================================================================
