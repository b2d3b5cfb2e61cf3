------------------------------- MODULE Outputs -----------------------------
(***************************************************************************)
(* The output modules of libsigrok/output: what they make of the packets   *)
(* of samples a frontend hands them.  A context holds what the module      *)
(* keeps between packets and the items written so far.  Columns, spaces,   *)
(* names of signals and the wording of the header are left out; fewer      *)
(* probes than bits in an int are enabled, but at least one.               *)
(***************************************************************************)
EXTENDS Filter, SequencesExt

Text == {"bits", "hex", "ascii"}
Raw == {"binary", "chronovu-la8"}

\* Those that take words out of the packet before they know that there is
\* one: length_in - unitsize is unsigned.
Unguarded == {"hex", "vcd", "csv", "gnuplot", "ols"}

Formats == Text \cup Raw \cup Unguarded \cup {"float"}

\* o->internal, and what has been written to the output file.
Context(format, names, header) ==
    [format |-> format, names |-> names, open |-> TRUE, header |-> header,
     spl |-> 0, rate |-> FALSE, cnt |-> 0, off |-> 0, mark |-> -1,
     line |-> <<>>, values |-> [b \in 1 .. ByteBits |-> {}],
     prev |-> {}, count |-> 0, out |-> <<>>]

\* init() has failed.
NoContext == [Context("none", <<>>, FALSE) EXCEPT !.open = FALSE]

\* spl is samples_per_line, rate says whether the samplerate is known, driver
\* is that of the device: an input module has none.
InitText(format, names, spl) ==
    [Context(format, names, TRUE) EXCEPT !.spl = spl]

MaxVcdProbes == 94
InitVcd(names, rate) ==
    IF Len(names) > MaxVcdProbes THEN NoContext
    ELSE [Context("vcd", names, TRUE) EXCEPT !.rate = rate]

InitCsv(names, driver) ==
    IF driver = "none" THEN NoContext ELSE Context("csv", names, TRUE)

InitGnuplot(names, driver) ==
    IF driver = "none" THEN NoContext ELSE Context("gnuplot", names, TRUE)

InitOls(names) == Context("ols", names, TRUE)

InitLa8(names, driver) ==
    IF driver = "none" THEN NoContext
    ELSE Context("chronovu-la8", names, FALSE)

InitFloat(names, driver) ==
    IF driver = "none" THEN NoContext ELSE Context("float", names, FALSE)

\* o->format->init(); the binary format has none.
Open(format, names, spl, rate, driver) ==
    CASE format \in Text -> InitText(format, names, spl)
      [] format = "vcd" -> InitVcd(names, rate)
      [] format = "csv" -> InitCsv(names, driver)
      [] format = "gnuplot" -> InitGnuplot(names, driver)
      [] format = "ols" -> InitOls(names)
      [] format = "chronovu-la8" -> InitLa8(names, driver)
      [] format = "float" -> InitFloat(names, driver)
      [] format = "binary" -> Context("binary", names, FALSE)

Emit(o, items) == [o EXCEPT !.out = @ \o items]

-----------------------------------------------------------------------------
(* Words and bytes; a byte is the set of its bits. *)

\* Mutant: the bits are not moved.
BytesUnmoved(sample, unitsize) ==
    [b \in 1 .. unitsize |->
        sample \cap ((b - 1) * ByteBits .. b * ByteBits - 1)]

Bytes(sample, unitsize) ==
    [b \in 1 .. unitsize |->
        {x - (b - 1) * ByteBits :
            x \in sample \cap ((b - 1) * ByteBits .. b * ByteBits - 1)}]

ToBytes(samples, unitsize) ==
    FlattenSeq([i \in DOMAIN samples |-> Bytes(samples[i], unitsize)])

\* The whole words of a packet: a rest is left out.
Words(bytes, unitsize) ==
    [i \in 1 .. Len(bytes) \div unitsize |->
        UNION {{x + (b - 1) * ByteBits : x \in bytes[(i - 1) * unitsize + b]} :
                   b \in 1 .. unitsize}]

-----------------------------------------------------------------------------
(* output/text: a line of samples_per_line samples for every probe. All    *)
(* probes are at the same column: a column of the line is a cell.          *)

\* A hex cell overwritten before it was whole ends the string.
Shown(line) ==
    LET ends == {i \in DOMAIN line : ~line[i].sep}
    IN  SubSeq(line, 1, Min(ends \cup {Len(line)}))

\* flush_linebufs()
Flush(o) ==
    IF o.line = <<>> THEN o
    ELSE [Emit(o, <<[kind |-> "line", mark |-> o.mark,
                     cells |-> Shown(o.line)]>>)
             EXCEPT !.line = <<>>]

\* Mutant: the samples of the line go on being counted.
EndOfLineUncounted(o) ==
    IF o.cnt >= o.spl THEN [Flush(o) EXCEPT !.off = 0] ELSE o

EndOfLine(o) ==
    IF o.cnt >= o.spl THEN [Flush(o) EXCEPT !.cnt = 0, !.off = 0] ELSE o

\* In the bits and the ascii format the mark goes with its line.
EndOfMarkedLine(o) ==
    IF o.cnt >= o.spl THEN [EndOfLine(o) EXCEPT !.mark = -1] ELSE o

Cell(high, rise, bits, sep) ==
    [high |-> high, rise |-> rise, fall |-> {}, bits |-> bits, sep |-> sep]

BitsSample(o, s) ==
    EndOfMarkedLine([o EXCEPT !.line = Append(@, Cell(s, {}, <<>>, TRUE)),
                              !.cnt = @ + 1])

\* A cell is written again with every sample, until it holds a byte.
HexSample(o, s) ==
    LET values == Append(Tail(o.values), s)
        whole == ((o.cnt + 1) % ByteBits) = 0
        at == o.off + 1
        cell == Cell({}, {}, values, whole)
    IN  EndOfLine([o EXCEPT
            !.values = values, !.cnt = @ + 1,
            !.line = [i \in 1 .. Max({at, Len(@)}) |->
                         IF i = at THEN cell ELSE @[i]],
            !.off = IF whole THEN at ELSE @])

\* An edge down is seen in the next sample, an edge up in its own. A full
\* line waits for the next sample.
AsciiSample(o, s) ==
    LET fell == IF o.line = <<>> THEN o
                ELSE [o EXCEPT !.line[Len(o.line)].fall = o.prev \ s]
    IN  [EndOfMarkedLine(fell) EXCEPT
            !.line = Append(@, Cell(s, s \ o.prev, <<>>, TRUE)),
            !.cnt = @ + 1, !.prev = s]

-----------------------------------------------------------------------------
(* The formats with one item a sample, or less. *)

Probes0(o) == 0 .. Len(o.names) - 1

\* Without a samplerate the time is a division by zero.
VcdSample(o, s, first) ==
    LET n == o.count + 1
        was == IF first THEN Probes0(o) \ s ELSE o.prev
        change == [kind |-> "change", at |-> IF o.rate THEN n ELSE -1,
                   high |-> s \ was, low |-> was \ s]
    IN  [Emit(o, IF s = was THEN <<>> ELSE <<change>>)
            EXCEPT !.count = n, !.prev = s]

\* The columns run from the last probe to the first.
CsvSample(o, s) ==
    Emit(o, <<[kind |-> "row",
               cells |-> [c \in 1 .. Len(o.names) |->
                             Len(o.names) - c \in s]]>>)

OlsSample(o, s) ==
    [Emit(o, <<[kind |-> "sample", n |-> o.count, s |-> s]>>)
        EXCEPT !.count = @ + 1]

\* A sample like the one before it is left out, save the last of a packet.
\* The counter counts the samples shown twice.
GnuplotSample(o, s, garbage, last) ==
    IF o.count # 0 /\ s \cup garbage = o.prev /\ ~last
    THEN [o EXCEPT !.count = @ + 1]
    ELSE [Emit(o, <<[kind |-> "point", n |-> o.count + 1, s |-> s]>>)
             EXCEPT !.count = @ + 2, !.prev = s \cup garbage]

ByteItems(bytes) ==
    [i \in DOMAIN bytes |-> [kind |-> "byte", byte |-> bytes[i]]]

-----------------------------------------------------------------------------
(* o->format->data() *)

Sample(o, samples, i, garbage, first) ==
    CASE o.format = "bits" -> BitsSample(o, samples[i])
      [] o.format = "hex" -> HexSample(o, samples[i])
      [] o.format = "ascii" -> AsciiSample(o, samples[i])
      [] o.format = "vcd" -> VcdSample(o, samples[i], first /\ i = 1)
      [] o.format = "csv" -> CsvSample(o, samples[i])
      [] o.format = "ols" -> OlsSample(o, samples[i])
      [] o.format = "gnuplot" ->
            GnuplotSample(o, samples[i], garbage, i = Len(samples))

\* The header waits for the first packet.
WithHeader(o) ==
    IF o.header
    THEN [Emit(o, <<[kind |-> "header", names |-> o.names]>>)
             EXCEPT !.header = FALSE]
    ELSE o

Data(o, bytes, unitsize, garbage) ==
    IF o.format \in Raw THEN Emit(o, ByteItems(bytes))
    ELSE LET samples == Words(bytes, unitsize)
             start == [WithHeader(o) EXCEPT
                          !.off = IF o.format = "hex" THEN 0 ELSE @]
             after[i \in 0 .. Len(samples)] ==
                 IF i = 0 THEN start
                 ELSE Sample(after[i - 1], samples, i, garbage, o.header)
         IN  after[Len(samples)]

\* A device may have more values in a packet than the num_samples it gives
\* the length for; the last round over the probes is not cut off.
FloatData(o, values, num_samples) ==
    LET n == Len(o.names)
        shown == n * ((num_samples + n - 1) \div n)
    IN  Emit(o, [i \in 1 .. shown |->
                    [kind |-> "value", name |-> o.names[((i - 1) % n) + 1],
                     value |-> values[i]]])

-----------------------------------------------------------------------------
(* o->format->event(): SR_DF_END frees the context. *)

Closed(o) == [o EXCEPT !.open = FALSE]

TextEvent(o, type) ==
    CASE type = "trigger" -> [o EXCEPT !.mark = o.cnt]
      [] type = "end" -> Closed(Flush(o))
      [] OTHER -> o

VcdEvent(o, type) ==
    IF type = "end" THEN Closed(Emit(o, <<[kind |-> "dumpoff"]>>)) ELSE o

CsvEvent(o, type) == IF type = "end" THEN Closed(o) ELSE o

GnuplotEvent(o, type) == IF type = "end" THEN Closed(o) ELSE o

OlsEvent(o, type) == IF o.open /\ type = "end" THEN Closed(o) ELSE o

\* A byte for the samplerate, and four for the trigger point, always 0.
La8Event(o, type) ==
    IF type = "end" THEN Closed(Emit(o, ByteItems(<<{0}, {}, {}, {}, {}>>)))
    ELSE o

FloatEvent(o, type) ==
    CASE type \in {"frame-begin", "frame-end"} -> Emit(o, <<[kind |-> type]>>)
      [] type = "end" -> Closed(o)
      [] OTHER -> o

Event(o, type) ==
    CASE o.format \in Text -> TextEvent(o, type)
      [] o.format = "vcd" -> VcdEvent(o, type)
      [] o.format = "csv" -> CsvEvent(o, type)
      [] o.format = "gnuplot" -> GnuplotEvent(o, type)
      [] o.format = "ols" -> OlsEvent(o, type)
      [] o.format = "chronovu-la8" -> La8Event(o, type)
      [] o.format = "float" -> FloatEvent(o, type)
      [] OTHER -> o
=============================================================================
