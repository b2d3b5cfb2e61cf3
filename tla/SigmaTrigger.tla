---------------------------- MODULE SigmaTrigger ----------------------------
(***************************************************************************)
(* How hardware/asix-sigma is set up for one capture after the other: its  *)
(* samplerate takes a firmware, the triggers of the probes become masks,   *)
(* and the masks become the look-up tables that the device triggers by (a  *)
(* pin and an edge at 100 and 200 MHz).  What is captured is in module     *)
(* Sigma; here a capture is only begun and over.                           *)
(*                                                                         *)
(* Probes are numbered from 0, levels are the set of probes that are high, *)
(* and a table is the set of the indices whose bit is set.                 *)
(***************************************************************************)
EXTENDS Acquisition, FiniteSetsExt

CONSTANTS
    NumQuads,     \* 4, the groups of probes with a table each
    QuadWidth,    \* 4, the probes of a group
    FastProbes,   \* 8, the pins of a trigger at 100 and 200 MHz
    MaxTriggers   \* bound: probes with a trigger

Quads  == 0 .. NumQuads - 1
Probes == 0 .. (NumQuads * QuadWidth) - 1
Pins   == 0 .. QuadWidth - 1

\* The rates in MHz: up to 50 (the default, 200 kHz, is one), 100, and 200.
Slow == 50
Rates == {Slow, 100, 200}

Levels == {"0", "1"}
Edges  == {"r", "f"}

Settings ==
    {s \in [Probes -> Levels \cup Edges \cup {"-"}] :
        Cardinality({p \in Probes : s[p] # "-"}) <= MaxTriggers}

SigmaTriggerAssumption ==
    {NumQuads, QuadWidth, FastProbes, MaxTriggers} \subseteq Nat \ {0}

-----------------------------------------------------------------------------
(* set_samplerate() *)

NoFirmware == -1
Firmware(rate) == CASE rate = Slow -> 0 [] rate = 100 -> 1 [] rate = 200 -> 2

\* The results of upload_firmware(): the firmware runs; the device does not
\* open, which returns 0 and is taken for SR_OK; or it does not answer.
Uploads == {"uploaded", "unopened", "unanswered"}

\* The rate is taken whether or not its firmware was.
RateSet(rate, upload) ==
    /\ ctx' = [ctx EXCEPT
          !.cur_samplerate = rate,
          !.cur_firmware = IF upload = "uploaded" THEN Firmware(rate) ELSE @]
    /\ device' = [device EXCEPT
          !.firmware = CASE upload = "uploaded" -> Firmware(rate)
                         [] upload = "unopened" -> @
                         [] upload = "unanswered" -> NoFirmware,
          !.failed = upload # "uploaded"]

SetSamplerate(rate, upload) ==
    /\ pc = "idle"
    /\ RateSet(rate, upload)
    /\ UNCHANGED sessionVars

-----------------------------------------------------------------------------
(* configure_probes() *)

Fast == ctx.cur_samplerate >= 100

Set(asked) == {p \in Probes : asked[p] # "-"}
With(asked, types) == {p \in Probes : asked[p] \in types}

\* The probes at which it returns SR_ERR: at 100 and 200 MHz any but the
\* first with a trigger, and one with a level; else a second edge.
Refused(asked) ==
    IF Fast
    THEN {p \in Set(asked) : asked[p] \in Levels \/ \E q \in Set(asked) : q < p}
    ELSE {p \in With(asked, Edges) : \E q \in With(asked, Edges) : q < p}

\* The masks up to the probe that is refused, its own edge included if slow.
MasksOf(asked) ==
    LET refused == Refused(asked)
        taken   == {p \in Probes : \A q \in refused : p < q \/ (p = q /\ ~Fast)}
    IN  [risingmask  |-> With(asked, {"r"}) \cap taken,
         fallingmask |-> With(asked, {"f"}) \cap taken,
         simplemask  |-> With(asked, Levels) \cap taken,
         simplevalue |-> With(asked, {"1"}) \cap taken]

\* use_triggers is set by an edge, before another is refused, and never reset:
\* a capture without a trigger marks one if an earlier one had an edge.
UsesTriggers(asked) ==
    \E p \in With(asked, Edges) : \A q \in Refused(asked) : p < q

ConfigureProbes(asked) ==
    /\ pc = "idle"
    /\ pc' = IF Refused(asked) = {} THEN "configured" ELSE "idle"
    /\ ctx' = [ctx EXCEPT !.trigger = MasksOf(asked),
                          !.use_triggers = @ \/ UsesTriggers(asked)]
    /\ device' = [device EXCEPT !.asked = asked]
    /\ UNCHANGED <<running, phase, sent>>

-----------------------------------------------------------------------------
(* build_basic_trigger() *)

Bit(i, k) == (i \div 2^k) % 2 = 1

\* Mutant: the probes of a quad are taken in the other order.
BuildLutEntryReversed(value, mask) ==
    [i \in Quads |-> {j \in 0 .. 2^QuadWidth - 1 :
        \A k \in Pins : LET p == (i * QuadWidth) + (QuadWidth - 1 - k) IN
            p \in mask => (p \in value <=> Bit(j, k))}]

\* build_lut_entry(): the levels of a quad with value under mask.
BuildLutEntry(value, mask) ==
    [i \in Quads |-> {j \in 0 .. 2^QuadWidth - 1 :
        \A k \in Pins : LET p == (i * QuadWidth) + k IN
            p \in mask => (p \in value <=> Bit(j, k))}]

\* add_trigger_function() with FUNC_OR: index selects the pair of bits with
\* the level now and the level before; x[before][now] is the operation.
AddTriggerFunction(oper, index, table) ==
    table \cup {i \in 0 .. 15 :
        LET now == Bit(i, 2 * index)  before == Bit(i, (2 * index) + 1)
        IN  CASE oper = "OP_RISE" -> ~before /\ now
              [] oper = "OP_FALL" -> before /\ ~now}

\* The probes with an edge, in order: masks[0], masks[1].
EdgeMask(n) ==
    LET edges == ctx.trigger.risingmask \cup ctx.trigger.fallingmask
    IN  {p \in edges : Cardinality({q \in edges : q < p}) = n}

AddEdge(n, table) ==
    LET rise == IF EdgeMask(n) \cap ctx.trigger.risingmask # {}
                THEN AddTriggerFunction("OP_RISE", n, table) ELSE table
    IN  IF EdgeMask(n) \cap ctx.trigger.fallingmask # {}
        THEN AddTriggerFunction("OP_FALL", n, rise) ELSE rise

BasicTrigger ==
    [m0d |-> BuildLutEntry(EdgeMask(0), EdgeMask(0)),
     m1d |-> BuildLutEntry(EdgeMask(1), EdgeMask(1)),
     m2d |-> BuildLutEntry(ctx.trigger.simplevalue, ctx.trigger.simplemask),
     m3  |-> IF EdgeMask(0) \cup EdgeMask(1) = {} THEN 0 .. 15
             ELSE AddEdge(1, AddEdge(0, {}))]

\* sigma_write_trigger_lut(): row i has the i-th bit of each table.
Rows(lut) ==
    [i \in 0 .. 15 |->
        {x \in {"m0d", "m1d", "m2d"} \X Quads : i \in lut[x[1]][x[2]]}
        \cup (IF i \in lut.m3 THEN {<<"m3", 0>>} ELSE {})]

\* The pin of the mask, in the bits that it has: the first one without any.
TriggerPin ==
    LET pins == (ctx.trigger.risingmask \cup ctx.trigger.fallingmask)
                    \cap 0 .. FastProbes - 1
    IN  IF pins = {} THEN 0 ELSE Min(pins)

-----------------------------------------------------------------------------
(* hw_dev_acquisition_start() *)

\* Without a firmware it takes the default samplerate, and its firmware.
DefaultRate(upload) ==
    IF ctx.cur_firmware = NoFirmware THEN RateSet(Slow, upload)
    ELSE UNCHANGED <<ctx, device>>

Default(upload) ==
    /\ pc = "configured"
    /\ DefaultRate(upload)
    /\ pc' = IF ctx.cur_firmware = NoFirmware /\ upload = "unanswered"
             THEN "idle" ELSE "ready"
    /\ UNCHANGED <<running, phase, sent>>

Begin ==
    /\ pc = "ready" /\ pc' = "started"
    /\ device' = [device EXCEPT
          !.rows = IF Fast THEN <<>> ELSE Rows(BasicTrigger),
          !.pin = IF Fast THEN TriggerPin ELSE 0,
          !.falling = Fast /\ ctx.trigger.fallingmask # {}]
    /\ UNCHANGED <<running, ctx, phase, sent>>

\* The client has had the capture, and may go on to the next one.
Over ==
    /\ pc = "started" /\ pc' = "idle"
    /\ device' = [device EXCEPT !.rows = <<>>, !.pin = 0, !.falling = FALSE]
    /\ UNCHANGED <<running, ctx, phase, sent>>

NoMasks == [risingmask |-> {}, fallingmask |-> {},
            simplemask |-> {}, simplevalue |-> {}]

Init ==
    /\ AcqInit
    /\ ctx = [cur_samplerate |-> 0, cur_firmware |-> NoFirmware,
              trigger |-> NoMasks, use_triggers |-> FALSE]
    /\ device = [firmware |-> NoFirmware, failed |-> FALSE,
                 asked |-> [p \in Probes |-> "-"],
                 rows |-> <<>>, pin |-> 0, falling |-> FALSE]

Next ==
    \/ \E rate \in Rates, upload \in Uploads : SetSamplerate(rate, upload)
    \/ \E asked \in Settings : ConfigureProbes(asked)
    \/ \E upload \in Uploads : Default(upload)
    \/ Begin \/ Over

-----------------------------------------------------------------------------
(* The device, and get_trigger_offset() *)

Index(levels, quad) ==
    SumSet({2^k : k \in {n \in Pins : (quad * QuadWidth) + n \in levels}})

Looks(table, levels) ==
    \A q \in Quads : <<table, q>> \in device.rows[Index(levels, q)]

\* m3 is looked up with the outputs of m0d and m1d, now and before.
Transitions(before, now) ==
    LET One(b, n) == IF b THEN n ELSE 0 IN
    One(Looks("m0d", now), 1) + One(Looks("m0d", before), 2)
        + One(Looks("m1d", now), 4) + One(Looks("m1d", before), 8)

Fires(before, now) ==
    IF Fast
    THEN IF device.falling THEN device.pin \in before \ now
                           ELSE device.pin \in now \ before
    ELSE /\ Looks("m2d", now)
         /\ <<"m3", 0>> \in device.rows[Transitions(before, now)]

\* The sample that get_trigger_offset() takes for the one of the trigger.
Matches(before, now) ==
    /\ now \cap ctx.trigger.simplemask = ctx.trigger.simplevalue
    /\ before \cap ctx.trigger.risingmask = {}
    /\ ctx.trigger.risingmask \subseteq now
    /\ ctx.trigger.fallingmask \subseteq before
    /\ now \cap ctx.trigger.fallingmask = {}

-----------------------------------------------------------------------------
(* Properties *)

TypeOK ==
    /\ pc \in {"idle", "configured", "ready", "started"}
    /\ ctx.cur_samplerate \in Rates \cup {0}
    /\ {ctx.cur_firmware, device.firmware} \subseteq NoFirmware .. 2
    /\ \A m \in DOMAIN NoMasks : ctx.trigger[m] \subseteq Probes
    /\ ctx.trigger.simplevalue \subseteq ctx.trigger.simplemask

\* What the letters of the probes say.
Asked(before, now) ==
    \A p \in Probes :
        CASE device.asked[p] = "0" -> p \notin now
          [] device.asked[p] = "1" -> p \in now
          [] device.asked[p] = "r" -> p \in now \ before
          [] device.asked[p] = "f" -> p \in before \ now
          [] OTHER -> TRUE

\* At 100 and 200 MHz a capture without a trigger waits for the first probe
\* to rise, and so does one whose probe is not among those of the rate.
FastWithoutPin == Fast /\ Set(device.asked) \cap 0 .. FastProbes - 1 = {}

\* The device triggers at the levels that the probes' triggers ask for, at
\* those only, and they are the ones the driver looks for in what it reads.
TriggersAsSet ==
    pc = "started" /\ ~FastWithoutPin =>
        /\ \A before, now \in SUBSET Probes :
              /\ Fires(before, now) <=> Asked(before, now)
              /\ Matches(before, now) <=> Asked(before, now)
        /\ With(device.asked, Edges) # {} => ctx.use_triggers

\* A capture begins with the firmware of its rate, unless an upload failed:
\* then it may begin without any, or with that of an earlier rate.
FirmwareFits ==
    pc = "started" =>
        \/ /\ ctx.cur_samplerate \in Rates
           /\ device.firmware = Firmware(ctx.cur_samplerate)
        \/ device.failed
=============================================================================
