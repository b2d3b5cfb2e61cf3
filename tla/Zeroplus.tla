------------------------------ MODULE Zeroplus ------------------------------
(***************************************************************************)
(* A capture of hardware/zeroplus-logic-cube: the settings kept by         *)
(* analyzer.c are pushed to the device, which records, and the driver      *)
(* waits for it and reads its whole memory, all of it before               *)
(* dev_acquisition_start() returns. It adds no source to the session.      *)
(*                                                                         *)
(* Limits and triggers are taken from the client and never reach the       *)
(* device.  A word of the memory is its position.                          *)
(***************************************************************************)
EXTENDS Acquisition, FiniteSetsExt

CONSTANTS
    PacketWords,   \* PACKET_SIZE / 4, 512
    MemoryPackets, \* ctx->memory_size * 4 / PACKET_SIZE
    Samplerates    \* supported_samplerates, in Hz

ZeroplusAssumption ==
    /\ {PacketWords, MemoryPackets} \subseteq Nat \ {0}
    /\ Samplerates \subseteq Nat \ {0} /\ Samplerates # {}

Words == PacketWords * MemoryPackets
Garbage == -9   \* what malloc() left in the buffer

KHZ == 1000
MHZ == 1000000

-----------------------------------------------------------------------------
(* set_samplerate() and __analyzer_set_freq() *)

\* g_freq_value and g_freq_scale. 1 MHz is 1000 kHz, and 1 kHz 1000 Hz.
Freq(samplerate) ==
    IF samplerate > MHZ THEN <<samplerate \div MHZ, "MHz">>
    ELSE IF samplerate > KHZ THEN <<samplerate \div KHZ, "kHz">>
    ELSE <<samplerate, "Hz">>

\* The divisor, FREQUENCY_REG1 and FREQUENCY_REG4 of a frequency; the last
\* case is for those that are not in the table.
MhzRegs(f) ==
    CASE f \in 100 .. 200 -> <<1, f \div 10, 0>>
      [] f \in 50 .. 99   -> <<2, f \div 5, 0>>
      [] f = 25           -> <<5, 25, 1>>
      [] f \in (10 .. 49) \ {25} -> <<5, f \div 2, 1>>
      [] f \in 2 .. 9     -> <<5, f * 2, 2>>
      [] f = 1            -> <<5, 5, 16>>
      [] OTHER            -> <<5, 5, 64>>

KhzRegs(f) ==
    CASE f \in 500 .. 999 -> <<5, f \div 100, 17>>
      [] f \in 100 .. 499 -> <<5, f \div 20, 32>>
      [] f \in 50 .. 99   -> <<5, f \div 10, 33>>
      [] f = 25           -> <<5, 25, 49>>
      [] f \in (10 .. 49) \ {25} -> <<5, f \div 2, 48>>
      [] f \in 2 .. 9     -> <<5, f * 2, 50>>
      [] OTHER            -> <<5, 5, 64>>

HzRegs(f) ==
    CASE f \in 500 .. 999 -> <<10, f \div 100, 64>>
      [] f \in 300 .. 499 -> <<5, (f * 8) \div 200, 67>>
      [] f \in 100 .. 299 -> <<5, (f * 16) \div 200, 68>>
      [] OTHER            -> <<5, 5, 64>>

FreqRegs(freq) ==
    CASE freq[2] = "MHz" -> MhzRegs(freq[1])
      [] freq[2] = "kHz" -> KhzRegs(freq[1])
      [] freq[2] = "Hz"  -> HzRegs(freq[1])

SetSamplerate(samplerate) ==
    /\ pc = "idle"
    /\ ctx' = [ctx EXCEPT !.cur_samplerate = samplerate,
                          !.freq = Freq(samplerate)]
    /\ UNCHANGED <<device, sessionVars>>

-----------------------------------------------------------------------------
(* hw_dev_acquisition_start() *)

\* analyzer_configure(), analyzer_start() and analyzer_wait_data(), which
\* returns when the device has recorded.
Start ==
    /\ Starts
    /\ device' = [device EXCEPT !.regs = FreqRegs(ctx.freq)]
    /\ UNCHANGED ctx

\* One packet: res words of the memory, and for the rest of them what is in
\* the buffer. The whole buffer is sent.
ReadPacket(res) ==
    /\ pc = "started" /\ ctx.packet_num < MemoryPackets
    /\ LET buf == Positions(device.pos, res)
                      \o SubSeq(ctx.buf, res + 1, PacketWords)
       IN  /\ ctx' = [ctx EXCEPT !.buf = buf, !.packet_num = @ + 1]
           /\ Sends(buf)
    /\ device' = [device EXCEPT !.pos = @ + res,
                     !.failed = @ \/ res < PacketWords]
    /\ UNCHANGED pc

\* No memory for the buffer: the start fails when the client was told of it.
BufferFails ==
    /\ pc = "started" /\ ctx.packet_num = 0 /\ pc' = "done"
    /\ UNCHANGED <<running, ctx, device, phase, sent>>

\* The client stops the session when it gets a packet.
ClientStops ==
    /\ pc = "started" /\ ctx.packet_num > 0
    /\ StopsEarly /\ UNCHANGED ctx

\* SR_DF_END, still in the start, which does not return.
SendEnd ==
    /\ pc = "started" /\ ctx.packet_num = MemoryPackets
    /\ SendsEnd(<<>>)
    /\ UNCHANGED <<ctx, device>>

-----------------------------------------------------------------------------
\* Opened, with the slowest rate.
Init ==
    /\ AcqInit
    /\ ctx = [cur_samplerate |-> Min(Samplerates),
              freq |-> Freq(Min(Samplerates)), packet_num |-> 0,
              buf |-> [k \in 1 .. PacketWords |-> Garbage]]
    /\ device = [regs |-> <<>>, pos |-> 0, failed |-> FALSE]

Reading == SendEnd \/ \E res \in 0 .. PacketWords : ReadPacket(res)

Next ==
    \/ \E samplerate \in Samplerates : SetSamplerate(samplerate)
    \/ Start \/ StartFails \/ SendHeader \/ SendMeta \/ StopsAtHeader
    \/ BufferFails \/ Reading \/ ClientStops

-----------------------------------------------------------------------------
(* Properties *)

TypeOK ==
    /\ AcqTypeOK
    /\ ctx.packet_num \in 0 .. MemoryPackets
    /\ ctx.buf \in [1 .. PacketWords -> {Garbage} \cup 0 .. Words - 1]
    /\ device.pos \in 0 .. Words

\* What 1 kHz and 1 MHz have in common: neither is in the table.
NotInTable == {KHZ, MHZ}

\* The device records at the rate that the client is told in the description:
\* no other rate has the registers it was given, but for the two that are
\* taken for the default. And when the end is told, all of the recording was
\* sent, in order, unless a read came short or the client did not wait for it.
RecordedAsTold ==
    /\ phase = "open" =>
           \A samplerate \in Samplerates :
               device.regs = FreqRegs(Freq(samplerate)) =>
                   \/ samplerate = ctx.cur_samplerate
                   \/ {samplerate, ctx.cur_samplerate} = NotInTable
    /\ phase = "endless" /\ ~device.failed => sent = Positions(0, Words)
=============================================================================
