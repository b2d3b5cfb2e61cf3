-------------------------------- MODULE Ols ---------------------------------
(***************************************************************************)
(* The capture of hardware/openbench-logic-sniffer: the device stops when  *)
(* its memory is full and sends it backwards, newest sample first and,     *)
(* with FLAG_RLE, with counts in front of repeated samples.  receive_data  *)
(* fills raw_sample_buf from its end and, when 30 ms pass without a byte,  *)
(* sends it in order of time, with SR_DF_TRIGGER at a computed place.      *)
(*                                                                         *)
(* A sample is its number in the order of arrival; it comes in one byte    *)
(* for each enabled channel group.                                         *)
(***************************************************************************)
EXTENDS Acquisition, FiniteSetsExt

CONSTANTS
    NumGroups,     \* channel groups of eight probes
    MaxSamples,    \* ctx->max_samples, the device's memory
    LimitSamples,  \* ctx->limit_samples
    RleCounts,     \* the repeat counts the device sends
    Stages,        \* trigger stages: 0 is no trigger
    Ratios         \* ctx->capture_ratio, in percent

OlsAssumption ==
    /\ NumGroups \in Nat \ {0} /\ MaxSamples \in Nat /\ LimitSamples \in Nat
    /\ RleCounts \subseteq Nat /\ Stages \subseteq 0 .. 4
    /\ Ratios \subseteq 0 .. 100

\* What the buffer is filled with first, and what lies outside of it.
Garbage == -9

(***************************************************************************)
(* device.memory: history, the samples that came in, counts expanded;      *)
(* words: how many words are still to come; word: the one under way, a     *)
(* sample or a count (count); failed: history, the callback returned FALSE *)
(* and its source is gone, or the client stopped before it had everything. *)
(***************************************************************************)
Readcount(groups) == Min({MaxSamples \div groups, LimitSamples}) \div 4

Delaycount(readcount, ratio) == (readcount * (100 - ratio)) \div 100

TriggerAt(readcount, delaycount, stages) ==
    (readcount - delaycount) * 4 - stages

\* Without a trigger trigger_at keeps the -1 of ols_dev_new().
Start(groups, stages, ratio, rle) ==
    LET readcount == Readcount(groups)
        delaycount == Delaycount(readcount, ratio)
    IN  /\ Starts
        /\ ctx' = [ctx EXCEPT !.num_channels = groups, !.rle = rle,
                              !.num_stages = stages, !.rle_count = 0,
                              !.trigger_at =
                                  IF stages = 0 THEN @
                                  ELSE TriggerAt(readcount, delaycount, stages)]
        /\ device' = [device EXCEPT !.words = readcount * 4]

\* No probe is enabled: max_samples is divided by 0.
StartCrashes ==
    /\ pc = "idle" /\ pc' = "crashed"
    /\ UNCHANGED <<running, ctx, device, phase, sent>>

-----------------------------------------------------------------------------
(* receive_data(), revents is G_IO_IN *)

NoWord == [sample |-> 0, count |-> FALSE]

\* The first byte of a word: the device never sends two counts in a row, and
\* no count unless it was asked to.
NextWords ==
    IF ctx.num_bytes > 0 THEN {device.word}
    ELSE {[sample |-> Len(device.memory), count |-> FALSE]} \cup
         {[sample |-> c, count |-> TRUE] :
             c \in IF ctx.rle /\ ctx.rle_count = 0 THEN RleCounts ELSE {}}

\* A byte was read: it is not the last of its word.
ReceiveByte ==
    /\ Called /\ ~device.failed /\ device.words > 0
    /\ ctx.num_samples < LimitSamples
    /\ ctx.num_bytes + 1 < ctx.num_channels
    /\ \E w \in NextWords : device' = [device EXCEPT !.word = w]
    /\ ctx' = [ctx EXCEPT !.num_transfers = 1, !.num_bytes = @ + 1]
    /\ UNCHANGED pc /\ SendsNothing

LastByte ==
    /\ Called /\ ~device.failed /\ device.words > 0
    /\ ctx.num_samples < LimitSamples
    /\ ctx.num_bytes + 1 = ctx.num_channels
    /\ UNCHANGED pc /\ SendsNothing

ReceiveCount ==
    /\ LastByte
    /\ \E w \in NextWords :
          /\ w.count
          /\ ctx' = [ctx EXCEPT !.num_transfers = 1, !.num_bytes = 0,
                                !.rle_count = w.sample]
    /\ device' = [device EXCEPT !.word = NoWord, !.words = @ - 1]

\* Mutant: the number of copies is not cut to what is left of the buffer.
CopiesUncut == ctx.rle_count + 1

\* The copies of a sample; the buffer's limit cuts them.
Copies == Min({ctx.rle_count + 1, LimitSamples - ctx.num_samples})

\* Mutant: the buffer is filled from its start.
OffsetForwards(num_samples) == num_samples - Copies

Offset(num_samples) == LimitSamples - num_samples

ReceiveSample ==
    /\ LastByte
    /\ \E w \in NextWords :
          /\ ~w.count
          /\ LET n == ctx.num_samples + Copies
                 from == Offset(n)
             IN  ctx' = [ctx EXCEPT
                    !.num_transfers = 1, !.num_bytes = 0, !.rle_count = 0,
                    !.num_samples = n,
                    !.raw_sample_buf = [k \in DOMAIN @ |->
                        IF k \in from + 1 .. from + Copies
                        THEN w.sample ELSE @[k]]]
          /\ device' = [device EXCEPT
                !.word = NoWord, !.words = @ - 1,
                !.memory = @ \o [k \in 1 .. ctx.rle_count + 1 |-> w.sample]]

\* Enough was read: the byte is ignored.
IgnoreByte ==
    /\ Called /\ ~device.failed /\ device.words > 0
    /\ ctx.num_samples >= LimitSamples
    /\ device' = [device EXCEPT !.words = @ - 1]
    /\ UNCHANGED <<pc, ctx>> /\ SendsNothing

\* serial_read() fails, or the buffer cannot be allocated: FALSE.
ReadFails ==
    /\ Called /\ ~device.failed
    /\ ctx' = [ctx EXCEPT !.num_transfers = 1]
    /\ device' = [device EXCEPT !.failed = TRUE]
    /\ UNCHANGED pc /\ SendsNothing

-----------------------------------------------------------------------------
(* receive_data(), revents is 0: the timeout *)

\* n samples, beginning with the k-th of those received (counted from 0).
Stored(k, n) ==
    [j \in 1 .. n |->
        LET at == LimitSamples - ctx.num_samples + k + j
        IN  IF at \in DOMAIN ctx.raw_sample_buf
            THEN ctx.raw_sample_buf[at] ELSE Garbage]

\* 30 ms without a byte: the device is done, or slow.
TimedOut == Called /\ ~device.failed /\ ctx.num_transfers > 0

\* trigger_at may be negative: then the samples before the buffer are sent.
Buffered ==
    IF ctx.trigger_at = -1 THEN Stored(0, ctx.num_samples)
    ELSE Stored(0, Max({0, ctx.trigger_at})) \o <<TriggerMark>> \o
         Stored(ctx.trigger_at, ctx.num_samples - ctx.trigger_at)

SendBuffer ==
    /\ TimedOut /\ ctx.trigger_at <= ctx.num_samples
    /\ SendsEnd(Buffered)
    /\ UNCHANGED <<ctx, device>>

\* The client stops the session when it is sent the samples before the trigger.
\* (When it stops at those after it, it has had them all.)
ClientStops ==
    /\ TimedOut /\ ctx.trigger_at \in 1 .. ctx.num_samples
    /\ SendsEnd(Stored(0, ctx.trigger_at))
    /\ device' = [device EXCEPT !.failed = TRUE]
    /\ UNCHANGED ctx

\* Fewer samples came than lie before the trigger: the unsigned length of the
\* last packet wraps around.
SendCrashes ==
    /\ TimedOut /\ ctx.trigger_at > ctx.num_samples
    /\ pc' = "crashed"
    /\ UNCHANGED <<running, ctx, device, phase, sent>>

UserStop == StopsWithEnd /\ UNCHANGED <<ctx, device>>

-----------------------------------------------------------------------------
Init ==
    /\ AcqInit
    /\ ctx = [num_channels |-> 0, rle |-> FALSE, num_stages |-> 0,
              trigger_at |-> -1, num_transfers |-> 0, num_samples |-> 0,
              num_bytes |-> 0, rle_count |-> 0,
              raw_sample_buf |-> [k \in 1 .. LimitSamples |-> Garbage]]
    /\ device = [memory |-> <<>>, words |-> 0, word |-> NoWord,
                 failed |-> FALSE]

Byte == ReceiveByte \/ ReceiveCount \/ ReceiveSample \/ IgnoreByte

Next ==
    \/ \E groups \in 1 .. NumGroups, stages \in Stages, ratio \in Ratios,
          rle \in BOOLEAN : Start(groups, stages, ratio, rle)
    \/ StartCrashes \/ StartFails \/ Session \/ StopsAtHeader
    \/ Byte \/ ReadFails \/ SendBuffer \/ ClientStops \/ SendCrashes \/ UserStop

-----------------------------------------------------------------------------
(* Properties *)

TypeOK ==
    /\ AcqTypeOK
    /\ ctx.trigger_at \in Int /\ ctx.num_transfers \in 0 .. 1
    /\ ctx.num_samples \in 0 .. LimitSamples
    /\ ctx.num_bytes \in 0 .. NumGroups
    /\ ctx.rle_count \in {0} \cup RleCounts
    /\ ctx.raw_sample_buf \in [1 .. LimitSamples -> Int]
    /\ device.words \in Nat

\* What came in, oldest first, as far as the limit goes.
Recorded ==
    Reverse(SubSeq(device.memory, 1,
                   Min({LimitSamples, Len(device.memory)})))

\* The end of the buffer holds, in order of time, what the device has sent so
\* far: whatever the mix of samples and counts, a count that goes past the
\* limit neither writes outside of the buffer nor shifts what is in it.
BufferInOrder ==
    pc # "crashed" => Stored(0, ctx.num_samples) = Recorded

\* An acquisition that the device ended sends what was recorded, once, with
\* the trigger mark behind trigger_at samples; one that the client ended in
\* between, what was before the trigger. (But not if the trigger has to be
\* before the first sample: capture ratio 0. One stage makes trigger_at -1,
\* "no trigger"; more read what is before the buffer.)
SentInOrder ==
    phase = "endless" /\ sent # <<>> /\ (ctx.num_stages > 0 => ctx.trigger_at >= 0)
    => IF device.failed THEN sent = SubSeq(Recorded, 1, ctx.trigger_at)
       ELSE sent = IF ctx.num_stages = 0 THEN Recorded
              ELSE InsertAt(Recorded, ctx.trigger_at + 1, TriggerMark)
=============================================================================
