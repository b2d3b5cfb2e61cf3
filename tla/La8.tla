-------------------------------- MODULE La8 ---------------------------------
(***************************************************************************)
(* The capture of hardware/chronovu-la8: a dummy source (descriptor -1)    *)
(* reads the whole SDRAM block by block, puts the samples in order of time *)
(* and, after the last block, sends them with the trigger among them.  The *)
(* SDRAM has banks; consecutive pairs of samples go to consecutive banks,  *)
(* and the banks are read one after the other.                             *)
(*                                                                         *)
(* A sample is its time, counted from 0.                                   *)
(***************************************************************************)
EXTENDS Acquisition

CONSTANTS
    BS,          \* samples in a block
    NUM_BLOCKS,  \* blocks in the memory
    NumBanks     \* banks of the SDRAM (8, of 1024 * 1024 bytes)

SdramSize == NUM_BLOCKS * BS
BankSize  == SdramSize \div NumBanks

La8Assumption ==
    /\ BS \in Nat \ {0} /\ NUM_BLOCKS \in Nat \ {0} /\ NumBanks \in Nat \ {0}
    /\ SdramSize % NumBanks = 0 /\ BankSize % BS = 0 /\ BS % 2 = 0

Times == 0 .. SdramSize - 1

\* What the device does: where it stores the sample of time t. It swaps the
\* samples of a pair, except at the highest rate (divcount 0).
Address(t, divcount) ==
    LET bank == (t \div 2) % NumBanks
        pair == t \div (2 * NumBanks)
    IN  (bank * BankSize) + (2 * pair) +
            (IF divcount = 0 THEN t % 2 ELSE 1 - (t % 2))

\* What it sends as byte number k.
StoredAt(k, divcount) == CHOOSE t \in Times : Address(t, divcount) = k

-----------------------------------------------------------------------------
\* device.trigger: the first time the trigger condition holds, or -1 (no
\* trigger, or no such sample); failed: history, a block did not come, or the
\* client stopped the session before it had all blocks.
Start(divcount, trigger) ==
    /\ Starts
    /\ ctx' = [ctx EXCEPT !.divcount = divcount, !.block_counter = 0,
                          !.trigger_found = FALSE]
    /\ device' = [device EXCEPT !.trigger = trigger]

\* Where in final_buf the byte number k belongs.
Index(k) ==
    LET m == k \div BankSize  p == k % 2
    IN  m * 2 + ((k - m * BankSize) \div 2) * (2 * NumBanks) +
            (IF ctx.divcount = 0 THEN p ELSE 1 - p)

\* la8_read_block(): the bytes of this block, de-mangled.
FinalBuf ==
    LET first == ctx.block_counter * BS
        At(i) == {k \in first .. first + BS - 1 : Index(k) = i}
    IN  [i \in Times |->
            IF At(i) = {} THEN ctx.final_buf[i]
            ELSE StoredAt(CHOOSE k \in At(i) : \A j \in At(i) : j <= k,
                          ctx.divcount)]

Call == Called /\ ~device.failed

ReadBlock ==
    /\ Call /\ ctx.block_counter # NUM_BLOCKS - 1
    /\ ctx' = [ctx EXCEPT !.final_buf = FinalBuf, !.block_counter = @ + 1]
    /\ UNCHANGED <<pc, device>> /\ SendsNothing

ReadLastBlock ==
    /\ Call /\ ctx.block_counter = NUM_BLOCKS - 1
    /\ ctx' = [ctx EXCEPT !.final_buf = FinalBuf]
    /\ pc' = "callback"
    /\ UNCHANGED device /\ SendsNothing

\* No trigger until ctx->done, or a short read: the driver stops itself.
ReadFails == Call /\ StopsEarly /\ UNCHANGED ctx

-----------------------------------------------------------------------------
(* send_block_to_session_bus() *)

Block(block) == [i \in 1 .. BS |-> ctx.final_buf[block * BS + i - 1]]

\* The trigger point in a block: the index of its first matching sample.
TriggerPoint(block) ==
    {i \in 0 .. BS - 1 :
        ~ctx.trigger_found /\ ctx.final_buf[block * BS + i] = device.trigger}

\* Before the trigger point, the mark, and from the trigger point on; but not
\* if that is the last sample of the block.
Split(b, i) ==
    SubSeq(b, 1, i) \o <<TriggerMark>> \o
    (IF i < BS - 1 THEN SubSeq(b, i + 1, BS) ELSE <<>>)

BlockSent(block) ==
    IF TriggerPoint(block) = {} THEN Block(block)
    ELSE Split(Block(block), CHOOSE i \in TriggerPoint(block) : TRUE)

SendBlock ==
    /\ pc = "callback" /\ ctx.blocks_sent < NUM_BLOCKS
    /\ Sends(BlockSent(ctx.blocks_sent))
    /\ ctx' = [ctx EXCEPT !.blocks_sent = @ + 1,
                  !.trigger_found = @ \/ TriggerPoint(ctx.blocks_sent) # {}]
    /\ UNCHANGED <<pc, device>>

\* The client stops the session when it is given a block.
StoppedByClient ==
    /\ pc = "callback" /\ ctx.blocks_sent > 0
    /\ StopsEarly /\ UNCHANGED ctx

\* Mutant: the acquisition is not stopped after the last block.
AllSentGoesOn ==
    /\ pc = "callback" /\ ctx.blocks_sent = NUM_BLOCKS
    /\ pc' = "poll" /\ SendsNothing
    /\ UNCHANGED <<ctx, device>>

AllSent ==
    /\ pc = "callback" /\ ctx.blocks_sent = NUM_BLOCKS
    /\ SendsEnd(<<>>)
    /\ UNCHANGED <<ctx, device>>

-----------------------------------------------------------------------------
Init ==
    /\ AcqInit
    /\ ctx = [divcount |-> 0, block_counter |-> 0, blocks_sent |-> 0,
              trigger_found |-> FALSE, final_buf |-> [i \in Times |-> -9]]
    /\ device = [trigger |-> -1, failed |-> FALSE]

Event == ReadBlock \/ ReadLastBlock \/ SendBlock \/ AllSent

Next ==
    \/ \E divcount \in 0 .. 1, trigger \in Times \cup {-1} :
          Start(divcount, trigger)
    \/ StartFails \/ Session \/ StopsAtHeader
    \/ Event \/ ReadFails \/ StoppedByClient

-----------------------------------------------------------------------------
(* Properties *)

TypeOK ==
    /\ AcqTypeOK
    /\ ctx.block_counter \in 0 .. NUM_BLOCKS - 1
    /\ ctx.blocks_sent \in 0 .. NUM_BLOCKS
    /\ ctx.final_buf \in [Times -> Int]
    /\ device.trigger \in Times \cup {-1}

InOrder == [k \in 1 .. SdramSize |-> k - 1]

\* The trigger sample follows its mark, except at the end of a block: there
\* the code drops it.
Expected ==
    LET t == device.trigger IN
    IF t = -1 THEN InOrder
    ELSE IF t % BS = BS - 1
    THEN SubSeq(InOrder, 1, t) \o <<TriggerMark>> \o
         SubSeq(InOrder, t + 2, SdramSize)
    ELSE SubSeq(InOrder, 1, t) \o <<TriggerMark>> \o
         SubSeq(InOrder, t + 1, SdramSize)

\* The acquisition sends the whole memory in order of time, at each rate, with
\* the trigger mark in front of its sample, and ends only then.
SentInOrder ==
    phase = "endless" /\ ~device.failed => sent = Expected
=============================================================================
