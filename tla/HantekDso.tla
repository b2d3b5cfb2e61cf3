----------------------------- MODULE HantekDso ------------------------------
(***************************************************************************)
(* The capture of hardware/hantek-dso: handle_event() first lets libusb    *)
(* complete transfers, then takes one step of the state machine that arms  *)
(* the scope, asks for its capture state and fetches a frame.  The frame   *)
(* is a ring that starts anywhere: what comes before the trigger point is  *)
(* kept in framebuf and sent after the rest.                               *)
(***************************************************************************)
EXTENDS Acquisition, FiniteSetsExt

CONSTANTS
    FrameSize,        \* ctx->framesize
    TransferSize,     \* samples in one transfer (epin_maxpacketsize / 2)
    MaxCaptureEmpty,  \* MAX_CAPTURE_EMPTY
    LimitFrames       \* ctx->limit_frames

HantekAssumption ==
    /\ FrameSize \in Nat \ {0} /\ TransferSize \in Nat \ {0}
    /\ TransferSize <= FrameSize /\ FrameSize % TransferSize = 0
    /\ MaxCaptureEmpty \in Nat \ {0} /\ LimitFrames \in Nat \ {0}

\* device.queued: transfers submitted; next: the position in the ring that
\* comes next; failed: history, one came back empty or was not submitted, or
\* the client stopped at the header.
Start ==
    /\ Starts
    /\ ctx' = [ctx EXCEPT !.dev_state = "CAPTURE"]
    /\ UNCHANGED device

-----------------------------------------------------------------------------
(* receive_transfer() *)

NumTransfers == FrameSize \div TransferSize

Completes == pc = "callback" /\ device.queued > 0

\* How many of the transfer's samples come before the trigger point.
Pre ==
    Max({0, Min({TransferSize, ctx.trigger_offset - ctx.samp_received})})

ThisChunk == Positions(device.next, TransferSize)
PreChunk  == SubSeq(ThisChunk, 1, Pre)
PostChunk == SubSeq(ThisChunk, Pre + 1, TransferSize)
Received  == ctx.samp_received + TransferSize

TransferDone ==
    device' = [device EXCEPT !.queued = @ - 1, !.next = @ + TransferSize]

ReceiveTransfer ==
    /\ Completes /\ Received < FrameSize
    /\ TransferDone
    /\ ctx' = [ctx EXCEPT !.samp_received = Received, !.framebuf = @ \o PreChunk]
    /\ Sends(PostChunk)
    /\ UNCHANGED pc

\* The end of the frame: the buffered samples follow the others.
FrameSent == PostChunk \o ctx.framebuf \o PreChunk \o <<FrameEnd>>

LimitReached == ctx.num_frames + 1 = LimitFrames

\* With the last frame SR_DF_END goes out; the client stops the session, the
\* stop sets the driver to IDLE, and says SR_DF_END.
ReceiveLastTransfer ==
    /\ Completes /\ Received >= FrameSize
    /\ TransferDone
    /\ ctx' = [ctx EXCEPT !.samp_received = Received,
                          !.framebuf = @ \o PreChunk,
                          !.num_frames = @ + 1,
                          !.dev_state = IF LimitReached THEN "IDLE"
                                        ELSE "NEW_CAPTURE"]
    /\ IF LimitReached THEN SendsEnd(FrameSent)
       ELSE Sends(FrameSent) /\ UNCHANGED pc

\* The transfer timed out (40 ms): it is not counted, and never freed.
ReceiveEmpty ==
    /\ Completes
    /\ device' = [device EXCEPT !.queued = @ - 1, !.failed = TRUE]
    /\ UNCHANGED <<pc, ctx>> /\ SendsNothing

-----------------------------------------------------------------------------
(* handle_event() *)

Poll == Called /\ pc' = "callback" /\ UNCHANGED <<ctx, device>> /\ SendsNothing

\* The state machine's step ends the callback.
Step(state) == pc = "callback" /\ ctx.dev_state = state /\ pc' = "poll"

\* FETCH_DATA, IDLE: nothing to do.
Wait ==
    /\ Step("FETCH_DATA") \/ Step("IDLE")
    /\ UNCHANGED <<ctx, device>> /\ SendsNothing

Rearm ==
    /\ Step("NEW_CAPTURE")
    /\ ctx' = [ctx EXCEPT !.dev_state = "CAPTURE"]
    /\ UNCHANGED device /\ SendsNothing

\* CAPTURE_EMPTY: too often, and the scope is armed again.
CaptureEmpty ==
    /\ Step("CAPTURE")
    /\ ctx' = [ctx EXCEPT !.capture_empty_count = (@ + 1) % MaxCaptureEmpty]
    /\ UNCHANGED device /\ SendsNothing

\* A command failed, or the scope is filling, has timed out, has 9 bits.
CaptureNotReady ==
    /\ Step("CAPTURE") \/ Step("NEW_CAPTURE")
    /\ UNCHANGED <<ctx, device>> /\ SendsNothing

\* The scope is read at once: the buffer of the last frame is not used any
\* more, and so many transfers are queued.
Fetch(offset, queued) ==
    /\ pc = "callback" /\ pc' = "poll" /\ ctx.dev_state = "CAPTURE"
    /\ ctx' = [ctx EXCEPT !.trigger_offset = offset, !.samp_received = 0,
                          !.framebuf = <<>>,
                          !.dev_state = IF queued = NumTransfers
                                        THEN "FETCH_DATA" ELSE "CAPTURE"]
    /\ device' = [queued |-> device.queued + queued, next |-> 0,
                  failed |-> device.failed \/ queued < NumTransfers]

\* CAPTURE_READY_8BIT, and all transfers are queued.
CaptureReady(offset) == Fetch(offset, NumTransfers) /\ Sends(<<FrameBegin>>)

\* dso_get_channeldata() fails half way: SR_ERR, no FRAME_BEGIN, and what was
\* submitted comes in all the same.
SubmitFails(offset, queued) ==
    /\ ~device.failed  \* bound: one failure
    /\ Fetch(offset, queued) /\ SendsNothing

UserStop ==
    /\ StopsWithEnd
    /\ ctx' = [ctx EXCEPT !.dev_state = "IDLE"]
    /\ UNCHANGED device

-----------------------------------------------------------------------------
Init ==
    /\ AcqInit
    /\ ctx = [dev_state |-> "IDLE", trigger_offset |-> 0, samp_received |-> 0,
              framebuf |-> <<>>, num_frames |-> 0, capture_empty_count |-> 0]
    /\ device = [queued |-> 0, next |-> 0, failed |-> FALSE]

\* The trigger may be anywhere in the ring; an offset past its end means that
\* everything is sent in the order in which it came.
Offsets == 0 .. FrameSize

Receive == ReceiveTransfer \/ ReceiveLastTransfer

Ready == \E offset \in Offsets : CaptureReady(offset)

Event ==
    \/ Poll \/ Wait \/ Rearm \/ CaptureEmpty \/ CaptureNotReady
    \/ ReceiveEmpty \/ Receive \/ Ready
    \/ \E offset \in Offsets, queued \in 0 .. NumTransfers - 1 :
          SubmitFails(offset, queued)

Next == Start \/ StartFails \/ Session \/ Event \/ UserStop \/ StopsAtHeader

-----------------------------------------------------------------------------
(* Properties *)

TypeOK ==
    /\ AcqTypeOK
    /\ ctx.dev_state \in {"IDLE", "NEW_CAPTURE", "CAPTURE", "FETCH_DATA"}
    /\ ctx.num_frames \in Nat
    /\ ctx.capture_empty_count \in 0 .. MaxCaptureEmpty - 1
    /\ Len(ctx.framebuf) <= FrameSize
    /\ device.queued \in 0 .. 2 * NumTransfers

\* The ring as it has to be sent: from the trigger point around to it.
Rotated == [k \in 1 .. FrameSize |-> (ctx.trigger_offset + k - 1) % FrameSize]

\* A frame that is ended was begun, and its samples start at the trigger point
\* and wrap around: wherever in the ring the trigger was, and whichever
\* transfer it fell into, nothing is lost, doubled or out of order. (Unless a
\* transfer was: then the frame is never ended, or mixed with the next one.)
FrameRotated ==
    ~device.failed /\ sent # <<>> /\ Last(sent) = FrameEnd =>
        LET n == Len(sent) IN
        /\ n = ctx.num_frames * (FrameSize + 2)
        /\ SubSeq(sent, n - FrameSize - 1, n) =
               <<FrameBegin>> \o Rotated \o <<FrameEnd>>
=============================================================================
