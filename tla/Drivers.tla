------------------------------ MODULE Drivers -------------------------------
(***************************************************************************)
(* The drivers that record first and send afterwards, each in the session  *)
(* of module Acquisition, on small devices: the behaviours of this module  *)
(* are those of its five drivers, and of the set-up of one of them.        *)
(***************************************************************************)
EXTENDS Acquisition

CONSTANTS FrameSize, TransferSize, MaxCaptureEmpty, LimitFrames
CONSTANTS NumGroups, MaxSamples, LimitSamples, RleCounts, Stages, Ratios
CONSTANTS BS, NUM_BLOCKS, NumBanks
CONSTANTS NumChunks, ClustersPerChunk, EVENTS_PER_CLUSTER, ChunksPerRead,
          TsRange, FirstTimes, Gaps
CONSTANTS NumQuads, QuadWidth, FastProbes, MaxTriggers
CONSTANTS PacketWords, MemoryPackets, Samplerates

VARIABLE driver  \* which one it is

Hantek == INSTANCE HantekDso
OLS    == INSTANCE Ols
LA8    == INSTANCE La8
SIGMA  == INSTANCE Sigma
Trigger == INSTANCE SigmaTrigger
ZP     == INSTANCE Zeroplus

ASSUME DriversAssumption ==
    /\ Hantek!HantekAssumption /\ OLS!OlsAssumption
    /\ LA8!La8Assumption /\ SIGMA!SigmaAssumption
    /\ Trigger!SigmaTriggerAssumption /\ ZP!ZeroplusAssumption

vars == <<driver, acqVars>>

Init == \/ driver = "hantek-dso" /\ Hantek!Init
        \/ driver = "ols" /\ OLS!Init
        \/ driver = "la8" /\ LA8!Init
        \/ driver = "sigma" /\ SIGMA!Init
        \/ driver = "sigma triggers" /\ Trigger!Init
        \/ driver = "zeroplus" /\ ZP!Init

Is(d) == driver = d /\ UNCHANGED driver

Next ==
    \/ Is("hantek-dso") /\ Hantek!Next
    \/ Is("ols") /\ OLS!Next
    \/ Is("la8") /\ LA8!Next
    \/ Is("sigma") /\ SIGMA!Next
    \/ Is("sigma triggers") /\ Trigger!Next
    \/ Is("zeroplus") /\ ZP!Next

Spec == Init /\ [][Next]_vars

\* The thread goes on.  The scope takes commands and has a frame again and
\* again, and its transfers come in before they time out; the sniffer sends
\* what it has, and is silent then; the LA8 is read, and only its first block
\* waits, up to ctx->done; the time limit of the SIGMA runs out.
Fairness ==
    /\ WF_vars(Session /\ UNCHANGED driver)
    /\ WF_vars(Is("hantek-dso") /\ (Hantek!Poll \/ Hantek!Wait))
    /\ SF_vars(Is("hantek-dso") /\ Hantek!Rearm)
    /\ SF_vars(Is("hantek-dso") /\ Hantek!Ready)
    /\ SF_vars(Is("hantek-dso") /\ Hantek!Receive)
    /\ WF_vars(Is("ols") /\ OLS!Byte)
    /\ WF_vars(Is("ols") /\ (OLS!SendBuffer \/ OLS!SendCrashes))
    /\ WF_vars(Is("la8") /\ LA8!Event)
    /\ WF_vars(Is("sigma") /\ SIGMA!Download)
    /\ WF_vars(Is("sigma") /\ SIGMA!Stops(SIGMA!TimeIsUp))

FairSpec == Spec /\ Fairness

-----------------------------------------------------------------------------
(* Properties *)

\* Every variable has its type, in each driver.
TypeOK ==
    /\ driver = "hantek-dso" => Hantek!TypeOK
    /\ driver = "ols" => OLS!TypeOK
    /\ driver = "la8" => LA8!TypeOK
    /\ driver = "sigma" => SIGMA!TypeOK
    /\ driver = "sigma triggers" => Trigger!TypeOK
    /\ driver = "zeroplus" => ZP!TypeOK

\* hantek-dso: a frame is sent from its trigger point on and around.
FrameRotated == driver = "hantek-dso" => Hantek!FrameRotated

\* ols: raw_sample_buf ends with what was received, turned around.
BufferInOrder == driver = "ols" => OLS!BufferInOrder

\* ols: what is sent is what was recorded, with the trigger mark in its place.
RecordedSent == driver = "ols" => OLS!SentInOrder

\* chronovu-la8: the whole memory is sent in order of time.
MemorySent == driver = "la8" => LA8!SentInOrder

\* asix-sigma: the samples sent are those of their time.
SentInTime == driver = "sigma" => SIGMA!SentInTime

\* asix-sigma: the tables of the device are those of the probes' triggers.
TriggersAsSet == driver = "sigma triggers" => Trigger!TriggersAsSet

\* asix-sigma: the firmware is that of the samplerate.
FirmwareFits == driver = "sigma triggers" => Trigger!FirmwareFits

\* zeroplus-logic-cube: what is sent is what was asked for.
RecordedAsTold == driver = "zeroplus" => ZP!RecordedAsTold

\* What a driver has recorded is what it sends, each sample in its place, however
\* it was read from the device: through frames, run lengths, banks or times.
SentAsRecorded ==
    FrameRotated /\ BufferInOrder /\ RecordedSent /\ MemorySent /\ SentInTime

\* What the client has asked for (rate, triggers, size) is what the device is
\* set to when it records.
SetUpAsAsked == TriggersAsSet /\ FirmwareFits /\ RecordedAsTold

Feed == INSTANCE Datafeed WITH samples <- Len(sent)

\* SR_DF_END, last data before it, from a driver whose stop says it as well:
\* the client is told of it again and again (run cli_double_end).
EndsAgain ==
    /\ driver \in {"hantek-dso", "ols", "la8", "zeroplus"}
    /\ phase \in {"header", "open"} /\ phase' = "endless"
    /\ Feed!MoreSamples \/ UNCHANGED sent

\* Each driver keeps to the datafeed up to its end: header, description, data,
\* and then the end, with nothing before or after.  That of the SIGMA is one
\* end, those of the others do not end.
FeedSpec == Feed!Init /\ [][Feed!Next \/ EndsAgain]_(Feed!feed)

\* What is the end of a session that runs: the SIGMA's returns, the other
\* drivers and their client do not get past SR_DF_END.
AtItsEnd == IF driver = "sigma" THEN pc = "done" ELSE phase = "endless"

\* An acquisition that runs gets to its end, unless a transfer was lost
\* (hantek-dso), the source was given up (ols), or the length of a packet has
\* wrapped around (ols).  (That of a ZEROPLUS never runs: its end is before.)
GetsToItsEnd ==
    running ~> \/ AtItsEnd
               \/ driver \in {"hantek-dso", "ols"} /\ device.failed
               \/ driver = "ols" /\ pc = "crashed"
=============================================================================
