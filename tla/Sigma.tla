------------------------------- MODULE Sigma --------------------------------
(***************************************************************************)
(* The capture of hardware/asix-sigma: the device records clusters of      *)
(* events, each with a 16 bit timestamp, until the time is up; the driver  *)
(* then downloads its memory some chunks at a time and decodes them,       *)
(* repeating the last sample over the time between two clusters.           *)
(*                                                                         *)
(* A sample is the number of its event; an event has one (50 MHz).         *)
(***************************************************************************)
EXTENDS Acquisition, FiniteSetsExt

CONSTANTS
    NumChunks,           \* bound: chunks the device records
    ClustersPerChunk,    \* 64
    EVENTS_PER_CLUSTER,  \* 7
    ChunksPerRead,       \* chunks_per_read, 32
    TsRange,             \* 2^16, the timestamps wrap around
    FirstTimes,          \* when the first cluster is recorded
    Gaps                 \* time from one cluster to the next

NumClusters  == NumChunks * ClustersPerChunk
ChunkWords   == ClustersPerChunk * (EVENTS_PER_CLUSTER + 1)  \* 512

SigmaAssumption ==
    /\ {NumChunks, ClustersPerChunk, EVENTS_PER_CLUSTER, ChunksPerRead}
           \subseteq Nat \ {0}
    /\ TsRange \in Nat \ {0} /\ FirstTimes \subseteq Nat
    /\ Gaps \subseteq EVENTS_PER_CLUSTER .. TsRange - 1

(***************************************************************************)
(* device.times: when each cluster was recorded; stoppos, triggerpos: the  *)
(* words recorded when it was stopped, and when it triggered.              *)
(***************************************************************************)
Recordings ==
    LET Times(first, gaps) ==
            LET time[j \in 1 .. NumClusters] ==
                    IF j = 1 THEN first ELSE time[j - 1] + gaps[j - 1]
            IN  time
    IN  {Times(first, gaps) :
            first \in FirstTimes, gaps \in [1 .. NumClusters - 1 -> Gaps]}

Start(times) ==
    /\ Starts
    /\ ctx' = [ctx EXCEPT !.state = "CAPTURE"]
    /\ device' = [device EXCEPT !.times = times]

\* hw_dev_acquisition_stop(): the device stops here. -1: no trigger. (A stop
\* when the client is sent the header is undone by the rest of the start.)
DeviceStops(stoppos, triggerpos) ==
    /\ device' = [device EXCEPT !.stoppos = stoppos, !.triggerpos = triggerpos]
    /\ ctx' = [ctx EXCEPT !.state = "DOWNLOAD", !.chunks_downloaded = 0,
                  !.triggerchunk = IF triggerpos = -1 THEN -1
                                   ELSE triggerpos \div ChunkWords]

-----------------------------------------------------------------------------
(* receive_data() *)

InState(s) == Called /\ ctx.state = s

Capturing ==
    /\ InState("CAPTURE")
    /\ UNCHANGED <<pc, ctx, device>> /\ SendsNothing

\* The time is up, or the memory is full.
TimeIsUp(stoppos, triggerpos) ==
    /\ InState("CAPTURE")
    /\ DeviceStops(stoppos, triggerpos)
    /\ UNCHANGED pc /\ SendsNothing

\* sr_session_stop() by the user: the loop is left, nothing is downloaded and
\* no SR_DF_END is sent.
UserStop(stoppos, triggerpos) ==
    /\ InState("CAPTURE")
    /\ DeviceStops(stoppos, triggerpos)
    /\ running' = FALSE
    /\ UNCHANGED <<pc, phase, sent>>

UserStopsDownload ==
    /\ InState("DOWNLOAD")
    /\ DeviceStops(device.stoppos, device.triggerpos)
    /\ running' = FALSE
    /\ UNCHANGED <<pc, phase, sent>>

Numchunks == (device.stoppos + ChunkWords - 1) \div ChunkWords

\* The stop that the client answers SR_DF_END with is undone: IDLE.
SendEnd ==
    /\ InState("DOWNLOAD") /\ ctx.chunks_downloaded >= Numchunks
    /\ ctx' = [ctx EXCEPT !.state = "IDLE", !.chunks_downloaded = 0]
    /\ SendsLast(<<>>) /\ UNCHANGED <<pc, device>>

Ts(j) == device.times[j] % TsRange

\* The next chunks are read; the time before the first cluster is left out.
ReadChunks ==
    /\ InState("DOWNLOAD") /\ ctx.chunks_downloaded < Numchunks
    /\ pc' = "callback"
    /\ ctx' = [ctx EXCEPT
          !.first = ctx.chunks_downloaded, !.i = 0,
          !.newchunks =
              Min({ChunksPerRead, Numchunks - ctx.chunks_downloaded}),
          !.lastts = IF ctx.chunks_downloaded = 0
                     THEN (Ts(1) - 1) % TsRange ELSE @,
          !.lastsample = IF ctx.chunks_downloaded = 0 THEN 0 ELSE @]
    /\ UNCHANGED device /\ SendsNothing

-----------------------------------------------------------------------------
(* decode_chunk_ts() *)

\* Those of the i-th chunk in the buffer.
Clusters == (ctx.first + ctx.i) * ClustersPerChunk + 1 ..
            (ctx.first + ctx.i + 1) * ClustersPerChunk

\* The last chunk may be only in part: no timestamp past this is decoded; 0
\* is no limit. (The words in the chunk are added to a time.)
LimitChunk ==
    IF ctx.chunks_downloaded = Numchunks - 1
    THEN ((device.stoppos % ChunkWords) + ctx.lastts) % TsRange ELSE 0

PastLimit(j) == LimitChunk # 0 /\ Ts(j) > LimitChunk

Decoded == {j \in Clusters : ~\E k \in Clusters : k <= j /\ PastLimit(k)}

Prev(j) == IF j = Min(Clusters) THEN ctx.lastts ELSE Ts(j - 1)

TsDiff(j) == (Ts(j) - Prev(j)) % TsRange

Events(j) == Positions((j - 1) * EVENTS_PER_CLUSTER, EVENTS_PER_CLUSTER)

LastSample(j) == IF j = Min(Clusters) THEN ctx.lastsample
                 ELSE Last(Events(j - 1))

Padding(j) ==
    [k \in 1 .. Max({0, TsDiff(j) - EVENTS_PER_CLUSTER}) |-> LastSample(j)]

\* The loop's index and the count it increments are both added: a chunk is
\* taken for the one with the trigger when it is not, and vice versa.
TriggerHere == ctx.chunks_downloaded + ctx.i = ctx.triggerchunk

TriggerCluster ==
    Min(Clusters) + Max({0, (device.triggerpos % ChunkWords)
                             - (EVENTS_PER_CLUSTER - 1)})
                    \div EVENTS_PER_CLUSTER

\* get_trigger_offset() looks for the trigger among the cluster's samples.
Cluster(j, offset) ==
    IF TriggerHere /\ j = TriggerCluster
    THEN SubSeq(Events(j), 1, offset) \o <<TriggerMark>> \o
         SubSeq(Events(j), offset + 1, EVENTS_PER_CLUSTER)
    ELSE Events(j)

ChunkSent(offset) ==
    FlattenSeq([n \in 1 .. Cardinality(Decoded) |->
                   LET j == Min(Clusters) + n - 1
                   IN  Padding(j) \o Cluster(j, offset)])

\* lastts is also taken from the cluster that is past the limit.
Decodes(offset, downloaded) ==
    /\ pc = "callback" /\ ctx.i < ctx.newchunks
    /\ sent' = sent \o ChunkSent(offset)
    /\ ctx' = [ctx EXCEPT
          !.chunks_downloaded = downloaded, !.i = @ + 1,
          !.lastsample = IF Decoded = {} THEN @ ELSE Last(Events(Max(Decoded))),
          !.lastts = IF Decoded = Clusters THEN Ts(Max(Clusters))
                     ELSE Ts(Min(Clusters \ Decoded))]
    /\ UNCHANGED <<pc, device, phase>>

DecodeChunk(offset) ==
    Decodes(offset, ctx.chunks_downloaded + 1) /\ UNCHANGED running

\* The client stops the session when it is sent samples of the chunk: the count
\* of chunks starts over while they are decoded, so that those left of this
\* read are taken for others. The stop changes nothing else: the device has
\* stopped before.
ClientStops(offset) ==
    Decodes(offset, 1) /\ ChunkSent(offset) # <<>> /\ running' = FALSE

Return ==
    /\ pc = "callback" /\ ctx.i = ctx.newchunks
    /\ pc' = "poll"
    /\ UNCHANGED <<ctx, device>> /\ SendsNothing

-----------------------------------------------------------------------------
Init ==
    /\ AcqInit
    /\ ctx = [state |-> "IDLE", chunks_downloaded |-> 0, triggerchunk |-> -1,
              first |-> 0, newchunks |-> 0, i |-> 0, lastts |-> 0, lastsample |-> 0]
    /\ device = [times |-> <<>>, stoppos |-> 0, triggerpos |-> -1]

\* The trigger is recorded before the device stops (bound: in the middle of a
\* chunk).
Stops(Act(_, _)) ==
    \E stoppos \in 0 .. NumClusters * (EVENTS_PER_CLUSTER + 1) :
        \E triggerpos \in {-1} \cup {p \in 0 .. stoppos - 1 :
                                        p % ChunkWords = ChunkWords \div 2} :
            Act(stoppos, triggerpos)

Download ==
    \/ SendEnd \/ ReadChunks \/ Return
    \/ \E offset \in 0 .. EVENTS_PER_CLUSTER : DecodeChunk(offset)

Next ==
    \/ \E times \in Recordings : Start(times)
    \/ StartFails \/ Session \/ Capturing \/ Download
    \/ Stops(TimeIsUp) \/ Stops(UserStop) \/ UserStopsDownload
    \/ \E offset \in 0 .. EVENTS_PER_CLUSTER : ClientStops(offset)

-----------------------------------------------------------------------------
(* Properties *)

TypeOK ==
    /\ AcqTypeOK
    /\ ctx.state \in {"IDLE", "CAPTURE", "DOWNLOAD"}
    /\ ctx.chunks_downloaded \in 0 .. NumChunks
    /\ ctx.lastts \in 0 .. TsRange - 1
    /\ ctx.newchunks \in 0 .. ChunksPerRead /\ ctx.i \in 0 .. ctx.newchunks
    /\ ctx.first \in 0 .. NumChunks

EventTime(s) ==
    device.times[(s \div EVENTS_PER_CLUSTER) + 1] + (s % EVENTS_PER_CLUSTER)

\* The sample at k units of time after the first one: the last event so far.
SampleAt(k) ==
    LET t == device.times[1] + k IN
    CHOOSE s \in 0 .. NumClusters * EVENTS_PER_CLUSTER - 1 :
        /\ EventTime(s) <= t
        /\ s + 1 < NumClusters * EVENTS_PER_CLUSTER => EventTime(s + 1) > t

\* How much time the chunks have, up to the n-th.
TimeOfChunks(n) ==
    IF n = 0 THEN 0
    ELSE device.times[n * ClustersPerChunk] + EVENTS_PER_CLUSTER
             - device.times[1]

\* The n-th sample sent is the one recorded n units of time after the start,
\* however often the timestamps have wrapped around and wherever a read of
\* the memory began, and all chunks but the last one are sent in full. (Of the
\* last one, when it is full, the first timestamp is already past the limit.)
\* But what a client is sent after it has stopped the session may be anything.
SentInTime ==
    (running /\ phase = "open") \/ phase = "ended" =>
        LET s == SamplesOf(sent)
            whole == Max({0, Min({ctx.chunks_downloaded, Numchunks - 1})})
        IN  /\ \A k \in DOMAIN s : s[k] = SampleAt(k - 1)
            /\ Len(s) >= TimeOfChunks(whole)
=============================================================================
