--------------------------- MODULE DriversProofs ----------------------------
(***************************************************************************)
(* Proofs about the drivers of Drivers.tla, for every size of their        *)
(* devices.  First what they have in common: their session, sequences, and *)
(* the datafeed.  Then the drivers whose samples come in transfers or byte *)
(* by byte, hantek-dso and ols; those that read a memory when it has been  *)
(* recorded; and the theorems about all of them: the types, that each      *)
(* keeps to the datafeed up to its end, and that what was recorded is      *)
(* sent, each sample in its place.                                         *)
(***************************************************************************)
EXTENDS Drivers, SequenceTheorems, FiniteSetTheorems, WellFoundedInduction,
        TLAPS

-----------------------------------------------------------------------------
(* The inductive invariants: what the client has been told, place by place *)

\* Up to the loop it is the same for all drivers.
ToldBeforeLoop ==
    /\ pc \in {"idle", "header"} => phase = "idle" /\ sent = <<>>
    /\ pc = "meta" => phase = "header" /\ sent = <<>>
    /\ sent \in Seq(Int)

-----------------------------------------------------------------------------
(* hantek-dso *)

HantekFrame == Hantek!NumTransfers * TransferSize = FrameSize

HantekTypes ==
    /\ Hantek!AcqTypeOK
    /\ ctx \in [dev_state : {"IDLE", "NEW_CAPTURE", "CAPTURE", "FETCH_DATA"},
                trigger_offset : 0 .. FrameSize, samp_received : Nat,
                framebuf : Seq(Int), num_frames : Nat,
                capture_empty_count : 0 .. MaxCaptureEmpty - 1]
    /\ device \in [queued : Nat, next : Nat, failed : BOOLEAN]

HantekTold ==
    /\ ToldBeforeLoop
    /\ pc = "idle" => ctx.dev_state = "IDLE"
    /\ pc \in {"header", "meta", "started"} => ctx.dev_state = "CAPTURE"
    /\ pc \in {"started", "poll", "callback"} => phase = "open"
    /\ pc \in {"poll", "callback"} => ctx.dev_state # "IDLE"

\* The state machine may be asked to begin a frame, or to go on.
Between ==
    ctx.dev_state \in {"CAPTURE", "NEW_CAPTURE"} \/
    (ctx.dev_state = "IDLE" /\ pc \notin {"poll", "done", "crashed"})

\* As long as no transfer is lost those under way are the rest of the frame;
\* one that was lost leaves at most a frame's worth of transfers over.
HantekQueue ==
    /\ ctx.dev_state = "FETCH_DATA" => ctx.samp_received < FrameSize
    /\ ~device.failed =>
          /\ Between => device.queued = 0
          /\ ctx.dev_state = "FETCH_DATA" =>
                device.queued * TransferSize + ctx.samp_received = FrameSize
    /\ Between => device.queued * TransferSize <= FrameSize
    /\ ctx.dev_state = "FETCH_DATA" =>
          device.queued * TransferSize + ctx.samp_received <= 2 * FrameSize
    /\ device.queued * TransferSize <= 2 * FrameSize
    /\ Len(ctx.framebuf) <= ctx.trigger_offset
    /\ Len(ctx.framebuf) <= ctx.samp_received

FramesSent == ctx.num_frames * (FrameSize + 2)

AfterTrigger ==
    IF ctx.samp_received > ctx.trigger_offset
    THEN ctx.samp_received - ctx.trigger_offset ELSE 0
BeforeTrigger ==
    IF ctx.samp_received < ctx.trigger_offset
    THEN ctx.samp_received ELSE ctx.trigger_offset

\* n samples in a row.
InARow(s, from, n) ==
    Len(s) = n /\ \A k \in 1 .. n : s[k] = from + k - 1

\* A frame was begun behind the first n that were sent, and a samples of it
\* were sent, from o on.
Begun(s, n, o, a) ==
    /\ Len(s) = n + 1 + a /\ s[n + 1] = FrameBegin
    /\ \A k \in 1 .. a : s[n + 1 + k] = o + k - 1

\* Half way through a frame: what came after the trigger point was sent, what
\* came before it is kept.
HantekHalfWay ==
    /\ Begun(sent, FramesSent, ctx.trigger_offset, AfterTrigger)
    /\ InARow(ctx.framebuf, 0, BeforeTrigger)
    /\ device.next = ctx.samp_received

HantekFrames ==
    ~device.failed =>
        /\ Between => Len(sent) = FramesSent
        /\ ctx.dev_state = "FETCH_DATA" => HantekHalfWay

HantekInv ==
    /\ HantekTypes /\ HantekTold /\ HantekQueue /\ HantekFrames
    /\ Hantek!FrameRotated

-----------------------------------------------------------------------------
(* The operators *)

\* The first n positions from a place on.
LEMMA PositionsProperties ==
    ASSUME NEW from \in Int, NEW n \in Nat
    PROVE  /\ Positions(from, n) \in Seq(Int) /\ Len(Positions(from, n)) = n
           /\ \A k \in 1 .. n : Positions(from, n)[k] = from + k - 1
BY DEF Positions

\* A part of a sequence that lies inside of it.
LEMMA PartProperties ==
    ASSUME NEW S, NEW s \in Seq(S), NEW a \in Nat \ {0}, NEW b \in Nat,
           b <= Len(s), a <= b + 1
    PROVE  /\ SubSeq(s, a, b) \in Seq(S)
           /\ Len(SubSeq(s, a, b)) = b + 1 - a
           /\ \A k \in 1 .. b + 1 - a : SubSeq(s, a, b)[k] = s[a + k - 1]
<1>1. Len(s) \in Nat
  BY LenProperties
<1>2. \A i \in a .. b : s[i] \in S
  BY <1>1, ElementOfSeq
<1>3. a \in Int /\ b \in Int
  OBVIOUS
<1>4. /\ SubSeq(s, a, b) \in Seq(S)
      /\ Len(SubSeq(s, a, b)) = IF a <= b THEN b - a + 1 ELSE 0
      /\ \A i \in 1 .. b - a + 1 : SubSeq(s, a, b)[i] = s[a + i - 1]
  BY <1>2, <1>3, SubSeqProperties
<1>5. b - a + 1 = b + 1 - a /\ (a <= b \/ b + 1 - a = 0)
  OBVIOUS
<1> QED BY <1>4, <1>5

\* What is sent after what was sent.
LEMMA SentAfter ==
    ASSUME NEW s \in Seq(Int), NEW t \in Seq(Int)
    PROVE  /\ s \o t \in Seq(Int) /\ Len(s \o t) = Len(s) + Len(t)
           /\ Len(s) \in Nat /\ Len(t) \in Nat /\ Len(s \o t) >= Len(s)
           /\ \A k \in 1 .. Len(s) : (s \o t)[k] = s[k]
           /\ \A k \in 1 .. Len(t) : (s \o t)[Len(s) + k] = t[k]
<1>1. Len(s) \in Nat /\ Len(t) \in Nat
  BY LenProperties
<1>2. /\ s \o t \in Seq(Int) /\ Len(s \o t) = Len(s) + Len(t)
      /\ \A k \in 1 .. Len(s) + Len(t) :
            (s \o t)[k] = IF k <= Len(s) THEN s[k] ELSE t[k - Len(s)]
  BY ConcatProperties
<1>3. \A k \in 1 .. Len(s) : (s \o t)[k] = s[k]
  BY <1>1, <1>2
<1>4. ASSUME NEW k \in 1 .. Len(t) PROVE (s \o t)[Len(s) + k] = t[k]
  <2>1. /\ Len(s) + k \in 1 .. Len(s) + Len(t) /\ ~(Len(s) + k <= Len(s))
        /\ Len(s) + k - Len(s) = k
    BY <1>1
  <2> QED BY <1>2, <2>1
<1> QED BY <1>1, <1>2, <1>3, <1>4

\* Of two numbers.
LEMMA LeastAndGreatest ==
    ASSUME NEW a \in Int, NEW b \in Int
    PROVE  /\ Min({a, b}) = IF a <= b THEN a ELSE b
           /\ Max({a, b}) = IF a >= b THEN a ELSE b
<1>1. /\ Min({a, b}) = CHOOSE x \in {a, b} : \A y \in {a, b} : x <= y
      /\ Max({a, b}) = CHOOSE x \in {a, b} : \A y \in {a, b} : x >= y
  BY DEF Min, Max
<1>2. /\ \E x \in {a, b} : \A y \in {a, b} : x <= y
      /\ \E x \in {a, b} : \A y \in {a, b} : x >= y
  OBVIOUS
<1>3. Min({a, b}) \in {a, b} /\ \A y \in {a, b} : Min({a, b}) <= y
  BY <1>1, <1>2, Zenon
<1>4. Max({a, b}) \in {a, b} /\ \A y \in {a, b} : Max({a, b}) >= y
  BY <1>1, <1>2, Zenon
<1> QED BY <1>3, <1>4

-----------------------------------------------------------------------------
(* hantek-dso: its constants, and how a transfer is cut *)

\* A frame is a whole number of transfers.
LEMMA HantekConstants ==
    /\ FrameSize \in Nat \ {0} /\ TransferSize \in Nat \ {0}
    /\ TransferSize <= FrameSize /\ MaxCaptureEmpty \in Nat \ {0}
    /\ LimitFrames \in Nat \ {0}
    /\ Hantek!NumTransfers \in Nat \ {0} /\ HantekFrame
<1>1. /\ FrameSize \in Nat \ {0} /\ TransferSize \in Nat \ {0}
      /\ TransferSize <= FrameSize /\ MaxCaptureEmpty \in Nat \ {0}
      /\ LimitFrames \in Nat \ {0} /\ FrameSize % TransferSize = 0
  BY DriversAssumption DEF Hantek!HantekAssumption
<1> DEFINE q == FrameSize \div TransferSize
<1>2. /\ q \in Int
      /\ FrameSize = q * TransferSize + (FrameSize % TransferSize)
  BY <1>1
<1> HIDE DEF q
<1>3. q * TransferSize = FrameSize
  BY <1>1, <1>2
<1>4. q > 0
  <2>1. CASE q <= 0
    <3>1. q * TransferSize <= 0
      BY <2>1, <1>1, <1>2
    <3> QED BY <3>1, <1>1, <1>3
  <2> QED BY <2>1, <1>2
<1> QED BY <1>1, <1>2, <1>3, <1>4 DEF Hantek!NumTransfers, HantekFrame, q

\* The part of a transfer before the trigger point, and the rest of it.
LEMMA TransferCut ==
    ASSUME HantekTypes
    PROVE  LET r == ctx.samp_received  o == ctx.trigger_offset
               p == Hantek!Pre
           IN  /\ p = IF o <= r THEN 0
                      ELSE IF o - r <= TransferSize THEN o - r
                      ELSE TransferSize
               /\ p \in 0 .. TransferSize
               /\ Hantek!PreChunk \in Seq(Int)
               /\ Hantek!PostChunk \in Seq(Int)
               /\ InARow(Hantek!PreChunk, device.next, p)
               /\ InARow(Hantek!PostChunk, device.next + p, TransferSize - p)
<1> DEFINE r == ctx.samp_received
           o == ctx.trigger_offset
           p == Hantek!Pre
           c == Hantek!ThisChunk
<1>1. r \in Nat /\ o \in Nat /\ device.next \in Nat
  BY HantekConstants DEF HantekTypes
<1>2. p = IF o <= r THEN 0 ELSE IF o - r <= TransferSize THEN o - r
          ELSE TransferSize
  <2>1. p = Max({0, Min({TransferSize, o - r})})
    BY DEF Hantek!Pre, Hantek!Max, Hantek!Min, Max, Min
  <2>2. Min({TransferSize, o - r})
           = IF TransferSize <= o - r THEN TransferSize ELSE o - r
    BY <1>1, HantekConstants, LeastAndGreatest
  <2>3. Min({TransferSize, o - r}) \in Int
    BY <1>1, <2>2, HantekConstants
  <2> DEFINE m == Min({TransferSize, o - r})
  <2> HIDE DEF m
  <2>4. p = Max({0, m}) /\ m \in Int
    BY <2>1, <2>3 DEF m
  <2>5. Max({0, m}) = IF 0 >= m THEN 0 ELSE m
    BY <2>4, LeastAndGreatest
  <2>6. p = IF 0 >= Min({TransferSize, o - r}) THEN 0
            ELSE Min({TransferSize, o - r})
    BY <2>4, <2>5 DEF m
  <2> HIDE DEF p, r, o
  <2> QED BY <1>1, <2>2, <2>6, HantekConstants
<1>3. p \in 0 .. TransferSize
  BY <1>1, <1>2, HantekConstants
<1>4. /\ c \in Seq(Int) /\ Len(c) = TransferSize
      /\ \A k \in 1 .. TransferSize : c[k] = device.next + k - 1
  <2>1. c = Positions(device.next, TransferSize)
    BY DEF Hantek!ThisChunk, Hantek!Positions, Positions
  <2>2. device.next \in Int /\ TransferSize \in Nat
    BY <1>1, HantekConstants
  <2> HIDE DEF c
  <2>3. /\ Positions(device.next, TransferSize) \in Seq(Int)
        /\ Len(Positions(device.next, TransferSize)) = TransferSize
        /\ \A k \in 1 .. TransferSize :
              Positions(device.next, TransferSize)[k] = device.next + k - 1
    BY <2>2, PositionsProperties
  <2> QED BY <2>1, <2>3
<1>5. /\ Hantek!PreChunk = SubSeq(c, 1, p)
      /\ Hantek!PostChunk = SubSeq(c, p + 1, TransferSize)
  BY DEF Hantek!PreChunk, Hantek!PostChunk
<1> HIDE DEF p, c, r, o
<1>6. /\ SubSeq(c, 1, p) \in Seq(Int) /\ Len(SubSeq(c, 1, p)) = p
      /\ \A k \in 1 .. p : SubSeq(c, 1, p)[k] = device.next + k - 1
  <2>1. /\ p \in Nat /\ p <= Len(c) /\ 1 <= p + 1 /\ 1 \in Nat \ {0}
        /\ p + 1 - 1 = p
    BY <1>3, <1>4, HantekConstants
  <2>2. /\ SubSeq(c, 1, p) \in Seq(Int) /\ Len(SubSeq(c, 1, p)) = p
        /\ \A k \in 1 .. p : SubSeq(c, 1, p)[k] = c[1 + k - 1]
    BY <1>4, <2>1, PartProperties
  <2>3. ASSUME NEW k \in 1 .. p
        PROVE  SubSeq(c, 1, p)[k] = device.next + k - 1
    <3>1. 1 + k - 1 = k /\ k \in 1 .. TransferSize
      BY <1>3, HantekConstants
    <3> QED BY <2>2, <3>1, <1>4
  <2> QED BY <2>2, <2>3
<1>7. /\ SubSeq(c, p + 1, TransferSize) \in Seq(Int)
      /\ Len(SubSeq(c, p + 1, TransferSize)) = TransferSize - p
      /\ \A k \in 1 .. TransferSize - p :
            SubSeq(c, p + 1, TransferSize)[k] = device.next + p + k - 1
  <2>1. /\ p + 1 \in Nat \ {0} /\ TransferSize <= Len(c)
        /\ p + 1 <= TransferSize + 1
        /\ TransferSize + 1 - (p + 1) = TransferSize - p
    BY <1>3, <1>4, HantekConstants
  <2>2. /\ SubSeq(c, p + 1, TransferSize) \in Seq(Int)
        /\ Len(SubSeq(c, p + 1, TransferSize)) = TransferSize - p
        /\ \A k \in 1 .. TransferSize - p :
              SubSeq(c, p + 1, TransferSize)[k] = c[p + 1 + k - 1]
    BY SMTT(30), <1>4, <2>1, HantekConstants, PartProperties
  <2>3. ASSUME NEW k \in 1 .. TransferSize - p
        PROVE  SubSeq(c, p + 1, TransferSize)[k] = device.next + p + k - 1
    <3>1. p + 1 + k - 1 = p + k /\ p + k \in 1 .. TransferSize
      BY <1>3, HantekConstants
    <3>2. c[p + k] = device.next + (p + k) - 1
      BY <3>1, <1>4
    <3> QED BY <2>2, <3>1, <3>2, <1>1, <1>3
  <2> QED BY <2>2, <2>3
<1>8. InARow(Hantek!PreChunk, device.next, p)
  BY <1>5, <1>6 DEF InARow
<1>9. InARow(Hantek!PostChunk, device.next + p, TransferSize - p)
  BY <1>5, <1>7 DEF InARow
<1> QED BY <1>2, <1>3, <1>5, <1>6, <1>7, <1>8, <1>9 DEF p, r, o

\* Transfers counted and samples counted.
LEMMA Transfers ==
    ASSUME NEW a \in Int, NEW b \in Int, NEW t \in Nat \ {0}
    PROVE  /\ a * t \in Int /\ b * t \in Int
           /\ (a + b) * t = a * t + b * t
           /\ (a - 1) * t = a * t - t /\ (a + 1) * t = a * t + t
           /\ a <= b <=> a * t <= b * t
<1>1. a * t \in Int /\ b * t \in Int
  OBVIOUS
<1>2. (a + b) * t = a * t + b * t
  OBVIOUS
<1>3. (a - 1) * t = a * t - t /\ (a + 1) * t = a * t + t
  OBVIOUS
<1>4. a <= b => a * t <= b * t
  <2>1. CASE a <= b
    <3>1. (b - a) * t = b * t - a * t
      OBVIOUS
    <3>2. b - a \in Nat /\ (b - a) * t >= 0
      BY <2>1
    <3> QED BY <1>1, <3>1, <3>2
  <2> QED BY <2>1
<1>5. a > b => a * t > b * t
  <2>1. CASE a > b
    <3>1. (a - b) * t = a * t - b * t
      OBVIOUS
    <3>2. a - b \in Nat \ {0} /\ (a - b) * t > 0
      BY <2>1
    <3> QED BY <1>1, <3>1, <3>2
  <2> QED BY <2>1
<1> QED BY <1>1, <1>2, <1>3, <1>4, <1>5

\* As long as the frame goes on the last that was sent is not its end.
LEMMA BegunIsNotEnded ==
    ASSUME NEW s \in Seq(Int), NEW n \in Nat, NEW o \in Nat, NEW a \in Nat,
           Begun(s, n, o, a)
    PROVE  Last(s) # FrameEnd
<1>1. /\ Len(s) = n + 1 + a /\ s[n + 1] = FrameBegin
      /\ \A k \in 1 .. a : s[n + 1 + k] = o + k - 1
  BY DEF Begun
<1>2. Last(s) = s[n + 1 + a]
  BY <1>1 DEF Last
<1>3. CASE a = 0
  <2>1. n + 1 + a = n + 1
    BY <1>3
  <2> QED BY <1>1, <1>2, <2>1 DEF FrameBegin, FrameEnd
<1>4. CASE a # 0
  <2>1. a \in 1 .. a /\ o + a - 1 >= 0
    BY <1>4
  <2>2. Last(s) = o + a - 1
    BY <1>1, <1>2, <2>1
  <2> QED BY <2>1, <2>2 DEF FrameEnd
<1> QED BY <1>3, <1>4

\* How many samples and marks are in the frames that were sent.
LEMMA FramesSentType ==
    ASSUME HantekTypes
    PROVE  /\ FramesSent \in Nat
           /\ (ctx.num_frames + 1) * (FrameSize + 2)
                  = FramesSent + FrameSize + 2
<1>1. ctx.num_frames \in Nat /\ FrameSize + 2 \in Nat \ {0}
  BY HantekConstants DEF HantekTypes
<1>2. /\ ctx.num_frames * (FrameSize + 2) \in Int
      /\ (ctx.num_frames + 1) * (FrameSize + 2)
             = ctx.num_frames * (FrameSize + 2) + (FrameSize + 2)
  BY <1>1, Transfers
<1>3. 0 * (FrameSize + 2) <= ctx.num_frames * (FrameSize + 2)
  <2>1. 0 \in Int /\ ctx.num_frames \in Int /\ 0 <= ctx.num_frames
    BY <1>1
  <2> QED BY <1>1, <2>1, Transfers
<1>4. 0 * (FrameSize + 2) = 0
  BY <1>1
<1> DEFINE n == ctx.num_frames * (FrameSize + 2)
<1>5. n \in Int /\ n >= 0 /\ FrameSize \in Nat
      /\ (ctx.num_frames + 1) * (FrameSize + 2) = n + (FrameSize + 2)
  BY <1>2, <1>3, <1>4, HantekConstants
<1> HIDE DEF n
<1>6. n \in Nat /\ n + (FrameSize + 2) = n + FrameSize + 2
  BY <1>5
<1> QED BY <1>5, <1>6 DEF FramesSent, n

-----------------------------------------------------------------------------
(* hantek-dso: the invariant holds at the start and is kept *)

\* The invariant holds at the start.
LEMMA HantekBegins == Hantek!Init => HantekInv
<1> SUFFICES ASSUME Hantek!Init PROVE HantekInv
  OBVIOUS
<1>1. /\ pc = "idle" /\ running = FALSE /\ phase = "idle" /\ sent = <<>>
      /\ ctx = [dev_state |-> "IDLE", trigger_offset |-> 0,
                samp_received |-> 0, framebuf |-> <<>>, num_frames |-> 0,
                capture_empty_count |-> 0]
      /\ device = [queued |-> 0, next |-> 0, failed |-> FALSE]
  BY DEF Hantek!Init, Hantek!AcqInit
<1>2. HantekTypes
  <2>1. 0 \in 0 .. FrameSize /\ 0 \in 0 .. MaxCaptureEmpty - 1
    BY HantekConstants
  <2>2. <<>> \in Seq(Int)
    OBVIOUS
  <2> QED BY <1>1, <2>1, <2>2 DEF HantekTypes, Hantek!AcqTypeOK
<1>3. HantekTold
  BY <1>1 DEF HantekTold, ToldBeforeLoop
<1>4. Len(sent) = 0 /\ Len(ctx.framebuf) = 0 /\ 0 * TransferSize = 0
  BY <1>1, HantekConstants
<1>5. HantekQueue
  BY <1>1, <1>4, HantekConstants DEF HantekQueue, Between
<1>6. FramesSent = 0
  BY <1>1, HantekConstants DEF FramesSent
<1>7. HantekFrames
  BY <1>1, <1>4, <1>6 DEF HantekFrames
<1>8. Hantek!FrameRotated
  BY <1>1 DEF Hantek!FrameRotated
<1> QED BY <1>2, <1>3, <1>5, <1>7, <1>8 DEF HantekInv

\* A step that leaves the frame and its transfers, and what was sent, alone.
LEMMA HantekKeeps ==
    ASSUME HantekInv, HantekTypes', HantekTold',
           sent' = sent, device' = device, Between' => Between,
           ctx'.dev_state = "FETCH_DATA" => ctx.dev_state = "FETCH_DATA",
           ctx'.trigger_offset = ctx.trigger_offset,
           ctx'.samp_received = ctx.samp_received,
           ctx'.framebuf = ctx.framebuf, ctx'.num_frames = ctx.num_frames
    PROVE  HantekInv'
<1>1. HantekQueue'
  BY DEF HantekInv, HantekQueue
<1>2. /\ FramesSent' = FramesSent /\ AfterTrigger' = AfterTrigger
      /\ BeforeTrigger' = BeforeTrigger
  BY DEF FramesSent, AfterTrigger, BeforeTrigger
<1>3. HantekHalfWay => HantekHalfWay'
  BY <1>2 DEF HantekHalfWay
<1>4. HantekFrames'
  BY <1>2, <1>3 DEF HantekInv, HantekFrames
<1>5. Hantek!FrameRotated'
  BY DEF HantekInv, Hantek!FrameRotated, Hantek!Rotated
<1> QED BY <1>1, <1>4, <1>5 DEF HantekInv

\* Nothing is sent after what was sent.
LEMMA NothingSent ==
    ASSUME NEW s \in Seq(Int)
    PROVE  s \o <<>> = s
OBVIOUS

\* The steps in which no transfer begins or completes.
LEMMA HantekQuiet ==
    ASSUME HantekInv,
           \/ Hantek!Start \/ Hantek!StartFails \/ Hantek!Session
           \/ Hantek!Poll \/ Hantek!Wait \/ Hantek!Rearm
           \/ Hantek!CaptureEmpty \/ Hantek!CaptureNotReady
           \/ Hantek!UserStop \/ Hantek!StopsAtHeader
    PROVE  HantekInv'
<1> USE DEF HantekInv, Between
<1>1. CASE Hantek!Start
  <2>1. HantekTypes' /\ HantekTold'
    BY <1>1 DEF Hantek!Start, Hantek!Starts, HantekTypes, Hantek!AcqTypeOK,
                HantekTold, ToldBeforeLoop
  <2> QED BY <1>1, <2>1, HantekKeeps
          DEF Hantek!Start, Hantek!Starts, HantekTypes, HantekTold
<1>2. CASE Hantek!StartFails
  <2>1. HantekTypes' /\ HantekTold'
    BY <1>2 DEF Hantek!StartFails, HantekTypes, Hantek!AcqTypeOK,
                HantekTold, ToldBeforeLoop
  <2> QED BY <1>2, <2>1, HantekKeeps DEF Hantek!StartFails
<1>3. CASE Hantek!Session
  <2>1. HantekTypes' /\ HantekTold'
    BY <1>3 DEF Hantek!Session, Hantek!SendHeader, Hantek!SendMeta,
                Hantek!Run, Hantek!Leave, HantekTypes, Hantek!AcqTypeOK,
                HantekTold, ToldBeforeLoop
  <2> QED BY <1>3, <2>1, HantekKeeps
          DEF Hantek!Session, Hantek!SendHeader, Hantek!SendMeta,
              Hantek!Run, Hantek!Leave
<1>4. CASE Hantek!Poll \/ Hantek!Wait \/ Hantek!CaptureNotReady
  <2>1. HantekTypes' /\ HantekTold'
    BY <1>4 DEF Hantek!Poll, Hantek!Called, Hantek!Wait, Hantek!Step,
                Hantek!CaptureNotReady, Hantek!SendsNothing, HantekTypes,
                Hantek!AcqTypeOK, HantekTold, ToldBeforeLoop
  <2> QED BY <1>4, <2>1, HantekKeeps
          DEF Hantek!Poll, Hantek!Called, Hantek!Wait, Hantek!Step,
              Hantek!CaptureNotReady, Hantek!SendsNothing, HantekTold
<1>5. CASE Hantek!Rearm
  <2>1. HantekTypes' /\ HantekTold'
    BY <1>5 DEF Hantek!Rearm, Hantek!Step, Hantek!SendsNothing, HantekTypes,
                Hantek!AcqTypeOK, HantekTold, ToldBeforeLoop
  <2> QED BY <1>5, <2>1, HantekKeeps
          DEF Hantek!Rearm, Hantek!Step, Hantek!SendsNothing, HantekTypes
<1>7. CASE Hantek!CaptureEmpty
  <2>1. ctx.capture_empty_count \in 0 .. MaxCaptureEmpty - 1
    BY DEF HantekTypes
  <2>2. (ctx.capture_empty_count + 1) % MaxCaptureEmpty
            \in 0 .. MaxCaptureEmpty - 1
    BY <2>1, HantekConstants
  <2> DEFINE count == (ctx.capture_empty_count + 1) % MaxCaptureEmpty
  <2>3. ctx' = [ctx EXCEPT !.capture_empty_count = count]
    BY <1>7 DEF Hantek!CaptureEmpty
  <2> HIDE DEF count
  <2>4. HantekTypes'
    BY <1>7, <2>2, <2>3 DEF Hantek!CaptureEmpty, Hantek!Step, count,
                Hantek!SendsNothing, HantekTypes, Hantek!AcqTypeOK
  <2>5. HantekTold'
    BY <1>7, <2>3 DEF Hantek!CaptureEmpty, Hantek!Step,
                Hantek!SendsNothing, HantekTypes, HantekTold, ToldBeforeLoop
  <2> QED BY <1>7, <2>3, <2>4, <2>5, HantekKeeps
          DEF Hantek!CaptureEmpty, Hantek!Step, Hantek!SendsNothing,
              HantekTypes
<1>6. CASE Hantek!UserStop
  <2>1. sent' = sent
    BY <1>6, NothingSent DEF Hantek!UserStop, Hantek!StopsWithEnd,
                Hantek!SendsEnd, HantekTold, ToldBeforeLoop
  <2>2. HantekTypes' /\ HantekTold'
    BY <1>6, <2>1 DEF Hantek!UserStop, Hantek!StopsWithEnd, Hantek!SendsEnd,
                Hantek!Called, HantekTypes, Hantek!AcqTypeOK,
                HantekTold, ToldBeforeLoop
  <2> QED BY <1>6, <2>1, <2>2, HantekKeeps
          DEF Hantek!UserStop, Hantek!StopsWithEnd, Hantek!SendsEnd,
              Hantek!Called, HantekTypes
<1>8. CASE Hantek!StopsAtHeader
  <2>1. sent' = sent
    BY <1>8, NothingSent DEF Hantek!StopsAtHeader, Hantek!StopsEarly,
                Hantek!SendsEnd, HantekTold, ToldBeforeLoop
  <2>2. HantekTypes' /\ HantekTold'
    BY <1>8, <2>1 DEF Hantek!StopsAtHeader, Hantek!StopsEarly,
                Hantek!SendsEnd, HantekTypes, Hantek!AcqTypeOK,
                HantekTold, ToldBeforeLoop
  <2>3. /\ ctx' = ctx /\ device'.queued = device.queued /\ device'.failed
        /\ ctx.dev_state = "CAPTURE"
    BY <1>8 DEF Hantek!StopsAtHeader, Hantek!StopsEarly, HantekTypes,
                HantekTold
  <2>4. HantekQueue'
    BY <2>3 DEF HantekQueue
  <2> QED BY <2>2, <2>3, <2>4 DEF HantekFrames, Hantek!FrameRotated
<1> QED BY <1>1, <1>2, <1>3, <1>4, <1>5, <1>6, <1>7, <1>8

-----------------------------------------------------------------------------
(* hantek-dso: transfers *)

\* A transfer that is lost: the frame is not followed any more.
LEMMA HantekLoses ==
    ASSUME HantekInv, Hantek!ReceiveEmpty
    PROVE  HantekInv'
<1> DEFINE q == device.queued
<1>1. /\ pc' = pc /\ ctx' = ctx /\ sent' = sent /\ phase' = phase
      /\ running' = running /\ q \in Nat /\ q > 0 /\ pc = "callback"
      /\ device' = [device EXCEPT !.queued = @ - 1, !.failed = TRUE]
  BY DEF Hantek!ReceiveEmpty, Hantek!Completes, Hantek!SendsNothing,
         HantekInv, HantekTypes
<1>2. /\ device'.queued = q - 1 /\ device'.failed = TRUE
      /\ device'.next = device.next /\ q - 1 \in Nat
  BY <1>1 DEF HantekInv, HantekTypes
<1>3. HantekTypes'
  BY <1>1, <1>2 DEF HantekInv, HantekTypes, Hantek!AcqTypeOK
<1>4. HantekTold'
  BY <1>1, <1>2 DEF HantekInv, HantekTold, ToldBeforeLoop, HantekTypes,
                    Hantek!AcqTypeOK
<1>5. q * TransferSize \in Int
      /\ (q - 1) * TransferSize = q * TransferSize - TransferSize
  <2>1. q \in Int /\ 0 \in Int /\ TransferSize \in Nat \ {0}
    BY <1>1, HantekConstants
  <2> HIDE DEF q
  <2> QED BY <2>1, Transfers
<1>6. HantekQueue'
  <2>1. /\ (q - 1) * TransferSize <= q * TransferSize
        /\ (q - 1) * TransferSize \in Int
    BY <1>5, HantekConstants
  <2>2. /\ Between' = Between
        /\ ctx.samp_received \in Nat
    BY <1>1 DEF Between, HantekInv, HantekTypes
  <2> HIDE DEF q
  <2>3. /\ Between => q * TransferSize <= FrameSize
        /\ ctx.dev_state = "FETCH_DATA" =>
              q * TransferSize + ctx.samp_received <= 2 * FrameSize
        /\ q * TransferSize <= 2 * FrameSize
    BY DEF HantekInv, HantekQueue, q
  <2> DEFINE old == q * TransferSize
             new == (q - 1) * TransferSize
  <2>4. old \in Int /\ new \in Int /\ new <= old
    BY <1>5, <2>1
  <2>5. /\ Between => old <= FrameSize
        /\ ctx.dev_state = "FETCH_DATA" =>
              old + ctx.samp_received <= 2 * FrameSize
        /\ old <= 2 * FrameSize
    BY <2>3
  <2> HIDE DEF old, new
  <2>6. /\ Between => new <= FrameSize
        /\ ctx.dev_state = "FETCH_DATA" =>
              new + ctx.samp_received <= 2 * FrameSize
        /\ new <= 2 * FrameSize
    BY <2>2, <2>4, <2>5, HantekConstants
  <2>7. /\ ctx.dev_state = "FETCH_DATA" => ctx.samp_received < FrameSize
        /\ Len(ctx.framebuf) <= ctx.trigger_offset
        /\ Len(ctx.framebuf) <= ctx.samp_received
    BY DEF HantekInv, HantekQueue
  <2> QED BY <1>1, <1>2, <2>2, <2>6, <2>7 DEF HantekQueue, new
<1>7. HantekFrames' /\ Hantek!FrameRotated'
  BY <1>2 DEF HantekFrames, Hantek!FrameRotated
<1> QED BY <1>3, <1>4, <1>6, <1>7 DEF HantekInv

\* What is fetched begins anew; a fetch that fails leaves transfers behind.
LEMMA HantekFetches ==
    ASSUME HantekInv, NEW offset \in Hantek!Offsets,
           NEW queued \in 0 .. Hantek!NumTransfers,
           Hantek!Fetch(offset, queued), phase' = phase, running' = running,
           \/ queued = Hantek!NumTransfers /\ sent' = sent \o <<FrameBegin>>
           \/ queued # Hantek!NumTransfers /\ sent' = sent /\ ~device.failed
    PROVE  HantekInv'
<1> DEFINE q == device.queued
           N == Hantek!NumTransfers
           T == TransferSize
<1>1. /\ pc = "callback" /\ pc' = "poll" /\ ctx.dev_state = "CAPTURE"
      /\ q \in Nat /\ queued \in Nat /\ offset \in 0 .. FrameSize
      /\ ctx'.trigger_offset = offset /\ ctx'.samp_received = 0
      /\ ctx'.framebuf = <<>> /\ ctx'.num_frames = ctx.num_frames
      /\ ctx'.dev_state = IF queued = N THEN "FETCH_DATA" ELSE "CAPTURE"
      /\ device'.queued = q + queued /\ device'.next = 0
      /\ queued <= N /\ N \in Nat
  BY HantekConstants DEF Hantek!Fetch, HantekInv, HantekTypes, Hantek!Offsets
<1>0. /\ device.failed \in BOOLEAN /\ device'.failed \in BOOLEAN
      /\ device'.failed <=> device.failed \/ queued # N
  <2>1. device.failed \in BOOLEAN
    BY DEF HantekInv, HantekTypes
  <2>2. device'.failed = (device.failed \/ queued < N)
    BY DEF Hantek!Fetch
  <2>3. queued < N <=> queued # N
    BY <1>1
  <2> HIDE DEF N
  <2>4. CASE queued # N
    BY <2>1, <2>2, <2>3, <2>4, Zenon
  <2>5. CASE queued = N
    <3>1. ~(queued < N)
      BY <2>3, <2>5
    <3>2. device'.failed = device.failed
      <4>1. CASE device.failed = TRUE
        BY <2>2, <4>1, Zenon
      <4>2. CASE device.failed = FALSE
        BY <2>2, <3>1, <4>2, Zenon
      <4> QED BY <2>1, <4>1, <4>2
    <3> QED BY <2>1, <2>5, <3>2
  <2> QED BY <2>4, <2>5
<1>2. HantekTypes'
  <2>1. q + queued \in Nat /\ device.failed \in BOOLEAN
    BY <1>1 DEF HantekInv, HantekTypes
  <2>2. <<>> \in Seq(Int)
    OBVIOUS
  <2> QED BY <1>1, <2>1, <2>2
          DEF Hantek!Fetch, HantekInv, HantekTypes, Hantek!AcqTypeOK
<1>3. sent \in Seq(Int) /\ sent' \in Seq(Int)
      /\ (queued = N => Len(sent') = Len(sent) + 1
                        /\ sent'[Len(sent) + 1] = FrameBegin)
      /\ (queued # N => sent' = sent)
  <2>1. /\ sent \in Seq(Int) /\ <<FrameBegin>> \in Seq(Int)
        /\ Len(<<FrameBegin>>) = 1 /\ <<FrameBegin>>[1] = FrameBegin
    BY DEF HantekInv, HantekTold, ToldBeforeLoop, FrameBegin
  <2>2. /\ sent \o <<FrameBegin>> \in Seq(Int)
        /\ Len(sent \o <<FrameBegin>>) = Len(sent) + 1
        /\ (sent \o <<FrameBegin>>)[Len(sent) + 1] = FrameBegin
    BY <2>1, SentAfter
  <2> HIDE DEF N
  <2>3. \/ queued = N /\ sent' = sent \o <<FrameBegin>>
        \/ queued # N /\ sent' = sent
    BY DEF N
  <2> QED BY <2>1, <2>2, <2>3
<1>4. HantekTold'
  BY <1>0, <1>1, <1>3 DEF HantekInv, HantekTold, ToldBeforeLoop, HantekTypes,
                    Hantek!AcqTypeOK
<1>5. Between /\ (Between' <=> queued # N)
  BY <1>1 DEF Between
<1>6. HantekQueue'
  <2>1. /\ q * T \in Int /\ queued * T \in Int /\ queued * T <= N * T
        /\ (q + queued) * T = q * T + queued * T /\ N * T = FrameSize
        /\ 0 * T = 0
    <3>1. queued \in Int /\ N \in Int /\ queued <= N /\ T \in Nat \ {0}
      BY HantekConstants
    <3>2. queued * T <= N * T /\ queued * T \in Int
      BY <3>1, Transfers
    <3>3. q * T \in Int /\ (q + queued) * T = q * T + queued * T
      BY <1>1, <3>1, Transfers
    <3> QED BY <3>1, <3>2, <3>3, HantekConstants DEF HantekFrame
  <2>2. q * T <= FrameSize /\ (~device.failed => q = 0)
    BY <1>5 DEF HantekInv, HantekQueue
  <2> DEFINE old == q * T
             more == queued * T
             new == (q + queued) * T
  <2>3. /\ old \in Int /\ more \in Int /\ more <= FrameSize
        /\ new = old + more /\ old <= FrameSize
        /\ (queued = N => more = FrameSize)
        /\ (~device.failed => old = 0)
    BY <2>1, <2>2
  <2>4. ctx'.samp_received = 0 /\ Len(ctx'.framebuf) = 0
        /\ ctx'.trigger_offset >= 0
    BY <1>1
  <2>5. /\ device'.queued * T = new
        /\ device.failed \in BOOLEAN /\ FrameSize \in Nat \ {0}
    BY <1>1, HantekConstants DEF HantekInv, HantekTypes
  <2> HIDE DEF old, more, new
  <2>6. ~device'.failed => queued = N /\ new = FrameSize /\ ~device.failed
    BY <1>0, <2>3
  <2>7. new <= 2 * FrameSize
    BY <2>3, <2>5
  <2>8. queued # N => new <= FrameSize
    BY <2>3, <2>5, <1>1
  <2>9. /\ ctx'.dev_state = "FETCH_DATA" => queued = N
        /\ FrameSize > 0 /\ new \in Int
    BY <1>1, <2>3, <2>5
  <2> QED BY <1>5, <2>4, <2>5, <2>6, <2>7, <2>8, <2>9
          DEF HantekQueue
<1>7. HantekFrames' /\ Hantek!FrameRotated'
  <2>1. CASE device'.failed
    BY <2>1 DEF HantekFrames, Hantek!FrameRotated
  <2>2. CASE ~device'.failed
    <3>1. queued = N /\ ~device.failed
      BY <1>0, <2>2
    <3>2. Len(sent) = FramesSent /\ FramesSent' = FramesSent
      BY <1>1, <1>5, <3>1 DEF HantekInv, HantekFrames, FramesSent
    <3>3. FramesSent \in Nat
      BY FramesSentType DEF HantekInv
    <3>4. AfterTrigger' = 0 /\ BeforeTrigger' = 0
      BY <1>1 DEF AfterTrigger, BeforeTrigger
    <3>5. HantekHalfWay'
      <4>1. Begun(sent', FramesSent', offset, 0)
        BY <1>3, <3>1, <3>2, <3>3 DEF Begun
      <4>2. InARow(ctx'.framebuf, 0, 0)
        BY <1>1 DEF InARow
      <4> QED BY <1>1, <3>4, <4>1, <4>2 DEF HantekHalfWay
    <3>6. HantekFrames'
      BY <1>5, <3>1, <3>5 DEF HantekFrames
    <3>7. Last(sent') # FrameEnd
      BY <1>2, <1>3, <3>1, <3>2 DEF Last, FrameEnd, FrameBegin
    <3> QED BY <3>6, <3>7
            DEF Hantek!FrameRotated, Hantek!FrameEnd, FrameEnd,
                Hantek!Last, Last
  <2> QED BY <2>1, <2>2
<1> QED BY <1>2, <1>4, <1>6, <1>7 DEF HantekInv

\* Of r samples that came a lie behind the trigger at o and b before it; p are
\* still to come before it.
Around(r, o, a, b, p) ==
    /\ a = IF r > o THEN r - o ELSE 0
    /\ b = IF r < o THEN r ELSE o
    /\ p = IF r < o THEN o - r ELSE 0

\* The k-th sample of a frame with its trigger at o, of which r + t samples
\* came: it is among the a samples sent, the c received last, the b kept, or
\* the p that came last before the trigger.
Place(k, r, t, o, a, b, p, c) ==
    LET w == o + k - 1 IN
    \/ k \in 1 .. a /\ w < r + t
    \/ /\ k > a /\ k - a \in 1 .. c /\ r + p + (k - a) - 1 = w
       /\ w < r + t
    \/ /\ k > a + c /\ k - (a + c) \in 1 .. b
       /\ k - (a + c) - 1 = w - (r + t) /\ ~(w < r + t)
    \/ /\ k > a + c + b /\ k - (a + c + b) \in 1 .. p
       /\ r + (k - (a + c + b)) - 1 = w - (r + t) /\ ~(w < r + t)

Places(r, t, o, a, b, p, c) ==
    /\ c \in Nat /\ a + b = r
    /\ \A k \in 1 .. r + t : Place(k, r, t, o, a, b, p, c)

\* Where in the frame the four parts of it are, and what is there.
LEMMA FramePlaces ==
    ASSUME NEW r \in Nat, NEW t \in Nat \ {0}, NEW o \in 0 .. r + t,
           NEW a \in Nat, NEW b \in Nat, NEW p \in Nat, NEW c \in Int,
           Around(r, o, a, b, p), c = t - p
    PROVE  Places(r, t, o, a, b, p, c)
<1>1. CASE r < o
  <2>1. a = 0 /\ b = r /\ p = o - r /\ c = t - (o - r)
    BY <1>1 DEF Around
  <2> QED BY <1>1, <2>1 DEF Places, Place
<1>2. CASE r >= o
  <2>1. a = r - o /\ b = o /\ p = 0 /\ c = t
    BY <1>2 DEF Around
  <2> QED BY <1>2, <2>1 DEF Places, Place
<1> QED BY <1>1, <1>2

\* Behind the first n that were sent is a frame of m samples, whose ring was
\* cut at o.
Wrapped(u, n, o, m) ==
    /\ u \in Seq(Int) /\ Len(u) = n + m + 2
    /\ u[n + 1] = FrameBegin /\ u[n + m + 2] = FrameEnd
    /\ \A k \in 1 .. m :
          u[n + 1 + k] = IF o + k - 1 < m THEN o + k - 1 ELSE o + k - 1 - m

\* What is received last, what was kept and the end mark complete the frame:
\* its samples go from the trigger point around to it.
LEMMA RotatedFrame ==
    ASSUME NEW s \in Seq(Int), NEW post \in Seq(Int), NEW buf \in Seq(Int),
           NEW pre \in Seq(Int),
           NEW n \in Nat, NEW r \in Nat, NEW t \in Nat \ {0},
           NEW o \in 0 .. r + t, NEW a \in Nat, NEW b \in Nat, NEW p \in Nat,
           NEW x \in Int, NEW c \in Int,
           Around(r, o, a, b, p), Begun(s, n, o, a),
           InARow(post, x, c), x = r + p, c = t - p,
           InARow(buf, 0, b), InARow(pre, r, p),
           NEW m \in Nat, m = r + t
    PROVE  Wrapped(s \o (post \o buf \o pre \o <<FrameEnd>>), n, o, m)
<1> DEFINE w0 == post \o buf
           y == w0 \o pre
           z == y \o <<FrameEnd>>
           u == s \o z
<1>0. c \in Int /\ c = t - p
  OBVIOUS
<1>10. /\ c \in Nat /\ a + b = r
       /\ \A k \in 1 .. r + t : Place(k, r, t, o, a, b, p, c)
  <2>1. Places(r, t, o, a, b, p, c)
    BY <1>0, FramePlaces
  <2> QED BY <2>1 DEF Places
<1>1. /\ Len(post) = c /\ \A k \in 1 .. c : post[k] = r + p + k - 1
  BY <1>0 DEF InARow
<1>11. /\ Len(buf) = b /\ \A k \in 1 .. b : buf[k] = k - 1
       /\ Len(pre) = p /\ \A k \in 1 .. p : pre[k] = r + k - 1
  BY DEF InARow
<1>12. /\ Len(s) = n + 1 + a /\ s[n + 1] = FrameBegin
       /\ \A k \in 1 .. a : s[n + 1 + k] = o + k - 1
  BY DEF Begun
<1>2. /\ w0 \in Seq(Int) /\ Len(w0) = c + b
      /\ \A k \in 1 .. c : w0[k] = post[k]
      /\ \A k \in 1 .. b : w0[c + k] = buf[k]
  <2>2. /\ post \o buf \in Seq(Int)
        /\ Len(post \o buf) = Len(post) + Len(buf)
        /\ \A k \in 1 .. Len(post) : (post \o buf)[k] = post[k]
        /\ \A k \in 1 .. Len(buf) : (post \o buf)[Len(post) + k] = buf[k]
    BY SentAfter
  <2> QED BY <1>1, <1>11, <2>2
<1> HIDE DEF w0
<1>3. /\ y \in Seq(Int) /\ Len(y) = c + b + p
      /\ \A k \in 1 .. c + b : y[k] = w0[k]
      /\ \A k \in 1 .. p : y[c + b + k] = pre[k]
  <2>1. /\ w0 \o pre \in Seq(Int)
        /\ Len(w0 \o pre) = Len(w0) + Len(pre)
        /\ \A k \in 1 .. Len(w0) : (w0 \o pre)[k] = w0[k]
        /\ \A k \in 1 .. Len(pre) : (w0 \o pre)[Len(w0) + k] = pre[k]
    BY <1>2, SentAfter
  <2> QED BY <1>2, <1>11, <2>1
<1> HIDE DEF y
<1>4. /\ z \in Seq(Int) /\ Len(z) = c + b + p + 1
      /\ \A k \in 1 .. c + b + p : z[k] = y[k]
      /\ z[c + b + p + 1] = FrameEnd
  <2>1. /\ <<FrameEnd>> \in Seq(Int) /\ Len(<<FrameEnd>>) = 1
        /\ <<FrameEnd>>[1] = FrameEnd /\ 1 \in 1 .. 1
    BY DEF FrameEnd
  <2>2. /\ y \o <<FrameEnd>> \in Seq(Int)
        /\ Len(y \o <<FrameEnd>>) = Len(y) + Len(<<FrameEnd>>)
        /\ \A k \in 1 .. Len(y) : (y \o <<FrameEnd>>)[k] = y[k]
        /\ \A k \in 1 .. Len(<<FrameEnd>>) :
              (y \o <<FrameEnd>>)[Len(y) + k] = <<FrameEnd>>[k]
    BY ZenonT(30), <1>3, <2>1, SentAfter
  <2> QED BY <1>3, <2>1, <2>2
<1> HIDE DEF z
<1>5. /\ u \in Seq(Int) /\ Len(u) = n + 1 + a + (c + b + p + 1)
      /\ \A k \in 1 .. n + 1 + a : u[k] = s[k]
      /\ \A k \in 1 .. c + b + p + 1 : u[n + 1 + a + k] = z[k]
  <2>1. /\ s \o z \in Seq(Int) /\ Len(s \o z) = Len(s) + Len(z)
        /\ \A k \in 1 .. Len(s) : (s \o z)[k] = s[k]
        /\ \A k \in 1 .. Len(z) : (s \o z)[Len(s) + k] = z[k]
    BY ZenonT(30), <1>4, SentAfter
  <2> QED BY <1>4, <1>12, <2>1
<1> HIDE DEF u
<1>6. n + 1 + a + (c + b + p + 1) = n + r + t + 2
  BY <1>0, <1>10
<1>7. u[n + 1] = FrameBegin
  <2>1. n + 1 \in 1 .. n + 1 + a
    OBVIOUS
  <2> QED BY <1>5, <1>12, <2>1
<1>8. u[n + r + t + 2] = FrameEnd
  <2>1. c + b + p + 1 \in 1 .. c + b + p + 1
    BY <1>10
  <2> QED BY <1>4, <1>5, <1>6, <2>1
<1>9. ASSUME NEW k \in 1 .. r + t
      PROVE  u[n + 1 + k] = IF o + k - 1 < r + t THEN o + k - 1
                            ELSE o + k - 1 - (r + t)
  <2> DEFINE w == o + k - 1
  <2>0. Place(k, r, t, o, a, b, p, c)
    BY <1>10
  <2>1. CASE k \in 1 .. a /\ w < r + t
    <3>1. n + 1 + k \in 1 .. n + 1 + a /\ k \in 1 .. a
      BY <2>1
    <3>2. u[n + 1 + k] = s[n + 1 + k] /\ s[n + 1 + k] = w
      BY <1>5, <1>12, <3>1
    <3> QED BY <2>1, <3>2
  <2>2. CASE /\ k > a /\ k - a \in 1 .. c /\ r + p + (k - a) - 1 = w
             /\ w < r + t
    <3> DEFINE j == k - a
    <3>1. /\ j \in 1 .. c /\ n + 1 + a + j = n + 1 + k
          /\ j \in 1 .. c + b + p + 1 /\ j \in 1 .. c + b + p
          /\ j \in 1 .. c + b /\ r + p + j - 1 = w
      BY <1>10, <2>2
    <3> HIDE DEF j
    <3>2. post[j] = r + p + j - 1
      BY <1>1, <3>1
    <3>3. u[n + 1 + a + j] = z[j] /\ z[j] = y[j] /\ y[j] = w0[j]
          /\ w0[j] = post[j]
      BY <1>2, <1>3, <1>4, <1>5, <3>1
    <3>4. u[n + 1 + k] = w
      BY <3>1, <3>2, <3>3
    <3> QED BY <2>2, <3>4
  <2>3. CASE /\ k > a + c /\ k - (a + c) \in 1 .. b
             /\ k - (a + c) - 1 = w - (r + t) /\ ~(w < r + t)
    <3> DEFINE j == k - (a + c)
    <3>1. /\ j \in 1 .. b /\ n + 1 + a + (c + j) = n + 1 + k
          /\ c + j \in 1 .. c + b + p + 1 /\ c + j \in 1 .. c + b + p
          /\ c + j \in 1 .. c + b /\ j - 1 = w - (r + t)
      BY <1>10, <2>3
    <3> HIDE DEF j
    <3>2. buf[j] = j - 1
      BY <1>11, <3>1
    <3>3. u[n + 1 + a + (c + j)] = z[c + j] /\ z[c + j] = y[c + j]
          /\ y[c + j] = w0[c + j] /\ w0[c + j] = buf[j]
      BY <1>2, <1>3, <1>4, <1>5, <3>1
    <3>4. u[n + 1 + k] = w - (r + t)
      BY <3>1, <3>2, <3>3
    <3> QED BY <2>3, <3>4
  <2>4. CASE /\ k > a + c + b /\ k - (a + c + b) \in 1 .. p
             /\ r + (k - (a + c + b)) - 1 = w - (r + t) /\ ~(w < r + t)
    <3> DEFINE j == k - (a + c + b)
    <3>1. /\ j \in 1 .. p /\ n + 1 + a + (c + b + j) = n + 1 + k
          /\ c + b + j \in 1 .. c + b + p + 1
          /\ c + b + j \in 1 .. c + b + p /\ r + j - 1 = w - (r + t)
      BY <1>10, <2>4
    <3> HIDE DEF j
    <3>2. pre[j] = r + j - 1
      BY <1>11, <3>1
    <3>3. u[n + 1 + a + (c + b + j)] = z[c + b + j]
          /\ z[c + b + j] = y[c + b + j] /\ y[c + b + j] = pre[j]
      BY <1>3, <1>4, <1>5, <3>1
    <3>4. u[n + 1 + k] = w - (r + t)
      BY <3>1, <3>2, <3>3
    <3> QED BY <2>4, <3>4
  <2> QED BY <2>0, <2>1, <2>2, <2>3, <2>4 DEF Place
<1>13. /\ Len(u) = n + m + 2 /\ u[n + m + 2] = FrameEnd
  <2>1. n + r + t + 2 = n + m + 2
    OBVIOUS
  <2> QED BY <1>5, <1>6, <1>8, <2>1
<1>14. Wrapped(u, n, o, m)
  BY <1>5, <1>7, <1>9, <1>13 DEF Wrapped
<1> QED BY <1>14 DEF u, z, y, w0

\* What wraps around once.
LEMMA WrapsOnce ==
    ASSUME NEW m \in Nat \ {0}, NEW i \in 0 .. m + m - 1
    PROVE  i % m = IF i < m THEN i ELSE i - m
OBVIOUS

\* More samples in a row.
LEMMA MoreInARow ==
    ASSUME NEW s \in Seq(Int), NEW t \in Seq(Int), NEW from \in Int,
           NEW n \in Nat, NEW m \in Nat,
           InARow(s, from, n), InARow(t, from + n, m)
    PROVE  InARow(s \o t, from, n + m)
<1>1. /\ Len(s) = n /\ \A k \in 1 .. n : s[k] = from + k - 1
      /\ Len(t) = m /\ \A k \in 1 .. m : t[k] = from + n + k - 1
  BY DEF InARow
<1>2. /\ Len(s \o t) = Len(s) + Len(t)
      /\ \A k \in 1 .. Len(s) : (s \o t)[k] = s[k]
      /\ \A k \in 1 .. Len(t) : (s \o t)[Len(s) + k] = t[k]
  BY SentAfter
<1> DEFINE u == s \o t
<1>3. /\ Len(u) = n + m /\ \A k \in 1 .. n : u[k] = s[k]
      /\ \A k \in 1 .. m : u[n + k] = t[k]
  BY <1>1, <1>2
<1> HIDE DEF u
<1>4. ASSUME NEW k \in 1 .. n + m PROVE u[k] = from + k - 1
  <2>1. CASE k <= n
    BY <1>1, <1>3, <2>1
  <2>2. CASE k > n
    <3> DEFINE j == k - n
    <3>1. j \in 1 .. m /\ n + j = k /\ from + n + j - 1 = from + k - 1
      BY <2>2
    <3> HIDE DEF j
    <3>2. u[n + j] = t[j] /\ t[j] = from + n + j - 1
      BY <1>1, <1>3, <3>1
    <3> QED BY <3>1, <3>2
  <2> QED BY <2>1, <2>2
<1> QED BY <1>3, <1>4 DEF InARow, u

\* Where no samples are makes no difference.
LEMMA NoneInARow ==
    ASSUME NEW s, NEW x \in Int, NEW y \in Int, InARow(s, x, 0)
    PROVE  InARow(s, y, 0)
BY DEF InARow

\* More samples of the frame that was begun.
LEMMA MoreBegun ==
    ASSUME NEW s \in Seq(Int), NEW t \in Seq(Int), NEW n \in Nat,
           NEW o \in Int, NEW a \in Nat, NEW m \in Nat,
           Begun(s, n, o, a), InARow(t, o + a, m)
    PROVE  Begun(s \o t, n, o, a + m)
<1>1. /\ Len(s) = n + 1 + a /\ s[n + 1] = FrameBegin
      /\ \A k \in 1 .. a : s[n + 1 + k] = o + k - 1
      /\ Len(t) = m /\ \A k \in 1 .. m : t[k] = o + a + k - 1
  BY DEF InARow, Begun
<1> DEFINE u == s \o t
           l == n + 1 + a
<1>2. /\ Len(u) = Len(s) + Len(t)
      /\ \A k \in 1 .. Len(s) : u[k] = s[k]
      /\ \A k \in 1 .. Len(t) : u[Len(s) + k] = t[k]
  BY SentAfter
<1> HIDE DEF u
<1>6. l \in Nat /\ Len(s) = l
  BY <1>1
<1> HIDE DEF l
<1>7. /\ Len(u) = l + m
      /\ \A k \in 1 .. l : u[k] = s[k]
      /\ \A k \in 1 .. m : u[l + k] = t[k]
  BY <1>1, <1>2, <1>6
<1>3. /\ Len(u) = n + 1 + (a + m)
      /\ \A k \in 1 .. n + 1 + a : u[k] = s[k]
      /\ \A k \in 1 .. m : u[n + 1 + a + k] = t[k]
  <2>1. l + m = n + 1 + (a + m)
    BY DEF l
  <2> QED BY <1>7, <2>1 DEF l
<1>4. u[n + 1] = FrameBegin
  <2>1. n + 1 \in 1 .. n + 1 + a
    OBVIOUS
  <2> QED BY <1>1, <1>3, <2>1
<1>5. ASSUME NEW k \in 1 .. a + m PROVE u[n + 1 + k] = o + k - 1
  <2>1. CASE k <= a
    <3>1. n + 1 + k \in 1 .. n + 1 + a /\ k \in 1 .. a
      BY <2>1
    <3> QED BY <1>1, <1>3, <3>1
  <2>2. CASE k > a
    <3> DEFINE j == k - a
    <3>1. /\ j \in 1 .. m /\ n + 1 + a + j = n + 1 + k
          /\ o + a + j - 1 = o + k - 1
      BY <2>2
    <3> HIDE DEF j
    <3>2. u[n + 1 + a + j] = t[j] /\ t[j] = o + a + j - 1
      BY <1>1, <1>3, <3>1
    <3> QED BY <3>1, <3>2
  <2> QED BY <2>1, <2>2
<1> QED BY <1>3, <1>4, <1>5 DEF Begun, u

\* A transfer that does not end the frame.
LEMMA HantekTransfer ==
    ASSUME HantekInv, Hantek!ReceiveTransfer
    PROVE  HantekInv'
<1> DEFINE r == ctx.samp_received
           o == ctx.trigger_offset
           p == Hantek!Pre
           q == device.queued
           T == TransferSize
           pre == Hantek!PreChunk
           post == Hantek!PostChunk
<1>1. /\ pc = "callback" /\ pc' = pc /\ q \in Nat /\ q > 0
      /\ r \in Nat /\ o \in 0 .. FrameSize /\ r + T < FrameSize
      /\ device.next \in Nat /\ device.failed \in BOOLEAN
      /\ ctx.framebuf \in Seq(Int) /\ sent \in Seq(Int)
      /\ phase' = phase /\ running' = running /\ sent' = sent \o post
  BY DEF Hantek!ReceiveTransfer, Hantek!Completes, Hantek!Received,
         Hantek!Sends, HantekInv, HantekTypes, HantekTold, ToldBeforeLoop
<1>2. /\ device' = [device EXCEPT !.queued = @ - 1, !.next = @ + T]
      /\ ctx' = [ctx EXCEPT !.samp_received = r + T, !.framebuf = @ \o pre]
  BY DEF Hantek!ReceiveTransfer, Hantek!TransferDone, Hantek!Received
<1>3. /\ p = IF o <= r THEN 0 ELSE IF o - r <= T THEN o - r ELSE T
      /\ p \in 0 .. T /\ pre \in Seq(Int) /\ post \in Seq(Int)
      /\ InARow(pre, device.next, p)
      /\ InARow(post, device.next + p, T - p)
  BY TransferCut DEF HantekInv
<1> HIDE DEF p, pre, post
<1>4. /\ ctx.framebuf \o pre \in Seq(Int)
      /\ Len(ctx.framebuf \o pre) = Len(ctx.framebuf) + p
      /\ sent \o post \in Seq(Int)
  <2>1. Len(pre) = p
    BY <1>3 DEF InARow
  <2> DEFINE b == ctx.framebuf
  <2>2. b \in Seq(Int)
    BY <1>1
  <2> HIDE DEF b
  <2>3. b \o pre \in Seq(Int) /\ Len(b \o pre) = Len(b) + Len(pre)
    BY <1>3, <2>2, SentAfter
  <2>4. sent \o post \in Seq(Int)
    BY <1>1, <1>3, SentAfter
  <2> QED BY <2>1, <2>3, <2>4 DEF b
<1> DEFINE buf == ctx.framebuf \o pre
<1>5. /\ ctx'.samp_received = r + T /\ ctx'.framebuf = buf
      /\ ctx'.trigger_offset = o /\ ctx'.dev_state = ctx.dev_state
      /\ ctx'.num_frames = ctx.num_frames
      /\ device'.queued = q - 1 /\ device'.next = device.next + T
      /\ device'.failed = device.failed
  BY <1>2 DEF HantekInv, HantekTypes
<1> HIDE DEF buf
<1>6. HantekTypes'
  <2>1. r + T \in Nat /\ q - 1 \in Nat /\ device.next + T \in Nat
    BY SMTT(30), <1>1, HantekConstants
  <2>2. ctx' = [ctx EXCEPT !.samp_received = r + T, !.framebuf = buf]
    BY <1>2, Zenon DEF buf
  <2>3. buf \in Seq(Int)
    BY <1>4 DEF buf
  <2> QED BY <1>1, <1>2, <2>1, <2>2, <2>3
          DEF HantekInv, HantekTypes, Hantek!AcqTypeOK
<1>7. HantekTold'
  BY <1>1, <1>4, <1>5 DEF HantekInv, HantekTold, ToldBeforeLoop,
                          HantekTypes, Hantek!AcqTypeOK
<1>8. Between' = Between
  BY <1>1, <1>5 DEF Between
<1> DEFINE old == q * T
           new == (q - 1) * T
<1>9. /\ old \in Int /\ new \in Int /\ new = old - T /\ device'.queued * T = new
      /\ T \in Nat \ {0} /\ FrameSize \in Nat \ {0}
  <2>1. q \in Int /\ 0 \in Int /\ T \in Nat \ {0}
    BY <1>1, HantekConstants
  <2> HIDE DEF q
  <2> QED BY <1>5, <2>1, HantekConstants, Transfers
<1> HIDE DEF old, new
<1>10. /\ Between => old <= FrameSize /\ (~device.failed => q = 0)
       /\ ctx.dev_state = "FETCH_DATA" => old + r <= 2 * FrameSize
       /\ ctx.dev_state = "FETCH_DATA" /\ ~device.failed =>
             old + r = FrameSize
       /\ old <= 2 * FrameSize
       /\ Len(ctx.framebuf) <= o /\ Len(ctx.framebuf) <= r
  BY DEF HantekInv, HantekQueue, old
<1>11. HantekQueue'
  <2>1. Len(ctx.framebuf) \in Nat
    BY <1>1
  <2>2. Len(buf) <= o /\ Len(buf) <= r + T
    <3> DEFINE l == Len(ctx.framebuf)
    <3>1. l \in Nat /\ l <= o /\ l <= r /\ Len(buf) = l + p
      BY <1>4, <1>10, <2>1 DEF buf
    <3> HIDE DEF l, r, o, T
    <3>2. l + p <= o /\ l + p <= r + T
      BY <1>1, <1>3, <1>9, <3>1
    <3> QED BY <3>1, <3>2
  <2>3. /\ new <= old /\ new + (r + T) = old + r
    BY <1>1, <1>9
  <2>4. /\ Between => new <= FrameSize
        /\ new <= 2 * FrameSize
    BY <1>9, <1>10, <2>3
  <2>5. ~device.failed => ~Between
    BY <1>1, <1>10
  <2>6. /\ ctx.dev_state = "FETCH_DATA" => new + (r + T) <= 2 * FrameSize
        /\ ctx.dev_state = "FETCH_DATA" /\ ~device.failed =>
             new + (r + T) = FrameSize
    BY <1>10, <2>3
  <2> QED BY <1>1, <1>5, <1>8, <1>9, <2>2, <2>4, <2>5, <2>6
          DEF HantekQueue
<1>12. CASE device.failed
  BY <1>5, <1>6, <1>7, <1>11, <1>12
     DEF HantekFrames, Hantek!FrameRotated, HantekInv
<1>13. CASE ~device.failed
  <2> DEFINE a == AfterTrigger
             b == BeforeTrigger
             n == FramesSent
  <2>1. ~Between /\ ~Between' /\ ctx.dev_state = "FETCH_DATA"
    BY SMTT(30), <1>1, <1>6, <1>8, <1>10, <1>13 DEF Between, HantekInv, HantekTypes
  <2>2. /\ Begun(sent, n, o, a) /\ InARow(ctx.framebuf, 0, b)
        /\ device.next = r
    BY <1>13, <2>1 DEF HantekInv, HantekFrames, HantekHalfWay
  <2>3. /\ a = IF r > o THEN r - o ELSE 0
        /\ b = IF r < o THEN r ELSE o
        /\ AfterTrigger' = IF r + T > o THEN r + T - o ELSE 0
        /\ BeforeTrigger' = IF r + T < o THEN r + T ELSE o
        /\ FramesSent' = n /\ n \in Nat
    <3>1. FramesSent \in Nat
      BY FramesSentType DEF HantekInv
    <3>2. FramesSent' = FramesSent
      BY <1>5 DEF FramesSent
    <3>3. /\ a = IF r > o THEN r - o ELSE 0
          /\ b = IF r < o THEN r ELSE o
      BY DEF AfterTrigger, BeforeTrigger
    <3>4. AfterTrigger' = IF r + T > o THEN r + T - o ELSE 0
      BY <1>1, <1>5, <1>9 DEF AfterTrigger
    <3>5. BeforeTrigger' = IF r + T < o THEN r + T ELSE o
      BY <1>5 DEF BeforeTrigger
    <3> QED BY <3>1, <3>2, <3>3, <3>4, <3>5
  <2> HIDE DEF a, b, n
  <2>4. a \in Nat /\ b \in Nat /\ T - p \in Nat /\ p \in Nat
    <3> HIDE DEF r, o, T
    <3> QED BY <1>1, <1>3, <1>9, <2>3
  <2>5. AfterTrigger' = a + (T - p) /\ BeforeTrigger' = b + p
        /\ (T - p # 0 => r + p = o + a) /\ (p # 0 => r = b)
    <3> HIDE DEF r, o, T
    <3>1. CASE o <= r
      <4>1. p = 0 /\ a = r - o /\ b = o
        BY <1>1, <1>3, <2>3, <3>1
      <4> QED BY <1>1, <1>9, <2>3, <3>1, <4>1
    <3>2. CASE o > r /\ o - r <= T
      <4>1. p = o - r /\ a = 0 /\ b = r
        BY <1>1, <1>3, <2>3, <3>2
      <4> QED BY <1>1, <1>9, <2>3, <3>2, <4>1
    <3>3. CASE o > r /\ o - r > T
      <4>1. p = T /\ a = 0 /\ b = r
        BY <1>1, <1>3, <1>9, <2>3, <3>3
      <4> QED BY <1>1, <1>9, <2>3, <3>3, <4>1
    <3> QED BY <1>1, <1>9, <3>1, <3>2, <3>3
  <2>6. InARow(post, o + a, T - p)
    <3>1. CASE T - p = 0
      <4>1. r + p \in Int /\ o + a \in Int /\ InARow(post, r + p, 0)
        BY <1>1, <1>3, <2>2, <2>4, <3>1
      <4>2. InARow(post, o + a, 0)
        BY <4>1, NoneInARow
      <4> QED BY <3>1, <4>2
    <3>2. CASE T - p # 0
      BY <1>3, <2>2, <2>5, <3>2
    <3> QED BY <3>1, <3>2
  <2>7. InARow(pre, 0 + b, p)
    <3>1. CASE p = 0
      <4>1. r \in Int /\ 0 + b \in Int /\ InARow(pre, r, 0)
        BY <1>1, <1>3, <2>2, <2>4, <3>1
      <4>2. InARow(pre, 0 + b, 0)
        BY <4>1, NoneInARow
      <4> QED BY <3>1, <4>2
    <3>2. CASE p # 0
      <4>1. 0 + b = r
        BY <1>1, <2>4, <2>5, <3>2
      <4> QED BY <1>3, <2>2, <4>1
    <3> QED BY <3>1, <3>2
  <2>8. Begun(sent \o post, n, o, a + (T - p))
    <3>1. o \in Int
      BY <1>1
    <3> HIDE DEF o, T
    <3> QED BY <1>1, <1>3, <2>2, <2>3, <2>4, <2>6, <3>1, MoreBegun
  <2>9. InARow(buf, 0, b + p)
    <3>1. 0 \in Int
      OBVIOUS
    <3> QED BY <1>1, <1>3, <2>2, <2>4, <2>7, <3>1, MoreInARow DEF buf
  <2>10. HantekHalfWay'
    BY <1>1, <1>5, <2>2, <2>3, <2>5, <2>8, <2>9 DEF HantekHalfWay
  <2>11. HantekFrames'
    BY <2>1, <2>10 DEF HantekFrames
  <2>12. Last(sent)' # FrameEnd
    <3>1. o \in Nat /\ a + (T - p) \in Nat
      BY <1>1, <2>4
    <3> HIDE DEF o, T
    <3>2. Last(sent \o post) # FrameEnd
      BY <1>4, <2>3, <2>8, <3>1, BegunIsNotEnded
    <3> QED BY <1>1, <3>2 DEF Last
  <2>13. Hantek!FrameRotated'
    BY <2>12 DEF Hantek!FrameRotated, Hantek!FrameEnd, FrameEnd,
                 Hantek!Last, Last
  <2> QED BY <1>6, <1>7, <1>11, <2>11, <2>13 DEF HantekInv
<1> QED BY <1>1, <1>12, <1>13

\* What was sent last is a frame, around from o.
LastFrame(u, o, m) ==
    SubSeq(u, Len(u) - m - 1, Len(u))
        = <<FrameBegin>> \o [k \in 1 .. m |-> (o + k - 1) % m] \o <<FrameEnd>>

\* The end of what was sent is a whole frame.
LEMMA WholeFrame ==
    ASSUME NEW u, NEW n \in Nat, NEW m \in Nat \ {0}, NEW o \in 0 .. m,
           Wrapped(u, n, o, m)
    PROVE  LastFrame(u, o, m)
<1> DEFINE f == [k \in 1 .. m |-> (o + k - 1) % m]
<1> DEFINE x == SubSeq(u, n + 1, n + m + 2)
           y == <<FrameBegin>> \o f
           z == y \o <<FrameEnd>>
<1>8. f \in Seq(Int) /\ Len(f) = m
  <2>1. \A k \in 1 .. m : (o + k - 1) % m \in Int
    OBVIOUS
  <2> QED BY <2>1
<1>9. ASSUME NEW k \in 1 .. m
      PROVE  f[k] = IF o + k - 1 < m THEN o + k - 1 ELSE o + k - 1 - m
  <2> DEFINE i == o + k - 1
  <2>1. f[k] = i % m /\ i \in 0 .. m + m - 1
    OBVIOUS
  <2>2. i % m = IF i < m THEN i ELSE i - m
    <3> HIDE DEF i
    <3> QED BY <2>1, WrapsOnce
  <2> HIDE DEF f
  <2> QED BY <2>1, <2>2
<1> HIDE DEF f
<1>7. /\ u \in Seq(Int) /\ Len(f) = m /\ Len(u) = n + m + 2
      /\ u[n + 1] = FrameBegin /\ u[n + m + 2] = FrameEnd
      /\ \A k \in 1 .. m : u[n + 1 + k] = f[k]
  BY <1>8, <1>9 DEF Wrapped
<1>1. Len(u) - m - 1 = n + 1
  BY <1>7
<1>2. /\ x \in Seq(Int) /\ Len(x) = m + 2
      /\ \A k \in 1 .. m + 2 : x[k] = u[n + k]
  <2>1. /\ n + 1 \in Nat \ {0} /\ n + m + 2 \in Nat
        /\ n + m + 2 <= Len(u) /\ n + 1 <= n + m + 2 + 1
        /\ n + m + 2 + 1 - (n + 1) = m + 2
    BY <1>7
  <2>2. /\ x \in Seq(Int) /\ Len(x) = m + 2
        /\ \A k \in 1 .. m + 2 : x[k] = u[n + 1 + k - 1]
    BY <1>7, <2>1, PartProperties
  <2> HIDE DEF x
  <2>3. \A k \in 1 .. m + 2 : n + 1 + k - 1 = n + k
    OBVIOUS
  <2> QED BY <2>2, <2>3
<1> HIDE DEF x
<1>3. /\ y \in Seq(Int) /\ Len(y) = m + 1 /\ y[1] = FrameBegin
      /\ \A k \in 1 .. m : y[1 + k] = f[k]
  <2>1. /\ <<FrameBegin>> \in Seq(Int) /\ Len(<<FrameBegin>>) = 1
        /\ <<FrameBegin>>[1] = FrameBegin /\ 1 \in 1 .. 1
    BY DEF FrameBegin
  <2>2. /\ y \in Seq(Int) /\ Len(y) = Len(<<FrameBegin>>) + Len(f)
        /\ \A k \in 1 .. Len(<<FrameBegin>>) : y[k] = <<FrameBegin>>[k]
        /\ \A k \in 1 .. Len(f) : y[Len(<<FrameBegin>>) + k] = f[k]
    BY <1>8, <2>1, SentAfter
  <2> HIDE DEF y
  <2> DEFINE g == <<FrameBegin>>
  <2>3. /\ y \in Seq(Int) /\ Len(y) = Len(g) + Len(f)
        /\ \A k \in 1 .. Len(g) : y[k] = g[k]
        /\ \A k \in 1 .. Len(f) : y[Len(g) + k] = f[k]
        /\ Len(g) = 1 /\ g[1] = FrameBegin /\ 1 \in 1 .. 1
    BY <2>1, <2>2
  <2> HIDE DEF g
  <2>4. Len(y) = m + 1
    BY <1>8, <2>3
  <2> QED BY <1>8, <2>3, <2>4
<1> HIDE DEF y
<1>4. /\ z \in Seq(Int) /\ Len(z) = m + 2 /\ z[m + 2] = FrameEnd
      /\ \A k \in 1 .. m + 1 : z[k] = y[k]
  <2>1. /\ <<FrameEnd>> \in Seq(Int) /\ Len(<<FrameEnd>>) = 1
        /\ <<FrameEnd>>[1] = FrameEnd /\ 1 \in 1 .. 1
    BY DEF FrameEnd
  <2>2. /\ z \in Seq(Int) /\ Len(z) = Len(y) + Len(<<FrameEnd>>)
        /\ \A k \in 1 .. Len(y) : z[k] = y[k]
        /\ \A k \in 1 .. Len(<<FrameEnd>>) : z[Len(y) + k] = <<FrameEnd>>[k]
    BY <1>3, <2>1, SentAfter
  <2> HIDE DEF z
  <2>3. z[m + 1 + 1] = FrameEnd /\ m + 1 + 1 = m + 2
    BY <1>3, <2>1, <2>2
  <2> QED BY <1>3, <2>1, <2>2, <2>3
<1> HIDE DEF z
<1>5. ASSUME NEW k \in 1 .. m + 2 PROVE x[k] = z[k]
  <2>1. CASE k = 1
    BY <1>2, <1>3, <1>4, <1>7, <2>1
  <2>2. CASE k = m + 2
    <3>1. x[m + 2] = u[n + (m + 2)] /\ n + (m + 2) = n + m + 2
      BY <1>2
    <3> QED BY <1>4, <1>7, <2>2, <3>1
  <2>3. CASE k # 1 /\ k # m + 2
    <3> DEFINE j == k - 1
    <3>1. /\ j \in 1 .. m /\ 1 + j = k /\ n + 1 + j = n + k
          /\ k \in 1 .. m + 1
      BY <2>3
    <3> HIDE DEF j
    <3>2. x[k] = f[j]
      BY <1>2, <1>7, <3>1
    <3>3. z[k] = f[j]
      BY <1>3, <1>4, <3>1
    <3> QED BY <3>2, <3>3
  <2> QED BY <2>1, <2>2, <2>3
<1>6. x = z
  BY <1>2, <1>4, <1>5, SeqEqual
<1>10. SubSeq(u, Len(u) - m - 1, Len(u)) = z
  BY <1>1, <1>6, <1>7 DEF x
<1> QED BY <1>10 DEF LastFrame, f, y, z

\* The transfer that ends the frame.
LEMMA HantekLastTransfer ==
    ASSUME HantekInv, Hantek!ReceiveLastTransfer
    PROVE  HantekInv'
<1> DEFINE r == ctx.samp_received
           o == ctx.trigger_offset
           p == Hantek!Pre
           q == device.queued
           T == TransferSize
           pre == Hantek!PreChunk
           post == Hantek!PostChunk
           last == Hantek!LimitReached
           frame == post \o ctx.framebuf \o pre \o <<FrameEnd>>
           buf == ctx.framebuf \o pre
<1>1. /\ pc = "callback" /\ q \in Nat /\ q > 0
      /\ r \in Nat /\ o \in 0 .. FrameSize /\ r + T >= FrameSize
      /\ device.next \in Nat /\ device.failed \in BOOLEAN
      /\ ctx.framebuf \in Seq(Int) /\ sent \in Seq(Int)
  BY DEF Hantek!ReceiveLastTransfer, Hantek!Completes, Hantek!Received,
         HantekInv, HantekTypes, HantekTold, ToldBeforeLoop
<1>0. sent' = sent \o frame
  BY DEF Hantek!ReceiveLastTransfer, Hantek!FrameSent, Hantek!Sends,
         Hantek!SendsEnd, Hantek!FrameEnd, FrameEnd
<1>2. /\ device' = [device EXCEPT !.queued = @ - 1, !.next = @ + T]
      /\ ctx' = [ctx EXCEPT !.samp_received = r + T, !.framebuf = buf,
                            !.num_frames = @ + 1,
                            !.dev_state = IF last THEN "IDLE"
                                          ELSE "NEW_CAPTURE"]
      /\ last => phase' = "endless" /\ running' = FALSE /\ pc' = "crashed"
      /\ ~last => phase' = phase /\ running' = running /\ pc' = pc
  BY DEF Hantek!ReceiveLastTransfer, Hantek!TransferDone, Hantek!Received,
         Hantek!Sends, Hantek!SendsEnd
<1>3. /\ p = IF o <= r THEN 0 ELSE IF o - r <= T THEN o - r ELSE T
      /\ p \in 0 .. T /\ pre \in Seq(Int) /\ post \in Seq(Int)
      /\ InARow(pre, device.next, p)
      /\ InARow(post, device.next + p, T - p)
  BY TransferCut DEF HantekInv
<1> HIDE DEF p, pre, post, last
<1>4. /\ buf \in Seq(Int) /\ Len(buf) = Len(ctx.framebuf) + p
      /\ frame \in Seq(Int) /\ sent \o frame \in Seq(Int)
  <2>1. Len(pre) = p
    BY <1>3 DEF InARow
  <2> DEFINE b == ctx.framebuf
  <2>2. b \in Seq(Int) /\ <<FrameEnd>> \in Seq(Int)
    BY <1>1 DEF FrameEnd
  <2> HIDE DEF b
  <2>3. b \o pre \in Seq(Int) /\ Len(b \o pre) = Len(b) + Len(pre)
    BY <1>3, <2>2, SentAfter
  <2>4. post \o b \o pre \o <<FrameEnd>> \in Seq(Int)
    BY <1>3, <2>2
  <2>5. sent \o (post \o b \o pre \o <<FrameEnd>>) \in Seq(Int)
    BY <1>1, <2>4
  <2> QED BY <2>1, <2>3, <2>4, <2>5 DEF b
<1> HIDE DEF buf, frame
<1>5. /\ ctx'.samp_received = r + T /\ ctx'.framebuf = buf
      /\ ctx'.trigger_offset = o
      /\ ctx'.dev_state = IF last THEN "IDLE" ELSE "NEW_CAPTURE"
      /\ ctx'.num_frames = ctx.num_frames + 1
      /\ device'.queued = q - 1 /\ device'.next = device.next + T
      /\ device'.failed = device.failed
  BY <1>2 DEF HantekInv, HantekTypes
<1>6. HantekTypes'
  <2>1. r + T \in Nat /\ q - 1 \in Nat /\ device.next + T \in Nat
        /\ ctx.num_frames + 1 \in Nat
    BY SMTT(30), <1>1, HantekConstants DEF HantekInv, HantekTypes
  <2>2. Hantek!AcqTypeOK'
    BY <1>2 DEF HantekInv, HantekTypes, Hantek!AcqTypeOK
  <2> QED BY <1>1, <1>2, <1>4, <2>1, <2>2
          DEF HantekInv, HantekTypes, Hantek!AcqTypeOK
<1>8. ctx'.dev_state # "FETCH_DATA"
  BY <1>5
<1> DEFINE old == q * T
           new == (q - 1) * T
<1>9. /\ old \in Int /\ new \in Int /\ new = old - T /\ device'.queued * T = new
      /\ T \in Nat \ {0} /\ FrameSize \in Nat \ {0} /\ T <= FrameSize
      /\ (new <= 0 => q - 1 <= 0) /\ (q = 1 => new = 0)
  <2>1. q \in Int /\ 0 \in Int /\ T \in Nat \ {0} /\ 0 * T = 0 /\ q - 1 \in Int
    BY <1>1, HantekConstants
  <2> HIDE DEF q
  <2>2. (q - 1) * T <= 0 * T <=> q - 1 <= 0
    BY <2>1, Transfers
  <2>3. q * T \in Int /\ (q - 1) * T = q * T - T
    BY <2>1, Transfers
  <2> QED BY <1>5, <2>1, <2>2, <2>3, HantekConstants
<1> HIDE DEF old, new
<1>10. /\ Between => old <= FrameSize /\ (~device.failed => q = 0)
       /\ ctx.dev_state = "FETCH_DATA" => old + r <= 2 * FrameSize
       /\ ctx.dev_state = "FETCH_DATA" /\ ~device.failed =>
             old + r = FrameSize
       /\ old <= 2 * FrameSize
       /\ Len(ctx.framebuf) <= o /\ Len(ctx.framebuf) <= r
  BY DEF HantekInv, HantekQueue, old
<1>11. Between \/ ctx.dev_state = "FETCH_DATA"
  BY <1>1 DEF Between, HantekInv, HantekTypes
<1>12. ~device.failed =>
          /\ ctx.dev_state = "FETCH_DATA" /\ r + T = FrameSize /\ q = 1
  <2> HIDE DEF q, r, T
  <2> QED BY <1>1, <1>9, <1>10, <1>11
<1>7. HantekTold'
  <2>1. sent' \in Seq(Int)
    BY <1>0, <1>4
  <2> QED BY <1>1, <1>2, <1>5, <1>12, <2>1
          DEF HantekInv, HantekTold, ToldBeforeLoop, HantekTypes,
              Hantek!AcqTypeOK
<1>13. HantekQueue'
  <2>1. Len(ctx.framebuf) \in Nat
    BY <1>1
  <2>2. Len(buf) <= o /\ Len(buf) <= r + T
    <3> DEFINE l == Len(ctx.framebuf)
    <3>1. l \in Nat /\ l <= o /\ l <= r /\ Len(buf) = l + p
      BY <1>4, <1>10, <2>1
    <3> HIDE DEF l, r, o, T
    <3>2. l + p <= o /\ l + p <= r + T
      BY <1>1, <1>3, <1>9, <3>1
    <3> QED BY <3>1, <3>2
  <2>3. new <= FrameSize /\ new <= 2 * FrameSize
    <3> HIDE DEF q, r, T
    <3> QED BY <1>1, <1>9, <1>10, <1>11
  <2> QED BY <1>5, <1>8, <1>9, <1>12, <2>2, <2>3
          DEF HantekQueue
<1>14. CASE device.failed
  BY <1>5, <1>6, <1>7, <1>13, <1>14
     DEF HantekFrames, Hantek!FrameRotated, HantekInv
<1>15. CASE ~device.failed
  <2> DEFINE a == AfterTrigger
             b == BeforeTrigger
             n == FramesSent
             u == sent \o frame
             f == [k \in 1 .. FrameSize |-> (o + k - 1) % FrameSize]
  <2>1. ctx.dev_state = "FETCH_DATA" /\ r + T = FrameSize
    BY <1>12, <1>15
  <2>2. /\ Begun(sent, n, o, a) /\ InARow(ctx.framebuf, 0, b)
        /\ device.next = r
    BY <1>15, <2>1 DEF HantekInv, HantekFrames, HantekHalfWay
  <2>3. /\ Around(r, o, a, b, p) /\ a \in Nat /\ b \in Nat /\ p \in Nat
    <3>1. /\ a = IF r > o THEN r - o ELSE 0
          /\ b = IF r < o THEN r ELSE o
      BY DEF AfterTrigger, BeforeTrigger
    <3> HIDE DEF a, b, r, o, T
    <3>2. p = IF r < o THEN o - r ELSE 0
      BY <1>1, <1>3, <1>9, <2>1
    <3>3. a \in Nat /\ b \in Nat /\ p \in Nat
      BY <1>1, <1>3, <1>9, <3>1
    <3> QED BY <3>1, <3>2, <3>3 DEF Around
  <2>4. /\ n \in Nat /\ FramesSent' = n + FrameSize + 2
    BY <1>5, FramesSentType DEF FramesSent, HantekInv
  <2>5. InARow(pre, r, p) /\ InARow(post, r + p, T - p)
    BY <1>3, <2>2
  <2> HIDE DEF a, b, n
  <2>6. Wrapped(u, n, o, FrameSize)
    <3> DEFINE c == ctx.framebuf
           x == r + p
           l == T - p
    <3>1. /\ o \in 0 .. r + T /\ c \in Seq(Int) /\ InARow(c, 0, b)
          /\ x = r + p /\ l = T - p /\ x \in Int /\ l \in Int
          /\ InARow(post, x, l) /\ FrameSize = r + T
      BY SMTT(30), <1>1, <1>9, <2>1, <2>2, <2>3, <2>5
    <3>2. u = sent \o (post \o c \o pre \o <<FrameEnd>>)
      BY DEF frame
    <3> HIDE DEF u, c, r, o, T, x, l
    <3>3. /\ r \in Nat /\ T \in Nat \ {0} /\ sent \in Seq(Int)
          /\ post \in Seq(Int) /\ pre \in Seq(Int)
          /\ Around(r, o, a, b, p) /\ Begun(sent, n, o, a)
          /\ InARow(pre, r, p) /\ FrameSize \in Nat
      BY <1>1, <1>3, <1>9, <2>2, <2>3, <2>5
    <3>4. Wrapped(sent \o (post \o c \o pre \o <<FrameEnd>>), n, o, FrameSize)
      BY <2>3, <2>4, <3>1, <3>3, RotatedFrame
    <3> QED BY <3>2, <3>4
  <2> HIDE DEF u
  <2>9. Len(u) = n + FrameSize + 2
    BY <2>6 DEF Wrapped
  <2>10. LastFrame(u, o, FrameSize)
    <3>1. o \in 0 .. FrameSize
      BY <1>1
    <3> HIDE DEF o
    <3> QED BY <1>9, <2>4, <2>6, <3>1, WholeFrame
  <2>11. sent' = u
    BY <1>0 DEF u
  <2>12. HantekFrames'
    BY <1>8, <2>4, <2>9, <2>11 DEF HantekFrames
  <2>13. Hantek!FrameRotated'
    <3>1. Len(sent') = ctx'.num_frames * (FrameSize + 2)
      BY <2>4, <2>9, <2>11 DEF FramesSent
    <3>2. SubSeq(sent', Len(sent') - FrameSize - 1, Len(sent'))
              = <<FrameBegin>> \o f \o <<FrameEnd>>
      BY <2>10, <2>11 DEF LastFrame
    <3> HIDE DEF f
    <3>3. Hantek!Rotated' = f
      BY <1>5 DEF Hantek!Rotated, f
    <3> QED BY <3>1, <3>2, <3>3
            DEF Hantek!FrameRotated, Hantek!FrameEnd, FrameEnd,
                Hantek!FrameBegin, FrameBegin
  <2> QED BY <1>6, <1>7, <1>13, <2>12, <2>13 DEF HantekInv
<1> QED BY <1>1, <1>14, <1>15

\* Every step keeps the invariant.
LEMMA HantekKept == HantekInv /\ Hantek!Next => HantekInv'
<1> SUFFICES ASSUME HantekInv, Hantek!Next PROVE HantekInv'
  OBVIOUS
<1>1. CASE \/ Hantek!Start \/ Hantek!StartFails \/ Hantek!Session
           \/ Hantek!Poll \/ Hantek!Wait \/ Hantek!Rearm
           \/ Hantek!CaptureEmpty \/ Hantek!CaptureNotReady
           \/ Hantek!UserStop \/ Hantek!StopsAtHeader
  BY <1>1, HantekQuiet
<1>2. CASE Hantek!ReceiveEmpty
  BY <1>2, HantekLoses
<1>3. CASE Hantek!Receive
  BY <1>3, HantekTransfer, HantekLastTransfer DEF Hantek!Receive
<1>4. CASE Hantek!Ready
  <2>1. PICK offset \in Hantek!Offsets : Hantek!CaptureReady(offset)
    BY <1>4 DEF Hantek!Ready
  <2>2. /\ Hantek!Fetch(offset, Hantek!NumTransfers)
        /\ phase' = phase /\ running' = running
        /\ sent' = sent \o <<FrameBegin>>
    BY <2>1 DEF Hantek!CaptureReady, Hantek!Sends, Hantek!FrameBegin,
                FrameBegin
  <2>3. Hantek!NumTransfers \in 0 .. Hantek!NumTransfers
    BY HantekConstants
  <2> QED BY <2>2, <2>3, HantekFetches
<1>5. ASSUME NEW offset \in Hantek!Offsets,
             NEW queued \in 0 .. Hantek!NumTransfers - 1,
             Hantek!SubmitFails(offset, queued)
      PROVE  HantekInv'
  <2>1. /\ Hantek!Fetch(offset, queued) /\ ~device.failed
        /\ phase' = phase /\ running' = running /\ sent' = sent
    BY <1>5 DEF Hantek!SubmitFails, Hantek!SendsNothing
  <2>2. /\ queued \in 0 .. Hantek!NumTransfers
        /\ queued # Hantek!NumTransfers
    BY HantekConstants
  <2> QED BY <2>1, <2>2, HantekFetches
<1> QED BY <1>1, <1>2, <1>3, <1>4, <1>5 DEF Hantek!Next, Hantek!Event

\* The invariant has the types of the module.
LEMMA HantekTyped == HantekInv => Hantek!TypeOK
<1> SUFFICES ASSUME HantekInv PROVE Hantek!TypeOK
  OBVIOUS
<1> DEFINE q == device.queued
           N == Hantek!NumTransfers
<1>1. q \in Nat /\ q * TransferSize <= 2 * FrameSize
  BY DEF HantekInv, HantekTypes, HantekQueue
<1>2. q <= 2 * N
  <2>1. q \in Int /\ 2 * N \in Int /\ TransferSize \in Nat \ {0}
    BY <1>1, HantekConstants
  <2>2. (2 * N) * TransferSize = 2 * FrameSize
    <3>1. N \in Int /\ N * TransferSize = FrameSize
      BY HantekConstants DEF HantekFrame
    <3> HIDE DEF N
    <3>2. (N + N) * TransferSize = N * TransferSize + N * TransferSize
      BY <2>1, <3>1, Transfers
    <3>3. 2 * N = N + N /\ 2 * FrameSize = FrameSize + FrameSize
      BY <3>1, HantekConstants
    <3> QED BY <3>1, <3>2, <3>3
  <2> HIDE DEF q
  <2> DEFINE M == 2 * N
  <2>3. M \in Int /\ M * TransferSize = 2 * FrameSize
    BY <2>1, <2>2
  <2> HIDE DEF M
  <2>4. q <= M <=> q * TransferSize <= M * TransferSize
    BY <2>1, <2>3, Transfers
  <2> QED BY <1>1, <2>3, <2>4 DEF M
<1>3. Len(ctx.framebuf) <= FrameSize
  <2>1. /\ ctx.framebuf \in Seq(Int) /\ ctx.trigger_offset \in 0 .. FrameSize
        /\ Len(ctx.framebuf) <= ctx.trigger_offset
    BY DEF HantekInv, HantekTypes, HantekQueue
  <2> DEFINE l == Len(ctx.framebuf)
             o == ctx.trigger_offset
  <2>2. l \in Nat /\ o \in 0 .. FrameSize /\ l <= o
    BY <2>1
  <2> HIDE DEF l, o
  <2>3. l <= FrameSize
    BY <2>2, HantekConstants
  <2> QED BY <2>3 DEF l
<1>4. q \in 0 .. 2 * N
  <2>1. 2 * N \in Nat
    BY HantekConstants
  <2> QED BY <1>1, <1>2, <2>1
<1> QED BY <1>3, <1>4 DEF Hantek!TypeOK, HantekInv, HantekTypes

-----------------------------------------------------------------------------
(* The datafeed: what each kind of step is to it *)

\* Data, when the client knows what it is.
LEMMA FeedsData ==
    ASSUME sent \in Seq(Int), NEW s \in Seq(Int), phase = "open",
           phase' = phase, sent' = sent \o s
    PROVE  Feed!Data
<1>1. /\ Len(sent) \in Nat /\ Len(s) \in Nat
      /\ Len(sent \o s) = Len(sent) + Len(s)
  BY SentAfter
<1>2. Len(sent') = Len(sent) + Len(s)
  BY <1>1
<1> QED BY <1>1, <1>2 DEF Feed!Data, Feed!MoreSamples

\* The end, with the last data or without any.
LEMMA FeedsEnd ==
    ASSUME sent \in Seq(Int), NEW s \in Seq(Int), phase = "open",
           phase' = "ended", sent' = sent \o s
    PROVE  Feed!End
<1>1. /\ Len(sent) \in Nat /\ Len(s) \in Nat
      /\ Len(sent \o s) = Len(sent) + Len(s)
  BY SentAfter
<1>2. Len(sent') = Len(sent) + Len(s)
  BY <1>1
<1> QED BY <1>1, <1>2 DEF Feed!End, Feed!MoreSamples

\* The end that is said again and again, with the last data or without any.
LEMMA FeedsEndless ==
    ASSUME sent \in Seq(Int), NEW s \in Seq(Int),
           phase = "open" \/ (phase = "header" /\ s = <<>>),
           phase' = "endless", sent' = sent \o s,
           driver \in {"hantek-dso", "ols", "la8", "zeroplus"}
    PROVE  EndsAgain
<1>1. CASE phase = "open"
  <2>1. /\ Len(sent) \in Nat /\ Len(s) \in Nat
        /\ Len(sent \o s) = Len(sent) + Len(s)
    BY SentAfter
  <2>2. Len(sent') = Len(sent) + Len(s)
    BY <2>1
  <2> QED BY <1>1, <2>1, <2>2 DEF EndsAgain, Feed!MoreSamples
<1>2. CASE phase = "header" /\ s = <<>>
  <2>1. sent' = sent
    BY <1>2, NothingSent
  <2> QED BY <1>2, <2>1 DEF EndsAgain
<1> QED BY <1>1, <1>2

\* Nothing is sent.
LEMMA FeedsNothing ==
    ASSUME sent' = sent, phase' = phase
    PROVE  UNCHANGED Feed!feed
BY DEF Feed!feed

\* The session sends the header and the description.
LEMMA SessionFeeds ==
    ASSUME ToldBeforeLoop, Session
    PROVE  Feed!Next \/ UNCHANGED Feed!feed
<1>1. CASE SendHeader
  BY <1>1 DEF SendHeader, ToldBeforeLoop, Feed!Next, Feed!Header
<1>2. CASE SendMeta
  BY <1>2 DEF SendMeta, ToldBeforeLoop, Feed!Next, Feed!Meta
<1>3. CASE Run \/ Leave
  BY <1>3 DEF Run, Leave, Feed!feed
<1> QED BY <1>1, <1>2, <1>3 DEF Session

\* hantek-dso keeps to the datafeed up to its end, step by step.
LEMMA HantekFeeds ==
    ASSUME HantekInv, Hantek!Next, driver = "hantek-dso"
    PROVE  Feed!Next \/ EndsAgain \/ UNCHANGED Feed!feed
<1>1. sent \in Seq(Int) /\ ToldBeforeLoop
  BY DEF HantekInv, HantekTold, ToldBeforeLoop
<1>2. CASE Hantek!Session
  <2>1. Session
    BY <1>2 DEF Session, SendHeader, SendMeta, Run, Leave, Hantek!Session,
                Hantek!SendHeader, Hantek!SendMeta, Hantek!Run, Hantek!Leave
  <2> QED BY <1>1, <2>1, SessionFeeds
<1>3. CASE \/ Hantek!Start \/ Hantek!StartFails \/ Hantek!Poll
           \/ Hantek!Wait \/ Hantek!Rearm \/ Hantek!CaptureEmpty
           \/ Hantek!CaptureNotReady \/ Hantek!ReceiveEmpty
           \/ \E offset \in Hantek!Offsets,
                 queued \in 0 .. Hantek!NumTransfers - 1 :
                 Hantek!SubmitFails(offset, queued)
  BY <1>3 DEF Hantek!Start, Hantek!Starts, Hantek!StartFails, Hantek!Poll,
              Hantek!Wait, Hantek!Rearm, Hantek!CaptureEmpty,
              Hantek!CaptureNotReady, Hantek!ReceiveEmpty, Hantek!Step,
              Hantek!SubmitFails, Hantek!SendsNothing, Feed!feed
<1>4. CASE Hantek!UserStop \/ Hantek!StopsAtHeader
  <2>1. /\ phase \in {"header", "open"} /\ phase' = "endless"
        /\ sent' = sent \o <<>> /\ <<>> \in Seq(Int)
    BY <1>4 DEF Hantek!UserStop, Hantek!StopsWithEnd, Hantek!Called,
                Hantek!StopsAtHeader, Hantek!StopsEarly,
                Hantek!SendsEnd, HantekInv, HantekTold, ToldBeforeLoop
  <2> QED BY <1>1, <2>1, FeedsEndless
<1>5. CASE Hantek!Receive
  <2> DEFINE pre == Hantek!PreChunk
             post == Hantek!PostChunk
             buf == ctx.framebuf
             mark == <<Hantek!FrameEnd>>
  <2>1. /\ pre \in Seq(Int) /\ post \in Seq(Int) /\ buf \in Seq(Int)
        /\ mark \in Seq(Int)
    BY TransferCut DEF HantekInv, HantekTypes, Hantek!FrameEnd
  <2>2. phase = "open"
    <3>1. pc = "callback"
      BY <1>5 DEF Hantek!Receive, Hantek!ReceiveTransfer,
                  Hantek!ReceiveLastTransfer, Hantek!Completes
    <3> QED BY <3>1 DEF HantekInv, HantekTold
  <2>3. Hantek!FrameSent = post \o buf \o pre \o mark
    BY DEF Hantek!FrameSent
  <2> HIDE DEF pre, post, buf, mark
  <2>4. post \o buf \o pre \o mark \in Seq(Int)
    BY <2>1
  <2> DEFINE frame == post \o buf \o pre \o mark
  <2>5. /\ frame \in Seq(Int) /\ Hantek!FrameSent = frame
    BY <2>3, <2>4
  <2> HIDE DEF frame
  <2>6. CASE Hantek!ReceiveTransfer
    <3>1. sent' = sent \o post /\ phase' = phase
      BY <2>6 DEF Hantek!ReceiveTransfer, Hantek!Sends, post
    <3> QED BY <1>1, <2>1, <2>2, <3>1, FeedsData DEF Feed!Next
  <2>7. CASE Hantek!ReceiveLastTransfer
    <3>1. sent' = sent \o frame /\ (phase' = phase \/ phase' = "endless")
      BY <2>5, <2>7 DEF Hantek!ReceiveLastTransfer, Hantek!Sends,
                        Hantek!SendsEnd
    <3> QED BY <1>1, <2>2, <2>5, <3>1, FeedsData, FeedsEndless DEF Feed!Next
  <2> QED BY <1>5, <2>6, <2>7 DEF Hantek!Receive
<1>6. CASE Hantek!Ready
  <2>1. /\ sent' = sent \o <<Hantek!FrameBegin>> /\ phase' = phase
        /\ pc = "callback" /\ ctx.dev_state = "CAPTURE"
    BY <1>6 DEF Hantek!Ready, Hantek!CaptureReady, Hantek!Fetch, Hantek!Sends
  <2>2. phase = "open" /\ <<Hantek!FrameBegin>> \in Seq(Int)
    BY <2>1 DEF HantekInv, HantekTold, Hantek!FrameBegin
  <2> QED BY <1>1, <2>1, <2>2, FeedsData DEF Feed!Next
<1> QED BY <1>2, <1>3, <1>4, <1>5, <1>6 DEF Hantek!Next, Hantek!Event
-----------------------------------------------------------------------------
(* openbench-logic-sniffer *)

OlsBuffers == [1 .. LimitSamples -> Int]
OlsCounts == {0} \cup RleCounts

OlsContext ==
    [num_channels : 0 .. NumGroups, rle : BOOLEAN, num_stages : Nat,
     trigger_at : Int, num_transfers : 0 .. 1,
     num_samples : 0 .. LimitSamples, num_bytes : 0 .. NumGroups,
     rle_count : OlsCounts, raw_sample_buf : OlsBuffers]

\* A sample, or a count.
OlsWords ==
    {[sample |-> n, count |-> FALSE] : n \in Nat} \cup
    {[sample |-> c, count |-> TRUE] : c \in RleCounts}

OlsTypes ==
    /\ OLS!AcqTypeOK /\ pc # "callback"
    /\ ctx \in OlsContext
    /\ device \in [memory : Seq(Nat), words : Nat, word : OlsWords,
                   failed : BOOLEAN]

\* Nothing is sent before the end.
OlsTold ==
    /\ ToldBeforeLoop
    /\ pc \in {"started", "poll"} => phase = "open"
    /\ phase # "endless" => sent = <<>>
    /\ pc = "idle" \/ ctx.num_stages = 0 => ctx.trigger_at = -1

\* s is turned around at the end of the buffer b of length m, as far as it
\* goes: n samples of it.
TurnedAround(b, m, n, s) ==
    /\ n = IF Len(s) < m THEN Len(s) ELSE m
    /\ \A j \in 1 .. n : b[m - n + j] = s[n - j + 1]

OlsBuffer ==
    TurnedAround(ctx.raw_sample_buf, LimitSamples, ctx.num_samples,
                 device.memory)

OlsInv == OlsTypes /\ OlsTold /\ OlsBuffer /\ OLS!SentInOrder

\* What the constants are.
LEMMA OlsConstants ==
    /\ NumGroups \in Nat \ {0} /\ MaxSamples \in Nat /\ LimitSamples \in Nat
    /\ RleCounts \subseteq Nat /\ Stages \subseteq 0 .. 4
    /\ Ratios \subseteq 0 .. 100
BY DriversAssumption DEF OLS!OlsAssumption

\* Of two numbers, in the words of the module.
LEMMA OlsLeast ==
    ASSUME NEW a \in Int, NEW b \in Int
    PROVE  OLS!Min({a, b}) = IF a <= b THEN a ELSE b
BY LeastAndGreatest DEF OLS!Min, Min

\* The same for the greater.
LEMMA OlsGreatest ==
    ASSUME NEW a \in Int, NEW b \in Int
    PROVE  OLS!Max({a, b}) = IF a >= b THEN a ELSE b
BY LeastAndGreatest DEF OLS!Max, Max

\* The words the device is to send: its memory, or the limit, in fours; and
\* where the trigger is.
LEMMA OlsReadcount ==
    ASSUME NEW groups \in 1 .. NumGroups, NEW stages \in Stages,
           NEW ratio \in Ratios
    PROVE  /\ OLS!Readcount(groups) * 4 \in Nat
           /\ OLS!TriggerAt(OLS!Readcount(groups),
                  OLS!Delaycount(OLS!Readcount(groups), ratio), stages) \in Int
<1> DEFINE m == MaxSamples \div groups
           l == OLS!Min({m, LimitSamples})
           d == OLS!Delaycount(OLS!Readcount(groups), ratio)
<1>1. m \in Nat
  BY OlsConstants
<1>2. l \in Nat
  BY <1>1, OlsConstants, OlsLeast
<1>3. OLS!Readcount(groups) = l \div 4
  BY DEF OLS!Readcount
<1> HIDE DEF l
<1>4. OLS!Readcount(groups) \in Nat
  BY <1>2, <1>3
<1> DEFINE r == OLS!Readcount(groups)
<1> HIDE DEF r
<1>5. r * (100 - ratio) \in Int
  BY <1>4, OlsConstants DEF r
<1>6. d \in Int
  BY <1>5 DEF OLS!Delaycount, r
<1> HIDE DEF d
<1>7. (r - d) * 4 - stages \in Int
  BY <1>4, <1>6, OlsConstants DEF r
<1> QED BY <1>4, <1>7 DEF OLS!TriggerAt, d, r

\* The invariant holds at the start.
LEMMA OlsBegins == OLS!Init => OlsInv
<1> SUFFICES ASSUME OLS!Init PROVE OlsInv
  OBVIOUS
<1>1. /\ pc = "idle" /\ running = FALSE /\ phase = "idle" /\ sent = <<>>
      /\ ctx = [num_channels |-> 0, rle |-> FALSE, num_stages |-> 0,
              trigger_at |-> -1, num_transfers |-> 0, num_samples |-> 0,
              num_bytes |-> 0, rle_count |-> 0,
              raw_sample_buf |-> [k \in 1 .. LimitSamples |-> -9]]
      /\ device = [memory |-> <<>>, words |-> 0,
                   word |-> [sample |-> 0, count |-> FALSE],
                   failed |-> FALSE]
  BY DEF OLS!Init, OLS!AcqInit, OLS!NoWord, OLS!Garbage
<1>2. OlsTypes
  <2>1. 0 \in 0 .. NumGroups /\ 0 \in 0 .. LimitSamples /\ 0 \in 0 .. 1
    BY OlsConstants
  <2>2. <<>> \in Seq(Nat)
    OBVIOUS
  <2> DEFINE b == [k \in 1 .. LimitSamples |-> -9]
  <2>3. b \in OlsBuffers
    BY DEF OlsBuffers
  <2>4. ctx.raw_sample_buf = b
    BY <1>1
  <2> HIDE DEF b
  <2>5. ctx = [num_channels |-> 0, rle |-> FALSE, num_stages |-> 0,
              trigger_at |-> -1, num_transfers |-> 0, num_samples |-> 0,
              num_bytes |-> 0, rle_count |-> 0, raw_sample_buf |-> b]
    BY <1>1 DEF b
  <2>6. -1 \in Int /\ 0 \in OlsCounts
    BY DEF OlsCounts
  <2>7. ctx \in OlsContext
    BY <2>1, <2>3, <2>5, <2>6 DEF OlsContext
  <2>8. [sample |-> 0, count |-> FALSE] \in OlsWords
    BY DEF OlsWords
  <2>9. device \in [memory : Seq(Nat), words : Nat, word : OlsWords,
                   failed : BOOLEAN]
    BY <1>1, <2>2, <2>8
  <2> QED BY <1>1, <2>7, <2>9 DEF OlsTypes, OLS!AcqTypeOK
<1>3. OlsTold
  BY <1>1 DEF OlsTold, ToldBeforeLoop
<1>4. OlsBuffer
  BY <1>1, OlsConstants DEF OlsBuffer, TurnedAround
<1>5. OLS!SentInOrder
  BY <1>1 DEF OLS!SentInOrder
<1> QED BY <1>2, <1>3, <1>4, <1>5 DEF OlsInv

\* A step that receives nothing, before the end.
LEMMA OlsKeeps ==
    ASSUME OlsInv, OlsTypes', OlsTold', phase' = "endless" => sent' = <<>>,
           device'.memory = device.memory,
           ctx'.num_samples = ctx.num_samples,
           ctx'.raw_sample_buf = ctx.raw_sample_buf
    PROVE  OlsInv'
BY DEF OlsInv, OlsBuffer, OLS!SentInOrder
\* The word under way, or the first byte of the next.
LEMMA OlsWord ==
    ASSUME OlsTypes, NEW w \in OLS!NextWords
    PROVE  w \in OlsWords
<1>1. Len(device.memory) \in Nat
  BY LenProperties DEF OlsTypes
<1>2. CASE ctx.num_bytes > 0
  BY <1>2 DEF OLS!NextWords, OlsTypes
<1>3. CASE ~(ctx.num_bytes > 0)
  BY <1>1, <1>3 DEF OLS!NextWords, OlsWords
<1> QED BY <1>2, <1>3

\* A count, and the sample of a word that is none.
LEMMA OlsWordParts ==
    ASSUME NEW w \in OlsWords
    PROVE  /\ w.count = TRUE => w.sample \in OlsCounts
           /\ w.sample \in Nat
BY OlsConstants DEF OlsWords, OlsCounts

\* Each field of the context, updated.
LEMMA OlsField ==
    ASSUME NEW d \in OlsContext
    PROVE  /\ [d EXCEPT !.num_transfers = 1] \in OlsContext
           /\ \A b \in 0 .. NumGroups : [d EXCEPT !.num_bytes = b] \in OlsContext
           /\ \A r \in OlsCounts : [d EXCEPT !.rle_count = r] \in OlsContext
           /\ \A n \in 0 .. LimitSamples :
                 [d EXCEPT !.num_samples = n] \in OlsContext
           /\ \A a \in OlsBuffers :
                 [d EXCEPT !.raw_sample_buf = a] \in OlsContext
<1>1. [d EXCEPT !.num_transfers = 1] \in OlsContext
  BY DEF OlsContext
<1>2. ASSUME NEW b \in 0 .. NumGroups
      PROVE  [d EXCEPT !.num_bytes = b] \in OlsContext
  BY DEF OlsContext
<1>3. ASSUME NEW r \in OlsCounts
      PROVE  [d EXCEPT !.rle_count = r] \in OlsContext
  BY DEF OlsContext
<1>4. ASSUME NEW n \in 0 .. LimitSamples
      PROVE  [d EXCEPT !.num_samples = n] \in OlsContext
  BY DEF OlsContext
<1>5. ASSUME NEW a \in OlsBuffers
      PROVE  [d EXCEPT !.raw_sample_buf = a] \in OlsContext
  BY DEF OlsContext
<1> QED BY <1>1, <1>2, <1>3, <1>4, <1>5

\* The bytes of a word so far, and a count.
LEMMA OlsBytes ==
    ASSUME NEW c \in OlsContext, NEW b \in 0 .. NumGroups
    PROVE  /\ [c EXCEPT !.num_transfers = 1, !.num_bytes = b] \in OlsContext
           /\ \A r \in OlsCounts :
                 [c EXCEPT !.num_transfers = 1, !.num_bytes = b,
                           !.rle_count = r] \in OlsContext
<1> DEFINE d1 == [c EXCEPT !.num_transfers = 1]
           d2 == [d1 EXCEPT !.num_bytes = b]
<1>1. d1 \in OlsContext
  BY OlsField
<1>2. d2 \in OlsContext
  <2> HIDE DEF d1
  <2> QED BY <1>1, OlsField
<1>3. \A r \in OlsCounts : [d2 EXCEPT !.rle_count = r] \in OlsContext
  <2> HIDE DEF d2
  <2> QED BY <1>2, OlsField
<1> QED BY ZenonT(30), <1>2, <1>3

\* The buffer fills.
LEMMA OlsFills ==
    ASSUME NEW c \in OlsContext, NEW n \in 0 .. LimitSamples,
           NEW a \in OlsBuffers
    PROVE  [c EXCEPT !.num_transfers = 1, !.num_bytes = 0, !.rle_count = 0,
                     !.num_samples = n, !.raw_sample_buf = a] \in OlsContext
<1> DEFINE d3 == [c EXCEPT !.num_transfers = 1, !.num_bytes = 0,
                           !.rle_count = 0]
           d4 == [d3 EXCEPT !.num_samples = n]
<1>1. 0 \in 0 .. NumGroups /\ 0 \in OlsCounts
  BY OlsConstants DEF OlsCounts
<1>2. d3 \in OlsContext
  BY ZenonT(30), <1>1, OlsBytes
<1>3. d4 \in OlsContext
  <2> HIDE DEF d3
  <2> QED BY <1>2, OlsField
<1>4. [d4 EXCEPT !.raw_sample_buf = a] \in OlsContext
  <2> HIDE DEF d4
  <2> QED BY <1>3, OlsField
<1> QED BY <1>4

\* What is left alone by the session, by a start that fails, and by the client.
LEMMA OlsQuiet ==
    ASSUME OlsInv,
           \/ OLS!StartCrashes \/ OLS!StartFails \/ OLS!Session
           \/ OLS!ReceiveByte \/ OLS!ReceiveCount \/ OLS!IgnoreByte
           \/ OLS!ReadFails \/ OLS!SendCrashes \/ OLS!UserStop
           \/ OLS!StopsAtHeader
    PROVE  OlsInv'
<1> USE DEF OlsInv
<1>1. CASE OLS!StartCrashes \/ OLS!StartFails
  <2>1. OlsTypes' /\ OlsTold'
    BY <1>1 DEF OLS!StartCrashes, OLS!StartFails, OlsTypes, OLS!AcqTypeOK,
                OlsTold, ToldBeforeLoop
  <2> QED BY <1>1, <2>1, OlsKeeps
          DEF OLS!StartCrashes, OLS!StartFails, OlsTold, ToldBeforeLoop
<1>2. CASE OLS!Session
  <2>1. OlsTypes' /\ OlsTold'
    BY <1>2 DEF OLS!Session, OLS!SendHeader, OLS!SendMeta, OLS!Run,
                OLS!Leave, OlsTypes, OLS!AcqTypeOK, OlsTold, ToldBeforeLoop
  <2>2. CASE phase' = phase
    BY <1>2, <2>1, <2>2 DEF OLS!Session, OLS!SendHeader, OLS!SendMeta,
            OLS!Run, OLS!Leave, OlsBuffer, OLS!SentInOrder, OLS!Recorded
  <2>3. CASE phase' # phase
    BY <1>2, <2>1, <2>3, OlsKeeps DEF OLS!Session, OLS!SendHeader,
            OLS!SendMeta, OLS!Run, OLS!Leave
  <2> QED BY <2>2, <2>3
<1>3. CASE OLS!ReceiveByte
  <2>1. PICK w \in OLS!NextWords : device' = [device EXCEPT !.word = w]
    BY <1>3 DEF OLS!ReceiveByte
  <2>2. w \in OlsWords
    BY OlsWord
  <2>3. ctx.num_bytes + 1 \in 0 .. NumGroups
    BY <1>3, OlsConstants DEF OLS!ReceiveByte, OlsTypes, OlsContext
  <2>7. ctx' \in OlsContext
    BY ZenonT(30), <1>3, <2>3, OlsBytes DEF OLS!ReceiveByte, OlsTypes, OlsCounts
  <2>8. device' \in [memory : Seq(Nat), words : Nat, word : OlsWords,
                    failed : BOOLEAN]
    BY <2>1, <2>2 DEF OlsTypes
  <2>4. OlsTypes'
    BY <1>3, <2>7, <2>8
       DEF OLS!ReceiveByte, OLS!SendsNothing, OlsTypes, OLS!AcqTypeOK
  <2>5. OlsTold'
    BY <1>3 DEF OLS!ReceiveByte, OLS!Called, OLS!SendsNothing, OlsTypes,
           OlsTold, ToldBeforeLoop
  <2>6. phase' # "endless" /\ device'.memory = device.memory
    BY <1>3, <2>1 DEF OLS!ReceiveByte, OLS!Called, OLS!SendsNothing, OlsTold,
        OlsTypes, OlsContext
  <2> QED BY <1>3, <2>4, <2>5, <2>6, OlsKeeps DEF OLS!ReceiveByte, OlsTypes
<1>4. CASE OLS!ReceiveCount
  <2>1. PICK w \in OLS!NextWords :
          /\ w.count
          /\ ctx' = [ctx EXCEPT !.num_transfers = 1, !.num_bytes = 0,
                                !.rle_count = w.sample]
    BY ZenonT(30), <1>4 DEF OLS!ReceiveCount
  <2>2. w.sample \in OlsCounts
    BY <2>1, OlsWord, OlsWordParts
  <2>3. /\ device' = [device EXCEPT !.word = [sample |-> 0, count |-> FALSE],
                                     !.words = device.words - 1]
        /\ OLS!Called /\ device.words > 0 /\ pc' = pc /\ phase' = phase
        /\ running' = running /\ sent' = sent
    BY ZenonT(30), <1>4 DEF OLS!ReceiveCount, OLS!LastByte, OLS!NoWord, OLS!SendsNothing
  <2>4. device.words - 1 \in Nat /\ 0 \in 0 .. NumGroups
    BY <2>3, OlsConstants DEF OlsTypes
  <2>8. ctx' \in OlsContext
    BY ZenonT(30), <2>1, <2>2, <2>4, OlsBytes DEF OlsTypes
  <2>9. [sample |-> 0, count |-> FALSE] \in OlsWords
    BY DEF OlsWords
  <2>10. device' \in [memory : Seq(Nat), words : Nat, word : OlsWords,
                    failed : BOOLEAN]
    BY <2>3, <2>4, <2>9 DEF OlsTypes
  <2>5. OlsTypes'
    BY <2>3, <2>8, <2>10 DEF OlsTypes, OLS!AcqTypeOK
  <2>6. OlsTold'
    BY <2>1, <2>3 DEF OlsTypes, OlsTold, ToldBeforeLoop
  <2>7. phase' # "endless" /\ device'.memory = device.memory
    BY <2>3 DEF OLS!Called, OlsTold, OlsTypes
  <2> QED BY <2>1, <2>5, <2>6, <2>7, OlsKeeps DEF OlsTypes
<1>5. CASE OLS!IgnoreByte
  <2>1. device.words - 1 \in Nat
    BY <1>5 DEF OLS!IgnoreByte, OlsTypes
  <2>2. OlsTypes'
    BY <1>5, <2>1 DEF OLS!IgnoreByte, OLS!SendsNothing, OlsTypes,
                      OLS!AcqTypeOK
  <2>3. OlsTold'
    BY <1>5 DEF OLS!IgnoreByte, OLS!SendsNothing, OlsTold, ToldBeforeLoop
  <2>4. phase' # "endless" /\ device'.memory = device.memory
    BY <1>5 DEF OLS!IgnoreByte, OLS!SendsNothing, OLS!Called, OlsTold,
                OlsTypes
  <2> QED BY <1>5, <2>2, <2>3, <2>4, OlsKeeps DEF OLS!IgnoreByte
<1>6. CASE OLS!ReadFails
  <2>1. ctx' \in OlsContext
    BY <1>6, OlsField DEF OLS!ReadFails, OlsTypes
  <2>2. OlsTypes'
    BY <1>6, <2>1
       DEF OLS!ReadFails, OLS!SendsNothing, OlsTypes, OLS!AcqTypeOK
  <2>3. OlsTold'
    BY <1>6 DEF OLS!ReadFails, OLS!SendsNothing, OlsTypes, OlsTold,
                ToldBeforeLoop
  <2>4. phase' # "endless" /\ device'.memory = device.memory
    BY <1>6 DEF OLS!ReadFails, OLS!SendsNothing, OLS!Called, OlsTold,
                OlsTypes
  <2> QED BY <1>6, <2>2, <2>3, <2>4, OlsKeeps DEF OLS!ReadFails, OlsTypes
<1>7. CASE OLS!SendCrashes
  <2>1. OlsTypes' /\ OlsTold'
    BY <1>7 DEF OLS!SendCrashes, OlsTypes, OLS!AcqTypeOK, OlsTold,
                ToldBeforeLoop
  <2> QED BY <1>7, <2>1, OlsKeeps DEF OLS!SendCrashes, OLS!TimedOut,
             OLS!Called, OlsTold
<1>8. CASE OLS!UserStop \/ OLS!StopsAtHeader
  <2>1. /\ sent' = sent \o <<>> /\ sent = <<>> /\ pc \in {"meta", "poll"}
        /\ pc' = "crashed" /\ phase' = "endless" /\ running' = FALSE
        /\ ctx' = ctx
        /\ device' = device \/ device' = [device EXCEPT !.failed = TRUE]
    BY <1>8 DEF OLS!UserStop, OLS!StopsWithEnd, OLS!SendsEnd, OLS!Called,
                OLS!StopsAtHeader, OLS!StopsEarly, OlsTold, ToldBeforeLoop
  <2>2. sent' = <<>>
    BY <2>1
  <2>3. OlsTypes' /\ device'.memory = device.memory
    BY <2>1 DEF OlsTypes, OLS!AcqTypeOK
  <2>4. OlsTold'
    BY <2>1, <2>2 DEF OlsTypes, OlsTold, ToldBeforeLoop
  <2> QED BY <2>1, <2>2, <2>3, <2>4, OlsKeeps
<1> QED BY <1>1, <1>2, <1>3, <1>4, <1>5, <1>6, <1>7, <1>8
\* A sample and its copies, and where they are put.
Copied(t, x, n) == t = [k \in 1 .. n |-> x]

Filled(b2, b, m, n, c, x) ==
    b2 = [k \in 1 .. m |->
             IF k \in m - (n + c) + 1 .. m - (n + c) + c THEN x ELSE b[k]]

CutTo(c, n, m) == c = (IF n <= m THEN n ELSE m)

\* A sample and its copies, put in front of what is in the buffer.
LEMMA OlsPutInFront ==
    ASSUME NEW b, NEW b2, NEW m \in Nat, NEW n \in Nat,
           NEW s \in Seq(Nat), NEW x \in Nat, NEW r \in Nat, n < m,
           NEW c \in Nat, NEW copies, TurnedAround(b, m, n, s),
           CutTo(c, r + 1, m - n), Copied(copies, x, r + 1),
           Filled(b2, b, m, n, c, x)
    PROVE  TurnedAround(b2, m, n + c, s \o copies)
<1> DEFINE t == s \o copies
           l == Len(s)
<1>1. copies \in Seq(Nat) /\ Len(copies) = r + 1
      /\ \A k \in 1 .. r + 1 : copies[k] = x
  BY DEF Copied
<1>2. l \in Nat /\ l = n
  BY LenProperties DEF TurnedAround
<1>3. /\ c \in Nat \ {0} /\ n + c \in Nat /\ n + c <= m /\ c <= r + 1
      /\ c = IF r + 1 <= m - n THEN r + 1 ELSE m - n
  BY DEF CutTo
<1>4. Len(t) = n + r + 1 /\ n + c = IF Len(t) < m THEN Len(t) ELSE m
  <2>1. Len(t) = l + Len(copies)
    BY SMTT(30), <1>1
  <2>2. Len(t) = n + r + 1
    BY <1>1, <1>2, <2>1
  <2> HIDE DEF t
  <2> QED BY <1>3, <2>2
<1>5. \A k \in 1 .. n : t[k] = s[k]
  BY <1>1, <1>2
<1>6. \A k \in n + 1 .. n + c : t[k] = x
  <2> SUFFICES ASSUME NEW k \in n + 1 .. n + c PROVE t[k] = x
    OBVIOUS
  <2>1. k \in 1 .. n + r + 1 /\ k > n /\ k - n \in 1 .. r + 1
    BY <1>3
  <2>2. t[k] = copies[k - n]
    BY <1>1, <1>2, <2>1
  <2> QED BY <1>1, <2>1, <2>2
<1>7. \A j \in 1 .. n : b[m - n + j] = s[n - j + 1]
  BY DEF TurnedAround
<1> HIDE DEF t
<1>8. ASSUME NEW j \in 1 .. n + c
      PROVE  b2[m - (n + c) + j] = t[n + c - j + 1]
  <2>1. m - (n + c) + j \in 1 .. m
    BY <1>3
  <2>2. CASE j <= c
    <3>1. b2[m - (n + c) + j] = x
      BY <1>3, <2>1, <2>2 DEF Filled
    <3>2. n + c - j + 1 \in n + 1 .. n + c
      BY <1>3, <2>2
    <3> QED BY <1>6, <3>1, <3>2
  <2>3. CASE j > c
    <3> DEFINE i == j - c
    <3>1. /\ i \in 1 .. n /\ m - (n + c) + j = m - n + i
          /\ n + c - j + 1 = n - i + 1 /\ n - i + 1 \in 1 .. n
      BY <1>3, <2>3
    <3>2. b2[m - (n + c) + j] = b[m - (n + c) + j]
      BY <1>3, <2>1, <2>3 DEF Filled
    <3> QED BY <1>5, <1>7, <3>1, <3>2
  <2> QED BY <1>3, <2>2, <2>3
<1>9. TurnedAround(b2, m, n + c, t)
  <2> DEFINE N == n + c
  <2>1. /\ N = IF Len(t) < m THEN Len(t) ELSE m
        /\ \A j \in 1 .. N : b2[m - N + j] = t[N - j + 1]
    BY <1>4, <1>8
  <2> HIDE DEF N
  <2>2. TurnedAround(b2, m, N, t)
    BY ONLY <2>1 DEF TurnedAround
  <2> QED BY <2>2 DEF N
<1> QED BY <1>9 DEF t

\* A sample, and those that its count stands for.
LEMMA OlsReceives == OlsInv /\ OLS!ReceiveSample => OlsInv'
<1> SUFFICES ASSUME OlsInv, OLS!ReceiveSample PROVE OlsInv'
  OBVIOUS
<1> DEFINE b == ctx.raw_sample_buf
           m == LimitSamples
           n == ctx.num_samples
           r == ctx.rle_count
           s == device.memory
           c == OLS!Copies
<1>1. /\ ctx \in OlsContext /\ m \in Nat /\ n \in 0 .. m /\ n < m
      /\ r \in Nat /\ s \in Seq(Nat) /\ b \in OlsBuffers
  BY OlsConstants
     DEF OlsInv, OlsTypes, OlsContext, OlsCounts, OLS!ReceiveSample,
         OLS!LastByte
<1>2. c = IF r + 1 <= m - n THEN r + 1 ELSE m - n
  <2>1. c = OLS!Min({r + 1, m - n}) /\ r + 1 \in Int /\ m - n \in Int
    BY <1>1 DEF OLS!Copies
  <2> HIDE DEF c, r, m, n
  <2> QED BY <2>1, OlsLeast
<1>3. n + c \in 0 .. m /\ c \in Nat
  <2> HIDE DEF c
  <2> QED BY SMTT(30), <1>1, <1>2
<1>4. PICK w \in OLS!NextWords :
          /\ ~w.count
          /\ LET n2 == n + c
                 from == OLS!Offset(n2)
             IN  ctx' = [ctx EXCEPT
                    !.num_transfers = 1, !.num_bytes = 0, !.rle_count = 0,
                    !.num_samples = n2,
                    !.raw_sample_buf = [k \in DOMAIN @ |->
                        IF k \in from + 1 .. from + c
                        THEN w.sample ELSE @[k]]]
          /\ device' = [device EXCEPT
                !.word = OLS!NoWord, !.words = @ - 1,
                !.memory = @ \o [k \in 1 .. r + 1 |-> w.sample]]
  BY ZenonT(30) DEF OLS!ReceiveSample
<1> DEFINE x == w.sample
           copies == [k \in 1 .. r + 1 |-> x]
           b2 == [k \in 1 .. m |->
                    IF k \in m - (n + c) + 1 .. m - (n + c) + c
                    THEN x ELSE b[k]]
<1>5. x \in Nat
  BY OlsWord, OlsWordParts DEF OlsInv
<1>6. DOMAIN b = 1 .. m
  BY <1>1 DEF OlsBuffers
<1>7. ctx' = [ctx EXCEPT
                 !.num_transfers = 1, !.num_bytes = 0, !.rle_count = 0,
                 !.num_samples = n + c, !.raw_sample_buf = b2]
  BY <1>4, <1>6 DEF OLS!Offset
<1>8. device' = [device EXCEPT !.word = OLS!NoWord, !.words = @ - 1,
                               !.memory = s \o copies]
  BY <1>4
<1>9. TurnedAround(b2, m, n + c, s \o copies)
  <2>1. /\ m \in Nat /\ n \in Nat /\ n < m /\ TurnedAround(b, m, n, s)
        /\ Copied(copies, x, r + 1) /\ Filled(b2, b, m, n, c, x)
        /\ CutTo(c, r + 1, m - n)
    BY <1>1, <1>2 DEF OlsInv, OlsBuffer, Copied, Filled, CutTo
  <2> HIDE DEF b, m, n, r, s, c, x, copies, b2
  <2> QED BY <1>1, <1>3, <1>5, <2>1, OlsPutInFront
<1>10. b2 \in OlsBuffers
  <2>1. \A k \in 1 .. m : b[k] \in Int
    BY <1>1 DEF OlsBuffers
  <2> QED BY <1>5, <2>1 DEF OlsBuffers
<1>11. s \o copies \in Seq(Nat)
  BY <1>1, <1>5
<1> HIDE DEF b2, copies, c
<1>12. ctx' \in OlsContext
  BY ZenonT(30), <1>1, <1>3, <1>7, <1>10, OlsFills
<1>13. ctx'.num_samples = n + c /\ ctx'.raw_sample_buf = b2
       /\ ctx'.num_stages = ctx.num_stages /\ ctx'.trigger_at = ctx.trigger_at
  BY <1>1, <1>7 DEF OlsContext
<1>14. /\ OLS!Called /\ device.words > 0 /\ pc' = pc /\ phase' = phase
       /\ running' = running /\ sent' = sent
  BY DEF OLS!ReceiveSample, OLS!LastByte, OLS!SendsNothing
<1>15. /\ device' \in [memory : Seq(Nat), words : Nat, word : OlsWords,
                       failed : BOOLEAN]
       /\ device'.memory = s \o copies
  <2>1. OLS!NoWord \in OlsWords
    BY DEF OLS!NoWord, OlsWords
  <2>2. device.words - 1 \in Nat
    BY <1>14 DEF OlsInv, OlsTypes
  <2> QED BY <1>8, <1>11, <2>1, <2>2 DEF OlsInv, OlsTypes
<1>16. OlsTypes'
  BY <1>12, <1>14, <1>15 DEF OlsInv, OlsTypes, OLS!AcqTypeOK
<1>17. OlsTold'
  BY <1>13, <1>14 DEF OlsInv, OlsTold, ToldBeforeLoop
<1>18. OlsBuffer'
  BY <1>9, <1>13, <1>15 DEF OlsBuffer
<1>19. OLS!SentInOrder'
  BY <1>14 DEF OLS!SentInOrder, OlsInv, OlsTold, OLS!Called
<1> QED BY <1>16, <1>17, <1>18, <1>19 DEF OlsInv

-----------------------------------------------------------------------------
(* openbench-logic-sniffer: what is sent *)

\* What was recorded, in order of time.
LEMMA OlsRecorded ==
    ASSUME OlsInv
    PROVE  /\ OLS!Recorded \in Seq(Int) /\ ctx.num_samples \in Nat
           /\ Len(OLS!Recorded) = ctx.num_samples
           /\ \A i \in 1 .. ctx.num_samples : OLS!Recorded[i] =
                 ctx.raw_sample_buf[LimitSamples - ctx.num_samples + i]
<1> DEFINE s == device.memory
           n == ctx.num_samples
           b == ctx.raw_sample_buf
           p == SubSeq(s, 1, n)
<1>1. /\ s \in Seq(Nat) /\ Len(s) \in Nat /\ n \in 0 .. LimitSamples
      /\ LimitSamples \in Nat /\ TurnedAround(b, LimitSamples, n, s)
  BY LenProperties, OlsConstants
     DEF OlsInv, OlsTypes, OlsContext, OlsBuffer
<1>2. /\ n = IF Len(s) < LimitSamples THEN Len(s) ELSE LimitSamples
      /\ \A j \in 1 .. n : b[LimitSamples - n + j] = s[n - j + 1]
  BY <1>1 DEF TurnedAround
<1>3. OLS!Recorded = [i \in 1 .. Len(p) |-> p[(Len(p) - i) + 1]]
  <2>1. OLS!Min({LimitSamples, Len(s)}) = n
    BY <1>1, <1>2, OlsLeast
  <2> QED BY <2>1 DEF OLS!Recorded, OLS!Reverse
<1> HIDE DEF s, n, b
<1>4. /\ p \in Seq(Nat) /\ Len(p) = n /\ n \in Nat
      /\ \A k \in 1 .. n : p[k] = s[k]
  <2>1. n \in Nat /\ n <= Len(s) /\ 1 <= n + 1 /\ n + 1 - 1 = n
        /\ \A k \in 1 .. n : 1 + k - 1 = k
    BY <1>1, <1>2
  <2> QED BY <1>1, <2>1, PartProperties
<1> HIDE DEF p
<1>5. \A i \in 1 .. n : n - i + 1 \in 1 .. n /\ p[n - i + 1] \in Nat
  <2>1. \A i \in 1 .. n : n - i + 1 \in 1 .. n
    BY <1>4
  <2>2. \A i \in 1 .. n : p[i] \in Nat
    BY <1>4, ElementOfSeq
  <2> QED BY <2>1, <2>2
<1>6. OLS!Recorded \in Seq(Int) /\ Len(OLS!Recorded) = n
  BY <1>3, <1>4, <1>5
<1>7. \A i \in 1 .. n : OLS!Recorded[i] = b[LimitSamples - n + i]
  BY <1>2, <1>3, <1>4, <1>5
<1> QED BY <1>4, <1>6, <1>7 DEF n, b

\* A part of the buffer that lies in what is stored.
LEMMA OlsStored ==
    ASSUME OlsInv, NEW k \in Nat, NEW n \in Nat, k + n <= ctx.num_samples
    PROVE  OLS!Stored(k, n) = SubSeq(OLS!Recorded, k + 1, k + n)
<1> DEFINE b == ctx.raw_sample_buf
           m == ctx.num_samples
           R == OLS!Recorded
           T == OLS!Stored(k, n)
           U == SubSeq(R, k + 1, k + n)
<1>1. /\ R \in Seq(Int) /\ m \in 0 .. LimitSamples /\ Len(R) = m
      /\ LimitSamples \in Nat /\ DOMAIN b = 1 .. LimitSamples
      /\ \A i \in 1 .. m : R[i] = b[LimitSamples - m + i]
  BY OlsRecorded, OlsConstants
     DEF OlsInv, OlsTypes, OlsContext, OlsBuffers
<1>2. T = [j \in 1 .. n |->
             IF LimitSamples - m + k + j \in DOMAIN b
             THEN b[LimitSamples - m + k + j] ELSE OLS!Garbage]
  BY DEF OLS!Stored
<1> HIDE DEF b, m, R, T, U
<1>3. U \in Seq(Int) /\ Len(U) = n /\ \A j \in 1 .. n : U[j] = R[k + j]
  <2>1. /\ k + 1 \in Nat \ {0} /\ k + n \in Nat /\ k + n <= Len(R)
        /\ k + 1 <= k + n + 1 /\ k + n + 1 - (k + 1) = n
        /\ \A j \in 1 .. n : k + 1 + j - 1 = k + j
    BY <1>1 DEF m
  <2> QED BY <1>1, <2>1, PartProperties DEF U
<1>4. \A j \in 1 .. n : T[j] = R[k + j]
  <2> SUFFICES ASSUME NEW j \in 1 .. n PROVE T[j] = R[k + j]
    OBVIOUS
  <2>0. k + n <= m /\ m \in 0 .. LimitSamples /\ LimitSamples \in Nat
    BY <1>1 DEF m
  <2>1. /\ k + j \in 1 .. m /\ LimitSamples - m + k + j \in 1 .. LimitSamples
        /\ LimitSamples - m + (k + j) = LimitSamples - m + k + j
    BY <2>0
  <2> QED BY <1>1, <1>2, <2>1
<1>5. T = [j \in 1 .. n |-> T[j]]
  BY <1>2
<1>6. U = [j \in 1 .. n |-> U[j]]
  BY <1>3
<1>7. \A j \in 1 .. n : T[j] = U[j]
  BY <1>3, <1>4
<1>8. T = U
  BY <1>5, <1>6, <1>7
<1> QED BY <1>8 DEF T, U, R

\* Whatever is stored is a sample, or is not in the buffer.
LEMMA OlsStoredType ==
    ASSUME OlsInv, NEW k \in Int, NEW n \in Nat
    PROVE  OLS!Stored(k, n) \in Seq(Int)
<1>1. \A i \in DOMAIN ctx.raw_sample_buf : ctx.raw_sample_buf[i] \in Int
  BY DEF OlsInv, OlsTypes, OlsContext, OlsBuffers
<1>2. OLS!Garbage \in Int
  BY DEF OLS!Garbage
<1> QED BY <1>1, <1>2 DEF OLS!Stored

\* What is inserted at a place.
LEMMA OlsInsertAt ==
    ASSUME NEW s \in Seq(Int), NEW i \in Int, NEW e \in Int
    PROVE  OLS!InsertAt(s, i, e)
               = SubSeq(s, 1, i - 1) \o <<e>> \o SubSeq(s, i, Len(s))
BY DEF OLS!InsertAt

\* What is sent is what was recorded, with its mark if it has one.
LEMMA OlsBuffered ==
    ASSUME OlsInv, ctx.trigger_at <= ctx.num_samples
    PROVE  /\ OLS!Buffered \in Seq(Int)
           /\ ctx.trigger_at = -1 => OLS!Buffered = OLS!Recorded
           /\ ctx.trigger_at >= 0 => OLS!Buffered =
                 OLS!InsertAt(OLS!Recorded, ctx.trigger_at + 1,
                              OLS!TriggerMark)
<1> DEFINE t == ctx.trigger_at
           n == ctx.num_samples
           R == OLS!Recorded
           mark == <<OLS!TriggerMark>>
<1>1. t \in Int /\ n \in Nat /\ t <= n /\ R \in Seq(Int) /\ Len(R) = n
  BY OlsRecorded DEF OlsInv, OlsTypes, OlsContext
<1>2. CASE t = -1
  <2>1. OLS!Buffered = OLS!Stored(0, n)
    BY <1>2 DEF OLS!Buffered
  <2>2. OLS!Stored(0, n) = SubSeq(R, 0 + 1, 0 + n)
    <3>1. 0 \in Nat /\ n \in Nat /\ 0 + n <= ctx.num_samples
      BY <1>1
    <3> QED BY <3>1, OlsStored, Zenon
  <2>3. 0 + 1 = 1 /\ 0 + n = n
    BY <1>1
  <2>4. SubSeq(R, 1, n) = R
    <3> HIDE DEF R
    <3> QED BY <1>1, SubSeqFull
  <2> QED BY SMTT(30), <1>1, <1>2, <2>1, <2>2, <2>3, <2>4
<1>3. CASE t # -1
  <2> DEFINE m == IF t >= 0 THEN t ELSE 0
             A == OLS!Stored(0, m)
             B == OLS!Stored(t, n - t)
  <2>1. OLS!Max({0, t}) = m
    <3>1. OLS!Max({0, t}) = IF 0 >= t THEN 0 ELSE t
      BY <1>1, OlsGreatest
    <3> HIDE DEF t
    <3> QED BY <1>1, <3>1
  <2>2. OLS!Buffered = A \o mark \o B
    BY <1>3, <2>1 DEF OLS!Buffered
  <2>3. m \in Nat /\ n - t \in Nat
    BY <1>1
  <2>4. A \in Seq(Int) /\ B \in Seq(Int) /\ mark \in Seq(Int)
    <3>1. 0 \in Int /\ t \in Int
      BY <1>1
    <3>2. A \in Seq(Int) /\ B \in Seq(Int)
      BY <2>3, <3>1, OlsStoredType, Zenon
    <3> QED BY <3>2 DEF OLS!TriggerMark
  <2>5. CASE t >= 0
    <3>1. /\ 0 \in Nat /\ t \in Nat /\ 0 + t <= ctx.num_samples
          /\ t + (n - t) <= ctx.num_samples
      BY <1>1, <2>5
    <3>2. OLS!Stored(0, t) = SubSeq(R, 0 + 1, 0 + t)
      BY <3>1, OlsStored, Zenon
    <3>3. B = SubSeq(R, t + 1, t + (n - t))
      BY <2>3, <3>1, OlsStored, Zenon
    <3>4. 0 + 1 = 1 /\ 0 + t = t + 1 - 1 /\ t + (n - t) = Len(R) /\ m = t
      BY <1>1, <2>5
    <3>5. A = SubSeq(R, 1, t + 1 - 1) /\ B = SubSeq(R, t + 1, Len(R))
      <4> HIDE DEF R, t, n, B, m
      <4> QED BY <3>2, <3>3, <3>4
    <3> HIDE DEF A, B, m, R
    <3>6. OLS!InsertAt(R, t + 1, OLS!TriggerMark) = A \o mark \o B
      <4> DEFINE at == t + 1
      <4>1. /\ R \in Seq(Int) /\ at \in Int /\ OLS!TriggerMark \in Int
            /\ at - 1 = t + 1 - 1
        BY <1>1 DEF R, OLS!TriggerMark
      <4> HIDE DEF at, t
      <4>2. OLS!InsertAt(R, at, OLS!TriggerMark)
                = SubSeq(R, 1, at - 1) \o <<OLS!TriggerMark>> \o
                  SubSeq(R, at, Len(R))
        BY <4>1, OlsInsertAt
      <4>3. A = SubSeq(R, 1, at - 1) /\ B = SubSeq(R, at, Len(R))
        BY <3>5, <4>1 DEF at
      <4>4. OLS!InsertAt(R, at, OLS!TriggerMark) = A \o mark \o B
        BY <4>2, <4>3
      <4> QED BY <4>4 DEF at
    <3> HIDE DEF mark
    <3>7. A \o mark \o B \in Seq(Int)
      BY <2>4
    <3> QED BY <1>3, <2>2, <2>5, <3>6, <3>7 DEF R
  <2>6. CASE ~(t >= 0)
    <3> HIDE DEF A, B, mark, m
    <3>1. A \o mark \o B \in Seq(Int)
      BY <2>4
    <3> QED BY <1>3, <2>2, <2>6, <3>1
  <2> QED BY <2>5, <2>6
<1> QED BY <1>2, <1>3

\* The end of the acquisition: the buffer is sent.
LEMMA OlsSends == OlsInv /\ OLS!SendBuffer => OlsInv'
<1> SUFFICES ASSUME OlsInv, OLS!SendBuffer PROVE OlsInv'
  OBVIOUS
<1>1. /\ pc = "poll" /\ running /\ ctx.trigger_at <= ctx.num_samples
      /\ sent' = sent \o OLS!Buffered /\ phase' = "endless"
      /\ running' = FALSE /\ pc' = "crashed" /\ ctx' = ctx
      /\ device' = device /\ ~device.failed
  BY DEF OLS!SendBuffer, OLS!TimedOut, OLS!Called, OLS!SendsEnd
<1>2. sent = <<>>
  BY <1>1 DEF OlsInv, OlsTold
<1>3. OLS!Buffered \in Seq(Int)
  BY <1>1, OlsBuffered
<1>4. sent' = OLS!Buffered
  BY <1>1, <1>2, <1>3
<1>5. OlsTypes' /\ OlsBuffer'
  BY <1>1 DEF OlsInv, OlsTypes, OLS!AcqTypeOK, OlsBuffer
<1>6. OlsTold'
  BY <1>1, <1>3, <1>4 DEF OlsInv, OlsTold, ToldBeforeLoop
<1>7. OLS!SentInOrder'
  <2>1. OLS!Recorded' = OLS!Recorded
    BY <1>1 DEF OLS!Recorded
  <2>2. /\ ctx.num_stages = 0 => ctx.trigger_at = -1
        /\ ctx.num_stages \in Nat /\ ctx.trigger_at \in Int
    BY DEF OlsInv, OlsTold, OlsTypes, OlsContext
  <2>3. CASE ctx.num_stages = 0
    BY <1>1, <1>4, <2>1, <2>2, <2>3, OlsBuffered DEF OLS!SentInOrder
  <2>4. CASE ctx.num_stages # 0 /\ ctx.trigger_at >= 0
    <3>1. sent' = OLS!InsertAt(OLS!Recorded, ctx.trigger_at + 1,
                               OLS!TriggerMark)
      BY <1>1, <1>4, <2>4, OlsBuffered
    <3> QED BY <1>1, <2>1, <2>4, <3>1 DEF OLS!SentInOrder
  <2>5. CASE ctx.num_stages # 0 /\ ~(ctx.trigger_at >= 0)
    BY <1>1, <2>2, <2>5 DEF OLS!SentInOrder
  <2> QED BY <2>3, <2>4, <2>5
<1> QED BY <1>5, <1>6, <1>7 DEF OlsInv

\* The end that the client makes: what is before the trigger is sent.
LEMMA OlsStops == OlsInv /\ OLS!ClientStops => OlsInv'
<1> SUFFICES ASSUME OlsInv, OLS!ClientStops PROVE OlsInv'
  OBVIOUS
<1> DEFINE at == ctx.trigger_at
           s == OLS!Stored(0, at)
<1>1. /\ pc = "poll" /\ at \in 1 .. ctx.num_samples /\ sent' = sent \o s
      /\ phase' = "endless" /\ running' = FALSE /\ pc' = "crashed"
      /\ ctx' = ctx /\ device' = [device EXCEPT !.failed = TRUE]
  BY DEF OLS!ClientStops, OLS!TimedOut, OLS!Called, OLS!SendsEnd
<1>2. /\ device'.memory = device.memory /\ device'.failed
      /\ ctx.num_samples \in Nat
  BY <1>1, OlsRecorded DEF OlsInv, OlsTypes
<1>3. /\ 0 \in Nat /\ 0 \in Int /\ at \in Nat /\ at >= 0
      /\ 0 + at <= ctx.num_samples /\ 0 + 1 = 1 /\ 0 + at = at
  BY <1>1, <1>2
<1>4. s \in Seq(Int)
  BY <1>3, OlsStoredType, Zenon
<1>5. s = SubSeq(OLS!Recorded, 1, at)
  <2>1. s = SubSeq(OLS!Recorded, 0 + 1, 0 + at)
    BY <1>3, OlsStored, Zenon
  <2> QED BY <1>3, <2>1
<1> HIDE DEF s
<1>6. sent' = s
  <2>1. sent = <<>>
    BY <1>1 DEF OlsInv, OlsTold
  <2> QED BY <1>1, <1>4, <2>1
<1>7. OlsTypes' /\ OlsBuffer'
  BY <1>1, <1>2 DEF OlsInv, OlsTypes, OLS!AcqTypeOK, OlsBuffer
<1>8. OlsTold'
  BY <1>1, <1>4, <1>6 DEF OlsInv, OlsTold, ToldBeforeLoop
<1>9. OLS!Recorded' = OLS!Recorded
  BY <1>1, <1>2 DEF OLS!Recorded
<1>10. OLS!SentInOrder'
  BY <1>1, <1>2, <1>5, <1>6, <1>9 DEF OLS!SentInOrder
<1> QED BY <1>7, <1>8, <1>10 DEF OlsInv

\* The buffer is new and the device has been told what to record.
LEMMA OlsStarts ==
    ASSUME OlsInv, NEW groups \in 1 .. NumGroups, NEW stages \in Stages,
           NEW ratio \in Ratios, NEW rle \in BOOLEAN,
           OLS!Start(groups, stages, ratio, rle)
    PROVE  OlsInv'
<1> DEFINE t == IF stages = 0 THEN ctx.trigger_at
                ELSE OLS!TriggerAt(OLS!Readcount(groups),
                        OLS!Delaycount(OLS!Readcount(groups), ratio), stages)
           w == OLS!Readcount(groups) * 4
<1>1. t \in Int /\ w \in Nat
  BY OlsReadcount DEF OlsInv, OlsTypes, OlsContext
<1>2. /\ OLS!Starts
      /\ ctx' = [ctx EXCEPT !.num_channels = groups, !.rle = rle,
                    !.num_stages = stages, !.rle_count = 0, !.trigger_at = t]
      /\ device' = [device EXCEPT !.words = w]
  BY DEF OLS!Start
<1> HIDE DEF t, w
<1>3. ctx' \in OlsContext
  <2>1. /\ groups \in 0 .. NumGroups /\ stages \in Nat /\ 0 \in OlsCounts
        /\ ctx \in OlsContext
    BY OlsConstants DEF OlsCounts, OlsInv, OlsTypes
  <2> DEFINE d1 == [ctx EXCEPT !.num_channels = groups]
             d2 == [d1 EXCEPT !.rle = rle]
             d3 == [d2 EXCEPT !.num_stages = stages]
             d4 == [d3 EXCEPT !.rle_count = 0]
  <2>2. d1 \in OlsContext
    BY ONLY <2>1 DEF OlsContext
  <2>3. d2 \in OlsContext
    <3> HIDE DEF d1
    <3> QED BY ONLY <2>2, rle \in BOOLEAN DEF OlsContext
  <2>4. d3 \in OlsContext
    <3> HIDE DEF d2
    <3> QED BY ONLY <2>1, <2>3 DEF OlsContext
  <2>5. d4 \in OlsContext
    <3> HIDE DEF d3
    <3> QED BY ONLY <2>1, <2>4 DEF OlsContext
  <2>6. [d4 EXCEPT !.trigger_at = t] \in OlsContext
    <3> HIDE DEF d4
    <3> QED BY ONLY <1>1, <2>5 DEF OlsContext
  <2> QED BY <1>2, <2>6
<1>4. /\ ctx'.num_samples = ctx.num_samples /\ ctx'.num_stages = stages
      /\ ctx'.raw_sample_buf = ctx.raw_sample_buf /\ ctx'.trigger_at = t
  BY <1>2 DEF OlsInv, OlsTypes, OlsContext
<1>5. /\ device' \in [memory : Seq(Nat), words : Nat, word : OlsWords,
                      failed : BOOLEAN]
      /\ device'.memory = device.memory
  BY <1>1, <1>2 DEF OlsInv, OlsTypes
<1>6. OlsTypes'
  BY <1>2, <1>3, <1>5 DEF OLS!Starts, OlsInv, OlsTypes, OLS!AcqTypeOK
<1>7. stages = 0 => t = ctx.trigger_at
  BY DEF t
<1>8. OlsTold'
  BY <1>2, <1>4, <1>7 DEF OLS!Starts, OlsInv, OlsTold, ToldBeforeLoop
<1>9. phase' # "endless"
  BY <1>2 DEF OLS!Starts, OlsInv, OlsTold, ToldBeforeLoop
<1> QED BY <1>4, <1>5, <1>6, <1>8, <1>9, OlsKeeps

\* Every step keeps the invariant.
LEMMA OlsKept == OlsInv /\ OLS!Next => OlsInv'
BY OlsQuiet, OlsReceives, OlsSends, OlsStops, OlsStarts
   DEF OLS!Next, OLS!Byte

\* The invariant has the types of the module.
LEMMA OlsTyped == OlsInv => OLS!TypeOK
BY DEF OLS!TypeOK, OlsInv, OlsTypes, OlsContext, OlsCounts, OlsBuffers

\* The buffer ends with what has come in, turned around.
LEMMA OlsInOrder == OlsInv => OLS!BufferInOrder
<1> SUFFICES ASSUME OlsInv PROVE OLS!BufferInOrder
  OBVIOUS
<1> DEFINE n == ctx.num_samples
           R == OLS!Recorded
<1>1. n \in Nat /\ R \in Seq(Int) /\ Len(R) = n /\ 0 + 1 = 1 /\ 0 + n = n
  BY OlsRecorded
<1>2. OLS!Stored(0, n) = SubSeq(R, 0 + 1, 0 + n)
  <2>1. 0 \in Nat /\ n \in Nat /\ 0 + n <= ctx.num_samples
    BY <1>1
  <2> QED BY <2>1, OlsStored, Zenon
<1>3. SubSeq(R, 1, n) = R
  <2> HIDE DEF R, n
  <2> QED BY <1>1, SubSeqFull
<1> QED BY <1>1, <1>2, <1>3 DEF OLS!BufferInOrder

\* openbench-logic-sniffer keeps to the datafeed up to its end, step by step.
LEMMA OlsFeeds ==
    ASSUME OlsInv, OLS!Next, driver = "ols"
    PROVE  Feed!Next \/ EndsAgain \/ UNCHANGED Feed!feed
<1>1. sent \in Seq(Int) /\ ToldBeforeLoop
  BY DEF OlsInv, OlsTold, ToldBeforeLoop
<1>2. CASE OLS!Session
  <2>1. Session
    BY <1>2 DEF Session, SendHeader, SendMeta, Run, Leave, OLS!Session,
                OLS!SendHeader, OLS!SendMeta, OLS!Run, OLS!Leave
  <2> QED BY <1>1, <2>1, SessionFeeds
<1>3. CASE OLS!SendBuffer \/ OLS!ClientStops
  <2>1. PICK s \in Seq(Int) : sent' = sent \o s
    <3>1. CASE OLS!SendBuffer
      BY <3>1, OlsBuffered DEF OLS!SendBuffer, OLS!SendsEnd
    <3>2. CASE OLS!ClientStops
      <4>1. 0 \in Int /\ ctx.trigger_at \in Nat
        BY <3>2, OlsRecorded DEF OLS!ClientStops
      <4>2. OLS!Stored(0, ctx.trigger_at) \in Seq(Int)
        BY <4>1, OlsStoredType, Zenon
      <4> QED BY <3>2, <4>2 DEF OLS!ClientStops, OLS!SendsEnd
    <3> QED BY <1>3, <3>1, <3>2
  <2>2. phase = "open" /\ phase' = "endless"
    BY <1>3 DEF OLS!SendBuffer, OLS!ClientStops, OLS!TimedOut, OLS!Called,
                OLS!SendsEnd, OlsInv, OlsTold
  <2> QED BY <1>1, <2>1, <2>2, FeedsEndless
<1>5. CASE OLS!UserStop \/ OLS!StopsAtHeader
  <2>1. /\ phase \in {"header", "open"} /\ phase' = "endless"
        /\ sent' = sent \o <<>> /\ <<>> \in Seq(Int)
    BY <1>5 DEF OLS!UserStop, OLS!StopsWithEnd, OLS!Called,
                OLS!StopsAtHeader, OLS!StopsEarly, OLS!SendsEnd,
                OlsInv, OlsTold, ToldBeforeLoop
  <2> QED BY <1>1, <2>1, FeedsEndless
<1>4. CASE \/ \E groups \in 1 .. NumGroups, stages \in Stages,
                 ratio \in Ratios, rle \in BOOLEAN :
                    OLS!Start(groups, stages, ratio, rle)
           \/ OLS!StartCrashes \/ OLS!StartFails \/ OLS!Byte
           \/ OLS!ReadFails \/ OLS!SendCrashes
  BY ZenonT(30), <1>4, FeedsNothing
     DEF OLS!Start, OLS!Starts, OLS!StartCrashes, OLS!StartFails, OLS!Byte,
         OLS!ReceiveByte, OLS!ReceiveCount, OLS!ReceiveSample, OLS!LastByte,
         OLS!IgnoreByte, OLS!ReadFails, OLS!SendsNothing, OLS!SendCrashes
<1> QED BY <1>2, <1>3, <1>4, <1>5 DEF OLS!Next

-----------------------------------------------------------------------------
(* chronovu-la8 *)

La8Types ==
    /\ LA8!AcqTypeOK
    /\ ctx \in [divcount : 0 .. 1, block_counter : 0 .. NUM_BLOCKS - 1,
                blocks_sent : 0 .. NUM_BLOCKS, trigger_found : BOOLEAN,
                final_buf : [LA8!Times -> Int]]
    /\ device \in [trigger : LA8!Times \cup {-1}, failed : BOOLEAN]

La8Told ==
    /\ ToldBeforeLoop
    /\ pc \in {"started", "poll", "callback"} => phase = "open"
    /\ pc # "callback" /\ phase # "endless" =>
          sent = <<>> /\ ctx.blocks_sent = 0 /\ ctx.trigger_found = FALSE
    /\ pc = "idle" => ctx.block_counter = 0

\* The samples of the blocks read so far are in their places.
La8InPlace ==
    /\ \A i \in LA8!Times :
          LA8!Address(i, ctx.divcount) < ctx.block_counter * BS =>
              ctx.final_buf[i] = i
    /\ pc = "callback" => \A i \in LA8!Times : ctx.final_buf[i] = i

\* n samples in a row, with the mark of the trigger in front of the i-th
\* (counted from 0), which c drops.
MarkedAt(s, from, n, i, c) ==
    /\ Len(s) = n + 1 - c
    /\ \A k \in 1 .. i : s[k] = from + k - 1
    /\ s[i + 1] = -1
    /\ \A k \in i + 2 .. n + 1 - c : s[k] = from + k - 2 + c

Dropped(i) == IF i % BS = BS - 1 THEN 1 ELSE 0

\* The first n samples, with the mark of the trigger t where it belongs.
Marked(s, n, t) ==
    IF t \in 0 .. n - 1 THEN MarkedAt(s, 0, n, t, Dropped(t))
    ELSE InARow(s, 0, n)

La8Sending ==
    pc = "callback" /\ ~device.failed =>
        /\ Marked(sent, ctx.blocks_sent * BS, device.trigger)
        /\ ctx.trigger_found =
               (device.trigger \in 0 .. ctx.blocks_sent * BS - 1)

La8Inv ==
    La8Types /\ La8Told /\ La8InPlace /\ La8Sending /\ LA8!SentInOrder

-----------------------------------------------------------------------------
(* chronovu-la8: where the samples are *)

\* Quotient and remainder are what they are made of.
LEMMA Division ==
    ASSUME NEW d \in Nat \ {0}, NEW a \in Nat, NEW r \in 0 .. d - 1,
           NEW x, x = a * d + r
    PROVE  x \div d = a /\ x % d = r
<1> DEFINE q == x \div d
           m == x % d
<1>0. a * d \in Nat /\ x \in Nat
  OBVIOUS
<1>1. q \in Int /\ m \in 0 .. d - 1 /\ x = q * d + m
  BY <1>0
<1> HIDE DEF q, m
<1>2. /\ q * d \in Int /\ a * d \in Int
      /\ (q + 1) * d = q * d + d /\ (a + 1) * d = a * d + d
      /\ q + 1 <= a => (q + 1) * d <= a * d
      /\ a + 1 <= q => (a + 1) * d <= q * d
  <2>1. q + 1 \in Int /\ a + 1 \in Int /\ a \in Int
    BY <1>1
  <2> QED BY <1>1, <2>1, Transfers
<1>3. q = a
  <2>1. ~(q + 1 <= a)
    BY <1>0, <1>1, <1>2
  <2>2. ~(a + 1 <= q)
    BY <1>0, <1>1, <1>2
  <2> QED BY <1>1, <2>1, <2>2
<1>4. m = r
  BY <1>1, <1>2, <1>3
<1> QED BY <1>3, <1>4 DEF q, m

\* Half a bank: a bank holds pairs of samples.
La8Half == LA8!BankSize \div 2

\* Banks of pairs of samples, and blocks, make up the memory.
LEMMA La8Constants ==
    /\ BS \in Nat \ {0} /\ NUM_BLOCKS \in Nat \ {0} /\ NumBanks \in Nat \ {0}
    /\ LA8!SdramSize = NUM_BLOCKS * BS /\ LA8!SdramSize \in Nat \ {0}
    /\ La8Half \in Nat \ {0} /\ LA8!BankSize = 2 * La8Half
    /\ LA8!SdramSize = 2 * (La8Half * NumBanks)
<1> DEFINE S == LA8!SdramSize
           K == LA8!BankSize
           h == La8Half
           c == BS \div 2
           g == K \div BS
<1>1. /\ BS \in Nat \ {0} /\ NUM_BLOCKS \in Nat \ {0}
      /\ NumBanks \in Nat \ {0} /\ S = NUM_BLOCKS * BS
      /\ S % NumBanks = 0 /\ K % BS = 0 /\ BS % 2 = 0
      /\ K = S \div NumBanks /\ h = K \div 2
  BY DriversAssumption
     DEF LA8!La8Assumption, LA8!SdramSize, LA8!BankSize, La8Half
<1>2. S \in Nat \ {0}
  BY <1>1
<1> HIDE DEF S, K, h
<1>3. K \in Nat /\ K * NumBanks = S
  BY <1>1, <1>2
<1>4. BS = c * 2 /\ c \in Nat
  BY <1>1
<1>5. K = g * BS /\ g \in Nat
  BY <1>1, <1>3
<1> HIDE DEF c, g
<1>6. K = (g * c) * 2 /\ g * c \in Nat
  BY <1>4, <1>5
<1>7. h = g * c /\ K = 2 * h
  <2> DEFINE e == g * c
  <2> HIDE DEF e
  <2>1. K = e * 2 /\ e \in Nat
    BY <1>6 DEF e
  <2> QED BY <1>1, <2>1 DEF e
<1>8. h \in Nat /\ S = 2 * (h * NumBanks)
  BY <1>1, <1>3, <1>6, <1>7
<1>9. h # 0
  BY <1>1, <1>2, <1>8
<1> QED BY <1>1, <1>2, <1>7, <1>8, <1>9 DEF S, K, h

\* A sample of a pair keeps its place, or not.
Flip(d, p) == IF d = 0 THEN p ELSE 1 - p

\* The sample p of the pair m + q * NumBanks of all, which is the pair q of
\* bank m: its time, and its address.
TimeOf(m, q, p) == 2 * (q * NumBanks + m) + p

AddressOf(m, q, p) == m * LA8!BankSize + 2 * q + p

Cell(m, q, p) ==
    m \in 0 .. NumBanks - 1 /\ q \in 0 .. La8Half - 1 /\ p \in 0 .. 1

\* Twice the other one of a pair is the same one.
LEMMA FlipTwice ==
    ASSUME NEW p \in 0 .. 1, NEW d \in 0 .. 1
    PROVE  Flip(d, p) \in 0 .. 1 /\ Flip(d, Flip(d, p)) = p
BY DEF Flip

\* Where the device puts it.
LEMMA La8Addresses ==
    ASSUME NEW m, NEW q, NEW p, Cell(m, q, p), NEW d \in 0 .. 1
    PROVE  /\ TimeOf(m, q, p) \in LA8!Times
           /\ LA8!Address(TimeOf(m, q, p), d) = AddressOf(m, q, Flip(d, p))
<1> DEFINE B == NumBanks
           h == La8Half
           u == q * B + m
           t == TimeOf(m, q, p)
<1>1. /\ m \in 0 .. B - 1 /\ q \in 0 .. h - 1 /\ p \in 0 .. 1
      /\ B \in Nat \ {0} /\ h \in Nat \ {0}
      /\ LA8!SdramSize = 2 * (h * B)
  BY La8Constants DEF Cell
<1>2. q * B \in Nat /\ u \in Nat /\ q \in Nat /\ m \in Nat
  BY <1>1
<1>3. u \div B = q /\ u % B = m
  BY <1>1, <1>2, Division
<1>4. t = 2 * u + p
  BY DEF TimeOf
<1>5. t \div (2 * B) = q
  <2> DEFINE r == 2 * m + p
             D == 2 * B
  <2>1. D \in Nat \ {0} /\ r \in 0 .. D - 1
    BY <1>1
  <2>2. t = q * D + r
    <3>1. q * (2 * B) = 2 * (q * B)
      BY <1>1
    <3>2. 2 * (q * B + m) = 2 * (q * B) + 2 * m
      BY <1>1, <1>2
    <3> QED BY <1>1, <1>2, <1>4, <3>1, <3>2
  <2> HIDE DEF D, r, t
  <2>3. t \div D = q
    BY <1>2, <2>1, <2>2, Division
  <2> QED BY <2>3 DEF D
<1>6. t \div 2 = u /\ t % 2 = p /\ t \in Nat
  <2> HIDE DEF u, t
  <2> QED BY <1>1, <1>2, <1>4
<1>7. t \in LA8!Times
  <2>1. (q + 1) * B = q * B + B /\ (q + 1) * B <= h * B /\ h * B \in Int
    <3>1. q + 1 \in Int /\ h \in Int /\ q + 1 <= h /\ q \in Int
      BY <1>1
    <3> QED BY <1>1, <3>1, Transfers
  <2> DEFINE x == q * B
             y == h * B
  <2>2. x \in Nat /\ y \in Int /\ x + B <= y /\ u = x + m
        /\ LA8!SdramSize = 2 * y
    BY <1>1, <1>2, <2>1
  <2> HIDE DEF x, y, u, t
  <2>3. 2 * u + p \in 0 .. 2 * y - 1
    BY <1>1, <2>2
  <2> QED BY <1>4, <2>2, <2>3 DEF LA8!Times
<1>8. LA8!Address(t, d)
          = m * LA8!BankSize + 2 * q + (IF d = 0 THEN p ELSE 1 - p)
  <2>1. (t \div 2) % B = m
    BY <1>3, <1>6
  <2> HIDE DEF t
  <2> QED BY <1>5, <1>6, <2>1 DEF LA8!Address
<1> QED BY <1>7, <1>8 DEF AddressOf, Flip

\* Where the driver puts what it reads.
LEMMA La8Indexes ==
    ASSUME NEW m, NEW q, NEW p, Cell(m, q, p)
    PROVE  /\ AddressOf(m, q, p) \in 0 .. LA8!SdramSize - 1
           /\ LA8!Index(AddressOf(m, q, p))
                  = TimeOf(m, q, Flip(ctx.divcount, p))
<1> DEFINE B == NumBanks
           h == La8Half
           K == LA8!BankSize
           k == AddressOf(m, q, p)
           r == 2 * q + p
<1>1. /\ m \in 0 .. B - 1 /\ q \in 0 .. h - 1 /\ p \in 0 .. 1
      /\ B \in Nat \ {0} /\ h \in Nat \ {0} /\ K = 2 * h
      /\ LA8!SdramSize = 2 * (h * B)
  BY La8Constants DEF Cell
<1>2. /\ K \in Nat \ {0} /\ m * K \in Nat /\ m \in Nat /\ q \in Nat
      /\ r \in 0 .. K - 1
  BY <1>1
<1>3. k = m * K + r /\ k \in Nat
  BY <1>1, <1>2 DEF AddressOf
<1> HIDE DEF K, k
<1>4. k \div K = m
  BY <1>2, <1>3, Division
<1>5. k - m * K = r
  BY <1>2, <1>3
<1>6. r \div 2 = q
  BY <1>1
<1>7. k % 2 = p
  <2>1. m * K = 2 * (m * h) /\ m * h \in Nat
    BY <1>1
  <2> DEFINE v == m * h
  <2>2. k = 2 * (v + q) + p /\ v \in Nat
    BY <1>1, <1>3, <2>1
  <2> HIDE DEF v
  <2> QED BY <1>1, <2>2
<1>8. LA8!Index(k) = m * 2 + q * (2 * B) + Flip(ctx.divcount, p)
  BY <1>4, <1>5, <1>6, <1>7 DEF LA8!Index, Flip, K
<1>9. m * 2 + q * (2 * B) = 2 * (q * B + m)
  BY <1>1
<1>10. k \in 0 .. LA8!SdramSize - 1
  <2>1. (m + 1) * K = m * K + K /\ (m + 1) * K <= B * K /\ B * K \in Int
    <3>1. m + 1 \in Int /\ B \in Int /\ m + 1 <= B /\ m \in Int
      BY <1>1
    <3> QED BY <1>2, <3>1, Transfers
  <2>2. B * K = LA8!SdramSize
    BY <1>1
  <2> QED BY <1>2, <1>3, <2>1, <2>2
<1>11. TimeOf(m, q, Flip(ctx.divcount, p))
           = 2 * (q * B + m) + Flip(ctx.divcount, p)
  BY DEF TimeOf
<1> QED BY <1>8, <1>9, <1>10, <1>11 DEF k

\* Every time and every address has its cell.
LEMMA La8Cells ==
    /\ \A t \in LA8!Times :
          \E m, q, p : Cell(m, q, p) /\ t = TimeOf(m, q, p)
    /\ \A k \in 0 .. LA8!SdramSize - 1 :
          \E m, q, p : Cell(m, q, p) /\ k = AddressOf(m, q, p)
<1> DEFINE B == NumBanks
           h == La8Half
           K == LA8!BankSize
<1>1. /\ B \in Nat \ {0} /\ h \in Nat \ {0} /\ K = 2 * h
      /\ LA8!SdramSize = 2 * (h * B) /\ K \in Nat \ {0}
  BY La8Constants
<1>2. ASSUME NEW t \in LA8!Times
      PROVE  \E m, q, p : Cell(m, q, p) /\ t = TimeOf(m, q, p)
  <2> DEFINE p == t % 2
             u == t \div 2
             q == u \div B
             m == u % B
             y == h * B
  <2>1. t \in 0 .. 2 * y - 1 /\ y \in Nat
    BY <1>1 DEF LA8!Times
  <2> HIDE DEF y
  <2>2. t = 2 * u + p /\ p \in 0 .. 1 /\ u \in 0 .. y - 1
    BY <2>1
  <2> HIDE DEF u, p
  <2>3. q \in Int /\ m \in 0 .. B - 1 /\ u = q * B + m /\ u \in Nat
    BY <1>1, <2>2
  <2> HIDE DEF q, m
  <2>4. q \in 0 .. h - 1
    <3>1. /\ 0 \in Int /\ h \in Int /\ q + 1 \in Int /\ (q + 1) * B = q * B + B
          /\ q * B \in Int
      BY <1>1, <2>3, Transfers
    <3>2. h <= q <=> h * B <= q * B
      BY <1>1, <2>3, <3>1, Transfers
    <3>3. 0 <= q + 1 - 1 <=> 0 * B < (q + 1) * B
      <4>1. q + 1 <= 0 <=> (q + 1) * B <= 0 * B
        BY <1>1, <3>1, Transfers
      <4>2. 0 * B = 0 /\ (q + 1) * B \in Int
        BY <1>1, <2>3, <3>1
      <4> QED BY <2>3, <4>1, <4>2
    <3>4. ~(h <= q)
      <4> DEFINE qb == q * B
                 hb == h * B
      <4>1. /\ h <= q <=> hb <= qb
            /\ u < hb /\ u >= qb /\ qb \in Int /\ hb \in Int /\ u \in Int
        BY <1>1, <2>1, <2>2, <2>3, <3>1, <3>2 DEF y
      <4> HIDE DEF qb, hb
      <4>2. ~(hb <= qb)
        BY <4>1
      <4> QED BY <4>1, <4>2
    <3>5. 0 * B = 0 /\ (q + 1) * B > 0
      BY <1>1, <2>2, <2>3, <3>1
    <3>6. q >= 0
      BY <2>3, <3>3, <3>5
    <3> QED BY <1>1, <2>3, <3>4, <3>6
  <2>5. t = TimeOf(m, q, p) /\ Cell(m, q, p)
    BY <2>2, <2>3, <2>4 DEF TimeOf, Cell
  <2> QED BY <2>5
<1>3. ASSUME NEW k \in 0 .. LA8!SdramSize - 1
      PROVE  \E m, q, p : Cell(m, q, p) /\ k = AddressOf(m, q, p)
  <2> DEFINE m == k \div K
             r == k % K
             q == r \div 2
             p == r % 2
  <2> HIDE DEF K
  <2>1. k \in Nat /\ m \in Int /\ r \in 0 .. K - 1 /\ k = m * K + r
    BY <1>1
  <2> HIDE DEF m, r
  <2>2. r = 2 * q + p /\ p \in 0 .. 1 /\ q \in 0 .. h - 1
    BY <1>1, <2>1
  <2> HIDE DEF p, q
  <2>3. m \in 0 .. B - 1
    <3>1. /\ 0 \in Int /\ B \in Int /\ m + 1 \in Int /\ (m + 1) * K = m * K + K
          /\ m * K \in Int
      BY <1>1, <2>1, Transfers
    <3>2. B <= m <=> B * K <= m * K
      BY <1>1, <2>1, <3>1, Transfers
    <3>3. m + 1 <= 0 <=> (m + 1) * K <= 0 * K
      BY <1>1, <3>1, Transfers
    <3>4. B * K = LA8!SdramSize /\ 0 * K = 0
      BY <1>1
    <3>5. ~(B <= m)
      <4> DEFINE mk == m * K
                 bk == B * K
      <4>1. /\ B <= m <=> bk <= mk
            /\ k < bk /\ k >= mk /\ mk \in Int /\ bk \in Int /\ k \in Int
        BY <1>1, <2>1, <3>1, <3>2, <3>4
      <4> HIDE DEF mk, bk
      <4>2. ~(bk <= mk)
        BY <4>1
      <4> QED BY <4>1, <4>2
    <3>6. ~(m + 1 <= 0)
      BY <1>1, <2>1, <3>1, <3>3, <3>4
    <3> QED BY <2>1, <3>1, <3>5, <3>6
  <2>4. k = AddressOf(m, q, p) /\ Cell(m, q, p)
    <3>1. m * K + r = m * K + 2 * q + p
      BY <1>1, <2>1, <2>2, <2>3
    <3> QED BY <2>1, <2>2, <2>3, <3>1 DEF AddressOf, Cell, K
  <2> QED BY <2>4
<1> QED BY <1>2, <1>3

\* An address is one of the memory.
LEMMA La8AddressType ==
    ASSUME NEW t \in LA8!Times, NEW d \in 0 .. 1
    PROVE  LA8!Address(t, d) \in 0 .. LA8!SdramSize - 1
<1>1. PICK m, q, p : Cell(m, q, p) /\ t = TimeOf(m, q, p)
  BY La8Cells
<1>2. LA8!Address(t, d) = AddressOf(m, q, Flip(d, p))
  BY <1>1, La8Addresses
<1>3. Cell(m, q, Flip(d, p))
  BY <1>1, FlipTwice DEF Cell
<1> QED BY <1>2, <1>3, La8Indexes

\* The driver puts each sample back to its time.
LEMMA La8Inverse ==
    ASSUME ctx.divcount \in 0 .. 1
    PROVE  /\ \A t \in LA8!Times :
                 /\ LA8!Address(t, ctx.divcount) \in 0 .. LA8!SdramSize - 1
                 /\ LA8!Index(LA8!Address(t, ctx.divcount)) = t
           /\ \A k \in 0 .. LA8!SdramSize - 1 :
                 /\ LA8!Index(k) \in LA8!Times
                 /\ LA8!Address(LA8!Index(k), ctx.divcount) = k
<1> DEFINE d == ctx.divcount
<1>1. ASSUME NEW m, NEW q, NEW p, Cell(m, q, p)
      PROVE  Cell(m, q, Flip(d, p)) /\ Flip(d, Flip(d, p)) = p
  BY <1>1, FlipTwice DEF Cell
<1>2. ASSUME NEW t \in LA8!Times
      PROVE  /\ LA8!Address(t, d) \in 0 .. LA8!SdramSize - 1
             /\ LA8!Index(LA8!Address(t, d)) = t
  <2>1. PICK m, q, p : Cell(m, q, p) /\ t = TimeOf(m, q, p)
    BY La8Cells
  <2>2. LA8!Address(t, d) = AddressOf(m, q, Flip(d, p))
    BY <2>1, La8Addresses
  <2>3. Cell(m, q, Flip(d, p)) /\ Flip(d, Flip(d, p)) = p
    BY <1>1, <2>1
  <2>4. /\ AddressOf(m, q, Flip(d, p)) \in 0 .. LA8!SdramSize - 1
        /\ LA8!Index(AddressOf(m, q, Flip(d, p)))
               = TimeOf(m, q, Flip(d, Flip(d, p)))
    BY <2>3, La8Indexes
  <2> QED BY <2>1, <2>2, <2>3, <2>4
<1>3. ASSUME NEW k \in 0 .. LA8!SdramSize - 1
      PROVE  /\ LA8!Index(k) \in LA8!Times
             /\ LA8!Address(LA8!Index(k), d) = k
  <2>1. PICK m, q, p : Cell(m, q, p) /\ k = AddressOf(m, q, p)
    BY La8Cells
  <2>2. LA8!Index(k) = TimeOf(m, q, Flip(d, p))
    BY <2>1, La8Indexes
  <2>3. Cell(m, q, Flip(d, p)) /\ Flip(d, Flip(d, p)) = p
    BY <1>1, <2>1
  <2>4. /\ TimeOf(m, q, Flip(d, p)) \in LA8!Times
        /\ LA8!Address(TimeOf(m, q, Flip(d, p)), d)
               = AddressOf(m, q, Flip(d, Flip(d, p)))
    BY <2>3, La8Addresses
  <2> QED BY <2>1, <2>2, <2>3, <2>4
<1> QED BY <1>2, <1>3

-----------------------------------------------------------------------------
(* chronovu-la8: what is sent *)

\* A mark behind samples in a row.
LEMMA MarkOnRow ==
    ASSUME NEW s \in Seq(Int), NEW b \in Seq(Int), NEW n \in Nat,
           NEW m \in Nat, NEW i \in 0 .. m - 1, NEW c \in 0 .. 1,
           InARow(s, 0, n), MarkedAt(b, n, m, i, c)
    PROVE  MarkedAt(s \o b, 0, n + m, n + i, c)
<1> DEFINE u == s \o b
<1>1. /\ Len(s) = n /\ Len(b) = m + 1 - c
      /\ \A k \in 1 .. n : s[k] = k - 1
  BY DEF InARow, MarkedAt
<1>2. /\ \A k \in 1 .. i : b[k] = n + k - 1
      /\ b[i + 1] = -1
      /\ \A k \in i + 2 .. m + 1 - c : b[k] = n + k - 2 + c
  BY DEF MarkedAt
<1>3. /\ Len(u) = n + m + 1 - c
      /\ \A k \in 1 .. n + m + 1 - c : u[k] = IF k <= n THEN s[k] ELSE b[k - n]
  <2>1. /\ Len(u) = Len(s) + Len(b)
        /\ \A k \in 1 .. Len(s) + Len(b) :
              u[k] = IF k <= Len(s) THEN s[k] ELSE b[k - Len(s)]
    BY ConcatProperties
  <2> DEFINE e == n + m + 1 - c
  <2> HIDE DEF u
  <2>2. Len(s) + Len(b) = e /\ Len(s) = n
    BY <1>1
  <2> HIDE DEF e
  <2>3. /\ Len(u) = e
        /\ \A k \in 1 .. e : u[k] = IF k <= n THEN s[k] ELSE b[k - n]
    BY <2>1, <2>2
  <2> QED BY <2>3 DEF e
<1> HIDE DEF u
<1>4. ASSUME NEW k \in 1 .. n + i PROVE u[k] = k - 1
  <2>1. k \in 1 .. n + m + 1 - c
    OBVIOUS
  <2>2. CASE k <= n
    BY <1>1, <1>3, <2>1, <2>2
  <2>3. CASE k > n
    <3>1. k - n \in 1 .. i /\ n + (k - n) - 1 = k - 1
      BY <2>3
    <3> QED BY <1>2, <1>3, <2>1, <2>3, <3>1
  <2> QED BY <2>2, <2>3
<1>5. u[n + i + 1] = -1
  <2>1. /\ n + i + 1 \in 1 .. n + m + 1 - c /\ ~(n + i + 1 <= n)
        /\ n + i + 1 - n = i + 1
    OBVIOUS
  <2> QED BY SMTT(30), <1>2, <1>3, <2>1
<1>6. ASSUME NEW k \in n + i + 2 .. n + m + 1 - c
      PROVE  u[k] = k - 2 + c
  <2>1. /\ k \in 1 .. n + m + 1 - c /\ ~(k <= n)
        /\ k - n \in i + 2 .. m + 1 - c /\ n + (k - n) - 2 + c = k - 2 + c
    OBVIOUS
  <2> QED BY <1>2, <1>3, <2>1
<1>7. MarkedAt(u, 0, n + m, n + i, c)
  <2>1. /\ \A k \in 1 .. n + i : u[k] = 0 + k - 1
        /\ \A k \in n + i + 2 .. n + m + 1 - c : u[k] = 0 + k - 2 + c
    BY <1>4, <1>6
  <2> QED BY <1>3, <1>5, <2>1 DEF MarkedAt
<1> QED BY <1>7 DEF u

\* Samples in a row behind a mark.
LEMMA RowOnMark ==
    ASSUME NEW s \in Seq(Int), NEW b \in Seq(Int), NEW n \in Nat,
           NEW m \in Nat, NEW i \in 0 .. n - 1, NEW c \in 0 .. 1,
           MarkedAt(s, 0, n, i, c), InARow(b, n, m)
    PROVE  MarkedAt(s \o b, 0, n + m, i, c)
<1> DEFINE u == s \o b
           l == n + 1 - c
<1>1. /\ Len(b) = m /\ Len(s) = l /\ l \in Nat
      /\ \A k \in 1 .. m : b[k] = n + k - 1
  BY DEF InARow, MarkedAt
<1>2. /\ \A k \in 1 .. i : s[k] = 0 + k - 1
      /\ s[i + 1] = -1
      /\ \A k \in i + 2 .. n + 1 - c : s[k] = 0 + k - 2 + c
  BY DEF MarkedAt
<1>3. /\ Len(u) = n + m + 1 - c
      /\ \A k \in 1 .. n + m + 1 - c : u[k] = IF k <= l THEN s[k] ELSE b[k - l]
  <2>1. /\ Len(u) = Len(s) + Len(b)
        /\ \A k \in 1 .. Len(s) + Len(b) :
              u[k] = IF k <= Len(s) THEN s[k] ELSE b[k - Len(s)]
    BY ConcatProperties
  <2> DEFINE e == n + m + 1 - c
  <2> HIDE DEF u
  <2>2. Len(s) + Len(b) = e /\ Len(s) = l
    BY <1>1
  <2> HIDE DEF e, l
  <2>3. /\ Len(u) = e
        /\ \A k \in 1 .. e : u[k] = IF k <= l THEN s[k] ELSE b[k - l]
    BY <2>1, <2>2
  <2> QED BY <2>3 DEF e
<1> HIDE DEF u
<1>4. \A k \in 1 .. i : u[k] = 0 + k - 1
  <2> SUFFICES ASSUME NEW k \in 1 .. i PROVE u[k] = 0 + k - 1
    OBVIOUS
  <2>1. k \in 1 .. n + m + 1 - c /\ k <= l
    OBVIOUS
  <2> QED BY <1>2, <1>3, <2>1
<1>5. u[i + 1] = -1
  <2>1. i + 1 \in 1 .. n + m + 1 - c /\ i + 1 <= l
    OBVIOUS
  <2> QED BY <1>2, <1>3, <2>1
<1>6. \A k \in i + 2 .. n + m + 1 - c : u[k] = 0 + k - 2 + c
  <2> SUFFICES ASSUME NEW k \in i + 2 .. n + m + 1 - c
               PROVE  u[k] = 0 + k - 2 + c
    OBVIOUS
  <2>1. k \in 1 .. n + m + 1 - c
    OBVIOUS
  <2>2. CASE k <= l
    <3>1. k \in i + 2 .. n + 1 - c
      BY <2>2
    <3> QED BY <1>2, <1>3, <2>1, <2>2, <3>1
  <2>3. CASE ~(k <= l)
    <3>1. k - l \in 1 .. m /\ n + (k - l) - 1 = 0 + k - 2 + c
      BY <2>3
    <3>2. u[k] = b[k - l]
      BY <1>3, <2>1, <2>3
    <3> QED BY <1>1, <3>1, <3>2
  <2> QED BY <2>2, <2>3
<1>7. MarkedAt(u, 0, n + m, i, c)
  BY <1>3, <1>4, <1>5, <1>6 DEF MarkedAt
<1> QED BY <1>7 DEF u

\* What a block of a row is, with a mark in it.
LEMMA SplitRow ==
    ASSUME NEW b \in Seq(Int), NEW n \in Nat, InARow(b, n, BS),
           NEW i \in 0 .. BS - 1
    PROVE  /\ LA8!Split(b, i) \in Seq(Int)
           /\ MarkedAt(LA8!Split(b, i), n, BS, i, IF i < BS - 1 THEN 0 ELSE 1)
<1>1. /\ BS \in Nat \ {0} /\ Len(b) = BS
      /\ \A k \in 1 .. BS : b[k] = n + k - 1
  BY La8Constants DEF InARow
<1> DEFINE p == SubSeq(b, 1, i)
           q == IF i < BS - 1 THEN SubSeq(b, i + 1, BS) ELSE <<>>
           c == IF i < BS - 1 THEN 0 ELSE 1
           l == IF i < BS - 1 THEN BS - i ELSE 0
           mark == <<-1>>
<1>2. p \in Seq(Int) /\ Len(p) = i /\ \A k \in 1 .. i : p[k] = n + k - 1
  <2>1. /\ 1 \in Nat \ {0} /\ i \in Nat /\ i <= Len(b) /\ 1 <= i + 1
        /\ i + 1 - 1 = i /\ \A k \in 1 .. i : 1 + k - 1 = k /\ k \in 1 .. BS
    BY <1>1
  <2> QED BY <1>1, <2>1, PartProperties
<1>3. q \in Seq(Int) /\ Len(q) = l /\ \A k \in 1 .. l : q[k] = n + i + k - 1
  <2>1. CASE i < BS - 1
    <3>1. /\ i + 1 \in Nat \ {0} /\ BS \in Nat /\ BS <= Len(b)
          /\ i + 1 <= BS + 1 /\ BS + 1 - (i + 1) = BS - i
          /\ \A k \in 1 .. BS - i : i + 1 + k - 1 = i + k /\ i + k \in 1 .. BS
                                   /\ n + (i + k) - 1 = n + i + k - 1
      BY <1>1
    <3> HIDE DEF p
    <3>2. SubSeq(b, i + 1, BS) \in Seq(Int) /\ Len(SubSeq(b, i + 1, BS)) = BS - i
          /\ \A k \in 1 .. BS - i : SubSeq(b, i + 1, BS)[k] = b[i + k]
      BY <3>1, PartProperties
    <3> QED BY <1>1, <2>1, <3>1, <3>2
  <2>2. CASE ~(i < BS - 1)
    BY <2>2
  <2> QED BY <2>1, <2>2
<1>4. LA8!Split(b, i) = p \o mark \o q
  BY DEF LA8!Split, LA8!TriggerMark
<1>5. /\ mark \in Seq(Int) /\ Len(mark) = 1 /\ mark[1] = -1
      /\ l \in Nat /\ c \in 0 .. 1 /\ i + 1 + l = BS + 1 - c
      /\ l # 0 => c = 0
  BY <1>1
<1> HIDE DEF p, q, c, l, mark
<1> DEFINE v == p \o mark
           u == v \o q
<1>6. /\ v \in Seq(Int) /\ Len(v) = i + 1
      /\ \A k \in 1 .. i : v[k] = p[k]
      /\ v[i + 1] = mark[1]
  <2>1. /\ v \in Seq(Int) /\ Len(v) = Len(p) + Len(mark)
        /\ \A k \in 1 .. Len(p) : v[k] = p[k]
        /\ \A k \in 1 .. Len(mark) : v[Len(p) + k] = mark[k]
    BY <1>2, <1>5, SentAfter
  <2>2. 1 \in 1 .. 1
    OBVIOUS
  <2> HIDE DEF v
  <2> QED BY <1>2, <1>5, <2>1, <2>2
<1> HIDE DEF v
<1>7. /\ u \in Seq(Int) /\ Len(u) = i + 1 + l
      /\ \A k \in 1 .. i + 1 : u[k] = v[k]
      /\ \A k \in 1 .. l : u[i + 1 + k] = q[k]
  <2>1. /\ u \in Seq(Int) /\ Len(u) = Len(v) + Len(q)
        /\ \A k \in 1 .. Len(v) : u[k] = v[k]
        /\ \A k \in 1 .. Len(q) : u[Len(v) + k] = q[k]
    BY <1>3, <1>6, SentAfter
  <2> HIDE DEF u
  <2> QED BY <1>3, <1>6, <2>1
<1> HIDE DEF u
<1>8. \A k \in 1 .. i : u[k] = n + k - 1
  <2> SUFFICES ASSUME NEW k \in 1 .. i PROVE u[k] = n + k - 1
    OBVIOUS
  <2>1. k \in 1 .. i + 1
    OBVIOUS
  <2> QED BY <1>2, <1>6, <1>7, <2>1
<1>9. u[i + 1] = -1
  <2>1. i + 1 \in 1 .. i + 1
    OBVIOUS
  <2> QED BY <1>5, <1>6, <1>7, <2>1
<1>10. \A k \in i + 2 .. BS + 1 - c : u[k] = n + k - 2 + c
  <2> SUFFICES ASSUME NEW k \in i + 2 .. BS + 1 - c
               PROVE  u[k] = n + k - 2 + c
    OBVIOUS
  <2> DEFINE j == k - i - 1
  <2>1. /\ j \in 1 .. l /\ i + 1 + j = k /\ c = 0
        /\ n + i + j - 1 = n + k - 2 + c
    BY <1>1, <1>5
  <2> HIDE DEF j
  <2> QED BY <1>3, <1>7, <2>1
<1>11. MarkedAt(u, n, BS, i, c)
  BY <1>5, <1>7, <1>8, <1>9, <1>10 DEF MarkedAt
<1> QED BY <1>4, <1>7, <1>11 DEF u, v, c

\* The whole memory: in order, and marked.
LEMMA RowIsAll ==
    ASSUME NEW s \in Seq(Int), NEW n \in Nat, InARow(s, 0, n)
    PROVE  s = [k \in 1 .. n |-> k - 1]
<1> DEFINE r == [k \in 1 .. n |-> k - 1]
<1>1. Len(s) = n /\ \A k \in 1 .. n : s[k] = 0 + k - 1
  BY DEF InARow
<1>2. s = [k \in 1 .. n |-> s[k]]
  BY <1>1, LenProperties
<1>3. \A k \in 1 .. n : s[k] = k - 1
  BY <1>1
<1> QED BY <1>2, <1>3

\* A row with its mark, when it is whole, is what is expected.
LEMMA MarkedIsAll ==
    ASSUME NEW s \in Seq(Int), NEW r \in Seq(Int), NEW n \in Nat,
           InARow(r, 0, n), NEW t \in 0 .. n - 1, NEW c \in 0 .. 1,
           MarkedAt(s, 0, n, t, c)
    PROVE  s = SubSeq(r, 1, t) \o <<-1>> \o SubSeq(r, t + 1 + c, n)
<1> DEFINE p == SubSeq(r, 1, t)
           q == SubSeq(r, t + 1 + c, n)
           l == n - t - c
           mark == <<-1>>
           v == p \o mark
           u == v \o q
<1>1. /\ Len(r) = n /\ \A k \in 1 .. n : r[k] = 0 + k - 1
  BY DEF InARow
<1>2. p \in Seq(Int) /\ Len(p) = t /\ \A k \in 1 .. t : p[k] = k - 1
  <2>1. /\ 1 \in Nat \ {0} /\ t \in Nat /\ t <= Len(r) /\ 1 <= t + 1
        /\ t + 1 - 1 = t
        /\ \A k \in 1 .. t : 1 + k - 1 = k /\ k \in 1 .. n /\ 0 + k - 1 = k - 1
    BY <1>1
  <2> QED BY <1>1, <2>1, PartProperties
<1>3. q \in Seq(Int) /\ Len(q) = l /\ \A k \in 1 .. l : q[k] = t + c + k - 1
  <2> DEFINE a == t + 1 + c
  <2>1. /\ a \in Nat \ {0} /\ n \in Nat /\ n <= Len(r) /\ a <= n + 1
        /\ n + 1 - a = l
        /\ \A k \in 1 .. l : /\ a + k - 1 \in 1 .. n
                            /\ 0 + (a + k - 1) - 1 = t + c + k - 1
    BY <1>1
  <2> HIDE DEF a
  <2>2. /\ SubSeq(r, a, n) \in Seq(Int) /\ Len(SubSeq(r, a, n)) = n + 1 - a
        /\ \A k \in 1 .. n + 1 - a : SubSeq(r, a, n)[k] = r[a + k - 1]
    BY <2>1, PartProperties
  <2>3. \A k \in 1 .. l : SubSeq(r, a, n)[k] = t + c + k - 1
    BY <1>1, <2>1, <2>2
  <2> QED BY <2>1, <2>2, <2>3 DEF a
<1>4. /\ mark \in Seq(Int) /\ Len(mark) = 1 /\ mark[1] = -1 /\ l \in Nat
      /\ t + 1 + l = n + 1 - c
  OBVIOUS
<1> HIDE DEF p, q, l, mark
<1>5. /\ v \in Seq(Int) /\ Len(v) = t + 1
      /\ \A k \in 1 .. t : v[k] = p[k]
      /\ v[t + 1] = mark[1]
  <2>1. /\ v \in Seq(Int) /\ Len(v) = Len(p) + Len(mark)
        /\ \A k \in 1 .. Len(p) : v[k] = p[k]
        /\ \A k \in 1 .. Len(mark) : v[Len(p) + k] = mark[k]
    BY <1>2, <1>4, SentAfter
  <2>2. 1 \in 1 .. 1
    OBVIOUS
  <2> HIDE DEF v
  <2> QED BY <1>2, <1>4, <2>1, <2>2
<1> HIDE DEF v
<1>6. /\ u \in Seq(Int) /\ Len(u) = t + 1 + l
      /\ \A k \in 1 .. t + 1 : u[k] = v[k]
      /\ \A k \in 1 .. l : u[t + 1 + k] = q[k]
  <2>1. /\ u \in Seq(Int) /\ Len(u) = Len(v) + Len(q)
        /\ \A k \in 1 .. Len(v) : u[k] = v[k]
        /\ \A k \in 1 .. Len(q) : u[Len(v) + k] = q[k]
    BY <1>3, <1>5, SentAfter
  <2> HIDE DEF u
  <2> QED BY <1>3, <1>5, <2>1
<1> HIDE DEF u
<1>7. /\ Len(s) = n + 1 - c
      /\ \A k \in 1 .. t : s[k] = 0 + k - 1
      /\ s[t + 1] = -1
      /\ \A k \in t + 2 .. n + 1 - c : s[k] = 0 + k - 2 + c
  BY DEF MarkedAt
<1>8. \A k \in 1 .. n + 1 - c : s[k] = u[k]
  <2> SUFFICES ASSUME NEW k \in 1 .. n + 1 - c PROVE s[k] = u[k]
    OBVIOUS
  <2>1. CASE k <= t
    <3>1. k \in 1 .. t /\ k \in 1 .. t + 1
      BY <2>1
    <3>2. s[k] = k - 1
      BY <1>7, <3>1
    <3>3. u[k] = p[k] /\ p[k] = k - 1
      BY <1>2, <1>5, <1>6, <3>1
    <3> QED BY <3>2, <3>3
  <2>2. CASE k = t + 1
    <3>1. t + 1 \in 1 .. t + 1
      OBVIOUS
    <3> QED BY <1>4, <1>5, <1>6, <1>7, <2>2, <3>1
  <2>3. CASE k > t + 1
    <3> DEFINE j == k - t - 1
    <3>1. /\ j \in 1 .. l /\ t + 1 + j = k /\ k \in t + 2 .. n + 1 - c
          /\ t + c + j - 1 = 0 + k - 2 + c
      BY <1>4, <2>3
    <3> HIDE DEF j
    <3> QED BY <1>3, <1>6, <1>7, <3>1
  <2> QED BY <2>1, <2>2, <2>3
<1>9. s = u
  <2>1. Len(s) = Len(u)
    BY <1>4, <1>6, <1>7
  <2>2. \A k \in 1 .. Len(s) : s[k] = u[k]
    BY <1>7, <1>8
  <2> QED BY <1>6, <2>1, <2>2, SeqEqual
<1> QED BY <1>9 DEF u, v, p, q, mark

-----------------------------------------------------------------------------
(* chronovu-la8: the invariant holds at the start and is kept *)

\* The invariant holds at the start.
LEMMA La8Begins == LA8!Init => La8Inv
<1> SUFFICES ASSUME LA8!Init PROVE La8Inv
  OBVIOUS
<1> DEFINE b == [i \in LA8!Times |-> -9]
<1>1. /\ pc = "idle" /\ running = FALSE /\ phase = "idle" /\ sent = <<>>
      /\ ctx = [divcount |-> 0, block_counter |-> 0, blocks_sent |-> 0,
                trigger_found |-> FALSE, final_buf |-> b]
      /\ device = [trigger |-> -1, failed |-> FALSE]
  BY DEF LA8!Init, LA8!AcqInit
<1>2. La8Types
  <2>1. /\ 0 \in 0 .. NUM_BLOCKS - 1 /\ 0 \in 0 .. NUM_BLOCKS
        /\ 0 \in 0 .. 1
    BY La8Constants
  <2>2. b \in [LA8!Times -> Int]
    OBVIOUS
  <2> HIDE DEF b
  <2> QED BY <1>1, <2>1, <2>2 DEF La8Types, LA8!AcqTypeOK
<1>3. La8Told
  BY <1>1 DEF La8Told, ToldBeforeLoop
<1>4. La8InPlace
  <2>1. \A i \in LA8!Times : ~(LA8!Address(i, 0) < 0 * BS)
    <3> SUFFICES ASSUME NEW i \in LA8!Times PROVE ~(LA8!Address(i, 0) < 0 * BS)
      OBVIOUS
    <3>1. LA8!Address(i, 0) \in 0 .. LA8!SdramSize - 1
      BY La8AddressType
    <3> QED BY <3>1, La8Constants
  <2> QED BY <1>1, <2>1 DEF La8InPlace
<1>5. La8Sending /\ LA8!SentInOrder
  BY <1>1 DEF La8Sending, LA8!SentInOrder
<1> QED BY <1>2, <1>3, <1>4, <1>5 DEF La8Inv

\* What is done before the memory is read, and a client that stops.
LEMMA La8Quiet ==
    ASSUME La8Inv,
           \/ LA8!StartFails \/ LA8!Session \/ LA8!ReadFails
           \/ LA8!StoppedByClient \/ LA8!StopsAtHeader
    PROVE  La8Inv'
<1> USE DEF La8Inv
<1>1. CASE LA8!StartFails
  BY <1>1 DEF LA8!StartFails, La8Types, LA8!AcqTypeOK, La8Told,
              ToldBeforeLoop, La8InPlace, La8Sending, LA8!SentInOrder
<1>2. CASE LA8!Session
  <2>1. La8Types' /\ La8Told'
    BY <1>2 DEF LA8!Session, LA8!SendHeader, LA8!SendMeta, LA8!Run,
                LA8!Leave, La8Types, LA8!AcqTypeOK, La8Told, ToldBeforeLoop
  <2>2. La8InPlace' /\ La8Sending'
    BY <1>2 DEF LA8!Session, LA8!SendHeader, LA8!SendMeta, LA8!Run,
                LA8!Leave, La8InPlace, La8Sending
  <2>3. LA8!SentInOrder'
    BY <1>2 DEF LA8!Session, LA8!SendHeader, LA8!SendMeta, LA8!Run,
                LA8!Leave, LA8!SentInOrder, LA8!Expected
  <2> QED BY <2>1, <2>2, <2>3
<1>3. CASE LA8!ReadFails \/ LA8!StoppedByClient \/ LA8!StopsAtHeader
  <2>1. /\ sent' = sent \o <<>> /\ phase' = "endless" /\ running' = FALSE
        /\ pc' = "crashed" /\ ctx' = ctx
        /\ device' = [device EXCEPT !.failed = TRUE]
    BY <1>3 DEF LA8!ReadFails, LA8!StopsEarly, LA8!SendsEnd,
                LA8!StoppedByClient, LA8!StopsAtHeader
  <2>2. sent' = sent
    BY <2>1, NothingSent DEF La8Told, ToldBeforeLoop
  <2>3. device'.failed = TRUE
    BY <2>1 DEF La8Types
  <2>4. La8Types'
    BY <2>1 DEF La8Types, LA8!AcqTypeOK
  <2>5. La8Told'
    BY <2>1, <2>2, <2>3 DEF La8Told, ToldBeforeLoop
  <2>6. La8InPlace'
    BY <2>1 DEF La8InPlace
  <2>7. La8Sending' /\ LA8!SentInOrder'
    BY <2>3 DEF La8Sending, LA8!SentInOrder
  <2> QED BY <2>4, <2>5, <2>6, <2>7
<1> QED BY <1>1, <1>2, <1>3

\* The device is started, with any trigger and rate.
LEMMA La8Starts ==
    ASSUME La8Inv, NEW divcount \in 0 .. 1,
           NEW trigger \in LA8!Times \cup {-1}, LA8!Start(divcount, trigger)
    PROVE  La8Inv'
<1>1. /\ pc = "idle" /\ pc' = "header" /\ running' = running
      /\ phase' = phase /\ sent' = sent
      /\ ctx' = [ctx EXCEPT !.divcount = divcount, !.block_counter = 0,
                            !.trigger_found = FALSE]
      /\ device' = [device EXCEPT !.trigger = trigger]
  BY DEF LA8!Start, LA8!Starts
<1>2. 0 \in 0 .. NUM_BLOCKS - 1
  BY La8Constants
<1> DEFINE F == [LA8!Times -> Int]
<1>3. ctx \in [divcount : 0 .. 1, block_counter : 0 .. NUM_BLOCKS - 1,
               blocks_sent : 0 .. NUM_BLOCKS, trigger_found : BOOLEAN,
               final_buf : F]
  BY DEF La8Inv, La8Types
<1> HIDE DEF F
<1>4. /\ ctx' \in [divcount : 0 .. 1, block_counter : 0 .. NUM_BLOCKS - 1,
               blocks_sent : 0 .. NUM_BLOCKS, trigger_found : BOOLEAN,
               final_buf : F]
      /\ ctx'.divcount = divcount /\ ctx'.block_counter = 0
      /\ ctx'.trigger_found = FALSE /\ ctx'.blocks_sent = ctx.blocks_sent
  BY ONLY <1>1, <1>2, <1>3, divcount \in 0 .. 1
<1>5. /\ device' \in [trigger : LA8!Times \cup {-1}, failed : BOOLEAN]
      /\ device'.failed = device.failed
  BY <1>1 DEF La8Inv, La8Types
<1>6. La8Types'
  BY <1>1, <1>4, <1>5 DEF La8Inv, La8Types, LA8!AcqTypeOK, F
<1>7. La8Told'
  BY <1>1, <1>4 DEF La8Inv, La8Told, ToldBeforeLoop
<1>8. La8InPlace'
  <2>1. \A i \in LA8!Times : ~(LA8!Address(i, divcount) < 0 * BS)
    <3> SUFFICES ASSUME NEW i \in LA8!Times
                 PROVE  ~(LA8!Address(i, divcount) < 0 * BS)
      OBVIOUS
    <3>1. LA8!Address(i, divcount) \in 0 .. LA8!SdramSize - 1
      BY La8AddressType
    <3> QED BY <3>1, La8Constants
  <2> QED BY <1>1, <1>4, <2>1 DEF La8InPlace
<1>9. La8Sending' /\ LA8!SentInOrder'
  BY <1>1 DEF La8Sending, LA8!SentInOrder, La8Inv, La8Told, ToldBeforeLoop
<1> QED BY <1>6, <1>7, <1>8, <1>9 DEF La8Inv

-----------------------------------------------------------------------------
(* chronovu-la8: blocks *)

\* The first byte of a block, and of the next.
LEMMA La8Blocks ==
    ASSUME NEW b \in 0 .. NUM_BLOCKS - 1
    PROVE  /\ b * BS \in Nat /\ (b + 1) * BS = b * BS + BS
           /\ b * BS + BS <= LA8!SdramSize
           /\ b = NUM_BLOCKS - 1 => b * BS + BS = LA8!SdramSize
<1>1. /\ b \in Int /\ b + 1 \in Int /\ NUM_BLOCKS \in Int
      /\ b + 1 <= NUM_BLOCKS /\ BS \in Nat \ {0} /\ b \in Nat
      /\ LA8!SdramSize = NUM_BLOCKS * BS
  BY La8Constants
<1>2. (b + 1) * BS = b * BS + BS
  BY <1>1, Transfers
<1>3. (b + 1) * BS <= NUM_BLOCKS * BS
  BY <1>1, Transfers
<1>4. b * BS \in Nat
  BY <1>1
<1>5. b = NUM_BLOCKS - 1 => b + 1 = NUM_BLOCKS
  BY <1>1
<1> QED BY <1>1, <1>2, <1>3, <1>4, <1>5

\* A block puts its samples to their times, and leaves the others alone.
LEMMA La8FinalBuf ==
    ASSUME La8Types
    PROVE  /\ LA8!FinalBuf \in [LA8!Times -> Int]
           /\ \A i \in LA8!Times : LA8!FinalBuf[i] =
                 IF LA8!Address(i, ctx.divcount) \in ctx.block_counter * BS ..
                        ctx.block_counter * BS + BS - 1
                 THEN i ELSE ctx.final_buf[i]
<1> DEFINE d == ctx.divcount
           first == ctx.block_counter * BS
           At(i) == {k \in first .. first + BS - 1 : LA8!Index(k) = i}
           new(i) == IF At(i) = {} THEN ctx.final_buf[i]
                     ELSE LA8!StoredAt(
                         CHOOSE k \in At(i) : \A j \in At(i) : j <= k, d)
           S == LA8!SdramSize
<1>1. /\ d \in 0 .. 1 /\ first \in Nat /\ first + BS <= S
      /\ ctx.final_buf \in [LA8!Times -> Int] /\ S \in Nat
  BY La8Blocks, La8Constants DEF La8Types
<1>2. LA8!FinalBuf = [i \in LA8!Times |-> new(i)]
  BY DEF LA8!FinalBuf
<1> HIDE DEF first, S
<1>3. ASSUME NEW i \in LA8!Times
      PROVE  new(i) = IF LA8!Address(i, d) \in first .. first + BS - 1
                      THEN i ELSE ctx.final_buf[i]
  <2> DEFINE a == LA8!Address(i, d)
  <2>1. a \in 0 .. S - 1 /\ LA8!Index(a) = i
    BY <1>1, La8Inverse DEF S
  <2>2. \A k \in first .. first + BS - 1 : LA8!Index(k) = i <=> k = a
    <3>1. \A k \in first .. first + BS - 1 : k \in 0 .. S - 1
      BY <1>1, La8Constants
    <3>2. \A k \in 0 .. S - 1 : LA8!Address(LA8!Index(k), d) = k
      BY <1>1, La8Inverse DEF S
    <3> QED BY <2>1, <3>1, <3>2
  <2>3. CASE a \in first .. first + BS - 1
    <3>1. At(i) = {a}
      BY <2>2, <2>3
    <3>2. new(i) = LA8!StoredAt(CHOOSE k \in {a} : \A j \in {a} : j <= k, d)
      BY <3>1
    <3>3. a <= a
      BY <2>1
    <3> HIDE DEF a, new
    <3>4. (CHOOSE k \in {a} : \A j \in {a} : j <= k) = a
      BY <3>3
    <3>5. new(i) = LA8!StoredAt(a, d)
      BY <3>2, <3>4
    <3>6. LA8!StoredAt(a, d) = i
      <4>1. \A t \in LA8!Times : LA8!Address(t, d) = a <=> t = i
        <5>1. \A t \in LA8!Times : LA8!Index(LA8!Address(t, d)) = t
          BY <1>1, La8Inverse
        <5> QED BY <2>1, <5>1 DEF a
      <4>2. LA8!StoredAt(a, d)
                = CHOOSE t \in LA8!Times : LA8!Address(t, d) = a
        BY DEF LA8!StoredAt
      <4> QED BY <4>1, <4>2
    <3> QED BY <2>3, <3>5, <3>6 DEF a
  <2>4. CASE a \notin first .. first + BS - 1
    <3>1. At(i) = {}
      BY <2>2, <2>4
    <3> QED BY <2>4, <3>1
  <2> QED BY <2>3, <2>4
<1> HIDE DEF new
<1>4. \A i \in LA8!Times : LA8!FinalBuf[i] =
          IF LA8!Address(i, d) \in first .. first + BS - 1
          THEN i ELSE ctx.final_buf[i]
  BY <1>2, <1>3
<1>5. \A i \in LA8!Times : LA8!FinalBuf[i] \in Int
  <2>1. \A i \in LA8!Times : i \in Int
    BY DEF LA8!Times
  <2> QED BY <1>1, <1>4, <2>1
<1> QED BY <1>2, <1>4, <1>5 DEF first

\* The context with a new buffer.
LEMMA La8Reads ==
    ASSUME La8Inv, LA8!ReadBlock \/ LA8!ReadLastBlock
    PROVE  La8Inv'
<1> DEFINE f == LA8!FinalBuf
           n == ctx.block_counter
           d == ctx.divcount
           F == [LA8!Times -> Int]
<1>1. /\ f \in F /\ d \in 0 .. 1 /\ n \in 0 .. NUM_BLOCKS - 1
      /\ ctx \in [divcount : 0 .. 1, block_counter : 0 .. NUM_BLOCKS - 1,
                  blocks_sent : 0 .. NUM_BLOCKS, trigger_found : BOOLEAN,
                  final_buf : F]
  BY La8FinalBuf DEF La8Inv, La8Types
<1>2. /\ n * BS \in Nat /\ (n + 1) * BS = n * BS + BS
      /\ n * BS + BS <= LA8!SdramSize
      /\ n = NUM_BLOCKS - 1 => n * BS + BS = LA8!SdramSize
  BY <1>1, La8Blocks
<1>3. \A i \in LA8!Times : f[i] =
          IF LA8!Address(i, d) \in n * BS .. n * BS + BS - 1
          THEN i ELSE ctx.final_buf[i]
  BY La8FinalBuf DEF La8Inv
<1> DEFINE first == n * BS
<1>4. \A i \in LA8!Times :
          LA8!Address(i, d) \in 0 .. LA8!SdramSize - 1
  BY <1>1, La8AddressType
<1>5. /\ \A i \in LA8!Times : LA8!Address(i, d) < n * BS => ctx.final_buf[i] = i
  BY DEF La8Inv, La8InPlace
<1>6. \A i \in LA8!Times : LA8!Address(i, d) < n * BS + BS => f[i] = i
  <2> SUFFICES ASSUME NEW i \in LA8!Times,
                      LA8!Address(i, d) < n * BS + BS
               PROVE  f[i] = i
    OBVIOUS
  <2> DEFINE a == LA8!Address(i, d)
  <2>1. /\ a \in Int /\ first \in Nat /\ a < first + BS /\ BS \in Nat
        /\ f[i] = IF a \in first .. first + BS - 1 THEN i ELSE ctx.final_buf[i]
        /\ a < first => ctx.final_buf[i] = i
    BY <1>2, <1>3, <1>4, <1>5, La8Constants
  <2> HIDE DEF a, first, f
  <2>2. a \in first .. first + BS - 1 \/ a < first
    BY <2>1
  <2> QED BY <2>1, <2>2
<1>7. /\ pc = "poll" /\ running /\ ~device.failed
      /\ phase' = phase /\ running' = running /\ sent' = sent
      /\ device' = device
  BY DEF LA8!ReadBlock, LA8!ReadLastBlock, LA8!Call, LA8!Called,
         LA8!SendsNothing
<1> HIDE DEF f, n, d, F, first
<1>8. CASE LA8!ReadBlock
  <2>1. /\ n # NUM_BLOCKS - 1 /\ pc' = pc
        /\ ctx' = [ctx EXCEPT !.final_buf = f, !.block_counter = n + 1]
    BY <1>8 DEF LA8!ReadBlock, f, n
  <2>2. n + 1 \in 0 .. NUM_BLOCKS - 1
    BY <1>1, <2>1, La8Constants
  <2>3. /\ ctx' \in [divcount : 0 .. 1, block_counter : 0 .. NUM_BLOCKS - 1,
                  blocks_sent : 0 .. NUM_BLOCKS, trigger_found : BOOLEAN,
                  final_buf : F]
        /\ ctx'.divcount = d /\ ctx'.block_counter = n + 1
        /\ ctx'.final_buf = f /\ ctx'.blocks_sent = ctx.blocks_sent
        /\ ctx'.trigger_found = ctx.trigger_found
    BY ONLY <1>1, <2>1, <2>2 DEF d
  <2>4. La8Types'
    BY <1>7, <2>1, <2>3 DEF La8Inv, La8Types, LA8!AcqTypeOK, F
  <2>5. La8Told'
    BY <1>7, <2>1, <2>3 DEF La8Inv, La8Told, ToldBeforeLoop
  <2>6. La8InPlace'
    BY <1>2, <1>6, <1>7, <2>1, <2>3 DEF La8InPlace
  <2>7. La8Sending' /\ LA8!SentInOrder'
    BY <1>7, <2>1 DEF La8Inv, La8Told, La8Sending, LA8!SentInOrder
  <2> QED BY <2>4, <2>5, <2>6, <2>7 DEF La8Inv
<1>9. CASE LA8!ReadLastBlock
  <2>1. /\ n = NUM_BLOCKS - 1 /\ pc' = "callback"
        /\ ctx' = [ctx EXCEPT !.final_buf = f]
    BY <1>9 DEF LA8!ReadLastBlock, f, n
  <2>3. /\ ctx' \in [divcount : 0 .. 1, block_counter : 0 .. NUM_BLOCKS - 1,
                  blocks_sent : 0 .. NUM_BLOCKS, trigger_found : BOOLEAN,
                  final_buf : F]
        /\ ctx'.divcount = d /\ ctx'.block_counter = n
        /\ ctx'.final_buf = f /\ ctx'.blocks_sent = ctx.blocks_sent
        /\ ctx'.trigger_found = ctx.trigger_found
    BY ONLY <1>1, <2>1 DEF d, n
  <2>4. La8Types'
    BY <1>7, <2>1, <2>3 DEF La8Inv, La8Types, LA8!AcqTypeOK, F
  <2>5. phase = "open" /\ sent = <<>> /\ ctx.blocks_sent = 0
        /\ ctx.trigger_found = FALSE
    BY <1>7 DEF La8Inv, La8Told
  <2>6. La8Told'
    BY <1>7, <2>1, <2>3, <2>5 DEF La8Inv, La8Told, ToldBeforeLoop
  <2>7. \A i \in LA8!Times : f[i] = i
    <3> SUFFICES ASSUME NEW i \in LA8!Times PROVE f[i] = i
      OBVIOUS
    <3>1. LA8!Address(i, d) < n * BS + BS
      BY <1>2, <1>4, <2>1, La8Constants
    <3> QED BY <1>6, <3>1
  <2>8. La8InPlace'
    BY <2>1, <2>3, <2>7 DEF La8InPlace
  <2>9. La8Sending'
    <3>1. 0 * BS = 0 /\ 0 .. 0 - 1 = {}
      BY La8Constants
    <3>2. InARow(<<>>, 0, 0)
      BY DEF InARow
    <3>3. Marked(<<>>, 0, device.trigger)
      BY <3>1, <3>2 DEF Marked
    <3> QED BY <1>7, <2>3, <2>5, <3>1, <3>3 DEF La8Sending
  <2>10. LA8!SentInOrder'
    BY <1>7, <2>5 DEF LA8!SentInOrder
  <2> QED BY <2>4, <2>6, <2>8, <2>9, <2>10 DEF La8Inv
<1> QED BY <1>8, <1>9

\* Whatever was read, a block of it is sent.
LEMMA SplitType ==
    ASSUME NEW b \in Seq(Int), Len(b) = BS, NEW i \in 0 .. BS - 1
    PROVE  LA8!Split(b, i) \in Seq(Int)
<1> DEFINE p == SubSeq(b, 1, i)
           q == IF i < BS - 1 THEN SubSeq(b, i + 1, BS) ELSE <<>>
           mark == <<LA8!TriggerMark>>
<1>1. BS \in Nat \ {0}
  BY La8Constants
<1>2. p \in Seq(Int)
  <2>1. 1 \in Nat \ {0} /\ i \in Nat /\ i <= Len(b) /\ 1 <= i + 1
    BY <1>1
  <2> QED BY <2>1, PartProperties
<1>3. q \in Seq(Int)
  <2>1. CASE i < BS - 1
    <3> DEFINE a == i + 1
    <3>1. a \in Nat \ {0} /\ BS \in Nat /\ BS <= Len(b) /\ a <= BS + 1
      BY <1>1
    <3> HIDE DEF a
    <3>2. SubSeq(b, a, BS) \in Seq(Int)
      BY <3>1, PartProperties
    <3> QED BY <2>1, <3>2 DEF a
  <2>2. CASE ~(i < BS - 1)
    BY <2>2
  <2> QED BY <2>1, <2>2
<1>4. mark \in Seq(Int)
  BY DEF LA8!TriggerMark
<1>5. LA8!Split(b, i) = p \o mark \o q
  BY DEF LA8!Split
<1> HIDE DEF p, q, mark
<1>6. p \o mark \o q \in Seq(Int)
  BY <1>2, <1>3, <1>4
<1> QED BY <1>5, <1>6

\* A block, cut by its mark or not, is a sequence.
LEMMA La8BlockType ==
    ASSUME La8Types, NEW b \in 0 .. NUM_BLOCKS - 1
    PROVE  /\ LA8!Block(b) \in Seq(Int) /\ Len(LA8!Block(b)) = BS
           /\ LA8!BlockSent(b) \in Seq(Int)
<1> DEFINE n == b * BS
           s == LA8!Block(b)
           P == LA8!TriggerPoint(b)
<1>1. n \in Nat /\ n + BS <= LA8!SdramSize /\ BS \in Nat \ {0}
      /\ LA8!SdramSize \in Nat
  BY La8Blocks, La8Constants
<1>2. s = [i \in 1 .. BS |-> ctx.final_buf[n + i - 1]]
  BY DEF LA8!Block
<1> HIDE DEF n, s, P
<1>3. \A i \in 1 .. BS : n + i - 1 \in LA8!Times
  BY <1>1 DEF LA8!Times
<1>4. \A i \in 1 .. BS : ctx.final_buf[n + i - 1] \in Int
  BY <1>3 DEF La8Types
<1>5. s \in Seq(Int) /\ Len(s) = BS
  BY <1>1, <1>2, <1>4
<1>6. P \subseteq 0 .. BS - 1
  BY DEF LA8!TriggerPoint, P
<1>7. LA8!BlockSent(b) \in Seq(Int)
  <2>1. CASE P = {}
    BY <1>5, <2>1 DEF LA8!BlockSent, P, s
  <2>2. CASE P # {}
    <3> DEFINE i == CHOOSE i \in P : TRUE
    <3>1. i \in 0 .. BS - 1
      BY <1>6, <2>2
    <3>2. LA8!BlockSent(b) = LA8!Split(s, i)
      BY <2>2 DEF LA8!BlockSent, P, s
    <3> HIDE DEF i
    <3> QED BY <1>5, <3>1, <3>2, SplitType
  <2> QED BY <2>1, <2>2
<1> QED BY <1>5, <1>7 DEF s

\* Whether a mark drops a sample depends on its place in the block.
LEMMA DroppedAt ==
    ASSUME NEW b \in Nat, NEW i \in 0 .. BS - 1, NEW t, t = b * BS + i
    PROVE  Dropped(t) = IF i < BS - 1 THEN 0 ELSE 1
<1>1. BS \in Nat \ {0}
  BY La8Constants
<1>2. t % BS = i
  BY <1>1, Division
<1> QED BY <1>1, <1>2 DEF Dropped

\* The samples behind the mark, when it is in the block.
LEMMA MarkedHere ==
    ASSUME NEW b \in Nat, NEW n \in Nat, n = b * BS, NEW t \in n .. n + BS - 1,
           NEW s \in Seq(Int), Marked(s, n, t),
           NEW r \in Seq(Int), InARow(r, n, BS)
    PROVE  Marked(s \o LA8!Split(r, t - n), n + BS, t)
<1> DEFINE i == t - n
           N == n + BS
           c == IF i < BS - 1 THEN 0 ELSE 1
           S == LA8!Split(r, i)
<1>1. /\ BS \in Nat \ {0} /\ N \in Nat /\ i \in 0 .. BS - 1
      /\ t \notin 0 .. n - 1 /\ n + i = t /\ t \in 0 .. N - 1 /\ c \in 0 .. 1
  BY SMTT(30), La8Constants
<1>2. InARow(s, 0, n)
  BY <1>1 DEF Marked
<1>3. Dropped(t) = c
  <2>1. t = b * BS + i
    BY <1>1
  <2> HIDE DEF i
  <2> QED BY <1>1, <2>1, DroppedAt
<1> HIDE DEF i
<1>4. S \in Seq(Int) /\ MarkedAt(S, n, BS, i, c)
  BY <1>1, SplitRow
<1> HIDE DEF c, S
<1>5. MarkedAt(s \o S, 0, n + BS, n + i, c)
  BY <1>1, <1>2, <1>4, MarkOnRow
<1> DEFINE u == s \o S
<1> HIDE DEF u
<1>6. MarkedAt(u, 0, N, t, Dropped(t))
  BY <1>1, <1>3, <1>5 DEF u
<1> HIDE DEF N
<1>7. Marked(u, N, t)
  BY ONLY <1>1, <1>6 DEF Marked
<1> QED BY <1>7 DEF u, N, S, i

\* The samples without it, when it is in another.
LEMMA MarkedElsewhere ==
    ASSUME NEW n \in Nat, NEW t \in Int, t \notin n .. n + BS - 1,
           NEW s \in Seq(Int), Marked(s, n, t),
           NEW r \in Seq(Int), InARow(r, n, BS)
    PROVE  Marked(s \o r, n + BS, t)
<1> DEFINE N == n + BS
           u == s \o r
<1>1. BS \in Nat \ {0} /\ N \in Nat
  BY La8Constants
<1>2. CASE t \in 0 .. n - 1
  <2>1. MarkedAt(s, 0, n, t, Dropped(t)) /\ Dropped(t) \in 0 .. 1
    BY <1>2 DEF Marked, Dropped
  <2> DEFINE c == Dropped(t)
  <2> HIDE DEF c
  <2>2. MarkedAt(s, 0, n, t, c) /\ c \in 0 .. 1
    BY <2>1 DEF c
  <2>3. MarkedAt(u, 0, N, t, c)
    BY <1>1, <1>2, <2>2, RowOnMark
  <2>4. t \in 0 .. N - 1
    BY <1>1, <1>2
  <2> HIDE DEF u, N
  <2>5. Marked(u, N, t)
    BY ONLY <2>3, <2>4 DEF Marked, c
  <2> QED BY <2>5 DEF u, N
<1>3. CASE t \notin 0 .. n - 1
  <2>1. t \notin 0 .. N - 1
    BY <1>1, <1>3
  <2>2. InARow(s, 0, n)
    BY <1>3 DEF Marked
  <2>3. InARow(r, 0 + n, BS)
    <3>1. 0 + n = n
      OBVIOUS
    <3> QED BY <3>1
  <2>4. 0 \in Int /\ BS \in Nat
    BY <1>1
  <2>5. InARow(u, 0, N)
    BY <2>2, <2>3, <2>4, MoreInARow
  <2> HIDE DEF u, N
  <2>6. Marked(u, N, t)
    BY ONLY <2>1, <2>5 DEF Marked
  <2> QED BY <2>6 DEF u, N
<1> QED BY <1>2, <1>3

\* A block of the memory, when every sample is in its place.
LEMMA La8BlockOf ==
    ASSUME La8Types, NEW b \in 0 .. NUM_BLOCKS - 1,
           \A i \in LA8!Times : ctx.final_buf[i] = i
    PROVE  /\ InARow(LA8!Block(b), b * BS, BS)
           /\ LA8!TriggerPoint(b) =
                 {i \in 0 .. BS - 1 :
                     ~ctx.trigger_found /\ b * BS + i = device.trigger}
<1> DEFINE n == b * BS
           s == LA8!Block(b)
<1>1. n \in Nat /\ n + BS <= LA8!SdramSize /\ BS \in Nat \ {0}
      /\ LA8!SdramSize \in Nat
  BY La8Blocks, La8Constants
<1>2. s = [i \in 1 .. BS |-> ctx.final_buf[n + i - 1]]
  BY DEF LA8!Block
<1>3. LA8!TriggerPoint(b) = {i \in 0 .. BS - 1 :
          ~ctx.trigger_found /\ ctx.final_buf[n + i] = device.trigger}
  BY DEF LA8!TriggerPoint
<1>4. Len(s) = BS
  BY La8BlockType
<1> HIDE DEF n, s
<1>5. /\ \A i \in 1 .. BS : n + i - 1 \in LA8!Times
      /\ \A i \in 0 .. BS - 1 : n + i \in LA8!Times
  BY <1>1 DEF LA8!Times
<1>6. \A i \in 1 .. BS : s[i] = n + i - 1
  BY <1>2, <1>5
<1>7. \A i \in 0 .. BS - 1 : ctx.final_buf[n + i] = n + i
  BY <1>5
<1>8. InARow(s, n, BS)
  BY ONLY <1>4, <1>6 DEF InARow
<1>9. LA8!TriggerPoint(b) = {i \in 0 .. BS - 1 :
          ~ctx.trigger_found /\ n + i = device.trigger}
  BY <1>3, <1>7
<1> QED BY <1>8, <1>9 DEF n, s

\* One more block is sent.
LEMMA MarkedMore ==
    ASSUME La8Types, NEW b \in 0 .. NUM_BLOCKS - 1,
           \A i \in LA8!Times : ctx.final_buf[i] = i,
           NEW s \in Seq(Int), Marked(s, b * BS, device.trigger),
           ctx.trigger_found = (device.trigger \in 0 .. b * BS - 1)
    PROVE  /\ Marked(s \o LA8!BlockSent(b), b * BS + BS, device.trigger)
           /\ (ctx.trigger_found \/ LA8!TriggerPoint(b) # {})
                  = (device.trigger \in 0 .. b * BS + BS - 1)
<1> DEFINE n == b * BS
           t == device.trigger
           P == LA8!TriggerPoint(b)
           r == LA8!Block(b)
           found == ctx.trigger_found
<1>1. n \in Nat /\ BS \in Nat \ {0} /\ t \in Int /\ b \in Nat
  <2>1. \A i \in LA8!Times : i \in Int
    BY DEF LA8!Times
  <2> QED BY <2>1, La8Blocks, La8Constants DEF La8Types
<1>2. /\ r \in Seq(Int) /\ InARow(r, n, BS)
      /\ P = {i \in 0 .. BS - 1 : ~found /\ n + i = t}
  BY La8BlockType, La8BlockOf
<1>3. LA8!BlockSent(b) =
          IF P = {} THEN r ELSE LA8!Split(r, CHOOSE i \in P : TRUE)
  BY DEF LA8!BlockSent
<1>4. n = b * BS
  OBVIOUS
<1> HIDE DEF n, t, P, r, found
<1>5. Marked(s, n, t) /\ found = (t \in 0 .. n - 1)
  BY DEF n, t, found
<1>6. /\ Marked(s \o LA8!BlockSent(b), n + BS, t)
      /\ (found \/ P # {}) <=> (t \in 0 .. n + BS - 1)
  <2>1. CASE t \in n .. n + BS - 1
    <3> DEFINE i == t - n
    <3>1. /\ i \in 0 .. BS - 1 /\ ~found /\ n + i = t
          /\ t \in 0 .. n + BS - 1
      <4>1. /\ i \in 0 .. BS - 1 /\ n + i = t /\ t \in 0 .. n + BS - 1
            /\ ~(t \in 0 .. n - 1)
        BY <1>1, <2>1
      <4>2. ~found
        BY <1>5, <4>1, Zenon
      <4> QED BY <4>1, <4>2
    <3>2. \A j \in 0 .. BS - 1 : n + j = t <=> j = i
      BY <1>1, <2>1
    <3>3. Marked(s \o LA8!Split(r, i), n + BS, t)
      BY <1>1, <1>2, <1>4, <1>5, <2>1, MarkedHere
    <3> HIDE DEF i
    <3>4. P = {i}
      BY <1>2, <3>1, <3>2
    <3>5. LA8!BlockSent(b) = LA8!Split(r, i)
      <4>1. (CHOOSE j \in {i} : TRUE) = i
        OBVIOUS
      <4>2. LA8!BlockSent(b) = LA8!Split(r, CHOOSE j \in {i} : TRUE)
        BY <1>3, <3>4
      <4> QED BY <4>1, <4>2
    <3> QED BY <3>1, <3>3, <3>4, <3>5
  <2>2. CASE t \notin n .. n + BS - 1
    <3>1. P = {}
      <4>1. \A i \in 0 .. BS - 1 : n + i # t
        BY <1>1, <2>2
      <4> QED BY <1>2, <4>1
    <3>2. LA8!BlockSent(b) = r
      BY <1>3, <3>1
    <3>3. Marked(s \o r, n + BS, t)
      BY <1>1, <1>2, <1>5, <2>2, MarkedElsewhere
    <3>4. found <=> t \in 0 .. n + BS - 1
      <4>1. t \in 0 .. n - 1 <=> t \in 0 .. n + BS - 1
        BY <1>1, <2>2
      <4> QED BY <1>5, <4>1, Zenon
    <3> QED BY <3>1, <3>2, <3>3, <3>4
  <2> QED BY <2>1, <2>2
<1>7. found \in BOOLEAN
  BY DEF La8Types, found
<1>8. (found \/ P # {}) = (t \in 0 .. n + BS - 1)
  <2>1. CASE t \in 0 .. n + BS - 1
    BY <1>6, <2>1
  <2>2. CASE t \notin 0 .. n + BS - 1
    BY <1>6, <2>2
  <2> QED BY <2>1, <2>2
<1> QED BY <1>6, <1>8, Zenon DEF n, t, P, found


\* The driver sends a block.
LEMMA La8Sends ==
    ASSUME La8Inv, LA8!SendBlock
    PROVE  La8Inv'
<1> DEFINE n == ctx.blocks_sent
           F == [LA8!Times -> Int]
           found == ctx.trigger_found \/ LA8!TriggerPoint(n) # {}
           S == LA8!BlockSent(n)
<1>1. /\ pc = "callback" /\ n < NUM_BLOCKS /\ sent' = sent \o S
      /\ phase' = phase /\ running' = running /\ pc' = pc /\ device' = device
      /\ ctx' = [ctx EXCEPT !.blocks_sent = @ + 1, !.trigger_found = found]
  BY DEF LA8!SendBlock, LA8!Sends
<1>2. /\ n \in 0 .. NUM_BLOCKS - 1 /\ n + 1 \in 0 .. NUM_BLOCKS
      /\ found \in BOOLEAN /\ sent \in Seq(Int)
      /\ ctx \in [divcount : 0 .. 1, block_counter : 0 .. NUM_BLOCKS - 1,
                  blocks_sent : 0 .. NUM_BLOCKS, trigger_found : BOOLEAN,
                  final_buf : F]
  BY SMTT(30), <1>1, La8Constants DEF La8Inv, La8Types, La8Told, ToldBeforeLoop
<1>3. S \in Seq(Int) /\ sent' \in Seq(Int)
  BY <1>1, <1>2, La8BlockType DEF La8Inv
<1> HIDE DEF n, F, found, S
<1>4. /\ ctx' \in [divcount : 0 .. 1, block_counter : 0 .. NUM_BLOCKS - 1,
                  blocks_sent : 0 .. NUM_BLOCKS, trigger_found : BOOLEAN,
                  final_buf : F]
      /\ ctx'.divcount = ctx.divcount /\ ctx'.final_buf = ctx.final_buf
      /\ ctx'.block_counter = ctx.block_counter
      /\ ctx'.blocks_sent = n + 1
  <2>1. ctx' = [ctx EXCEPT !.blocks_sent = n + 1, !.trigger_found = found]
    BY <1>1 DEF n
  <2> QED BY ONLY <1>2, <2>1
<1>5. ctx'.trigger_found = found
  BY ONLY <1>1, <1>2
<1>6. La8Types'
  BY <1>1, <1>4 DEF La8Inv, La8Types, LA8!AcqTypeOK, F
<1>7. La8Told'
  BY <1>1, <1>3, <1>4 DEF La8Inv, La8Told, ToldBeforeLoop
<1>8. La8InPlace'
  BY <1>1, <1>4 DEF La8Inv, La8InPlace
<1>9. La8Sending'
  <2> SUFFICES ASSUME ~device.failed
               PROVE  /\ Marked(sent', ctx'.blocks_sent * BS, device.trigger)
                      /\ ctx'.trigger_found =
                          (device.trigger \in 0 .. ctx'.blocks_sent * BS - 1)
    BY <1>1 DEF La8Sending
  <2>1. /\ Marked(sent, n * BS, device.trigger)
        /\ ctx.trigger_found = (device.trigger \in 0 .. n * BS - 1)
        /\ \A i \in LA8!Times : ctx.final_buf[i] = i
        /\ La8Types
    BY <1>1 DEF La8Inv, La8Sending, La8InPlace, n
  <2>2. /\ Marked(sent \o S, n * BS + BS, device.trigger)
        /\ found = (device.trigger \in 0 .. n * BS + BS - 1)
    BY <1>2, <2>1, MarkedMore DEF S, found
  <2>3. (n + 1) * BS = n * BS + BS
    BY <1>2, La8Blocks
  <2>4. ctx'.blocks_sent * BS = n * BS + BS
    BY <1>4, <2>3
  <2> DEFINE e == n * BS + BS
  <2> HIDE DEF e
  <2>5. sent' = sent \o S /\ ctx'.blocks_sent * BS = e
    BY <1>1, <2>4 DEF e
  <2>6. Marked(sent', ctx'.blocks_sent * BS, device.trigger)
    BY <2>2, <2>5 DEF e
  <2> DEFINE x == ctx'.blocks_sent * BS
  <2>7. found = (device.trigger \in 0 .. e - 1)
    <3> DEFINE y == n * BS
    <3>1. y \in Nat /\ BS \in Nat /\ e = y + BS
      BY <1>2, La8Blocks, La8Constants DEF e
    <3> HIDE DEF y
    <3>2. 0 .. y + BS - 1 = 0 .. e - 1
      BY <3>1
    <3> QED BY <2>2, <3>2 DEF y
  <2>8. x = e
    BY <2>5
  <2> HIDE DEF x
  <2>9. ctx'.trigger_found = (device.trigger \in 0 .. x - 1)
    BY <1>5, <2>7, <2>8
  <2> QED BY <2>6, <2>9 DEF x
<1>10. LA8!SentInOrder'
  BY <1>1 DEF La8Inv, La8Types, La8Told, LA8!SentInOrder
<1> QED BY <1>6, <1>7, <1>8, <1>9, <1>10 DEF La8Inv

\* What is expected of the whole memory.
LEMMA La8Whole ==
    ASSUME NEW s \in Seq(Int), device.trigger \in LA8!Times \cup {-1},
           Marked(s, LA8!SdramSize, device.trigger)
    PROVE  s = LA8!Expected
<1> DEFINE t == device.trigger
           n == LA8!SdramSize
           r == LA8!InOrder
<1>1. n \in Nat /\ BS \in Nat \ {0} /\ t \in 0 .. n - 1 \cup {-1}
  BY La8Constants DEF LA8!Times
<1>2. r = [k \in 1 .. n |-> k - 1]
  BY DEF LA8!InOrder
<1>3. LA8!Expected =
          IF t = -1 THEN r
          ELSE IF t % BS = BS - 1
          THEN SubSeq(r, 1, t) \o <<-1>> \o SubSeq(r, t + 2, n)
          ELSE SubSeq(r, 1, t) \o <<-1>> \o SubSeq(r, t + 1, n)
  BY DEF LA8!Expected, LA8!TriggerMark
<1>4. Marked(s, n, t)
  OBVIOUS
<1> HIDE DEF t, n, r
<1>5. CASE t = -1
  <2>1. t \notin 0 .. n - 1
    BY <1>1, <1>5
  <2>2. InARow(s, 0, n)
    BY <1>4, <2>1 DEF Marked
  <2> QED BY <1>1, <1>2, <1>3, <1>5, <2>2, RowIsAll
<1>6. CASE t # -1
  <2>1. t \in 0 .. n - 1
    BY <1>1, <1>6
  <2>2. MarkedAt(s, 0, n, t, Dropped(t)) /\ Dropped(t) \in 0 .. 1
    BY <1>4, <2>1 DEF Marked, Dropped
  <2>3. r \in Seq(Int) /\ InARow(r, 0, n)
    <3>1. \A k \in 1 .. n : k - 1 \in Int /\ k - 1 = 0 + k - 1
      OBVIOUS
    <3> QED BY <1>1, <1>2, <3>1 DEF InARow
  <2> DEFINE c == Dropped(t)
  <2>4. c \in 0 .. 1 /\ MarkedAt(s, 0, n, t, c)
    BY <2>2
  <2> HIDE DEF c
  <2>5. s = SubSeq(r, 1, t) \o <<-1>> \o SubSeq(r, t + 1 + c, n)
    <3>1. n \in Nat /\ t \in 0 .. n - 1
      BY <1>1, <2>1
    <3>2. s \in Seq(Int) /\ r \in Seq(Int) /\ InARow(r, 0, n)
      BY <2>3
    <3> QED BY ONLY ZenonT(30), <3>1, <3>2, <2>4, MarkedIsAll
  <2>6. CASE t % BS = BS - 1
    <3>1. c = 1
      BY <2>6 DEF c, Dropped
    <3>2. t + 1 + c = t + 2
      BY <2>1, <3>1, SMTT(30)
    <3> QED BY <1>3, <1>6, <2>5, <2>6, <3>2
  <2>7. CASE t % BS # BS - 1
    <3>1. c = 0
      BY <2>7 DEF c, Dropped
    <3>2. t + 1 + c = t + 1
      BY <2>1, <3>1
    <3> QED BY <1>3, <1>6, <2>5, <2>7, <3>2
  <2> QED BY <2>6, <2>7
<1> QED BY <1>5, <1>6

\* After the last block.
LEMMA La8Ends ==
    ASSUME La8Inv, LA8!AllSent
    PROVE  La8Inv'
<1>1. /\ pc = "callback" /\ ctx.blocks_sent = NUM_BLOCKS
      /\ sent' = sent \o <<>> /\ phase' = "endless" /\ running' = FALSE
      /\ pc' = "crashed" /\ ctx' = ctx /\ device' = device
  BY DEF LA8!AllSent, LA8!SendsEnd
<1>2. sent \in Seq(Int) /\ sent' = sent
  BY <1>1, NothingSent DEF La8Inv, La8Told, ToldBeforeLoop
<1>3. La8Types'
  BY <1>1 DEF La8Inv, La8Types, LA8!AcqTypeOK
<1>4. La8Told'
  BY <1>1, <1>2 DEF La8Inv, La8Told, ToldBeforeLoop
<1>5. La8InPlace' /\ La8Sending'
  BY <1>1 DEF La8Inv, La8InPlace, La8Sending
<1>6. ~device.failed => sent = LA8!Expected
  <2> SUFFICES ASSUME ~device.failed PROVE sent = LA8!Expected
    OBVIOUS
  <2>1. ctx.blocks_sent * BS = LA8!SdramSize
    BY <1>1, La8Constants
  <2>2. Marked(sent, LA8!SdramSize, device.trigger)
    BY <1>1, <2>1 DEF La8Inv, La8Sending
  <2>3. device.trigger \in LA8!Times \cup {-1}
    BY DEF La8Inv, La8Types
  <2> QED BY <1>2, <2>2, <2>3, La8Whole
<1>7. LA8!SentInOrder'
  <2>1. LA8!Expected' = LA8!Expected
    BY <1>1 DEF LA8!Expected
  <2> QED BY <1>1, <1>2, <1>6, <2>1 DEF LA8!SentInOrder
<1> QED BY <1>3, <1>4, <1>5, <1>7 DEF La8Inv

\* Every step keeps the invariant.
LEMMA La8Kept == La8Inv /\ LA8!Next => La8Inv'
BY La8Starts, La8Quiet, La8Reads, La8Sends, La8Ends DEF LA8!Next, LA8!Event

\* The invariant has the types of the module.
LEMMA La8Typed == La8Inv => LA8!TypeOK
BY DEF La8Inv, La8Types, LA8!TypeOK

\* chronovu-la8 keeps to the datafeed up to its end, step by step.
LEMMA La8Feeds ==
    ASSUME La8Inv, LA8!Next, driver = "la8"
    PROVE  Feed!Next \/ EndsAgain \/ UNCHANGED Feed!feed
<1>1. sent \in Seq(Int) /\ ToldBeforeLoop
  BY DEF La8Inv, La8Told, ToldBeforeLoop
<1>2. CASE LA8!Session
  <2>1. Session
    BY <1>2 DEF Session, SendHeader, SendMeta, Run, Leave, LA8!Session,
                LA8!SendHeader, LA8!SendMeta, LA8!Run, LA8!Leave
  <2> QED BY <1>1, <2>1, SessionFeeds
<1>3. CASE LA8!SendBlock
  <2> DEFINE S == LA8!BlockSent(ctx.blocks_sent)
  <2>1. ctx.blocks_sent \in 0 .. NUM_BLOCKS - 1
    BY <1>3, La8Constants DEF LA8!SendBlock, La8Inv, La8Types
  <2>2. S \in Seq(Int)
    BY <2>1, La8BlockType DEF La8Inv
  <2>3. phase = "open" /\ phase' = phase /\ sent' = sent \o S
    BY <1>3 DEF LA8!SendBlock, LA8!Sends, La8Inv, La8Told
  <2> HIDE DEF S
  <2> QED BY <1>1, <2>2, <2>3, FeedsData DEF Feed!Next
<1>4. CASE \/ LA8!AllSent \/ LA8!ReadFails \/ LA8!StoppedByClient
           \/ LA8!StopsAtHeader
  <2>1. /\ phase \in {"header", "open"} /\ phase' = "endless"
        /\ sent' = sent \o <<>> /\ <<>> \in Seq(Int)
    BY <1>4 DEF LA8!AllSent, LA8!ReadFails, LA8!Call, LA8!Called,
                LA8!StoppedByClient, LA8!StopsAtHeader, LA8!StopsEarly,
                LA8!SendsEnd, La8Inv, La8Told, ToldBeforeLoop
  <2> QED BY <1>1, <2>1, FeedsEndless
<1>5. CASE \/ \E divcount \in 0 .. 1, trigger \in LA8!Times \cup {-1} :
                 LA8!Start(divcount, trigger)
           \/ LA8!StartFails \/ LA8!ReadBlock \/ LA8!ReadLastBlock
  BY <1>5, FeedsNothing
     DEF LA8!Start, LA8!Starts, LA8!StartFails, LA8!ReadBlock,
         LA8!ReadLastBlock, LA8!SendsNothing
<1> QED BY <1>2, <1>3, <1>4, <1>5 DEF LA8!Next, LA8!Event

-----------------------------------------------------------------------------
(* What is defined by recursion *)

\* Of some numbers one is the least.
LEMMA Least ==
    ASSUME NEW T \in SUBSET Nat, T # {}
    PROVE  \E x \in T : \A y \in T : x <= y
<1> DEFINE R == OpToRel(<, Nat)
<1>1. IsWellFoundedOn(R, Nat)
  BY ZenonT(30), NatLessThanWellFounded
<1> HIDE DEF R
<1>2. PICK x \in T : \A y \in T : ~ (<<y, x>> \in R)
  BY <1>1, WFMin
<1>3. \A y \in Nat : y < x => <<y, x>> \in R
  BY <1>2 DEF R, OpToRel
<1>4. T \subseteq Nat
  OBVIOUS
<1>5. \A y \in T : y \in Nat /\ ~(y < x)
  BY <1>2, <1>3, <1>4
<1>6. x \in Nat
  BY <1>4
<1>7. \A y \in T : x <= y
  BY ONLY <1>5, <1>6
<1> QED BY <1>7

\* Each value is made of the one before.
Goes(f, n, a, h) ==
    \A j \in 1 .. n : f[j] = IF j = 1 THEN a ELSE h[<<f[j - 1], j>>]

\* There are such values, up to any number.
LEMMA Recursion ==
    ASSUME NEW S, NEW a \in S, NEW n \in Nat,
           NEW h \in [S \X Nat -> S]
    PROVE  \E f \in [1 .. n -> S] : Goes(f, n, a, h)
<1> DEFINE Some(m) == \E f \in [1 .. m -> S] : Goes(f, m, a, h)
           T == {m \in Nat : ~Some(m)}
<1> SUFFICES ASSUME T # {} PROVE FALSE
  OBVIOUS
<1>1. PICK m \in T : \A y \in T : m <= y
  BY Least
<1>2. m # 0
  <2>1. [j \in 1 .. 0 |-> a] \in [1 .. 0 -> S]
    OBVIOUS
  <2>2. Goes([j \in 1 .. 0 |-> a], 0, a, h)
    BY DEF Goes
  <2> QED BY <1>1, <2>1, <2>2
<1>3. m - 1 \in Nat /\ m - 1 \notin T
  BY <1>1, <1>2
<1>4. PICK f \in [1 .. m - 1 -> S] : Goes(f, m - 1, a, h)
  BY <1>3
<1> DEFINE x == IF m = 1 THEN a ELSE h[<<f[m - 1], m>>]
           g == [j \in 1 .. m |-> IF j = m THEN x ELSE f[j]]
<1>5. x \in S
  <2>1. CASE m = 1
    BY <2>1
  <2>2. CASE m # 1
    <3>1. f[m - 1] \in S /\ m \in Nat
      BY <1>1, <1>2, <1>3, <1>4, <2>2
    <3> QED BY <2>2, <3>1
  <2> QED BY <2>1, <2>2
<1> HIDE DEF x
<1>6. /\ g \in [1 .. m -> S] /\ g[m] = x
      /\ \A j \in 1 .. m - 1 : g[j] = f[j]
  <2>1. m \in Nat \ {0}
    BY <1>1, <1>2
  <2>2. \A j \in 1 .. m : j # m => j \in 1 .. m - 1
    BY <2>1
  <2>3. \A j \in 1 .. m : (IF j = m THEN x ELSE f[j]) \in S
    BY <1>4, <1>5, <2>2
  <2>4. m \in 1 .. m /\ \A j \in 1 .. m - 1 : j \in 1 .. m /\ j # m
    BY <2>1
  <2> QED BY <2>3, <2>4
<1> HIDE DEF g
<1>7. Goes(g, m, a, h)
  <2> SUFFICES ASSUME NEW j \in 1 .. m
               PROVE  g[j] = IF j = 1 THEN a ELSE h[<<g[j - 1], j>>]
    BY DEF Goes
  <2>1. CASE j = m
    <3>1. m # 1 => g[m - 1] = f[m - 1]
      BY <1>1, <1>2, <1>6
    <3> QED BY <1>6, <2>1, <3>1 DEF x
  <2>2. CASE j # m
    <3>1. j \in 1 .. m - 1 /\ (j # 1 => j - 1 \in 1 .. m - 1)
      BY <1>1, <2>2
    <3>2. f[j] = IF j = 1 THEN a ELSE h[<<f[j - 1], j>>]
      BY <1>4, <3>1 DEF Goes
    <3> QED BY <1>6, <3>1, <3>2
  <2> QED BY <2>1, <2>2
<1> QED BY <1>1, <1>6, <1>7

\* Two functions are the same where the step before it is the same.
SameSteps(f, g, n) ==
    \A j \in 1 .. n : (j = 1 \/ f[j - 1] = g[j - 1]) => f[j] = g[j]

\* What is the same at the start, and stays the same, is the same.
LEMMA StepByStep ==
    ASSUME NEW n \in Nat, NEW f, NEW g, SameSteps(f, g, n)
    PROVE  \A j \in 1 .. n : f[j] = g[j]
<1> DEFINE T == {m \in 1 .. n : f[m] # g[m]}
<1> SUFFICES ASSUME T # {} PROVE FALSE
  OBVIOUS
<1>1. T \in SUBSET Nat
  OBVIOUS
<1>2. PICK m \in T : \A y \in T : m <= y
  BY <1>1, Least
<1>3. m \in 1 .. n /\ f[m] # g[m]
  BY <1>2
<1>4. m # 1 /\ f[m - 1] # g[m - 1]
  BY <1>3 DEF SameSteps
<1>5. m - 1 \in T
  BY <1>3, <1>4
<1>6. ~(m <= m - 1)
  BY <1>3
<1> QED BY <1>2, <1>5, <1>6

-----------------------------------------------------------------------------
(* asix-sigma: its constants, and what its device records *)

\* What the constants are, and the sizes made of them.
LEMMA SigmaConstants ==
    /\ NumChunks \in Nat \ {0} /\ ClustersPerChunk \in Nat \ {0}
    /\ EVENTS_PER_CLUSTER \in Nat \ {0} /\ ChunksPerRead \in Nat \ {0}
    /\ TsRange \in Nat \ {0} /\ FirstTimes \subseteq Nat /\ Gaps \subseteq Nat
    /\ SIGMA!NumClusters \in Nat \ {0} /\ SIGMA!ChunkWords \in Nat \ {0}
    /\ SIGMA!NumClusters = NumChunks * ClustersPerChunk
    /\ SIGMA!NumClusters * (EVENTS_PER_CLUSTER + 1)
           = NumChunks * SIGMA!ChunkWords
<1>1. /\ NumChunks \in Nat \ {0} /\ ClustersPerChunk \in Nat \ {0}
      /\ EVENTS_PER_CLUSTER \in Nat \ {0} /\ ChunksPerRead \in Nat \ {0}
      /\ TsRange \in Nat \ {0} /\ FirstTimes \subseteq Nat
      /\ Gaps \subseteq EVENTS_PER_CLUSTER .. TsRange - 1
  BY DriversAssumption DEF SIGMA!SigmaAssumption
<1>2. Gaps \subseteq Nat
  BY <1>1
<1> DEFINE w == EVENTS_PER_CLUSTER + 1
<1>3. w \in Nat \ {0}
  BY <1>1
<1>4. SIGMA!ChunkWords = ClustersPerChunk * w
  BY DEF SIGMA!ChunkWords
<1> HIDE DEF w
<1>5. /\ SIGMA!NumClusters \in Nat \ {0} /\ SIGMA!ChunkWords \in Nat \ {0}
      /\ SIGMA!NumClusters = NumChunks * ClustersPerChunk
  BY <1>1, <1>3, <1>4 DEF SIGMA!NumClusters
<1>6. SIGMA!NumClusters * w = NumChunks * SIGMA!ChunkWords
  BY <1>1, <1>3, <1>4, <1>5
<1> QED BY <1>1, <1>2, <1>5, <1>6 DEF w

\* Each cluster was recorded at some time.
LEMMA SigmaTimes ==
    ASSUME NEW times \in SIGMA!Recordings
    PROVE  times \in [1 .. SIGMA!NumClusters -> Nat]
<1> DEFINE n == SIGMA!NumClusters
<1>1. n \in Nat \ {0}
  BY SigmaConstants
<1>2. PICK first \in FirstTimes, gaps \in [1 .. n - 1 -> Gaps] :
        times = CHOOSE t : t =
            [j \in 1 .. n |-> IF j = 1 THEN first ELSE t[j - 1] + gaps[j - 1]]
  BY DEF SIGMA!Recordings
<1> HIDE DEF n
<1>3. first \in Nat /\ \A j \in 1 .. n - 1 : gaps[j] \in Nat
  BY SigmaConstants
<1> DEFINE gap == [j \in Nat |-> IF j - 1 \in 1 .. n - 1 THEN gaps[j - 1] ELSE 0]
           h == [p \in Nat \X Nat |-> p[1] + gap[p[2]]]
           Next1(t, j) == IF j = 1 THEN first ELSE t[j - 1] + gaps[j - 1]
<1>4. gap \in [Nat -> Nat] /\ \A j \in 1 .. n : j # 1 => gap[j] = gaps[j - 1]
  BY <1>1, <1>3
<1> HIDE DEF gap
<1>5. h \in [Nat \X Nat -> Nat]
  <2>1. \A p \in Nat \X Nat : p[1] \in Nat /\ p[2] \in Nat
    OBVIOUS
  <2>2. \A p \in Nat \X Nat : gap[p[2]] \in Nat
    BY <1>4, <2>1
  <2>3. \A p \in Nat \X Nat : p[1] + gap[p[2]] \in Nat
    BY <2>1, <2>2
  <2> QED BY ONLY <2>3
<1>6. \A x, j \in Nat : h[<<x, j>>] = x + gap[j]
  OBVIOUS
<1> HIDE DEF h
<1>7. PICK f \in [1 .. n -> Nat] : Goes(f, n, first, h)
  BY <1>1, <1>3, <1>5, Recursion
<1>8. \A j \in 1 .. n : f[j] = Next1(f, j)
  <2> SUFFICES ASSUME NEW j \in 1 .. n PROVE f[j] = Next1(f, j)
    OBVIOUS
  <2>1. CASE j = 1
    BY <1>7, <2>1 DEF Goes
  <2>2. CASE j # 1
    <3>1. j - 1 \in 1 .. n /\ j \in Nat
      BY <1>1, <2>2
    <3>2. f[j - 1] \in Nat
      BY <3>1
    <3>3. f[j] = h[<<f[j - 1], j>>]
      BY <1>7, <2>2 DEF Goes
    <3> QED BY <1>4, <1>6, <2>2, <3>1, <3>2, <3>3
  <2> QED BY <2>1, <2>2
<1>9. f = [j \in 1 .. n |-> Next1(f, j)]
  BY <1>8
<1>10. times = [j \in 1 .. n |-> Next1(times, j)]
  BY <1>2, <1>9
<1>11. \A j \in 1 .. n : times[j] = f[j]
  <2>1. \A j \in 1 .. n : times[j] = Next1(times, j)
    BY <1>10
  <2>2. SameSteps(times, f, n)
    BY <1>8, <2>1 DEF SameSteps
  <2>3. n \in Nat
    BY <1>1
  <2> HIDE DEF Next1
  <2> QED BY ONLY <2>2, <2>3, StepByStep
<1>12. times = f
  BY <1>10, <1>11
<1> QED BY <1>12 DEF n

\* What is put together of sequences is a sequence.
LEMMA Flattened ==
    ASSUME NEW n \in Nat, NEW seqs \in [1 .. n -> Seq(Int)]
    PROVE  SIGMA!FlattenSeq(seqs) \in Seq(Int)
<1>1. seqs \in Seq(Seq(Int)) /\ Len(seqs) = n
  OBVIOUS
<1>2. CASE n = 0
  <2>1. SIGMA!FlattenSeq(seqs) = seqs
    BY <1>1, <1>2 DEF SIGMA!FlattenSeq
  <2>2. seqs = <<>>
    BY <1>1, <1>2
  <2> QED BY <2>1, <2>2
<1>3. CASE n # 0
  <2> DEFINE Next1(t, i) == IF i = 1 THEN seqs[i] ELSE t[i - 1] \o seqs[i]
             u == CHOOSE t : t = [i \in 1 .. n |-> Next1(t, i)]
  <2>1. SIGMA!FlattenSeq(seqs) = u[n]
    BY <1>1, <1>3 DEF SIGMA!FlattenSeq
  <2> DEFINE s == [j \in Nat |-> IF j \in 1 .. n THEN seqs[j] ELSE <<>>]
             h == [p \in Seq(Int) \X Nat |-> p[1] \o s[p[2]]]
             a == seqs[1]
  <2>2. s \in [Nat -> Seq(Int)] /\ \A j \in 1 .. n : s[j] = seqs[j]
    OBVIOUS
  <2>3. a \in Seq(Int)
    BY <1>3
  <2> HIDE DEF s, u
  <2>4. h \in [Seq(Int) \X Nat -> Seq(Int)]
    <3>1. \A p \in Seq(Int) \X Nat : p[1] \in Seq(Int) /\ p[2] \in Nat
      OBVIOUS
    <3>2. \A p \in Seq(Int) \X Nat : s[p[2]] \in Seq(Int)
      BY <2>2, <3>1
    <3>3. \A p \in Seq(Int) \X Nat : p[1] \o s[p[2]] \in Seq(Int)
      BY <3>1, <3>2
    <3> QED BY ONLY <3>3
  <2>5. \A x \in Seq(Int), j \in Nat : h[<<x, j>>] = x \o s[j]
    OBVIOUS
  <2> HIDE DEF h, a
  <2>6. PICK f \in [1 .. n -> Seq(Int)] : Goes(f, n, a, h)
    BY <2>3, <2>4, Recursion
  <2>7. \A j \in 1 .. n : f[j] = Next1(f, j)
    <3> SUFFICES ASSUME NEW j \in 1 .. n PROVE f[j] = Next1(f, j)
      OBVIOUS
    <3>1. CASE j = 1
      BY <2>6, <3>1 DEF Goes, a
    <3>2. CASE j # 1
      <4>1. j - 1 \in 1 .. n /\ j \in Nat
        BY <3>2
      <4>2. f[j - 1] \in Seq(Int)
        BY <4>1
      <4>3. f[j] = h[<<f[j - 1], j>>]
        BY <2>6, <3>2 DEF Goes
      <4> QED BY <2>2, <2>5, <3>2, <4>1, <4>2, <4>3
    <3> QED BY <3>1, <3>2
  <2>8. f = [j \in 1 .. n |-> Next1(f, j)]
    BY SMTT(30), <2>7
  <2>9. u = [j \in 1 .. n |-> Next1(u, j)]
    BY ZenonT(30), <2>8 DEF u
  <2>10. \A j \in 1 .. n : u[j] = f[j]
    <3>1. \A j \in 1 .. n : u[j] = Next1(u, j)
      BY <2>9
    <3>2. SameSteps(u, f, n)
      BY ZenonT(30), <2>7, <3>1 DEF SameSteps
    <3>3. n \in Nat
      OBVIOUS
    <3> HIDE DEF Next1
    <3> QED BY ONLY <3>2, <3>3, StepByStep
  <2>11. n \in 1 .. n
    BY <1>3
  <2> QED BY <2>1, <2>10, <2>11
<1> QED BY <1>2, <1>3


\* Of some numbers that have a bound one is the greatest.
LEMMA LeastOf ==
    ASSUME NEW a \in Int, NEW b \in Int, NEW T \in SUBSET (a .. b), T # {}
    PROVE  SIGMA!Min(T) \in T /\ SIGMA!Max(T) \in T
<1>0. \A y \in T : y \in a .. b
  OBVIOUS
<1>1. \E x \in T : \A y \in T : x <= y
  <2> DEFINE U == {k \in Nat : k + a \in T}
  <2>1. \A y \in T : y \in Int /\ y - a \in Nat /\ (y - a) + a = y
    BY <1>0
  <2>2. U # {} /\ U \in SUBSET Nat /\ \A y \in T : y - a \in U
    BY <2>1
  <2>3. PICK u \in U : \A y \in U : u <= y
    BY <2>2, Least
  <2>4. u \in Nat /\ u + a \in T
    OBVIOUS
  <2>5. \A y \in T : u <= y - a
    BY <2>2, <2>3
  <2> HIDE DEF U
  <2>6. \A y \in T : u + a <= y
    BY <2>1, <2>4, <2>5
  <2> QED BY <2>4, <2>6
<1>2. \E x \in T : \A y \in T : x >= y
  <2> DEFINE U == {k \in Nat : b - k \in T}
  <2>1. \A y \in T : y \in Int /\ b - y \in Nat /\ b - (b - y) = y
    BY <1>0
  <2>2. U # {} /\ U \in SUBSET Nat /\ \A y \in T : b - y \in U
    BY <2>1
  <2>3. PICK u \in U : \A y \in U : u <= y
    BY <2>2, Least
  <2>4. u \in Nat /\ b - u \in T
    OBVIOUS
  <2>5. \A y \in T : u <= b - y
    BY <2>2, <2>3
  <2> HIDE DEF U
  <2>6. \A y \in T : b - u >= y
    BY <2>1, <2>4, <2>5
  <2> QED BY <2>4, <2>6
<1>3. /\ SIGMA!Min(T) = CHOOSE x \in T : \A y \in T : x <= y
      /\ SIGMA!Max(T) = CHOOSE x \in T : \A y \in T : x >= y
  BY DEF SIGMA!Min, SIGMA!Max
<1>4. SIGMA!Min(T) \in T
  BY <1>1, <1>3, Zenon
<1>5. SIGMA!Max(T) \in T
  BY <1>2, <1>3, Zenon
<1> QED BY <1>4, <1>5

-----------------------------------------------------------------------------
(* asix-sigma: the invariant *)

SigmaTypes ==
    /\ SIGMA!AcqTypeOK /\ pc # "crashed"
    /\ ctx \in [state : {"IDLE", "CAPTURE", "DOWNLOAD"},
                chunks_downloaded : 0 .. NumChunks, triggerchunk : Int,
                first : 0 .. NumChunks, newchunks : 0 .. ChunksPerRead,
                i : Nat, lastts : 0 .. TsRange - 1, lastsample : Int]
    /\ ctx.i <= ctx.newchunks
    /\ device \in [times : {<<>>} \cup [1 .. SIGMA!NumClusters -> Nat],
                   stoppos :
                     0 .. SIGMA!NumClusters * (EVENTS_PER_CLUSTER + 1),
                   triggerpos : Int]
    /\ ctx.state # "IDLE" => device.times \in [1 .. SIGMA!NumClusters -> Nat]

\* The end is told when the loop is left, unless it was left before.
SigmaTold ==
    /\ ToldBeforeLoop
    /\ pc = "started" => phase = "open"
    /\ pc = "poll" /\ running => phase = "open"
    /\ pc = "callback" => phase = "open" /\ ctx.state = "DOWNLOAD"

\* The chunks that were read were recorded, and no more are counted.
SigmaChunks ==
    pc = "callback" =>
        /\ ctx.first + ctx.newchunks <= SIGMA!Numchunks
        /\ ctx.chunks_downloaded <= ctx.first + ctx.i

SigmaInv == SigmaTypes /\ SigmaTold /\ SigmaChunks

\* No more chunks are recorded than there are.
LEMMA SigmaRecorded ==
    ASSUME NEW pos \in 0 .. SIGMA!NumClusters * (EVENTS_PER_CLUSTER + 1)
    PROVE  (pos + SIGMA!ChunkWords - 1) \div SIGMA!ChunkWords \in 0 .. NumChunks
<1> DEFINE w == SIGMA!ChunkWords
           x == pos + w - 1
           q == x \div w
           y == NumChunks * w
<1>1. w \in Nat \ {0} /\ NumChunks \in Nat \ {0} /\ y \in Nat /\ pos \in 0 .. y
  BY SigmaConstants
<1> HIDE DEF w
<1>2. x \in Nat /\ x <= y + w - 1
  BY <1>1
<1> HIDE DEF x
<1>3. q \in Int /\ x < (q + 1) * w /\ q * w <= x
  <2> DEFINE r == x % w
  <2>1. q \in Int /\ r \in 0 .. w - 1 /\ x = q * w + r
    BY <1>1, <1>2
  <2> HIDE DEF q, r
  <2>2. (q + 1) * w = q * w + w /\ q * w \in Int
    BY <1>1, <2>1, Transfers
  <2> DEFINE qw == q * w
  <2> HIDE DEF qw
  <2>3. qw \in Int /\ x = qw + r /\ (q + 1) * w = qw + w
    BY <2>1, <2>2 DEF qw
  <2>4. x < qw + w /\ qw <= x
    BY <1>1, <1>2, <2>1, <2>3
  <2> QED BY <2>1, <2>3, <2>4 DEF qw
<1> HIDE DEF q
<1>4. ~(NumChunks + 1 <= q)
  <2> DEFINE n == NumChunks + 1
             nw == n * w
             qw == q * w
  <2>1. n <= q <=> nw <= qw
    BY <1>1, <1>3, Transfers
  <2>2. nw = y + w
    BY <1>1, Transfers
  <2>3. qw \in Int /\ qw <= x
    BY <1>1, <1>3
  <2> HIDE DEF nw, qw, n, y
  <2>4. ~(nw <= qw)
    BY <1>1, <1>2, <2>2, <2>3
  <2> QED BY <2>1, <2>4 DEF n
<1>5. ~(q + 1 <= 0)
  <2> DEFINE n == q + 1
             nw == n * w
  <2>1. n <= 0 <=> nw <= 0 * w
    BY <1>1, <1>3, Transfers
  <2>2. 0 * w = 0 /\ nw \in Int /\ x < nw
    BY <1>1, <1>3
  <2> HIDE DEF nw
  <2>3. ~(nw <= 0)
    BY <1>2, <2>2
  <2> QED BY <2>1, <2>2, <2>3
<1>6. q \in 0 .. NumChunks
  BY <1>1, <1>3, <1>4, <1>5
<1> QED BY <1>6 DEF q, x, w


\* What SIGMA makes of two numbers.
LEMMA SigmaLeast ==
    ASSUME NEW a \in Int, NEW b \in Int
    PROVE  SIGMA!Min({a, b}) = IF a <= b THEN a ELSE b
BY LeastAndGreatest DEF SIGMA!Min, Min

\* Of two numbers, in the words of the module.
LEMMA SigmaGreatest ==
    ASSUME NEW a \in Int, NEW b \in Int
    PROVE  SIGMA!Max({a, b}) = IF a >= b THEN a ELSE b
BY LeastAndGreatest DEF SIGMA!Max, Max

\* The samples of a cluster.
LEMMA SigmaEvents ==
    ASSUME NEW j \in Int
    PROVE  /\ SIGMA!Events(j) \in Seq(Int)
           /\ Len(SIGMA!Events(j)) = EVENTS_PER_CLUSTER
           /\ SIGMA!Last(SIGMA!Events(j)) \in Int
<1> DEFINE e == SIGMA!Events(j)
           n == EVENTS_PER_CLUSTER
           from == (j - 1) * n
<1>1. n \in Nat \ {0} /\ from \in Int
  BY SigmaConstants
<1>2. e = [k \in 1 .. n |-> from + k - 1]
  BY DEF SIGMA!Events, SIGMA!Positions
<1> HIDE DEF e, n, from
<1>3. e \in Seq(Int) /\ Len(e) = n
  BY <1>1, <1>2
<1>4. e[n] \in Int
  BY <1>1, <1>2
<1> QED BY <1>3, <1>4 DEF SIGMA!Last, e, n

\* A cluster, and the mark in it.
LEMMA SigmaMarked ==
    ASSUME NEW j \in Int, NEW offset \in 0 .. EVENTS_PER_CLUSTER
    PROVE  SIGMA!Cluster(j, offset) \in Seq(Int)
<1> DEFINE e == SIGMA!Events(j)
           n == EVENTS_PER_CLUSTER
           p == SubSeq(e, 1, offset)
           q == SubSeq(e, offset + 1, n)
           mark == <<SIGMA!TriggerMark>>
<1>1. n \in Nat \ {0} /\ e \in Seq(Int) /\ Len(e) = n
  BY SigmaConstants, SigmaEvents
<1> HIDE DEF e, n
<1>2. p \in Seq(Int)
  <2>1. 1 \in Nat \ {0} /\ offset \in Nat /\ offset <= Len(e) /\ 1 <= offset + 1
    BY <1>1 DEF n
  <2> QED BY <1>1, <2>1, PartProperties
<1>3. q \in Seq(Int)
  <2> DEFINE a == offset + 1
  <2>1. a \in Nat \ {0} /\ n \in Nat /\ n <= Len(e) /\ a <= n + 1
    BY <1>1 DEF n
  <2> HIDE DEF a
  <2>2. SubSeq(e, a, n) \in Seq(Int)
    BY <1>1, <2>1, PartProperties
  <2> QED BY <2>2 DEF a
<1>4. mark \in Seq(Int)
  BY DEF SIGMA!TriggerMark
<1>5. SIGMA!Cluster(j, offset) = p \o mark \o q \/ SIGMA!Cluster(j, offset) = e
  BY DEF SIGMA!Cluster, e, n
<1> HIDE DEF p, q, mark
<1> DEFINE u == p \o mark \o q
<1>6. u \in Seq(Int)
  BY <1>2, <1>3, <1>4
<1> HIDE DEF u
<1> QED BY <1>1, <1>5, <1>6 DEF u

\* The clusters of a chunk that was recorded.
LEMMA SigmaClusters ==
    ASSUME SigmaInv, pc = "callback", ctx.i < ctx.newchunks
    PROVE  /\ ctx.chunks_downloaded + 1 \in 0 .. NumChunks
           /\ SIGMA!Clusters # {}
           /\ \E a, b \in Int :
                /\ SIGMA!Clusters = a .. b /\ b - a + 1 = ClustersPerChunk
                /\ SIGMA!Min(SIGMA!Clusters) = a
                /\ 1 <= a /\ b <= SIGMA!NumClusters
           /\ \A j \in SIGMA!Clusters : SIGMA!Ts(j) \in 0 .. TsRange - 1
<1> DEFINE c == ctx.first + ctx.i
           C == ClustersPerChunk
           n == SIGMA!NumClusters
           a == c * C + 1
           b == (c + 1) * C
<1>1. /\ C \in Nat \ {0} /\ NumChunks \in Nat \ {0} /\ TsRange \in Nat \ {0}
      /\ n = NumChunks * C
  BY SigmaConstants
<1>2. /\ ctx.first \in 0 .. NumChunks /\ ctx.i \in Nat
      /\ ctx.newchunks \in 0 .. ChunksPerRead
      /\ ctx.chunks_downloaded \in 0 .. NumChunks
      /\ device.stoppos \in 0 .. n * (EVENTS_PER_CLUSTER + 1)
      /\ device.times \in [1 .. n -> Nat]
  BY DEF SigmaInv, SigmaTypes, SigmaTold
<1>3. SIGMA!Numchunks \in 0 .. NumChunks
  BY <1>2, SigmaRecorded DEF SIGMA!Numchunks
<1>4. c \in Nat /\ c + 1 \in 0 .. NumChunks
      /\ ctx.chunks_downloaded + 1 \in 0 .. NumChunks
  <2>1. /\ ctx.first + ctx.newchunks <= SIGMA!Numchunks
        /\ ctx.chunks_downloaded <= ctx.first + ctx.i
    BY DEF SigmaInv, SigmaChunks
  <2>2. /\ ctx.first \in Nat /\ ctx.i \in Nat /\ ctx.newchunks \in Nat
        /\ ctx.chunks_downloaded \in Nat /\ ctx.i < ctx.newchunks
    BY <1>2, SigmaConstants
  <2>3. /\ SIGMA!Numchunks \in Nat /\ SIGMA!Numchunks <= NumChunks
        /\ NumChunks \in Nat
    BY <1>1, <1>3
  <2> QED BY ONLY <2>1, <2>2, <2>3
<1>5. /\ c * C \in Int /\ b = c * C + C /\ b <= n /\ b \in Int /\ c * C >= 0
  <2> HIDE DEF c
  <2>1. c \in Int /\ NumChunks \in Int /\ c + 1 \in Int /\ c + 1 <= NumChunks
        /\ 0 \in Int /\ 0 <= c
    BY <1>1, <1>4
  <2>2. c * C \in Int /\ b = c * C + C /\ b <= NumChunks * C /\ b \in Int
    BY <1>1, <2>1, Transfers
  <2>3. 0 * C <= c * C /\ 0 * C = 0
    BY <1>1, <2>1, Transfers
  <2> QED BY <1>1, <2>2, <2>3
<1>6. a \in Int /\ 1 <= a /\ b - a + 1 = C /\ a <= b
  <2> DEFINE x == c * C
  <2>1. x \in Int /\ x >= 0 /\ b = x + C /\ a = x + 1
    BY <1>5
  <2> HIDE DEF x, b, a
  <2> QED BY <1>1, <2>1
<1>7. SIGMA!Clusters = a .. b
  BY DEF SIGMA!Clusters
<1> HIDE DEF a, b, c
<1>8. SIGMA!Clusters # {}
  BY <1>5, <1>6, <1>7
<1>9. SIGMA!Min(SIGMA!Clusters) = a
  <2>1. \A x \in a .. b : (\A y \in a .. b : x <= y) <=> x = a
    BY <1>5, <1>6
  <2>2. SIGMA!Min(a .. b) = CHOOSE x \in a .. b : \A y \in a .. b : x <= y
    BY DEF SIGMA!Min
  <2>3. a \in a .. b
    BY <1>5, <1>6
  <2> QED BY <1>7, <2>1, <2>2, <2>3
<1>10. ASSUME NEW j \in a .. b PROVE SIGMA!Ts(j) \in 0 .. TsRange - 1
  <2>1. j \in 1 .. n
    BY <1>1, <1>5, <1>6, SigmaConstants
  <2>2. device.times[j] \in Nat
    BY <1>2, <2>1
  <2> QED BY <1>1, <2>2 DEF SIGMA!Ts
<1> QED BY <1>4, <1>5, <1>6, <1>7, <1>8, <1>9, <1>10 DEF c

\* What is decoded of a chunk.
LEMMA SigmaDecodes ==
    ASSUME SigmaInv, pc = "callback", ctx.i < ctx.newchunks,
           NEW offset \in 0 .. EVENTS_PER_CLUSTER
    PROVE  SIGMA!ChunkSent(offset) \in Seq(Int)
<1>1. PICK a, b \in Int :
        /\ SIGMA!Clusters = a .. b /\ b - a + 1 = ClustersPerChunk
        /\ SIGMA!Min(SIGMA!Clusters) = a
        /\ 1 <= a /\ b <= SIGMA!NumClusters
  BY SigmaClusters
<1>2. \A j \in a .. b : SIGMA!Ts(j) \in Int
  BY <1>1, SigmaClusters, SigmaConstants
<1>3. /\ ctx.lastts \in Int /\ ctx.lastsample \in Int
      /\ TsRange \in Nat \ {0} /\ EVENTS_PER_CLUSTER \in Nat \ {0}
      /\ ClustersPerChunk \in Nat \ {0}
  BY SigmaConstants DEF SigmaInv, SigmaTypes
<1>4. ASSUME NEW j \in a .. b PROVE SIGMA!Padding(j) \in Seq(Int)
  <2>1. j # a => j - 1 \in a .. b
    BY <1>1
  <2>2. SIGMA!Prev(j) \in Int
    BY <1>1, <1>2, <1>3, <2>1 DEF SIGMA!Prev
  <2>3. SIGMA!TsDiff(j) \in Int
    BY <1>2, <1>3, <2>2 DEF SIGMA!TsDiff
  <2>4. SIGMA!LastSample(j) \in Int
    <3>1. j - 1 \in Int
      OBVIOUS
    <3>2. SIGMA!Last(SIGMA!Events(j - 1)) \in Int
      BY <3>1, SigmaEvents
    <3> QED BY <1>3, <3>2 DEF SIGMA!LastSample
  <2> DEFINE d == SIGMA!TsDiff(j) - EVENTS_PER_CLUSTER
             m == SIGMA!Max({0, d})
             x == SIGMA!LastSample(j)
  <2>5. d \in Int
    BY <1>3, <2>3
  <2> HIDE DEF d
  <2>6. m \in Nat
    BY <2>5, SigmaGreatest
  <2>7. SIGMA!Padding(j) = [k \in 1 .. m |-> x]
    BY DEF SIGMA!Padding, d
  <2> HIDE DEF m, x
  <2>8. x \in Int
    BY <2>4 DEF x
  <2> QED BY <2>6, <2>7, <2>8
<1> DEFINE D == SIGMA!Decoded
           m == Cardinality(D)
           s == [n \in 1 .. m |-> SIGMA!Padding(a + n - 1) \o
                                  SIGMA!Cluster(a + n - 1, offset)]
<1>5. m \in Nat /\ m <= ClustersPerChunk
  <2>1. D \in SUBSET (a .. b)
    BY <1>1 DEF SIGMA!Decoded
  <2>2. IsFiniteSet(a .. b) /\ Cardinality(a .. b) = IF a > b THEN 0 ELSE b - a + 1
    BY FS_Interval
  <2> HIDE DEF D
  <2>3. IsFiniteSet(D) /\ Cardinality(D) <= Cardinality(a .. b)
    BY <2>1, <2>2, FS_Subset
  <2>4. Cardinality(D) \in Nat
    BY <2>3, FS_CardinalityType
  <2>5. Cardinality(a .. b) = ClustersPerChunk
    BY <1>1, <1>3, <2>2
  <2> QED BY <2>3, <2>4, <2>5
<1> HIDE DEF m
<1>6. ASSUME NEW n \in 1 .. m
      PROVE  SIGMA!Padding(a + n - 1) \o SIGMA!Cluster(a + n - 1, offset)
                 \in Seq(Int)
  <2> DEFINE j == a + n - 1
  <2>1. j \in a .. b
    BY <1>1, <1>3, <1>5
  <2>2. j \in Int
    BY <2>1
  <2> HIDE DEF j
  <2>3. SIGMA!Padding(j) \in Seq(Int) /\ SIGMA!Cluster(j, offset) \in Seq(Int)
    BY <1>4, <2>1, <2>2, SigmaMarked
  <2>4. SIGMA!Padding(j) \o SIGMA!Cluster(j, offset) \in Seq(Int)
    BY <2>3
  <2> QED BY <2>4 DEF j
<1>7. s \in [1 .. m -> Seq(Int)]
  BY <1>6
<1>8. SIGMA!ChunkSent(offset) = SIGMA!FlattenSeq(s)
  <2>1. SIGMA!Cardinality(D) = Cardinality(D)
    BY DEF SIGMA!Cardinality, Cardinality
  <2> QED BY <1>1, <2>1 DEF SIGMA!ChunkSent, m
<1> HIDE DEF s
<1> QED BY <1>5, <1>7, <1>8, Flattened


-----------------------------------------------------------------------------
(* asix-sigma: the invariant holds at the start and is kept *)

\* The invariant holds at the start.
LEMMA SigmaBegins == SIGMA!Init => SigmaInv
<1> SUFFICES ASSUME SIGMA!Init PROVE SigmaInv
  OBVIOUS
<1> DEFINE T == {<<>>} \cup [1 .. SIGMA!NumClusters -> Nat]
           W == 0 .. SIGMA!NumClusters * (EVENTS_PER_CLUSTER + 1)
<1>1. /\ pc = "idle" /\ running = FALSE /\ phase = "idle" /\ sent = <<>>
      /\ ctx = [state |-> "IDLE", chunks_downloaded |-> 0, triggerchunk |-> -1,
                first |-> 0, newchunks |-> 0, i |-> 0, lastts |-> 0,
                lastsample |-> 0]
      /\ device = [times |-> <<>>, stoppos |-> 0, triggerpos |-> -1]
  BY DEF SIGMA!Init, SIGMA!AcqInit
<1>2. /\ 0 \in 0 .. NumChunks /\ 0 \in 0 .. ChunksPerRead
      /\ 0 \in 0 .. TsRange - 1 /\ 0 \in W /\ <<>> \in T
  BY SigmaConstants
<1> HIDE DEF T, W
<1>3. device \in [times : T, stoppos : W, triggerpos : Int]
  BY <1>1, <1>2
<1>6. /\ ctx \in [state : {"IDLE", "CAPTURE", "DOWNLOAD"},
                chunks_downloaded : 0 .. NumChunks, triggerchunk : Int,
                first : 0 .. NumChunks, newchunks : 0 .. ChunksPerRead,
                i : Nat, lastts : 0 .. TsRange - 1, lastsample : Int]
      /\ ctx.i <= ctx.newchunks /\ ctx.state = "IDLE"
  BY ONLY <1>1, <1>2
<1>4. SigmaTypes
  BY <1>1, <1>3, <1>6 DEF SigmaTypes, SIGMA!AcqTypeOK, T, W
<1>5. SigmaTold /\ SigmaChunks
  BY <1>1 DEF SigmaTold, SigmaChunks, ToldBeforeLoop
<1> QED BY <1>4, <1>5 DEF SigmaInv

\* A capture begins.
LEMMA SigmaStarts ==
    ASSUME SigmaInv, NEW times \in SIGMA!Recordings, SIGMA!Start(times)
    PROVE  SigmaInv'
<1> DEFINE T == {<<>>} \cup [1 .. SIGMA!NumClusters -> Nat]
           W == 0 .. SIGMA!NumClusters * (EVENTS_PER_CLUSTER + 1)
<1>1. /\ pc = "idle" /\ pc' = "header" /\ running' = running
      /\ phase' = phase /\ sent' = sent
      /\ ctx' = [ctx EXCEPT !.state = "CAPTURE"]
      /\ device' = [device EXCEPT !.times = times]
  BY DEF SIGMA!Start, SIGMA!Starts
<1>2. times \in [1 .. SIGMA!NumClusters -> Nat] /\ times \in T
  BY SigmaTimes
<1>3. device \in [times : T, stoppos : W, triggerpos : Int]
  BY DEF SigmaInv, SigmaTypes
<1> HIDE DEF T, W
<1>4. /\ device' \in [times : T, stoppos : W, triggerpos : Int]
      /\ device'.times = times
  BY ONLY <1>1, <1>2, <1>3
<1>5. SigmaTypes'
  BY <1>1, <1>2, <1>4 DEF SigmaInv, SigmaTypes, SIGMA!AcqTypeOK, T, W
<1>6. SigmaTold' /\ SigmaChunks'
  BY <1>1 DEF SigmaInv, SigmaTold, SigmaChunks, ToldBeforeLoop
<1> QED BY <1>5, <1>6 DEF SigmaInv

\* The device stops, and the memory is downloaded from its start.
LEMMA SigmaStops ==
    ASSUME SigmaInv, pc = "poll", running,
           NEW stoppos \in
               0 .. SIGMA!NumClusters * (EVENTS_PER_CLUSTER + 1),
           NEW triggerpos \in Int, SIGMA!DeviceStops(stoppos, triggerpos),
           ctx.state # "IDLE", pc' = pc, phase' = phase, sent' = sent,
           running' \in BOOLEAN
    PROVE  SigmaInv'
<1> DEFINE T == {<<>>} \cup [1 .. SIGMA!NumClusters -> Nat]
           W == 0 .. SIGMA!NumClusters * (EVENTS_PER_CLUSTER + 1)
           t == IF triggerpos = -1 THEN -1
                ELSE triggerpos \div SIGMA!ChunkWords
<1>1. /\ ctx' = [ctx EXCEPT !.state = "DOWNLOAD", !.chunks_downloaded = 0,
                            !.triggerchunk = t]
      /\ device' = [device EXCEPT !.stoppos = stoppos,
                                  !.triggerpos = triggerpos]
  BY DEF SIGMA!DeviceStops
<1>2. t \in Int /\ 0 \in 0 .. NumChunks
  BY SigmaConstants
<1>3. /\ ctx \in [state : {"IDLE", "CAPTURE", "DOWNLOAD"},
                chunks_downloaded : 0 .. NumChunks, triggerchunk : Int,
                first : 0 .. NumChunks, newchunks : 0 .. ChunksPerRead,
                i : Nat, lastts : 0 .. TsRange - 1, lastsample : Int]
      /\ device \in [times : T, stoppos : W, triggerpos : Int]
      /\ device.times \in [1 .. SIGMA!NumClusters -> Nat]
      /\ stoppos \in W
  BY DEF SigmaInv, SigmaTypes
<1> HIDE DEF T, W, t
<1>4. /\ device' \in [times : T, stoppos : W, triggerpos : Int]
      /\ device'.times = device.times
  BY ONLY <1>1, <1>2, <1>3, triggerpos \in Int
<1>5. /\ ctx' \in [state : {"IDLE", "CAPTURE", "DOWNLOAD"},
                chunks_downloaded : 0 .. NumChunks, triggerchunk : Int,
                first : 0 .. NumChunks, newchunks : 0 .. ChunksPerRead,
                i : Nat, lastts : 0 .. TsRange - 1, lastsample : Int]
      /\ ctx'.i = ctx.i /\ ctx'.newchunks = ctx.newchunks
  BY ONLY <1>1, <1>2, <1>3
<1>6. SigmaTypes'
  BY <1>3, <1>4, <1>5 DEF SigmaInv, SigmaTypes, SIGMA!AcqTypeOK, T, W
<1>7. SigmaTold' /\ SigmaChunks'
  BY DEF SigmaInv, SigmaTold, SigmaChunks, ToldBeforeLoop
<1> QED BY <1>6, <1>7 DEF SigmaInv

\* The steps that change nothing the driver keeps.
LEMMA SigmaQuiet ==
    ASSUME SigmaInv,
           \/ SIGMA!StartFails \/ SIGMA!Session \/ SIGMA!Capturing
           \/ SIGMA!Return
    PROVE  SigmaInv'
<1>1. ctx' = ctx /\ device' = device /\ sent' = sent
  BY DEF SIGMA!StartFails, SIGMA!Session, SIGMA!SendHeader, SIGMA!SendMeta,
         SIGMA!Run, SIGMA!Leave, SIGMA!Capturing, SIGMA!Return,
         SIGMA!SendsNothing
<1>2. SIGMA!AcqTypeOK' /\ pc' # "crashed" /\ pc' # "callback"
  BY DEF SIGMA!StartFails, SIGMA!Session, SIGMA!SendHeader, SIGMA!SendMeta,
         SIGMA!Run, SIGMA!Leave, SIGMA!Capturing, SIGMA!Return,
         SIGMA!SendsNothing, SigmaInv, SigmaTypes, SIGMA!AcqTypeOK,
         SIGMA!InState, SIGMA!Called
<1>3. SigmaTypes'
  BY <1>1, <1>2 DEF SigmaInv, SigmaTypes
<1>4. SigmaTold' /\ SigmaChunks'
  BY <1>1, <1>2 DEF SIGMA!StartFails, SIGMA!Session, SIGMA!SendHeader,
         SIGMA!SendMeta, SIGMA!Run, SIGMA!Leave, SIGMA!Capturing,
         SIGMA!Return, SIGMA!SendsNothing, SigmaInv, SigmaTold, SigmaChunks,
         ToldBeforeLoop, SIGMA!InState, SIGMA!Called
<1> QED BY <1>3, <1>4 DEF SigmaInv

\* The next chunks are read.
LEMMA SigmaReads ==
    ASSUME SigmaInv, SIGMA!ReadChunks
    PROVE  SigmaInv'
<1> DEFINE n == SIGMA!Min({ChunksPerRead,
                           SIGMA!Numchunks - ctx.chunks_downloaded})
           ts == IF ctx.chunks_downloaded = 0
                 THEN (SIGMA!Ts(1) - 1) % TsRange ELSE ctx.lastts
           x == IF ctx.chunks_downloaded = 0 THEN 0 ELSE ctx.lastsample
           c == ctx.chunks_downloaded
<1>1. /\ pc = "poll" /\ running /\ ctx.state = "DOWNLOAD"
      /\ c < SIGMA!Numchunks
      /\ pc' = "callback" /\ device' = device
      /\ phase' = phase /\ running' = running /\ sent' = sent
      /\ ctx' = [ctx EXCEPT !.first = c, !.i = 0, !.newchunks = n,
                            !.lastts = ts, !.lastsample = x]
  BY DEF SIGMA!ReadChunks, SIGMA!InState, SIGMA!Called, SIGMA!SendsNothing
<1>2. /\ ctx \in [state : {"IDLE", "CAPTURE", "DOWNLOAD"},
                chunks_downloaded : 0 .. NumChunks, triggerchunk : Int,
                first : 0 .. NumChunks, newchunks : 0 .. ChunksPerRead,
                i : Nat, lastts : 0 .. TsRange - 1, lastsample : Int]
      /\ device.times \in [1 .. SIGMA!NumClusters -> Nat]
      /\ device.stoppos \in
             0 .. SIGMA!NumClusters * (EVENTS_PER_CLUSTER + 1)
  BY <1>1 DEF SigmaInv, SigmaTypes
<1>3. SIGMA!Numchunks \in 0 .. NumChunks
  BY <1>2, SigmaRecorded DEF SIGMA!Numchunks
<1>4. n \in 0 .. ChunksPerRead /\ c + n <= SIGMA!Numchunks /\ c \in Nat
  <2> DEFINE d == SIGMA!Numchunks - c
  <2>0. c \in Nat /\ SIGMA!Numchunks \in Nat /\ c < SIGMA!Numchunks
    BY <1>1, <1>2, <1>3, SigmaConstants
  <2> HIDE DEF c
  <2>1. d \in Nat /\ ChunksPerRead \in Nat /\ c \in Nat
        /\ SIGMA!Numchunks \in Nat /\ SIGMA!Numchunks = c + d
    BY <2>0, SigmaConstants
  <2> HIDE DEF d
  <2>2. SIGMA!Min({ChunksPerRead, d})
            = IF ChunksPerRead <= d THEN ChunksPerRead ELSE d
    BY <2>1, SigmaLeast
  <2>3. n = SIGMA!Min({ChunksPerRead, d})
    BY DEF c, d
  <2> HIDE DEF n
  <2> QED BY <2>1, <2>2, <2>3
<1>5. ts \in 0 .. TsRange - 1
  <2>1. 1 \in 1 .. SIGMA!NumClusters
    BY SigmaConstants
  <2>2. SIGMA!Ts(1) \in Int
    <3>1. device.times[1] \in Nat
      BY <1>2, <2>1
    <3> QED BY <3>1, SigmaConstants DEF SIGMA!Ts
  <2>3. (SIGMA!Ts(1) - 1) % TsRange \in 0 .. TsRange - 1
    BY <2>2, SigmaConstants
  <2> QED BY <1>2, <2>3
<1>6. x \in Int
  BY <1>2
<1> HIDE DEF n, ts, x, c
<1>7. /\ ctx' \in [state : {"IDLE", "CAPTURE", "DOWNLOAD"},
                chunks_downloaded : 0 .. NumChunks, triggerchunk : Int,
                first : 0 .. NumChunks, newchunks : 0 .. ChunksPerRead,
                i : Nat, lastts : 0 .. TsRange - 1, lastsample : Int]
      /\ ctx'.i = 0 /\ ctx'.newchunks = n /\ ctx'.state = ctx.state
      /\ ctx'.chunks_downloaded = c /\ ctx'.first = c
  BY ONLY <1>1, <1>2, <1>4, <1>5, <1>6 DEF c
<1>8. SigmaTypes'
  <2>1. 0 <= n
    BY <1>4
  <2> QED BY <1>1, <1>7, <2>1 DEF SigmaInv, SigmaTypes, SIGMA!AcqTypeOK
<1>9. SigmaTold'
  BY <1>1, <1>7 DEF SigmaInv, SigmaTold, ToldBeforeLoop
<1>10. SigmaChunks'
  <2>1. SIGMA!Numchunks' = SIGMA!Numchunks
    BY <1>1 DEF SIGMA!Numchunks
  <2>2. c <= c + 0
    BY <1>4
  <2> QED BY <1>1, <1>4, <1>7, <2>1, <2>2 DEF SigmaChunks
<1> QED BY <1>8, <1>9, <1>10 DEF SigmaInv

\* A chunk is decoded and sent; the client may stop the session then.
LEMMA SigmaSends ==
    ASSUME SigmaInv, NEW offset \in 0 .. EVENTS_PER_CLUSTER,
           NEW downloaded, downloaded \in {1, ctx.chunks_downloaded + 1},
           SIGMA!Decodes(offset, downloaded), running' \in BOOLEAN
    PROVE  SigmaInv'
<1> DEFINE D == SIGMA!Decoded
           K == SIGMA!Clusters
           x == IF D = {} THEN ctx.lastsample
                ELSE SIGMA!Last(SIGMA!Events(SIGMA!Max(D)))
           ts == IF D = K THEN SIGMA!Ts(SIGMA!Max(K))
                 ELSE SIGMA!Ts(SIGMA!Min(K \ D))
           c == ctx.chunks_downloaded
           S == SIGMA!ChunkSent(offset)
<1>1. /\ pc = "callback" /\ ctx.i < ctx.newchunks
      /\ sent' = sent \o S /\ phase' = phase
      /\ pc' = pc /\ device' = device
      /\ ctx' = [ctx EXCEPT !.chunks_downloaded = downloaded, !.i = @ + 1,
                            !.lastsample = x, !.lastts = ts]
  BY DEF SIGMA!Decodes
<1>2. /\ c + 1 \in 0 .. NumChunks /\ K # {}
      /\ \A j \in K : SIGMA!Ts(j) \in 0 .. TsRange - 1
      /\ S \in Seq(Int)
  BY <1>1, SigmaClusters, SigmaDecodes
<1>3. PICK a, b \in Int : K = a .. b
  BY <1>1, SigmaClusters
<1>4. D \in SUBSET (a .. b)
  BY <1>3 DEF SIGMA!Decoded
<1>5. /\ ctx \in [state : {"IDLE", "CAPTURE", "DOWNLOAD"},
                chunks_downloaded : 0 .. NumChunks, triggerchunk : Int,
                first : 0 .. NumChunks, newchunks : 0 .. ChunksPerRead,
                i : Nat, lastts : 0 .. TsRange - 1, lastsample : Int]
      /\ sent \in Seq(Int) /\ ctx.i \in Nat /\ ctx.first \in Nat
      /\ ctx.newchunks \in Nat /\ c \in Nat
  BY SigmaConstants DEF SigmaInv, SigmaTypes, SigmaTold, ToldBeforeLoop
<1> HIDE DEF D, K
<1>6. x \in Int
  <2>1. CASE D = {}
    BY <1>5, <2>1
  <2>2. CASE D # {}
    <3>1. SIGMA!Max(D) \in D
      BY <1>4, <2>2, LeastOf
    <3>2. SIGMA!Max(D) \in Int
      <4>1. SIGMA!Max(D) \in a .. b
        BY ONLY <1>4, <3>1
      <4> QED BY ONLY <4>1, a \in Int, b \in Int
    <3> QED BY <2>2, <3>2, SigmaEvents
  <2> QED BY <2>1, <2>2
<1>7. ts \in 0 .. TsRange - 1
  <2>1. CASE D = K
    <3>1. K \in SUBSET (a .. b)
      BY <1>3
    <3>2. SIGMA!Max(K) \in K
      BY <1>2, <3>1, LeastOf
    <3> QED BY <1>2, <2>1, <3>2
  <2>2. CASE D # K
    <3> DEFINE R == K \ D
    <3>1. R \in SUBSET (a .. b) /\ R # {} /\ R \subseteq K
      BY <1>3, <1>4, <2>2
    <3> HIDE DEF R
    <3>2. SIGMA!Min(R) \in K
      BY <3>1, LeastOf
    <3> QED BY <1>2, <2>2, <3>2 DEF R
  <2> QED BY <2>1, <2>2
<1> HIDE DEF x, ts, S
<1>8. /\ ctx' \in [state : {"IDLE", "CAPTURE", "DOWNLOAD"},
                chunks_downloaded : 0 .. NumChunks, triggerchunk : Int,
                first : 0 .. NumChunks, newchunks : 0 .. ChunksPerRead,
                i : Nat, lastts : 0 .. TsRange - 1, lastsample : Int]
      /\ ctx'.i = ctx.i + 1 /\ ctx'.newchunks = ctx.newchunks
      /\ ctx'.state = ctx.state /\ ctx'.chunks_downloaded = downloaded
      /\ ctx'.first = ctx.first
  <2>1. ctx' = [ctx EXCEPT !.chunks_downloaded = downloaded, !.i = ctx.i + 1,
                           !.lastsample = x, !.lastts = ts]
    BY <1>1
  <2>2. ctx.i + 1 \in Nat /\ downloaded \in 0 .. NumChunks
    <3>1. NumChunks \in Nat \ {0} /\ 1 \in 0 .. NumChunks
      BY SigmaConstants
    <3>2. downloaded = 1 \/ downloaded = ctx.chunks_downloaded + 1
      OBVIOUS
    <3>3. ctx.i \in Nat /\ ctx.chunks_downloaded + 1 \in 0 .. NumChunks
      BY <1>2, <1>5
    <3> QED BY ONLY <3>1, <3>2, <3>3
  <2>3. ctx \in [state : {"IDLE", "CAPTURE", "DOWNLOAD"},
                chunks_downloaded : 0 .. NumChunks, triggerchunk : Int,
                first : 0 .. NumChunks, newchunks : 0 .. ChunksPerRead,
                i : Nat, lastts : 0 .. TsRange - 1, lastsample : Int]
    BY ONLY <1>5
  <2>4. /\ ctx'.i = ctx.i + 1 /\ ctx'.newchunks = ctx.newchunks
        /\ ctx'.state = ctx.state /\ ctx'.chunks_downloaded = downloaded
        /\ ctx'.first = ctx.first
    BY ONLY <2>1, <2>3
  <2>5. ctx' \in [state : {"IDLE", "CAPTURE", "DOWNLOAD"},
                chunks_downloaded : 0 .. NumChunks, triggerchunk : Int,
                first : 0 .. NumChunks, newchunks : 0 .. ChunksPerRead,
                i : Nat, lastts : 0 .. TsRange - 1, lastsample : Int]
    BY ONLY <2>1, <2>2, <2>3, <1>6, <1>7
  <2> QED BY ONLY <2>4, <2>5
<1>9. SigmaTypes'
  <2>1. ctx.i + 1 <= ctx.newchunks
    BY <1>1, <1>5
  <2> QED BY <1>1, <1>8, <2>1 DEF SigmaInv, SigmaTypes, SIGMA!AcqTypeOK
<1>10. SigmaTold'
  <2>1. sent' \in Seq(Int)
    BY <1>1, <1>2, <1>5
  <2> QED BY <1>1, <1>8, <2>1 DEF SigmaInv, SigmaTold, ToldBeforeLoop
<1>11. SigmaChunks'
  <2>1. SIGMA!Numchunks' = SIGMA!Numchunks
    BY <1>1 DEF SIGMA!Numchunks
  <2>2. /\ ctx.first + ctx.newchunks <= SIGMA!Numchunks
        /\ c <= ctx.first + ctx.i
    BY <1>1 DEF SigmaInv, SigmaChunks
  <2>3. downloaded <= ctx.first + (ctx.i + 1)
    <3> HIDE DEF c
    <3>1. downloaded \in {1, c + 1}
      BY DEF c
    <3> QED BY <1>5, <2>2, <3>1
  <2> QED BY <1>8, <2>1, <2>2, <2>3 DEF SigmaChunks
<1> QED BY <1>9, <1>10, <1>11 DEF SigmaInv

\* The end is told.
LEMMA SigmaEnds ==
    ASSUME SigmaInv, SIGMA!SendEnd
    PROVE  SigmaInv'
<1>1. /\ pc = "poll" /\ running /\ ctx.state = "DOWNLOAD"
      /\ pc' = pc /\ device' = device /\ running' = FALSE
      /\ phase' = "ended" /\ sent' = sent \o <<>>
      /\ ctx' = [ctx EXCEPT !.state = "IDLE", !.chunks_downloaded = 0]
  BY DEF SIGMA!SendEnd, SIGMA!InState, SIGMA!Called, SIGMA!SendsLast
<1>2. /\ ctx \in [state : {"IDLE", "CAPTURE", "DOWNLOAD"},
                chunks_downloaded : 0 .. NumChunks, triggerchunk : Int,
                first : 0 .. NumChunks, newchunks : 0 .. ChunksPerRead,
                i : Nat, lastts : 0 .. TsRange - 1, lastsample : Int]
      /\ 0 \in 0 .. NumChunks /\ sent \in Seq(Int)
  BY SigmaConstants DEF SigmaInv, SigmaTypes, SigmaTold, ToldBeforeLoop
<1>3. sent' = sent
  BY <1>1, <1>2, NothingSent
<1>4. /\ ctx' \in [state : {"IDLE", "CAPTURE", "DOWNLOAD"},
                chunks_downloaded : 0 .. NumChunks, triggerchunk : Int,
                first : 0 .. NumChunks, newchunks : 0 .. ChunksPerRead,
                i : Nat, lastts : 0 .. TsRange - 1, lastsample : Int]
      /\ ctx'.i = ctx.i /\ ctx'.newchunks = ctx.newchunks
      /\ ctx'.state = "IDLE"
  BY ONLY <1>1, <1>2
<1>5. SigmaTypes'
  BY <1>1, <1>4 DEF SigmaInv, SigmaTypes, SIGMA!AcqTypeOK
<1>6. SigmaTold' /\ SigmaChunks'
  BY <1>1, <1>3 DEF SigmaInv, SigmaTold, SigmaChunks, ToldBeforeLoop
<1> QED BY <1>5, <1>6 DEF SigmaInv

\* Every step keeps the invariant.
LEMMA SigmaKept == SigmaInv /\ SIGMA!Next => SigmaInv'
<1> SUFFICES ASSUME SigmaInv, SIGMA!Next PROVE SigmaInv'
  OBVIOUS
<1>1. CASE \E times \in SIGMA!Recordings : SIGMA!Start(times)
  BY <1>1, SigmaStarts
<1>2. CASE \/ SIGMA!StartFails \/ SIGMA!Session \/ SIGMA!Capturing
           \/ SIGMA!Return
  BY <1>2, SigmaQuiet
<1>3. CASE \/ SIGMA!Stops(SIGMA!TimeIsUp) \/ SIGMA!Stops(SIGMA!UserStop)
  <2>1. PICK stoppos \in 0 .. SIGMA!NumClusters * (EVENTS_PER_CLUSTER + 1) :
          \E triggerpos \in {-1} \cup {p \in 0 .. stoppos - 1 :
                p % SIGMA!ChunkWords = SIGMA!ChunkWords \div 2} :
            \/ SIGMA!TimeIsUp(stoppos, triggerpos)
            \/ SIGMA!UserStop(stoppos, triggerpos)
    BY <1>3 DEF SIGMA!Stops
  <2>2. PICK triggerpos \in Int :
            \/ SIGMA!TimeIsUp(stoppos, triggerpos)
            \/ SIGMA!UserStop(stoppos, triggerpos)
    BY <2>1
  <2>3. /\ pc = "poll" /\ running /\ ctx.state # "IDLE"
        /\ SIGMA!DeviceStops(stoppos, triggerpos) /\ pc' = pc
        /\ phase' = phase /\ sent' = sent /\ running' \in BOOLEAN
    BY <2>2 DEF SIGMA!TimeIsUp, SIGMA!UserStop, SIGMA!InState, SIGMA!Called,
                SIGMA!SendsNothing, SigmaInv, SigmaTypes, SIGMA!AcqTypeOK
  <2> QED BY <2>3, SigmaStops
<1>4. CASE SIGMA!UserStopsDownload
  <2>1. /\ pc = "poll" /\ running /\ ctx.state # "IDLE"
        /\ SIGMA!DeviceStops(device.stoppos, device.triggerpos) /\ pc' = pc
        /\ phase' = phase /\ sent' = sent /\ running' \in BOOLEAN
    BY <1>4 DEF SIGMA!UserStopsDownload, SIGMA!InState, SIGMA!Called
  <2>2. /\ device.stoppos \in
              0 .. SIGMA!NumClusters * (EVENTS_PER_CLUSTER + 1)
        /\ device.triggerpos \in Int
    BY DEF SigmaInv, SigmaTypes
  <2> QED BY <2>1, <2>2, SigmaStops
<1>5. CASE SIGMA!SendEnd
  BY <1>5, SigmaEnds
<1>6. CASE SIGMA!ReadChunks
  BY <1>6, SigmaReads
<1>7. CASE \E offset \in 0 .. EVENTS_PER_CLUSTER :
              SIGMA!DecodeChunk(offset) \/ SIGMA!ClientStops(offset)
  <2>1. running \in BOOLEAN
    BY DEF SigmaInv, SigmaTypes, SIGMA!AcqTypeOK
  <2> QED BY <1>7, <2>1, SigmaSends DEF SIGMA!DecodeChunk, SIGMA!ClientStops
<1> QED BY <1>1, <1>2, <1>3, <1>4, <1>5, <1>6, <1>7, SMTT(30)
     DEF SIGMA!Next, SIGMA!Download

\* The invariant has the types of the module.
LEMMA SigmaTyped == SigmaInv => SIGMA!TypeOK
<1> SUFFICES ASSUME SigmaInv PROVE SIGMA!TypeOK
  OBVIOUS
<1>1. /\ ctx.i \in Nat /\ ctx.newchunks \in 0 .. ChunksPerRead
      /\ ctx.i <= ctx.newchunks
  BY DEF SigmaInv, SigmaTypes
<1>2. ctx.i \in 0 .. ctx.newchunks
  BY <1>1, SigmaConstants
<1> QED BY <1>2 DEF SigmaInv, SigmaTypes, SIGMA!TypeOK

\* asix-sigma keeps to the datafeed, step by step.
LEMMA SigmaFeeds ==
    ASSUME SigmaInv, SIGMA!Next
    PROVE  Feed!Next \/ UNCHANGED Feed!feed
<1>1. sent \in Seq(Int) /\ ToldBeforeLoop
  BY DEF SigmaInv, SigmaTold, ToldBeforeLoop
<1>2. CASE SIGMA!Session
  <2>1. Session
    BY <1>2 DEF Session, SendHeader, SendMeta, Run, Leave, SIGMA!Session,
                SIGMA!SendHeader, SIGMA!SendMeta, SIGMA!Run, SIGMA!Leave
  <2> QED BY <1>1, <2>1, SessionFeeds
<1>3. CASE \E offset \in 0 .. EVENTS_PER_CLUSTER :
              SIGMA!DecodeChunk(offset) \/ SIGMA!ClientStops(offset)
  <2>1. PICK offset \in 0 .. EVENTS_PER_CLUSTER :
              SIGMA!DecodeChunk(offset) \/ SIGMA!ClientStops(offset)
    BY <1>3
  <2> DEFINE S == SIGMA!ChunkSent(offset)
  <2>2. /\ pc = "callback" /\ ctx.i < ctx.newchunks
        /\ phase' = phase /\ sent' = sent \o S
    BY <2>1 DEF SIGMA!DecodeChunk, SIGMA!ClientStops, SIGMA!Decodes
  <2>3. S \in Seq(Int)
    BY <2>2, SigmaDecodes
  <2>4. phase = "open"
    BY <2>2 DEF SigmaInv, SigmaTold
  <2> HIDE DEF S
  <2> QED BY <1>1, <2>2, <2>3, <2>4, FeedsData DEF Feed!Next
<1>4. CASE SIGMA!SendEnd
  <2>1. /\ phase = "open" /\ phase' = "ended" /\ sent' = sent \o <<>>
        /\ <<>> \in Seq(Int)
    BY <1>4 DEF SIGMA!SendEnd, SIGMA!InState, SIGMA!Called, SIGMA!SendsLast,
                SigmaInv, SigmaTold
  <2> QED BY <1>1, <2>1, FeedsEnd DEF Feed!Next
<1>5. CASE \/ \E times \in SIGMA!Recordings : SIGMA!Start(times)
           \/ SIGMA!StartFails \/ SIGMA!Capturing \/ SIGMA!ReadChunks
           \/ SIGMA!Return \/ SIGMA!UserStopsDownload
           \/ SIGMA!Stops(SIGMA!TimeIsUp) \/ SIGMA!Stops(SIGMA!UserStop)
  <2>1. sent' = sent /\ phase' = phase
    BY <1>5 DEF SIGMA!Start, SIGMA!Starts, SIGMA!StartFails,
         SIGMA!Capturing, SIGMA!ReadChunks, SIGMA!Return,
         SIGMA!UserStopsDownload, SIGMA!Stops, SIGMA!TimeIsUp,
         SIGMA!UserStop, SIGMA!SendsNothing
  <2> QED BY <2>1, FeedsNothing
<1> QED BY <1>2, <1>3, <1>4, <1>5 DEF SIGMA!Next, SIGMA!Download

-----------------------------------------------------------------------------
(* asix-sigma: the triggers and the rate *)

TriggerMasks ==
    [risingmask : SUBSET Trigger!Probes, fallingmask : SUBSET Trigger!Probes,
     simplemask : SUBSET Trigger!Probes, simplevalue : SUBSET Trigger!Probes]

Loaded == Trigger!NoFirmware .. 2

TriggerTypes ==
    /\ pc \in {"idle", "configured", "ready", "started"}
    /\ phase = "idle" /\ sent = <<>>
    /\ ctx \in [cur_samplerate : Trigger!Rates \cup {0}, cur_firmware : Loaded,
                trigger : TriggerMasks, use_triggers : BOOLEAN]
    /\ ctx.trigger.simplevalue \subseteq ctx.trigger.simplemask
    /\ DOMAIN device =
           {"firmware", "failed", "asked", "rows", "pin", "falling"}
    /\ device.firmware \in Loaded /\ device.failed \in BOOLEAN

\* Without a failure there is no firmware yet, or that of the rate.
TriggerRate ==
    \/ device.failed
    \/ /\ ctx.cur_samplerate = 0 /\ pc \in {"idle", "configured"}
       /\ ctx.cur_firmware = Trigger!NoFirmware
    \/ /\ ctx.cur_samplerate \in Trigger!Rates
       /\ ctx.cur_firmware = Trigger!Firmware(ctx.cur_samplerate)
       /\ device.firmware = Trigger!Firmware(ctx.cur_samplerate)

TriggerInv == TriggerTypes /\ TriggerRate

\* There is a firmware for each rate.
LEMMA TriggerFirmware ==
    /\ \A rate \in Trigger!Rates :
          /\ Trigger!Firmware(rate) \in Loaded
          /\ Trigger!Firmware(rate) # Trigger!NoFirmware
    /\ Trigger!NoFirmware \in Loaded /\ Trigger!Slow \in Trigger!Rates
BY DEF Trigger!Rates, Trigger!Slow, Trigger!Firmware, Trigger!NoFirmware,
       Loaded

\* The invariant holds at the start.
LEMMA TriggerBegins == Trigger!Init => TriggerInv
<1> SUFFICES ASSUME Trigger!Init PROVE TriggerInv
  OBVIOUS
<1>1. /\ pc = "idle" /\ phase = "idle" /\ sent = <<>>
      /\ ctx = [cur_samplerate |-> 0, cur_firmware |-> Trigger!NoFirmware,
                trigger |-> Trigger!NoMasks, use_triggers |-> FALSE]
      /\ device = [firmware |-> Trigger!NoFirmware, failed |-> FALSE,
                   asked |-> [p \in Trigger!Probes |-> "-"],
                   rows |-> <<>>, pin |-> 0, falling |-> FALSE]
  BY DEF Trigger!Init, Trigger!AcqInit
<1>2. /\ Trigger!NoMasks \in TriggerMasks
      /\ Trigger!NoMasks.simplevalue \subseteq Trigger!NoMasks.simplemask
  BY DEF Trigger!NoMasks, TriggerMasks
<1>3. ctx \in [cur_samplerate : Trigger!Rates \cup {0}, cur_firmware : Loaded,
               trigger : TriggerMasks, use_triggers : BOOLEAN]
  BY <1>1, <1>2, TriggerFirmware
<1>4. /\ DOMAIN device =
             {"firmware", "failed", "asked", "rows", "pin", "falling"}
      /\ device.firmware \in Loaded /\ device.failed \in BOOLEAN
  BY <1>1, TriggerFirmware
<1> QED BY <1>1, <1>2, <1>3, <1>4 DEF TriggerInv, TriggerTypes, TriggerRate

\* A rate is set.
LEMMA TriggerRateSet ==
    ASSUME TriggerInv, NEW rate \in Trigger!Rates,
           NEW upload \in Trigger!Uploads, Trigger!RateSet(rate, upload),
           pc' \in {"idle", "configured", "ready", "started"},
           phase' = phase, sent' = sent
    PROVE  TriggerInv'
<1> DEFINE f == IF upload = "uploaded" THEN Trigger!Firmware(rate)
                ELSE ctx.cur_firmware
           d == CASE upload = "uploaded" -> Trigger!Firmware(rate)
                  [] upload = "unopened" -> device.firmware
                  [] upload = "unanswered" -> Trigger!NoFirmware
           e == upload # "uploaded"
<1>1. /\ ctx' = [ctx EXCEPT !.cur_samplerate = rate, !.cur_firmware = f]
      /\ device' = [device EXCEPT !.firmware = d, !.failed = e]
  BY DEF Trigger!RateSet
<1>2. f \in Loaded /\ d \in Loaded /\ e \in BOOLEAN
  BY TriggerFirmware DEF Trigger!Uploads, TriggerInv, TriggerTypes
<1>3. /\ ctx \in [cur_samplerate : Trigger!Rates \cup {0},
                  cur_firmware : Loaded, trigger : TriggerMasks,
                  use_triggers : BOOLEAN]
      /\ DOMAIN device =
             {"firmware", "failed", "asked", "rows", "pin", "falling"}
  BY DEF TriggerInv, TriggerTypes
<1>4. ~e => f = Trigger!Firmware(rate) /\ d = Trigger!Firmware(rate)
  OBVIOUS
<1> HIDE DEF f, d, e
<1>5. /\ ctx' \in [cur_samplerate : Trigger!Rates \cup {0},
                  cur_firmware : Loaded, trigger : TriggerMasks,
                  use_triggers : BOOLEAN]
      /\ ctx'.cur_samplerate = rate /\ ctx'.cur_firmware = f
      /\ ctx'.trigger = ctx.trigger
  BY <1>1, <1>2, <1>3
<1>6. /\ DOMAIN device' =
             {"firmware", "failed", "asked", "rows", "pin", "falling"}
      /\ device'.firmware = d /\ device'.failed = e
  BY <1>1, <1>3
<1>7. TriggerTypes'
  BY <1>2, <1>5, <1>6 DEF TriggerInv, TriggerTypes
<1>8. TriggerRate'
  BY <1>4, <1>5, <1>6, Zenon DEF TriggerRate
<1> QED BY <1>7, <1>8 DEF TriggerInv

\* The probes are configured.
LEMMA TriggerConfigures ==
    ASSUME TriggerInv, NEW asked \in Trigger!Settings,
           Trigger!ConfigureProbes(asked)
    PROVE  TriggerInv'
<1> DEFINE m == Trigger!MasksOf(asked)
           u == ctx.use_triggers \/ Trigger!UsesTriggers(asked)
<1>1. /\ pc = "idle" /\ pc' \in {"idle", "configured"}
      /\ phase' = phase /\ sent' = sent
      /\ ctx' = [ctx EXCEPT !.trigger = m, !.use_triggers = u]
      /\ device' = [device EXCEPT !.asked = asked]
  BY DEF Trigger!ConfigureProbes
<1>2. m \in TriggerMasks /\ m.simplevalue \subseteq m.simplemask
  BY DEF Trigger!MasksOf, Trigger!With, Trigger!Levels, TriggerMasks
<1>3. /\ ctx \in [cur_samplerate : Trigger!Rates \cup {0},
                  cur_firmware : Loaded, trigger : TriggerMasks,
                  use_triggers : BOOLEAN]
      /\ DOMAIN device =
             {"firmware", "failed", "asked", "rows", "pin", "falling"}
      /\ u \in BOOLEAN
  BY DEF TriggerInv, TriggerTypes
<1> HIDE DEF m, u
<1>4. /\ ctx' \in [cur_samplerate : Trigger!Rates \cup {0},
                  cur_firmware : Loaded, trigger : TriggerMasks,
                  use_triggers : BOOLEAN]
      /\ ctx'.cur_samplerate = ctx.cur_samplerate
      /\ ctx'.cur_firmware = ctx.cur_firmware /\ ctx'.trigger = m
  BY <1>1, <1>2, <1>3
<1>5. /\ DOMAIN device' =
             {"firmware", "failed", "asked", "rows", "pin", "falling"}
      /\ device'.firmware = device.firmware
  BY <1>1, <1>3
<1>6. device'.failed = device.failed
  BY <1>1, <1>3
<1>7. TriggerTypes'
  BY <1>1, <1>2, <1>4, <1>5, <1>6 DEF TriggerInv, TriggerTypes
<1>8. TriggerRate'
  BY <1>1, <1>4, <1>5, <1>6, ZenonT(30) DEF TriggerInv, TriggerRate
<1> QED BY <1>7, <1>8 DEF TriggerInv

\* What the device is told at the start, and forgets.
LEMMA TriggerCaptures ==
    ASSUME TriggerInv, Trigger!Begin \/ Trigger!Over
    PROVE  TriggerInv'
<1>1. \E r, p, f : device' = [device EXCEPT !.rows = r, !.pin = p,
                                            !.falling = f]
  BY ZenonT(30) DEF Trigger!Begin, Trigger!Over
<1>2. PICK r, p, f : device' = [device EXCEPT !.rows = r, !.pin = p,
                                              !.falling = f]
  BY ZenonT(30), <1>1
<1>3. DOMAIN device =
          {"firmware", "failed", "asked", "rows", "pin", "falling"}
  BY DEF TriggerInv, TriggerTypes
<1>4. DOMAIN device' = DOMAIN device /\ device'.firmware = device.firmware
  BY <1>2, <1>3
<1>5. device'.failed = device.failed
  BY <1>2, <1>3
<1>6. /\ ctx' = ctx /\ phase' = phase /\ sent' = sent
      /\ \/ pc = "ready" /\ pc' = "started"
         \/ pc = "started" /\ pc' = "idle"
  BY DEF Trigger!Begin, Trigger!Over
<1>7. TriggerTypes'
  BY <1>4, <1>5, <1>6 DEF TriggerInv, TriggerTypes
<1>8. TriggerRate'
  BY <1>4, <1>5, <1>6 DEF TriggerInv, TriggerRate
<1> QED BY <1>7, <1>8 DEF TriggerInv

\* Every step keeps the invariant.
LEMMA TriggerKept == TriggerInv /\ Trigger!Next => TriggerInv'
<1> SUFFICES ASSUME TriggerInv, Trigger!Next PROVE TriggerInv'
  OBVIOUS
<1>1. CASE \E rate \in Trigger!Rates, upload \in Trigger!Uploads :
               Trigger!SetSamplerate(rate, upload)
  <2>1. PICK rate \in Trigger!Rates, upload \in Trigger!Uploads :
               Trigger!SetSamplerate(rate, upload)
    BY <1>1
  <2>2. /\ Trigger!RateSet(rate, upload) /\ phase' = phase /\ sent' = sent
        /\ pc' \in {"idle", "configured", "ready", "started"}
    BY <2>1 DEF Trigger!SetSamplerate, Trigger!sessionVars
  <2> QED BY <2>2, TriggerRateSet
<1>2. CASE \E asked \in Trigger!Settings : Trigger!ConfigureProbes(asked)
  BY <1>2, TriggerConfigures
<1>3. CASE \E upload \in Trigger!Uploads : Trigger!Default(upload)
  <2>1. PICK upload \in Trigger!Uploads : Trigger!Default(upload)
    BY <1>3
  <2>2. /\ pc = "configured" /\ pc' \in {"idle", "ready"}
        /\ phase' = phase /\ sent' = sent
        /\ Trigger!DefaultRate(upload)
    BY <2>1 DEF Trigger!Default
  <2>3. CASE ctx.cur_firmware = Trigger!NoFirmware
    <3>1. Trigger!RateSet(Trigger!Slow, upload)
      BY <2>2, <2>3 DEF Trigger!DefaultRate
    <3> QED BY <2>2, <3>1, TriggerFirmware, TriggerRateSet
  <2>4. CASE ctx.cur_firmware # Trigger!NoFirmware
    <3>1. ctx' = ctx /\ device' = device
      BY <2>2, <2>4 DEF Trigger!DefaultRate
    <3> QED BY <2>2, <2>4, <3>1 DEF TriggerInv, TriggerTypes, TriggerRate
  <2> QED BY <2>3, <2>4
<1>4. CASE Trigger!Begin \/ Trigger!Over
  BY <1>4, TriggerCaptures
<1> QED BY <1>1, <1>2, <1>3, <1>4 DEF Trigger!Next

\* The invariant has the types of the module.
LEMMA TriggerTyped == TriggerInv => Trigger!TypeOK
<1> SUFFICES ASSUME TriggerInv PROVE Trigger!TypeOK
  OBVIOUS
<1>1. ctx.trigger \in TriggerMasks
  BY DEF TriggerInv, TriggerTypes
<1>2. DOMAIN Trigger!NoMasks =
          {"risingmask", "fallingmask", "simplemask", "simplevalue"}
  BY DEF Trigger!NoMasks
<1>3. \A m \in DOMAIN Trigger!NoMasks : ctx.trigger[m] \subseteq Trigger!Probes
  BY <1>1, <1>2 DEF TriggerMasks
<1> QED BY <1>3 DEF TriggerInv, TriggerTypes, Trigger!TypeOK, Loaded

\* A capture has the firmware of its rate.
LEMMA TriggerFits == TriggerInv => Trigger!FirmwareFits
BY DEF TriggerInv, TriggerRate, Trigger!FirmwareFits

\* No data is sent while triggers are set.
LEMMA TriggerFeeds ==
    ASSUME Trigger!Next
    PROVE  UNCHANGED Feed!feed
BY ZenonT(30), FeedsNothing
   DEF Trigger!Next, Trigger!SetSamplerate, Trigger!ConfigureProbes,
       Trigger!Default, Trigger!Begin, Trigger!Over, Trigger!sessionVars

-----------------------------------------------------------------------------
(* zeroplus-logic-cube *)

ZPFreqs == {ZP!Freq(s) : s \in Samplerates}
ZPRegs == {ZP!FreqRegs(f) : f \in ZPFreqs} \cup {<<>>}
ZPBufs == [1 .. PacketWords -> {ZP!Garbage} \cup 0 .. ZP!Words - 1]

ZPTypes ==
    /\ ZP!AcqTypeOK
    /\ ctx \in [cur_samplerate : Samplerates, freq : ZPFreqs,
                packet_num : 0 .. MemoryPackets, buf : ZPBufs]
    /\ device \in [regs : ZPRegs, pos : Nat, failed : BOOLEAN]

\* The end is told in the start: to a client that stops when it does, to any
\* other behind the last packet.
ZPTold ==
    /\ ToldBeforeLoop
    /\ pc \in {"idle", "header", "meta"} => ctx.packet_num = 0
    /\ pc = "started" => phase = "open"
    /\ phase = "endless" /\ ~device.failed => ctx.packet_num = MemoryPackets

\* No more was read than asked for, and all of it unless a read came short;
\* what was read was sent, in order.
ZPRead ==
    /\ device.pos <= ctx.packet_num * PacketWords
    /\ ~device.failed =>
          device.pos = ctx.packet_num * PacketWords /\ InARow(sent, 0, device.pos)

\* The device has the registers of the rate.
ZPRate ==
    /\ ctx.freq = ZP!Freq(ctx.cur_samplerate)
    /\ pc = "header" \/ phase # "idle" => device.regs = ZP!FreqRegs(ctx.freq)

ZPInv == ZPTypes /\ ZPTold /\ ZPRead /\ ZPRate

\* The memory is made of packets.
LEMMA ZPConstants ==
    /\ PacketWords \in Nat \ {0} /\ MemoryPackets \in Nat \ {0}
    /\ Samplerates \subseteq Nat \ {0} /\ Samplerates # {}
    /\ ZP!Words = MemoryPackets * PacketWords /\ ZP!Words \in Nat \ {0}
<1>1. /\ PacketWords \in Nat \ {0} /\ MemoryPackets \in Nat \ {0}
      /\ Samplerates \subseteq Nat \ {0} /\ Samplerates # {}
  BY DriversAssumption DEF ZP!ZeroplusAssumption
<1>2. PacketWords * MemoryPackets = MemoryPackets * PacketWords
  BY <1>1
<1>3. MemoryPackets * PacketWords \in Nat \ {0}
  BY <1>1
<1> QED BY <1>1, <1>2, <1>3 DEF ZP!Words

\* The slowest rate is one of the rates.
LEMMA ZPSlowest == ZP!Min(Samplerates) \in Samplerates
<1>1. Samplerates \in SUBSET Nat /\ Samplerates # {}
  BY ZPConstants
<1>2. \E x \in Samplerates : \A y \in Samplerates : x <= y
  BY <1>1, Least
<1> QED BY <1>2 DEF ZP!Min

\* What is sent in a packet: the words that were read, and what was in the
\* buffer behind them.
LEMMA ZPPacket ==
    ASSUME ZPInv, NEW res \in 0 .. PacketWords,
           ctx.packet_num < MemoryPackets
    PROVE  LET buf == ZP!Positions(device.pos, res)
                          \o SubSeq(ctx.buf, res + 1, PacketWords)
           IN  /\ buf \in ZPBufs /\ buf \in Seq(Int)
               /\ res = PacketWords => InARow(buf, device.pos, PacketWords)
<1> DEFINE p == Positions(device.pos, res)
           q == SubSeq(ctx.buf, res + 1, PacketWords)
           V == {ZP!Garbage} \cup 0 .. ZP!Words - 1
           P == PacketWords
           pos == device.pos
           lim == ctx.packet_num * P
<1>1. /\ P \in Nat \ {0} /\ pos \in Nat /\ pos <= lim
      /\ ctx.buf \in [1 .. P -> V] /\ ctx.packet_num \in 0 .. MemoryPackets
  BY ZPConstants DEF ZPInv, ZPTypes, ZPRead, ZPBufs
<1>2. lim \in Nat /\ lim + P <= ZP!Words
  <2>1. ctx.packet_num \in Int /\ ctx.packet_num + 1 \in Int
        /\ MemoryPackets \in Int /\ ctx.packet_num + 1 <= MemoryPackets
    BY <1>1, ZPConstants
  <2>2. (ctx.packet_num + 1) * P <= MemoryPackets * P
        /\ (ctx.packet_num + 1) * P = lim + P
    BY SMTT(30), <1>1, <2>1, Transfers
  <2>3. lim \in Nat
    BY <1>1
  <2> QED BY <2>2, <2>3, ZPConstants
<1>3. V \subseteq Int
  BY DEF ZP!Garbage
<1> HIDE DEF V
<1>4. ctx.buf \in Seq(V) /\ Len(ctx.buf) = P
  BY <1>1
<1>5. /\ p \in Seq(Int) /\ Len(p) = res
      /\ \A k \in 1 .. res : p[k] = pos + k - 1
  <2>1. pos \in Int /\ res \in Nat
    BY <1>1
  <2> QED BY <2>1, PositionsProperties
<1>6. p \in Seq(V)
  <2>1. \A k \in 1 .. res : p[k] \in V
    <3> SUFFICES ASSUME NEW k \in 1 .. res PROVE p[k] \in V
      OBVIOUS
    <3>1. pos + k - 1 \in 0 .. ZP!Words - 1
      <4> HIDE DEF lim, P
      <4>1. lim + PacketWords = lim + P /\ ZP!Words \in Nat /\ res \in 0 .. P
        BY ZPConstants DEF P
      <4> QED BY <1>1, <1>2, <4>1
    <3> QED BY <1>5, <3>1 DEF V
  <2>2. p = [k \in 1 .. res |-> p[k]]
    BY DEF Positions
  <2> HIDE DEF p
  <2> QED BY <2>1, <2>2
<1>7. q \in Seq(V) /\ Len(q) = P - res
  <2>1. res + 1 \in Nat \ {0} /\ P \in Nat /\ P <= Len(ctx.buf)
        /\ res + 1 <= P + 1 /\ P + 1 - (res + 1) = P - res
    BY <1>1, <1>4
  <2> QED BY <1>4, <2>1, PartProperties
<1> HIDE DEF p, q
<1>8. p \o q \in Seq(V) /\ Len(p \o q) = P
  <2>1. Len(p) + Len(q) = P /\ Len(p \o q) = Len(p) + Len(q)
    BY <1>1, <1>5, <1>6, <1>7, ConcatProperties
  <2>2. p \o q \in Seq(V)
    BY <1>6, <1>7, ConcatProperties
  <2> QED BY <2>1, <2>2
<1>9. p \o q \in ZPBufs
  <2> DEFINE r == p \o q
  <2> HIDE DEF r
  <2>1. r \in Seq(V) /\ Len(r) = P
    BY <1>8 DEF r
  <2>2. r \in [1 .. P -> V]
    BY <2>1
  <2> QED BY <2>2 DEF r, ZPBufs, V
<1>10. p \o q \in Seq(Int)
  <2> DEFINE r == p \o q
  <2> HIDE DEF r
  <2>1. r \in Seq(V)
    BY <1>8 DEF r
  <2>2. r \in Seq(Int)
    BY <1>3, <2>1, SeqMonotonic
  <2> QED BY <2>2 DEF r
<1>11. ASSUME res = P PROVE InARow(p \o q, pos, P)
  <2>1. q \in Seq(Int) /\ Len(q) = 0
    <3>1. q \in Seq(Int)
      BY <1>3, <1>7, SeqMonotonic
    <3> QED BY <3>1, <1>1, <1>7, <1>11
  <2>2. \A k \in 1 .. Len(p) : (p \o q)[k] = p[k]
    BY <1>5, <2>1, SentAfter
  <2> QED BY <1>5, <1>8, <1>11, <2>2 DEF InARow
<1> QED BY <1>9, <1>10, <1>11 DEF p, q, ZP!Positions, Positions

\* More of the same behind what was sent.
LEMMA RowOnRow ==
    ASSUME NEW s \in Seq(Int), NEW t \in Seq(Int), NEW n \in Nat,
           NEW m \in Nat, InARow(s, 0, n), InARow(t, n, m)
    PROVE  InARow(s \o t, 0, n + m)
<1>1. /\ Len(s) = n /\ Len(t) = m /\ Len(s \o t) = n + m
      /\ \A k \in 1 .. n : (s \o t)[k] = s[k]
      /\ \A k \in 1 .. m : (s \o t)[n + k] = t[k]
  BY SentAfter DEF InARow
<1>2. /\ \A k \in 1 .. n : s[k] = k - 1
      /\ \A k \in 1 .. m : t[k] = n + k - 1
  BY DEF InARow
<1> DEFINE u == s \o t
<1> HIDE DEF u
<1>3. ASSUME NEW k \in 1 .. n + m PROVE u[k] = k - 1
  <2>1. CASE k <= n
    BY <1>1, <1>2, <2>1 DEF u
  <2>2. CASE k > n
    <3> DEFINE j == k - n
    <3>1. j \in 1 .. m /\ n + j = k
      BY <2>2
    <3> HIDE DEF j
    <3>2. u[n + j] = t[j] /\ t[j] = n + j - 1
      BY <1>1, <1>2, <3>1 DEF u
    <3>3. u[k] = n + j - 1
      BY <3>1, <3>2, Zenon
    <3> QED BY <3>1, <3>3
  <2> QED BY <2>1, <2>2
<1>4. Len(u) = n + m
  BY <1>1 DEF u
<1>5. \A k \in 1 .. n + m : u[k] = 0 + k - 1
  BY <1>3
<1> QED BY <1>4, <1>5 DEF InARow, u

\* The invariant holds at the start.
LEMMA ZPBegins == ZP!Init => ZPInv
<1> SUFFICES ASSUME ZP!Init PROVE ZPInv
  OBVIOUS
<1> DEFINE r == ZP!Min(Samplerates)
           f == ZP!Freq(r)
           b == [k \in 1 .. PacketWords |-> ZP!Garbage]
<1>1. /\ pc = "idle" /\ running = FALSE /\ phase = "idle" /\ sent = <<>>
      /\ ctx = [cur_samplerate |-> r, freq |-> f, packet_num |-> 0, buf |-> b]
      /\ device = [regs |-> <<>>, pos |-> 0, failed |-> FALSE]
  BY DEF ZP!Init, ZP!AcqInit
<1>2. r \in Samplerates /\ f \in ZPFreqs
  BY ZPSlowest DEF ZPFreqs
<1>3. b \in ZPBufs
  BY DEF ZPBufs
<1>4. 0 \in 0 .. MemoryPackets /\ 0 * PacketWords = 0 /\ <<>> \in ZPRegs
  BY ZPConstants DEF ZPRegs
<1>5. f = ZP!Freq(r)
  OBVIOUS
<1> HIDE DEF r, f, b
<1>6. ZPTypes
  BY <1>1, <1>2, <1>3, <1>4 DEF ZPTypes, ZP!AcqTypeOK
<1>7. ZPTold
  BY <1>1 DEF ZPTold, ToldBeforeLoop
<1>8. ZPRead
  BY <1>1, <1>4 DEF ZPRead, InARow
<1>9. ZPRate
  BY <1>1, <1>5 DEF ZPRate
<1> QED BY <1>6, <1>7, <1>8, <1>9 DEF ZPInv

\* Every step of the session keeps the invariant, and so does the end.
LEMMA ZPQuiet ==
    ASSUME ZPInv,
           \/ ZP!StartFails \/ ZP!SendHeader \/ ZP!SendMeta
           \/ ZP!BufferFails \/ ZP!SendEnd
    PROVE  ZPInv'
<1>1. sent' = sent
  BY NothingSent
     DEF ZP!StartFails, ZP!SendHeader, ZP!SendMeta, ZP!BufferFails,
         ZP!SendEnd, ZP!SendsEnd, ZPInv, ZPTold, ToldBeforeLoop
<1>2. ctx' = ctx /\ device' = device
  BY DEF ZP!StartFails, ZP!SendHeader, ZP!SendMeta, ZP!BufferFails,
         ZP!SendEnd
<1>3. ZPTypes'
  BY <1>2
     DEF ZP!StartFails, ZP!SendHeader, ZP!SendMeta, ZP!BufferFails,
         ZP!SendEnd, ZP!SendsEnd, ZPInv, ZPTypes, ZP!AcqTypeOK
<1>4. ZPTold'
  BY <1>1, <1>2
     DEF ZP!StartFails, ZP!SendHeader, ZP!SendMeta, ZP!BufferFails,
         ZP!SendEnd, ZP!SendsEnd, ZPInv, ZPTold, ToldBeforeLoop
<1>5. ZPRead'
  BY <1>1, <1>2 DEF ZPInv, ZPRead
<1>6. ZPRate'
  BY <1>2
     DEF ZP!StartFails, ZP!SendHeader, ZP!SendMeta, ZP!BufferFails,
         ZP!SendEnd, ZP!SendsEnd, ZPInv, ZPRate, ZPTold, ToldBeforeLoop
<1> QED BY <1>3, <1>4, <1>5, <1>6 DEF ZPInv

\* A client that stops at the header, or while the packets come.
LEMMA ZPStops ==
    ASSUME ZPInv, ZP!ClientStops \/ ZP!StopsAtHeader
    PROVE  ZPInv'
<1>1. /\ pc \in {"meta", "started"} /\ pc' = "crashed" /\ ctx' = ctx
      /\ phase' = "endless" /\ running' = FALSE /\ sent' = sent \o <<>>
      /\ device' = [device EXCEPT !.failed = TRUE]
  BY DEF ZP!ClientStops, ZP!StopsAtHeader, ZP!StopsEarly, ZP!SendsEnd
<1>2. sent' = sent /\ phase # "idle"
  BY <1>1, NothingSent DEF ZPInv, ZPTold, ToldBeforeLoop
<1>3. /\ device' \in [regs : ZPRegs, pos : Nat, failed : BOOLEAN]
      /\ device'.failed = TRUE /\ device'.pos = device.pos
      /\ device'.regs = device.regs
  BY <1>1 DEF ZPInv, ZPTypes
<1>4. ZPTypes'
  BY <1>1, <1>3 DEF ZPInv, ZPTypes, ZP!AcqTypeOK
<1>5. ZPTold'
  BY <1>1, <1>2, <1>3 DEF ZPInv, ZPTold, ToldBeforeLoop
<1>6. ZPRead'
  BY <1>1, <1>3 DEF ZPInv, ZPRead
<1>7. ZPRate'
  BY <1>1, <1>2, <1>3 DEF ZPInv, ZPRate
<1> QED BY <1>4, <1>5, <1>6, <1>7 DEF ZPInv

\* A new rate, and its registers when the device is started.
LEMMA ZPSets ==
    ASSUME ZPInv,
           ZP!Start \/ \E rate \in Samplerates : ZP!SetSamplerate(rate)
    PROVE  ZPInv'
<1>1. CASE ZP!Start
  <2> DEFINE r == ZP!FreqRegs(ctx.freq)
  <2>1. /\ pc = "idle" /\ pc' = "header" /\ ctx' = ctx /\ phase' = phase
        /\ running' = running /\ sent' = sent
        /\ device' = [device EXCEPT !.regs = r]
    BY <1>1 DEF ZP!Start, ZP!Starts
  <2>2. r \in ZPRegs
    BY DEF ZPInv, ZPTypes, ZPRegs
  <2>3. r = ZP!FreqRegs(ctx.freq)
    OBVIOUS
  <2> HIDE DEF r
  <2>4. /\ device' \in [regs : ZPRegs, pos : Nat, failed : BOOLEAN]
        /\ device'.failed = device.failed /\ device'.pos = device.pos
        /\ device'.regs = r
    BY <2>1, <2>2 DEF ZPInv, ZPTypes
  <2>5. ZPTypes'
    BY <2>1, <2>4 DEF ZPInv, ZPTypes, ZP!AcqTypeOK
  <2>6. ZPTold'
    BY <2>1, <2>4 DEF ZPInv, ZPTold, ToldBeforeLoop
  <2>7. ZPRead'
    BY <2>1, <2>4 DEF ZPInv, ZPRead
  <2>8. ZPRate'
    BY <2>1, <2>3, <2>4 DEF ZPInv, ZPRate
  <2> QED BY <2>5, <2>6, <2>7, <2>8 DEF ZPInv
<1>2. ASSUME NEW rate \in Samplerates, ZP!SetSamplerate(rate) PROVE ZPInv'
  <2> DEFINE f == ZP!Freq(rate)
  <2>1. /\ pc = "idle" /\ pc' = pc /\ device' = device /\ phase' = phase
        /\ running' = running /\ sent' = sent
        /\ ctx' = [ctx EXCEPT !.cur_samplerate = rate, !.freq = f]
    BY ZenonT(30), <1>2 DEF ZP!SetSamplerate, ZP!sessionVars
  <2>2. f \in ZPFreqs
    BY DEF ZPFreqs
  <2>3. f = ZP!Freq(rate)
    OBVIOUS
  <2> HIDE DEF f
  <2>4. /\ ctx' \in [cur_samplerate : Samplerates, freq : ZPFreqs,
                     packet_num : 0 .. MemoryPackets, buf : ZPBufs]
        /\ ctx'.cur_samplerate = rate /\ ctx'.freq = f
        /\ ctx'.packet_num = ctx.packet_num
    BY <2>1, <2>2 DEF ZPInv, ZPTypes
  <2>5. ZPTypes'
    BY <2>1, <2>4 DEF ZPInv, ZPTypes, ZP!AcqTypeOK
  <2>6. ZPTold'
    BY <2>1, <2>4 DEF ZPInv, ZPTold, ToldBeforeLoop
  <2>7. ZPRead'
    BY <2>1, <2>4 DEF ZPInv, ZPRead
  <2>8. ZPRate'
    BY <2>1, <2>3, <2>4 DEF ZPInv, ZPRate, ZPTold, ToldBeforeLoop
  <2> QED BY <2>5, <2>6, <2>7, <2>8 DEF ZPInv
<1> QED BY <1>1, <1>2

\* A packet.
LEMMA ZPReads ==
    ASSUME ZPInv, NEW res \in 0 .. PacketWords, ZP!ReadPacket(res)
    PROVE  ZPInv'
<1> DEFINE buf == ZP!Positions(device.pos, res)
                     \o SubSeq(ctx.buf, res + 1, PacketWords)
           n == ctx.packet_num
           P == PacketWords
           lim == n * P
<1>1. /\ pc = "started" /\ n < MemoryPackets /\ pc' = pc /\ phase' = phase
      /\ running' = running /\ sent' = sent \o buf
      /\ ctx' = [ctx EXCEPT !.buf = buf, !.packet_num = n + 1]
      /\ device' = [device EXCEPT !.pos = device.pos + res,
                        !.failed = device.failed \/ res < PacketWords]
  BY DEF ZP!ReadPacket, ZP!Sends
<1>2. /\ buf \in ZPBufs /\ buf \in Seq(Int)
      /\ res = PacketWords => InARow(buf, device.pos, PacketWords)
  BY <1>1, ZPPacket
<1> HIDE DEF buf
<1>3. n + 1 \in 0 .. MemoryPackets
  BY <1>1, ZPConstants DEF ZPInv, ZPTypes
<1>4. /\ ctx' \in [cur_samplerate : Samplerates, freq : ZPFreqs,
                   packet_num : 0 .. MemoryPackets, buf : ZPBufs]
      /\ ctx'.cur_samplerate = ctx.cur_samplerate /\ ctx'.freq = ctx.freq
      /\ ctx'.packet_num = n + 1
  BY <1>1, <1>2, <1>3 DEF ZPInv, ZPTypes
<1>5. /\ device.pos \in Nat /\ device.failed \in BOOLEAN
      /\ device \in [regs : ZPRegs, pos : Nat, failed : BOOLEAN]
  BY DEF ZPInv, ZPTypes
<1>6. /\ device.pos + res \in Nat
      /\ (device.failed \/ res < PacketWords) \in BOOLEAN
  BY <1>5
<1> DEFINE x == device.failed \/ res < PacketWords
<1> HIDE DEF x
<1>7. /\ device' \in [regs : ZPRegs, pos : Nat, failed : BOOLEAN]
      /\ device'.pos = device.pos + res /\ device'.failed = x
      /\ device'.regs = device.regs
  BY <1>1, <1>5, <1>6 DEF x
<1>8. ZPTypes'
  BY <1>1, <1>4, <1>7 DEF ZPInv, ZPTypes, ZP!AcqTypeOK
<1>9. ~x => ~device.failed /\ res = PacketWords
  BY ZPConstants DEF x
<1>10. ZPTold'
  <2>1. sent' \in Seq(Int)
    BY <1>1, <1>2, SentAfter DEF ZPInv, ZPTold, ToldBeforeLoop
  <2> QED BY <1>1, <1>4, <2>1 DEF ZPInv, ZPTold, ToldBeforeLoop
<1>11. ZPRead'
  <2>1. lim \in Nat /\ (n + 1) * P = lim + P /\ P \in Nat
    <3>1. n \in Int /\ P \in Nat \ {0} /\ n \in Nat
      BY ZPConstants DEF ZPInv, ZPTypes
    <3> QED BY <3>1, Transfers
  <2>2. device.pos <= lim /\ (~device.failed => device.pos = lim)
    BY DEF ZPInv, ZPRead
  <2>3. device'.pos <= lim + P
    <3> HIDE DEF lim
    <3> QED BY <1>5, <1>7, <2>1, <2>2
  <2>4. ASSUME ~x
        PROVE  device'.pos = lim + P /\ InARow(sent', 0, device'.pos)
    <3>1. ~device.failed /\ res = P /\ device.pos = lim
      BY <1>9, <2>2, <2>4
    <3>2. InARow(sent, 0, lim) /\ InARow(buf, lim, P)
      BY <1>2, <3>1 DEF ZPInv, ZPRead
    <3>3. sent \in Seq(Int)
      BY DEF ZPInv, ZPTold, ToldBeforeLoop
    <3> HIDE DEF lim, P
    <3>4. InARow(sent \o buf, 0, lim + P)
      BY <1>2, <2>1, <3>2, <3>3, RowOnRow
    <3> QED BY <1>1, <1>7, <3>1, <3>4
  <2>5. ctx'.packet_num * PacketWords = lim + P
    BY <1>4, <2>1
  <2> HIDE DEF lim, P
  <2> QED BY <1>7, <2>3, <2>4, <2>5 DEF ZPRead
<1>12. ZPRate'
  BY <1>1, <1>4, <1>7 DEF ZPInv, ZPRate
<1> QED BY <1>8, <1>10, <1>11, <1>12 DEF ZPInv

\* Every step keeps the invariant.
LEMMA ZPKept == ZPInv /\ ZP!Next => ZPInv'
BY ZPQuiet, ZPStops, ZPSets, ZPReads DEF ZP!Next, ZP!Reading

\* The invariant has the types of the module.
LEMMA ZPTyped == ZPInv => ZP!TypeOK
<1> SUFFICES ASSUME ZPInv PROVE ZP!TypeOK
  OBVIOUS
<1>1. device.pos \in 0 .. ZP!Words
  <2>1. /\ ctx.packet_num \in Int /\ MemoryPackets \in Int
        /\ ctx.packet_num <= MemoryPackets /\ PacketWords \in Nat \ {0}
    BY ZPConstants DEF ZPInv, ZPTypes
  <2>2. /\ ctx.packet_num * PacketWords <= MemoryPackets * PacketWords
        /\ ctx.packet_num * PacketWords \in Int
    BY <2>1, Transfers
  <2>3. device.pos \in Nat /\ device.pos <= ctx.packet_num * PacketWords
    BY DEF ZPInv, ZPTypes, ZPRead
  <2> QED BY <2>2, <2>3, ZPConstants
<1> QED BY <1>1 DEF ZPInv, ZPTypes, ZPBufs, ZP!TypeOK

\* zeroplus-logic-cube keeps to the datafeed up to its end, step by step.
LEMMA ZPFeeds ==
    ASSUME ZPInv, ZP!Next, driver = "zeroplus"
    PROVE  Feed!Next \/ EndsAgain \/ UNCHANGED Feed!feed
<1>1. sent \in Seq(Int) /\ ToldBeforeLoop
  BY DEF ZPInv, ZPTold, ToldBeforeLoop
<1>2. CASE ZP!SendHeader \/ ZP!SendMeta
  <2>1. Session
    BY SMTT(30), <1>2 DEF Session, SendHeader, SendMeta, ZP!SendHeader,
                ZP!SendMeta
  <2> QED BY <1>1, <2>1, SessionFeeds
<1>3. CASE \E res \in 0 .. PacketWords : ZP!ReadPacket(res)
  <2>1. PICK res \in 0 .. PacketWords : ZP!ReadPacket(res)
    BY <1>3
  <2> DEFINE buf == ZP!Positions(device.pos, res)
                       \o SubSeq(ctx.buf, res + 1, PacketWords)
  <2>2. /\ ctx.packet_num < MemoryPackets /\ pc = "started"
        /\ sent' = sent \o buf /\ phase' = phase
    BY <2>1 DEF ZP!ReadPacket, ZP!Sends
  <2>3. buf \in Seq(Int)
    BY <2>2, ZPPacket
  <2> HIDE DEF buf
  <2>4. phase = "open"
    BY <2>2 DEF ZPInv, ZPTold
  <2> QED BY <1>1, <2>2, <2>3, <2>4, FeedsData DEF Feed!Next
<1>4. CASE ZP!SendEnd \/ ZP!ClientStops \/ ZP!StopsAtHeader
  <2>1. /\ phase \in {"header", "open"} /\ phase' = "endless"
        /\ sent' = sent \o <<>> /\ <<>> \in Seq(Int)
    BY <1>4 DEF ZP!SendEnd, ZP!ClientStops, ZP!StopsAtHeader, ZP!StopsEarly,
                ZP!SendsEnd, ZPInv, ZPTold, ToldBeforeLoop
  <2> QED BY <1>1, <2>1, FeedsEndless
<1>5. CASE \/ \E rate \in Samplerates : ZP!SetSamplerate(rate)
           \/ ZP!Start \/ ZP!StartFails \/ ZP!BufferFails
  BY ZenonT(30), <1>5, FeedsNothing
     DEF ZP!SetSamplerate, ZP!sessionVars, ZP!Start, ZP!Starts,
         ZP!StartFails, ZP!BufferFails
<1> QED BY <1>2, <1>3, <1>4, <1>5 DEF ZP!Next, ZP!Reading

-----------------------------------------------------------------------------
(* zeroplus-logic-cube: the rates *)

\* supported_samplerates.
SlowRates == {100, 500, 1000, 5000, 25000, 50000, 100000, 200000, 400000}
FastRates == {800000, 1000000, 10000000, 25000000, 50000000, 80000000,
              100000000, 150000000, 200000000}
SupportedRates == SlowRates \cup FastRates

\* The registers that a rate is given, in one number.
RegsOf(rate) == ZP!FreqRegs(ZP!Freq(rate))
Coded(regs) == 10000 * regs[1] + 100 * regs[2] + regs[3]

\* The registers of the rates: those of the slow ones.
LEMMA SlowRegisters ==
    /\ Coded(RegsOf(100)) = 50868
    /\ Coded(RegsOf(500)) = 100564
    /\ Coded(RegsOf(1000)) = 50564
    /\ Coded(RegsOf(5000)) = 51050
    /\ Coded(RegsOf(25000)) = 52549
    /\ Coded(RegsOf(50000)) = 50533
    /\ Coded(RegsOf(100000)) = 50532
    /\ Coded(RegsOf(200000)) = 51032
    /\ Coded(RegsOf(400000)) = 52032
BY SMTT(30) DEF RegsOf, Coded, ZP!Freq, ZP!FreqRegs, ZP!HzRegs, ZP!KhzRegs, ZP!MhzRegs,
       ZP!KHZ, ZP!MHZ

\* The registers of the fast ones.
LEMMA FastRegisters ==
    /\ Coded(RegsOf(800000)) = 50817
    /\ Coded(RegsOf(1000000)) = 50564
    /\ Coded(RegsOf(10000000)) = 50501
    /\ Coded(RegsOf(25000000)) = 52501
    /\ Coded(RegsOf(50000000)) = 21000
    /\ Coded(RegsOf(80000000)) = 21600
    /\ Coded(RegsOf(100000000)) = 11000
    /\ Coded(RegsOf(150000000)) = 11500
    /\ Coded(RegsOf(200000000)) = 12000
BY DEF RegsOf, Coded, ZP!Freq, ZP!FreqRegs, ZP!HzRegs, ZP!KhzRegs, ZP!MhzRegs,
       ZP!KHZ, ZP!MHZ

\* No two have the same, but for 1 kHz and 1 MHz, which are not in the table.
LEMMA RatesApart ==
    ASSUME NEW s \in SupportedRates, NEW t \in SupportedRates,
           RegsOf(s) = RegsOf(t)
    PROVE  s = t \/ {s, t} = ZP!NotInTable
<1>1. Coded(RegsOf(s)) = Coded(RegsOf(t))
  OBVIOUS
<1>2. s = t \/ (s = 1000 /\ t = 1000000) \/ (s = 1000000 /\ t = 1000)
  BY <1>1, SlowRegisters, FastRegisters
     DEF SupportedRates, SlowRates, FastRates
<1> QED BY <1>2 DEF ZP!NotInTable, ZP!KHZ, ZP!MHZ

\* What was recorded is what is sent, at the rate that is told.
LEMMA ZPAsTold ==
    ASSUME Samplerates \subseteq SupportedRates, ZPInv
    PROVE  ZP!RecordedAsTold
<1>1. ASSUME phase = "open", NEW s \in Samplerates,
             device.regs = ZP!FreqRegs(ZP!Freq(s))
      PROVE  \/ s = ctx.cur_samplerate
             \/ {s, ctx.cur_samplerate} = ZP!NotInTable
  <2>2. RegsOf(s) = RegsOf(ctx.cur_samplerate)
    BY <1>1 DEF ZPInv, ZPRate, RegsOf
  <2>3. s \in SupportedRates /\ ctx.cur_samplerate \in SupportedRates
    BY DEF ZPInv, ZPTypes
  <2> QED BY <2>2, <2>3, RatesApart
<1>2. ASSUME phase = "endless", ~device.failed
      PROVE  sent = ZP!Positions(0, ZP!Words)
  <2>1. ctx.packet_num = MemoryPackets
    BY <1>2 DEF ZPInv, ZPTold
  <2>2. InARow(sent, 0, ZP!Words) /\ sent \in Seq(Int)
    BY <1>2, <2>1, ZPConstants DEF ZPInv, ZPRead, ZPTold, ToldBeforeLoop
  <2> DEFINE p == Positions(0, ZP!Words)
  <2>3. /\ p \in Seq(Int) /\ Len(p) = ZP!Words
        /\ \A k \in 1 .. ZP!Words : p[k] = 0 + k - 1
    BY ZPConstants, PositionsProperties
  <2>4. p = ZP!Positions(0, ZP!Words)
    BY DEF Positions, ZP!Positions
  <2> HIDE DEF p
  <2>5. \A k \in 1 .. Len(sent) : sent[k] = p[k]
    BY <2>2, <2>3 DEF InARow
  <2>6. sent = p
    BY <2>2, <2>3, <2>5, SeqEqual DEF InARow
  <2> QED BY <2>4, <2>6
<1> QED BY <1>1, <1>2 DEF ZP!RecordedAsTold

-----------------------------------------------------------------------------
(* All drivers: a step that changes nothing keeps their invariants *)

\* hantek-dso.
LEMMA HantekStays == HantekInv /\ UNCHANGED acqVars => HantekInv'
<1> SUFFICES ASSUME HantekInv, UNCHANGED acqVars PROVE HantekInv'
  OBVIOUS
<1>1. /\ pc' = pc /\ running' = running /\ ctx' = ctx /\ device' = device
      /\ phase' = phase /\ sent' = sent
  BY DEF acqVars
<1>2. HantekTypes' /\ HantekTold'
  BY <1>1 DEF HantekInv, HantekTypes, HantekTold, Hantek!AcqTypeOK,
              ToldBeforeLoop
<1>3. HantekQueue'
  BY <1>1 DEF HantekInv, HantekQueue, Between
<1>4. HantekFrames'
  BY <1>1 DEF HantekInv, HantekFrames, HantekHalfWay, Between, FramesSent,
              AfterTrigger, BeforeTrigger
<1>5. Hantek!FrameRotated'
  BY <1>1 DEF HantekInv, Hantek!FrameRotated, Hantek!Rotated
<1> QED BY <1>2, <1>3, <1>4, <1>5 DEF HantekInv

\* openbench-logic-sniffer.
LEMMA OlsStays == OlsInv /\ UNCHANGED acqVars => OlsInv'
<1> SUFFICES ASSUME OlsInv, UNCHANGED acqVars PROVE OlsInv'
  OBVIOUS
<1>1. /\ pc' = pc /\ running' = running /\ ctx' = ctx /\ device' = device
      /\ phase' = phase /\ sent' = sent
  BY DEF acqVars
<1>2. OlsTypes' /\ OlsTold'
  BY <1>1 DEF OlsInv, OlsTypes, OlsTold, OLS!AcqTypeOK, ToldBeforeLoop
<1>3. OlsBuffer'
  BY <1>1 DEF OlsInv, OlsBuffer
<1>4. OLS!SentInOrder'
  BY <1>1 DEF OlsInv, OLS!SentInOrder, OLS!Recorded
<1> QED BY <1>2, <1>3, <1>4 DEF OlsInv

\* chronovu-la8.
LEMMA La8Stays == La8Inv /\ UNCHANGED acqVars => La8Inv'
<1> SUFFICES ASSUME La8Inv, UNCHANGED acqVars PROVE La8Inv'
  OBVIOUS
<1>1. /\ pc' = pc /\ running' = running /\ ctx' = ctx /\ device' = device
      /\ phase' = phase /\ sent' = sent
  BY DEF acqVars
<1>2. La8Types' /\ La8Told'
  BY <1>1 DEF La8Inv, La8Types, La8Told, LA8!AcqTypeOK, ToldBeforeLoop
<1>3. La8InPlace' /\ La8Sending'
  BY <1>1 DEF La8Inv, La8InPlace, La8Sending
<1>4. LA8!SentInOrder'
  BY <1>1 DEF La8Inv, LA8!SentInOrder, LA8!Expected
<1> QED BY <1>2, <1>3, <1>4 DEF La8Inv

\* asix-sigma, and its set-up.
LEMMA SigmaStays == SigmaInv /\ UNCHANGED acqVars => SigmaInv'
<1> SUFFICES ASSUME SigmaInv, UNCHANGED acqVars PROVE SigmaInv'
  OBVIOUS
<1>1. /\ pc' = pc /\ running' = running /\ ctx' = ctx /\ device' = device
      /\ phase' = phase /\ sent' = sent
  BY DEF acqVars
<1>2. SigmaTypes' /\ SigmaTold'
  BY <1>1 DEF SigmaInv, SigmaTypes, SigmaTold, SIGMA!AcqTypeOK, ToldBeforeLoop
<1>3. SigmaChunks'
  BY <1>1 DEF SigmaInv, SigmaChunks, SIGMA!Numchunks
<1> QED BY <1>2, <1>3 DEF SigmaInv

\* Nor are the triggers of asix-sigma changed by it.
LEMMA TriggerStays == TriggerInv /\ UNCHANGED acqVars => TriggerInv'
BY DEF acqVars, TriggerInv, TriggerTypes, TriggerRate

\* zeroplus-logic-cube.
LEMMA ZPStays == ZPInv /\ UNCHANGED acqVars => ZPInv'
<1> SUFFICES ASSUME ZPInv, UNCHANGED acqVars PROVE ZPInv'
  OBVIOUS
<1>1. /\ pc' = pc /\ running' = running /\ ctx' = ctx /\ device' = device
      /\ phase' = phase /\ sent' = sent
  BY DEF acqVars
<1>2. ZPTypes' /\ ZPTold'
  BY <1>1 DEF ZPInv, ZPTypes, ZPTold, ZP!AcqTypeOK, ToldBeforeLoop
<1>3. ZPRead' /\ ZPRate'
  BY <1>1 DEF ZPInv, ZPRead, ZPRate
<1> QED BY <1>2, <1>3 DEF ZPInv

-----------------------------------------------------------------------------
(* All drivers: the inductive invariant *)

Inv ==
    /\ driver = "hantek-dso" => HantekInv
    /\ driver = "ols" => OlsInv
    /\ driver = "la8" => La8Inv
    /\ driver = "sigma" => SigmaInv
    /\ driver = "sigma triggers" => TriggerInv
    /\ driver = "zeroplus" => ZPInv

\* Each driver's holds at the start, and no other is meant.
LEMMA Begins == Init => Inv
BY HantekBegins, OlsBegins, La8Begins, SigmaBegins, TriggerBegins, ZPBegins,
   Zenon DEF Init, Inv

\* Each driver keeps its own.
LEMMA Kept == Inv /\ [Next]_vars => Inv'
<1> SUFFICES ASSUME Inv, [Next]_vars PROVE Inv'
  OBVIOUS
<1>1. CASE Is("hantek-dso") /\ Hantek!Next
  BY <1>1, HantekKept DEF Is, Inv
<1>2. CASE Is("ols") /\ OLS!Next
  BY <1>2, OlsKept DEF Is, Inv
<1>3. CASE Is("la8") /\ LA8!Next
  BY <1>3, La8Kept DEF Is, Inv
<1>4. CASE Is("sigma") /\ SIGMA!Next
  BY <1>4, SigmaKept DEF Is, Inv
<1>5. CASE Is("sigma triggers") /\ Trigger!Next
  BY ZenonT(30), <1>5, TriggerKept DEF Is, Inv
<1>6. CASE Is("zeroplus") /\ ZP!Next
  BY <1>6, ZPKept DEF Is, Inv
<1>7. CASE UNCHANGED vars
  <2>1. UNCHANGED acqVars /\ driver' = driver
    BY <1>7 DEF vars
  <2> QED
    BY ZenonT(30), <2>1, HantekStays, OlsStays, La8Stays, SigmaStays, TriggerStays,
       ZPStays DEF Inv
<1> QED BY ZenonT(30), <1>1, <1>2, <1>3, <1>4, <1>5, <1>6, <1>7 DEF Next

\* The invariant.
LEMMA Invariant == Spec => []Inv
<1>1. Init => Inv
  BY Begins
<1>2. Inv /\ [Next]_vars => Inv'
  BY Kept
<1> QED BY <1>1, <1>2, PTL DEF Spec

-----------------------------------------------------------------------------
(* All drivers: the theorems *)

\* Every variable has its type in each driver, whatever the sizes of its
\* device, however it is used: no buffer, counter or queue leaves its bounds.
THEOREM TypeCorrect == Spec => []TypeOK
<1>1. Inv => TypeOK
  BY ZenonT(30), HantekTyped, OlsTyped, La8Typed, SigmaTyped, TriggerTyped, ZPTyped
     DEF Inv, TypeOK
<1> QED BY <1>1, Invariant, PTL

\* hantek-dso: a frame that ends is sent from its trigger point on and around,
\* however the trigger point cuts its transfers.
THEOREM FramesRotated == Spec => []FrameRotated
<1>1. Inv => FrameRotated
  BY DEF Inv, FrameRotated, HantekInv
<1> QED BY <1>1, Invariant, PTL

\* ols: raw_sample_buf ends with what was received, turned around.
THEOREM BufferFilled == Spec => []BufferInOrder
<1>1. Inv => BufferInOrder
  BY OlsInOrder DEF Inv, BufferInOrder
<1> QED BY <1>1, Invariant, PTL

\* ols: what is sent is what was recorded, with the trigger mark in its place.
THEOREM OlsAsRecorded == Spec => []RecordedSent
<1>1. Inv => RecordedSent
  BY DEF Inv, RecordedSent, OlsInv
<1> QED BY <1>1, Invariant, PTL

\* chronovu-la8: the whole memory is sent in order of time, with the trigger
\* mark in its place, however the samples are spread over its banks.
THEOREM MemoryAsRecorded == Spec => []MemorySent
<1>1. Inv => MemorySent
  BY DEF Inv, MemorySent, La8Inv
<1> QED BY <1>1, Invariant, PTL

\* What a driver has recorded is what it sends, each sample in its place. For
\* the asix-sigma it is left to the model checker.
THEOREM AsRecorded == Spec => [](driver # "sigma" => SentAsRecorded)
<1>1. Inv /\ driver # "sigma" => SentAsRecorded
  BY ZenonT(30), OlsInOrder
     DEF Inv, SentAsRecorded, FrameRotated, BufferInOrder, RecordedSent,
         MemorySent, SentInTime, HantekInv, OlsInv, La8Inv
<1> QED BY <1>1, Invariant, PTL

\* asix-sigma: the firmware is that of the samplerate.
THEOREM FirmwareOfRate == Spec => []FirmwareFits
<1>1. Inv => FirmwareFits
  BY ZenonT(30), TriggerFits DEF Inv, FirmwareFits
<1> QED BY <1>1, Invariant, PTL

\* zeroplus-logic-cube: the device records at the rate that is told, and what
\* is sent is all that it recorded.
THEOREM ZeroplusAsTold ==
    ASSUME Samplerates \subseteq SupportedRates
    PROVE  Spec => []RecordedAsTold
<1>1. Inv => RecordedAsTold
  BY ZPAsTold DEF Inv, RecordedAsTold
<1> QED BY <1>1, Invariant, PTL

\* What the client has asked for is what the device is set to. For the tables
\* of the asix-sigma's triggers it is left to the model checker.
THEOREM AsAsked ==
    ASSUME Samplerates \subseteq SupportedRates
    PROVE  Spec => [](driver # "sigma triggers" => SetUpAsAsked)
<1>1. Inv /\ driver # "sigma triggers" => SetUpAsAsked
  BY ZenonT(30), ZPAsTold
     DEF Inv, SetUpAsAsked, TriggersAsSet, FirmwareFits, RecordedAsTold
<1> QED BY <1>1, Invariant, PTL

\* A step of any driver is one of the datafeed, or the end of it.
LEMMA Feeds == Inv /\ [Next]_vars => [Feed!Next \/ EndsAgain]_(Feed!feed)
<1> SUFFICES ASSUME Inv, [Next]_vars
             PROVE  (Feed!Next \/ EndsAgain) \/ UNCHANGED Feed!feed
  OBVIOUS
<1>1. CASE Is("hantek-dso") /\ Hantek!Next
  BY <1>1, HantekFeeds DEF Is, Inv
<1>2. CASE Is("ols") /\ OLS!Next
  BY <1>2, OlsFeeds DEF Is, Inv
<1>3. CASE Is("la8") /\ LA8!Next
  BY <1>3, La8Feeds DEF Is, Inv
<1>4. CASE Is("sigma") /\ SIGMA!Next
  BY <1>4, SigmaFeeds DEF Is, Inv
<1>5. CASE Is("sigma triggers") /\ Trigger!Next
  BY ZenonT(30), <1>5, TriggerFeeds DEF Is
<1>6. CASE Is("zeroplus") /\ ZP!Next
  BY <1>6, ZPFeeds DEF Is, Inv
<1>7. CASE UNCHANGED vars
  BY <1>7 DEF vars, acqVars, Feed!feed
<1> QED BY ZenonT(30), <1>1, <1>2, <1>3, <1>4, <1>5, <1>6, <1>7 DEF Next

\* Each driver keeps to the datafeed up to its end, whenever its client stops
\* the session and whatever its device does: header, description, data, and
\* then the end. Behind its end nothing comes from the SIGMA; those of the
\* others do not end.
THEOREM DatafeedUpToTheEnd == Spec => FeedSpec
<1>1. Init => Feed!Init
  <2>1. Init => phase = "idle" /\ sent = <<>>
    BY ZenonT(30) DEF Init, Hantek!Init, Hantek!AcqInit, OLS!Init, OLS!AcqInit,
           LA8!Init, LA8!AcqInit, SIGMA!Init, SIGMA!AcqInit, Trigger!Init,
           Trigger!AcqInit, ZP!Init, ZP!AcqInit
  <2>2. Len(<<>>) = 0
    OBVIOUS
  <2> QED BY <2>1, <2>2, Zenon DEF Feed!Init
<1>2. Inv /\ [Next]_vars => [Feed!Next \/ EndsAgain]_(Feed!feed)
  BY Feeds
<1> QED BY <1>1, <1>2, Invariant, PTL DEF Spec, FeedSpec

=============================================================================
