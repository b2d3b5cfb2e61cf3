----------------------------- MODULE DemoProofs -----------------------------
(***************************************************************************)
(* Proofs about the two threads of Demo.tla, for every rate, limit, buffer *)
(* and pipe and whatever the frontend does: no sample is lost or counted   *)
(* twice on its way through the pipe, no sample beyond the limit is sent,  *)
(* the packets come in the order Datafeed.tla states, and nothing is       *)
(* written after the end of an acquisition that nobody stops.              *)
(***************************************************************************)
EXTENDS MCDemo, TLAPS

\* pending is what a chunk holds between the moment it is counted and the
\* moment it is written; the counter stops at the limit and at the bound.
Counted ==
    /\ thread # "write" => pending = 0 \/ thread = "killed"
    /\ samples_counter <= MaxSamples
    /\ Limit # 0 => samples_counter <= Limit

\* What the frontend has been told, place by place. receive_data() is never
\* called before SR_DF_META_LOGIC or once SR_DF_END was sent.
PhaseFollowsPc ==
    /\ pc \in {"idle", "header"} => phase = "idle"
    /\ pc = "meta" => phase = "header"
    /\ pc \in {"started", "read", "drained"} => phase = "open"
    /\ pc = "poll" /\ running => phase = "open"
    /\ pc \in {"idle", "header", "meta"} => samples = 0
    /\ pc = "idle" => thread = "none"

IInv ==
    /\ TypeOK /\ SamplesConserved /\ pipe <= Capacity
    /\ Counted /\ PhaseFollowsPc

-----------------------------------------------------------------------------
(* The operators *)

\* The least of two numbers is one of them.
LEMMA LeastProperties ==
    ASSUME NEW a \in Int, NEW b \in Int
    PROVE  Least(a, b) = IF a <= b THEN a ELSE b
<1>1. Min({a, b}) = CHOOSE x \in {a, b} : \A y \in {a, b} : x <= y
  BY DEF Min
<1>2. \E x \in {a, b} : \A y \in {a, b} : x <= y
  OBVIOUS
<1>3. Min({a, b}) \in {a, b} /\ \A y \in {a, b} : Min({a, b}) <= y
  BY <1>1, <1>2, Zenon
<1> QED BY <1>3 DEF Least

\* What the rate asks for after a delay is a number.
LEMMA AtRateType ==
    ASSUME NEW d \in Delays
    PROVE  AtRate(d) \in Nat
<1>1. Rate \in Nat /\ d \in Nat /\ Second \in Nat /\ Second > 0
  BY DemoAssumption
<1>2. Rate * d \in Nat
  BY <1>1
<1> DEFINE r == Rate * d
<1> HIDE DEF r
<1>3. r \in Nat
  BY <1>2 DEF r
<1>4. r \div Second \in Nat
  BY <1>1, <1>3
<1> QED BY <1>4 DEF AtRate, r

\* The thread never plans to send more than the limit leaves.
LEMMA ToSendBounded ==
    ASSUME NEW d \in Delays, samples_counter \in Nat,
           samples_counter <= MaxSamples,
           Limit # 0 => samples_counter <= Limit
    PROVE  /\ ToSend(d) \in Nat
           /\ samples_counter + ToSend(d) <= MaxSamples
           /\ Limit # 0 => samples_counter + ToSend(d) <= Limit
<1> DEFINE n == Least(AtRate(d), Bufsize)
           m == IF Limit # 0 THEN Least(n, Limit - samples_counter) ELSE n
<1>1. n \in Nat
  BY AtRateType, LeastProperties, DemoAssumption
<1>2. m \in Nat /\ (Limit # 0 => m <= Limit - samples_counter)
  <2>1. CASE Limit # 0
    <3>1. Limit - samples_counter \in Nat
      BY <2>1, DemoAssumption
    <3>2. Least(n, Limit - samples_counter)
             = IF n <= Limit - samples_counter
               THEN n ELSE Limit - samples_counter
      BY <3>1, <1>1, LeastProperties
    <3> QED BY <2>1, <3>1, <3>2, <1>1
  <2>2. CASE Limit = 0
    BY <2>2, <1>1
  <2> QED BY <2>1, <2>2
<1>3. ToSend(d) = Least(m, MaxSamples - samples_counter)
  BY DEF ToSend
<1> HIDE DEF n, m
<1>4. MaxSamples - samples_counter \in Nat
  BY DemoAssumption
<1>5. ToSend(d) = IF m <= MaxSamples - samples_counter
                  THEN m ELSE MaxSamples - samples_counter
  BY <1>2, <1>3, <1>4, LeastProperties
<1> QED BY <1>2, <1>4, <1>5, DemoAssumption

-----------------------------------------------------------------------------
(* Every step *)

\* The invariant holds at the start.
LEMMA InitInv == Init => IInv
<1> SUFFICES ASSUME Init PROVE IInv
  OBVIOUS
<1>1. 0 \in 0 .. TimeLimit + 1 /\ 0 <= Capacity
  BY DemoAssumption
<1>2. TypeOK
  BY <1>1 DEF Init, TypeOK
<1>3. Counted /\ SamplesConserved
  BY DemoAssumption DEF Init, Counted, SamplesConserved
<1> QED BY <1>1, <1>2, <1>3 DEF Init, IInv, PhaseFollowsPc

\* The steps of the main thread that leave the pipe and the thread alone.
LEMMA MainInv ==
    ASSUME IInv,
           \/ StartNoPipe \/ SendHeader \/ SendMeta \/ Run \/ Poll
           \/ ReadNothing \/ MoreToCome \/ SendEnd \/ UserStop \/ Leave
    PROVE  IInv'
<1> USE DEF StartNoPipe, SendHeader, SendMeta, Run, Poll, ReadNothing,
            MoreToCome, SendEnd, UserStop, Leave, HandlerStops,
            HandlerReturns
<1>1. UNCHANGED <<threadVars, pipe, samples>>
  OBVIOUS
<1>2. TypeOK'
  <2>1. /\ pc' \in {"idle", "header", "meta", "started", "poll", "read",
                    "drained", "done", "killed"}
        /\ phase' \in {"idle", "header", "open", "ended"}
    BY DEF IInv, TypeOK
  <2>2. running' \in BOOLEAN /\ thread_running' \in BOOLEAN /\ read_open' \in BOOLEAN
    BY DEF IInv, TypeOK
  <2> QED BY <1>1, <2>1, <2>2 DEF IInv, TypeOK, threadVars
<1>3. (SamplesConserved /\ pipe <= Capacity /\ Counted)'
  BY <1>1 DEF IInv, SamplesConserved, Counted, threadVars
<1>4. PhaseFollowsPc'
  BY DEF IInv, PhaseFollowsPc
<1> QED BY <1>2, <1>3, <1>4 DEF IInv

\* An acquisition is started, with its thread or without.
LEMMA StartInv == ASSUME IInv, Start \/ StartNoThread PROVE IInv'
<1>1. pending = 0
  BY DEF IInv, Counted, PhaseFollowsPc, Start, StartNoThread
<1> USE DEF Start, StartNoThread
<1>2. TypeOK'
  BY DEF IInv, TypeOK
<1>3. (SamplesConserved /\ pipe <= Capacity /\ PhaseFollowsPc)'
  BY DEF IInv, SamplesConserved, PhaseFollowsPc
<1>4. Counted'
  BY <1>1 DEF IInv, Counted
<1> QED BY <1>2, <1>3, <1>4 DEF IInv

\* One chunk goes from the pipe to the frontend.
LEMMA ReadInv ==
    ASSUME IInv, Read
    PROVE  IInv' /\ samples' >= samples
<1> DEFINE z == Least(pipe, Bufsize)
<1>1. z \in Nat /\ z <= pipe
  BY LeastProperties, DemoAssumption DEF IInv, TypeOK
<1>2. /\ pipe' = pipe - z /\ samples' = samples + z
      /\ UNCHANGED <<pc, read_open, phase, threadVars>>
  BY DEF Read
<1> HIDE DEF z
<1>3. running' \in BOOLEAN /\ thread_running' \in BOOLEAN
  <2>1. CASE HandlerStops
    BY <2>1 DEF HandlerStops
  <2>2. CASE HandlerReturns
    BY <2>2 DEF HandlerReturns, IInv, TypeOK
  <2> QED BY <2>1, <2>2 DEF Read
<1>4. pipe' \in Nat /\ samples' \in Nat
  BY <1>1, <1>2 DEF IInv, TypeOK
<1>5. TypeOK'
  BY <1>2, <1>3, <1>4 DEF IInv, TypeOK, threadVars
<1>6. SamplesConserved' /\ pipe' <= Capacity /\ samples' >= samples
  BY <1>1, <1>2, DemoAssumption
     DEF IInv, TypeOK, SamplesConserved, threadVars
<1>7. Counted'
  BY <1>2 DEF IInv, Counted, threadVars
<1>8. PhaseFollowsPc'
  BY <1>2, <1>3 DEF IInv, PhaseFollowsPc, Read
<1> QED BY <1>5, <1>6, <1>7, <1>8 DEF IInv

\* The thread generates samples.
LEMMA ThreadGenerateInv == ASSUME IInv, ThreadGenerate PROVE IInv'
<1>1. PICK d \in Delays :
         /\ time' = Least(time + d, TimeLimit + 1)
         /\ pending' = ToSend(d)
         /\ samples_counter' = samples_counter + ToSend(d)
         /\ thread' = IF ToSend(d) = 0 THEN "limit" ELSE "write"
  BY DEF ThreadGenerate
<1>2. UNCHANGED <<mainVars, write_open, thread_running, pipe>>
  BY DEF ThreadGenerate
<1>3. /\ samples_counter \in Nat /\ samples_counter <= MaxSamples
      /\ Limit # 0 => samples_counter <= Limit
      /\ pending = 0
  BY DEF IInv, TypeOK, Counted, ThreadGenerate
<1> DEFINE n == ToSend(d)
<1>4. /\ n \in Nat /\ samples_counter + n <= MaxSamples
      /\ Limit # 0 => samples_counter + n <= Limit
  BY <1>3, ToSendBounded
<1>5. time' \in 0 .. TimeLimit + 1
  <2>1. /\ time \in Int /\ time >= 0 /\ d \in Int /\ d >= 0
        /\ TimeLimit \in Int /\ TimeLimit >= 0
    BY DemoAssumption DEF IInv, TypeOK
  <2>2. time' = IF time + d <= TimeLimit + 1 THEN time + d ELSE TimeLimit + 1
    BY <1>1, <2>1, LeastProperties
  <2> QED BY <2>1, <2>2
<1>6. /\ pending' = n /\ samples_counter' = samples_counter + n
      /\ thread' \in {"limit", "write"}
      /\ thread' # "write" => n = 0
  BY <1>1
<1> HIDE DEF n
<1>7. TypeOK'
  BY <1>2, <1>3, <1>4, <1>5, <1>6 DEF IInv, TypeOK, mainVars
<1>8. SamplesConserved' /\ pipe' <= Capacity
  BY <1>2, <1>3, <1>4, <1>6 DEF IInv, TypeOK, SamplesConserved, mainVars
<1>9. Counted'
  BY <1>4, <1>6 DEF Counted
<1>10. PhaseFollowsPc'
  BY <1>2 DEF IInv, PhaseFollowsPc, mainVars, ThreadGenerate
<1> QED BY <1>7, <1>8, <1>9, <1>10 DEF IInv

\* The thread writes what it has generated to the pipe.
LEMMA ThreadWriteInv == ASSUME IInv, ThreadWrite PROVE IInv'
<1>1. /\ pipe + pending <= Capacity /\ pipe' = pipe + pending
      /\ pending' = 0 /\ thread' = "limit"
      /\ UNCHANGED <<mainVars, samples_counter, time, write_open,
                     thread_running>>
  BY DEF ThreadWrite
<1>2. TypeOK'
  BY <1>1 DEF IInv, TypeOK, mainVars
<1>3. SamplesConserved' /\ pipe' <= Capacity
  BY <1>1 DEF IInv, TypeOK, SamplesConserved, mainVars
<1>4. (Counted /\ PhaseFollowsPc)'
  BY <1>1 DEF IInv, Counted, PhaseFollowsPc, mainVars, ThreadWrite
<1> QED BY <1>2, <1>3, <1>4 DEF IInv

\* The steps of the thread that move no sample.
LEMMA ThreadControlInv ==
    ASSUME IInv,
           \/ ThreadWriteBroken \/ ThreadClose \/ ThreadClear \/ ThreadGoOn
           \/ ThreadExit
    PROVE  IInv'
<1> USE DEF ThreadWriteBroken, ThreadClose, ThreadClear, ThreadGoOn,
            ThreadExit, mainVars
<1>1. UNCHANGED <<samples_counter, pending, pipe, time, samples, running,
                  phase, read_open>>
  OBVIOUS
<1>2. TypeOK'
  <2>1. /\ pc' \in {pc, "killed"}
        /\ thread' \in {"clear", "check", "ended", "killed"}
        /\ write_open' \in {write_open, FALSE}
        /\ thread_running' \in {thread_running, FALSE}
    OBVIOUS
  <2> QED BY <1>1, <2>1 DEF IInv, TypeOK
<1>3. (SamplesConserved /\ pipe <= Capacity)'
  BY <1>1 DEF IInv, SamplesConserved
<1>4. Counted'
  BY <1>1 DEF IInv, Counted
<1>5. PhaseFollowsPc'
  BY <1>1 DEF IInv, PhaseFollowsPc
<1> QED BY <1>2, <1>3, <1>4, <1>5 DEF IInv

\* Every step keeps the invariant.
LEMMA NextInv == IInv /\ [Next]_vars => IInv'
<1> SUFFICES ASSUME IInv, [Next]_vars PROVE IInv'
  OBVIOUS
<1>1. CASE Start \/ StartNoThread
  BY <1>1, StartInv
<1>2. CASE \/ StartNoPipe \/ SendHeader \/ SendMeta \/ Run \/ Poll
           \/ ReadNothing \/ MoreToCome \/ SendEnd \/ UserStop \/ Leave
  BY <1>2, MainInv
<1>3. CASE Read
  BY <1>3, ReadInv
<1>4. CASE Thread
  BY <1>4, ThreadGenerateInv, ThreadWriteInv, ThreadControlInv DEF Thread
<1>5. CASE UNCHANGED vars
  BY <1>5 DEF vars, mainVars, threadVars, IInv, TypeOK, SamplesConserved,
              Counted, PhaseFollowsPc
<1> QED BY <1>1, <1>2, <1>3, <1>4, <1>5 DEF Next

\* The invariant holds in every state.
LEMMA Invariant == Spec => []IInv
BY InitInv, NextInv, PTL DEF Spec

-----------------------------------------------------------------------------
(* The theorems *)

\* Every variable has its type, whatever the frontend and the threads do.
THEOREM TypeCorrect == Spec => []TypeOK
<1>1. IInv => TypeOK
  BY DEF IInv
<1> QED BY <1>1, Invariant, PTL

\* No sample is lost, duplicated or counted twice between the thread and the
\* frontend, in any interleaving of the two.
THEOREM NoSampleLostInThePipe == Spec => []SamplesConserved
<1>1. IInv => SamplesConserved
  BY DEF IInv
<1> QED BY <1>1, Invariant, PTL

\* Whatever the rate, no sample beyond the limit reaches the frontend.
THEOREM NeverBeyondTheLimit == Spec => []LimitRespected
<1>1. IInv => LimitRespected
  <2> SUFFICES ASSUME IInv PROVE LimitRespected
    OBVIOUS
  <2>1. /\ samples \in Nat /\ pipe \in Nat /\ pending \in Nat
        /\ samples_counter = samples + pipe + pending
        /\ Limit # 0 => samples_counter <= Limit
        /\ pipe <= Capacity
    BY DEF IInv, TypeOK, SamplesConserved, Counted
  <2>2. samples <= samples_counter
    BY <2>1
  <2> QED BY <2>1, <2>2, DemoAssumption DEF LimitRespected
<1> QED BY <1>1, Invariant, PTL

\* The driver implements the datafeed protocol although the thread runs
\* before the header is sent and after the end.
THEOREM ImplementsDatafeed == Spec => FeedSpec
<1>1. Init => Feed!Init
  BY DEF Init, Feed!Init
<1>2. IInv /\ IInv' /\ [Next]_vars => [Feed!Next]_(Feed!feed)
  <2> SUFFICES ASSUME IInv, IInv', [Next]_vars
               PROVE  Feed!Next \/ UNCHANGED <<phase, samples>>
    BY DEF Feed!feed
  <2>1. CASE \/ Start \/ StartNoPipe \/ StartNoThread \/ Run \/ Poll \/ ReadNothing
             \/ MoreToCome \/ UserStop \/ Leave \/ UNCHANGED vars
    BY <2>1 DEF Start, StartNoPipe, StartNoThread, Run, Poll, ReadNothing, MoreToCome,
                UserStop, Leave, vars, mainVars
  <2>2. CASE SendHeader
    BY <2>2 DEF SendHeader, IInv, PhaseFollowsPc, Feed!Next, Feed!Header
  <2>3. CASE SendMeta
    BY <2>3 DEF SendMeta, IInv, PhaseFollowsPc, Feed!Next, Feed!Meta
  <2>4. CASE Read
    <3>1. samples' >= samples /\ samples' \in Nat
      BY <2>4, ReadInv DEF IInv, TypeOK
    <3>2. phase = "open" /\ UNCHANGED phase
      BY <2>4 DEF Read, IInv, PhaseFollowsPc
    <3> QED BY <3>1, <3>2 DEF Feed!Next, Feed!Data, Feed!MoreSamples
  <2>5. CASE SendEnd
    BY <2>5 DEF SendEnd, IInv, PhaseFollowsPc, Feed!Next, Feed!End
  <2>6. CASE Thread
    BY <2>6 DEF Thread, ThreadGenerate, ThreadWrite, ThreadWriteBroken,
                ThreadClose, ThreadClear, ThreadGoOn, ThreadExit, mainVars
  <2> QED BY <2>1, <2>2, <2>3, <2>4, <2>5, <2>6 DEF Next
<1> QED BY <1>1, <1>2, Invariant, PTL DEF Spec, FeedSpec, Feed!Spec

-----------------------------------------------------------------------------
(* An acquisition that nobody stops *)

\* Only the thread clears thread_running, when it has closed its end of the
\* pipe; until then the other end is open, and SR_DF_END waits for the flag.
Unstopped ==
    /\ pc # "killed" /\ thread # "killed"
    /\ pc = "idle" => thread = "none" /\ phase = "idle"
    /\ thread \in {"write", "limit", "clear"} => thread_running /\ read_open
    /\ thread = "check" /\ thread_running => read_open
    /\ phase = "ended" => ~thread_running

\* Nothing has been started, or stopped.
LEMMA UnstoppedInit == Init => Unstopped
BY DEF Init, Unstopped

\* Every step keeps it, when there is nobody to stop the session.
LEMMA UnstoppedNext ==
    ASSUME ~UserStops, ~StopsOnHeader, ~StopsOnData
    PROVE  Unstopped /\ [Next]_vars => Unstopped'
<1> SUFFICES ASSUME Unstopped, [Next]_vars PROVE Unstopped'
  OBVIOUS
<1>1. CASE Start \/ StartNoPipe \/ StartNoThread
  BY <1>1 DEF Start, StartNoPipe, StartNoThread, threadVars, Unstopped
<1>2. CASE SendHeader \/ SendMeta \/ Run \/ Poll \/ UserStop \/ Leave
  BY <1>2 DEF SendHeader, SendMeta, Run, Poll, UserStop, Leave,
              HandlerReturns, threadVars, Unstopped
<1>3. CASE Read \/ ReadNothing \/ MoreToCome \/ SendEnd
  BY <1>3 DEF Read, ReadNothing, MoreToCome, SendEnd, HandlerStops,
              HandlerReturns, threadVars, Unstopped
<1>4. CASE Thread
  BY <1>4 DEF Thread, ThreadGenerate, ThreadWrite, ThreadWriteBroken,
              ThreadClose, ThreadClear, ThreadGoOn, ThreadExit, mainVars,
              Unstopped
<1>5. CASE UNCHANGED vars
  BY <1>5 DEF vars, mainVars, threadVars, Unstopped
<1> QED BY <1>1, <1>2, <1>3, <1>4, <1>5 DEF Next

\* An acquisition that nobody stops has stopped when it says so: its thread
\* writes nothing after SR_DF_END, whatever the limits, the rate and the pipe.
THEOREM StoppedAtTheEnd ==
    ASSUME ~UserStops, ~StopsOnHeader, ~StopsOnData
    PROVE  Spec => []AcquisitionStopped
<1>1. Unstopped => AcquisitionStopped
  BY DEF Unstopped, AcquisitionStopped
<1> QED BY <1>1, UnstoppedInit, UnstoppedNext, PTL DEF Spec

\* The same of the instance of MCDemo that nobody stops.
LEMMA LimitedNext == Unstopped /\ Limited!Next => Unstopped'
<1> SUFFICES ASSUME Unstopped, Limited!Next PROVE Unstopped'
  OBVIOUS
<1>1. CASE Limited!Start \/ Limited!StartNoPipe \/ Limited!StartNoThread
  BY <1>1 DEF Limited!Start, Limited!StartNoPipe, Limited!StartNoThread,
              Limited!threadVars, Unstopped
<1>2. CASE \/ Limited!SendHeader \/ Limited!SendMeta \/ Limited!Run
           \/ Limited!Poll \/ Limited!UserStop \/ Limited!Leave
  BY <1>2 DEF Limited!SendHeader, Limited!SendMeta, Limited!Run,
              Limited!Poll, Limited!UserStop, Limited!Leave,
              Limited!HandlerReturns, Limited!threadVars, Unstopped
<1>3. CASE \/ Limited!Read \/ Limited!ReadNothing \/ Limited!MoreToCome
           \/ Limited!SendEnd
  BY <1>3 DEF Limited!Read, Limited!ReadNothing, Limited!MoreToCome,
              Limited!SendEnd, Limited!HandlerStops, Limited!HandlerReturns,
              Limited!threadVars, Unstopped
<1>4. CASE Limited!Thread
  BY <1>4 DEF Limited!Thread, Limited!ThreadGenerate, Limited!ThreadWrite,
              Limited!ThreadWriteBroken, Limited!ThreadClose,
              Limited!ThreadClear, Limited!ThreadGoOn, Limited!ThreadExit,
              Limited!mainVars, Unstopped
<1> QED BY <1>1, <1>2, <1>3, <1>4 DEF Limited!Next

\* The thread of the limited instance that TLC runs writes nothing after
\* SR_DF_END, for every limit, buffer and pipe.
THEOREM LimitedIsStopped == MCSpec => []LimitedStopped
<1> DEFINE J == limited => Unstopped
<1>1. MCInit => J
  BY UnstoppedInit DEF MCInit
<1>2. J /\ [MCNext]_<<instance, vars>> => J'
  <2> SUFFICES ASSUME J, [MCNext]_<<instance, vars>>, limited'
               PROVE  Unstopped'
    OBVIOUS
  <2>1. CASE UNCHANGED <<instance, vars>>
    BY <2>1 DEF limited, vars, mainVars, threadVars, Unstopped
  <2>2. CASE MCNext
    BY <2>2, LimitedNext DEF MCNext, limited
  <2> QED BY <2>1, <2>2
<1>3. J => LimitedStopped
  BY DEF Unstopped, LimitedStopped, AcquisitionStopped
<1> QED BY <1>1, <1>2, <1>3, PTL DEF MCSpec
=============================================================================
