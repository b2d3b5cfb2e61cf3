-------------------------- MODULE SigrokCliProofs ---------------------------
(***************************************************************************)
(* Proofs about datafeed_in() of sigrok-cli and the calls nested in it,    *)
(* for every number of devices, every limit and every stack size: the      *)
(* types, what the output gets, and the end of the output.                 *)
(***************************************************************************)
EXTENDS SigrokCli, SequenceTheorems, TLAPS

-----------------------------------------------------------------------------
(* The inductive invariant *)

\* Samples come from the session loop only, never from inside a call.
LogicAtBottom == \A i \in 2 .. Len(stack) : stack[i].at # "logic"

NothingBeforeTheLoop == pc = "start" => stack = <<>> /\ ends = 0

\* An output that was told of the end is closed, or a call that will close
\* it is in progress.
ClosingAfterEnd ==
    ends > 0 =>
        pc # "start" /\ (output => \E i \in 1 .. Len(stack) :
                                      stack[i].at = "close")

\* No dev_acquisition_stop() sends SR_DF_END.
StopsAreSilent == SendsEnd = {}

\* With such drivers the end is handled once, at the bottom of the stack.
EndFramesAlone ==
    /\ ends <= 1
    /\ \A i \in 1 .. Len(stack) :
          stack[i].at = "end" => ends = 0 /\ Len(stack) = 1

Cut(n) == IF Limit # 0 /\ n > Limit THEN Limit ELSE n

\* Samples the output has got and CountSamples has not counted yet.
Uncounted ==
    IF stack # <<>> /\ stack[1].at = "logic" THEN stack[1].n ELSE 0

WrittenSoFar == written = UnitSize * Cut(received_samples + Uncounted)

\* The limit counts samples, the received length bytes: the last packet is
\* cut to the limit where the two are the same, or where there is no limit.
SamplesAreBytes == Limit = 0 \/ SampleSize = 1

IInv ==
    /\ TypeOK /\ LogicAtBottom /\ NothingBeforeTheLoop /\ ClosingAfterEnd
    /\ StopsAreSilent => EndFramesAlone
    /\ SamplesAreBytes => WrittenSoFar

-----------------------------------------------------------------------------
(* The stack *)

\* What a function that returns leaves on the stack.
LEMMA PopProperties ==
    ASSUME NEW s \in Seq(Frame), s # <<>>
    PROVE  /\ Front(s) \in Seq(Frame) /\ Len(s) \in Nat \ {0}
           /\ Len(Front(s)) = Len(s) - 1
           /\ \A i \in 1 .. Len(s) - 1 : Front(s)[i] = s[i]
           /\ Last(s) = s[Len(s)] /\ Last(s) \in Frame
<1>1. Len(s) \in Nat \ {0}
  BY EmptySeq
<1>2. \A i \in 1 .. Len(s) - 1 : s[i] \in Frame
  BY <1>1, ElementOfSeq
<1>3. s[Len(s)] \in Frame
  BY <1>1, ElementOfSeq
<1> DEFINE n == Len(s) - 1
<1>4. /\ SubSeq(s, 1, n) \in Seq(Frame)
      /\ Len(SubSeq(s, 1, n)) = IF 1 <= n THEN n - 1 + 1 ELSE 0
      /\ \A i \in 1 .. n - 1 + 1 : SubSeq(s, 1, n)[i] = s[1 + i - 1]
  <2>1. 1 \in Int /\ n \in Int
    BY <1>1
  <2> HIDE DEF n
  <2> QED BY <2>1, <1>2, SubSeqProperties DEF n
<1>5. \A i \in 1 .. n : SubSeq(s, 1, n)[i] = s[i]
  <2> TAKE i \in 1 .. n
  <2>1. n - 1 + 1 = n /\ 1 + i - 1 = i
    BY <1>1
  <2> QED BY <2>1, <1>4
<1>6. Len(SubSeq(s, 1, n)) = n
  <2>1. n \in Nat
    BY <1>1
  <2> HIDE DEF n
  <2>2. (IF 1 <= n THEN n - 1 + 1 ELSE 0) = n
    BY <2>1
  <2> QED BY <2>2, <1>4
<1> QED BY <1>1, <1>3, <1>4, <1>5, <1>6 DEF Front, Last

\* What a call adds to it.
LEMMA PushProperties ==
    ASSUME NEW s \in Seq(Frame), NEW f \in Frame
    PROVE  /\ s \o <<f>> \in Seq(Frame) /\ s \o <<f>> # <<>>
           /\ Len(s) \in Nat /\ Len(s \o <<f>>) = Len(s) + 1
           /\ \A i \in 1 .. Len(s) : (s \o <<f>>)[i] = s[i]
           /\ (s \o <<f>>)[Len(s) + 1] = f
<1>1. <<f>> \in Seq(Frame) /\ Len(<<f>>) = 1 /\ <<f>>[1] = f
  OBVIOUS
<1>2. Len(s) \in Nat
  BY LenProperties
<1> QED BY <1>1, <1>2, ConcatProperties, EmptySeq

\* The calls in progress have their type.
LEMMA FrameTypes ==
    ASSUME NEW n \in Nat
    PROVE  /\ At("end", n) \in Frame /\ At("close", n) \in Frame
           /\ At("stop", n) \in Frame /\ At("logic", n) \in Frame
BY DEF At, Frame

\* The length of the packet is a number, and what the output has got after it
\* is what it should have, the limit taken into account.
LEMMA OutputLenProperties ==
    ASSUME NEW n \in Nat, received_samples \in Nat, ~Ignored
    PROVE  /\ OutputLen(n) \in Nat
           /\ SamplesAreBytes =>
                 UnitSize * Cut(received_samples) + OutputLen(n)
                    = UnitSize * Cut(received_samples + n)
<1>1. /\ Limit \in Nat /\ SampleSize \in Nat \ {0} /\ UnitSize \in Nat \ {0}
      /\ SampleSize = 1 => UnitSize = 1
  BY CliAssumption
<1>2. n * UnitSize \in Nat
  BY <1>1
<1>3. CASE Limit = 0
  <2>1. UnitSize * (received_samples + n)
           = UnitSize * received_samples + n * UnitSize
    BY <1>1
  <2> QED BY <1>2, <1>3, <2>1 DEF OutputLen, Cut
<1>4. CASE Limit # 0
  <2>1. received_samples < Limit
    BY <1>1, <1>4 DEF Ignored
  <2>2. Limit * SampleSize \in Nat /\ Limit * SampleSize >= Limit
    BY <1>1
  <2>3. OutputLen(n) \in Nat
    <3> DEFINE L == Limit * SampleSize
    <3>1. L \in Nat /\ received_samples < L
      BY <1>1, <2>1, <2>2
    <3> HIDE DEF L
    <3>2. L - received_samples \in Nat
      BY <3>1
    <3> QED BY <1>2, <3>2 DEF OutputLen, L
  <2>4. CASE SampleSize = 1
    BY <1>1, <1>4, <2>1, <2>3, <2>4 DEF OutputLen, Cut
  <2> QED BY <1>4, <2>3, <2>4 DEF SamplesAreBytes
<1> QED BY <1>3, <1>4

-----------------------------------------------------------------------------
(* The steps *)

\* The invariant holds at the start.
LEMMA InitInv == Init => IInv
<1> SUFFICES ASSUME Init PROVE IInv
  OBVIOUS
<1>1. /\ stack \in Seq(Frame) /\ Len(stack) = 0
      /\ \A i \in 1 .. Len(stack) : stack[i] # stack[i]
  BY EmptySeq DEF Init
<1>2. TypeOK
  <2>1. NumDevs \in Nat /\ 0 \in 0 .. NumDevs
    BY CliAssumption
  <2> QED BY <1>1, <2>1 DEF Init, TypeOK
<1>3. Cut(0) = 0 /\ UnitSize * 0 = 0
  BY CliAssumption DEF Cut
<1> QED BY <1>1, <1>2, <1>3
           DEF Init, IInv, LogicAtBottom, NothingBeforeTheLoop,
               ClosingAfterEnd, EndFramesAlone, WrittenSoFar, Uncounted

\* A step that returns from the innermost call.
LEMMA PopInv ==
    ASSUME IInv, CloseOutput \/ StopReturns \/ CountSamples
    PROVE  IInv'
<1> USE DEF IInv
<1>1. /\ stack # <<>> /\ stack' = Front(stack) /\ UNCHANGED <<pc, ends>>
      /\ stack \in Seq(Frame) /\ pc # "crashed"
  BY DEF CloseOutput, StopReturns, CountSamples, OnTop, TypeOK
<1>2. /\ stack' \in Seq(Frame) /\ Len(stack) \in Nat \ {0}
      /\ Len(stack') = Len(stack) - 1
      /\ \A i \in 1 .. Len(stack) - 1 : stack'[i] = stack[i]
      /\ Last(stack) = stack[Len(stack)] /\ Last(stack) \in Frame
  BY <1>1, PopProperties
<1>3. TypeOK'
  <2>1. CASE CloseOutput \/ StopReturns
    BY <1>2, <2>1 DEF CloseOutput, StopReturns, TypeOK, deviceVars, dataVars
  <2>2. CASE CountSamples
    <3>1. Last(stack).n \in Nat
      BY <1>2 DEF Frame
    <3> QED BY <1>2, <2>2, <3>1 DEF CountSamples, TypeOK, deviceVars
  <2> QED BY <2>1, <2>2
<1>4. LogicAtBottom'
  BY <1>2 DEF LogicAtBottom
<1>5. NothingBeforeTheLoop' /\ (StopsAreSilent => EndFramesAlone')
  BY <1>1, <1>2 DEF NothingBeforeTheLoop, EndFramesAlone
<1>6. ClosingAfterEnd'
  <2> SUFFICES ASSUME ends > 0, output'
               PROVE  \E i \in 1 .. Len(stack') : stack'[i].at = "close"
    BY <1>1 DEF ClosingAfterEnd, NothingBeforeTheLoop
  <2>1. StopReturns \/ CountSamples
    BY DEF CloseOutput
  <2>2. Last(stack).at # "close" /\ output
    BY <2>1 DEF StopReturns, CountSamples, OnTop
  <2>3. PICK i \in 1 .. Len(stack) : stack[i].at = "close"
    BY <2>2 DEF ClosingAfterEnd
  <2>4. i \in 1 .. Len(stack') /\ stack'[i].at = "close"
    BY <1>2, <2>2, <2>3
  <2> QED BY <2>4
<1>7. ASSUME WrittenSoFar PROVE WrittenSoFar'
  <2>1. CASE CloseOutput \/ StopReturns
    <3>1. UNCHANGED <<received_samples, written>> /\ Last(stack).at # "logic"
      BY <2>1 DEF CloseOutput, StopReturns, OnTop, dataVars
    <3>2. Uncounted' = Uncounted
      <4>1. CASE Len(stack) = 1
        <5>1. stack' = <<>>
          BY <1>2, <4>1, EmptySeq
        <5> QED BY <1>1, <1>2, <3>1, <4>1, <5>1 DEF Uncounted
      <4>2. CASE Len(stack) # 1
        <5>1. stack' # <<>> /\ stack'[1] = stack[1]
          BY <1>2, <4>2, EmptySeq
        <5> QED BY <1>1, <5>1 DEF Uncounted
      <4> QED BY <4>1, <4>2
    <3> QED BY <1>7, <3>1, <3>2 DEF WrittenSoFar, Cut
  <2>2. CASE CountSamples
    <3>1. /\ Last(stack).at = "logic" /\ written' = written
          /\ received_samples' = received_samples + Last(stack).n
      BY <2>2 DEF CountSamples, OnTop
    <3>2. Len(stack) = 1
      BY <1>2, <3>1 DEF LogicAtBottom
    <3>3. stack' = <<>>
      BY <1>2, <3>2, EmptySeq
    <3>4. Uncounted = Last(stack).n /\ Uncounted' = 0
      BY <1>1, <1>2, <3>1, <3>2, <3>3 DEF Uncounted
    <3>5. received_samples' \in Nat
      BY <1>3 DEF TypeOK
    <3> QED BY <1>7, <3>1, <3>4, <3>5 DEF WrittenSoFar, Cut
  <2> QED BY <2>1, <2>2
<1> QED BY <1>3, <1>4, <1>5, <1>6, <1>7 DEF StopsAreSilent, SamplesAreBytes

\* SR_DF_END in datafeed_in().
LEMMA HandleEndInv == ASSUME IInv, HandleEnd PROVE IInv'
<1> USE DEF IInv
<1> DEFINE s == Front(stack)
           t == s \o <<At("close", 0)>>
<1>1. /\ stack # <<>> /\ pc # "crashed" /\ Last(stack).at = "end"
      /\ stack \in Seq(Frame) /\ ends' = ends + 1 /\ running' \in BOOLEAN
      /\ stack' = t \o <<At("stop", 1)>> /\ pc' \in {pc, "crashed"}
      /\ UNCHANGED <<started, acquiring, output, triggered,
                     received_samples, written>>
  BY DEF HandleEnd, StopSession, Calls, OnTop, deviceVars, dataVars, TypeOK
<1>2. /\ s \in Seq(Frame) /\ Len(stack) \in Nat \ {0}
      /\ Len(s) = Len(stack) - 1
      /\ \A i \in 1 .. Len(stack) - 1 : s[i] = stack[i]
      /\ Last(stack) = stack[Len(stack)]
  BY <1>1, PopProperties
<1>3. /\ t \in Seq(Frame) /\ Len(t) = Len(stack)
      /\ \A i \in 1 .. Len(stack) - 1 : t[i] = stack[i]
      /\ t[Len(stack)] = At("close", 0)
  BY <1>2, PushProperties, FrameTypes
<1> HIDE DEF s, t
<1>4. /\ stack' \in Seq(Frame) /\ stack' # <<>>
      /\ Len(stack') = Len(stack) + 1
      /\ \A i \in 1 .. Len(stack) - 1 : stack'[i] = stack[i]
      /\ stack'[Len(stack)] = At("close", 0)
      /\ stack'[Len(stack) + 1] = At("stop", 1)
  <2>1. /\ stack' \in Seq(Frame) /\ stack' # <<>>
        /\ Len(stack') = Len(t) + 1
        /\ \A i \in 1 .. Len(t) : stack'[i] = t[i]
        /\ stack'[Len(t) + 1] = At("stop", 1)
    BY <1>1, <1>3, PushProperties, FrameTypes
  <2> QED BY <1>2, <1>3, <2>1
<1>5. TypeOK'
  BY <1>1, <1>4 DEF TypeOK
<1>6. LogicAtBottom'
  <2> SUFFICES ASSUME NEW i \in 2 .. Len(stack) + 1
               PROVE  stack'[i].at # "logic"
    BY <1>4 DEF LogicAtBottom
  <2>1. i \in 2 .. Len(stack) - 1 \/ i = Len(stack) \/ i = Len(stack) + 1
    BY <1>2
  <2> QED BY <1>2, <1>4, <2>1 DEF LogicAtBottom, At
<1>7. pc # "start"
  BY <1>1 DEF NothingBeforeTheLoop
<1>8. NothingBeforeTheLoop'
  BY <1>1, <1>7 DEF NothingBeforeTheLoop
<1>9. ClosingAfterEnd'
  <2>1. stack'[Len(stack)].at = "close" /\ Len(stack) \in 1 .. Len(stack')
    BY <1>2, <1>4 DEF At
  <2> QED BY <1>1, <1>7, <2>1 DEF ClosingAfterEnd
<1>10. ASSUME EndFramesAlone PROVE EndFramesAlone'
  <2>1. ends = 0 /\ Len(stack) = 1
    BY <1>1, <1>2, <1>10 DEF EndFramesAlone
  <2> QED BY <1>1, <1>4, <2>1 DEF EndFramesAlone, At
<1>11. Uncounted' = Uncounted
  <2>1. CASE Len(stack) = 1
    BY <1>1, <1>2, <1>4, <2>1 DEF Uncounted, At
  <2>2. CASE Len(stack) # 1
    <3>1. stack'[1] = stack[1]
      BY <1>2, <1>4, <2>2
    <3> QED BY <1>1, <1>4, <3>1 DEF Uncounted
  <2> QED BY <2>1, <2>2
<1>12. WrittenSoFar => WrittenSoFar'
  BY <1>1, <1>11 DEF WrittenSoFar, Cut
<1> QED BY <1>5, <1>6, <1>8, <1>9, <1>10, <1>12
           DEF StopsAreSilent, SamplesAreBytes

\* The session stops its devices one by one; those that are not silent call
\* back into datafeed_in().
LEMMA StopDeviceInv == ASSUME IInv, StopDevice PROVE IInv'
<1> USE DEF IInv
<1> DEFINE d == Last(stack).n
           s == Front(stack)
           t == s \o <<At("stop", d + 1)>>
           told == d \in SendsEnd /\ output
<1>1. /\ stack # <<>> /\ pc # "crashed" /\ Last(stack).at = "stop"
      /\ stack \in Seq(Frame) /\ d \in Devs /\ pc' \in {pc, "crashed"}
      /\ stack' = t \o (IF told THEN <<At("end", 0)>> ELSE <<>>)
      /\ UNCHANGED <<running, started, acquiring, output, triggered,
                     received_samples, written, ends>>
  BY DEF StopDevice, Calls, OnTop, EndFrames, deviceVars, dataVars, TypeOK
<1>2. /\ s \in Seq(Frame) /\ Len(stack) \in Nat \ {0}
      /\ Len(s) = Len(stack) - 1
      /\ \A i \in 1 .. Len(stack) - 1 : s[i] = stack[i]
      /\ Last(stack) = stack[Len(stack)]
  BY <1>1, PopProperties
<1>3. d + 1 \in Nat
  BY <1>1, CliAssumption DEF Devs
<1> HIDE DEF d
<1>4. /\ t \in Seq(Frame) /\ Len(t) = Len(stack)
      /\ \A i \in 1 .. Len(stack) - 1 : t[i] = stack[i]
      /\ t[Len(stack)] = At("stop", d + 1)
  BY <1>2, <1>3, PushProperties, FrameTypes
<1> HIDE DEF s, t, told
<1>5. /\ stack' \in Seq(Frame)
      /\ Len(stack') = IF told THEN Len(stack) + 1 ELSE Len(stack)
      /\ \A i \in 1 .. Len(stack) - 1 : stack'[i] = stack[i]
      /\ stack'[Len(stack)] = At("stop", d + 1)
      /\ told => stack'[Len(stack) + 1] = At("end", 0)
  <2>1. CASE told
    BY <1>1, <1>2, <1>4, <2>1, PushProperties, FrameTypes
  <2>2. CASE ~told
    BY <1>1, <1>2, <1>4, <2>2, ConcatEmptySeq
  <2> QED BY <2>1, <2>2
<1>6. Len(stack') # 0 /\ stack' # <<>>
  BY <1>2, <1>5, EmptySeq
<1>7. TypeOK'
  BY <1>1, <1>5 DEF TypeOK
<1>8. LogicAtBottom'
  BY <1>2, <1>5 DEF LogicAtBottom, At
<1>9. NothingBeforeTheLoop'
  BY <1>1 DEF NothingBeforeTheLoop
<1>10. ClosingAfterEnd'
  <2> SUFFICES ASSUME ends > 0, output
               PROVE  \E i \in 1 .. Len(stack') : stack'[i].at = "close"
    BY <1>1 DEF ClosingAfterEnd
  <2>1. PICK i \in 1 .. Len(stack) : stack[i].at = "close"
    BY DEF ClosingAfterEnd
  <2>2. i \in 1 .. Len(stack) - 1
    BY <1>1, <1>2, <2>1
  <2>3. i \in 1 .. Len(stack') /\ stack'[i].at = "close"
    BY <1>2, <1>5, <2>1, <2>2
  <2> QED BY <2>3
<1>11. ASSUME StopsAreSilent, EndFramesAlone PROVE EndFramesAlone'
  <2>1. ~told
    BY <1>11 DEF told, StopsAreSilent
  <2> QED BY <1>1, <1>2, <1>5, <1>11, <2>1 DEF EndFramesAlone, At
<1>12. Uncounted' = Uncounted
  <2>1. CASE Len(stack) = 1
    BY <1>1, <1>2, <1>5, <1>6, <2>1 DEF Uncounted, At
  <2>2. CASE Len(stack) # 1
    <3>1. stack'[1] = stack[1]
      BY <1>2, <1>5, <2>2
    <3> QED BY <1>1, <1>6, <3>1 DEF Uncounted
  <2> QED BY <2>1, <2>2
<1>13. WrittenSoFar => WrittenSoFar'
  BY <1>1, <1>12 DEF WrittenSoFar, Cut
<1> QED BY <1>7, <1>8, <1>9, <1>10, <1>11, <1>13 DEF SamplesAreBytes

\* What the session loop calls it calls with the stack empty.
LEMMA FromTheLoop ==
    ASSUME IInv, stack = <<>>
    PROVE  /\ ends > 0 => ~output
           /\ Uncounted = 0
           /\ SamplesAreBytes => written = UnitSize * Cut(received_samples)
<1>1. Len(stack) = 0 /\ ends \in Nat /\ received_samples \in Nat
  BY EmptySeq DEF IInv, TypeOK
<1>2. Uncounted = 0
  BY DEF Uncounted
<1> QED BY <1>1, <1>2 DEF IInv, ClosingAfterEnd, WrittenSoFar

\* A driver that says SR_DF_END.
LEMMA SendEndInv == ASSUME IInv, NEW d \in Devs, SendEnd(d) PROVE IInv'
<1> USE DEF IInv
<1>1. /\ stack = <<>> /\ pc = "loop" /\ pc' \in {pc, "crashed"}
      /\ stack' = IF output THEN <<At("end", 0)>> ELSE <<>>
      /\ acquiring' = acquiring \ {d}
      /\ UNCHANGED <<running, started, output, triggered, received_samples,
                     written, ends>>
  BY DEF SendEnd, Sends, Calls, EndFrames, dataVars
<1>2. /\ stack' \in Seq(Frame) /\ Len(stack') \in 0 .. 1
      /\ Len(stack') = 1 => output /\ stack'[1] = At("end", 0)
      /\ stack' # <<>> => stack'[1] = At("end", 0)
  BY <1>1, FrameTypes, EmptySeq
<1>3. ends > 0 => ~output
  BY <1>1, FromTheLoop
<1>4. TypeOK'
  BY <1>1, <1>2 DEF TypeOK
<1>5. (LogicAtBottom /\ NothingBeforeTheLoop /\ ClosingAfterEnd)'
  BY <1>1, <1>2, <1>3 DEF LogicAtBottom, NothingBeforeTheLoop, ClosingAfterEnd
<1>6. ASSUME EndFramesAlone PROVE EndFramesAlone'
  BY <1>1, <1>2, <1>3, <1>6 DEF EndFramesAlone, TypeOK
<1>7. Uncounted' = Uncounted
  BY <1>1, <1>2, FromTheLoop DEF Uncounted, At
<1>8. WrittenSoFar => WrittenSoFar'
  BY <1>1, <1>7 DEF WrittenSoFar, Cut
<1> QED BY <1>4, <1>5, <1>6, <1>8 DEF StopsAreSilent, SamplesAreBytes

\* The user presses a key.
LEMMA UserStopInv == ASSUME IInv, UserStop PROVE IInv'
<1> USE DEF IInv
<1>1. /\ stack = <<>> /\ pc = "loop" /\ pc' \in {pc, "crashed"}
      /\ stack' = <<>> \o <<At("stop", 1)>> /\ running' \in BOOLEAN
      /\ UNCHANGED <<started, acquiring, output, triggered, received_samples,
                     written, ends>>
  BY DEF UserStop, StopSession, Calls, deviceVars, dataVars
<1>2. /\ stack' \in Seq(Frame) /\ Len(stack') = 1
      /\ stack'[1] = At("stop", 1)
  <2>1. <<>> \in Seq(Frame) /\ Len(<<>>) = 0
    BY EmptySeq
  <2> QED BY <1>1, <2>1, PushProperties, FrameTypes
<1>3. TypeOK'
  BY <1>1, <1>2 DEF TypeOK
<1>4. (LogicAtBottom /\ NothingBeforeTheLoop)'
  BY <1>1, <1>2 DEF LogicAtBottom, NothingBeforeTheLoop
<1>5. ClosingAfterEnd'
  BY <1>1, FromTheLoop DEF ClosingAfterEnd
<1>6. ASSUME EndFramesAlone PROVE EndFramesAlone'
  BY <1>1, <1>2, <1>6 DEF EndFramesAlone, At
<1>7. Uncounted' = Uncounted
  BY <1>1, <1>2, FromTheLoop DEF Uncounted, At
<1>8. WrittenSoFar => WrittenSoFar'
  BY <1>1, <1>7 DEF WrittenSoFar, Cut
<1> QED BY <1>3, <1>4, <1>5, <1>6, <1>8 DEF StopsAreSilent, SamplesAreBytes

\* Samples go to the output now and are counted when the call returns; a
\* failing decoder stops the session in between.
LEMMA SendLogicInv ==
    ASSUME IInv, NEW d \in Devs, NEW n \in 1 .. MaxLen, SendLogic(d, n)
    PROVE  IInv'
<1> USE DEF IInv
<1> DEFINE rest == <<At("logic", n)>>
<1>1. /\ stack = <<>> /\ pc = "loop" /\ pc' \in {pc, "crashed"}
      /\ stack' = rest \/ stack' = rest \o <<At("stop", 1)>>
      /\ running' \in BOOLEAN /\ ~Ignored
      /\ written' = written + OutputLen(n)
      /\ UNCHANGED <<started, acquiring, output, triggered, received_samples,
                     ends>>
  BY DEF SendLogic, Sends, StopSession, Calls, deviceVars, TypeOK
<1>2. n \in Nat
  BY CliAssumption
<1>3. /\ rest \in Seq(Frame) /\ Len(rest) = 1 /\ rest[1] = At("logic", n)
  BY <1>2, FrameTypes
<1> HIDE DEF rest
<1>4. /\ stack' \in Seq(Frame) /\ Len(stack') \in 1 .. 2
      /\ stack'[1] = At("logic", n) /\ stack' # <<>>
      /\ Len(stack') = 2 => stack'[2] = At("stop", 1)
  <2>1. CASE stack' = rest
    <3>1. Len(<<>>) = 0
      BY EmptySeq
    <3>2. rest # <<>>
      BY <1>3, <3>1
    <3>3. stack' \in Seq(Frame) /\ Len(stack') = 1 /\ stack' # <<>>
      BY <1>3, <2>1, <3>2
    <3>4. stack'[1] = At("logic", n)
      BY <1>3, <2>1
    <3> QED BY <3>3, <3>4
  <2>2. CASE stack' = rest \o <<At("stop", 1)>>
    <3>1. At("stop", 1) \in Frame
      BY FrameTypes
    <3>2. /\ stack' \in Seq(Frame) /\ stack' # <<>>
          /\ Len(stack') = Len(rest) + 1
          /\ \A i \in 1 .. Len(rest) : stack'[i] = rest[i]
          /\ stack'[Len(rest) + 1] = At("stop", 1)
      BY <1>3, <2>2, <3>1, PushProperties
    <3>3. stack'[1] = rest[1] /\ Len(rest) + 1 = 2
      BY <1>3, <3>2
    <3> QED BY <1>3, <3>2, <3>3
  <2> QED BY <1>1, <2>1, <2>2
<1>5. /\ OutputLen(n) \in Nat
      /\ SamplesAreBytes => written' = UnitSize * Cut(received_samples + n)
  <2>1. received_samples \in Nat
    BY DEF TypeOK
  <2> QED BY <1>1, <1>2, <2>1, OutputLenProperties, FromTheLoop
<1>6. TypeOK'
  BY <1>1, <1>4, <1>5 DEF TypeOK
<1>7. (LogicAtBottom /\ NothingBeforeTheLoop)'
  BY <1>1, <1>4 DEF LogicAtBottom, NothingBeforeTheLoop, At
<1>8. ends = 0 /\ output
  BY <1>1, FromTheLoop DEF Ignored, TypeOK
<1>9. ClosingAfterEnd'
  BY <1>1, <1>8 DEF ClosingAfterEnd
<1>10. EndFramesAlone'
  BY <1>1, <1>4, <1>8 DEF EndFramesAlone, At
<1>11. Uncounted' = n
  BY <1>4 DEF Uncounted, At
<1>12. SamplesAreBytes => WrittenSoFar'
  BY <1>1, <1>5, <1>11 DEF WrittenSoFar, Cut
<1> QED BY <1>6, <1>7, <1>9, <1>10, <1>12 DEF StopsAreSilent, SamplesAreBytes

\* The steps that leave the stack alone.
LEMMA ControlInv ==
    ASSUME IInv,
           \/ StartDevice \/ StartFails \/ Run \/ Leave
           \/ \E d \in Devs : SendTrigger(d)
           \/ UNCHANGED vars
    PROVE  IInv'
<1> USE DEF IInv
<1>1. /\ UNCHANGED <<stack, received_samples, written, ends>>
      /\ output' = output \/ (pc = "start" /\ output' = TRUE)
      /\ pc' = "start" => pc = "start"
  BY DEF StartDevice, StartFails, Run, Leave, SendTrigger, deviceVars,
         dataVars, vars
<1>2. TypeOK'
  <2>1. NumDevs \in Nat
    BY CliAssumption
  <2>2. CASE StartDevice
    BY <2>1, <2>2 DEF StartDevice, TypeOK, dataVars
  <2>3. CASE ~StartDevice
    BY <2>1, <2>3 DEF StartFails, Run, Leave, SendTrigger, TypeOK, deviceVars,
                      dataVars, vars
  <2> QED BY <2>2, <2>3
<1>3. LogicAtBottom' /\ NothingBeforeTheLoop'
  BY <1>1 DEF LogicAtBottom, NothingBeforeTheLoop
<1>4. ClosingAfterEnd'
  BY <1>1 DEF ClosingAfterEnd, NothingBeforeTheLoop, TypeOK
<1>5. /\ EndFramesAlone => EndFramesAlone'
      /\ WrittenSoFar => WrittenSoFar'
  BY <1>1 DEF EndFramesAlone, WrittenSoFar, Uncounted, Cut
<1> QED BY <1>2, <1>3, <1>4, <1>5 DEF StopsAreSilent, SamplesAreBytes

\* Every step keeps the invariant.
LEMMA NextInv == IInv /\ [Next]_vars => IInv'
<1> SUFFICES ASSUME IInv, [Next]_vars PROVE IInv'
  OBVIOUS
<1>1. CASE Unwind
  BY <1>1, HandleEndInv, StopDeviceInv, PopInv DEF Unwind
<1>2. CASE UserStop
  BY <1>2, UserStopInv
<1>3. ASSUME NEW d \in Devs, SendEnd(d) PROVE IInv'
  BY <1>3, SendEndInv
<1>4. ASSUME NEW d \in Devs, NEW n \in 1 .. MaxLen, SendLogic(d, n)
      PROVE  IInv'
  BY <1>4, SendLogicInv
<1>5. CASE \/ StartDevice \/ StartFails \/ Run \/ Leave
           \/ \E d \in Devs : SendTrigger(d)
           \/ UNCHANGED vars
  BY <1>5, ControlInv
<1> QED BY <1>1, <1>2, <1>3, <1>4, <1>5 DEF Next

\* The invariant holds in every state.
LEMMA Invariant == Spec => []IInv
BY InitInv, NextInv, PTL DEF Spec

-----------------------------------------------------------------------------
(* The theorems *)

\* Every variable keeps its type, whatever the drivers do from inside
\* dev_acquisition_stop(): among others, a packet is never cut to a negative
\* length.
THEOREM TypeCorrect == Spec => []TypeOK
<1>1. IInv => TypeOK
  BY DEF IInv
<1> QED BY <1>1, Invariant, PTL

\* Whatever the drivers send too much, and whether a decoder stops the
\* session half way or not, the output has got the samples received, up to
\* the limit, whenever no packet is being handled.
THEOREM OutputCutToTheLimit ==
    ASSUME SamplesAreBytes
    PROVE  Spec => []CutToLimit
<1>1. IInv => CutToLimit
  <2> SUFFICES ASSUME IInv,
                      ~(\E i \in DOMAIN stack : stack[i].at = "logic")
               PROVE  written = UnitSize * Cut(received_samples)
    BY DEF CutToLimit, Cut
  <2>1. Uncounted = 0
    <3>1. CASE stack = <<>>
      BY <3>1 DEF Uncounted
    <3>2. CASE stack # <<>>
      <4>1. stack \in Seq(Frame)
        BY DEF IInv, TypeOK
      <4>2. Len(stack) \in Nat \ {0} /\ DOMAIN stack = 1 .. Len(stack)
        BY <3>2, <4>1, PopProperties, LenProperties
      <4>3. 1 \in DOMAIN stack
        BY <4>2
      <4> QED BY <4>3 DEF Uncounted
    <3> QED BY <3>1, <3>2
  <2>2. received_samples + Uncounted = received_samples
    BY <2>1 DEF IInv, TypeOK
  <2> QED BY <2>2, SamplesAreBytes DEF IInv, WrittenSoFar
<1> QED BY <1>1, Invariant, PTL

\* Nothing is written once the output was told of the end, by whatever
\* driver and however deep in sr_session_stop().
THEOREM NothingAfterTheEnd == Spec => NoDataAfterEnd
<1>1. IInv /\ [Next]_vars => [ends > 0 => UNCHANGED written]_vars
  <2> SUFFICES ASSUME IInv, Next, ends > 0 PROVE UNCHANGED written
    BY DEF vars, dataVars
  <2>1. ASSUME NEW d \in Devs, NEW n \in 1 .. MaxLen, SendLogic(d, n)
        PROVE  FALSE
    <3>1. stack = <<>> /\ output
      BY <2>1 DEF SendLogic, Sends, Ignored
    <3> QED BY <3>1, FromTheLoop
  <2> QED BY <2>1
          DEF Next, Unwind, HandleEnd, CloseOutput, StopDevice, StopReturns,
              CountSamples, StartDevice, StartFails, Run, UserStop, Leave,
              SendEnd, SendTrigger, dataVars
<1> QED BY <1>1, Invariant, PTL DEF Spec, NoDataAfterEnd

\* With drivers that stop silently the output is told of the end once. With
\* one that is not, it is told twice (the run SigrokCli_double).
THEOREM EndToldOnce ==
    ASSUME StopsAreSilent
    PROVE  Spec => []EndOnce
<1>1. IInv => EndOnce
  BY StopsAreSilent DEF IInv, EndFramesAlone, EndOnce
<1> QED BY <1>1, Invariant, PTL

\* The end of the output is final, with drivers that stop silently.
THEOREM EndFinal ==
    ASSUME StopsAreSilent
    PROVE  Spec => EndIsFinal
BY EndToldOnce, NothingAfterTheEnd, StopsAreSilent, PTL DEF EndIsFinal

=============================================================================
