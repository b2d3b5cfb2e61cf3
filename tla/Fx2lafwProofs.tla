--------------------------- MODULE Fx2lafwProofs ---------------------------
(***************************************************************************)
(* Proofs about the transfer bookkeeping of Fx2lafw.tla, for every number  *)
(* of transfers, every limit and every frontend: the counter is exact,     *)
(* SR_DF_END can always still come and is the last packet, the packets     *)
(* come in the order Datafeed.tla states, an abort is final, and a limit   *)
(* that ends the acquisition was reached.                                  *)
(***************************************************************************)
EXTENDS MCFx2lafw, FiniteSetTheorems, TLAPS

\* What the frontend has been told, place by place. With EndCanCome it says
\* that a callback never runs before SR_DF_META_LOGIC or after SR_DF_END.
PhaseFollowsPc ==
    /\ pc \in {"idle", "header"} => phase = "idle" /\ samples = 0
    /\ pc = "meta" => phase = "header" /\ samples = 0
    /\ pc \in {"command", "started", "poll", "handle"} =>
          phase \in {"open", "ended"}

\* One empty transfer too many aborts the acquisition.
EmptyBounded == ~Aborted => empty_transfer_count <= MaxEmpty

IInv ==
    /\ TypeOK /\ CountsTransfers /\ EndCanCome /\ EndIsLast
    /\ PhaseFollowsPc /\ EmptyBounded

-----------------------------------------------------------------------------
(* The operators *)

\* The history counter stays within its bound.
LEMMA SaturatedType ==
    ASSUME NEW n \in Nat
    PROVE  Saturated(n) \in 0 .. MaxSamples
BY Fx2Assumption DEF Saturated

\* The history counter never goes back, even where it saturates.
LEMMA SaturatedGrows ==
    ASSUME NEW a \in 0 .. MaxSamples, NEW b \in Nat
    PROVE  Saturated(a + b) \in Nat /\ Saturated(a + b) >= a
BY Fx2Assumption DEF Saturated

\* A count cast to int is one of the values of an int.
LEMMA AsIntType ==
    ASSUME NEW n \in Int
    PROVE  AsInt(n) \in -1 .. Wrap - 2
<1>1. Wrap \in Nat /\ Wrap > 0
  BY Fx2Assumption
<1>2. (n + 1) % Wrap \in 0 .. Wrap - 1
  BY <1>1
<1> QED BY <1>1, <1>2 DEF AsInt

\* There are finitely many transfers.
LEMMA TransfersFinite ==
    ASSUME NEW T \in SUBSET Transfers
    PROVE  IsFiniteSet(T) /\ Cardinality(T) \in Nat
<1>1. IsFiniteSet(Transfers)
  BY Fx2Assumption, FS_Interval DEF Transfers
<1> QED BY <1>1, FS_Subset, FS_CardinalityType

\* Submitting the first k transfers leaves k in flight.
LEMMA SubmitCounts ==
    ASSUME NEW k \in 0 .. NumTransfers
    PROVE  1 .. k \in SUBSET Transfers /\ Cardinality(1 .. k) = k
<1>1. k \in Int /\ k >= 0 /\ NumTransfers \in Nat
  BY Fx2Assumption
<1>2. 1 .. k \in SUBSET Transfers
  BY <1>1 DEF Transfers
<1>3. Cardinality(1 .. k) = k
  BY <1>1, FS_Interval
<1> QED BY <1>2, <1>3

-----------------------------------------------------------------------------
(* The callbacks.  Everything they do to the bookkeeping they do through  *)
(* FreeTransfer and ResubmitTransfer.                                     *)

\* What a callback may assume: it runs between SR_DF_META_LOGIC and
\* SR_DF_END.
LEMMA CallbackContext ==
    ASSUME IInv, NEW t \in Transfers, CallsBack(t)
    PROVE  /\ t \in transfers /\ pc \in {"command", "handle"}
           /\ phase = "open" /\ fds
BY DEF IInv, CallsBack, EndCanCome, EndIsLast, PhaseFollowsPc, Acquiring

\* A transfer that is freed.
LEMMA FreeTransferInv ==
    ASSUME IInv, NEW t \in Transfers, CallsBack(t),
           NEW ns \in -1 .. Wrap - 2,
           NEW why \in {"none", "start", "stop", "device", "limit"},
           NEW run \in BOOLEAN,
           UNCHANGED pc, fired' \in BOOLEAN,
           empty_transfer_count' \in 0 .. MaxEmpty + 1,
           ns # AbortedSamples => empty_transfer_count' <= MaxEmpty,
           samples' \in 0 .. MaxSamples,
           FreeTransfer(t, ns, why, run)
    PROVE  IInv' /\ phase' \in {"open", "ended"}
<1> DEFINE rest == transfers \ {t}
<1>1. /\ t \in transfers /\ pc \in {"command", "handle"}
      /\ phase = "open" /\ fds
  BY CallbackContext
<1>2. /\ transfers \in SUBSET Transfers /\ transfers' = rest
      /\ submitted_transfers = Cardinality(transfers)
      /\ submitted_transfers' = submitted_transfers - 1
  BY DEF IInv, TypeOK, CountsTransfers, FreeTransfer
<1>3. /\ Cardinality(rest) = submitted_transfers'
      /\ submitted_transfers' \in Nat
      /\ submitted_transfers' = 0 <=> rest = {}
      /\ rest \in SUBSET Transfers
  <2>1. IsFiniteSet(transfers) /\ Cardinality(transfers) \in Nat
    BY <1>2, TransfersFinite
  <2>2. IsFiniteSet(rest) /\ Cardinality(rest) = Cardinality(transfers) - 1
    BY <1>1, <2>1, FS_RemoveElement
  <2>3. Cardinality(rest) \in Nat
    BY <2>2, FS_CardinalityType
  <2>4. Cardinality(rest) = 0 <=> rest = {}
    BY <2>2, FS_EmptySet
  <2> QED BY <1>2, <2>1, <2>2, <2>3, <2>4
<1>4. submitted_transfers \in 1 .. NumTransfers
  BY <1>2, <1>3 DEF IInv, TypeOK
<1> HIDE DEF rest
<1>5. /\ phase' = IF rest = {} THEN "ended" ELSE "open"
      /\ fds' = (rest # {})
      /\ rest = {} => num_transfers' = 0
      /\ num_transfers' \in {0, NumTransfers}
      /\ running' \in BOOLEAN
      /\ num_samples' \in -1 .. Wrap - 2
      /\ cause' \in {"none", "start", "stop", "device", "limit"}
  <2>1. CASE submitted_transfers = 1
    <3>1. rest = {}
      BY <2>1, <1>2, <1>3
    <3>2. AbortedSamples \in -1 .. Wrap - 2
      BY Fx2Assumption DEF AbortedSamples
    <3> QED BY <2>1, <3>1, <3>2 DEF FreeTransfer
  <2>2. CASE submitted_transfers # 1
    <3>1. rest # {}
      BY <2>2, <1>2, <1>3, <1>4
    <3> QED BY <2>2, <3>1, <1>1 DEF FreeTransfer, IInv, TypeOK
  <2> QED BY <2>1, <2>2
<1>6. TypeOK'
  BY <1>2, <1>3, <1>4, <1>5, Fx2Assumption DEF IInv, TypeOK
<1>7. (CountsTransfers /\ EndCanCome /\ EndIsLast)'
  BY <1>1, <1>2, <1>3, <1>5
     DEF CountsTransfers, EndCanCome, EndIsLast, Acquiring
<1>8. PhaseFollowsPc'
  BY <1>1, <1>5 DEF PhaseFollowsPc
<1>9. EmptyBounded'
  <2>1. num_samples' \in {ns, AbortedSamples}
    BY DEF FreeTransfer
  <2> QED BY <2>1 DEF EmptyBounded, Aborted
<1> QED BY <1>5, <1>6, <1>7, <1>8, <1>9 DEF IInv

\* A transfer that is submitted again, or cannot be.
LEMMA ResubmitTransferInv ==
    ASSUME IInv, NEW t \in Transfers, CallsBack(t),
           NEW ns \in -1 .. Wrap - 2,
           NEW why \in {"none", "start", "stop", "device", "limit"},
           NEW run \in BOOLEAN,
           UNCHANGED pc, fired' \in BOOLEAN,
           empty_transfer_count' \in 0 .. MaxEmpty + 1,
           ns # AbortedSamples => empty_transfer_count' <= MaxEmpty,
           samples' \in 0 .. MaxSamples,
           ResubmitTransfer(t, ns, why, run)
    PROVE  IInv' /\ phase' \in {"open", "ended"}
<1>1. CASE FreeTransfer(t, ns, why, run)
  BY <1>1, FreeTransferInv
<1>2. CASE ~ FreeTransfer(t, ns, why, run)
  <2>1. /\ num_samples' = ns /\ cause' = why /\ running' = run
        /\ UNCHANGED <<transfers, submitted_transfers, phase, fds,
                       num_transfers>>
    BY <1>2 DEF ResubmitTransfer
  <2>2. /\ pc \in {"command", "handle"} /\ phase = "open"
    BY CallbackContext
  <2>3. TypeOK'
    BY <2>1 DEF IInv, TypeOK
  <2>4. (CountsTransfers /\ EndCanCome /\ EndIsLast)'
    BY <2>1, <2>2
       DEF IInv, CountsTransfers, EndCanCome, EndIsLast, Acquiring
  <2>5. PhaseFollowsPc'
    BY <2>1, <2>2 DEF PhaseFollowsPc
  <2>6. EmptyBounded'
    BY <2>1 DEF EmptyBounded, Aborted
  <2> QED BY <2>1, <2>2, <2>3, <2>4, <2>5, <2>6 DEF IInv
<1> QED BY <1>1, <1>2

\* What a callback guarantees: the invariant, and towards the frontend more
\* samples, SR_DF_END, or both.
Reported ==
    /\ IInv' /\ phase = "open" /\ phase' \in {"open", "ended"}
    /\ samples' \in Nat /\ samples' >= samples

\* A transfer whose samples are sent.
LEMMA SendSamplesInv ==
    ASSUME IInv, NEW t \in Transfers, CallsBack(t),
           NEW n \in Nat, NEW sent \in Nat, SendSamples(t, n, sent)
    PROVE  Reported
<1>1. PICK stop \in {FALSE, StopsOnData} :
         LET before  == IF stop THEN AbortedSamples ELSE num_samples
             counted == AsInt(before + n)
             why     == IF stop THEN "stop" ELSE cause
             run     == running /\ ~stop
         IN /\ samples' = Saturated(samples + sent)
            /\ empty_transfer_count' = 0 /\ fired' = TRUE
            /\ IF Limit # 0 /\ AsUnsigned(counted) > Limit
               THEN FreeTransfer(t, AbortedSamples,
                                 IF stop THEN why ELSE "limit", run)
               ELSE ResubmitTransfer(t, counted, why, run)
            /\ UNCHANGED pc
  BY DEF SendSamples
<1> DEFINE before  == IF stop THEN AbortedSamples ELSE num_samples
           counted == AsInt(before + n)
           why     == IF stop THEN "stop" ELSE cause
           run     == running /\ ~stop
<1>2. before \in Int
  BY DEF IInv, TypeOK, AbortedSamples
<1>3. counted \in -1 .. Wrap - 2
  BY <1>2, AsIntType
<1>4. why \in {"none", "start", "stop", "device", "limit"}
  BY DEF IInv, TypeOK
<1>5. run \in BOOLEAN
  BY DEF IInv, TypeOK
<1>6. /\ samples' \in 0 .. MaxSamples /\ samples' \in Nat
      /\ samples' >= samples
  <2>1. samples \in 0 .. MaxSamples /\ samples' = Saturated(samples + sent)
    BY <1>1 DEF IInv, TypeOK
  <2> QED BY <2>1, SaturatedType, SaturatedGrows, Fx2Assumption
<1>7. /\ empty_transfer_count' \in 0 .. MaxEmpty + 1 /\ fired' \in BOOLEAN
      /\ empty_transfer_count' <= MaxEmpty
  BY <1>1, Fx2Assumption
<1>8. AbortedSamples \in -1 .. Wrap - 2
  BY Fx2Assumption DEF AbortedSamples
<1>9. /\ UNCHANGED pc
      /\ \/ FreeTransfer(t, AbortedSamples, IF stop THEN why ELSE "limit", run)
         \/ ResubmitTransfer(t, counted, why, run)
  BY <1>1
<1>10. (IF stop THEN why ELSE "limit")
          \in {"none", "start", "stop", "device", "limit"}
  BY <1>4
<1> HIDE DEF before, counted, why, run
<1>11. IInv' /\ phase' \in {"open", "ended"}
  <2>1. CASE FreeTransfer(t, AbortedSamples,
                          IF stop THEN why ELSE "limit", run)
    BY <2>1, <1>5, <1>6, <1>7, <1>8, <1>9, <1>10, FreeTransferInv
  <2>2. CASE ResubmitTransfer(t, counted, why, run)
    BY <2>2, <1>3, <1>4, <1>5, <1>6, <1>7, <1>9, ResubmitTransferInv
  <2> QED BY <2>1, <2>2, <1>9
<1> QED BY <1>6, <1>11, CallbackContext DEF Reported

\* The callback of a transfer.
LEMMA ReceiveTransferInv ==
    ASSUME IInv, NEW t \in Transfers, ReceiveTransfer(t)
    PROVE  Reported
<1>1. CallsBack(t)
  BY DEF ReceiveTransfer, ReceiveAfterAbort, ReceiveNoDevice, ReceiveEmpty,
         ReceiveData, ReceiveTrigger, ReceiveUntriggered
<1>2. /\ phase = "open"
      /\ samples \in 0 .. MaxSamples /\ samples \in Nat /\ samples >= samples
  BY <1>1, CallbackContext, Fx2Assumption DEF IInv, TypeOK
<1>3. /\ num_samples \in -1 .. Wrap - 2 /\ AbortedSamples \in -1 .. Wrap - 2
      /\ cause \in {"none", "start", "stop", "device", "limit"}
      /\ running \in BOOLEAN /\ fired \in BOOLEAN
      /\ empty_transfer_count \in 0 .. MaxEmpty + 1
      /\ MaxEmpty \in Nat
      /\ num_samples # AbortedSamples => empty_transfer_count <= MaxEmpty
  BY Fx2Assumption DEF IInv, TypeOK, EmptyBounded, Aborted, AbortedSamples
<1>4. CASE ReceiveAfterAbort(t)
  BY <1>1, <1>2, <1>3, <1>4, FreeTransferInv DEF ReceiveAfterAbort, Reported
<1>5. CASE ReceiveNoDevice(t)
  BY <1>1, <1>2, <1>3, <1>5, FreeTransferInv DEF ReceiveNoDevice, Reported
<1>6. CASE ReceiveEmpty(t)
  <2>1. /\ UNCHANGED <<pc, fired, samples>>
        /\ empty_transfer_count' = empty_transfer_count + 1
        /\ num_samples # AbortedSamples
    BY <1>6 DEF ReceiveEmpty, Aborted
  <2>2. empty_transfer_count' \in 0 .. MaxEmpty + 1
    BY <2>1, <1>3
  <2>3. CASE empty_transfer_count + 1 > MaxEmpty
    <3>1. FreeTransfer(t, AbortedSamples, "device", running)
      BY <2>3, <1>6 DEF ReceiveEmpty
    <3> QED BY <2>1, <2>2, <3>1, <1>1, <1>2, <1>3, FreeTransferInv
            DEF Reported
  <2>4. CASE ~ empty_transfer_count + 1 > MaxEmpty
    <3>1. ResubmitTransfer(t, num_samples, cause, running)
      BY <2>4, <1>6 DEF ReceiveEmpty
    <3>2. empty_transfer_count' <= MaxEmpty
      BY <2>1, <2>4, <1>3
    <3> QED BY <2>1, <2>2, <3>1, <3>2, <1>1, <1>2, <1>3, ResubmitTransferInv
            DEF Reported
  <2> QED BY <2>3, <2>4
<1>7. CASE ReceiveData(t)
  <2>1. PICK n \in 1 .. MaxLen : SendSamples(t, n, n)
    BY <1>7 DEF ReceiveData
  <2>2. n \in Nat
    BY Fx2Assumption
  <2> QED BY <2>1, <2>2, <1>1, SendSamplesInv
<1>8. CASE ReceiveTrigger(t)
  <2>1. PICK n \in 1 .. MaxLen : \E k \in 1 .. n, s \in 1 .. Stages :
           SendSamples(t, n, s + (n - k))
    BY <1>8 DEF ReceiveTrigger
  <2>2. PICK k \in 1 .. n, s \in 1 .. Stages :
           SendSamples(t, n, s + (n - k))
    BY <2>1
  <2>3. n \in Nat /\ s + (n - k) \in Nat
    BY Fx2Assumption
  <2> QED BY <2>2, <2>3, <1>1, SendSamplesInv
<1>9. CASE ReceiveUntriggered(t)
  BY <1>1, <1>2, <1>3, <1>9, ResubmitTransferInv
     DEF ReceiveUntriggered, Reported
<1> QED BY <1>4, <1>5, <1>6, <1>7, <1>8, <1>9 DEF ReceiveTransfer

-----------------------------------------------------------------------------
(* Every step *)

\* The invariant holds at the start.
LEMMA InitInv == Init => IInv
<1> SUFFICES ASSUME Init PROVE IInv
  OBVIOUS
<1>1. TypeOK
  <2>1. 0 \in -1 .. Wrap - 2 /\ 0 \in 0 .. NumTransfers
        /\ 0 \in 0 .. MaxEmpty + 1 /\ 0 \in 0 .. MaxSamples
    BY Fx2Assumption
  <2> QED BY <2>1 DEF Init, TypeOK
<1>2. CountsTransfers
  BY FS_EmptySet DEF Init, CountsTransfers
<1> QED BY <1>1, <1>2, Fx2Assumption
        DEF Init, IInv, EndCanCome, EndIsLast, PhaseFollowsPc, EmptyBounded,
            Acquiring

\* The transfers are submitted, all of them or the first k.
LEMMA SubmitInv ==
    ASSUME IInv, Start \/ StartSubmitFails \/ StartMallocFails
    PROVE  IInv'
<1>1. PICK k \in 0 .. NumTransfers :
         Submit(k) /\ (Start => k = NumTransfers)
  BY Fx2Assumption DEF Start, StartSubmitFails, StartMallocFails
<1>2. 1 .. k \in SUBSET Transfers /\ Cardinality(1 .. k) = k
  BY SubmitCounts
<1>3. /\ pc = "idle" /\ phase = "idle" /\ samples = 0
      /\ transfers' = 1 .. k /\ submitted_transfers' = k
      /\ num_transfers' = NumTransfers /\ empty_transfer_count' = 0
      /\ UNCHANGED <<running, fired, phase, samples>>
  BY <1>1 DEF Submit, IInv, PhaseFollowsPc
<1>4. /\ num_samples' \in {0, AbortedSamples}
      /\ cause' \in {"none", "start"}
      /\ \/ pc' = "header" /\ fds' = TRUE /\ k = NumTransfers
         \/ pc' = "idle" /\ fds' = fds
  BY <1>1, <1>3 DEF Start, StartSubmitFails, StartMallocFails
<1>5. TypeOK'
  <2>1. /\ 0 \in -1 .. Wrap - 2 /\ AbortedSamples \in -1 .. Wrap - 2
        /\ 0 \in 0 .. MaxEmpty + 1
    BY Fx2Assumption DEF AbortedSamples
  <2>2. /\ num_samples' \in -1 .. Wrap - 2
        /\ cause' \in {"none", "start", "stop", "device", "limit"}
        /\ pc' \in {"header", "idle"}
    BY <2>1, <1>4
  <2>3. fds' \in BOOLEAN
    BY <1>4 DEF IInv, TypeOK
  <2> QED BY <2>1, <2>2, <2>3, <1>2, <1>3 DEF IInv, TypeOK
<1>6. CountsTransfers'
  BY <1>2, <1>3 DEF CountsTransfers
<1>7. EndCanCome'
  <2>1. ASSUME k = NumTransfers PROVE 1 .. k # {}
    <3>1. 1 \in 1 .. k
      BY <2>1, Fx2Assumption
    <3> QED BY <3>1
  <2> QED BY <2>1, <1>3, <1>4 DEF EndCanCome, Acquiring
<1>8. (EndIsLast /\ PhaseFollowsPc /\ EmptyBounded)'
  BY <1>3, <1>4, Fx2Assumption DEF EndIsLast, PhaseFollowsPc, EmptyBounded
<1> QED BY <1>5, <1>6, <1>7, <1>8 DEF IInv

\* The steps that leave the transfers alone.
LEMMA ControlInv ==
    ASSUME IInv,
           \/ ConfigureProbes \/ SendHeader \/ SendMeta \/ CommandOk
           \/ CommandFails \/ Run \/ Poll \/ EventsHandled \/ UserStop
           \/ Leave
    PROVE  IInv'
<1>1. UNCHANGED <<transfers, submitted_transfers, num_transfers,
                  empty_transfer_count>>
  BY DEF ConfigureProbes, SendHeader, SendMeta, CommandOk, CommandFails, Run,
         Poll, EventsHandled, UserStop, Leave
<1>2. CountsTransfers'
  BY <1>1 DEF IInv, CountsTransfers
<1>3. AbortedSamples \in -1 .. Wrap - 2
  BY Fx2Assumption DEF AbortedSamples
<1>4. TypeOK'
  <2>1. /\ num_samples' \in {num_samples, AbortedSamples}
        /\ samples' \in {samples, 0}
    BY DEF ConfigureProbes, SendHeader, SendMeta, CommandOk, CommandFails,
           Run, Poll, EventsHandled, UserStop, Leave, Destroyed
  <2>2. /\ num_samples' \in -1 .. Wrap - 2 /\ samples' \in 0 .. MaxSamples
    BY <2>1, <1>3, Fx2Assumption DEF IInv, TypeOK
  <2>3. /\ pc' \in {"idle", "header", "meta", "command", "started", "poll",
                    "handle"}
        /\ phase' \in {"idle", "header", "open", "ended"}
        /\ cause' \in {"none", "start", "stop", "device", "limit"}
    BY DEF IInv, TypeOK, ConfigureProbes, SendHeader, SendMeta, CommandOk,
           CommandFails, Run, Poll, EventsHandled, UserStop, Leave, Destroyed
  <2>4. running' \in BOOLEAN /\ fds' \in BOOLEAN /\ fired' \in BOOLEAN
    BY DEF IInv, TypeOK, ConfigureProbes, SendHeader, SendMeta, CommandOk,
           CommandFails, Run, Poll, EventsHandled, UserStop, Leave, Destroyed
  <2> QED BY <2>2, <2>3, <2>4, <1>1 DEF IInv, TypeOK
<1>5. EndCanCome'
  BY <1>1 DEF IInv, EndCanCome, PhaseFollowsPc, Acquiring, ConfigureProbes,
              SendHeader, SendMeta, CommandOk, CommandFails, Run, Poll,
              EventsHandled, UserStop, Leave, Destroyed
<1>6. EndIsLast'
  BY <1>1 DEF IInv, EndIsLast, ConfigureProbes, SendHeader, SendMeta,
              CommandOk, CommandFails, Run, Poll, EventsHandled, UserStop,
              Leave, Destroyed
<1>7. PhaseFollowsPc'
  BY DEF IInv, PhaseFollowsPc, ConfigureProbes, SendHeader, SendMeta,
         CommandOk, CommandFails, Run, Poll, EventsHandled, UserStop, Leave,
         Destroyed
<1>8. EmptyBounded'
  BY <1>1 DEF IInv, EmptyBounded, Aborted, ConfigureProbes, SendHeader,
              SendMeta, CommandOk, CommandFails, Run, Poll, EventsHandled,
              UserStop, Leave
<1> QED BY <1>2, <1>4, <1>5, <1>6, <1>7, <1>8 DEF IInv

\* Every step keeps the invariant.
LEMMA NextInv == IInv /\ [Next]_vars => IInv'
<1> SUFFICES ASSUME IInv, [Next]_vars PROVE IInv'
  OBVIOUS
<1>1. CASE Start \/ StartSubmitFails \/ StartMallocFails
  BY <1>1, SubmitInv
<1>2. CASE \/ ConfigureProbes \/ SendHeader \/ SendMeta \/ CommandOk
           \/ CommandFails \/ Run \/ Poll \/ EventsHandled \/ UserStop
           \/ Leave
  BY <1>2, ControlInv
<1>3. ASSUME NEW t \in Transfers, ReceiveTransfer(t)
      PROVE  IInv'
  BY <1>3, ReceiveTransferInv DEF Reported
<1>4. CASE UNCHANGED vars
  BY <1>4 DEF vars, IInv, TypeOK, CountsTransfers, EndCanCome, EndIsLast,
              PhaseFollowsPc, EmptyBounded, Aborted, Acquiring
<1> QED BY <1>1, <1>2, <1>3, <1>4 DEF Next

\* The invariant holds in every state.
LEMMA Invariant == Spec => []IInv
BY InitInv, NextInv, PTL DEF Spec

-----------------------------------------------------------------------------
(* The theorems *)

\* Every variable keeps its type; num_samples stays inside the int.
THEOREM TypeCorrect == Spec => []TypeOK
<1>1. IInv => TypeOK
  BY DEF IInv
<1> QED BY <1>1, Invariant, PTL

\* submitted_transfers is the number of transfers libusb still holds, on
\* every path through start, callback, refused resubmission and abort.
THEOREM TransferCountExact == Spec => []CountsTransfers
<1>1. IInv => CountsTransfers
  BY DEF IInv
<1> QED BY <1>1, Invariant, PTL

\* Until SR_DF_END was sent some callback is outstanding and polled for.
THEOREM EndStaysPossible == Spec => []EndCanCome
<1>1. IInv => EndCanCome
  BY DEF IInv
<1> QED BY <1>1, Invariant, PTL

\* SR_DF_END is sent when the last transfer is gone, and not before.
THEOREM EndComesLast == Spec => []EndIsLast
<1>1. IInv => EndIsLast
  BY DEF IInv
<1> QED BY <1>1, Invariant, PTL

\* The driver implements the datafeed protocol: each of its steps is a step
\* of Datafeed.tla or leaves the feed alone.
THEOREM ImplementsDatafeed == Spec => FeedSpec
<1>1. Init => Feed!Init
  BY DEF Init, Feed!Init
<1>2. IInv /\ [Next]_vars => [Feed!Next]_(Feed!feed)
  <2> SUFFICES ASSUME IInv, [Next]_vars
               PROVE  Feed!Next \/ UNCHANGED <<phase, samples>>
    BY DEF Feed!feed
  <2>1. CASE \/ ConfigureProbes \/ Start \/ StartSubmitFails
             \/ StartMallocFails \/ CommandOk \/ Run \/ Poll
             \/ EventsHandled \/ UserStop \/ UNCHANGED vars
    BY <2>1 DEF ConfigureProbes, Start, StartSubmitFails, StartMallocFails,
                Submit, CommandOk, Run, Poll, EventsHandled, UserStop, vars
  <2>2. CASE SendHeader
    BY <2>2 DEF SendHeader, IInv, PhaseFollowsPc, Feed!Next, Feed!Header
  <2>3. CASE SendMeta
    BY <2>3 DEF SendMeta, IInv, PhaseFollowsPc, Feed!Next, Feed!Meta
  <2>4. CASE CommandFails \/ Leave
    BY <2>4 DEF CommandFails, Leave, Destroyed, Feed!Next, Feed!TearDown
  <2>5. ASSUME NEW t \in Transfers, ReceiveTransfer(t)
        PROVE  Feed!Next
    BY <2>5, ReceiveTransferInv
       DEF Reported, Feed!Next, Feed!Data, Feed!End, Feed!MoreSamples
  <2> QED BY <2>1, <2>2, <2>3, <2>4, <2>5 DEF Next
<1> QED BY <1>1, <1>2, Invariant, PTL DEF Spec, FeedSpec, Feed!Spec

-----------------------------------------------------------------------------
(* What an abort leaves *)

\* Every step keeps it, when no frontend stops the session while it is sent
\* samples: then the samples of the transfer are added to the -1.
LEMMA AbortKept ==
    ASSUME ~StopsOnData
    PROVE  AbortSticks /\ [Next]_vars => AbortSticks'
<1> SUFFICES ASSUME AbortSticks, [Next]_vars PROVE AbortSticks'
  OBVIOUS
<1> USE DEF AbortSticks, Aborted, Acquiring
<1>1. CASE \/ ConfigureProbes \/ Start \/ StartSubmitFails
           \/ StartMallocFails \/ SendHeader \/ SendMeta \/ CommandOk
           \/ CommandFails
  BY <1>1 DEF ConfigureProbes, Start, StartSubmitFails, StartMallocFails,
              Submit, SendHeader, SendMeta, CommandOk, CommandFails, Destroyed
<1>2. CASE Run \/ Poll \/ EventsHandled \/ UserStop \/ Leave \/ UNCHANGED vars
  BY <1>2 DEF Run, Poll, EventsHandled, UserStop, Leave, Destroyed, vars
<1>3. ASSUME NEW t \in Transfers, ReceiveTransfer(t) PROVE AbortSticks'
  <2>1. CASE \/ ReceiveAfterAbort(t) \/ ReceiveNoDevice(t)
             \/ ReceiveEmpty(t) \/ ReceiveUntriggered(t)
    BY <2>1 DEF ReceiveAfterAbort, ReceiveNoDevice, ReceiveEmpty,
                ReceiveUntriggered, ResubmitTransfer, FreeTransfer
  <2>2. CASE ReceiveData(t) \/ ReceiveTrigger(t)
    <3>1. PICK n, sent : SendSamples(t, n, sent)
      BY <2>2 DEF ReceiveData, ReceiveTrigger
    <3>2. cause = "none"
      BY <2>2 DEF ReceiveData, ReceiveTrigger, CallsBack
    <3>3. StopsOnData = FALSE
      BY Fx2Assumption
    <3>4. /\ UNCHANGED pc
          /\ \E run, counted :
                \/ FreeTransfer(t, AbortedSamples, "limit", run)
                \/ ResubmitTransfer(t, counted, cause, run)
      <4>1. PICK stop \in {FALSE} :
               LET counted == AsInt((IF stop THEN AbortedSamples
                                     ELSE num_samples) + n)
                   run     == running /\ ~stop
               IN /\ \/ FreeTransfer(t, AbortedSamples, "limit", run)
                     \/ ResubmitTransfer(t, counted, cause, run)
                  /\ UNCHANGED pc
        BY <3>1, <3>3 DEF SendSamples
      <4> QED BY <4>1
    <3> QED BY <3>2, <3>4 DEF ResubmitTransfer, FreeTransfer
  <2> QED BY <1>3, <2>1, <2>2 DEF ReceiveTransfer
<1> QED BY <1>1, <1>2, <1>3 DEF Next

\* An acquisition that was aborted stays aborted, whatever the device does
\* and whoever stops it, unless a frontend stops the session while samples
\* are delivered to it.
THEOREM AbortIsFinal ==
    ASSUME ~StopsOnData
    PROVE  Spec => []AbortSticks
<1>1. Init => AbortSticks
  BY DEF Init, AbortSticks, Acquiring
<1> QED BY <1>1, AbortKept, PTL DEF Spec

\* The same of the instance of MCFx2lafw that is not stopped from inside.
LEMMA PlainAbortKept == AbortSticks /\ Plain!Next => AbortSticks'
<1> SUFFICES ASSUME AbortSticks, Plain!Next PROVE AbortSticks'
  OBVIOUS
<1> USE DEF AbortSticks, Aborted, Acquiring, Plain!Aborted, AbortedSamples,
            Plain!AbortedSamples
<1>1. CASE \/ Plain!ConfigureProbes \/ Plain!Start \/ Plain!StartSubmitFails
           \/ Plain!StartMallocFails \/ Plain!SendHeader \/ Plain!SendMeta
           \/ Plain!CommandOk \/ Plain!CommandFails
  BY <1>1 DEF Plain!ConfigureProbes, Plain!Start, Plain!StartSubmitFails,
              Plain!StartMallocFails, Plain!Submit, Plain!SendHeader,
              Plain!SendMeta, Plain!CommandOk, Plain!CommandFails,
              Plain!Destroyed
<1>2. CASE \/ Plain!Run \/ Plain!Poll \/ Plain!EventsHandled
           \/ Plain!UserStop \/ Plain!Leave
  BY <1>2 DEF Plain!Run, Plain!Poll, Plain!EventsHandled, Plain!UserStop,
              Plain!Leave, Plain!Destroyed
<1>3. ASSUME NEW t \in Plain!Transfers, Plain!ReceiveTransfer(t)
      PROVE  AbortSticks'
  <2>1. CASE \/ Plain!ReceiveAfterAbort(t) \/ Plain!ReceiveNoDevice(t)
             \/ Plain!ReceiveEmpty(t) \/ Plain!ReceiveUntriggered(t)
    BY <2>1 DEF Plain!ReceiveAfterAbort, Plain!ReceiveNoDevice,
                Plain!ReceiveEmpty, Plain!ReceiveUntriggered,
                Plain!ResubmitTransfer, Plain!FreeTransfer
  <2>2. CASE Plain!ReceiveData(t) \/ Plain!ReceiveTrigger(t)
    <3>1. PICK n, sent : Plain!SendSamples(t, n, sent)
      BY <2>2 DEF Plain!ReceiveData, Plain!ReceiveTrigger
    <3>2. cause = "none"
      BY <2>2 DEF Plain!ReceiveData, Plain!ReceiveTrigger, Plain!CallsBack
    <3> QED BY <3>1, <3>2 DEF Plain!SendSamples, Plain!ResubmitTransfer,
                              Plain!FreeTransfer
  <2> QED BY <1>3, <2>1, <2>2 DEF Plain!ReceiveTransfer
<1> QED BY <1>1, <1>2, <1>3 DEF Plain!Next

\* In the instance that TLC runs, for every number of transfers and limit.
THEOREM PlainAbortIsFinal == MCSpec => []PlainAbortSticks
<1>1. MCInit => PlainAbortSticks
  BY DEF MCInit, Init, PlainAbortSticks, AbortSticks, Acquiring
<1>2. PlainAbortSticks /\ [MCNext]_<<instance, vars>> => PlainAbortSticks'
  <2> SUFFICES ASSUME PlainAbortSticks, [MCNext]_<<instance, vars>>, plain'
               PROVE  AbortSticks'
    BY DEF PlainAbortSticks
  <2>1. CASE UNCHANGED <<instance, vars>>
    BY <2>1 DEF PlainAbortSticks, plain, vars, AbortSticks, Aborted, Acquiring
  <2>2. CASE MCNext
    BY <2>2, PlainAbortKept DEF MCNext, plain, PlainAbortSticks
  <2> QED BY <2>1, <2>2
<1> QED BY <1>1, <1>2, PTL DEF MCSpec

-----------------------------------------------------------------------------
(* What a limit that ended the acquisition has seen delivered *)

\* A remainder is no larger than the number, and smaller than it only by a
\* whole modulus.
LEMMA Remainder ==
    ASSUME NEW y \in Nat
    PROVE  /\ y % Wrap \in 0 .. Wrap - 1 /\ y % Wrap <= y
           /\ y % Wrap = 0 => y = 0 \/ y >= Wrap
           /\ y < Wrap => y % Wrap = y
<1> DEFINE q == y \div Wrap
           m == y % Wrap
<1>1. Wrap \in Nat /\ Wrap > 1
  BY Fx2Assumption
<1>2. q \in Int /\ m \in 0 .. Wrap - 1 /\ y = Wrap * q + m
  BY <1>1
<1>3. q \in Nat
  BY <1>1
<1> DEFINE p == Wrap * q
<1>4. p \in Nat /\ (q = 0 => p = 0) /\ (q > 0 => p >= Wrap)
  <2> HIDE DEF q
  <2>1. CASE q = 0
    BY <1>1, <2>1
  <2>2. CASE q > 0
    BY <1>1, <1>3, <2>2
  <2> QED BY <1>3, <2>1, <2>2
<1>5. y = p + m
  BY <1>2
<1> HIDE DEF q, m, p
<1>6. q = 0 \/ q > 0
  BY <1>3
<1>7. m <= y /\ (m = 0 => y = 0 \/ y >= Wrap) /\ (y < Wrap => m = y)
  BY <1>1, <1>2, <1>4, <1>5, <1>6
<1> QED BY <1>2, <1>7 DEF m

\* However the int wraps, what it holds and what the test against the limit
\* reads of it were counted.
LEMMA CountedSamples ==
    ASSUME NEW a \in Int, a >= -1, NEW n \in Nat \ {0}
    PROVE  /\ AsInt(a + n) \in -1 .. Wrap - 2 /\ AsInt(a + n) <= a + n
           /\ AsUnsigned(AsInt(a + n)) \in Nat
           /\ AsUnsigned(AsInt(a + n)) <= a + n
<1> DEFINE y == a + n + 1
           m == y % Wrap
           c == m - 1
<1>1. y \in Nat /\ y > 0 /\ a + n = y - 1
  OBVIOUS
<1>2. Wrap \in Nat /\ Wrap > 1
  BY Fx2Assumption
<1> HIDE DEF y
<1>3. /\ m \in 0 .. Wrap - 1 /\ m <= y /\ (m = 0 => y >= Wrap)
  BY <1>1, Remainder
<1>4. AsInt(a + n) = c
  BY DEF AsInt, y
<1>5. CASE m = 0
  <2>1. c = -1
    BY <1>5
  <2>2. (-1) % Wrap = Wrap - 1
    BY <1>2
  <2>3. AsUnsigned(c) = Wrap - 1
    BY <2>1, <2>2 DEF AsUnsigned
  <2> HIDE DEF m
  <2> QED BY <1>1, <1>2, <1>3, <1>4, <1>5, <2>1, <2>3
<1>6. CASE m # 0
  <2> HIDE DEF m
  <2>1. c \in Nat /\ c < Wrap
    BY <1>2, <1>3, <1>6
  <2>2. AsUnsigned(c) = c
    BY <2>1, Remainder DEF AsUnsigned
  <2> QED BY <1>1, <1>2, <1>3, <1>4, <1>6, <2>1, <2>2
<1> QED BY <1>5, <1>6

\* The history of what was sent keeps up with the count.
LEMMA SentKeepsUp ==
    ASSUME NEW a \in Int, NEW c \in Int, NEW n \in Nat,
           NEW s \in 0 .. MaxSamples, s >= Saturated(a), c <= a + n
    PROVE  /\ Saturated(s + n) \in 0 .. MaxSamples /\ Saturated(s + n) >= s
           /\ Saturated(s + n) >= Saturated(c)
BY Fx2Assumption DEF Saturated

\* While there is no trigger: the frontend was sent as many samples as the
\* driver counts, and the limit of them when the limit ended it.
Delivering ==
    /\ samples \in 0 .. MaxSamples
    /\ num_samples \in Int /\ num_samples >= -1
    /\ fired = TRUE
    /\ pc = "idle" => phase = "idle"
    /\ Acquiring => samples >= Saturated(num_samples)
    /\ Acquiring /\ cause = "limit" => samples >= Saturated(Limit)

\* The samples of a transfer of n samples are sent and counted; a frontend
\* may have stopped the session meanwhile.
SentAndCounted(n) ==
    /\ pc' = pc /\ pc # "idle" /\ fired' = TRUE
    /\ samples' = Saturated(samples + n)
    /\ \E a \in {-1, num_samples} :
          /\ num_samples' \in {-1, AsInt(a + n)}
          /\ \/ cause' \in {cause, "stop", "device"}
             \/ cause' = "limit" /\ AsUnsigned(AsInt(a + n)) > Limit

\* A transfer that brings no samples.
NothingSent ==
    /\ UNCHANGED <<pc, fired, samples>> /\ pc # "idle"
    /\ num_samples' \in {-1, num_samples}
    /\ cause' \in {cause, "device"}

\* Samples keep it.
LEMMA SentKeeps ==
    ASSUME Delivering, NEW n \in Nat \ {0}, SentAndCounted(n)
    PROVE  Delivering'
<1>1. PICK a \in {-1, num_samples} :
         /\ num_samples' \in {-1, AsInt(a + n)}
         /\ \/ cause' \in {cause, "stop", "device"}
            \/ cause' = "limit" /\ AsUnsigned(AsInt(a + n)) > Limit
  BY DEF SentAndCounted
<1>2. /\ pc' = pc /\ pc # "idle" /\ fired' = TRUE
      /\ samples' = Saturated(samples + n)
  BY DEF SentAndCounted
<1>3. /\ samples \in 0 .. MaxSamples /\ MaxSamples \in Nat /\ Limit \in Nat
      /\ num_samples \in Int /\ num_samples >= -1
      /\ samples >= Saturated(num_samples)
      /\ cause = "limit" => samples >= Saturated(Limit)
  BY <1>2, Fx2Assumption DEF Delivering, Acquiring
<1>4. Saturated(-1) = -1
  BY <1>3 DEF Saturated
<1>5. a \in Int /\ a >= -1 /\ samples >= Saturated(a)
  <2>1. CASE a = -1
    BY <2>1, <1>3, <1>4
  <2>2. CASE a = num_samples
    BY <2>2, <1>3
  <2> QED BY <1>1, <2>1, <2>2
<1> DEFINE c == AsInt(a + n)
           u == AsUnsigned(AsInt(a + n))
<1>6. c \in -1 .. Wrap - 2 /\ c <= a + n /\ u \in Nat /\ u <= a + n
  BY <1>5, CountedSamples
<1> HIDE DEF c, u
<1>7. c \in Int /\ c >= -1
  BY <1>6, Fx2Assumption
<1>8. /\ samples' \in 0 .. MaxSamples /\ samples' >= samples
      /\ samples' >= Saturated(c)
  BY ONLY <1>2, <1>3, <1>5, <1>6, <1>7, SentKeepsUp
<1>9. u > Limit => samples' >= Saturated(Limit)
  <2> SUFFICES ASSUME u > Limit PROVE samples' >= Saturated(Limit)
    OBVIOUS
  <2>1. Limit \in Int /\ Limit <= a + n
    BY <1>3, <1>5, <1>6
  <2> QED BY ONLY <2>1, <1>2, <1>3, <1>5, SentKeepsUp
<1>10. /\ num_samples' \in Int /\ num_samples' >= -1
       /\ samples' >= Saturated(num_samples')
  <2>1. CASE num_samples' = -1
    BY <2>1, <1>3, <1>4, <1>8
  <2>2. CASE num_samples' = c
    BY <2>2, <1>7, <1>8
  <2> QED BY <1>1, <2>1, <2>2 DEF c
<1>11. cause' = "limit" => samples' >= Saturated(Limit)
  <2>1. CASE cause' = cause
    <3>1. Saturated(Limit) \in Int
      BY <1>3 DEF Saturated
    <3> QED BY <2>1, <3>1, <1>3, <1>8
  <2>2. CASE u > Limit
    BY <2>2, <1>9
  <2> QED BY <1>1, <2>1, <2>2 DEF u
<1>12. Saturated(num_samples)' = Saturated(num_samples')
       /\ Saturated(Limit)' = Saturated(Limit)
  BY DEF Saturated
<1> QED BY <1>2, <1>8, <1>10, <1>11, <1>12 DEF Delivering, Acquiring

\* So does a transfer without samples.
LEMMA NothingSentKeeps ==
    ASSUME Delivering, NothingSent
    PROVE  Delivering'
<1>1. /\ samples \in 0 .. MaxSamples /\ MaxSamples \in Nat /\ Limit \in Nat
      /\ num_samples \in Int /\ num_samples >= -1
      /\ samples >= Saturated(num_samples)
      /\ cause = "limit" => samples >= Saturated(Limit)
  BY Fx2Assumption DEF Delivering, NothingSent, Acquiring
<1>2. /\ pc' = pc /\ pc # "idle" /\ fired' = TRUE /\ samples' = samples
      /\ num_samples' \in {-1, num_samples} /\ cause' \in {cause, "device"}
  BY DEF Delivering, NothingSent
<1>3. samples >= Saturated(-1)
  BY <1>1 DEF Saturated
<1>4. /\ num_samples' \in Int /\ num_samples' >= -1
      /\ samples' >= Saturated(num_samples')
  <2>1. CASE num_samples' = -1
    BY <2>1, <1>2, <1>3
  <2>2. CASE num_samples' = num_samples
    BY <2>2, <1>1, <1>2
  <2> QED BY <1>2, <2>1, <2>2
<1>5. cause' = "limit" => samples' >= Saturated(Limit)
  BY <1>1, <1>2
<1>6. Saturated(num_samples)' = Saturated(num_samples')
      /\ Saturated(Limit)' = Saturated(Limit)
  BY DEF Saturated
<1> QED BY <1>1, <1>2, <1>4, <1>5, <1>6 DEF Delivering, Acquiring

\* A step around the transfers.
AroundTransfers ==
    /\ fired' = TRUE /\ samples' \in {0, samples}
    /\ num_samples' \in {-1, 0, num_samples}
    /\ pc' = "idle" => phase' = "idle"
    /\ \/ pc' = "idle"
       \/ num_samples' \in {-1, 0} /\ cause' \in {"none", "start", "stop"}
          /\ samples' = samples
       \/ UNCHANGED <<samples, num_samples, cause>> /\ pc # "idle"

\* So do the steps around the transfers.
LEMMA AroundKeeps ==
    ASSUME Delivering, AroundTransfers
    PROVE  Delivering'
<1>1. /\ MaxSamples \in Nat /\ Saturated(0) = 0 /\ Saturated(-1) = -1
  BY Fx2Assumption DEF Saturated
<1>2. /\ fired' = TRUE /\ samples' \in {0, samples}
      /\ num_samples' \in {-1, 0, num_samples}
      /\ pc' = "idle" => phase' = "idle"
      /\ \/ pc' = "idle"
         \/ num_samples' \in {-1, 0} /\ cause' \in {"none", "start", "stop"}
            /\ samples' = samples
         \/ UNCHANGED <<samples, num_samples, cause>> /\ pc # "idle"
  BY DEF AroundTransfers
<1>3. /\ samples' \in 0 .. MaxSamples
      /\ num_samples' \in Int /\ num_samples' >= -1
  BY <1>1, <1>2 DEF Delivering
<1>4. Saturated(num_samples)' = Saturated(num_samples')
      /\ Saturated(Limit)' = Saturated(Limit)
  BY DEF Saturated
<1>5. CASE pc' = "idle"
  BY <1>2, <1>3, <1>5 DEF Delivering, Acquiring
<1>6. CASE /\ num_samples' \in {-1, 0} /\ cause' \in {"none", "start", "stop"}
           /\ samples' = samples
  <2>1. samples' >= Saturated(num_samples')
    BY <1>1, <1>3, <1>6
  <2> QED BY <1>2, <1>3, <1>4, <1>6, <2>1 DEF Delivering, Acquiring
<1>7. CASE UNCHANGED <<samples, num_samples, cause>> /\ pc # "idle"
  BY <1>2, <1>3, <1>4, <1>7 DEF Delivering, Acquiring
<1> QED BY <1>2, <1>5, <1>6, <1>7

\* What a callback does to it is one of the two.
LEMMA CallbackCounts ==
    ASSUME NEW t \in Transfers, ReceiveTransfer(t), fired = TRUE
    PROVE  \/ NothingSent
           \/ \E n \in Nat \ {0} : SentAndCounted(n)
<1> USE DEF AbortedSamples
<1>1. CASE \/ ReceiveAfterAbort(t) \/ ReceiveNoDevice(t)
           \/ ReceiveEmpty(t) \/ ReceiveUntriggered(t)
  BY <1>1 DEF ReceiveAfterAbort, ReceiveNoDevice, ReceiveEmpty,
              ReceiveUntriggered, ResubmitTransfer, FreeTransfer, CallsBack,
              NothingSent
<1>2. CASE ReceiveData(t)
  <2>1. PICK n \in 1 .. MaxLen : SendSamples(t, n, n)
    BY <1>2 DEF ReceiveData
  <2>2. n \in Nat \ {0} /\ pc # "idle"
    BY <1>2, Fx2Assumption DEF ReceiveData, CallsBack
  <2>3. PICK stop \in {FALSE, StopsOnData} :
           LET before  == IF stop THEN AbortedSamples ELSE num_samples
               counted == AsInt(before + n)
               why     == IF stop THEN "stop" ELSE cause
               run     == running /\ ~stop
           IN /\ samples' = Saturated(samples + n)
              /\ empty_transfer_count' = 0 /\ fired' = TRUE
              /\ IF Limit # 0 /\ AsUnsigned(counted) > Limit
                 THEN FreeTransfer(t, AbortedSamples,
                                   IF stop THEN why ELSE "limit", run)
                 ELSE ResubmitTransfer(t, counted, why, run)
              /\ UNCHANGED pc
    BY <2>1 DEF SendSamples
  <2> DEFINE a == IF stop THEN AbortedSamples ELSE num_samples
             run == running /\ ~stop
  <2>4. a \in {-1, num_samples}
    OBVIOUS
  <2>5. \/ FreeTransfer(t, -1, IF stop THEN "stop" ELSE "limit", run)
           /\ AsUnsigned(AsInt(a + n)) > Limit
        \/ ResubmitTransfer(t, AsInt(a + n), IF stop THEN "stop" ELSE cause,
                            run)
    BY <2>3
  <2> HIDE DEF a, run
  <2>6. /\ num_samples' \in {-1, AsInt(a + n)}
        /\ \/ cause' \in {cause, "stop", "device"}
           \/ cause' = "limit" /\ AsUnsigned(AsInt(a + n)) > Limit
    BY <2>5 DEF FreeTransfer, ResubmitTransfer
  <2>7. SentAndCounted(n)
    BY <2>2, <2>3, <2>4, <2>6 DEF SentAndCounted
  <2> QED BY <2>2, <2>7
<1>3. ~ ReceiveTrigger(t)
  BY DEF ReceiveTrigger
<1> QED BY <1>1, <1>2, <1>3 DEF ReceiveTransfer

\* Every step keeps it.
LEMMA DeliveringKept ==
    ASSUME Stages = 0
    PROVE  Delivering /\ [Next]_vars => Delivering'
<1> SUFFICES ASSUME Delivering, [Next]_vars PROVE Delivering'
  OBVIOUS
<1>1. ASSUME NEW t \in Transfers, ReceiveTransfer(t) PROVE Delivering'
  <2>1. fired = TRUE
    BY DEF Delivering
  <2>2. CASE NothingSent
    BY <2>2, NothingSentKeeps
  <2>3. ASSUME NEW n \in Nat \ {0}, SentAndCounted(n) PROVE Delivering'
    BY <2>3, SentKeeps
  <2> QED BY <1>1, <2>1, <2>2, <2>3, CallbackCounts
<1>2. CASE \/ ConfigureProbes \/ Start \/ StartSubmitFails
           \/ StartMallocFails \/ SendHeader \/ SendMeta \/ CommandOk
           \/ CommandFails \/ Run \/ Poll \/ EventsHandled \/ UserStop
           \/ Leave
  <2>1. AroundTransfers
    BY <1>2 DEF AroundTransfers, Delivering, ConfigureProbes, Start,
                StartSubmitFails, StartMallocFails, Submit, SendHeader,
                SendMeta, CommandOk, CommandFails, Destroyed, Run, Poll,
                EventsHandled, UserStop, Leave, AbortedSamples
  <2> QED BY <2>1, AroundKeeps
<1>3. CASE UNCHANGED vars
  BY <1>3 DEF vars, Delivering, Acquiring, Saturated
<1> QED BY <1>1, <1>2, <1>3 DEF Next

\* An acquisition that the limit ended was sent as many samples as were asked
\* for, when no trigger is set, for every limit, every length of the
\* transfers and wherever the int wraps.
THEOREM LimitIsDelivered ==
    ASSUME Stages = 0
    PROVE  Spec => []LimitDelivered
<1>1. Init => Delivering
  BY Fx2Assumption DEF Init, Delivering, Acquiring
<1>2. Delivering => LimitDelivered
  BY DEF Delivering, LimitDelivered, Acquiring
<1> QED BY <1>1, <1>2, DeliveringKept, PTL DEF Spec

\* In the instance that TLC runs, whose transfers are of one or two samples.
THEOREM PlainLimitIsDelivered == MCSpec => []PlainLimitDelivered
<1>0. /\ Plain!AbortedSamples = -1
      /\ \A n : /\ Plain!Saturated(n) = Saturated(n)
               /\ Plain!AsInt(n) = AsInt(n)
               /\ Plain!AsUnsigned(n) = AsUnsigned(n)
  BY DEF Plain!AbortedSamples, Plain!Saturated, Plain!AsInt,
         Plain!AsUnsigned, Saturated, AsInt, AsUnsigned
<1>1. ASSUME NEW t \in Plain!Transfers, Plain!ReceiveTransfer(t), Delivering
      PROVE  Delivering'
  <2>1. CASE \/ Plain!ReceiveAfterAbort(t) \/ Plain!ReceiveNoDevice(t)
             \/ Plain!ReceiveEmpty(t) \/ Plain!ReceiveUntriggered(t)
    <3>1. NothingSent
      BY <2>1, <1>0 DEF Plain!ReceiveAfterAbort, Plain!ReceiveNoDevice,
                  Plain!ReceiveEmpty, Plain!ReceiveUntriggered,
                  Plain!ResubmitTransfer, Plain!FreeTransfer,
                  Plain!CallsBack, NothingSent
    <3> QED BY <3>1, <1>1, NothingSentKeeps
  <2>2. CASE Plain!ReceiveData(t)
    <3>1. PICK n \in 1 .. 2 : Plain!SendSamples(t, n, n)
      BY <2>2 DEF Plain!ReceiveData
    <3>2. n \in Nat \ {0} /\ pc # "idle"
      BY <2>2 DEF Plain!ReceiveData, Plain!CallsBack
    <3> DEFINE c == AsInt(num_samples + n)
               run == running /\ ~FALSE
    <3>3. /\ samples' = Saturated(samples + n) /\ fired' = TRUE
          /\ UNCHANGED pc
          /\ \/ Plain!FreeTransfer(t, -1, "limit", run)
                /\ AsUnsigned(c) > Limit
             \/ Plain!ResubmitTransfer(t, c, cause, run)
      BY <3>1, <1>0 DEF Plain!SendSamples
    <3> HIDE DEF c, run
    <3>4. /\ num_samples' \in {-1, c}
          /\ \/ cause' \in {cause, "stop", "device"}
             \/ cause' = "limit" /\ AsUnsigned(c) > Limit
      BY <3>3, <1>0 DEF Plain!FreeTransfer, Plain!ResubmitTransfer
    <3>5. SentAndCounted(n)
      BY <3>2, <3>3, <3>4 DEF SentAndCounted, c
    <3> QED BY <3>2, <3>5, <1>1, SentKeeps
  <2>3. ~ Plain!ReceiveTrigger(t)
    BY <1>1 DEF Plain!ReceiveTrigger, Delivering
  <2> QED BY <1>1, <2>1, <2>2, <2>3 DEF Plain!ReceiveTransfer
<1>2. ASSUME Plain!Next, Delivering PROVE Delivering'
  <2>1. CASE \/ Plain!ConfigureProbes \/ Plain!Start
             \/ Plain!StartSubmitFails \/ Plain!StartMallocFails
             \/ Plain!SendHeader \/ Plain!SendMeta \/ Plain!CommandOk
             \/ Plain!CommandFails \/ Plain!Run \/ Plain!Poll
             \/ Plain!EventsHandled \/ Plain!UserStop \/ Plain!Leave
    <3>1. AroundTransfers
      BY <1>2, <2>1
         DEF AroundTransfers, Delivering, Plain!ConfigureProbes, Plain!Start,
             Plain!StartSubmitFails, Plain!StartMallocFails, Plain!Submit,
             Plain!SendHeader, Plain!SendMeta, Plain!CommandOk,
             Plain!CommandFails, Plain!Destroyed, Plain!Run, Plain!Poll,
             Plain!EventsHandled, Plain!UserStop, Plain!Leave,
             Plain!AbortedSamples
    <3> QED BY <1>2, <3>1, AroundKeeps
  <2> QED BY <1>1, <1>2, <2>1 DEF Plain!Next
<1>3. MCInit => (plain => Delivering)
  BY Fx2Assumption DEF MCInit, Init, Delivering, Acquiring
<1>4. (plain => Delivering) /\ [MCNext]_<<instance, vars>>
         => (plain => Delivering)'
  <2>1. CASE UNCHANGED <<instance, vars>>
    BY <2>1 DEF plain, vars, Delivering, Acquiring, Saturated
  <2>2. CASE MCNext
    BY <2>2, <1>2 DEF MCNext, plain
  <2> QED BY <2>1, <2>2
<1>5. (plain => Delivering) => PlainLimitDelivered
  BY DEF Delivering, PlainLimitDelivered, LimitDelivered, Acquiring
<1> QED BY <1>3, <1>4, <1>5, PTL DEF MCSpec

=============================================================================
