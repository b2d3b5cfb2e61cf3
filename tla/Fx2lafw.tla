------------------------------ MODULE Fx2lafw ------------------------------
(***************************************************************************)
(* The acquisition of hardware/fx2lafw/fx2lafw.c: a set of USB transfers   *)
(* that libusb completes asynchronously, each callback freeing its         *)
(* transfer or submitting it again, and the last one freed ending the      *)
(* acquisition.  The session around it is reduced to what the driver sees: *)
(* whether its descriptors are polled, whether the loop runs, and a        *)
(* frontend that stops the session on SR_DF_END (every frontend does),     *)
(* when the user asks, on SR_DF_LOGIC when a protocol decoder fails        *)
(* (sigrok-cli), or already on SR_DF_HEADER (sigrok-qt).                   *)
(***************************************************************************)
EXTENDS Integers, FiniteSets

CONSTANTS
    NumTransfers,   \* get_number_of_transfers()
    MaxEmpty,       \* MAX_EMPTY_TRANSFERS
    MaxLen,         \* bound: samples in one transfer
    Limit,          \* ctx->limit_samples, 0 for none
    Stages,         \* NUM_TRIGGER_STAGES, or 0 when no trigger is set
    Wrap,           \* 2^32: num_samples is a C int
    EventsInStart,  \* libusb completes transfers while the start command runs
    UserStops,      \* the user may stop the session
    StopsOnHeader,  \* the frontend may stop the session on SR_DF_HEADER
    StopsOnData,    \* the frontend may stop the session on SR_DF_LOGIC
    MaxSamples      \* bound: where the history counter samples saturates

ASSUME Fx2Assumption ==
    /\ NumTransfers \in Nat \ {0} /\ MaxEmpty \in Nat /\ MaxLen \in Nat \ {0}
    /\ Limit \in Nat /\ Stages \in Nat /\ Wrap \in Nat \ {0, 1}
    /\ MaxSamples \in Nat
    /\ {EventsInStart, UserStops, StopsOnHeader, StopsOnData} \subseteq BOOLEAN

Transfers == 1 .. NumTransfers

VARIABLES
    pc,                    \* what the only thread is doing
    running,               \* session->running
    fds,                   \* libusb's descriptors are sources of the session
    transfers,             \* the entries of ctx->transfers[] that are not NULL
    num_transfers,         \* ctx->num_transfers
    submitted_transfers,   \* ctx->submitted_transfers
    num_samples,           \* ctx->num_samples, -1 after an abort
    empty_transfer_count,  \* ctx->empty_transfer_count
    fired,                 \* ctx->trigger_stage = TRIGGER_FIRED
    phase,                 \* history: the packets sent (Datafeed)
    samples,               \* history: the samples sent (Datafeed)
    cause                  \* history: why the acquisition was aborted

vars == <<pc, running, fds, transfers, num_transfers, submitted_transfers,
          num_samples, empty_transfer_count, fired, phase, samples, cause>>

\* abort_acquisition() marks the abort here and cancels what is in flight. A
\* cancelled transfer stays allocated until libusb has called back for it.
AbortedSamples == -1
Aborted == num_samples = AbortedSamples

\* The sum as the int holds it, and as the test against the limit reads it.
AsInt(n) == ((n + 1) % Wrap) - 1
AsUnsigned(n) == n % Wrap

Saturated(n) == IF n > MaxSamples THEN MaxSamples ELSE n

-----------------------------------------------------------------------------
(* configure_probes() and hw_dev_acquisition_start() *)

\* The frontend sets the probes, and with them the trigger. It need not do so
\* before every acquisition: a trigger that has fired stays fired.
ConfigureProbes ==
    /\ pc = "idle" /\ fired' = (Stages = 0)
    /\ UNCHANGED <<pc, running, fds, transfers, num_transfers,
                   submitted_transfers, num_samples, empty_transfer_count,
                   phase, samples, cause>>

\* A transfer still allocated from before: SR_ERR, nothing is done.
MayStart == submitted_transfers = 0

\* Mutant: all transfers are counted before they are submitted.
SubmitCountedFirst(k) ==
    /\ pc = "idle" /\ MayStart
    /\ transfers' = 1 .. k /\ submitted_transfers' = NumTransfers
    /\ num_transfers' = NumTransfers
    /\ empty_transfer_count' = 0
    /\ UNCHANGED <<running, fired, phase, samples>>

\* Transfers 1..k have been submitted.
Submit(k) ==
    /\ pc = "idle" /\ MayStart
    /\ transfers' = 1 .. k /\ submitted_transfers' = k
    /\ num_transfers' = NumTransfers
    /\ empty_transfer_count' = 0
    /\ UNCHANGED <<running, fired, phase, samples>>

Start ==
    /\ Submit(NumTransfers)
    /\ num_samples' = 0 /\ fds' = TRUE /\ cause' = "none"
    /\ pc' = "header"

\* libusb refuses a submission: abort, SR_ERR. The frontend destroys the
\* session, which never polled for what is in flight.
StartSubmitFails ==
    /\ \E k \in 0 .. NumTransfers - 1 : Submit(k)
    /\ num_samples' = AbortedSamples /\ cause' = "start"
    /\ UNCHANGED <<pc, fds>>

\* No memory for a buffer: SR_ERR_MALLOC, without an abort.
StartMallocFails ==
    /\ \E k \in 0 .. NumTransfers - 1 : Submit(k)
    /\ num_samples' = 0 /\ cause' = "start"
    /\ UNCHANGED <<pc, fds>>

\* The frontend's handler of the header may call sr_session_stop().
SendHeader ==
    /\ pc = "header" /\ pc' = "meta"
    /\ phase' = "header"
    /\ \/ /\ StopsOnHeader
          /\ running' = FALSE
          /\ num_samples' = AbortedSamples /\ cause' = "stop"
       \/ UNCHANGED <<running, num_samples, cause>>
    /\ UNCHANGED <<fds, transfers, num_transfers, submitted_transfers,
                   empty_transfer_count, fired, samples>>

\* Mutant: the description of the data is forgotten.
SendMetaForgotten ==
    /\ pc = "meta" /\ pc' = "command"
    /\ UNCHANGED <<running, fds, transfers, num_transfers,
                   submitted_transfers, num_samples, empty_transfer_count,
                   fired, phase, samples, cause>>

SendMeta ==
    /\ pc = "meta" /\ pc' = "command"
    /\ phase' = "open"
    /\ UNCHANGED <<running, fds, transfers, num_transfers,
                   submitted_transfers, num_samples, empty_transfer_count,
                   fired, samples, cause>>

\* command_start_acquisition() succeeds.
CommandOk ==
    /\ pc = "command" /\ pc' = "started"
    /\ UNCHANGED <<running, fds, transfers, num_transfers,
                   submitted_transfers, num_samples, empty_transfer_count,
                   fired, phase, samples, cause>>

\* The session is destroyed: its sources are gone, no packet can reach the
\* frontend any more.
Destroyed ==
    /\ pc' = "idle" /\ fds' = FALSE
    /\ phase' = "idle" /\ samples' = 0

CommandFails ==
    /\ pc = "command"
    /\ num_samples' = AbortedSamples /\ cause' = "start"
    /\ Destroyed
    /\ UNCHANGED <<running, transfers, num_transfers, submitted_transfers,
                   empty_transfer_count, fired>>

-----------------------------------------------------------------------------
(* The session loop around the driver *)

Run ==
    /\ pc = "started" /\ pc' = "poll"
    /\ running' = TRUE
    /\ UNCHANGED <<fds, transfers, num_transfers, submitted_transfers,
                   num_samples, empty_transfer_count, fired, phase, samples,
                   cause>>

\* A descriptor is ready or the timeout has passed: receive_data() lets
\* libusb handle its events, none or several.
Poll ==
    /\ pc = "poll" /\ running /\ fds /\ pc' = "handle"
    /\ UNCHANGED <<running, fds, transfers, num_transfers,
                   submitted_transfers, num_samples, empty_transfer_count,
                   fired, phase, samples, cause>>

EventsHandled ==
    /\ pc = "handle" /\ pc' = "poll"
    /\ UNCHANGED <<running, fds, transfers, num_transfers,
                   submitted_transfers, num_samples, empty_transfer_count,
                   fired, phase, samples, cause>>

\* The callback of another source (any key) stops the session:
\* hw_dev_acquisition_stop() aborts.
UserStop ==
    /\ UserStops /\ pc = "poll" /\ running
    /\ running' = FALSE /\ num_samples' = AbortedSamples /\ cause' = "stop"
    /\ UNCHANGED <<pc, fds, transfers, num_transfers, submitted_transfers,
                   empty_transfer_count, fired, phase, samples>>

\* sr_session_run() returns and the frontend destroys the session.
Leave ==
    /\ pc = "poll" /\ ~running
    /\ Destroyed
    /\ UNCHANGED <<running, transfers, num_transfers, submitted_transfers,
                   num_samples, empty_transfer_count, fired, cause>>

-----------------------------------------------------------------------------
(* receive_transfer() *)

\* libusb calls back from receive_data() and from inside the synchronous
\* control transfer of command_start_acquisition().
CallsBack(t) ==
    /\ t \in transfers
    /\ pc = "handle" \/ (pc = "command" /\ EventsInStart)

\* Mutant: tested before the decrement, the last transfer is never seen.
FreeTransferLate(t, ns, why, run) ==
    /\ transfers' = transfers \ {t}
    /\ submitted_transfers' = submitted_transfers - 1
    /\ num_samples' = ns /\ cause' = why /\ running' = run
    /\ UNCHANGED <<phase, fds, num_transfers>>

\* Mutant: the first transfer freed after an abort finishes the acquisition.
FreeTransferEager(t, ns, why, run) ==
    /\ transfers' = transfers \ {t}
    /\ submitted_transfers' = submitted_transfers - 1
    /\ IF submitted_transfers = 1 \/ ns = AbortedSamples
       THEN /\ phase' = "ended" /\ running' = FALSE /\ fds' = FALSE
            /\ num_samples' = AbortedSamples /\ num_transfers' = 0
            /\ cause' = IF why = "none" THEN "device" ELSE why
       ELSE /\ num_samples' = ns /\ cause' = why /\ running' = run
            /\ UNCHANGED <<phase, fds, num_transfers>>

\* free_transfer(). The last one finishes the acquisition: SR_DF_END goes
\* out, the frontend stops the session (which aborts again), the descriptors
\* are removed. ns, why and run: what the caller leaves in num_samples, cause
\* and running.
FreeTransfer(t, ns, why, run) ==
    /\ transfers' = transfers \ {t}
    /\ submitted_transfers' = submitted_transfers - 1
    /\ IF submitted_transfers = 1
       THEN /\ phase' = "ended" /\ running' = FALSE /\ fds' = FALSE
            /\ num_samples' = AbortedSamples /\ num_transfers' = 0
            /\ cause' = IF why = "none" THEN "device" ELSE why
       ELSE /\ num_samples' = ns /\ cause' = why /\ running' = run
            /\ UNCHANGED <<phase, fds, num_transfers>>

\* resubmit_transfer(): what libusb does not take back is freed.
ResubmitTransfer(t, ns, why, run) ==
    \/ /\ num_samples' = ns /\ cause' = why /\ running' = run
       /\ UNCHANGED <<transfers, submitted_transfers, phase, fds,
                      num_transfers>>
    \/ FreeTransfer(t, ns, why, run)

\* Acquisition has already ended: just free it.
ReceiveAfterAbort(t) ==
    /\ CallsBack(t) /\ Aborted
    /\ FreeTransfer(t, num_samples, cause, running)
    /\ UNCHANGED <<pc, empty_transfer_count, fired, samples>>

\* Mutant: the device is gone and nothing is aborted.
ReceiveNoDeviceGoesOn(t) ==
    /\ CallsBack(t) /\ ~Aborted
    /\ FreeTransfer(t, num_samples, "device", running)
    /\ UNCHANGED <<pc, empty_transfer_count, fired, samples>>

ReceiveNoDevice(t) ==
    /\ CallsBack(t) /\ ~Aborted
    /\ FreeTransfer(t, AbortedSamples, "device", running)
    /\ UNCHANGED <<pc, empty_transfer_count, fired, samples>>

\* Mutant: the device is never given up.
ReceiveEmptyForever(t) ==
    /\ CallsBack(t) /\ ~Aborted
    /\ empty_transfer_count' = empty_transfer_count + 1
    /\ ResubmitTransfer(t, num_samples, cause, running)
    /\ UNCHANGED <<pc, fired, samples>>

\* Nothing in it, or an error: the device has given up when it happens too
\* often.
ReceiveEmpty(t) ==
    /\ CallsBack(t) /\ ~Aborted
    /\ empty_transfer_count' = empty_transfer_count + 1
    /\ IF empty_transfer_count + 1 > MaxEmpty
       THEN FreeTransfer(t, AbortedSamples, "device", running)
       ELSE ResubmitTransfer(t, num_samples, cause, running)
    /\ UNCHANGED <<pc, fired, samples>>

\* n samples came, sent of them go to the frontend, which may stop the
\* session: the abort sets num_samples to -1, and then n is added to it.
\* num_samples counts all of the transfer, whatever was sent of it, and the
\* test against the limit is > and not >=.
SendSamples(t, n, sent) ==
    \E stop \in {FALSE, StopsOnData} :
        LET before  == IF stop THEN AbortedSamples ELSE num_samples
            counted == AsInt(before + n)
            why     == IF stop THEN "stop" ELSE cause
            run     == running /\ ~stop
        IN /\ samples' = Saturated(samples + sent)
           /\ empty_transfer_count' = 0 /\ fired' = TRUE
           /\ IF Limit # 0 /\ AsUnsigned(counted) > Limit
              THEN FreeTransfer(t, AbortedSamples,
                                IF stop THEN why ELSE "limit", run)
              ELSE ResubmitTransfer(t, counted, why, run)
           /\ UNCHANGED pc

\* Mutant: the offset of the trigger is applied without a trigger.
ReceiveDataOffset(t) ==
    /\ CallsBack(t) /\ ~Aborted /\ fired
    /\ \E n \in 1 .. MaxLen : SendSamples(t, n, n - 1)

ReceiveData(t) ==
    /\ CallsBack(t) /\ ~Aborted /\ fired
    /\ \E n \in 1 .. MaxLen : SendSamples(t, n, n)

\* The trigger matches at sample k: the samples of the s stages are sent,
\* then what follows the match.
ReceiveTrigger(t) ==
    /\ CallsBack(t) /\ ~Aborted /\ ~fired
    /\ \E n \in 1 .. MaxLen : \E k \in 1 .. n, s \in 1 .. Stages :
          SendSamples(t, n, s + (n - k))

\* No match yet: what came is dropped.
ReceiveUntriggered(t) ==
    /\ CallsBack(t) /\ ~Aborted /\ ~fired
    /\ empty_transfer_count' = 0
    /\ ResubmitTransfer(t, num_samples, cause, running)
    /\ UNCHANGED <<pc, fired, samples>>

ReceiveTransfer(t) ==
    \/ ReceiveAfterAbort(t) \/ ReceiveNoDevice(t) \/ ReceiveEmpty(t)
    \/ ReceiveData(t) \/ ReceiveTrigger(t) \/ ReceiveUntriggered(t)

-----------------------------------------------------------------------------
Init ==
    /\ pc = "idle" /\ running = FALSE /\ fds = FALSE
    /\ transfers = {} /\ num_transfers = 0 /\ submitted_transfers = 0
    /\ num_samples = 0 /\ empty_transfer_count = 0 /\ fired = TRUE
    /\ phase = "idle" /\ samples = 0 /\ cause = "none"

Next ==
    \/ ConfigureProbes \/ Start \/ StartSubmitFails \/ StartMallocFails
    \/ SendHeader \/ SendMeta \/ CommandOk \/ CommandFails
    \/ Run \/ Poll \/ EventsHandled \/ UserStop \/ Leave
    \/ \E t \in Transfers : ReceiveTransfer(t)

Spec == Init /\ [][Next]_vars

\* The thread keeps running, and every transfer completes: libusb gave it a
\* timeout, and the loop lets libusb handle its events again and again.
Fairness ==
    /\ WF_vars(SendHeader \/ SendMeta \/ CommandOk \/ CommandFails \/ Run
               \/ Poll \/ EventsHandled \/ Leave)
    /\ \A t \in Transfers : SF_vars(ReceiveTransfer(t))

FairSpec == Spec /\ Fairness

-----------------------------------------------------------------------------
(* Properties *)

Acquiring == pc \notin {"idle"}

TypeOK ==
    /\ pc \in {"idle", "header", "meta", "command", "started", "poll",
               "handle"}
    /\ running \in BOOLEAN /\ fds \in BOOLEAN /\ fired \in BOOLEAN
    /\ transfers \subseteq Transfers
    /\ num_transfers \in {0, NumTransfers}
    /\ submitted_transfers \in 0 .. NumTransfers
    /\ num_samples \in -1 .. Wrap - 2
    /\ empty_transfer_count \in 0 .. MaxEmpty + 1
    /\ phase \in {"idle", "header", "open", "ended"}
    /\ samples \in 0 .. MaxSamples
    /\ cause \in {"none", "start", "stop", "device", "limit"}

\* The counter that decides when the acquisition is finished counts exactly
\* the transfers libusb still has to call back for, on every path: partial
\* submission, refused resubmission, abort, and the last callback.
CountsTransfers == submitted_transfers = Cardinality(transfers)

\* While the frontend waits for SR_DF_END there is a transfer whose callback
\* can bring it, and libusb's descriptors are polled so that it is called.
EndCanCome ==
    /\ pc \in {"header", "meta"} => transfers # {} /\ fds
    /\ Acquiring /\ phase \in {"header", "open"} => transfers # {} /\ fds

\* After SR_DF_END no callback is outstanding that could send more, and the
\* arrays were freed with no transfer left in them.
EndIsLast == phase = "ended" => transfers = {} /\ num_transfers = 0

\* The packets come in the order the frontends rely on.
Feed == INSTANCE Datafeed
FeedSpec == Feed!Spec

\* An acquisition that the sample limit ended has sent as many samples as
\* were asked for, whichever transfers were empty, failed or freed meanwhile.
\* (With a trigger it does not hold: the samples of the transfer in which the
\* trigger matches are all counted, and those before the match are not sent.)
LimitDelivered ==
    phase = "ended" /\ cause = "limit" => samples >= Saturated(Limit)

\* Once aborted, whatever the reason, the acquisition stays aborted.
AbortSticks == cause # "none" /\ Acquiring => Aborted

\* With a sample limit the acquisition comes to its end and the session
\* returns to the frontend, whatever the device does.
RunReturns == pc = "poll" ~> pc = "idle"
=============================================================================
