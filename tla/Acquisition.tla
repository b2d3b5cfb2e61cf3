---------------------------- MODULE Acquisition -----------------------------
(***************************************************************************)
(* The session around one driver, as far as a driver sees it: start, the   *)
(* header and the description of the data, the loop that calls the         *)
(* driver's callback, and the client.  Modules HantekDso, Ols, La8, Sigma  *)
(* and Zeroplus are drivers in it; what they keep is in ctx, what their    *)
(* device does in device.                                                  *)
(*                                                                         *)
(* The client is any of the three frontends: told of SR_DF_END it stops    *)
(* the session, before it notes that it was told, and it may stop it when  *)
(* it is sent the header (sigrok-qt) or data (sigrok-cli, when a decoder   *)
(* fails), or from another source.  The dev_acquisition_stop() of all      *)
(* drivers here but the SIGMA's sends SR_DF_END, so that such a stop does  *)
(* not return (module SigrokCli has the calls one by one).                 *)
(***************************************************************************)
EXTENDS Integers, Sequences, SequencesExt

VARIABLES
    pc,       \* what the thread is doing
    running,  \* session->running
    ctx,      \* the driver's struct context
    device,   \* the device, and the transfers under way from it
    phase,    \* history: the packets sent (Datafeed), or "endless": SR_DF_END
              \* again and again
    sent      \* history: the samples and marks sent, in order

sessionVars == <<pc, running, phase, sent>>
acqVars == <<pc, running, ctx, device, phase, sent>>

\* SR_DF_TRIGGER, SR_DF_FRAME_BEGIN and SR_DF_FRAME_END among the samples,
\* which are their positions in the device's memory.
TriggerMark == -1
FrameBegin  == -2
FrameEnd    == -3

Positions(from, n) == [k \in 1 .. n |-> from + k - 1]
SamplesOf(s) == SelectSeq(s, LAMBDA x : x >= 0)

-----------------------------------------------------------------------------
\* hw_dev_acquisition_start() has set the driver's context.
Starts == /\ pc = "idle" /\ pc' = "header"
          /\ UNCHANGED <<running, phase, sent>>

\* The device does not answer: SR_ERR, and the client destroys the session.
StartFails ==
    /\ pc = "idle" /\ pc' = "done"
    /\ UNCHANGED <<running, ctx, device, phase, sent>>

SendHeader ==
    /\ pc = "header" /\ pc' = "meta" /\ phase' = "header"
    /\ UNCHANGED <<running, ctx, device, sent>>

\* Mutant: the description of the data is forgotten.
SendMetaForgotten ==
    /\ pc = "meta" /\ pc' = "started"
    /\ UNCHANGED <<running, ctx, device, phase, sent>>

SendMeta ==
    /\ pc = "meta" /\ pc' = "started" /\ phase' = "open"
    /\ UNCHANGED <<running, ctx, device, sent>>

Run ==
    /\ pc = "started" /\ pc' = "poll" /\ running' = TRUE
    /\ UNCHANGED <<ctx, device, phase, sent>>

Leave ==
    /\ pc = "poll" /\ ~running /\ pc' = "done"
    /\ UNCHANGED <<running, ctx, device, phase, sent>>

Session == SendHeader \/ SendMeta \/ Run \/ Leave

\* The loop is about to call the driver's callback.
Called == pc = "poll" /\ running

\* What a callback sends: s, and then SR_DF_END if it is at the end.
Sends(s) == sent' = sent \o s /\ UNCHANGED <<phase, running>>
SendsNothing == UNCHANGED <<phase, running, sent>>

\* The client stops the session at SR_DF_END, and the driver says nothing.
SendsLast(s) == sent' = sent \o s /\ phase' = "ended" /\ running' = FALSE

\* The driver says SR_DF_END when the session is stopped, and the client stops
\* the session at SR_DF_END: one calls the other until the stack is used up.
SendsEnd(s) ==
    /\ sent' = sent \o s /\ phase' = "endless"
    /\ running' = FALSE /\ pc' = "crashed"

\* sr_session_stop() from another source's callback, with such a driver.
StopsWithEnd == Called /\ SendsEnd(<<>>)

\* The client stops it before it has had all samples.
StopsEarly == SendsEnd(<<>>) /\ device' = [device EXCEPT !.failed = TRUE]

\* It does so when it is sent the header.
StopsAtHeader == pc = "meta" /\ StopsEarly /\ UNCHANGED ctx

AcqInit ==
    /\ pc = "idle" /\ running = FALSE
    /\ phase = "idle" /\ sent = <<>>

AcqTypeOK ==
    /\ pc \in {"idle", "header", "meta", "started", "poll", "callback",
               "done", "crashed"}
    /\ running \in BOOLEAN
    /\ phase \in {"idle", "header", "open", "ended", "endless"}
=============================================================================
