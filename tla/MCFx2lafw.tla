----------------------------- MODULE MCFx2lafw -----------------------------
(***************************************************************************)
(* Two instances of Fx2lafw for TLC: the one of the configuration, with a  *)
(* trigger and every way to stop, for the safety properties; and a plain   *)
(* one, without a trigger and stopped by nobody but the user and the       *)
(* limit, for what must happen.                                            *)
(***************************************************************************)
EXTENDS Fx2lafw

VARIABLE instance

Plain == INSTANCE Fx2lafw WITH
            MaxEmpty <- 1, MaxLen <- 2, Stages <- 0, EventsInStart <- FALSE,
            StopsOnHeader <- FALSE, StopsOnData <- FALSE

ASSUME PlainAssumption == Plain!Fx2Assumption

plain == instance = "plain"

MCInit == instance \in {"any", "plain"} /\ Init

MCNext ==
    /\ UNCHANGED instance
    /\ \/ ~plain /\ Next
       \/ plain /\ Plain!Next

MCSpec == MCInit /\ [][MCNext]_<<instance, vars>>

\* The fairness of Fx2lafw, for the plain instance.
MCFairness ==
    /\ WF_vars(plain /\ (Plain!SendHeader \/ Plain!SendMeta \/ Plain!CommandOk
                         \/ Plain!CommandFails \/ Plain!Run \/ Plain!Poll
                         \/ Plain!EventsHandled \/ Plain!Leave))
    /\ \A t \in Transfers : SF_vars(plain /\ Plain!ReceiveTransfer(t))

MCFairSpec == MCSpec /\ MCFairness

-----------------------------------------------------------------------------
\* Without a trigger an acquisition that the limit ended has sent as many
\* samples as were asked for (LimitDelivered).
PlainLimitDelivered == plain => LimitDelivered

\* Unless a frontend stops the session while a packet is delivered to it, an
\* acquisition once aborted stays aborted (AbortSticks): the counter in the
\* same variable is not written again.
PlainAbortSticks == plain => AbortSticks

\* Unless a frontend stops the session from inside of it, the acquisition
\* comes to its end and the session returns (RunReturns).
PlainRunReturns == plain /\ pc = "poll" ~> pc = "idle"
=============================================================================
