------------------------------- MODULE MCDemo ------------------------------
(***************************************************************************)
(* Two instances of Demo for TLC: the one of the configuration, which may  *)
(* be stopped at any packet, for the safety properties; and one that only  *)
(* its limits end, for what must happen.                                   *)
(***************************************************************************)
EXTENDS Demo

VARIABLE instance

Limited == INSTANCE Demo WITH
              Rate <- 3, Delays <- {1, 2}, UserStops <- FALSE,
              StopsOnHeader <- FALSE, StopsOnData <- FALSE

ASSUME LimitedAssumption == Limited!DemoAssumption

limited == instance = "limited"

MCInit == instance \in {"any", "limited"} /\ Init

MCNext ==
    /\ UNCHANGED instance
    /\ \/ ~limited /\ Next
       \/ limited /\ Limited!Next

MCSpec == MCInit /\ [][MCNext]_<<instance, vars>>

\* The fairness of Demo, for the limited instance.
MCFairness ==
    /\ WF_vars(limited /\ (Limited!SendHeader \/ Limited!SendMeta
                           \/ Limited!Run \/ Limited!Poll \/ Limited!Read
                           \/ Limited!ReadNothing \/ Limited!MoreToCome
                           \/ Limited!SendEnd \/ Limited!Leave))
    /\ WF_vars(limited /\ Limited!Thread)

MCFairSpec == MCSpec /\ MCFairness

-----------------------------------------------------------------------------
\* An acquisition that nobody stopped has stopped when it says so: its thread
\* writes nothing after SR_DF_END (AcquisitionStopped).
LimitedStopped == limited => AcquisitionStopped

\* An acquisition that its limits end returns, and its thread ends with it
\* (Returns, ThreadEnds).
LimitedReturns == limited /\ pc = "poll" ~> pc = "done"
LimitedThreadEnds == limited /\ phase = "open" ~> thread = "ended"
LimitedEnds == LimitedReturns /\ LimitedThreadEnds
=============================================================================
