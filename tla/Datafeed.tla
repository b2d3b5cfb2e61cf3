----------------------------- MODULE Datafeed ------------------------------
(***************************************************************************)
(* What a device driver promises to the datafeed callbacks of a session,   *)
(* as the packet handlers of the frontends rely on it (datafeed_in of      *)
(* sigrok-cli, sigrok-gtk, sigrok-qt): SR_DF_HEADER, then SR_DF_META_*,    *)
(* then any number of data packets, then one SR_DF_END and nothing after   *)
(* it until the next acquisition.  A session may be torn down before the   *)
(* device has said SR_DF_END.                                              *)
(***************************************************************************)
EXTENDS Naturals

VARIABLES
    phase,    \* told so far: "idle", "header", "open" or "ended"
    samples   \* how many samples it has been sent

feed == <<phase, samples>>

Init == phase = "idle" /\ samples = 0

Header == phase = "idle" /\ phase' = "header" /\ UNCHANGED samples

Meta == phase = "header" /\ phase' = "open" /\ UNCHANGED samples

MoreSamples == phase = "open" /\ samples' \in Nat /\ samples' >= samples

Data == MoreSamples /\ UNCHANGED phase

\* SR_DF_END may follow the last samples at once. A driver may also say it
\* when all it has sent is the header.
End ==
    /\ phase \in {"header", "open"} /\ phase' = "ended"
    /\ MoreSamples \/ UNCHANGED samples

\* The frontend destroys the session.
TearDown == phase' = "idle" /\ samples' = 0

Next == Header \/ Meta \/ Data \/ End \/ TearDown

Spec == Init /\ [][Next]_feed
=============================================================================
