------------------------------ MODULE MCSession ------------------------------
\* A descriptor a, a GIOChannel p and a dummy d, in three modes: up to three
\* sources with two timeouts; with the dummy, up to two sources of which
\* those with a timeout all have the same; and up to three sources of one
\* timeout whose callbacks make two operations each, such as the removal and
\* the addition of their own source.  In the other modes they make one.
EXTENDS Session

VARIABLE mode

InMode ==
    CASE mode = "timeouts" ->
            /\ ops <= 1 /\ ready \cap Dummy = {}
            /\ \A k \in Indices : sources[k].obj \notin Dummy /\ sources[k].timeout > 0
      [] mode = "dummy" ->
            ops <= 1 /\ Len(sources) <= 2 /\ \A k \in Indices : sources[k].timeout <= 1
      [] mode = "two operations" ->
            /\ ready \cap Dummy = {}
            /\ \A k \in Indices : sources[k].obj \notin Dummy /\ sources[k].timeout = 1

MCInit == Init /\ mode \in {"timeouts", "dummy", "two operations"}
MCNext == Next /\ UNCHANGED mode /\ InMode'
MCSpec == MCInit /\ [][MCNext]_<<vars, mode>> /\ Fairness

\* As TimeoutHonoured, with one positive timeout in use: it expires.
OneTimeoutHonoured == mode = "dummy" => TimeoutHonoured

\* While the session runs no source waits for ever: not one that is ready, not
\* one whose timeout is over, whatever is added and removed around it.  (With
\* two operations a callback may remove another's source and add it again in
\* every round, behind the index or at the end, and so keep it waiting.)
SourcesServed == (mode # "two operations" => NoStarvation) /\ OneTimeoutHonoured
==============================================================================
