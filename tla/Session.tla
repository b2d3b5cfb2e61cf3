------------------------------ MODULE Session ------------------------------
(***************************************************************************)
(* The event-source list and the poll loop of libsigrok/session.c.         *)
(*                                                                         *)
(* A session keeps two parallel arrays, pollfds[] and sources[], that only *)
(* ever change together; here they are one sequence of entries.  The loop  *)
(* of sr_session_run_poll() walks that sequence by index while the         *)
(* callbacks it invokes may add sources, remove sources (their own or      *)
(* another one's) and stop the session.  Everything runs in one thread:    *)
(* the interleaving is between the loop, the callbacks nested in it and    *)
(* the descriptors becoming ready.                                         *)
(***************************************************************************)
EXTENDS Integers, Sequences, SequencesExt, FiniteSets

CONSTANTS
    Objects,     \* what can be polled: file descriptors, GIOChannels
    Dummy,       \* the objects whose descriptor is -1 (file driver, LA8)
    Pointers,    \* the objects whose poll_object is a pointer an int loses
    Timeouts,    \* the timeouts sources are added with (-1 and 0: none)
    None,        \* not an object
    MaxSources,  \* bound: entries in the list
    MaxOps       \* bound: source operations of one callback invocation

ASSUME SessionAssumption ==
    /\ Dummy \subseteq Objects /\ Pointers \subseteq Objects
    /\ None \notin Objects
    /\ Timeouts \subseteq Int /\ \A t \in Timeouts : t >= -1
    /\ MaxSources \in Nat /\ MaxOps \in Nat

VARIABLES
    sources,         \* pollfds[] and sources[]: the entries, in order
    source_timeout,  \* session->source_timeout, what g_poll() waits at most
    running,         \* session->running
    pc,              \* where the thread is
    i,               \* the index of the for loop of sr_session_run_poll()
    expired,         \* g_poll() returned 0
    ready,           \* the objects whose descriptor is ready now
    ops,             \* source operations the current callback has done
    removals         \* history: entries removed in this round of the scan

vars == <<sources, source_timeout, running, pc, i, expired, ready, ops,
          removals>>

(***************************************************************************)
(* An entry. revents: pollfd.revents > 0.  called: history, the callback   *)
(* ran since g_poll() returned.                                            *)
(***************************************************************************)
Entry == [obj : Objects, timeout : Timeouts, revents : BOOLEAN,
          called : BOOLEAN]

Indices == 1 .. Len(sources)
Registered(o) == \E k \in Indices : sources[k].obj = o

\* Frontends and drivers call from outside the loop ("out"), callbacks from
\* inside the poll loop ("callback").
MayCall == pc = "out" \/ (pc = "callback" /\ ops < MaxOps)

-----------------------------------------------------------------------------
(* sr_session_source_add*() and sr_session_source_remove*() *)

\* Mutant: a timeout of 0 counts like any other.
TimeoutAfterAddZero(t) ==
    IF source_timeout = -1 \/ t < source_timeout THEN t ELSE source_timeout

\* Mutant: the maximum is kept, not the minimum.
TimeoutAfterAddMaximum(t) ==
    IF t > 0 /\ t > source_timeout THEN t ELSE source_timeout

\* The poll timeout after a source with timeout t was added.
TimeoutAfterAdd(t) ==
    IF t > 0 /\ (source_timeout = -1 \/ t < source_timeout)
    THEN t ELSE source_timeout

\* The revents of the new entry is whatever the caller's GPollFD held: the
\* callers leave it uninitialized.
SourceAdd(o, t, garbage) ==
    /\ MayCall /\ Len(sources) < MaxSources
    /\ sources' = Append(sources, [obj |-> o, timeout |-> t,
                                   revents |-> garbage, called |-> FALSE])
    /\ source_timeout' = TimeoutAfterAdd(t)
    /\ ops' = IF pc = "out" THEN 0 ELSE ops + 1
    /\ UNCHANGED <<running, pc, i, expired, ready, removals>>

\* The search for poll object o stops at index k.
Found(o, k) == /\ sources[k].obj = o
               /\ \A j \in 1 .. k - 1 : sources[j].obj # o

\* _sr_session_source_remove(): memmove closes the gap, nothing else moves,
\* source_timeout stays. An object that is not in the list is no error.
RemoveObject(o) ==
    \/ ~Registered(o) /\ UNCHANGED <<sources, removals>>
    \/ \E k \in Indices :
          /\ Found(o, k)
          /\ sources' = RemoveAt(sources, k)
          /\ removals' = IF pc = "callback" THEN removals + 1 ELSE removals

SourceRemove(o) ==
    /\ MayCall /\ RemoveObject(o)
    /\ ops' = IF pc = "out" THEN 0 ELSE ops + 1
    /\ UNCHANGED <<source_timeout, running, pc, i, expired, ready>>

-----------------------------------------------------------------------------
(* sr_session_run() and sr_session_stop() *)

\* One source, and its descriptor is -1: no polling.
Freewheel == Len(sources) = 1 /\ sources[1].obj \in Dummy

Run ==
    /\ pc = "out"
    /\ running' = TRUE
    /\ pc' = IF Freewheel THEN "dummy" ELSE "poll"
    /\ UNCHANGED <<sources, source_timeout, i, expired, ready, ops, removals>>

\* sr_session_stop() from a callback, through the datafeed or the any-key
\* handler. Called from outside, it leaves nothing that Run does not set.
Stop ==
    /\ pc \in {"callback", "freewheel"}
    /\ running' = FALSE
    /\ UNCHANGED <<sources, source_timeout, pc, i, expired, ready, ops,
                   removals>>

\* Mutant: the freewheel loop does not look at session->running.
LeavePollOnly ==
    /\ pc = "poll" /\ ~running
    /\ pc' = "out"
    /\ i' = 0 /\ expired' = FALSE /\ ops' = 0 /\ removals' = 0
    /\ UNCHANGED <<sources, source_timeout, running, ready>>

\* while (session->running) is left, in either loop.
Leave ==
    /\ pc \in {"poll", "dummy"} /\ ~running
    /\ pc' = "out"
    /\ i' = 0 /\ expired' = FALSE /\ ops' = 0 /\ removals' = 0
    /\ UNCHANGED <<sources, source_timeout, running, ready>>

\* The freewheel loop calls the only source's callback again and again and
\* ignores its return value. No callback of a dummy source touches the list.
FreewheelCall ==
    /\ \/ pc = "dummy" /\ running /\ pc' = "freewheel"
       \/ pc = "freewheel" /\ pc' = "dummy"
    /\ UNCHANGED <<sources, source_timeout, running, i, expired, ready, ops,
                   removals>>

-----------------------------------------------------------------------------
(* sr_session_run_poll() *)

\* A negative descriptor is ignored by poll(): it is never ready.
Pollable(o) == o \in ready \ Dummy

\* g_poll() has returned: revents as Rev says, the scan starts over.
Scan(Rev(_), ret0) ==
    /\ pc = "poll" /\ running
    /\ sources' = [k \in Indices |-> [sources[k] EXCEPT !.revents = Rev(k),
                                                        !.called = FALSE]]
    /\ expired' = ret0
    /\ i' = 1 /\ removals' = 0 /\ ops' = 0
    /\ pc' = "scan"
    /\ UNCHANGED <<source_timeout, running, ready>>

PollReady ==
    /\ \E k \in Indices : Pollable(sources[k].obj)
    /\ Scan(LAMBDA k : Pollable(sources[k].obj), FALSE)

PollExpired ==
    /\ source_timeout # -1
    /\ \A k \in Indices : ~ Pollable(sources[k].obj)
    /\ Scan(LAMBDA k : FALSE, TRUE)

\* g_poll() fails (EINTR): ret = -1 and revents keeps what it held before.
PollInterrupted == Scan(LAMBDA k : sources[k].revents, FALSE)

\* The condition of the callback, evaluated with the list as it is now.
Due(k) == \/ sources[k].revents
          \/ expired /\ source_timeout = sources[k].timeout

\* Control is at the head of the for loop.
Invoke ==
    /\ pc = "scan" /\ i \in Indices /\ Due(i)
    /\ sources' = [sources EXCEPT ![i].called = TRUE]
    /\ pc' = "callback"
    /\ ops' = 0
    /\ UNCHANGED <<source_timeout, running, i, expired, ready, removals>>

\* Mutant: the index is incremented twice.
SkipSourceTwice ==
    /\ pc = "scan" /\ i \in Indices /\ ~ Due(i)
    /\ i' = i + 2
    /\ UNCHANGED <<sources, source_timeout, running, pc, expired, ready, ops,
                   removals>>

\* Mutant: a source that is not due ends the scan.
SkipSourceBreaks ==
    /\ pc = "scan" /\ i \in Indices /\ ~ Due(i)
    /\ pc' = "poll"
    /\ UNCHANGED <<sources, source_timeout, running, i, expired, ready, ops,
                   removals>>

SkipSource ==
    /\ pc = "scan" /\ i \in Indices /\ ~ Due(i)
    /\ i' = i + 1
    /\ UNCHANGED <<sources, source_timeout, running, pc, expired, ready, ops,
                   removals>>

EndScan ==
    /\ pc = "scan" /\ i \notin Indices
    /\ pc' = "poll"
    /\ UNCHANGED <<sources, source_timeout, running, i, expired, ready, ops,
                   removals>>

\* The callback took the data that was there, or left some.
Consume == \E taken \in SUBSET ready : ready' = ready \ taken

ReturnTrue ==
    /\ pc = "callback"
    /\ pc' = "scan" /\ i' = i + 1
    /\ Consume
    /\ UNCHANGED <<sources, source_timeout, running, expired, ops, removals>>

\* sr_session_source_remove() takes an int: a pointer loses its upper half
\* on the way and matches no entry.
Narrowed(o) == IF o \in Pointers THEN None ELSE o

\* FALSE: remove the object of the entry that is now at index i, whatever the
\* callback made of the list before (ols.c removes and adds its source and
\* then fails).  That entry may be another source's; past the end of what is
\* left, the memory behind the array holds any object or none.
ReturnFalse ==
    /\ pc = "callback" /\ sources # << >>
    /\ \E o \in IF i \in Indices THEN {sources[i].obj} ELSE Objects \cup {None} :
          RemoveObject(Narrowed(o))
    /\ pc' = "scan" /\ i' = i + 1
    /\ Consume
    /\ UNCHANGED <<source_timeout, running, expired, ops>>

\* The callback emptied the list, which frees the array, and returns FALSE:
\* session->sources is NULL when its entry i is read.
ReturnFalseEmpty ==
    /\ pc = "callback" /\ sources = << >>
    /\ pc' = "crashed"
    /\ UNCHANGED <<sources, source_timeout, running, i, expired, ready, ops,
                   removals>>

\* The program is gone.
Gone == pc = "crashed" /\ UNCHANGED vars

-----------------------------------------------------------------------------
\* Data arrives at a descriptor.
Arrive(o) ==
    /\ o \notin ready
    /\ ready' = ready \cup {o}
    /\ UNCHANGED <<sources, source_timeout, running, pc, i, expired, ops,
                   removals>>

Init ==
    /\ sources = << >> /\ source_timeout = -1 /\ running = FALSE
    /\ pc = "out" /\ i = 0 /\ expired = FALSE
    /\ ready = {} /\ ops = 0 /\ removals = 0

Loop == \/ Leave \/ FreewheelCall
        \/ PollReady \/ PollExpired
        \/ Invoke \/ SkipSource \/ EndScan
        \/ ReturnTrue \/ ReturnFalse \/ ReturnFalseEmpty

Next ==
    \/ \E o \in Objects, t \in Timeouts, g \in BOOLEAN : SourceAdd(o, t, g)
    \/ \E o \in Objects : SourceRemove(o) \/ Arrive(o)
    \/ Run \/ Stop \/ PollInterrupted \/ Loop \/ Gone

Spec == Init /\ [][Next]_vars

\* The thread keeps executing and callbacks return; signals and arrivals do
\* not keep g_poll() from ever returning normally.
Fairness ==
    /\ WF_vars(Leave \/ FreewheelCall \/ Invoke \/ SkipSource \/ EndScan
               \/ ReturnTrue \/ ReturnFalse \/ ReturnFalseEmpty)
    /\ SF_vars(PollReady \/ PollExpired)

FairSpec == Spec /\ Fairness

-----------------------------------------------------------------------------
(* Properties *)

\* Every variable has its type; in particular the poll timeout is -1 or
\* positive, so the loop never spins on g_poll(..., 0), whatever is removed
\* from the list, or from the wrong place of it.
TypeOK ==
    /\ sources \in Seq(Entry)
    /\ source_timeout \in {-1} \cup {t \in Timeouts : t > 0}
    /\ running \in BOOLEAN /\ expired \in BOOLEAN
    /\ pc \in {"out", "poll", "scan", "callback", "dummy", "freewheel",
              "crashed"}
    /\ i \in Nat /\ ops \in Nat /\ removals \in Nat
    /\ ready \subseteq Objects
    /\ pc \in {"scan", "callback"} => i >= 1

\* g_poll() never sleeps past the timeout of a registered source: the one
\* wait of the loop is at most every source's own, whatever sequence of adds
\* and removals led here (a removal does not recompute the minimum).
TimeoutCoversSources ==
    \A k \in Indices :
        sources[k].timeout > 0 =>
            source_timeout # -1 /\ source_timeout <= sources[k].timeout

\* The entries up to index f that g_poll() reported and that got no callback.
PassedOver(s, f) ==
    {k \in 1 .. Len(s) : k <= f /\ s[k].revents /\ ~s[k].called}

\* How far the scan has come.
Frontier == IF pc = "callback" THEN i ELSE i - 1

\* A ready source is passed over in a round only because an entry before it
\* was removed in that round, one source for each removal: removing while
\* iterating by index delays callbacks but cannot lose more than that.
MissedOnlyByRemoval ==
    pc \in {"scan", "callback"} =>
        Cardinality(PassedOver(sources, Frontier)) <= removals

\* Once a callback has stopped the session, the run function returns (or has
\* crashed on the list that the callback emptied).
StopEndsRun == ~running ~> pc \in {"out", "crashed"}

\* A source whose descriptor stays ready gets its callback, although every
\* round may pass over it: each time it does, the source moves to the front.
NoStarvation ==
    \A o \in Objects \ Dummy :
        (running /\ Registered(o) /\ o \in ready) ~>
            \/ \E k \in Indices : sources[k].obj = o /\ sources[k].called
            \/ ~running \/ ~Registered(o) \/ o \notin ready
            \/ pc = "crashed"

\* The doc of sr_session_source_add*(): timeout is the "max time to wait
\* before the callback is called, ignored if 0". So once no descriptor is
\* ready any more, a source with a positive timeout is still called again
\* and again. (It is not: only the smallest timeout ever added expires.)
TimeoutHonoured ==
    \A o \in Objects \ Dummy, t \in {u \in Timeouts : u > 0} :
        LET In(k) == sources[k].obj = o /\ sources[k].timeout = t
        IN <>[](running /\ pc # "crashed" /\ ready = {} /\ \E k \in Indices : In(k))
              => []<>(\E k \in Indices : In(k) /\ sources[k].called)
=============================================================================
