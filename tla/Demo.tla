------------------------------- MODULE Demo --------------------------------
(***************************************************************************)
(* One acquisition of hardware/demo/demo.c: a thread that produces samples *)
(* at the configured rate and writes them to a pipe, and the session loop, *)
(* which reads the pipe in receive_data().  The two share the pipe and the *)
(* global flag thread_running, which both clear and neither locks.         *)
(***************************************************************************)
EXTENDS Integers, FiniteSetsExt

CONSTANTS
    Limit,          \* limit_samples, 0 for none
    TimeLimit,      \* limit_msec in ticks, 0 for none
    Rate,           \* cur_samplerate, in samples per Second ticks
    Second,
    Delays,         \* the ticks one round of the thread can take
    Bufsize,        \* BUFSIZE
    Capacity,       \* of the pipe
    UserStops,      \* the user may stop the session (any key)
    StopsOnHeader,  \* the frontend may stop the session on SR_DF_HEADER
    StopsOnData,    \* the frontend may stop the session on SR_DF_LOGIC
    MaxSamples      \* bound: samples the thread produces

ASSUME DemoAssumption ==
    /\ Limit \in Nat /\ TimeLimit \in Nat
    /\ Rate \in Nat /\ Second \in Nat \ {0}
    /\ Delays \subseteq Nat
    /\ Bufsize \in Nat \ {0} /\ Capacity \in Nat /\ MaxSamples \in Nat
    /\ {UserStops, StopsOnHeader, StopsOnData} \subseteq BOOLEAN

VARIABLES
    pc,               \* what the main thread is doing
    running,          \* session->running
    thread_running,   \* the global flag
    pipe,             \* bytes in the pipe, one for each sample
    read_open,        \* ctx->channels[0] is open
    write_open,       \* ctx->pipe_fds[1] is open
    thread,           \* what thread_func() is doing
    samples_counter,  \* ctx->samples_counter
    pending,          \* nb_to_send: generated and not yet written
    time,             \* time_cur, where the time limit can still see it
    phase,            \* history: the packets sent (Datafeed)
    samples           \* history: the samples sent (Datafeed)

mainVars == <<pc, running, read_open, phase, samples>>
threadVars == <<thread, samples_counter, pending, time, write_open>>
vars == <<mainVars, threadVars, thread_running, pipe>>

Least(a, b) == Min({a, b})

-----------------------------------------------------------------------------
(* hw_dev_acquisition_start(); the thread runs before the header is sent. *)

Start ==
    /\ pc = "idle"
    /\ \/ pc' = "header"
       \/ pc' = "done"      \* no memory for the packets: SR_ERR_MALLOC
    /\ thread' = "check" /\ thread_running' = TRUE
    /\ read_open' = TRUE /\ write_open' = TRUE
    /\ UNCHANGED <<running, pipe, samples_counter, pending, time, phase,
                   samples>>

\* No pipe: SR_ERR.
StartNoPipe ==
    /\ pc = "idle" /\ pc' = "done"
    /\ UNCHANGED <<running, read_open, phase, samples, threadVars,
                   thread_running, pipe>>

\* No thread: SR_ERR.
StartNoThread ==
    /\ pc = "idle" /\ pc' = "done"
    /\ thread_running' = TRUE
    /\ read_open' = TRUE /\ write_open' = TRUE
    /\ UNCHANGED <<running, phase, samples, thread, samples_counter, pending,
                   time, pipe>>

\* What the frontend's packet handler may do: sr_session_stop(), which calls
\* hw_dev_acquisition_stop().
HandlerStops == running' = FALSE /\ thread_running' = FALSE
HandlerReturns == UNCHANGED <<running, thread_running>>

SendHeader ==
    /\ pc = "header" /\ pc' = "meta" /\ phase' = "header"
    /\ (StopsOnHeader /\ HandlerStops) \/ HandlerReturns
    /\ UNCHANGED <<read_open, samples, threadVars, pipe>>

\* Mutant: the driver forgets SR_DF_META_LOGIC.
SendNoMeta ==
    /\ pc = "meta" /\ pc' = "started"
    /\ UNCHANGED <<running, read_open, phase, samples, threadVars,
                   thread_running, pipe>>

SendMeta ==
    /\ pc = "meta" /\ pc' = "started" /\ phase' = "open"
    /\ UNCHANGED <<running, read_open, samples, threadVars, thread_running,
                   pipe>>

-----------------------------------------------------------------------------
(* The session loop and receive_data() *)

Run ==
    /\ pc = "started" /\ pc' = "poll"
    /\ running' = TRUE
    /\ UNCHANGED <<read_open, phase, samples, threadVars, thread_running,
                   pipe>>

\* The pipe is readable, hung up, or 40 ms have passed.
Poll ==
    /\ pc = "poll" /\ running /\ pc' = "read"
    /\ UNCHANGED <<running, read_open, phase, samples, threadVars,
                   thread_running, pipe>>

\* Mutant: every read is taken for a full buffer.
ReadFullBuffer ==
    /\ pc = "read" /\ pipe > 0
    /\ pipe' = pipe - Bufsize /\ samples' = samples + Bufsize
    /\ (StopsOnData /\ HandlerStops) \/ HandlerReturns
    /\ UNCHANGED <<pc, read_open, phase, threadVars>>

\* Mutant: the packet is as long as the buffer.
ReadSendsBuffer ==
    /\ pc = "read" /\ pipe > 0
    /\ pipe' = pipe - Least(pipe, Bufsize) /\ samples' = samples + Bufsize
    /\ (StopsOnData /\ HandlerStops) \/ HandlerReturns
    /\ UNCHANGED <<pc, read_open, phase, threadVars>>

\* z > 0: the samples are sent and the loop reads again.
Read ==
    /\ pc = "read" /\ pipe > 0
    /\ LET z == Least(pipe, Bufsize) IN
          pipe' = pipe - z /\ samples' = samples + z
    /\ (StopsOnData /\ HandlerStops) \/ HandlerReturns
    /\ UNCHANGED <<pc, read_open, phase, threadVars>>

\* z = 0: nothing there now, or the write end is closed.
ReadNothing ==
    /\ pc = "read" /\ pipe = 0 /\ pc' = "drained"
    /\ UNCHANGED <<running, read_open, phase, samples, threadVars,
                   thread_running, pipe>>

\* thread_running is read only now.
MoreToCome ==
    /\ pc = "drained" /\ thread_running /\ pc' = "poll"
    /\ UNCHANGED <<running, read_open, phase, samples, threadVars,
                   thread_running, pipe>>

\* Mutant: an empty pipe is taken for the end.
SendEndWhenEmpty ==
    /\ pc = "drained" /\ pc' = "poll"
    /\ read_open' = FALSE
    /\ phase' = "ended" /\ HandlerStops
    /\ UNCHANGED <<samples, threadVars, pipe>>

\* SR_DF_END, on which every frontend stops the session.
SendEnd ==
    /\ pc = "drained" /\ ~thread_running /\ pc' = "poll"
    /\ read_open' = FALSE
    /\ phase' = "ended" /\ HandlerStops
    /\ UNCHANGED <<samples, threadVars, pipe>>

UserStop ==
    /\ UserStops /\ pc = "poll" /\ running
    /\ HandlerStops
    /\ UNCHANGED <<pc, read_open, phase, samples, threadVars, pipe>>

\* sr_session_run() returns. Nobody joins the thread.
Leave ==
    /\ pc = "poll" /\ ~running /\ pc' = "done"
    /\ UNCHANGED <<running, read_open, phase, samples, threadVars,
                   thread_running, pipe>>

-----------------------------------------------------------------------------
(* thread_func() *)

\* cur_samplerate * time_diff, truncated; what the truncation drops is not
\* carried over to the next round.
AtRate(d) == (Rate * d) \div Second

\* Mutant: the buffer is the only limit.
ToSendUnlimited(d) ==
    Least(Least(AtRate(d), Bufsize), MaxSamples - samples_counter)

\* The limit, and no more than the buffer holds.
ToSend(d) ==
    LET n == Least(AtRate(d), Bufsize) IN
    Least(IF Limit # 0 THEN Least(n, Limit - samples_counter) ELSE n,
          MaxSamples - samples_counter)

ThreadGenerate ==
    /\ thread = "check" /\ thread_running
    /\ \E d \in Delays :
          /\ time' = Least(time + d, TimeLimit + 1)
          /\ pending' = ToSend(d)
          /\ samples_counter' = samples_counter + ToSend(d)
          /\ thread' = IF ToSend(d) = 0 THEN "limit" ELSE "write"
    /\ UNCHANGED <<mainVars, write_open, thread_running, pipe>>

\* The write blocks while the pipe is full. A chunk is not longer than
\* PIPE_BUF, so it goes in as a whole.
ThreadWrite ==
    /\ thread = "write" /\ read_open /\ pipe + pending <= Capacity
    /\ pipe' = pipe + pending /\ pending' = 0
    /\ thread' = "limit"
    /\ UNCHANGED <<mainVars, samples_counter, time, write_open,
                   thread_running>>

\* Nobody can read what is written: SIGPIPE ends the program.
ThreadWriteBroken ==
    /\ thread = "write" /\ ~read_open
    /\ thread' = "killed" /\ pc' = "killed"
    /\ UNCHANGED <<running, read_open, phase, samples, samples_counter,
                   pending, time, write_open, thread_running, pipe>>

LimitReached ==
    \/ TimeLimit # 0 /\ time > TimeLimit
    \/ Limit # 0 /\ samples_counter >= Limit

ThreadClose ==
    /\ thread = "limit" /\ LimitReached
    /\ write_open' = FALSE /\ thread' = "clear"
    /\ UNCHANGED <<mainVars, samples_counter, pending, time, thread_running,
                   pipe>>

\* Mutant: the write end is closed and the flag left set.
ThreadKeepsRunning ==
    /\ thread = "clear" /\ thread' = "check"
    /\ UNCHANGED <<mainVars, samples_counter, pending, time, write_open,
                   thread_running, pipe>>

ThreadClear ==
    /\ thread = "clear" /\ thread_running' = FALSE
    /\ thread' = "check"
    /\ UNCHANGED <<mainVars, samples_counter, pending, time, write_open, pipe>>

ThreadGoOn ==
    /\ thread = "limit" /\ ~LimitReached
    /\ thread' = "check"
    /\ UNCHANGED <<mainVars, samples_counter, pending, time, write_open,
                   thread_running, pipe>>

ThreadExit ==
    /\ thread = "check" /\ ~thread_running
    /\ thread' = "ended"
    /\ UNCHANGED <<mainVars, samples_counter, pending, time, write_open,
                   thread_running, pipe>>

-----------------------------------------------------------------------------
Init ==
    /\ pc = "idle" /\ running = FALSE /\ thread_running = FALSE
    /\ pipe = 0 /\ read_open = FALSE /\ write_open = FALSE
    /\ thread = "none" /\ samples_counter = 0 /\ pending = 0 /\ time = 0
    /\ phase = "idle" /\ samples = 0

Thread ==
    \/ ThreadGenerate \/ ThreadWrite \/ ThreadWriteBroken
    \/ ThreadClose \/ ThreadClear \/ ThreadGoOn \/ ThreadExit

Next ==
    \/ Start \/ StartNoPipe \/ StartNoThread
    \/ SendHeader \/ SendMeta
    \/ Run \/ Poll \/ Read \/ ReadNothing \/ MoreToCome \/ SendEnd
    \/ UserStop \/ Leave
    \/ (pc # "killed" /\ Thread)

Spec == Init /\ [][Next]_vars

\* The operating system runs both threads.
Fairness ==
    /\ WF_vars(SendHeader \/ SendMeta \/ Run \/ Poll \/ Read \/ ReadNothing
               \/ MoreToCome \/ SendEnd \/ Leave)
    /\ WF_vars(Thread)

FairSpec == Spec /\ Fairness

-----------------------------------------------------------------------------
(* Properties *)

TypeOK ==
    /\ pc \in {"idle", "header", "meta", "started", "poll", "read", "drained",
               "done", "killed"}
    /\ running \in BOOLEAN /\ thread_running \in BOOLEAN
    /\ read_open \in BOOLEAN /\ write_open \in BOOLEAN
    /\ thread \in {"none", "check", "write", "limit", "clear", "ended",
                   "killed"}
    /\ pipe \in Nat /\ pending \in Nat /\ samples_counter \in Nat
    /\ time \in 0 .. TimeLimit + 1
    /\ phase \in {"idle", "header", "open", "ended"} /\ samples \in Nat

\* Every sample the thread has counted is with the frontend, in the pipe, or
\* about to be written, each exactly once.
SamplesConserved == samples_counter = samples + pipe + pending

\* The frontend never gets more samples than it asked for, and the pipe
\* never holds more than it can.
LimitRespected == (Limit # 0 => samples <= Limit) /\ pipe <= Capacity

\* The packets come in the order the frontends rely on.
Feed == INSTANCE Datafeed
FeedSpec == Feed!Spec

\* The doc of sr_session_stop(): "all acquisition sessions being stopped".
\* After SR_DF_END the thread does not write any more.
AcquisitionStopped == phase = "ended" => thread # "write" /\ pc # "killed"

\* The man page: "Acquire <numsamples> samples, then quit". When the thread
\* ended because it had produced them, all were sent before SR_DF_END.
AllDelivered == phase = "ended" /\ ~write_open => samples = samples_counter

\* An acquisition with a limit ends, and the thread with it.
Returns == pc = "poll" ~> pc = "done"
ThreadEnds == phase = "open" ~> thread = "ended"
=============================================================================
