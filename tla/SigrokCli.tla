----------------------------- MODULE SigrokCli ------------------------------
(***************************************************************************)
(* datafeed_in() of sigrok-cli and the calls that nest around it: its      *)
(* handler of SR_DF_END calls sr_session_stop(), which calls the           *)
(* dev_acquisition_stop() of every device, and some drivers send SR_DF_END *)
(* from there, back into datafeed_in().  The call stack is explicit.       *)
(***************************************************************************)
EXTENDS Integers, SequencesExt

CONSTANTS
    NumDevs,      \* devices of the session (a session file may hold several)
    SendsEnd,     \* those whose dev_acquisition_stop() sends SR_DF_END
    Limit,        \* limit_samples, 0 for none
    MaxLen,       \* bound: samples in one SR_DF_LOGIC
    SampleSize,   \* bytes of a sample as the driver sends it
    UnitSize,     \* bytes of a sample with the disabled probes filtered out
    WaitTrigger,  \* opt_wait_trigger
    Decoders,     \* opt_pds: a protocol decoder may fail
    UserStops,    \* any key
    MaxDepth,     \* what the C stack holds
    MaxReceived   \* bound: received_samples

Devs == 1 .. NumDevs

ASSUME CliAssumption ==
    /\ NumDevs \in Nat \ {0} /\ SendsEnd \subseteq Devs
    /\ Limit \in Nat /\ MaxLen \in Nat /\ MaxReceived \in Nat
    /\ SampleSize \in Nat \ {0} /\ UnitSize \in 1 .. SampleSize
    /\ MaxDepth \in Nat
    /\ {WaitTrigger, Decoders, UserStops} \subseteq BOOLEAN

VARIABLES
    pc,                 \* what run_session() is doing
    running,            \* session->running
    started,            \* the devices started so far: 1 .. started
    acquiring,          \* those that have not sent SR_DF_END by themselves
    stack,              \* the calls in progress, the innermost last
    output,             \* o # NULL
    triggered,
    received_samples,
    written,            \* history: bytes handed to the output or the decoders
    ends                \* history: SR_DF_END events given to the output

deviceVars == <<started, acquiring>>
dataVars == <<triggered, received_samples, written>>
vars == <<pc, running, deviceVars, stack, output, dataVars, ends>>

-----------------------------------------------------------------------------
(* The call stack *)

\* Where each function continues: in the handler of SR_DF_END before and
\* after it stops the session, in sr_session_stop() before device n, in the
\* handler of SR_DF_LOGIC with n samples still to be counted.
Frame == [at : {"end", "close", "stop", "logic"}, n : Nat]
At(where, n) == [at |-> where, n |-> n]

\* s is the stack after the calls; one that is too deep ends the program.
Calls(s) ==
    /\ stack' = s
    /\ IF Len(s) > MaxDepth THEN pc' = "crashed" ELSE UNCHANGED pc

OnTop(where) == pc # "crashed" /\ stack # <<>> /\ Last(stack).at = where

\* datafeed_in(SR_DF_END). If the first packet to come in isn't a header,
\* don't even try.
EndFrames == IF output THEN <<At("end", 0)>> ELSE <<>>

\* sr_session_stop()
StopSession(s) == running' = FALSE /\ Calls(s \o <<At("stop", 1)>>)

\* Mutant: the end does not stop the session.
HandleEndGoesOn ==
    /\ OnTop("end")
    /\ ends' = ends + 1
    /\ Calls(Front(stack) \o <<At("close", 0)>>)
    /\ UNCHANGED <<running, deviceVars, output, dataVars>>

HandleEnd ==
    /\ OnTop("end")
    /\ ends' = ends + 1
    /\ StopSession(Front(stack) \o <<At("close", 0)>>)
    /\ UNCHANGED <<deviceVars, output, dataVars>>

CloseOutput ==
    /\ OnTop("close")
    /\ output' = FALSE /\ stack' = Front(stack)
    /\ UNCHANGED <<pc, running, deviceVars, dataVars, ends>>

StopDevice ==
    /\ OnTop("stop") /\ Last(stack).n \in Devs
    /\ LET d == Last(stack).n IN
          Calls(Front(stack) \o <<At("stop", d + 1)>>
                   \o (IF d \in SendsEnd THEN EndFrames ELSE <<>>))
    /\ UNCHANGED <<running, deviceVars, output, dataVars, ends>>

StopReturns ==
    /\ OnTop("stop") /\ Last(stack).n \notin Devs
    /\ stack' = Front(stack)
    /\ UNCHANGED <<pc, running, deviceVars, output, dataVars, ends>>

CountSamples ==
    /\ OnTop("logic")
    /\ received_samples' = received_samples + Last(stack).n
    /\ stack' = Front(stack)
    /\ UNCHANGED <<pc, running, deviceVars, output, triggered, written, ends>>

Unwind ==
    HandleEnd \/ CloseOutput \/ StopDevice \/ StopReturns \/ CountSamples

-----------------------------------------------------------------------------
(* run_session() *)

\* Mutant: one device too many.
StartDeviceBeyond ==
    /\ pc = "start" /\ stack = <<>> /\ started <= NumDevs
    /\ started' = started + 1
    /\ acquiring' = acquiring \cup {started'}
    /\ output' = TRUE
    /\ UNCHANGED <<pc, running, stack, dataVars, ends>>

\* The next device starts: SR_DF_HEADER and SR_DF_META_LOGIC.
StartDevice ==
    /\ pc = "start" /\ stack = <<>> /\ started < NumDevs
    /\ started' = started + 1
    /\ acquiring' = acquiring \cup {started'}
    /\ output' = TRUE
    /\ UNCHANGED <<pc, running, stack, dataVars, ends>>

StartFails ==
    /\ pc = "start" /\ stack = <<>> /\ started < NumDevs
    /\ pc' = "left"
    /\ UNCHANGED <<running, deviceVars, stack, output, dataVars, ends>>

Run ==
    /\ pc = "start" /\ started = NumDevs
    /\ pc' = "loop" /\ running' = TRUE
    /\ UNCHANGED <<deviceVars, stack, output, dataVars, ends>>

UserStop ==
    /\ UserStops /\ pc = "loop" /\ stack = <<>> /\ running
    /\ StopSession(<<>>)
    /\ UNCHANGED <<deviceVars, output, dataVars, ends>>

Leave ==
    /\ pc = "loop" /\ stack = <<>> /\ ~running
    /\ pc' = "left"
    /\ UNCHANGED <<running, deviceVars, stack, output, dataVars, ends>>

-----------------------------------------------------------------------------
(* What the devices send from the callbacks of the session loop. A loop    *)
(* that was stopped still calls the callbacks left in the current scan.    *)

Sends(d) == pc = "loop" /\ stack = <<>> /\ d \in acquiring

\* A driver says SR_DF_END and sends nothing afterwards.
SendEnd(d) ==
    /\ Sends(d)
    /\ acquiring' = acquiring \ {d}
    /\ Calls(EndFrames)
    /\ UNCHANGED <<running, started, output, dataVars, ends>>

SendTrigger(d) ==
    /\ Sends(d) /\ output
    /\ triggered' = TRUE
    /\ UNCHANGED <<pc, running, deviceVars, stack, output, received_samples,
                   written, ends>>

\* Mutant: the header is not asked for.
IgnoredWithOutput ==
    \/ WaitTrigger /\ ~triggered
    \/ Limit # 0 /\ received_samples >= Limit

\* Not stored: no header yet or the output closed, not triggered yet, the
\* limit reached.
Ignored ==
    \/ ~output
    \/ WaitTrigger /\ ~triggered
    \/ Limit # 0 /\ received_samples >= Limit

\* Mutant: the last packet goes out as a whole.
OutputLenUncut(n) == n * UnitSize

\* The filter packs n samples; the last packet is cut off to the limit.
OutputLen(n) ==
    IF Limit # 0 /\ received_samples + n > Limit * SampleSize
    THEN Limit * SampleSize - received_samples
    ELSE n * UnitSize

SendLogic(d, n) ==
    /\ Sends(d) /\ ~Ignored /\ received_samples + n <= MaxReceived
    /\ written' = written + OutputLen(n)
    /\ LET rest == <<At("logic", n)>> IN
          \/ Decoders /\ StopSession(rest)
          \/ Calls(rest) /\ UNCHANGED running
    /\ UNCHANGED <<deviceVars, output, triggered, received_samples, ends>>

-----------------------------------------------------------------------------
Init ==
    /\ pc = "start" /\ running = FALSE
    /\ started = 0 /\ acquiring = {}
    /\ stack = <<>> /\ output = FALSE
    /\ triggered = FALSE /\ received_samples = 0 /\ written = 0 /\ ends = 0

Next ==
    \/ StartDevice \/ StartFails \/ Run \/ UserStop \/ Leave
    \/ Unwind
    \/ \E d \in Devs :
          \/ SendEnd(d) \/ SendTrigger(d)
          \/ \E n \in 1 .. MaxLen : SendLogic(d, n)

Spec == Init /\ [][Next]_vars

\* The program keeps running. Nothing makes a device send.
FairSpec == Spec /\ WF_vars(Unwind) /\ WF_vars(Leave)

-----------------------------------------------------------------------------
(* Properties *)

TypeOK ==
    /\ pc \in {"start", "loop", "left", "crashed"}
    /\ running \in BOOLEAN /\ output \in BOOLEAN /\ triggered \in BOOLEAN
    /\ started \in 0 .. NumDevs /\ acquiring \subseteq 1 .. started
    /\ stack \in Seq(Frame)
    /\ received_samples \in Nat /\ written \in Nat /\ ends \in Nat

\* "cli: double end!": the output is told of the end, and closed, once,
\* although every device says SR_DF_END and a stop may make it say it again.
EndOnce == ends <= 1

\* Once the output has been told of the end no sample reaches it, also not
\* from the devices whose callbacks the stopped loop still has to call.
NoDataAfterEnd == [][ends > 0 => UNCHANGED written]_vars

\* The end of the output is final: it comes once, and nothing comes after it.
EndIsFinal == []EndOnce /\ NoDataAfterEnd

\* "cut off the buffer of the last packet according to the sample limit":
\* whatever the drivers send too much, the output gets the samples that were
\* received, up to the limit, and no byte more.
CutToLimit ==
    ~(\E i \in DOMAIN stack : stack[i].at = "logic") =>
        written = UnitSize *
            (IF Limit # 0 /\ received_samples > Limit
             THEN Limit ELSE received_samples)

\* After SR_DF_END the session returns to the frontend.
EndEndsSession == ends > 0 ~> pc = "left"
=============================================================================
