------------------------------ MODULE Decoding -----------------------------
(***************************************************************************)
(* libsigrokdecode as sigrok-cli uses it: loading decoder classes, making  *)
(* instances of them with options and probes, stacking them, starting      *)
(* them, and feeding them samples.  A decoder is Python code that may put  *)
(* annotations or data for the decoders on top of it at any point, or      *)
(* raise an exception; put() calls those decoders from inside, so that     *)
(* decode() is a stack of calls.                                           *)
(***************************************************************************)
EXTENDS Filter, FiniteSets, SequencesExt

CONSTANTS
    Classes,        \* by id: what the decoder modules define
    Commands,       \* the command lines
    Signal,         \* what the device measures: a sequence of samples
    InUnitsize,     \* its sample size, in bytes
    Enabled,        \* its enabled probes (logic_probelist)
    MaxChunk,       \* bound: samples in one packet
    MaxPuts         \* bound: put()s in one decode() call

ASSUME DecodingAssumption ==
    /\ FilterAssumption
    /\ InUnitsize \in Nat \ {0} /\ MaxChunk \in Nat \ {0} /\ MaxPuts \in Nat
    /\ Signal \in Seq(SUBSET (0 .. InUnitsize * ByteBits - 1))
    /\ Enabled \in Seq(1 .. InUnitsize * ByteBits)
    /\ \A i, j \in DOMAIN Enabled : i < j => Enabled[i] < Enabled[j]
    /\ \A c \in DOMAIN Classes :
          /\ {Classes[c].probes, Classes[c].opt_probes} \subseteq Seq(STRING)
          /\ Classes[c].annotations \in Nat
    /\ \A c \in Commands :
          /\ c.pds \in Seq(ToSet(c.pds)) /\ c.stack \in Seq(STRING)
          /\ \A i \in DOMAIN c.pds : c.pds[i].class \in DOMAIN Classes

VARIABLES
    command,    \* the command line
    pc,         \* what main() is doing
    token,      \* the decoder of the list it is at
    from,       \* di_from of setup_pd_stack()
    pd_list,    \* the decoders loaded, by id
    converted,  \* the options of each class that have become values
    inst,       \* every instance made
    di_list,    \* the instances that take input from the frontend
    visible,    \* pd_ann_visible: instance id -> annotation format
    started,    \* the instances whose start() has returned
    sized,      \* the instances whose data_unitsize was set
    sent,       \* received_samples
    chunk,      \* the packed samples being sent
    rest,       \* the instances srd_session_send() has still to call
    calls,      \* the decode() calls, the innermost last
    freed,      \* the instances srd_inst_free() was called for
    seen,       \* history: the samples each instance has seen
    put, got,   \* history: the data each instance has put, and was given
    raised,     \* history: some decode() call has raised an exception
    shown       \* history: the instances whose annotations were printed

setupVars == <<command, token, from, pd_list, converted, inst, di_list,
               visible>>
feedVars == <<started, sized, sent, chunk, rest, calls, seen, put, got, raised,
              shown>>
vars == <<setupVars, feedVars, pc, freed>>

None == -1     \* a probe that is not mapped, an annotation without a format
Missing == -2  \* a probe given without a value
Bad == -3      \* a value of the wrong type
Insts == DOMAIN inst

-----------------------------------------------------------------------------
(* decoder.c: srd_decoder_load() *)

Class(h) == Classes[inst[h].decoder]

\* get_probes(): required probes first, then the optional ones.
Probes(class) == Classes[class].probes \o Classes[class].opt_probes

\* The class passes every check: it is appended, loaded before or not.
Loads(class) == Classes[class].sound

-----------------------------------------------------------------------------
(* controller.c: instances *)

\* srd_inst_option_set(): self.options is the dictionary of the class, so
\* that what is set for an instance replaces the default of the class; an
\* option that is not a list of description and default any more is an error,
\* as is a value of the wrong type.
OptionFails(class, args, k) ==
    LET key == Classes[class].options[k]
    IN k \in converted[class] \/ (key \in DOMAIN args /\ args[key] = Bad)

OptionSetTo(class, args) ==
    {k \in DOMAIN Classes[class].options :
        \A j \in 1 .. k : ~OptionFails(class, args, j)}

\* A class that has no options attribute takes no arguments at all.
OptionSetOk(class, args) ==
    IF Classes[class].has_options
    THEN OptionSetTo(class, args) = DOMAIN Classes[class].options
    ELSE DOMAIN args \subseteq {"id"}

InstId(class, args) == IF "id" \in DOMAIN args THEN args["id"] ELSE class

\* What is left of the arguments: probe names.
ProbeArgs(class, args) ==
    DOMAIN args \ ({"id"} \cup ToSet(Classes[class].options))

\* srd_inst_probe_set_all()
ProbeSetOk(class, args) ==
    /\ ProbeArgs(class, args) \subseteq ToSet(Probes(class))
    /\ \A p \in ProbeArgs(class, args) : args[p] # Missing

\* Mutant: the optional probes are left out.
ProbeMapRequired(class, args) ==
    [i \in DOMAIN Classes[class].probes |->
        IF ProbeArgs(class, args) = {} THEN i - 1
        ELSE IF Probes(class)[i] \in ProbeArgs(class, args)
             THEN args[Probes(class)[i]] ELSE None]

\* Probes not named are unused, unless none is named: then they come in the
\* order of the class.
ProbeMap(class, args) ==
    [i \in DOMAIN Probes(class) |->
        IF ProbeArgs(class, args) = {} THEN i - 1
        ELSE IF Probes(class)[i] \in ProbeArgs(class, args)
             THEN args[Probes(class)[i]] ELSE None]

\* srd_inst_find_by_id(): the first one at the bottom level, 0 for none.
FindById(id) ==
    LET i == SelectInSeq(di_list, LAMBDA h : inst[h].inst_id = id)
    IN IF i = 0 THEN 0 ELSE di_list[i]

\* Where next leads from the instances in S, S included: the functions that
\* call themselves for every instance on top of one get there.
Reach(S, next) ==
    {h \in Insts : \A T \in SUBSET Insts :
                      S \subseteq T /\ (\A g \in T : next[g] \subseteq T) => h \in T}

\* srd_inst_find_by_obj() searches the bottom and all on top of it.
OnTop == [h \in Insts |-> ToSet(inst[h].next_di)]
Searched == Reach(ToSet(di_list), OnTop)

-----------------------------------------------------------------------------
(* sigrok-cli.c: register_pds(), setup_pd_stack(), setup_pd_annotations() *)

Init ==
    /\ command \in Commands /\ pc = "register" /\ token = 1 /\ from = 0
    /\ pd_list = <<>> /\ converted = [c \in DOMAIN Classes |-> {}]
    /\ inst = <<>> /\ di_list = <<>> /\ visible = {}
    /\ started = {} /\ sized = {} /\ sent = 0 /\ chunk = <<>> /\ rest = <<>>
    /\ calls = <<>> /\ freed = {} /\ raised = FALSE /\ shown = {}
    /\ seen = <<>> /\ put = <<>> /\ got = <<>>

Pd == command.pds[token]

LoadFails ==
    /\ pc = "register" /\ token <= Len(command.pds) /\ ~Loads(Pd.class)
    /\ pc' = "exit"
    /\ UNCHANGED <<setupVars, feedVars, freed>>

InstFails ==
    /\ pc = "register" /\ token <= Len(command.pds) /\ Loads(Pd.class)
    /\ ~OptionSetOk(Pd.class, Pd.args)
    /\ pd_list' = Append(pd_list, Pd.class)
    /\ converted' = [converted EXCEPT
                        ![Pd.class] = @ \cup OptionSetTo(Pd.class, Pd.args)]
    /\ pc' = "exit"
    /\ UNCHANGED <<command, token, from, inst, di_list, visible, feedVars,
                   freed>>

\* srd_inst_new(), its annotations made visible unless a list was given, and
\* its probes set.
Register ==
    /\ pc = "register" /\ token <= Len(command.pds) /\ Loads(Pd.class)
    /\ OptionSetOk(Pd.class, Pd.args)
    /\ pd_list' = Append(pd_list, Pd.class)
    /\ converted' = [converted EXCEPT
                        ![Pd.class] = @ \cup OptionSetTo(Pd.class, Pd.args)]
    /\ inst' = Append(inst, [decoder |-> Pd.class,
                             inst_id |-> InstId(Pd.class, Pd.args),
                             dec_probemap |-> ProbeMap(Pd.class, Pd.args),
                             next_di |-> <<>>])
    /\ di_list' = Append(di_list, Len(inst'))
    /\ visible' = IF command.annotations # <<>> THEN visible
                  ELSE visible \cup {<<InstId(Pd.class, Pd.args), 0>>}
    /\ seen' = Append(seen, <<>>)
    /\ put' = Append(put, 0) /\ got' = Append(got, 0)
    /\ pc' = IF ProbeSetOk(Pd.class, Pd.args) THEN "register" ELSE "exit"
    /\ token' = token + 1
    /\ UNCHANGED <<command, from, started, sized, sent, chunk, rest, calls,
                   raised, shown, freed>>

\* More than one decoder: the stack is that of -s, or the whole list.
StackOf ==
    IF command.stack # <<>> THEN command.stack
    ELSE [i \in DOMAIN command.pds |-> command.pds[i].class]

StackBegins ==
    /\ pc = "register" /\ token > Len(command.pds)
    /\ from' = IF Len(command.pds) > 1 THEN FindById(StackOf[1]) ELSE 0
    /\ pc' = IF Len(command.pds) <= 1 THEN "annotations"
             ELSE IF Len(StackOf) < 2 \/ from' = 0 THEN "exit" ELSE "stack"
    /\ token' = 2
    /\ UNCHANGED <<command, pd_list, converted, inst, di_list, visible,
                   feedVars, freed>>

\* Mutant: the annotations of the upper one are hidden.
StackNextHidesTop ==
    /\ pc = "stack" /\ token <= Len(StackOf)
    /\ LET to == FindById(StackOf[token])
       IN IF to = 0
          THEN pc' = "exit" /\ UNCHANGED <<setupVars>>
          ELSE /\ di_list' = RemoveFirst(di_list, to)
               /\ inst' = [inst EXCEPT ![from].next_di = Append(@, to)]
               /\ visible' = {v \in visible : v[1] # inst[to].inst_id}
               /\ from' = to /\ token' = token + 1
               /\ UNCHANGED <<pc, command, pd_list, converted>>
    /\ UNCHANGED <<feedVars, freed>>

\* srd_inst_stack()
StackNext ==
    /\ pc = "stack" /\ token <= Len(StackOf)
    /\ LET to == FindById(StackOf[token])
       IN IF to = 0
          THEN pc' = "exit" /\ UNCHANGED <<setupVars>>
          ELSE /\ di_list' = RemoveFirst(di_list, to)
               /\ inst' = [inst EXCEPT ![from].next_di = Append(@, to)]
               /\ visible' = IF command.annotations # <<>> THEN visible
                             ELSE {v \in visible :
                                      v[1] # inst[from].inst_id}
               /\ from' = to /\ token' = token + 1
               /\ UNCHANGED <<pc, command, pd_list, converted>>
    /\ UNCHANGED <<feedVars, freed>>

StackDone ==
    /\ pc = "stack" /\ token > Len(StackOf)
    /\ pc' = "annotations"
    /\ UNCHANGED <<setupVars, feedVars, freed>>

\* The list names decoders; one entry for each is kept, the last one.
Annotation(a) ==
    {<<a.class, IF a.format = None THEN 0 ELSE a.format>>}

AnnotationOk(a) ==
    /\ a.class \in ToSet(pd_list) /\ Classes[a.class].annotations > 0
    /\ a.format < Classes[a.class].annotations

SetAnnotations ==
    /\ pc = "annotations"
    /\ \/ /\ command.annotations = <<>>
          /\ pc' = "ready" /\ UNCHANGED visible
       \/ /\ command.annotations # <<>>
          /\ \A i \in DOMAIN command.annotations :
                AnnotationOk(command.annotations[i])
          /\ visible' = FoldLeft(LAMBDA v, a :
                            {w \in v : w[1] # a.class} \cup Annotation(a),
                            visible, command.annotations)
          /\ pc' = "ready"
       \/ /\ \E i \in DOMAIN command.annotations :
                ~AnnotationOk(command.annotations[i])
          /\ pc' = "exit" /\ UNCHANGED visible
    /\ UNCHANGED <<command, token, from, pd_list, converted, inst, di_list,
                   feedVars, freed>>

-----------------------------------------------------------------------------
(* The session: sigrok-cli.c's datafeed_in() and controller.c *)

OutUnitsize == (Len(Enabled) + ByteBits - 1) \div ByteBits

\* srd_inst_start(): an instance that raises an exception is not started, nor
\* are those on top of it.
StartTree(h, bad) ==
    IF h \in bad THEN {}
    ELSE Reach({h}, [g \in Insts |-> OnTop[g] \ bad])

\* srd_session_start() goes up to the first at the bottom that raises one.
CameTo(bad) ==
    LET first == SelectInSeq(di_list, LAMBDA h : h \in bad)
    IN IF first = 0 THEN di_list ELSE SubSeq(di_list, 1, first)

\* SR_DF_META_LOGIC: those it comes to get their unit size and are started, the
\* others stay as srd_inst_new() made them; sigrok-cli does not look at what it
\* returns.
SessionStart ==
    /\ pc = "ready" /\ pc' = "session"
    /\ \E bad \in SUBSET Insts :
          /\ started' = UNION {StartTree(h, bad) : h \in ToSet(CameTo(bad))}
          /\ sized' = ToSet(CameTo(bad))
    /\ UNCHANGED <<setupVars, sent, chunk, rest, calls, seen, put, got,
                   raised, shown, freed>>

Frame(h, logic) ==
    [di |-> h, logic |-> logic, itercnt |-> 0, puts |-> 0, targets |-> <<>>]

\* SR_DF_LOGIC: the packet is filtered and sent to all at the bottom level.
SessionSend ==
    /\ pc = "session" /\ pc' = "send"
    /\ \E n \in 1 .. MaxChunk, g \in Garbage(InUnitsize) :
          /\ sent + n <= Len(Signal)
          /\ chunk' = FilterProbes(InUnitsize, OutUnitsize, Enabled,
                                   SubSeq(Signal, sent + 1, sent + n), g)
    /\ rest' = di_list
    /\ UNCHANGED <<setupVars, started, sized, sent, calls, seen, put, got,
                   raised, shown, freed>>

\* srd_inst_decode() divides by the unit size.
InstDecode ==
    /\ pc = "send" /\ calls = <<>> /\ rest # <<>> /\ Head(rest) \in sized
    /\ calls' = <<Frame(Head(rest), TRUE)>> /\ rest' = Tail(rest)
    /\ UNCHANGED <<setupVars, started, sized, sent, chunk, seen, put, got,
                   raised, shown, pc, freed>>

\* An instance srd_session_start() did not come to has a unit size of 0.
DividesByZero ==
    /\ pc = "send" /\ calls = <<>> /\ rest # <<>> /\ Head(rest) \notin sized
    /\ pc' = "crashed"
    /\ UNCHANGED <<setupVars, feedVars, freed>>

SendDone ==
    /\ pc = "send" /\ calls = <<>> /\ rest = <<>>
    /\ sent' = sent + Len(chunk) /\ chunk' = <<>> /\ pc' = "session"
    /\ UNCHANGED <<setupVars, started, sized, rest, calls, seen, put, got,
                   raised, shown, freed>>

Top == calls[Len(calls)]
Runs == calls # <<>> /\ Top.targets = <<>>

\* srd_logic_iternext(): one byte for each probe of the decoder.
Pins(h, word) ==
    [i \in DOMAIN inst[h].dec_probemap |->
        LET k == inst[h].dec_probemap[i]
        IN IF k = None THEN 42 ELSE IF Tests(word, k) THEN 1 ELSE 0]

IterNext ==
    /\ Runs /\ Top.logic /\ Top.itercnt < Len(chunk)
    /\ \E g \in Garbage(OutUnitsize) :
          seen' = [seen EXCEPT ![Top.di] =
                      Append(@, [num |-> sent + Top.itercnt,
                                 pins |-> Pins(Top.di,
                                          chunk[Top.itercnt + 1] \cup g)])]
    /\ calls' = [calls EXCEPT ![Len(calls)].itercnt = @ + 1]
    /\ UNCHANGED <<setupVars, started, sized, sent, chunk, rest, put, got,
                   raised, shown, pc, freed>>

\* What a decoder may do: one that was not started has no outputs to put to.
MayPut == Runs /\ Top.di \in started /\ Top.puts < MaxPuts

\* Decoder_put() to SRD_OUTPUT_ANN, convert_pyobj() and show_pd_annotations():
\* formats the class does not have are dropped.
PutAnnotation ==
    /\ MayPut
    /\ calls' = [calls EXCEPT ![Len(calls)].puts = @ + 1]
    /\ \E format \in 0 .. Class(Top.di).annotations :
          shown' = IF /\ format < Class(Top.di).annotations
                      /\ <<inst[Top.di].inst_id, format>> \in visible
                   THEN shown \cup {Top.di} ELSE shown
    /\ UNCHANGED <<setupVars, started, sized, sent, chunk, rest, seen, put,
                   got, raised, pc, freed>>

\* Mutant: only the last decoder is called.
PutProtoSkips ==
    /\ MayPut
    /\ calls' = [calls EXCEPT ![Len(calls)].puts = @ + 1,
                              ![Len(calls)].targets =
                                  SelectSeq(inst[Top.di].next_di,
                                            LAMBDA h : h = Len(inst))]
    /\ put' = [put EXCEPT ![Top.di] = @ + 1]
    /\ UNCHANGED <<setupVars, started, sized, sent, chunk, rest, seen, got,
                   raised, shown, pc, freed>>

\* Decoder_put() to SRD_OUTPUT_PROTO: for all on top of it, one by one.
PutProto ==
    /\ MayPut
    /\ calls' = [calls EXCEPT ![Len(calls)].puts = @ + 1,
                              ![Len(calls)].targets = inst[Top.di].next_di]
    /\ put' = [put EXCEPT ![Top.di] = @ + 1]
    /\ UNCHANGED <<setupVars, started, sized, sent, chunk, rest, seen, got,
                   raised, shown, pc, freed>>

Deliver ==
    /\ calls # <<>> /\ Top.targets # <<>>
    /\ LET g == Head(Top.targets)
       IN /\ calls' = Append([calls EXCEPT ![Len(calls)].targets = Tail(@)],
                             Frame(g, FALSE))
          /\ got' = [got EXCEPT ![g] = @ + 1]
    /\ UNCHANGED <<setupVars, started, sized, sent, chunk, rest, seen, put,
                   raised, shown, pc, freed>>

\* decode() returns: its loop over the samples has come to their end.
Return ==
    /\ Runs /\ (Top.logic => Top.itercnt = Len(chunk))
    /\ calls' = Front(calls)
    /\ UNCHANGED <<setupVars, started, sized, sent, chunk, rest, seen, put,
                   got, raised, shown, pc, freed>>

\* An exception in a decoder on top of another is caught in put(), and the one
\* below goes on.
RaiseInPut ==
    /\ Runs /\ Len(calls) > 1
    /\ calls' = Front(calls) /\ raised' = TRUE
    /\ UNCHANGED <<setupVars, started, sized, sent, chunk, rest, seen, put,
                   got, shown, pc, freed>>

\* An exception at the bottom ends srd_session_send(): the instances after it
\* do not get the packet, and sigrok-cli stops the session.  The packet
\* counts as received, and more may come before SR_DF_END.
RaiseAtBottom ==
    /\ Runs /\ Len(calls) = 1
    /\ calls' = <<>> /\ rest' = <<>> /\ raised' = TRUE
    /\ sent' = sent + Len(chunk) /\ chunk' = <<>> /\ pc' = "session"
    /\ UNCHANGED <<setupVars, started, sized, seen, put, got, shown, freed>>

\* srd_exit(): for each decoder loaded, srd_inst_free_all(), which frees the
\* first instance of a list and the first one of each list on top of it.
First(list) == {list[i] : i \in DOMAIN list \cap {1}}
FreeAll(list) ==
    Reach(First(list), [h \in Insts |-> First(inst[h].next_di)])

Exit ==
    /\ pc \in {"ready", "session"} /\ pc' = "exited"
    /\ freed' = FreeAll(di_list)
    /\ pd_list' = <<>> /\ di_list' = <<>>
    /\ UNCHANGED <<command, token, from, converted, inst, visible, feedVars>>

Next ==
    \/ LoadFails \/ InstFails \/ Register
    \/ StackBegins \/ StackNext \/ StackDone \/ SetAnnotations
    \/ SessionStart \/ SessionSend \/ InstDecode \/ DividesByZero \/ SendDone
    \/ IterNext \/ PutAnnotation \/ PutProto \/ Deliver
    \/ Return \/ RaiseInPut \/ RaiseAtBottom \/ Exit

Spec == Init /\ [][Next]_vars

-----------------------------------------------------------------------------
(* Properties *)

TypeOK ==
    /\ pc \in {"register", "stack", "annotations", "ready", "session",
               "send", "crashed", "exit", "exited"}
    /\ ToSet(di_list) \subseteq Insts /\ ToSet(pd_list) \subseteq DOMAIN Classes
    /\ started \subseteq Insts /\ sized \subseteq Insts
    /\ freed \subseteq Insts /\ shown \subseteq Insts
    /\ sent \in 0 .. Len(Signal) /\ Len(chunk) <= MaxChunk
    /\ \A i \in DOMAIN calls : /\ calls[i].di \in Insts
                               /\ calls[i].itercnt \in 0 .. Len(chunk)
                               /\ calls[i].puts \in 0 .. MaxPuts
    /\ \A h \in Insts : Len(inst[h].dec_probemap) = Len(Probes(inst[h].decoder))

\* The command line names every decoder once, and gives no other ids.
Distinct ==
    /\ \A i, j \in DOMAIN command.pds :
          command.pds[i].class = command.pds[j].class => i = j
    /\ \A i \in DOMAIN command.pds : "id" \notin DOMAIN command.pds[i].args
    /\ \A i, j \in DOMAIN command.stack :
          command.stack[i] = command.stack[j] => i = j

Built == pc \in {"ready", "session", "send"}

\* However they were stacked, each instance is fed from one place: by the
\* frontend or by one other instance; and put() finds it from the bottom.
StackedOnce ==
    Distinct /\ Built =>
        /\ Searched = Insts
        /\ \A h \in Insts :
              (IF h \in ToSet(di_list) THEN 1 ELSE 0)
              + Cardinality({g \in Insts : h \in ToSet(inst[g].next_di)}) = 1

\* Every instance at the bottom sees every sample once, in order and under
\* its number, over packets of any length, until one raises an exception in
\* decode(), or the program dies of one that was never told the unit size;
\* those on top of others see none.
SamplesInOrder ==
    ~raised /\ (Built \/ pc = "crashed") =>
        \A h \in Insts :
            /\ \A i \in DOMAIN seen[h] : seen[h][i].num = i - 1
            /\ pc = "session" =>
                  Len(seen[h]) = IF h \in ToSet(di_list) THEN sent ELSE 0

\* From the device to the decoder: what a decoder sees of a probe is what the
\* device measured there, through the packing of the enabled probes and the
\* probe map, and 42 where no probe is mapped.  It holds for probes below the
\* sign bit of an int, for no more probes than an int has bits (the next would
\* be packed on top of the first), and maps within the enabled probes.
PinsAreProbes ==
    \A h \in Insts : \A i \in DOMAIN seen[h] :
        \A p \in DOMAIN inst[h].dec_probemap :
            LET k == inst[h].dec_probemap[p]
            IN /\ k = None => seen[h][i].pins[p] = 42
               /\ (/\ k \in 0 .. Len(Enabled) - 1
                   /\ Enabled[k + 1] < IntBits /\ Len(Enabled) <= IntBits) =>
                     (seen[h][i].pins[p] = 1)
                     <=> (Enabled[k + 1] - 1 \in Signal[seen[h][i].num + 1])

\* Each instance on top of another is given all that one has put, whichever
\* decoders raise exceptions meanwhile.
StackFed ==
    calls = <<>> =>
        \A h \in Insts : \A g \in ToSet(inst[h].next_di) : got[g] = put[h]

\* The man page: "By default, only the stack's topmost protocol decoder's
\* annotation output is shown."
OnlyTopmostShown ==
    Distinct /\ Built /\ command.annotations = <<>> /\ command.stack = <<>>
    => shown \subseteq {Len(inst)}

\* srd_exit() frees a stack to its top.  (Of several at the bottom it frees
\* the first one only.)
StackFreed == pc = "exited" /\ Distinct /\ command.stack = <<>> => freed = Insts

\* The stack as a whole: built once, freed to its top, and only its top shown.
WellStacked == StackedOnce /\ OnlyTopmostShown /\ StackFreed

\* From the device to the top of the stack: every decoder is given all that is
\* below it, in order, and the pins it reads are the probes it was given.
SamplesReachDecoders == SamplesInOrder /\ PinsAreProbes /\ StackFed

=============================================================================
