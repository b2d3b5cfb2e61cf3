------------------------------- MODULE MCFiles -----------------------------
(***************************************************************************)
(* Files for TLC: a device with five probes in bytes of two bits, an       *)
(* oscilloscope, and command lines for them and for the files.             *)
(***************************************************************************)
EXTENDS Files

MCDevProbes == <<"A", "B", "C", "D", "E">>
MCChannels == <<"CH1", "CH2">>

\* Five probes: every sample fills three bytes, of which the last is half.
MCSignal ==
    <<{0, 3}, {1, 3, 4}, {1, 3}, {1, 3}, {0, 1, 2, 4}, {}, {2}>>

Cmd(input, probes, format, save) ==
    [input |-> input, probes |-> probes, format |-> format, save |-> save,
     triggers |-> <<>>, limit |-> 0, wait |-> FALSE,
     input_format |-> "", numprobes |-> -1]

Pick(n, name) == [n |-> n, name |-> name]
All == <<>>
Two == <<Pick(4, "clk"), Pick(2, "2")>>
Three == <<Pick(1, "1"), Pick(2, "2"), Pick(4, "4")>>

Dev(probes, format, save) == Cmd("device", probes, format, save)
Show(format) == Cmd("file", All, format, FALSE)
Binary(probes, format, numprobes) ==
    [Cmd("file", probes, format, FALSE)
        EXCEPT !.input_format = "binary", !.numprobes = numprobes]

Limited == [Dev(Two, "bits", FALSE) EXCEPT !.limit = 2]
Waiting == [Dev(Two, "bits", FALSE) EXCEPT !.wait = TRUE]
Triggered ==
    [Dev(Three, "", TRUE) EXCEPT !.triggers = <<"", "r", "", "r">>]

MCPlans ==
    {<<Dev(Two, format, FALSE)>> : format \in ({""} \cup Formats) \ {"float"}}
    \cup {<<Limited>>, <<Waiting>>, <<Dev(<<Pick(6, "6")>>, "", FALSE)>>,
          <<Show("bits")>>, <<Dev(Two, "float", FALSE)>>}
    \cup {<<Dev(Three, "", TRUE), Show(format)>> :
               format \in {"", "hex", "gnuplot", "chronovu-la8"}}
    \cup {<<Triggered, Cmd("file", All, "", TRUE)>>,
          <<Dev(All, "", TRUE), Show("csv")>>,
          <<Dev(Two, "binary", TRUE), Binary(All, "ascii", 2)>>,
          <<Dev(Three, "binary", TRUE), Binary(All, "bits", 3)>>,
          <<Dev(Two, "chronovu-la8", TRUE), Show("ols")>>,
          <<Dev(Two, "binary", TRUE), Binary(<<Pick(9, "9")>>, "csv", 2)>>,
          <<Dev(Three, "binary", TRUE), Binary(<<Pick(3, "sda")>>, "hex", 3)>>,
          <<Dev(Two, "binary", TRUE), Binary(All, "vcd", 0)>>,
          <<Dev(Two, "binary", TRUE), Binary(All, "csv", 2)>>,
          <<Dev(Two, "binary", TRUE), Binary(All, "ols", 5)>>,
          <<Dev(Two, "binary", TRUE), [Binary(All, "", 5) EXCEPT !.save = TRUE]>>}
    \cup {<<[Cmd("scope", All, "float", FALSE) EXCEPT !.limit = 2]>>}
    \cup {<<Cmd("scope", probes, format, save)>> :
             probes \in {All, <<Pick(2, "2")>>},
             format \in {"", "float"}, save \in {FALSE, TRUE}}

\* Every number of probes is less than the bits of an int.
ASSUME MCFilesAssumption == FewProbes
=============================================================================
