----------------------------- MODULE MCDecoding ----------------------------
(***************************************************************************)
(* Decoding for TLC: three decoders and the command lines for them.        *)
(***************************************************************************)
EXTENDS Decoding, TLC

MCClasses ==
    "spi" :> [sound |-> TRUE, has_options |-> TRUE, options |-> <<"cpol">>,
              probes |-> <<"sck">>, opt_probes |-> <<"cs">>,
              annotations |-> 2]
    @@ "lm75" :> [sound |-> TRUE, has_options |-> TRUE, options |-> <<>>,
                  probes |-> <<>>, opt_probes |-> <<>>, annotations |-> 1]
    @@ "edid" :> [sound |-> TRUE, has_options |-> FALSE, options |-> <<>>,
                  probes |-> <<>>, opt_probes |-> <<>>, annotations |-> 1]
    @@ "bad" :> [sound |-> FALSE, has_options |-> FALSE, options |-> <<>>,
                 probes |-> <<>>, opt_probes |-> <<>>, annotations |-> 0]

None0 == [x \in {} |-> 0]
Pd0(class) == [class |-> class, args |-> None0]
Command(pds, stack, annotations) ==
    [pds |-> pds, stack |-> stack, annotations |-> annotations]

Spi(args) == [class |-> "spi", args |-> args]

MCCommands ==
    {Command(<<Spi(a)>>, <<>>, <<>>) :
        a \in {"sck" :> 1, "sck" :> 0 @@ "cs" :> 2, "cpol" :> Bad,
               "sck" :> Missing, "cs" :> 1 @@ "cpol" :> 1}}
    \cup {Command(<<Pd0("spi"), Pd0("lm75"), Pd0("edid")>>, s, a) :
             s \in {<<>>, <<"spi", "edid">>},
             a \in {<<>>, <<[class |-> "lm75", format |-> None],
                            [class |-> "spi", format |-> 1]>>}}
    \cup {Command(<<Pd0("bad")>>, <<>>, <<>>),
          Command(<<Pd0("lm75"), Pd0("lm75")>>, <<>>, <<>>),
          Command(<<Pd0("spi"), Pd0("edid")>>, <<"spi", "bad">>, <<>>),
          Command(<<Pd0("spi"), Pd0("edid")>>, <<"edid">>, <<>>),
          Command(<<Pd0("spi")>>, <<>>, <<[class |-> "spi", format |-> 2]>>)}

Two == {Command(<<Spi("sck" :> 0), Spi("sck" :> 1)>>, <<>>, <<>>)}

MCEnabled == <<1, 3, 4>>

MCSignal == <<{0, 2}, {1, 3}>>
=============================================================================
