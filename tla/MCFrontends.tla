----------------------------- MODULE MCFrontends -----------------------------
\* One or two FX2 devices of one driver, with or without the demo; sigrok-gtk has
\* the demo beside a device that needs no firmware.
EXTENDS Frontends

MCDriverOf == ("fx2" :> "fx2lafw") @@ ("dso" :> "hantek")
MCProbeCount == ("fx2" :> 2) @@ ("dso" :> 2) @@ ("demo" :> 1)

Device(model, place, kind) == [model |-> model, place |-> place, kind |-> kind]
Setup(clients, driverLists, buses) ==
    [client: clients, drivers: driverLists, bus: buses]
Logic(kinds) == {<<Device("fx2", place, kind)>> : place \in {"bare", "loaded"}, kind \in kinds}
Scope(kinds) == {<<Device("dso", place, kind)>> : place \in {"bare", "loaded"}, kind \in kinds}
Pairs == {<<Device("fx2", place, "fine"), Device("fx2", "loaded", "fine")>> :
             place \in {"bare", "loaded"}}
         \cup {<<Device("fx2", "loaded", "unopenable"), Device("fx2", "loaded", "fine")>>}
MCSetups ==
    Setup({"cli", "qt"}, {<<"demo", "fx2lafw">>, <<"fx2lafw">>}, Logic(Kinds))
    \cup Setup({"gtk"}, {<<"fx2lafw">>}, Logic(Kinds))
    \cup Setup({"gtk"}, {<<"demo", "fx2lafw">>}, {<<Device("fx2", "loaded", k)>> : k \in Kinds})
    \cup Setup({"cli", "gtk"}, {<<"hantek">>}, Scope(Kinds))
    \cup Setup({"cli", "qt"}, {<<"fx2lafw">>}, Pairs)

Plain == [by |-> "driver", driver |-> "fx2lafw", number |-> 0, samplerate |-> 0,
          badOption |-> FALSE, select |-> "all", probes |-> <<>>, continuous |-> FALSE,
          triggers |-> <<>>, time |-> <<>>, samples |-> <<>>, frames |-> 0]
List(probes) == [Plain EXCEPT !.select = "list", !.probes = probes]
Zero == <<<<"0">>>>
One == <<<<"1">>>>
MCCommands ==
    {[Plain EXCEPT !.time = <<2, "s">>, !.samplerate = 100],
     [List(<<"A">>) EXCEPT !.by = "number", !.samples = <<1, "k">>,
                   !.triggers = <<<<"A", 0, <<<<"1", "0">>>>>>, <<"", 2, One>>>>],
     [Plain EXCEPT !.by = "none", !.time = <<50, "">>, !.samples = <<3, "">>,
                   !.triggers = <<<<"", 1, One>>, <<"", 1, Zero>>>>],
     [Plain EXCEPT !.triggers = <<<<"", 1, One>>, <<"", 2, Zero>>, <<"", 1, Zero>>>>],
     [List(2 :> "B") EXCEPT !.triggers = <<<<"B", 0, <<<<"0", "1">>>>>>, <<"", 1, One>>>>],
     [List(2 :> "2") EXCEPT !.triggers = <<<<"", 1, One>>, <<"", 2, NoTrigger>>>>],
     [List(3 :> "3") EXCEPT !.by = "none"],
     List(<<>>),
     [List(2 :> "2") EXCEPT !.driver = "hantek", !.frames = 2],
     [Plain EXCEPT !.triggers = <<<<"", 1, <<<<>>>>>>>>],
     [Plain EXCEPT !.driver = "demo", !.time = <<20, "ms">>, !.samplerate = 100],
     [Plain EXCEPT !.driver = "demo", !.time = <<20, "ms">>, !.samples = <<7, "">>],
     [Plain EXCEPT !.samples = <<2, "x">>],
     [Plain EXCEPT !.time = <<1, "h">>],
     [Plain EXCEPT !.badOption = TRUE, !.samplerate = 100],
     [Plain EXCEPT !.select = "bad"],
     [Plain EXCEPT !.continuous = TRUE, !.triggers = <<<<"", 1, <<<<"1", "1", "1", "1", "1">>>>>>>>],
     [Plain EXCEPT !.continuous = TRUE, !.triggers = <<<<"B", 0, One>>>>]}

\* What a theorem of FrontendsProofs assumes of the command lines.
ASSUME MCUnambiguous == \A c \in MCCommands : Unambiguous(c)
==============================================================================
