------------------------------ MODULE Frontends ------------------------------
\* The three frontends on libsigrok's devices: one capture of sigrok-cli from
\* its command line, and any sequence of clicks in sigrok-gtk and sigrok-qt.
\* The captures themselves are in the modules of the drivers: here one starts
\* or does not, and returns.
EXTENDS Registry

CONSTANTS Commands,    \* command lines of sigrok-cli
          Setups,      \* which frontend may run with which drivers built in and
                       \* which USB devices, [model, place, kind], on the bus
          MaxInsts,    \* bound: the instances of a driver that scans find again
          ScanTime     \* bound: when the last scan may be

Limits == {<<>>} \cup (Nat \X STRING)

\* A trigger: none, or the letters of a command line or of a text in sigrok-gtk,
\* which may have none or one too many.
Texts == {<<>>, [s \in 1..(MaxStages + 1) |-> "1"]}
Triggers == {t \in Seq(Seq(STRING) \cup Texts) : Len(t) <= 1}

\* An address on the bus is below NoAddress.
ASSUME FrontendsAssumption ==
    /\ ScanTime + MaxRenumDelay < MaxTime
    /\ {MaxInsts, ScanTime} \subseteq Nat
    /\ \A s \in Setups :
          /\ s.client \in {"cli", "gtk", "qt"}
          /\ s.drivers \in Seq({"demo"} \cup Fx)
          /\ s.bus \in Seq([model: DOMAIN DriverOf, place: {"bare", "loaded"}, kind: Kinds])
          /\ Len(s.bus) <= MaxInsts /\ 2 * Len(s.bus) < NoAddress
    /\ \A c \in Commands :
          /\ {c.samplerate, c.number, c.frames} \subseteq Nat
          /\ {c.badOption, c.continuous} \subseteq BOOLEAN
          /\ c.select \in {"all", "list", "bad"} /\ (c.select # "list" => c.probes = <<>>)
          /\ DOMAIN c.probes \subseteq Nat \ {0} /\ c.probes \in [DOMAIN c.probes -> STRING]
          /\ c.triggers \in Seq(STRING \X Nat \X Triggers)
          /\ {c.time, c.samples} \subseteq Limits
    /\ Commands # {}

VARIABLES client,  \* which frontend runs
          pc,      \* where it is
          dev,     \* the device it works with, 0 for none
          cmd,     \* sigrok-cli: the command line
          limit,   \* sigrok-cli: limit_samples, to which it cuts its output
          loaded   \* sigrok-gtk: a file was loaded while a device was selected

usbs == <<usb, lost, insts>>
lists == <<drivers, devs, session>>
front == <<client, pc, dev, cmd, limit, loaded>>
vars == <<usbs, opening, now, lists, front>>

Init ==
    /\ \E setup \in Setups :
           /\ client = setup.client
           /\ drivers = setup.drivers
           /\ usb = [p \in DOMAIN setup.bus |->
                        Plugged(setup.bus[p].model, p, setup.bus[p].place, setup.bus[p].kind)]
    /\ lost = {}
    /\ insts = [d \in Range(drivers) |-> <<>>]
    /\ opening = Idle
    /\ now = 1
    /\ devs = <<>>
    /\ session = NoSession
    /\ pc = "start"
    /\ dev = 0
    /\ cmd \in IF client = "cli" THEN Commands ELSE {CHOOSE c \in Commands : TRUE}
    /\ limit = 0
    /\ loaded = FALSE

Driver == devs[dev].driver
Index == devs[dev].index
Probes == devs[dev].probes
Takes(cap, value) == ConfigSets(Driver, Index, cap, value)
Spills(cap, value) == Reaches(Driver, Index, cap) /\ Overlong(Driver, cap, value)
Set(cap, value) == insts' = WithConfig(insts, Driver, Index, cap, value)
At(c, place) == client = c /\ pc = place /\ opening.stage = "idle"
Goto(place) == pc' = place /\ UNCHANGED <<client, cmd>>

------------------------------------------------------------------------------
\* run_session() of sigrok-cli.

\* parse_devstring() and num_real_devs(): by the name of a driver only this one
\* is initialised, and the first of all devices taken; by a number, or without
\* anything when there is one, the number-th that is not a demo.
Nth(S, n) ==
    LET hits == {x \in S : Cardinality({y \in S : y <= x}) = n}
    IN  IF hits = {} THEN 0 ELSE Min(hits)
CliSelect ==
    /\ At("cli", "start")
    /\ \/ cmd.by = "driver" /\ cmd.driver \in Range(drivers)
          /\ Scan(<<cmd.driver>>)
          /\ dev' = IF Len(devs') = 1 THEN 1 ELSE 0
       \/ cmd.by = "driver" /\ cmd.driver \notin Range(drivers)
          /\ UNCHANGED <<usbs, devs>> /\ dev' = 0
       \/ cmd.by = "number" /\ DevList(drivers)
          /\ dev' = Nth(RealDevs(devs'), cmd.number + 1)
       \/ cmd.by = "none" /\ DevList(drivers)
          /\ dev' = IF Cardinality(RealDevs(devs')) = 1 THEN Nth(RealDevs(devs'), 1) ELSE 0
    /\ Goto(IF dev' = 0 THEN "exit" ELSE "add")
    /\ UNCHANGED <<opening, now, drivers, session, limit, loaded>>

CliAdd ==
    /\ At("cli", "add")
    /\ session' = EmptySession
    /\ opening' = DevOpen(Driver, Index)
    /\ Goto("added")
    /\ UNCHANGED <<usbs, now, drivers, devs, dev, limit, loaded>>

CliStays == UNCHANGED <<lost, opening, now, drivers, dev, loaded>>

\* Every failure but one destroys the session, which closes the device.
CliFails == Destroy /\ Goto("exit") /\ UNCHANGED <<devs, limit>> /\ CliStays

CliAdded ==
    /\ At("cli", "added")
    /\ IF opening.ret # "ok" THEN CliFails
       ELSE /\ session' = Added(dev)
            /\ Goto("options")
            /\ UNCHANGED <<usbs, devs, limit>> /\ CliStays

\* A step that sets value for cap when asked to, and fails when it cannot.
CliSets(place, next, asked, ok, cap, value) ==
    /\ At("cli", place)
    /\ \/ ~asked /\ Goto(next) /\ UNCHANGED <<usbs, devs, session, limit>> /\ CliStays
       \/ asked /\ ~(ok /\ Takes(cap, value)) /\ CliFails
       \/ asked /\ ok /\ Takes(cap, value) /\ Set(cap, value)
          /\ Goto(next) /\ UNCHANGED <<usb, devs, session, limit>> /\ CliStays

\* set_dev_options(): in the order of a hash table, up to the first that fails.
CliOption == CliSets("options", "probes", cmd.samplerate # 0, TRUE, "samplerate", cmd.samplerate)
CliBadOption == At("cli", "options") /\ cmd.badOption /\ CliFails
CliSetThenBad ==
    /\ At("cli", "options") /\ cmd.badOption
    /\ cmd.samplerate # 0 /\ Takes("samplerate", cmd.samplerate)
    /\ Set("samplerate", cmd.samplerate)
    /\ pc' = "failing"
    /\ UNCHANGED <<usb, devs, session, client, cmd, limit>> /\ CliStays
CliFailing == At("cli", "failing") /\ CliFails
CliOptions == IF cmd.badOption THEN CliBadOption \/ CliSetThenBad ELSE CliOption

\* select_probes(): a bad list returns without destroying the session.
CliProbes ==
    /\ At("cli", "probes")
    /\ IF cmd.select = "bad" \/ ~(DOMAIN cmd.probes \subseteq DOMAIN Probes)
       THEN Goto("exit") /\ UNCHANGED devs
       ELSE /\ devs' = IF cmd.select = "all" THEN devs
                       ELSE [devs EXCEPT ![dev].probes = SelectProbes(@, cmd.probes)]
            /\ Goto("triggers")
    /\ UNCHANGED <<usbs, session, limit>> /\ CliStays

TriggersTaken ==
    /\ cmd.continuous => HasHwCap(Driver, "continuous")
    /\ cmd.triggers # <<>> => TriggersOk(Driver, Probes, cmd.triggers)
CliTriggers ==
    /\ At("cli", "triggers")
    /\ \/ ~TriggersTaken /\ CliFails
       \/ /\ TriggersTaken
          /\ devs' = [devs EXCEPT ![dev].probes = SetTriggers(@, cmd.triggers)]
          /\ Goto("time")
          /\ UNCHANGED <<usbs, session, limit>> /\ CliStays

\* --time: a limit of the driver, or samples at the current samplerate.
Rate == insts[Driver][InstOf(Driver, Index)].samplerate
TimeLimit == IF HasHwCap(Driver, "samplerate") THEN (Rate * Time(cmd.time)) \div 1000 ELSE 0
Converts == ~HasHwCap(Driver, "msec")
CliTime ==
    LET cap == IF Converts THEN "samples" ELSE "msec"
        value == IF Converts THEN TimeLimit ELSE Time(cmd.time)
        ok == Time(cmd.time) # 0 /\ value # 0 /\ Takes(cap, value)
    IN  /\ At("cli", "time")
        /\ IF cmd.time = <<>> THEN Goto("samples") /\ UNCHANGED <<usbs, devs, session, limit>> /\ CliStays
           ELSE IF ~ok THEN CliFails
           ELSE /\ Set(cap, value)
                /\ limit' = IF Converts THEN value ELSE limit
                /\ Goto("samples")
                /\ UNCHANGED <<usb, devs, session>> /\ CliStays

CliSamples ==
    /\ At("cli", "samples")
    /\ IF cmd.samples = <<>> THEN Goto("frames") /\ UNCHANGED <<usbs, devs, session, limit>> /\ CliStays
       ELSE IF ~(SizeOk(cmd.samples) /\ Takes("samples", Size(cmd.samples))) THEN CliFails
       ELSE /\ Set("samples", Size(cmd.samples))
            /\ limit' = Size(cmd.samples)
            /\ Goto("frames")
            /\ UNCHANGED <<usb, devs, session>> /\ CliStays

CliFrames == CliSets("frames", "config", cmd.frames # 0, TRUE, "frames", cmd.frames)
\* The probes: a trigger that is too long is refused with part of it set.
CliConfigSpills ==
    /\ At("cli", "config") /\ Spills("probes", Probes)
    /\ Set("probes", Probes)
    /\ pc' = "failing"
    /\ UNCHANGED <<usb, devs, session, client, cmd, limit>> /\ CliStays
CliConfig == \/ CliConfigSpills
             \/ /\ At("cli", "config") /\ ~Spills("probes", Probes)
                /\ CliSets("config", "begin", TRUE, TRUE, "probes", Probes)

\* sr_session_start() of one device, and the capture.
CliStart ==
    /\ At("cli", "begin")
    /\ \/ CliFails
       \/ Goto("running") /\ UNCHANGED <<usbs, devs, session, limit>> /\ CliStays
CliRun == At("cli", "running") /\ CliFails

\* sr_exit()
Exit ==
    /\ client # "gtk" /\ pc = "exit" /\ opening.stage = "idle"
    /\ Cleanup(Range(drivers))
    /\ Goto("done")
    /\ UNCHANGED <<lost, opening, now, lists, dev, limit, loaded>>

Cli ==
    \/ CliSelect \/ CliAdd \/ CliAdded \/ CliOptions \/ CliFailing \/ CliProbes
    \/ CliTriggers \/ CliTime \/ CliSamples \/ CliFrames \/ CliConfig \/ CliStart \/ CliRun

------------------------------------------------------------------------------
\* sigrok-gtk: the main loop runs the handlers of clicks.

\* main() and dev_select_rescan(): a session, and as the default the second
\* device, because the first may be the demo.
GtkStart ==
    /\ At("gtk", "start")
    /\ DevList(drivers)
    /\ session' = EmptySession
    /\ dev' = Min({2, Len(devs')})
    /\ Goto(IF dev' = 0 THEN "idle" ELSE "select")
    /\ UNCHANGED <<opening, now, drivers, limit, loaded>>

\* dev_selected(): the device before is closed, the one of the list opened.
GtkSelects(n) ==
    /\ RemoveAll
    /\ session' = [session EXCEPT !.devs = <<>>]
    /\ opening' = DevAdd(n)
    /\ dev' = n
    /\ Goto("selected")
    /\ UNCHANGED <<lost, now, drivers, devs, limit>>
GtkDefault == At("gtk", "select") /\ GtkSelects(dev) /\ UNCHANGED loaded
GtkSelect == /\ At("gtk", "idle")
             /\ \E n \in DOMAIN devs : GtkSelects(n)
             /\ UNCHANGED loaded

GtkStays == UNCHANGED <<lost, opening, now, drivers, limit, loaded>>

\* An open that fails takes the session with it, for good.
GtkSelected ==
    /\ At("gtk", "selected")
    /\ IF opening.ret = "ok"
       THEN session' = Added(dev) /\ UNCHANGED <<usbs, dev>>
       ELSE Destroy /\ dev' = 0
    /\ Goto("idle")
    /\ UNCHANGED devs /\ GtkStays

\* prop_edited(), prop_toggled(): whatever the dialog says.
GtkOption ==
    /\ At("gtk", "idle") /\ dev # 0
    /\ Takes("samplerate", 100) /\ Set("samplerate", 100)
    /\ pc' = pc
    /\ UNCHANGED <<usb, devs, session, dev, client, cmd>> /\ GtkStays

\* probe_trigger_set(), whose text is not checked and not NULL either, and
\* probe_toggled().
GtkProbe ==
    /\ At("gtk", "idle") /\ dev # 0
    /\ \/ \E text \in Texts : devs' = [devs EXCEPT ![dev].probes = WithTrigger(@, 1, <<text>>)]
       \/ devs' = [devs EXCEPT ![dev].probes[1].enabled = ~@]
    /\ pc' = pc
    /\ UNCHANGED <<usbs, session, dev, client, cmd>> /\ GtkStays

\* capture_run(): with no device selected it reads through NULL.  Some of its
\* failures destroy the session, and leave the device selected.
GtkCaptureCrashes ==
    /\ At("gtk", "idle") /\ dev = 0
    /\ Goto("crashed")
    /\ UNCHANGED <<usbs, opening, now, lists, dev, limit, loaded>>
GtkLimit ==
    /\ At("gtk", "idle") /\ dev # 0
    /\ \E unit \in {"samples", "msec"} :
           LET cap == IF HasHwCap(Driver, unit) THEN unit ELSE "samples"
               ok == Takes(cap, 10) /\ (unit # cap => HasHwCap(Driver, "samplerate"))
           IN  \/ /\ ok
                  /\ Set(cap, 10) /\ UNCHANGED <<usb, session>>
                  /\ Goto("capture")
               \/ /\ ~ok
                  /\ IF cap = "msec" THEN Destroy ELSE UNCHANGED <<usbs, session>>
                  /\ Goto("idle")
    /\ UNCHANGED <<devs, dev>> /\ GtkStays
GtkCapture ==
    /\ At("gtk", "capture")
    /\ \/ Takes("probes", Probes) /\ Set("probes", Probes) /\ Goto("idle") /\ UNCHANGED <<usb, session>>
       \/ Spills("probes", Probes) /\ Set("probes", Probes) /\ Goto("refused") /\ UNCHANGED <<usb, session>>
       \/ ~Reaches(Driver, Index, "probes") /\ Destroy /\ Goto("idle")
    /\ UNCHANGED <<devs, dev>> /\ GtkStays
GtkRefused ==
    /\ At("gtk", "refused")
    /\ Destroy
    /\ Goto("idle")
    /\ UNCHANGED <<devs, dev>> /\ GtkStays

\* load_input_file(): sr_session_load() and sr_session_new() each make a new
\* session over the old one, whose device stays open; then the device is
\* selected again.
GtkLoad ==
    /\ At("gtk", "idle") /\ devs # <<>>
    /\ \E n \in IF dev # 0 THEN {dev} ELSE DOMAIN devs :
           /\ session' = EmptySession
           /\ opening' = DevOpen(devs[n].driver, devs[n].index)
           /\ dev' = n
    /\ loaded' = (loaded \/ session.devs # <<>>)
    /\ Goto("selected")
    /\ UNCHANGED <<usbs, now, drivers, devs, limit>>

\* The end of main(): the session is destroyed, the drivers are not cleaned up.
GtkQuit ==
    /\ At("gtk", "idle")
    /\ Destroy
    /\ Goto("done")
    /\ UNCHANGED <<devs, dev>> /\ GtkStays

Gtk == \/ GtkStart \/ GtkDefault \/ GtkSelect \/ GtkSelected \/ GtkOption \/ GtkProbe
       \/ GtkLimit \/ GtkCapture \/ GtkRefused \/ GtkCaptureCrashes \/ GtkLoad \/ GtkQuit

------------------------------------------------------------------------------
\* sigrok-qt: each scan asks all drivers again; a capture takes the first device.
QtScan ==
    /\ At("qt", "start") /\ now <= ScanTime
    /\ \A d \in Range(drivers) : Len(insts[d]) + Len(usb) <= MaxInsts
    /\ Scan(drivers)
    /\ Goto("start")
    /\ UNCHANGED <<opening, now, drivers, session, dev, limit, loaded>>

\* on_action_Get_samples_triggered(): the limit is set before the device is
\* opened, the samplerate and the probes afterwards.
QtGet ==
    /\ At("qt", "start") /\ devs # <<>>
    /\ dev' = 1
    /\ IF ConfigSets(devs[1].driver, devs[1].index, "samples", 10)
       THEN /\ session' = EmptySession
            /\ insts' = WithConfig(insts, devs[1].driver, devs[1].index, "samples", 10)
            /\ opening' = DevOpen(devs[1].driver, devs[1].index)
            /\ Goto("opened")
       ELSE Goto("start") /\ UNCHANGED <<session, insts, opening>>
    /\ UNCHANGED <<usb, lost, now, drivers, devs, limit, loaded>>

QtStays == UNCHANGED <<lost, opening, now, drivers, devs, dev, limit, loaded>>
QtOpened ==
    /\ At("qt", "opened")
    /\ IF opening.ret = "ok"
       THEN session' = Added(dev) /\ Goto("configure") /\ UNCHANGED usbs
       ELSE Destroy /\ Goto("start")
    /\ QtStays
QtConfigure ==
    /\ At("qt", "configure")
    /\ Takes("samplerate", 200) /\ Takes("probes", Probes)
    /\ insts' = WithConfig(WithConfig(insts, Driver, Index, "samplerate", 200),
                           Driver, Index, "probes", Probes)
    /\ Goto("capturing") /\ UNCHANGED <<usb, session>> /\ QtStays
\* A failed start, and the end of a capture: sr_session_stop() and _destroy().
QtCaptured == At("qt", "capturing") /\ Destroy /\ Goto("start") /\ QtStays

\* ~MainWindow() calls sr_exit().
QtQuit ==
    /\ At("qt", "start")
    /\ Goto("exit")
    /\ UNCHANGED <<usbs, session>> /\ QtStays

Qt == QtScan \/ QtGet \/ QtOpened \/ QtConfigure \/ QtCaptured \/ QtQuit

------------------------------------------------------------------------------
\* The open runs, time passes, and the devices leave the bus and return,
\* whatever the frontend does.
Environment ==
    /\ \/ Tick /\ (pc # "done")
       \/ Attempt \/ GiveUp \/ Claim
       \/ \E p \in Devices : Leave(p) \/ Return(p)
    /\ UNCHANGED <<lists, front>>

Over == pc \in {"done", "crashed"} /\ UNCHANGED vars

Next == Cli \/ Gtk \/ Qt \/ Exit \/ Environment \/ Over

\* The frontend, the driver and the clock go on; the USB devices need not.
Fairness == /\ WF_vars((Attempt \/ GiveUp \/ Claim) /\ UNCHANGED <<lists, front>>)
            /\ WF_vars(opening.wait > 0 /\ Tick /\ UNCHANGED <<lists, front>>)
            /\ WF_vars(Cli \/ Exit)
            /\ WF_vars(GtkSelected \/ GtkRefused \/ QtOpened)
Spec == Init /\ [][Next]_vars /\ Fairness
------------------------------------------------------------------------------
TypeOK ==
    /\ \A p \in Devices :
           usb[p] \in [model: DOMAIN DriverOf, place: {"bare", "leaving", "gone", "loaded"},
                       kind: Kinds,
                       addr: {p, p + Len(usb)}, since: 0..MaxTime, user: 0..MaxInsts]
    /\ lost \subseteq {"upload", "unfit", "open"}
    /\ \A d \in Range(drivers) : \A k \in DOMAIN insts[d] :
           /\ insts[d][k].status \in {"initializing", "inactive", "active"}
           /\ insts[d][k].found \in Devices \cup {0}
           /\ insts[d][k].handle.dev \in Devices \cup {0}
    /\ opening.stage \in {"idle", "once", "first", "again", "claim"}
    /\ opening.ret \in {"none", "ok", "error"}
    /\ opening.wait \in 0..ResetDelay
    /\ dev \in 0..Len(devs)
    /\ session.exists \/ session.devs = <<>>

InSession(d, k) ==
    \E n \in DOMAIN session.devs : LET e == devs[session.devs[n]] IN
        e.driver = d /\ InstOf(d, e.index) = k

\* An instance is active only while its device is open in the session: the
\* driver opens no active instance again.  Two things leave one active for
\* good: a claim refused by another program, and a file loaded into sigrok-gtk,
\* which forgets the session without closing its device.
ActiveInSession ==
    \A d \in Fx \cap Range(drivers) : \A k \in DOMAIN insts[d] :
        insts[d][k].status = "active" /\ opening.stage # "claim" =>
            \/ InSession(d, k)
            \/ opening.ret = "ok" /\ opening.inst = k /\ pc \in {"added", "selected", "opened"}
            \/ insts[d][k].handle # NoHandle /\ usb[insts[d][k].handle.dev].user # k
            \/ loaded

\* The handle of an open device is closed before the instance takes another:
\* only handles of failed uploads and of devices that did not fit are lost.
HandlesHeld == "open" \notin lost

\* A device whose firmware the scan saw is opened by its address, however the
\* devices around it come and go.  (One that got it then, or that fx2lafw could
\* not open to look, is opened by its place in the list: with several devices
\* another may be opened for it.)
OpensWhatWasFound ==
    \A d \in Fx \cap Range(drivers) : \A k \in DOMAIN insts[d] : LET i == insts[d][k] IN
        i.status = "active" /\ SeesFirmware(i.found) /\ usb[i.found].since = Never =>
            i.handle.dev = i.found

\* After an upload, a usable sole device that is back in time is opened: an open
\* fails only if the device was active already, or did not come back before the
\* last look, or was looked at before it left the bus, whose address then stuck.
SoleDeviceOpens ==
    opening.ret = "error" /\ opening.drv \in Fx /\ opening.inst # 0
      /\ Len(usb) = 1 /\ usb[1].kind = "fine" /\ insts[opening.drv] # <<>> =>
        LET i == Opened IN
        \/ i.status = "active"
        \/ i.updated = Never
        \/ usb[1].place # "loaded"
        \/ usb[1].since >= opening.looked
        \/ i.addr # NoAddress /\ i.addr # usb[1].addr

\* The instances agree with the session, and with their handles.
HeldInSession == ActiveInSession /\ HandlesHeld

\* A device that was found can be opened, and it is the one that is opened.
OpensTheDevice == OpensWhatWasFound /\ SoleDeviceOpens

\* What a command line asks of the probe n: that it is enabled, its name, and
\* the trigger given for it by number or by name, the last if there are several.
AskedFor(c, n) == c.select = "all" \/ n \in DOMAIN c.probes
AskedName(c, n) == IF n \in DOMAIN c.probes THEN c.probes[n] ELSE ToString(n)
Asks(c, n) ==
    {j \in DOMAIN c.triggers : LET t == c.triggers[j] IN
        t[3] # NoTrigger /\ (IF t[1] = "" THEN t[2] = n ELSE t[1] = AskedName(c, n))}
AskedTrigger(c, n) ==
    IF ~AskedFor(c, n) \/ Asks(c, n) = {} THEN NoTrigger ELSE c.triggers[Max(Asks(c, n))][3]

\* The registers of fx2lafw and the channels of hantek-dso are the command
\* line's: a probe is looked at in a stage when there is a letter for it, has to
\* be high for a "1", the trigger is waited for when one was given at all, and
\* samples are as wide as the probes asked for.
TriggersAsAsked(r, c, P) ==
    /\ \A s \in 1..MaxStages, n \in P : LET letters == Letters(AskedTrigger(c, n)) IN
           /\ n \in r.mask[s] <=> s <= Len(letters)
           /\ n \in r.value[s] <=> s <= Len(letters) /\ letters[s] = "1"
    /\ r.stage = IF \E n \in P : AskedTrigger(c, n) # NoTrigger THEN First ELSE Fired
    /\ r.wide <=> \E n \in P : n > ByteProbes /\ AskedFor(c, n)
ProbesAsAsked(drv, r, c, P) ==
    CASE drv = "fx2lafw" -> TriggersAsAsked(r, c, P)
      [] drv = "hantek" -> r.channels = {n \in P \cap {1, 2} : AskedFor(c, n)}
      [] drv = "demo" -> TRUE

\* When sigrok-cli's capture starts, the device has what the command line asked
\* for, although it went there in steps: the probes and triggers, and a limit
\* that is the one the output is cut to.
StartsAsAsked ==
    client = "cli" /\ pc = "running" =>
        LET i == insts[Driver][InstOf(Driver, Index)] IN
        /\ ProbesAsAsked(Driver, i.regs, cmd, DOMAIN Probes)
        /\ cmd.samplerate # 0 => i.samplerate = cmd.samplerate
        /\ i.samples = limit
        /\ cmd.samples # <<>> => limit = Size(cmd.samples)
        /\ cmd.time # <<>> /\ cmd.samples = <<>> =>
              \/ i.msec = Time(cmd.time)
              \/ i.samples * 1000 \in (i.samplerate * Time(cmd.time) - 999)..(i.samplerate * Time(cmd.time))

\* A trigger that names a probe names only one, and no probe has a name that the
\* trigger only begins with (sr_parse_triggerstring() compares no further).
Unambiguous(c) ==
    \A model \in DOMAIN DriverOf : \A t \in Range(c.triggers) :
        \A n, m \in 1..ProbeCount[model] :
            t[1] # "" /\ IsPrefix(AskedName(c, n), t[1]) =>
                AskedName(c, n) = t[1] /\ (AskedName(c, m) = t[1] => m = n)

OpenReturns == opening.stage # "idle" ~> opening.stage = "idle"
CliEnds == client = "cli" ~> pc = "done"
\* An open returns, and sigrok-cli comes to its end.
EverythingReturns == OpenReturns /\ CliEnds
==============================================================================
