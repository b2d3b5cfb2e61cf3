------------------------------- MODULE Registry -------------------------------
\* The list of devices that libsigrok keeps over the drivers (hwdriver.c,
\* device.c), the device list of the session (session.c), and the settings of
\* a command line that go through them (strutil.c, sigrok-cli's parsers.c).
EXTENDS Instances

VARIABLES drivers,  \* the drivers built in, in the order of drivers_list[]
          devs,     \* the global list of devices
          session   \* whether there is a session, and its devices

\* sr_dev_probe_add(): a probe is enabled and has no trigger.
Probe(name) == [enabled |-> TRUE, name |-> name, trigger |-> NoTrigger]

\* sr_dev_new() and sr_dev_probe_add() for one device of sr_driver_init(): the
\* probes are those of the instance that answers to the index.
NewDev(drv, index, found) ==
    LET k == InstOf(drv, index)
        i == IF k # 0 THEN insts[drv][k] ELSE found
        model == IF drv = "demo" THEN "demo" ELSE usb[i.found].model
    IN  [driver |-> drv, index |-> index,
         probes |-> [n \in 1..ProbeCount[model] |-> Probe(ToString(n))]]

\* sr_driver_init() of the drivers in drvs, one after the other: the new
\* instances and the devices made for them.
NewInsts(drv, list, upload) == IF drv = "demo" THEN <<DemoInst>> ELSE Found(list, upload)
NewDevs(drv, new) == [n \in DOMAIN new |-> NewDev(drv, n - 1, new[n])]
DriverInit(drvs, lists, upload) ==
    /\ insts' = [d \in DOMAIN insts |->
                    IF d \in Range(drvs) THEN insts[d] \o NewInsts(d, lists[d], upload) ELSE insts[d]]
    /\ devs' = devs \o FlattenSeq([n \in DOMAIN drvs |->
                    NewDevs(drvs[n], NewInsts(drvs[n], lists[drvs[n]], upload))])
    /\ usb' = Programmed(drvs, upload)
    /\ lost' = lost \cup LeftOpen(drvs, upload)

\* sr_dev_scan() and sr_dev_list(), which scans when the list is empty.  Each
\* driver asks libusb for a list, and takes from it the devices it serves.
Served(drv) == {p \in Devices : OnBus(p) /\ Serves(drv, p)}
Scan(drvs) ==
    \E lists \in [Range(drvs) -> UNION {Listings(Served(d)) : d \in Range(drvs)}],
      upload \in Uploads :
        /\ \A d \in Range(drvs) : lists[d] \in Listings(Served(d))
        /\ DriverInit(drvs, lists, upload)
DevList(drvs) == IF devs = <<>> THEN Scan(drvs) ELSE UNCHANGED <<usb, lost, insts, devs>>

\* sr_dev_has_hwcap() and num_real_devs(), on the list of devices ds.
RealDevs(ds) == {n \in DOMAIN ds : ~HasHwCap(ds[n].driver, "demo")}

\* sr_dev_probe_find() is the index; sr_dev_probe_name_set(), and the flag.
Disable(probes, off) ==
    [n \in DOMAIN probes |-> IF n \in off THEN [probes[n] EXCEPT !.enabled = FALSE] ELSE probes[n]]
Named(probes, names) ==
    [n \in DOMAIN probes |-> IF n \in DOMAIN names THEN [probes[n] EXCEPT !.name = names[n]] ELSE probes[n]]

\* select_probes(): the probes of the list (what parse_probestring() returns) get
\* its names, the others go off.
SelectProbes(probes, names) == Disable(Named(probes, names), DOMAIN probes \ DOMAIN names)

\* sr_dev_trigger_set()
WithTrigger(probes, n, t) == [probes EXCEPT ![n].trigger = t]

\* sr_parse_triggerstring(): a token <<name, number, trigger>> begins with a
\* digit, or names the first enabled probe whose name it begins with, and has
\* NoTrigger without a '='; the types asked for are those of the driver's device
\* 0.  There is a token for each probe at most: those beyond are part of the
\* last, whose trigger then has a comma in it.  Later tokens win.
ProbeNumber(probes, token) ==
    LET hits == {n \in DOMAIN probes : probes[n].enabled /\ IsPrefix(probes[n].name, token[1])}
    IN  IF token[1] = "" THEN token[2] ELSE IF hits = {} THEN 0 ELSE Min(hits)
TokenOk(drv, probes, token) ==
    /\ ProbeNumber(probes, token) \in DOMAIN probes
    /\ Range(Letters(token[3])) \subseteq TriggerTypes(drv)
TriggersOk(drv, probes, tokens) ==
    /\ TriggerTypes(drv) # {}
    /\ InstOf(drv, 0) # 0
    /\ Len(tokens) <= Len(probes)
    /\ \A n \in DOMAIN tokens : TokenOk(drv, probes, tokens[n])
SetTriggers(probes, tokens) ==
    [n \in DOMAIN probes |->
        LET mine == {j \in DOMAIN tokens : /\ ProbeNumber(probes, tokens[j]) = n
                                            /\ tokens[j][3] # NoTrigger}
        IN  IF mine = {} THEN probes[n] ELSE [probes[n] EXCEPT !.trigger = tokens[Max(mine)][3]]]

\* sr_parse_sizestring(), sr_parse_timestring(): <<number, suffix>>; a size may
\* end in Hz, a time in s or ms.
Multiplier == [suffix \in {"", "k", "kHz", "Hz"} |-> IF suffix \in {"k", "kHz"} THEN 1000 ELSE 1]
SizeOk(size) == size[2] \in DOMAIN Multiplier
Size(size) == size[1] * Multiplier[size[2]]
Time(time) == CASE time[2] \in {"", "ms"} -> time[1]
                [] time[2] = "s" -> time[1] * 1000
                [] OTHER -> 0

------------------------------------------------------------------------------
NoSession == [exists |-> FALSE, devs |-> <<>>]
EmptySession == [exists |-> TRUE, devs |-> <<>>]

\* sr_session_dev_add(): without a session an error, else the open of the
\* device, and, once it has returned, the device in the list.
DevAdd(n) == IF session.exists THEN DevOpen(devs[n].driver, devs[n].index)
             ELSE [Idle EXCEPT !.ret = "error"]
Added(n) == [session EXCEPT !.devs = Append(@, n)]

\* sr_session_dev_remove_all(): every device of the session is closed;
\* the frontends never add a second one.
RemoveAll ==
    IF session.devs = <<>> THEN UNCHANGED <<usb, insts>>
    ELSE DevClose(devs[Head(session.devs)].driver, devs[Head(session.devs)].index)

\* sr_session_destroy()
\* Mutant: the list of devices is not emptied.
DestroyKeepsList == RemoveAll /\ session' = [session EXCEPT !.exists = FALSE]
Destroy == RemoveAll /\ session' = NoSession
==============================================================================
