------------------------------ MODULE Instances ------------------------------
\* The device instances kept by three drivers (fx2lafw, hantek-dso, demo) and
\* the USB devices behind the first two: Cypress FX2 chips that get their
\* firmware at the scan, leave the bus, and come back under another address.
\* Time is counted in ticks, of which the drivers sleep a number.
EXTENDS Integers, Sequences, FiniteSets, FiniteSetsExt, SequencesExt

CONSTANTS DriverOf,       \* the driver of a model of USB device
          ProbeCount,     \* number of probes of a model (and of "demo")
          ByteProbes,     \* number of probes in a sample of one byte (8)
          ResetDelay,     \* the first sleep of an open after an upload (300 ms)
          MaxRenumDelay,  \* how long after the upload an open goes on (3000 ms)
          MaxTime         \* where the clock of the model stands still

Fx == {"fx2lafw", "hantek"}
Kinds == {"fine", "unopenable", "wrong", "busy"}

ASSUME InstancesAssumption ==
    /\ {ResetDelay, MaxRenumDelay, MaxTime, ByteProbes} \subseteq Nat \ {0}
    /\ ResetDelay < MaxRenumDelay
    /\ DriverOf \in [DOMAIN DriverOf -> Fx]
    /\ \A model \in DOMAIN DriverOf \cup {"demo"} : ProbeCount[model] \in Nat

VARIABLES usb,      \* the USB devices 1, 2, ...: whether and how they are on the bus
          insts,    \* the lists dev_insts of the drivers
          lost,     \* ghost: handles that nothing can close any more, by reason
          opening,  \* the dev_open() that runs; ghost: when it last looked
          now       \* the clock


Devices == DOMAIN usb
NoAddress == 255
NoHandle == [dev |-> 0, addr |-> 0]
Never == 0

\* Where a device is: never programmed ("bare"), programmed and about to reset
\* ("leaving"), off the bus ("gone"), running the firmware ("loaded").  Kinds
\* of devices: usable, not to be opened, with a firmware or endpoints that do
\* not fit, claimed by another program.
Plugged(model, p, place, kind) ==
    [model |-> model, place |-> place, kind |-> kind, addr |-> p, since |-> Never, user |-> 0]
OnBus(p) == usb[p].place # "gone"
Serves(drv, p) == DriverOf[usb[p].model] = drv

Leave(p) ==
    /\ usb[p].place = "leaving"
    /\ usb' = [usb EXCEPT ![p].place = "gone"]
    /\ UNCHANGED <<lost, insts, opening, now>>

Return(p) ==
    /\ usb[p].place = "gone"
    /\ usb' = [usb EXCEPT ![p].place = "loaded", ![p].since = now,
                          ![p].addr = @ + Len(usb)]
    /\ UNCHANGED <<lost, insts, opening, now>>

\* libusb lists the devices in any order.
Listings(P) == SetToSeqs(P)

------------------------------------------------------------------------------
\* What configure_probes() sets.  For fx2lafw the trigger (for each stage the
\* probes to look at and those that have to be high; the bits of the stage waited
\* for, which is 0, or -1 for no trigger) and the width of a sample; for
\* hantek-dso the channels.
MaxStages == 4
First == {}
Fired == 1..32
NoBits == [s \in 1..MaxStages |-> {}]
NoProbes == [mask |-> NoBits, value |-> NoBits, stage |-> Fired, wide |-> FALSE,
             channels |-> {1, 2}]

\* sr_dev_inst_new() and the driver's context.
Instance(index, status, addr, p, updated) ==
    [index |-> index, status |-> status, addr |-> addr, handle |-> NoHandle,
     updated |-> updated, found |-> p, samplerate |-> 0, samples |-> 0,
     msec |-> 0, frames |-> 0, regs |-> NoProbes]

\* sr_dev_inst_get(): the first instance with the index, 0 without one.
InstOf(drv, index) ==
    LET hits == {k \in DOMAIN insts[drv] : insts[drv][k].index = index}
    IN  IF hits = {} THEN 0 ELSE Min(hits)

HasFirmware(p) == usb[p].place = "loaded"

\* What hw_init() sees of the firmware: hantek-dso the ids of the device, fx2lafw
\* its strings, for which check_conf_profile() has to open it.
SeesFirmware(p) ==
    /\ HasFirmware(p)
    /\ DriverOf[usb[p].model] = "fx2lafw" => usb[p].kind # "unopenable"

\* ezusb_upload_firmware(): on every failure after libusb_open() the handle
\* stays open.
Upload(p) == IF usb[p].kind = "unopenable" THEN {"unopened"} ELSE {"ok", "failed"}

\* hw_init() of fx2lafw and hantek-dso: one instance for each device, in the
\* order of the list, with indices from 0 whatever instances there are already.
Found(list, upload) ==
    [k \in DOMAIN list |->
        LET p == list[k] IN
        IF SeesFirmware(p)
        THEN Instance(k - 1, "inactive", usb[p].addr, p, Never)
        ELSE Instance(k - 1, "initializing", NoAddress, p,
                      IF upload[p] = "ok" THEN now ELSE Never)]
Bare(drvs) == {p \in Devices : DriverOf[usb[p].model] \in Range(drvs)
                                /\ OnBus(p) /\ ~SeesFirmware(p)}
Programmed(drvs, upload) ==
    [p \in Devices |-> IF p \in Bare(drvs) /\ upload[p] = "ok"
                       THEN [usb[p] EXCEPT !.place = "leaving"] ELSE usb[p]]
LeftOpen(drvs, upload) == {"upload" : p \in {q \in Bare(drvs) : upload[q] = "failed"}}
Uploads == {u \in [Devices -> {"ok", "unopened", "failed"}] : \A p \in Devices : u[p] \in Upload(p)}

\* hw_init() of demo: one more instance with index 0 each time.
DemoInst == [Instance(0, "active", NoAddress, 0, Never) EXCEPT !.samplerate = 200]

------------------------------------------------------------------------------
Idle == [stage |-> "idle", drv |-> "demo", inst |-> 0, wait |-> 0, ret |-> "none",
         looked |-> Never]
Returns(ret) == [opening EXCEPT !.stage = "idle", !.wait = 0, !.ret = ret]

\* dev_open(): the demo driver needs nothing; an instance that got its firmware
\* in this process is waited for, at every open.
DevOpen(drv, index) ==
    LET k == InstOf(drv, index)
        call == [Idle EXCEPT !.drv = drv, !.inst = k]
    IN  IF drv = "demo" THEN [call EXCEPT !.ret = "ok"]
        ELSE IF k = 0 THEN [call EXCEPT !.ret = "error"]
        ELSE IF insts[drv][k].updated > Never
             THEN [call EXCEPT !.stage = "first", !.wait = ResetDelay]
             ELSE [call EXCEPT !.stage = "once"]

Opened == insts[opening.drv][opening.inst]

\* The devices with the ids the driver looks for: fx2lafw devices keep theirs,
\* those of Hantek change with the firmware.
Matches(p) ==
    /\ OnBus(p)
    /\ usb[p].model = usb[Opened.found].model
    /\ opening.drv = "hantek" => HasFirmware(p)

\* Which device of the list is opened: an instance without an address takes the
\* one as far down the list as its own index among all devices of the driver,
\* one with an address that with the address.
AtPlace(list, k) == IF k \in DOMAIN list THEN list[k] ELSE 0
AtAddress(list, addr) ==
    LET hits == {k \in DOMAIN list : usb[list[k]].addr = addr} IN
    IF hits = {} THEN 0 ELSE list[Min(hits)]
\* Mutant: the place looked at whatever the instance knows.
WantedByPlace(list) ==
    IF Opened.status = "active" THEN 0 ELSE AtPlace(list, Opened.index + 1)
Wanted(list) ==
    CASE Opened.status = "active" -> 0
      [] Opened.status = "initializing" -> AtPlace(list, Opened.index + 1)
      [] Opened.status = "inactive" -> AtAddress(list, Opened.addr)

\* The firmware answers with a version that fits, or the endpoints do.
Answers(p) == HasFirmware(p) /\ usb[p].kind # "wrong"

\* fx2lafw_dev_open() and dso_open(): a handle opened for a device that does
\* not fit is not closed again; the address is noted only once.
OpenDevice(p) ==
    [Opened EXCEPT !.handle = [dev |-> p, addr |-> usb[p].addr],
                   !.addr = IF @ = NoAddress THEN usb[p].addr ELSE @,
                   !.status = IF Answers(p) THEN "active" ELSE @]

Overwritten == IF Opened.handle = NoHandle THEN {}
               ELSE IF Opened.status = "active" THEN {"open"} ELSE {"unfit"}

\* After a failed attempt: give up at once, or look again in a tick.
Retry == IF opening.stage = "once" THEN Returns("error")
         ELSE [opening EXCEPT !.stage = "again", !.wait = 1, !.looked = now]

\* Mutant: the time never runs out.
InTimeForever == TRUE
InTime == now - Opened.updated < MaxRenumDelay

Attempt ==
    /\ opening.stage \in {"once", "first", "again"}
    /\ opening.wait = 0
    /\ opening.stage = "again" => InTime
    /\ \E list \in Listings({p \in Devices : Matches(p)}) :
           LET p == Wanted(list) IN
           IF p = 0 \/ (p # 0 /\ usb[p].kind = "unopenable")
           THEN opening' = Retry /\ UNCHANGED <<lost, insts>>
           ELSE /\ lost' = lost \cup Overwritten
                /\ insts' = [insts EXCEPT ![opening.drv][opening.inst] = OpenDevice(p)]
                /\ opening' = IF Answers(p) THEN [opening EXCEPT !.stage = "claim"] ELSE Retry
    /\ UNCHANGED <<usb, now>>

GiveUp ==
    /\ opening.stage = "again"
    /\ opening.wait = 0
    /\ ~InTime
    /\ opening' = Returns("error")
    /\ UNCHANGED <<usb, lost, insts, now>>

\* libusb_claim_interface(), and fx2lafw's slowest samplerate for an instance
\* that has none.  A refused claim leaves the instance active.
Claim ==
    LET p == Opened.handle.dev IN
    /\ opening.stage = "claim"
    /\ IF usb[p].kind = "busy" \/ usb[p].user # 0
       THEN opening' = Returns("error") /\ UNCHANGED <<usb, insts>>
       ELSE /\ usb' = [usb EXCEPT ![p].user = opening.inst]
            /\ insts' = IF opening.drv = "fx2lafw" /\ Opened.samplerate = 0
                        THEN [insts EXCEPT !["fx2lafw"][opening.inst].samplerate = 20]
                        ELSE insts
            /\ opening' = Returns("ok")
    /\ UNCHANGED <<lost, now>>

\* Sleeps may be longer than asked for.  Nothing looks at the clock before an
\* upload.
Tick ==
    /\ now < MaxTime \/ opening.wait > 0
    /\ \E d \in DOMAIN insts : \E k \in DOMAIN insts[d] : insts[d][k].updated # Never
    /\ now' = Min({now + 1, MaxTime})
    /\ opening' = [opening EXCEPT !.wait = Max({0, @ - 1})]
    /\ UNCHANGED <<usb, lost, insts>>

------------------------------------------------------------------------------
\* close_dev() and dso_close(), for an instance with a handle.
\* Mutant: the status stays.
ClosedInstActive(i) == [i EXCEPT !.handle = NoHandle]
ClosedInst(i) == IF i.handle = NoHandle THEN i
                 ELSE [i EXCEPT !.handle = NoHandle, !.status = "inactive"]
Released(drv, K) ==
    [p \in Devices |-> IF \E k \in K : /\ usb[p].user = k
                                       /\ insts[drv][k].handle.dev = p
                       THEN [usb[p] EXCEPT !.user = 0] ELSE usb[p]]
CloseAll(drv, K) ==
    /\ insts' = [insts EXCEPT ![drv] =
                    [k \in DOMAIN @ |-> IF k \in K THEN ClosedInst(@[k]) ELSE @[k]]]
    /\ usb' = Released(drv, K)

\* dev_close() and cleanup(); demo does nothing in either.
DevClose(drv, index) ==
    IF drv = "demo" THEN UNCHANGED <<usb, insts>>
    ELSE CloseAll(drv, {InstOf(drv, index)} \ {0})

Cleanup(drvs) ==
    /\ insts' = [d \in DOMAIN insts |-> IF d \in drvs \cap Fx THEN <<>> ELSE insts[d]]
    /\ usb' = [p \in Devices |-> [usb[p] EXCEPT !.user = 0]]

------------------------------------------------------------------------------
\* hw_dev_config_set(): the capabilities a driver takes, and from hantek-dso
\* only for a device that is open.  The two limits of demo exclude each other.
Settable(drv) ==
    CASE drv = "fx2lafw" -> {"samplerate", "probes", "samples"}
      [] drv = "hantek" -> {"frames", "probes", "timebase"}
      [] drv = "demo" -> {"samplerate", "probes", "samples", "msec", "pattern"}

\* sr_dev_probe_add(): a probe has no trigger (NULL); one that was set is
\* <<letters>>, be there letters or not.
NoTrigger == <<>>
Letters(trigger) == IF trigger = NoTrigger THEN <<>> ELSE trigger[1]

\* configure_probes() of fx2lafw goes over the enabled probes, and ends at one
\* with more letters than there are stages.
Enabled(probes) == {n \in DOMAIN probes : probes[n].enabled}
TooLong(probes) == {n \in Enabled(probes) : Len(Letters(probes[n].trigger)) > MaxStages}
Reached(probes) == {n \in Enabled(probes) : \A m \in TooLong(probes) : n <= m}
MaskOf(probes) ==
    [s \in 1..MaxStages |-> {n \in Reached(probes) : s <= Len(Letters(probes[n].trigger))}]

\* Mutant: the other letter asks for a high probe.
HighOfZeros(probes) ==
    [s \in 1..MaxStages |-> {n \in MaskOf(probes)[s] : Letters(probes[n].trigger)[s] = "0"}]
HighOf(probes) ==
    [s \in 1..MaxStages |-> {n \in MaskOf(probes)[s] : Letters(probes[n].trigger)[s] = "1"}]
StageOf(probes) ==
    IF \E n \in Enabled(probes) : probes[n].trigger # NoTrigger THEN First ELSE Fired
Wide(probes) == \E n \in Reached(probes) : n > ByteProbes
FxProbes(r, probes) ==
    [r EXCEPT !.mask = MaskOf(probes), !.value = HighOf(probes), !.stage = StageOf(probes),
              !.wide = @ \/ Wide(probes)]

\* The letter too many is written before it is counted, behind the arrays: where
\* the mask goes on there is trigger_value, and behind that trigger_stage.
Spilt(r, probes) ==
    LET n == Min(TooLong(probes))
        high == IF Letters(probes[n].trigger)[MaxStages + 1] = "1" THEN {n} ELSE {}
    IN  [FxProbes(r, probes) EXCEPT !.value[1] = @ \cup {n}, !.stage = r.stage \cup high]

\* How far a setting gets, and whether it is taken.
Reaches(drv, index, cap) ==
    LET k == InstOf(drv, index) IN
    /\ k # 0
    /\ cap \in Settable(drv)
    /\ drv = "hantek" => insts[drv][k].status = "active"
Overlong(drv, cap, value) == drv = "fx2lafw" /\ cap = "probes" /\ TooLong(value) # {}
ConfigSets(drv, index, cap, value) == Reaches(drv, index, cap) /\ ~Overlong(drv, cap, value)

\* configure_probes() of hantek-dso knows two probes; demo ignores them.
Probed(drv, r, probes) ==
    CASE drv = "fx2lafw" -> IF TooLong(probes) # {} THEN Spilt(r, probes) ELSE FxProbes(r, probes)
      [] drv = "hantek" -> [r EXCEPT !.channels = Enabled(probes) \cap {1, 2}]
      [] drv = "demo" -> r
Configured(drv, i, cap, value) ==
    CASE cap = "probes" -> [i EXCEPT !.regs = Probed(drv, @, value)]
      [] cap = "samples" -> [i EXCEPT !.samples = value, !.msec = IF drv = "demo" THEN 0 ELSE @]
      [] cap = "msec" -> [i EXCEPT !.msec = value, !.samples = 0]
      [] cap = "samplerate" -> [i EXCEPT !.samplerate = value]
      [] cap = "frames" -> [i EXCEPT !.frames = value]
      [] OTHER -> i
WithConfig(ins, drv, index, cap, value) ==
    LET k == InstOf(drv, index) IN
    [ins EXCEPT ![drv][k] = Configured(drv, @, cap, value)]

\* dev_info_get(SR_DI_TRIGGER_TYPES), and hwcap_get_all(): what the drivers claim.
TriggerTypes(drv) == IF drv = "fx2lafw" THEN {"0", "1"} ELSE {}
HwCaps(drv) ==
    CASE drv = "fx2lafw" -> {"samplerate", "samples", "continuous"}
      [] drv = "hantek" -> {"samples", "continuous", "timebase"}
      [] drv = "demo" -> {"demo", "samplerate", "samples", "msec", "continuous", "pattern"}
HasHwCap(drv, cap) == cap \in HwCaps(drv)
==============================================================================
