--------------------------- MODULE FrontendsProofs ---------------------------
(***************************************************************************)
(* Proofs about the device instances and the frontends of Frontends.tla,   *)
(* for every set of devices on the bus, every list of drivers and every    *)
(* command line: an instance is active only while its device is open in    *)
(* the session, the device that is opened is the one that was found, and   *)
(* a capture of sigrok-cli starts as it was asked for.                     *)
(***************************************************************************)
EXTENDS Frontends, FiniteSetTheorems, WellFoundedInduction, TLAPS

-----------------------------------------------------------------------------
(* What the variables hold *)

Names == STRING \cup {ToString(n) : n \in Nat}
ProbeRecs == [enabled : BOOLEAN, name : Names, trigger : Triggers]
Drivers == {"demo"} \cup Fx
DevRecs == [driver : Drivers, index : Nat, probes : Seq(ProbeRecs)]
Places == {"bare", "leaving", "gone", "loaded"}
Statuses == {"initializing", "inactive", "active"}
Handles == [dev : Nat, addr : Nat]
Bits == [1 .. MaxStages -> SUBSET Nat]
RegRecs == [mask : Bits, value : Bits, stage : SUBSET Nat, wide : BOOLEAN,
            channels : SUBSET Nat]
UsbRecs == [model : DOMAIN DriverOf, place : Places, kind : Kinds,
            addr : Nat, since : Nat, user : Nat]
InstRecs == [index : Nat, status : Statuses, addr : Nat, handle : Handles,
             updated : Nat, found : Nat, samplerate : Nat, samples : Nat,
             msec : Nat, frames : Nat, regs : RegRecs]
Openings == [stage : {"idle", "once", "first", "again", "claim"}, drv : Drivers,
             inst : Nat, wait : 0 .. ResetDelay, ret : {"none", "ok", "error"},
             looked : Nat]

\* A device on the bus u at the time t: it has the address of its place, or
\* another since it came back with the firmware.
Sane(u, t, p) ==
    /\ u[p].addr = IF u[p].since = Never THEN p ELSE p + Len(u)
    /\ u[p].since # Never => u[p].place = "loaded"
    /\ u[p].since <= t
    /\ u[p].user <= MaxInsts
Bus(u, t) ==
    /\ u \in Seq(UsbRecs) /\ Len(u) <= MaxInsts /\ 2 * Len(u) < NoAddress
    /\ t \in 1 .. MaxTime
    /\ \A p \in 1 .. Len(u) : Sane(u, t, p)

\* What an instance knows of the device it was made for, when the scan saw its
\* firmware.
Shows(u, p) ==
    u[p].place = "loaded" /\ (DriverOf[u[p].model] = "fx2lafw" => u[p].kind # "unopenable")
FoundSane(u, i) ==
    Shows(u, i.found) /\ u[i.found].since = Never =>
        /\ i.addr = i.found /\ i.status # "initializing"
        /\ i.status = "active" => i.handle.dev = i.found

\* An instance of the driver d, and what one of fx2lafw and hantek-dso knows.
OfFx(u, d, i) ==
    /\ i.found # 0 /\ DriverOf[u[i.found].model] = d
    /\ i.handle.dev # 0 => DriverOf[u[i.handle.dev].model] = d /\ i.addr # NoAddress
    /\ i.status = "active" => i.handle.dev # 0
    /\ i.status # "initializing" => i.addr # NoAddress
    /\ Len(u) = 1 => i.index = 0
    /\ FoundSane(u, i)
Sound(u, t, d, i) ==
    /\ i.updated <= t
    /\ i.found \in 0 .. Len(u) /\ i.handle.dev \in 0 .. Len(u)
    /\ i.handle.dev = 0 => i.handle = NoHandle
    /\ d \in Fx => OfFx(u, d, i)

\* The lists of instances of the drivers D, and the devices behind them.
Typed(D, ins) == ins \in [D -> Seq(InstRecs)]
World(u, t, D, ins) ==
    /\ Bus(u, t)
    /\ Typed(D, ins)
    /\ \A d \in D : \A k \in 1 .. Len(ins[d]) : Sound(u, t, d, ins[d][k])
    /\ \A d \in D : d \in Fx => Len(ins[d]) <= MaxInsts

\* The instance of a list that has an index.
IndexIn(s, index) ==
    LET hits == {k \in DOMAIN s : s[k].index = index}
    IN  IF hits = {} THEN 0 ELSE Min(hits)

-----------------------------------------------------------------------------
(* Numbers and sets *)

\* The constants.
LEMMA Constants ==
    /\ ResetDelay \in Nat \ {0} /\ MaxRenumDelay \in Nat \ {0}
    /\ MaxTime \in Nat \ {0} /\ ByteProbes \in Nat \ {0}
    /\ MaxInsts \in Nat /\ ScanTime \in Nat
    /\ DriverOf \in [DOMAIN DriverOf -> Fx]
    /\ \A model \in DOMAIN DriverOf \cup {"demo"} : ProbeCount[model] \in Nat
BY InstancesAssumption, FrontendsAssumption

\* Of some numbers one is the least.
LEMMA Least ==
    ASSUME NEW I \in SUBSET Nat, I # {}
    PROVE  Min(I) \in I /\ \A j \in I : Min(I) <= j
<1> DEFINE R == OpToRel(<, Nat)
<1>1. IsWellFoundedOn(R, Nat)
  BY NatLessThanWellFounded
<1> HIDE DEF R
<1>2. PICK x \in I : \A y \in I : ~ (<<y, x>> \in R)
  BY <1>1, WFMin
<1>3. \A y \in Nat : y < x => <<y, x>> \in R
  BY <1>2 DEF R, OpToRel
<1>4. \A y \in I : y \in Nat /\ ~(y < x)
  BY <1>2, <1>3
<1>5. x \in Nat
  OBVIOUS
<1>6. \A y \in I : x <= y
  BY ONLY <1>4, <1>5
<1> QED BY <1>6 DEF Min

\* Of some numbers up to n one is the greatest.
LEMMA Greatest ==
    ASSUME NEW n \in Nat, NEW I \in SUBSET (1 .. n), I # {}
    PROVE  Max(I) \in I
<1> DEFINE J == {j \in Nat : n - j \in I}
<1>1. \A i \in I : i \in 1 .. n
  OBVIOUS
<1>2. \A i \in I : n - i \in J
  <2> TAKE i \in I
  <2>1. n - i \in Nat /\ n - (n - i) = i
    BY <1>1
  <2> QED BY <2>1
<1>3. J \in SUBSET Nat /\ J # {}
  BY <1>2
<1> DEFINE m == Min(J)
<1>4. m \in J /\ \A j \in J : m <= j
  BY <1>3, Least
<1> HIDE DEF m
<1>5. n - m \in I
  BY <1>4
<1>6. m \in Nat /\ \A i \in I : m <= n - i
  BY <1>2, <1>4
<1> HIDE DEF J
<1>7. \A i \in I : n - m >= i
  BY ONLY <1>1, <1>6, n \in Nat
<1> QED BY <1>5, <1>7 DEF Max

\* The lesser of two numbers, and the greater.
LEMMA OfTwo ==
    ASSUME NEW a \in Int, NEW b \in Int
    PROVE  /\ Min({a, b}) = IF a <= b THEN a ELSE b
           /\ Max({a, b}) = IF a >= b THEN a ELSE b
<1>1. /\ Min({a, b}) = CHOOSE x \in {a, b} : \A y \in {a, b} : x <= y
      /\ Max({a, b}) = CHOOSE x \in {a, b} : \A y \in {a, b} : x >= y
  BY DEF Min, Max
<1>2. /\ \E x \in {a, b} : \A y \in {a, b} : x <= y
      /\ \E x \in {a, b} : \A y \in {a, b} : x >= y
  OBVIOUS
<1>3. /\ Min({a, b}) \in {a, b} /\ \A y \in {a, b} : Min({a, b}) <= y
      /\ Max({a, b}) \in {a, b} /\ \A y \in {a, b} : Max({a, b}) >= y
  BY <1>1, <1>2
<1> QED BY <1>3

\* A list of devices, in any order, has each of them once.
LEMMA ListingOf ==
    ASSUME NEW n \in Nat, NEW P \in SUBSET (1 .. n), NEW list \in Listings(P)
    PROVE  /\ list \in Seq(P) /\ Len(list) <= n
           /\ \A p \in P : \E k \in 1 .. Len(list) : list[k] = p
<1>1. IsFiniteSet(1 .. n) /\ Cardinality(1 .. n) = n
  BY FS_Interval
<1>2. IsFiniteSet(P) /\ Cardinality(P) <= n /\ Cardinality(P) \in Nat
  BY <1>1, FS_Subset, FS_CardinalityType
<1> DEFINE c == Cardinality(P)
<1>3. list \in [1 .. c -> P] /\ \A i, j \in 1 .. c : i # j => list[i] # list[j]
  BY DEF Listings, SetToSeqs
<1>4. list \in Seq(P) /\ Len(list) = c
  BY <1>2, <1>3
<1>5. \A p \in P : \E k \in 1 .. c : list[k] = p
  <2>1. list \in Injection(1 .. c, P)
    BY <1>3 DEF Injection, IsInjective
  <2>2. IsFiniteSet(1 .. c) /\ Cardinality(1 .. c) = c
    BY <1>2, FS_Interval
  <2>3. list \in Surjection(1 .. c, P)
    BY <1>2, <2>1, <2>2, FS_Injection
  <2> QED BY <2>3 DEF Surjection
<1> QED BY <1>2, <1>4, <1>5

\* The instance with an index is one of the list.
LEMMA IndexListed ==
    ASSUME NEW s \in Seq(InstRecs), NEW index
    PROVE  /\ IndexIn(s, index) \in 0 .. Len(s)
           /\ IndexIn(s, index) # 0 =>
                  /\ IndexIn(s, index) \in 1 .. Len(s)
                  /\ s[IndexIn(s, index)] \in InstRecs
                  /\ s[IndexIn(s, index)].index = index
<1> DEFINE hits == {k \in DOMAIN s : s[k].index = index}
<1>1. hits \in SUBSET Nat /\ hits \subseteq 1 .. Len(s)
  OBVIOUS
<1>2. IndexIn(s, index) = IF hits = {} THEN 0 ELSE Min(hits)
  BY DEF IndexIn
<1>3. hits # {} => Min(hits) \in hits
  BY <1>1, Least
<1>4. \A k \in hits : k \in 1 .. Len(s) /\ s[k].index = index
  BY <1>1
<1> HIDE DEF hits
<1>5. IndexIn(s, index) \in {0} \cup 1 .. Len(s)
  BY <1>1, <1>2, <1>3
<1>6. IndexIn(s, index) # 0 =>
          /\ IndexIn(s, index) \in 1 .. Len(s)
          /\ s[IndexIn(s, index)].index = index
  BY <1>2, <1>3, <1>4
<1>7. \A k \in 1 .. Len(s) : s[k] \in InstRecs
  OBVIOUS
<1> QED BY <1>5, <1>6, <1>7

\* It is sr_dev_inst_get().
LEMMA IndexIsInstOf ==
    ASSUME NEW drv, NEW index
    PROVE  /\ InstOf(drv, index) = IndexIn(insts[drv], index)
           /\ InstOf(drv, index)' = IndexIn(insts'[drv], index)
BY DEF InstOf, IndexIn

-----------------------------------------------------------------------------
(* Instances, and what changes them *)

\* What an instance is made of.
LEMMA InstFields ==
    ASSUME NEW i \in InstRecs
    PROVE  /\ i.index \in Nat /\ i.status \in Statuses /\ i.addr \in Nat
           /\ i.handle \in Handles /\ i.updated \in Nat /\ i.found \in Nat
           /\ i.samplerate \in Nat /\ i.samples \in Nat /\ i.msec \in Nat
           /\ i.frames \in Nat /\ i.regs \in RegRecs
           /\ i.handle.dev \in Nat /\ i.handle.addr \in Nat
BY DEF InstRecs, Handles

\* j is the instance i, found and programmed as it was; and open as it was.
KeptInst(i, j) == j.index = i.index /\ j.updated = i.updated /\ j.found = i.found
SameInst(i, j) ==
    KeptInst(i, j) /\ j.status = i.status /\ j.addr = i.addr /\ j.handle = i.handle

\* The same of all instances of the drivers D.
Kept(D, a, b) ==
    \A d \in D : /\ Len(b[d]) = Len(a[d])
                 /\ \A k \in 1 .. Len(a[d]) : KeptInst(a[d][k], b[d][k])
Same(D, a, b) ==
    \A d \in D : /\ Len(b[d]) = Len(a[d])
                 /\ \A k \in 1 .. Len(a[d]) : SameInst(a[d][k], b[d][k])

\* What goes for all instances when one of them changes.
LEMMA OneChanges ==
    ASSUME NEW D, NEW a \in [D -> Seq(InstRecs)], NEW drv \in D,
           NEW k \in 1 .. Len(a[drv]), NEW j \in InstRecs
    PROVE  LET b == [a EXCEPT ![drv][k] = j] IN
           /\ b \in [D -> Seq(InstRecs)]
           /\ \A d \in D : Len(b[d]) = Len(a[d])
           /\ b[drv][k] = j
           /\ \A d \in D : \A m \in 1 .. Len(a[d]) :
                  d # drv \/ m # k => b[d][m] = a[d][m]
<1> DEFINE b == [a EXCEPT ![drv][k] = j]
<1>1. a[drv] \in Seq(InstRecs)
  OBVIOUS
<1>2. /\ [a[drv] EXCEPT ![k] = j] \in Seq(InstRecs)
      /\ Len([a[drv] EXCEPT ![k] = j]) = Len(a[drv])
      /\ [a[drv] EXCEPT ![k] = j][k] = j
      /\ \A m \in 1 .. Len(a[drv]) : m # k => [a[drv] EXCEPT ![k] = j][m] = a[drv][m]
  BY <1>1
<1>3. b = [a EXCEPT ![drv] = [a[drv] EXCEPT ![k] = j]]
  OBVIOUS
<1> QED BY <1>2, <1>3

\* One field of an instance is set.
LEMMA OneField ==
    ASSUME NEW i \in InstRecs
    PROVE  /\ \A n \in Nat :
                  /\ [i EXCEPT !.samplerate = n] \in InstRecs
                  /\ SameInst(i, [i EXCEPT !.samplerate = n])
                  /\ [i EXCEPT !.frames = n] \in InstRecs
                  /\ SameInst(i, [i EXCEPT !.frames = n])
           /\ \A r \in RegRecs :
                  /\ [i EXCEPT !.regs = r] \in InstRecs
                  /\ SameInst(i, [i EXCEPT !.regs = r])
           /\ \A n, m \in Nat :
                  /\ [i EXCEPT !.samples = n, !.msec = m] \in InstRecs
                  /\ SameInst(i, [i EXCEPT !.samples = n, !.msec = m])
                  /\ [i EXCEPT !.msec = n, !.samples = m] \in InstRecs
                  /\ SameInst(i, [i EXCEPT !.msec = n, !.samples = m])
BY ZenonT(30) DEF InstRecs, SameInst, KeptInst

\* A value for a capability.
ValueOf(cap, value) ==
    /\ cap \in {"samplerate", "samples", "msec", "frames", "probes"}
    /\ IF cap = "probes" THEN value \in Seq(ProbeRecs) ELSE value \in Nat

\* What configure_probes() sets are registers.
LEMMA ProbedType ==
    ASSUME NEW drv \in Drivers, NEW r \in RegRecs, NEW ps \in Seq(ProbeRecs)
    PROVE  Probed(drv, r, ps) \in RegRecs
<1>1. Enabled(ps) \in SUBSET Nat /\ Reached(ps) \in SUBSET Enabled(ps)
      /\ TooLong(ps) \in SUBSET Enabled(ps)
  BY DEF Enabled, Reached, TooLong
<1>2. MaskOf(ps) \in Bits /\ HighOf(ps) \in Bits
  <2>1. \A s \in 1 .. MaxStages :
            {n \in Reached(ps) : s <= Len(Letters(ps[n].trigger))} \in SUBSET Nat
    BY <1>1
  <2>2. MaskOf(ps) \in Bits
    BY <2>1, Zenon DEF MaskOf, Bits
  <2>3. \A s \in 1 .. MaxStages :
            {n \in MaskOf(ps)[s] : Letters(ps[n].trigger)[s] = "1"} \in SUBSET Nat
    BY <2>2 DEF Bits
  <2> QED BY <2>2, <2>3, Zenon DEF HighOf, Bits
<1>3. StageOf(ps) \in SUBSET Nat /\ Wide(ps) \in BOOLEAN
  BY DEF StageOf, First, Fired, Wide
<1>4. r.wide \in BOOLEAN /\ r.stage \in SUBSET Nat
  BY DEF RegRecs
<1>5. (r.wide \/ Wide(ps)) \in BOOLEAN
  BY <1>3, <1>4
<1>6. FxProbes(r, ps) \in RegRecs
  BY <1>2, <1>3, <1>5, ZenonT(30) DEF FxProbes, RegRecs
<1>7. TooLong(ps) # {} => Spilt(r, ps) \in RegRecs
  <2> HAVE TooLong(ps) # {}
  <2> DEFINE n == Min(TooLong(ps))
             high == IF Letters(ps[n].trigger)[MaxStages + 1] = "1" THEN {n} ELSE {}
             f == FxProbes(r, ps)
             v == [f.value EXCEPT ![1] = @ \cup {n}]
  <2>1. TooLong(ps) \in SUBSET Nat
    BY <1>1
  <2>2. n \in Nat
    BY <2>1, Least
  <2>3. Spilt(r, ps) = [f EXCEPT !.value = v, !.stage = r.stage \cup high]
    BY DEF Spilt
  <2> HIDE DEF n
  <2>4. high \in SUBSET Nat
    BY <2>2
  <2> HIDE DEF f, high
  <2>5. f \in RegRecs
    BY <1>6 DEF f
  <2>6. f.value \in Bits
    BY <2>5 DEF RegRecs
  <2>7. v \in Bits
    BY <2>2, <2>6 DEF Bits, MaxStages
  <2>8. (r.stage \cup high) \in SUBSET Nat
    BY <1>4, <2>4
  <2> HIDE DEF v
  <2> QED BY <2>3, <2>5, <2>7, <2>8, ZenonT(30) DEF RegRecs
<1>8. [r EXCEPT !.channels = Enabled(ps) \cap {1, 2}] \in RegRecs
  <2>1. (Enabled(ps) \cap {1, 2}) \in SUBSET Nat
    BY <1>1
  <2> QED BY <2>1, ZenonT(30) DEF RegRecs
<1> QED BY <1>6, <1>7, <1>8 DEF Probed, Drivers, Fx

\* hw_dev_config_set() changes what is set, and nothing else.
LEMMA ConfiguredInst ==
    ASSUME NEW drv \in Drivers, NEW i \in InstRecs, NEW cap, NEW value, ValueOf(cap, value)
    PROVE  LET j == Configured(drv, i, cap, value) IN
           /\ j \in InstRecs /\ SameInst(i, j)
           /\ j.samplerate = IF cap = "samplerate" THEN value ELSE i.samplerate
           /\ j.samples = IF cap = "samples" THEN value
                          ELSE IF cap = "msec" THEN 0 ELSE i.samples
           /\ j.msec = IF cap = "msec" THEN value
                       ELSE IF cap = "samples" /\ drv = "demo" THEN 0 ELSE i.msec
           /\ j.regs = IF cap = "probes" THEN Probed(drv, i.regs, value) ELSE i.regs
<1>0. i.msec \in Nat /\ i.regs \in RegRecs /\ SameInst(i, i)
  BY InstFields DEF SameInst, KeptInst
<1>1. CASE cap = "probes"
  <2> DEFINE r == Probed(drv, i.regs, value)
  <2>1. Configured(drv, i, cap, value) = [i EXCEPT !.regs = r]
    BY <1>1 DEF Configured
  <2>2. r \in RegRecs
    BY <1>0, <1>1, ProbedType DEF ValueOf
  <2> HIDE DEF r
  <2>3. [i EXCEPT !.regs = r] \in InstRecs /\ SameInst(i, [i EXCEPT !.regs = r])
    BY <2>2, OneField
  <2>4. /\ [i EXCEPT !.regs = r].regs = r
        /\ [i EXCEPT !.regs = r].samplerate = i.samplerate
        /\ [i EXCEPT !.regs = r].samples = i.samples
        /\ [i EXCEPT !.regs = r].msec = i.msec
    BY DEF InstRecs
  <2> QED BY <1>0, <1>1, <2>1, <2>3, <2>4 DEF r
<1>2. CASE cap = "samples"
  <2> DEFINE m == IF drv = "demo" THEN 0 ELSE i.msec
  <2>1. Configured(drv, i, cap, value) = [i EXCEPT !.samples = value, !.msec = m]
    BY <1>2 DEF Configured
  <2>2. m \in Nat /\ value \in Nat
    BY <1>0, <1>2 DEF ValueOf
  <2>3. /\ [i EXCEPT !.samples = value, !.msec = m].regs = i.regs
        /\ [i EXCEPT !.samples = value, !.msec = m].samplerate = i.samplerate
        /\ [i EXCEPT !.samples = value, !.msec = m].samples = value
        /\ [i EXCEPT !.samples = value, !.msec = m].msec = m
    BY DEF InstRecs
  <2>4. LET j == [i EXCEPT !.samples = value, !.msec = m] IN
            j \in InstRecs /\ SameInst(i, j)
    BY <2>2, OneField
  <2> QED BY <1>2, <2>1, <2>3, <2>4
<1>3. CASE cap = "msec"
  <2>1. Configured(drv, i, cap, value) = [i EXCEPT !.msec = value, !.samples = 0]
    BY <1>3 DEF Configured
  <2>2. value \in Nat /\ 0 \in Nat
    BY <1>3 DEF ValueOf
  <2>3. /\ [i EXCEPT !.msec = value, !.samples = 0].regs = i.regs
        /\ [i EXCEPT !.msec = value, !.samples = 0].samplerate = i.samplerate
        /\ [i EXCEPT !.msec = value, !.samples = 0].samples = 0
        /\ [i EXCEPT !.msec = value, !.samples = 0].msec = value
    BY DEF InstRecs
  <2>4. LET j == [i EXCEPT !.msec = value, !.samples = 0] IN
            j \in InstRecs /\ SameInst(i, j)
    BY <2>2, OneField
  <2> QED BY <1>3, <2>1, <2>3, <2>4
<1>4. CASE cap = "samplerate"
  <2>1. Configured(drv, i, cap, value) = [i EXCEPT !.samplerate = value]
    BY <1>4 DEF Configured
  <2>2. value \in Nat
    BY <1>4 DEF ValueOf
  <2>3. /\ [i EXCEPT !.samplerate = value].regs = i.regs
        /\ [i EXCEPT !.samplerate = value].samplerate = value
        /\ [i EXCEPT !.samplerate = value].samples = i.samples
        /\ [i EXCEPT !.samplerate = value].msec = i.msec
    BY DEF InstRecs
  <2> QED BY ZenonT(30), <1>4, <2>1, <2>2, <2>3, OneField
<1>5. CASE cap = "frames"
  <2>1. Configured(drv, i, cap, value) = [i EXCEPT !.frames = value]
    BY <1>5 DEF Configured
  <2>2. value \in Nat
    BY <1>5 DEF ValueOf
  <2>3. /\ [i EXCEPT !.frames = value].regs = i.regs
        /\ [i EXCEPT !.frames = value].samplerate = i.samplerate
        /\ [i EXCEPT !.frames = value].samples = i.samples
        /\ [i EXCEPT !.frames = value].msec = i.msec
    BY DEF InstRecs
  <2> QED BY ZenonT(30), <1>5, <2>1, <2>2, <2>3, OneField
<1> QED BY <1>1, <1>2, <1>3, <1>4, <1>5 DEF ValueOf

\* Of all instances it changes that one.
LEMMA Configures ==
    ASSUME NEW D, NEW ins \in [D -> Seq(InstRecs)], NEW drv \in D, drv \in Drivers,
           NEW index, InstOf(drv, index) \in 1 .. Len(ins[drv]),
           NEW cap, NEW value, ValueOf(cap, value)
    PROVE  LET new == WithConfig(ins, drv, index, cap, value)
               k == InstOf(drv, index)
           IN  /\ new \in [D -> Seq(InstRecs)] /\ Same(D, ins, new)
               /\ new[drv][k] = Configured(drv, ins[drv][k], cap, value)
<1> DEFINE k == InstOf(drv, index)
           j == Configured(drv, ins[drv][k], cap, value)
           new == [ins EXCEPT ![drv][k] = j]
<1>1. ins[drv][k] \in InstRecs
  OBVIOUS
<1>2. j \in InstRecs /\ SameInst(ins[drv][k], j)
  BY <1>1, ConfiguredInst
<1>3. WithConfig(ins, drv, index, cap, value) = new
  BY DEF WithConfig
<1>4. \A d \in D : \A m \in 1 .. Len(ins[d]) : SameInst(ins[d][m], ins[d][m])
  BY DEF SameInst, KeptInst
<1> HIDE DEF j, k
<1>5. /\ new \in [D -> Seq(InstRecs)]
      /\ \A d \in D : Len(new[d]) = Len(ins[d])
      /\ new[drv][k] = j
      /\ \A d \in D : \A m \in 1 .. Len(ins[d]) :
             d # drv \/ m # k => new[d][m] = ins[d][m]
  <2>1. k \in 1 .. Len(ins[drv])
    BY DEF k
  <2> QED BY <1>2, <2>1, OneChanges
<1> HIDE DEF new
<1>6. Same(D, ins, new)
  <2> SUFFICES ASSUME NEW d \in D, NEW m \in 1 .. Len(ins[d])
               PROVE  SameInst(ins[d][m], new[d][m])
    BY <1>5 DEF Same
  <2>1. CASE d = drv /\ m = k
    BY <1>2, <1>5, <2>1
  <2>2. CASE d # drv \/ m # k
    BY <1>4, <1>5, <2>2
  <2> QED BY <2>1, <2>2
<1> QED BY <1>3, <1>5, <1>6 DEF j, k

\* The same lists answer to the same indices.
LEMMA SameIndex ==
    ASSUME NEW D, NEW a, NEW b, Typed(D, a), Typed(D, b), Kept(D, a, b),
           NEW d \in D, NEW index
    PROVE  IndexIn(b[d], index) = IndexIn(a[d], index)
<1>1. DOMAIN a[d] = 1 .. Len(a[d]) /\ DOMAIN b[d] = 1 .. Len(a[d])
  BY DEF Kept, Typed
<1>2. \A k \in 1 .. Len(a[d]) : b[d][k].index = a[d][k].index
  BY DEF Kept, KeptInst
<1>3. {k \in DOMAIN b[d] : b[d][k].index = index}
        = {k \in DOMAIN a[d] : a[d][k].index = index}
  BY <1>1, <1>2
<1> QED BY <1>3 DEF IndexIn

-----------------------------------------------------------------------------
(* What keeps the devices and the instances in order *)

\* The devices are where they were, but for what the firmware and the claims
\* do to them.
AlikeDev(x, y) ==
    /\ y.model = x.model /\ y.kind = x.kind /\ y.addr = x.addr /\ y.since = x.since
    /\ y.place = "loaded" <=> x.place = "loaded"
    /\ y.user <= MaxInsts
Alike(u, v) ==
    /\ v \in Seq(UsbRecs) /\ Len(v) = Len(u)
    /\ \A p \in 1 .. Len(u) : AlikeDev(u[p], v[p])

\* What the bus knows of a device.
LEMMA UsbFields ==
    ASSUME NEW u, NEW t, Bus(u, t), NEW p \in 1 .. Len(u)
    PROVE  /\ u[p] \in UsbRecs /\ Len(u) \in Nat /\ t \in Nat
           /\ u[p].model \in DOMAIN DriverOf /\ u[p].place \in Places
           /\ u[p].kind \in Kinds /\ u[p].addr \in Nat /\ u[p].since \in Nat
           /\ u[p].user \in Nat
<1>1. u \in Seq(UsbRecs) /\ t \in Nat
  BY DEF Bus
<1>2. u[p] \in UsbRecs /\ Len(u) \in Nat
  BY <1>1
<1> QED BY <1>1, <1>2 DEF UsbRecs

\* An instance whose device changes like this stays sound.
LEMMA AlikeSound ==
    ASSUME NEW u, NEW v, NEW t, NEW t2 \in Int, NEW d, NEW i \in InstRecs,
           Bus(u, t), Alike(u, v), t <= t2, Sound(u, t, d, i)
    PROVE  Sound(v, t2, d, i)
<1>1. /\ i.updated \in Nat /\ i.found \in Nat /\ i.handle.dev \in Nat
      /\ t \in Int /\ Len(u) \in Nat /\ Len(v) = Len(u)
  BY InstFields DEF Bus, Alike
<1>2. i.updated <= t2 /\ i.found \in 0 .. Len(v) /\ i.handle.dev \in 0 .. Len(v)
  BY <1>1 DEF Sound
<1>3. ASSUME NEW p \in 1 .. Len(u)
      PROVE  /\ v[p].model = u[p].model /\ v[p].since = u[p].since
             /\ v[p].kind = u[p].kind
             /\ v[p].place = "loaded" <=> u[p].place = "loaded"
  BY DEF Alike, AlikeDev
<1>4. ASSUME d \in Fx PROVE OfFx(v, d, i)
  <2>1. OfFx(u, d, i)
    BY <1>4 DEF Sound
  <2>2. i.found \in 1 .. Len(u) /\ (i.handle.dev # 0 => i.handle.dev \in 1 .. Len(u))
    BY <1>1, <2>1 DEF Sound, OfFx
  <2>3. FoundSane(v, i)
    BY <1>3, <2>1, <2>2 DEF OfFx, FoundSane, Shows
  <2> QED BY <1>1, <1>3, <2>1, <2>2, <2>3 DEF OfFx
<1> QED BY <1>2, <1>4 DEF Sound

\* The devices change like this, and time passes.
LEMMA AlikeWorld ==
    ASSUME NEW u, NEW v, NEW t, NEW t2 \in 1 .. MaxTime, NEW D, NEW ins,
           World(u, t, D, ins), Alike(u, v), t <= t2
    PROVE  World(v, t2, D, ins)
<1>1. Bus(u, t) /\ t \in Int /\ t2 \in Int
  BY Constants DEF World, Bus
<1>2. \A d \in D : \A k \in 1 .. Len(ins[d]) : ins[d][k] \in InstRecs
  BY DEF World, Typed
<1>3. Bus(v, t2)
  <2> SUFFICES ASSUME NEW p \in 1 .. Len(u) PROVE Sane(v, t2, p)
    BY <1>1 DEF Bus, Alike
  <2>1. AlikeDev(u[p], v[p]) /\ Sane(u, t, p) /\ Len(v) = Len(u)
    BY <1>1 DEF Alike, Bus
  <2>2. u[p].since \in Nat
    BY <1>1, UsbFields
  <2> QED BY <1>1, <2>1, <2>2 DEF Sane, AlikeDev
<1>4. ASSUME NEW d \in D, NEW k \in 1 .. Len(ins[d])
      PROVE  Sound(v, t2, d, ins[d][k])
  <2>1. Sound(u, t, d, ins[d][k]) /\ ins[d][k] \in InstRecs
    BY <1>2 DEF World
  <2> QED BY <1>1, <2>1, AlikeSound
<1> QED BY <1>3, <1>4 DEF World

\* The instances stay as they are, but for their configuration.
LEMMA SameWorld ==
    ASSUME NEW u, NEW t, NEW D, NEW a, NEW b,
           World(u, t, D, a), Typed(D, b), Same(D, a, b)
    PROVE  World(u, t, D, b)
<1>1. ASSUME NEW d \in D, NEW k \in 1 .. Len(b[d])
      PROVE  Sound(u, t, d, b[d][k])
  <2>1. k \in 1 .. Len(a[d]) /\ SameInst(a[d][k], b[d][k])
    BY DEF Same
  <2>2. Sound(u, t, d, a[d][k])
    BY <2>1 DEF World
  <2> QED BY <2>1, <2>2 DEF Sound, OfFx, FoundSane, SameInst, KeptInst
<1> QED BY <1>1 DEF World, Same

\* One instance changes.
LEMMA OneWorld ==
    ASSUME NEW u, NEW t, NEW D, NEW a, World(u, t, D, a), NEW d \in D,
           NEW k \in 1 .. Len(a[d]), NEW j \in InstRecs, Sound(u, t, d, j)
    PROVE  /\ World(u, t, D, [a EXCEPT ![d][k] = j])
           /\ Typed(D, [a EXCEPT ![d][k] = j])
<1>1. a \in [D -> Seq(InstRecs)]
  BY DEF World, Typed
<1> DEFINE b == [a EXCEPT ![d][k] = j]
<1>2. /\ b \in [D -> Seq(InstRecs)]
      /\ \A e \in D : Len(b[e]) = Len(a[e])
      /\ b[d][k] = j
      /\ \A e \in D : \A m \in 1 .. Len(a[e]) : e # d \/ m # k => b[e][m] = a[e][m]
  BY <1>1, OneChanges
<1> HIDE DEF b
<1>3. ASSUME NEW e \in D, NEW m \in 1 .. Len(b[e])
      PROVE  Sound(u, t, e, b[e][m])
  <2>1. CASE e = d /\ m = k
    BY <1>2, <2>1
  <2>2. CASE e # d \/ m # k
    <3>1. m \in 1 .. Len(a[e]) /\ b[e][m] = a[e][m]
      BY <1>2, <2>2
    <3> QED BY <3>1 DEF World
  <2> QED BY <2>1, <2>2
<1>4. World(u, t, D, b) /\ Typed(D, b)
  BY <1>2, <1>3 DEF World, Typed
<1> QED BY <1>4 DEF b

-----------------------------------------------------------------------------
(* The open that runs, the session, and who holds an instance *)

Waiting == {"added", "selected", "opened"}
Working == Waiting \cup
    {"add", "options", "failing", "probes", "triggers", "time", "samples", "frames",
     "config", "begin", "running", "select", "capture", "refused", "configure", "capturing"}

\* A device of the list.
Listable(e) ==
    /\ e.driver \in Range(drivers)
    /\ e.driver \in Fx => \E m \in DOMAIN DriverOf :
           DriverOf[m] = e.driver /\ Len(e.probes) = ProbeCount[m]
DevsListed ==
    /\ devs \in Seq(DevRecs)
    /\ \A n \in 1 .. Len(devs) : Listable(devs[n])

Sessions(n) == [exists : BOOLEAN, devs : {<<>>} \cup {<<m>> : m \in 1 .. n}]
Listed ==
    /\ client \in {"cli", "gtk", "qt"} /\ cmd \in Commands /\ limit \in Nat
    /\ loaded \in BOOLEAN
    /\ DevsListed
    /\ dev \in 0 .. Len(devs)
    /\ pc \in Working => dev # 0
    /\ session \in Sessions(Len(devs))
    /\ ~session.exists => session.devs = <<>>
    /\ pc \in {"start", "add"} => session = NoSession
    /\ pc \in Waiting /\ opening.ret # "error" => session.exists
    /\ pc = "start" /\ client # "qt" =>
           devs = <<>> /\ \A d \in Range(drivers) : insts[d] = <<>>

\* The open that runs, or the last one.
OpeningOf ==
    /\ opening \in Openings
    /\ opening.looked <= now
    /\ opening.stage # "idle" =>
           /\ pc \in Waiting /\ opening.ret = "none"
           /\ opening.drv \in Fx \cap Range(drivers) /\ opening.inst # 0
    /\ opening.stage = "once" => Opened.updated = Never
    /\ opening.stage = "claim" => Opened.status = "active"
    /\ pc \in Waiting =>
           /\ session.devs = <<>>
           /\ opening.ret # "error" =>
                  opening.drv = Driver /\ opening.inst = InstOf(Driver, Index)
    /\ opening.ret = "error" => session.devs = <<>>
    /\ opening.inst # 0 /\ opening.drv \in Fx =>
           /\ opening.drv \in Range(drivers)
           /\ opening.inst \in 1 .. Len(insts[opening.drv]) \/ pc = "done"

\* Why an open of the only device had not succeeded when it looked last.
Because(i) ==
    \/ i.status = "active"
    \/ i.updated = Never
    \/ usb[1].place # "loaded"
    \/ usb[1].since >= opening.looked
    \/ i.addr # NoAddress /\ i.addr # usb[1].addr
Reasons ==
    (opening.ret = "error" \/ opening.stage = "again") /\ opening.drv \in Fx
      /\ opening.inst # 0 /\ Len(usb) = 1 /\ usb[1].kind = "fine"
      /\ insts[opening.drv] # <<>> => Because(Opened)

\* Who holds the instance k of the driver d.
Claims(d, k) == opening.stage = "claim" /\ opening.drv = d /\ opening.inst = k
JustOpened(d, k) ==
    opening.ret = "ok" /\ opening.drv = d /\ opening.inst = k /\ pc \in Waiting
Loose(u, k, i) ==
    \/ i.status # "active"
    \/ i.handle # NoHandle /\ u[i.handle.dev].user # k
Held(d, k) ==
    \/ Loose(usb, k, insts[d][k])
    \/ Claims(d, k)
    \/ InSession(d, k)
    \/ JustOpened(d, k)
AllHeld ==
    ~loaded => \A d \in Fx \cap Range(drivers) : \A k \in 1 .. Len(insts[d]) : Held(d, k)

\* Who uses a device is active, and has its handle.
UsedBy(u, D, ins, p) ==
    u[p].user # 0 =>
        LET d == DriverOf[u[p].model]
            k == u[p].user
        IN  /\ d \in D /\ k \in 1 .. Len(ins[d])
            /\ ins[d][k].status = "active" /\ ins[d][k].handle.dev = p
Unclaimed(p) == usb[p].user # 0 => ~Claims(DriverOf[usb[p].model], usb[p].user)
Users ==
    ~loaded => \A p \in 1 .. Len(usb) :
                   UsedBy(usb, Range(drivers), insts, p) /\ Unclaimed(p)

Devs0 ==
    /\ drivers \in Seq(Drivers)
    /\ World(usb, now, Range(drivers), insts)
    /\ lost \subseteq {"upload", "unfit"}
Inv0 == Devs0 /\ Listed /\ OpeningOf /\ Reasons /\ AllHeld /\ Users

-----------------------------------------------------------------------------
(* What the steps of the frontends do to the devices *)

\* The session has no device, or one.
LEMMA SessionHas ==
    /\ session.devs = <<>> => \A d, k : ~InSession(d, k)
    /\ \A m : session.devs = <<m>> =>
           \A d, k : InSession(d, k) <=> /\ devs[m].driver = d
                                         /\ IndexIn(insts[d], devs[m].index) = k
    /\ session'.devs = <<>> => \A d, k : ~InSession(d, k)'
    /\ \A m : session'.devs = <<m>> =>
           \A d, k : InSession(d, k)' <=> /\ devs'[m].driver = d
                                          /\ IndexIn(insts'[d], devs'[m].index) = k
<1>1. DOMAIN <<>> = {} /\ \A m : DOMAIN <<m>> = {1} /\ <<m>>[1] = m
  OBVIOUS
<1>2. ASSUME session.devs = <<>> PROVE \A d, k : ~InSession(d, k)
  BY <1>1, <1>2 DEF InSession
<1>3. ASSUME session'.devs = <<>> PROVE \A d, k : ~InSession(d, k)'
  BY <1>1, <1>3 DEF InSession
<1>4. ASSUME NEW m, session.devs = <<m>>, NEW d, NEW k
      PROVE  InSession(d, k) <=> devs[m].driver = d /\ IndexIn(insts[d], devs[m].index) = k
  BY <1>1, <1>4, IndexIsInstOf DEF InSession
<1>5. ASSUME NEW m, session'.devs = <<m>>, NEW d, NEW k
      PROVE  InSession(d, k)' <=>
                 devs'[m].driver = d /\ IndexIn(insts'[d], devs'[m].index) = k
  BY <1>1, <1>5, IndexIsInstOf DEF InSession
<1> QED BY <1>2, <1>3, <1>4, <1>5

\* The instance of the last open.
LEMMA OpenedIs ==
    ASSUME Devs0, OpeningOf, opening.inst # 0, opening.drv \in Fx, pc # "done"
    PROVE  /\ opening.drv \in Range(drivers) /\ opening.drv \in Fx
           /\ opening.inst \in 1 .. Len(insts[opening.drv])
           /\ insts[opening.drv] \in Seq(InstRecs)
           /\ Opened = insts[opening.drv][opening.inst] /\ Opened \in InstRecs
           /\ Sound(usb, now, opening.drv, Opened)
<1>1. opening.drv \in Range(drivers) /\ opening.inst \in 1 .. Len(insts[opening.drv])
  BY DEF OpeningOf
<1>2. insts[opening.drv] \in Seq(InstRecs)
  BY <1>1 DEF Devs0, World, Typed
<1>3. insts[opening.drv][opening.inst] \in InstRecs
  BY <1>1, <1>2
<1> QED BY <1>1, <1>2, <1>3 DEF Opened, Devs0, World

\* While nothing is opened, the instances are configured, and the probes.
Configuring ==
    /\ Typed(Range(drivers), insts') /\ Same(Range(drivers), insts, insts')
    /\ UNCHANGED <<usb, now, lost, drivers, opening, session, loaded>>
    /\ Len(devs') = Len(devs)
    /\ \A n \in 1 .. Len(devs) :
           devs'[n].driver = devs[n].driver /\ devs'[n].index = devs[n].index
    /\ pc \notin Waiting \cup {"done"} /\ pc' \notin Waiting

\* What the instances are is what they were.
LEMMA SameIsKept ==
    ASSUME NEW D, NEW a, NEW b, Same(D, a, b)
    PROVE  Kept(D, a, b)
BY DEF Same, Kept, SameInst

\* This changes nothing of who is held by whom.
LEMMA ConfiguringKeeps ==
    ASSUME Inv0, Configuring
    PROVE  Devs0' /\ OpeningOf' /\ Reasons' /\ AllHeld' /\ Users'
<1> DEFINE D == Range(drivers)
<1>1. /\ drivers' = drivers /\ usb' = usb /\ opening' = opening /\ now' = now
      /\ session' = session /\ loaded' = loaded /\ lost' = lost
  BY DEF Configuring
<1>2. Devs0'
  <2>1. World(usb, now, D, insts')
    BY SameWorld DEF Inv0, Devs0, Configuring
  <2> QED BY <1>1, <2>1 DEF Inv0, Devs0
<1>3. opening.stage = "idle" /\ opening \in Openings
  <2>1. opening.stage # "idle" => pc \in Waiting
    BY DEF Inv0, OpeningOf
  <2> QED BY <2>1 DEF Configuring, Inv0, OpeningOf
<1>4. ASSUME NEW d \in D
      PROVE  /\ Len(insts'[d]) = Len(insts[d])
             /\ \A k \in 1 .. Len(insts[d]) : SameInst(insts[d][k], insts'[d][k])
  BY DEF Configuring, Same
<1>5. opening.inst # 0 /\ opening.drv \in Fx =>
          /\ opening.drv \in D /\ opening.inst \in 1 .. Len(insts[opening.drv])
          /\ insts[opening.drv] # <<>>
  <2>1. Devs0 /\ OpeningOf /\ pc # "done"
    BY DEF Inv0, Configuring
  <2>2. \A s \in Seq(InstRecs) : \A k \in 1 .. Len(s) : s # <<>>
    OBVIOUS
  <2> QED BY <2>1, <2>2, OpenedIs
<1>6. OpeningOf'
  <2>1. opening.ret = "error" => session.devs = <<>>
    BY DEF Inv0, OpeningOf
  <2>2. opening.looked <= now /\ pc' \notin Waiting
    BY DEF Inv0, OpeningOf, Configuring
  <2> QED BY <1>1, <1>3, <1>4, <1>5, <2>1, <2>2 DEF OpeningOf
<1>7. Reasons'
  <2> SUFFICES ASSUME opening.ret = "error", opening.drv \in Fx, opening.inst # 0,
                      Len(usb) = 1, usb[1].kind = "fine"
               PROVE  Because(Opened)'
    BY <1>1, <1>3 DEF Reasons
  <2>1. Because(Opened)
    BY <1>5 DEF Inv0, Reasons
  <2>2. SameInst(Opened, Opened')
    BY <1>1, <1>4, <1>5 DEF Opened
  <2> QED BY <1>1, <2>1, <2>2 DEF Because, SameInst, KeptInst
<1>8. AllHeld'
  <2> SUFFICES ASSUME ~loaded, NEW d \in Fx \cap D, NEW k \in 1 .. Len(insts[d])
               PROVE  Held(d, k)'
    BY <1>1, <1>4 DEF AllHeld
  <2>1. Held(d, k)
    BY DEF Inv0, AllHeld
  <2>2. SameInst(insts[d][k], insts'[d][k])
    BY <1>4
  <2>3. Loose(usb, k, insts[d][k]) => Loose(usb', k, insts'[d][k])
    BY <1>1, <2>2 DEF Loose, SameInst
  <2>4. InSession(d, k) => InSession(d, k)'
    <3>1. session \in Sessions(Len(devs))
      BY DEF Inv0, Listed
    <3>2. CASE session.devs = <<>>
      BY <3>2, SessionHas
    <3>3. CASE session.devs # <<>>
      <4>1. PICK m \in 1 .. Len(devs) : session.devs = <<m>>
        BY <3>1, <3>3 DEF Sessions
      <4>2. devs'[m].driver = devs[m].driver /\ devs'[m].index = devs[m].index
        BY DEF Configuring
      <4>3. Typed(D, insts) /\ Typed(D, insts') /\ Kept(D, insts, insts')
        BY SameIsKept DEF Configuring, Inv0, Devs0, World
      <4> DEFINE x == devs[m].index
      <4>4. IndexIn(insts'[d], x) = IndexIn(insts[d], x)
        <5> HIDE DEF x
        <5> QED BY <4>3, SameIndex
      <4>5. InSession(d, k) <=> devs[m].driver = d /\ IndexIn(insts[d], x) = k
        BY <4>1, SessionHas
      <4>6. InSession(d, k)' <=> devs'[m].driver = d /\ IndexIn(insts'[d], devs'[m].index) = k
        BY <1>1, <4>1, SessionHas
      <4> QED BY <4>2, <4>4, <4>5, <4>6
    <3> QED BY <3>2, <3>3
  <2>5. ~Claims(d, k) /\ ~JustOpened(d, k)
    BY <1>3 DEF Claims, JustOpened, Configuring
  <2> QED BY <2>1, <2>3, <2>4, <2>5 DEF Held
<1>9. Users'
  <2> SUFFICES ASSUME ~loaded, NEW p \in 1 .. Len(usb)
               PROVE  UsedBy(usb, D, insts', p) /\ Unclaimed(p)'
    BY <1>1 DEF Users
  <2>1. UsedBy(usb, D, insts, p)
    BY DEF Inv0, Users
  <2>2. UsedBy(usb, D, insts', p)
    <3>1. \A d \in D : \A k \in 1 .. Len(insts[d]) :
              /\ k \in 1 .. Len(insts'[d])
              /\ insts'[d][k].status = insts[d][k].status
              /\ insts'[d][k].handle = insts[d][k].handle
      BY <1>4 DEF SameInst
    <3> QED BY <2>1, <3>1 DEF UsedBy
  <2>3. Unclaimed(p)'
    BY <1>1, <1>3 DEF Unclaimed, Claims
  <2> QED BY <2>2, <2>3
<1> QED BY <1>2, <1>6, <1>7, <1>8, <1>9

-----------------------------------------------------------------------------
(* Closing *)

\* close_dev() on one instance.
LEMMA ClosedIs ==
    ASSUME NEW u, NEW t, NEW d, NEW i \in InstRecs, Sound(u, t, d, i)
    PROVE  LET j == ClosedInst(i) IN
           /\ j \in InstRecs /\ KeptInst(i, j) /\ Sound(u, t, d, j)
           /\ d \in Fx => j.status # "active"
           /\ j.samples = i.samples
<1> DEFINE c == [i EXCEPT !.handle = NoHandle, !.status = "inactive"]
<1>1. /\ c \in InstRecs /\ c.handle = NoHandle /\ c.status = "inactive"
      /\ c.index = i.index /\ c.updated = i.updated /\ c.found = i.found
      /\ c.addr = i.addr /\ c.samples = i.samples
  <2>1. NoHandle \in Handles /\ "inactive" \in Statuses
    BY DEF NoHandle, Handles, Statuses
  <2> QED BY <2>1 DEF InstRecs
<1>2. NoHandle.dev = 0
  BY DEF NoHandle
<1> HIDE DEF c
<1>3. CASE i.handle = NoHandle
  <2>1. ClosedInst(i) = i
    BY <1>3 DEF ClosedInst
  <2>2. d \in Fx => i.status # "active"
    BY <1>2, <1>3 DEF Sound, OfFx
  <2> QED BY <2>1, <2>2 DEF KeptInst
<1>4. CASE i.handle # NoHandle
  <2>1. ClosedInst(i) = c
    BY <1>4 DEF ClosedInst, c
  <2>2. KeptInst(i, c)
    BY <1>1 DEF KeptInst
  <2>3. i.handle.dev # 0
    BY <1>4 DEF Sound
  <2>4. d \in Fx => OfFx(u, d, c)
    BY <1>1, <1>2, <2>3 DEF Sound, OfFx, FoundSane
  <2>5. 0 \in 0 .. Len(u)
    <3>1. i.found \in 0 .. Len(u) /\ i.found \in Nat
      BY InstFields DEF Sound
    <3> QED BY <3>1
  <2>6. Sound(u, t, d, c)
    BY <1>1, <1>2, <2>4, <2>5 DEF Sound
  <2> QED BY <1>1, <2>1, <2>2, <2>6
<1> QED BY <1>3, <1>4

\* close_dev() on some instances of a driver.
LEMMA CloseAllDoes ==
    ASSUME NEW D, NEW drv \in D, NEW K \in SUBSET (Nat \ {0}),
           World(usb, now, D, insts), CloseAll(drv, K)
    PROVE  /\ World(usb', now, D, insts') /\ Typed(D, insts')
           /\ Kept(D, insts, insts')
           /\ \A d \in D : \A k \in 1 .. Len(insts[d]) :
                  insts'[d][k] = IF d = drv /\ k \in K THEN ClosedInst(insts[d][k])
                                 ELSE insts[d][k]
           /\ Alike(usb, usb')
           /\ \A p \in 1 .. Len(usb) :
                  /\ usb'[p].user \in {0, usb[p].user}
                  /\ usb[p].user \in K /\ insts[drv][usb[p].user].handle.dev = p =>
                         usb'[p].user = 0
<1>1. /\ insts \in [D -> Seq(InstRecs)] /\ Bus(usb, now)
      /\ \A d \in D : \A k \in 1 .. Len(insts[d]) : Sound(usb, now, d, insts[d][k])
  BY DEF World, Typed
<1> DEFINE s == insts[drv]
           c == [k \in DOMAIN s |-> IF k \in K THEN ClosedInst(s[k]) ELSE s[k]]
<1>2. s \in Seq(InstRecs) /\ DOMAIN s = 1 .. Len(s) /\ Len(s) \in Nat
  BY <1>1
<1>3. ASSUME NEW k \in 1 .. Len(s)
      PROVE  LET j == IF k \in K THEN ClosedInst(s[k]) ELSE s[k] IN
             j \in InstRecs /\ KeptInst(s[k], j) /\ Sound(usb, now, drv, j)
  <2>1. s[k] \in InstRecs /\ Sound(usb, now, drv, s[k])
    BY <1>1, <1>2
  <2>2. KeptInst(s[k], s[k])
    BY DEF KeptInst
  <2> HIDE DEF s
  <2> QED BY <2>1, <2>2, ClosedIs
<1>4. c \in Seq(InstRecs) /\ Len(c) = Len(s)
  <2>1. c \in [1 .. Len(s) -> InstRecs]
    BY <1>2, <1>3
  <2> HIDE DEF c, s
  <2> QED BY <1>2, <2>1
<1>5. insts' = [insts EXCEPT ![drv] = c]
  BY DEF CloseAll
<1>6. \A k \in 1 .. Len(s) : c[k] = IF k \in K THEN ClosedInst(s[k]) ELSE s[k]
  BY <1>2
<1>7. \A d \in D : insts'[d] = IF d = drv THEN c ELSE insts[d]
  BY <1>1, <1>5
<1> HIDE DEF c
<1>8. insts' \in [D -> Seq(InstRecs)]
  BY <1>1, <1>4, <1>5
<1>9. \A d \in D : \A k \in 1 .. Len(insts[d]) :
          insts'[d][k] = IF d = drv /\ k \in K THEN ClosedInst(insts[d][k])
                         ELSE insts[d][k]
  BY <1>6, <1>7
<1>10. ASSUME NEW d \in D
       PROVE  /\ Len(insts'[d]) = Len(insts[d])
              /\ \A k \in 1 .. Len(insts[d]) : /\ KeptInst(insts[d][k], insts'[d][k])
                                               /\ Sound(usb, now, d, insts'[d][k])
  <2>1. CASE d = drv
    BY <1>3, <1>4, <1>6, <1>7, <2>1
  <2>2. CASE d # drv
    BY <1>1, <1>7, <2>2 DEF KeptInst
  <2> QED BY <2>1, <2>2
<1>11. World(usb, now, D, insts')
  BY <1>8, <1>10 DEF World, Typed
<1>12. usb \in Seq(UsbRecs) /\ DOMAIN usb = 1 .. Len(usb) /\ Len(usb) \in Nat
  BY <1>1 DEF Bus
<1> DEFINE Free(p) == \E k \in K : usb[p].user = k /\ insts[drv][k].handle.dev = p
           r(p) == IF Free(p) THEN [usb[p] EXCEPT !.user = 0] ELSE usb[p]
<1>13. usb' = [p \in 1 .. Len(usb) |-> r(p)]
  BY <1>12 DEF CloseAll, Released, Devices
<1>14. ASSUME NEW p \in 1 .. Len(usb)
       PROVE  /\ r(p) \in UsbRecs /\ AlikeDev(usb[p], r(p))
              /\ r(p).user = IF Free(p) THEN 0 ELSE usb[p].user
  <2>1. usb[p] \in UsbRecs /\ usb[p].user <= MaxInsts
    BY <1>1, UsbFields DEF Bus, Sane
  <2>2. /\ [usb[p] EXCEPT !.user = 0] \in UsbRecs
        /\ [usb[p] EXCEPT !.user = 0].user = 0
        /\ AlikeDev(usb[p], [usb[p] EXCEPT !.user = 0])
    BY SMTT(30), <2>1, Constants DEF UsbRecs, AlikeDev
  <2>3. AlikeDev(usb[p], usb[p])
    BY <2>1 DEF AlikeDev
  <2> HIDE DEF Free
  <2> QED BY <2>1, <2>2, <2>3
<1>15. \A p \in 1 .. Len(usb) :
           usb[p].user \in K /\ insts[drv][usb[p].user].handle.dev = p => Free(p)
  OBVIOUS
<1> HIDE DEF r, Free
<1>16. usb' \in [1 .. Len(usb) -> UsbRecs] /\ \A p \in 1 .. Len(usb) : usb'[p] = r(p)
  BY <1>13, <1>14
<1>17. usb' \in Seq(UsbRecs) /\ Len(usb') = Len(usb)
  BY <1>12, <1>16
<1>18. Alike(usb, usb')
  BY <1>14, <1>16, <1>17 DEF Alike
<1>19. World(usb', now, D, insts')
  <2>1. now \in 1 .. MaxTime /\ now <= now
    BY <1>1, Constants DEF Bus
  <2> QED BY <1>11, <1>18, <2>1, AlikeWorld
<1> QED BY <1>8, <1>9, <1>10, <1>14, <1>15, <1>16, <1>18, <1>19 DEF Typed, Kept

\* sr_session_dev_remove_all() closes what the session holds: what is active
\* then is held by another.
LEMMA Closes ==
    ASSUME Inv0, opening.stage = "idle", ~(pc \in Waiting /\ opening.ret = "ok"),
           RemoveAll
    PROVE  LET D == Range(drivers) IN
           /\ World(usb', now, D, insts') /\ Typed(D, insts')
           /\ Kept(D, insts, insts')
           /\ session.devs = <<>> => UNCHANGED <<usb, insts>>
           /\ Len(usb') = Len(usb)
           /\ ~loaded =>
                  /\ \A d \in Fx \cap D : \A k \in 1 .. Len(insts[d]) :
                         Loose(usb', k, insts'[d][k])
                  /\ \A p \in 1 .. Len(usb) : UsedBy(usb', D, insts', p)
<1> DEFINE D == Range(drivers)
<1>1. World(usb, now, D, insts) /\ Typed(D, insts) /\ Kept(D, insts, insts)
  BY DEF Inv0, Devs0, World, Kept, KeptInst
<1>2. ASSUME NEW d, NEW k PROVE ~Claims(d, k) /\ ~JustOpened(d, k)
  BY DEF Claims, JustOpened
<1>3. ASSUME ~loaded, UNCHANGED <<usb, insts>>, \A d \in Fx \cap D : \A k : ~InSession(d, k)
      PROVE  /\ \A d \in Fx \cap D : \A k \in 1 .. Len(insts[d]) :
                    Loose(usb', k, insts'[d][k])
             /\ \A p \in 1 .. Len(usb) : UsedBy(usb', D, insts', p)
  BY <1>2, <1>3 DEF Inv0, AllHeld, Held, Users
<1>4. CASE session.devs = <<>>
  <2>1. UNCHANGED <<usb, insts>>
    BY <1>4 DEF RemoveAll
  <2>2. \A d, k : ~InSession(d, k)
    BY <1>4, SessionHas
  <2> QED BY <1>1, <1>3, <2>1, <2>2
<1>5. CASE session.devs # <<>>
  <2>1. PICK m \in 1 .. Len(devs) : session.devs = <<m>>
    BY <1>5 DEF Inv0, Listed, Sessions
  <2>2. Head(session.devs) = m
    BY <2>1
  <2>3. devs[m].driver \in D
    BY DEF Inv0, Listed, DevsListed, Listable
  <2> DEFINE drv == devs[m].driver
             x == devs[m].index
             k0 == IndexIn(insts[drv], x)
  <2>4. DevClose(drv, x)
    BY <1>5, <2>2 DEF RemoveAll
  <2>5. \A d, k : InSession(d, k) <=> drv = d /\ IndexIn(insts[d], x) = k
    BY <2>1, SessionHas
  <2>6. CASE drv = "demo"
    <3>1. UNCHANGED <<usb, insts>>
      BY <2>4, <2>6 DEF DevClose
    <3>2. \A d \in Fx \cap D : \A k : ~InSession(d, k)
      BY <2>5, <2>6 DEF Fx
    <3> QED BY <1>1, <1>3, <1>5, <3>1, <3>2
  <2>7. CASE drv # "demo"
    <3> DEFINE K == {k0} \ {0}
    <3>1. CloseAll(drv, K)
      BY <2>4, <2>7, IndexIsInstOf DEF DevClose
    <3>2. insts[drv] \in Seq(InstRecs)
      BY <1>1, <2>3 DEF Typed
    <3>3. K \in SUBSET (Nat \ {0})
      <4>1. k0 \in 0 .. Len(insts[drv])
        BY <3>2, IndexListed
      <4> HIDE DEF k0
      <4> QED BY <3>2, <4>1
    <3>4. drv \in D
      BY <2>3
    <3> HIDE DEF drv, x, k0
    <3>5. /\ World(usb', now, D, insts') /\ Typed(D, insts')
          /\ Kept(D, insts, insts')
          /\ \A d \in D : \A k \in 1 .. Len(insts[d]) :
                 insts'[d][k] = IF d = drv /\ k \in K THEN ClosedInst(insts[d][k])
                                ELSE insts[d][k]
          /\ Alike(usb, usb')
          /\ \A p \in 1 .. Len(usb) :
                 /\ usb'[p].user \in {0, usb[p].user}
                 /\ usb[p].user \in K /\ insts[drv][usb[p].user].handle.dev = p =>
                        usb'[p].user = 0
      <4> HIDE DEF K, D
      <4> QED BY <1>1, <3>1, <3>3, <3>4, CloseAllDoes
    <3>6. ASSUME ~loaded, NEW d \in Fx \cap D, NEW k \in 1 .. Len(insts[d])
          PROVE  Loose(usb', k, insts'[d][k])
      <4>1. /\ insts[d][k] \in InstRecs /\ Sound(usb, now, d, insts[d][k])
            /\ k \in Nat \ {0}
        BY <1>1 DEF World, Typed
      <4>2. CASE d = drv /\ k \in K
        <5>1. insts'[d][k] = ClosedInst(insts[d][k])
          BY <3>5, <4>2
        <5> QED BY ZenonT(30), <4>1, <5>1, ClosedIs DEF Loose
      <4>3. CASE ~(d = drv /\ k \in K)
        <5>1. insts'[d][k] = insts[d][k]
          BY <3>5, <4>3
        <5>2. ~InSession(d, k)
          BY <2>5, <4>1, <4>3 DEF k0
        <5>3. Loose(usb, k, insts[d][k])
          BY <1>2, <3>6, <5>2 DEF Inv0, AllHeld, Held
        <5> DEFINE h == insts[d][k].handle
        <5>4. h # NoHandle => h.dev \in 1 .. Len(usb)
          <6>1. h.dev # 0 \/ h = NoHandle
            BY <4>1 DEF Sound
          <6>2. h.dev \in 0 .. Len(usb) /\ h.dev \in Nat
            BY <4>1, InstFields DEF Sound
          <6> QED BY <6>1, <6>2
        <5>5. h # NoHandle => usb'[h.dev].user \in {0, usb[h.dev].user}
          BY <3>5, <5>4
        <5> QED BY <4>1, <5>1, <5>3, <5>5 DEF Loose
      <4> QED BY <4>2, <4>3
    <3>7. ASSUME ~loaded, NEW p \in 1 .. Len(usb)
          PROVE  UsedBy(usb', D, insts', p)
      <4> SUFFICES ASSUME usb'[p].user # 0
                   PROVE  UsedBy(usb', D, insts', p)
        BY DEF UsedBy
      <4>1. usb'[p].user = usb[p].user /\ usb'[p].model = usb[p].model
        BY <3>5 DEF Alike, AlikeDev
      <4>2. UsedBy(usb, D, insts, p) /\ usb[p].user # 0
        BY <3>7, <4>1 DEF Inv0, Users
      <4> DEFINE d == DriverOf[usb[p].model]
                 k == usb[p].user
      <4>3. /\ d \in D /\ k \in 1 .. Len(insts[d])
            /\ insts[d][k].status = "active" /\ insts[d][k].handle.dev = p
        BY <4>2 DEF UsedBy
      <4>4. ~(d = drv /\ k \in K)
        BY <3>5, <4>1, <4>3
      <4>5. insts'[d][k] = insts[d][k] /\ Len(insts'[d]) = Len(insts[d])
        BY <3>5, <4>3, <4>4 DEF Kept
      <4> QED BY <4>1, <4>3, <4>5 DEF UsedBy
    <3> QED BY <1>5, <3>5, <3>6, <3>7 DEF Alike
  <2> QED BY <2>6, <2>7
<1> QED BY <1>4, <1>5

\* The device of the session is closed, whatever was opened before.
Closing ==
    /\ RemoveAll /\ session'.devs = <<>>
    /\ UNCHANGED <<now, lost, drivers, opening, loaded, devs>>
    /\ opening.stage = "idle" /\ ~(pc \in Waiting /\ opening.ret = "ok")
    /\ pc # "done" /\ pc' \notin Waiting

\* Then no instance that is active is held by nobody.
LEMMA ClosingKeeps ==
    ASSUME Inv0, Closing
    PROVE  Devs0' /\ OpeningOf' /\ Reasons' /\ AllHeld' /\ Users'
<1> DEFINE D == Range(drivers)
<1>1. /\ drivers' = drivers /\ opening' = opening /\ now' = now /\ loaded' = loaded
      /\ lost' = lost /\ opening.stage = "idle" /\ session'.devs = <<>>
      /\ pc' \notin Waiting
  BY DEF Closing
<1>2. /\ World(usb', now, D, insts') /\ Typed(D, insts') /\ Kept(D, insts, insts')
      /\ session.devs = <<>> => UNCHANGED <<usb, insts>>
      /\ Len(usb') = Len(usb)
      /\ ~loaded =>
             /\ \A d \in Fx \cap D : \A k \in 1 .. Len(insts[d]) :
                    Loose(usb', k, insts'[d][k])
             /\ \A p \in 1 .. Len(usb) : UsedBy(usb', D, insts', p)
  BY Closes DEF Closing
<1>3. Devs0'
  BY <1>1, <1>2 DEF Inv0, Devs0
<1>4. opening.inst # 0 /\ opening.drv \in Fx =>
          opening.drv \in D /\ opening.inst \in 1 .. Len(insts[opening.drv])
  BY OpenedIs DEF Inv0, Closing
<1>5. \A d \in D : Len(insts'[d]) = Len(insts[d])
  BY <1>2 DEF Kept
<1>6. opening \in Openings /\ opening.looked <= now
  BY DEF Inv0, OpeningOf
<1>7. OpeningOf'
  BY <1>1, <1>4, <1>5, <1>6 DEF OpeningOf
<1>8. Reasons'
  <2> SUFFICES ASSUME opening.ret = "error" PROVE Reasons'
    BY <1>1 DEF Reasons
  <2>1. UNCHANGED <<usb, insts>>
    BY <1>2 DEF Inv0, OpeningOf
  <2> QED BY <1>1, <2>1 DEF Inv0, Reasons, Because, Opened
<1>9. AllHeld'
  BY <1>1, <1>2, <1>5 DEF AllHeld, Held
<1>10. Users'
  BY <1>1, <1>2 DEF Users, Unclaimed, Claims
<1> QED BY <1>3, <1>7, <1>8, <1>9, <1>10

\* The open of the n-th device begins, with no device in the session.
Beginning(n) ==
    /\ n \in 1 .. Len(devs) /\ dev' = n
    /\ opening' \in {DevOpen(devs[n].driver, devs[n].index), [Idle EXCEPT !.ret = "error"]}
    /\ UNCHANGED <<now, lost, drivers, devs>>
    /\ session'.devs = <<>> /\ pc' \in Waiting

\* What dev_open() begins with.
LEMMA DevOpenIs ==
    ASSUME Devs0, NEW drv \in Range(drivers), NEW index
    PROVE  LET o == DevOpen(drv, index)
               k == IndexIn(insts[drv], index)
           IN  /\ o \in Openings /\ o.looked = Never /\ o.drv = drv /\ o.inst = k
               /\ o.stage \in {"idle", "first", "once"}
               /\ o.stage # "idle" => o.ret = "none" /\ k # 0 /\ drv \in Fx
               /\ o.stage = "once" => insts[drv][k].updated = Never
               /\ o.ret = "error" => k = 0
<1> DEFINE k == IndexIn(insts[drv], index)
           call == [Idle EXCEPT !.drv = drv, !.inst = k]
<1>1. insts[drv] \in Seq(InstRecs) /\ drv \in Drivers
  BY DEF Devs0, World, Typed, Range
<1>2. k \in Nat /\ (k # 0 => insts[drv][k] \in InstRecs)
  BY <1>1, IndexListed
<1>3. k # 0 => insts[drv][k].updated \in Nat
  BY <1>2, InstFields
<1>4. DevOpen(drv, index) =
          IF drv = "demo" THEN [call EXCEPT !.ret = "ok"]
          ELSE IF k = 0 THEN [call EXCEPT !.ret = "error"]
          ELSE IF insts[drv][k].updated > Never
               THEN [call EXCEPT !.stage = "first", !.wait = ResetDelay]
               ELSE [call EXCEPT !.stage = "once"]
  BY IndexIsInstOf DEF DevOpen
<1> HIDE DEF k
<1>5. /\ call \in Openings /\ call.stage = "idle" /\ call.drv = drv /\ call.inst = k
      /\ call.ret = "none" /\ call.looked = Never
  <2>1. Idle \in Openings
    BY Constants DEF Idle, Openings, Drivers, Never
  <2>2. /\ Idle.stage = "idle" /\ Idle.ret = "none" /\ Idle.looked = Never
    BY DEF Idle
  <2> QED BY <1>1, <1>2, <2>1, <2>2 DEF Openings
<1>6. drv # "demo" => drv \in Fx
  BY <1>1 DEF Drivers
<1>7. 0 \in 0 .. ResetDelay /\ ResetDelay \in 0 .. ResetDelay /\ Never = 0
  BY Constants DEF Never
<1> HIDE DEF call
<1>8. CASE drv = "demo"
  <2>1. DevOpen(drv, index) = [call EXCEPT !.ret = "ok"]
    BY <1>4, <1>8
  <2>2. LET o == [call EXCEPT !.ret = "ok"] IN
        /\ o \in Openings /\ o.stage = "idle" /\ o.drv = drv /\ o.inst = k
        /\ o.ret = "ok" /\ o.looked = Never
    BY <1>5 DEF Openings
  <2> QED BY <2>1, <2>2 DEF k
<1>9. CASE drv # "demo" /\ k = 0
  <2>1. DevOpen(drv, index) = [call EXCEPT !.ret = "error"]
    BY <1>4, <1>9
  <2>2. LET o == [call EXCEPT !.ret = "error"] IN
        /\ o \in Openings /\ o.stage = "idle" /\ o.drv = drv /\ o.inst = k
        /\ o.ret = "error" /\ o.looked = Never
    BY <1>5 DEF Openings
  <2> QED BY <1>9, <2>1, <2>2 DEF k
<1>10. CASE drv # "demo" /\ k # 0 /\ insts[drv][k].updated > Never
  <2>1. DevOpen(drv, index) = [call EXCEPT !.stage = "first", !.wait = ResetDelay]
    BY <1>4, <1>10
  <2>2. LET o == [call EXCEPT !.stage = "first", !.wait = ResetDelay] IN
        /\ o \in Openings /\ o.stage = "first" /\ o.drv = drv /\ o.inst = k
        /\ o.ret = "none" /\ o.looked = Never
    BY <1>5, <1>7 DEF Openings
  <2> QED BY <1>6, <1>10, <2>1, <2>2 DEF k
<1>11. CASE drv # "demo" /\ k # 0 /\ ~(insts[drv][k].updated > Never)
  <2>1. DevOpen(drv, index) = [call EXCEPT !.stage = "once"]
    BY <1>4, <1>11
  <2>2. LET o == [call EXCEPT !.stage = "once"] IN
        /\ o \in Openings /\ o.stage = "once" /\ o.drv = drv /\ o.inst = k
        /\ o.ret = "none" /\ o.looked = Never
    BY <1>5 DEF Openings
  <2>3. insts[drv][k].updated = Never
    BY <1>3, <1>7, <1>11
  <2> QED BY <1>6, <1>11, <2>1, <2>2, <2>3 DEF k
<1> QED BY <1>8, <1>9, <1>10, <1>11

\* An open begins, with nothing held by it yet.
LEMMA BeginningKeeps ==
    ASSUME Inv0, NEW n, Beginning(n),
           World(usb', now, Range(drivers), insts'),
           Kept(Range(drivers), insts, insts'), Len(usb') = Len(usb),
           ~loaded' =>
               /\ \A d \in Fx \cap Range(drivers) : \A k \in 1 .. Len(insts[d]) :
                      Loose(usb', k, insts'[d][k])
               /\ \A p \in 1 .. Len(usb) : UsedBy(usb', Range(drivers), insts', p)
    PROVE  Devs0' /\ OpeningOf' /\ Reasons' /\ AllHeld' /\ Users'
<1> DEFINE D == Range(drivers)
           drv == devs[n].driver
           x == devs[n].index
           k == IndexIn(insts[drv], x)
<1>1. /\ drivers' = drivers /\ now' = now /\ lost' = lost /\ devs' = devs
      /\ session'.devs = <<>> /\ pc' \in Waiting /\ dev' = n
  BY DEF Beginning
<1>2. Devs0'
  BY <1>1 DEF Inv0, Devs0
<1>3. drv \in D
  BY DEF Beginning, Inv0, Listed, DevsListed, Listable
<1>4. insts[drv] \in Seq(InstRecs) /\ Typed(D, insts) /\ Typed(D, insts')
  BY <1>3 DEF Inv0, Devs0, World, Typed
<1>5. IndexIn(insts'[drv], x) = k
  <2> HIDE DEF x, drv
  <2> QED BY <1>3, <1>4, SameIndex DEF k
<1>6. InstOf(Driver, Index)' = k /\ Driver' = drv
  BY <1>1, <1>5, IndexIsInstOf DEF Driver, Index
<1>7. k # 0 => /\ k \in 1 .. Len(insts[drv]) /\ k \in 1 .. Len(insts'[drv])
               /\ insts'[drv][k].updated = insts[drv][k].updated
  <2>1. k # 0 => k \in 1 .. Len(insts[drv])
    BY <1>4, IndexListed
  <2> QED BY <1>3, <2>1 DEF Kept, KeptInst
<1>8. now \in 1 .. MaxTime /\ Never <= now
  BY Constants DEF Inv0, Devs0, World, Bus, Never
<1>9. pc' # "done" /\ pc' \in Waiting
  BY <1>1 DEF Waiting
<1>10. ASSUME opening' = DevOpen(drv, x) PROVE OpeningOf' /\ Reasons'
  <2>1. /\ opening' \in Openings /\ opening'.looked = Never /\ opening'.drv = drv
        /\ opening'.inst = k
        /\ opening'.stage \in {"idle", "first", "once"}
        /\ opening'.stage # "idle" => opening'.ret = "none" /\ k # 0 /\ drv \in Fx
        /\ opening'.stage = "once" => insts[drv][k].updated = Never
        /\ opening'.ret = "error" => k = 0
    <3> HIDE DEF drv, x
    <3>1. Devs0
      BY DEF Inv0
    <3> QED BY <1>3, <1>10, <3>1, DevOpenIs DEF k
  <2> HIDE DEF k, drv, x
  <2>2. OpeningOf'
    <3>1. opening'.stage = "once" => Opened'.updated = Never
      BY <1>7, <2>1 DEF Opened
    <3>2. opening'.looked <= now'
      BY <1>1, <1>8, <2>1
    <3>3. opening'.stage # "idle" =>
              /\ pc' \in Waiting /\ opening'.ret = "none"
              /\ opening'.drv \in Fx \cap Range(drivers') /\ opening'.inst # 0
      BY <1>1, <1>3, <2>1
    <3>4. opening'.stage # "claim"
      BY <2>1
    <3>5. opening'.drv = Driver' /\ opening'.inst = InstOf(Driver, Index)'
      BY <1>6, <2>1
    <3>6. opening'.inst # 0 =>
              /\ opening'.drv \in Range(drivers')
              /\ opening'.inst \in 1 .. Len(insts'[opening'.drv])
      BY <1>1, <1>3, <1>7, <2>1
    <3> QED BY ONLY <1>1, <2>1, <3>1, <3>2, <3>3, <3>4, <3>5, <3>6 DEF OpeningOf
  <2>3. Reasons'
    BY <2>1 DEF Reasons
  <2> QED BY <2>1, <2>2, <2>3
<1>11. ASSUME opening' = [Idle EXCEPT !.ret = "error"] PROVE OpeningOf' /\ Reasons'
  <2>1. /\ opening'.stage = "idle" /\ opening'.drv = "demo" /\ opening'.inst = 0
        /\ opening'.ret = "error" /\ opening'.looked = Never
    BY <1>11 DEF Idle
  <2>2. opening' \in Openings
    <3>1. Idle \in Openings
      BY Constants DEF Idle, Openings, Drivers, Never
    <3> QED BY <1>11, <3>1 DEF Openings
  <2>3. OpeningOf'
    BY <1>1, <1>8, <1>9, <2>1, <2>2 DEF OpeningOf, Fx
  <2>4. Reasons'
    BY <2>1 DEF Reasons
  <2> QED BY <2>1, <2>3, <2>4
<1>12. OpeningOf' /\ Reasons' /\ opening'.stage # "claim"
  <2>1. opening' = DevOpen(drv, x) \/ opening' = [Idle EXCEPT !.ret = "error"]
    BY DEF Beginning
  <2>2. opening' = DevOpen(drv, x) => opening'.stage # "claim"
    <3> HIDE DEF drv, x
    <3>1. Devs0
      BY DEF Inv0
    <3>2. DevOpen(drv, x).stage \in {"idle", "first", "once"}
      BY <1>3, <3>1, DevOpenIs
    <3> QED BY <3>2
  <2>3. opening' = [Idle EXCEPT !.ret = "error"] => opening'.stage # "claim"
    BY DEF Idle
  <2> QED BY <1>10, <1>11, <2>1, <2>2, <2>3
<1>13. AllHeld'
  <2>1. \A d \in D : Len(insts'[d]) = Len(insts[d])
    BY DEF Kept
  <2> QED BY <1>1, <2>1 DEF AllHeld, Held
<1>14. Users'
  BY <1>1, <1>12 DEF Users, Unclaimed, Claims
<1> QED BY <1>2, <1>12, <1>13, <1>14

\* The device that is open goes into the session.
Adding ==
    /\ pc \in Waiting /\ pc' \notin Waiting
    /\ opening.stage = "idle" /\ opening.ret = "ok"
    /\ session' = Added(dev)
    /\ UNCHANGED <<usb, insts, lost, now, drivers, devs, opening, loaded>>

\* Then the session holds its instance.
LEMMA AddingKeeps ==
    ASSUME Inv0, Adding
    PROVE  Devs0' /\ OpeningOf' /\ Reasons' /\ AllHeld' /\ Users'
<1> DEFINE D == Range(drivers)
<1>1. /\ drivers' = drivers /\ opening' = opening /\ now' = now /\ loaded' = loaded
      /\ lost' = lost /\ usb' = usb /\ insts' = insts /\ devs' = devs
      /\ opening.stage = "idle" /\ opening.ret = "ok" /\ pc \in Waiting
      /\ pc' \notin Waiting
  BY DEF Adding
<1>2. session.devs = <<>> /\ opening.drv = Driver /\ opening.inst = InstOf(Driver, Index)
  BY <1>1 DEF Inv0, OpeningOf
<1>3. session'.devs = <<dev>>
  <2>1. session \in Sessions(Len(devs))
    BY DEF Inv0, Listed
  <2>2. session' = [session EXCEPT !.devs = Append(<<>>, dev)]
    BY <1>2 DEF Adding, Added
  <2>3. Append(<<>>, dev) = <<dev>>
    OBVIOUS
  <2> QED BY <2>1, <2>2, <2>3 DEF Sessions
<1>4. Devs0'
  BY <1>1 DEF Inv0, Devs0
<1>5. opening.inst # 0 /\ opening.drv \in Fx =>
          opening.drv \in D /\ opening.inst \in 1 .. Len(insts[opening.drv])
  <2>1. pc # "done"
    BY <1>1 DEF Waiting
  <2> QED BY <2>1, OpenedIs DEF Inv0
<1>6. OpeningOf'
  BY <1>1, <1>5 DEF Inv0, OpeningOf
<1>7. Reasons'
  BY <1>1 DEF Reasons
<1>8. AllHeld'
  <2> SUFFICES ASSUME ~loaded, NEW d \in Fx \cap D, NEW k \in 1 .. Len(insts[d])
               PROVE  Held(d, k)'
    BY <1>1 DEF AllHeld
  <2>1. Held(d, k)
    BY DEF Inv0, AllHeld
  <2>2. ~Claims(d, k) /\ ~InSession(d, k)
    BY <1>1, <1>2, SessionHas DEF Claims
  <2>3. Loose(usb, k, insts[d][k]) => Held(d, k)'
    BY <1>1 DEF Held
  <2>4. JustOpened(d, k) => InSession(d, k)'
    <3> SUFFICES ASSUME JustOpened(d, k) PROVE InSession(d, k)'
      OBVIOUS
    <3>1. d = Driver /\ k = InstOf(Driver, Index)
      BY <1>2 DEF JustOpened
    <3>2. devs'[dev].driver = d /\ IndexIn(insts'[d], devs'[dev].index) = k
      BY <1>1, <3>1, IndexIsInstOf DEF Driver, Index
    <3> QED BY <1>3, <3>2, SessionHas
  <2> QED BY <2>1, <2>2, <2>3, <2>4 DEF Held
<1>9. Users'
  BY <1>1 DEF Inv0, Users, Unclaimed, Claims
<1> QED BY <1>4, <1>6, <1>7, <1>8, <1>9

-----------------------------------------------------------------------------
(* The environment *)

\* What nothing of the environment changes.
Outside == UNCHANGED <<drivers, devs, session, pc, dev, loaded>>

\* The devices and the clock change, and no instance.
Elsewhere ==
    /\ UNCHANGED <<insts, lost>>
    /\ World(usb', now', Range(drivers), insts)
    /\ opening' \in Openings /\ opening.looked <= now'
    /\ \A f \in {"stage", "drv", "inst", "ret", "looked"} : opening'[f] = opening[f]
    /\ Len(usb') = Len(usb)
    /\ \A p \in 1 .. Len(usb) :
           /\ usb'[p].model = usb[p].model /\ usb'[p].kind = usb[p].kind
           /\ usb'[p].user = usb[p].user
           /\ \/ usb'[p].place # "loaded" \/ usb'[p].since >= opening.looked
              \/ usb'[p].place = usb[p].place /\ usb'[p].since = usb[p].since
                     /\ usb'[p].addr = usb[p].addr

\* A step of the world outside the frontends, at another device than the one that
\* is being opened, keeps what does not speak of the firmware.
LEMMA ElsewhereKeeps ==
    ASSUME Inv0, Outside, Elsewhere
    PROVE  Devs0' /\ OpeningOf' /\ Reasons' /\ AllHeld' /\ Users'
<1> DEFINE D == Range(drivers)
<1>1. /\ drivers' = drivers /\ devs' = devs /\ session' = session /\ pc' = pc
      /\ dev' = dev /\ loaded' = loaded /\ insts' = insts /\ lost' = lost
  BY DEF Outside, Elsewhere
<1>2. /\ opening'.stage = opening.stage /\ opening'.drv = opening.drv
      /\ opening'.inst = opening.inst /\ opening'.ret = opening.ret
      /\ opening'.looked = opening.looked
  BY DEF Elsewhere
<1>3. Devs0'
  BY <1>1 DEF Inv0, Devs0, Elsewhere
<1>4. Opened' = Opened /\ Driver' = Driver /\ Index' = Index
  BY <1>1, <1>2 DEF Opened, Driver, Index
<1>5. InstOf(Driver, Index)' = InstOf(Driver, Index)
  BY <1>1, <1>4, IndexIsInstOf
<1>6. OpeningOf'
  <2>1. opening' \in Openings /\ opening'.looked <= now'
    BY <1>2 DEF Elsewhere
  <2>2. OpeningOf
    BY DEF Inv0
  <2> QED BY ONLY <1>1, <1>2, <1>4, <1>5, <2>1, <2>2 DEF OpeningOf
<1>7. Reasons'
  <2> SUFFICES ASSUME opening.ret = "error" \/ opening.stage = "again",
                      opening.drv \in Fx, opening.inst # 0, Len(usb) = 1,
                      usb'[1].kind = "fine", insts[opening.drv] # <<>>
               PROVE  Because(Opened)'
    BY <1>1, <1>2 DEF Reasons, Elsewhere
  <2>1. usb[1].kind = "fine"
    BY DEF Elsewhere
  <2>2. Because(Opened)
    BY <2>1 DEF Inv0, Reasons
  <2>3. \/ usb'[1].place # "loaded" \/ usb'[1].since >= opening.looked
        \/ usb'[1].place = usb[1].place /\ usb'[1].since = usb[1].since
               /\ usb'[1].addr = usb[1].addr
    BY DEF Elsewhere
  <2> QED BY ONLY <1>2, <1>4, <2>2, <2>3 DEF Because
<1>8. ASSUME NEW d \in Fx \cap D, NEW k \in 1 .. Len(insts[d]), Held(d, k)
      PROVE  Held(d, k)'
  <2>1. insts[d][k] \in InstRecs /\ Sound(usb, now, d, insts[d][k])
    BY DEF Inv0, Devs0, World, Typed
  <2>2. Loose(usb, k, insts[d][k]) => Loose(usb', k, insts[d][k])
    <3> DEFINE h == insts[d][k].handle
    <3>1. h # NoHandle => h.dev \in 1 .. Len(usb)
      <4>1. h.dev # 0 \/ h = NoHandle
        BY <2>1 DEF Sound
      <4>2. h.dev \in 0 .. Len(usb) /\ h.dev \in Nat
        BY <2>1, InstFields DEF Sound
      <4> QED BY <4>1, <4>2
    <3>2. h # NoHandle => usb'[h.dev].user = usb[h.dev].user
      BY <3>1 DEF Elsewhere
    <3> QED BY <3>2 DEF Loose
  <2>3. InSession(d, k)' <=> InSession(d, k)
    BY <1>1 DEF InSession, InstOf
  <2>4. (Claims(d, k)' <=> Claims(d, k)) /\ (JustOpened(d, k)' <=> JustOpened(d, k))
    BY <1>1, <1>2 DEF Claims, JustOpened
  <2> QED BY <1>1, <1>8, <2>2, <2>3, <2>4 DEF Held
<1>9. AllHeld'
  BY <1>1, <1>8 DEF Inv0, AllHeld
<1>10. Users'
  <2> SUFFICES ASSUME ~loaded, NEW p \in 1 .. Len(usb)
               PROVE  UsedBy(usb', D, insts', p) /\ Unclaimed(p)'
    BY <1>1 DEF Users, Elsewhere
  <2>1. UsedBy(usb, D, insts, p) /\ Unclaimed(p)
    BY DEF Inv0, Users
  <2>2. usb'[p].model = usb[p].model /\ usb'[p].user = usb[p].user
    BY DEF Elsewhere
  <2> QED BY <1>1, <1>2, <2>1, <2>2 DEF UsedBy, Unclaimed, Claims
<1> QED BY <1>3, <1>6, <1>7, <1>9, <1>10

\* A device leaves the bus.
LEMMA LeaveIs ==
    ASSUME Inv0, NEW p \in Devices, Leave(p)
    PROVE  Elsewhere
<1>1. /\ World(usb, now, Range(drivers), insts) /\ Bus(usb, now)
      /\ usb \in Seq(UsbRecs) /\ DOMAIN usb = 1 .. Len(usb)
  BY DEF Inv0, Devs0, World, Bus
<1>2. p \in 1 .. Len(usb) /\ usb[p] \in UsbRecs
  BY <1>1 DEF Devices
<1> DEFINE r == [usb[p] EXCEPT !.place = "gone"]
<1>3. /\ usb[p].place = "leaving" /\ usb' = [usb EXCEPT ![p] = r]
      /\ UNCHANGED <<lost, insts, opening, now>>
  BY <1>1, <1>2 DEF Leave
<1>4. /\ r \in UsbRecs /\ AlikeDev([usb[p] EXCEPT !.user = usb[p].user], r)
      /\ r.model = usb[p].model /\ r.kind = usb[p].kind /\ r.user = usb[p].user
      /\ r.place = "gone" /\ r.since = usb[p].since /\ r.addr = usb[p].addr
  <2>1. usb[p].user <= MaxInsts
    BY <1>1, <1>2 DEF Bus, Sane
  <2>2. "gone" \in Places
    BY DEF Places
  <2>3. /\ r \in UsbRecs
        /\ r.model = usb[p].model /\ r.kind = usb[p].kind /\ r.user = usb[p].user
        /\ r.place = "gone" /\ r.since = usb[p].since /\ r.addr = usb[p].addr
    BY <1>2, <2>2 DEF UsbRecs
  <2>4. [usb[p] EXCEPT !.user = usb[p].user] = usb[p]
    BY <1>2 DEF UsbRecs
  <2> HIDE DEF r
  <2> QED BY <1>3, <2>1, <2>3, <2>4 DEF AlikeDev
<1> HIDE DEF r
<1>5. /\ usb' \in Seq(UsbRecs) /\ Len(usb') = Len(usb)
      /\ \A q \in 1 .. Len(usb) : usb'[q] = IF q = p THEN r ELSE usb[q]
  BY <1>1, <1>2, <1>3, <1>4
<1>6. Alike(usb, usb')
  <2> SUFFICES ASSUME NEW q \in 1 .. Len(usb) PROVE AlikeDev(usb[q], usb'[q])
    BY <1>5 DEF Alike
  <2>1. usb[q].user <= MaxInsts
    BY <1>1 DEF Bus, Sane
  <2> QED BY <1>3, <1>4, <1>5, <2>1 DEF AlikeDev
<1>7. World(usb', now, Range(drivers), insts)
  <2>1. now \in 1 .. MaxTime /\ now <= now
    BY <1>1, Constants DEF Bus
  <2> QED BY <1>1, <1>6, <2>1, AlikeWorld
<1>8. opening \in Openings /\ opening.looked <= now
  BY DEF Inv0, OpeningOf
<1> QED BY <1>3, <1>4, <1>5, <1>7, <1>8 DEF Elsewhere

\* A device returns to the bus, with the firmware.
LEMMA ReturnIs ==
    ASSUME Inv0, NEW p \in Devices, Return(p)
    PROVE  Elsewhere
<1> DEFINE D == Range(drivers)
<1>1. /\ World(usb, now, D, insts) /\ Bus(usb, now)
      /\ usb \in Seq(UsbRecs) /\ DOMAIN usb = 1 .. Len(usb) /\ Len(usb) \in Nat
  BY DEF Inv0, Devs0, World, Bus
<1>2. p \in 1 .. Len(usb) /\ usb[p] \in UsbRecs /\ now \in Nat \ {0} /\ now \in 1 .. MaxTime
  BY <1>1, Constants DEF Devices, Bus
<1> DEFINE r == [usb[p] EXCEPT !.place = "loaded", !.since = now, !.addr = @ + Len(usb)]
<1>3. /\ usb[p].place = "gone" /\ usb' = [usb EXCEPT ![p] = r]
      /\ UNCHANGED <<lost, insts, opening, now>>
  BY <1>1, <1>2 DEF Return
<1>4. /\ r \in UsbRecs
      /\ r.model = usb[p].model /\ r.kind = usb[p].kind /\ r.user = usb[p].user
      /\ r.place = "loaded" /\ r.since = now /\ r.addr = usb[p].addr + Len(usb)
  <2>1. "loaded" \in Places /\ usb[p].addr + Len(usb) \in Nat
    BY <1>1, <1>2, UsbFields DEF Places
  <2> QED BY <1>2, <2>1 DEF UsbRecs
<1>5. /\ usb[p].since = Never /\ usb[p].addr = p /\ usb[p].user <= MaxInsts
  BY <1>1, <1>2, <1>3 DEF Bus, Sane
<1> HIDE DEF r
<1>6. /\ usb' \in Seq(UsbRecs) /\ Len(usb') = Len(usb)
      /\ \A q \in 1 .. Len(usb) : usb'[q] = IF q = p THEN r ELSE usb[q]
  BY <1>1, <1>2, <1>3, <1>4
<1>7. Bus(usb', now)
  <2>1. Sane(usb', now, p)
    BY <1>2, <1>4, <1>5, <1>6 DEF Sane, Never
  <2>2. \A q \in 1 .. Len(usb) : q # p => Sane(usb', now, q)
    BY <1>1, <1>6 DEF Bus, Sane
  <2> QED BY <1>1, <1>6, <2>1, <2>2 DEF Bus
<1>8. ASSUME NEW d \in D, NEW k \in 1 .. Len(insts[d])
      PROVE  Sound(usb', now, d, insts[d][k])
  <2> DEFINE i == insts[d][k]
  <2>1. Sound(usb, now, d, i) /\ i \in InstRecs
    BY <1>1 DEF World, Typed
  <2>2. i.found \in Nat /\ i.handle.dev \in Nat
    BY <2>1, InstFields
  <2> HIDE DEF i
  <2>3. ASSUME d \in Fx PROVE OfFx(usb', d, i)
    <3>1. OfFx(usb, d, i) /\ i.found \in 0 .. Len(usb) /\ i.handle.dev \in 0 .. Len(usb)
      BY <2>1, <2>3 DEF Sound
    <3>2. i.found \in 1 .. Len(usb) /\ (i.handle.dev # 0 => i.handle.dev \in 1 .. Len(usb))
      BY <2>2, <3>1 DEF OfFx
    <3>3. FoundSane(usb', i)
      <4>1. CASE i.found = p
        BY <1>2, <1>4, <1>6, <4>1 DEF FoundSane, Never
      <4>2. CASE i.found # p
        BY <1>6, <3>1, <3>2, <4>2 DEF OfFx, FoundSane, Shows
      <4> QED BY <4>1, <4>2
    <3>4. \A q \in 1 .. Len(usb) : usb'[q].model = usb[q].model
      BY <1>4, <1>6
    <3> QED BY <1>6, <3>1, <3>2, <3>3, <3>4 DEF OfFx
  <2>4. Sound(usb', now, d, i)
    BY <1>6, <2>1, <2>3 DEF Sound
  <2> QED BY <2>4 DEF i
<1>9. World(usb', now, D, insts)
  BY <1>1, <1>7, <1>8 DEF World
<1>10. opening \in Openings /\ opening.looked <= now
  BY DEF Inv0, OpeningOf
<1> QED BY <1>3, <1>4, <1>6, <1>9, <1>10 DEF Elsewhere

\* Time passes.
LEMMA TickIs ==
    ASSUME Inv0, Tick
    PROVE  Elsewhere
<1>1. /\ World(usb, now, Range(drivers), insts) /\ Bus(usb, now)
      /\ usb \in Seq(UsbRecs) /\ Len(usb) \in Nat /\ now \in 1 .. MaxTime
  BY DEF Inv0, Devs0, World, Bus
<1>2. UNCHANGED <<usb, lost, insts>>
  BY DEF Tick
<1>3. now' \in 1 .. MaxTime /\ now <= now'
  <2>1. now \in Int /\ now + 1 \in Int /\ MaxTime \in Int
    BY <1>1, Constants
  <2>2. now' = Min({now + 1, MaxTime})
    BY DEF Tick
  <2>3. now' = IF now + 1 <= MaxTime THEN now + 1 ELSE MaxTime
    BY <2>1, <2>2, OfTwo
  <2> QED BY <1>1, <2>1, <2>3
<1>4. Alike(usb, usb)
  BY <1>1 DEF Alike, AlikeDev, Bus, Sane
<1>5. World(usb', now', Range(drivers), insts)
  BY <1>1, <1>2, <1>3, <1>4, AlikeWorld
<1>6. /\ opening \in Openings /\ opening.looked <= now /\ opening.wait \in 0 .. ResetDelay
      /\ opening.looked \in Nat
  BY DEF Inv0, OpeningOf, Openings
<1> DEFINE w == Max({0, opening.wait - 1})
<1>7. w \in 0 .. ResetDelay
  <2>1. PICK x \in 0 .. ResetDelay : x = opening.wait
    BY <1>6
  <2>2. x \in Int /\ x - 1 \in Int /\ ResetDelay \in Int /\ x <= ResetDelay
    BY <2>1, Constants
  <2>3. Max({0, x - 1}) = IF 0 >= x - 1 THEN 0 ELSE x - 1
    BY <2>2, OfTwo
  <2> QED BY <2>1, <2>2, <2>3
<1>8. opening' = [opening EXCEPT !.wait = w]
  BY DEF Tick
<1> HIDE DEF w
<1>9. /\ opening' \in Openings
      /\ \A f \in {"stage", "drv", "inst", "ret", "looked"} : opening'[f] = opening[f]
  BY <1>6, <1>7, <1>8 DEF Openings
<1>10. opening.looked <= now'
  BY <1>1, <1>3, <1>6, Constants
<1> QED BY <1>2, <1>5, <1>9, <1>10 DEF Elsewhere

-----------------------------------------------------------------------------
(* The open that runs *)

\* What is known while it runs.
LEMMA Running ==
    ASSUME Inv0, opening.stage # "idle"
    PROVE  /\ opening \in Openings /\ pc \in Waiting /\ pc # "done"
           /\ session.devs = <<>> /\ opening.ret = "none"
           /\ opening.drv \in Fx \cap Range(drivers)
           /\ opening.inst \in 1 .. Len(insts[opening.drv])
           /\ insts[opening.drv] # <<>>
           /\ Opened = insts[opening.drv][opening.inst] /\ Opened \in InstRecs
           /\ Sound(usb, now, opening.drv, Opened)
           /\ OfFx(usb, opening.drv, Opened)
           /\ opening.drv = Driver /\ opening.inst = IndexIn(insts[opening.drv], Index)
           /\ opening.inst \in Nat \ {0} /\ opening.inst <= MaxInsts
           /\ Opened.found \in 1 .. Len(usb)
<1>1. /\ opening \in Openings /\ pc \in Waiting /\ session.devs = <<>>
      /\ opening.ret = "none" /\ opening.drv \in Fx \cap Range(drivers)
      /\ opening.inst # 0
      /\ opening.drv = Driver /\ opening.inst = InstOf(Driver, Index)
  BY DEF Inv0, OpeningOf
<1>2. pc # "done"
  BY <1>1 DEF Waiting
<1>3. /\ opening.inst \in 1 .. Len(insts[opening.drv])
      /\ insts[opening.drv] \in Seq(InstRecs)
      /\ Opened = insts[opening.drv][opening.inst] /\ Opened \in InstRecs
      /\ Sound(usb, now, opening.drv, Opened)
  BY <1>1, <1>2, OpenedIs DEF Inv0
<1>4. OfFx(usb, opening.drv, Opened)
  BY <1>1, <1>3 DEF Sound
<1>5. opening.inst = IndexIn(insts[opening.drv], Index)
  BY <1>1, IndexIsInstOf
<1>6. /\ insts[opening.drv] # <<>> /\ opening.inst \in Nat \ {0}
      /\ opening.inst <= MaxInsts
  <2>1. Len(insts[opening.drv]) <= MaxInsts /\ Len(insts[opening.drv]) \in Nat
    BY <1>1, <1>3 DEF Inv0, Devs0, World
  <2> QED BY SMTT(30), <1>3, <2>1, Constants
<1>7. Opened.found \in 1 .. Len(usb)
  <2>1. Opened.found # 0 /\ Opened.found \in 0 .. Len(usb) /\ Opened.found \in Nat
    BY ZenonT(30), <1>3, <1>4, InstFields DEF OfFx, Sound
  <2> QED BY <2>1
<1> QED BY <1>1, <1>2, <1>3, <1>4, <1>5, <1>6, <1>7

\* The instance that is opened becomes j, and the open goes on or returns.
Trying(j) ==
    /\ insts' = [insts EXCEPT ![opening.drv][opening.inst] = j]
    /\ j \in InstRecs /\ KeptInst(Opened, j) /\ Sound(usb, now, opening.drv, j)
    /\ UNCHANGED <<usb, now>> /\ lost' \subseteq {"upload", "unfit"}
    /\ opening' \in Openings /\ opening'.drv = opening.drv
    /\ opening'.inst = opening.inst /\ opening'.looked <= now
    /\ opening'.stage \in {"idle", "again", "claim"}
    /\ opening'.stage = "idle" <=> opening'.ret = "error"
    /\ opening'.ret \in {"none", "error"}

\* An attempt that finds no device, or finds one.
LEMMA TryingKeeps ==
    ASSUME Inv0, Outside, opening.stage \in {"once", "first", "again"},
           NEW j, Trying(j),
           j.status = "active" => j = Opened \/ opening'.stage = "claim",
           opening'.stage = "claim" => j.status = "active" /\ Opened.status # "active",
           j # Opened => Opened.status # "active",
           opening'.stage # "claim" /\ Len(usb) = 1 /\ usb[1].kind = "fine" =>
               \/ j.status = "active" \/ j.updated = Never \/ usb[1].place # "loaded"
               \/ usb[1].since >= opening'.looked
               \/ j.addr # NoAddress /\ j.addr # usb[1].addr
    PROVE  Devs0' /\ OpeningOf' /\ Reasons' /\ AllHeld' /\ Users'
<1> DEFINE D == Range(drivers)
           d0 == opening.drv
           k0 == opening.inst
<1>1. /\ drivers' = drivers /\ devs' = devs /\ session' = session /\ pc' = pc
      /\ dev' = dev /\ loaded' = loaded /\ usb' = usb /\ now' = now
  BY DEF Outside, Trying
<1>2. /\ opening \in Openings /\ pc \in Waiting /\ pc # "done"
      /\ session.devs = <<>> /\ opening.ret = "none"
      /\ d0 \in Fx \cap D /\ k0 \in 1 .. Len(insts[d0]) /\ k0 # 0
      /\ Opened = insts[d0][k0]
      /\ d0 = Driver /\ k0 = IndexIn(insts[d0], Index)
  BY Running
<1>3. World(usb, now, D, insts) /\ Typed(D, insts) /\ insts \in [D -> Seq(InstRecs)]
  BY DEF Inv0, Devs0, World, Typed
<1>4. /\ World(usb, now, D, insts') /\ Typed(D, insts')
      /\ \A d \in D : Len(insts'[d]) = Len(insts[d])
      /\ insts'[d0][k0] = j
      /\ \A d \in D : \A k \in 1 .. Len(insts[d]) :
             d # d0 \/ k # k0 => insts'[d][k] = insts[d][k]
  <2>1. /\ insts' = [insts EXCEPT ![d0][k0] = j] /\ j \in InstRecs
        /\ Sound(usb, now, d0, j)
    BY DEF Trying
  <2> HIDE DEF d0, k0, D
  <2>2. World(usb, now, D, insts') /\ Typed(D, insts')
    BY <1>2, <1>3, <2>1, OneWorld
  <2> QED BY <1>2, <1>3, <2>1, <2>2, OneChanges
<1>5. Kept(D, insts, insts')
  <2>1. ASSUME NEW d \in D, NEW k \in 1 .. Len(insts[d])
        PROVE  KeptInst(insts[d][k], insts'[d][k])
    <3>1. CASE d = d0 /\ k = k0
      BY <1>2, <1>4, <3>1 DEF Trying
    <3>2. CASE d # d0 \/ k # k0
      BY <1>4, <3>2 DEF KeptInst
    <3> QED BY <3>1, <3>2
  <2> QED BY <1>4, <2>1 DEF Kept
<1>6. Devs0'
  BY <1>1, <1>4 DEF Inv0, Devs0, Trying
<1>7. Driver' = Driver /\ Index' = Index /\ Opened' = j
  BY <1>1, <1>4 DEF Driver, Index, Opened, Trying
<1>8. InstOf(Driver, Index)' = k0
  <2>1. PICK x : x = Index
    OBVIOUS
  <2>2. IndexIn(insts'[d0], x) = IndexIn(insts[d0], x)
    <3>1. d0 \in D /\ Typed(D, insts) /\ Typed(D, insts') /\ Kept(D, insts, insts')
      BY <1>2, <1>3, <1>4, <1>5
    <3> HIDE DEF d0, D
    <3> QED BY ONLY <3>1, SameIndex
  <2> QED BY <1>2, <1>7, <2>1, <2>2, IndexIsInstOf
<1>9. /\ opening' \in Openings /\ opening'.drv = d0 /\ opening'.inst = k0
      /\ opening'.looked <= now
      /\ opening'.stage \in {"idle", "again", "claim"}
      /\ opening'.stage = "idle" <=> opening'.ret = "error"
      /\ opening'.ret \in {"none", "error"}
  BY DEF Trying
<1>10. OpeningOf'
  <2>1. opening'.stage = "claim" => Opened'.status = "active"
    BY <1>7
  <2>2. opening'.inst \in 1 .. Len(insts'[opening'.drv])
    BY <1>2, <1>4, <1>9
  <2> HIDE DEF d0, k0
  <2> QED BY ONLY <1>1, <1>2, <1>7, <1>8, <1>9, <2>1, <2>2 DEF OpeningOf, D
<1>11. Reasons'
  BY <1>1, <1>7, <1>9 DEF Reasons, Because
<1>12. AllHeld'
  <2> SUFFICES ASSUME ~loaded, NEW d \in Fx \cap D, NEW k \in 1 .. Len(insts[d])
               PROVE  Held(d, k)'
    BY <1>1, <1>4 DEF AllHeld
  <2>1. Held(d, k)
    BY DEF Inv0, AllHeld
  <2>2. ~Claims(d, k) /\ ~InSession(d, k) /\ ~JustOpened(d, k)
    BY <1>2, SessionHas DEF Claims, JustOpened
  <2>3. Loose(usb, k, insts[d][k])
    BY <2>1, <2>2 DEF Held
  <2>4. CASE d = d0 /\ k = k0
    <3>1. insts'[d][k] = j /\ Opened = insts[d][k]
      BY <1>2, <1>4, <2>4
    <3>2. CASE j.status = "active" /\ opening'.stage = "claim"
      BY <1>9, <2>4, <3>2 DEF Held, Claims
    <3>3. CASE j.status = "active" /\ j = Opened
      BY <1>1, <2>3, <3>1, <3>3 DEF Held
    <3>4. CASE j.status # "active"
      BY <3>1, <3>4 DEF Held, Loose
    <3> QED BY <3>2, <3>3, <3>4
  <2>5. CASE d # d0 \/ k # k0
    <3>1. insts'[d][k] = insts[d][k]
      BY <1>4, <2>5
    <3> QED BY <1>1, <2>3, <3>1 DEF Held
  <2> QED BY <2>4, <2>5
<1>13. Users'
  <2> SUFFICES ASSUME ~loaded, NEW p \in 1 .. Len(usb)
               PROVE  UsedBy(usb, D, insts', p) /\ Unclaimed(p)'
    BY <1>1 DEF Users
  <2>1. UsedBy(usb, D, insts, p)
    BY DEF Inv0, Users
  <2>2. CASE usb[p].user = 0
    BY <1>1, <2>2 DEF UsedBy, Unclaimed
  <2>3. CASE usb[p].user # 0
    <3> DEFINE d == DriverOf[usb[p].model]
               k == usb[p].user
    <3>1. /\ d \in D /\ k \in 1 .. Len(insts[d])
          /\ insts[d][k].status = "active" /\ insts[d][k].handle.dev = p
      BY <2>1, <2>3 DEF UsedBy
    <3>2. insts'[d][k] = insts[d][k]
      <4>1. CASE d = d0 /\ k = k0
        BY <1>2, <1>4, <3>1, <4>1
      <4>2. CASE d # d0 \/ k # k0
        BY <1>4, <3>1, <4>2
      <4> QED BY <4>1, <4>2
    <3>3. UsedBy(usb, D, insts', p)
      BY <1>4, <3>1, <3>2 DEF UsedBy
    <3>4. ~(opening'.stage = "claim" /\ d = d0 /\ k = k0)
      BY <1>2, <3>1
    <3>5. Unclaimed(p)'
      BY <1>1, <1>9, <3>4 DEF Unclaimed, Claims
    <3> QED BY <3>3, <3>5
  <2> QED BY <2>2, <2>3
<1> QED BY <1>6, <1>10, <1>11, <1>12, <1>13

\* Which device an attempt takes: one that matches, and has the address that
\* the instance knows; the only one, if that does.
LEMMA WantedIs ==
    ASSUME Inv0, opening.stage # "idle",
           NEW list \in Listings({p \in Devices : Matches(p)})
    PROVE  LET p == Wanted(list) IN
           /\ p # 0 =>
                  /\ p \in 1 .. Len(usb) /\ Matches(p) /\ Opened.status # "active"
                  /\ Opened.status = "inactive" => usb[p].addr = Opened.addr
           /\ Len(usb) = 1 /\ Matches(1) =>
                  \/ p = 1 \/ Opened.status = "active"
                  \/ Opened.status = "inactive" /\ Opened.addr # usb[1].addr
<1> DEFINE P == {p \in Devices : Matches(p)}
<1>1. usb \in Seq(UsbRecs) /\ Len(usb) \in Nat /\ Devices = 1 .. Len(usb)
  BY DEF Inv0, Devs0, World, Bus, Devices
<1>2. P \in SUBSET (1 .. Len(usb)) /\ \A p \in P : Matches(p)
  BY <1>1
<1>3. list \in Seq(P) /\ Len(list) \in Nat /\ \A p \in P : \E k \in 1 .. Len(list) : list[k] = p
  <2>1. list \in Listings(P)
    OBVIOUS
  <2> HIDE DEF P
  <2>2. list \in Seq(P) /\ \A p \in P : \E k \in 1 .. Len(list) : list[k] = p
    BY <1>1, <1>2, <2>1, ListingOf
  <2> QED BY <2>2
<1> HIDE DEF P
<1>4. DOMAIN list = 1 .. Len(list) /\ \A k \in 1 .. Len(list) : list[k] \in P
  BY <1>3
<1>5. /\ Opened.status \in {"initializing", "inactive", "active"} /\ Opened.index \in Nat
      /\ Len(usb) = 1 => Opened.index = 0
  <2>1. Opened \in InstRecs /\ OfFx(usb, opening.drv, Opened)
    BY Running
  <2> QED BY <2>1, InstFields DEF Statuses, OfFx
<1>6. Len(usb) = 1 /\ Matches(1) => 1 \in P /\ P = {1}
  BY <1>1, <1>2 DEF P
<1>7. CASE Opened.status = "active"
  BY <1>7 DEF Wanted
<1>8. CASE Opened.status = "initializing"
  <2> DEFINE k == Opened.index + 1
  <2>1. Wanted(list) = AtPlace(list, k)
    BY <1>8 DEF Wanted
  <2>2. AtPlace(list, k) = IF k \in 1 .. Len(list) THEN list[k] ELSE 0
    BY <1>4 DEF AtPlace
  <2>3. ASSUME k \in 1 .. Len(list) PROVE list[k] \in 1 .. Len(usb) /\ Matches(list[k])
    BY <1>2, <1>4, <2>3
  <2>4. Len(usb) = 1 /\ Matches(1) => k \in 1 .. Len(list) /\ list[k] = 1
    BY <1>3, <1>4, <1>5, <1>6
  <2> HIDE DEF k
  <2> QED BY <1>8, <2>1, <2>2, <2>3, <2>4
<1>9. CASE Opened.status = "inactive"
  <2> DEFINE hits == {k \in DOMAIN list : usb[list[k]].addr = Opened.addr}
             m == Min(hits)
  <2>1. Wanted(list) = IF hits = {} THEN 0 ELSE list[m]
    BY <1>9 DEF Wanted, AtAddress
  <2>2. hits # {} => m \in hits
    <3>1. hits \in SUBSET Nat
      BY <1>4
    <3> HIDE DEF hits
    <3> QED BY <3>1, Least
  <2> HIDE DEF m
  <2>3. ASSUME hits # {}
        PROVE  /\ list[m] \in 1 .. Len(usb) /\ Matches(list[m])
               /\ usb[list[m]].addr = Opened.addr
    BY <1>2, <1>4, <2>2, <2>3
  <2>4. ASSUME Len(usb) = 1, Matches(1)
        PROVE  Wanted(list) = 1 \/ Opened.addr # usb[1].addr
    <3>1. PICK k \in 1 .. Len(list) : list[k] = 1
      BY <1>3, <1>6, <2>4
    <3>2. CASE usb[1].addr = Opened.addr
      <4>1. hits # {}
        BY <1>4, <3>1, <3>2
      <4>2. list[m] \in 1 .. 1
        BY <2>3, <2>4, <4>1
      <4> QED BY <2>1, <4>1, <4>2
    <3> QED BY <3>2
  <2> HIDE DEF hits
  <2> QED BY <1>9, <2>1, <2>3, <2>4
<1> QED BY <1>5, <1>7, <1>8, <1>9

\* The device that was found is the one at its address.
LEMMA AddressOf ==
    ASSUME NEW u, NEW t, Bus(u, t), NEW p \in 1 .. Len(u), NEW q \in 1 .. Len(u),
           u[q].since = Never, u[p].addr = q
    PROVE  p = q
<1>1. Sane(u, t, p) /\ Len(u) \in Nat
  BY UsbFields DEF Bus
<1>2. CASE u[p].since = Never
  BY <1>1, <1>2 DEF Sane
<1>3. CASE u[p].since # Never
  <2>1. q = p + Len(u)
    BY <1>1, <1>3 DEF Sane
  <2> QED BY <1>1, <2>1
<1> QED BY <1>2, <1>3

\* A device is opened for an instance.
LEMMA OpenDeviceIs ==
    ASSUME Inv0, opening.stage # "idle", NEW p \in 1 .. Len(usb), Matches(p),
           Opened.status # "active",
           Opened.status = "inactive" => usb[p].addr = Opened.addr
    PROVE  LET j == OpenDevice(p) IN
           /\ j \in InstRecs /\ KeptInst(Opened, j) /\ Sound(usb, now, opening.drv, j)
           /\ j.status = "active" <=> Answers(p)
<1> DEFINE i == Opened
           h == [dev |-> p, addr |-> usb[p].addr]
           a == IF i.addr = NoAddress THEN usb[p].addr ELSE i.addr
           s == IF Answers(p) THEN "active" ELSE i.status
           j == [i EXCEPT !.handle = h, !.addr = a, !.status = s]
<1>1. OpenDevice(p) = j
  BY DEF OpenDevice
<1>2. /\ i \in InstRecs /\ Sound(usb, now, opening.drv, i)
      /\ OfFx(usb, opening.drv, i) /\ i.found \in 1 .. Len(usb)
  BY Running
<1>3. Bus(usb, now) /\ Sane(usb, now, p) /\ 2 * Len(usb) < NoAddress
  BY DEF Inv0, Devs0, World, Bus
<1>4. usb[p].addr \in Nat /\ usb[p].addr <= 2 * Len(usb) /\ Len(usb) \in Nat
  BY <1>3, UsbFields DEF Sane
<1>5. usb[p].addr # NoAddress
  BY <1>3, <1>4 DEF NoAddress
<1>6. h \in Handles /\ h.dev = p /\ h.dev # 0
  BY <1>4 DEF Handles
<1>7. a \in Nat /\ a # NoAddress /\ (i.addr # NoAddress => a = i.addr)
  BY <1>2, <1>4, <1>5, InstFields
<1>8. s \in Statuses /\ (s = "active" <=> Answers(p)) /\ (s # "active" => s = i.status)
  BY <1>2, InstFields DEF Statuses
<1> HIDE DEF h, a, s, i
<1>9. /\ j \in InstRecs /\ j.handle = h /\ j.addr = a /\ j.status = s
      /\ j.index = i.index /\ j.updated = i.updated /\ j.found = i.found
  BY <1>2, <1>6, <1>7, <1>8 DEF InstRecs
<1> HIDE DEF j
<1>10. usb[p].model = usb[i.found].model
  BY DEF Matches, i
<1>11. FoundSane(usb, j)
  <2> SUFFICES ASSUME Shows(usb, i.found), usb[i.found].since = Never
               PROVE  /\ j.addr = i.found /\ j.status # "initializing"
                      /\ j.status = "active" => j.handle.dev = i.found
    BY <1>9 DEF FoundSane
  <2>1. i.addr = i.found /\ i.status # "initializing"
    BY <1>2 DEF OfFx, FoundSane
  <2>2. i.addr # NoAddress
    BY <1>2, <2>1 DEF OfFx
  <2>3. i.status = "inactive"
    BY <1>2, <2>1, InstFields DEF i, Statuses
  <2>4. usb[p].addr = i.found
    BY <2>1, <2>3 DEF i
  <2>5. p = i.found
    BY <1>2, <1>3, <2>4, AddressOf
  <2> QED BY <1>6, <1>7, <1>8, <1>9, <2>1, <2>2, <2>3, <2>5
<1>12. OfFx(usb, opening.drv, j)
  BY <1>2, <1>6, <1>7, <1>8, <1>9, <1>10, <1>11 DEF OfFx
<1>13. Sound(usb, now, opening.drv, j)
  <2>1. p \in 0 .. Len(usb)
    OBVIOUS
  <2> QED BY <1>2, <1>6, <1>9, <1>12, <2>1 DEF Sound
<1>14. KeptInst(Opened, j)
  BY <1>9 DEF KeptInst, i
<1> QED BY <1>1, <1>8, <1>9, <1>13, <1>14

\* Where a failed attempt leaves the open.
LEMMA RetryIs ==
    ASSUME Inv0, opening.stage # "idle"
    PROVE  /\ Returns("error") \in Openings /\ Retry \in Openings
           /\ \A o \in {Returns("error"), Retry} :
                  /\ o.drv = opening.drv /\ o.inst = opening.inst /\ o.looked <= now
                  /\ o.stage \in {"idle", "again"}
                  /\ o.stage = "idle" <=> o.ret = "error"
                  /\ o.ret \in {"none", "error"}
           /\ Returns("error").looked = opening.looked
           /\ opening.stage # "once" => Retry.looked = now
<1>1. /\ opening \in Openings /\ opening.ret = "none" /\ opening.looked <= now
      /\ now \in 1 .. MaxTime
  BY Running DEF Inv0, OpeningOf, Devs0, World, Bus
<1>2. now \in Nat /\ now <= now /\ 0 \in 0 .. ResetDelay /\ 1 \in 0 .. ResetDelay
  BY <1>1, Constants
<1> DEFINE o1 == [opening EXCEPT !.stage = "idle", !.wait = 0, !.ret = "error"]
           o2 == [opening EXCEPT !.stage = "again", !.wait = 1, !.looked = now]
<1>3. /\ Returns("error") = o1
      /\ Retry = IF opening.stage = "once" THEN o1 ELSE o2
  BY DEF Retry, Returns
<1>4. /\ o1 \in Openings /\ o1.drv = opening.drv /\ o1.inst = opening.inst
      /\ o1.looked = opening.looked /\ o1.stage = "idle" /\ o1.ret = "error"
  BY <1>1, <1>2 DEF Openings
<1>5. /\ o2 \in Openings /\ o2.drv = opening.drv /\ o2.inst = opening.inst
      /\ o2.looked = now /\ o2.stage = "again" /\ o2.ret = "none"
  BY <1>1, <1>2 DEF Openings
<1> HIDE DEF o1, o2
<1> QED BY <1>1, <1>2, <1>3, <1>4, <1>5

\* An instance that stays is put where it was.
LEMMA Nothing ==
    ASSUME Inv0, opening.stage # "idle"
    PROVE  insts = [insts EXCEPT ![opening.drv][opening.inst] = Opened]
<1>1. insts \in [Range(drivers) -> Seq(InstRecs)]
  BY DEF Inv0, Devs0, World, Typed
<1>2. /\ opening.drv \in Range(drivers) /\ opening.inst \in 1 .. Len(insts[opening.drv])
      /\ Opened = insts[opening.drv][opening.inst]
  BY Running
<1>3. insts[opening.drv] \in Seq(InstRecs)
  BY <1>1, <1>2
<1>4. insts[opening.drv] = [insts[opening.drv] EXCEPT ![opening.inst] = Opened]
  BY <1>2, <1>3
<1>5. [insts EXCEPT ![opening.drv][opening.inst] = Opened]
        = [insts EXCEPT ![opening.drv] = [insts[opening.drv] EXCEPT ![opening.inst] = Opened]]
  OBVIOUS
<1> QED BY <1>1, <1>2, <1>4, <1>5

\* One attempt.
LEMMA AttemptKeeps ==
    ASSUME Inv0, Outside, Attempt
    PROVE  Devs0' /\ OpeningOf' /\ Reasons' /\ AllHeld' /\ Users'
<1>1. /\ opening.stage \in {"once", "first", "again"} /\ opening.stage # "idle"
      /\ UNCHANGED <<usb, now>>
  BY DEF Attempt
<1>2. PICK list \in Listings({p \in Devices : Matches(p)}) :
          LET p == Wanted(list) IN
          IF p = 0 \/ (p # 0 /\ usb[p].kind = "unopenable")
          THEN opening' = Retry /\ UNCHANGED <<lost, insts>>
          ELSE /\ lost' = lost \cup Overwritten
               /\ insts' = [insts EXCEPT ![opening.drv][opening.inst] = OpenDevice(p)]
               /\ opening' = IF Answers(p) THEN [opening EXCEPT !.stage = "claim"] ELSE Retry
  BY DEF Attempt
<1> DEFINE p == Wanted(list)
<1>3. /\ p # 0 =>
             /\ p \in 1 .. Len(usb) /\ Matches(p) /\ Opened.status # "active"
             /\ Opened.status = "inactive" => usb[p].addr = Opened.addr
      /\ Len(usb) = 1 /\ Matches(1) =>
             \/ p = 1 \/ Opened.status = "active"
             \/ Opened.status = "inactive" /\ Opened.addr # usb[1].addr
  BY <1>1, <1>2, WantedIs
<1> HIDE DEF p
<1>4. /\ Opened \in InstRecs /\ Sound(usb, now, opening.drv, Opened)
      /\ OfFx(usb, opening.drv, Opened) /\ Opened.found \in 1 .. Len(usb)
      /\ opening \in Openings /\ opening.ret = "none"
  BY <1>1, Running
<1>5. /\ Retry \in Openings /\ Retry.drv = opening.drv /\ Retry.inst = opening.inst
      /\ Retry.looked <= now /\ Retry.stage \in {"idle", "again"}
      /\ (Retry.stage = "idle" <=> Retry.ret = "error")
      /\ Retry.ret \in {"none", "error"}
      /\ opening.stage # "once" => Retry.looked = now
  BY <1>1, RetryIs
<1>6. lost \subseteq {"upload", "unfit"} /\ opening.looked <= now
  BY DEF Inv0, Devs0, OpeningOf
<1>8. ASSUME Len(usb) = 1, usb[1].place = "loaded" PROVE Matches(1)
  <2>1. Opened.found = 1 /\ Devices = 1 .. 1
    <3>1. usb \in Seq(UsbRecs)
      BY DEF Inv0, Devs0, World, Bus
    <3> QED BY <1>4, <1>8, <3>1 DEF Devices
  <2> QED BY <1>8, <2>1 DEF Matches, OnBus, HasFirmware
<1>10. CASE p = 0 \/ usb[p].kind = "unopenable"
  <2>1. opening' = Retry /\ UNCHANGED <<lost, insts>>
    BY <1>2, <1>10 DEF p
  <2>2. Trying(Opened)
    <3>1. insts' = [insts EXCEPT ![opening.drv][opening.inst] = Opened]
      BY <1>1, <2>1, Nothing
    <3> QED BY <1>1, <1>4, <1>5, <1>6, <2>1, <3>1 DEF Trying, KeptInst
  <2>3. ASSUME Len(usb) = 1, usb[1].kind = "fine"
        PROVE  \/ Opened.status = "active" \/ Opened.updated = Never
               \/ usb[1].place # "loaded" \/ usb[1].since >= opening'.looked
               \/ Opened.addr # NoAddress /\ Opened.addr # usb[1].addr
    <3>1. p # 1
      BY <1>10, <2>3
    <3>2. Opened.status = "inactive" => Opened.addr # NoAddress
      BY <1>4 DEF OfFx
    <3> QED BY <1>3, <1>8, <2>3, <3>1, <3>2
  <2> QED BY <1>1, <1>5, <2>1, <2>2, <2>3, TryingKeeps
<1>11. CASE p # 0 /\ usb[p].kind # "unopenable"
  <2> DEFINE j == OpenDevice(p)
  <2>1. /\ lost' = lost \cup Overwritten
        /\ insts' = [insts EXCEPT ![opening.drv][opening.inst] = j]
        /\ opening' = IF Answers(p) THEN [opening EXCEPT !.stage = "claim"] ELSE Retry
    BY <1>2, <1>11 DEF p
  <2>2. /\ j \in InstRecs /\ KeptInst(Opened, j) /\ Sound(usb, now, opening.drv, j)
        /\ j.status = "active" <=> Answers(p)
    BY <1>1, <1>3, <1>11, OpenDeviceIs
  <2> HIDE DEF j
  <2>3. Overwritten \subseteq {"unfit"}
    BY <1>3, <1>11 DEF Overwritten
  <2>4. LET o == [opening EXCEPT !.stage = "claim"] IN
        /\ o \in Openings /\ o.drv = opening.drv /\ o.inst = opening.inst
        /\ o.looked <= now /\ o.stage = "claim" /\ o.ret = "none"
    BY <1>4, <1>6 DEF Openings
  <2>5. Trying(j)
    <3>1. lost' \subseteq {"upload", "unfit"}
      BY <1>6, <2>1, <2>3
    <3>2. CASE Answers(p)
      BY <1>1, <2>1, <2>2, <2>4, <3>1, <3>2 DEF Trying
    <3>3. CASE ~Answers(p)
      BY <1>1, <1>5, <2>1, <2>2, <3>1, <3>3 DEF Trying
    <3> QED BY <3>2, <3>3
  <2>6. ASSUME opening'.stage # "claim", Len(usb) = 1, usb[1].kind = "fine"
        PROVE  usb[1].place # "loaded"
    <3>1. p = 1 /\ ~Answers(p)
      BY <1>3, <1>11, <2>1, <2>4, <2>6
    <3> QED BY <2>6, <3>1 DEF Answers, HasFirmware
  <2>7. opening'.stage = "claim" <=> Answers(p)
    BY <1>5, <2>1, <2>4
  <2> QED BY <1>1, <1>3, <1>11, <2>2, <2>5, <2>6, <2>7, TryingKeeps
<1> QED BY <1>10, <1>11

\* The time is over.
LEMMA GiveUpKeeps ==
    ASSUME Inv0, Outside, GiveUp
    PROVE  Devs0' /\ OpeningOf' /\ Reasons' /\ AllHeld' /\ Users'
<1>1. /\ opening.stage = "again" /\ opening.stage # "idle"
      /\ opening' = Returns("error") /\ UNCHANGED <<usb, lost, insts, now>>
  BY DEF GiveUp
<1>2. Opened \in InstRecs /\ Sound(usb, now, opening.drv, Opened)
  BY <1>1, Running
<1>3. /\ opening' \in Openings /\ opening'.drv = opening.drv
      /\ opening'.inst = opening.inst /\ opening'.looked <= now
      /\ opening'.stage \in {"idle", "again"}
      /\ (opening'.stage = "idle" <=> opening'.ret = "error")
      /\ opening'.ret \in {"none", "error"} /\ opening'.looked = opening.looked
  BY <1>1, RetryIs
<1>4. Trying(Opened)
  <2>1. insts' = [insts EXCEPT ![opening.drv][opening.inst] = Opened]
    BY <1>1, Nothing
  <2>2. lost' \subseteq {"upload", "unfit"}
    BY <1>1 DEF Inv0, Devs0
  <2> QED BY <1>1, <1>2, <1>3, <2>1, <2>2 DEF Trying, KeptInst
<1>5. ASSUME Len(usb) = 1, usb[1].kind = "fine" PROVE Because(Opened)
  <2>1. opening.drv \in Fx /\ opening.inst # 0 /\ insts[opening.drv] # <<>>
    BY <1>1, Running
  <2> QED BY <1>1, <1>5, <2>1 DEF Inv0, Reasons
<1> QED BY <1>1, <1>3, <1>4, <1>5, TryingKeeps DEF Because

\* A claim that is refused.
LEMMA RefusedKeeps ==
    ASSUME Inv0, Outside, opening.stage = "claim", UNCHANGED <<usb, insts, lost, now>>,
           opening' = Returns("error"),
           usb[Opened.handle.dev].kind = "busy" \/ usb[Opened.handle.dev].user # 0
    PROVE  Devs0' /\ OpeningOf' /\ Reasons' /\ AllHeld' /\ Users'
<1> DEFINE D == Range(drivers)
           p == Opened.handle.dev
<1>1. /\ drivers' = drivers /\ devs' = devs /\ session' = session /\ pc' = pc
      /\ dev' = dev /\ loaded' = loaded /\ usb' = usb /\ now' = now /\ insts' = insts
      /\ lost' = lost
  BY DEF Outside
<1>2. opening.stage # "idle"
  OBVIOUS
<1>3. /\ opening' \in Openings /\ opening'.drv = opening.drv
      /\ opening'.inst = opening.inst /\ opening'.looked <= now
      /\ opening'.stage = "idle" /\ opening'.ret = "error"
  <2>1. Returns("error").stage = "idle"
    BY Running DEF Returns, Openings
  <2> QED BY <1>2, <2>1, RetryIs
<1>4. /\ pc \in Waiting /\ session.devs = <<>> /\ opening.ret = "none"
      /\ opening.drv \in Fx \cap D /\ opening.inst \in 1 .. Len(insts[opening.drv])
      /\ Opened = insts[opening.drv][opening.inst]
      /\ Sound(usb, now, opening.drv, Opened) /\ OfFx(usb, opening.drv, Opened)
      /\ opening.inst \in Nat \ {0}
  BY SMTT(30), <1>2, Running
<1>5. Opened.status = "active" /\ Opened' = Opened
  BY <1>1, <1>3 DEF Inv0, OpeningOf, Opened
<1>6. p \in 1 .. Len(usb) /\ DriverOf[usb[p].model] = opening.drv /\ Opened.handle # NoHandle
  <2>1. usb \in Seq(UsbRecs)
    BY SMTT(30) DEF Inv0, Devs0, World, Bus
  <2>2. /\ p # 0 /\ DriverOf[usb[p].model] = opening.drv /\ p \in 0 .. Len(usb)
    BY ZenonT(30), <1>4, <1>5 DEF OfFx, Sound
  <2>3. Opened.handle # NoHandle
    <3>1. NoHandle.dev = 0
      BY DEF NoHandle
    <3> QED BY <2>2, <3>1
  <2> HIDE DEF p
  <2>4. p \in 1 .. Len(usb)
    BY <2>1, <2>2
  <2> QED BY <2>2, <2>3, <2>4
<1>7. Devs0'
  BY SMTT(30), <1>1 DEF Inv0, Devs0
<1>8. OpeningOf'
  BY <1>1, <1>3, <1>4 DEF OpeningOf
<1>9. Reasons'
  BY SMTT(30), <1>5 DEF Reasons, Because
<1>10. ~loaded => usb[p].user # opening.inst
  <2> SUFFICES ASSUME ~loaded, usb[p].user = opening.inst PROVE FALSE
    OBVIOUS
  <2>1. Unclaimed(p)
    BY <1>6 DEF Inv0, Users
  <2> QED BY <1>4, <1>6, <2>1 DEF Unclaimed, Claims
<1>11. AllHeld'
  <2> SUFFICES ASSUME ~loaded, NEW d \in Fx \cap D, NEW k \in 1 .. Len(insts[d])
               PROVE  Held(d, k)'
    BY <1>1 DEF AllHeld
  <2>1. Held(d, k)
    BY SMTT(30) DEF Inv0, AllHeld
  <2>2. ~InSession(d, k) /\ ~JustOpened(d, k)
    BY <1>4, SessionHas DEF JustOpened
  <2>3. CASE Claims(d, k)
    <3>1. insts[d][k] = Opened /\ k = opening.inst
      BY <1>4, <2>3 DEF Claims
    <3>2. Loose(usb, k, insts[d][k])
      BY <1>6, <1>10, <3>1 DEF Loose
    <3> QED BY <1>1, <3>2 DEF Held
  <2>4. CASE ~Claims(d, k)
    BY <1>1, <2>1, <2>2, <2>4 DEF Held
  <2> QED BY <2>3, <2>4
<1>12. Users'
  BY <1>1, <1>3 DEF Inv0, Users, Unclaimed, Claims
<1> QED BY <1>7, <1>8, <1>9, <1>11, <1>12

\* A claim that is granted.
LEMMA GrantedKeeps ==
    ASSUME Inv0, Outside, opening.stage = "claim", UNCHANGED <<lost, now>>,
           usb' = [usb EXCEPT ![Opened.handle.dev].user = opening.inst],
           Typed(Range(drivers), insts'), Same(Range(drivers), insts, insts'),
           usb[Opened.handle.dev].user = 0, opening' = Returns("ok")
    PROVE  Devs0' /\ OpeningOf' /\ Reasons' /\ AllHeld' /\ Users'
<1> DEFINE D == Range(drivers)
           p == Opened.handle.dev
           d0 == opening.drv
           k0 == opening.inst
<1>1. /\ drivers' = drivers /\ devs' = devs /\ session' = session /\ pc' = pc
      /\ dev' = dev /\ loaded' = loaded /\ now' = now /\ lost' = lost
  BY DEF Outside
<1>2. opening.stage # "idle"
  OBVIOUS
<1>3. /\ pc \in Waiting /\ session.devs = <<>> /\ opening.ret = "none"
      /\ d0 \in Fx \cap D /\ k0 \in 1 .. Len(insts[d0])
      /\ Opened = insts[d0][k0] /\ opening \in Openings
      /\ Sound(usb, now, d0, Opened) /\ OfFx(usb, d0, Opened)
      /\ k0 \in Nat \ {0} /\ k0 <= MaxInsts
      /\ d0 = Driver /\ k0 = IndexIn(insts[d0], Index)
  BY SMTT(30), <1>2, Running
<1>4. /\ opening' \in Openings /\ opening'.drv = d0 /\ opening'.inst = k0
      /\ opening'.looked = opening.looked
      /\ opening'.stage = "idle" /\ opening'.ret = "ok"
  <2>1. 0 \in 0 .. ResetDelay
    BY Constants
  <2> QED BY <1>3, <2>1 DEF Returns, Openings
<1>5. Opened.status = "active"
  BY DEF Inv0, OpeningOf
<1>6. Bus(usb, now) /\ usb \in Seq(UsbRecs) /\ Len(usb) \in Nat
  BY SMTT(30) DEF Inv0, Devs0, World, Bus
<1>7. p \in 1 .. Len(usb) /\ p # 0 /\ DriverOf[usb[p].model] = d0
  <2>1. p # 0 /\ p \in 0 .. Len(usb)
    BY <1>3, <1>5 DEF OfFx, Sound
  <2> QED BY SMTT(30), <1>3, <1>6, <2>1 DEF OfFx
<1> HIDE DEF p, d0, k0, D
<1>8. /\ usb' \in Seq(UsbRecs) /\ Len(usb') = Len(usb)
      /\ usb'[p].user = k0 /\ usb'[p].model = usb[p].model
      /\ usb'[p].kind = usb[p].kind
      /\ \A q \in 1 .. Len(usb) : q # p => usb'[q] = usb[q]
      /\ AlikeDev(usb[p], usb'[p])
  <2> DEFINE r == [usb[p] EXCEPT !.user = k0]
  <2>1. usb' = [usb EXCEPT ![p] = r]
    BY <1>6, <1>7 DEF p, k0
  <2>2. usb[p] \in UsbRecs
    BY <1>6, <1>7
  <2>3. r \in UsbRecs /\ r.user = k0 /\ r.model = usb[p].model /\ r.kind = usb[p].kind
        /\ AlikeDev(usb[p], r)
    BY <1>3, <2>2 DEF UsbRecs, AlikeDev
  <2> HIDE DEF r
  <2>4. usb' \in Seq(UsbRecs) /\ Len(usb') = Len(usb) /\ usb'[p] = r
        /\ \A q \in 1 .. Len(usb) : q # p => usb'[q] = usb[q]
    BY ONLY <1>6, <1>7, <2>1, <2>3
  <2> QED BY <2>3, <2>4
<1>9. Alike(usb, usb')
  <2> SUFFICES ASSUME NEW q \in 1 .. Len(usb) PROVE AlikeDev(usb[q], usb'[q])
    BY <1>8 DEF Alike
  <2>1. q # p => AlikeDev(usb[q], usb'[q])
    BY <1>6, <1>8 DEF AlikeDev, Bus, Sane
  <2> QED BY <1>8, <2>1
<1>10. /\ World(usb', now, D, insts') /\ World(usb, now, D, insts)
       /\ Typed(D, insts) /\ Typed(D, insts')
  <2>1. World(usb, now, D, insts) /\ Typed(D, insts) /\ Typed(D, insts')
        /\ Same(D, insts, insts')
    BY DEF Inv0, Devs0, World, D
  <2>2. World(usb, now, D, insts')
    BY <2>1, SameWorld
  <2>3. now \in 1 .. MaxTime /\ now <= now
    BY <1>6, Constants DEF Bus
  <2> QED BY <1>9, <2>1, <2>2, <2>3, AlikeWorld
<1>11. Devs0'
  BY <1>1, <1>10 DEF Inv0, Devs0, D
<1>12. ASSUME NEW d \in D
       PROVE  /\ Len(insts'[d]) = Len(insts[d])
              /\ \A k \in 1 .. Len(insts[d]) :
                     /\ insts'[d][k].status = insts[d][k].status
                     /\ insts'[d][k].handle = insts[d][k].handle
  BY DEF Same, SameInst, D
<1>13. OpeningOf'
  <2>1. Driver' = Driver /\ Index' = Index
    BY <1>1 DEF Driver, Index
  <2>2. InstOf(Driver, Index)' = k0
    <3>1. PICK x : x = Index
      BY SMTT(30)
    <3>2. d0 \in D /\ Typed(D, insts) /\ Typed(D, insts') /\ Kept(D, insts, insts')
      BY ZenonT(30), <1>3, <1>10, SameIsKept DEF D
    <3>3. IndexIn(insts'[d0], x) = IndexIn(insts[d0], x)
      BY ONLY <3>2, SameIndex
    <3> QED BY <1>3, <2>1, <3>1, <3>3, IndexIsInstOf
  <2>3. opening'.inst \in 1 .. Len(insts'[opening'.drv])
    BY <1>3, <1>4, <1>12
  <2>4. opening.looked <= now
    BY DEF Inv0, OpeningOf
  <2>5. opening'.drv \in Range(drivers')
    BY <1>1, <1>3, <1>4 DEF D
  <2> QED BY ONLY <1>1, <1>3, <1>4, <2>1, <2>2, <2>3, <2>4, <2>5 DEF OpeningOf
<1>14. Reasons'
  BY <1>4 DEF Reasons
<1>15. AllHeld'
  <2> SUFFICES ASSUME ~loaded, NEW d \in Fx \cap D, NEW k \in 1 .. Len(insts[d])
               PROVE  Held(d, k)'
    BY <1>1, <1>12 DEF AllHeld, D
  <2>1. Held(d, k)
    BY DEF Inv0, AllHeld, D
  <2>2. ~InSession(d, k) /\ ~JustOpened(d, k)
    BY SMTT(30), <1>3, SessionHas DEF JustOpened
  <2>3. CASE d = d0 /\ k = k0
    BY <1>1, <1>3, <1>4, <2>3 DEF Held, JustOpened
  <2>4. CASE d # d0 \/ k # k0
    <3>1. Loose(usb, k, insts[d][k])
      BY <2>1, <2>2, <2>4 DEF Held, Claims, d0, k0
    <3> DEFINE h == insts[d][k].handle
    <3>2. /\ insts'[d][k].status = insts[d][k].status
          /\ insts'[d][k].handle = h
      BY <1>12
    <3>3. h # NoHandle => /\ h.dev \in 1 .. Len(usb)
                          /\ DriverOf[usb[h.dev].model] = d
      <4>1. insts[d][k] \in InstRecs /\ Sound(usb, now, d, insts[d][k])
        BY <1>10 DEF World, Typed
      <4>2. h.dev # 0 \/ h = NoHandle
        BY <4>1 DEF Sound
      <4>3. h.dev \in 0 .. Len(usb) /\ h.dev \in Nat
        BY <4>1, InstFields DEF Sound
      <4>4. h.dev # 0 => DriverOf[usb[h.dev].model] = d
        BY <4>1 DEF Sound, OfFx
      <4> QED BY <4>2, <4>3, <4>4
    <3>4. h # NoHandle => usb'[h.dev].user = usb[h.dev].user \/ usb'[h.dev].user # k
      <4> SUFFICES ASSUME h # NoHandle
                   PROVE  usb'[h.dev].user = usb[h.dev].user \/ usb'[h.dev].user # k
        OBVIOUS
      <4>1. CASE h.dev = p
        BY SMTT(30), <1>7, <1>8, <2>4, <3>3, <4>1
      <4>2. CASE h.dev # p
        BY <1>8, <3>3, <4>2
      <4> QED BY <4>1, <4>2
    <3>5. Loose(usb', k, insts'[d][k])
      BY <3>1, <3>2, <3>4 DEF Loose
    <3> QED BY <3>5 DEF Held
  <2> QED BY <2>3, <2>4
<1>16. Users'
  <2> SUFFICES ASSUME ~loaded, NEW q \in 1 .. Len(usb)
               PROVE  UsedBy(usb', D, insts', q) /\ Unclaimed(q)'
    BY <1>1, <1>8 DEF Users, D
  <2>1. UsedBy(usb, D, insts, q)
    BY DEF Inv0, Users, D
  <2>2. CASE q = p
    <3>1. insts'[d0][k0].status = "active" /\ insts'[d0][k0].handle.dev = p
          /\ Len(insts'[d0]) = Len(insts[d0])
      BY SMTT(30), <1>3, <1>5, <1>12 DEF p
    <3>2. DriverOf[usb'[p].model] = d0 /\ usb'[p].user = k0 /\ d0 \in D
          /\ k0 \in 1 .. Len(insts'[d0])
      BY ZenonT(30), <1>3, <1>7, <1>8, <3>1
    <3>3. UsedBy(usb', D, insts', p)
      BY <3>1, <3>2 DEF UsedBy
    <3>4. Unclaimed(q)'
      BY <1>4 DEF Unclaimed, Claims
    <3> QED BY <2>2, <3>3, <3>4
  <2>3. CASE q # p
    <3>1. usb'[q] = usb[q]
      BY SMTT(30), <1>8, <2>3
    <3>2. UsedBy(usb', D, insts', q)
      BY ZenonT(30), <1>12, <2>1, <3>1 DEF UsedBy
    <3> QED BY <1>4, <3>2 DEF Unclaimed, Claims
  <2> QED BY <2>2, <2>3
<1> QED BY <1>11, <1>13, <1>14, <1>15, <1>16

\* libusb_claim_interface()
LEMMA ClaimKeeps ==
    ASSUME Inv0, Outside, Claim
    PROVE  Devs0' /\ OpeningOf' /\ Reasons' /\ AllHeld' /\ Users'
<1>1. opening.stage = "claim" /\ UNCHANGED <<lost, now>>
  BY DEF Claim
<1> DEFINE p == Opened.handle.dev
<1>2. CASE usb[p].kind = "busy" \/ usb[p].user # 0
  <2>1. opening' = Returns("error") /\ UNCHANGED <<usb, insts>>
    BY <1>2 DEF Claim
  <2> QED BY <1>1, <1>2, <2>1, RefusedKeeps
<1>3. CASE ~(usb[p].kind = "busy" \/ usb[p].user # 0)
  <2>1. /\ usb' = [usb EXCEPT ![p].user = opening.inst]
        /\ insts' = IF opening.drv = "fx2lafw" /\ Opened.samplerate = 0
                    THEN [insts EXCEPT !["fx2lafw"][opening.inst].samplerate = 20]
                    ELSE insts
        /\ opening' = Returns("ok")
    BY <1>3 DEF Claim
  <2>2. /\ Typed(Range(drivers), insts)
        /\ Same(Range(drivers), insts, insts)
    BY DEF Inv0, Devs0, World, Same, SameInst, KeptInst
  <2>3. Typed(Range(drivers), insts') /\ Same(Range(drivers), insts, insts')
    <3>1. CASE ~(opening.drv = "fx2lafw" /\ Opened.samplerate = 0)
      BY <2>1, <2>2, <3>1
    <3>2. CASE opening.drv = "fx2lafw" /\ Opened.samplerate = 0
      <4> DEFINE k == opening.inst
                 j == [insts["fx2lafw"][k] EXCEPT !.samplerate = 20]
                 D == Range(drivers)
      <4>1. /\ "fx2lafw" \in D /\ k \in 1 .. Len(insts["fx2lafw"])
            /\ insts["fx2lafw"][k] \in InstRecs
        BY <1>1, <3>2, Running
      <4>2. insts' = [insts EXCEPT !["fx2lafw"][k] = j]
        BY SMTT(30), <2>1, <3>2
      <4>3. j \in InstRecs /\ SameInst(insts["fx2lafw"][k], j)
        BY <4>1, OneField
      <4>4. insts \in [D -> Seq(InstRecs)]
        BY <2>2 DEF Typed
      <4> HIDE DEF j, k, D
      <4>5. /\ insts' \in [D -> Seq(InstRecs)]
            /\ \A d \in D : Len(insts'[d]) = Len(insts[d])
            /\ insts'["fx2lafw"][k] = j
            /\ \A d \in D : \A m \in 1 .. Len(insts[d]) :
                   d # "fx2lafw" \/ m # k => insts'[d][m] = insts[d][m]
        BY <4>1, <4>2, <4>3, <4>4, OneChanges
      <4>6. ASSUME NEW d \in D, NEW m \in 1 .. Len(insts[d])
            PROVE  SameInst(insts[d][m], insts'[d][m])
        <5>1. CASE d = "fx2lafw" /\ m = k
          BY <4>3, <4>5, <5>1
        <5>2. CASE d # "fx2lafw" \/ m # k
          BY <4>5, <5>2 DEF SameInst, KeptInst
        <5> QED BY <5>1, <5>2
      <4> QED BY <4>5, <4>6 DEF Typed, Same, D
    <3> QED BY <3>1, <3>2
  <2> QED BY <1>1, <1>3, <2>1, <2>3, GrantedKeeps
<1> QED BY <1>2, <1>3
-----------------------------------------------------------------------------
(* The open, the bus and the clock together *)

\* The environment.
LEMMA EnvironmentKeeps ==
    ASSUME Inv0, Environment
    PROVE  Devs0' /\ OpeningOf' /\ Reasons' /\ AllHeld' /\ Users'
<1>1. Outside
  BY DEF Environment, Outside, lists, front
<1>2. CASE Attempt
  BY <1>1, <1>2, AttemptKeeps
<1>3. CASE GiveUp
  BY <1>1, <1>3, GiveUpKeeps
<1>4. CASE Claim
  BY <1>1, <1>4, ClaimKeeps
<1>5. CASE Tick
  BY <1>1, <1>5, TickIs, ElsewhereKeeps
<1>6. ASSUME NEW p \in Devices, Leave(p) \/ Return(p)
      PROVE  Devs0' /\ OpeningOf' /\ Reasons' /\ AllHeld' /\ Users'
  BY <1>1, <1>6, LeaveIs, ReturnIs, ElsewhereKeeps
<1> QED BY <1>2, <1>3, <1>4, <1>5, <1>6 DEF Environment

-----------------------------------------------------------------------------
(* What is put together of sequences *)

\* Each value is made of the one before.
Goes(f, n, a, h) ==
    \A j \in 1 .. n : f[j] = IF j = 1 THEN a ELSE h[<<f[j - 1], j>>]

\* There are such values, up to any number.
LEMMA Recursion ==
    ASSUME NEW S, NEW a \in S, NEW n \in Nat,
           NEW h \in [S \X Nat -> S]
    PROVE  \E f \in [1 .. n -> S] : Goes(f, n, a, h)
<1> DEFINE Some(m) == \E f \in [1 .. m -> S] : Goes(f, m, a, h)
           T == {m \in Nat : ~Some(m)}
<1> SUFFICES ASSUME T # {} PROVE FALSE
  OBVIOUS
<1>1. PICK m \in T : \A y \in T : m <= y
  BY Least
<1>2. m # 0
  <2>1. [j \in 1 .. 0 |-> a] \in [1 .. 0 -> S]
    OBVIOUS
  <2>2. Goes([j \in 1 .. 0 |-> a], 0, a, h)
    BY DEF Goes
  <2> QED BY <1>1, <2>1, <2>2
<1>3. m - 1 \in Nat /\ m - 1 \notin T
  BY <1>1, <1>2
<1>4. PICK f \in [1 .. m - 1 -> S] : Goes(f, m - 1, a, h)
  BY <1>3
<1> DEFINE x == IF m = 1 THEN a ELSE h[<<f[m - 1], m>>]
           g == [j \in 1 .. m |-> IF j = m THEN x ELSE f[j]]
<1>5. x \in S
  <2>1. CASE m = 1
    BY <2>1
  <2>2. CASE m # 1
    <3>1. f[m - 1] \in S /\ m \in Nat
      BY <1>1, <1>2, <1>3, <1>4, <2>2
    <3> QED BY <2>2, <3>1
  <2> QED BY <2>1, <2>2
<1> HIDE DEF x
<1>6. /\ g \in [1 .. m -> S] /\ g[m] = x
      /\ \A j \in 1 .. m - 1 : g[j] = f[j]
  <2>1. m \in Nat \ {0}
    BY <1>1, <1>2
  <2>2. \A j \in 1 .. m : j # m => j \in 1 .. m - 1
    BY <2>1
  <2>3. \A j \in 1 .. m : (IF j = m THEN x ELSE f[j]) \in S
    BY <1>4, <1>5, <2>2
  <2>4. m \in 1 .. m /\ \A j \in 1 .. m - 1 : j \in 1 .. m /\ j # m
    BY <2>1
  <2> QED BY <2>3, <2>4
<1> HIDE DEF g
<1>7. Goes(g, m, a, h)
  <2> SUFFICES ASSUME NEW j \in 1 .. m
               PROVE  g[j] = IF j = 1 THEN a ELSE h[<<g[j - 1], j>>]
    BY DEF Goes
  <2>1. CASE j = m
    <3>1. m # 1 => g[m - 1] = f[m - 1]
      BY <1>1, <1>2, <1>6
    <3> QED BY <1>6, <2>1, <3>1 DEF x
  <2>2. CASE j # m
    <3>1. j \in 1 .. m - 1 /\ (j # 1 => j - 1 \in 1 .. m - 1)
      BY <1>1, <2>2
    <3>2. f[j] = IF j = 1 THEN a ELSE h[<<f[j - 1], j>>]
      BY <1>4, <3>1 DEF Goes
    <3> QED BY <1>6, <3>1, <3>2
  <2> QED BY <2>1, <2>2
<1> QED BY <1>1, <1>6, <1>7

\* Two functions are the same where the step before it is the same.
SameSteps(f, g, n) ==
    \A j \in 1 .. n : (j = 1 \/ f[j - 1] = g[j - 1]) => f[j] = g[j]

\* What is the same at the start, and stays the same, is the same.
LEMMA StepByStep ==
    ASSUME NEW n \in Nat, NEW f, NEW g, SameSteps(f, g, n)
    PROVE  \A j \in 1 .. n : f[j] = g[j]
<1> DEFINE T == {m \in 1 .. n : f[m] # g[m]}
<1> SUFFICES ASSUME T # {} PROVE FALSE
  OBVIOUS
<1>1. T \in SUBSET Nat
  OBVIOUS
<1>2. PICK m \in T : \A y \in T : m <= y
  BY <1>1, Least
<1>3. m \in 1 .. n /\ f[m] # g[m]
  BY <1>2
<1>4. m # 1 /\ f[m - 1] # g[m - 1]
  BY <1>3 DEF SameSteps
<1>5. m - 1 \in T
  BY <1>3, <1>4
<1>6. ~(m <= m - 1)
  BY <1>3
<1> QED BY <1>2, <1>5, <1>6

\* What is put together of sequences is a sequence.
LEMMA Flattened ==
    ASSUME NEW S, NEW n \in Nat, NEW seqs \in [1 .. n -> Seq(S)]
    PROVE  FlattenSeq(seqs) \in Seq(S)
<1>1. seqs \in Seq(Seq(S)) /\ Len(seqs) = n
  OBVIOUS
<1>2. CASE n = 0
  <2>1. FlattenSeq(seqs) = seqs
    BY <1>1, <1>2 DEF FlattenSeq
  <2>2. seqs = <<>>
    BY <1>1, <1>2
  <2> QED BY <2>1, <2>2
<1>3. CASE n # 0
  <2> DEFINE Next1(t, i) == IF i = 1 THEN seqs[i] ELSE t[i - 1] \o seqs[i]
             u == CHOOSE t : t = [i \in 1 .. n |-> Next1(t, i)]
  <2>1. FlattenSeq(seqs) = u[n]
    BY <1>1, <1>3 DEF FlattenSeq
  <2> DEFINE s == [j \in Nat |-> IF j \in 1 .. n THEN seqs[j] ELSE <<>>]
             h == [p \in Seq(S) \X Nat |-> p[1] \o s[p[2]]]
             a == seqs[1]
  <2>2. s \in [Nat -> Seq(S)] /\ \A j \in 1 .. n : s[j] = seqs[j]
    OBVIOUS
  <2>3. a \in Seq(S)
    BY <1>3
  <2> HIDE DEF s, u
  <2>4. h \in [Seq(S) \X Nat -> Seq(S)]
    <3>1. \A p \in Seq(S) \X Nat : p[1] \in Seq(S) /\ p[2] \in Nat
      OBVIOUS
    <3>2. \A p \in Seq(S) \X Nat : s[p[2]] \in Seq(S)
      BY <2>2, <3>1
    <3>3. \A p \in Seq(S) \X Nat : p[1] \o s[p[2]] \in Seq(S)
      BY <3>1, <3>2
    <3> QED BY ONLY <3>3
  <2>5. \A x \in Seq(S), j \in Nat : h[<<x, j>>] = x \o s[j]
    OBVIOUS
  <2> HIDE DEF h, a
  <2>6. PICK f \in [1 .. n -> Seq(S)] : Goes(f, n, a, h)
    BY <2>3, <2>4, Recursion
  <2>7. \A j \in 1 .. n : f[j] = Next1(f, j)
    <3> SUFFICES ASSUME NEW j \in 1 .. n PROVE f[j] = Next1(f, j)
      OBVIOUS
    <3>1. CASE j = 1
      BY <2>6, <3>1 DEF Goes, a
    <3>2. CASE j # 1
      <4>1. j - 1 \in 1 .. n /\ j \in Nat
        BY <3>2
      <4>2. f[j - 1] \in Seq(S)
        BY <4>1
      <4>3. f[j] = h[<<f[j - 1], j>>]
        BY <2>6, <3>2 DEF Goes
      <4> QED BY <2>2, <2>5, <3>2, <4>1, <4>2, <4>3
    <3> QED BY <3>1, <3>2
  <2>8. f = [j \in 1 .. n |-> Next1(f, j)]
    BY SMTT(30), <2>7
  <2>9. u = [j \in 1 .. n |-> Next1(u, j)]
    BY ZenonT(30), <2>8 DEF u
  <2>10. \A j \in 1 .. n : u[j] = f[j]
    <3>1. \A j \in 1 .. n : u[j] = Next1(u, j)
      BY <2>9
    <3>2. SameSteps(u, f, n)
      BY ZenonT(30), <2>7, <3>1 DEF SameSteps
    <3>3. n \in Nat
      OBVIOUS
    <3> HIDE DEF Next1
    <3> QED BY ONLY <3>2, <3>3, StepByStep
  <2>11. n \in 1 .. n
    BY <1>3
  <2> QED BY <2>1, <2>10, <2>11
<1> QED BY <1>2, <1>3

-----------------------------------------------------------------------------
(* A scan *)

\* A probe that was not touched, and a device whose probes were not.
FreshProbe(probe, n) ==
    probe.enabled = TRUE /\ probe.name = ToString(n) /\ probe.trigger = NoTrigger
Fresh(e) == \A n \in 1 .. Len(e.probes) : FreshProbe(e.probes[n], n)

\* The devices of a list that sr_dev_scan() makes.
NewListed == {e \in DevRecs : Listable(e) /\ Fresh(e)}

\* An instance that a scan makes for the driver d.
NewSound(u, t, d, i) ==
    i \in InstRecs /\ Sound(u, t, d, i) /\ i.samples = 0 /\ i.regs = NoProbes
        /\ (d \in Fx => i.status # "active")

\* The devices get their firmware.
LEMMA ProgrammedIs ==
    ASSUME Bus(usb, now), NEW drvs, NEW upload \in Uploads
    PROVE  LET v == Programmed(drvs, upload) IN
           /\ Alike(usb, v)
           /\ \A p \in 1 .. Len(usb) : v[p].user = usb[p].user
<1>1. /\ usb \in Seq(UsbRecs) /\ Len(usb) \in Nat /\ Devices = 1 .. Len(usb)
      /\ DOMAIN usb = 1 .. Len(usb)
  BY DEF Bus, Devices
<1> DEFINE On(p) == p \in Bare(drvs) /\ upload[p] = "ok"
           r(p) == IF On(p) THEN [usb[p] EXCEPT !.place = "leaving"] ELSE usb[p]
           v == Programmed(drvs, upload)
<1>2. v = [p \in 1 .. Len(usb) |-> r(p)]
  BY <1>1 DEF Programmed
<1>3. ASSUME NEW p \in 1 .. Len(usb)
      PROVE  r(p) \in UsbRecs /\ AlikeDev(usb[p], r(p)) /\ r(p).user = usb[p].user
  <2>1. usb[p] \in UsbRecs /\ usb[p].user <= MaxInsts
    BY <1>1 DEF Bus, Sane
  <2>2. AlikeDev(usb[p], usb[p])
    BY <2>1 DEF AlikeDev
  <2>3. CASE On(p)
    <3>1. r(p) = [usb[p] EXCEPT !.place = "leaving"]
      BY <2>3
    <3>2. usb[p].place # "loaded"
      <4>1. usb[p].kind # "unopenable"
        BY <1>1, <2>3 DEF Uploads, Upload
      <4> QED BY <2>3, <4>1 DEF Bare, SeesFirmware, HasFirmware
    <3>3. "leaving" \in Places
      BY DEF Places
    <3> DEFINE x == [usb[p] EXCEPT !.place = "leaving"]
    <3>4. /\ x \in UsbRecs /\ x.model = usb[p].model /\ x.kind = usb[p].kind
          /\ x.addr = usb[p].addr /\ x.since = usb[p].since /\ x.user = usb[p].user
          /\ x.place = "leaving"
      BY <2>1, <3>3 DEF UsbRecs
    <3> HIDE DEF x
    <3>5. AlikeDev(usb[p], x)
      BY <2>1, <3>2, <3>4 DEF AlikeDev
    <3> QED BY <3>1, <3>4, <3>5 DEF x
  <2>4. CASE ~On(p)
    BY <2>1, <2>2, <2>4
  <2> QED BY <2>3, <2>4
<1> HIDE DEF r, v
<1>4. v \in [1 .. Len(usb) -> UsbRecs] /\ \A p \in 1 .. Len(usb) : v[p] = r(p)
  BY <1>2, <1>3
<1>5. v \in Seq(UsbRecs) /\ Len(v) = Len(usb)
  BY <1>1, <1>4
<1> QED BY <1>3, <1>4, <1>5 DEF Alike, v

\* A new instance.
NewInst(j, x, st, a, p, t) ==
    /\ j \in InstRecs /\ j.index = x /\ j.handle = NoHandle /\ j.found = p
    /\ j.updated = t /\ j.samples = 0 /\ j.status = st /\ j.addr = a
    /\ j.regs = NoProbes

\* A device is on when no probe is set.
LEMMA NoProbesType == NoProbes \in RegRecs
<1>1. NoBits \in Bits
  BY DEF NoBits, Bits
<1>2. Fired \in SUBSET Nat /\ {1, 2} \in SUBSET Nat
  BY DEF Fired
<1> QED BY <1>1, <1>2 DEF NoProbes, RegRecs

\* What sr_dev_inst_new() makes is an instance as a scan finds it.
LEMMA InstanceIs ==
    ASSUME NEW x \in Nat, NEW st \in Statuses, NEW a \in Nat, NEW p \in Nat,
           NEW t \in Nat
    PROVE  NewInst(Instance(x, st, a, p, t), x, st, a, p, t)
<1>1. NoHandle \in Handles /\ NoProbes \in RegRecs
  BY NoProbesType DEF NoHandle, Handles
<1> QED BY <1>1 DEF NewInst, Instance, InstRecs

\* What a scan makes of a list of devices: an instance for each, that knows the
\* address of a device that has the firmware.
LEMMA FoundIs ==
    ASSUME Bus(usb, now), NEW v, Alike(usb, v), NEW d \in Fx,
           NEW list \in Listings(Served(d)), NEW upload
    PROVE  LET new == Found(list, upload) IN
           /\ new \in Seq(InstRecs) /\ Len(new) <= Len(usb)
           /\ \A k \in 1 .. Len(new) : NewSound(v, now, d, new[k])
<1>1. /\ usb \in Seq(UsbRecs) /\ Len(usb) \in Nat /\ Devices = 1 .. Len(usb)
      /\ now \in Nat /\ Len(v) = Len(usb)
  BY DEF Bus, Devices, Alike
<1> DEFINE P == Served(d)
<1>2. P \in SUBSET (1 .. Len(usb)) /\ \A p \in P : DriverOf[usb[p].model] = d
  BY <1>1 DEF Served, Serves
<1>3. list \in Seq(P) /\ Len(list) <= Len(usb) /\ Len(list) \in Nat
      /\ DOMAIN list = 1 .. Len(list)
  <2>1. list \in Listings(P)
    OBVIOUS
  <2> HIDE DEF P
  <2>2. list \in Seq(P) /\ Len(list) <= Len(usb)
    BY <1>1, <1>2, <2>1, ListingOf
  <2> QED BY <2>2
<1> HIDE DEF P
<1> DEFINE up(p) == IF upload[p] = "ok" THEN now ELSE Never
           r(k) == IF SeesFirmware(list[k])
                   THEN Instance(k - 1, "inactive", usb[list[k]].addr, list[k], Never)
                   ELSE Instance(k - 1, "initializing", NoAddress, list[k], up(list[k]))
           new == Found(list, upload)
<1>4. new = [k \in 1 .. Len(list) |-> r(k)]
  BY <1>3 DEF Found
<1>5. ASSUME NEW k \in 1 .. Len(list) PROVE NewSound(v, now, d, r(k))
  <2>1. PICK p \in P : p = list[k]
    BY <1>3
  <2>2. p \in 1 .. Len(usb) /\ DriverOf[usb[p].model] = d
    BY <1>2
  <2>3. /\ v[p].model = usb[p].model /\ v[p].since = usb[p].since
        /\ v[p].kind = usb[p].kind
        /\ v[p].place = "loaded" <=> usb[p].place = "loaded"
    BY <2>2 DEF Alike, AlikeDev
  <2>4. PICK i : i = r(k)
    OBVIOUS
  <2>5. /\ i \in InstRecs /\ i.index = k - 1 /\ i.handle = NoHandle /\ i.found = p
        /\ i.updated \in {Never, now} /\ i.samples = 0 /\ i.regs = NoProbes
        /\ IF SeesFirmware(p) THEN i.status = "inactive" /\ i.addr = usb[p].addr
           ELSE i.status = "initializing" /\ i.addr = NoAddress
    <3>1. /\ k - 1 \in Nat /\ usb[p].addr \in Nat /\ p \in Nat /\ up(p) \in {Never, now}
          /\ NoAddress \in Nat /\ Never \in Nat
      BY <1>1, <1>3, <2>2, UsbFields DEF NoAddress, Never
    <3> HIDE DEF up
    <3>2. PICK x \in Nat, q \in Nat, st \in Statuses, a \in Nat, t \in Nat :
              /\ x = k - 1 /\ q = p
              /\ IF SeesFirmware(p)
                 THEN st = "inactive" /\ a = usb[p].addr /\ t = Never
                 ELSE st = "initializing" /\ a = NoAddress /\ t = up(p)
      <4>1. "inactive" \in Statuses /\ "initializing" \in Statuses
        BY DEF Statuses
      <4>2. up(p) \in Nat
        BY <1>1, <3>1
      <4> QED BY <3>1, <4>1, <4>2
    <3>3. i = Instance(x, st, a, q, t)
      BY <2>1, <2>4, <3>2
    <3>4. NewInst(i, x, st, a, q, t)
      BY <3>3, InstanceIs
    <3> QED BY <3>1, <3>2, <3>4 DEF NewInst
  <2>6. /\ NoHandle.dev = 0 /\ Never = 0
    BY DEF NoHandle, Never
  <2>7. /\ usb[p].addr # NoAddress
        /\ Shows(v, p) <=> SeesFirmware(p)
        /\ SeesFirmware(p) =>
            (usb[p].since = Never => usb[p].addr = p)
    <3>1. Sane(usb, now, p) /\ 2 * Len(usb) < NoAddress
      BY <2>2 DEF Bus
    <3>2. Shows(v, p) <=> SeesFirmware(p)
      BY <2>3 DEF Shows, SeesFirmware, HasFirmware
    <3> QED BY <1>1, <2>2, <3>1, <3>2 DEF Sane, NoAddress
  <2>8. Len(usb) = 1 => k = 1
    BY <1>3
  <2>9. FoundSane(v, i)
    BY <2>3, <2>5, <2>7 DEF FoundSane
  <2>10. OfFx(v, d, i)
    BY <1>1, <2>2, <2>3, <2>5, <2>6, <2>7, <2>8, <2>9 DEF OfFx
  <2>11. Sound(v, now, d, i)
    <3>1. i.updated <= now /\ i.found \in 0 .. Len(v) /\ 0 \in 0 .. Len(v)
      BY <1>1, <2>2, <2>5, <2>6
    <3> QED BY <2>5, <2>6, <2>10, <3>1 DEF Sound
  <2> QED BY <2>4, <2>5, <2>11 DEF NewSound
<1> HIDE DEF r, new
<1>6. new \in [1 .. Len(list) -> InstRecs] /\ \A k \in 1 .. Len(list) : new[k] = r(k)
  BY <1>4, <1>5 DEF NewSound
<1>7. new \in Seq(InstRecs) /\ Len(new) = Len(list)
  BY <1>3, <1>6
<1> QED BY <1>3, <1>5, <1>6, <1>7 DEF new

\* The instance of demo.
LEMMA DemoIs ==
    ASSUME NEW u \in Seq(UsbRecs), NEW t \in Nat
    PROVE  NewSound(u, t, "demo", DemoInst)
<1> DEFINE i == Instance(0, "active", NoAddress, 0, Never)
<1>1. /\ i \in InstRecs /\ i.handle = NoHandle /\ i.found = 0 /\ i.updated = 0
      /\ i.samples = 0 /\ i.regs = NoProbes
  <2>1. NoHandle \in Handles /\ NoProbes \in RegRecs /\ "active" \in Statuses
    BY NoProbesType DEF NoHandle, Handles, Statuses
  <2> QED BY <2>1 DEF Instance, InstRecs, NoAddress, Never
<1>2. DemoInst = [i EXCEPT !.samplerate = 200]
  BY DEF DemoInst
<1> HIDE DEF i
<1>3. DemoInst \in InstRecs /\ SameInst(i, DemoInst)
  <2>1. PICK n \in Nat : n = 200
    OBVIOUS
  <2>2. DemoInst = [i EXCEPT !.samplerate = n]
    BY SMTT(30), <1>2, <2>1
  <2>3. [i EXCEPT !.samplerate = n] \in InstRecs
    BY ZenonT(30), <1>1, OneField
  <2>4. SameInst(i, [i EXCEPT !.samplerate = n])
    BY <1>1, OneField
  <2> QED BY <2>2, <2>3, <2>4
<1>4. DemoInst.samples = 0 /\ DemoInst.regs = NoProbes
  BY <1>1, <1>2 DEF InstRecs
<1>5. "demo" \notin Fx /\ NoHandle.dev = 0 /\ 0 \in 0 .. Len(u)
  BY DEF Fx, NoHandle
<1>6. Sound(u, t, "demo", DemoInst)
  BY <1>1, <1>3, <1>5 DEF Sound, SameInst, KeptInst
<1> QED BY <1>3, <1>4, <1>5, <1>6 DEF NewSound

\* The device that a scan makes for an instance.
LEMMA NewDevIs ==
    ASSUME Devs0, NEW drv \in Range(drivers), NEW index \in Nat, NEW i,
           drv \in Fx => i.found \in 1 .. Len(usb) /\ DriverOf[usb[i.found].model] = drv
    PROVE  NewDev(drv, index, i) \in NewListed
<1> DEFINE k == IndexIn(insts[drv], index)
           j == IF k # 0 THEN insts[drv][k] ELSE i
           model == IF drv = "demo" THEN "demo" ELSE usb[j.found].model
           n == ProbeCount[model]
           probes == [m \in 1 .. n |-> Probe(ToString(m))]
           e == NewDev(drv, index, i)
<1>1. e = [driver |-> drv, index |-> index, probes |-> probes]
  BY IndexIsInstOf DEF NewDev
<1>2. drv \in Drivers /\ insts[drv] \in Seq(InstRecs)
  BY DEF Devs0, World, Typed, Range
<1>3. drv = "demo" \/ drv \in Fx
  BY <1>2 DEF Drivers
<1>4. drv \in Fx => j.found \in 1 .. Len(usb) /\ DriverOf[usb[j.found].model] = drv
  <2> SUFFICES ASSUME drv \in Fx, k # 0
               PROVE  /\ insts[drv][k].found \in 1 .. Len(usb)
                      /\ DriverOf[usb[insts[drv][k].found].model] = drv
    OBVIOUS
  <2>1. k \in 1 .. Len(insts[drv]) /\ insts[drv][k] \in InstRecs
    BY <1>2, IndexListed
  <2> HIDE DEF k
  <2>2. Sound(usb, now, drv, insts[drv][k])
    BY <2>1 DEF Devs0, World
  <2>3. /\ insts[drv][k].found # 0 /\ insts[drv][k].found \in 0 .. Len(usb)
        /\ insts[drv][k].found \in Nat
        /\ DriverOf[usb[insts[drv][k].found].model] = drv
    BY <2>1, <2>2, InstFields DEF Sound, OfFx
  <2> QED BY <2>3
<1> HIDE DEF j, k
<1>5. model \in DOMAIN DriverOf \cup {"demo"}
      /\ (drv \in Fx => model \in DOMAIN DriverOf /\ DriverOf[model] = drv)
  <2>1. CASE drv = "demo"
    BY <2>1 DEF Fx
  <2>2. CASE drv # "demo"
    <3>1. Bus(usb, now) /\ j.found \in 1 .. Len(usb)
      BY <1>3, <1>4, <2>2 DEF Devs0, World
    <3>2. usb[j.found].model \in DOMAIN DriverOf
      BY <3>1, UsbFields
    <3> QED BY <1>3, <1>4, <2>2, <3>2
  <2> QED BY <2>1, <2>2
<1> HIDE DEF model
<1>6. n \in Nat
  BY <1>5, Constants
<1>7. ASSUME NEW m \in Nat
      PROVE  Probe(ToString(m)) \in ProbeRecs /\ FreshProbe(Probe(ToString(m)), m)
  <2>1. ToString(m) \in Names
    BY DEF Names
  <2>2. PICK name \in Names : name = ToString(m)
    BY <2>1
  <2>3. Probe(name) \in ProbeRecs
    <3>1. NoTrigger \in Triggers
      BY DEF NoTrigger, Triggers
    <3> QED BY <3>1 DEF Probe, ProbeRecs
  <2>4. FreshProbe(Probe(name), m)
    BY <2>2 DEF Probe, FreshProbe
  <2> QED BY <2>2, <2>3, <2>4
<1>8. \A m \in 1 .. n : m \in Nat
  BY <1>6
<1> HIDE DEF n
<1>9. probes \in [1 .. n -> ProbeRecs] /\ \A m \in 1 .. n : FreshProbe(probes[m], m)
  BY <1>7, <1>8
<1> HIDE DEF probes
<1>10. probes \in Seq(ProbeRecs) /\ Len(probes) = n
  BY <1>6, <1>9
<1>11. e \in DevRecs /\ e.driver = drv /\ e.probes = probes
  BY <1>1, <1>2, <1>10 DEF DevRecs
<1> HIDE DEF e
<1>12. Fresh(e)
  BY <1>9, <1>10, <1>11 DEF Fresh
<1>13. Listable(e)
  BY <1>5, <1>10, <1>11 DEF Listable, n
<1> QED BY SMTT(30), <1>11, <1>12, <1>13 DEF NewListed, e

\* The instances that sr_driver_init() adds for the driver d, and their devices.
LEMMA NewInstsAre ==
    ASSUME Devs0, NEW v, Alike(usb, v), NEW d \in Range(drivers), NEW list, NEW upload,
           d \in Fx => list \in Listings(Served(d))
    PROVE  LET new == NewInsts(d, list, upload) IN
           /\ new \in Seq(InstRecs)
           /\ d \in Fx => Len(new) <= Len(usb)
           /\ \A k \in 1 .. Len(new) : NewSound(v, now, d, new[k])
           /\ NewDevs(d, new) \in Seq(NewListed)
<1> DEFINE new == NewInsts(d, list, upload)
<1>1. Bus(usb, now) /\ now \in Nat /\ v \in Seq(UsbRecs) /\ d \in Drivers
  BY DEF Devs0, World, Bus, Alike, Range
<1>2. /\ new \in Seq(InstRecs)
      /\ d \in Fx => Len(new) <= Len(usb)
      /\ \A k \in 1 .. Len(new) : NewSound(v, now, d, new[k])
  <2>1. CASE d = "demo"
    <3>1. new = <<DemoInst>> /\ d \notin Fx
      BY <2>1 DEF NewInsts, Fx
    <3>2. NewSound(v, now, d, DemoInst) /\ DemoInst \in InstRecs
      BY <1>1, <2>1, DemoIs DEF NewSound
    <3> HIDE DEF new
    <3> QED BY <3>1, <3>2
  <2>2. CASE d # "demo"
    <3>1. new = Found(list, upload) /\ d \in Fx
      BY <1>1, <2>2 DEF NewInsts, Drivers
    <3> HIDE DEF new
    <3> QED BY <1>1, <3>1, FoundIs
  <2> QED BY <2>1, <2>2
<1> HIDE DEF new
<1>3. ASSUME NEW k \in 1 .. Len(new) PROVE NewDev(d, k - 1, new[k]) \in NewListed
  <2>1. NewSound(v, now, d, new[k]) /\ k - 1 \in Nat
    BY <1>2
  <2>2. PICK i : i = new[k]
    OBVIOUS
  <2>3. d \in Fx => i.found \in 1 .. Len(usb) /\ DriverOf[usb[i.found].model] = d
    <3> SUFFICES ASSUME d \in Fx
                 PROVE  i.found \in 1 .. Len(usb) /\ DriverOf[usb[i.found].model] = d
      OBVIOUS
    <3>1. Sound(v, now, d, i) /\ i \in InstRecs /\ Len(v) = Len(usb)
      BY <2>1, <2>2 DEF NewSound, Alike
    <3>2. /\ i.found # 0 /\ i.found \in 0 .. Len(usb) /\ i.found \in Nat
          /\ DriverOf[v[i.found].model] = d
      BY <3>1, InstFields DEF Sound, OfFx
    <3>3. i.found \in 1 .. Len(usb)
      BY <3>2
    <3> QED BY <3>2, <3>3 DEF Alike, AlikeDev
  <2> QED BY <2>1, <2>2, <2>3, NewDevIs
<1>4. NewDevs(d, new) = [k \in 1 .. Len(new) |-> NewDev(d, k - 1, new[k])]
  <2>1. DOMAIN new = 1 .. Len(new)
    BY <1>2
  <2> QED BY <2>1 DEF NewDevs
<1>5. NewDevs(d, new) \in Seq(NewListed)
  <2>1. NewDevs(d, new) \in [1 .. Len(new) -> NewListed]
    BY <1>3, <1>4
  <2>2. Len(new) \in Nat
    BY <1>2
  <2> QED BY <2>1, <2>2
<1> QED BY <1>2, <1>5 DEF new

\* The instances b are those of a, and some new ones; so are the devices.
Longer(a, b) ==
    /\ Len(b) >= Len(a)
    /\ \A k \in 1 .. Len(a) : b[k] = a[k]

\* What two sequences make together.
LEMMA Joined ==
    ASSUME NEW S, NEW a \in Seq(S), NEW b \in Seq(S)
    PROVE  /\ a \o b \in Seq(S) /\ Len(a \o b) = Len(a) + Len(b)
           /\ Longer(a, a \o b)
           /\ \A k \in 1 .. Len(a \o b) : k > Len(a) =>
                  k - Len(a) \in 1 .. Len(b) /\ (a \o b)[k] = b[k - Len(a)]
BY DEF Longer

\* sr_dev_scan() of the drivers drvs: the instances and the devices that are
\* there already stay, and get new ones behind them.
LEMMA ScanIs ==
    ASSUME Inv0, NEW drvs \in Seq(Range(drivers)), Scan(drvs),
           \A d \in Range(drivers) : d \in Fx => Len(insts[d]) + Len(usb) <= MaxInsts
    PROVE  LET D == Range(drivers) IN
           /\ World(usb', now, D, insts') /\ lost' \subseteq {"upload", "unfit"}
           /\ Alike(usb, usb') /\ \A p \in 1 .. Len(usb) : usb'[p].user = usb[p].user
           /\ \A d \in D :
                  /\ Longer(insts[d], insts'[d])
                  /\ \A k \in 1 .. Len(insts'[d]) : k > Len(insts[d]) =>
                         NewSound(usb', now, d, insts'[d][k])
           /\ devs' \in Seq(DevRecs) /\ Longer(devs, devs')
           /\ \A n \in 1 .. Len(devs') : n > Len(devs) => devs'[n] \in NewListed
<1> DEFINE D == Range(drivers)
<1>1. PICK ls \in [Range(drvs) -> UNION {Listings(Served(d)) : d \in Range(drvs)}],
           upload \in Uploads :
        /\ \A d \in Range(drvs) : ls[d] \in Listings(Served(d))
        /\ DriverInit(drvs, ls, upload)
  BY DEF Scan
<1>2. /\ World(usb, now, D, insts) /\ Bus(usb, now) /\ Devs0
      /\ insts \in [D -> Seq(InstRecs)] /\ now \in 1 .. MaxTime
      /\ usb \in Seq(UsbRecs) /\ Len(usb) \in Nat
  BY DEF Inv0, Devs0, World, Typed, Bus
<1>3. /\ Range(drvs) \subseteq D /\ DOMAIN drvs = 1 .. Len(drvs) /\ Len(drvs) \in Nat
      /\ \A n \in 1 .. Len(drvs) : drvs[n] \in Range(drvs)
  BY DEF Range
<1> DEFINE N(d) == NewInsts(d, ls[d], upload)
<1>4. /\ insts' = [d \in D |-> IF d \in Range(drvs) THEN insts[d] \o N(d) ELSE insts[d]]
      /\ devs' = devs \o FlattenSeq([n \in 1 .. Len(drvs) |->
                                        NewDevs(drvs[n], N(drvs[n]))])
      /\ usb' = Programmed(drvs, upload)
      /\ lost' = lost \cup LeftOpen(drvs, upload)
  BY <1>1, <1>2, <1>3 DEF DriverInit
<1>5. Alike(usb, usb') /\ \A p \in 1 .. Len(usb) : usb'[p].user = usb[p].user
  BY <1>1, <1>2, <1>4, ProgrammedIs
<1>6. ASSUME NEW d \in Range(drvs)
      PROVE  /\ N(d) \in Seq(InstRecs)
             /\ d \in Fx => Len(N(d)) <= Len(usb)
             /\ \A k \in 1 .. Len(N(d)) : NewSound(usb', now, d, N(d)[k])
             /\ NewDevs(d, N(d)) \in Seq(NewListed)
  BY <1>1, <1>2, <1>3, <1>5, NewInstsAre
<1> HIDE DEF N
<1>7. World(usb', now, D, insts)
  <2>1. now <= now
    BY <1>2, Constants
  <2> QED BY <1>2, <1>5, <2>1, AlikeWorld
<1>8. ASSUME NEW d \in D
      PROVE  /\ insts'[d] \in Seq(InstRecs) /\ Longer(insts[d], insts'[d])
             /\ d \in Fx => Len(insts'[d]) <= MaxInsts
             /\ \A k \in 1 .. Len(insts'[d]) : k > Len(insts[d]) =>
                    NewSound(usb', now, d, insts'[d][k])
  <2>1. CASE d \in Range(drvs)
    <3>1. insts'[d] = insts[d] \o N(d)
      BY <1>4, <2>1
    <3>2. /\ insts[d] \in Seq(InstRecs) /\ N(d) \in Seq(InstRecs)
          /\ Len(insts[d]) \in Nat /\ Len(N(d)) \in Nat
      <4>1. insts[d] \in Seq(InstRecs) /\ N(d) \in Seq(InstRecs)
        BY <1>2, <1>6, <2>1
      <4> QED BY <4>1
    <3>3. /\ insts'[d] \in Seq(InstRecs) /\ Len(insts'[d]) = Len(insts[d]) + Len(N(d))
          /\ Longer(insts[d], insts'[d])
          /\ \A k \in 1 .. Len(insts'[d]) : k > Len(insts[d]) =>
                 k - Len(insts[d]) \in 1 .. Len(N(d))
                     /\ insts'[d][k] = N(d)[k - Len(insts[d])]
      BY <3>1, <3>2, Joined
    <3>4. d \in Fx => Len(insts[d]) + Len(usb) <= MaxInsts /\ Len(N(d)) <= Len(usb)
      BY <1>6, <2>1
    <3>5. d \in Fx => Len(insts'[d]) <= MaxInsts
      BY <1>2, <3>2, <3>3, <3>4, Constants
    <3>6. \A k \in 1 .. Len(N(d)) : NewSound(usb', now, d, N(d)[k])
      BY <1>6, <2>1
    <3> QED BY <3>3, <3>5, <3>6
  <2>2. CASE d \notin Range(drvs)
    <3>1. insts'[d] = insts[d] /\ insts[d] \in Seq(InstRecs)
      BY <1>2, <1>4, <2>2
    <3>2. d \in Fx => Len(insts[d]) <= MaxInsts
      BY <1>2 DEF World
    <3> QED BY <3>1, <3>2 DEF Longer
  <2> QED BY <2>1, <2>2
<1>9. World(usb', now, D, insts')
  <2>1. insts' \in [D -> Seq(InstRecs)]
    BY <1>4, <1>8
  <2>2. ASSUME NEW d \in D, NEW k \in 1 .. Len(insts'[d])
        PROVE  Sound(usb', now, d, insts'[d][k])
    <3>1. CASE k > Len(insts[d])
      BY <1>8, <3>1 DEF NewSound
    <3>2. CASE ~(k > Len(insts[d]))
      <4>1. k \in 1 .. Len(insts[d])
        BY <1>2, <1>8, <3>2
      <4>2. insts'[d][k] = insts[d][k]
        BY <1>8, <4>1 DEF Longer
      <4> QED BY <1>7, <4>1, <4>2 DEF World
    <3> QED BY <3>1, <3>2
  <2> QED BY <1>7, <1>8, <2>1, <2>2 DEF World, Typed
<1>10. lost' \subseteq {"upload", "unfit"}
  BY <1>2, <1>4 DEF LeftOpen, Devs0
<1> DEFINE parts == [n \in 1 .. Len(drvs) |-> NewDevs(drvs[n], N(drvs[n]))]
           more == FlattenSeq(parts)
<1>11. more \in Seq(NewListed)
  <2>1. parts \in [1 .. Len(drvs) -> Seq(NewListed)]
    BY <1>3, <1>6
  <2> HIDE DEF parts
  <2> QED BY <1>3, <2>1, Flattened
<1>12. devs' = devs \o more /\ devs \in Seq(DevRecs)
  BY <1>4 DEF Inv0, Listed, DevsListed
<1> HIDE DEF more
<1>13. more \in Seq(DevRecs) /\ \A n \in 1 .. Len(more) : more[n] \in NewListed
  <2>1. NewListed \subseteq DevRecs
    BY DEF NewListed
  <2> QED BY <1>11, <2>1
<1>14. /\ devs' \in Seq(DevRecs) /\ Longer(devs, devs')
       /\ \A n \in 1 .. Len(devs') : n > Len(devs) => devs'[n] \in NewListed
  <2>1. /\ devs' \in Seq(DevRecs) /\ Longer(devs, devs')
        /\ \A n \in 1 .. Len(devs') : n > Len(devs) =>
               n - Len(devs) \in 1 .. Len(more) /\ devs'[n] = more[n - Len(devs)]
    BY <1>12, <1>13, Joined
  <2> QED BY <1>13, <2>1
<1> QED BY <1>5, <1>8, <1>9, <1>10, <1>14

\* A scan, with nothing open.
Scanning(drvs) ==
    /\ drvs \in Seq(Range(drivers)) /\ Scan(drvs)
    /\ \A d \in Range(drivers) : d \in Fx => Len(insts[d]) + Len(usb) <= MaxInsts
    /\ UNCHANGED <<now, drivers, opening, loaded>>
    /\ session.devs = <<>> /\ session'.devs = <<>>
    /\ pc \notin Waiting \cup {"done"} /\ pc' \notin Waiting

\* A scan, by whichever frontend, keeps the conjuncts of the invariant that speak
\* of the instances: it only adds some at the end of their lists.
LEMMA ScanningKeeps ==
    ASSUME Inv0, NEW drvs, Scanning(drvs)
    PROVE  Devs0' /\ OpeningOf' /\ Reasons' /\ AllHeld' /\ Users'
<1> DEFINE D == Range(drivers)
<1>1. /\ drivers' = drivers /\ opening' = opening /\ now' = now /\ loaded' = loaded
      /\ session.devs = <<>> /\ session'.devs = <<>>
      /\ pc \notin Waiting /\ pc # "done" /\ pc' \notin Waiting
  BY DEF Scanning
<1>2. /\ World(usb', now, D, insts') /\ lost' \subseteq {"upload", "unfit"}
      /\ Alike(usb, usb') /\ \A p \in 1 .. Len(usb) : usb'[p].user = usb[p].user
      /\ \A d \in D :
             /\ Longer(insts[d], insts'[d])
             /\ \A k \in 1 .. Len(insts'[d]) : k > Len(insts[d]) =>
                    NewSound(usb', now, d, insts'[d][k])
  BY ScanIs DEF Scanning
<1>3. opening.stage = "idle" /\ opening \in Openings /\ opening.looked <= now
  <2>1. opening.stage # "idle" => pc \in Waiting
    BY DEF Inv0, OpeningOf
  <2> QED BY <1>1, <2>1 DEF Inv0, OpeningOf
<1>4. Devs0'
  BY <1>1, <1>2 DEF Inv0, Devs0
<1>5. \A d \in D : insts[d] \in Seq(InstRecs) /\ insts'[d] \in Seq(InstRecs)
  BY <1>2 DEF Inv0, Devs0, World, Typed
<1>6. \A d \in D : \A k \in 1 .. Len(insts[d]) :
          k \in 1 .. Len(insts'[d]) /\ insts'[d][k] = insts[d][k]
  <2> SUFFICES ASSUME NEW d \in D, NEW k \in 1 .. Len(insts[d])
               PROVE  k \in 1 .. Len(insts'[d]) /\ insts'[d][k] = insts[d][k]
    OBVIOUS
  <2>1. Len(insts[d]) \in Nat /\ Len(insts'[d]) \in Nat
    BY <1>5
  <2> QED BY <1>2, <2>1 DEF Longer
<1>7. opening.inst # 0 /\ opening.drv \in Fx =>
          /\ opening.drv \in D /\ opening.inst \in 1 .. Len(insts[opening.drv])
          /\ insts[opening.drv] # <<>>
  <2>1. Devs0 /\ OpeningOf /\ pc # "done"
    BY <1>1 DEF Inv0
  <2>2. \A s \in Seq(InstRecs) : \A k \in 1 .. Len(s) : s # <<>>
    OBVIOUS
  <2> QED BY <2>1, <2>2, OpenedIs
<1>8. OpeningOf'
  BY <1>1, <1>3, <1>6, <1>7 DEF OpeningOf
<1>9. Reasons'
  <2> SUFFICES ASSUME opening.ret = "error", opening.drv \in Fx, opening.inst # 0,
                      Len(usb) = 1, usb'[1].kind = "fine"
               PROVE  Because(Opened)'
    BY <1>1, <1>2, <1>3 DEF Reasons, Alike
  <2>1. AlikeDev(usb[1], usb'[1])
    <3>1. 1 \in 1 .. Len(usb)
      OBVIOUS
    <3> QED BY <1>2, <3>1 DEF Alike
  <2>2. Because(Opened)
    BY <1>7, <2>1 DEF Inv0, Reasons, AlikeDev
  <2>3. Opened' = Opened
    BY <1>1, <1>6, <1>7 DEF Opened
  <2> QED BY ONLY <1>1, <2>1, <2>2, <2>3 DEF Because, AlikeDev
<1>10. AllHeld'
  <2> SUFFICES ASSUME ~loaded, NEW d \in Fx \cap D, NEW k \in 1 .. Len(insts'[d])
               PROVE  Loose(usb', k, insts'[d][k])
    BY <1>1 DEF AllHeld, Held
  <2>1. CASE k > Len(insts[d])
    <3>1. insts'[d][k].status # "active"
      BY <1>2, <2>1 DEF NewSound
    <3> QED BY <3>1 DEF Loose
  <2>2. CASE ~(k > Len(insts[d]))
    <3>1. k \in 1 .. Len(insts[d])
      <4>1. Len(insts[d]) \in Nat /\ Len(insts'[d]) \in Nat
        BY <1>5
      <4> QED BY <2>2, <4>1
    <3>2. insts'[d][k] = insts[d][k]
      BY <1>6, <3>1
    <3>3. Held(d, k)
      BY <3>1 DEF Inv0, AllHeld
    <3>4. ~Claims(d, k) /\ ~InSession(d, k) /\ ~JustOpened(d, k)
      BY <1>1, <1>3, SessionHas DEF Claims, JustOpened
    <3>5. Loose(usb, k, insts[d][k])
      BY <3>3, <3>4 DEF Held
    <3> DEFINE h == insts[d][k].handle
    <3>6. h # NoHandle => h.dev \in 1 .. Len(usb)
      <4>1. insts[d][k] \in InstRecs /\ Sound(usb, now, d, insts[d][k])
        BY <3>1 DEF Inv0, Devs0, World, Typed
      <4>2. h.dev # 0 \/ h = NoHandle
        BY <4>1 DEF Sound
      <4>3. h.dev \in 0 .. Len(usb) /\ h.dev \in Nat
        BY <4>1, InstFields DEF Sound
      <4> QED BY <4>2, <4>3
    <3>7. h # NoHandle => usb'[h.dev].user = usb[h.dev].user
      BY <1>2, <3>6
    <3> QED BY <3>2, <3>5, <3>7 DEF Loose
  <2> QED BY <2>1, <2>2
<1>11. Users'
  <2> SUFFICES ASSUME ~loaded, NEW p \in 1 .. Len(usb)
               PROVE  UsedBy(usb', D, insts', p) /\ Unclaimed(p)'
    BY <1>1, <1>2 DEF Users, Alike
  <2>1. UsedBy(usb, D, insts, p)
    BY DEF Inv0, Users
  <2>2. usb'[p].model = usb[p].model /\ usb'[p].user = usb[p].user
    BY <1>2 DEF Alike, AlikeDev
  <2> QED BY <1>1, <1>3, <1>6, <2>1, <2>2 DEF UsedBy, Unclaimed, Claims
<1> QED BY <1>4, <1>8, <1>9, <1>10, <1>11

-----------------------------------------------------------------------------
(* The end *)

\* sr_exit() leaves no instance that a device could be opened for.
LEMMA ExitKeeps ==
    ASSUME Inv0, Exit
    PROVE  Devs0' /\ OpeningOf' /\ Reasons' /\ AllHeld' /\ Users'
<1> DEFINE D == Range(drivers)
<1>1. /\ drivers' = drivers /\ opening' = opening /\ now' = now /\ loaded' = loaded
      /\ lost' = lost /\ session' = session /\ opening.stage = "idle"
      /\ pc' = "done" /\ pc = "exit"
      /\ Cleanup(D)
  BY DEF Exit, lists, Goto
<1>2. /\ World(usb, now, D, insts) /\ Bus(usb, now) /\ insts \in [D -> Seq(InstRecs)]
      /\ usb \in Seq(UsbRecs) /\ Len(usb) \in Nat /\ Devices = 1 .. Len(usb)
      /\ DOMAIN usb = 1 .. Len(usb) /\ now \in 1 .. MaxTime
  BY DEF Inv0, Devs0, World, Bus, Typed, Devices
<1>3. \A d \in D : insts'[d] = IF d \in Fx THEN <<>> ELSE insts[d]
  BY <1>1, <1>2 DEF Cleanup
<1> DEFINE r(p) == [usb[p] EXCEPT !.user = 0]
<1>4. usb' = [p \in 1 .. Len(usb) |-> r(p)]
  BY <1>1, <1>2 DEF Cleanup
<1>5. ASSUME NEW p \in 1 .. Len(usb)
      PROVE  r(p) \in UsbRecs /\ r(p).user = 0 /\ AlikeDev(usb[p], r(p))
  <2>1. usb[p] \in UsbRecs /\ 0 <= MaxInsts
    BY <1>2, Constants
  <2> QED BY <2>1 DEF UsbRecs, AlikeDev
<1> HIDE DEF r
<1>6. usb' \in [1 .. Len(usb) -> UsbRecs] /\ \A p \in 1 .. Len(usb) : usb'[p] = r(p)
  BY <1>4, <1>5
<1>7. usb' \in Seq(UsbRecs) /\ Len(usb') = Len(usb)
  BY <1>2, <1>6
<1>8. Alike(usb, usb')
  BY <1>5, <1>6, <1>7 DEF Alike
<1>9. World(usb', now, D, insts)
  <2>1. now <= now
    BY <1>2, Constants
  <2> QED BY <1>2, <1>8, <2>1, AlikeWorld
<1>10. insts' \in [D -> Seq(InstRecs)]
  <2>1. insts' = [d \in D |-> IF d \in D \cap Fx THEN <<>> ELSE insts[d]]
    BY <1>1, <1>2 DEF Cleanup
  <2>2. <<>> \in Seq(InstRecs)
    OBVIOUS
  <2> QED BY <1>2, <2>1, <2>2
<1>11. World(usb', now, D, insts')
  <2>1. ASSUME NEW d \in D, NEW k \in 1 .. Len(insts'[d])
        PROVE  d \notin Fx /\ Sound(usb', now, d, insts'[d][k])
    <3>1. d \notin Fx
      <4>1. Len(<<>>) = 0 /\ 1 .. 0 = {}
        OBVIOUS
      <4> QED BY <1>3, <4>1
    <3> QED BY <1>3, <1>9, <3>1 DEF World
  <2>2. ASSUME NEW d \in D, d \in Fx PROVE Len(insts'[d]) <= MaxInsts
    <3>1. insts'[d] = <<>>
      BY <1>3, <2>2
    <3>2. Len(<<>>) <= MaxInsts
      BY Constants
    <3> QED BY <3>1, <3>2
  <2> QED BY <1>9, <1>10, <2>1, <2>2 DEF World, Typed
<1>12. Devs0'
  BY <1>1, <1>11 DEF Inv0, Devs0
<1>13. opening.inst # 0 /\ opening.drv \in Fx => opening.drv \in D
  BY DEF Inv0, OpeningOf
<1>14. opening \in Openings /\ opening.looked <= now
       /\ (opening.ret = "error" => session.devs = <<>>)
  BY DEF Inv0, OpeningOf
<1>15. OpeningOf'
  <2>1. pc' \notin Waiting
    BY <1>1 DEF Waiting
  <2> QED BY <1>1, <1>13, <1>14, <2>1 DEF OpeningOf
<1>16. Reasons'
  BY <1>1, <1>3, <1>13 DEF Reasons
<1>17. AllHeld'
  <2>1. \A d \in Fx \cap D : \A k : k \notin 1 .. Len(insts'[d])
    <3>1. Len(<<>>) = 0 /\ \A k : k \notin 1 .. 0
      OBVIOUS
    <3> QED BY <1>3, <3>1
  <2> QED BY <1>1, <2>1 DEF AllHeld
<1>18. Users'
  <2>1. \A p \in 1 .. Len(usb') : usb'[p].user = 0
    BY <1>5, <1>6, <1>7
  <2> QED BY <2>1 DEF Users, UsedBy, Unclaimed
<1> QED BY <1>12, <1>15, <1>16, <1>17, <1>18

-----------------------------------------------------------------------------
(* The frontends *)

\* What the device list says of the device that is worked with.
LEMMA DevIs ==
    ASSUME Inv0, dev # 0
    PROVE  /\ dev \in 1 .. Len(devs) /\ devs \in Seq(DevRecs) /\ devs[dev] \in DevRecs
           /\ Driver \in Range(drivers) /\ Driver \in Drivers /\ Index \in Nat
           /\ Probes \in Seq(ProbeRecs) /\ Listable(devs[dev])
           /\ insts[Driver] \in Seq(InstRecs)
<1>1. devs \in Seq(DevRecs) /\ dev \in 0 .. Len(devs)
  BY DEF Inv0, Listed, DevsListed
<1>2. dev \in 1 .. Len(devs)
  BY <1>1
<1>3. devs[dev] \in DevRecs /\ Listable(devs[dev])
  BY <1>1, <1>2 DEF Inv0, Listed, DevsListed
<1>4. Driver \in Range(drivers) /\ Driver \in Drivers /\ Index \in Nat
      /\ Probes \in Seq(ProbeRecs)
  BY <1>3 DEF Listable, DevRecs, Driver, Index, Probes
<1>5. insts[Driver] \in Seq(InstRecs)
  BY <1>4 DEF Inv0, Devs0, World, Typed
<1> QED BY <1>1, <1>2, <1>3, <1>4, <1>5

\* Where any setting gets to there is an instance.
LEMMA TakenBy ==
    ASSUME Inv0, NEW drv \in Range(drivers), NEW index, NEW cap, Reaches(drv, index, cap)
    PROVE  /\ InstOf(drv, index) \in 1 .. Len(insts[drv])
           /\ InstOf(drv, index) = IndexIn(insts[drv], index)
<1>1. insts[drv] \in Seq(InstRecs)
  BY DEF Inv0, Devs0, World, Typed
<1> QED BY <1>1, IndexListed, IndexIsInstOf DEF Reaches

\* Setting one changes how an instance is configured, and nothing else.
LEMMA SettingIs ==
    ASSUME Inv0, NEW drv \in Range(drivers), NEW index, NEW cap, NEW value,
           Reaches(drv, index, cap), ValueOf(cap, value)
    PROVE  LET new == WithConfig(insts, drv, index, cap, value) IN
           Typed(Range(drivers), new) /\ Same(Range(drivers), insts, new)
<1>1. insts \in [Range(drivers) -> Seq(InstRecs)] /\ drv \in Drivers
  BY DEF Inv0, Devs0, World, Typed, Range
<1> QED BY <1>1, TakenBy, Configures DEF Typed

\* Nothing is configured.
LEMMA SameAsItIs ==
    ASSUME Inv0
    PROVE  /\ Typed(Range(drivers), insts) /\ Same(Range(drivers), insts, insts)
           /\ World(usb, now, Range(drivers), insts)
BY DEF Inv0, Devs0, World, Same, SameInst, KeptInst

\* What the session can become.
LEMMA SessionsAre ==
    ASSUME NEW n \in Nat
    PROVE  /\ NoSession \in Sessions(n) /\ NoSession.devs = <<>> /\ ~NoSession.exists
           /\ EmptySession \in Sessions(n) /\ EmptySession.devs = <<>>
           /\ EmptySession.exists
           /\ \A s \in Sessions(n) :
                  /\ [s EXCEPT !.devs = <<>>] \in Sessions(n)
                  /\ [s EXCEPT !.devs = <<>>].devs = <<>>
                  /\ [s EXCEPT !.devs = <<>>].exists = s.exists
BY DEF NoSession, EmptySession, Sessions

\* The probes of the device are set, and as many as there were.
LEMMA NewProbes ==
    ASSUME Inv0, dev # 0, NEW ps \in Seq(ProbeRecs), Len(ps) = Len(Probes)
    PROVE  LET new == [devs EXCEPT ![dev].probes = ps] IN
           /\ new \in Seq(DevRecs) /\ Len(new) = Len(devs)
           /\ \A n \in 1 .. Len(devs) :
                  /\ new[n].driver = devs[n].driver /\ new[n].index = devs[n].index
                  /\ Listable(new[n])
           /\ new[dev].probes = ps
<1> DEFINE e == [devs[dev] EXCEPT !.probes = ps]
           new == [devs EXCEPT ![dev] = e]
<1>1. /\ dev \in 1 .. Len(devs) /\ devs \in Seq(DevRecs) /\ devs[dev] \in DevRecs
      /\ Listable(devs[dev]) /\ Len(ps) = Len(devs[dev].probes)
  BY DevIs DEF Probes
<1>2. /\ e \in DevRecs /\ e.driver = devs[dev].driver /\ e.index = devs[dev].index
      /\ e.probes = ps
  BY <1>1 DEF DevRecs
<1>3. Listable(e)
  BY <1>1, <1>2 DEF Listable
<1>4. [devs EXCEPT ![dev].probes = ps] = new
  BY <1>1
<1> HIDE DEF e
<1>5. /\ new \in Seq(DevRecs) /\ Len(new) = Len(devs)
      /\ \A n \in 1 .. Len(devs) : new[n] = IF n = dev THEN e ELSE devs[n]
  BY <1>1, <1>2
<1>6. \A n \in 1 .. Len(devs) : Listable(devs[n])
  BY DEF Inv0, Listed, DevsListed
<1> HIDE DEF new
<1> QED BY <1>1, <1>2, <1>3, <1>4, <1>5, <1>6

\* What a command line asks for.
LEMMA CommandIs ==
    ASSUME Inv0
    PROVE  /\ cmd \in Commands
           /\ cmd.samplerate \in Nat /\ cmd.number \in Nat /\ cmd.frames \in Nat
           /\ cmd.select \in {"all", "list", "bad"}
           /\ DOMAIN cmd.probes \subseteq Nat /\ cmd.probes \in [DOMAIN cmd.probes -> STRING]
           /\ cmd.triggers \in Seq(STRING \X Nat \X Triggers)
           /\ cmd.time \in Limits /\ cmd.samples \in Limits
           /\ Time(cmd.time) \in Nat \/ cmd.time = <<>>
           /\ cmd.samples # <<>> /\ SizeOk(cmd.samples) => Size(cmd.samples) \in Nat
<1>1. cmd \in Commands
  BY DEF Inv0, Listed
<1>2. /\ cmd.samplerate \in Nat /\ cmd.number \in Nat /\ cmd.frames \in Nat
      /\ cmd.select \in {"all", "list", "bad"}
      /\ DOMAIN cmd.probes \subseteq Nat /\ cmd.probes \in [DOMAIN cmd.probes -> STRING]
      /\ cmd.triggers \in Seq(STRING \X Nat \X Triggers)
      /\ cmd.time \in Limits /\ cmd.samples \in Limits
  BY <1>1, FrontendsAssumption
<1>3. ASSUME NEW x \in Limits, x # <<>>
      PROVE  Time(x) \in Nat /\ (SizeOk(x) => Size(x) \in Nat)
  <2>1. x \in Nat \X STRING
    BY <1>3 DEF Limits
  <2>2. x[1] \in Nat
    BY <2>1
  <2>3. Time(x) \in Nat
    <3>1. \/ Time(x) = x[1] \/ Time(x) = x[1] * 1000 \/ Time(x) = 0
      BY ZenonT(30) DEF Time
    <3> QED BY <2>2, <3>1
  <2>4. SizeOk(x) => Multiplier[x[2]] \in Nat
    <3>1. \A s \in DOMAIN Multiplier : Multiplier[s] = 1000 \/ Multiplier[s] = 1
      BY ZenonT(30) DEF Multiplier
    <3> QED BY <3>1 DEF SizeOk
  <2>5. \A n, m \in Nat : n * m \in Nat
    OBVIOUS
  <2> QED BY <2>2, <2>3, <2>4, <2>5 DEF Size
<1> QED BY <1>1, <1>2, <1>3

\* What is listed is in order after a step.
LEMMA ListedIs ==
    ASSUME Inv0, UNCHANGED <<client, cmd, drivers>>, limit' \in Nat, loaded' \in BOOLEAN,
           devs' \in Seq(DevRecs), \A n \in 1 .. Len(devs') : Listable(devs'[n]),
           dev' \in 0 .. Len(devs'), pc' \in Working => dev' # 0,
           session' \in Sessions(Len(devs')), ~session'.exists => session'.devs = <<>>,
           pc' \in {"start", "add"} => session' = NoSession,
           pc' = "start" => client = "qt",
           pc' \in Waiting /\ opening'.ret # "error" => session'.exists
    PROVE  Listed'
<1>1. client \in {"cli", "gtk", "qt"} /\ cmd \in Commands
  BY DEF Inv0, Listed
<1>2. DevsListed'
  BY DEF DevsListed, Listable
<1> QED BY <1>1, <1>2 DEF Listed

\* Nothing is listed anew.
LEMMA ListedStays ==
    ASSUME Inv0, UNCHANGED <<client, cmd, drivers, devs>>, limit' \in Nat,
           loaded' \in BOOLEAN, dev' \in 0 .. Len(devs), pc' \in Working => dev' # 0,
           session' \in Sessions(Len(devs)), ~session'.exists => session'.devs = <<>>,
           pc' \in {"start", "add"} => session' = NoSession,
           pc' = "start" => client = "qt",
           pc' \in Waiting /\ opening'.ret # "error" => session'.exists
    PROVE  Listed'
<1>1. devs \in Seq(DevRecs) /\ \A n \in 1 .. Len(devs) : Listable(devs[n])
  BY DEF Inv0, Listed, DevsListed
<1> QED BY <1>1, ListedIs

\* The device is configured: the step goes on with the session as it is.
GoesOn ==
    /\ UNCHANGED <<client, cmd, drivers, dev, session, usb, now, lost, opening, loaded>>
    /\ Typed(Range(drivers), insts') /\ Same(Range(drivers), insts, insts')
    /\ \/ devs' = devs
       \/ dev # 0 /\ \E ps \in Seq(ProbeRecs) :
              Len(ps) = Len(Probes) /\ devs' = [devs EXCEPT ![dev].probes = ps]
    /\ limit' \in Nat /\ pc \notin Waiting \cup {"done"}
    /\ pc' \in Working => dev # 0
    /\ pc' \notin Waiting \cup {"start", "add"}

\* A step of a frontend that only goes on keeps the invariant.
LEMMA GoesOnKeeps ==
    ASSUME Inv0, GoesOn
    PROVE  Inv0'
<1>1. /\ devs \in Seq(DevRecs) /\ \A n \in 1 .. Len(devs) : Listable(devs[n])
      /\ loaded \in BOOLEAN /\ dev \in 0 .. Len(devs) /\ session \in Sessions(Len(devs))
      /\ ~session.exists => session.devs = <<>>
  BY DEF Inv0, Listed, DevsListed
<1>2. /\ devs' \in Seq(DevRecs) /\ Len(devs') = Len(devs)
      /\ \A n \in 1 .. Len(devs) :
             /\ devs'[n].driver = devs[n].driver /\ devs'[n].index = devs[n].index
             /\ Listable(devs'[n])
  <2>1. CASE devs' = devs
    BY <1>1, <2>1
  <2>2. CASE dev # 0 /\ \E ps \in Seq(ProbeRecs) :
                 Len(ps) = Len(Probes) /\ devs' = [devs EXCEPT ![dev].probes = ps]
    <3>1. PICK ps \in Seq(ProbeRecs) :
              Len(ps) = Len(Probes) /\ devs' = [devs EXCEPT ![dev].probes = ps]
      BY <2>2
    <3>2. LET new == [devs EXCEPT ![dev].probes = ps] IN
          /\ new \in Seq(DevRecs) /\ Len(new) = Len(devs)
          /\ \A n \in 1 .. Len(devs) :
                 /\ new[n].driver = devs[n].driver /\ new[n].index = devs[n].index
                 /\ Listable(new[n])
      BY <2>2, <3>1, NewProbes
    <3> QED BY ONLY <3>1, <3>2
  <2> QED BY <2>1, <2>2 DEF GoesOn
<1>3. Configuring
  BY <1>2 DEF GoesOn, Configuring
<1>4. Listed'
  BY <1>1, <1>2, ListedIs DEF GoesOn
<1> QED BY <1>3, <1>4, ConfiguringKeeps DEF Inv0

\* The session is destroyed, and its device closed.
Destroys ==
    /\ Destroy
    /\ UNCHANGED <<client, cmd, drivers, devs, now, lost, opening, loaded>>
    /\ limit' = limit /\ dev' \in 0 .. Len(devs)
    /\ opening.stage = "idle" /\ ~(pc \in Waiting /\ opening.ret = "ok")
    /\ pc # "done" /\ pc' \notin Waiting
    /\ pc' \in Working => dev' # 0
    /\ pc' = "start" => client = "qt"

\* A step that destroys the session keeps the invariant.
LEMMA DestroysKeeps ==
    ASSUME Inv0, Destroys
    PROVE  Inv0'
<1>1. Len(devs) \in Nat /\ limit \in Nat /\ loaded \in BOOLEAN
  BY DEF Inv0, Listed, DevsListed
<1>2. session' = NoSession /\ RemoveAll
  BY DEF Destroys, Destroy
<1>3. NoSession \in Sessions(Len(devs)) /\ NoSession.devs = <<>>
  BY <1>1, SessionsAre
<1>4. Closing
  BY <1>2, <1>3 DEF Destroys, Closing
<1>5. Listed'
  BY <1>1, <1>2, <1>3, ListedStays DEF Destroys
<1> QED BY <1>4, <1>5, ClosingKeeps DEF Inv0

\* A device is opened; nothing holds one.
LEMMA Begins ==
    ASSUME Inv0, NEW n, Beginning(n), UNCHANGED usb,
           Typed(Range(drivers), insts'), Same(Range(drivers), insts, insts'),
           opening.stage = "idle", pc \notin Waiting,
           ~loaded' => ~loaded /\ session.devs = <<>>
    PROVE  Devs0' /\ OpeningOf' /\ Reasons' /\ AllHeld' /\ Users'
<1> DEFINE D == Range(drivers)
<1>1. World(usb, now, D, insts)
  BY SameAsItIs
<1>2. World(usb', now, D, insts') /\ Kept(D, insts, insts')
  <2>1. World(usb, now, D, insts')
    BY <1>1, SameWorld
  <2> QED BY <2>1, SameIsKept
<1>3. ASSUME ~loaded', NEW d \in Fx \cap D, NEW k \in 1 .. Len(insts[d])
      PROVE  Loose(usb', k, insts'[d][k])
  <2>1. Held(d, k)
    BY <1>3 DEF Inv0, AllHeld
  <2>2. ~Claims(d, k) /\ ~InSession(d, k) /\ ~JustOpened(d, k)
    BY <1>3, SessionHas DEF Claims, JustOpened
  <2>3. SameInst(insts[d][k], insts'[d][k])
    BY DEF Same
  <2> QED BY <2>1, <2>2, <2>3 DEF Held, Loose, SameInst
<1>4. ASSUME ~loaded', NEW p \in 1 .. Len(usb)
      PROVE  UsedBy(usb', D, insts', p)
  <2>1. UsedBy(usb, D, insts, p)
    BY <1>4 DEF Inv0, Users
  <2>2. \A d \in D : \A k \in 1 .. Len(insts[d]) :
            /\ k \in 1 .. Len(insts'[d])
            /\ insts'[d][k].status = insts[d][k].status
            /\ insts'[d][k].handle = insts[d][k].handle
    BY DEF Same, SameInst
  <2> QED BY <2>1, <2>2 DEF UsedBy
<1> QED BY <1>2, <1>3, <1>4, BeginningKeeps

-----------------------------------------------------------------------------
(* sigrok-cli *)

\* The n-th of some numbers.
LEMMA NthIs ==
    ASSUME NEW m \in Nat, NEW S \in SUBSET (1 .. m), NEW n
    PROVE  Nth(S, n) \in 0 .. m
<1> DEFINE Small(x) == Cardinality({y \in S : y <= x}) = n
           hits == {x \in S : Small(x)}
<1>1. Nth(S, n) = IF hits = {} THEN 0 ELSE Min(hits)
  BY DEF Nth
<1> HIDE DEF Small
<1>2. hits \subseteq S
  OBVIOUS
<1>3. \A x \in S : x \in 0 .. m /\ x \in Nat
  OBVIOUS
<1> HIDE DEF hits
<1>4. hits \in SUBSET Nat
  BY <1>2, <1>3
<1>5. hits # {} => Min(hits) \in hits
  BY <1>4, Least
<1>6. hits # {} => Min(hits) \in 0 .. m
  BY ONLY <1>2, <1>3, <1>5
<1>7. 0 \in 0 .. m
  OBVIOUS
<1> QED BY ONLY <1>1, <1>6, <1>7

\* What sigrok-cli may scan at its start.
LEMMA FirstScan ==
    ASSUME Inv0, pc = "start", client # "qt", NEW drvs \in Seq(Range(drivers)),
           Scan(drvs), UNCHANGED <<now, drivers, opening, loaded>>,
           session'.devs = <<>>, pc' \notin Waiting
    PROVE  Scanning(drvs)
<1>1. session = NoSession /\ \A d \in Range(drivers) : insts[d] = <<>>
  BY DEF Inv0, Listed
<1>2. NoSession.devs = <<>>
  BY DEF NoSession
<1>3. pc \notin Waiting \cup {"done"}
  BY DEF Waiting
<1>4. Len(usb) \in Nat /\ Len(usb) <= MaxInsts
  BY DEF Inv0, Devs0, World, Bus
<1>5. \A d \in Range(drivers) : Len(insts[d]) + Len(usb) <= MaxInsts
  BY <1>1, <1>4
<1> QED BY <1>1, <1>2, <1>3, <1>5 DEF Scanning

\* After a scan the devices are listed.
LEMMA ScannedDevs ==
    ASSUME Inv0, NEW drvs, Scanning(drvs)
    PROVE  /\ devs' \in Seq(DevRecs) /\ Len(devs) <= Len(devs')
           /\ \A n \in 1 .. Len(devs') : Listable(devs'[n])
<1>1. /\ devs' \in Seq(DevRecs) /\ Longer(devs, devs')
      /\ \A n \in 1 .. Len(devs') : n > Len(devs) => devs'[n] \in NewListed
  BY ScanIs DEF Scanning
<1>2. devs \in Seq(DevRecs) /\ \A n \in 1 .. Len(devs) : Listable(devs[n])
  BY DEF Inv0, Listed, DevsListed
<1>3. Len(devs) \in Nat /\ Len(devs') \in Nat
  BY <1>1, <1>2
<1>4. ASSUME NEW n \in 1 .. Len(devs') PROVE Listable(devs'[n])
  <2>1. CASE n > Len(devs)
    BY <1>1, <2>1 DEF NewListed
  <2>2. CASE ~(n > Len(devs))
    <3>1. n \in 1 .. Len(devs)
      BY <1>3, <2>2
    <3> QED BY <1>1, <1>2, <3>1 DEF Longer
  <2> QED BY <2>1, <2>2
<1> QED BY <1>1, <1>3, <1>4 DEF Longer

\* sigrok-cli's choice of a device, with the scan before it, keeps the invariant.
LEMMA CliSelectKeeps ==
    ASSUME Inv0, CliSelect
    PROVE  Inv0'
<1>1. /\ client = "cli" /\ pc = "start" /\ opening.stage = "idle"
      /\ pc' = IF dev' = 0 THEN "exit" ELSE "add"
      /\ UNCHANGED <<client, cmd, opening, now, drivers, session, limit, loaded>>
  BY DEF CliSelect, At, Goto
<1>2. /\ session = NoSession /\ devs = <<>> /\ limit \in Nat /\ loaded \in BOOLEAN
      /\ drivers \in Seq(Drivers)
  BY <1>1 DEF Inv0, Listed, Devs0
<1>3. pc' \notin Waiting /\ pc' # "start" /\ pc' \notin {"exit"} \cap Working
      /\ pc \notin Waiting \cup {"done"}
  BY <1>1 DEF Waiting, Working
<1>4. session' = NoSession /\ session'.devs = <<>> /\ ~session'.exists
  BY <1>1, <1>2 DEF NoSession
<1>5. ASSUME NEW drvs \in Seq(Range(drivers)), Scan(drvs), dev' \in 0 .. Len(devs')
      PROVE  Inv0'
  <2>1. Scanning(drvs)
    BY <1>1, <1>3, <1>4, <1>5, FirstScan
  <2>2. devs' \in Seq(DevRecs) /\ \A n \in 1 .. Len(devs') : Listable(devs'[n])
    BY <2>1, ScannedDevs
  <2>3. session' \in Sessions(Len(devs'))
    <3>1. Len(devs') \in Nat
      BY <2>2
    <3> QED BY <1>4, <3>1, SessionsAre
  <2>4. Listed'
    BY <1>1, <1>2, <1>3, <1>4, <1>5, <2>2, <2>3, ListedIs DEF Working
  <2> QED BY <2>1, <2>4, ScanningKeeps DEF Inv0
<1>6. drivers \in Seq(Range(drivers))
  <2>1. drivers \in [1 .. Len(drivers) -> Range(drivers)] /\ Len(drivers) \in Nat
    BY <1>2 DEF Range
  <2> QED BY <2>1
<1>7. ASSUME Scan(drivers), NEW n, dev' = Nth(RealDevs(devs'), n) PROVE Inv0'
  <2>1. Scanning(drivers)
    BY <1>1, <1>3, <1>4, <1>6, <1>7, FirstScan
  <2>2. devs' \in Seq(DevRecs) /\ Len(devs') \in Nat
    BY <2>1, ScannedDevs
  <2>3. RealDevs(devs') \in SUBSET (1 .. Len(devs'))
    BY <2>2 DEF RealDevs
  <2> QED BY <1>5, <1>6, <1>7, <2>2, <2>3, NthIs
<1>8. CASE cmd.driver \in Range(drivers) /\ Scan(<<cmd.driver>>)
             /\ dev' = IF Len(devs') = 1 THEN 1 ELSE 0
  <2>1. <<cmd.driver>> \in Seq(Range(drivers))
    BY <1>8
  <2>2. Scanning(<<cmd.driver>>)
    BY <1>1, <1>3, <1>4, <1>8, <2>1, FirstScan
  <2>3. Len(devs') \in Nat
    BY <2>2, ScannedDevs
  <2>4. dev' \in 0 .. Len(devs')
    BY <1>8, <2>3
  <2> QED BY <1>5, <1>8, <2>1, <2>4
<1>9. CASE UNCHANGED <<usbs, devs>> /\ dev' = 0
  <2>1. pc' = "exit"
    BY <1>1, <1>9
  <2>2. Configuring
    BY <1>1, <1>3, <1>9, SameAsItIs DEF Configuring, usbs
  <2>3. session' \in Sessions(Len(devs)) /\ 0 \in 0 .. Len(devs)
    BY <1>2, <1>4, SessionsAre
  <2>4. Listed'
    BY <1>1, <1>2, <1>4, <1>9, <2>1, <2>3, ListedStays DEF Working, Waiting
  <2> QED BY <2>2, <2>4, ConfiguringKeeps DEF Inv0
<1>10. CASE DevList(drivers) /\ dev' = Nth(RealDevs(devs'), cmd.number + 1)
  BY <1>2, <1>7, <1>10 DEF DevList
<1>11. CASE DevList(drivers)
              /\ dev' = IF Cardinality(RealDevs(devs')) = 1
                        THEN Nth(RealDevs(devs'), 1) ELSE 0
  <2>1. Scan(drivers)
    BY <1>2, <1>11 DEF DevList
  <2>2. CASE dev' = Nth(RealDevs(devs'), 1)
    BY <1>7, <2>1, <2>2
  <2>3. CASE dev' = 0
    <3>1. Scanning(drivers)
      BY <1>1, <1>3, <1>4, <1>6, <2>1, FirstScan
    <3>2. Len(devs') \in Nat
      BY <3>1, ScannedDevs
    <3> QED BY <1>5, <1>6, <2>1, <2>3, <3>2
  <2> QED BY <1>11, <2>2, <2>3
<1> QED BY <1>8, <1>9, <1>10, <1>11 DEF CliSelect

\* sigrok-cli's sr_session_new() and the open that follows keep the invariant.
LEMMA CliAddKeeps ==
    ASSUME Inv0, CliAdd
    PROVE  Inv0'
<1>1. /\ pc = "add" /\ pc' = "added" /\ opening.stage = "idle"
      /\ session' = EmptySession /\ opening' = DevOpen(Driver, Index)
      /\ UNCHANGED <<client, cmd, usb, lost, insts, now, drivers, devs, dev, limit, loaded>>
  BY DEF CliAdd, At, Goto, usbs
<1>2. /\ dev # 0 /\ session = NoSession /\ limit \in Nat /\ loaded \in BOOLEAN
      /\ dev \in 0 .. Len(devs)
  BY <1>1 DEF Inv0, Listed, Working
<1>3. NoSession.devs = <<>> /\ EmptySession.devs = <<>> /\ EmptySession.exists
  BY DEF NoSession, EmptySession
<1>4. dev \in 1 .. Len(devs) /\ Len(devs) \in Nat
  BY <1>2, DevIs
<1>5. Beginning(dev)
  BY <1>1, <1>3, <1>4 DEF Beginning, Driver, Index, Waiting
<1>6. EmptySession \in Sessions(Len(devs))
  BY <1>4, SessionsAre
<1>7. Listed'
  BY <1>1, <1>2, <1>3, <1>6, ListedStays
<1>8. pc \notin Waiting
  BY <1>1 DEF Waiting
<1> QED BY <1>1, <1>2, <1>3, <1>5, <1>7, <1>8, SameAsItIs, Begins DEF Inv0

\* CliFails, as the other steps use it.
LEMMA CliFailsKeeps ==
    ASSUME Inv0, CliFails, opening.stage = "idle", ~(pc \in Waiting /\ opening.ret = "ok"),
           pc # "done"
    PROVE  Inv0'
<1>1. dev \in 0 .. Len(devs)
  BY DEF Inv0, Listed
<1>2. Destroys
  BY <1>1 DEF CliFails, CliStays, Goto, Destroys, Waiting, Working
<1> QED BY <1>2, DestroysKeeps

\* The device is open, and goes into the session.
LEMMA AddsKeeps ==
    ASSUME Inv0, pc \in Waiting, opening.stage = "idle", opening.ret = "ok",
           session' = Added(dev), pc' \notin Waiting \cup {"start", "add"},
           UNCHANGED <<client, cmd, usb, lost, insts, devs, limit, opening, now,
                       drivers, dev, loaded>>
    PROVE  Inv0'
<1>1. dev # 0 /\ session.exists /\ session.devs = <<>>
  BY DEF Inv0, Listed, OpeningOf, Working
<1>2. Adding
  BY DEF Adding
<1>3. session' \in Sessions(Len(devs)) /\ session'.exists
  <2>1. dev \in 1 .. Len(devs) /\ session \in Sessions(Len(devs))
    BY <1>1, DevIs DEF Inv0, Listed
  <2>2. Append(session.devs, dev) = <<dev>>
    BY <1>1
  <2>3. session' = [session EXCEPT !.devs = <<dev>>]
    BY <2>2 DEF Added
  <2> QED BY <1>1, <2>1, <2>3 DEF Sessions
<1>4. limit \in Nat /\ loaded \in BOOLEAN /\ dev \in 0 .. Len(devs)
  BY DEF Inv0, Listed
<1>5. Listed'
  BY <1>1, <1>3, <1>4, ListedStays
<1> QED BY <1>2, <1>5, AddingKeeps DEF Inv0

\* sr_session_dev_add() has returned to sigrok-cli.
LEMMA CliAddedKeeps ==
    ASSUME Inv0, CliAdded
    PROVE  Inv0'
<1>1. pc = "added" /\ opening.stage = "idle"
  BY DEF CliAdded, At
<1>2. CASE opening.ret # "ok"
  <2>1. CliFails
    BY <1>2 DEF CliAdded
  <2> QED BY <1>1, <1>2, <2>1, CliFailsKeeps
<1>3. CASE opening.ret = "ok"
  <2>1. /\ session' = Added(dev) /\ pc' = "options"
        /\ UNCHANGED <<client, cmd, usb, lost, insts, devs, limit, opening, now,
                       drivers, dev, loaded>>
    BY <1>3 DEF CliAdded, Goto, CliStays, usbs
  <2> QED BY <1>1, <1>3, <2>1, AddsKeeps DEF Waiting
<1> QED BY <1>2, <1>3

\* Where sigrok-cli sets the device up.
Halfway == {"options", "failing", "probes", "triggers", "time", "samples", "frames",
            "config", "begin", "running"}

\* The device in use is one of the session that is set up.
LEMMA AtWork ==
    ASSUME Inv0, pc \in Halfway
    PROVE  /\ dev # 0 /\ Driver \in Range(drivers) /\ limit \in Nat
           /\ pc \notin Waiting \cup {"done"}
<1>1. pc \in Working /\ pc \notin Waiting \cup {"done"}
  BY DEF Halfway, Working, Waiting
<1>2. dev # 0 /\ limit \in Nat
  BY <1>1 DEF Inv0, Listed
<1> QED BY <1>1, <1>2, DevIs

\* A step of sigrok-cli that sets the device up.
LEMMA CliSetKeeps ==
    ASSUME Inv0, NEW cap, NEW value, Reaches(Driver, Index, cap), Set(cap, value),
           ValueOf(cap, value), pc \in Halfway, pc' \in Halfway, limit' \in Nat,
           UNCHANGED <<client, cmd, usb, devs, session>>, CliStays
    PROVE  Inv0'
<1>1. dev # 0 /\ Driver \in Range(drivers) /\ pc \notin Waiting \cup {"done"}
  BY AtWork
<1>2. Typed(Range(drivers), insts') /\ Same(Range(drivers), insts, insts')
  BY <1>1, SettingIs DEF Set
<1>3. pc' \notin Waiting \cup {"start", "add"}
  BY DEF Halfway, Waiting
<1>4. GoesOn
  BY <1>1, <1>2, <1>3 DEF GoesOn, CliStays
<1> QED BY <1>4, GoesOnKeeps

\* A step of sigrok-cli that only goes on.
LEMMA CliMovesKeeps ==
    ASSUME Inv0, pc \in Halfway, pc' \in Halfway \cup {"exit"}, CliStays,
           UNCHANGED <<client, cmd, usbs, devs, session, limit>>
    PROVE  Inv0'
<1>1. dev # 0 /\ limit \in Nat /\ pc \notin Waiting \cup {"done"}
  BY AtWork
<1>2. Typed(Range(drivers), insts') /\ Same(Range(drivers), insts, insts')
  BY SameAsItIs DEF usbs
<1>3. pc' \notin Waiting \cup {"start", "add"}
  BY DEF Halfway, Waiting
<1>4. GoesOn
  BY <1>1, <1>2, <1>3 DEF GoesOn, CliStays, usbs
<1> QED BY <1>4, GoesOnKeeps

\* A step of sigrok-cli that sets the probes of its device.
LEMMA CliProbesSet ==
    ASSUME Inv0, pc \in Halfway, pc' \in Halfway, NEW ps \in Seq(ProbeRecs),
           Len(ps) = Len(Probes), devs' = [devs EXCEPT ![dev].probes = ps], CliStays,
           UNCHANGED <<client, cmd, usbs, session, limit>>
    PROVE  Inv0'
<1>1. dev # 0 /\ limit \in Nat /\ pc \notin Waiting \cup {"done"}
  BY AtWork
<1>2. Typed(Range(drivers), insts') /\ Same(Range(drivers), insts, insts')
  BY SameAsItIs DEF usbs
<1>3. pc' \notin Waiting \cup {"start", "add"}
  BY DEF Halfway, Waiting
<1>4. GoesOn
  BY <1>1, <1>2, <1>3 DEF GoesOn, CliStays, usbs
<1> QED BY <1>4, GoesOnKeeps

\* Where sigrok-cli gives up, it destroys the session.
LEMMA CliFailsHalfway ==
    ASSUME Inv0, CliFails, pc \in Halfway, opening.stage = "idle"
    PROVE  Inv0'
<1>1. pc \notin Waiting \cup {"done"}
  BY AtWork
<1> QED BY <1>1, CliFailsKeeps

\* One of the settings of sigrok-cli.
LEMMA CliSetsKeeps ==
    ASSUME Inv0, NEW place \in Halfway, NEW next \in Halfway, NEW asked, NEW ok,
           NEW cap, NEW value, CliSets(place, next, asked, ok, cap, value),
           ValueOf(cap, value)
    PROVE  Inv0'
<1>1. opening.stage = "idle" /\ pc = place
  BY DEF CliSets, At
<1>2. CASE Goto(next) /\ UNCHANGED <<usbs, devs, session, limit>> /\ CliStays
  BY <1>1, <1>2, CliMovesKeeps DEF Goto
<1>3. CASE CliFails
  BY <1>1, <1>3, CliFailsHalfway
<1>4. CASE /\ Takes(cap, value) /\ Set(cap, value)
           /\ Goto(next) /\ UNCHANGED <<usb, devs, session, limit>> /\ CliStays
  <2>1. limit' \in Nat /\ Reaches(Driver, Index, cap)
    BY <1>4 DEF Inv0, Listed, Takes, ConfigSets
  <2> QED BY <1>1, <1>4, <2>1, CliSetKeeps DEF Goto
<1> QED BY <1>2, <1>3, <1>4 DEF CliSets

\* The options of the command line.
LEMMA CliOptionsKeep ==
    ASSUME Inv0, CliOptions \/ CliFailing
    PROVE  Inv0'
<1>1. ValueOf("samplerate", cmd.samplerate)
  BY CommandIs DEF ValueOf
<1>2. ASSUME CliOption PROVE Inv0'
  <2>1. "options" \in Halfway /\ "probes" \in Halfway
    BY DEF Halfway
  <2> QED BY <1>1, <1>2, <2>1, CliSetsKeeps DEF CliOption
<1>3. ASSUME CliBadOption \/ CliFailing PROVE Inv0'
  <2>1. CliFails /\ opening.stage = "idle" /\ pc \in Halfway
    BY <1>3 DEF CliBadOption, CliFailing, At, Halfway
  <2> QED BY <2>1, CliFailsHalfway
<1>4. ASSUME CliSetThenBad PROVE Inv0'
  <2>1. /\ pc \in Halfway /\ pc' \in Halfway
        /\ Takes("samplerate", cmd.samplerate) /\ Set("samplerate", cmd.samplerate)
        /\ UNCHANGED <<usb, devs, session, client, cmd, limit>> /\ CliStays
    BY <1>4 DEF CliSetThenBad, At, Halfway
  <2>2. limit' \in Nat /\ Reaches(Driver, Index, "samplerate")
    BY <2>1 DEF Inv0, Listed, Takes, ConfigSets
  <2> QED BY <1>1, <2>1, <2>2, CliSetKeeps
<1> QED BY <1>2, <1>3, <1>4 DEF CliOptions

\* Frames and probes.
LEMMA CliConfigKeeps ==
    ASSUME Inv0, CliFrames \/ CliConfig
    PROVE  Inv0'
<1>1. {"frames", "config", "begin"} \subseteq Halfway
  BY DEF Halfway
<1>2. ASSUME CliFrames PROVE Inv0'
  <2>1. ValueOf("frames", cmd.frames)
    BY CommandIs DEF ValueOf
  <2> QED BY <1>1, <1>2, <2>1, CliSetsKeeps DEF CliFrames
<1>3. ASSUME CliConfig PROVE Inv0'
  <2>1. pc \in Halfway
    BY <1>3 DEF CliConfig, CliConfigSpills, At, Halfway
  <2>2. ValueOf("probes", Probes)
    BY <2>1, AtWork, DevIs DEF ValueOf
  <2>3. CASE CliConfigSpills
    <3>1. /\ pc' \in Halfway /\ Reaches(Driver, Index, "probes") /\ Set("probes", Probes)
          /\ UNCHANGED <<usb, devs, session, client, cmd, limit>> /\ CliStays
      BY <2>3 DEF CliConfigSpills, Spills, Halfway
    <3>2. limit' \in Nat
      BY <3>1 DEF Inv0, Listed
    <3> QED BY <2>1, <2>2, <3>1, <3>2, CliSetKeeps
  <2>4. CASE CliSets("config", "begin", TRUE, TRUE, "probes", Probes)
    BY <1>1, <2>2, <2>4, CliSetsKeeps
  <2> QED BY <1>3, <2>3, <2>4 DEF CliConfig
<1> QED BY <1>2, <1>3

\* The start of the capture, and its end.
LEMMA CliStartKeeps ==
    ASSUME Inv0, CliStart \/ CliRun
    PROVE  Inv0'
<1>1. pc \in Halfway /\ opening.stage = "idle"
  BY DEF CliStart, CliRun, At, Halfway
<1>2. CASE CliFails
  BY <1>1, <1>2, CliFailsHalfway
<1>3. CASE Goto("running") /\ UNCHANGED <<usbs, devs, session, limit>> /\ CliStays
  <2>1. pc' \in Halfway
    BY <1>3 DEF Goto, Halfway
  <2> QED BY <1>1, <1>3, <2>1, CliMovesKeeps DEF Goto
<1> QED BY <1>2, <1>3 DEF CliStart, CliRun

\* A time and a samplerate make a number of samples.
LEMMA SamplesIn ==
    ASSUME NEW a \in Nat, NEW b \in Nat
    PROVE  (a * b) \div 1000 \in Nat
<1> DEFINE c == a * b
<1>1. c \in Nat
  OBVIOUS
<1> HIDE DEF c
<1>2. c \div 1000 \in Nat
  BY <1>1
<1> QED BY <1>2 DEF c

\* The time of the capture.
LEMMA CliTimeKeeps ==
    ASSUME Inv0, CliTime
    PROVE  Inv0'
<1> DEFINE cap == IF Converts THEN "samples" ELSE "msec"
           value == IF Converts THEN TimeLimit ELSE Time(cmd.time)
<1>1. pc \in Halfway /\ opening.stage = "idle" /\ "samples" \in Halfway
  BY DEF CliTime, At, Halfway
<1>2. CASE CliFails
  BY <1>1, <1>2, CliFailsHalfway
<1>3. CASE Goto("samples") /\ UNCHANGED <<usbs, devs, session, limit>> /\ CliStays
  BY <1>1, <1>3, CliMovesKeeps DEF Goto
<1>4. CASE /\ cmd.time # <<>> /\ Takes(cap, value) /\ Set(cap, value)
           /\ limit' = (IF Converts THEN value ELSE limit) /\ Goto("samples")
           /\ UNCHANGED <<usb, devs, session>> /\ CliStays
  <2>1. Time(cmd.time) \in Nat /\ limit \in Nat
    BY <1>1, <1>4, CommandIs, AtWork
  <2>2. TimeLimit \in Nat
    <3>1. InstOf(Driver, Index) \in 1 .. Len(insts[Driver])
      BY <1>1, <1>4, AtWork, TakenBy DEF Takes, ConfigSets
    <3>2. insts[Driver] \in Seq(InstRecs)
      BY <1>1, AtWork, DevIs
    <3>3. insts[Driver][InstOf(Driver, Index)] \in InstRecs
      BY <3>1, <3>2
    <3>4. Rate \in Nat
      BY <3>3, InstFields DEF Rate
    <3>5. (Rate * Time(cmd.time)) \div 1000 \in Nat
      BY <2>1, <3>4, SamplesIn
    <3> QED BY <3>5 DEF TimeLimit
  <2>3. value \in Nat /\ cap \in {"samples", "msec"}
    BY <2>1, <2>2
  <2> HIDE DEF value, cap
  <2>4. ValueOf(cap, value)
    BY <2>3 DEF ValueOf
  <2>5. limit' \in Nat
    BY <1>4, <2>1, <2>3
  <2>6. Reaches(Driver, Index, cap) /\ Set(cap, value)
    BY <1>4 DEF Takes, ConfigSets
  <2> QED BY <1>1, <1>4, <2>4, <2>5, <2>6, CliSetKeeps DEF Goto
<1> QED BY <1>2, <1>3, <1>4 DEF CliTime

\* Its samples.
LEMMA CliSamplesKeeps ==
    ASSUME Inv0, CliSamples
    PROVE  Inv0'
<1>1. pc \in Halfway /\ opening.stage = "idle" /\ "frames" \in Halfway
  BY DEF CliSamples, At, Halfway
<1>2. CASE CliFails
  BY <1>1, <1>2, CliFailsHalfway
<1>3. CASE Goto("frames") /\ UNCHANGED <<usbs, devs, session, limit>> /\ CliStays
  BY <1>1, <1>3, CliMovesKeeps DEF Goto
<1>4. CASE /\ cmd.samples # <<>> /\ SizeOk(cmd.samples)
           /\ Takes("samples", Size(cmd.samples)) /\ Set("samples", Size(cmd.samples))
           /\ limit' = Size(cmd.samples) /\ Goto("frames")
           /\ UNCHANGED <<usb, devs, session>> /\ CliStays
  <2>1. Size(cmd.samples) \in Nat
    BY <1>4, CommandIs
  <2>2. ValueOf("samples", Size(cmd.samples)) /\ Reaches(Driver, Index, "samples")
    BY <1>4, <2>1 DEF ValueOf, Takes, ConfigSets
  <2> QED BY <1>1, <1>4, <2>1, <2>2, CliSetKeeps DEF Goto
<1> QED BY <1>2, <1>3, <1>4 DEF CliSamples

\* select_probes() sets probes.
LEMMA SelectedAre ==
    ASSUME NEW ps \in Seq(ProbeRecs), NEW names, names \in [DOMAIN names -> STRING]
    PROVE  /\ SelectProbes(ps, names) \in Seq(ProbeRecs)
           /\ Len(SelectProbes(ps, names)) = Len(ps)
           /\ \A n \in 1 .. Len(ps) :
                  LET x == SelectProbes(ps, names)[n] IN
                  /\ x.enabled = IF n \in DOMAIN names THEN ps[n].enabled ELSE FALSE
                  /\ x.name = IF n \in DOMAIN names THEN names[n] ELSE ps[n].name
                  /\ x.trigger = ps[n].trigger
<1> DEFINE qs == Named(ps, names)
           rs == SelectProbes(ps, names)
           m == Len(ps)
<1>1. m \in Nat /\ DOMAIN ps = 1 .. m
  OBVIOUS
<1>2. ASSUME NEW n \in 1 .. m
      PROVE  /\ qs[n] \in ProbeRecs
             /\ qs[n].enabled = ps[n].enabled /\ qs[n].trigger = ps[n].trigger
             /\ qs[n].name = IF n \in DOMAIN names THEN names[n] ELSE ps[n].name
  <2>1. ps[n] \in ProbeRecs
    OBVIOUS
  <2>2. n \in DOMAIN names => names[n] \in Names
    BY DEF Names
  <2>3. qs[n] = IF n \in DOMAIN names THEN [ps[n] EXCEPT !.name = names[n]] ELSE ps[n]
    BY <1>1 DEF Named
  <2> QED BY <2>1, <2>2, <2>3 DEF ProbeRecs
<1>3. DOMAIN qs = 1 .. m
  BY <1>1 DEF Named
<1>4. rs = [n \in 1 .. m |-> IF n \in 1 .. m \ DOMAIN names
                             THEN [qs[n] EXCEPT !.enabled = FALSE] ELSE qs[n]]
  BY <1>1, <1>3 DEF SelectProbes, Disable
<1> HIDE DEF qs, rs
<1>5. ASSUME NEW n \in 1 .. m
      PROVE  /\ rs[n] \in ProbeRecs
             /\ rs[n].enabled = IF n \in DOMAIN names THEN ps[n].enabled ELSE FALSE
             /\ rs[n].trigger = ps[n].trigger
             /\ rs[n].name = IF n \in DOMAIN names THEN names[n] ELSE ps[n].name
  <2>1. [qs[n] EXCEPT !.enabled = FALSE] \in ProbeRecs
    BY <1>2 DEF ProbeRecs
  <2>2. /\ [qs[n] EXCEPT !.enabled = FALSE].enabled = FALSE
        /\ [qs[n] EXCEPT !.enabled = FALSE].name = qs[n].name
        /\ [qs[n] EXCEPT !.enabled = FALSE].trigger = qs[n].trigger
    BY <1>2 DEF ProbeRecs
  <2>3. CASE n \in DOMAIN names
    BY <1>2, <1>4, <2>3
  <2>4. CASE n \notin DOMAIN names
    BY <1>2, <1>4, <2>1, <2>2, <2>4
  <2> QED BY <2>3, <2>4
<1>6. rs \in [1 .. m -> ProbeRecs]
  BY <1>4, <1>5
<1>7. rs \in Seq(ProbeRecs) /\ Len(rs) = m
  BY <1>1, <1>6
<1> QED BY <1>5, <1>7 DEF rs

\* sr_parse_triggerstring() sets triggers.
LEMMA TriggeredAre ==
    ASSUME NEW ps \in Seq(ProbeRecs), NEW tokens \in Seq(STRING \X Nat \X Triggers)
    PROVE  /\ SetTriggers(ps, tokens) \in Seq(ProbeRecs)
           /\ Len(SetTriggers(ps, tokens)) = Len(ps)
           /\ \A n \in 1 .. Len(ps) :
                  LET x == SetTriggers(ps, tokens)[n]
                      mine == {j \in DOMAIN tokens : /\ ProbeNumber(ps, tokens[j]) = n
                                                      /\ tokens[j][3] # NoTrigger}
                  IN  /\ x.enabled = ps[n].enabled /\ x.name = ps[n].name
                      /\ mine = {} => x.trigger = ps[n].trigger
                      /\ mine # {} => /\ Max(mine) \in mine /\ Max(mine) \in 1 .. Len(tokens)
                                      /\ x.trigger = tokens[Max(mine)][3]
<1> DEFINE m == Len(ps)
           l == Len(tokens)
           mine(n) == {j \in DOMAIN tokens : /\ ProbeNumber(ps, tokens[j]) = n
                                               /\ tokens[j][3] # NoTrigger}
           rs == SetTriggers(ps, tokens)
<1>1. m \in Nat /\ DOMAIN ps = 1 .. m /\ Len(tokens) \in Nat
  OBVIOUS
<1>2. l \in Nat /\ l = Len(tokens)
  OBVIOUS
<1>3. DOMAIN tokens = 1 .. l
  OBVIOUS
<1>4. rs = [n \in 1 .. m |-> IF mine(n) = {} THEN ps[n]
                ELSE [ps[n] EXCEPT !.trigger = tokens[Max(mine(n))][3]]]
  BY <1>1 DEF SetTriggers
<1>5. \A n : mine(n) \in SUBSET (1 .. l)
  BY <1>3
<1> HIDE DEF mine, rs, l
<1>6. ASSUME NEW n \in 1 .. m
      PROVE  /\ rs[n] \in ProbeRecs
             /\ rs[n].enabled = ps[n].enabled /\ rs[n].name = ps[n].name
             /\ mine(n) = {} => rs[n].trigger = ps[n].trigger
             /\ mine(n) # {} => /\ Max(mine(n)) \in mine(n)
                                /\ Max(mine(n)) \in 1 .. Len(tokens)
                                /\ rs[n].trigger = tokens[Max(mine(n))][3]
  <2>1. ps[n] \in ProbeRecs
    OBVIOUS
  <2>2. CASE mine(n) = {}
    BY <1>4, <2>1, <2>2
  <2>3. CASE mine(n) # {}
    <3> DEFINE j == Max(mine(n))
    <3>1. j \in mine(n)
      BY <1>2, <1>5, <2>3, Greatest
    <3>2. rs[n] = [ps[n] EXCEPT !.trigger = tokens[j][3]]
      BY <1>4, <2>3
    <3> HIDE DEF j
    <3>3. j \in 1 .. Len(tokens)
      BY <1>1, <1>2, <1>5, <3>1
    <3>4. tokens[j] \in STRING \X Nat \X Triggers
      BY <3>3
    <3>5. tokens[j][3] \in Triggers
      BY <3>4
    <3>6. /\ rs[n] \in ProbeRecs /\ rs[n].trigger = tokens[j][3]
          /\ rs[n].enabled = ps[n].enabled /\ rs[n].name = ps[n].name
      BY <2>1, <3>2, <3>5 DEF ProbeRecs
    <3> QED BY <2>3, <3>1, <3>3, <3>6 DEF j
  <2> QED BY <2>2, <2>3
<1>7. rs \in [1 .. m -> ProbeRecs]
  BY <1>4, <1>6
<1>8. rs \in Seq(ProbeRecs) /\ Len(rs) = m
  BY <1>1, <1>7
<1> QED BY <1>6, <1>8 DEF rs, mine

\* The probes of the capture.
LEMMA CliProbesKeeps ==
    ASSUME Inv0, CliProbes
    PROVE  Inv0'
<1>1. pc \in Halfway /\ "triggers" \in Halfway /\ dev # 0
  BY AtWork DEF CliProbes, At, Halfway
<1>2. /\ Probes \in Seq(ProbeRecs) /\ cmd.probes \in [DOMAIN cmd.probes -> STRING]
      /\ devs \in Seq(DevRecs)
  BY <1>1, DevIs, CommandIs
<1>3. /\ UNCHANGED <<usbs, session, limit, client, cmd>> /\ CliStays
      /\ pc' \in Halfway \cup {"exit"}
  BY <1>1 DEF CliProbes, Goto
<1>4. CASE devs' = devs
  BY <1>1, <1>3, <1>4, CliMovesKeeps
<1>5. CASE devs' # devs
  <2>1. devs' = [devs EXCEPT ![dev].probes = SelectProbes(Probes, cmd.probes)]
        /\ pc' = "triggers"
    BY <1>5 DEF CliProbes, Probes, Goto
  <2>2. SelectProbes(Probes, cmd.probes) \in Seq(ProbeRecs)
        /\ Len(SelectProbes(Probes, cmd.probes)) = Len(Probes)
    BY <1>2, SelectedAre
  <2> QED BY <1>1, <1>3, <2>1, <2>2, CliProbesSet
<1> QED BY <1>4, <1>5

\* Its triggers.
LEMMA CliTriggersKeeps ==
    ASSUME Inv0, CliTriggers
    PROVE  Inv0'
<1>1. pc \in Halfway /\ "time" \in Halfway /\ dev # 0 /\ opening.stage = "idle"
  BY AtWork DEF CliTriggers, At, Halfway
<1>2. CASE CliFails
  BY <1>1, <1>2, CliFailsHalfway
<1>3. CASE /\ devs' = [devs EXCEPT ![dev].probes = SetTriggers(@, cmd.triggers)]
           /\ Goto("time")
           /\ UNCHANGED <<usbs, session, limit>> /\ CliStays
  <2>1. Probes \in Seq(ProbeRecs) /\ cmd.triggers \in Seq(STRING \X Nat \X Triggers)
    BY <1>1, DevIs, CommandIs
  <2>2. SetTriggers(Probes, cmd.triggers) \in Seq(ProbeRecs)
        /\ Len(SetTriggers(Probes, cmd.triggers)) = Len(Probes)
    BY <2>1, TriggeredAre
  <2>3. devs' = [devs EXCEPT ![dev].probes = SetTriggers(Probes, cmd.triggers)]
    BY <1>3 DEF Probes
  <2> QED BY <1>1, <1>3, <2>2, <2>3, CliProbesSet DEF Goto
<1> QED BY <1>2, <1>3 DEF CliTriggers

\* The steps of sigrok-cli.
LEMMA CliKeeps ==
    ASSUME Inv0, Cli
    PROVE  Inv0'
BY CliSelectKeeps, CliAddKeeps, CliAddedKeeps, CliOptionsKeep, CliProbesKeeps,
   CliTriggersKeeps, CliTimeKeeps, CliSamplesKeeps, CliConfigKeeps, CliStartKeeps
   DEF Cli

-----------------------------------------------------------------------------
(* sigrok-gtk *)

\* The drivers can be scanned.
LEMMA DriversListed ==
    ASSUME Inv0
    PROVE  drivers \in Seq(Range(drivers))
<1>1. drivers \in Seq(Drivers)
  BY DEF Inv0, Devs0
<1>2. drivers \in [1 .. Len(drivers) -> Range(drivers)] /\ Len(drivers) \in Nat
  BY <1>1 DEF Range
<1> QED BY <1>2

\* The start of sigrok-gtk.
LEMMA GtkStartKeeps ==
    ASSUME Inv0, GtkStart
    PROVE  Inv0'
<1>1. /\ client = "gtk" /\ pc = "start" /\ opening.stage = "idle"
      /\ DevList(drivers) /\ session' = EmptySession /\ dev' = Min({2, Len(devs')})
      /\ pc' = IF dev' = 0 THEN "idle" ELSE "select"
      /\ UNCHANGED <<client, cmd, opening, now, drivers, limit, loaded>>
  BY DEF GtkStart, At, Goto
<1>2. devs = <<>> /\ limit \in Nat /\ loaded \in BOOLEAN
  BY <1>1 DEF Inv0, Listed
<1>3. session'.devs = <<>> /\ session'.exists
  BY <1>1, SessionsAre
<1>4. pc' \notin Waiting \cup {"start", "add"} /\ (dev' = 0 => pc' \notin Working)
  BY <1>1 DEF Waiting, Working
<1>5. Scanning(drivers)
  <2>1. Scan(drivers)
    BY <1>1, <1>2 DEF DevList
  <2> QED BY <1>1, <1>3, <1>4, <2>1, DriversListed, FirstScan
<1>6. devs' \in Seq(DevRecs) /\ \A n \in 1 .. Len(devs') : Listable(devs'[n])
  BY <1>5, ScannedDevs
<1>7. Len(devs') \in Nat
  BY <1>6
<1>8. dev' \in 0 .. Len(devs')
  <2>1. \A a, b \in Int : Min({a, b}) = IF a <= b THEN a ELSE b
    BY OfTwo
  <2>2. dev' = IF 2 <= Len(devs') THEN 2 ELSE Len(devs')
    BY <1>1, <1>7, <2>1
  <2> QED BY <1>7, <2>2
<1>9. session' \in Sessions(Len(devs'))
  BY <1>1, <1>7, SessionsAre
<1>10. Listed'
  BY <1>1, <1>2, <1>3, <1>4, <1>6, <1>8, <1>9, ListedIs
<1> QED BY <1>5, <1>10, ScanningKeeps DEF Inv0

\* A device is selected.
LEMMA GtkSelectsKeeps ==
    ASSUME Inv0, NEW n \in 1 .. Len(devs), GtkSelects(n), UNCHANGED loaded,
           pc \in {"idle", "select"}, opening.stage = "idle"
    PROVE  Inv0'
<1>1. /\ RemoveAll /\ session' = [session EXCEPT !.devs = <<>>] /\ opening' = DevAdd(n)
      /\ dev' = n /\ pc' = "selected"
      /\ UNCHANGED <<client, cmd, lost, now, drivers, devs, limit, loaded>>
  BY DEF GtkSelects, Goto
<1>2. /\ session \in Sessions(Len(devs)) /\ limit \in Nat /\ loaded \in BOOLEAN
      /\ devs \in Seq(DevRecs)
  BY DEF Inv0, Listed, DevsListed
<1>3. Len(devs) \in Nat
  BY <1>2
<1>4. /\ session' \in Sessions(Len(devs)) /\ session'.devs = <<>>
      /\ session'.exists = session.exists
  BY <1>1, <1>2, <1>3, SessionsAre
<1>5. pc \notin Waiting \cup {"done"} /\ pc' \in Waiting /\ pc' \notin {"start", "add"}
  BY <1>1 DEF Waiting
<1>6. opening' \in {DevOpen(devs[n].driver, devs[n].index), [Idle EXCEPT !.ret = "error"]}
      /\ (opening'.ret # "error" => session.exists)
  <2>1. [Idle EXCEPT !.ret = "error"].ret = "error"
    BY DEF Idle
  <2> QED BY <1>1, <2>1 DEF DevAdd
<1>7. Beginning(n)
  BY <1>1, <1>4, <1>5, <1>6 DEF Beginning
<1>8. Listed'
  BY <1>1, <1>2, <1>3, <1>4, <1>5, <1>6, ListedStays
<1>9. /\ World(usb', now, Range(drivers), insts')
      /\ Kept(Range(drivers), insts, insts') /\ Len(usb') = Len(usb)
      /\ ~loaded =>
           /\ \A d \in Fx \cap Range(drivers) : \A k \in 1 .. Len(insts[d]) :
                  Loose(usb', k, insts'[d][k])
           /\ \A p \in 1 .. Len(usb) : UsedBy(usb', Range(drivers), insts', p)
  BY <1>1, <1>5, Closes
<1> QED BY <1>1, <1>7, <1>8, <1>9, BeginningKeeps DEF Inv0

\* A selection, of the default device or by a click.
LEMMA GtkSelectKeeps ==
    ASSUME Inv0, GtkDefault \/ GtkSelect
    PROVE  Inv0'
<1>1. CASE GtkDefault
  <2>1. pc = "select" /\ opening.stage = "idle" /\ GtkSelects(dev) /\ UNCHANGED loaded
    BY <1>1 DEF GtkDefault, At
  <2>2. dev # 0
    BY <2>1 DEF Inv0, Listed, Working
  <2> QED BY <2>1, <2>2, DevIs, GtkSelectsKeeps
<1>2. CASE GtkSelect
  <2>1. devs \in Seq(DevRecs)
    BY DEF Inv0, Listed, DevsListed
  <2>2. DOMAIN devs = 1 .. Len(devs)
    BY <2>1
  <2>3. PICK n \in DOMAIN devs : GtkSelects(n)
    BY <1>2 DEF GtkSelect
  <2>4. pc = "idle" /\ opening.stage = "idle" /\ UNCHANGED loaded
    BY <1>2 DEF GtkSelect, At
  <2> QED BY <2>2, <2>3, <2>4, GtkSelectsKeeps
<1> QED BY <1>1, <1>2

\* The open of a selected device has returned.
LEMMA GtkSelectedKeeps ==
    ASSUME Inv0, GtkSelected
    PROVE  Inv0'
<1>1. pc = "selected" /\ pc' = "idle" /\ opening.stage = "idle"
      /\ UNCHANGED <<client, cmd, devs, lost, opening, now, drivers, limit, loaded>>
  BY DEF GtkSelected, At, Goto, GtkStays
<1>2. pc \in Waiting /\ pc # "done" /\ pc' \notin Waiting \cup {"start", "add"} \cup Working
  BY <1>1 DEF Waiting, Working
<1>3. CASE opening.ret = "ok"
  <2>1. session' = Added(dev) /\ UNCHANGED <<usb, insts, dev>>
    BY <1>3 DEF GtkSelected, usbs
  <2> QED BY <1>1, <1>2, <1>3, <2>1, AddsKeeps
<1>4. CASE opening.ret # "ok"
  <2>1. Destroy /\ dev' = 0
    BY <1>4 DEF GtkSelected
  <2>2. Len(devs) \in Nat
    BY DEF Inv0, Listed, DevsListed
  <2>3. Destroys
    BY <1>1, <1>2, <1>4, <2>1, <2>2 DEF Destroys
  <2> QED BY <2>3, DestroysKeeps
<1> QED BY <1>3, <1>4

\* The handlers of sigrok-gtk that work with the selected device.
GtkWorks ==
    /\ pc \in {"idle", "capture", "refused"} /\ opening.stage = "idle"
    /\ pc' \in {"idle", "capture", "refused"} /\ (pc' # "idle" => dev # 0)
    /\ UNCHANGED <<client, cmd, dev>> /\ GtkStays

\* They set an option, or nothing.
LEMMA GtkSetsKeeps ==
    ASSUME Inv0, GtkWorks, UNCHANGED <<usb, devs, session>>,
           \/ insts' = insts
           \/ dev # 0 /\ \E cap, value :
                  Reaches(Driver, Index, cap) /\ Set(cap, value) /\ ValueOf(cap, value)
    PROVE  Inv0'
<1>1. Typed(Range(drivers), insts') /\ Same(Range(drivers), insts, insts')
  <2>1. CASE insts' = insts
    BY <2>1, SameAsItIs
  <2>2. CASE dev # 0 /\ \E cap, value :
                 Reaches(Driver, Index, cap) /\ Set(cap, value) /\ ValueOf(cap, value)
    BY <2>2, DevIs, SettingIs DEF Set
  <2> QED BY <2>1, <2>2
<1>2. limit \in Nat
  BY DEF Inv0, Listed
<1>3. GoesOn
  BY <1>1, <1>2 DEF GoesOn, GtkWorks, GtkStays, Waiting, Working
<1> QED BY <1>3, GoesOnKeeps

\* They destroy the session.
LEMMA GtkDestroysKeeps ==
    ASSUME Inv0, GtkWorks, Destroy, UNCHANGED devs
    PROVE  Inv0'
<1>1. dev \in 0 .. Len(devs)
  BY DEF Inv0, Listed
<1>2. Destroys
  BY <1>1 DEF Destroys, GtkWorks, GtkStays, Waiting, Working
<1> QED BY <1>2, DestroysKeeps

\* The options of the device.
LEMMA GtkOptionKeeps ==
    ASSUME Inv0, GtkOption
    PROVE  Inv0'
<1>1. /\ dev # 0 /\ Takes("samplerate", 100) /\ Set("samplerate", 100) /\ GtkWorks
      /\ UNCHANGED <<usb, devs, session>>
  BY DEF GtkOption, At, GtkWorks
<1>2. ValueOf("samplerate", 100) /\ Reaches(Driver, Index, "samplerate")
  BY <1>1 DEF ValueOf, Takes, ConfigSets
<1> QED BY <1>1, <1>2, GtkSetsKeeps

\* Its probes.
LEMMA GtkProbeKeeps ==
    ASSUME Inv0, GtkProbe
    PROVE  Inv0'
<1>1. /\ pc = "idle" /\ pc' = "idle" /\ dev # 0
      /\ UNCHANGED <<usbs, session, dev, client, cmd>> /\ GtkStays
  BY DEF GtkProbe, At
<1>2. Probes \in Seq(ProbeRecs) /\ devs \in Seq(DevRecs) /\ dev \in 1 .. Len(devs)
  BY <1>1, DevIs
<1> DEFINE Toggled(x) == [x EXCEPT !.enabled = ~@]
           Lettered(x, t) == [x EXCEPT !.trigger = t]
<1>3. \E F \in [ProbeRecs -> ProbeRecs] :
          devs' = [devs EXCEPT ![dev].probes = [Probes EXCEPT ![1] = F[Probes[1]]]]
                  \/ (1 \notin DOMAIN Probes /\ devs' = [devs EXCEPT ![dev].probes = Probes])
  <2>1. CASE devs' = [devs EXCEPT ![dev].probes[1].enabled = ~@]
    <3> DEFINE F == [x \in ProbeRecs |-> Toggled(x)]
    <3>1. ASSUME NEW x \in ProbeRecs PROVE Toggled(x) \in ProbeRecs
      <4>1. x.enabled \in BOOLEAN
        BY DEF ProbeRecs
      <4> QED BY <4>1, ZenonT(30) DEF ProbeRecs
    <3>2. F \in [ProbeRecs -> ProbeRecs]
      BY <3>1
    <3>3. devs' = [devs EXCEPT ![dev].probes = [Probes EXCEPT ![1] = Toggled(Probes[1])]]
      BY <2>1 DEF Probes
    <3> HIDE DEF Toggled
    <3>4. CASE 1 \in DOMAIN Probes
      <4>1. Probes[1] \in ProbeRecs
        BY <1>2, <3>4
      <4> QED BY <3>2, <3>3, <4>1
    <3>5. CASE 1 \notin DOMAIN Probes
      <4>1. [Probes EXCEPT ![1] = Toggled(Probes[1])] = Probes
        BY <1>2, <3>5
      <4> QED BY <3>2, <3>3, <3>5, <4>1
    <3> QED BY <3>4, <3>5
  <2>2. CASE \E text \in Texts : devs' = [devs EXCEPT ![dev].probes = WithTrigger(@, 1, <<text>>)]
    <3>1. PICK text \in Texts :
              devs' = [devs EXCEPT ![dev].probes = WithTrigger(Probes, 1, <<text>>)]
      BY <2>2 DEF Probes
    <3>2. PICK t \in Triggers : t = <<text>>
      <4>1. ASSUME NEW S, NEW x \in S PROVE <<x>> \in Seq(S) /\ Len(<<x>>) = 1
        OBVIOUS
      <4>2. text \in Seq(STRING) \cup Texts
        OBVIOUS
      <4>3. <<text>> \in Seq(Seq(STRING) \cup Texts) /\ Len(<<text>>) = 1
        BY <4>1, <4>2, Zenon
      <4>4. <<text>> \in Triggers
        BY <4>3 DEF Triggers
      <4> QED BY <4>4, Zenon
    <3> DEFINE F == [x \in ProbeRecs |-> Lettered(x, t)]
    <3>3. F \in [ProbeRecs -> ProbeRecs]
      BY DEF ProbeRecs
    <3>4. WithTrigger(Probes, 1, t) = [Probes EXCEPT ![1] = Lettered(Probes[1], t)]
      BY DEF WithTrigger
    <3> HIDE DEF Lettered
    <3>5. CASE 1 \in DOMAIN Probes
      <4>1. Probes[1] \in ProbeRecs
        BY <1>2, <3>5
      <4> QED BY <3>1, <3>2, <3>3, <3>4, <4>1
    <3>6. CASE 1 \notin DOMAIN Probes
      <4>1. [Probes EXCEPT ![1] = Lettered(Probes[1], t)] = Probes
        BY <1>2, <3>6
      <4> QED BY <3>1, <3>2, <3>3, <3>4, <3>6, <4>1
    <3> QED BY <3>5, <3>6
  <2> QED BY <2>1, <2>2 DEF GtkProbe
<1> HIDE DEF Toggled, Lettered
<1>4. PICK ps \in Seq(ProbeRecs) :
          Len(ps) = Len(Probes) /\ devs' = [devs EXCEPT ![dev].probes = ps]
  <2>1. PICK F \in [ProbeRecs -> ProbeRecs] :
            devs' = [devs EXCEPT ![dev].probes = [Probes EXCEPT ![1] = F[Probes[1]]]]
                  \/ (1 \notin DOMAIN Probes /\ devs' = [devs EXCEPT ![dev].probes = Probes])
    BY <1>3
  <2>2. CASE 1 \in DOMAIN Probes
    <3>1. Probes[1] \in ProbeRecs
      BY <1>2, <2>2
    <3>2. PICK x \in ProbeRecs : x = F[Probes[1]]
      BY <3>1
    <3> DEFINE qs == [Probes EXCEPT ![1] = x]
    <3>3. qs \in Seq(ProbeRecs) /\ Len(qs) = Len(Probes)
      <4>1. ASSUME NEW rs \in Seq(ProbeRecs), NEW y \in ProbeRecs,
                   1 \in DOMAIN rs
            PROVE  [rs EXCEPT ![1] = y] \in Seq(ProbeRecs) /\ Len([rs EXCEPT ![1] = y]) = Len(rs)
        BY ONLY rs \in Seq(ProbeRecs), y \in ProbeRecs, 1 \in DOMAIN rs
      <4> QED BY <1>2, <2>2, <4>1
    <3>4. devs' = [devs EXCEPT ![dev].probes = qs]
      BY <2>1, <2>2, <3>2
    <3> HIDE DEF qs
    <3> QED BY <3>3, <3>4
  <2>3. CASE 1 \notin DOMAIN Probes
    <3>1. [Probes EXCEPT ![1] = F[Probes[1]]] = Probes
      BY <1>2, <2>3
    <3> QED BY <1>2, <2>1, <3>1
  <2> QED BY <2>2, <2>3
<1>5. GoesOn
  <2>1. limit \in Nat
    BY DEF Inv0, Listed
  <2> QED BY <1>1, <1>4, <2>1, SameAsItIs
          DEF GoesOn, GtkStays, Waiting, Working, usbs
<1> QED BY <1>5, GoesOnKeeps

\* The limit of a capture.
LEMMA GtkLimitKeeps ==
    ASSUME Inv0, GtkLimit
    PROVE  Inv0'
<1>1. /\ pc = "idle" /\ dev # 0 /\ opening.stage = "idle"
      /\ UNCHANGED <<devs, dev>> /\ GtkStays
  BY DEF GtkLimit, At
<1>2. PICK unit \in {"samples", "msec"} :
          LET cap == IF HasHwCap(Driver, unit) THEN unit ELSE "samples" IN
          \/ Takes(cap, 10) /\ Set(cap, 10) /\ UNCHANGED <<usb, session>> /\ Goto("capture")
          \/ Destroy /\ Goto("idle")
          \/ UNCHANGED <<usbs, session>> /\ Goto("idle")
  BY DEF GtkLimit
<1> DEFINE cap == IF HasHwCap(Driver, unit) THEN unit ELSE "samples"
<1>3. CASE Takes(cap, 10) /\ Set(cap, 10) /\ UNCHANGED <<usb, session>> /\ Goto("capture")
  <2>1. ValueOf(cap, 10) /\ Reaches(Driver, Index, cap)
    BY <1>3 DEF ValueOf, Takes, ConfigSets
  <2>2. GtkWorks
    BY <1>1, <1>3 DEF GtkWorks, Goto
  <2> HIDE DEF cap
  <2> QED BY <1>1, <1>3, <2>1, <2>2, GtkSetsKeeps
<1>4. CASE Destroy /\ Goto("idle")
  <2>1. GtkWorks
    BY <1>1, <1>4 DEF GtkWorks, Goto
  <2> QED BY <1>1, <1>4, <2>1, GtkDestroysKeeps
<1>5. CASE UNCHANGED <<usbs, session>> /\ Goto("idle")
  <2>1. GtkWorks
    BY <1>1, <1>5 DEF GtkWorks, Goto
  <2> QED BY <1>1, <1>5, <2>1, GtkSetsKeeps DEF usbs
<1> QED BY <1>2, <1>3, <1>4, <1>5

\* A capture.
LEMMA GtkCaptureKeeps ==
    ASSUME Inv0, GtkCapture
    PROVE  Inv0'
<1>1. pc = "capture" /\ UNCHANGED <<devs, dev>>
  BY DEF GtkCapture, At
<1>2. dev # 0
  BY <1>1 DEF Inv0, Listed, Working
<1>3. GtkWorks
  BY <1>1, <1>2 DEF GtkCapture, GtkWorks, At, Goto
<1>4. CASE /\ Takes("probes", Probes) \/ Spills("probes", Probes)
           /\ Set("probes", Probes) /\ UNCHANGED <<usb, session>>
  <2>1. ValueOf("probes", Probes) /\ Reaches(Driver, Index, "probes")
    BY <1>2, <1>4, DevIs DEF ValueOf, Takes, ConfigSets, Spills
  <2> QED BY <1>1, <1>2, <1>3, <1>4, <2>1, GtkSetsKeeps
<1>5. CASE Destroy
  BY <1>1, <1>3, <1>5, GtkDestroysKeeps
<1> QED BY <1>4, <1>5 DEF GtkCapture

\* One that was refused.
LEMMA GtkRefusedKeeps ==
    ASSUME Inv0, GtkRefused
    PROVE  Inv0'
<1>1. GtkWorks /\ Destroy /\ UNCHANGED devs
  BY DEF GtkRefused, GtkWorks, At, Goto
<1> QED BY <1>1, GtkDestroysKeeps

\* A capture without a device, and the end.
LEMMA GtkEndKeeps ==
    ASSUME Inv0, GtkCaptureCrashes \/ GtkQuit
    PROVE  Inv0'
<1>1. dev \in 0 .. Len(devs) /\ limit \in Nat
  BY DEF Inv0, Listed
<1>2. ASSUME GtkCaptureCrashes PROVE Inv0'
  <2>1. GoesOn
    BY <1>1, <1>2, SameAsItIs DEF GtkCaptureCrashes, At, Goto, GoesOn, lists, usbs, Waiting, Working
  <2> QED BY <2>1, GoesOnKeeps
<1>3. ASSUME GtkQuit PROVE Inv0'
  <2>1. Destroys
    BY <1>1, <1>3 DEF GtkQuit, At, Goto, GtkStays, Destroys, Waiting, Working
  <2> QED BY <2>1, DestroysKeeps
<1> QED BY <1>2, <1>3

\* A file is loaded.
LEMMA GtkLoadKeeps ==
    ASSUME Inv0, GtkLoad
    PROVE  Inv0'
<1>1. /\ pc = "idle" /\ pc' = "selected" /\ opening.stage = "idle"
      /\ session' = EmptySession
      /\ loaded' = (loaded \/ session.devs # <<>>)
      /\ UNCHANGED <<client, cmd, usb, lost, insts, now, drivers, devs, limit>>
  BY DEF GtkLoad, At, Goto, usbs
<1>2. PICK n \in IF dev # 0 THEN {dev} ELSE DOMAIN devs :
          opening' = DevOpen(devs[n].driver, devs[n].index) /\ dev' = n
  BY DEF GtkLoad
<1>3. devs \in Seq(DevRecs) /\ limit \in Nat /\ loaded \in BOOLEAN
  BY DEF Inv0, Listed, DevsListed
<1>4. n \in 1 .. Len(devs) /\ Len(devs) \in Nat
  BY <1>2, <1>3, DevIs
<1>5. /\ EmptySession \in Sessions(Len(devs)) /\ EmptySession.devs = <<>>
      /\ EmptySession.exists
  BY <1>4, SessionsAre
<1>6. pc \notin Waiting /\ pc' \in Waiting /\ pc' \notin {"start", "add"}
  BY <1>1 DEF Waiting
<1>7. Beginning(n)
  BY <1>1, <1>2, <1>4, <1>5, <1>6 DEF Beginning
<1>8. loaded' \in BOOLEAN /\ (~loaded' => ~loaded /\ session.devs = <<>>)
  BY <1>1, <1>3
<1>9. Listed'
  BY <1>1, <1>2, <1>3, <1>4, <1>5, <1>6, <1>8, ListedStays
<1> QED BY <1>1, <1>6, <1>7, <1>8, <1>9, SameAsItIs, Begins DEF Inv0

\* The handlers of sigrok-gtk.
LEMMA GtkKeeps ==
    ASSUME Inv0, Gtk
    PROVE  Inv0'
BY GtkStartKeeps, GtkSelectKeeps, GtkSelectedKeeps, GtkOptionKeeps, GtkProbeKeeps,
   GtkLimitKeeps, GtkCaptureKeeps, GtkRefusedKeeps, GtkEndKeeps, GtkLoadKeeps DEF Gtk

-----------------------------------------------------------------------------
(* sigrok-qt *)

\* All drivers are scanned.
LEMMA QtScanKeeps ==
    ASSUME Inv0, QtScan
    PROVE  Inv0'
<1>1. /\ client = "qt" /\ pc = "start" /\ pc' = "start" /\ Scan(drivers)
      /\ \A d \in Range(drivers) : Len(insts[d]) + Len(usb) <= MaxInsts
      /\ UNCHANGED <<client, cmd, opening, now, drivers, session, dev, limit, loaded>>
  BY DEF QtScan, At, Goto
<1>2. /\ session = NoSession /\ limit \in Nat /\ loaded \in BOOLEAN
      /\ dev \in 0 .. Len(devs) /\ devs \in Seq(DevRecs)
  BY <1>1 DEF Inv0, Listed, DevsListed
<1>3. session'.devs = <<>> /\ session.devs = <<>>
  BY <1>1, <1>2, SessionsAre
<1>4. pc \notin Waiting \cup {"done"} /\ pc' \notin Waiting \cup Working
  BY <1>1 DEF Waiting, Working
<1>5. Scanning(drivers)
  BY <1>1, <1>3, <1>4, DriversListed DEF Scanning
<1>6. /\ devs' \in Seq(DevRecs) /\ \A n \in 1 .. Len(devs') : Listable(devs'[n])
      /\ Len(devs) <= Len(devs')
  BY <1>5, ScannedDevs
<1>7. Len(devs') \in Nat /\ Len(devs) \in Nat
  BY <1>2, <1>6
<1>8. session' \in Sessions(Len(devs')) /\ dev' \in 0 .. Len(devs')
  BY <1>1, <1>2, <1>6, <1>7, SessionsAre
<1>9. Listed'
  BY <1>1, <1>2, <1>3, <1>4, <1>6, <1>8, ListedIs
<1> QED BY <1>5, <1>9, ScanningKeeps DEF Inv0

\* The samples are asked for.
LEMMA QtGetKeeps ==
    ASSUME Inv0, QtGet
    PROVE  Inv0'
<1>1. /\ client = "qt" /\ pc = "start" /\ opening.stage = "idle" /\ devs # <<>>
      /\ dev' = 1
      /\ UNCHANGED <<client, cmd, usb, lost, now, drivers, devs, limit, loaded>>
  BY DEF QtGet, At, Goto
<1>2. /\ session = NoSession /\ limit \in Nat /\ loaded \in BOOLEAN
      /\ devs \in Seq(DevRecs)
  BY <1>1 DEF Inv0, Listed, DevsListed
<1>3. 1 \in 1 .. Len(devs) /\ 1 \in 0 .. Len(devs) /\ Len(devs) \in Nat
  BY <1>1, <1>2
<1>4. /\ EmptySession \in Sessions(Len(devs)) /\ EmptySession.devs = <<>>
      /\ EmptySession.exists /\ session.devs = <<>>
      /\ session \in Sessions(Len(devs))
  BY <1>2, <1>3, SessionsAre
<1>5. pc \notin Waiting \cup {"done"} \cup Working
  BY <1>1 DEF Waiting, Working
<1>6. CASE ConfigSets(devs[1].driver, devs[1].index, "samples", 10)
  <2>1. /\ session' = EmptySession
        /\ insts' = WithConfig(insts, devs[1].driver, devs[1].index, "samples", 10)
        /\ opening' = DevOpen(devs[1].driver, devs[1].index)
        /\ pc' = "opened"
    BY <1>6 DEF QtGet, Goto
  <2>2. Typed(Range(drivers), insts') /\ Same(Range(drivers), insts, insts')
    <3>1. devs[1].driver \in Range(drivers)
      BY <1>3 DEF Inv0, Listed, DevsListed, Listable
    <3>2. ValueOf("samples", 10) /\ Reaches(devs[1].driver, devs[1].index, "samples")
      BY <1>6 DEF ValueOf, ConfigSets
    <3> QED BY <1>6, <2>1, <3>1, <3>2, SettingIs
  <2>3. Beginning(1)
    BY <1>1, <1>3, <1>4, <2>1 DEF Beginning, Waiting
  <2>4. Listed'
    BY <1>1, <1>2, <1>3, <1>4, <2>1, ListedStays
  <2> QED BY <1>1, <1>4, <1>5, <2>2, <2>3, <2>4, Begins DEF Inv0
<1>7. CASE ~ConfigSets(devs[1].driver, devs[1].index, "samples", 10)
  <2>1. pc' = "start" /\ UNCHANGED <<session, insts, opening>>
    BY <1>7 DEF QtGet, Goto
  <2>2. Configuring
    BY <1>1, <1>5, <2>1, SameAsItIs DEF Configuring
  <2>3. pc' \notin Waiting \cup Working
    BY <1>1, <1>5, <2>1
  <2>4. Listed'
    BY <1>1, <1>2, <1>3, <1>4, <2>1, <2>3, ListedStays
  <2> QED BY <2>2, <2>4, ConfiguringKeeps DEF Inv0
<1> QED BY <1>6, <1>7

\* The open has returned.
LEMMA QtOpenedKeeps ==
    ASSUME Inv0, QtOpened
    PROVE  Inv0'
<1>1. /\ client = "qt" /\ pc = "opened" /\ opening.stage = "idle"
      /\ UNCHANGED <<lost, opening, now, drivers, devs, dev, limit, loaded>>
  BY DEF QtOpened, At, QtStays
<1>2. CASE opening.ret = "ok"
  <2>1. /\ session' = Added(dev) /\ pc' = "configure"
        /\ UNCHANGED <<client, cmd, usb, insts>>
    BY <1>2 DEF QtOpened, Goto, usbs
  <2> QED BY <1>1, <1>2, <2>1, AddsKeeps DEF Waiting
<1>3. CASE opening.ret # "ok"
  <2>1. Destroy /\ pc' = "start" /\ UNCHANGED <<client, cmd>>
    BY <1>3 DEF QtOpened, Goto
  <2>2. dev \in 0 .. Len(devs)
    BY DEF Inv0, Listed
  <2>3. Destroys
    BY <1>1, <1>3, <2>1, <2>2 DEF Destroys, Waiting, Working
  <2> QED BY <2>3, DestroysKeeps
<1> QED BY <1>2, <1>3

\* The samplerate and the probes are set, one after the other.
LEMMA QtConfigureKeeps ==
    ASSUME Inv0, QtConfigure
    PROVE  Inv0'
<1> DEFINE D == Range(drivers)
           one == WithConfig(insts, Driver, Index, "samplerate", 200)
<1>1. /\ pc = "configure" /\ pc' = "capturing"
      /\ Takes("samplerate", 200) /\ Takes("probes", Probes)
      /\ insts' = WithConfig(one, Driver, Index, "probes", Probes)
      /\ UNCHANGED <<client, cmd, usb, session, lost, opening, now, drivers, devs, dev,
                     limit, loaded>>
  BY DEF QtConfigure, At, Goto, QtStays
<1>2. dev # 0 /\ limit \in Nat
  BY <1>1 DEF Inv0, Listed, Working
<1>3. /\ Driver \in D /\ Probes \in Seq(ProbeRecs)
      /\ Driver \in Drivers /\ Reaches(Driver, Index, "samplerate")
      /\ InstOf(Driver, Index) \in 1 .. Len(insts[Driver])
  BY <1>1, <1>2, DevIs, TakenBy DEF Takes, ConfigSets
<1>4. ValueOf("samplerate", 200) /\ ValueOf("probes", Probes)
  BY <1>3 DEF ValueOf
<1>5. Typed(D, one) /\ Same(D, insts, one)
  BY <1>3, <1>4, SettingIs
<1> HIDE DEF one
<1>6. InstOf(Driver, Index) \in 1 .. Len(one[Driver])
  BY <1>3, <1>5 DEF Same
<1>7. Typed(D, insts') /\ Same(D, one, insts')
  <2>1. one \in [D -> Seq(InstRecs)]
    BY <1>5 DEF Typed
  <2> QED BY <1>1, <1>3, <1>4, <1>6, <2>1, Configures DEF Typed
<1>8. Same(D, insts, insts')
  BY ONLY <1>5, <1>7 DEF Same, SameInst, KeptInst
<1>9. GoesOn
  BY <1>1, <1>2, <1>7, <1>8 DEF GoesOn, Waiting
<1> QED BY <1>9, GoesOnKeeps

\* The end of a capture, and of the program.
LEMMA QtEndKeeps ==
    ASSUME Inv0, QtCaptured \/ QtQuit
    PROVE  Inv0'
<1>1. dev \in 0 .. Len(devs) /\ limit \in Nat
  BY DEF Inv0, Listed
<1>2. ASSUME QtCaptured PROVE Inv0'
  <2>1. Destroys
    BY <1>1, <1>2 DEF QtCaptured, At, Goto, QtStays, Destroys, Waiting, Working
  <2> QED BY <2>1, DestroysKeeps
<1>3. ASSUME QtQuit PROVE Inv0'
  <2>1. GoesOn
    BY <1>1, <1>3, SameAsItIs DEF QtQuit, At, Goto, QtStays, GoesOn, usbs, Waiting, Working
  <2> QED BY <2>1, GoesOnKeeps
<1> QED BY <1>2, <1>3

\* The handlers of sigrok-qt.
LEMMA QtKeeps ==
    ASSUME Inv0, Qt
    PROVE  Inv0'
BY QtScanKeeps, QtGetKeeps, QtOpenedKeeps, QtConfigureKeeps, QtEndKeeps DEF Qt

-----------------------------------------------------------------------------
(* Every step keeps the invariant *)

\* sr_exit() leaves the lists of devices as they are.
LEMMA ExitListed ==
    ASSUME Inv0, Exit
    PROVE  Listed'
<1>1. /\ pc = "exit" /\ pc' = "done"
      /\ UNCHANGED <<client, cmd, drivers, devs, session, opening, dev, limit, loaded>>
  BY DEF Exit, Goto, lists
<1>2. /\ limit \in Nat /\ loaded \in BOOLEAN /\ dev \in 0 .. Len(devs)
      /\ session \in Sessions(Len(devs)) /\ (~session.exists => session.devs = <<>>)
  BY DEF Inv0, Listed
<1>3. pc' \notin Waiting \cup Working \cup {"start", "add"}
  BY <1>1 DEF Waiting, Working
<1> QED BY <1>1, <1>2, <1>3, ListedStays

\* So does what happens around the frontend.
LEMMA EnvironmentListed ==
    ASSUME Inv0, Environment
    PROVE  Listed'
<1>1. UNCHANGED <<drivers, devs, session, client, pc, dev, cmd, limit, loaded>>
  BY SMTT(30) DEF Environment, lists, front
<1>2. pc = "start" => UNCHANGED insts
  <2>1. opening.stage # "idle" => pc # "start"
    BY DEF Inv0, OpeningOf, Waiting
  <2>2. Attempt \/ Claim => opening.stage # "idle"
    BY DEF Attempt, Claim
  <2> QED BY <2>1, <2>2 DEF Environment, Tick, GiveUp, Leave, Return
<1>3. opening.ret = "error" => opening'.ret = "error"
  <2>1. opening \in Openings /\ (opening.stage # "idle" => opening.ret = "none")
    BY DEF Inv0, OpeningOf
  <2>2. Attempt \/ Claim \/ GiveUp => opening.stage # "idle"
    BY DEF Attempt, Claim, GiveUp
  <2>3. Tick => opening'.ret = opening.ret
    BY <2>1 DEF Tick, Openings
  <2>4. \A p : Leave(p) \/ Return(p) => opening' = opening
    BY DEF Leave, Return
  <2> QED BY <2>1, <2>2, <2>3, <2>4 DEF Environment
<1> QED BY <1>1, <1>2, <1>3 DEF Inv0, Listed, DevsListed, Listable

\* No step.
LEMMA StutterKeeps ==
    ASSUME Inv0, UNCHANGED vars
    PROVE  Inv0'
<1>1. UNCHANGED <<usb, lost, insts, opening, now, drivers, devs, session, client, pc,
                  dev, cmd, limit, loaded>>
  BY DEF vars, usbs, lists, front
<1>2. Listed'
  BY <1>1 DEF Inv0, Listed, DevsListed, Listable
<1>3. Driver' = Driver /\ Index' = Index /\ Opened' = Opened
      /\ \A d, i : InstOf(d, i)' = InstOf(d, i)
  BY <1>1 DEF Driver, Index, Opened, InstOf
<1>4. \A d, k : Held(d, k)' = Held(d, k)
  BY <1>1, <1>3 DEF Held, Claims, InSession, JustOpened
<1>5. Devs0' /\ OpeningOf' /\ Reasons' /\ AllHeld' /\ Users'
  BY <1>1, <1>3, <1>4
     DEF Inv0, Devs0, OpeningOf, Reasons, Because, AllHeld, Users, Unclaimed, Claims
<1> QED BY <1>2, <1>5 DEF Inv0

\* A step of the frontends or around them.
LEMMA NextKeeps ==
    ASSUME Inv0, [Next]_vars
    PROVE  Inv0'
<1>1. CASE Exit
  BY <1>1, ExitKeeps, ExitListed DEF Inv0
<1>2. CASE Environment
  BY <1>2, EnvironmentKeeps, EnvironmentListed DEF Inv0
<1>3. CASE UNCHANGED vars
  BY <1>3, StutterKeeps
<1> QED BY <1>1, <1>2, <1>3, CliKeeps, GtkKeeps, QtKeeps DEF Next, Over

\* The frontends start with nothing known of the devices.
LEMMA InitHolds == Init => Inv0
<1> SUFFICES ASSUME Init PROVE Inv0
  OBVIOUS
<1>1. PICK setup \in Setups :
          /\ client = setup.client /\ drivers = setup.drivers
          /\ usb = [p \in DOMAIN setup.bus |->
                       Plugged(setup.bus[p].model, p, setup.bus[p].place, setup.bus[p].kind)]
  BY DEF Init
<1>2. /\ lost = {} /\ insts = [d \in Range(drivers) |-> <<>>] /\ opening = Idle /\ now = 1
      /\ devs = <<>> /\ session = NoSession /\ pc = "start" /\ dev = 0 /\ limit = 0
      /\ loaded = FALSE /\ cmd \in Commands
  BY FrontendsAssumption DEF Init
<1> DEFINE bus == setup.bus
           Plug == [model : DOMAIN DriverOf, place : {"bare", "loaded"}, kind : Kinds]
<1>3. /\ client \in {"cli", "gtk", "qt"} /\ drivers \in Seq(Drivers)
      /\ bus \in Seq(Plug) /\ Len(bus) <= MaxInsts /\ 2 * Len(bus) < NoAddress
  BY <1>1, FrontendsAssumption DEF Drivers
<1>4. usb = [p \in 1 .. Len(bus) |-> Plugged(bus[p].model, p, bus[p].place, bus[p].kind)]
      /\ Len(bus) \in Nat
  <2>1. DOMAIN bus = 1 .. Len(bus)
    BY <1>3
  <2> QED BY <1>1, <1>3, <2>1
<1> HIDE DEF bus
<1>5. ASSUME NEW p \in 1 .. Len(bus)
      PROVE  usb[p] \in UsbRecs /\ usb[p].addr = p /\ usb[p].since = 0 /\ usb[p].user = 0
  <2> HIDE DEF Plug
  <2>1. bus[p] \in Plug /\ p \in Nat
    BY <1>3, <1>4
  <2> USE DEF Plug
  <2>2. bus[p].model \in DOMAIN DriverOf /\ bus[p].place \in Places /\ bus[p].kind \in Kinds
    BY <2>1 DEF Places
  <2>3. \A m \in DOMAIN DriverOf : \A pl \in Places : \A ki \in Kinds :
            LET x == Plugged(m, p, pl, ki) IN
            x \in UsbRecs /\ x.addr = p /\ x.since = 0 /\ x.user = 0
    BY <2>1 DEF Plugged, Never, UsbRecs
  <2> QED BY <1>4, <2>2, <2>3
<1>6. usb \in Seq(UsbRecs) /\ Len(usb) = Len(bus)
  <2>1. usb \in [1 .. Len(bus) -> UsbRecs]
    BY <1>4, <1>5
  <2> QED BY <1>4, <2>1
<1>7. Bus(usb, now)
  BY <1>2, <1>3, <1>5, <1>6, Constants DEF Bus, Sane, Never
<1>8. Typed(Range(drivers), insts) /\ \A d \in Range(drivers) : insts[d] = <<>>
  BY <1>2 DEF Typed
<1>9. Devs0
  BY <1>2, <1>3, <1>7, <1>8, Constants DEF Devs0, World
<1>10. /\ pc \notin Waiting \cup Working \cup {"add"}
       /\ session.devs = <<>> /\ ~session.exists /\ session \in Sessions(0)
  BY <1>2, SessionsAre DEF Waiting, Working
<1>11. Listed
  <2>1. devs \in Seq(DevRecs) /\ Len(devs) = 0
    BY <1>2
  <2>2. DevsListed
    BY <2>1 DEF DevsListed
  <2>3. dev \in 0 .. Len(devs) /\ session \in Sessions(Len(devs))
    BY <1>2, <1>10, <2>1
  <2>4. limit \in Nat /\ loaded \in BOOLEAN
    BY <1>2
  <2> QED BY ONLY <1>2, <1>3, <1>8, <1>10, <2>2, <2>3, <2>4 DEF Listed
<1>12. opening \in Openings /\ opening.stage = "idle" /\ opening.inst = 0
       /\ opening.ret = "none" /\ opening.looked = 0
  BY <1>2, Constants DEF Openings, Idle, Never, Drivers
<1>13. OpeningOf /\ Reasons
  BY <1>2, <1>10, <1>12 DEF OpeningOf, Reasons
<1>14. AllHeld
  BY <1>8 DEF AllHeld
<1>15. Users
  BY <1>5, <1>6 DEF Users, UsedBy, Unclaimed
<1> QED BY <1>9, <1>11, <1>13, <1>14, <1>15 DEF Inv0

\* The invariant of the devices and the frontends.
THEOREM Invariance == Spec => []Inv0
<1>1. Init => Inv0
  BY InitHolds
<1>2. Inv0 /\ [Next]_vars => Inv0'
  BY NextKeeps
<1> QED BY <1>1, <1>2, PTL DEF Spec

\* The variables hold what the drivers, libsigrok and the frontends put there.
THEOREM TypeCorrect == Spec => []TypeOK
<1>1. ASSUME Inv0 PROVE TypeOK
  <2>1. /\ Bus(usb, now) /\ Typed(Range(drivers), insts)
        /\ \A d \in Range(drivers) : \A k \in 1 .. Len(insts[d]) :
               Sound(usb, now, d, insts[d][k])
        /\ lost \subseteq {"upload", "unfit"}
    BY <1>1 DEF Inv0, Devs0, World
  <2>2. Devices = 1 .. Len(usb) /\ Len(usb) \in Nat /\ now \in 1 .. MaxTime
    <3>1. usb \in Seq(UsbRecs) /\ now \in 1 .. MaxTime
      BY <2>1 DEF Bus
    <3> QED BY <3>1 DEF Devices
  <2>3. ASSUME NEW p \in Devices
        PROVE  usb[p] \in [model: DOMAIN DriverOf,
                           place: {"bare", "leaving", "gone", "loaded"}, kind: Kinds,
                           addr: {p, p + Len(usb)}, since: 0..MaxTime, user: 0..MaxInsts]
    <3>1. p \in 1 .. Len(usb)
      BY <2>2
    <3>2. usb[p] \in UsbRecs /\ Sane(usb, now, p)
      BY <2>1, <3>1 DEF Bus
    <3>3. usb[p].addr \in {p, p + Len(usb)} /\ usb[p].since \in 0 .. MaxTime
          /\ usb[p].user \in 0 .. MaxInsts
      BY <2>2, <3>1, <3>2, Constants DEF Sane, UsbRecs
    <3> QED BY <3>2, <3>3 DEF UsbRecs, Places
  <2>4. ASSUME NEW d \in Range(drivers), NEW k \in DOMAIN insts[d]
        PROVE  /\ insts[d][k].status \in {"initializing", "inactive", "active"}
               /\ insts[d][k].found \in Devices \cup {0}
               /\ insts[d][k].handle.dev \in Devices \cup {0}
    <3>1. insts[d] \in Seq(InstRecs)
      BY <2>1 DEF Typed
    <3>2. k \in 1 .. Len(insts[d]) /\ insts[d][k] \in InstRecs
      BY <3>1
    <3>3. Sound(usb, now, d, insts[d][k])
      BY <2>1, <3>2
    <3>4. insts[d][k].status \in {"initializing", "inactive", "active"}
      BY <3>2, InstFields DEF Statuses
    <3>5. insts[d][k].found \in 0 .. Len(usb) /\ insts[d][k].handle.dev \in 0 .. Len(usb)
      BY <3>3 DEF Sound
    <3>6. \A x \in 0 .. Len(usb) : x \in Devices \cup {0}
      BY <2>2
    <3> QED BY <3>4, <3>5, <3>6
  <2>5. opening \in Openings /\ dev \in 0 .. Len(devs)
        /\ (session.exists \/ session.devs = <<>>)
    BY <1>1 DEF Inv0, OpeningOf, Listed
  <2> QED BY <2>1, <2>3, <2>4, <2>5 DEF TypeOK, Openings
<1> QED BY <1>1, Invariance, PTL

\* An instance is active only while its device is open in the session, but for
\* one whose claim another program refused, and for a file loaded over it; and
\* an instance takes a handle only when it holds none of an open device: the
\* status that dev_open() sets, the handle of the instance and the device list
\* of the session change in different calls, and stay in agreement.
THEOREM ActiveHeld == Spec => []HeldInSession
<1>1. ASSUME Inv0 PROVE HeldInSession
  <2>1. HandlesHeld
    BY <1>1 DEF HandlesHeld, Inv0, Devs0
  <2>2. ASSUME NEW d \in Fx \cap Range(drivers), NEW k \in DOMAIN insts[d],
               insts[d][k].status = "active", opening.stage # "claim"
        PROVE  \/ InSession(d, k)
               \/ opening.ret = "ok" /\ opening.inst = k /\ pc \in {"added", "selected", "opened"}
               \/ insts[d][k].handle # NoHandle /\ usb[insts[d][k].handle.dev].user # k
               \/ loaded
    <3>1. insts[d] \in Seq(InstRecs)
      BY <1>1 DEF Inv0, Devs0, World, Typed
    <3>2. k \in 1 .. Len(insts[d])
      BY <3>1
    <3>3. loaded \/ Held(d, k)
      BY <1>1, <3>2 DEF Inv0, AllHeld
    <3> QED BY <2>2, <3>3 DEF Held, Loose, Claims, JustOpened, Waiting
  <2> QED BY <2>1, <2>2 DEF HeldInSession, ActiveInSession
<1> QED BY <1>1, Invariance, PTL

\* The device that dev_open() opens is the one that hw_init() found, when that saw
\* its firmware; and the open of a usable sole device fails only for one of
\* the reasons the code gives, however long the upload and the reset take.
THEOREM OpenedAsFound == Spec => []OpensTheDevice
<1>1. ASSUME Inv0 PROVE OpensTheDevice
  <2>1. ASSUME NEW d \in Fx \cap Range(drivers), NEW k \in DOMAIN insts[d],
               insts[d][k].status = "active", SeesFirmware(insts[d][k].found),
               usb[insts[d][k].found].since = Never
        PROVE  insts[d][k].handle.dev = insts[d][k].found
    <3>1. insts[d] \in Seq(InstRecs)
      BY <1>1 DEF Inv0, Devs0, World, Typed
    <3>2. k \in 1 .. Len(insts[d])
      BY <3>1
    <3>3. Sound(usb, now, d, insts[d][k])
      BY <1>1, <3>2 DEF Inv0, Devs0, World
    <3> QED BY <2>1, <3>3 DEF Sound, OfFx, FoundSane, Shows, SeesFirmware, HasFirmware
  <2>2. OpensWhatWasFound
    BY <2>1 DEF OpensWhatWasFound
  <2>3. SoleDeviceOpens
    BY <1>1 DEF SoleDeviceOpens, Inv0, Reasons, Because
  <2> QED BY <2>2, <2>3 DEF OpensTheDevice
<1> QED BY <1>1, Invariance, PTL

-----------------------------------------------------------------------------
(* A capture of sigrok-cli starts as it was asked for *)

\* Where sigrok-cli is between the choice of its device and the capture.
Steps == {"add", "added", "options", "probes", "triggers", "time", "samples", "frames",
          "config", "begin", "running"}

\* What the command line c asks for, of a trigger and of a time.
TriggerFor(c, n) ==
    IF Asks(c, n) = {} THEN NoTrigger ELSE c.triggers[Max(Asks(c, n))][3]
TimeAsked(c, i) ==
    \/ i.msec = Time(c.time)
    \/ i.samples * 1000 \in (i.samplerate * Time(c.time) - 999)..(i.samplerate * Time(c.time))

\* What of it the probe n has, at the place pl.
ProbeReady(pl, c, n, probe) ==
    IF pl \in {"add", "added", "options", "probes"}
    THEN FreshProbe(probe, n)
    ELSE /\ probe.enabled = AskedFor(c, n) /\ probe.name = AskedName(c, n)
         /\ IF pl = "triggers" THEN probe.trigger = NoTrigger
            ELSE probe.trigger = TriggerFor(c, n)
ProbesReady(pl, c, ps) == \A n \in 1 .. Len(ps) : ProbeReady(pl, c, n, ps[n])

\* And what of it the instance i has, when the device has the probes ps.
InstReady(pl, c, lim, ps, drv, i) ==
    /\ i.samples = lim
    /\ pl \notin {"add", "added", "options"} /\ c.samplerate # 0 =>
           i.samplerate = c.samplerate
    /\ pl \in {"samples", "frames", "config", "begin", "running"} /\ c.time # <<>>
         /\ (c.samples = <<>> \/ pl = "samples") => TimeAsked(c, i)
    /\ pl \in {"frames", "config", "begin", "running"} /\ c.samples # <<>> =>
           lim = Size(c.samples)
    /\ pl \notin {"begin", "running"} => i.regs = NoProbes
    /\ pl \in {"begin", "running"} =>
           i.regs = Probed(drv, NoProbes, ps) /\ ~Overlong(drv, "probes", ps)
Ready(pl, c, lim, ps, drv, k, i) ==
    /\ pl \in {"add", "added", "options", "probes", "triggers", "time"} => lim = 0
    /\ pl \in {"begin", "running"} => k # 0
    /\ ProbesReady(pl, c, ps)
    /\ k # 0 => InstReady(pl, c, lim, ps, drv, i)

Number == InstOf(Driver, Index)
Mine == insts[Driver][Number]
Prepared ==
    client = "cli" =>
        /\ pc = "start" => limit = 0
        /\ pc \in Steps => Ready(pc, cmd, limit, Probes, Driver, Number, Mine)

\* The steps that set nothing.
LEMMA ReadyMoves ==
    ASSUME NEW pl, NEW next, NEW c, NEW lim, NEW ps, NEW drv, NEW k, NEW i,
           Ready(pl, c, lim, ps, drv, k, i),
           \/ pl = "add" /\ next = "added"
           \/ pl = "added" /\ next = "options"
           \/ pl = "options" /\ next = "probes" /\ c.samplerate = 0
           \/ pl = "time" /\ next = "samples" /\ c.time = <<>>
           \/ pl = "samples" /\ next = "frames" /\ c.samples = <<>>
           \/ pl = "frames" /\ next = "config"
           \/ pl = "begin" /\ next = "running"
    PROVE  Ready(next, c, lim, ps, drv, k, i)
<1>1. ProbesReady(next, c, ps)
  <2>1. \A n \in 1 .. Len(ps) : ProbeReady(pl, c, n, ps[n]) => ProbeReady(next, c, n, ps[n])
    BY DEF ProbeReady
  <2> QED BY <2>1 DEF Ready, ProbesReady
<1>2. InstReady(pl, c, lim, ps, drv, i) => InstReady(next, c, lim, ps, drv, i)
  BY DEF InstReady
<1> QED BY <1>1, <1>2 DEF Ready

\* What is configured of an instance, and what is not.
ConfiguredAs(drv, i, j, cap, value) ==
    /\ j.samplerate = IF cap = "samplerate" THEN value ELSE i.samplerate
    /\ j.samples = IF cap = "samples" THEN value ELSE IF cap = "msec" THEN 0 ELSE i.samples
    /\ j.msec = IF cap = "msec" THEN value
                ELSE IF cap = "samples" /\ drv = "demo" THEN 0 ELSE i.msec
    /\ j.regs = IF cap = "probes" THEN Probed(drv, i.regs, value) ELSE i.regs

\* The steps that set something.
LEMMA ReadySets ==
    ASSUME NEW pl, NEW next, NEW c, NEW lim, NEW new, NEW ps, NEW drv, NEW k, NEW i, NEW j,
           NEW cap, NEW value, Ready(pl, c, lim, ps, drv, k, i), k # 0,
           ConfiguredAs(drv, i, j, cap, value),
           \/ /\ pl = "options" /\ next = "probes" /\ new = lim
              /\ cap = "samplerate" /\ value = c.samplerate
           \/ /\ pl = "time" /\ next = "samples" /\ TimeAsked(c, j)
              /\ new = j.samples /\ cap \in {"samples", "msec"}
           \/ /\ pl = "samples" /\ next = "frames" /\ c.samples # <<>>
              /\ cap = "samples" /\ value = Size(c.samples) /\ new = value
           \/ pl = "frames" /\ next = "config" /\ new = lim /\ cap = "frames"
           \/ /\ pl = "config" /\ next = "begin" /\ new = lim
              /\ cap = "probes" /\ value = ps /\ ~Overlong(drv, cap, value)
    PROVE  Ready(next, c, new, ps, drv, k, j)
<1>1. ProbesReady(next, c, ps)
  <2>1. \A n \in 1 .. Len(ps) : ProbeReady(pl, c, n, ps[n]) => ProbeReady(next, c, n, ps[n])
    BY DEF ProbeReady
  <2> QED BY <2>1 DEF Ready, ProbesReady
<1>2. InstReady(pl, c, lim, ps, drv, i)
  BY DEF Ready
<1>3. next \in {"add", "added", "options", "probes", "triggers", "time"} => new = 0
  BY DEF Ready
<1>4. CASE pl = "options"
  <2>1. InstReady(next, c, new, ps, drv, j)
    BY <1>2, <1>4 DEF InstReady, ConfiguredAs
  <2> QED BY <1>1, <1>3, <2>1 DEF Ready
<1>5. CASE pl = "time"
  <2>1. InstReady(next, c, new, ps, drv, j)
    BY <1>2, <1>5 DEF InstReady, ConfiguredAs
  <2> QED BY <1>1, <1>3, <2>1 DEF Ready
<1>6. CASE pl = "samples"
  <2>1. InstReady(next, c, new, ps, drv, j)
    BY <1>2, <1>6 DEF InstReady, ConfiguredAs
  <2> QED BY <1>1, <1>3, <2>1 DEF Ready
<1>7. CASE pl = "frames" \/ pl = "config"
  <2>1. /\ j.samplerate = i.samplerate /\ j.samples = i.samples /\ j.msec = i.msec
        /\ i.regs = NoProbes /\ (pl = "frames" => j.regs = i.regs)
        /\ pl = "config" => j.regs = Probed(drv, i.regs, ps) /\ ~Overlong(drv, "probes", ps)
    BY <1>2, <1>7 DEF ConfiguredAs, InstReady
  <2>2. TimeAsked(c, i) => TimeAsked(c, j)
    BY <2>1 DEF TimeAsked
  <2>3. InstReady(next, c, new, ps, drv, j)
    BY <1>2, <1>7, <2>1, <2>2 DEF InstReady
  <2> QED BY <1>1, <1>3, <2>3 DEF Ready
<1> QED BY <1>4, <1>5, <1>6, <1>7

\* The device in use is the same after a step, and so is its instance.
LEMMA SameNumber ==
    ASSUME Inv0, dev # 0, UNCHANGED <<dev, drivers>>, Typed(Range(drivers), insts'),
           Kept(Range(drivers), insts, insts'),
           devs'[dev].driver = devs[dev].driver, devs'[dev].index = devs[dev].index
    PROVE  /\ UNCHANGED <<Driver, Index, Number>>
           /\ Number \in 0 .. Len(insts[Driver])
           /\ Mine' = insts'[Driver][Number]
<1>1. UNCHANGED <<Driver, Index>> /\ Driver \in Range(drivers)
      /\ insts[Driver] \in Seq(InstRecs)
  BY DevIs DEF Driver, Index
<1>2. Number = IndexIn(insts[Driver], Index) /\ Number' = IndexIn(insts'[Driver], Index)
  BY <1>1, IndexIsInstOf DEF Number
<1>3. IndexIn(insts'[Driver], Index) = IndexIn(insts[Driver], Index)
  <2>1. Typed(Range(drivers), insts)
    BY SameAsItIs
  <2> QED BY <1>1, <2>1, SameIndex
<1> QED BY <1>1, <1>2, <1>3, IndexListed DEF Mine

\* Nothing is set.
LEMMA MovesReady ==
    ASSUME Inv0, Prepared, client = "cli", pc \in Steps,
           UNCHANGED <<client, cmd, dev, devs, insts, limit>>,
           \/ pc = "add" /\ pc' = "added"
           \/ pc = "added" /\ pc' = "options"
           \/ pc = "options" /\ pc' = "probes" /\ cmd.samplerate = 0
           \/ pc = "time" /\ pc' = "samples" /\ cmd.time = <<>>
           \/ pc = "samples" /\ pc' = "frames" /\ cmd.samples = <<>>
           \/ pc = "frames" /\ pc' = "config"
           \/ pc = "begin" /\ pc' = "running"
    PROVE  Prepared'
<1>1. Ready(pc, cmd, limit, Probes, Driver, Number, Mine)
  BY DEF Prepared
<1>2. UNCHANGED <<Probes, Driver, Number, Mine>>
  BY DEF Probes, Driver, Index, Number, InstOf, Mine
<1>3. Ready(pc', cmd, limit, Probes, Driver, Number, Mine)
  BY <1>1, ReadyMoves
<1>4. pc' # "start"
  OBVIOUS
<1> QED BY <1>2, <1>3, <1>4 DEF Prepared

\* Something is.
LEMMA SettingReady ==
    ASSUME Inv0, NEW cap, NEW value, Takes(cap, value), Set(cap, value),
           ValueOf(cap, value), pc \in Halfway, UNCHANGED <<dev, devs, drivers>>
    PROVE  /\ Number # 0 /\ UNCHANGED <<Probes, Driver, Number>> /\ Mine \in InstRecs
           /\ ConfiguredAs(Driver, Mine, Mine', cap, value) /\ ~Overlong(Driver, cap, value)
<1> DEFINE D == Range(drivers)
<1>1. dev # 0 /\ Driver \in D /\ Driver \in Drivers /\ insts[Driver] \in Seq(InstRecs)
  BY AtWork, DevIs
<1>2. /\ Number \in 1 .. Len(insts[Driver]) /\ Typed(D, insts') /\ Same(D, insts, insts')
      /\ ~Overlong(Driver, cap, value)
  BY <1>1, TakenBy, SettingIs DEF Takes, ConfigSets, Set, Number
<1>3. Kept(D, insts, insts')
  BY <1>2, SameIsKept
<1>4. /\ UNCHANGED <<Driver, Index, Number>> /\ Mine' = insts'[Driver][Number]
      /\ UNCHANGED Probes
  BY <1>1, <1>2, <1>3, SameNumber DEF Probes
<1>5. Mine \in InstRecs
  BY <1>1, <1>2 DEF Mine
<1>6. insts'[Driver][Number] = Configured(Driver, Mine, cap, value)
  <2>1. insts \in [D -> Seq(InstRecs)]
    BY SameAsItIs DEF Typed
  <2>2. InstOf(Driver, Index) \in 1 .. Len(insts[Driver])
    BY <1>2 DEF Number
  <2>3. WithConfig(insts, Driver, Index, cap, value)[Driver][InstOf(Driver, Index)]
            = Configured(Driver, insts[Driver][InstOf(Driver, Index)], cap, value)
    BY <1>1, <2>1, <2>2, Configures
  <2> QED BY <2>3 DEF Set, Number, Mine
<1>7. ConfiguredAs(Driver, Mine, Configured(Driver, Mine, cap, value), cap, value)
  BY <1>1, <1>5, ConfiguredInst DEF ConfiguredAs
<1> QED BY <1>2, <1>4, <1>5, <1>6, <1>7

\* One of the settings of sigrok-cli.
LEMMA SetsReady ==
    ASSUME Inv0, Prepared, client = "cli", NEW place, NEW next, NEW asked, NEW cap,
           NEW value, CliSets(place, next, asked, TRUE, cap, value), ValueOf(cap, value),
           \/ /\ place = "options" /\ next = "probes" /\ cap = "samplerate"
              /\ value = cmd.samplerate /\ (~asked => cmd.samplerate = 0)
           \/ place = "frames" /\ next = "config" /\ cap = "frames"
           \/ place = "config" /\ next = "begin" /\ cap = "probes" /\ value = Probes /\ asked
    PROVE  Prepared'
<1>1. pc = place /\ pc \in Steps /\ pc \in Halfway
  BY DEF CliSets, At, Steps, Halfway
<1>2. CASE ~asked /\ Goto(next) /\ UNCHANGED <<usbs, devs, session, limit>> /\ CliStays
  <2>1. UNCHANGED <<client, cmd, dev, devs, insts, limit>> /\ pc' = next
    BY <1>2 DEF Goto, usbs, CliStays
  <2> QED BY <1>1, <1>2, <2>1, MovesReady
<1>3. CASE CliFails
  BY <1>3 DEF CliFails, Goto, Prepared, Steps
<1>4. CASE /\ Takes(cap, value) /\ Set(cap, value)
           /\ Goto(next) /\ UNCHANGED <<usb, devs, session, limit>> /\ CliStays
  <2>1. /\ UNCHANGED <<client, cmd, dev, devs, drivers, limit>> /\ pc' = next
        /\ Takes(cap, value) /\ Set(cap, value)
    BY <1>4 DEF Goto, CliStays
  <2>2. /\ Number # 0 /\ UNCHANGED <<Probes, Driver, Number>>
        /\ ConfiguredAs(Driver, Mine, Mine', cap, value) /\ ~Overlong(Driver, cap, value)
    BY <1>1, <2>1, SettingReady
  <2>3. Ready(place, cmd, limit, Probes, Driver, Number, Mine)
    BY <1>1 DEF Prepared
  <2>4. Ready(next, cmd, limit, Probes, Driver, Number, Mine')
    BY <2>2, <2>3, ReadySets
  <2>5. next # "start"
    OBVIOUS
  <2> QED BY <2>1, <2>2, <2>4, <2>5 DEF Prepared
<1> QED BY <1>2, <1>3, <1>4 DEF CliSets

\* The options, the frames and the probes.
LEMMA OptionsReady ==
    ASSUME Inv0, Prepared, client = "cli", CliOptions \/ CliFrames \/ CliConfig
    PROVE  Prepared'
<1>1. ASSUME CliOption PROVE Prepared'
  <2>1. ValueOf("samplerate", cmd.samplerate)
    BY CommandIs DEF ValueOf
  <2> QED BY <1>1, <2>1, SetsReady DEF CliOption
<1>2. ASSUME CliBadOption PROVE Prepared'
  BY <1>2 DEF CliBadOption, CliFails, Goto, Prepared, Steps
<1>3. ASSUME CliSetThenBad PROVE Prepared'
  BY <1>3 DEF CliSetThenBad, Prepared, Steps
<1>4. ASSUME CliFrames PROVE Prepared'
  <2>1. ValueOf("frames", cmd.frames)
    BY CommandIs DEF ValueOf
  <2> QED BY <1>4, <2>1, SetsReady DEF CliFrames
<1>5. ASSUME CliConfig PROVE Prepared'
  <2>1. pc \in Halfway
    BY <1>5 DEF CliConfig, CliConfigSpills, CliSets, At, Halfway
  <2>2. ValueOf("probes", Probes)
    BY <2>1, AtWork, DevIs DEF ValueOf
  <2>3. CASE CliConfigSpills
    BY <2>3 DEF CliConfigSpills, Prepared, Steps
  <2>4. CASE CliSets("config", "begin", TRUE, TRUE, "probes", Probes)
    BY <2>2, <2>4, SetsReady
  <2> QED BY <1>5, <2>3, <2>4 DEF CliConfig
<1> QED BY <1>1, <1>2, <1>3, <1>4, <1>5 DEF CliOptions

\* The samples.
LEMMA SamplesReady ==
    ASSUME Inv0, Prepared, client = "cli", CliSamples
    PROVE  Prepared'
<1>1. pc = "samples" /\ pc \in Steps /\ pc \in Halfway
  BY DEF CliSamples, At, Steps, Halfway
<1>2. CASE /\ cmd.samples = <<>> /\ Goto("frames")
           /\ UNCHANGED <<usbs, devs, session, limit>> /\ CliStays
  <2>1. UNCHANGED <<client, cmd, dev, devs, insts, limit>> /\ pc' = "frames"
    BY <1>2 DEF Goto, usbs, CliStays
  <2> QED BY <1>1, <1>2, <2>1, MovesReady
<1>3. CASE CliFails
  BY <1>3 DEF CliFails, Goto, Prepared, Steps
<1>4. CASE /\ cmd.samples # <<>> /\ SizeOk(cmd.samples)
           /\ Takes("samples", Size(cmd.samples)) /\ Set("samples", Size(cmd.samples))
           /\ limit' = Size(cmd.samples) /\ Goto("frames")
           /\ UNCHANGED <<usb, devs, session>> /\ CliStays
  <2>1. ValueOf("samples", Size(cmd.samples))
    BY <1>4, CommandIs DEF ValueOf
  <2>2. UNCHANGED <<client, cmd, dev, devs, drivers>> /\ pc' = "frames"
    BY <1>4 DEF Goto, CliStays
  <2>3. /\ Number # 0 /\ UNCHANGED <<Probes, Driver, Number>>
        /\ ConfiguredAs(Driver, Mine, Mine', "samples", Size(cmd.samples))
    BY <1>1, <1>4, <2>1, <2>2, SettingReady
  <2>4. Ready("samples", cmd, limit, Probes, Driver, Number, Mine)
    BY <1>1 DEF Prepared
  <2>5. Ready("frames", cmd, limit', Probes, Driver, Number, Mine')
    BY <1>4, <2>3, <2>4, ReadySets
  <2> QED BY <2>2, <2>3, <2>5 DEF Prepared
<1> QED BY <1>2, <1>3, <1>4 DEF CliSamples

\* A time and a samplerate give the number of samples that is asked for.
LEMMA Rounded ==
    ASSUME NEW a \in Nat, NEW b \in Nat
    PROVE  ((a * b) \div 1000) * 1000 \in (a * b - 999) .. (a * b)
<1> DEFINE c == a * b
<1>1. c \in Nat
  OBVIOUS
<1> HIDE DEF c
<1>2. (c \div 1000) * 1000 \in (c - 999) .. c
  BY <1>1
<1> QED BY <1>2 DEF c

\* The time.
LEMMA TimeReady ==
    ASSUME Inv0, Prepared, client = "cli", CliTime
    PROVE  Prepared'
<1> DEFINE cap == IF Converts THEN "samples" ELSE "msec"
           value == IF Converts THEN TimeLimit ELSE Time(cmd.time)
<1>1. pc = "time" /\ pc \in Steps /\ pc \in Halfway
  BY DEF CliTime, At, Steps, Halfway
<1>2. CASE /\ cmd.time = <<>> /\ Goto("samples")
           /\ UNCHANGED <<usbs, devs, session, limit>> /\ CliStays
  <2>1. UNCHANGED <<client, cmd, dev, devs, insts, limit>> /\ pc' = "samples"
    BY <1>2 DEF Goto, usbs, CliStays
  <2> QED BY <1>1, <1>2, <2>1, MovesReady
<1>3. CASE CliFails
  BY <1>3 DEF CliFails, Goto, Prepared, Steps
<1>4. CASE /\ cmd.time # <<>> /\ value # 0 /\ Takes(cap, value) /\ Set(cap, value)
           /\ limit' = (IF Converts THEN value ELSE limit) /\ Goto("samples")
           /\ UNCHANGED <<usb, devs, session>> /\ CliStays
  <2>1. UNCHANGED <<client, cmd, dev, devs, drivers>> /\ pc' = "samples"
    BY <1>4 DEF Goto, CliStays
  <2>2. Time(cmd.time) \in Nat
    BY <1>4, CommandIs
  <2>3. dev # 0 /\ Driver \in Range(drivers) /\ insts[Driver] \in Seq(InstRecs)
    BY <1>1, AtWork, DevIs
  <2>4. Mine \in InstRecs /\ Rate = Mine.samplerate
    <3>1. InstOf(Driver, Index) \in 1 .. Len(insts[Driver])
      BY <1>4, <2>3, TakenBy DEF Takes, ConfigSets
    <3> QED BY <2>3, <3>1 DEF Mine, Number, Rate
  <2>5. Rate \in Nat
    BY <2>4, InstFields
  <2>6. value \in Nat
    BY <2>2, <2>5, SamplesIn DEF TimeLimit
  <2>7. Converts => value = (Rate * Time(cmd.time)) \div 1000
    BY <1>4 DEF TimeLimit
  <2>8. cap \in {"samples", "msec"} /\ (Converts <=> cap = "samples")
        /\ (~Converts => value = Time(cmd.time))
        /\ Takes(cap, value) /\ Set(cap, value)
    BY <1>4
  <2> HIDE DEF cap, value
  <2>9. ValueOf(cap, value)
    BY <2>6, <2>8 DEF ValueOf
  <2>10. /\ Number # 0 /\ UNCHANGED <<Probes, Driver, Number>>
         /\ ConfiguredAs(Driver, Mine, Mine', cap, value)
    BY <1>1, <2>1, <2>8, <2>9, SettingReady
  <2>11. Ready("time", cmd, limit, Probes, Driver, Number, Mine)
    BY <1>1 DEF Prepared
  <2>12. limit = 0
    BY <2>11 DEF Ready
  <2>13. limit' = Mine'.samples
    BY <1>4, <2>8, <2>10, <2>12 DEF ConfiguredAs
  <2>14. TimeAsked(cmd, Mine')
    <3>1. CASE cap = "samples"
      <4>1. Mine'.samples = value /\ Mine'.samplerate = Rate
        BY <2>4, <2>10, <3>1 DEF ConfiguredAs
      <4>2. value = (Rate * Time(cmd.time)) \div 1000
        BY <2>7, <2>8, <3>1
      <4> QED BY <2>2, <2>5, <4>1, <4>2, Rounded DEF TimeAsked
    <3>2. CASE cap = "msec"
      BY <2>8, <2>10, <3>2 DEF ConfiguredAs, TimeAsked
    <3> QED BY <2>8, <3>1, <3>2
  <2>15. Ready("samples", cmd, limit', Probes, Driver, Number, Mine')
    BY <2>8, <2>10, <2>11, <2>13, <2>14, ReadySets
  <2> QED BY <2>1, <2>10, <2>15 DEF Prepared
<1> QED BY <1>2, <1>3, <1>4 DEF CliTime

\* The probes are set, and the instance stays as it is.
LEMMA ProbesChange ==
    ASSUME Inv0, pc \in Halfway, NEW ps \in Seq(ProbeRecs), Len(ps) = Len(Probes),
           devs' = [devs EXCEPT ![dev].probes = ps], CliStays, UNCHANGED usbs
    PROVE  Probes' = ps /\ UNCHANGED <<Driver, Number, Mine>>
<1> DEFINE new == [devs EXCEPT ![dev].probes = ps]
<1>1. dev # 0 /\ UNCHANGED <<dev, drivers, insts>>
  BY AtWork DEF CliStays, usbs
<1>2. dev \in 1 .. Len(devs)
  BY <1>1, DevIs
<1>3. /\ new[dev].driver = devs[dev].driver /\ new[dev].index = devs[dev].index
      /\ new[dev].probes = ps
  BY <1>1, <1>2, NewProbes
<1> HIDE DEF new
<1>4. devs' = new
  BY DEF new
<1>5. Probes' = ps
  BY <1>1, <1>3, <1>4 DEF Probes
<1>6. Typed(Range(drivers), insts') /\ Kept(Range(drivers), insts, insts')
  BY <1>1, SameAsItIs, SameIsKept
<1>7. UNCHANGED <<Driver, Number>> /\ Mine' = insts'[Driver][Number]
  BY <1>1, <1>3, <1>4, <1>6, SameNumber
<1> QED BY <1>1, <1>5, <1>7 DEF Mine

\* select_probes()
LEMMA ProbesStepReady ==
    ASSUME Inv0, Prepared, client = "cli", CliProbes
    PROVE  Prepared'
<1>1. pc = "probes" /\ pc \in Steps /\ pc \in Halfway /\ dev # 0
      /\ UNCHANGED <<client, cmd, usbs, limit>> /\ CliStays
  BY AtWork DEF CliProbes, At, Steps, Halfway, Goto
<1>2. Ready("probes", cmd, limit, Probes, Driver, Number, Mine)
  BY <1>1 DEF Prepared
<1>3. /\ Probes \in Seq(ProbeRecs) /\ cmd.probes \in [DOMAIN cmd.probes -> STRING]
      /\ cmd.select = "all" => cmd.probes = <<>>
  BY <1>1, DevIs, CommandIs, FrontendsAssumption
<1>4. \A n \in 1 .. Len(Probes) : FreshProbe(Probes[n], n)
  BY <1>2 DEF Ready, ProbesReady, ProbeReady
<1>5. InstReady("probes", cmd, limit, Probes, Driver, Mine)
          => \A ps : InstReady("triggers", cmd, limit, ps, Driver, Mine)
  BY DEF InstReady
<1>6. CASE pc' = "exit"
  BY <1>1, <1>6 DEF Prepared, Steps
<1>7. CASE pc' = "triggers" /\ cmd.select = "all" /\ devs' = devs
  <2>1. UNCHANGED <<Probes, Driver, Number, Mine>>
    BY <1>1, <1>7 DEF Probes, Driver, Index, Number, InstOf, Mine, CliStays, usbs
  <2>2. ProbesReady("triggers", cmd, Probes)
    <3>1. \A n : AskedFor(cmd, n) = TRUE /\ AskedName(cmd, n) = ToString(n)
      BY <1>3, <1>7 DEF AskedFor, AskedName
    <3> QED BY <1>4, <3>1 DEF ProbesReady, ProbeReady, FreshProbe
  <2>3. Ready("triggers", cmd, limit, Probes, Driver, Number, Mine)
    BY <1>2, <1>5, <2>2 DEF Ready
  <2> QED BY <1>1, <1>7, <2>1, <2>3 DEF Prepared
<1>8. CASE /\ pc' = "triggers" /\ cmd.select # "all"
           /\ devs' = [devs EXCEPT ![dev].probes = SelectProbes(@, cmd.probes)]
  <2> DEFINE ps == SelectProbes(Probes, cmd.probes)
  <2>1. /\ ps \in Seq(ProbeRecs) /\ Len(ps) = Len(Probes)
        /\ \A n \in 1 .. Len(Probes) :
               /\ ps[n].enabled = IF n \in DOMAIN cmd.probes THEN Probes[n].enabled ELSE FALSE
               /\ ps[n].name = IF n \in DOMAIN cmd.probes THEN cmd.probes[n] ELSE Probes[n].name
               /\ ps[n].trigger = Probes[n].trigger
    BY <1>3, SelectedAre
  <2>2. devs' = [devs EXCEPT ![dev].probes = ps]
    BY <1>8 DEF Probes
  <2> HIDE DEF ps
  <2>3. Probes' = ps /\ UNCHANGED <<Driver, Number, Mine>>
    BY <1>1, <2>1, <2>2, ProbesChange
  <2>4. ProbesReady("triggers", cmd, ps)
    <3>1. ASSUME NEW n \in 1 .. Len(Probes) PROVE ProbeReady("triggers", cmd, n, ps[n])
      <4>1. ps[n].name = AskedName(cmd, n) /\ ps[n].trigger = NoTrigger
        BY <1>4, <2>1 DEF AskedName, FreshProbe
      <4>2. ps[n].enabled = AskedFor(cmd, n)
        <5>1. CASE n \in DOMAIN cmd.probes
          BY <1>4, <2>1, <5>1 DEF AskedFor, FreshProbe
        <5>2. CASE n \notin DOMAIN cmd.probes
          BY <1>8, <2>1, <5>2 DEF AskedFor
        <5> QED BY <5>1, <5>2
      <4> QED BY <4>1, <4>2 DEF ProbeReady
    <3> QED BY <2>1, <3>1 DEF ProbesReady
  <2>5. Ready("triggers", cmd, limit, ps, Driver, Number, Mine)
    BY <1>2, <1>5, <2>4 DEF Ready
  <2> QED BY <1>1, <1>8, <2>3, <2>5 DEF Prepared
<1> QED BY <1>6, <1>7, <1>8 DEF CliProbes, Goto

\* A token goes to the probe it asks for.
LEMMA NumberAsked ==
    ASSUME NEW c \in Commands, Unambiguous(c), NEW model \in DOMAIN DriverOf,
           NEW ps \in Seq(ProbeRecs), Len(ps) = ProbeCount[model],
           \A n \in 1 .. Len(ps) : ps[n].name = AskedName(c, n),
           NEW t \in Range(c.triggers), ProbeNumber(ps, t) \in 1 .. Len(ps),
           NEW n \in 1 .. Len(ps)
    PROVE  ProbeNumber(ps, t) = n <=> IF t[1] = "" THEN t[2] = n ELSE t[1] = AskedName(c, n)
<1> DEFINE hits == {q \in DOMAIN ps : ps[q].enabled /\ IsPrefix(ps[q].name, t[1])}
<1>1. ProbeNumber(ps, t) = IF t[1] = "" THEN t[2] ELSE IF hits = {} THEN 0 ELSE Min(hits)
  BY DEF ProbeNumber
<1>2. CASE t[1] = ""
  BY <1>1, <1>2
<1>3. CASE t[1] # ""
  <2>1. hits \in SUBSET Nat /\ \A q \in hits : q \in 1 .. Len(ps) /\ IsPrefix(ps[q].name, t[1])
    OBVIOUS
  <2> HIDE DEF hits
  <2>2. hits # {}
    <3>1. 0 \notin 1 .. Len(ps)
      OBVIOUS
    <3>2. ProbeNumber(ps, t) \in 1 .. Len(ps)
      OBVIOUS
    <3> QED BY ONLY <1>1, <1>3, <3>1, <3>2
  <2>3. PICK q : q = Min(hits)
    OBVIOUS
  <2>4. q \in hits
    BY <2>1, <2>2, <2>3, Least
  <2>5. q \in 1 .. Len(ps) /\ IsPrefix(AskedName(c, q), t[1])
    BY <2>1, <2>4
  <2>6. AskedName(c, q) = t[1] /\ (AskedName(c, n) = t[1] => n = q)
    BY ZenonT(30), <1>3, <2>5 DEF Unambiguous
  <2>7. ProbeNumber(ps, t) = q
    BY <1>1, <1>3, <2>2, <2>3
  <2> QED BY ONLY <1>3, <2>6, <2>7
<1> QED BY <1>2, <1>3

\* So the triggers that are set are those that were asked for.
LEMMA TriggersAsk ==
    ASSUME NEW c \in Commands, Unambiguous(c), NEW model \in DOMAIN DriverOf,
           NEW ps \in Seq(ProbeRecs), Len(ps) = ProbeCount[model],
           \A n \in 1 .. Len(ps) :
               ps[n].name = AskedName(c, n) /\ ps[n].trigger = NoTrigger,
           c.triggers \in Seq(STRING \X Nat \X Triggers),
           \A t \in Range(c.triggers) : ProbeNumber(ps, t) \in 1 .. Len(ps),
           NEW n \in 1 .. Len(ps)
    PROVE  SetTriggers(ps, c.triggers)[n].trigger = TriggerFor(c, n)
<1> DEFINE tokens == c.triggers
           mine == {j \in DOMAIN tokens : /\ ProbeNumber(ps, tokens[j]) = n
                                           /\ tokens[j][3] # NoTrigger}
           x == SetTriggers(ps, tokens)[n]
<1>1. /\ mine = {} => x.trigger = NoTrigger
      /\ mine # {} => x.trigger = tokens[Max(mine)][3]
  BY ZenonT(30), TriggeredAre
<1>2. \A j \in DOMAIN tokens : tokens[j] \in Range(tokens)
  BY DEF Range
<1>3. \A t \in Range(tokens) :
          ProbeNumber(ps, t) = n <=> IF t[1] = "" THEN t[2] = n ELSE t[1] = AskedName(c, n)
  BY NumberAsked
<1>4. mine = Asks(c, n)
  BY ZenonT(30), <1>2, <1>3 DEF Asks
<1> HIDE DEF x, mine
<1> QED BY <1>1, <1>4 DEF TriggerFor, x

\* sr_parse_triggerstring()
LEMMA TriggersReady ==
    ASSUME Inv0, Prepared, client = "cli", \A c \in Commands : Unambiguous(c), CliTriggers
    PROVE  Prepared'
<1>1. pc = "triggers" /\ pc \in Steps /\ pc \in Halfway /\ dev # 0
      /\ UNCHANGED <<client, cmd>>
  BY AtWork DEF CliTriggers, CliFails, At, Steps, Halfway, Goto
<1>2. CASE CliFails
  BY <1>2 DEF CliFails, Goto, Prepared, Steps
<1>3. CASE /\ TriggersTaken
           /\ devs' = [devs EXCEPT ![dev].probes = SetTriggers(@, cmd.triggers)]
           /\ Goto("time")
           /\ UNCHANGED <<usbs, session, limit>> /\ CliStays
  <2> DEFINE ps == SetTriggers(Probes, cmd.triggers)
  <2>1. /\ Probes \in Seq(ProbeRecs) /\ cmd.triggers \in Seq(STRING \X Nat \X Triggers)
        /\ cmd \in Commands /\ Listable(devs[dev])
    BY <1>1, DevIs, CommandIs
  <2>2. /\ ps \in Seq(ProbeRecs) /\ Len(ps) = Len(Probes)
        /\ \A n \in 1 .. Len(Probes) :
               ps[n].enabled = Probes[n].enabled /\ ps[n].name = Probes[n].name
    BY <2>1, TriggeredAre
  <2>3. devs' = [devs EXCEPT ![dev].probes = ps]
    BY <1>3 DEF Probes
  <2>4. Ready("triggers", cmd, limit, Probes, Driver, Number, Mine)
    BY <1>1 DEF Prepared
  <2>5. \A n \in 1 .. Len(Probes) :
            /\ Probes[n].name = AskedName(cmd, n) /\ Probes[n].trigger = NoTrigger
            /\ Probes[n].enabled = AskedFor(cmd, n)
    BY <2>4 DEF Ready, ProbesReady, ProbeReady
  <2>6. ASSUME NEW n \in 1 .. Len(Probes) PROVE ps[n].trigger = TriggerFor(cmd, n)
    <3>1. CASE cmd.triggers = <<>>
      <4>1. DOMAIN cmd.triggers = {}
        BY <3>1
      <4>2. ps[n].trigger = NoTrigger
        BY ZenonT(30), <2>1, <2>5, <4>1, TriggeredAre
      <4>3. Asks(cmd, n) = {}
        BY <4>1 DEF Asks
      <4> QED BY <4>2, <4>3 DEF TriggerFor
    <3>2. CASE cmd.triggers # <<>>
      <4>1. TriggersOk(Driver, Probes, cmd.triggers)
        BY <1>3, <3>2 DEF TriggersTaken
      <4>2. Driver \in Fx
        BY <4>1 DEF TriggersOk, TriggerTypes, Fx
      <4>3. PICK model \in DOMAIN DriverOf : Len(Probes) = ProbeCount[model]
        BY <2>1, <4>2 DEF Listable, Driver, Probes
      <4>4. \A t \in Range(cmd.triggers) : ProbeNumber(Probes, t) \in 1 .. Len(Probes)
        BY <2>1, <4>1 DEF TriggersOk, TokenOk, Range
      <4>5. Unambiguous(cmd)
        BY <2>1
      <4> QED BY <2>1, <2>5, <4>3, <4>4, <4>5, TriggersAsk
    <3> QED BY <3>1, <3>2
  <2> HIDE DEF ps
  <2>7. Probes' = ps /\ UNCHANGED <<Driver, Number, Mine>>
    BY <1>1, <1>3, <2>2, <2>3, ProbesChange
  <2>8. ProbesReady("time", cmd, ps)
    BY <2>2, <2>5, <2>6 DEF ProbesReady, ProbeReady
  <2>9. InstReady("triggers", cmd, limit, Probes, Driver, Mine)
            => InstReady("time", cmd, limit, ps, Driver, Mine)
    BY DEF InstReady
  <2>10. Ready("time", cmd, limit, ps, Driver, Number, Mine)
    BY <2>4, <2>8, <2>9 DEF Ready
  <2>11. pc' = "time" /\ limit' = limit
    BY <1>3 DEF Goto
  <2> QED BY <1>1, <2>7, <2>10, <2>11 DEF Prepared
<1> QED BY <1>2, <1>3 DEF CliTriggers

\* The start of the capture, the end, and the failures.
LEMMA StartReady ==
    ASSUME Inv0, Prepared, client = "cli", CliStart \/ CliRun \/ CliFailing \/ CliAdd \/ CliAdded
    PROVE  Prepared'
<1>1. CASE CliFails
  BY <1>1 DEF CliFails, Goto, Prepared, Steps
<1>2. CASE /\ pc = "begin" /\ Goto("running")
           /\ UNCHANGED <<usbs, devs, session, limit>> /\ CliStays
  <2>1. UNCHANGED <<client, cmd, dev, devs, insts, limit>> /\ pc' = "running"
        /\ pc \in Steps
    BY <1>2 DEF Goto, usbs, CliStays, Steps
  <2> QED BY <1>2, <2>1, MovesReady
<1>3. CASE CliAdd
  <2>1. UNCHANGED <<client, cmd, dev, devs, insts, limit>> /\ pc = "add" /\ pc' = "added"
        /\ pc \in Steps
    BY <1>3 DEF CliAdd, At, Goto, usbs, Steps
  <2> QED BY <2>1, MovesReady
<1>4. CASE CliAdded /\ ~CliFails
  <2>1. UNCHANGED <<client, cmd, dev, devs, insts, limit>> /\ pc = "added" /\ pc' = "options"
        /\ pc \in Steps
    BY <1>4 DEF CliAdded, At, Goto, usbs, CliStays, Steps
  <2> QED BY <2>1, MovesReady
<1>5. CASE CliRun \/ CliFailing
  BY <1>1, <1>5 DEF CliRun, CliFailing
<1> QED BY <1>1, <1>2, <1>3, <1>4, <1>5 DEF CliStart, At

\* A device is chosen only after a scan.
LEMMA CliSelectScans ==
    ASSUME Inv0, CliSelect, dev' # 0
    PROVE  \E drvs : Scanning(drvs)
<1>1. /\ client = "cli" /\ pc = "start" /\ pc' = "add"
      /\ UNCHANGED <<opening, now, drivers, session, loaded>>
  BY DEF CliSelect, At, Goto
<1>2. session = NoSession /\ devs = <<>>
  BY <1>1 DEF Inv0, Listed
<1>3. session'.devs = <<>> /\ pc' \notin Waiting
  BY <1>1, <1>2, SessionsAre DEF Waiting
<1>4. CASE cmd.driver \in Range(drivers) /\ Scan(<<cmd.driver>>)
  <2>1. <<cmd.driver>> \in Seq(Range(drivers))
    BY <1>4
  <2> QED BY <1>1, <1>3, <1>4, <2>1, FirstScan
<1>5. CASE DevList(drivers)
  <2>1. Scan(drivers)
    BY <1>2, <1>5 DEF DevList
  <2> QED BY <1>1, <1>3, <2>1, DriversListed, FirstScan
<1> QED BY <1>4, <1>5 DEF CliSelect

\* What is chosen is as the scan left it.
LEMMA SelectReady ==
    ASSUME Inv0, Prepared, client = "cli", CliSelect
    PROVE  Prepared'
<1>1. /\ pc = "start" /\ pc' = IF dev' = 0 THEN "exit" ELSE "add"
      /\ UNCHANGED <<client, cmd, now, drivers, limit>>
  BY DEF CliSelect, At, Goto
<1>2. CASE dev' = 0
  BY <1>1, <1>2 DEF Prepared, Steps
<1>3. CASE dev' # 0
  <2> DEFINE D == Range(drivers)
  <2>1. limit = 0 /\ devs = <<>> /\ \A d \in D : insts[d] = <<>>
    BY <1>1 DEF Prepared, Inv0, Listed
  <2>2. PICK drvs : Scanning(drvs)
    BY <1>3, CliSelectScans
  <2>3. /\ Typed(D, insts') /\ devs' \in Seq(DevRecs)
        /\ \A d \in D : \A k \in 1 .. Len(insts'[d]) :
               k > Len(insts[d]) => NewSound(usb', now, d, insts'[d][k])
        /\ \A n \in 1 .. Len(devs') : n > Len(devs) => devs'[n] \in NewListed
    BY <2>2, ScanIs DEF Scanning, World
  <2>4. dev' \in 1 .. Len(devs')
    <3>1. dev' \in 0 .. Len(devs')
      BY CliSelectKeeps DEF Inv0, Listed
    <3>2. Len(devs') \in Nat
      BY <2>3
    <3> QED BY <1>3, <3>1, <3>2
  <2>5. PICK e : e = devs'[dev']
    OBVIOUS
  <2>6. e \in DevRecs /\ Listable(e) /\ Fresh(e)
    <3>1. dev' > Len(devs)
      BY <2>1, <2>4
    <3> QED BY <2>3, <2>4, <2>5, <3>1 DEF NewListed
  <2>7. Driver' = e.driver /\ Index' = e.index /\ Probes' = e.probes /\ e.driver \in D
    BY <2>5, <2>6 DEF Driver, Index, Probes, Listable
  <2>8. Number' = IndexIn(insts'[e.driver], e.index) /\ Mine' = insts'[e.driver][Number']
    BY <2>7, IndexIsInstOf DEF Number, Mine, InstOf, IndexIn
  <2>9. ProbesReady("add", cmd, e.probes)
    BY <2>6 DEF ProbesReady, ProbeReady, Fresh
  <2>10. ASSUME Number' # 0 PROVE InstReady("add", cmd, 0, e.probes, e.driver, Mine')
    <3>1. insts'[e.driver] \in Seq(InstRecs)
      BY <2>3, <2>7 DEF Typed
    <3>2. Number' \in 1 .. Len(insts'[e.driver])
      BY <2>8, <2>10, <3>1, IndexListed
    <3>3. Len(insts[e.driver]) = 0
      BY <2>1, <2>7
    <3>4. Number' > Len(insts[e.driver])
      BY <3>1, <3>2, <3>3
    <3>5. NewSound(usb', now, e.driver, Mine')
      BY <2>3, <2>7, <2>8, <3>2, <3>4
    <3> QED BY <3>5 DEF NewSound, InstReady
  <2>11. Ready("add", cmd, 0, e.probes, e.driver, Number', Mine')
    BY <2>9, <2>10 DEF Ready
  <2>12. pc' = "add" /\ limit' = 0 /\ cmd' = cmd /\ client' = client
    BY <1>1, <1>3, <2>1
  <2> QED BY <2>7, <2>11, <2>12 DEF Prepared
<1> QED BY <1>2, <1>3

\* Around the frontend nothing happens to the limits and the probes of an instance.
LimitsKept(a, b) ==
    \A d \in Range(drivers) : \A k \in 1 .. Len(a[d]) :
        b[d][k].samples = a[d][k].samples /\ b[d][k].regs = a[d][k].regs

\* One instance changes, but its limit.
LEMMA OneLimit ==
    ASSUME Inv0, opening.stage # "idle", NEW j \in InstRecs, KeptInst(Opened, j),
           j.samples = Opened.samples, j.regs = Opened.regs,
           insts' = [insts EXCEPT ![opening.drv][opening.inst] = j]
    PROVE  /\ Typed(Range(drivers), insts') /\ Kept(Range(drivers), insts, insts')
           /\ LimitsKept(insts, insts')
<1> DEFINE D == Range(drivers)
<1>1. /\ opening.drv \in D /\ opening.inst \in 1 .. Len(insts[opening.drv])
      /\ Opened = insts[opening.drv][opening.inst]
  BY Running
<1>2. insts \in [D -> Seq(InstRecs)]
  BY SameAsItIs DEF Typed
<1>3. /\ insts' \in [D -> Seq(InstRecs)]
      /\ \A d \in D : Len(insts'[d]) = Len(insts[d])
      /\ insts'[opening.drv][opening.inst] = j
      /\ \A d \in D : \A m \in 1 .. Len(insts[d]) :
             d # opening.drv \/ m # opening.inst => insts'[d][m] = insts[d][m]
  BY <1>1, <1>2, OneChanges
<1>4. ASSUME NEW d \in D, NEW m \in 1 .. Len(insts[d])
      PROVE  /\ KeptInst(insts[d][m], insts'[d][m])
             /\ insts'[d][m].samples = insts[d][m].samples
             /\ insts'[d][m].regs = insts[d][m].regs
  <2>1. CASE d = opening.drv /\ m = opening.inst
    BY <1>1, <1>3, <2>1
  <2>2. CASE ~(d = opening.drv /\ m = opening.inst)
    BY SMTT(30), <1>3, <1>4, <2>2 DEF KeptInst
  <2> QED BY <2>1, <2>2
<1> QED BY <1>3, <1>4 DEF Typed, Kept, LimitsKept

\* What happens around the frontend.
LEMMA EnvironmentLimits ==
    ASSUME Inv0, Environment
    PROVE  \/ UNCHANGED insts
           \/ /\ pc \in Waiting
              /\ Typed(Range(drivers), insts') /\ Kept(Range(drivers), insts, insts')
              /\ LimitsKept(insts, insts')
<1>1. CASE UNCHANGED insts
  BY <1>1
<1>2. CASE Attempt /\ ~UNCHANGED insts
  <2>1. opening.stage # "idle"
    BY <1>2 DEF Attempt
  <2>2. PICK list \in Listings({p \in Devices : Matches(p)}) :
            /\ insts' = [insts EXCEPT ![opening.drv][opening.inst] = OpenDevice(Wanted(list))]
            /\ Wanted(list) # 0
    BY <1>2 DEF Attempt
  <2>3. PICK p : p = Wanted(list)
    OBVIOUS
  <2>4. /\ p \in 1 .. Len(usb) /\ Matches(p) /\ Opened.status # "active"
        /\ Opened.status = "inactive" => usb[p].addr = Opened.addr
    BY <2>1, <2>2, <2>3, WantedIs
  <2>5. OpenDevice(p) \in InstRecs /\ KeptInst(Opened, OpenDevice(p))
    BY <2>1, <2>4, OpenDeviceIs
  <2>6. OpenDevice(p).samples = Opened.samples /\ OpenDevice(p).regs = Opened.regs
    <3>1. Opened \in InstRecs
      BY <2>1, Running
    <3> QED BY <3>1 DEF OpenDevice, InstRecs
  <2> QED BY <2>1, <2>2, <2>3, <2>5, <2>6, Running, OneLimit
<1>3. CASE Claim /\ ~UNCHANGED insts
  <2>1. opening.stage # "idle"
    BY <1>3 DEF Claim
  <2>2. Opened \in InstRecs /\ Opened = insts[opening.drv][opening.inst]
    BY <2>1, Running
  <2>3. opening.drv = "fx2lafw"
        /\ insts' = [insts EXCEPT !["fx2lafw"][opening.inst].samplerate = 20]
    BY <1>3 DEF Claim
  <2> DEFINE j == [Opened EXCEPT !.samplerate = 20]
  <2>4. insts' = [insts EXCEPT ![opening.drv][opening.inst] = j]
    BY SMTT(30), <2>2, <2>3
  <2>5. j \in InstRecs /\ SameInst(Opened, j)
    BY <2>2, OneField
  <2>6. j.samples = Opened.samples /\ j.regs = Opened.regs
    BY <2>2 DEF InstRecs
  <2> HIDE DEF j
  <2> QED BY <2>1, <2>4, <2>5, <2>6, Running, OneLimit DEF SameInst
<1> QED BY <1>1, <1>2, <1>3 DEF Environment, Tick, GiveUp, Leave, Return

\* It changes nothing of what was prepared.
LEMMA EnvironmentReady ==
    ASSUME Inv0, Prepared, Environment
    PROVE  Prepared'
<1>1. UNCHANGED <<client, pc, cmd, limit, dev, devs, drivers>>
  BY DEF Environment, lists, front
<1>2. CASE UNCHANGED insts
  BY <1>1, <1>2 DEF Prepared, Probes, Driver, Index, Number, InstOf, Mine
<1>3. CASE client # "cli" \/ pc \notin Steps
  BY <1>1, <1>3 DEF Prepared
<1>4. CASE /\ pc \in Waiting /\ client = "cli" /\ pc \in Steps
           /\ Typed(Range(drivers), insts') /\ Kept(Range(drivers), insts, insts')
           /\ LimitsKept(insts, insts')
  <2>1. pc = "added"
    BY <1>4 DEF Waiting, Steps
  <2>2. dev # 0
    BY <2>1 DEF Inv0, Listed, Working, Waiting
  <2>3. UNCHANGED <<Driver, Index, Number, Probes>> /\ Mine' = insts'[Driver][Number]
        /\ Number \in 0 .. Len(insts[Driver]) /\ Driver \in Range(drivers)
        /\ insts[Driver] \in Seq(InstRecs)
    BY <1>1, <1>4, <2>2, SameNumber, DevIs DEF Probes
  <2>4. Number # 0 => Mine'.samples = Mine.samples /\ Mine'.regs = Mine.regs
    <3>1. Number # 0 => Number \in 1 .. Len(insts[Driver])
      BY <2>3
    <3> QED BY <1>4, <2>3, <3>1 DEF LimitsKept, Mine
  <2>5. Ready("added", cmd, limit, Probes, Driver, Number, Mine)
    BY <1>4, <2>1 DEF Prepared
  <2>6. Ready("added", cmd, limit, Probes, Driver, Number, Mine')
    BY <2>4, <2>5 DEF Ready, InstReady
  <2> QED BY <1>1, <2>1, <2>3, <2>6 DEF Prepared
<1> QED BY <1>2, <1>3, <1>4, EnvironmentLimits

\* Every step keeps what was prepared.
LEMMA NextReady ==
    ASSUME Inv0, Prepared, \A c \in Commands : Unambiguous(c), [Next]_vars
    PROVE  Prepared'
<1>1. CASE Cli
  <2>1. client = "cli"
    BY <1>1 DEF Cli, CliSelect, CliAdd, CliAdded, CliOptions, CliOption, CliBadOption,
                CliSetThenBad, CliSets, CliFailing, CliProbes, CliTriggers, CliTime,
                CliSamples, CliFrames, CliConfig, CliConfigSpills, CliStart, CliRun, At
  <2> QED BY <1>1, <2>1, SelectReady, StartReady, OptionsReady, ProbesStepReady,
             TriggersReady, TimeReady, SamplesReady DEF Cli
<1>2. CASE Gtk
  <2>1. client = "gtk" /\ client' = client
    BY <1>2 DEF Gtk, GtkStart, GtkDefault, GtkSelect, GtkSelects, GtkSelected, GtkOption,
                GtkProbe, GtkLimit, GtkCapture, GtkRefused, GtkCaptureCrashes, GtkLoad,
                GtkQuit, At, Goto
  <2> QED BY <2>1 DEF Prepared
<1>3. CASE Qt
  <2>1. client = "qt" /\ client' = client
    BY <1>3 DEF Qt, QtScan, QtGet, QtOpened, QtConfigure, QtCaptured, QtQuit, At, Goto
  <2> QED BY <2>1 DEF Prepared
<1>4. CASE Exit
  BY <1>4 DEF Exit, Goto, Prepared, Steps
<1>5. CASE Environment
  BY <1>5, EnvironmentReady
<1>6. CASE UNCHANGED vars
  BY <1>6 DEF vars, usbs, lists, front, Prepared, Probes, Driver, Index, Number, InstOf, Mine
<1> QED BY <1>1, <1>2, <1>3, <1>4, <1>5, <1>6 DEF Next, Over

\* What configure_probes() makes of probes that are as they were asked for.
LEMMA LookedAt ==
    ASSUME NEW drv \in Drivers, NEW c, NEW ps \in Seq(ProbeRecs),
           ~Overlong(drv, "probes", ps),
           \A n \in 1 .. Len(ps) :
               ps[n].enabled = AskedFor(c, n) /\ ps[n].trigger = TriggerFor(c, n)
    PROVE  ProbesAsAsked(drv, Probed(drv, NoProbes, ps), c, DOMAIN ps)
<1>1. /\ DOMAIN ps = 1 .. Len(ps) /\ Enabled(ps) \subseteq DOMAIN ps
      /\ \A n \in DOMAIN ps : n \in Enabled(ps) <=> AskedFor(c, n)
  BY DEF Enabled
<1>2. \A n \in DOMAIN ps :
          AskedTrigger(c, n) = IF n \in Enabled(ps) THEN ps[n].trigger ELSE NoTrigger
  BY <1>1 DEF AskedTrigger, TriggerFor
<1>3. CASE drv = "fx2lafw"
  <2> DEFINE r == FxProbes(NoProbes, ps)
  <2>1. TooLong(ps) = {}
    BY <1>3 DEF Overlong
  <2>2. Reached(ps) = Enabled(ps)
    BY <2>1 DEF Reached
  <2>3. Probed(drv, NoProbes, ps) = r
    BY <1>3, <2>1 DEF Probed
  <2>4. r.mask = MaskOf(ps) /\ r.value = HighOf(ps) /\ r.stage = StageOf(ps)
        /\ r.wide = Wide(ps)
    <3>1. Wide(ps) \in BOOLEAN
      BY DEF Wide
    <3>2. (FALSE \/ Wide(ps)) = Wide(ps)
      BY <3>1
    <3> QED BY ZenonT(30), <3>2 DEF FxProbes, NoProbes
  <2> HIDE DEF r
  <2>5. ASSUME NEW s \in 1 .. MaxStages, NEW n \in DOMAIN ps
        PROVE  LET letters == Letters(AskedTrigger(c, n)) IN
               /\ n \in r.mask[s] <=> s <= Len(letters)
               /\ n \in r.value[s] <=> s <= Len(letters) /\ letters[s] = "1"
    <3>1. n \in r.mask[s] <=> n \in Enabled(ps) /\ s <= Len(Letters(ps[n].trigger))
      BY <1>1, <2>2, <2>4 DEF MaskOf
    <3>2. n \in r.value[s] <=> n \in r.mask[s] /\ Letters(ps[n].trigger)[s] = "1"
      BY <2>4 DEF HighOf
    <3>3. CASE n \in Enabled(ps)
      <4>1. AskedTrigger(c, n) = ps[n].trigger
        BY <1>2, <3>3
      <4> QED BY <3>1, <3>2, <3>3, <4>1
    <3>4. CASE n \notin Enabled(ps)
      <4>1. Letters(AskedTrigger(c, n)) = <<>>
        BY <1>2, <3>4 DEF Letters
      <4>2. ~(s <= Len(Letters(AskedTrigger(c, n))))
        BY <4>1 DEF MaxStages
      <4> QED BY <3>1, <3>2, <3>4, <4>2
    <3> QED BY <3>3, <3>4
  <2>6. r.stage = IF \E n \in DOMAIN ps : AskedTrigger(c, n) # NoTrigger THEN First ELSE Fired
    <3>1. (\E n \in DOMAIN ps : AskedTrigger(c, n) # NoTrigger)
              <=> \E n \in Enabled(ps) : ps[n].trigger # NoTrigger
      BY <1>1, <1>2
    <3> QED BY <2>4, <3>1 DEF StageOf
  <2>7. r.wide <=> \E n \in DOMAIN ps : n > ByteProbes /\ AskedFor(c, n)
    BY ZenonT(30), <1>1, <2>2, <2>4 DEF Wide
  <2>8. TriggersAsAsked(r, c, DOMAIN ps)
    BY <2>5, <2>6, <2>7 DEF TriggersAsAsked
  <2> QED BY <1>3, <2>3, <2>8 DEF ProbesAsAsked
<1>4. CASE drv = "hantek"
  <2>1. Probed(drv, NoProbes, ps).channels = Enabled(ps) \cap {1, 2}
    BY <1>4 DEF Probed, NoProbes
  <2>2. Enabled(ps) \cap {1, 2} = {n \in DOMAIN ps \cap {1, 2} : AskedFor(c, n)}
    BY <1>1
  <2> QED BY <1>4, <2>1, <2>2 DEF ProbesAsAsked
<1>5. CASE drv = "demo"
  BY <1>5 DEF ProbesAsAsked
<1> QED BY <1>3, <1>4, <1>5 DEF Drivers, Fx

\* A capture of sigrok-cli begins with the trigger, the width of the samples and
\* the channels, the samplerate and the limits that the command line asks for,
\* although they go to the device one after the other, through the device list
\* and the driver; where a trigger names a probe, the names have to tell the
\* probes apart.
THEOREM StartedAsAsked ==
    ASSUME \A c \in Commands : Unambiguous(c)
    PROVE  Spec => []StartsAsAsked
<1>1. Init => Inv0 /\ Prepared
  <2>1. Init => Prepared
    BY DEF Init, Prepared, Steps
  <2> QED BY <2>1, InitHolds
<1>2. Inv0 /\ Prepared /\ [Next]_vars => (Inv0 /\ Prepared)'
  BY NextKeeps, NextReady
<1>3. ASSUME Inv0, Prepared PROVE StartsAsAsked
  <2> SUFFICES ASSUME client = "cli", pc = "running" PROVE StartsAsAsked
    BY ZenonT(30) DEF StartsAsAsked
  <2>1. Ready("running", cmd, limit, Probes, Driver, Number, Mine)
    BY <1>3 DEF Prepared, Steps
  <2>2. InstReady("running", cmd, limit, Probes, Driver, Mine)
    BY <2>1 DEF Ready
  <2>3. Probes \in Seq(ProbeRecs) /\ Driver \in Drivers
    <3>1. dev # 0
      BY <1>3 DEF Inv0, Listed, Working
    <3> QED BY <1>3, <3>1, DevIs
  <2>4. \A n \in 1 .. Len(Probes) :
            Probes[n].enabled = AskedFor(cmd, n) /\ Probes[n].trigger = TriggerFor(cmd, n)
    BY <2>1, <2>3 DEF Ready, ProbesReady, ProbeReady
  <2>5. Mine.regs = Probed(Driver, NoProbes, Probes) /\ ~Overlong(Driver, "probes", Probes)
    BY <2>2 DEF InstReady
  <2>6. ProbesAsAsked(Driver, Mine.regs, cmd, DOMAIN Probes)
    BY <2>3, <2>4, <2>5, LookedAt
  <2>7. /\ cmd.samplerate # 0 => Mine.samplerate = cmd.samplerate
        /\ Mine.samples = limit
        /\ cmd.samples # <<>> => limit = Size(cmd.samples)
        /\ cmd.time # <<>> /\ cmd.samples = <<>> => TimeAsked(cmd, Mine)
    BY <2>2 DEF InstReady
  <2> QED BY ZenonT(30), <2>6, <2>7 DEF StartsAsAsked, TimeAsked, Mine, Number
<1> QED BY <1>1, <1>2, <1>3, PTL DEF Spec
=============================================================================
