--------------------------- MODULE DecodingProofs ---------------------------
(***************************************************************************)
(* Proofs about the protocol decoders of Decoding.tla, for every set of    *)
(* decoder classes, every command line, every signal and every packet      *)
(* size: the instances form the stack that was asked for, and every sample *)
(* and every put() reaches those it is meant for.                          *)
(***************************************************************************)
EXTENDS Decoding, SequenceTheorems, FiniteSetTheorems, WellFoundedInduction, TLAPS

-----------------------------------------------------------------------------
(* Sequences *)

\* Of some numbers one is the least.
LEMMA Least ==
    ASSUME NEW I \in SUBSET Nat, I # {}
    PROVE  Min(I) \in I /\ \A j \in I : Min(I) <= j
<1> DEFINE R == OpToRel(<, Nat)
<1>1. IsWellFoundedOn(R, Nat)
  BY NatLessThanWellFounded
<1> HIDE DEF R
<1>2. PICK x \in I : \A y \in I : ~ (<<y, x>> \in R)
  BY <1>1, WFMin
<1>3. \A y \in Nat : y < x => <<y, x>> \in R
  BY <1>2 DEF R, OpToRel
<1>4. \A y \in I : y \in Nat /\ ~(y < x)
  BY <1>2, <1>3
<1>5. x \in Nat
  OBVIOUS
<1>6. \A y \in I : x <= y
  BY ONLY <1>4, <1>5
<1> QED BY <1>6 DEF Min

\* The first element there is of those looked for.
LEMMA FirstOf ==
    ASSUME NEW n \in Nat, NEW I \in SUBSET (1 .. n)
    PROVE  /\ (IF I # {} THEN Min(I) ELSE 0) \in 0 .. n
           /\ I # {} => Min(I) \in I
<1>1. I \in SUBSET Nat
  OBVIOUS
<1> DEFINE m == Min(I)
<1>2. I # {} => m \in I
  BY <1>1, Least
<1> HIDE DEF m
<1>3. \A x \in I : x \in 0 .. n
  OBVIOUS
<1>4. 0 \in 0 .. n
  OBVIOUS
<1> QED BY ONLY <1>2, <1>3, <1>4, Zenon DEF m

\* What a sequence holds.
LEMMA Members ==
    ASSUME NEW S, NEW s \in Seq(S)
    PROVE  /\ ToSet(s) \subseteq S
           /\ \A i \in 1 .. Len(s) : s[i] \in ToSet(s)
           /\ \A x \in ToSet(s) : \E i \in 1 .. Len(s) : s[i] = x
BY DEF ToSet

\* No two elements are the same.
Distinctly(s) == \A i, j \in 1 .. Len(s) : s[i] = s[j] => i = j

\* An element is taken out, of those that are all different.
LEMMA TakenOut ==
    ASSUME NEW S, NEW s \in Seq(S), NEW e \in ToSet(s), Distinctly(s)
    PROVE  /\ RemoveFirst(s, e) \in Seq(S)
           /\ Distinctly(RemoveFirst(s, e))
           /\ ToSet(RemoveFirst(s, e)) = ToSet(s) \ {e}
<1> DEFINE I == {i \in 1 .. Len(s) : s[i] = e}
           m == Min(I)
           a == SubSeq(s, 1, m - 1)
           b == SubSeq(s, m + 1, Len(s))
           r == a \o b
<1>1. \E i \in 1 .. Len(s) : s[i] = e
  BY DEF ToSet
<1>2. m \in 1 .. Len(s) /\ s[m] = e /\ I # {}
  BY <1>1, FirstOf
<1>3. RemoveFirst(s, e) = r
  BY <1>1, <1>2 DEF RemoveFirst, RemoveAt, SelectInSeq
<1> HIDE DEF m
<1>4. /\ a \in Seq(S) /\ Len(a) = m - 1
      /\ \A i \in 1 .. m - 1 : a[i] = s[i]
  BY <1>2
<1>5. /\ b \in Seq(S) /\ Len(b) = Len(s) - m
      /\ \A i \in 1 .. Len(s) - m : b[i] = s[m + i]
  BY <1>2
<1> HIDE DEF a, b, I
<1>6. /\ r \in Seq(S) /\ Len(r) = Len(s) - 1
      /\ \A i \in 1 .. Len(s) - 1 : r[i] = IF i < m THEN s[i] ELSE s[i + 1]
  <2>1. /\ r \in Seq(S) /\ Len(r) = Len(a) + Len(b)
        /\ \A i \in 1 .. Len(a) + Len(b) :
              r[i] = IF i <= Len(a) THEN a[i] ELSE b[i - Len(a)]
    BY <1>4, <1>5, ConcatProperties
  <2>2. Len(s) \in Nat
    OBVIOUS
  <2>3. Len(r) = Len(s) - 1
    BY <2>1, <2>2, <1>2, <1>4, <1>5
  <2>4. ASSUME NEW i \in 1 .. Len(s) - 1
        PROVE  r[i] = IF i < m THEN s[i] ELSE s[i + 1]
    <3>1. CASE i < m
      BY <3>1, <2>1, <2>2, <1>2, <1>4, <1>5
    <3>2. CASE ~(i < m)
      <4>1. i - Len(a) \in 1 .. Len(s) - m /\ r[i] = b[i - Len(a)]
        BY <3>2, <2>1, <2>2, <1>2, <1>4, <1>5
      <4>2. m + (i - Len(a)) = i + 1
        BY <2>2, <1>2, <1>4
      <4> QED BY <3>2, <4>1, <4>2, <1>5
    <3> QED BY <3>1, <3>2
  <2> QED BY <2>1, <2>3, <2>4
<1> HIDE DEF r
<1>7. Distinctly(r)
  BY SMTT(30), <1>2, <1>6 DEF Distinctly
<1>8. ASSUME NEW x \in ToSet(r) PROVE x \in ToSet(s) \ {e}
  <2>1. PICK i \in 1 .. Len(s) - 1 : r[i] = x
    BY <1>6, <1>8 DEF ToSet
  <2>2. PICK j \in 1 .. Len(s) : j # m /\ s[j] = x
    BY <2>1, <1>2, <1>6
  <2> QED BY <2>2, <1>2 DEF Distinctly, ToSet
<1>9. ASSUME NEW x \in ToSet(s) \ {e} PROVE x \in ToSet(r)
  <2>1. PICK j \in 1 .. Len(s) : s[j] = x
    BY DEF ToSet
  <2>2. j # m
    BY <2>1, <1>2
  <2>3. CASE j < m
    BY <2>1, <2>3, <1>2, <1>6 DEF ToSet
  <2>4. CASE j > m
    <3>1. j - 1 \in 1 .. Len(s) - 1 /\ r[j - 1] = s[j]
      BY <2>4, <1>2, <1>6
    <3> QED BY <3>1, <2>1, <1>6 DEF ToSet
  <2> QED BY <2>2, <2>3, <2>4, <1>2
<1> QED BY <1>3, <1>6, <1>7, <1>8, <1>9

\* An element is put behind.
LEMMA PutBehind ==
    ASSUME NEW S, NEW s \in Seq(S), NEW e \in S, Distinctly(s), e \notin ToSet(s)
    PROVE  /\ Append(s, e) \in Seq(S) /\ Distinctly(Append(s, e))
           /\ ToSet(Append(s, e)) = ToSet(s) \cup {e}
<1> DEFINE r == Append(s, e)
<1>1. /\ r \in Seq(S) /\ Len(r) = Len(s) + 1
      /\ \A i \in 1 .. Len(s) : r[i] = s[i]
      /\ r[Len(s) + 1] = e
  BY AppendProperties
<1> HIDE DEF r
<1>2. \A i \in 1 .. Len(r) : i \in 1 .. Len(s) \/ i = Len(s) + 1
  BY <1>1
<1>3. Distinctly(r)
  BY <1>1, <1>2 DEF Distinctly, ToSet
<1>4. ToSet(r) = ToSet(s) \cup {e}
  BY <1>1, <1>2 DEF ToSet
<1> QED BY <1>1, <1>3, <1>4 DEF r

-----------------------------------------------------------------------------
(* The invariant *)

\* What an instance is made of.
MadeOf(p) == <<p.class, InstId(p.class, p.args), ProbeMap(p.class, p.args)>>

\* All that instances may be made of.
Parts == {MadeOf(p) : p \in UNION {ToSet(c.pds) : c \in Commands}}

\* The instances (struct srd_decoder_inst).
InstRecs ==
    [decoder : {m[1] : m \in Parts}, inst_id : {m[2] : m \in Parts},
     dec_probemap : {m[3] : m \in Parts}, next_di : Seq(Nat)]

\* Instances are made from the list of decoders, one after the other.
AsListed ==
    /\ command \in Commands
    /\ token \in Nat \ {0}
    /\ inst \in Seq(InstRecs) /\ Len(inst) <= Len(command.pds)
    /\ \A h \in Insts :
          <<inst[h].decoder, inst[h].inst_id, inst[h].dec_probemap>>
          = MadeOf(command.pds[h])
    /\ pc = "register" => Len(inst) = token - 1
    /\ pc = "stack" => from \in Insts
    /\ pd_list \in Seq(DOMAIN Classes)

\* They form trees: each is at the bottom or on top of one other, once.
Trees ==
    /\ di_list \in Seq(Nat) /\ Distinctly(di_list)
    /\ ToSet(di_list) \subseteq Insts
    /\ \A h \in Insts : /\ Distinctly(inst[h].next_di)
                        /\ OnTop[h] \subseteq Insts
                        /\ OnTop[h] \cap ToSet(di_list) = {}
                        /\ \A g \in Insts : g # h => OnTop[g] \cap OnTop[h] = {}
    /\ pc # "exited" => \A k \in Insts : k \in ToSet(di_list)
                                     \/ \E h \in Insts : k \in OnTop[h]

\* The decoders have been set up.
Later == pc \in {"session", "send", "crashed", "exited"}

\* Nothing is fed to them before the session.
NothingYet ==
    ~Later => /\ sent = 0 /\ started = {} /\ shown = {} /\ freed = {}
              /\ \A h \in Insts : /\ seen[h] = <<>>
                                  /\ put[h] = 0 /\ got[h] = 0

\* A sample as a decoder sees it.
Sights == [num : Nat, pins : Seq({0, 1, 42})]

\* A call of decode().
Frames == [di : Nat, logic : BOOLEAN, itercnt : Nat, puts : Nat,
           targets : Seq(Nat)]

\* The calls of decode() go up one tree, from the instance at its bottom.
Fits(f) ==
    /\ f.di \in Insts
    /\ f.itercnt <= Len(chunk) /\ f.puts <= MaxPuts
    /\ Distinctly(f.targets) /\ ToSet(f.targets) \subseteq OnTop[f.di]

CallsGoUp ==
    /\ calls \in Seq(Frames)
    /\ \A i \in 1 .. Len(calls) :
          /\ Fits(calls[i])
          /\ calls[i].logic <=> i = 1
          /\ i = 1 => calls[i].di \in ToSet(di_list) \ ToSet(rest)
          /\ i > 1 => calls[i].di \in OnTop[calls[i - 1].di]
    /\ \A i, j \in 1 .. Len(calls) : calls[i].di = calls[j].di => i = j

\* The samples on their way.
Feeding ==
    /\ started \subseteq Insts /\ shown \subseteq Insts /\ freed \subseteq Insts
    /\ seen \in Seq(Seq(Sights)) /\ Len(seen) = Len(inst)
    /\ put \in Seq(Nat) /\ Len(put) = Len(inst)
    /\ got \in Seq(Nat) /\ Len(got) = Len(inst)
    /\ sent \in Nat /\ sent + Len(chunk) <= Len(Signal)
    /\ chunk \in Seq(SUBSET Nat) /\ Len(chunk) <= MaxChunk
    /\ rest \in Seq(Nat) /\ Distinctly(rest)
    /\ ToSet(rest) \subseteq ToSet(di_list)
    /\ pc # "send" => calls = <<>>
    /\ pc \notin {"send", "crashed"} => chunk = <<>> /\ rest = <<>>
    /\ raised \in BOOLEAN

\* All that an instance has put was given to those on top of it, but for
\* those its put() has still to call.
Pending(h, g) ==
    \E i \in 1 .. Len(calls) : calls[i].di = h /\ g \in ToSet(calls[i].targets)

AllGiven ==
    \A h \in Insts : \A g \in OnTop[h] :
        put[h] = got[g] + IF Pending(h, g) THEN 1 ELSE 0

\* How many samples each has seen, while a packet is being sent as well.
SeenBy(h) ==
    IF h \notin ToSet(di_list) THEN 0
    ELSE IF h \in ToSet(rest) THEN sent
    ELSE IF calls # <<>> /\ calls[1].di = h THEN sent + calls[1].itercnt
    ELSE sent + Len(chunk)

AllSeen ==
    ~raised /\ pc # "exited" =>
        \A h \in Insts : /\ Len(seen[h]) = SeenBy(h)
                        /\ \A i \in DOMAIN seen[h] : seen[h][i].num = i - 1

\* The packet has of every probe what the device measured.
AsMeasured ==
    \A i \in 1 .. Len(chunk) : \A k \in 0 .. Len(Enabled) - 1 :
        Enabled[k + 1] < IntBits /\ Len(Enabled) <= IntBits =>
            (k \in chunk[i] <=> Enabled[k + 1] - 1 \in Signal[sent + i])

\* The stack follows the list, when it names every decoder once.
InStack(j, g, h) == StackOf[j] = inst[g].inst_id /\ StackOf[j + 1] = inst[h].inst_id

\* One instance is on top of another only where the list says so.
Stacked ==
    /\ pc = "register" => \A h \in Insts : OnTop[h] = {}
    /\ pc \notin {"register", "exit"} =>
          Len(inst) = Len(command.pds) /\ token >= 2
    /\ pc = "stack" => /\ token <= Len(StackOf) + 1
                       /\ inst[from].inst_id = StackOf[token - 1]
    /\ \A g \in Insts : \A h \in OnTop[g] :
          \E j \in 1 .. Len(StackOf) - 1 : InStack(j, g, h)

\* Without a list of its own the stack is that of all decoders.
Straight ==
    Distinct /\ command.stack = <<>> /\ pc \notin {"register", "exit"} =>
        /\ \A h \in Insts \ {1} : h < token => pc = "exited" \/ h \in OnTop[h - 1]
        /\ pc # "stack" => token > Len(command.pds)

\* Only the topmost decoder shows its annotations.
Showing ==
    Distinct /\ command.stack = <<>> /\ command.annotations = <<>> =>
        /\ \A v \in visible : \E h \in Insts :
              /\ v[1] = inst[h].inst_id
              /\ pc \notin {"register", "exit"} => h >= token - 1
        /\ shown \subseteq {Len(inst)}

\* The inductive invariant.
IInv ==
    /\ AsListed /\ Trees /\ NothingYet /\ CallsGoUp /\ Feeding /\ AllGiven
    /\ AllSeen /\ AsMeasured /\ PinsAreProbes /\ Stacked /\ Straight /\ Showing
    /\ StackFreed

-----------------------------------------------------------------------------
(* The words *)

\* Dividing upwards leaves room for all.
LEMMA DivUp ==
    ASSUME NEW a \in Nat, NEW b \in Nat \ {0}
    PROVE  /\ ((a + b - 1) \div b) \in Nat
           /\ a <= ((a + b - 1) \div b) * b
<1> DEFINE q == (a + b - 1) \div b
<1>1. q \in Int /\ b * q <= a + b - 1 /\ a + b - 1 < b * q + b
  <2>1. ASSUME NEW x \in Int
        PROVE  /\ x \div b \in Int /\ b * (x \div b) <= x
               /\ x < b * (x \div b) + b
    BY SMTT(20)
  <2>2. a + b - 1 \in Int
    OBVIOUS
  <2> QED BY ONLY <2>1, <2>2, Zenon
<1>2. q \in Nat
  <2>1. CASE q < 0
    <3>1. -q - 1 \in Nat /\ b * (-q - 1) >= 0
      BY <1>1, <2>1
    <3>2. b * (-q - 1) = -(b * q) - b
      BY <1>1
    <3> QED BY <1>1, <3>1, <3>2
  <2> QED BY <1>1, <2>1
<1>3. b * q = q * b /\ q * b \in Int
  BY <1>1
<1> HIDE DEF q
<1>4. a <= q * b
  BY <1>1, <1>3
<1> QED BY <1>2, <1>4 DEF q

\* The enabled probes go up, so that none is numbered below its place.
LEMMA EnabledUp ==
    /\ Enabled \in Seq(Nat)
    /\ \A k \in 1 .. Len(Enabled) :
          /\ Enabled[k] \in 1 .. InUnitsize * ByteBits
          /\ k <= Enabled[k]
<1> DEFINE N == InUnitsize * ByteBits
           I == {k \in 1 .. Len(Enabled) : Enabled[k] < k}
           m == Min(I)
<1>1. Enabled \in Seq(1 .. N)
  BY DecodingAssumption
<1>2. N \in Nat
  BY DecodingAssumption DEF FilterAssumption
<1> HIDE DEF N
<1>3. \A k \in 1 .. Len(Enabled) : Enabled[k] \in 1 .. N
  BY <1>1, Members, Zenon
<1>4. \A i, j \in 1 .. Len(Enabled) : i < j => Enabled[i] < Enabled[j]
  <2>1. DOMAIN Enabled = 1 .. Len(Enabled)
    BY <1>1
  <2> QED BY <2>1, DecodingAssumption, Zenon
<1>5. CASE I # {}
  <2>1. m \in I /\ \A j \in I : m <= j
    <3>1. I \in SUBSET Nat
      OBVIOUS
    <3> HIDE DEF I
    <3> QED BY <1>5, <3>1, Least
  <2> HIDE DEF m
  <2>2. m > 1
    BY <2>1, <1>3
  <2>3. m - 1 \in 1 .. Len(Enabled) /\ m - 1 \notin I
    BY <2>1, <2>2
  <2> QED BY <2>1, <2>3, <1>3, <1>4
<1>6. CASE I = {}
  BY <1>1, <1>3, <1>6 DEF N
<1> QED BY <1>5, <1>6

\* When all probes are enabled, each is in its own place.
LEMMA EnabledAll ==
    ASSUME Len(Enabled) = InUnitsize * ByteBits
    PROVE  \A k \in 1 .. Len(Enabled) : Enabled[k] = k
<1> DEFINE n == Len(Enabled)
           I == {j \in 0 .. n - 1 : Enabled[n - j] > n - j}
           m == Min(I)
<1>1. n \in Nat /\ \A k \in 1 .. n : Enabled[k] \in 1 .. n /\ k <= Enabled[k]
  BY EnabledUp
<1>2. \A i, j \in 1 .. n : i < j => Enabled[i] < Enabled[j]
  <2>1. DOMAIN Enabled = 1 .. Len(Enabled)
    BY EnabledUp
  <2> QED BY <2>1, DecodingAssumption, Zenon
<1> HIDE DEF n
<1>3. CASE I # {}
  <2>1. m \in I /\ \A j \in I : m <= j
    <3>1. I \in SUBSET Nat
      BY <1>1
    <3> HIDE DEF I
    <3> QED BY <1>3, <3>1, Least
  <2> HIDE DEF m
  <2>2. m > 0
    BY <2>1, <1>1
  <2>3. m - 1 \in 0 .. n - 1 /\ m - 1 \notin I
    <3>1. m \in 0 .. n - 1
      BY <2>1
    <3>2. m - 1 \in 0 .. n - 1 /\ ~(m <= m - 1)
      BY <3>1, <2>2, <1>1
    <3> HIDE DEF I
    <3> QED BY <3>2, <2>1
  <2>4. n - m \in 1 .. n /\ n - (m - 1) \in 1 .. n /\ n - (m - 1) = (n - m) + 1
    BY <2>1, <2>2, <1>1
  <2> QED BY <2>1, <2>3, <2>4, <1>1, <1>2
<1>4. CASE I = {}
  <2>1. \A k \in 1 .. n : n - k \in 0 .. n - 1 /\ n - (n - k) = k
    BY <1>1
  <2>2. \A k \in 1 .. n : ~(Enabled[k] > k)
    BY <1>4, <2>1
  <2> QED BY <2>2, <1>1 DEF n
<1> QED BY <1>3, <1>4

\* A shift by less than the width is taken as it is.
LEMMA Unshifted ==
    ASSUME NEW n \in Nat \ {0}, NEW k \in 0 .. n - 1
    PROVE  k % n = k
<1>1. k \in Int /\ n \in Int /\ n > 0 /\ 0 <= k /\ k < n
  OBVIOUS
<1> QED BY ONLY <1>1, Z3

\* Below the sign bit a mask is the one bit.
LEMMA OneBit ==
    ASSUME NEW k \in Nat, k < IntBits - 1, NEW word
    PROVE  Mask(k) = {k} /\ (Tests(word, k) <=> k \in word)
<1>1. IntBits \in Nat \ {0}
  BY DecodingAssumption DEF FilterAssumption
<1>2. Mask(k) = {k}
  <2>1. k \in 0 .. IntBits - 1 /\ k # IntBits - 1
    BY <1>1
  <2>2. k % IntBits = k
    BY ONLY <1>1, <2>1, Unshifted
  <2> QED BY <2>1, <2>2, Zenon DEF Mask
<1> QED BY <1>2 DEF Tests

\* The packed sample has room for every enabled probe.
LEMMA OutUnitsizeFits ==
    OutUnitsize \in Nat /\ Len(Enabled) <= OutUnitsize * ByteBits
<1>1. Len(Enabled) \in Nat /\ ByteBits \in Nat \ {0}
  BY DecodingAssumption, EnabledUp DEF FilterAssumption
<1> QED BY <1>1, DivUp DEF OutUnitsize

\* Packing keeps what was measured.
LEMMA PackedAsMeasured ==
    ASSUME NEW s \in SUBSET (0 .. InUnitsize * ByteBits - 1),
           NEW g \in Garbage(InUnitsize),
           NEW k \in 0 .. Len(Enabled) - 1, Enabled[k + 1] < IntBits, Len(Enabled) <= IntBits
    PROVE  k \in Packed(s \cup g, Enabled, OutUnitsize) <=> Enabled[k + 1] - 1 \in s
<1> DEFINE e == Enabled[k + 1] - 1
           w == s \cup g
           N == InUnitsize * ByteBits
           M == OutUnitsize * ByteBits
<1>1. Len(Enabled) \in Nat /\ DOMAIN Enabled = 1 .. Len(Enabled)
  BY EnabledUp
<1>2. k \in Nat /\ k + 1 \in 1 .. Len(Enabled)
  BY <1>1
<1>3. e \in Nat /\ e < N /\ k <= e /\ e < IntBits - 1 /\ k < IntBits - 1
  <2>1. Enabled[k + 1] \in 1 .. N /\ k + 1 <= Enabled[k + 1]
    BY <1>2, EnabledUp
  <2>2. N \in Nat /\ IntBits \in Nat
    BY DecodingAssumption DEF FilterAssumption
  <2> HIDE DEF N
  <2> QED BY <2>1, <2>2, <1>2
<1>4. Tests(w, e) <=> e \in s
  <2>1. Tests(w, e) <=> e \in w
    BY <1>3, OneBit
  <2>2. e \notin g
    <3> N \in Nat
      BY DecodingAssumption DEF FilterAssumption
    <3>1. \A x \in g : x >= N
      BY DecodingAssumption DEF Garbage, FilterAssumption
    <3> HIDE DEF N, e
    <3> QED BY <3>1, <1>3
  <2> QED BY <2>1, <2>2
<1>5. k \in 0 .. M - 1
  <2>1. M \in Nat /\ Len(Enabled) <= M
    BY OutUnitsizeFits, DecodingAssumption DEF FilterAssumption
  <2> HIDE DEF M
  <2> QED BY <2>1, <1>1
<1>6. Mask(k) = {k}
  BY <1>2, <1>3, OneBit
<1>7. ASSUME NEW b \in 1 .. Len(Enabled), k \in Mask(b - 1) PROVE b = k + 1
  <2>1. IntBits \in Nat \ {0} /\ WordBits \in Nat /\ b \in Nat
    BY <1>1, DecodingAssumption DEF FilterAssumption
  <2>2. b - 1 \in 0 .. IntBits - 1
    BY <2>1, <1>1
  <2>3. (b - 1) % IntBits = b - 1
    BY ONLY <2>1, <2>2, Unshifted
  <2>4. Mask(b - 1) = IF b - 1 = IntBits - 1 THEN b - 1 .. WordBits - 1 ELSE {b - 1}
    BY <2>3, Zenon DEF Mask
  <2> QED BY <2>1, <2>2, <2>4, <1>2, <1>3, <1>7
<1>8. (k + 1) - 1 = k
  BY <1>2
<1> HIDE DEF e, w, M
<1>9. k \in Packed(w, Enabled, OutUnitsize)
      <=> \E b \in 1 .. Len(Enabled) : Tests(w, Enabled[b] - 1) /\ k \in Mask(b - 1)
  BY <1>1, <1>5 DEF Packed, M
<1>10. (\E b \in 1 .. Len(Enabled) : Tests(w, Enabled[b] - 1) /\ k \in Mask(b - 1))
       <=> Tests(w, Enabled[k + 1] - 1)
  BY <1>2, <1>6, <1>7, <1>8
<1> QED BY <1>4, <1>9, <1>10 DEF e, w

\* As it is sent, and as it is read.
LEMMA FilterAsMeasured ==
    ASSUME NEW data \in Seq(SUBSET (0 .. InUnitsize * ByteBits - 1)),
           NEW g \in Garbage(InUnitsize)
    PROVE  LET c == FilterProbes(InUnitsize, OutUnitsize, Enabled, data, g)
           IN /\ c \in Seq(SUBSET Nat) /\ Len(c) = Len(data)
              /\ \A i \in 1 .. Len(data) : \A k \in 0 .. Len(Enabled) - 1 :
                    Enabled[k + 1] < IntBits /\ Len(Enabled) <= IntBits =>
                        (k \in c[i] <=> Enabled[k + 1] - 1 \in data[i])
<1> DEFINE c == FilterProbes(InUnitsize, OutUnitsize, Enabled, data, g)
           N == InUnitsize * ByteBits
<1>1. CASE Len(Enabled) = N
  <2>1. c = data
    BY <1>1 DEF FilterProbes
  <2>2. ASSUME NEW k \in 0 .. Len(Enabled) - 1 PROVE Enabled[k + 1] - 1 = k
    <3>1. Len(Enabled) \in Nat
      BY EnabledUp
    <3>2. k + 1 \in 1 .. Len(Enabled) /\ (k + 1) - 1 = k
      BY <3>1
    <3>3. Enabled[k + 1] = k + 1
      BY <1>1, <3>2, EnabledAll
    <3> QED BY <3>2, <3>3
  <2>3. data \in Seq(SUBSET Nat)
    <3>1. \A i \in 1 .. Len(data) : data[i] \in SUBSET Nat
      <4>1. SUBSET (0 .. N - 1) \subseteq SUBSET Nat
        OBVIOUS
      <4> QED BY <4>1
    <3> QED BY <3>1, SeqDef
  <2> HIDE DEF c
  <2> QED BY <2>1, <2>2, <2>3 DEF c
<1>2. CASE Len(Enabled) # N
  <2>1. c = [i \in 1 .. Len(data) |-> Packed(data[i] \cup g, Enabled, OutUnitsize)]
    <3>1. DOMAIN data = 1 .. Len(data)
      OBVIOUS
    <3> HIDE DEF N
    <3> QED BY ONLY <1>2, <3>1, Zenon DEF FilterProbes, N
  <2>2. \A w : Packed(w, Enabled, OutUnitsize) \in SUBSET Nat
    BY DEF Packed
  <2>3. c \in Seq(SUBSET Nat) /\ Len(c) = Len(data)
    BY <2>1, <2>2
  <2>4. \A i \in 1 .. Len(data) : data[i] \in SUBSET (0 .. N - 1)
    OBVIOUS
  <2>5. ASSUME NEW i \in 1 .. Len(data), NEW k \in 0 .. Len(Enabled) - 1,
               Enabled[k + 1] < IntBits, Len(Enabled) <= IntBits
        PROVE  k \in c[i] <=> Enabled[k + 1] - 1 \in data[i]
    <3>1. c[i] = Packed(data[i] \cup g, Enabled, OutUnitsize)
      BY <2>1
    <3> HIDE DEF c
    <3>2. data[i] \in SUBSET (0 .. N - 1)
      BY <2>4
    <3>3. k \in Packed(data[i] \cup g, Enabled, OutUnitsize)
          <=> Enabled[k + 1] - 1 \in data[i]
      BY <2>5, <3>2, PackedAsMeasured
    <3> QED BY <3>1, <3>3
  <2> HIDE DEF c
  <2> QED BY <2>3, <2>5 DEF c
<1> QED BY <1>1, <1>2

\* The bits put around a sample do not change what a probe's test finds.
LEMMA TestedAsMeasured ==
    ASSUME NEW word, NEW g \in Garbage(OutUnitsize),
           NEW k \in 0 .. Len(Enabled) - 1, Enabled[k + 1] < IntBits, Len(Enabled) <= IntBits
    PROVE  Tests(word \cup g, k) <=> k \in word
<1>1. Len(Enabled) \in Nat
  BY EnabledUp
<1>2. k \in Nat /\ k + 1 \in 1 .. Len(Enabled)
  BY <1>1
<1>3. k < IntBits - 1
  <2>1. Enabled[k + 1] \in 1 .. InUnitsize * ByteBits /\ k + 1 <= Enabled[k + 1]
    BY <1>2, EnabledUp
  <2>2. Enabled[k + 1] \in Nat /\ IntBits \in Nat
    BY <2>1, DecodingAssumption DEF FilterAssumption
  <2> QED BY <2>1, <2>2, <1>2
<1>4. k \notin g
  <2> DEFINE M == OutUnitsize * ByteBits
  <2>1. M \in Nat /\ Len(Enabled) <= M
    BY OutUnitsizeFits, DecodingAssumption DEF FilterAssumption
  <2>2. \A x \in g : x >= M
    BY <2>1, DecodingAssumption DEF Garbage, FilterAssumption
  <2> HIDE DEF M
  <2> QED BY <1>1, <2>1, <2>2
<1>5. Tests(word \cup g, k) <=> k \in word \cup g
  BY <1>2, <1>3, OneBit
<1> QED BY <1>4, <1>5

\* The instance found is at the bottom, and has the id.
LEMMA FoundById ==
    ASSUME NEW id, di_list \in Seq(Nat)
    PROVE  \/ FindById(id) = 0
           \/ FindById(id) \in ToSet(di_list) /\ inst[FindById(id)].inst_id = id
<1> DEFINE I == {i \in 1 .. Len(di_list) : inst[di_list[i]].inst_id = id}
           i == SelectInSeq(di_list, LAMBDA h : inst[h].inst_id = id)
<1>1. Len(di_list) \in Nat
  OBVIOUS
<1>2. i = IF I # {} THEN Min(I) ELSE 0
  BY DEF SelectInSeq
<1>3. FindById(id) = IF i = 0 THEN 0 ELSE di_list[i]
  BY DEF FindById
<1>4. CASE I # {}
  <2>1. Min(I) \in I
    BY <1>1, <1>4, FirstOf
  <2> HIDE DEF i
  <2>2. i \in I
    BY <1>2, <1>4, <2>1
  <2> QED BY <1>3, <2>2 DEF ToSet
<1>5. CASE I = {}
  BY <1>2, <1>3, <1>5
<1> QED BY <1>4, <1>5

-----------------------------------------------------------------------------
(* Setting up *)

\* What is known of the instances and of those on top of them.
LEMMA TopOf ==
    ASSUME AsListed
    PROVE  /\ Insts = 1 .. Len(inst) /\ Len(inst) \in Nat
           /\ \A h \in Insts : /\ OnTop[h] = ToSet(inst[h].next_di)
                               /\ inst[h] \in InstRecs
                               /\ inst[h].next_di \in Seq(Nat)
<1>1. inst \in Seq(InstRecs)
  BY DEF AsListed
<1>2. Insts = 1 .. Len(inst) /\ Len(inst) \in Nat
  BY <1>1 DEF Insts
<1>3. \A h \in Insts : inst[h] \in InstRecs
  BY <1>1, <1>2
<1>4. \A h \in Insts : inst[h].next_di \in Seq(Nat)
  BY <1>3 DEF InstRecs
<1> QED BY <1>2, <1>3, <1>4 DEF OnTop

\* Without a session the parts about the feeding of samples hold.
LEMMA Quiet ==
    ASSUME Feeding', NothingYet', Trees', ~Later'
    PROVE  CallsGoUp' /\ AllGiven' /\ AllSeen' /\ AsMeasured' /\ PinsAreProbes'
<1>1. /\ calls' = <<>> /\ chunk' = <<>> /\ rest' = <<>> /\ sent' = 0
      /\ \A h \in Insts' : seen'[h] = <<>> /\ put'[h] = 0 /\ got'[h] = 0
  BY DEF Feeding, NothingYet, Later
<1>2. CallsGoUp'
  BY <1>1 DEF CallsGoUp
<1>3. AsMeasured'
  BY <1>1 DEF AsMeasured
<1>4. PinsAreProbes'
  BY <1>1 DEF PinsAreProbes
<1>5. AllSeen'
  <2>1. ToSet(rest') = {}
    BY <1>1 DEF ToSet
  <2>2. \A h \in Insts' : SeenBy(h)' = 0
    BY <1>1, <2>1 DEF SeenBy
  <2> QED BY <1>1, <2>2 DEF AllSeen
<1>6. AllGiven'
  <2>1. \A h \in Insts' : OnTop'[h] \subseteq Insts'
    BY DEF Trees
  <2>2. \A h, g : ~Pending(h, g)'
    BY <1>1 DEF Pending
  <2>3. ASSUME NEW h \in Insts', NEW g \in OnTop'[h]
        PROVE  put'[h] = got'[g] + IF Pending(h, g)' THEN 1 ELSE 0
    BY <1>1, <2>1, <2>2, <2>3
  <2> QED BY <2>3 DEF AllGiven
<1> QED BY <1>2, <1>3, <1>4, <1>5, <1>6

\* The instances stay as they are.
LEMMA InstancesStay ==
    ASSUME IInv, ~Later, pc' \notin {"session", "send", "crashed", "exited"},
           UNCHANGED <<command, inst, di_list, feedVars, freed>>
    PROVE  /\ Trees' /\ Feeding' /\ NothingYet' /\ CallsGoUp' /\ AllGiven'
           /\ AllSeen' /\ AsMeasured' /\ PinsAreProbes' /\ StackFreed'
<1> USE DEF feedVars
<1>1. Trees'
  BY DEF IInv, Trees, Later, Insts, OnTop
<1>2. Feeding'
  <2>1. calls = <<>> /\ chunk = <<>> /\ rest = <<>>
    BY DEF IInv, Feeding, Later
  <2> QED BY <2>1 DEF IInv, Feeding, Insts
<1>3. NothingYet'
  BY DEF IInv, NothingYet, Later, Insts
<1>4. ~Later'
  BY DEF Later
<1>5. StackFreed'
  BY DEF StackFreed
<1> QED BY <1>1, <1>2, <1>3, <1>4, <1>5, Quiet

\* What keeps the place of the instances on the stack.
LEMMA StackedStays ==
    ASSUME Stacked, UNCHANGED <<command, inst, token, from>>,
           pc' \notin {"register", "stack"},
           pc \notin {"register", "exit"} \/ pc' = "exit"
    PROVE  Stacked'
<1>1. StackOf' = StackOf /\ Insts' = Insts /\ OnTop' = OnTop
  BY DEF StackOf, Insts, OnTop
<1>2. \A j, g, h : InStack(j, g, h)' <=> InStack(j, g, h)
  BY <1>1 DEF InStack
<1>3. \A g \in Insts' : \A h \in OnTop'[g] :
        \E j \in 1 .. Len(StackOf') - 1 : InStack(j, g, h)'
  <2>1. \A g \in Insts : \A h \in OnTop[g] :
            \E j \in 1 .. Len(StackOf) - 1 : InStack(j, g, h)
    BY DEF Stacked
  <2> QED BY ONLY <1>1, <1>2, <2>1, Zenon
<1>4. pc' \notin {"register", "exit"} => Len(inst') = Len(command'.pds) /\ token' >= 2
  BY DEF Stacked
<1> QED BY <1>3, <1>4 DEF Stacked

\* srd_decoder_load() fails: the invariant is kept.
LEMMA LoadFailsKeeps == IInv /\ LoadFails => IInv'
<1> SUFFICES ASSUME IInv, LoadFails PROVE IInv'
  OBVIOUS
<1>1. /\ pc = "register" /\ pc' = "exit"
      /\ UNCHANGED <<command, inst, di_list, feedVars, freed>>
      /\ UNCHANGED <<token, from, pd_list, visible>>
  BY DEF LoadFails, setupVars
<1>2. ~Later
  BY <1>1 DEF Later
<1>3. AsListed'
  BY <1>1 DEF IInv, AsListed, Insts
<1>4. Stacked'
  BY <1>1, StackedStays DEF IInv
<1>5. Straight' /\ Showing'
  BY <1>1 DEF IInv, Straight, Showing, Distinct, Insts, OnTop, feedVars
<1> QED BY <1>1, <1>2, <1>3, <1>4, <1>5, InstancesStay DEF IInv

\* srd_inst_new() or the setting of options or probes fails.
LEMMA InstFailsKeeps == IInv /\ InstFails => IInv'
<1> SUFFICES ASSUME IInv, InstFails PROVE IInv'
  OBVIOUS
<1>1. /\ pc = "register" /\ pc' = "exit"
      /\ UNCHANGED <<command, inst, di_list, feedVars, freed>>
      /\ UNCHANGED <<token, from, visible>>
      /\ token <= Len(command.pds)
      /\ pd_list' = Append(pd_list, Pd.class)
  BY DEF InstFails
<1>2. ~Later
  BY <1>1 DEF Later
<1>3. AsListed'
  <2>1. Pd.class \in DOMAIN Classes
    BY <1>1, DecodingAssumption DEF IInv, AsListed, Pd
  <2>2. pd_list' \in Seq(DOMAIN Classes)
    BY <1>1, <2>1 DEF IInv, AsListed
  <2> QED BY <1>1, <2>2 DEF IInv, AsListed, Insts
<1>4. Stacked'
  BY <1>1, StackedStays DEF IInv
<1>5. Straight' /\ Showing'
  BY <1>1 DEF IInv, Straight, Showing, Distinct, Insts, OnTop, feedVars
<1> QED BY <1>1, <1>2, <1>3, <1>4, <1>5, InstancesStay DEF IInv

\* All of the stack is built.
LEMMA StackDoneKeeps == IInv /\ StackDone => IInv'
<1> SUFFICES ASSUME IInv, StackDone PROVE IInv'
  OBVIOUS
<1>1. /\ pc = "stack" /\ pc' = "annotations" /\ token > Len(StackOf)
      /\ UNCHANGED <<command, inst, di_list, feedVars, freed>>
      /\ UNCHANGED <<token, from, pd_list, visible>>
  BY DEF StackDone, setupVars
<1>2. ~Later
  BY <1>1 DEF Later
<1>3. AsListed'
  BY <1>1 DEF IInv, AsListed, Insts
<1>4. Stacked'
  BY <1>1, StackedStays DEF IInv
<1>5. Showing'
  BY <1>1 DEF IInv, Showing, Distinct, Insts, feedVars
<1>6. Straight'
  <2>1. command.stack = <<>> => Len(StackOf) = Len(command.pds)
    <3>1. command.pds \in Seq(ToSet(command.pds))
      BY DecodingAssumption DEF IInv, AsListed
    <3> QED BY <3>1 DEF StackOf
  <2> QED BY <1>1, <2>1 DEF IInv, Straight, Distinct, Insts, OnTop
<1> QED BY <1>1, <1>2, <1>3, <1>4, <1>5, <1>6, InstancesStay DEF IInv

\* The annotations to show are chosen.
LEMMA SetAnnotationsKeeps == IInv /\ SetAnnotations => IInv'
<1> SUFFICES ASSUME IInv, SetAnnotations PROVE IInv'
  OBVIOUS
<1>1. /\ pc = "annotations" /\ pc' \in {"ready", "exit"}
      /\ UNCHANGED <<command, inst, di_list, feedVars, freed>>
      /\ UNCHANGED <<token, from, pd_list>>
      /\ command.annotations = <<>> => visible' = visible
  BY DEF SetAnnotations
<1>2. ~Later
  BY <1>1 DEF Later
<1>3. AsListed'
  BY <1>1 DEF IInv, AsListed, Insts
<1>4. Stacked'
  BY <1>1, StackedStays DEF IInv
<1>5. Showing'
  BY <1>1 DEF IInv, Showing, Distinct, Insts, feedVars
<1>6. Straight'
  BY <1>1 DEF IInv, Straight, Distinct, Insts, OnTop
<1> QED BY <1>1, <1>2, <1>3, <1>4, <1>5, <1>6, InstancesStay DEF IInv

\* The bottom of the stack is found, or not.
LEMMA StackBeginsKeeps == IInv /\ StackBegins => IInv'
<1> SUFFICES ASSUME IInv, StackBegins PROVE IInv'
  OBVIOUS
<1>1. /\ pc = "register" /\ token > Len(command.pds)
      /\ from' = IF Len(command.pds) > 1 THEN FindById(StackOf[1]) ELSE 0
      /\ pc' = IF Len(command.pds) <= 1 THEN "annotations"
               ELSE IF Len(StackOf) < 2 \/ from' = 0 THEN "exit" ELSE "stack"
      /\ token' = 2
      /\ UNCHANGED <<command, inst, di_list, feedVars, freed>>
      /\ UNCHANGED <<pd_list, visible>>
  BY DEF StackBegins
<1>2. ~Later
  BY <1>1 DEF Later
<1>3. Len(command.pds) \in Nat /\ Len(inst) = Len(command.pds)
  <2>1. command.pds \in Seq(ToSet(command.pds))
    BY DecodingAssumption DEF IInv, AsListed
  <2> QED BY <1>1, <2>1, TopOf DEF IInv, AsListed
<1>4. pc' = "stack" => /\ Len(StackOf) >= 2 /\ from' \in Insts
                       /\ inst[from'].inst_id = StackOf[1]
  <2>1. StackOf \in Seq(STRING) \/ Len(StackOf) = Len(command.pds)
    <3>1. command.stack \in Seq(STRING)
      BY DecodingAssumption DEF IInv, AsListed
    <3>2. command.pds \in Seq(ToSet(command.pds))
      BY DecodingAssumption DEF IInv, AsListed
    <3> QED BY <3>1, <3>2 DEF StackOf
  <2>2. Len(StackOf) \in Nat
    BY <2>1, <1>3
  <2>3. di_list \in Seq(Nat) /\ ToSet(di_list) \subseteq Insts
    BY DEF IInv, Trees
  <2>4. pc' = "stack" => Len(StackOf) >= 2 /\ from' = FindById(StackOf[1]) /\ from' # 0
    BY <1>1, <1>3, <2>2
  <2> QED BY <2>3, <2>4, FoundById
<1>5. AsListed'
  <2>1. pc' # "register"
    BY <1>1
  <2> QED BY <1>1, <1>4, <2>1 DEF IInv, AsListed, Insts
<1>6. StackOf' = StackOf
  BY <1>1 DEF StackOf
<1>7. Stacked'
  <2>1. \A h \in Insts : OnTop[h] = {}
    BY <1>1 DEF IInv, Stacked
  <2>2. OnTop' = OnTop /\ Insts' = Insts
    BY <1>1 DEF OnTop, Insts
  <2>3. pc' # "register"
    BY <1>1
  <2>4. pc' = "stack" => inst'[from'].inst_id = StackOf'[token' - 1]
    BY <1>1, <1>4, <1>6
  <2> QED BY <1>1, <1>3, <1>4, <1>6, <2>1, <2>2, <2>3, <2>4 DEF Stacked
<1>8. Showing'
  <2>1. Insts = 1 .. Len(inst)
    BY TopOf DEF IInv
  <2> QED BY <1>1, <2>1 DEF IInv, Showing, Distinct, Insts, feedVars
<1>9. Straight'
  <2>1. Insts' = 1 .. Len(inst)
    BY <1>1, TopOf DEF IInv, Insts
  <2>2. pc' # "stack" => pc' = "exit" \/ 2 > Len(command.pds)
    BY <1>1, <1>3
  <2> QED BY <1>1, <2>1, <2>2 DEF Straight
<1> QED BY <1>1, <1>2, <1>5, <1>7, <1>8, <1>9, InstancesStay DEF IInv

-----------------------------------------------------------------------------
(* Making and stacking instances *)

\* One more decoder is instantiated.
LEMMA RegisterKeeps == IInv /\ Register => IInv'
<1> SUFFICES ASSUME IInv, Register PROVE IInv'
  OBVIOUS
<1> DEFINE n == Len(inst)
           new == [decoder |-> Pd.class, inst_id |-> InstId(Pd.class, Pd.args),
                   dec_probemap |-> ProbeMap(Pd.class, Pd.args),
                   next_di |-> <<>>]
<1>1. /\ pc = "register" /\ pc' \in {"register", "exit"}
      /\ token <= Len(command.pds) /\ token' = token + 1
      /\ inst' = Append(inst, new)
      /\ di_list' = Append(di_list, Len(inst'))
      /\ visible' = IF command.annotations # <<>> THEN visible
                    ELSE visible \cup {<<InstId(Pd.class, Pd.args), 0>>}
      /\ pd_list' = Append(pd_list, Pd.class)
  BY DEF Register
<1>2. /\ seen' = Append(seen, <<>>)
      /\ put' = Append(put, 0) /\ got' = Append(got, 0)
      /\ UNCHANGED <<command, started, sized, sent, chunk, rest, calls, raised,
                     shown, freed>>
  BY DEF Register
<1>3. /\ n \in Nat /\ token = n + 1 /\ Insts = 1 .. n
      /\ command \in Commands /\ token \in 1 .. Len(command.pds)
  BY <1>1, TopOf DEF IInv, AsListed
<1>4. Pd \in ToSet(command.pds) /\ Pd.class \in DOMAIN Classes
      /\ Pd = command.pds[token]
  <2>1. /\ command.pds \in Seq(ToSet(command.pds))
        /\ \A i \in DOMAIN command.pds : command.pds[i].class \in DOMAIN Classes
    BY <1>3, DecodingAssumption
  <2> QED BY SMTT(30), <1>3, <2>1, Members DEF Pd
<1>5. <<new.decoder, new.inst_id, new.dec_probemap>> = MadeOf(Pd)
  BY DEF MadeOf
<1>6. new \in InstRecs
  <2>1. MadeOf(Pd) \in Parts
    BY <1>3, <1>4 DEF Parts
  <2>2. /\ Pd.class \in {m[1] : m \in Parts}
        /\ InstId(Pd.class, Pd.args) \in {m[2] : m \in Parts}
        /\ ProbeMap(Pd.class, Pd.args) \in {m[3] : m \in Parts}
    <3>1. /\ MadeOf(Pd)[1] = Pd.class
          /\ MadeOf(Pd)[2] = InstId(Pd.class, Pd.args)
          /\ MadeOf(Pd)[3] = ProbeMap(Pd.class, Pd.args)
      BY DEF MadeOf
    <3> QED BY ONLY <2>1, <3>1, Zenon
  <2> QED BY <2>2 DEF InstRecs
<1>7. new.next_di = <<>>
  OBVIOUS
<1> HIDE DEF new
<1>8. inst \in Seq(InstRecs)
  BY DEF IInv, AsListed
<1>9. /\ inst' \in Seq(InstRecs) /\ Len(inst') = n + 1
      /\ \A h \in 1 .. n : inst'[h] = inst[h]
      /\ inst'[n + 1] = new
  BY <1>1, <1>6, <1>8, AppendProperties
<1>10. Insts' = 1 .. n + 1 /\ \A h \in Insts' : h \in Insts \/ h = n + 1
  BY <1>3, <1>9 DEF Insts
<1>11. AsListed'
  <2>1. Len(inst') <= Len(command'.pds) /\ token' \in Nat \ {0}
        /\ Len(inst') = token' - 1
    BY <1>1, <1>2, <1>3, <1>9
  <2>2. \A h \in Insts' :
           <<inst'[h].decoder, inst'[h].inst_id, inst'[h].dec_probemap>>
           = MadeOf(command'.pds[h])
    <3>1. \A h \in Insts :
             <<inst[h].decoder, inst[h].inst_id, inst[h].dec_probemap>>
             = MadeOf(command.pds[h])
      BY DEF IInv, AsListed
    <3> QED BY <1>2, <1>3, <1>4, <1>5, <1>9, <1>10, <3>1
  <2>3. pd_list' \in Seq(DOMAIN Classes)
    BY <1>1, <1>4 DEF IInv, AsListed
  <2> QED BY <1>1, <1>2, <1>3, <1>9, <2>1, <2>2, <2>3 DEF AsListed
<1>12. \A h \in Insts' : OnTop'[h] = {} /\ inst'[h].next_di \in Seq(Nat)
                         /\ (h \in Insts => inst'[h].next_di = inst[h].next_di)
  <2>1. \A h \in Insts : ToSet(inst[h].next_di) = {} /\ inst[h].next_di \in Seq(Nat)
    BY <1>1, TopOf DEF IInv, Stacked
  <2>2. ToSet(new.next_di) = {}
    BY <1>7 DEF ToSet
  <2>3. \A h \in Insts' : OnTop'[h] = ToSet(inst'[h].next_di)
    BY DEF OnTop
  <2>4. ASSUME NEW h \in Insts
        PROVE  OnTop'[h] = {} /\ inst'[h].next_di \in Seq(Nat)
               /\ inst'[h].next_di = inst[h].next_di
    <3>1. inst'[h] = inst[h] /\ h \in Insts'
      BY <1>3, <1>9, <1>10
    <3> QED BY <2>1, <2>3, <3>1
  <2>5. /\ OnTop'[n + 1] = {} /\ inst'[n + 1].next_di \in Seq(Nat)
        /\ n + 1 \notin Insts
    <3>1. n + 1 \in Insts' /\ n + 1 \notin Insts
      BY <1>3, <1>10
    <3>2. inst'[n + 1].next_di = <<>>
      BY <1>7, <1>9
    <3> QED BY <1>7, <2>2, <2>3, <3>1, <3>2
  <2> QED BY <1>10, <2>4, <2>5
<1>13. Trees'
  <2>1. /\ di_list \in Seq(Nat) /\ Distinctly(di_list)
        /\ ToSet(di_list) \subseteq Insts
    BY DEF IInv, Trees
  <2>2. n + 1 \in Nat /\ n + 1 \notin ToSet(di_list)
    BY <1>3, <2>1
  <2>3. /\ di_list' \in Seq(Nat) /\ Distinctly(di_list')
        /\ ToSet(di_list') = ToSet(di_list) \cup {n + 1}
    BY <1>1, <1>9, <2>1, <2>2, PutBehind
  <2>4. ToSet(di_list') \subseteq Insts'
    BY <1>3, <1>10, <2>1, <2>3
  <2>5. Insts' \subseteq ToSet(di_list')
    <3>1. pc # "exited" /\ \A h \in Insts : OnTop[h] = {}
      BY <1>1 DEF IInv, Stacked
    <3>2. Insts \subseteq ToSet(di_list)
      BY <3>1 DEF IInv, Trees
    <3> QED BY <1>10, <2>3, <3>2
  <2>6. \A h \in Insts' : Distinctly(inst'[h].next_di)
    <3>1. \A h \in Insts : Distinctly(inst[h].next_di)
      BY DEF IInv, Trees
    <3>2. Distinctly(<<>>)
      BY DEF Distinctly
    <3> QED BY <1>7, <1>9, <1>10, <1>12, <3>1, <3>2
  <2> QED BY <1>12, <2>3, <2>4, <2>5, <2>6 DEF Trees
<1>14. ~Later /\ ~Later'
  BY <1>1 DEF Later
<1>15. NothingYet'
  <2>1. /\ sent = 0 /\ started = {} /\ shown = {} /\ freed = {}
        /\ \A h \in Insts : /\ seen[h] = <<>>
                            /\ put[h] = 0 /\ got[h] = 0
    BY <1>14 DEF IInv, NothingYet
  <2>2. /\ seen \in Seq(Seq(Sights)) /\ Len(seen) = n
        /\ put \in Seq(Nat) /\ Len(put) = n
        /\ got \in Seq(Nat) /\ Len(got) = n
    BY DEF IInv, Feeding
  <2>3. \A h \in Insts' : /\ seen'[h] = <<>>
                          /\ put'[h] = 0 /\ got'[h] = 0
    BY <1>2, <1>3, <1>10, <2>1, <2>2
  <2> QED BY <1>2, <2>1, <2>3 DEF NothingYet
<1>16. Feeding'
  <2>1. /\ seen \in Seq(Seq(Sights)) /\ Len(seen) = n
        /\ put \in Seq(Nat) /\ Len(put) = n
        /\ got \in Seq(Nat) /\ Len(got) = n
    BY DEF IInv, Feeding
  <2>2. /\ seen' \in Seq(Seq(Sights)) /\ Len(seen') = Len(inst')
        /\ put' \in Seq(Nat) /\ Len(put') = Len(inst')
        /\ got' \in Seq(Nat) /\ Len(got') = Len(inst')
    <3>1. <<>> \in Seq(Sights) /\ 0 \in Nat
      OBVIOUS
    <3> QED BY ONLY <1>2, <1>9, <2>1, <3>1, AppendProperties
  <2>3. calls = <<>> /\ chunk = <<>> /\ rest = <<>>
    BY <1>1 DEF IInv, Feeding
  <2>4. ToSet(rest') \subseteq ToSet(di_list')
    BY <1>2, <2>3 DEF ToSet
  <2>5. /\ started' \subseteq Insts' /\ shown' \subseteq Insts' /\ freed' \subseteq Insts'
    BY SMTT(30), <1>2, <1>3, <1>10 DEF IInv, Feeding
  <2>6. /\ sent' \in Nat /\ sent' + Len(chunk') <= Len(Signal)
        /\ chunk' \in Seq(SUBSET Nat) /\ Len(chunk') <= MaxChunk
        /\ rest' \in Seq(Nat) /\ Distinctly(rest')
        /\ raised' \in BOOLEAN
    BY <1>2 DEF IInv, Feeding
  <2> QED BY <1>2, <2>2, <2>3, <2>4, <2>5, <2>6 DEF Feeding
<1>17. StackFreed'
  BY <1>1 DEF StackFreed
<1>18. Stacked' /\ Straight'
  BY <1>1, <1>12 DEF Stacked, Straight
<1>19. Showing'
  <2>1. shown' = {}
    BY <1>2, <1>14 DEF IInv, NothingYet
  <2>2. ASSUME Distinct, command.stack = <<>>, command.annotations = <<>>,
               NEW v \in visible'
        PROVE  \E h \in Insts' : v[1] = inst'[h].inst_id
    <3>1. CASE v \in visible
      <4>1. PICK h \in Insts : v[1] = inst[h].inst_id
        BY <2>2, <3>1 DEF IInv, Showing
      <4> QED BY <4>1, <1>3, <1>9, <1>10
    <3>2. CASE v = <<InstId(Pd.class, Pd.args), 0>>
      <4>1. v[1] = new.inst_id
        BY <3>2 DEF new
      <4>2. n + 1 \in Insts'
        BY <1>3, <1>10
      <4> QED BY <1>9, <4>1, <4>2
    <3> QED BY <1>1, <2>2, <3>1, <3>2
  <2>3. Distinct' <=> Distinct
    BY <1>2 DEF Distinct
  <2> QED BY <1>1, <1>2, <2>1, <2>2, <2>3 DEF Showing
<1>20. CallsGoUp' /\ AllGiven' /\ AllSeen' /\ AsMeasured' /\ PinsAreProbes'
  BY <1>13, <1>14, <1>15, <1>16, Quiet
<1> QED BY <1>11, <1>13, <1>15, <1>16, <1>17, <1>18, <1>19, <1>20 DEF IInv

\* An instance named once is the one its name is looked up by.
LEMMA NamedOnce ==
    ASSUME AsListed, Distinct, NEW h \in Insts, NEW i \in 1 .. Len(command.pds),
           inst[h].inst_id = command.pds[i].class
    PROVE  h = i
<1>1. /\ Len(inst) <= Len(command.pds) /\ Insts = 1 .. Len(inst)
      /\ Len(inst) \in Nat
      /\ <<inst[h].decoder, inst[h].inst_id, inst[h].dec_probemap>>
         = MadeOf(command.pds[h])
  BY TopOf DEF AsListed
<1>2. command.pds \in Seq(ToSet(command.pds))
  BY DecodingAssumption DEF AsListed
<1>3. DOMAIN command.pds = 1 .. Len(command.pds) /\ Len(command.pds) \in Nat
  BY <1>2
<1>4. h \in 1 .. Len(command.pds)
  BY <1>1, <1>3
<1>5. inst[h].inst_id = InstId(command.pds[h].class, command.pds[h].args)
  BY <1>1 DEF MadeOf
<1>6. inst[h].inst_id = command.pds[h].class
  BY <1>3, <1>4, <1>5 DEF InstId, Distinct
<1> QED BY <1>3, <1>4, <1>6 DEF Distinct

\* What an instance is made of stays, and to goes from the bottom level to
\* the top of from.
LEMMA StackNextKeeps == IInv /\ StackNext => IInv'
<1> SUFFICES ASSUME IInv, StackNext PROVE IInv'
  OBVIOUS
<1> DEFINE to == FindById(StackOf[token])
<1>1. pc = "stack" /\ token <= Len(StackOf)
      /\ UNCHANGED <<feedVars, freed, command>>
  BY DEF StackNext, setupVars
<1>2. ~Later
  BY <1>1 DEF Later
<1>3. CASE to = 0
  <2>1. pc' = "exit" /\ UNCHANGED setupVars
    BY <1>3 DEF StackNext
  <2>2. UNCHANGED <<command, token, from, inst, di_list, visible, pd_list>>
    BY <2>1 DEF setupVars
  <2>3. AsListed'
    BY <1>1, <2>1, <2>2 DEF IInv, AsListed, Insts
  <2>4. Stacked'
    BY <1>1, <2>1, <2>2, StackedStays DEF IInv
  <2>5. Straight'
    BY <2>1 DEF Straight
  <2>6. Showing'
    BY <1>1, <2>1, <2>2 DEF IInv, Showing, Distinct, Insts, feedVars
  <2> QED BY <1>1, <1>2, <2>1, <2>2, <2>3, <2>4, <2>5, <2>6, InstancesStay DEF IInv
<1>4. CASE to # 0
  <2>1. /\ pc' = "stack"
        /\ di_list' = RemoveFirst(di_list, to)
        /\ inst' = [inst EXCEPT ![from].next_di = Append(@, to)]
        /\ visible' = IF command.annotations # <<>> THEN visible
                      ELSE {v \in visible : v[1] # inst[from].inst_id}
        /\ from' = to /\ token' = token + 1
        /\ UNCHANGED <<pc, command, pd_list>>
    BY <1>1, <1>4 DEF StackNext
  <2>2. to \in ToSet(di_list) /\ inst[to].inst_id = StackOf[token]
    BY <1>4, FoundById DEF IInv, Trees
  <2> HIDE DEF to
  <2>3. /\ Insts = 1 .. Len(inst) /\ Len(inst) \in Nat /\ from \in Insts
        /\ inst \in Seq(InstRecs)
        /\ token \in Nat /\ token >= 2 /\ Len(inst) = Len(command.pds)
        /\ inst[from].inst_id = StackOf[token - 1]
    BY <1>1, TopOf DEF IInv, AsListed, Stacked
  <2>4. /\ di_list \in Seq(Nat) /\ Distinctly(di_list)
        /\ ToSet(di_list) \subseteq Insts
        /\ \A h \in Insts : /\ Distinctly(inst[h].next_di)
                            /\ OnTop[h] \subseteq Insts
                            /\ OnTop[h] \cap ToSet(di_list) = {}
                            /\ \A g \in Insts : g # h => OnTop[g] \cap OnTop[h] = {}
        /\ \A k \in Insts : k \in ToSet(di_list) \/ \E h \in Insts : k \in OnTop[h]
    BY <1>1 DEF IInv, Trees
  <2>5. to \in Insts /\ to \in Nat /\ \A h \in Insts : to \notin OnTop[h]
    BY <2>2, <2>3, <2>4
  <2>6. /\ inst[from].next_di \in Seq(Nat)
        /\ \A h \in Insts : OnTop[h] = ToSet(inst[h].next_di)
        /\ inst[from] \in InstRecs
    BY <2>3, TopOf DEF IInv
  <2> DEFINE next == Append(inst[from].next_di, to)
  <2>7. /\ next \in Seq(Nat) /\ Distinctly(next)
        /\ ToSet(next) = OnTop[from] \cup {to}
    BY SMTT(30), <2>3, <2>4, <2>5, <2>6, PutBehind
  <2>8. /\ di_list' \in Seq(Nat) /\ Distinctly(di_list')
        /\ ToSet(di_list') = ToSet(di_list) \ {to}
    BY <2>1, <2>2, <2>4, TakenOut
  <2>9. /\ Insts' = Insts /\ Len(inst') = Len(inst) /\ inst' \in Seq(InstRecs)
        /\ \A h \in Insts : /\ inst'[h].decoder = inst[h].decoder
                            /\ inst'[h].inst_id = inst[h].inst_id
                            /\ inst'[h].dec_probemap = inst[h].dec_probemap
                            /\ inst'[h].next_di =
                                  IF h = from THEN next ELSE inst[h].next_di
    <3>1. /\ DOMAIN inst' = DOMAIN inst
          /\ \A h \in DOMAIN inst : inst'[h] =
                 IF h = from THEN [inst[from] EXCEPT !.next_di = next] ELSE inst[h]
      BY <2>1, <2>3 DEF Insts
    <3> HIDE DEF next
    <3>2. [inst[from] EXCEPT !.next_di = next] \in InstRecs
          /\ [inst[from] EXCEPT !.next_di = next].decoder = inst[from].decoder
          /\ [inst[from] EXCEPT !.next_di = next].inst_id = inst[from].inst_id
          /\ [inst[from] EXCEPT !.next_di = next].dec_probemap = inst[from].dec_probemap
          /\ [inst[from] EXCEPT !.next_di = next].next_di = next
      BY <2>6, <2>7 DEF InstRecs
    <3>3. inst' \in Seq(InstRecs) /\ Len(inst') = Len(inst)
      <4>1. \A h \in 1 .. Len(inst) : inst'[h] \in InstRecs
        BY SMTT(30), <2>3, <3>1, <3>2, ElementOfSeq
      <4>2. DOMAIN inst' = 1 .. Len(inst)
        BY <2>3, <3>1
      <4>3. inst' = [h \in 1 .. Len(inst) |-> inst'[h]]
        <5>1. inst' = [h \in DOMAIN inst' |-> inst'[h]]
          BY <2>1
        <5> QED BY <5>1, <4>2
      <4> QED BY SMTT(30), <4>1, <4>2, <4>3, <2>3
    <3> QED BY <2>3, <3>1, <3>2, <3>3 DEF Insts
  <2> HIDE DEF next
  <2>10. \A h \in Insts :
            OnTop'[h] = IF h = from THEN OnTop[from] \cup {to} ELSE OnTop[h]
    <3>1. \A h \in Insts : OnTop'[h] = ToSet(inst'[h].next_di)
      BY <2>9 DEF OnTop
    <3> QED BY <2>6, <2>7, <2>9, <3>1
  <2>11. AsListed'
    <3>1. \A h \in Insts :
             <<inst[h].decoder, inst[h].inst_id, inst[h].dec_probemap>>
             = MadeOf(command.pds[h])
      BY DEF IInv, AsListed
    <3>2. \A h \in Insts' :
             <<inst'[h].decoder, inst'[h].inst_id, inst'[h].dec_probemap>>
             = MadeOf(command'.pds[h])
      BY <2>1, <2>9, <3>1
    <3> QED BY <2>1, <2>3, <2>5, <2>9, <3>2 DEF IInv, AsListed
  <2>12. Trees'
    <3>1. \A h \in Insts : Distinctly(inst'[h].next_di)
      BY <2>4, <2>7, <2>9
    <3>2. \A h \in Insts : OnTop'[h] \subseteq Insts /\ OnTop'[h] \cap ToSet(di_list') = {}
      BY <2>4, <2>5, <2>8, <2>10
    <3>3. \A h, g \in Insts : g # h => OnTop'[g] \cap OnTop'[h] = {}
      BY <2>4, <2>5, <2>10
    <3>4. \A k \in Insts : k \in ToSet(di_list') \/ \E h \in Insts : k \in OnTop'[h]
      BY <2>3, <2>4, <2>8, <2>10
    <3> QED BY <2>4, <2>8, <2>9, <3>1, <3>2, <3>3, <3>4 DEF Trees
  <2>13. StackOf' = StackOf
    BY <2>1 DEF StackOf
  <2>14. Stacked'
    <3>1. token' <= Len(StackOf') + 1 /\ token' >= 2 /\ Len(inst') = Len(command'.pds)
          /\ inst'[from'].inst_id = StackOf'[token' - 1]
      <4>1. (token + 1) - 1 = token /\ Len(StackOf) \in Int
        <5>1. StackOf \in Seq(STRING) \/ Len(StackOf) = Len(inst)
          <6>1. command.stack \in Seq(STRING)
            BY DecodingAssumption DEF IInv, AsListed
          <6>2. command.pds \in Seq(ToSet(command.pds))
            BY DecodingAssumption DEF IInv, AsListed
          <6> QED BY <6>1, <6>2, <2>3 DEF StackOf
        <5> QED BY <2>3, <5>1
      <4> QED BY <1>1, <2>1, <2>2, <2>3, <2>5, <2>9, <2>13, <4>1
    <3>2. ASSUME NEW g \in Insts, NEW h \in OnTop'[g]
          PROVE  \E j \in 1 .. Len(StackOf) - 1 :
                     StackOf[j] = inst'[g].inst_id /\ StackOf[j + 1] = inst'[h].inst_id
      <4>0. h \in Insts
        BY <2>4, <2>5, <2>10
      <4>1. CASE h \in OnTop[g]
        <5>1. \E j \in 1 .. Len(StackOf) - 1 : InStack(j, g, h)
          BY <4>1 DEF IInv, Stacked
        <5> QED BY <5>1, <4>0, <2>9 DEF InStack
      <4>2. CASE g = from /\ h = to
        <5>1. Len(StackOf) \in Int
          <6>1. command.stack \in Seq(STRING)
            BY DecodingAssumption DEF IInv, AsListed
          <6>2. command.pds \in Seq(ToSet(command.pds))
            BY DecodingAssumption DEF IInv, AsListed
          <6> QED BY <6>1, <6>2, <2>3 DEF StackOf
        <5>2. token - 1 \in 1 .. Len(StackOf) - 1 /\ (token - 1) + 1 = token
          BY <1>1, <2>3, <5>1
        <5> QED BY <4>2, <5>2, <2>2, <2>3, <2>5, <2>9
      <4> QED BY <4>1, <4>2, <2>10
    <3>3. pc' # "register"
      BY <2>1
    <3> QED BY <2>9, <2>13, <3>1, <3>2, <3>3 DEF Stacked, InStack
  <2>15. ASSUME Distinct, command.stack = <<>>
         PROVE  to = token /\ from = token - 1
    <3>1. command.pds \in Seq(ToSet(command.pds)) /\ AsListed
      BY DecodingAssumption DEF IInv, AsListed
    <3>2. /\ StackOf = [i \in 1 .. Len(command.pds) |-> command.pds[i].class]
          /\ Len(StackOf) = Len(command.pds)
      BY <2>15, <3>1 DEF StackOf
    <3>3. token \in 1 .. Len(command.pds) /\ token - 1 \in 1 .. Len(command.pds)
      BY <1>1, <2>3, <3>2
    <3>4. inst[to].inst_id = command.pds[token].class
          /\ inst[from].inst_id = command.pds[token - 1].class
      BY <2>2, <2>3, <3>2, <3>3
    <3> QED BY <2>3, <2>5, <2>15, <3>1, <3>3, <3>4, NamedOnce
  <2>16. Distinct' <=> Distinct
    BY <2>1 DEF Distinct
  <2>17. Straight'
    <3>1. ASSUME Distinct, command.stack = <<>>, NEW h \in Insts \ {1},
                 h < token + 1
          PROVE  h \in OnTop'[h - 1]
      <4>1. h - 1 \in Insts
        BY <2>3
      <4>2. CASE h < token
        <5>1. h \in OnTop[h - 1]
          BY <1>1, <3>1, <4>2 DEF IInv, Straight
        <5> QED BY <5>1, <4>1, <2>3, <2>10
      <4>3. CASE h = token
        BY <3>1, <4>1, <4>3, <2>3, <2>10, <2>15
      <4> QED BY <2>3, <3>1, <4>2, <4>3
    <3> QED BY <2>1, <2>9, <2>16, <3>1 DEF Straight
  <2>18. Showing'
    <3>1. shown' = shown
      BY <1>1 DEF feedVars
    <3>2. ASSUME Distinct, command.stack = <<>>, command.annotations = <<>>,
                 NEW v \in visible'
          PROVE  \E h \in Insts : v[1] = inst'[h].inst_id /\ h >= (token + 1) - 1
      <4>1. v \in visible /\ v[1] # inst[from].inst_id
        BY <2>1, <3>2
      <4>2. PICK h \in Insts : v[1] = inst[h].inst_id /\ h >= token - 1
        BY <1>1, <3>2, <4>1 DEF IInv, Showing
      <4>3. h # token - 1
        BY <3>2, <4>1, <4>2, <2>15
      <4>4. h >= (token + 1) - 1
        BY <2>3, <4>2, <4>3
      <4> QED BY <4>2, <4>4, <2>9
    <3>3. Distinct /\ command.stack = <<>> /\ command.annotations = <<>>
          => shown \subseteq {Len(inst)}
      BY DEF IInv, Showing
    <3> QED BY <2>1, <2>9, <2>16, <3>1, <3>2, <3>3 DEF Showing
  <2>19. ~Later'
    BY <2>1 DEF Later
  <2>20. NothingYet' /\ Feeding'
    <3>1. /\ calls = <<>> /\ chunk = <<>> /\ rest = <<>>
      BY <1>1 DEF IInv, Feeding
    <3>2. ToSet(rest) = {}
      BY <3>1 DEF ToSet
    <3> QED BY <1>1, <1>2, <2>9, <3>1, <3>2 DEF IInv, NothingYet, Feeding, feedVars
  <2>21. StackFreed'
    BY <2>1 DEF StackFreed
  <2> QED BY <2>11, <2>12, <2>14, <2>17, <2>18, <2>19, <2>20, <2>21, Quiet DEF IInv
<1> QED BY <1>3, <1>4

-----------------------------------------------------------------------------
(* The session *)

\* What was set up stays.
LEMMA SetUpStays ==
    ASSUME IInv, UNCHANGED setupVars, pc \in {"ready", "session", "send"},
           pc' \in {"ready", "session", "send", "crashed"}
    PROVE  /\ AsListed' /\ Trees' /\ Stacked' /\ Straight' /\ StackFreed'
           /\ UNCHANGED <<inst, di_list, visible, command, token>>
           /\ Insts' = Insts /\ OnTop' = OnTop
           /\ (Distinct' <=> Distinct)
<1>1. UNCHANGED <<command, token, from, inst, di_list, visible, pd_list>>
  BY DEF setupVars
<1>2. Insts' = Insts /\ OnTop' = OnTop
  BY <1>1 DEF OnTop, Insts
<1>3. AsListed'
  BY <1>1, <1>2 DEF IInv, AsListed
<1>4. Trees'
  BY <1>1, <1>2 DEF IInv, Trees
<1>5. Stacked'
  BY <1>1, StackedStays DEF IInv
<1>6. Distinct' <=> Distinct
  BY <1>1 DEF Distinct
<1>7. Straight'
  BY <1>1, <1>2, <1>6 DEF IInv, Straight
<1>8. StackFreed'
  BY DEF StackFreed
<1> QED BY <1>1, <1>2, <1>3, <1>4, <1>5, <1>6, <1>7, <1>8

\* What keeps those that show annotations.
LEMMA ShowingStays ==
    ASSUME Showing, UNCHANGED <<shown, inst, visible, command, token>>,
           pc \notin {"register", "exit"}
    PROVE  Showing'
BY DEF Showing, Distinct, Insts

\* What keeps the pins seen.
LEMMA PinsStay ==
    ASSUME PinsAreProbes, UNCHANGED <<seen, inst>>
    PROVE  PinsAreProbes'
<1>1. Insts' = Insts
  BY DEF Insts
<1> QED BY <1>1 DEF PinsAreProbes

\* What keeps the packet.
LEMMA MeasuredStays ==
    ASSUME AsMeasured, UNCHANGED <<chunk, sent>>
    PROVE  AsMeasured'
BY DEF AsMeasured

\* srd_session_start() calls start() of the instances.
LEMMA SessionStartKeeps == IInv /\ SessionStart => IInv'
<1> SUFFICES ASSUME IInv, SessionStart PROVE IInv'
  OBVIOUS
<1>1. /\ pc = "ready" /\ pc' = "session" /\ UNCHANGED setupVars
      /\ UNCHANGED <<sent, chunk, rest, calls, seen, put, got, raised, shown, freed>>
  BY DEF SessionStart
<1>2. /\ AsListed' /\ Trees' /\ Stacked' /\ Straight' /\ StackFreed'
      /\ UNCHANGED <<inst, di_list, visible, command, token>>
      /\ Insts' = Insts /\ OnTop' = OnTop
  BY <1>1, SetUpStays
<1>3. started' \subseteq Insts
  <2>1. \A h, bad : StartTree(h, bad) \subseteq Insts
    BY DEF StartTree, Reach
  <2> HIDE <1>1
  <2> HIDE <1>2
  <2>2. \E bad, upto : started' = UNION {StartTree(h, bad) : h \in ToSet(upto)}
    BY DEF SessionStart
  <2> QED BY <2>1, <2>2, Zenon
<1>4. Feeding'
  BY <1>1, <1>2, <1>3 DEF IInv, Feeding
<1>5. NothingYet'
  BY <1>1 DEF NothingYet, Later
<1>6. CallsGoUp'
  BY <1>1, <1>2 DEF IInv, CallsGoUp, Fits
<1>7. AllGiven'
  BY <1>1, <1>2 DEF IInv, AllGiven, Pending
<1>8. AllSeen'
  BY <1>1, <1>2 DEF IInv, AllSeen, SeenBy
<1>9. AsMeasured' /\ PinsAreProbes' /\ Showing'
  BY <1>1, <1>2, MeasuredStays, PinsStay, ShowingStays DEF IInv
<1> QED BY <1>2, <1>4, <1>5, <1>6, <1>7, <1>8, <1>9 DEF IInv

\* srd_session_send() takes a packet.
LEMMA SessionSendKeeps == IInv /\ SessionSend => IInv'
<1> SUFFICES ASSUME IInv, SessionSend PROVE IInv'
  OBVIOUS
<1>1. /\ pc = "session" /\ pc' = "send" /\ UNCHANGED setupVars
      /\ UNCHANGED <<started, sized, sent, calls, seen, put, got, raised, shown, freed>>
      /\ rest' = di_list
  BY DEF SessionSend
<1>2. /\ AsListed' /\ Trees' /\ Stacked' /\ Straight' /\ StackFreed'
      /\ UNCHANGED <<inst, di_list, visible, command, token>>
      /\ Insts' = Insts /\ OnTop' = OnTop
  BY <1>1, SetUpStays
<1>3. PICK n \in 1 .. MaxChunk, g \in Garbage(InUnitsize) :
         /\ sent + n <= Len(Signal)
         /\ chunk' = FilterProbes(InUnitsize, OutUnitsize, Enabled,
                                  SubSeq(Signal, sent + 1, sent + n), g)
  BY DEF SessionSend
<1> DEFINE U == SUBSET (0 .. InUnitsize * ByteBits - 1)
           data == SubSeq(Signal, sent + 1, sent + n)
<1>4. /\ data \in Seq(U) /\ Len(data) = n
      /\ \A i \in 1 .. n : data[i] = Signal[sent + i]
  <2>1. Signal \in Seq(U)
    BY DecodingAssumption
  <2>2. sent \in Nat /\ n \in Nat
    BY DecodingAssumption DEF IInv, Feeding
  <2> HIDE DEF U
  <2> QED BY <2>1, <2>2, <1>3
<1>5. calls = <<>> /\ chunk = <<>> /\ rest = <<>>
  BY <1>1 DEF IInv, Feeding
<1>6. /\ chunk' \in Seq(SUBSET Nat) /\ Len(chunk') = n
      /\ \A i \in 1 .. n : \A k \in 0 .. Len(Enabled) - 1 :
            Enabled[k + 1] < IntBits /\ Len(Enabled) <= IntBits =>
                (k \in chunk'[i] <=> Enabled[k + 1] - 1 \in Signal[sent + i])
  <2> HIDE DEF data
  <2>1. /\ chunk' \in Seq(SUBSET Nat) /\ Len(chunk') = Len(data)
        /\ \A i \in 1 .. Len(data) : \A k \in 0 .. Len(Enabled) - 1 :
              Enabled[k + 1] < IntBits /\ Len(Enabled) <= IntBits =>
                  (k \in chunk'[i] <=> Enabled[k + 1] - 1 \in data[i])
    BY <1>3, <1>4, FilterAsMeasured DEF data
  <2> QED BY <1>4, <2>1
<1>7. Feeding'
  <2>1. n <= MaxChunk /\ MaxChunk \in Nat
    BY DecodingAssumption
  <2>2. rest' \in Seq(Nat) /\ Distinctly(rest') /\ ToSet(rest') \subseteq ToSet(di_list')
    BY <1>1, <1>2 DEF IInv, Trees
  <2>3. sent' + Len(chunk') <= Len(Signal)
    BY <1>1, <1>3, <1>6
  <2> QED BY <1>1, <1>2, <1>6, <2>1, <2>2, <2>3 DEF IInv, Feeding
<1>8. NothingYet'
  BY <1>1 DEF NothingYet, Later
<1>9. CallsGoUp'
  BY <1>1, <1>5 DEF CallsGoUp
<1>10. AllGiven'
  BY <1>1, <1>2 DEF IInv, AllGiven, Pending
<1>11. AllSeen'
  <2>1. ToSet(rest) = {} /\ Len(chunk) = 0
    BY <1>5 DEF ToSet
  <2>2. sent \in Nat
    BY DEF IInv, Feeding
  <2>3. \A h \in Insts : SeenBy(h) = IF h \in ToSet(di_list) THEN sent ELSE 0
    BY <1>5, <2>1, <2>2 DEF SeenBy
  <2>4. \A h \in Insts : SeenBy(h)' = IF h \in ToSet(di_list) THEN sent ELSE 0
    BY <1>1, <1>2 DEF SeenBy
  <2> QED BY <1>1, <1>2, <2>3, <2>4 DEF IInv, AllSeen
<1>12. AsMeasured'
  BY <1>1, <1>6 DEF AsMeasured
<1>13. PinsAreProbes' /\ Showing'
  BY <1>1, <1>2, PinsStay, ShowingStays DEF IInv
<1> QED BY <1>2, <1>7, <1>8, <1>9, <1>10, <1>11, <1>12, <1>13 DEF IInv

\* The first element is taken off, of those that are all different.
LEMMA BeheadedOf ==
    ASSUME NEW S, NEW s \in Seq(S), s # <<>>, Distinctly(s)
    PROVE  /\ Head(s) \in ToSet(s) /\ Tail(s) \in Seq(S) /\ Distinctly(Tail(s))
           /\ ToSet(Tail(s)) = ToSet(s) \ {Head(s)}
<1>1. /\ Len(s) \in Nat \ {0} /\ Head(s) = s[1] /\ Tail(s) \in Seq(S)
      /\ Len(Tail(s)) = Len(s) - 1
      /\ \A i \in 1 .. Len(s) - 1 : Tail(s)[i] = s[i + 1]
  BY HeadTailProperties
<1> DEFINE t == Tail(s)
<1> HIDE DEF t
<1>2. /\ t \in Seq(S) /\ Len(t) = Len(s) - 1
      /\ \A i \in 1 .. Len(s) - 1 : t[i] = s[i + 1]
  BY <1>1 DEF t
<1>3. Distinctly(t)
  BY <1>1, <1>2 DEF Distinctly
<1>4. ASSUME NEW x \in ToSet(t) PROVE x \in ToSet(s) \ {s[1]}
  <2>1. PICK i \in 1 .. Len(s) - 1 : t[i] = x
    BY <1>1, <1>2 DEF ToSet
  <2>2. i + 1 \in 1 .. Len(s) /\ i + 1 # 1 /\ s[i + 1] = x
    BY <1>1, <1>2, <2>1
  <2> QED BY <1>1, <2>2 DEF ToSet, Distinctly
<1>5. ASSUME NEW x \in ToSet(s) \ {s[1]} PROVE x \in ToSet(t)
  <2>1. PICK j \in 1 .. Len(s) : s[j] = x
    BY <1>1 DEF ToSet
  <2>2. j - 1 \in 1 .. Len(s) - 1 /\ t[j - 1] = x
    BY <1>1, <1>2, <2>1
  <2> QED BY <1>2, <2>2 DEF ToSet
<1>6. s[1] \in ToSet(s)
  BY <1>1 DEF ToSet
<1> QED BY <1>1, <1>2, <1>3, <1>4, <1>5, <1>6 DEF t

\* srd_inst_decode() is called for the next instance at the bottom.
LEMMA InstDecodeKeeps == IInv /\ InstDecode => IInv'
<1> SUFFICES ASSUME IInv, InstDecode PROVE IInv'
  OBVIOUS
<1> DEFINE h0 == Head(rest)
<1>1. /\ pc = "send" /\ pc' = "send" /\ UNCHANGED setupVars
      /\ UNCHANGED <<started, sized, sent, chunk, seen, put, got, raised, shown, freed>>
      /\ calls = <<>> /\ rest # <<>>
      /\ calls' = <<Frame(h0, TRUE)>> /\ rest' = Tail(rest)
  BY DEF InstDecode
<1>2. /\ AsListed' /\ Trees' /\ Stacked' /\ Straight' /\ StackFreed'
      /\ UNCHANGED <<inst, di_list, visible, command, token>>
      /\ Insts' = Insts /\ OnTop' = OnTop
  BY <1>1, SetUpStays
<1>3. /\ h0 \in ToSet(rest) /\ rest' \in Seq(Nat) /\ Distinctly(rest')
      /\ ToSet(rest') = ToSet(rest) \ {h0}
  <2>1. rest \in Seq(Nat) /\ Distinctly(rest)
    BY DEF IInv, Feeding
  <2> QED BY <1>1, <2>1, BeheadedOf
<1>4. /\ h0 \in ToSet(di_list) /\ h0 \in Insts /\ h0 \in Nat
      /\ ToSet(rest) \subseteq ToSet(di_list)
  <2>1. ToSet(rest) \subseteq ToSet(di_list) /\ ToSet(di_list) \subseteq Insts
    BY DEF IInv, Feeding, Trees
  <2>2. Insts = 1 .. Len(inst)
    BY TopOf DEF IInv
  <2> QED BY <1>3, <2>1, <2>2
<1> HIDE DEF h0
<1>5. /\ calls' \in Seq(Frames) /\ Len(calls') = 1
      /\ calls'[1] = [di |-> h0, logic |-> TRUE, itercnt |-> 0, puts |-> 0,
                      targets |-> <<>>]
  BY <1>1, <1>4 DEF Frame, Frames
<1>6. Feeding'
  <2>1. ToSet(rest') \subseteq ToSet(di_list')
    BY <1>2, <1>3, <1>4
  <2> QED BY <1>1, <1>2, <1>3, <2>1 DEF IInv, Feeding
<1>7. NothingYet'
  BY <1>1 DEF NothingYet, Later
<1>8. CallsGoUp'
  <2>1. ToSet(<<>>) = {} /\ Distinctly(<<>>)
    BY DEF ToSet, Distinctly
  <2>2. MaxPuts \in Nat /\ Len(chunk') \in Nat
    BY <1>1, DecodingAssumption DEF IInv, Feeding
  <2>3. \A i \in 1 .. Len(calls') : i = 1
    BY <1>5
  <2>4. h0 \in ToSet(di_list') \ ToSet(rest')
    BY <1>2, <1>3, <1>4
  <2>5. Fits(calls[1])'
    BY <1>2, <1>4, <1>5, <2>1, <2>2 DEF Fits
  <2>6. calls'[1].di = h0 /\ calls'[1].logic
    BY <1>5
  <2>7. \A i \in 1 .. Len(calls') :
           /\ Fits(calls[i])'
           /\ calls'[i].logic <=> i = 1
           /\ i = 1 => calls'[i].di \in ToSet(di_list') \ ToSet(rest')
           /\ i > 1 => calls'[i].di \in OnTop'[calls'[i - 1].di]
    BY <2>3, <2>4, <2>5, <2>6
  <2> QED BY <1>5, <2>3, <2>7 DEF CallsGoUp
<1>9. AllGiven'
  <2>1. ToSet(<<>>) = {}
    BY DEF ToSet
  <2>2. \A h, g : ~Pending(h, g)'
    BY <1>5, <2>1 DEF Pending
  <2>3. \A h, g : ~Pending(h, g)
    BY <1>1 DEF Pending
  <2> QED BY <1>1, <1>2, <2>2, <2>3 DEF IInv, AllGiven
<1>10. AllSeen'
  <2>1. sent \in Nat
    BY DEF IInv, Feeding
  <2>2. calls' # <<>> /\ calls'[1].di = h0 /\ calls'[1].itercnt = 0
    BY <1>5
  <2>3. ASSUME NEW h \in Insts PROVE SeenBy(h)' = SeenBy(h)
    <3>1. CASE h = h0
      <4>1. SeenBy(h) = sent
        BY <1>3, <1>4, <3>1 DEF SeenBy
      <4>2. SeenBy(h)' = sent' + calls'[1].itercnt
        BY ONLY <1>2, <1>3, <1>4, <2>2, <3>1 DEF SeenBy
      <4> QED BY <1>1, <2>1, <2>2, <4>1, <4>2
    <3>2. CASE h # h0
      BY <1>1, <1>2, <1>3, <1>4, <2>2, <3>2 DEF SeenBy
    <3> QED BY <3>1, <3>2
  <2> QED BY <1>1, <1>2, <2>3 DEF IInv, AllSeen
<1>11. AsMeasured' /\ PinsAreProbes' /\ Showing'
  BY <1>1, <1>2, MeasuredStays, PinsStay, ShowingStays DEF IInv
<1> QED BY <1>2, <1>6, <1>7, <1>8, <1>9, <1>10, <1>11 DEF IInv

\* An instance without a unit size is called: the program ends.
LEMMA DividesByZeroKeeps == IInv /\ DividesByZero => IInv'
<1> SUFFICES ASSUME IInv, DividesByZero PROVE IInv'
  OBVIOUS
<1>1. /\ pc = "send" /\ pc' = "crashed" /\ UNCHANGED setupVars
      /\ UNCHANGED <<feedVars, freed>> /\ calls = <<>>
  BY DEF DividesByZero
<1>2. /\ AsListed' /\ Trees' /\ Stacked' /\ Straight' /\ StackFreed'
      /\ UNCHANGED <<inst, di_list, visible, command, token>>
      /\ Insts' = Insts /\ OnTop' = OnTop
  BY <1>1, SetUpStays
<1>3. UNCHANGED <<started, sent, chunk, rest, calls, seen, put, got, raised, shown>>
  BY <1>1 DEF feedVars
<1>4. Feeding'
  BY <1>1, <1>2, <1>3 DEF IInv, Feeding
<1>5. NothingYet'
  BY <1>1 DEF NothingYet, Later
<1>6. CallsGoUp'
  BY <1>1, <1>2, <1>3 DEF IInv, CallsGoUp, Fits
<1>7. AllGiven'
  BY <1>1, <1>2, <1>3 DEF IInv, AllGiven, Pending
<1>8. AllSeen'
  BY <1>1, <1>2, <1>3 DEF IInv, AllSeen, SeenBy
<1>9. AsMeasured' /\ PinsAreProbes' /\ Showing'
  BY <1>1, <1>2, <1>3, MeasuredStays, PinsStay, ShowingStays DEF IInv
<1> QED BY <1>2, <1>4, <1>5, <1>6, <1>7, <1>8, <1>9 DEF IInv

\* All instances have decoded the packet.
LEMMA SendDoneKeeps == IInv /\ SendDone => IInv'
<1> SUFFICES ASSUME IInv, SendDone PROVE IInv'
  OBVIOUS
<1>1. /\ pc = "send" /\ pc' = "session" /\ UNCHANGED setupVars
      /\ UNCHANGED <<started, sized, rest, calls, seen, put, got, raised, shown, freed>>
      /\ calls = <<>> /\ rest = <<>>
      /\ sent' = sent + Len(chunk) /\ chunk' = <<>>
  BY DEF SendDone
<1>2. /\ AsListed' /\ Trees' /\ Stacked' /\ Straight' /\ StackFreed'
      /\ UNCHANGED <<inst, di_list, visible, command, token>>
      /\ Insts' = Insts /\ OnTop' = OnTop
  BY <1>1, SetUpStays
<1>3. /\ sent \in Nat /\ Len(chunk) \in Nat /\ sent + Len(chunk) <= Len(Signal)
      /\ MaxChunk \in Nat
  BY DecodingAssumption DEF IInv, Feeding
<1>4. Feeding'
  BY <1>1, <1>2, <1>3 DEF IInv, Feeding
<1>5. NothingYet'
  BY <1>1 DEF NothingYet, Later
<1>6. CallsGoUp'
  BY <1>1 DEF CallsGoUp
<1>7. AllGiven'
  BY <1>1, <1>2 DEF IInv, AllGiven, Pending
<1>8. AllSeen'
  <2>1. \A h \in Insts : SeenBy(h)' = SeenBy(h)
    <3>1. ToSet(rest) = {} /\ Len(chunk') = 0
      BY <1>1 DEF ToSet
    <3> QED BY <1>1, <1>2, <1>3, <3>1 DEF SeenBy
  <2> QED BY <1>1, <1>2, <2>1 DEF IInv, AllSeen
<1>9. AsMeasured'
  BY <1>1 DEF AsMeasured
<1>10. PinsAreProbes' /\ Showing'
  BY <1>1, <1>2, PinsStay, ShowingStays DEF IInv
<1> QED BY <1>2, <1>4, <1>5, <1>6, <1>7, <1>8, <1>9, <1>10 DEF IInv

-----------------------------------------------------------------------------
(* Calls of decode() *)

\* Fields of a call are set.
LEMMA PutsSet ==
    ASSUME NEW r \in Frames, NEW n \in Nat, NEW f, f = [r EXCEPT !.puts = n]
    PROVE  /\ f \in Frames /\ f.di = r.di /\ (f.logic <=> r.logic)
           /\ f.itercnt = r.itercnt /\ f.puts = n /\ f.targets = r.targets
<1> DEFINE T == Seq(Nat)
<1>1. Frames = [di : Nat, logic : BOOLEAN, itercnt : Nat, puts : Nat, targets : T]
  BY DEF Frames
<1> HIDE DEF T
<1> QED BY <1>1

\* One more sample is seen.
LEMMA ItercntSet ==
    ASSUME NEW r \in Frames, NEW n \in Nat, NEW f, f = [r EXCEPT !.itercnt = n]
    PROVE  /\ f \in Frames /\ f.di = r.di /\ (f.logic <=> r.logic)
           /\ f.itercnt = n /\ f.puts = r.puts /\ f.targets = r.targets
<1> DEFINE T == Seq(Nat)
<1>1. Frames = [di : Nat, logic : BOOLEAN, itercnt : Nat, puts : Nat, targets : T]
  BY DEF Frames
<1> HIDE DEF T
<1> QED BY <1>1

\* The last element is taken off.
LEMMA FrontOf ==
    ASSUME NEW S, NEW s \in Seq(S), Len(s) \in Nat \ {0}
    PROVE  /\ Front(s) \in Seq(S) /\ Len(Front(s)) = Len(s) - 1
           /\ \A i \in 1 .. Len(s) - 1 : Front(s)[i] = s[i]
<1> DEFINE n == Len(s) - 1
<1>1. n \in Nat /\ n <= Len(s)
  OBVIOUS
<1>2. Front(s) = SubSeq(s, 1, n)
  BY DEF Front
<1> HIDE DEF n
<1>3. /\ SubSeq(s, 1, n) \in Seq(S) /\ Len(SubSeq(s, 1, n)) = n
      /\ \A i \in 1 .. n : SubSeq(s, 1, n)[i] = s[i]
  BY <1>1
<1> QED BY <1>2, <1>3 DEF n

\* Calls are made while a packet is being sent.
LEMMA Calling ==
    ASSUME IInv, calls # <<>>
    PROVE  /\ pc = "send" /\ Len(calls) \in Nat \ {0}
           /\ calls \in Seq(Frames) /\ Top = calls[Len(calls)] /\ Top \in Frames
           /\ Top.di \in Insts /\ Fits(Top) /\ (Top.logic <=> Len(calls) = 1)
           /\ Top.di \in Nat /\ Top.itercnt \in Nat /\ Top.puts \in Nat
           /\ Top.targets \in Seq(Nat)
           /\ MaxPuts \in Nat /\ Len(chunk) \in Nat /\ sent \in Nat
<1>1. calls \in Seq(Frames)
  BY DEF IInv, CallsGoUp
<1>2. Len(calls) \in Nat \ {0} /\ Len(calls) \in 1 .. Len(calls)
  BY <1>1
<1>3. Top \in Frames /\ Fits(Top) /\ (Top.logic <=> Len(calls) = 1)
  <2>1. \A i \in 1 .. Len(calls) : Fits(calls[i]) /\ (calls[i].logic <=> i = 1)
    BY DEF IInv, CallsGoUp
  <2>2. calls[Len(calls)] \in Frames
    BY <1>1, <1>2, ElementOfSeq
  <2> QED BY <1>2, <2>1, <2>2 DEF Top
<1>4. pc = "send" /\ MaxPuts \in Nat /\ Len(chunk) \in Nat /\ sent \in Nat
  BY DecodingAssumption DEF IInv, Feeding
<1>5. /\ Top.di \in Nat /\ Top.itercnt \in Nat /\ Top.puts \in Nat
      /\ Top.targets \in Seq(Nat)
  BY <1>3 DEF Frames
<1> QED BY <1>1, <1>2, <1>3, <1>4, <1>5 DEF Top, Fits

\* The innermost call goes on.
LEMMA TopGoesOn ==
    ASSUME IInv, calls # <<>>, NEW f \in Frames,
           calls' = [calls EXCEPT ![Len(calls)] = f],
           UNCHANGED <<inst, di_list, rest, chunk>>,
           f.di = Top.di, f.logic <=> Top.logic, Fits(f)
    PROVE  /\ CallsGoUp' /\ Len(calls') = Len(calls)
           /\ \A i \in 1 .. Len(calls) :
                 calls'[i] = IF i = Len(calls) THEN f ELSE calls[i]
<1> DEFINE t == Len(calls)
           F == Frames
<1>1. /\ t \in Nat \ {0} /\ calls \in Seq(F) /\ f \in F
      /\ Top = calls[t]
  BY Calling
<1> HIDE DEF F
<1>2. /\ calls' \in Seq(F) /\ Len(calls') = t
      /\ \A i \in 1 .. t : calls'[i] = IF i = t THEN f ELSE calls[i]
  BY <1>1
<1> HIDE DEF t
<1>3. Insts' = Insts /\ OnTop' = OnTop
  BY DEF Insts, OnTop
<1>4. \A i \in 1 .. t : /\ calls'[i].di = calls[i].di
                        /\ calls'[i].logic <=> calls[i].logic
  BY <1>1, <1>2
<1>5. /\ \A i \in 1 .. t :
            /\ Fits(calls[i])
            /\ calls[i].logic <=> i = 1
            /\ i = 1 => calls[i].di \in ToSet(di_list) \ ToSet(rest)
            /\ i > 1 => calls[i].di \in OnTop[calls[i - 1].di]
      /\ \A i, j \in 1 .. t : calls[i].di = calls[j].di => i = j
  BY DEF IInv, CallsGoUp, t
<1>6. \A x : Fits(x)' <=> Fits(x)
  BY <1>3 DEF Fits
<1>7. \A i \in 1 .. t : Fits(calls[i])'
  <2>1. ASSUME NEW i \in 1 .. t PROVE Fits(calls[i])'
    <3>1. Fits(calls'[i])
      BY <1>2, <1>5
    <3> QED BY <3>1, <1>3 DEF Fits
  <2> QED BY <2>1
<1>8. \A i \in 1 .. t : i > 1 => i - 1 \in 1 .. t
  BY <1>1
<1>9. CallsGoUp'
  <2>1. \A i \in 1 .. t :
           /\ calls'[i].logic <=> i = 1
           /\ i = 1 => calls'[i].di \in ToSet(di_list') \ ToSet(rest')
           /\ i > 1 => calls'[i].di \in OnTop'[calls'[i - 1].di]
    BY <1>3, <1>4, <1>5, <1>8
  <2>2. \A i, j \in 1 .. t : calls'[i].di = calls'[j].di => i = j
    BY <1>4, <1>5
  <2> QED BY <1>2, <1>7, <2>1, <2>2 DEF CallsGoUp, F
<1> QED BY <1>2, <1>9 DEF t

\* The innermost call is over.
LEMMA TopIsOver ==
    ASSUME IInv, calls # <<>>, calls' = Front(calls),
           UNCHANGED <<inst, di_list, rest, chunk>>
    PROVE  /\ CallsGoUp' /\ Len(calls') = Len(calls) - 1
           /\ \A i \in 1 .. Len(calls) - 1 : calls'[i] = calls[i]
<1> DEFINE t == Len(calls)
           F == Frames
<1>1. t \in Nat \ {0} /\ calls \in Seq(F)
  BY Calling
<1> HIDE DEF F
<1>2. /\ calls' \in Seq(F) /\ Len(calls') = t - 1
      /\ \A i \in 1 .. t - 1 : calls'[i] = calls[i]
  BY <1>1, FrontOf
<1> HIDE DEF t
<1>3. Insts' = Insts /\ OnTop' = OnTop
  BY DEF Insts, OnTop
<1>4. /\ \A i \in 1 .. t :
            /\ Fits(calls[i])
            /\ calls[i].logic <=> i = 1
            /\ i = 1 => calls[i].di \in ToSet(di_list) \ ToSet(rest)
            /\ i > 1 => calls[i].di \in OnTop[calls[i - 1].di]
      /\ \A i, j \in 1 .. t : calls[i].di = calls[j].di => i = j
  BY DEF IInv, CallsGoUp, t
<1>5. \A i \in 1 .. t - 1 : Fits(calls[i])'
  <2>1. ASSUME NEW i \in 1 .. t - 1 PROVE Fits(calls[i])'
    <3>1. Fits(calls'[i])
      BY <1>1, <1>2, <1>4
    <3> QED BY <3>1, <1>3 DEF Fits
  <2> QED BY <2>1
<1>6. \A i \in 1 .. t - 1 : i \in 1 .. t /\ (i > 1 => i - 1 \in 1 .. t - 1)
  BY <1>1
<1>7. CallsGoUp'
  BY SMTT(30), <1>2, <1>3, <1>4, <1>5, <1>6 DEF CallsGoUp, F
<1> QED BY <1>2, <1>7 DEF t

\* What may still have to be given stays.
LEMMA GivenStays ==
    ASSUME AllGiven, UNCHANGED <<inst, put, got>>,
           \A h, g : Pending(h, g)' <=> Pending(h, g)
    PROVE  AllGiven'
<1>1. Insts' = Insts /\ OnTop' = OnTop
  BY DEF Insts, OnTop
<1> QED BY <1>1 DEF AllGiven

\* What is fed stays, but for calls, that go on or are over.
LEMMA FeedingStays ==
    ASSUME Feeding, pc = "send", UNCHANGED setupVars,
           UNCHANGED <<started, sized, sent, chunk, rest, freed, pc>>,
           shown' \subseteq Insts, raised' \in BOOLEAN,
           seen' \in Seq(Seq(Sights)), Len(seen') = Len(inst),
           put' \in Seq(Nat), Len(put') = Len(inst),
           got' \in Seq(Nat), Len(got') = Len(inst)
    PROVE  Feeding'
<1>1. UNCHANGED <<inst, di_list>> /\ Insts' = Insts
  BY DEF setupVars, Insts
<1> QED BY <1>1 DEF Feeding

\* put() of an annotation.
LEMMA PutAnnotationKeeps == IInv /\ PutAnnotation => IInv'
<1> SUFFICES ASSUME IInv, PutAnnotation PROVE IInv'
  OBVIOUS
<1> DEFINE t == Len(calls)
           f == [Top EXCEPT !.puts = @ + 1]
<1>1. /\ calls # <<>> /\ Top.targets = <<>> /\ Top.puts < MaxPuts
      /\ calls' = [calls EXCEPT ![Len(calls)].puts = @ + 1]
      /\ UNCHANGED setupVars /\ UNCHANGED pc
      /\ UNCHANGED <<started, sized, sent, chunk, rest, seen, put, got, raised, freed>>
  BY DEF PutAnnotation, MayPut, Runs
<1>2. PICK format \in 0 .. Class(Top.di).annotations :
         shown' = IF /\ format < Class(Top.di).annotations
                     /\ <<inst[Top.di].inst_id, format>> \in visible
                  THEN shown \cup {Top.di} ELSE shown
  BY DEF PutAnnotation
<1>3. /\ pc = "send" /\ t \in Nat \ {0} /\ Top \in Frames /\ Top = calls[t]
      /\ Top.di \in Insts /\ Fits(Top) /\ Top.puts \in Nat /\ MaxPuts \in Nat
  BY <1>1, Calling
<1>4. /\ AsListed' /\ Trees' /\ Stacked' /\ Straight' /\ StackFreed'
      /\ UNCHANGED <<inst, di_list, visible, command, token>>
      /\ Insts' = Insts /\ OnTop' = OnTop
      /\ (Distinct' <=> Distinct)
  BY <1>1, <1>3, SetUpStays
<1>5. /\ f \in Frames /\ f.di = Top.di /\ (f.logic <=> Top.logic) /\ Fits(f)
      /\ f.targets = Top.targets /\ f.itercnt = Top.itercnt
      /\ calls' = [calls EXCEPT ![t] = f]
  <2>1. f \in Frames /\ f.di = Top.di /\ (f.logic <=> Top.logic)
        /\ f.targets = Top.targets /\ f.itercnt = Top.itercnt
        /\ f.puts = Top.puts + 1
    <3>1. Top.puts + 1 \in Nat
      BY <1>3
    <3>2. f = [Top EXCEPT !.puts = Top.puts + 1]
      OBVIOUS
    <3> HIDE DEF f
    <3> QED BY ONLY <1>3, <3>1, <3>2, PutsSet
  <2>2. calls' = [calls EXCEPT ![t] = f]
    BY <1>1, <1>3
  <2> HIDE DEF f
  <2>3. Fits(f)
    BY <2>1, <1>1, <1>3 DEF Fits
  <2> QED BY <2>1, <2>2, <2>3
<1> HIDE DEF f
<1>6. /\ CallsGoUp' /\ Len(calls') = t
      /\ \A i \in 1 .. t : calls'[i] = IF i = t THEN f ELSE calls[i]
  BY <1>1, <1>4, <1>5, TopGoesOn
<1>7. \A i \in 1 .. t : /\ calls'[i].di = calls[i].di
                        /\ calls'[i].targets = calls[i].targets
                        /\ calls'[i].itercnt = calls[i].itercnt
  BY <1>3, <1>5, <1>6
<1>8. AllGiven'
  <2>1. \A h, g : Pending(h, g)' <=> Pending(h, g)
    BY <1>6, <1>7 DEF Pending
  <2> QED BY <1>1, <1>4, <2>1, GivenStays DEF IInv
<1>9. shown' \subseteq Insts
  BY <1>2, <1>3 DEF IInv, Feeding
<1>10. Feeding'
  BY <1>1, <1>3, <1>9, FeedingStays DEF IInv, Feeding
<1>11. NothingYet'
  BY <1>1, <1>3 DEF NothingYet, Later
<1>12. AllSeen'
  <2>1. calls' # <<>> /\ calls'[1].di = calls[1].di /\ calls'[1].itercnt = calls[1].itercnt
    BY <1>3, <1>6, <1>7
  <2>2. \A h \in Insts : SeenBy(h)' = SeenBy(h)
    BY <1>1, <1>4, <2>1 DEF SeenBy
  <2> QED BY <1>1, <1>4, <2>2 DEF IInv, AllSeen
<1>13. AsMeasured' /\ PinsAreProbes'
  BY <1>1, <1>4, MeasuredStays, PinsStay DEF IInv
<1>14. Showing'
  <2>1. ASSUME Distinct, command.stack = <<>>, command.annotations = <<>>,
               <<inst[Top.di].inst_id, format>> \in visible
        PROVE  Top.di = Len(inst)
    <3>1. PICK h \in Insts : inst[Top.di].inst_id = inst[h].inst_id /\ h >= token - 1
      BY <1>3, <2>1 DEF IInv, Showing
    <3>2. /\ token > Len(command.pds) /\ Len(inst) = Len(command.pds)
          /\ token \in Nat /\ Len(inst) \in Nat /\ Insts = 1 .. Len(inst)
      BY <1>3, <2>1, TopOf DEF IInv, Straight, Stacked, AsListed
    <3>3. h = Len(inst)
      BY <3>1, <3>2
    <3>4. /\ h \in 1 .. Len(command.pds)
          /\ inst[h].inst_id = InstId(command.pds[h].class, command.pds[h].args)
      BY <3>1, <3>2 DEF IInv, AsListed, MadeOf
    <3>5. command.pds \in Seq(ToSet(command.pds))
      BY DecodingAssumption DEF IInv, AsListed
    <3>6. inst[h].inst_id = command.pds[h].class
      BY <2>1, <3>4, <3>5 DEF InstId, Distinct
    <3>7. Top.di = h
      BY <1>3, <2>1, <3>1, <3>4, <3>6, NamedOnce DEF IInv
    <3> QED BY <3>3, <3>7
  <2>2. Distinct /\ command.stack = <<>> /\ command.annotations = <<>>
        => shown' \subseteq {Len(inst)}
    BY <1>2, <2>1 DEF IInv, Showing
  <2> QED BY <1>1, <1>4, <2>2 DEF IInv, Showing
<1> QED BY <1>4, <1>6, <1>8, <1>10, <1>11, <1>12, <1>13, <1>14 DEF IInv

\* put() for the decoders on top.
LEMMA PutProtoKeeps == IInv /\ PutProto => IInv'
<1> SUFFICES ASSUME IInv, PutProto PROVE IInv'
  OBVIOUS
<1> DEFINE t == Len(calls)
           next == inst[Top.di].next_di
           f == [Top EXCEPT !.puts = @ + 1, !.targets = next]
<1> PICK d : d = Top.di
  OBVIOUS
<1>1. /\ calls # <<>> /\ Top.targets = <<>> /\ Top.puts < MaxPuts
      /\ calls' = [calls EXCEPT ![Len(calls)].puts = @ + 1,
                                ![Len(calls)].targets = inst[Top.di].next_di]
      /\ put' = [put EXCEPT ![Top.di] = @ + 1]
      /\ UNCHANGED setupVars /\ UNCHANGED pc
      /\ UNCHANGED <<started, sized, sent, chunk, rest, seen, got, raised, shown, freed>>
  BY DEF PutProto, MayPut, Runs
<1>3. /\ pc = "send" /\ t \in Nat \ {0} /\ Top \in Frames /\ Top = calls[t]
      /\ d \in Insts /\ Fits(Top) /\ Top.puts \in Nat /\ MaxPuts \in Nat
      /\ d = calls[t].di /\ d = Top.di
  BY <1>1, Calling
<1>4. /\ AsListed' /\ Trees' /\ Stacked' /\ Straight' /\ StackFreed'
      /\ UNCHANGED <<inst, di_list, visible, command, token>>
      /\ Insts' = Insts /\ OnTop' = OnTop
  BY <1>1, <1>3, SetUpStays
<1>5. /\ next \in Seq(Nat) /\ Distinctly(next) /\ ToSet(next) = OnTop[d]
  BY <1>3, TopOf DEF IInv, Trees
<1> HIDE DEF next
<1>6. /\ f \in Frames /\ f.di = d /\ (f.logic <=> Top.logic) /\ Fits(f)
      /\ f.targets = next /\ f.itercnt = Top.itercnt
      /\ calls' = [calls EXCEPT ![t] = f]
  <2>1. f \in Frames /\ f.di = Top.di /\ (f.logic <=> Top.logic)
        /\ f.targets = next /\ f.itercnt = Top.itercnt
        /\ f.puts = Top.puts + 1
    <3>1. Top.puts + 1 \in Nat
      BY <1>3
    <3>2. f = [Top EXCEPT !.puts = Top.puts + 1, !.targets = next]
      OBVIOUS
    <3> HIDE DEF f
    <3> DEFINE T == Seq(Nat)
    <3>3. /\ next \in T
          /\ Frames = [di : Nat, logic : BOOLEAN, itercnt : Nat, puts : Nat,
                       targets : T]
      BY <1>5 DEF Frames
    <3> HIDE DEF T
    <3> QED BY ONLY <1>3, <3>1, <3>2, <3>3
  <2>2. calls' = [calls EXCEPT ![t] = f]
    BY <1>1, <1>3 DEF next
  <2> HIDE DEF f
  <2>3. Fits(f)
    BY <2>1, <1>1, <1>3, <1>5 DEF Fits
  <2> QED BY <2>1, <2>2, <2>3
<1> HIDE DEF f
<1>7. /\ CallsGoUp' /\ Len(calls') = t
      /\ \A i \in 1 .. t : calls'[i] = IF i = t THEN f ELSE calls[i]
  BY <1>1, <1>4, <1>6, TopGoesOn
<1>8. /\ \A i \in 1 .. t : /\ calls'[i].di = calls[i].di
                           /\ calls'[i].itercnt = calls[i].itercnt
                           /\ i # t => calls'[i].targets = calls[i].targets
      /\ calls'[t].targets = next
  BY <1>3, <1>6, <1>7
<1>9. /\ put' \in Seq(Nat) /\ Len(put') = Len(inst)
      /\ \A h \in Insts : put'[h] = IF h = d THEN put[h] + 1 ELSE put[h]
  <2>1. put \in Seq(Nat) /\ Len(put) = Len(inst) /\ Insts = 1 .. Len(inst)
        /\ Len(inst) \in Nat
    BY TopOf DEF IInv, Feeding
  <2> QED BY SMTT(30), <1>1, <1>3, <2>1
<1>10. AllGiven'
  <2>1. \A i, j \in 1 .. t : calls[i].di = calls[j].di => i = j
    BY DEF IInv, CallsGoUp
  <2>2. \A h, g : h # d => (Pending(h, g)' <=> Pending(h, g))
    BY <1>3, <1>7, <1>8 DEF Pending
  <2>3. \A g \in OnTop[d] : Pending(d, g)'
    <3>1. t \in 1 .. Len(calls') /\ calls'[t].di = d /\ ToSet(calls'[t].targets) = OnTop[d]
      BY <1>3, <1>5, <1>7, <1>8
    <3> QED BY <3>1, Zenon DEF Pending
  <2>4. \A g : ~Pending(d, g)
    <3>1. ToSet(Top.targets) = {}
      BY <1>1 DEF ToSet
    <3> QED BY <1>3, <2>1, <3>1 DEF Pending
  <2>5. ASSUME NEW h \in Insts, NEW g \in OnTop[h]
        PROVE  put'[h] = got'[g] + IF Pending(h, g)' THEN 1 ELSE 0
    <3>1. put[h] = got[g] + IF Pending(h, g) THEN 1 ELSE 0
      BY DEF IInv, AllGiven
    <3>2. got[g] \in Nat /\ got' = got
      <4>1. OnTop[h] \subseteq Insts
        BY DEF IInv, Trees
      <4>2. got \in Seq(Nat) /\ Len(got) = Len(inst) /\ Insts = 1 .. Len(inst)
        BY TopOf DEF IInv, Feeding
      <4> QED BY <1>1, <4>1, <4>2
    <3>3. CASE h = d
      <4>1. ~Pending(h, g) /\ Pending(h, g)'
        BY <2>3, <2>4, <3>3, Zenon
      <4>2. put[h] = got[g] + 0
        BY <3>1, <4>1
      <4> QED BY <1>9, <3>2, <3>3, <4>1, <4>2
    <3>4. CASE h # d
      <4>1. Pending(h, g)' <=> Pending(h, g)
        BY <2>2, <3>4
      <4> QED BY <1>9, <3>1, <3>2, <3>4, <4>1
    <3> QED BY <3>3, <3>4
  <2> QED BY <1>4, <2>5 DEF AllGiven
<1>11. Feeding'
  BY <1>1, <1>3, <1>9, FeedingStays DEF IInv, Feeding
<1>12. NothingYet'
  BY <1>1, <1>3 DEF NothingYet, Later
<1>13. AllSeen'
  <2>1. calls' # <<>> /\ calls'[1].di = calls[1].di /\ calls'[1].itercnt = calls[1].itercnt
    BY <1>3, <1>7, <1>8
  <2>2. \A h \in Insts : SeenBy(h)' = SeenBy(h)
    BY <1>1, <1>4, <2>1 DEF SeenBy
  <2> QED BY <1>1, <1>4, <2>2 DEF IInv, AllSeen
<1>14. AsMeasured' /\ PinsAreProbes' /\ Showing'
  BY <1>1, <1>3, <1>4, MeasuredStays, PinsStay, ShowingStays DEF IInv
<1> QED BY <1>4, <1>7, <1>10, <1>11, <1>12, <1>13, <1>14 DEF IInv

\* The probe map has an entry for every probe of the decoder.
LEMMA ProbeMapOf ==
    ASSUME AsListed, NEW h \in Insts
    PROVE  /\ Len(Probes(inst[h].decoder)) \in Nat
           /\ DOMAIN inst[h].dec_probemap = 1 .. Len(Probes(inst[h].decoder))
           /\ Len(inst[h].dec_probemap) = Len(Probes(inst[h].decoder))
<1>1. /\ command \in Commands /\ h \in 1 .. Len(command.pds)
      /\ <<inst[h].decoder, inst[h].inst_id, inst[h].dec_probemap>>
         = MadeOf(command.pds[h])
  <2>1. command.pds \in Seq(ToSet(command.pds))
    BY DecodingAssumption DEF AsListed
  <2> QED BY <2>1, TopOf DEF AsListed
<1> DEFINE c == command.pds[h].class
           P == Probes(c)
           m == inst[h].dec_probemap
<1>2. c \in DOMAIN Classes
  <2>1. /\ command.pds \in Seq(ToSet(command.pds))
        /\ \A i \in DOMAIN command.pds : command.pds[i].class \in DOMAIN Classes
    BY <1>1, DecodingAssumption
  <2> QED BY <1>1, <2>1
<1>3. inst[h].decoder = c /\ m = ProbeMap(c, command.pds[h].args)
  BY <1>1 DEF MadeOf
<1>4. P \in Seq(STRING)
  <2>1. Classes[c].probes \in Seq(STRING) /\ Classes[c].opt_probes \in Seq(STRING)
    BY <1>2, DecodingAssumption
  <2> QED BY <2>1, ConcatProperties DEF Probes
<1>5. DOMAIN m = DOMAIN P
  BY <1>3 DEF ProbeMap
<1> HIDE DEF P, m
<1>6. Len(P) \in Nat /\ DOMAIN m = 1 .. Len(P)
  BY <1>4, <1>5
<1>7. m = [i \in 1 .. Len(P) |-> m[i]]
  <2>1. m = [i \in DOMAIN P |-> m[i]]
    BY <1>3, <1>5 DEF ProbeMap, P
  <2> QED BY <2>1, <1>5, <1>6
<1>8. Len(m) = Len(P)
  <2> DEFINE V == {m[i] : i \in 1 .. Len(P)}
  <2>1. m \in [1 .. Len(P) -> V]
    BY <1>7
  <2>2. m \in Seq(V)
    BY <1>6, <2>1
  <2> HIDE DEF V
  <2> QED BY <1>6, <2>2
<1> QED BY <1>3, <1>6, <1>8 DEF P, m

\* The logic iterator hands out a sample.
LEMMA IterNextKeeps == IInv /\ IterNext => IInv'
<1> SUFFICES ASSUME IInv, IterNext PROVE IInv'
  OBVIOUS
<1> PICK d : d = Top.di
  OBVIOUS
<1> PICK c : c = Top.itercnt
  OBVIOUS
<1> DEFINE t == Len(calls)
           f == [Top EXCEPT !.itercnt = @ + 1]
<1>1. /\ calls # <<>> /\ Top.targets = <<>> /\ Top.logic /\ c < Len(chunk)
      /\ calls' = [calls EXCEPT ![Len(calls)].itercnt = @ + 1]
      /\ UNCHANGED setupVars /\ UNCHANGED pc
      /\ UNCHANGED <<started, sized, sent, chunk, rest, put, got, raised, shown, freed>>
  BY DEF IterNext, Runs
<1>2. PICK g \in Garbage(OutUnitsize) :
         seen' = [seen EXCEPT ![d] =
                     Append(@, [num |-> sent + c, pins |-> Pins(d, chunk[c + 1] \cup g)])]
  BY DEF IterNext
<1>3. /\ pc = "send" /\ t = 1 /\ Top \in Frames /\ Top = calls[1]
      /\ d \in Insts /\ Fits(Top) /\ c \in Nat /\ sent \in Nat
      /\ d = calls[1].di /\ d = Top.di /\ Len(chunk) \in Nat
      /\ c = Top.itercnt
  BY <1>1, Calling
<1>4. /\ AsListed' /\ Trees' /\ Stacked' /\ Straight' /\ StackFreed'
      /\ UNCHANGED <<inst, di_list, visible, command, token>>
      /\ Insts' = Insts /\ OnTop' = OnTop
  BY <1>1, <1>3, SetUpStays
<1>5. /\ f \in Frames /\ f.di = Top.di /\ (f.logic <=> Top.logic) /\ Fits(f)
      /\ f.targets = Top.targets /\ f.itercnt = c + 1
      /\ calls' = [calls EXCEPT ![t] = f]
  <2>1. f \in Frames /\ f.di = Top.di /\ (f.logic <=> Top.logic)
        /\ f.targets = Top.targets /\ f.itercnt = c + 1
        /\ f.puts = Top.puts
    <3>1. Top.itercnt + 1 \in Nat
      BY <1>3
    <3>2. f = [Top EXCEPT !.itercnt = Top.itercnt + 1]
      OBVIOUS
    <3> HIDE DEF f
    <3> QED BY ONLY <1>3, <3>1, <3>2, ItercntSet
  <2>2. calls' = [calls EXCEPT ![t] = f]
    BY <1>1, <1>3
  <2> HIDE DEF f
  <2>3. Fits(f)
    BY <2>1, <1>1, <1>3 DEF Fits
  <2> QED BY <2>1, <2>2, <2>3
<1> HIDE DEF f
<1>6. /\ CallsGoUp' /\ Len(calls') = 1 /\ calls'[1] = f
  <2>1. /\ CallsGoUp' /\ Len(calls') = t
        /\ \A i \in 1 .. t : calls'[i] = IF i = t THEN f ELSE calls[i]
    BY <1>1, <1>4, <1>5, TopGoesOn
  <2> QED BY <1>3, <2>1
<1>7. AllGiven'
  <2>1. calls'[1].di = calls[1].di /\ calls'[1].targets = calls[1].targets
    BY <1>3, <1>5, <1>6
  <2>2. \A h, k : Pending(h, k)' <=> Pending(h, k)
    BY <1>3, <1>6, <2>1 DEF Pending
  <2> QED BY <1>1, <1>4, <2>2, GivenStays DEF IInv
<1> DEFINE s0 == [num |-> sent + c, pins |-> Pins(d, chunk[c + 1] \cup g)]
<1>8. s0 \in Sights /\ s0.num = sent + c /\ s0.pins = Pins(d, chunk[c + 1] \cup g)
  <2>1. Pins(d, chunk[c + 1] \cup g) \in Seq({0, 1, 42})
    <3> DEFINE n == Len(Probes(inst[d].decoder))
    <3>1. n \in Nat /\ DOMAIN inst[d].dec_probemap = 1 .. n
      BY <1>3, ProbeMapOf DEF IInv
    <3> HIDE DEF n
    <3> DEFINE V == {0, 1, 42}
               r == Pins(d, chunk[c + 1] \cup g)
    <3>2. r \in [1 .. n -> V]
      BY <3>1 DEF Pins
    <3> HIDE DEF V, r
    <3>3. r \in Seq(V)
      BY <3>1, <3>2
    <3> QED BY ONLY <3>3, Zenon DEF V, r
  <2> HIDE DEF Pins
  <2>2. sent + c \in Nat
    BY <1>3
  <2> QED BY <2>1, <2>2 DEF Sights
<1> HIDE DEF s0
<1>9. /\ seen \in Seq(Seq(Sights)) /\ Len(seen) = Len(inst)
      /\ Insts = 1 .. Len(inst) /\ Len(inst) \in Nat
  BY TopOf DEF IInv, Feeding
<1> DEFINE Q == Seq(Sights)
<1>10. /\ seen[d] \in Seq(Sights) /\ Append(seen[d], s0) \in Q
       /\ Len(Append(seen[d], s0)) = Len(seen[d]) + 1
       /\ \A i \in 1 .. Len(seen[d]) : Append(seen[d], s0)[i] = seen[d][i]
       /\ Append(seen[d], s0)[Len(seen[d]) + 1] = s0
       /\ Len(seen[d]) \in Nat
  <2>1. seen[d] \in Seq(Sights)
    BY <1>3, <1>9
  <2> QED BY <1>8, <2>1, AppendProperties
<1>11. /\ seen' \in Seq(Seq(Sights)) /\ Len(seen') = Len(inst)
       /\ \A h \in Insts : seen'[h] = IF h = d THEN Append(seen[d], s0) ELSE seen[h]
  <2>1. seen' = [seen EXCEPT ![d] = Append(seen[d], s0)]
    BY <1>2 DEF s0
  <2>2. seen \in Seq(Q) /\ Append(seen[d], s0) \in Q
    BY <1>9, <1>10
  <2>3. \A a \in Q : [seen EXCEPT ![d] = a] \in Seq(Q)
                     /\ Len([seen EXCEPT ![d] = a]) = Len(seen)
                     /\ \A h \in 1 .. Len(seen) :
                           [seen EXCEPT ![d] = a][h] = IF h = d THEN a ELSE seen[h]
    <3> HIDE DEF Q
    <3> QED BY <2>2, <1>3, <1>9
  <2> QED BY <1>9, <2>1, <2>2, <2>3
<1>12. Feeding'
  <2>1. Feeding /\ shown' \subseteq Insts /\ raised' \in BOOLEAN
        /\ put' \in Seq(Nat) /\ Len(put') = Len(inst)
        /\ got' \in Seq(Nat) /\ Len(got') = Len(inst)
    BY <1>1 DEF IInv, Feeding
  <2> QED BY <1>1, <1>3, <1>11, <2>1, FeedingStays
<1>13. NothingYet'
  BY <1>1, <1>3 DEF NothingYet, Later
<1>14. AllSeen'
  <2>1. ASSUME ~raised, NEW h \in Insts
        PROVE  /\ Len(seen'[h]) = SeenBy(h)'
               /\ \A i \in DOMAIN seen'[h] : seen'[h][i].num = i - 1
    <3>1. /\ Len(seen[h]) = SeenBy(h)
          /\ \A i \in DOMAIN seen[h] : seen[h][i].num = i - 1
      BY <1>3, <2>1 DEF IInv, AllSeen
    <3>2. d \in ToSet(di_list) /\ d \notin ToSet(rest)
      BY <1>3 DEF IInv, CallsGoUp
    <3>3. calls' # <<>> /\ calls'[1].di = d /\ calls'[1].itercnt = c + 1
      BY <1>3, <1>5, <1>6
    <3>4. CASE h = d
      <4>1. SeenBy(h) = sent + c
        BY <1>1, <1>3, <3>2, <3>4 DEF SeenBy
      <4>2. SeenBy(h)' = sent' + calls'[1].itercnt
        BY ONLY <1>1, <1>4, <3>2, <3>3, <3>4 DEF SeenBy
      <4>3. seen'[h] = Append(seen[d], s0)
        BY <1>11, <3>4
      <4>4. Len(seen'[h]) = SeenBy(h)'
        <5>1. Len(seen'[h]) = Len(seen[d]) + 1 /\ Len(seen[d]) = sent + c
          BY <1>10, <3>1, <3>4, <4>1, <4>3
        <5>2. SeenBy(h)' = sent + (c + 1)
          BY <1>1, <3>3, <4>2
        <5> QED BY ONLY <1>3, <5>1, <5>2
      <4>5. \A i \in DOMAIN seen[d] : seen[d][i].num = i - 1
        BY <3>1, <3>4
      <4>6. DOMAIN seen[d] = 1 .. Len(seen[d])
            /\ DOMAIN Append(seen[d], s0) = 1 .. Len(seen[d]) + 1
            /\ Len(seen[d]) = sent + c
        BY <1>10, <3>1, <3>4, <4>1
      <4>7. \A i \in 1 .. Len(seen[d]) + 1 : i \in 1 .. Len(seen[d]) \/ i = Len(seen[d]) + 1
        BY <1>10
      <4>8. (Len(seen[d]) + 1) - 1 = sent + c
        BY <1>3, <4>6
      <4> QED BY <1>8, <1>10, <4>3, <4>4, <4>5, <4>6, <4>7, <4>8
    <3>5. CASE h # d
      <4>1. SeenBy(h)' = SeenBy(h)
        BY <1>1, <1>3, <1>4, <3>3, <3>5 DEF SeenBy
      <4>2. seen'[h] = seen[h]
        BY <1>11, <3>5
      <4> QED BY <3>1, <4>1, <4>2
    <3> QED BY <3>4, <3>5
  <2> QED BY <1>1, <1>4, <2>1 DEF AllSeen
<1>15. PinsAreProbes'
  <2> DEFINE Good(h, s) ==
          \A p \in DOMAIN inst[h].dec_probemap :
              LET k == inst[h].dec_probemap[p]
              IN /\ k = None => s.pins[p] = 42
                 /\ k \in 0 .. Len(Enabled) - 1 /\ Enabled[k + 1] < IntBits /\ Len(Enabled) <= IntBits =>
                       (s.pins[p] = 1) <=> (Enabled[k + 1] - 1 \in Signal[s.num + 1])
  <2>1. \A h \in Insts : \A i \in DOMAIN seen[h] : Good(h, seen[h][i])
    BY DEF IInv, PinsAreProbes
  <2>2. Good(d, s0)
    <3> SUFFICES ASSUME NEW p \in DOMAIN inst[d].dec_probemap
                 PROVE  LET k == inst[d].dec_probemap[p]
                        IN /\ k = None => s0.pins[p] = 42
                           /\ k \in 0 .. Len(Enabled) - 1 /\ Enabled[k + 1] < IntBits /\ Len(Enabled) <= IntBits =>
                                 (s0.pins[p] = 1)
                                 <=> (Enabled[k + 1] - 1 \in Signal[s0.num + 1])
      OBVIOUS
    <3> PICK k : k = inst[d].dec_probemap[p]
      OBVIOUS
    <3>1. s0.pins[p] = IF k = None THEN 42
                       ELSE IF Tests(chunk[c + 1] \cup g, k) THEN 1 ELSE 0
      BY <1>8 DEF Pins
    <3>2. ASSUME k \in 0 .. Len(Enabled) - 1, Enabled[k + 1] < IntBits, Len(Enabled) <= IntBits
          PROVE  (s0.pins[p] = 1) <=> (Enabled[k + 1] - 1 \in Signal[s0.num + 1])
      <4>1. k # None
        BY <3>2 DEF None
      <4>2. s0.pins[p] = 1 <=> Tests(chunk[c + 1] \cup g, k)
        BY <3>1, <4>1
      <4>3. Tests(chunk[c + 1] \cup g, k) <=> k \in chunk[c + 1]
        BY <3>2, TestedAsMeasured
      <4>4. c + 1 \in 1 .. Len(chunk)
        BY <1>1, <1>3
      <4>5. k \in chunk[c + 1] <=> Enabled[k + 1] - 1 \in Signal[sent + (c + 1)]
        BY <3>2, <4>4 DEF IInv, AsMeasured
      <4>6. s0.num + 1 = sent + (c + 1)
        BY <1>3, <1>8
      <4> QED BY <4>2, <4>3, <4>5, <4>6
    <3> QED BY <3>1, <3>2
  <2> HIDE DEF Good
  <2>3. ASSUME NEW h \in Insts, NEW i \in DOMAIN seen'[h] PROVE Good(h, seen'[h][i])
    <3>1. CASE h = d
      <4>1. seen'[h] = Append(seen[d], s0)
        BY <1>11, <3>1
      <4>2. DOMAIN seen[d] = 1 .. Len(seen[d])
            /\ DOMAIN Append(seen[d], s0) = 1 .. Len(seen[d]) + 1
        BY <1>10
      <4>3. \A j \in 1 .. Len(seen[d]) + 1 : j \in 1 .. Len(seen[d]) \/ j = Len(seen[d]) + 1
        BY <1>10
      <4> QED BY <1>10, <2>1, <2>2, <3>1, <4>1, <4>2, <4>3
    <3>2. CASE h # d
      <4>1. seen'[h] = seen[h]
        BY <1>11, <3>2
      <4> QED BY <2>1, <4>1
    <3> QED BY <3>1, <3>2
  <2> QED BY <1>4, <2>3 DEF PinsAreProbes, Good
<1>16. AsMeasured' /\ Showing'
  BY <1>1, <1>3, <1>4, MeasuredStays, ShowingStays DEF IInv
<1> QED BY <1>4, <1>6, <1>7, <1>12, <1>13, <1>14, <1>15, <1>16 DEF IInv

\* put() calls decode() of one instance on top.
LEMMA DeliverKeeps == IInv /\ Deliver => IInv'
<1> SUFFICES ASSUME IInv, Deliver PROVE IInv'
  OBVIOUS
<1> PICK d : d = Top.di
  OBVIOUS
<1> PICK g : g = Head(Top.targets)
  OBVIOUS
<1> PICK new : new = Frame(g, FALSE)
  OBVIOUS
<1> PICK t : t = Len(calls)
  OBVIOUS
<1> DEFINE left == Tail(Top.targets)
           f == [Top EXCEPT !.targets = left]
           mid == [calls EXCEPT ![t] = f]
<1>1. /\ calls # <<>> /\ Top.targets # <<>>
      /\ calls' = Append([calls EXCEPT ![Len(calls)].targets = Tail(@)], new)
      /\ got' = [got EXCEPT ![g] = @ + 1]
      /\ UNCHANGED setupVars /\ UNCHANGED pc
      /\ UNCHANGED <<started, sized, sent, chunk, rest, seen, put, raised, shown, freed>>
  BY DEF Deliver
<1>2. /\ pc = "send" /\ t \in Nat \ {0} /\ Top \in Frames /\ Top = calls[t]
      /\ d \in Insts /\ Fits(Top) /\ d = calls[t].di /\ d = Top.di
      /\ Top.targets \in Seq(Nat) /\ calls \in Seq(Frames) /\ t = Len(calls)
      /\ MaxPuts \in Nat /\ Len(chunk) \in Nat
  BY <1>1, Calling
<1>3. /\ AsListed' /\ Trees' /\ Stacked' /\ Straight' /\ StackFreed'
      /\ UNCHANGED <<inst, di_list, visible, command, token>>
      /\ Insts' = Insts /\ OnTop' = OnTop
  BY <1>1, <1>2, SetUpStays
<1>4. /\ g \in ToSet(Top.targets) /\ left \in Seq(Nat) /\ Distinctly(left)
      /\ ToSet(left) = ToSet(Top.targets) \ {g}
  BY <1>1, <1>2, BeheadedOf DEF Fits
<1>5. /\ ToSet(Top.targets) \subseteq OnTop[d] /\ OnTop[d] \subseteq Insts
      /\ g \in OnTop[d] /\ g \in Insts /\ g \in Nat
      /\ Insts = 1 .. Len(inst) /\ Len(inst) \in Nat
  BY SMTT(30), <1>2, <1>4, TopOf DEF Fits, IInv, Trees
<1> HIDE DEF left
<1>6. /\ f \in Frames /\ f.di = d /\ (f.logic <=> Top.logic)
      /\ f.targets = left /\ f.itercnt = Top.itercnt /\ f.puts = Top.puts
      /\ calls' = Append(mid, new)
  <2>1. /\ f \in Frames /\ f.di = d /\ (f.logic <=> Top.logic)
        /\ f.targets = left /\ f.itercnt = Top.itercnt /\ f.puts = Top.puts
    <3>1. f = [Top EXCEPT !.targets = left]
      OBVIOUS
    <3> DEFINE T == Seq(Nat)
    <3>2. /\ left \in T
          /\ Frames = [di : Nat, logic : BOOLEAN, itercnt : Nat, puts : Nat,
                       targets : T]
      BY <1>4 DEF Frames
    <3> HIDE DEF T, f
    <3> QED BY ONLY <1>2, <3>1, <3>2
  <2>2. calls' = Append(mid, new)
    BY <1>1, <1>2 DEF left
  <2> QED BY <2>1, <2>2
<1> HIDE DEF f
<1>7. /\ new \in Frames /\ new.di = g /\ ~new.logic /\ new.itercnt = 0
      /\ new.puts = 0 /\ new.targets = <<>>
  BY <1>5 DEF Frame, Frames
<1> DEFINE F == Frames
<1>8. /\ mid \in Seq(F) /\ Len(mid) = t /\ new \in F
      /\ \A i \in 1 .. t : mid[i] = IF i = t THEN f ELSE calls[i]
  <2>1. calls \in Seq(F) /\ f \in F
    BY <1>2, <1>6
  <2>2. new \in F
    BY <1>7
  <2>3. t \in Nat \ {0} /\ t = Len(calls)
    BY <1>2
  <2> HIDE DEF F
  <2> QED BY ONLY <2>1, <2>2, <2>3
<1> HIDE DEF mid, F
<1>9. /\ calls' \in Seq(F) /\ Len(calls') = t + 1
      /\ \A i \in 1 .. t : calls'[i] = IF i = t THEN f ELSE calls[i]
      /\ calls'[t + 1] = new
  <2>1. /\ calls' \in Seq(F) /\ Len(calls') = Len(mid) + 1
        /\ \A i \in 1 .. Len(mid) : calls'[i] = mid[i]
        /\ calls'[Len(mid) + 1] = new
    <3>1. calls' = Append(mid, new)
      BY <1>6
    <3> QED BY ONLY <1>8, <3>1, AppendProperties
  <2> QED BY <1>8, <2>1
<1>10. /\ \A i \in 1 .. t : /\ calls'[i].di = calls[i].di
                            /\ calls'[i].logic <=> calls[i].logic
                            /\ calls'[i].itercnt = calls[i].itercnt
                            /\ i # t => calls'[i].targets = calls[i].targets
       /\ calls'[t].targets = left
       /\ calls'[t + 1].di = g /\ ~calls'[t + 1].logic
       /\ calls'[t + 1].targets = <<>>
  <2>1. ASSUME NEW i \in 1 .. t
        PROVE  /\ calls'[i].di = calls[i].di
               /\ calls'[i].logic <=> calls[i].logic
               /\ calls'[i].itercnt = calls[i].itercnt
               /\ i # t => calls'[i].targets = calls[i].targets
    <3>1. CASE i = t
      <4>1. calls'[i] = f /\ calls[i] = Top
        BY <1>2, <1>9, <3>1
      <4> QED BY <1>2, <1>6, <3>1, <4>1
    <3>2. CASE i # t
      BY <1>9, <3>2
    <3> QED BY <3>1, <3>2
  <2>2. calls'[t] = f
    BY <1>2, <1>9
  <2> QED BY <1>6, <1>7, <1>9, <2>1, <2>2
<1>11. /\ \A i \in 1 .. t :
            /\ Fits(calls[i])
            /\ calls[i].logic <=> i = 1
            /\ i = 1 => calls[i].di \in ToSet(di_list) \ ToSet(rest)
            /\ i > 1 => calls[i].di \in OnTop[calls[i - 1].di]
       /\ \A i, j \in 1 .. t : calls[i].di = calls[j].di => i = j
  BY <1>2 DEF IInv, CallsGoUp
<1>12. \A j \in 1 .. t : calls[j].di # g
  <2>1. /\ \A h \in Insts : OnTop[h] \cap ToSet(di_list) = {}
        /\ \A h, k \in Insts : h # k => OnTop[h] \cap OnTop[k] = {}
    BY DEF IInv, Trees
  <2>2. ASSUME NEW j \in 1 .. t, calls[j].di = g PROVE FALSE
    <3>1. CASE j = 1
      <4>1. g \in ToSet(di_list)
        BY <1>11, <2>2, <3>1
      <4> QED BY <1>2, <1>5, <2>1, <4>1
    <3>2. CASE j > 1
      <4>1. j - 1 \in 1 .. t /\ j - 1 # t
        BY <1>2, <3>2
      <4>2. calls[j - 1].di \in Insts
        BY <1>11, <4>1 DEF Fits
      <4>3. g \in OnTop[calls[j - 1].di]
        BY <1>11, <2>2, <3>2
      <4>4. calls[j - 1].di = d
        BY <1>2, <1>5, <2>1, <4>2, <4>3
      <4>5. t \in 1 .. t
        BY <1>2
      <4> QED BY <1>2, <1>11, <4>1, <4>4, <4>5
    <3> QED BY <1>2, <3>1, <3>2
  <2> QED BY <2>2
<1>13. \A i \in 1 .. t + 1 : i \in 1 .. t \/ i = t + 1
  BY <1>2
<1>14. CallsGoUp'
  <2>1. \A i \in 1 .. t + 1 : Fits(calls[i])'
    <3>1. Fits(f)
      BY <1>2, <1>4, <1>6 DEF Fits
    <3>2. Fits(new)
      <4>1. ToSet(<<>>) = {} /\ Distinctly(<<>>)
        BY DEF ToSet, Distinctly
      <4>2. new.di \in Insts /\ ToSet(new.targets) = {} /\ Distinctly(new.targets)
        BY <1>5, <1>7, <4>1
      <4>3. new.itercnt <= Len(chunk) /\ new.puts <= MaxPuts
        <5>1. /\ new.itercnt = 0 /\ new.puts = 0
              /\ Len(chunk) \in Nat /\ MaxPuts \in Nat
          BY <1>2, <1>7
        <5> QED BY ONLY <5>1
      <4> QED BY <4>2, <4>3 DEF Fits
    <3>3. ASSUME NEW i \in 1 .. t + 1 PROVE Fits(calls[i])'
      <4>1. Fits(calls'[i])
        BY <1>9, <1>11, <1>13, <3>1, <3>2
      <4> QED BY <1>1, <1>3, <4>1 DEF Fits
    <3> QED BY <3>3
  <2>2. \A i \in 1 .. t + 1 : calls'[i].logic <=> i = 1
    BY <1>2, <1>10, <1>11, <1>13
  <2>3. calls'[1].di \in ToSet(di_list') \ ToSet(rest')
    <3>1. 1 \in 1 .. t
      BY <1>2
    <3>2. calls'[1].di = calls[1].di /\ calls[1].di \in ToSet(di_list) \ ToSet(rest)
      BY <1>10, <1>11, <3>1
    <3> QED BY <1>1, <1>3, <3>2
  <2>4. \A i \in 1 .. t + 1 : i > 1 => calls'[i].di \in OnTop'[calls'[i - 1].di]
    <3>1. ASSUME NEW i \in 1 .. t, i > 1 PROVE calls'[i].di \in OnTop'[calls'[i - 1].di]
      <4>1. i - 1 \in 1 .. t
        BY <1>2, <3>1
      <4> QED BY <1>3, <1>10, <1>11, <3>1, <4>1
    <3>2. calls'[t + 1].di \in OnTop'[calls'[t].di] /\ (t + 1) - 1 = t
      BY SMTT(30), <1>2, <1>3, <1>5, <1>10
    <3> QED BY <1>13, <3>1, <3>2
  <2>5. \A i, j \in 1 .. t + 1 : calls'[i].di = calls'[j].di => i = j
    BY <1>10, <1>11, <1>12, <1>13
  <2> QED BY <1>9, <2>1, <2>2, <2>3, <2>4, <2>5 DEF CallsGoUp, F
<1>15. /\ got' \in Seq(Nat) /\ Len(got') = Len(inst)
       /\ \A h \in Insts : got[h] \in Nat /\ got'[h] = IF h = g THEN got[h] + 1 ELSE got[h]
  <2>1. got \in Seq(Nat) /\ Len(got) = Len(inst)
    BY DEF IInv, Feeding
  <2>2. got' = [got EXCEPT ![g] = got[g] + 1] /\ g \in 1 .. Len(inst)
        /\ Insts = 1 .. Len(inst)
    BY <1>1, <1>5
  <2> QED BY ONLY <2>1, <2>2
<1>16. AllGiven'
  <2>0. ToSet(<<>>) = {}
    BY DEF ToSet
  <2>1. ASSUME NEW h, NEW k, h # d PROVE Pending(h, k)' <=> Pending(h, k)
    <3>1. ASSUME NEW i \in 1 .. Len(calls'), calls'[i].di = h, k \in ToSet(calls'[i].targets)
          PROVE  Pending(h, k)
      BY <1>2, <1>9, <1>10, <1>13, <2>0, <2>1, <3>1 DEF Pending
    <3>2. ASSUME NEW i \in 1 .. Len(calls), calls[i].di = h, k \in ToSet(calls[i].targets)
          PROVE  Pending(h, k)'
      <4>1. i \in 1 .. Len(calls') /\ i # t /\ i \in 1 .. t
        BY <1>2, <1>9, <2>1, <3>2
      <4> QED BY <1>10, <3>2, <4>1 DEF Pending
    <3> QED BY <3>1, <3>2 DEF Pending
  <2>2. \A k : Pending(d, k) <=> k \in ToSet(Top.targets)
    BY <1>2, <1>11 DEF Pending
  <2>3. \A k : Pending(d, k)' <=> k \in ToSet(left)
    <3>1. t \in 1 .. Len(calls') /\ calls'[t].di = d /\ calls'[t].targets = left
      BY <1>2, <1>9, <1>10
    <3>2. \A i \in 1 .. Len(calls') : calls'[i].di = d => i = t
      <4>1. d # g
        BY <1>2, <1>12
      <4>2. \A i \in 1 .. t : calls'[i].di = d => i = t
        BY <1>2, <1>10, <1>11
      <4>3. calls'[t + 1].di # d
        BY <1>10, <4>1
      <4> QED BY <1>9, <1>13, <4>2, <4>3
    <3> QED BY <3>1, <3>2, Zenon DEF Pending
  <2>4. ASSUME NEW h \in Insts, NEW k \in OnTop[h]
        PROVE  put'[h] = got'[k] + IF Pending(h, k)' THEN 1 ELSE 0
    <3>1. put[h] = got[k] + IF Pending(h, k) THEN 1 ELSE 0
      BY DEF IInv, AllGiven
    <3>2. k \in Insts
      BY DEF IInv, Trees
    <3>3. put' = put /\ got[k] \in Nat /\ got'[k] = IF k = g THEN got[k] + 1 ELSE got[k]
      BY <1>1, <1>15, <3>2
    <3>4. CASE h = d /\ k = g
      <4>1. Pending(h, k) /\ ~Pending(h, k)'
        BY <1>4, <2>2, <2>3, <3>4
      <4>2. put[h] = got[k] + 1
        BY <3>1, <4>1
      <4> QED BY <3>3, <3>4, <4>1, <4>2
    <3>5. CASE h = d /\ k # g
      <4>1. Pending(h, k)' <=> Pending(h, k)
        BY <1>4, <2>2, <2>3, <3>5
      <4> QED BY <3>1, <3>3, <3>5, <4>1
    <3>6. CASE h # d
      <4>1. Pending(h, k)' <=> Pending(h, k)
        BY <2>1, <3>6
      <4>2. k # g
        <5>1. \A a, b \in Insts : a # b => OnTop[a] \cap OnTop[b] = {}
          BY DEF IInv, Trees
        <5>2. OnTop[h] \cap OnTop[d] = {}
          BY <1>2, <3>6, <5>1
        <5> QED BY <1>5, <5>2
      <4> QED BY <3>1, <3>3, <4>1, <4>2
    <3> QED BY <3>4, <3>5, <3>6
  <2> QED BY <1>3, <2>4 DEF AllGiven
<1>17. Feeding'
  <2>1. Feeding /\ shown' \subseteq Insts /\ raised' \in BOOLEAN
        /\ put' \in Seq(Nat) /\ Len(put') = Len(inst)
        /\ seen' \in Seq(Seq(Sights)) /\ Len(seen') = Len(inst)
    BY <1>1 DEF IInv, Feeding
  <2> QED BY <1>1, <1>2, <1>15, <2>1, FeedingStays
<1>18. NothingYet'
  BY <1>1, <1>2 DEF NothingYet, Later
<1>19. AllSeen'
  <2>1. calls' # <<>> /\ calls'[1].di = calls[1].di /\ calls'[1].itercnt = calls[1].itercnt
    BY <1>2, <1>9, <1>10
  <2>2. \A h \in Insts : SeenBy(h)' = SeenBy(h)
    BY <1>1, <1>3, <2>1 DEF SeenBy
  <2> QED BY <1>1, <1>3, <2>2 DEF IInv, AllSeen
<1>20. AsMeasured' /\ PinsAreProbes' /\ Showing'
  BY <1>1, <1>2, <1>3, MeasuredStays, PinsStay, ShowingStays DEF IInv
<1> QED BY <1>3, <1>14, <1>16, <1>17, <1>18, <1>19, <1>20 DEF IInv

\* A call that has nothing left to give is over.
LEMMA PendingStays ==
    ASSUME IInv, calls # <<>>, Top.targets = <<>>,
           Len(calls') = Len(calls) - 1,
           \A i \in 1 .. Len(calls) - 1 : calls'[i] = calls[i]
    PROVE  \A h, g : Pending(h, g)' <=> Pending(h, g)
<1>1. Len(calls) \in Nat \ {0} /\ Top = calls[Len(calls)]
  BY Calling
<1>2. ToSet(calls[Len(calls)].targets) = {}
  BY <1>1 DEF ToSet
<1>3. \A i \in 1 .. Len(calls) : i \in 1 .. Len(calls) - 1 \/ i = Len(calls)
  BY <1>1
<1>4. 1 .. Len(calls) - 1 \subseteq 1 .. Len(calls)
  BY <1>1
<1> QED BY <1>2, <1>3, <1>4 DEF Pending

\* A decode() returns, or raises inside a put().
LEMMA ReturnKeeps == IInv /\ (Return \/ RaiseInPut) => IInv'
<1> SUFFICES ASSUME IInv, Return \/ RaiseInPut PROVE IInv'
  OBVIOUS
<1>1. /\ calls # <<>> /\ Top.targets = <<>>
      /\ calls' = Front(calls)
      /\ UNCHANGED setupVars /\ UNCHANGED pc
      /\ UNCHANGED <<started, sized, sent, chunk, rest, seen, put, got, shown, freed>>
      /\ \/ (Top.logic => Top.itercnt = Len(chunk)) /\ raised' = raised
         \/ raised' = TRUE
  BY DEF Return, RaiseInPut, Runs
<1>2. /\ pc = "send" /\ Len(calls) \in Nat \ {0} /\ Top = calls[Len(calls)]
      /\ (Top.logic <=> Len(calls) = 1)
      /\ Len(chunk) \in Nat /\ sent \in Nat
  BY <1>1, Calling
<1>3. /\ AsListed' /\ Trees' /\ Stacked' /\ Straight' /\ StackFreed'
      /\ UNCHANGED <<inst, di_list, visible, command, token>>
      /\ Insts' = Insts /\ OnTop' = OnTop
  BY <1>1, <1>2, SetUpStays
<1>4. /\ CallsGoUp' /\ Len(calls') = Len(calls) - 1
      /\ \A i \in 1 .. Len(calls) - 1 : calls'[i] = calls[i]
  BY <1>1, <1>3, TopIsOver
<1>5. AllGiven'
  BY <1>1, <1>3, <1>4, PendingStays, GivenStays DEF IInv
<1>6. Feeding'
  <2>1. Feeding /\ shown' \subseteq Insts /\ raised' \in BOOLEAN
        /\ put' \in Seq(Nat) /\ Len(put') = Len(inst)
        /\ got' \in Seq(Nat) /\ Len(got') = Len(inst)
        /\ seen' \in Seq(Seq(Sights)) /\ Len(seen') = Len(inst)
    BY <1>1 DEF IInv, Feeding
  <2> QED BY <1>1, <1>2, <2>1, FeedingStays
<1>7. NothingYet'
  BY <1>1, <1>2 DEF NothingYet, Later
<1>8. AllSeen'
  <2>1. CASE raised' = TRUE
    BY <2>1 DEF AllSeen
  <2>2. CASE (Top.logic => Top.itercnt = Len(chunk)) /\ raised' = raised
    <3>1. CASE Len(calls) = 1
      <4>1. Len(calls') = 0
        BY <1>4, <3>1
      <4>2. calls' = <<>>
        <5>1. calls' \in Seq(Frames)
          BY <1>4 DEF CallsGoUp
        <5> QED BY <4>1, <5>1
      <4>3. calls[1].itercnt = Len(chunk)
        BY <1>2, <2>2, <3>1
      <4>4. \A h \in Insts : SeenBy(h)' = SeenBy(h)
        BY <1>1, <1>3, <4>2, <4>3 DEF SeenBy
      <4> QED BY <1>1, <1>3, <2>2, <4>4 DEF IInv, AllSeen
    <3>2. CASE Len(calls) # 1
      <4>1. 1 \in 1 .. Len(calls) - 1
        <5> PICK n : n = Len(calls)
          OBVIOUS
        <5>1. n \in Nat \ {0} /\ n # 1
          BY <1>2, <3>2
        <5>2. 1 \in 1 .. n - 1
          BY ONLY <5>1
        <5> QED BY <5>2
      <4>2. calls'[1] = calls[1] /\ Len(calls') > 0
        BY <1>2, <1>4, <4>1
      <4>3. calls' # <<>>
        BY <4>2
      <4>4. \A h \in Insts : SeenBy(h)' = SeenBy(h)
        BY <1>1, <1>3, <4>2, <4>3 DEF SeenBy
      <4> QED BY <1>1, <1>3, <2>2, <4>4 DEF IInv, AllSeen
    <3> QED BY <3>1, <3>2
  <2> QED BY <1>1, <2>1, <2>2
<1>9. AsMeasured' /\ PinsAreProbes' /\ Showing'
  BY <1>1, <1>2, <1>3, MeasuredStays, PinsStay, ShowingStays DEF IInv
<1> QED BY <1>3, <1>4, <1>5, <1>6, <1>7, <1>8, <1>9 DEF IInv

\* The decode() of an instance at the bottom raises.
LEMMA RaiseAtBottomKeeps == IInv /\ RaiseAtBottom => IInv'
<1> SUFFICES ASSUME IInv, RaiseAtBottom PROVE IInv'
  OBVIOUS
<1>1. /\ calls # <<>> /\ Top.targets = <<>> /\ Len(calls) = 1
      /\ calls' = <<>> /\ rest' = <<>> /\ raised' = TRUE
      /\ sent' = sent + Len(chunk) /\ chunk' = <<>> /\ pc' = "session"
      /\ UNCHANGED <<setupVars, started, sized, seen, put, got, shown, freed>>
  BY DEF RaiseAtBottom, Runs
<1>2. pc = "send" /\ Len(chunk) \in Nat /\ sent \in Nat
  BY <1>1, Calling
<1>3. /\ AsListed' /\ Trees' /\ Stacked' /\ Straight' /\ StackFreed'
      /\ UNCHANGED <<inst, di_list, visible, command, token>>
      /\ Insts' = Insts /\ OnTop' = OnTop
  BY <1>1, <1>2, SetUpStays
<1>4. CallsGoUp'
  BY <1>1 DEF CallsGoUp
<1>5. AllGiven'
  BY <1>1, <1>3, PendingStays, GivenStays DEF IInv
<1>6. Feeding'
  <2>1. ToSet(rest') = {} /\ rest' \in Seq(Nat) /\ Distinctly(rest')
    BY <1>1 DEF ToSet, Distinctly
  <2>2. sent + Len(chunk) <= Len(Signal) /\ MaxChunk \in Nat
    BY DecodingAssumption DEF IInv, Feeding
  <2>3. sent' \in Nat /\ Len(chunk') = 0 /\ sent' + Len(chunk') <= Len(Signal)
        /\ chunk' \in Seq(SUBSET Nat)
    BY <1>1, <1>2, <2>2
  <2>4. UNCHANGED <<started, sized, seen, put, got, shown, freed>>
    BY <1>1
  <2>5. /\ started' \subseteq Insts' /\ shown' \subseteq Insts' /\ freed' \subseteq Insts'
        /\ seen' \in Seq(Seq(Sights)) /\ Len(seen') = Len(inst')
        /\ put' \in Seq(Nat) /\ Len(put') = Len(inst')
        /\ got' \in Seq(Nat) /\ Len(got') = Len(inst')
    BY <1>3, <2>4 DEF IInv, Feeding
  <2> QED BY <1>1, <1>2, <2>1, <2>2, <2>3, <2>5 DEF Feeding
<1>7. NothingYet'
  BY <1>1 DEF NothingYet, Later
<1>8. AllSeen' /\ AsMeasured'
  BY <1>1 DEF AllSeen, AsMeasured
<1>9. PinsAreProbes' /\ Showing'
  BY <1>1, <1>2, <1>3, PinsStay, ShowingStays DEF IInv
<1> QED BY <1>3, <1>4, <1>5, <1>6, <1>7, <1>8, <1>9 DEF IInv

-----------------------------------------------------------------------------
(* The stack *)

\* A list that names every decoder once names no instance twice.
LEMMA StackOfOnce ==
    ASSUME AsListed, Distinct
    PROVE  /\ Len(StackOf) \in Nat
           /\ \A i, j \in 1 .. Len(StackOf) : StackOf[i] = StackOf[j] => i = j
<1>1. command.pds \in Seq(ToSet(command.pds)) /\ command.stack \in Seq(STRING)
  BY DecodingAssumption DEF AsListed
<1>2. CASE command.stack # <<>>
  BY <1>1, <1>2 DEF StackOf, Distinct
<1>3. CASE command.stack = <<>>
  <2>1. /\ StackOf = [i \in 1 .. Len(command.pds) |-> command.pds[i].class]
        /\ Len(StackOf) = Len(command.pds)
    BY <1>1, <1>3 DEF StackOf
  <2>2. DOMAIN command.pds = 1 .. Len(command.pds) /\ Len(command.pds) \in Nat
    BY <1>1
  <2> QED BY <2>1, <2>2 DEF Distinct
<1> QED BY <1>2, <1>3

\* put() finds every instance from the bottom of the stack.
LEMMA AllSearched ==
    ASSUME IInv, Distinct, pc # "exited"
    PROVE  Searched = Insts
<1> DEFINE n == Len(StackOf)
<1>1. /\ n \in Nat
      /\ \A i, j \in 1 .. n : StackOf[i] = StackOf[j] => i = j
  BY StackOfOnce DEF IInv
<1>2. /\ \A k \in Insts : k \in ToSet(di_list) \/ \E h \in Insts : k \in OnTop[h]
      /\ \A g \in Insts : OnTop[g] \subseteq Insts
  BY DEF IInv, Trees
<1>3. \A g \in Insts : \A h \in OnTop[g] : \E j \in 1 .. n - 1 : InStack(j, g, h)
  BY DEF IInv, Stacked
<1> HIDE DEF n
<1>4. ASSUME NEW T \in SUBSET Insts, ToSet(di_list) \subseteq T,
             \A g \in T : OnTop[g] \subseteq T,
             NEW x \in Insts, x \notin T
      PROVE  FALSE
  <2> DEFINE J == {j \in 1 .. n - 1 : \E g, h \in Insts \ T :
                                          h \in OnTop[g] /\ InStack(j, g, h)}
  <2>1. ASSUME NEW h \in Insts \ T
        PROVE  \E g \in Insts \ T : h \in OnTop[g]
    BY <1>2, <1>4, <2>1
  <2>2. PICK g \in Insts \ T : x \in OnTop[g]
    BY <1>4, <2>1
  <2>3. J # {} /\ J \in SUBSET Nat
    BY <1>1, <1>3, <1>4, <2>2
  <2>4. PICK m \in J : \A j \in J : m <= j
    <3> HIDE DEF J
    <3> QED BY <2>3, Least
  <2>5. PICK a, b \in Insts \ T : b \in OnTop[a] /\ InStack(m, a, b)
    BY <2>4
  <2>6. PICK c \in Insts \ T : a \in OnTop[c]
    BY <2>1, <2>5
  <2>7. PICK j \in 1 .. n - 1 : InStack(j, c, a)
    BY <1>3, <2>6
  <2>8. StackOf[j + 1] = StackOf[m]
    BY <2>5, <2>7 DEF InStack
  <2>9. j + 1 \in 1 .. n /\ m \in 1 .. n
    BY <1>1, <2>4, <2>7
  <2>10. j + 1 = m
    BY <1>1, <2>8, <2>9
  <2>11. j \in J
    BY <2>5, <2>6, <2>7
  <2>12. m <= j /\ j \in Nat
    BY <2>4, <2>7, <2>11
  <2> HIDE DEF J
  <2> QED BY ONLY <2>10, <2>12
<1> QED BY <1>4 DEF Searched, Reach

\* Each instance is at the bottom or on top of one other.
LEMMA FedOnce ==
    ASSUME IInv, pc # "exited", NEW h \in Insts
    PROVE  (IF h \in ToSet(di_list) THEN 1 ELSE 0)
           + Cardinality({g \in Insts : h \in ToSet(inst[g].next_di)}) = 1
<1> DEFINE P == {g \in Insts : h \in ToSet(inst[g].next_di)}
<1>1. \A g \in Insts : OnTop[g] = ToSet(inst[g].next_di)
  BY TopOf DEF IInv
<1>2. /\ h \in ToSet(di_list) \/ \E g \in Insts : h \in OnTop[g]
      /\ \A g \in Insts : OnTop[g] \cap ToSet(di_list) = {}
  BY DEF IInv, Trees
<1>3. \A g, k \in Insts : k # g => OnTop[k] \cap OnTop[g] = {}
  BY DEF IInv, Trees
<1>4. CASE h \in ToSet(di_list)
  <2>1. P = {}
    BY <1>1, <1>2, <1>4
  <2>2. Cardinality(P) = 0
    BY <2>1, FS_EmptySet
  <2> HIDE DEF P
  <2>3. (IF h \in ToSet(di_list) THEN 1 ELSE 0) = 1
    BY <1>4
  <2>4. (IF h \in ToSet(di_list) THEN 1 ELSE 0) + Cardinality(P) = 1
    BY ONLY <2>2, <2>3
  <2> QED BY <2>4 DEF P
<1>5. CASE h \notin ToSet(di_list)
  <2>1. PICK p \in Insts : h \in OnTop[p]
    BY <1>2, <1>5
  <2>2. P = {p}
    BY <1>1, <1>3, <2>1
  <2>3. Cardinality({p}) = 1
    BY FS_Singleton
  <2> QED BY <1>5, <2>2, <2>3
<1> QED BY <1>4, <1>5

\* The stack of all decoders is a line, from the first to the last.
LEMMA InALine ==
    ASSUME IInv, pc \in {"ready", "session"}, Distinct, command.stack = <<>>
    PROVE  /\ Insts # {} => First(di_list) = {1}
           /\ \A h \in Insts : h + 1 \in Insts => First(inst[h].next_di) = {h + 1}
<1> PICK n : n = Len(inst)
  OBVIOUS
<1>1. /\ n \in Nat /\ Insts = 1 .. n /\ n = Len(command.pds) /\ token \in Nat
      /\ token > n
      /\ \A h \in Insts : /\ OnTop[h] = ToSet(inst[h].next_di)
                          /\ inst[h].next_di \in Seq(Nat)
  BY TopOf DEF IInv, AsListed, Stacked, Straight
<1>2. \A h \in Insts \ {1} : h \in OnTop[h - 1] /\ h - 1 \in Insts
  <2>1. \A h \in Insts \ {1} : h < token => pc = "exited" \/ h \in OnTop[h - 1]
    BY DEF IInv, Straight
  <2> SUFFICES ASSUME NEW h \in Insts \ {1} PROVE h \in OnTop[h - 1] /\ h - 1 \in Insts
    OBVIOUS
  <2>2. h < token /\ h - 1 \in 1 .. n
    BY <1>1
  <2> QED BY <1>1, <2>1, <2>2
<1>3. /\ \A k \in Insts : k \in ToSet(di_list) \/ \E h \in Insts : k \in OnTop[h]
      /\ \A h \in Insts : OnTop[h] \cap ToSet(di_list) = {} /\ OnTop[h] \subseteq Insts
      /\ di_list \in Seq(Nat) /\ ToSet(di_list) \subseteq Insts
  BY DEF IInv, Trees
<1>4. \A g, k \in Insts : k # g => OnTop[k] \cap OnTop[g] = {}
  BY DEF IInv, Trees
<1>5. \A h \in Insts : 1 \notin OnTop[h]
  <2>1. ASSUME NEW h \in Insts, 1 \in OnTop[h] PROVE FALSE
    <3>1. PICK j \in 1 .. Len(StackOf) - 1 : InStack(j, h, 1)
      BY <2>1 DEF IInv, Stacked
    <3>2. command.pds \in Seq(ToSet(command.pds))
      BY DecodingAssumption DEF IInv, AsListed
    <3>3. /\ StackOf = [i \in 1 .. n |-> command.pds[i].class]
          /\ Len(StackOf) = n
      BY <1>1, <3>2 DEF StackOf
    <3>4. j + 1 \in 1 .. n /\ j + 1 # 1
      BY <1>1, <3>1, <3>3
    <3>5. inst[1].inst_id = command.pds[j + 1].class
      BY <3>1, <3>3, <3>4 DEF InStack
    <3>6. 1 \in Insts
      BY <1>3, <2>1
    <3>7. 1 = j + 1
      BY <1>1, <3>4, <3>5, <3>6, NamedOnce DEF IInv
    <3> QED BY <3>4, <3>7
  <2> QED BY <2>1
<1>6. ASSUME NEW s \in Seq(Nat), NEW x, ToSet(s) = {x} PROVE First(s) = {x}
  <2>1. Len(s) \in Nat /\ DOMAIN s = 1 .. Len(s)
    OBVIOUS
  <2>2. 1 \in DOMAIN s /\ s[1] = x
    <3>1. PICK i \in 1 .. Len(s) : s[i] = x
      BY <1>6, Members
    <3>2. 1 \in 1 .. Len(s)
      BY ONLY <2>1, <3>1
    <3>3. s[1] \in {x}
      BY <1>6, <3>2, Members
    <3> QED BY <2>1, <3>2, <3>3
  <2>3. DOMAIN s \cap {1} = {1}
    BY <2>2
  <2> QED BY <2>2, <2>3 DEF First
<1>7. Insts # {} => ToSet(di_list) = {1}
  <2>1. Insts # {} => 1 \in Insts
    BY <1>1
  <2> QED BY <1>2, <1>3, <1>5, <2>1
<1>8. ASSUME NEW h \in Insts, h + 1 \in Insts PROVE OnTop[h] = {h + 1}
  <2>1. h + 1 # 1 /\ (h + 1) - 1 = h
    BY <1>1
  <2>2. h + 1 \in OnTop[h]
    BY <1>2, <1>8, <2>1
  <2>3. ASSUME NEW k \in OnTop[h] PROVE k = h + 1
    <3>1. k \in Insts \ {1}
      BY <1>3, <1>5
    <3>2. k \in OnTop[k - 1] /\ k - 1 \in Insts
      BY <1>2, <3>1
    <3>3. k - 1 = h
      BY <1>4, <3>2
    <3> QED BY <1>1, <3>1, <3>3
  <2> QED BY <2>2, <2>3
<1>9. \A s \in Seq(Nat) : \A x : ToSet(s) = {x} => First(s) = {x}
  BY <1>6
<1>10. Insts # {} => First(di_list) = {1}
  BY <1>3, <1>7, <1>9
<1>11. ASSUME NEW h \in Insts, h + 1 \in Insts PROVE First(inst[h].next_di) = {h + 1}
  <2>1. inst[h].next_di \in Seq(Nat) /\ ToSet(inst[h].next_di) = {h + 1}
    BY <1>1, <1>8, <1>11
  <2> QED BY <1>9, <2>1
<1> QED BY <1>10, <1>11

\* From the bottom of the line all are freed.
LEMMA FreedToTheTop ==
    ASSUME IInv, pc \in {"ready", "session"}, Distinct, command.stack = <<>>
    PROVE  FreeAll(di_list) = Insts
<1> DEFINE next == [h \in Insts |-> First(inst[h].next_di)]
<1>1. FreeAll(di_list) = {h \in Insts : \A T \in SUBSET Insts :
          First(di_list) \subseteq T /\ (\A g \in T : next[g] \subseteq T) => h \in T}
  BY DEF FreeAll, Reach
<1>2. /\ Insts # {} => First(di_list) = {1}
      /\ \A h \in Insts : h + 1 \in Insts => next[h] = {h + 1}
  BY InALine
<1>3. Insts = 1 .. Len(inst) /\ Len(inst) \in Nat
  BY TopOf DEF IInv
<1> HIDE DEF next
<1>4. ASSUME NEW T \in SUBSET Insts, First(di_list) \subseteq T,
             \A g \in T : next[g] \subseteq T, NEW x \in Insts, x \notin T
      PROVE  FALSE
  <2> DEFINE I == Insts \ T
  <2>1. I # {} /\ I \in SUBSET Nat
    BY <1>3, <1>4
  <2>2. PICK m \in I : \A j \in I : m <= j
    <3> HIDE DEF I
    <3> QED BY <2>1, Least
  <2>3. m # 1
    BY <1>2, <1>4, <2>2
  <2>4. m - 1 \in Insts /\ m - 1 \notin I /\ (m - 1) + 1 = m
    BY <1>3, <2>2, <2>3
  <2>5. m \in next[m - 1]
    BY <1>2, <2>2, <2>4
  <2> QED BY <1>4, <2>2, <2>4, <2>5
<1> QED BY <1>1, <1>4

\* srd_exit() frees the instances.
LEMMA ExitKeeps == IInv /\ Exit => IInv'
<1> SUFFICES ASSUME IInv, Exit PROVE IInv'
  OBVIOUS
<1>1. /\ pc \in {"ready", "session"} /\ pc' = "exited"
      /\ freed' = FreeAll(di_list)
      /\ pd_list' = <<>> /\ di_list' = <<>>
      /\ UNCHANGED <<command, token, from, inst, visible>>
      /\ UNCHANGED <<started, sized, sent, chunk, rest, calls, seen, put, got, raised, shown>>
  BY DEF Exit, feedVars
<1>2. /\ calls = <<>> /\ chunk = <<>> /\ rest = <<>>
  BY <1>1 DEF IInv, Feeding
<1>3. ToSet(<<>>) = {} /\ Distinctly(<<>>)
  BY DEF ToSet, Distinctly
<1>4. Insts' = Insts /\ OnTop' = OnTop /\ (Distinct' <=> Distinct)
  BY <1>1 DEF Insts, OnTop, Distinct
<1>5. AsListed'
  BY <1>1, <1>4 DEF IInv, AsListed
<1>6. Trees'
  BY <1>1, <1>3, <1>4 DEF IInv, Trees
<1>7. NothingYet'
  BY <1>1 DEF NothingYet, Later
<1>8. CallsGoUp'
  BY <1>1, <1>2 DEF CallsGoUp
<1>9. Feeding'
  <2>1. freed' \subseteq Insts
    BY <1>1 DEF FreeAll, Reach
  <2> QED BY <1>1, <1>2, <1>3, <1>4, <2>1 DEF IInv, Feeding
<1>10. AllGiven'
  <2>1. \A h, g : Pending(h, g)' <=> Pending(h, g)
    BY <1>1 DEF Pending
  <2> QED BY <1>1, <2>1, GivenStays DEF IInv
<1>11. AllSeen'
  BY <1>1 DEF AllSeen
<1>12. AsMeasured' /\ PinsAreProbes' /\ Showing'
  BY <1>1, MeasuredStays, PinsStay, ShowingStays DEF IInv
<1>13. Stacked'
  BY <1>1, StackedStays DEF IInv
<1>14. Straight'
  BY <1>1, <1>4 DEF IInv, Straight
<1>15. StackFreed'
  BY <1>1, <1>4, FreedToTheTop DEF StackFreed
<1> QED BY <1>5, <1>6, <1>7, <1>8, <1>9, <1>10, <1>11, <1>12, <1>13, <1>14, <1>15
        DEF IInv

-----------------------------------------------------------------------------
(* The theorems *)

\* The invariant holds at first.
LEMMA InitiallyIInv == Init => IInv
<1> SUFFICES ASSUME Init PROVE IInv
  OBVIOUS
<1>1. /\ command \in Commands /\ pc = "register" /\ token = 1 /\ from = 0
      /\ pd_list = <<>> /\ inst = <<>> /\ di_list = <<>> /\ visible = {}
      /\ started = {} /\ sized = {} /\ sent = 0 /\ chunk = <<>> /\ rest = <<>>
      /\ calls = <<>> /\ freed = {} /\ raised = FALSE /\ shown = {}
      /\ seen = <<>> /\ put = <<>> /\ got = <<>>
  BY DEF Init
<1>2. Insts = {} /\ ToSet(<<>>) = {} /\ Distinctly(<<>>)
  BY <1>1 DEF Insts, ToSet, Distinctly
<1>3. Len(command.pds) \in Nat /\ MaxChunk \in Nat /\ Len(Signal) \in Nat
  BY <1>1, DecodingAssumption
<1>4. AsListed
  BY <1>1, <1>2, <1>3 DEF AsListed
<1>5. Trees
  BY <1>1, <1>2 DEF Trees
<1>6. Feeding
  <2>1. /\ <<>> \in Seq(Seq(Sights)) /\ <<>> \in Seq(Nat) /\ <<>> \in Seq(SUBSET Nat)
        /\ Len(<<>>) = 0
    OBVIOUS
  <2>2. 0 <= MaxChunk /\ 0 \in Nat /\ 0 + 0 <= Len(Signal)
    BY ONLY <1>3
  <2> QED BY <1>1, <1>2, <2>1, <2>2 DEF Feeding
<1>7. NothingYet /\ CallsGoUp /\ AllGiven /\ AllSeen /\ AsMeasured
  BY <1>1, <1>2 DEF NothingYet, CallsGoUp, AllGiven, AllSeen, AsMeasured
<1>8. PinsAreProbes /\ Stacked /\ Straight /\ Showing /\ StackFreed
  BY <1>1, <1>2 DEF PinsAreProbes, Stacked, Straight, Showing, StackFreed
<1> QED BY <1>4, <1>5, <1>6, <1>7, <1>8 DEF IInv

\* The invariant holds on when nothing changes.
LEMMA StutterKeeps == IInv /\ UNCHANGED vars => IInv'
<1> SUFFICES ASSUME IInv, UNCHANGED vars PROVE IInv'
  OBVIOUS
<1> USE DEF vars, setupVars, feedVars
<1>1. Insts' = Insts /\ OnTop' = OnTop /\ (Distinct' <=> Distinct) /\ StackOf' = StackOf
  BY DEF Insts, OnTop, Distinct, StackOf
<1>2. AsListed' /\ Trees' /\ NothingYet' /\ Feeding' /\ Straight' /\ StackFreed'
  BY SMTT(30), <1>1 DEF IInv, AsListed, Trees, NothingYet, Feeding, Straight, StackFreed, Later
<1>3. CallsGoUp'
  BY <1>1 DEF IInv, CallsGoUp, Fits
<1>4. AllGiven'
  BY <1>1 DEF IInv, AllGiven, Pending
<1>5. AllSeen' /\ AsMeasured' /\ PinsAreProbes'
  BY <1>1 DEF IInv, AllSeen, SeenBy, AsMeasured, PinsAreProbes
<1>6. Stacked'
  BY <1>1 DEF IInv, Stacked, InStack
<1>7. Showing'
  BY <1>1 DEF IInv, Showing
<1> QED BY <1>2, <1>3, <1>4, <1>5, <1>6, <1>7 DEF IInv

\* The invariant holds in every reachable state.
LEMMA Invariant == Spec => []IInv
<1>1. Init => IInv
  BY InitiallyIInv
<1>2. IInv /\ [Next]_vars => IInv'
  BY LoadFailsKeeps, InstFailsKeeps, RegisterKeeps, StackBeginsKeeps,
     StackNextKeeps, StackDoneKeeps, SetAnnotationsKeeps, SessionStartKeeps,
     SessionSendKeeps, InstDecodeKeeps, DividesByZeroKeeps, SendDoneKeeps,
     IterNextKeeps,
     PutAnnotationKeeps, PutProtoKeeps, DeliverKeeps, ReturnKeeps,
     RaiseAtBottomKeeps, ExitKeeps, StutterKeeps, Zenon
     DEF Next
<1> QED BY <1>1, <1>2, PTL DEF Spec

\* The values of pc.
Phases == {"register", "stack", "annotations", "ready", "session", "send",
           "crashed", "exit", "exited"}

\* pc is one of them.
InPhase == pc \in Phases

\* pc is always a phase of the run.
LEMMA Phased == Spec => []InPhase
<1>1. Init => InPhase
  BY DEF Init, Phases, InPhase
<1>2. InPhase /\ [Next]_vars => InPhase'
  BY DEF Next, vars, LoadFails, InstFails, Register, StackBegins, StackNext,
         StackDone, SetAnnotations, SessionStart, SessionSend, InstDecode,
         DividesByZero, SendDone, IterNext, PutAnnotation, PutProto, Deliver, Return,
         RaiseInPut, RaiseAtBottom, Exit, Phases, InPhase
<1> QED BY <1>1, <1>2, PTL DEF Spec

\* The instances srd_session_start() came to were made before.
SizedExist == sized \subseteq Insts

\* No other instance gets a unit size.
LEMMA Sized == Spec => []SizedExist
<1>1. Init => SizedExist
  BY DEF Init, SizedExist
<1>2. IInv /\ SizedExist /\ [Next]_vars => SizedExist'
  <2> SUFFICES ASSUME IInv, SizedExist, [Next]_vars PROVE SizedExist'
    OBVIOUS
  <2> USE DEF setupVars, feedVars, SizedExist, Insts
  <2>1. CASE Register
    BY <2>1 DEF Register, IInv, AsListed
  <2>2. CASE StackNext
    BY <2>2 DEF StackNext
  <2>3. CASE SessionStart
    <3>1. ToSet(di_list) \subseteq Insts /\ di_list \in Seq(Nat)
      BY DEF IInv, Trees
    <3>2. ToSet(di_list) = {di_list[i] : i \in 1 .. Len(di_list)}
      BY <3>1 DEF ToSet
    <3>3. \A i \in Nat : ToSet(SubSeq(di_list, 1, i)) \subseteq ToSet(di_list)
                       \/ i > Len(di_list)
      BY <3>1 DEF ToSet
    <3>4. PICK bad \in SUBSET Insts : sized' = ToSet(CameTo(bad))
      BY <2>3 DEF SessionStart
    <3> DEFINE I == {i \in 1 .. Len(di_list) : di_list[i] \in bad}
               first == IF I # {} THEN Min(I) ELSE 0
    <3>5. first \in 0 .. Len(di_list) /\ Len(di_list) \in Nat
      <4>1. I \in SUBSET (1 .. Len(di_list)) /\ Len(di_list) \in Nat
        BY <3>1
      <4> HIDE DEF I
      <4> QED BY <4>1, FirstOf
    <3>6. SelectInSeq(di_list, LAMBDA h : h \in bad) = first
      BY DEF SelectInSeq
    <3> HIDE DEF first
    <3>7. sized' = ToSet(IF first = 0 THEN di_list ELSE SubSeq(di_list, 1, first))
      BY <3>4, <3>6 DEF CameTo
    <3>8. sized' \subseteq ToSet(di_list)
      BY <3>3, <3>5, <3>7
    <3>9. Insts' = Insts
      BY <2>3 DEF SessionStart
    <3> QED BY <3>1, <3>8, <3>9
  <2>4. CASE UNCHANGED <<inst, sized>>
    BY <2>4
  <2>5. Register \/ StackNext \/ SessionStart \/ UNCHANGED <<inst, sized>>
    BY DEF Next, vars, LoadFails, InstFails, StackBegins, StackDone,
           SetAnnotations, SessionSend, InstDecode, DividesByZero, SendDone,
           IterNext, PutAnnotation, PutProto, Deliver, Return, RaiseInPut,
           RaiseAtBottom, Exit
  <2> QED BY <2>1, <2>2, <2>3, <2>4, <2>5
<1> QED BY <1>1, <1>2, Invariant, PTL DEF Spec

\* Every instance that is linked, started or called exists, and no iterator
\* goes past its packet, whatever the command line and the signal.
THEOREM TypeCorrect == Spec => []TypeOK
<1>1. IInv /\ InPhase /\ SizedExist => TypeOK
  <2> SUFFICES ASSUME IInv, pc \in Phases, sized \subseteq Insts PROVE TypeOK
    BY DEF InPhase, SizedExist
  <2>1. ToSet(di_list) \subseteq Insts
    BY DEF IInv, Trees
  <2>2. ToSet(pd_list) \subseteq DOMAIN Classes
    BY Members DEF IInv, AsListed
  <2>3. /\ started \subseteq Insts /\ freed \subseteq Insts /\ shown \subseteq Insts
        /\ Len(chunk) <= MaxChunk /\ sent \in 0 .. Len(Signal)
    <3>1. /\ sent \in Nat /\ sent + Len(chunk) <= Len(Signal)
          /\ Len(chunk) \in Nat /\ Len(Signal) \in Nat
      BY DecodingAssumption DEF IInv, Feeding
    <3>2. sent \in 0 .. Len(Signal)
      BY ONLY <3>1
    <3> QED BY <3>2 DEF IInv, Feeding
  <2>4. ASSUME NEW i \in DOMAIN calls
        PROVE  /\ calls[i].di \in Insts
               /\ calls[i].itercnt \in 0 .. Len(chunk)
               /\ calls[i].puts \in 0 .. MaxPuts
    <3>1. calls \in Seq(Frames) /\ i \in 1 .. Len(calls) /\ Fits(calls[i])
      BY DEF IInv, CallsGoUp
    <3>2. calls[i] \in Frames
      BY <3>1, ElementOfSeq
    <3>3. /\ calls[i].itercnt \in Nat /\ calls[i].puts \in Nat
          /\ Len(chunk) \in Nat /\ MaxPuts \in Nat
      BY <3>2, DecodingAssumption DEF Frames, IInv, Feeding
    <3> QED BY <3>1, <3>3 DEF Fits
  <2>5. \A h \in Insts : Len(inst[h].dec_probemap) = Len(Probes(inst[h].decoder))
    BY ProbeMapOf DEF IInv
  <2> QED BY <2>1, <2>2, <2>3, <2>4, <2>5 DEF TypeOK, Phases
<1> QED BY <1>1, Invariant, Phased, Sized, PTL

\* Every decoder at the bottom sees every sample once and in order, with the
\* pins its probes name, and what a decoder puts for the next protocol reaches
\* each decoder on top of it, in every interleaving of the nested calls.
THEOREM SamplesReach == Spec => []SamplesReachDecoders
<1>1. IInv => SamplesInOrder
  <2> SUFFICES ASSUME IInv, ~raised, Built \/ pc = "crashed", NEW h \in Insts
               PROVE  /\ \A i \in DOMAIN seen[h] : seen[h][i].num = i - 1
                      /\ pc = "session" =>
                            Len(seen[h]) = IF h \in ToSet(di_list) THEN sent ELSE 0
    BY DEF SamplesInOrder
  <2>1. /\ Len(seen[h]) = SeenBy(h)
        /\ \A i \in DOMAIN seen[h] : seen[h][i].num = i - 1
    BY DEF IInv, AllSeen, Built
  <2>2. pc = "session" => SeenBy(h) = IF h \in ToSet(di_list) THEN sent ELSE 0
    <3>1. pc = "session" => calls = <<>> /\ ToSet(rest) = {} /\ Len(chunk) = 0
      BY DEF IInv, Feeding, ToSet
    <3>2. sent \in Nat
      BY DEF IInv, Feeding
    <3> QED BY <3>1, <3>2 DEF SeenBy
  <2> QED BY <2>1, <2>2
<1>2. IInv => StackFed
  <2> SUFFICES ASSUME IInv, calls = <<>>, NEW h \in Insts,
                      NEW g \in ToSet(inst[h].next_di)
               PROVE  got[g] = put[h]
    BY DEF StackFed
  <2>1. g \in OnTop[h] /\ OnTop[h] \subseteq Insts
    BY TopOf DEF IInv, Trees
  <2>2. ~Pending(h, g)
    BY DEF Pending
  <2>3. got[g] \in Nat
    <3>1. got \in Seq(Nat) /\ Len(got) = Len(inst)
      BY DEF IInv, Feeding
    <3>2. g \in 1 .. Len(inst)
      BY <2>1, TopOf DEF IInv
    <3> QED BY ONLY <3>1, <3>2
  <2>4. put[h] = got[g] + 0
    BY <2>1, <2>2 DEF IInv, AllGiven
  <2> QED BY <2>3, <2>4
<1>3. IInv => SamplesReachDecoders
  BY <1>1, <1>2 DEF SamplesReachDecoders, IInv
<1> QED BY <1>3, Invariant, PTL

\* Instances form the stack of the command line: put() finds each, each is fed
\* by one other or by the session, srd_exit() frees those of one line, and only
\* the topmost shows its annotations.
THEOREM Stacking == Spec => []WellStacked
<1>1. IInv => StackedOnce
  BY AllSearched, FedOnce DEF StackedOnce, Built
<1>2. IInv => OnlyTopmostShown
  BY DEF IInv, Showing, OnlyTopmostShown
<1>3. IInv => WellStacked
  BY <1>1, <1>2 DEF WellStacked, IInv
<1> QED BY <1>3, Invariant, PTL
=============================================================================
