--------------------------- MODULE SessionProofs ---------------------------
(***************************************************************************)
(* Proofs about the source list and the poll loop of Session.tla, for      *)
(* every set of objects and timeouts and every bound.                      *)
(***************************************************************************)
EXTENDS Session, FiniteSetTheorems, SequenceTheorems, TLAPS

-----------------------------------------------------------------------------
(* The list operations *)

\* What closing a gap does: one entry less, those after it one place further
\* to the front (the two memmove calls of _sr_session_source_remove).
LEMMA RemoveAtProperties ==
    ASSUME NEW S, NEW s \in Seq(S), NEW r \in 1 .. Len(s)
    PROVE  /\ RemoveAt(s, r) \in Seq(S)
           /\ Len(RemoveAt(s, r)) = Len(s) - 1
           /\ \A k \in 1 .. Len(s) - 1 :
                 RemoveAt(s, r)[k] = IF k < r THEN s[k] ELSE s[k + 1]
<1> DEFINE u == SubSeq(s, 1, r - 1)
           v == SubSeq(s, r + 1, Len(s))
<1>1. /\ u \in Seq(S) /\ Len(u) = r - 1
      /\ \A k \in 1 .. r - 1 : u[k] = s[k]
  <2>1. \A k \in 1 .. r - 1 : s[k] \in S
    BY ElementOfSeq, LenProperties
  <2> QED BY <2>1, SubSeqProperties, LenProperties
<1>2. /\ v \in Seq(S) /\ Len(v) = Len(s) - r
      /\ \A k \in 1 .. Len(s) - r : v[k] = s[r + k]
  <2>1. \A k \in r + 1 .. Len(s) : s[k] \in S
    BY ElementOfSeq, LenProperties
  <2> QED BY <2>1, SubSeqProperties, LenProperties
<1> HIDE DEF u, v
<1>3. /\ u \o v \in Seq(S) /\ Len(u \o v) = Len(s) - 1
      /\ \A k \in 1 .. Len(s) - 1 :
            (u \o v)[k] = IF k <= r - 1 THEN u[k] ELSE v[k - (r - 1)]
  <2>1. /\ u \o v \in Seq(S) /\ Len(u \o v) = Len(u) + Len(v)
        /\ \A k \in 1 .. Len(u) + Len(v) :
              (u \o v)[k] = IF k <= Len(u) THEN u[k] ELSE v[k - Len(u)]
    BY <1>1, <1>2, ConcatProperties
  <2>2. Len(u) + Len(v) = Len(s) - 1
    BY <1>1, <1>2, LenProperties
  <2> QED BY <1>1, <2>1, <2>2
<1>4. ASSUME NEW k \in 1 .. Len(s) - 1
      PROVE  (u \o v)[k] = IF k < r THEN s[k] ELSE s[k + 1]
  <2>1. CASE k < r
    BY <2>1, <1>1, <1>3, LenProperties
  <2>2. CASE ~ k < r
    <3>1. /\ k - (r - 1) \in 1 .. Len(s) - r
          /\ r + (k - (r - 1)) = k + 1
      BY <2>2, LenProperties
    <3> QED BY <2>2, <3>1, <1>2, <1>3, LenProperties
  <2> QED BY <2>1, <2>2
<1> QED BY <1>3, <1>4 DEF RemoveAt, u, v

\* The indices passed over are finitely many.
LEMMA PassedOverFinite ==
    ASSUME NEW s \in Seq(Entry), NEW f
    PROVE  IsFiniteSet(PassedOver(s, f)) /\ Cardinality(PassedOver(s, f)) \in Nat
<1>1. PassedOver(s, f) \in SUBSET (1 .. Len(s)) /\ Len(s) \in Nat
  BY LenProperties DEF PassedOver
<1>2. IsFiniteSet(1 .. Len(s))
  BY <1>1, FS_Interval
<1> QED BY <1>1, <1>2, FS_Subset, FS_CardinalityType

\* Fewer indices passed over in t than in s when every one of t is one of s.
LEMMA PassedOverMonotonic ==
    ASSUME NEW s \in Seq(Entry), NEW f, NEW t \in Seq(Entry), NEW g,
           PassedOver(t, g) \subseteq PassedOver(s, f)
    PROVE  Cardinality(PassedOver(t, g)) <= Cardinality(PassedOver(s, f))
BY PassedOverFinite, FS_Subset

\* Removing one entry lets the scan pass over at most one entry more: the
\* one that moves from index f + 1 to the index f the scan has reached.
LEMMA PassedOverAfterRemove ==
    ASSUME NEW s \in Seq(Entry), NEW r \in 1 .. Len(s), NEW f \in Nat
    PROVE  Cardinality(PassedOver(RemoveAt(s, r), f))
              <= Cardinality(PassedOver(s, f)) + 1
<1> DEFINE t == RemoveAt(s, r)
           A == PassedOver(t, f)
           B == PassedOver(s, f)
           h == [k \in A \ {f} |-> IF k < r THEN k ELSE k + 1]
<1>1. /\ t \in Seq(Entry) /\ Len(t) = Len(s) - 1 /\ Len(s) \in Nat
      /\ \A k \in 1 .. Len(s) - 1 : t[k] = IF k < r THEN s[k] ELSE s[k + 1]
  BY RemoveAtProperties, LenProperties
<1> HIDE DEF t
<1>2. IsFiniteSet(A) /\ IsFiniteSet(B)
      /\ Cardinality(A) \in Nat /\ Cardinality(B) \in Nat
  BY <1>1, PassedOverFinite
<1>3. ASSUME NEW k \in A \ {f}
      PROVE  (IF k < r THEN k ELSE k + 1) \in B
  <2>1. k \in 1 .. Len(s) - 1 /\ k < f /\ t[k].revents /\ ~t[k].called
    BY <1>1 DEF PassedOver
  <2>2. CASE k < r
    BY <2>1, <2>2, <1>1 DEF PassedOver
  <2>3. CASE ~(k < r)
    BY <2>1, <2>3, <1>1 DEF PassedOver
  <2> QED BY <2>2, <2>3
<1>4. h \in Injection(A \ {f}, B)
  <2>1. h \in [A \ {f} -> B]
    BY <1>3
  <2>2. A \ {f} \subseteq Nat
    BY <1>1 DEF PassedOver
  <2>3. \A j, k \in A \ {f} : h[j] = h[k] => j = k
    BY <2>2
  <2> QED BY <2>1, <2>3 DEF Injection, IsInjective
<1>5. /\ IsFiniteSet(A \ {f})
      /\ Cardinality(A \ {f}) =
            IF f \in A THEN Cardinality(A) - 1 ELSE Cardinality(A)
  BY <1>2, FS_RemoveElement
<1>6. Cardinality(A \ {f}) <= Cardinality(B)
  BY <1>2, <1>4, FS_Injection
<1> QED BY <1>2, <1>5, <1>6 DEF t

\* If the scan has reached the end, nothing moves to behind it.
LEMMA PassedOverAfterLastRemove ==
    ASSUME NEW s \in Seq(Entry), NEW r \in 1 .. Len(s), NEW f \in Nat,
           ~(f < Len(s))
    PROVE  Cardinality(PassedOver(RemoveAt(s, r), f))
              <= Cardinality(PassedOver(s, f))
<1> DEFINE t == RemoveAt(s, r)
           A == PassedOver(t, f)
           B == PassedOver(s, f)
           h == [k \in A |-> IF k < r THEN k ELSE k + 1]
<1>1. /\ t \in Seq(Entry) /\ Len(t) = Len(s) - 1 /\ Len(s) \in Nat
      /\ \A k \in 1 .. Len(s) - 1 : t[k] = IF k < r THEN s[k] ELSE s[k + 1]
  BY RemoveAtProperties, LenProperties
<1> HIDE DEF t
<1>2. A \subseteq Nat /\ IsFiniteSet(B)
  <2>1. A \subseteq Nat
    BY <1>1 DEF PassedOver
  <2> QED BY <2>1, PassedOverFinite
<1>3. ASSUME NEW k \in A
      PROVE  (IF k < r THEN k ELSE k + 1) \in B
  <2>1. k \in 1 .. Len(s) - 1 /\ k < f /\ t[k].revents /\ ~t[k].called
    BY <1>1 DEF PassedOver
  <2>2. CASE k < r
    BY <2>1, <2>2, <1>1 DEF PassedOver
  <2>3. CASE ~(k < r)
    BY <2>1, <2>3, <1>1 DEF PassedOver
  <2> QED BY <2>2, <2>3
<1>4. h \in Injection(A, B)
  <2>1. h \in [A -> B]
    BY <1>3
  <2>2. \A j, k \in A : h[j] = h[k] => j = k
    BY <1>2
  <2> QED BY <2>1, <2>2 DEF Injection, IsInjective
<1> QED BY <1>2, <1>4, FS_Injection DEF t

\* An appended entry is passed over only if the scan is already past the end.
LEMMA PassedOverAfterAppend ==
    ASSUME NEW s \in Seq(Entry), NEW e \in Entry, NEW f \in Nat
    PROVE  Cardinality(PassedOver(Append(s, e), f))
              <= Cardinality(PassedOver(s, f)) + (IF Len(s) < f THEN 1 ELSE 0)
<1> DEFINE t == Append(s, e)
           A == PassedOver(t, f)
           B == PassedOver(s, f)
           n == Len(s) + 1
<1>1. /\ t \in Seq(Entry) /\ Len(t) = n /\ Len(s) \in Nat
      /\ \A k \in 1 .. Len(s) : t[k] = s[k]
  BY LenProperties
<1> HIDE DEF t
<1>2. /\ IsFiniteSet(B) /\ Cardinality(A) \in Nat /\ Cardinality(B) \in Nat
      /\ IsFiniteSet(B \cup {n})
      /\ Cardinality(B \cup {n}) <= Cardinality(B) + 1
  <2>1. IsFiniteSet(A) /\ IsFiniteSet(B)
        /\ Cardinality(A) \in Nat /\ Cardinality(B) \in Nat
    BY <1>1, PassedOverFinite
  <2> HIDE DEF A, B, n
  <2>2. /\ IsFiniteSet(B \cup {n})
        /\ Cardinality(B \cup {n}) =
              IF n \in B THEN Cardinality(B) ELSE Cardinality(B) + 1
    BY <2>1, FS_AddElement
  <2> QED BY <2>1, <2>2
<1>3. CASE Len(s) < f
  <2>1. A \subseteq B \cup {n}
    BY <1>1 DEF PassedOver
  <2>2. Cardinality(A) <= Cardinality(B \cup {n})
    BY <1>2, <2>1, FS_Subset
  <2>3. Cardinality(B \cup {n}) \in Nat
    BY <1>2, FS_CardinalityType
  <2> QED BY <1>2, <1>3, <2>2, <2>3 DEF t
<1>4. CASE ~(Len(s) < f)
  <2>1. A \subseteq B
    BY <1>1, <1>4 DEF PassedOver
  <2> QED BY <1>2, <1>4, <2>1, FS_Subset DEF t
<1> QED BY <1>3, <1>4

-----------------------------------------------------------------------------
(***************************************************************************)
(* The inductive invariant.  MissedOnlyByRemoval alone is not inductive:   *)
(* a callback that removes entries can leave the scan past the end of the  *)
(* list, and an entry added then lands behind it.  Those places count as   *)
(* if they had been passed over already.                                   *)
(***************************************************************************)
PastEnd == IF Frontier > Len(sources) THEN Frontier - Len(sources) ELSE 0

PassedOverBound ==
    pc \in {"scan", "callback"} =>
        Cardinality(PassedOver(sources, Frontier)) + PastEnd <= removals

IInv == TypeOK /\ TimeoutCoversSources /\ PassedOverBound

\* The invariant holds at the start.
LEMMA InitInv == Init => IInv
<1> SUFFICES ASSUME Init PROVE IInv
  OBVIOUS
<1> USE DEF Init
<1>1. TypeOK
  BY EmptySeq DEF TypeOK, Indices
<1>2. TimeoutCoversSources
  BY EmptySeq DEF TimeoutCoversSources, Indices
<1>3. PassedOverBound
  BY DEF PassedOverBound
<1> QED BY <1>1, <1>2, <1>3 DEF IInv

\* A new source: the minimum is kept, and it lands behind the scan only in
\* a place that already counts as passed over.
LEMMA SourceAddInv ==
    ASSUME IInv, NEW o \in Objects, NEW t \in Timeouts, NEW g \in BOOLEAN,
           SourceAdd(o, t, g)
    PROVE  IInv'
<1> DEFINE e == [obj |-> o, timeout |-> t, revents |-> g, called |-> FALSE]
<1>1. /\ sources \in Seq(Entry) /\ Len(sources) \in Nat /\ e \in Entry
      /\ i \in Nat /\ removals \in Nat /\ ops \in Nat
  BY LenProperties DEF IInv, TypeOK, Entry
<1>2. /\ sources' = Append(sources, e) /\ sources' \in Seq(Entry)
      /\ Len(sources') = Len(sources) + 1
      /\ \A k \in Indices : sources'[k] = sources[k]
      /\ sources'[Len(sources) + 1] = e
  BY <1>1 DEF SourceAdd, Indices
<1>3. source_timeout' = TimeoutAfterAdd(t) /\ pc' = pc /\ i' = i
      /\ removals' = removals
  BY <1>1 DEF SourceAdd
<1>4. source_timeout' \in {-1} \cup {u \in Timeouts : u > 0}
  BY <1>3 DEF TimeoutAfterAdd, IInv, TypeOK
<1>5. TypeOK'
  BY <1>1, <1>2, <1>3, <1>4 DEF IInv, TypeOK, SourceAdd
<1>6. TimeoutCoversSources'
  <2> SUFFICES ASSUME NEW k \in Indices', sources'[k].timeout > 0
               PROVE  /\ source_timeout' # -1
                      /\ source_timeout' <= sources'[k].timeout
    BY DEF TimeoutCoversSources
  <2>1. source_timeout \in Int /\ t \in Int /\ source_timeout >= -1
    <3>1. source_timeout \in {-1} \cup {u \in Timeouts : u > 0}
      BY DEF IInv, TypeOK
    <3> QED BY <3>1, SessionAssumption
  <2>2. CASE k \in Indices
    <3>1. sources'[k] = sources[k]
      BY <2>2, <1>2
    <3>2. sources[k] \in Entry
      BY <2>2, <1>1, ElementOfSeq DEF Indices
    <3>3. sources[k].timeout \in Int
      BY <3>2, SessionAssumption DEF Entry
    <3>4. source_timeout # -1 /\ source_timeout <= sources[k].timeout
      BY <2>2, <3>1 DEF IInv, TimeoutCoversSources
    <3>5. /\ TimeoutAfterAdd(t) # -1
          /\ TimeoutAfterAdd(t) <= sources[k].timeout
      BY <3>3, <3>4, <2>1 DEF TimeoutAfterAdd
    <3> QED BY <3>1, <3>5, <1>3
  <2>3. CASE k \notin Indices
    <3>1. sources'[k] = e
      BY <2>3, <1>1, <1>2 DEF Indices
    <3> QED BY <3>1, <2>1, <1>3 DEF TimeoutAfterAdd, IInv, TypeOK
  <2> QED BY <2>2, <2>3
<1>7. PassedOverBound'
  <2> SUFFICES ASSUME pc \in {"scan", "callback"}
               PROVE  Cardinality(PassedOver(sources', Frontier)) + PastEnd'
                         <= removals
    BY <1>3 DEF PassedOverBound, Frontier
  <2>1. pc = "callback" /\ Frontier \in Nat /\ Frontier' = Frontier
    BY <1>1, <1>3 DEF SourceAdd, MayCall, Frontier
  <2>2. /\ Cardinality(PassedOver(sources', Frontier)) \in Nat
        /\ Cardinality(PassedOver(sources, Frontier)) \in Nat
        /\ Cardinality(PassedOver(sources', Frontier)) <=
              Cardinality(PassedOver(sources, Frontier))
                 + (IF Len(sources) < Frontier THEN 1 ELSE 0)
    BY <2>1, <1>1, <1>2, PassedOverAfterAppend, PassedOverFinite
  <2>3. Cardinality(PassedOver(sources, Frontier)) + PastEnd <= removals
    BY <2>1 DEF IInv, PassedOverBound
  <2> QED BY <2>1, <2>2, <2>3, <1>1, <1>2 DEF PastEnd
<1> QED BY <1>5, <1>6, <1>7 DEF IInv

\* A removal, by the API call or after a callback returned FALSE.
LEMMA RemoveObjectInv ==
    ASSUME IInv, NEW o, RemoveObject(o),
           source_timeout' = source_timeout, Frontier' = Frontier,
           pc \in {"out", "callback"}, pc' \in {"out", "scan", "callback"},
           pc = "out" => pc' = "out",
           pc' \in {"scan", "callback"} => i >= 1
    PROVE  /\ sources' \in Seq(Entry) /\ removals' \in Nat
           /\ TimeoutCoversSources' /\ PassedOverBound'
<1>1. /\ sources \in Seq(Entry) /\ Len(sources) \in Nat /\ i \in Nat
      /\ removals \in Nat /\ TimeoutCoversSources /\ PassedOverBound
  BY LenProperties DEF IInv, TypeOK
<1>2. CASE ~Registered(o) /\ UNCHANGED <<sources, removals>>
  BY <1>1, <1>2
     DEF TimeoutCoversSources, PassedOverBound, PastEnd, Frontier, Indices
<1>3. CASE \E k \in Indices :
              /\ sources' = RemoveAt(sources, k)
              /\ removals' = IF pc = "callback" THEN removals + 1 ELSE removals
  <2>1. PICK r \in 1 .. Len(sources) :
              /\ sources' = RemoveAt(sources, r)
              /\ removals' = IF pc = "callback" THEN removals + 1 ELSE removals
    BY <1>3 DEF Indices
  <2>2. /\ sources' \in Seq(Entry) /\ Len(sources') = Len(sources) - 1
        /\ \A k \in 1 .. Len(sources) - 1 :
              sources'[k] = IF k < r THEN sources[k] ELSE sources[k + 1]
    BY <1>1, <2>1, RemoveAtProperties
  <2>3. removals' \in Nat
    BY <1>1, <2>1
  <2>4. TimeoutCoversSources'
    <3> SUFFICES ASSUME NEW k \in 1 .. Len(sources) - 1,
                        sources'[k].timeout > 0
                 PROVE  /\ source_timeout # -1
                        /\ source_timeout <= sources'[k].timeout
      BY <2>2 DEF TimeoutCoversSources, Indices
    <3>1. PICK j \in Indices : sources'[k] = sources[j]
      BY <2>2, <1>1 DEF Indices
    <3> QED BY <3>1, <1>1 DEF TimeoutCoversSources
  <2>5. PassedOverBound'
    <3> SUFFICES ASSUME pc' \in {"scan", "callback"}
                 PROVE  Cardinality(PassedOver(sources', Frontier)) + PastEnd'
                           <= removals'
      BY DEF PassedOverBound
    <3>1. pc = "callback" /\ Frontier \in Nat /\ removals' = removals + 1
      BY <1>1, <2>1 DEF Frontier
    <3>2. Cardinality(PassedOver(sources, Frontier)) + PastEnd <= removals
      BY <1>1, <3>1 DEF PassedOverBound
    <3>3. /\ Cardinality(PassedOver(sources', Frontier)) \in Nat
          /\ Cardinality(PassedOver(sources, Frontier)) \in Nat
      BY <1>1, <2>2, PassedOverFinite
    <3>4. CASE Frontier < Len(sources)
      <4>1. Cardinality(PassedOver(sources', Frontier))
               <= Cardinality(PassedOver(sources, Frontier)) + 1
        BY <1>1, <2>1, <3>1, PassedOverAfterRemove
      <4> QED BY <4>1, <1>1, <2>2, <3>1, <3>2, <3>3, <3>4 DEF PastEnd
    <3>5. CASE ~(Frontier < Len(sources))
      <4>1. Cardinality(PassedOver(sources', Frontier))
               <= Cardinality(PassedOver(sources, Frontier))
        BY <1>1, <2>1, <3>1, <3>5, PassedOverAfterLastRemove
      <4> QED BY <4>1, <1>1, <2>2, <3>1, <3>2, <3>3, <3>5 DEF PastEnd
    <3> QED BY <3>4, <3>5
  <2> QED BY <2>2, <2>3, <2>4, <2>5
<1> QED BY <1>2, <1>3 DEF RemoveObject

\* sr_session_source_remove() from a callback.
LEMMA SourceRemoveInv ==
    ASSUME IInv, NEW o \in Objects, SourceRemove(o)
    PROVE  IInv'
<1>1. /\ RemoveObject(o) /\ pc \in {"out", "callback"}
      /\ UNCHANGED <<source_timeout, running, pc, i, expired, ready>>
      /\ ops' \in Nat
  BY DEF SourceRemove, MayCall, IInv, TypeOK
<1>2. /\ Frontier' = Frontier /\ (pc \in {"scan", "callback"} => i >= 1)
  BY <1>1 DEF Frontier, IInv, TypeOK
<1>3. /\ sources' \in Seq(Entry) /\ removals' \in Nat
      /\ TimeoutCoversSources' /\ PassedOverBound'
  BY <1>1, <1>2, RemoveObjectInv
<1>4. TypeOK'
  BY <1>1, <1>3 DEF IInv, TypeOK
<1> QED BY <1>3, <1>4 DEF IInv

\* A callback that returns FALSE: whatever entry is lost.
LEMMA ReturnFalseInv == ASSUME IInv, ReturnFalse PROVE IInv'
<1>0. PICK o : RemoveObject(Narrowed(o))
  BY DEF ReturnFalse
<1>1. /\ pc = "callback" /\ pc' = "scan" /\ i' = i + 1 /\ i \in Nat
      /\ ready' \subseteq Objects
      /\ UNCHANGED <<source_timeout, running, expired, ops>>
  BY DEF ReturnFalse, Consume, IInv, TypeOK
<1>2. Frontier' = Frontier /\ i >= 1
  BY <1>1 DEF Frontier, IInv, TypeOK
<1>3. /\ sources' \in Seq(Entry) /\ removals' \in Nat
      /\ TimeoutCoversSources' /\ PassedOverBound'
  BY <1>0, <1>1, <1>2, RemoveObjectInv
<1>4. TypeOK'
  BY <1>1, <1>2, <1>3 DEF IInv, TypeOK
<1> QED BY <1>3, <1>4 DEF IInv

\* g_poll() has returned: a new round, nothing passed over yet.
LEMMA PollInv ==
    ASSUME IInv, PollReady \/ PollExpired \/ PollInterrupted
    PROVE  IInv'
<1>1. PICK R \in [Indices -> BOOLEAN], b \in BOOLEAN : Scan(LAMBDA k : R[k], b)
  <2>1. sources \in Seq(Entry) /\ \A k \in Indices : sources[k] \in Entry
    BY ElementOfSeq DEF IInv, TypeOK, Indices
  <2>2. ASSUME PollReady PROVE
           Scan(LAMBDA k : [j \in Indices |-> Pollable(sources[j].obj)][k], FALSE)
    BY <2>2 DEF PollReady, Scan
  <2>3. ASSUME PollExpired PROVE
           Scan(LAMBDA k : [j \in Indices |-> FALSE][k], TRUE)
    BY <2>3 DEF PollExpired, Scan
  <2>4. ASSUME PollInterrupted PROVE
           Scan(LAMBDA k : [j \in Indices |-> sources[j].revents][k], FALSE)
    BY <2>4 DEF PollInterrupted, Scan
  <2>5. [j \in Indices |-> Pollable(sources[j].obj)] \in [Indices -> BOOLEAN]
    BY DEF Pollable
  <2>6. [j \in Indices |-> FALSE] \in [Indices -> BOOLEAN]
    OBVIOUS
  <2>7. [j \in Indices |-> sources[j].revents] \in [Indices -> BOOLEAN]
    BY <2>1 DEF Entry
  <2> QED BY <2>2, <2>3, <2>4, <2>5, <2>6, <2>7
<1>2. /\ sources \in Seq(Entry) /\ Len(sources) \in Nat
      /\ \A k \in Indices : sources[k] \in Entry
  BY ElementOfSeq, LenProperties DEF IInv, TypeOK, Indices
<1>3. /\ i' = 1 /\ removals' = 0 /\ ops' = 0 /\ pc' = "scan"
      /\ expired' \in BOOLEAN
      /\ UNCHANGED <<source_timeout, running, ready>>
  BY <1>1 DEF Scan
<1>4. /\ sources' \in Seq(Entry) /\ Len(sources') = Len(sources)
      /\ Indices' = Indices
      /\ \A k \in Indices : /\ sources'[k].timeout = sources[k].timeout
                            /\ sources'[k].called = FALSE
  <2>1. sources' = [k \in 1 .. Len(sources) |->
                       [sources[k] EXCEPT !.revents = R[k], !.called = FALSE]]
    BY <1>1 DEF Scan, Indices
  <2>2. \A k \in 1 .. Len(sources) :
           /\ sources'[k] \in Entry
           /\ sources'[k].timeout = sources[k].timeout
           /\ sources'[k].called = FALSE
    BY <1>1, <1>2, <2>1 DEF Entry, Indices
  <2>3. sources' \in [1 .. Len(sources) -> Entry]
    BY <2>1, <2>2
  <2>4. sources' \in Seq(Entry)
    BY <1>2, <2>3, SeqDef
  <2>5. Len(sources') = Len(sources)
    BY <1>2, <2>3, <2>4, LenProperties
  <2> QED BY <2>2, <2>4, <2>5 DEF Indices
<1>5. TypeOK'
  BY <1>3, <1>4 DEF IInv, TypeOK
<1>6. TimeoutCoversSources'
  BY <1>3, <1>4 DEF IInv, TimeoutCoversSources
<1>7. PassedOverBound'
  <2>1. Frontier' = 0
    BY <1>3 DEF Frontier
  <2>2. PastEnd' = 0
    BY <1>2, <1>4, <2>1 DEF PastEnd
  <2>3. PassedOver(sources', 0) = {}
    BY <1>2, <1>4 DEF PassedOver
  <2>4. Cardinality(PassedOver(sources', 0)) = 0
    BY <2>3, FS_EmptySet
  <2>5. Cardinality(PassedOver(sources, Frontier))' = 0
    BY <2>1, <2>4
  <2> QED BY <2>2, <2>5, <1>3 DEF PassedOverBound
<1> QED BY <1>5, <1>6, <1>7 DEF IInv

\* A callback is called.
LEMMA InvokeInv == ASSUME IInv, Invoke PROVE IInv'
<1>1. /\ sources \in Seq(Entry) /\ Len(sources) \in Nat
      /\ \A k \in Indices : sources[k] \in Entry
      /\ i \in Indices /\ i \in Nat /\ removals \in Nat
      /\ pc = "scan" /\ pc' = "callback" /\ ops' = 0
      /\ sources' = [sources EXCEPT ![i].called = TRUE]
      /\ UNCHANGED <<source_timeout, running, i, expired, ready, removals>>
  BY ElementOfSeq, LenProperties DEF Invoke, IInv, TypeOK, Indices
<1>2. /\ sources' \in Seq(Entry) /\ Len(sources') = Len(sources)
      /\ \A k \in Indices : sources'[k] = IF k = i
                                 THEN [sources[k] EXCEPT !.called = TRUE]
                                 ELSE sources[k]
  <2> DEFINE e == [sources[i] EXCEPT !.called = TRUE]
  <2>1. e \in Entry /\ sources' = [sources EXCEPT ![i] = e]
    BY <1>1 DEF Entry
  <2> HIDE DEF e
  <2>2. /\ sources' \in Seq(Entry) /\ Len(sources') = Len(sources)
        /\ \A k \in 1 .. Len(sources) :
              sources'[k] = IF k = i THEN e ELSE sources[k]
    <3>1. sources \in Seq(Entry) /\ e \in Entry /\ i \in 1 .. Len(sources)
      BY <1>1, <2>1 DEF Indices
    <3>2. /\ [sources EXCEPT ![i] = e] \in Seq(Entry)
          /\ Len([sources EXCEPT ![i] = e]) = Len(sources)
          /\ \A k \in 1 .. Len(sources) : [sources EXCEPT ![i] = e][k]
                = IF k = i THEN e ELSE sources[k]
      BY <3>1, ExceptSeq
    <3> QED BY <2>1, <3>2
  <2> QED BY <2>2 DEF e, Indices
<1>3. Indices' = Indices
  BY <1>2 DEF Indices
<1>4. \A k \in Indices : sources'[k].timeout = sources[k].timeout
  BY <1>1, <1>2 DEF Entry
<1>5. TypeOK'
  BY <1>1, <1>2, <1>3 DEF IInv, TypeOK, Indices
<1>6. TimeoutCoversSources'
  BY <1>1, <1>3, <1>4 DEF IInv, TimeoutCoversSources
<1>7. PassedOverBound'
  <2>1. /\ Frontier = i - 1 /\ Frontier' = i /\ PastEnd = 0 /\ PastEnd' = 0
    BY <1>1, <1>2 DEF Frontier, PastEnd, Indices
  <2>2. PassedOver(sources', i) \subseteq PassedOver(sources, i - 1)
    BY <1>1, <1>2 DEF PassedOver, Indices, Entry
  <2>3. /\ Cardinality(PassedOver(sources', i))
               <= Cardinality(PassedOver(sources, i - 1))
        /\ Cardinality(PassedOver(sources', i)) \in Nat
        /\ Cardinality(PassedOver(sources, i - 1)) \in Nat
    BY <1>1, <1>2, <2>2, PassedOverMonotonic, PassedOverFinite
  <2>4. Cardinality(PassedOver(sources, i - 1)) <= removals
    BY <1>1, <2>1, <2>3 DEF IInv, PassedOverBound
  <2> QED BY <1>1, <2>1, <2>3, <2>4 DEF PassedOverBound
<1> QED BY <1>5, <1>6, <1>7 DEF IInv

\* A source that is not due is passed over.
LEMMA SkipSourceInv == ASSUME IInv, SkipSource PROVE IInv'
<1>1. /\ sources \in Seq(Entry) /\ Len(sources) \in Nat
      /\ i \in Indices /\ i \in Nat /\ removals \in Nat
      /\ ~sources[i].revents
      /\ pc = "scan" /\ i' = i + 1
      /\ UNCHANGED <<sources, source_timeout, running, pc, expired, ready, ops,
                     removals>>
  BY LenProperties DEF SkipSource, Due, IInv, TypeOK
<1>2. TypeOK' /\ TimeoutCoversSources'
  BY <1>1 DEF IInv, TypeOK, TimeoutCoversSources, Indices
<1>3. PassedOverBound'
  <2>1. /\ Frontier = i - 1 /\ Frontier' = i /\ PastEnd = 0 /\ PastEnd' = 0
    BY <1>1 DEF Frontier, PastEnd, Indices
  <2>2. PassedOver(sources, i) = PassedOver(sources, i - 1)
    BY <1>1 DEF PassedOver, Indices
  <2> QED BY <1>1, <2>1, <2>2 DEF IInv, PassedOverBound
<1> QED BY <1>2, <1>3 DEF IInv

\* The other actions leave the list, and where the scan is in it, alone.
LEMMA ControlInv ==
    ASSUME IInv,
           Run \/ Stop \/ Leave \/ FreewheelCall \/ EndScan \/ ReturnTrue
              \/ ReturnFalseEmpty \/ (\E o \in Objects : Arrive(o))
    PROVE  IInv'
<1>1. /\ sources' = sources /\ source_timeout' = source_timeout
      /\ i \in Nat /\ removals \in Nat /\ Indices' = Indices
  BY DEF Indices, Run, Stop, Leave, FreewheelCall, EndScan, ReturnTrue,
         ReturnFalseEmpty, Arrive, IInv, TypeOK
<1>2. TypeOK'
  <2>1. CASE Run
    BY <1>1, <2>1 DEF Run, IInv, TypeOK
  <2>5. CASE Stop
    BY <1>1, <2>5 DEF Stop, IInv, TypeOK
  <2>6. CASE Leave
    BY <1>1, <2>6 DEF Leave, IInv, TypeOK
  <2>2. CASE FreewheelCall \/ EndScan \/ ReturnFalseEmpty
    BY <1>1, <2>2 DEF FreewheelCall, EndScan, ReturnFalseEmpty, IInv, TypeOK
  <2>3. CASE ReturnTrue
    BY <1>1, <2>3 DEF ReturnTrue, Consume, IInv, TypeOK
  <2>4. CASE \E o \in Objects : Arrive(o)
    BY <1>1, <2>4 DEF Arrive, IInv, TypeOK
  <2> QED BY <2>1, <2>2, <2>3, <2>4, <2>5, <2>6
<1>3. TimeoutCoversSources'
  BY <1>1 DEF IInv, TimeoutCoversSources, Indices
<1>4. pc' \in {"scan", "callback"} =>
         /\ pc \in {"scan", "callback"}
         /\ Frontier' = Frontier /\ removals' = removals
  BY <1>1 DEF Run, Stop, Leave, FreewheelCall, EndScan, ReturnTrue,
              ReturnFalseEmpty, Arrive, Frontier
<1>5. PassedOverBound'
  BY <1>1, <1>4 DEF IInv, PassedOverBound, PastEnd
<1> QED BY <1>2, <1>3, <1>5 DEF IInv

\* Every step keeps the invariant.
LEMMA NextInv == IInv /\ [Next]_vars => IInv'
<1> SUFFICES ASSUME IInv, [Next]_vars PROVE IInv'
  OBVIOUS
<1>1. ASSUME NEW o \in Objects, NEW t \in Timeouts, NEW g \in BOOLEAN,
             SourceAdd(o, t, g)
      PROVE  IInv'
  BY <1>1, SourceAddInv
<1>2. ASSUME NEW o \in Objects, SourceRemove(o)
      PROVE  IInv'
  BY <1>2, SourceRemoveInv
<1>3. CASE PollReady \/ PollExpired \/ PollInterrupted
  BY <1>3, PollInv
<1>4. CASE Invoke
  BY <1>4, InvokeInv
<1>5. CASE SkipSource
  BY <1>5, SkipSourceInv
<1>6. CASE ReturnFalse
  BY <1>6, ReturnFalseInv
<1>7. CASE \/ Run \/ Stop \/ Leave \/ FreewheelCall \/ EndScan \/ ReturnTrue
           \/ ReturnFalseEmpty \/ \E o \in Objects : Arrive(o)
  BY <1>7, ControlInv
<1>8. CASE Gone \/ UNCHANGED vars
  BY <1>8 DEF Gone, vars, IInv, TypeOK, TimeoutCoversSources, PassedOverBound,
              PastEnd, Frontier, Indices
<1> QED BY <1>1, <1>2, <1>3, <1>4, <1>5, <1>6, <1>7, <1>8 DEF Next, Loop

-----------------------------------------------------------------------------
(* The theorems *)

\* The invariant holds in every state.
LEMMA Invariant == Spec => []IInv
BY InitInv, NextInv, PTL DEF Spec

\* Every variable keeps its type and the poll timeout is never 0, although a
\* callback that returned FALSE may lose any entry.
THEOREM TypeCorrect == Spec => []TypeOK
<1>1. IInv => TypeOK
  BY DEF IInv
<1> QED BY <1>1, Invariant, PTL

\* g_poll() never sleeps past the timeout of a registered source, although
\* removals leave source_timeout alone.
THEOREM NoOversleeping == Spec => []TimeoutCoversSources
<1>1. IInv => TimeoutCoversSources
  BY DEF IInv
<1> QED BY <1>1, Invariant, PTL

\* Removing sources while the loop iterates by index passes over at most one
\* ready source per removal, whatever the callbacks add and remove.
THEOREM PassedOverOnlyByRemoval == Spec => []MissedOnlyByRemoval
<1>1. IInv => MissedOnlyByRemoval
  <2> SUFFICES ASSUME IInv, pc \in {"scan", "callback"}
               PROVE  Cardinality(PassedOver(sources, Frontier)) <= removals
    BY DEF MissedOnlyByRemoval
  <2>1. /\ Cardinality(PassedOver(sources, Frontier)) \in Nat
        /\ removals \in Nat /\ i \in Nat /\ Len(sources) \in Nat
    BY PassedOverFinite, LenProperties DEF IInv, TypeOK
  <2>2. PastEnd \in Int /\ PastEnd >= 0
    BY <2>1 DEF PastEnd, Frontier
  <2> QED BY <2>1, <2>2 DEF IInv, PassedOverBound
<1> QED BY <1>1, Invariant, PTL
=============================================================================
