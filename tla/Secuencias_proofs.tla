--------------------------- MODULE Secuencias_proofs ---------------------------
(* What the proofs about several modules need of sequences: how many of its        *)
(* elements are in a set, when one is added at the end or taken from the front.    *)
EXTENDS Integers, Sequences, FiniteSets, SequenceTheorems, FiniteSetTheorems, TLAPS

LEMMA SinElementos == Len(<<>>) = 0 /\ DOMAIN <<>> = {}
  OBVIOUS

Lugares(s, V) == {k \in DOMAIN s : s[k] \in V}

LEMMA PosicionesFinitas ==
    ASSUME NEW S, NEW s \in Seq(S), NEW V
    PROVE  /\ Lugares(s, V) \subseteq 1 .. Len(s)
           /\ IsFiniteSet(Lugares(s, V)) /\ Cardinality(Lugares(s, V)) \in Nat
  <1>1. DOMAIN s = 1 .. Len(s) /\ Len(s) \in Nat
    BY LenProperties
  <1>2. Lugares(s, V) \in SUBSET (1 .. Len(s))
    BY <1>1 DEF Lugares
  <1>3. IsFiniteSet(1 .. Len(s))
    BY <1>1, FS_Interval
  <1>4. IsFiniteSet(Lugares(s, V))
    BY <1>2, <1>3, FS_Subset
  <1> QED
    BY <1>2, <1>4, FS_CardinalityType

LEMMA PosicionesVacia ==
    ASSUME NEW V
    PROVE  Lugares(<<>>, V) = {} /\ Cardinality(Lugares(<<>>, V)) = 0
  <1>1. Lugares(<<>>, V) = {}
    BY DEF Lugares
  <1> QED
    BY <1>1, FS_EmptySet

LEMMA PosicionesAppend ==
    ASSUME NEW S, NEW s \in Seq(S), NEW e \in S, NEW V
    PROVE  Cardinality(Lugares(Append(s, e), V)) =
           Cardinality(Lugares(s, V)) + IF e \in V THEN 1 ELSE 0
  <1> DEFINE n == Len(s)
             t == Append(s, e)
  <1>1. /\ n \in Nat /\ DOMAIN s = 1 .. n /\ DOMAIN t = 1 .. (n + 1)
        /\ \A k \in 1 .. n : t[k] = s[k]
        /\ t[n + 1] = e
    BY LenProperties, AppendProperties
  <1>2. IsFiniteSet(Lugares(s, V)) /\ Cardinality(Lugares(s, V)) \in Nat /\ n + 1 \notin Lugares(s, V)
    <2>1. Lugares(s, V) \subseteq 1 .. n
      BY PosicionesFinitas
    <2> QED
      BY <1>1, <2>1, PosicionesFinitas
  <1> HIDE DEF t, n
  <1>3. CASE e \in V
    <2>1. Lugares(t, V) = Lugares(s, V) \cup {n + 1}
      BY <1>1, <1>3 DEF Lugares
    <2>2. Cardinality(Lugares(s, V) \cup {n + 1}) = Cardinality(Lugares(s, V)) + 1
      BY <1>2, FS_AddElement
    <2> QED
      BY <1>3, <2>1, <2>2 DEF t
  <1>4. CASE e \notin V
    <2>1. Lugares(t, V) = Lugares(s, V)
      BY <1>1, <1>4 DEF Lugares
    <2> QED
      BY <1>2, <1>4, <2>1 DEF t
  <1> QED
    BY <1>3, <1>4

LEMMA PosicionesTail ==
    ASSUME NEW S, NEW s \in Seq(S), s # <<>>, NEW V
    PROVE  Cardinality(Lugares(Tail(s), V)) =
           Cardinality(Lugares(s, V)) - IF Head(s) \in V THEN 1 ELSE 0
  <1> DEFINE n == Len(s)
             t == Tail(s)
             P == Lugares(s, V)
             Q == Lugares(t, V)
             f == [k \in Q |-> k + 1]
  <1>1. /\ n \in Nat \ {0} /\ DOMAIN s = 1 .. n /\ DOMAIN t = 1 .. (n - 1)
        /\ \A k \in 1 .. (n - 1) : t[k] = s[k + 1]
        /\ Head(s) = s[1]
    <2>1. n \in Nat \ {0} /\ DOMAIN s = 1 .. n /\ Head(s) = s[1]
      BY LenProperties, EmptySeq
    <2>2. t \in Seq(S) /\ Len(t) = n - 1 /\ \A k \in 1 .. Len(t) : t[k] = s[k + 1]
      BY HeadTailProperties
    <2>3. DOMAIN t = 1 .. Len(t)
      BY <2>2, LenProperties
    <2> QED
      BY <2>1, <2>2, <2>3
  <1>2. IsFiniteSet(P) /\ Cardinality(P) \in Nat /\ IsFiniteSet(Q)
    <2>1. t \in Seq(S)
      BY HeadTailProperties
    <2> QED
      BY <2>1, PosicionesFinitas
  <1>3. Q = {k \in 1 .. (n - 1) : s[k + 1] \in V} /\ P = {k \in 1 .. n : s[k] \in V}
    BY <1>1 DEF Lugares
  <1> HIDE DEF n, t, P, Q
  <1>4. f \in Bijection(Q, P \ {1})
    <2>1. \A k \in Q : k + 1 \in P \ {1} /\ k \in Int
      BY <1>1, <1>3
    <2>2. \A m \in P \ {1} : m - 1 \in Q /\ m = (m - 1) + 1
      BY <1>1, <1>3
    <2>3. f \in [Q -> P \ {1}]
      BY <2>1
    <2>4. \A a, b \in Q : f[a] = f[b] => a = b
      BY <2>1
    <2>5. \A m \in P \ {1} : \E k \in Q : f[k] = m
      BY <2>2
    <2> QED
      BY <2>3, <2>4, <2>5 DEF Bijection, Injection, Surjection, IsInjective
  <1>5. Cardinality(Q) = Cardinality(P \ {1})
    BY <1>2, <1>4, FS_Bijection DEF ExistsBijection
  <1>6. Cardinality(P \ {1}) = IF 1 \in P THEN Cardinality(P) - 1 ELSE Cardinality(P)
    BY <1>2, FS_RemoveElement
  <1>7. 1 \in P <=> Head(s) \in V
    BY <1>1, <1>3
  <1>8. Cardinality(Q) = Cardinality(P) - IF Head(s) \in V THEN 1 ELSE 0
    BY <1>2, <1>5, <1>6, <1>7
  <1> QED
    BY <1>8 DEF P, Q, t

(* Pieces of a sequence *)

LEMMA ElementosDeSubSeq ==
    ASSUME NEW S, NEW s \in Seq(S), NEW a \in Nat \ {0}, NEW b \in Nat, b <= Len(s)
    PROVE  /\ SubSeq(s, a, b) \in Seq(S)
           /\ Len(SubSeq(s, a, b)) = IF a <= b THEN b - a + 1 ELSE 0
           /\ \A i \in 1 .. b - a + 1 : SubSeq(s, a, b)[i] = s[a + i - 1]
  <1>1. \A i \in a .. b : i \in 1 .. Len(s)
    BY LenProperties
  <1>2. \A i \in a .. b : s[i] \in S
    BY <1>1, ElementOfSeq
  <1> QED
    BY <1>2, SubSeqProperties

LEMMA SubSeqIguales ==
    ASSUME NEW S, NEW s \in Seq(S), NEW t \in Seq(S), NEW a \in Nat \ {0}, NEW b \in Nat,
           b <= Len(s), b <= Len(t), \A i \in a .. b : s[i] = t[i]
    PROVE  SubSeq(s, a, b) = SubSeq(t, a, b)
  <1> DEFINE u == SubSeq(s, a, b)
             v == SubSeq(t, a, b)
  <1>1. /\ u \in Seq(S) /\ v \in Seq(S) /\ Len(u) = Len(v)
        /\ Len(u) = (IF a <= b THEN b - a + 1 ELSE 0)
        /\ \A i \in 1 .. b - a + 1 : u[i] = s[a + i - 1]
        /\ \A i \in 1 .. b - a + 1 : v[i] = t[a + i - 1]
    BY ElementosDeSubSeq
  <1>2. \A i \in 1 .. b - a + 1 : a + i - 1 \in a .. b
    OBVIOUS
  <1> HIDE DEF u, v
  <1>3. \A i \in 1 .. Len(u) : i \in 1 .. b - a + 1
    BY <1>1
  <1>4. \A i \in 1 .. Len(u) : u[i] = v[i]
    BY <1>1, <1>2, <1>3
  <1>5. u = v
    BY <1>1, <1>4, SeqEqual
  <1> QED
    BY <1>5 DEF u, v

(* The first m elements of what is left of s, and the rest of it *)
LEMMA SubSeqDelResto ==
    ASSUME NEW S, NEW s \in Seq(S), NEW k \in Nat, NEW m \in Nat \ {0}, k + m <= Len(s),
           NEW t, t = SubSeq(s, k + 1, Len(s))
    PROVE  /\ t \in Seq(S) /\ Len(t) = Len(s) - k
           /\ SubSeq(t, 1, m) = SubSeq(s, k + 1, k + m)
           /\ SubSeq(t, m + 1, Len(t)) = SubSeq(s, k + m + 1, Len(s))
  <1> DEFINE n == Len(s)
             a == k + 1
  <1>1. n \in Nat /\ a \in Nat \ {0} /\ a <= n /\ n - a + 1 = n - k
    BY LenProperties
  <1>2. t = SubSeq(s, a, n) /\ a \in 1 .. n /\ n \in 1 .. n
    BY <1>1
  <1> HIDE DEF n, a
  <1>3. t \in Seq(S) /\ Len(t) = n - k
    BY <1>1, <1>2, ElementosDeSubSeq DEF n
  <1>4. SubSeq(t, 1, m) = SubSeq(s, k + 1, k + m)
    <2>1. 1 \in 1 .. n - a + 1 /\ m \in 1 .. n - a + 1
      BY <1>1 DEF n, a
    <2>2. SubSeq(SubSeq(s, a, n), 1, m) = SubSeq(s, a + 1 - 1, a + m - 1)
      BY <1>2, <2>1, SubSeqOfSubSeq DEF n
    <2>3. a + 1 - 1 = k + 1 /\ a + m - 1 = k + m
      BY <1>1 DEF a
    <2> QED
      BY <1>2, <2>2, <2>3
  <1>5. SubSeq(t, m + 1, Len(t)) = SubSeq(s, k + m + 1, n)
    <2>1. CASE k + m = n
      <3>1. Len(t) < m + 1 /\ n < k + m + 1 /\ Len(t) \in Int
        BY <1>1, <1>3, <2>1
      <3> QED
        BY <1>1, <3>1, SubSeqEmpty
    <2>2. CASE k + m < n
      <3>1. m + 1 \in 1 .. n - a + 1 /\ n - k \in 1 .. n - a + 1
        BY <1>1, <2>2 DEF a
      <3>2. SubSeq(SubSeq(s, a, n), m + 1, n - k) = SubSeq(s, a + (m + 1) - 1, a + (n - k) - 1)
        BY <1>2, <3>1, SubSeqOfSubSeq, SMTT(30) DEF n
      <3>3. a + (m + 1) - 1 = k + m + 1 /\ a + (n - k) - 1 = n
        BY <1>1 DEF a
      <3> QED
        BY <1>2, <1>3, <3>2, <3>3
    <2> QED
      BY <1>1, <2>1, <2>2 DEF n
  <1> QED
    BY <1>3, <1>4, <1>5 DEF n

(* What is in a sequence, in which order and whether once.  Each of the three is    *)
(* said of the sequence with one element more at the end, and of one by its head    *)
(* and its tail.                                                                     *)
Hay(s, V) == \E k \in DOMAIN s : s[k] \in V
AlMasUno(s, V) == \A k, m \in DOMAIN s : s[k] \in V /\ s[m] \in V => k = m
Antes(s, V, W) == \E k, m \in DOMAIN s : k < m /\ s[k] \in V /\ s[m] \in W

LEMMA NadaEnVacia ==
    \A V, W : ~Hay(<<>>, V) /\ AlMasUno(<<>>, V) /\ ~Antes(<<>>, V, W)
  BY DEF Hay, AlMasUno, Antes

LEMMA UnoMas ==
    ASSUME NEW S, NEW s \in Seq(S), NEW e \in S
    PROVE  /\ \A V : Hay(Append(s, e), V) <=> Hay(s, V) \/ e \in V
           /\ \A V : AlMasUno(Append(s, e), V) <=> AlMasUno(s, V) /\ (e \in V => ~Hay(s, V))
           /\ \A V, W : Antes(Append(s, e), V, W) <=> Antes(s, V, W) \/ (Hay(s, V) /\ e \in W)
  <1> DEFINE n == Len(s)
             t == Append(s, e)
  <1>1. /\ n \in Nat /\ DOMAIN s = 1 .. n /\ DOMAIN t = 1 .. (n + 1)
        /\ \A k \in 1 .. n : t[k] = s[k]
        /\ t[n + 1] = e
    BY LenProperties, AppendProperties
  <1> HIDE DEF n, t
  <1>2. /\ DOMAIN t = DOMAIN s \cup {n + 1} /\ n + 1 \notin DOMAIN s
        /\ \A k \in DOMAIN s : t[k] = s[k] /\ k < n + 1 /\ ~(n + 1 < k)
        /\ ~(n + 1 < n + 1)
    BY <1>1
  <1>3. ASSUME NEW V PROVE Hay(t, V) <=> Hay(s, V) \/ e \in V
    BY <1>1, <1>2 DEF Hay
  <1>4. ASSUME NEW V PROVE AlMasUno(t, V) <=> AlMasUno(s, V) /\ (e \in V => ~Hay(s, V))
    BY <1>1, <1>2 DEF Hay, AlMasUno
  <1>5. ASSUME NEW V, NEW W PROVE Antes(t, V, W) <=> Antes(s, V, W) \/ (Hay(s, V) /\ e \in W)
    BY <1>1, <1>2 DEF Hay, Antes
  <1> QED
    BY <1>3, <1>4, <1>5 DEF t

LEMMA UnoMenos ==
    ASSUME NEW S, NEW s \in Seq(S), s # <<>>
    PROVE  /\ \A V : Hay(s, V) <=> Head(s) \in V \/ Hay(Tail(s), V)
           /\ \A V : AlMasUno(s, V) <=> AlMasUno(Tail(s), V) /\ (Head(s) \in V => ~Hay(Tail(s), V))
           /\ \A V, W : Antes(s, V, W) <=> Antes(Tail(s), V, W) \/ (Head(s) \in V /\ Hay(Tail(s), W))
  <1> DEFINE n == Len(s)
             t == Tail(s)
             h == Head(s)
  <1>1. /\ n \in Nat \ {0} /\ DOMAIN s = 1 .. n /\ DOMAIN t = 1 .. (n - 1)
        /\ \A k \in 1 .. (n - 1) : t[k] = s[k + 1]
        /\ h = s[1]
    <2>1. n \in Nat \ {0} /\ DOMAIN s = 1 .. n /\ h = s[1]
      BY LenProperties, EmptySeq
    <2>2. t \in Seq(S) /\ Len(t) = n - 1 /\ \A k \in 1 .. Len(t) : t[k] = s[k + 1]
      BY HeadTailProperties
    <2>3. DOMAIN t = 1 .. Len(t)
      BY <2>2, LenProperties
    <2> QED
      BY <2>1, <2>2, <2>3
  <1> HIDE DEF n, t, h
  <1>2. /\ \A k \in DOMAIN t : k \in Int /\ k + 1 \in DOMAIN s /\ s[k + 1] = t[k] /\ k + 1 # 1 /\ 1 < k + 1
        /\ 1 \in DOMAIN s /\ s[1] = h /\ DOMAIN s \subseteq Int /\ DOMAIN t \subseteq Int
    BY <1>1
  <1>3. \A m \in DOMAIN s : m = 1 \/ (m - 1 \in DOMAIN t /\ t[m - 1] = s[m] /\ ~(m < 1))
    BY <1>1
  <1>4. ASSUME NEW V PROVE Hay(s, V) <=> h \in V \/ Hay(t, V)
    BY <1>2, <1>3 DEF Hay
  <1>5. ASSUME NEW V PROVE AlMasUno(s, V) <=> AlMasUno(t, V) /\ (h \in V => ~Hay(t, V))
    <2>1. ASSUME AlMasUno(s, V) PROVE AlMasUno(t, V)
      <3> SUFFICES ASSUME NEW k \in DOMAIN t, NEW m \in DOMAIN t, t[k] \in V, t[m] \in V PROVE k = m
        BY DEF AlMasUno
      <3>1. k + 1 = m + 1
        BY <1>2, <2>1 DEF AlMasUno
      <3> QED
        BY <1>2, <3>1
    <2>2. ASSUME AlMasUno(s, V), h \in V PROVE ~Hay(t, V)
      <3> SUFFICES ASSUME NEW k \in DOMAIN t, t[k] \in V PROVE FALSE
        BY DEF Hay
      <3> QED
        BY <1>2, <2>2 DEF AlMasUno
    <2>3. ASSUME AlMasUno(t, V), h \in V => ~Hay(t, V) PROVE AlMasUno(s, V)
      <3> SUFFICES ASSUME NEW k \in DOMAIN s, NEW m \in DOMAIN s, s[k] \in V, s[m] \in V PROVE k = m
        BY DEF AlMasUno
      <3>1. CASE k = 1
        BY <1>2, <1>3, <2>3, <3>1 DEF Hay
      <3>2. CASE m = 1
        BY <1>2, <1>3, <2>3, <3>2 DEF Hay
      <3>3. CASE k # 1 /\ m # 1
        <4>1. k - 1 \in DOMAIN t /\ m - 1 \in DOMAIN t /\ t[k - 1] \in V /\ t[m - 1] \in V
          BY <1>3, <3>3
        <4>2. k - 1 = m - 1
          BY <2>3, <4>1 DEF AlMasUno
        <4> QED
          BY <1>2, <4>2
      <3> QED
        BY <3>1, <3>2, <3>3
    <2> QED
      BY <2>1, <2>2, <2>3
  <1>6. ASSUME NEW V, NEW W PROVE Antes(s, V, W) <=> Antes(t, V, W) \/ (h \in V /\ Hay(t, W))
    <2>1. ASSUME Antes(t, V, W) PROVE Antes(s, V, W)
      <3>1. PICK k \in DOMAIN t, m \in DOMAIN t : k < m /\ t[k] \in V /\ t[m] \in W
        BY <2>1 DEF Antes
      <3>2. k + 1 < m + 1
        BY <1>2, <3>1
      <3> QED
        BY <1>2, <3>1, <3>2 DEF Antes
    <2>2. ASSUME h \in V, Hay(t, W) PROVE Antes(s, V, W)
      <3>1. PICK m \in DOMAIN t : t[m] \in W
        BY <2>2 DEF Hay
      <3> QED
        BY <1>2, <2>2, <3>1 DEF Antes
    <2>3. ASSUME Antes(s, V, W), ~(h \in V /\ Hay(t, W)) PROVE Antes(t, V, W)
      <3>1. PICK k \in DOMAIN s, m \in DOMAIN s : k < m /\ s[k] \in V /\ s[m] \in W
        BY <2>3 DEF Antes
      <3>2. m # 1 /\ m - 1 \in DOMAIN t /\ t[m - 1] \in W
        BY <1>1, <1>3, <3>1
      <3>3. k # 1
        BY <1>2, <2>3, <3>1, <3>2 DEF Hay
      <3>4. k - 1 \in DOMAIN t /\ t[k - 1] \in V /\ k - 1 < m - 1
        BY <1>2, <1>3, <3>1, <3>3
      <3> QED
        BY <3>2, <3>4 DEF Antes
    <2> QED
      BY <2>1, <2>2, <2>3
  <1> QED
    BY <1>4, <1>5, <1>6 DEF t, h

(* Counting says the same *)
LEMMA CuantosHay ==
    ASSUME NEW S, NEW s \in Seq(S), NEW V
    PROVE  /\ Hay(s, V) => Cardinality(Lugares(s, V)) > 0
           /\ Cardinality(Lugares(s, V)) <= 1 => AlMasUno(s, V)
  <1> DEFINE P == Lugares(s, V)
  <1>1. IsFiniteSet(P) /\ Cardinality(P) \in Nat
    BY PosicionesFinitas
  <1>2. Hay(s, V) => P # {}
    BY DEF Hay, Lugares
  <1>3. \A k, m \in DOMAIN s : s[k] \in V /\ s[m] \in V => k \in P /\ m \in P
    BY DEF Lugares
  <1> HIDE DEF P
  <1>4. Hay(s, V) => Cardinality(P) > 0
    BY <1>1, <1>2, FS_EmptySet
  <1>5. ASSUME Cardinality(P) <= 1, NEW k \in P, NEW m \in P PROVE k = m
    <2>1. IsFiniteSet(P \ {k}) /\ Cardinality(P \ {k}) = Cardinality(P) - 1 /\ Cardinality(P \ {k}) \in Nat
      BY <1>1, FS_RemoveElement, FS_CardinalityType
    <2>2. Cardinality(P \ {k}) = 0
      BY <1>1, <1>5, <2>1
    <2>3. P \ {k} = {}
      BY <2>1, <2>2, FS_EmptySet
    <2> QED
      BY <2>3
  <1> QED
    BY <1>3, <1>4, <1>5 DEF P, AlMasUno

LEMMA AlMasUnElemento ==
    ASSUME NEW P, \A x, y \in P : x = y
    PROVE  IsFiniteSet(P) /\ Cardinality(P) <= 1
  <1>1. CASE P = {}
    BY <1>1, FS_EmptySet
  <1>2. CASE P # {}
    <2>1. PICK x \in P : TRUE
      BY <1>2
    <2>2. P = {x}
      BY <2>1
    <2>3. IsFiniteSet({x}) /\ Cardinality({x}) = 1
      BY FS_Singleton
    <2> QED
      BY <2>2, <2>3
  <1> QED
    BY <1>1, <1>2
================================================================================
