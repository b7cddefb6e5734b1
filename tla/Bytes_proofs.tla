---------------------------- MODULE Bytes_proofs ----------------------------
(* How TotalBytes behaves when rows are added, removed or changed. *)
EXTENDS Bytes, Integers, FiniteSetTheorems, TLAPS

LEMMA BytesOfOne ==
    ASSUME NEW f, NEW n \in Nat
    PROVE  IsFiniteSet({f} \X (1 .. n)) /\ Cardinality({f} \X (1 .. n)) = n
<1>1. IsFiniteSet({f}) /\ Cardinality({f}) = 1
  BY FS_Singleton
<1>2. IsFiniteSet(1 .. n) /\ Cardinality(1 .. n) = IF 1 > n THEN 0 ELSE n - 1 + 1
  <2>1. 1 \in Int /\ n \in Int
    OBVIOUS
  <2> QED
    BY <2>1, FS_Interval
<1>3. Cardinality(1 .. n) = n
  BY <1>2
<1>4. /\ IsFiniteSet({f} \X (1 .. n))
      /\ Cardinality({f} \X (1 .. n)) = Cardinality({f}) * Cardinality(1 .. n)
  BY <1>1, <1>2, FS_Product
<1> QED
  BY <1>1, <1>3, <1>4

LEMMA ByteSetFinite ==
    ASSUME NEW S, IsFiniteSet(S), NEW column, \A f \in S : column[f] \in Nat
    PROVE  IsFiniteSet(ByteSet(column, S))
<1> DEFINE bytesOf == [f \in S |-> {f} \X (1 .. column[f])]
           parts   == {{f} \X (1 .. column[f]) : f \in S}
<1>1. bytesOf \in Surjection(S, parts)
  BY DEF Surjection
<1>2. IsFiniteSet(parts)
  BY <1>1, FS_Surjection
<1>3. ASSUME NEW f \in S
      PROVE  IsFiniteSet({f} \X (1 .. column[f]))
  BY BytesOfOne
<1>4. \A part \in parts : IsFiniteSet(part)
  BY <1>3
<1> QED
  BY <1>2, <1>4, FS_UNION DEF ByteSet

\* A sum of natural numbers is a natural number.
LEMMA TotalBytesType ==
    ASSUME NEW S, IsFiniteSet(S), NEW column, \A f \in S : column[f] \in Nat
    PROVE  TotalBytes(column, S) \in Nat
BY ByteSetFinite, FS_CardinalityType DEF TotalBytes

LEMMA TotalBytesOne ==
    ASSUME NEW f, NEW column, column[f] \in Nat
    PROVE  TotalBytes(column, {f}) = column[f]
<1>1. ByteSet(column, {f}) = {f} \X (1 .. column[f])
  BY DEF ByteSet
<1>2. Cardinality({f} \X (1 .. column[f])) = column[f]
  BY BytesOfOne
<1> QED
  BY <1>1, <1>2 DEF TotalBytes

\* Only the rows summed over matter.
LEMMA TotalBytesSame ==
    ASSUME NEW S, NEW before, NEW after, \A f \in S : before[f] = after[f]
    PROVE  TotalBytes(before, S) = TotalBytes(after, S)
BY DEF TotalBytes, ByteSet

\* Fewer rows, or smaller ones, do not sum to more.
LEMMA TotalBytesLess ==
    ASSUME NEW T, IsFiniteSet(T), NEW S \in SUBSET T, NEW before, NEW after,
           \A f \in T : before[f] \in Nat,
           \A f \in S : after[f] \in Nat /\ after[f] <= before[f]
    PROVE  TotalBytes(after, S) <= TotalBytes(before, T)
<1>1. ByteSet(after, S) \subseteq ByteSet(before, T)
  BY DEF ByteSet
<1>2. IsFiniteSet(ByteSet(before, T))
  BY ByteSetFinite
<1> QED
  BY <1>1, <1>2, FS_Subset DEF TotalBytes

LEMMA TotalBytesUnion ==
    ASSUME NEW S, IsFiniteSet(S), NEW T, IsFiniteSet(T), S \cap T = {},
           NEW column, \A f \in S \cup T : column[f] \in Nat
    PROVE  TotalBytes(column, S \cup T) = TotalBytes(column, S) + TotalBytes(column, T)
<1> DEFINE s == ByteSet(column, S)
           t == ByteSet(column, T)
<1>1. IsFiniteSet(s) /\ IsFiniteSet(t)
  BY ByteSetFinite
<1>2. ByteSet(column, S \cup T) = s \cup t
  BY DEF ByteSet
<1>3. s \cap t = {}
  BY DEF ByteSet
<1>4. Cardinality(s \cap t) = 0
  BY <1>3, FS_EmptySet
<1>5. Cardinality(s) \in Nat /\ Cardinality(t) \in Nat
  BY <1>1, FS_CardinalityType
<1> HIDE DEF s, t
<1>6. Cardinality(s \cup t) = Cardinality(s) + Cardinality(t) - Cardinality(s \cap t)
  BY <1>1, FS_Union
<1>7. Cardinality(s \cup t) = Cardinality(s) + Cardinality(t)
  BY <1>4, <1>5, <1>6
<1> QED
  BY <1>2, <1>7 DEF TotalBytes, s, t

\* A row that is inserted adds its own bytes.
LEMMA TotalBytesAdd ==
    ASSUME NEW S, IsFiniteSet(S), NEW f, f \notin S, NEW before, NEW after,
           \A g \in S : after[g] = before[g] /\ before[g] \in Nat, after[f] \in Nat
    PROVE  TotalBytes(after, S \cup {f}) = TotalBytes(before, S) + after[f]
<1>1. TotalBytes(after, S \cup {f}) = TotalBytes(after, S) + TotalBytes(after, {f})
  <2>1. IsFiniteSet({f}) /\ S \cap {f} = {}
    BY FS_Singleton
  <2>2. \A g \in S \cup {f} : after[g] \in Nat
    OBVIOUS
  <2> QED
    BY <2>1, <2>2, TotalBytesUnion
<1>2. TotalBytes(after, S) = TotalBytes(before, S)
  BY TotalBytesSame
<1>3. TotalBytes(after, {f}) = after[f]
  BY TotalBytesOne
<1> QED
  BY <1>1, <1>2, <1>3
=============================================================================
