--------------------------- MODULE OfflinePlayback_proofs ---------------------------
(***************************************************************************)
(* Proofs about a download and the playing of its copy.  The valid chunks  *)
(* of a store are those before its first missing byte; what is committed   *)
(* and the operation's record of it stay sound for each other under every  *)
(* transaction; a play call reads its record and its chunks of one copy    *)
(* unless a removal comes between.                                         *)
(***************************************************************************)
EXTENDS OfflinePlayback, FiniteSetTheorems, WellFoundedInduction, TLAPS

-----------------------------------------------------------------------------
(* Sets of chunks.                                                         *)

\* The set has the first n bytes, in k chunks.
Tiled(S, n, k) == Bytes(S) = 0..(n - 1) /\ {c.index : c \in S} = 0..(k - 1)

\* No chunk is empty.
Chunks(S) == S \subseteq Chunk /\ \A c \in S : c.start <= c.end

\* A set of numbers has a least one: it is how the first missing byte is named.
LEMMA LeastNat ==
    ASSUME NEW S \in SUBSET Nat, S # {}
    PROVE  \E n \in S : \A m \in S : n <= m
<1>1. \A m, n \in Nat : m < n => <<m, n>> \in OpToRel(<, Nat)
    BY DEF OpToRel
<1>2. PICK n \in S : \A m \in S : ~(<<m, n>> \in OpToRel(<, Nat))
    BY WFMin, NatLessThanWellFounded
<1>3. \A m \in S : ~(m < n)
    BY <1>1, <1>2
<1> QED BY <1>3

\* A byte of the set is a byte of one of its chunks.
LEMMA InBytes ==
    ASSUME NEW S, NEW b
    PROVE  b \in Bytes(S) <=> \E c \in S : b \in c.start..c.end
BY DEF Bytes

LEMMA BytesOfNone == Bytes({}) = {}
BY DEF Bytes

\* The empty store has no bytes, in no chunks.
LEMMA NoneTiled == Tiled({}, 0, 0)
BY BytesOfNone DEF Tiled

\* Every chunk of a set has its first and last byte there.
LEMMA EndsInBytes ==
    ASSUME NEW S, Chunks(S), NEW c \in S
    PROVE  /\ c.start \in Bytes(S) /\ c.end \in Bytes(S)
           /\ c.index \in Nat /\ c.start \in Nat /\ c.end \in Nat
           /\ c.start <= c.end /\ c.ver \in Version
<1>1. c.index \in Nat /\ c.start \in Nat /\ c.end \in Nat /\ c.start <= c.end /\ c.ver \in Version
    BY DEF Chunks, Chunk
<1>2. c.start \in c.start..c.end /\ c.end \in c.start..c.end
    BY <1>1
<1> QED BY <1>1, <1>2, InBytes

\* The bytes that a tiled set has, and its last chunk.
LEMMA TiledBounds ==
    ASSUME NEW S, Chunks(S), NEW n \in Nat, NEW k \in Nat, Tiled(S, n, k), NEW c \in S
    PROVE  c.start < n /\ c.end < n /\ c.index < k /\ n > 0 /\ k > 0
<1>1. c.start \in 0..(n - 1) /\ c.end \in 0..(n - 1) /\ c.index \in 0..(k - 1)
    BY EndsInBytes DEF Tiled
<1> QED BY <1>1

\* Without chunks there are no bytes, and without bytes no chunks.
LEMMA TiledEmpty ==
    ASSUME NEW S, Chunks(S), NEW n \in Nat, NEW k \in Nat, Tiled(S, n, k)
    PROVE  /\ S = {} <=> n = 0
           /\ S = {} <=> k = 0
<1>1. S # {} => n > 0 /\ k > 0
    BY TiledBounds
<1>2. ASSUME n > 0 PROVE S # {}
    <2>1. 0 \in Bytes(S)
        BY <1>2 DEF Tiled
    <2> QED BY <2>1, InBytes
<1>3. ASSUME k > 0 PROVE S # {}
    <2>1. 0 \in {c.index : c \in S}
        BY <1>3 DEF Tiled
    <2> QED BY <2>1
<1> QED BY <1>1, <1>2, <1>3

\* The last byte is that of a chunk.
LEMMA LastChunk ==
    ASSUME NEW S, Chunks(S), NEW n \in Nat, NEW k \in Nat, Tiled(S, n, k), S # {}
    PROVE  \E c \in S : c.end = n - 1 /\ \A d \in S : d.start # c.end + 1
<1>1. n > 0
    BY TiledEmpty
<1>2. n - 1 \in Bytes(S)
    BY <1>1 DEF Tiled
<1>3. PICK c \in S : n - 1 \in c.start..c.end
    BY <1>2, InBytes
<1>4. c.end < n /\ c.end \in Nat /\ c.start \in Nat
    BY TiledBounds, EndsInBytes
<1>5. c.end = n - 1
    BY <1>1, <1>3, <1>4
<1>6. \A d \in S : d.start < n
    BY TiledBounds
<1>7. \A d \in S : d.start # c.end + 1
    BY <1>1, <1>5, <1>6, EndsInBytes
<1> QED BY <1>5, <1>7

\* The chunk with the last number ends with the last byte.
LEMMA LastHasLastIndex ==
    ASSUME NEW S, Chunks(S), Laid(S), NEW n \in Nat, NEW k \in Nat, Tiled(S, n, k), NEW c \in S
    PROVE  c.index = k - 1 <=> c.end = n - 1
<1>1. PICK l \in S : l.end = n - 1
    BY LastChunk
<1>2. /\ c.index < k /\ c.end < n /\ l.index < k /\ n > 0 /\ k > 0
      /\ {c.index, c.start, c.end, l.index, l.start, l.end} \subseteq Nat
      /\ c.start <= c.end /\ l.start <= l.end
    BY TiledBounds, EndsInBytes
<1>3. PICK m \in S : m.index = k - 1
    <2>1. k - 1 \in 0..(k - 1)
        BY <1>2
    <2>2. k - 1 \in {x.index : x \in S}
        BY <2>1 DEF Tiled
    <2> QED BY <2>2
<1>4. m.end < n /\ m.start < n /\ {m.index, m.start, m.end} \subseteq Nat /\ m.start <= m.end
    BY TiledBounds, EndsInBytes
<1>5. m = l
    <2>1. ASSUME l.index < m.index PROVE FALSE
        <3>1. l.end < m.start
            BY <2>1 DEF Laid
        <3> QED BY <3>1, <1>1, <1>2, <1>4
    <2>2. l.index = m.index
        BY <2>1, <1>2, <1>3, <1>4
    <2> QED BY <2>2 DEF Laid
<1>6. ASSUME c.end = n - 1 PROVE c = m
    <2>1. ASSUME c.index < m.index PROVE FALSE
        <3>1. c.end < m.start
            BY <2>1 DEF Laid
        <3> QED BY <3>1, <1>6, <1>2, <1>4
    <2>2. c.index = m.index
        BY <2>1, <1>2, <1>3, <1>4
    <2> QED BY <2>2 DEF Laid
<1>7. ASSUME c.index = k - 1 PROVE c = m
    BY <1>7, <1>3 DEF Laid
<1> QED BY <1>1, <1>3, <1>5, <1>6, <1>7

-----------------------------------------------------------------------------
(* What loadValidatedChunks finds: the chunks before the first missing     *)
(* byte.                                                                   *)

\* A store that ends somewhere has a first missing byte.
LEMMA FirstMissingByte ==
    ASSUME NEW S, Chunks(S), NEW t \in Nat, \A c \in S : c.end < t
    PROVE  \E n \in Nat : n \notin Bytes(S) /\ 0..(n - 1) \subseteq Bytes(S)
<1> DEFINE M == {b \in Nat : b \notin Bytes(S)}
<1>1. t \in M
    <2>1. ASSUME NEW c \in S PROVE t \notin c.start..c.end
        BY EndsInBytes
    <2> QED BY <2>1, InBytes
<1>2. M \in SUBSET Nat /\ M # {}
    BY <1>1
<1> HIDE DEF M
<1>3. PICK n \in M : \A m \in M : n <= m
    BY <1>2, LeastNat
<1>4. n \in Nat
    BY <1>2
<1>5. ASSUME NEW b \in 0..(n - 1) PROVE b \in Bytes(S)
    <2>1. b \in Nat /\ ~(n <= b)
        BY <1>4
    <2>2. b \notin M
        BY <2>1, <1>3
    <2> QED BY <2>1, <2>2 DEF M
<1>6. n \notin Bytes(S)
    BY DEF M
<1> QED BY <1>4, <1>5, <1>6

\* Numbers and places have the same order.
LEMMA LaidOrder ==
    ASSUME NEW S, Chunks(S), Laid(S), NEW c \in S, NEW d \in S
    PROVE  /\ c.index < d.index <=> c.start < d.start
           /\ c.start < d.start => c.end < d.start
           /\ c.start = d.start => c = d
           /\ Before(c, d) <=> c.start < d.start
<1>1. /\ {c.index, c.start, c.end, d.index, d.start, d.end} \subseteq Nat
      /\ c.start <= c.end /\ d.start <= d.end
    BY EndsInBytes
<1>2. /\ c.index < d.index => c.end < d.start
      /\ d.index < c.index => d.end < c.start
      /\ c.index = d.index => c = d
    BY DEF Laid
<1>3. \/ c.index < d.index \/ d.index < c.index \/ c.index = d.index
    BY <1>1
<1>4. CASE c = d
    BY <1>1, <1>4 DEF Before
<1>5. CASE c.index < d.index
    BY <1>1, <1>2, <1>5 DEF Before
<1>6. CASE d.index < c.index
    BY <1>1, <1>2, <1>6 DEF Before
<1> QED BY <1>2, <1>3, <1>4, <1>5, <1>6

\* The chunks before a chunk, up to which no byte is missing.
LEMMA ValidatedAre ==
    ASSUME NEW S, Chunks(S), Laid(S), NEW n \in Nat, n \notin Bytes(S), 0..(n - 1) \subseteq Bytes(S)
    PROVE  Validated(S) = {c \in S : c.start < n} /\ Bytes(Validated(S)) = 0..(n - 1)
<1>1. ASSUME NEW c \in S, c.start < n
      PROVE  Tiles({d \in S : Before(d, c)}, c.start)
    <2> DEFINE P == {d \in S : Before(d, c)}
    <2>1. P = {d \in S : d.start < c.start}
        BY LaidOrder
    <2>2. ASSUME NEW b \in Bytes(P) PROVE b \in 0..(c.start - 1)
        <3>1. PICK d \in P : b \in d.start..d.end
            BY InBytes
        <3>2. d \in S /\ d.start < c.start
            BY <2>1
        <3>3. d.end < c.start
            BY <3>2, LaidOrder
        <3> QED BY <3>1, <3>2, <3>3, EndsInBytes
    <2>3. ASSUME NEW b \in 0..(c.start - 1) PROVE b \in Bytes(P)
        <3>1. c.start \in Nat /\ c.end \in Nat
            BY EndsInBytes
        <3>2. b \in 0..(n - 1)
            BY <3>1, <1>1
        <3>3. PICK d \in S : b \in d.start..d.end
            BY <3>2, InBytes
        <3>4. d.start \in Nat /\ d.end \in Nat
            BY EndsInBytes
        <3>5. d.start < c.start
            BY <3>1, <3>3, <3>4
        <3> QED BY <2>1, <3>3, <3>5, InBytes
    <2>4. ASSUME NEW d \in P, NEW e \in P, d # e
          PROVE  Bytes({d}) \cap Bytes({e}) = {}
        <3>1. /\ {d.start, d.end, e.start, e.end} \subseteq Nat
              /\ d.start < e.start => d.end < e.start
              /\ e.start < d.start => e.end < d.start
              /\ d.start # e.start
            BY <2>4, <2>1, LaidOrder, EndsInBytes
        <3>2. Bytes({d}) = d.start..d.end /\ Bytes({e}) = e.start..e.end
            BY DEF Bytes
        <3> QED BY <3>1, <3>2
    <2> QED BY <2>2, <2>3, <2>4 DEF Tiles
<1>2. ASSUME NEW c \in S, Tiles({d \in S : Before(d, c)}, c.start)
      PROVE  c.start < n
    <2>1. c.start \in Nat /\ c.start \in Bytes(S)
        BY EndsInBytes
    <2>2. Bytes({d \in S : Before(d, c)}) \subseteq Bytes(S)
        BY DEF Bytes
    <2>3. ~(n < c.start)
        <3>1. n < c.start => n \in 0..(c.start - 1)
            BY <2>1
        <3> QED BY <3>1, <1>2, <2>2 DEF Tiles
    <2> QED BY <2>1, <2>3
<1>3. Validated(S) = {c \in S : c.start < n}
    BY <1>1, <1>2 DEF Validated
<1>4. ASSUME NEW b \in Bytes(Validated(S)) PROVE b \in 0..(n - 1)
    <2>1. PICK c \in Validated(S) : b \in c.start..c.end
        BY InBytes
    <2>2. c \in S /\ c.start < n
        BY <1>3
    <2>3. c.start \in Nat /\ c.end \in Nat /\ n \notin c.start..c.end
        BY <2>2, EndsInBytes, InBytes
    <2> QED BY <2>1, <2>2, <2>3
<1>5. ASSUME NEW b \in 0..(n - 1) PROVE b \in Bytes(Validated(S))
    <2>1. PICK c \in S : b \in c.start..c.end
        BY InBytes
    <2>2. c.start < n
        BY <2>1, EndsInBytes
    <2> QED BY <1>3, <2>1, <2>2, InBytes
<1> QED BY <1>3, <1>4, <1>5

\* What loadValidatedChunks returns is in the store.
LEMMA ValidatedWithin == ASSUME NEW S PROVE Validated(S) \subseteq S
BY DEF Validated

\* It returns nothing of an empty store.
LEMMA NoneValidated == Validated({}) = {}
BY ValidatedWithin

\* Their numbers have no gap either.
LEMMA ValidatedIndices ==
    ASSUME NEW S, Chunks(S), Laid(S), NEW n \in Nat, 0..(n - 1) \subseteq Bytes(S),
           NEW m \in Nat, \A c \in S : c.index < m
    PROVE  \E k \in Nat : {c.index : c \in {d \in S : d.start < n}} = 0..(k - 1)
<1> DEFINE V == {d \in S : d.start < n}
           I == {c.index : c \in V}
           M == {i \in Nat : i \notin I}
<1>1. I \subseteq Nat
    BY EndsInBytes
<1>2. ASSUME NEW i \in I, i > 0 PROVE i - 1 \in I
    <2>1. PICK c \in V : i = c.index
        OBVIOUS
    <2>2. c \in S /\ c.start < n /\ c.start \in Nat /\ c.end \in Nat /\ c.index \in Nat
        BY EndsInBytes
    <2>3. c.start # 0
        BY <1>2, <2>1, <2>2 DEF Laid
    <2>4. c.start - 1 \in 0..(n - 1)
        BY <2>2, <2>3
    <2>5. PICK e \in S : c.start - 1 \in e.start..e.end
        BY <2>4, InBytes
    <2>6. e.start \in Nat /\ e.end \in Nat /\ e.index \in Nat
        BY EndsInBytes
    <2>7. e.start < c.start
        BY <2>2, <2>3, <2>5, <2>6
    <2>8. e.end < c.start
        BY <2>2, <2>7, LaidOrder
    <2>9. c.start = e.end + 1
        BY <2>2, <2>3, <2>5, <2>6, <2>8
    <2>10. c.index = e.index + 1
        BY <2>2, <2>9 DEF Laid
    <2>11. e \in V /\ e.index = i - 1
        BY <2>1, <2>2, <2>6, <2>7, <2>10
    <2> QED BY <2>11
<1>3. m \in M
    <2>1. ASSUME NEW c \in V PROVE c.index # m
        BY EndsInBytes
    <2> QED BY <2>1
<1>4. M \in SUBSET Nat /\ M # {}
    BY <1>3
<1>5. \A i \in Nat : i \notin I <=> i \in M
    OBVIOUS
<1> HIDE DEF V, I, M
<1>6. PICK k \in M : \A i \in M : k <= i
    BY <1>4, LeastNat
<1>7. k \in Nat /\ k \notin I
    BY <1>4, <1>5
<1>8. ASSUME NEW i \in 0..(k - 1) PROVE i \in I
    <2>1. i \in Nat /\ ~(k <= i)
        BY <1>7
    <2> QED BY <2>1, <1>5, <1>6
<1>9. ASSUME NEW i \in I, i > k PROVE FALSE
    <2> DEFINE J == {j \in I : j > k}
    <2>1. J \in SUBSET Nat /\ J # {}
        BY <1>1, <1>9
    <2>2. PICK j \in J : \A l \in J : j <= l
        BY <2>1, LeastNat
    <2>3. j \in I /\ j > k /\ j \in Nat
        BY <1>1
    <2>4. j - 1 \in I
        BY <1>2, <2>3, <1>7
    <2>5. j - 1 # k
        BY <2>4, <1>7
    <2>6. j - 1 \in J
        BY <2>3, <2>4, <2>5, <1>7
    <2> QED BY <2>2, <2>3, <2>6
<1>10. ASSUME NEW i \in I PROVE i \in 0..(k - 1)
    <2>1. i \in Nat /\ ~(i > k) /\ i # k
        BY <1>1, <1>7, <1>9
    <2> QED BY <2>1, <1>7
<1>11. I = 0..(k - 1)
    BY <1>8, <1>10
<1> QED BY <1>7, <1>11 DEF I, V

\* Tiles are counted by their numbers and measured by their bytes.
LEMMA TiledSizes ==
    ASSUME NEW S, NEW n \in Nat, NEW k \in Nat, Tiled(S, n, k), Laid(S)
    PROVE  /\ Cardinality(Bytes(S)) = n
           /\ IsFiniteSet(S) /\ Cardinality(S) = k
<1>1. Cardinality(Bytes(S)) = n
    <2>1. Cardinality(0..(n - 1)) = IF 0 > n - 1 THEN 0 ELSE n - 1 - 0 + 1
        BY FS_Interval
    <2> QED BY <2>1 DEF Tiled
<1> DEFINE T == 0..(k - 1)
           number == [c \in S |-> c.index]
<1>2. IsFiniteSet(T) /\ Cardinality(T) = k
    <2>1. /\ IsFiniteSet(0..(k - 1))
          /\ Cardinality(0..(k - 1)) = IF 0 > k - 1 THEN 0 ELSE k - 1 - 0 + 1
        BY FS_Interval
    <2> QED BY <2>1
<1>3. T = {c.index : c \in S}
    BY DEF Tiled
<1>4. number \in [S -> T]
    BY <1>3
<1>5. \A c, d \in S : number[c] = number[d] => c = d
    BY DEF Laid
<1>6. \A t \in T : \E c \in S : number[c] = t
    BY <1>3
<1> HIDE DEF T, number
<1>7. number \in Injection(S, T)
    BY <1>4, <1>5 DEF Injection, IsInjective
<1>8. number \in Surjection(S, T)
    BY <1>4, <1>6 DEF Surjection
<1>9. IsFiniteSet(S) /\ Cardinality(S) = Cardinality(T)
    BY <1>2, <1>7, <1>8, FS_Injection
<1> QED BY <1>1, <1>2, <1>9

\* The number of bytes and of chunks that are valid say which they are.
LEMMA ValidPrefix ==
    ASSUME NEW S, Chunks(S), Laid(S), NEW t \in Nat, \A c \in S : c.end < t,
           NEW m \in Nat, \A c \in S : c.index < m,
           NEW n, n = Cardinality(Bytes(Validated(S))), NEW k, k = Cardinality(Validated(S))
    PROVE  /\ n \in Nat /\ k \in Nat /\ Tiled(Validated(S), n, k)
           /\ Validated(S) = {c \in S : c.start < n}
           /\ \A c \in S : c.start # n
           /\ n \notin Bytes(S)
<1>1. PICK b \in Nat : b \notin Bytes(S) /\ 0..(b - 1) \subseteq Bytes(S)
    BY FirstMissingByte
<1>2. Validated(S) = {c \in S : c.start < b} /\ Bytes(Validated(S)) = 0..(b - 1)
    BY <1>1, ValidatedAre
<1>3. PICK j \in Nat : {c.index : c \in {d \in S : d.start < b}} = 0..(j - 1)
    BY <1>1, ValidatedIndices
<1>4. Tiled(Validated(S), b, j)
    BY <1>2, <1>3 DEF Tiled
<1>5. Laid(Validated(S))
    BY <1>2 DEF Laid
<1>6. n = b /\ k = j
    BY <1>4, <1>5, TiledSizes
<1>7. \A c \in S : c.start # b
    BY <1>1, EndsInBytes
<1> QED BY <1>1, <1>2, <1>4, <1>6, <1>7

-----------------------------------------------------------------------------
(* What the validators that were heard say of the chunks.                  *)

\* Nothing but v was heard since v.
Follows(etag, lm, v) ==
    /\ v.etag # Null => etag = v.etag
    /\ etag \in StrongEtag => v.etag = etag
    /\ v.lm # Null => lm = v.lm

\* No chunk tells of another file, or of an older one, than a chunk before it.
OfOneFile(S) ==
    \A c, d \in S :
        /\ c.start < d.start => ~OtherFile(c.ver, d.ver)
        /\ d.start = c.end + 1 => ~OlderFile(c.ver, d.ver)

\* The total and the validators of a record are those of what it has stored.
Heard(total, etag, lm, S) ==
    \A c \in S :
        /\ c.ver.total = total /\ c.end < total
        /\ c.ver.etag \in StrongEtag => etag = c.ver.etag
        /\ etag \in StrongEtag => c.ver.etag \in {Null, etag}
        /\ c.ver.etag # Null => etag # Null
        /\ (\A d \in S : d.start # c.end + 1) => Follows(etag, lm, c.ver)

\* A store and a record of it that can be resumed.
Sound(total, etag, lm, S) == Laid(S) /\ OfOneFile(S) /\ Heard(total, etag, lm, S)

\* What representationChanged compares, as a relation between a record and a version.
Differs(total, etag, lm, v) ==
    \/ /\ etag # Null /\ v.etag # Null /\ v.etag # etag
       /\ etag \in StrongEtag \/ v.etag \in StrongEtag
    \/ etag \in StrongEtag /\ v.etag = Null
    \/ total # Null /\ v.total # total
    \/ /\ etag \notin StrongEtag
       /\ lm # Null /\ v.lm # Null /\ v.lm # lm
       /\ etag = Null \/ v.etag = Null \/ etag = v.etag

\* A validator is kept until another is told.
Adopt(heard, told) == IF told = Null THEN heard ELSE told

\* A chunk of a response.
Piece(index, start, end, v) == [index |-> index, start |-> start, end |-> end, ver |-> v]

\* An empty store is sound under every record.
LEMMA NoneSound == ASSUME NEW total, NEW etag, NEW lm PROVE Sound(total, etag, lm, {})
BY DEF Sound, Laid, OfOneFile, Heard

\* The chunks before the first missing byte.
LEMMA SoundPrefix ==
    ASSUME NEW S, Chunks(S), NEW total, NEW etag, NEW lm, Sound(total, etag, lm, S),
           NEW n \in Nat, NEW k \in Nat, NEW V, V = {c \in S : c.start < n}, Tiled(V, n, k),
           \A c \in S : c.start # n
    PROVE  Sound(total, etag, lm, V)
<1>1. V \subseteq S /\ Chunks(V)
    BY DEF Chunks
<1>2. Laid(V) /\ OfOneFile(V)
    BY <1>1 DEF Sound, Laid, OfOneFile
<1>3. ASSUME NEW c \in V, \A d \in V : d.start # c.end + 1, NEW d \in S
      PROVE  d.start # c.end + 1
    <2>1. c.end < n /\ c.end \in Nat /\ d.start \in Nat /\ d.start # n
        BY <1>1, TiledBounds, EndsInBytes
    <2> QED BY <2>1, <1>3
<1>4. Heard(total, etag, lm, V)
    BY <1>1, <1>3 DEF Sound, Heard
<1> QED BY <1>2, <1>4 DEF Sound

\* A chunk that no chunk follows is the last one.
LEMMA NoSuccessorIsLast ==
    ASSUME NEW S, Chunks(S), Laid(S), NEW n \in Nat, NEW k \in Nat, Tiled(S, n, k),
           NEW c \in S, \A d \in S : d.start # c.end + 1
    PROVE  c.end = n - 1
<1>1. c.end < n /\ c.end \in Nat /\ c.start \in Nat /\ c.start <= c.end
    BY TiledBounds, EndsInBytes
<1>2. ASSUME c.end + 1 < n PROVE FALSE
    <2>1. c.end + 1 \in 0..(n - 1)
        BY <1>1, <1>2
    <2>2. PICK d \in S : c.end + 1 \in d.start..d.end
        BY <2>1, InBytes DEF Tiled
    <2>3. d.start \in Nat /\ d.end \in Nat
        BY EndsInBytes
    <2>4. /\ c.start < d.start => c.end < d.start
          /\ d.start < c.start => d.end < c.start
          /\ d.start = c.start => d = c
        BY LaidOrder
    <2> QED BY <1>1, <1>2, <2>2, <2>3, <2>4
<1> QED BY <1>1, <1>2

\* Where the last chunk is of what is served, nothing has changed.
LEMMA SameDiffersNot ==
    ASSUME NEW S, Chunks(S), S # {}, NEW n \in Nat, NEW k \in Nat, Tiled(S, n, k),
           NEW total, NEW etag, NEW lm, Sound(total, etag, lm, S),
           NEW v, \A c \in S : c.ver = v
    PROVE  ~Differs(total, etag, lm, v)
<1>1. PICK c \in S : \A d \in S : d.start # c.end + 1
    BY LastChunk
<1>2. c.ver = v /\ v.total = total /\ Follows(etag, lm, v)
    BY <1>1 DEF Sound, Heard
<1> QED BY <1>2, ChunkAssumption DEF Differs, Follows

\* What a chunk is made of.
LEMMA PieceFields ==
    ASSUME NEW i, NEW s, NEW e, NEW v
    PROVE  LET p == Piece(i, s, e, v) IN p.index = i /\ p.start = s /\ p.end = e /\ p.ver = v
BY DEF Piece

\* A chunk that starts at the first missing byte can be appended.
LEMMA LaidNext ==
    ASSUME NEW S, Chunks(S), Laid(S), NEW n \in Nat, NEW k \in Nat, Tiled(S, n, k),
           NEW e \in Nat, n <= e, NEW v
    PROVE  Laid(S \cup {Piece(k, n, e, v)})
<1> DEFINE p == Piece(k, n, e, v)
<1>1. p.index = k /\ p.start = n /\ p.end = e
    BY PieceFields
<1> HIDE DEF p
<1>2. ASSUME NEW c \in S
      PROVE  /\ c.index < k /\ c.end < n /\ c.start < n /\ n > 0 /\ k > 0
             /\ {c.index, c.start, c.end} \subseteq Nat /\ c.start <= c.end
             /\ k = c.index + 1 <=> n = c.end + 1
    <2>1. /\ c.index < k /\ c.end < n /\ c.start < n /\ n > 0 /\ k > 0
          /\ {c.index, c.start, c.end} \subseteq Nat /\ c.start <= c.end
        BY TiledBounds, EndsInBytes
    <2>2. c.index = k - 1 <=> c.end = n - 1
        BY LastHasLastIndex
    <2> QED BY <2>1, <2>2
<1>3. k = 0 <=> n = 0
    BY TiledEmpty
<1> DEFINE Pair(c, d) == /\ c.index = d.index => c = d
                         /\ c.index < d.index => c.end < d.start
                         /\ d.index = c.index + 1 <=> d.start = c.end + 1
                         /\ c.index = 0 <=> c.start = 0
<1>4. ASSUME NEW c \in S, NEW d \in S PROVE Pair(c, d)
    BY DEF Laid
<1>5. ASSUME NEW c \in S PROVE Pair(c, p)
    <2>1. c.index = 0 <=> c.start = 0
        BY DEF Laid
    <2> QED BY <1>1, <1>2, <2>1
<1>6. ASSUME NEW c \in S PROVE Pair(p, c)
    BY <1>1, <1>2, <1>3
<1>7. Pair(p, p)
    BY <1>1, <1>3
<1> HIDE DEF Pair
<1>8. \A c, d \in S \cup {p} : Pair(c, d)
    BY <1>4, <1>5, <1>6, <1>7
<1> QED BY <1>8 DEF Pair, Laid, p

\* The next piece is of what is served, which does not differ.
LEMMA SoundNext ==
    ASSUME NEW S, Chunks(S), NEW n \in Nat, NEW k \in Nat, Tiled(S, n, k),
           NEW total, NEW etag, NEW lm, Sound(total, etag, lm, S),
           NEW v \in Version, NEW e \in Nat, n <= e, e < v.total,
           ~Differs(total, etag, lm, v)
    PROVE  Sound(v.total, Adopt(etag, v.etag), Adopt(lm, v.lm), S \cup {Piece(k, n, e, v)})
<1> DEFINE p == Piece(k, n, e, v)
           tag == Adopt(etag, v.etag)
           mod == Adopt(lm, v.lm)
<1>1. p.index = k /\ p.start = n /\ p.end = e /\ p.ver = v
    BY PieceFields
<1>2. Laid(S \cup {p})
    BY LaidNext DEF Sound
<1>3. /\ v.etag = Null => tag = etag
      /\ v.etag # Null => tag = v.etag
      /\ v.lm # Null => mod = v.lm
    BY DEF Adopt
<1> HIDE DEF p, tag, mod
<1>4. v.total \in Nat /\ Null \notin Nat /\ Null \notin StrongEtag
    BY ChunkAssumption
<1>5. ASSUME NEW c \in S
      PROVE  /\ c.start < n /\ c.end < n /\ c.start \in Nat /\ c.end \in Nat
             /\ n = c.end + 1 => \A d \in S : d.start # c.end + 1
             /\ (\A d \in S : d.start # c.end + 1) => n = c.end + 1
    <2>1. c.start < n /\ c.end < n /\ c.start \in Nat /\ c.end \in Nat
        BY TiledBounds, EndsInBytes
    <2>2. ASSUME NEW d \in S, n = c.end + 1 PROVE d.start # c.end + 1
        BY TiledBounds, EndsInBytes, <2>2
    <2>3. ASSUME \A d \in S : d.start # c.end + 1 PROVE n = c.end + 1
        <3>1. c.end = n - 1
            BY <2>3, NoSuccessorIsLast DEF Sound
        <3> QED BY <3>1, <2>1
    <2> QED BY <2>1, <2>2, <2>3
<1>6. ASSUME NEW c \in S
      PROVE  /\ c.ver.total = v.total
             /\ c.ver.etag \in StrongEtag => v.etag = c.ver.etag
             /\ v.etag \in StrongEtag => c.ver.etag \in {Null, v.etag}
    <2>1. /\ c.ver.total = total /\ total \in Nat
          /\ c.ver.etag \in StrongEtag => etag = c.ver.etag
          /\ c.ver.etag # Null => etag # Null
          /\ etag \in StrongEtag => c.ver.etag \in {Null, etag}
        BY EndsInBytes, ChunkAssumption DEF Sound, Heard
    <2>2. c.ver.total = v.total
        BY <2>1, <1>4 DEF Differs
    <2>3. ASSUME c.ver.etag \in StrongEtag PROVE v.etag = c.ver.etag
        BY <2>1, <2>3, <1>4 DEF Differs
    <2>4. ASSUME v.etag \in StrongEtag PROVE c.ver.etag \in {Null, v.etag}
        BY <2>1, <2>4, <1>4 DEF Differs
    <2> QED BY <2>2, <2>3, <2>4
<1>7. ASSUME NEW c \in S PROVE ~OtherFile(c.ver, v)
    BY <1>6, <1>4 DEF OtherFile
<1>8. ASSUME NEW c \in S, n = c.end + 1 PROVE ~OlderFile(c.ver, v)
    <2>1. Follows(etag, lm, c.ver)
        BY <1>5, <1>8 DEF Sound, Heard
    <2> QED BY <2>1, <1>4 DEF Follows, Differs, OlderFile
<1>9. OfOneFile(S \cup {p})
    <2> DEFINE Pair(c, d) == /\ c.start < d.start => ~OtherFile(c.ver, d.ver)
                             /\ d.start = c.end + 1 => ~OlderFile(c.ver, d.ver)
    <2>1. ASSUME NEW c \in S, NEW d \in S PROVE Pair(c, d)
        BY DEF Sound, OfOneFile
    <2>2. ASSUME NEW c \in S PROVE Pair(c, p)
        BY <1>1, <1>7, <1>8
    <2>3. ASSUME NEW c \in S PROVE ~(p.start < c.start) /\ c.start # p.end + 1
        BY <1>1, <1>5
    <2>4. ~(p.start < p.start) /\ p.start # p.end + 1
        BY <1>1
    <2>5. ASSUME NEW c \in S \cup {p}, NEW d \in S \cup {p} PROVE Pair(c, d)
        BY <2>1, <2>2, <2>3, <2>4
    <2> QED BY <2>5 DEF OfOneFile
<1>10. ASSUME NEW c \in S
       PROVE  /\ c.ver.total = v.total /\ c.end < v.total
              /\ c.ver.etag \in StrongEtag => tag = c.ver.etag
              /\ tag \in StrongEtag => c.ver.etag \in {Null, tag}
              /\ c.ver.etag # Null => tag # Null
              /\ ~\A d \in S \cup {p} : d.start # c.end + 1
    <2>1. /\ c.ver.etag \in StrongEtag => etag = c.ver.etag
          /\ etag \in StrongEtag => c.ver.etag \in {Null, etag}
          /\ c.ver.etag # Null => etag # Null
        BY DEF Sound, Heard
    <2>2. c.ver.etag \in StrongEtag => tag = c.ver.etag
        BY <1>6, <1>3, <1>4
    <2>3. tag \in StrongEtag => c.ver.etag \in {Null, tag}
        BY <1>6, <1>3, <1>4, <2>1
    <2>4. c.ver.etag # Null => tag # Null
        BY <1>3, <2>1
    <2>5. c.end < v.total
        BY <1>5, <1>4
    <2>6. ~\A d \in S \cup {p} : d.start # c.end + 1
        BY <1>1, <1>5
    <2> QED BY <1>6, <2>2, <2>3, <2>4, <2>5, <2>6
<1>11. Follows(tag, mod, v)
    BY <1>3, <1>4 DEF Follows, Differs
<1>12. /\ p.ver.total = v.total /\ p.end < v.total
       /\ p.ver.etag \in StrongEtag => tag = p.ver.etag
       /\ tag \in StrongEtag => p.ver.etag \in {Null, tag}
       /\ p.ver.etag # Null => tag # Null
    BY <1>1, <1>3, <1>4
<1>13. Heard(v.total, tag, mod, S \cup {p})
    BY <1>1, <1>10, <1>11, <1>12 DEF Heard
<1> QED BY <1>2, <1>9, <1>13 DEF Sound, p, tag, mod

-----------------------------------------------------------------------------
(* The download.                                                           *)

\* The chunk that waits to be written.
Fetched == Piece(op.next, op.offset, resp.end, resp.ver)

\* The store and the record in it are sound for each other.
Stocked ==
    IF db = Null THEN chunks = {}
    ELSE /\ Sound(db.total, db.etag, db.lm, chunks)
         /\ \A c \in chunks : c.index < db.count

\* The operation has found out what is committed.
Going == pc \in {"meta", "request", "gate", "write", "check", "ready"}

\* The operation stands behind the last byte, and knows what was heard.
Committed ==
    /\ Going =>
        /\ Tiled(chunks, op.offset, op.next)
        /\ inherited \subseteq chunks
        /\ inherited # {} => op.etag # Null \/ op.lm # Null
    /\ Going /\ pc # "write" => Sound(op.total, op.etag, op.lm, chunks)
    /\ pc = "write" => Sound(op.total, op.etag, op.lm, chunks \cup {Fetched})
    /\ pc = "repair" =>
        /\ Tiled(Validated(chunks), op.offset, op.next)
        /\ Sound(op.total, op.etag, op.lm, Validated(chunks))
        /\ Validated(chunks) = {c \in chunks : c.start < op.offset}
        /\ \A c \in chunks : c.start # op.offset
    /\ pc = "reset" => chunks = {} \/ \E c \in chunks : c.ver # resp.ver

\* A copy that is to be marked ready has all of its bytes.
Whole ==
    Ready =>
        /\ Bytes(chunks) = 0..(db.total - 1)
        /\ inherited \cap chunks # {} => db.etag # Null \/ db.lm # Null
        /\ db.total > 0 => pc = "idle" \/ (pc = "pause" /\ scenario.misreads)

\* What the last look at the chunks found.
Counted(S, total, count) ==
    \/ total = 0
    \/ S # {} /\ Cardinality(S) = count /\ Cardinality(Bytes(S)) = total

\* Between the transactions, also where a record was misread.
Phases ==
    /\ IsFiniteSet(chunks) /\ \E t \in Nat : \A c \in chunks : c.end < t
    /\ misread => scenario.misreads
    /\ pc \in {"request", "gate", "reset", "write", "check", "ready"} =>
          db # Null /\ db.status = "downloading"
    /\ pc \in {"request", "gate", "check", "ready"} => db.etag = op.etag /\ db.lm = op.lm
    /\ pc \in {"check", "ready"} => op.offset = op.total
    /\ pc = "write" => op.total = resp.ver.total /\ op.offset <= resp.end
    /\ pc = "wipe" => op.etag = Null /\ op.lm = Null
    /\ pc = "ready" => Counted(Validated(chunks), op.total, db.count)

\* A ready video passes for whole when it is loaded.
Settled ==
    Ready =>
        /\ pc \in {"idle", "meta", "pause", "wipe"}
        /\ db.completed = db.total
        /\ Counted(Validated(chunks), db.total, db.count)
        /\ db.total = 0 => db.count = 0
        /\ pc = "wipe" => db.total = 0

\* The inductive invariant of a download.
DownloadInv ==
    /\ TypeOK /\ Phases /\ Settled
    /\ ~misread => Stocked /\ Committed /\ Whole

\* The store has no empty chunk.
LEMMA ChunksTyped == TypeOK => Chunks(chunks)
BY DEF TypeOK, Chunks

LEMMA FreshType == FreshOp \in Operation
BY ChunkAssumption DEF FreshOp, Operation, Length, Header

\* A record that is written has the fields of one.
LEMMA RecordType ==
    ASSUME NEW o \in Operation, NEW status \in {"downloading", "paused", "ready"}
    PROVE  /\ Record(status, o) \in VideoRecord /\ Record(status, o) # Null
           /\ Record(status, o).status = status /\ Record(status, o).completed = o.offset
           /\ Record(status, o).count = o.next /\ Record(status, o).total = Stored(o.total)
           /\ Record(status, o).etag = o.etag /\ Record(status, o).lm = o.lm
<1>1. Stored(o.total) \in Nat
    BY DEF Stored, Operation, Length
<1>2. Record(status, o) \in VideoRecord
    BY <1>1 DEF Record, Operation, VideoRecord
<1> QED BY <1>2, ChunkAssumption DEF Record

\* The next transaction is not reached, or the login is waited for.
LEMMA QuietKeeps ==
    ASSUME DownloadInv, UNCHANGED <<db, chunks, op, resp, inherited, misread, scenario>>,
           cur' \in scenario.serves,
           \/ pc' = pc
           \/ pc' = "idle"
           \/ pc # "idle" /\ pc' = "pause"
           \/ pc = "gate" /\ pc' = "request"
    PROVE  DownloadInv'
<1> USE DEF DownloadInv
<1>1. TypeOK'
    BY DEF TypeOK
<1>2. Phases'
    BY DEF Phases
<1>3. Settled'
    BY DEF Settled, Phases, Ready
<1>4. ASSUME ~misread PROVE Stocked' /\ Committed' /\ Whole'
    <2>1. Stocked'
        BY <1>4 DEF Stocked
    <2>2. Committed'
        BY <1>4 DEF Committed, Going, Fetched
    <2>3. Whole'
        BY <1>4 DEF Whole, Ready
    <2> QED BY <2>1, <2>2, <2>3
<1> QED BY <1>1, <1>2, <1>3, <1>4

\* The steps that touch neither the store nor the record in it.
LEMMA RequestFailedKeeps == ASSUME DownloadInv, RequestFailed PROVE DownloadInv'
BY QuietKeeps DEF RequestFailed, DownloadInv, TypeOK

LEMMA LoggedInKeeps == ASSUME DownloadInv, LoggedIn PROVE DownloadInv'
BY QuietKeeps DEF LoggedIn, DownloadInv, TypeOK

LEMMA StorageFailsKeeps == ASSUME DownloadInv, StorageFails PROVE DownloadInv'
BY QuietKeeps DEF StorageFails, DownloadInv, TypeOK

LEMMA ReloadKeeps == ASSUME DownloadInv, Reload PROVE DownloadInv'
BY QuietKeeps DEF Reload, DownloadInv, TypeOK

LEMMA SourceChangesKeeps == ASSUME DownloadInv, SourceChanges PROVE DownloadInv'
BY QuietKeeps DEF SourceChanges, DownloadInv, TypeOK

LEMMA StutterKeeps == ASSUME DownloadInv, UNCHANGED vars PROVE DownloadInv'
BY QuietKeeps DEF vars, DownloadInv, TypeOK

\* The attempts are counted.
LEMMA RetryKeeps ==
    ASSUME DownloadInv, pc = "request", pc' \in {"request", "gate"}, op' \in Operation,
           op'.offset = op.offset, op'.next = op.next, op'.total = op.total,
           op'.etag = op.etag, op'.lm = op.lm,
           UNCHANGED <<cur, db, chunks, resp, inherited, misread, scenario>>
    PROVE  DownloadInv'
<1> USE DEF DownloadInv
<1>1. TypeOK'
    BY DEF TypeOK
<1>2. Phases'
    BY DEF Phases
<1>3. Settled'
    BY DEF Settled, Phases, Ready
<1>4. ASSUME ~misread PROVE Stocked' /\ Committed' /\ Whole'
    <2>1. Stocked'
        BY <1>4 DEF Stocked
    <2>2. Committed'
        BY <1>4 DEF Committed, Going
    <2>3. Whole'
        BY <1>4 DEF Whole, Ready, Phases
    <2> QED BY <2>1, <2>2, <2>3
<1> QED BY <1>1, <1>2, <1>3, <1>4

\* The steps that ask again.
LEMMA RequestRetriedKeeps == ASSUME DownloadInv, RequestRetried PROVE DownloadInv'
<1>1. op \in Operation /\ op.attempt < MaxChunkAttempts - 1 /\ op' = [op EXCEPT !.attempt = @ + 1]
    BY DEF DownloadInv, TypeOK, RequestRetried
<1>2. /\ op' \in Operation
      /\ op'.offset = op.offset /\ op'.next = op.next /\ op'.total = op.total
      /\ op'.etag = op.etag /\ op'.lm = op.lm
    BY <1>1, ChunkAssumption DEF Operation
<1> QED BY <1>2, RetryKeeps DEF RequestRetried

LEMMA UnauthorizedKeeps == ASSUME DownloadInv, Unauthorized PROVE DownloadInv'
<1>1. CASE op.auth
    BY <1>1, QuietKeeps DEF Unauthorized, DownloadInv, TypeOK
<1>2. CASE ~op.auth
    <2>1. op \in Operation /\ op' = [op EXCEPT !.auth = TRUE]
        BY <1>2 DEF DownloadInv, TypeOK, Unauthorized
    <2>2. /\ op' \in Operation
          /\ op'.offset = op.offset /\ op'.next = op.next /\ op'.total = op.total
          /\ op'.etag = op.etag /\ op'.lm = op.lm
        BY <2>1 DEF Operation
    <2> QED BY <1>2, <2>2, RetryKeeps DEF Unauthorized
<1> QED BY <1>1, <1>2

\* A total of 0 is read as an unknown one, and an unknown one is written as 0:
\* only an empty store has such a record.
LEMMA SoundKnown ==
    ASSUME NEW S, Chunks(S), NEW total \in Nat, NEW etag, NEW lm, Sound(total, etag, lm, S)
    PROVE  Sound(Known(total), etag, lm, S)
<1>1. CASE S = {}
    BY <1>1, NoneSound
<1>2. CASE S # {}
    <2>1. total # 0
        BY <1>2, EndsInBytes DEF Sound, Heard
    <2> QED BY <2>1 DEF Known
<1> QED BY <1>1, <1>2

\* The same, when the record is written.
LEMMA SoundStored ==
    ASSUME NEW S, Chunks(S), NEW total \in Length, NEW etag, NEW lm, Sound(total, etag, lm, S)
    PROVE  Sound(Stored(total), etag, lm, S)
<1>1. CASE S = {}
    BY <1>1, NoneSound
<1>2. CASE S # {}
    <2>1. total # Null
        BY <1>2, EndsInBytes, ChunkAssumption DEF Sound, Heard
    <2> QED BY <2>1 DEF Stored
<1> QED BY <1>1, <1>2

\* The sizes that are counted from a store are numbers.
LEMMA SizesAreNumbers ==
    ASSUME DownloadInv
    PROVE  LET valid == Validated(chunks) IN
           /\ Cardinality(valid) \in Nat /\ Cardinality(Bytes(valid)) \in Nat
           /\ valid # {} => Cardinality(valid) > 0
<1> DEFINE valid == Validated(chunks)
<1>1. valid \in SUBSET chunks
    BY ValidatedWithin
<1> HIDE DEF valid
<1>2. IsFiniteSet(valid) /\ Chunks(chunks) /\ Chunks(valid)
    BY <1>1, FS_Subset, ChunksTyped DEF DownloadInv, Phases, Chunks
<1>3. PICK t \in Nat : \A c \in chunks : c.end < t
    BY DEF DownloadInv, Phases
<1>4. ASSUME NEW b \in Bytes(valid) PROVE b \in Nat /\ b <= t
    <2>1. PICK c \in valid : b \in c.start..c.end
        BY InBytes
    <2> QED BY <2>1, <1>1, <1>2, <1>3, EndsInBytes
<1>5. IsFiniteSet(Bytes(valid))
    BY <1>4, FS_BoundedSetOfNaturals
<1>6. Cardinality(valid) \in Nat /\ Cardinality(Bytes(valid)) \in Nat
    BY <1>2, <1>5, FS_CardinalityType
<1>7. valid # {} => Cardinality(valid) # 0
    BY <1>2, FS_EmptySet
<1> QED BY <1>6, <1>7 DEF valid

\* What Load makes of the record is an operation.
LEMMA LoadedOperation ==
    ASSUME DownloadInv, Load, db # Null
    PROVE  /\ db \in VideoRecord /\ op' \in Operation
           /\ op'.offset = Cardinality(Bytes(Validated(chunks)))
           /\ op'.next = Cardinality(Validated(chunks))
           /\ op'.total = Known(db.total) /\ op'.etag = db.etag /\ op'.lm = db.lm
<1>1. db \in VideoRecord
    BY DEF DownloadInv, TypeOK
<1> DEFINE n == Cardinality(Bytes(Validated(chunks)))
           k == Cardinality(Validated(chunks))
<1>2. n \in Nat /\ k \in Nat
    BY SizesAreNumbers
<1>3. Known(db.total) \in Length /\ db.etag \in Header /\ db.lm \in Header
    BY <1>1 DEF Known, Length, VideoRecord
<1>4. op' = [FreshOp EXCEPT !.offset = n, !.next = k, !.total = Known(db.total),
                            !.etag = db.etag, !.lm = db.lm]
    BY DEF Load
<1> HIDE DEF n, k
<1>5. /\ op' \in Operation /\ op'.offset = n /\ op'.next = k
      /\ op'.total = Known(db.total) /\ op'.etag = db.etag /\ op'.lm = db.lm
    BY <1>2, <1>3, <1>4, FreshType DEF Operation
<1> QED BY <1>1, <1>5 DEF n, k

\* A ready video that is not empty is left as it is.
LEMMA LoadReady ==
    ASSUME DownloadInv, Load, Ready
    PROVE  /\ ~Damaged(op')
           /\ db.total > 0 => pc' = "idle"
           /\ db.total = 0 => pc' \in {"meta", "wipe"}
<1> DEFINE valid == Validated(chunks)
<1>1. /\ db # Null /\ db.status = "ready" /\ db.completed = db.total
      /\ db.total = 0 => db.count = 0
      /\ Counted(valid, db.total, db.count)
    BY DEF DownloadInv, Settled, Ready
<1>2. /\ db \in VideoRecord /\ op'.offset = Cardinality(Bytes(valid))
      /\ op'.next = Cardinality(valid)
    BY <1>1, LoadedOperation
<1>3. /\ db.total \in Nat /\ db.count \in Nat /\ op'.offset \in Nat /\ op'.next \in Nat
      /\ valid # {} => op'.next > 0
    BY <1>2, SizesAreNumbers DEF VideoRecord
<1> HIDE DEF valid
<1>4. db.total # 0 => op'.next = db.count /\ op'.offset = db.total /\ op'.next > 0
    BY <1>1, <1>2, <1>3 DEF Counted
<1>5. ~Damaged(op')
    BY <1>1, <1>3, <1>4 DEF Damaged
<1>6. pc' = AfterRepair(op')
    BY <1>1, <1>5 DEF Load
<1> QED BY <1>1, <1>3, <1>4, <1>5, <1>6 DEF AfterRepair, Complete

\* Where the record is the one of the chunks, the proved ones are known.
LEMMA LoadedPrefix ==
    ASSUME DownloadInv, ~misread, Load, db # Null
    PROVE  LET valid == Validated(chunks) IN
           /\ Tiled(valid, op'.offset, op'.next)
           /\ Sound(op'.total, op'.etag, op'.lm, valid)
           /\ valid = {c \in chunks : c.start < op'.offset}
           /\ \A c \in chunks : c.start # op'.offset
           /\ ~Damaged(op') => valid = chunks
<1> DEFINE valid == Validated(chunks)
           n == op'.offset
           k == op'.next
<1>1. /\ db \in VideoRecord /\ op' \in Operation
      /\ n = Cardinality(Bytes(valid)) /\ k = Cardinality(valid)
      /\ op'.total = Known(db.total) /\ op'.etag = db.etag /\ op'.lm = db.lm
    BY LoadedOperation
<1>2. /\ Chunks(chunks) /\ Sound(db.total, db.etag, db.lm, chunks)
      /\ \A c \in chunks : c.index < db.count
    BY ChunksTyped DEF DownloadInv, Stocked
<1>3. Laid(chunks) /\ (\A c \in chunks : c.end < db.total) /\ db.total \in Nat /\ db.count \in Nat
      /\ db.completed \in Nat
    BY <1>1, <1>2 DEF Sound, Heard, VideoRecord
<1>4. /\ n \in Nat /\ k \in Nat /\ Tiled(valid, n, k)
      /\ valid = {c \in chunks : c.start < n}
      /\ \A c \in chunks : c.start # n
    BY <1>1, <1>2, <1>3, ValidPrefix
<1>5. valid \subseteq chunks /\ Chunks(valid)
    BY <1>2, ValidatedWithin DEF Chunks
<1> HIDE DEF valid, n, k
<1>6. Sound(db.total, db.etag, db.lm, valid)
    BY <1>2, <1>4, SoundPrefix
<1>7. Sound(op'.total, op'.etag, op'.lm, valid)
    BY <1>1, <1>3, <1>5, <1>6, SoundKnown
<1>8. ASSUME ~Damaged(op'), NEW c \in chunks PROVE c \in valid
    <2>1. c.index < db.count /\ c.index \in Nat
        BY <1>2, EndsInBytes
    <2>2. db.count <= k
        <3>1. ~(k > 0 /\ db.count > k) /\ ~(~(k > 0) /\ db.count > 0)
            BY <1>8 DEF Damaged, k
        <3> QED BY <3>1, <1>3, <1>4
    <2>3. c.index \in 0..(k - 1)
        BY <2>1, <2>2, <1>3, <1>4
    <2>4. PICK d \in valid : d.index = c.index
        BY <2>3, <1>4 DEF Tiled
    <2>5. d = c
        BY <2>4, <1>3, <1>5 DEF Laid
    <2> QED BY <2>5
<1>9. ~Damaged(op') => valid = chunks
    BY <1>5, <1>8
<1> QED BY <1>4, <1>7, <1>9 DEF valid, n, k

\* The load: what is committed is found out from the chunks.
LEMMA LoadKeeps == ASSUME DownloadInv, Load PROVE DownloadInv'
<1>1. /\ pc = "idle" /\ op' \in Operation
      /\ pc' \in {"idle", "repair", "wipe", "meta"}
      /\ UNCHANGED <<cur, db, chunks, resp, misread, scenario>>
    BY FreshType, LoadedOperation DEF Load, AfterRepair
<1>2. TypeOK'
    BY <1>1 DEF DownloadInv, TypeOK
<1>3. pc' = "wipe" => op'.etag = Null /\ op'.lm = Null
    BY DEF Load, AfterRepair, Unproven
<1>4. Phases'
    BY <1>1, <1>3 DEF DownloadInv, Phases
<1>5. Ready => pc' \in {"idle", "meta", "wipe"} /\ (pc' = "wipe" => db.total = 0)
                /\ (db.total > 0 => pc' = "idle")
    <2>1. Ready => db.total \in Nat
        BY DEF Ready, DownloadInv, TypeOK, VideoRecord
    <2> QED BY <2>1, LoadReady
<1>6. Settled'
    BY <1>1, <1>5 DEF DownloadInv, Settled, Ready
<1>7. ASSUME ~misread PROVE Stocked' /\ Committed' /\ Whole'
    <2>1. Chunks(chunks) /\ Stocked
        BY <1>7, ChunksTyped DEF DownloadInv
    <2>2. Stocked'
        BY <1>1, <2>1 DEF Stocked
    <2>3. ASSUME db = Null PROVE Committed'
        <3>1. chunks' = {} /\ op' = FreshOp /\ pc' = "meta" /\ inherited' = {}
            BY <2>1, <2>3 DEF Load, Stocked
        <3>2. op'.offset = 0 /\ op'.next = 0
            BY <3>1 DEF FreshOp
        <3> QED BY <3>1, <3>2, NoneTiled, NoneSound DEF Committed, Going
    <2>4. ASSUME db # Null PROVE Committed'
        <3>1. LET valid == Validated(chunks) IN
              /\ Tiled(valid, op'.offset, op'.next)
              /\ Sound(op'.total, op'.etag, op'.lm, valid)
              /\ valid = {c \in chunks : c.start < op'.offset}
              /\ \A c \in chunks : c.start # op'.offset
              /\ ~Damaged(op') => valid = chunks
            BY <1>7, <2>4, LoadedPrefix
        <3>2. ASSUME pc' = "meta"
              PROVE  /\ Validated(chunks) = chunks /\ inherited' = chunks
                     /\ chunks # {} => op'.etag # Null \/ op'.lm # Null
            <4>1. ~Damaged(op') /\ ~Unproven(op') /\ inherited' = chunks
                BY <2>4, <3>2 DEF Load, AfterRepair
            <4>2. op'.offset \in Nat /\ op'.next \in Nat
                BY <1>1 DEF Operation
            <4>3. chunks # {} => op'.offset > 0
                BY <2>1, <3>1, <4>1, <4>2, TiledEmpty
            <4> QED BY <3>1, <4>1, <4>3 DEF Unproven
        <3> QED BY <1>1, <3>1, <3>2 DEF Committed, Going
    <2>5. Whole'
        <3>1. SUFFICES ASSUME Ready PROVE Whole'
            BY <1>1 DEF Whole, Ready
        <3>2. Whole /\ db.total \in Nat
            BY <1>7, <3>1 DEF DownloadInv, TypeOK, Ready, VideoRecord
        <3>3. CASE pc' = "idle"
            BY <1>1, <3>2, <3>3 DEF Whole, Ready, Load
        <3>4. CASE pc' # "idle"
            <4>1. db.total = 0
                BY <1>5, <3>1, <3>2, <3>4
            <4>2. Bytes(chunks) = {}
                BY <4>1, <3>1, <3>2 DEF Whole
            <4>3. chunks = {}
                BY <4>2, <2>1, EndsInBytes
            <4> QED BY <1>1, <3>2, <4>1, <4>3 DEF Whole, Ready
        <3> QED BY <3>3, <3>4
    <2> QED BY <2>2, <2>3, <2>4, <2>5
<1> QED BY <1>1, <1>2, <1>4, <1>6, <1>7 DEF DownloadInv

LEMMA LoadWithoutRecordKeeps == ASSUME DownloadInv, LoadWithoutRecord PROVE DownloadInv'
<1> USE DEF DownloadInv
<1>1. TypeOK'
    BY FreshType DEF LoadWithoutRecord, TypeOK
<1>2. Phases'
    BY DEF LoadWithoutRecord, Phases
<1>3. Settled'
    BY DEF LoadWithoutRecord, Settled, Ready
<1>4. misread'
    BY DEF LoadWithoutRecord
<1> QED BY <1>1, <1>2, <1>3, <1>4

LEMMA LoadFailsKeeps == ASSUME DownloadInv, LoadFails PROVE DownloadInv'
<1> USE DEF DownloadInv
<1>1. /\ pc' = "pause" /\ op' = FreshOp /\ scenario.misreads
      /\ UNCHANGED <<cur, db, chunks, resp, inherited, misread, scenario>>
    BY DEF LoadFails
<1>2. TypeOK'
    BY <1>1, FreshType DEF TypeOK
<1>3. Phases' /\ Settled'
    BY <1>1 DEF Phases, Settled, Ready
<1>4. ASSUME ~misread PROVE Stocked' /\ Committed' /\ Whole'
    BY <1>1, <1>4 DEF Stocked, Committed, Going, Whole, Ready
<1> QED BY <1>1, <1>2, <1>3, <1>4

\* The repair cuts the store down to its valid beginning.
LEMMA RepairKeeps == ASSUME DownloadInv, Repair PROVE DownloadInv'
<1>1. /\ pc = "repair" /\ chunks' = {c \in chunks : c.start < op.offset} /\ inherited' = chunks'
      /\ pc' = AfterRepair(op)
      /\ UNCHANGED <<cur, db, op, resp, misread, scenario>>
    BY DEF Repair
<1>2. chunks' \subseteq chunks /\ IsFiniteSet(chunks')
    BY <1>1, FS_Subset DEF DownloadInv, Phases
<1>3. pc' \in {"idle", "wipe", "meta"} /\ (pc' = "wipe" => op.etag = Null /\ op.lm = Null)
    BY <1>1 DEF AfterRepair, Unproven
<1>4. TypeOK'
    BY <1>1, <1>2, <1>3 DEF DownloadInv, TypeOK
<1>5. Phases'
    BY <1>1, <1>2, <1>3 DEF DownloadInv, Phases
<1>6. ~Ready /\ ~Ready'
    BY <1>1 DEF DownloadInv, Settled, Ready
<1>7. ASSUME ~misread PROVE Stocked' /\ Committed'
    <2>1. /\ chunks' = Validated(chunks)
          /\ Tiled(chunks', op.offset, op.next)
          /\ Sound(op.total, op.etag, op.lm, chunks')
        BY <1>1, <1>7 DEF DownloadInv, Committed
    <2>2. Chunks(chunks) /\ Chunks(chunks') /\ op \in Operation
        BY <1>2, ChunksTyped DEF Chunks, DownloadInv, TypeOK
    <2>3. Stocked'
        <3>1. CASE db = Null
            BY <1>1, <1>2, <1>7, <3>1 DEF DownloadInv, Stocked
        <3>2. CASE db # Null
            <4>1. /\ Sound(db.total, db.etag, db.lm, chunks)
                  /\ \A c \in chunks : c.index < db.count
                BY <1>7, <3>2 DEF DownloadInv, Stocked
            <4>2. op.offset \in Nat /\ op.next \in Nat /\ \A c \in chunks : c.start # op.offset
                BY <1>1, <1>7, <2>2 DEF DownloadInv, Committed, Operation
            <4>3. Sound(db.total, db.etag, db.lm, chunks')
                BY <1>1, <2>1, <2>2, <4>1, <4>2, SoundPrefix
            <4> QED BY <1>1, <1>2, <3>2, <4>1, <4>3 DEF Stocked
        <3> QED BY <3>1, <3>2
    <2>4. Committed'
        <3>1. pc' = "meta" => (chunks' # {} => op.etag # Null \/ op.lm # Null)
            <4>1. SUFFICES ASSUME pc' = "meta", chunks' # {} PROVE op.etag # Null \/ op.lm # Null
                OBVIOUS
            <4>2. op.offset > 0
                BY <2>1, <2>2, <4>1, TiledEmpty DEF Operation
            <4> QED BY <1>1, <4>1, <4>2 DEF AfterRepair, Unproven
        <3> QED BY <1>1, <1>3, <2>1, <3>1 DEF Committed, Going
    <2> QED BY <2>3, <2>4
<1> QED BY <1>1, <1>4, <1>5, <1>6, <1>7 DEF DownloadInv, Whole, Settled

\* The wipe leaves an empty store and a fresh record.
LEMMA WipeKeeps == ASSUME DownloadInv, Wipe PROVE DownloadInv'
<1>1. /\ pc = "wipe" /\ chunks' = {} /\ inherited' = {} /\ ~misread' /\ op' = FreshOp /\ pc' = "meta"
      /\ UNCHANGED <<cur, db, resp, scenario>>
    BY DEF Wipe
<1>2. TypeOK'
    BY <1>1, FreshType DEF DownloadInv, TypeOK, Wipe
<1>3. Phases'
    BY <1>1, FS_EmptySet DEF Phases
<1>4. Ready => db.total = 0
    BY <1>1 DEF DownloadInv, Settled
<1>5. Settled'
    BY <1>1, <1>4 DEF DownloadInv, Settled, Ready, Counted
<1>6. Stocked'
    BY <1>1, NoneSound DEF Stocked
<1>7. op'.offset = 0 /\ op'.next = 0
    BY <1>1 DEF FreshOp
<1>8. Committed'
    BY <1>1, <1>7, NoneTiled, NoneSound DEF Committed, Going
<1>9. Bytes({}) = 0..(0 - 1)
    BY BytesOfNone
<1>10. Ready' => db'.total = 0
    BY <1>1, <1>4 DEF Ready
<1>11. Whole'
    BY <1>1, <1>9, <1>10 DEF Whole
<1> QED BY <1>2, <1>3, <1>5, <1>6, <1>8, <1>11 DEF DownloadInv

\* The record is written before the first request.
LEMMA PutMetaKeeps == ASSUME DownloadInv, PutMeta PROVE DownloadInv'
<1>1. /\ pc = "meta" /\ db' = Record("downloading", op) /\ pc' = Loop(op)
      /\ UNCHANGED <<cur, chunks, op, resp, inherited, misread, scenario>>
    BY DEF PutMeta
<1>2. op \in Operation
    BY DEF DownloadInv, TypeOK
<1>3. /\ db' \in VideoRecord /\ db' # Null /\ db'.status = "downloading"
      /\ db'.count = op.next /\ db'.total = Stored(op.total)
      /\ db'.etag = op.etag /\ db'.lm = op.lm
    BY <1>1, <1>2, RecordType
<1>4. pc' \in {"check", "pause", "request"} /\ (pc' = "check" => op.offset = op.total)
    BY <1>1 DEF Loop
<1>5. TypeOK'
    BY <1>1, <1>3, <1>4 DEF DownloadInv, TypeOK
<1>6. Phases'
    BY <1>1, <1>3, <1>4 DEF DownloadInv, Phases
<1>7. ~Ready'
    BY <1>3 DEF Ready
<1>8. ASSUME ~misread PROVE Stocked' /\ Committed'
    <2>1. /\ Tiled(chunks, op.offset, op.next) /\ Sound(op.total, op.etag, op.lm, chunks)
          /\ inherited \subseteq chunks
          /\ inherited # {} => op.etag # Null \/ op.lm # Null
        BY <1>1, <1>8 DEF DownloadInv, Committed, Going
    <2>2. Chunks(chunks) /\ op.total \in Length /\ op.offset \in Nat /\ op.next \in Nat
        BY <1>2, ChunksTyped DEF DownloadInv, Operation
    <2>3. Sound(db'.total, db'.etag, db'.lm, chunks)
        BY <1>3, <2>1, <2>2, SoundStored
    <2>4. \A c \in chunks : c.index < db'.count
        BY <1>3, <2>1, <2>2, TiledBounds
    <2>5. Stocked'
        BY <1>1, <1>3, <2>3, <2>4 DEF Stocked
    <2>6. Committed'
        BY <1>1, <1>4, <2>1 DEF Committed, Going
    <2> QED BY <2>5, <2>6
<1> QED BY <1>1, <1>5, <1>6, <1>7, <1>8 DEF DownloadInv, Whole, Settled

\* representationChanged is the relation that the invariant speaks of.
LEMMA ChangedDiffers == ASSUME NEW v PROVE Changed(v) <=> Differs(op.total, op.etag, op.lm, v)
BY DEF Changed, Differs

\* A response of another version than the chunks are of.
LEMMA RestartKeeps ==
    ASSUME DownloadInv, pc = "request", Restart(cur),
           UNCHANGED <<cur, db, chunks, inherited, misread, scenario>>,
           ~misread => chunks = {} \/ \E c \in chunks : c.ver # cur
    PROVE  DownloadInv'
<1>1. CASE op.restarts >= MaxSourceRestarts
    BY <1>1, QuietKeeps DEF Restart, DownloadInv, TypeOK
<1>2. CASE ~(op.restarts >= MaxSourceRestarts)
    <2>1. /\ pc' = "reset" /\ op' = [op EXCEPT !.restarts = @ + 1]
          /\ resp' = [ver |-> cur, end |-> 0]
        BY <1>2 DEF Restart
    <2>2. op \in Operation /\ cur \in Version
        BY ChunkAssumption DEF DownloadInv, TypeOK
    <2>3. op' \in Operation /\ resp' \in Response /\ resp'.ver = cur
        BY <1>2, <2>1, <2>2, ChunkAssumption DEF Operation, Response
    <2>4. TypeOK'
        BY <2>1, <2>3 DEF DownloadInv, TypeOK
    <2>5. Phases'
        BY <2>1 DEF DownloadInv, Phases
    <2>6. ~Ready /\ ~Ready'
        BY DEF DownloadInv, Phases, Ready
    <2>7. ASSUME ~misread PROVE Stocked' /\ Committed'
        BY <2>1, <2>3, <2>7 DEF DownloadInv, Stocked, Committed, Going
    <2> QED BY <2>4, <2>5, <2>6, <2>7 DEF DownloadInv, Settled, Whole
<1> QED BY <1>1, <1>2

\* A part that came of the same file is ready to be written.
LEMMA PartialContentKeeps ==
    ASSUME DownloadInv, NEW e \in Nat, PartialContent(e)
    PROVE  DownloadInv'
<1> DEFINE last == IF op.total = Null THEN op.offset + ChunkBytes - 1
                   ELSE Smaller(op.offset + ChunkBytes, op.total) - 1
<1>1. /\ pc = "request" /\ e \in op.offset .. Smaller(last, cur.total - 1)
      /\ UNCHANGED <<cur, db, chunks, inherited, misread, scenario>>
    BY DEF PartialContent
<1>2. /\ op \in Operation /\ cur \in Version /\ cur.total \in Nat /\ Chunks(chunks)
      /\ op.offset \in Nat /\ op.next \in Nat
    BY ChunkAssumption, ChunksTyped DEF DownloadInv, TypeOK, Operation
<1>3. op.offset <= e /\ e < cur.total
    <2>1. last \in Int
        BY <1>2, ChunkAssumption DEF Smaller, Operation, Length
    <2> HIDE DEF last
    <2> QED BY <1>1, <1>2, <2>1 DEF Smaller
<1> HIDE DEF last
<1>4. ~misread => /\ Tiled(chunks, op.offset, op.next)
                  /\ Sound(op.total, op.etag, op.lm, chunks)
                  /\ inherited \subseteq chunks
                  /\ inherited # {} => op.etag # Null \/ op.lm # Null
    BY <1>1 DEF DownloadInv, Committed, Going
<1>5. CASE Changed(cur)
    <2>1. Restart(cur)
        BY <1>5 DEF PartialContent
    <2>2. ~misread => chunks = {} \/ \E c \in chunks : c.ver # cur
        BY <1>2, <1>4, <1>5, ChangedDiffers, SameDiffersNot
    <2> QED BY <1>1, <2>1, <2>2, RestartKeeps
<1>6. CASE ~Changed(cur)
    <2>1. /\ pc' = "write" /\ resp' = [ver |-> cur, end |-> e]
          /\ op' = [op EXCEPT !.total = cur.total, !.attempt = 0, !.auth = FALSE,
                      !.etag = IF cur.etag = Null THEN @ ELSE cur.etag,
                      !.lm = IF cur.lm = Null THEN @ ELSE cur.lm]
        BY <1>6 DEF PartialContent
    <2>2. cur.etag \in Header /\ cur.lm \in Header /\ cur.total \in Length
        BY <1>2 DEF Header, Length
    <2>3. /\ op' \in Operation /\ op'.offset = op.offset /\ op'.next = op.next
          /\ op'.total = cur.total
          /\ op'.etag = Adopt(op.etag, cur.etag) /\ op'.lm = Adopt(op.lm, cur.lm)
        <3> DEFINE tag == Adopt(op.etag, cur.etag)
                   mod == Adopt(op.lm, cur.lm)
        <3>1. tag \in Header /\ mod \in Header
            BY <1>2, <2>2 DEF Adopt, Operation
        <3>2. op' = [op EXCEPT !.total = cur.total, !.attempt = 0, !.auth = FALSE,
                                !.etag = tag, !.lm = mod]
            BY <1>2, <2>1 DEF Adopt, Operation
        <3> HIDE DEF tag, mod
        <3>3. 0 \in 0..(MaxChunkAttempts - 1)
            BY ChunkAssumption
        <3>4. op' \in Operation
            BY <1>2, <2>2, <3>1, <3>2, <3>3 DEF Operation
        <3>5. /\ op'.offset = op.offset /\ op'.next = op.next
              /\ op'.total = cur.total /\ op'.etag = tag /\ op'.lm = mod
            BY <1>2, <3>2 DEF Operation
        <3> QED BY <3>4, <3>5 DEF tag, mod
    <2>4. resp' \in Response /\ resp'.ver = cur /\ resp'.end = e
        BY <1>2, <2>1 DEF Response
    <2>5. TypeOK'
        BY <1>1, <2>1, <2>3, <2>4 DEF DownloadInv, TypeOK
    <2>6. Phases'
        BY <1>1, <1>3, <2>1, <2>3, <2>4 DEF DownloadInv, Phases
    <2>7. ~Ready /\ ~Ready'
        BY <1>1 DEF DownloadInv, Phases, Ready
    <2>8. ASSUME ~misread PROVE Stocked' /\ Committed'
        <3>1. Stocked'
            BY <1>1, <2>8 DEF DownloadInv, Stocked
        <3>2. Sound(cur.total, op'.etag, op'.lm, chunks \cup {Piece(op.next, op.offset, e, cur)})
            BY <1>2, <1>3, <1>4, <1>6, <2>3, <2>8, ChangedDiffers, SoundNext
        <3>3. Fetched' = Piece(op.next, op.offset, e, cur)
            BY <2>3, <2>4 DEF Fetched
        <3>4. inherited' # {} => op'.etag # Null \/ op'.lm # Null
            BY <1>1, <1>4, <2>3, <2>8 DEF Adopt
        <3> QED BY <1>1, <1>4, <2>1, <2>3, <2>8, <3>1, <3>2, <3>3, <3>4 DEF Committed, Going
    <2> QED BY <1>1, <2>5, <2>6, <2>7, <2>8 DEF DownloadInv, Settled, Whole
<1> QED BY <1>5, <1>6

\* A range past the end: the total is learned, or the file has changed.
LEMMA UnsatisfiedKeeps == ASSUME DownloadInv, Unsatisfied PROVE DownloadInv'
<1>1. /\ pc = "request" /\ op.offset >= cur.total
      /\ UNCHANGED <<cur, db, chunks, inherited, misread, scenario>>
    BY DEF Unsatisfied
<1>2. /\ op \in Operation /\ cur.total \in Nat /\ Chunks(chunks)
      /\ op.offset \in Nat /\ op.next \in Nat
    BY ChunkAssumption, ChunksTyped DEF DownloadInv, TypeOK, Operation
<1>3. ~misread => /\ Tiled(chunks, op.offset, op.next)
                  /\ Sound(op.total, op.etag, op.lm, chunks)
                  /\ inherited \subseteq chunks
                  /\ inherited # {} => op.etag # Null \/ op.lm # Null
    BY <1>1 DEF DownloadInv, Committed, Going
<1>4. CASE pc' = "pause" /\ UNCHANGED <<op, resp>>
    BY <1>1, <1>4, QuietKeeps DEF DownloadInv, TypeOK
<1>5. CASE op.total = Null /\ cur.total = 0 /\ op.offset = 0
    <2>1. pc' = "check" /\ op' = [op EXCEPT !.total = 0] /\ resp' = resp
        BY <1>5 DEF Unsatisfied
    <2>2. /\ op' \in Operation /\ op'.offset = 0 /\ op'.next = op.next /\ op'.total = 0
          /\ op'.etag = op.etag /\ op'.lm = op.lm
        BY <1>2, <1>5, <2>1 DEF Operation, Length
    <2>3. TypeOK'
        BY <1>1, <2>1, <2>2 DEF DownloadInv, TypeOK
    <2>4. Phases'
        BY <1>1, <2>1, <2>2 DEF DownloadInv, Phases
    <2>5. ~Ready /\ ~Ready'
        BY <1>1 DEF DownloadInv, Phases, Ready
    <2>6. ASSUME ~misread PROVE Stocked' /\ Committed'
        <3>1. chunks = {}
            BY <1>2, <1>3, <1>5, <2>6, TiledEmpty
        <3>2. Stocked'
            BY <1>1, <2>6 DEF DownloadInv, Stocked
        <3> QED BY <1>1, <1>3, <1>5, <2>1, <2>2, <2>6, <3>1, <3>2, NoneSound DEF Committed, Going
    <2> QED BY <1>1, <2>3, <2>4, <2>5, <2>6 DEF DownloadInv, Settled, Whole
<1>6. CASE op.total # Null /\ op.total # cur.total
    <2>1. Restart(cur)
        BY <1>6 DEF Unsatisfied
    <2>2. ~misread => \A c \in chunks : c.ver # cur
        BY <1>3, <1>6 DEF Sound, Heard
    <2> QED BY <1>1, <2>1, <2>2, RestartKeeps
<1> QED BY <1>4, <1>5, <1>6 DEF Unsatisfied

\* The reset of the store for a new file.
LEMMA ResetKeeps == ASSUME DownloadInv, Reset PROVE DownloadInv'
<1> DEFINE fresh == [FreshOp EXCEPT !.restarts = op.restarts, !.total = Known(resp.ver.total),
                       !.etag = resp.ver.etag, !.lm = resp.ver.lm]
<1>1. /\ pc = "reset" /\ pc' = "request" /\ op' = fresh /\ db' = Record("downloading", fresh)
      /\ chunks' = {} /\ inherited' = {} /\ misread' = FALSE
      /\ UNCHANGED <<cur, resp, scenario>>
    BY DEF Reset
<1>2. op \in Operation /\ resp.ver \in Version
    BY DEF DownloadInv, TypeOK, Response
<1>3. /\ Known(resp.ver.total) \in Length /\ resp.ver.etag \in Header /\ resp.ver.lm \in Header
      /\ op.restarts \in 0..MaxSourceRestarts
    BY <1>2, ChunkAssumption DEF Known, Length, Header, Operation
<1>4. fresh \in Operation /\ fresh.offset = 0 /\ fresh.next = 0
    BY <1>3, FreshType DEF Operation, FreshOp
<1> HIDE DEF fresh
<1>5. /\ db' \in VideoRecord /\ db' # Null /\ db'.status = "downloading"
      /\ db'.etag = fresh.etag /\ db'.lm = fresh.lm
    BY <1>1, <1>4, RecordType
<1>6. TypeOK'
    BY <1>1, <1>4, <1>5 DEF DownloadInv, TypeOK
<1>7. Phases'
    BY <1>1, <1>5, FS_EmptySet DEF Phases
<1>8. ~Ready'
    BY <1>5 DEF Ready
<1>9. Stocked' /\ Committed'
    BY <1>1, <1>4, <1>5, NoneTiled, NoneSound DEF Stocked, Committed, Going
<1> QED BY <1>6, <1>7, <1>8, <1>9 DEF DownloadInv, Settled, Whole

\* A piece behind the last byte.
LEMMA TiledNext ==
    ASSUME NEW S, NEW n \in Nat, NEW k \in Nat, Tiled(S, n, k), NEW e \in Nat, n <= e, NEW v
    PROVE  Tiled(S \cup {Piece(k, n, e, v)}, e + 1, k + 1)
<1> DEFINE p == Piece(k, n, e, v)
<1>1. p.index = k /\ p.start = n /\ p.end = e
    BY PieceFields
<1> HIDE DEF p
<1>2. Bytes(S \cup {p}) = Bytes(S) \cup (n..e)
    BY <1>1 DEF Bytes
<1>3. {c.index : c \in S \cup {p}} = {c.index : c \in S} \cup {k}
    BY <1>1
<1>4. (0..(n - 1)) \cup (n..e) = 0..(e + 1 - 1)
    OBVIOUS
<1>5. (0..(k - 1)) \cup {k} = 0..(k + 1 - 1)
    OBVIOUS
<1>6. Bytes(S \cup {p}) = 0..(e + 1 - 1) /\ {c.index : c \in S \cup {p}} = 0..(k + 1 - 1)
    BY <1>2, <1>3, <1>4, <1>5 DEF Tiled
<1> QED BY <1>6 DEF Tiled, p

\* The commit of a chunk, with the record of it.
LEMMA WriteChunkKeeps == ASSUME DownloadInv, WriteChunk PROVE DownloadInv'
<1> DEFINE done == [op EXCEPT !.offset = resp.end + 1, !.next = @ + 1]
<1>1. /\ pc = "write" /\ op' = done /\ db' = Record("downloading", done) /\ pc' = Loop(done)
      /\ chunks' = {c \in chunks : c.index # op.next} \cup {Fetched}
      /\ UNCHANGED <<cur, resp, inherited, misread, scenario>>
    BY DEF WriteChunk, Fetched, Piece
<1>2. /\ op \in Operation /\ op.offset \in Nat /\ op.next \in Nat /\ op.total \in Length
      /\ resp.end \in Nat /\ resp.ver \in Version /\ Chunks(chunks)
      /\ op.offset <= resp.end
    BY <1>1, ChunksTyped DEF DownloadInv, TypeOK, Phases, Operation, Response
<1>3. /\ done \in Operation /\ done.offset = resp.end + 1 /\ done.next = op.next + 1
      /\ done.total = op.total /\ done.etag = op.etag /\ done.lm = op.lm
    <2>1. done \in Operation
        <3> DEFINE n == resp.end + 1
                   k == op.next + 1
        <3>1. n \in Nat /\ k \in Nat
            BY <1>2
        <3>2. done = [op EXCEPT !.offset = n, !.next = k]
            OBVIOUS
        <3> HIDE DEF n, k, done
        <3> QED BY <1>2, <3>1, <3>2 DEF Operation
    <2>2. /\ done.offset = resp.end + 1 /\ done.next = op.next + 1
          /\ done.total = op.total /\ done.etag = op.etag /\ done.lm = op.lm
        BY <1>2 DEF Operation
    <2> QED BY <2>1, <2>2
<1> HIDE DEF done
<1>4. /\ db' \in VideoRecord /\ db' # Null /\ db'.status = "downloading"
      /\ db'.count = done.next /\ db'.total = Stored(done.total)
      /\ db'.etag = done.etag /\ db'.lm = done.lm
    BY <1>1, <1>3, RecordType
<1>5. pc' \in {"check", "pause", "request"} /\ (pc' = "check" => done.offset = done.total)
    BY <1>1 DEF Loop
<1>6. /\ Fetched.index = op.next /\ Fetched.start = op.offset
      /\ Fetched.end = resp.end /\ Fetched \in Chunk
    BY <1>2 DEF Fetched, Piece, Chunk
<1>7. /\ chunks' \subseteq Chunk /\ \A c \in chunks' : c.start <= c.end
      /\ \A c, d \in chunks' : c.index = d.index => c = d
    <2>1. \A c \in chunks' : (c \in chunks /\ c.index # op.next) \/ c = Fetched
        BY <1>1
    <2>2. \A c, d \in chunks : c.index = d.index => c = d
        BY DEF DownloadInv, TypeOK
    <2> QED BY <1>2, <1>6, <2>1, <2>2 DEF Chunks
<1>8. TypeOK'
    BY <1>1, <1>3, <1>4, <1>5, <1>7 DEF DownloadInv, TypeOK
<1>9. IsFiniteSet(chunks')
    <2> DEFINE kept == {c \in chunks : c.index # op.next}
    <2>1. IsFiniteSet(kept)
        BY FS_Subset DEF DownloadInv, Phases
    <2> HIDE DEF kept
    <2>2. IsFiniteSet(kept \cup {Fetched})
        BY <2>1, FS_AddElement
    <2> QED BY <1>1, <2>2 DEF kept
<1>10. \E t \in Nat : \A c \in chunks' : c.end < t
    <2>1. PICK t \in Nat : \A c \in chunks : c.end < t
        BY DEF DownloadInv, Phases
    <2>2. \A c \in chunks' : c.end < t + resp.end + 1
        BY <1>1, <1>2, <1>6, <2>1, EndsInBytes
    <2> QED BY <1>2, <2>2
<1>11. Phases'
    BY <1>1, <1>4, <1>5, <1>9, <1>10 DEF DownloadInv, Phases
<1>12. ~Ready'
    BY <1>4 DEF Ready
<1>13. ASSUME ~misread PROVE Stocked' /\ Committed'
    <2>1. /\ Tiled(chunks, op.offset, op.next)
          /\ Sound(op.total, op.etag, op.lm, chunks \cup {Fetched})
          /\ inherited \subseteq chunks
          /\ inherited # {} => op.etag # Null \/ op.lm # Null
        BY <1>1, <1>13 DEF DownloadInv, Committed, Going
    <2>2. chunks' = chunks \cup {Fetched}
        <3>1. \A c \in chunks : c.index # op.next
            BY <1>2, <2>1, TiledBounds, EndsInBytes
        <3> QED BY <1>1, <3>1
    <2>3. Tiled(chunks', done.offset, done.next)
        BY <1>2, <1>3, <2>1, <2>2, TiledNext DEF Fetched
    <2>4. Sound(done.total, done.etag, done.lm, chunks')
        BY <1>3, <2>1, <2>2
    <2>5. Chunks(chunks')
        BY <1>7 DEF Chunks
    <2>6. Sound(db'.total, db'.etag, db'.lm, chunks')
        BY <1>2, <1>3, <1>4, <2>4, <2>5, SoundStored
    <2>7. \A c \in chunks' : c.index < db'.count
        BY <1>3, <1>4, <2>3, <2>5, TiledBounds DEF Operation
    <2>8. Stocked'
        BY <1>4, <2>6, <2>7 DEF Stocked
    <2>9. Committed'
        BY <1>1, <1>3, <1>5, <2>1, <2>2, <2>3, <2>4 DEF Committed, Going
    <2> QED BY <2>8, <2>9
<1> QED BY <1>1, <1>8, <1>11, <1>12, <1>13 DEF DownloadInv, Settled, Whole

\* The last check, before the copy is marked ready.
LEMMA CheckKeeps == ASSUME DownloadInv, Check PROVE DownloadInv'
<1>1. CASE pc' = "pause"
    BY <1>1, QuietKeeps DEF Check, DownloadInv, TypeOK
<1>2. CASE pc' # "pause"
    <2>1. /\ pc = "check" /\ pc' = "ready"
          /\ Counted(Validated(chunks), op.total, db.count)
          /\ UNCHANGED <<cur, db, chunks, op, resp, inherited, misread, scenario>>
        BY <1>2 DEF Check, Counted
    <2>2. TypeOK'
        BY <2>1 DEF DownloadInv, TypeOK
    <2>3. Phases'
        BY <2>1 DEF DownloadInv, Phases
    <2>4. ~Ready /\ ~Ready'
        BY <2>1 DEF DownloadInv, Phases, Ready
    <2>5. ASSUME ~misread PROVE Stocked' /\ Committed'
        BY <2>1, <2>5 DEF DownloadInv, Stocked, Committed, Going
    <2> QED BY <2>1, <2>2, <2>3, <2>4, <2>5 DEF DownloadInv, Settled, Whole
<1> QED BY <1>1, <1>2

\* The mark.
LEMMA PutReadyKeeps == ASSUME DownloadInv, PutReady PROVE DownloadInv'
<1> DEFINE valid == Validated(chunks)
           count == IF op.total = 0 THEN 0 ELSE Cardinality(valid)
<1>1. /\ pc = "ready" /\ pc' = "idle"
      /\ db' = [db EXCEPT !.status = "ready", !.completed = op.total, !.count = count,
                          !.total = op.total]
      /\ UNCHANGED <<cur, chunks, op, resp, inherited, misread, scenario>>
    BY DEF PutReady
<1>2. /\ op \in Operation /\ op.offset \in Nat /\ op.next \in Nat /\ op.offset = op.total
      /\ db \in VideoRecord /\ db.etag = op.etag /\ db.lm = op.lm /\ Chunks(chunks)
      /\ Counted(valid, op.total, db.count)
    BY <1>1, ChunksTyped DEF DownloadInv, TypeOK, Phases, Operation
<1>3. Cardinality(valid) \in Nat
    BY SizesAreNumbers
<1>4. count \in Nat /\ (op.total = 0 => count = 0) /\ (op.total # 0 => count = Cardinality(valid))
    BY <1>3
<1> HIDE DEF valid, count
<1>5. /\ db' \in VideoRecord /\ db'.status = "ready" /\ db'.completed = op.total
      /\ db'.total = op.total /\ db'.count = count
      /\ db'.etag = op.etag /\ db'.lm = op.lm
    BY <1>1, <1>2, <1>4 DEF VideoRecord
<1>6. db' # Null
    BY <1>5, ChunkAssumption
<1>7. TypeOK'
    BY <1>1, <1>5 DEF DownloadInv, TypeOK
<1>8. Phases'
    BY <1>1 DEF DownloadInv, Phases
<1>9. Counted(valid, op.total, count)
    BY <1>2, <1>4 DEF Counted
<1>10. Settled'
    BY <1>1, <1>4, <1>5, <1>9 DEF Settled, valid
<1>11. ASSUME ~misread PROVE Stocked' /\ Committed' /\ Whole'
    <2>1. /\ Tiled(chunks, op.offset, op.next) /\ Sound(op.total, op.etag, op.lm, chunks)
          /\ inherited # {} => op.etag # Null \/ op.lm # Null
        BY <1>1, <1>11 DEF DownloadInv, Committed, Going
    <2>2. ASSUME NEW c \in chunks PROVE c.index < count
        <3>1. /\ op.total \in Nat /\ op.total # 0 /\ Laid(chunks)
              /\ \A d \in chunks : d.end < op.total /\ d.start < op.total /\ d.index < op.next
            BY <1>2, <2>1, TiledBounds DEF Sound
        <3>2. count = Cardinality(valid) /\ op.total = Cardinality(Bytes(valid))
            BY <1>2, <1>4, <3>1 DEF Counted
        <3>3. /\ Tiled(valid, op.total, count)
              /\ valid = {d \in chunks : d.start < op.total}
            BY <1>2, <3>1, <3>2, ValidPrefix DEF valid
        <3>4. c \in valid /\ Chunks(valid)
            BY <1>2, <3>1, <3>3 DEF Chunks
        <3> QED BY <1>4, <3>1, <3>3, <3>4, TiledBounds
    <2>3. Stocked'
        BY <1>1, <1>5, <1>6, <2>1, <2>2 DEF Stocked
    <2>4. Committed'
        BY <1>1 DEF Committed, Going
    <2>5. Whole'
        BY <1>1, <1>2, <1>5, <2>1 DEF Whole, Tiled
    <2> QED BY <2>3, <2>4, <2>5
<1> QED BY <1>1, <1>7, <1>8, <1>10, <1>11 DEF DownloadInv

\* The pause writes what is in the store into the record.
LEMMA PauseKeeps == ASSUME DownloadInv, Pause PROVE DownloadInv'
<1>1. /\ pc = "pause" /\ pc' = "idle"
      /\ db' = IF db = Null THEN Record("paused", FreshOp) ELSE [db EXCEPT !.status = "paused"]
      /\ UNCHANGED <<cur, chunks, op, resp, inherited, misread, scenario>>
    BY DEF Pause
<1>2. /\ db' \in VideoRecord /\ db' # Null /\ db'.status = "paused"
      /\ db # Null => db'.total = db.total /\ db'.count = db.count
                      /\ db'.etag = db.etag /\ db'.lm = db.lm
    <2>1. CASE db = Null
        BY <1>1, <2>1, FreshType, RecordType
    <2>2. CASE db # Null
        BY <1>1, <2>2, ChunkAssumption DEF DownloadInv, TypeOK, VideoRecord
    <2> QED BY <2>1, <2>2
<1>3. TypeOK'
    BY <1>1, <1>2 DEF DownloadInv, TypeOK
<1>4. Phases'
    BY <1>1 DEF DownloadInv, Phases
<1>5. ~Ready'
    BY <1>2 DEF Ready
<1>6. ASSUME ~misread PROVE Stocked' /\ Committed'
    <2>1. Stocked'
        <3>1. CASE db = Null
            BY <1>1, <1>2, <1>6, <3>1, NoneSound DEF DownloadInv, Stocked
        <3>2. CASE db # Null
            BY <1>1, <1>2, <1>6, <3>2 DEF DownloadInv, Stocked
        <3> QED BY <3>1, <3>2
    <2>2. Committed'
        BY <1>1 DEF Committed, Going
    <2> QED BY <2>1, <2>2
<1> QED BY <1>1, <1>3, <1>4, <1>5, <1>6 DEF DownloadInv, Settled, Whole

LEMMA PauseUnreadKeeps == ASSUME DownloadInv, PauseUnread PROVE DownloadInv'
<1>1. /\ pc' = "idle" /\ db' = Record("paused", FreshOp) /\ misread' /\ scenario.misreads
      /\ misread' \in BOOLEAN /\ UNCHANGED <<cur, chunks, op, resp, inherited, scenario>>
    BY DEF PauseUnread
<1>2. db' \in VideoRecord /\ db' # Null /\ db'.status = "paused"
    BY <1>1, FreshType, RecordType
<1>3. TypeOK'
    BY <1>1, <1>2 DEF DownloadInv, TypeOK
<1>4. Phases' /\ Settled'
    BY <1>1, <1>2 DEF DownloadInv, Phases, Settled, Ready
<1> QED BY <1>1, <1>3, <1>4 DEF DownloadInv

\* The record of the legacy copy vouches for no chunk, and there is none.
LEMMA PauseLegacyKeeps == ASSUME DownloadInv, PauseLegacy PROVE DownloadInv'
<1> DEFINE bare == Record("paused", FreshOp)
           new  == [bare EXCEPT !.completed = LegacyBytes, !.count = 1, !.total = LegacyBytes]
<1>1. /\ pc' = "idle" /\ db = Null /\ db' = new
      /\ UNCHANGED <<cur, chunks, op, resp, inherited, misread, scenario>>
    BY DEF PauseLegacy
<1>2. bare \in VideoRecord /\ bare.status = "paused" /\ bare.etag = Null /\ bare.lm = Null
    BY FreshType, RecordType DEF FreshOp
<1> HIDE DEF bare
<1>3. /\ new \in VideoRecord /\ new.status = "paused" /\ new.etag = Null /\ new.lm = Null
      /\ new.total = LegacyBytes
    BY <1>2, ChunkAssumption DEF VideoRecord
<1> HIDE DEF new
<1>4. db' # Null
    BY <1>1, <1>3, ChunkAssumption
<1>5. TypeOK'
    BY <1>1, <1>3 DEF DownloadInv, TypeOK
<1>6. Phases' /\ ~Ready'
    BY <1>1, <1>3 DEF DownloadInv, Phases, Ready
<1>7. ASSUME ~misread PROVE Stocked' /\ Committed'
    <2>1. chunks = {}
        BY <1>1, <1>7 DEF DownloadInv, Stocked
    <2>2. Stocked'
        BY <1>1, <1>3, <1>4, <2>1, NoneSound, ChunkAssumption DEF Stocked
    <2>3. Committed'
        BY <1>1 DEF Committed, Going
    <2> QED BY <2>2, <2>3
<1> QED BY <1>1, <1>5, <1>6, <1>7 DEF DownloadInv, Settled, Whole

\* The removal leaves nothing.
LEMMA RemoveKeeps == ASSUME DownloadInv, Remove PROVE DownloadInv'
<1>1. /\ pc = "idle" /\ pc' = pc /\ db' = Null /\ chunks' = {} /\ misread' = FALSE
      /\ UNCHANGED <<cur, op, resp, inherited, scenario>>
    BY DEF Remove
<1>2. TypeOK'
    BY <1>1 DEF DownloadInv, TypeOK
<1>3. Phases'
    BY <1>1, FS_EmptySet DEF Phases
<1>4. Settled' /\ Stocked' /\ Committed' /\ Whole'
    BY <1>1 DEF Settled, Stocked, Committed, Going, Whole, Ready
<1> QED BY <1>2, <1>3, <1>4 DEF DownloadInv

\* The stores of earlier releases are sound.
LEMMA OldStoreSound ==
    ASSUME NEW s \in OldStores
    PROVE  Sound(s.db.total, s.db.etag, s.db.lm, s.chunks)
<1>1. /\ Laid(s.chunks)
      /\ \A c \in s.chunks :
            /\ c.end < s.db.total
            /\ c.ver.total = s.db.total /\ c.ver.etag = s.db.etag /\ c.ver.lm = s.db.lm
    BY OldStoresAssumption
<1>2. OfOneFile(s.chunks)
    BY <1>1 DEF OfOneFile, OtherFile, OlderFile
<1>3. Heard(s.db.total, s.db.etag, s.db.lm, s.chunks)
    BY <1>1 DEF Heard, Follows
<1> QED BY <1>1, <1>2, <1>3 DEF Sound

\* The invariant holds at first, is kept by every step, and so always holds.
LEMMA InitSafe == Init => DownloadInv
<1> SUFFICES ASSUME Init PROVE DownloadInv
    OBVIOUS
<1>1. PICK s \in OldStores \cup {[db |-> Null, chunks |-> {}]} : db = s.db /\ chunks = s.chunks
    BY DEF Init
<1>2. CASE s \in OldStores
    <2>1. /\ db \in VideoRecord /\ db # Null /\ db.status # "ready"
          /\ chunks \subseteq Chunk /\ IsFiniteSet(chunks) /\ Laid(chunks)
          /\ \A c \in chunks : c.start <= c.end /\ c.end < db.total /\ c.index < db.count
          /\ db.total \in Nat
        BY <1>1, <1>2, OldStoresAssumption, ChunkAssumption DEF VideoRecord
    <2>2. TypeOK
        BY <2>1, FreshType, ChunkAssumption DEF Init, TypeOK, Response, Laid
    <2>3. Phases
        BY <2>1 DEF Init, Phases
    <2>4. Stocked
        BY <1>1, <1>2, <2>1, OldStoreSound DEF Stocked
    <2> QED BY <2>1, <2>2, <2>3, <2>4 DEF DownloadInv, Settled, Committed, Going, Whole, Ready, Init
<1>3. CASE s = [db |-> Null, chunks |-> {}]
    <2>1. db = Null /\ chunks = {}
        BY <1>1, <1>3
    <2>2. TypeOK
        BY <2>1, FreshType, ChunkAssumption DEF Init, TypeOK, Response
    <2>3. Phases
        BY <2>1, FS_EmptySet DEF Init, Phases
    <2> QED BY <2>1, <2>2, <2>3
            DEF DownloadInv, Settled, Stocked, Committed, Going, Whole, Ready, Init
<1> QED BY <1>1, <1>2, <1>3

LEMMA StepKeeps == ASSUME DownloadInv, Step PROVE DownloadInv'
<1>1. ASSUME NEW e \in 0..(op.offset + ChunkBytes - 1), PartialContent(e) PROVE DownloadInv'
    BY <1>1, PartialContentKeeps
<1> QED BY <1>1, RepairKeeps, WipeKeeps, PutMetaKeeps, UnsatisfiedKeeps, RequestRetriedKeeps,
           RequestFailedKeeps, UnauthorizedKeeps, ResetKeeps, WriteChunkKeeps, CheckKeeps,
           PutReadyKeeps, PauseKeeps, StorageFailsKeeps DEF Step

LEMMA NextKeeps == ASSUME DownloadInv, [Next]_vars PROVE DownloadInv'
BY StepKeeps, LoadKeeps, LoadWithoutRecordKeeps, LoadFailsKeeps, PauseUnreadKeeps,
   PauseLegacyKeeps, LoggedInKeeps, ReloadKeeps, RemoveKeeps,
   SourceChangesKeeps, StutterKeeps DEF Next

LEMMA DownloadSafe == Spec => []DownloadInv
BY InitSafe, NextKeeps, PTL DEF Spec

\* A ready copy is whole and, as far as the validators of the responses tell,
\* of one file; bytes of an interrupted download were compared with what came
\* after them (representationChanged and the last look of runDownload).
THEOREM ReadyIsWhole == Spec => []ReadyUniform
<1>1. ASSUME DownloadInv PROVE ReadyUniform
    <2>1. TypeOK
        BY <1>1 DEF DownloadInv
    <2>2. ASSUME Ready, ~misread
          PROVE  /\ Bytes(chunks) = 0..(db.total - 1)
                 /\ OfOneFile(chunks)
                 /\ inherited \cap chunks # {} => db.etag # Null \/ db.lm # Null
        BY <1>1, <2>2 DEF DownloadInv, Whole, Stocked, Sound, Ready
    <2> QED BY <2>1, <2>2 DEF ReadyUniform, OfOneFile
<1> QED BY <1>1, DownloadSafe, PTL

\* A request begins right behind the last byte in the store, after whatever
\* interrupted the operation before (loadValidatedChunks, repairTrailingChunks).
THEOREM RequestsFollowTheStore == Spec => []OffsetIsCommitted
<1>1. ASSUME DownloadInv PROVE OffsetIsCommitted
    BY <1>1 DEF DownloadInv, Committed, Going, Tiled, OffsetIsCommitted
<1> QED BY <1>1, DownloadSafe, PTL

\* No step but a removal, a wipe without validators or a reset for another
\* version deletes a proved chunk.
THEOREM CommittedIsKept == Spec => KeepsCommitted
<1> DEFINE Kept == \/ Validated(chunks) \subseteq chunks' \/ misread
                   \/ Remove
                   \/ pc = "wipe" /\ op.etag = Null /\ op.lm = Null
                   \/ pc = "reset" /\ \E c \in chunks : c.ver # resp.ver
<1>1. ASSUME DownloadInv, [Next]_vars PROVE Kept
    <2>1. CASE chunks' = chunks
        BY <2>1, ValidatedWithin
    <2>2. CASE Repair
        BY <1>1, <2>2 DEF DownloadInv, Committed, Repair
    <2>3. CASE Wipe
        BY <1>1, <2>3 DEF DownloadInv, Phases, Wipe
    <2>4. CASE Reset
        BY <1>1, <2>4, NoneValidated DEF DownloadInv, Committed, Reset
    <2>5. CASE WriteChunk
        <3>1. SUFFICES ASSUME ~misread PROVE chunks \subseteq chunks'
            BY ValidatedWithin
        <3>2. /\ Tiled(chunks, op.offset, op.next) /\ Chunks(chunks)
              /\ op.offset \in Nat /\ op.next \in Nat
            BY <1>1, <2>5, <3>1, ChunksTyped
               DEF WriteChunk, DownloadInv, Committed, Going, TypeOK, Operation
        <3>3. \A c \in chunks : c.index # op.next
            BY <3>2, TiledBounds, EndsInBytes
        <3> QED BY <2>5, <3>3 DEF WriteChunk
    <2>6. CASE Remove
        BY <2>6
    <2>7. Step => chunks' = chunks \/ Repair \/ Wipe \/ Reset \/ WriteChunk
        BY DEF Step, PutMeta, PartialContent, Unsatisfied, RequestRetried, RequestFailed,
               Unauthorized, Check, PutReady, Pause, StorageFails
    <2>8. [Next]_vars => Step \/ Remove \/ chunks' = chunks
        BY DEF Next, Load, LoadWithoutRecord, LoadFails, PauseUnread, PauseLegacy, LoggedIn, Reload, SourceChanges, vars
    <2> QED BY <1>1, <2>1, <2>2, <2>3, <2>4, <2>5, <2>6, <2>7, <2>8
<1> QED BY <1>1, DownloadSafe, PTL DEF Spec, KeepsCommitted

-----------------------------------------------------------------------------
(* Playing.                                                                *)

\* A call that no removal has overlapped found what is still there.
CallInv ==
    \A p \in PlayCall :
        Calling(p) /\ ~play[p].overlapped =>
            /\ removal = "no"
            /\ play[p].pc = "chunks" => Ready /\ play[p].total = db.total /\ db.total > 0

\* The beginning of one file.
OneFile(content) ==
    /\ Legacy \notin content
    /\ Bytes(content) = 0..(Cardinality(Bytes(content)) - 1)
    /\ \A c, d \in content : c.start < d.start => ~OtherFile(c.ver, d.ver)

\* So did the call that cached the URL, and a removal revokes it.
UrlInv ==
    urlCache # NoUrl =>
        /\ ~urlCache.overlapped => removal = "no"
        /\ \/ urlCache.of = {Legacy} /\ (legacy \/ urlCache.overlapped)
           \/ /\ OneFile(urlCache.of)
              /\ urlCache.overlapped \/ (Ready /\ db.total > 0 /\ urlCache.of = chunks)

\* The inductive invariant of the playback.
PlayInv == PlaybackTypeOK /\ (~scenario.misreads => CallInv /\ UrlInv)

\* To the download, a step of the playback is a step of its own or none.
LEMMA RemainsOrRemoved ==
    ASSUME [PlaybackNext]_<<vars, playVars>>
    PROVE  [Next]_vars /\ scenario' = scenario
<1>1. [Next]_vars
    BY DEF PlaybackNext, Next, PlayReadsRecord, PlayReadsChunks, PlayReadsLegacy, PlayFails,
           RemoveData, RemoveFails, RemoveLegacy, ReloadPage
<1>2. Step => scenario' = scenario
    BY DEF Step, Repair, Wipe, PutMeta, PartialContent, Unsatisfied, RequestRetried, RequestFailed,
           Unauthorized, Reset, WriteChunk, Check, PutReady, Pause, StorageFails
<1>3. scenario' = scenario
    BY <1>1, <1>2 DEF Next, Load, LoadWithoutRecord, LoadFails, PauseUnread, PauseLegacy, LoggedIn, Reload, Remove, SourceChanges, vars
<1> QED BY <1>1, <1>3

\* A ready copy that is not empty stays as it is until it is removed.
LEMMA ReadyStays ==
    ASSUME DownloadInv, ~scenario.misreads, Ready, db.total > 0,
           \/ Load \/ LoadWithoutRecord \/ LoadFails \/ Step \/ PauseUnread \/ PauseLegacy
           \/ LoggedIn \/ Reload \/ SourceChanges \/ UNCHANGED vars
    PROVE  UNCHANGED <<db, chunks>>
<1>1. pc = "idle"
    BY DEF DownloadInv, Phases, Whole
<1>2. ~Step
    BY <1>1 DEF Step, Repair, Wipe, PutMeta, PartialContent, Unsatisfied, RequestRetried,
       RequestFailed, Unauthorized, Reset, WriteChunk, Check, PutReady, Pause, StorageFails
<1> QED BY <1>1, <1>2 DEF Load, LoadWithoutRecord, LoadFails, PauseUnread, PauseLegacy, LoggedIn, Reload, SourceChanges, vars

\* What the calls and the URL say of the store outlasts such a step.
LEMMA StoreStepKeeps ==
    ASSUME DownloadInv, PlayInv, UNCHANGED playVars, scenario' = scenario,
           \/ Load \/ LoadWithoutRecord \/ LoadFails \/ Step \/ PauseUnread \/ PauseLegacy
           \/ LoggedIn \/ Reload \/ SourceChanges \/ UNCHANGED vars
    PROVE  PlayInv'
<1>1. PlaybackTypeOK'
    BY DEF PlayInv, PlaybackTypeOK, playVars
<1>2. ASSUME ~scenario.misreads PROVE CallInv' /\ UrlInv'
    <2>1. Ready /\ db.total > 0 => UNCHANGED <<db, chunks>> /\ Ready'
        BY <1>2, ReadyStays DEF Ready
    <2>2. CallInv /\ UrlInv /\ play' = play /\ urlCache' = urlCache /\ removal' = removal
          /\ legacy' = legacy
        BY <1>2 DEF PlayInv, playVars
    <2>3. CallInv'
        BY <2>1, <2>2 DEF CallInv, Calling
    <2>4. UrlInv'
        BY <2>1, <2>2 DEF UrlInv, OneFile, NoUrl
    <2> QED BY <2>3, <2>4
<1> QED BY <1>1, <1>2 DEF PlayInv

\* A call begins with a read of the record.
LEMMA PlayReadsRecordKeeps ==
    ASSUME DownloadInv, PlayInv, NEW p \in PlayCall, PlayReadsRecord(p)
    PROVE  PlayInv'
<1> DEFINE found == IF db # Null /\ db.status = "ready" /\ db.total > 0 THEN "chunks" ELSE "legacy"
           total == IF db = Null THEN 0 ELSE db.total
           call  == [pc |-> found, total |-> total, overlapped |-> removal # "no"]
<1>1. /\ play' = [play EXCEPT ![p] = call] /\ urlCache = NoUrl
      /\ UNCHANGED <<vars, legacy, urlCache, removal>>
    BY DEF PlayReadsRecord
<1>2. total \in Nat
    BY DEF DownloadInv, TypeOK, VideoRecord
<1>3. call \in Call
    BY <1>2 DEF Call
<1>4. /\ call.pc = found /\ call.total = total /\ call.overlapped = (removal # "no")
      /\ found = "chunks" => Ready /\ total = db.total /\ db.total > 0
    BY DEF Ready
<1> HIDE DEF found, total, call
<1>5. play' \in [PlayCall -> Call] /\ play'[p] = call /\ \A q \in PlayCall \ {p} : play'[q] = play[q]
    BY <1>1, <1>3 DEF PlayInv, PlaybackTypeOK
<1>6. PlaybackTypeOK'
    BY <1>1, <1>5 DEF PlayInv, PlaybackTypeOK
<1>7. CallInv => CallInv'
    BY <1>1, <1>4, <1>5 DEF CallInv, Calling, Ready, vars
<1>8. UrlInv'
    BY <1>1 DEF UrlInv, NoUrl
<1> QED BY <1>1, <1>6, <1>7, <1>8 DEF PlayInv, vars

\* The call ends.
LEMMA CallEnds ==
    ASSUME DownloadInv, PlayInv, NEW p \in PlayCall, play' = [play EXCEPT ![p] = NoCall],
           UNCHANGED <<vars, removal>>
    PROVE  play' \in [PlayCall -> Call] /\ (CallInv => CallInv')
<1>1. NoCall \in Call /\ NoCall.pc = "idle"
    BY DEF NoCall, Call
<1>2. play' \in [PlayCall -> Call] /\ play'[p] = NoCall /\ \A q \in PlayCall \ {p} : play'[q] = play[q]
    BY <1>1 DEF PlayInv, PlaybackTypeOK
<1>3. CallInv => CallInv'
    BY <1>1, <1>2 DEF CallInv, Calling, Ready, vars
<1> QED BY <1>2, <1>3

\* A call that fails caches nothing.
LEMMA PlayFailsKeeps ==
    ASSUME DownloadInv, PlayInv, NEW p \in PlayCall, PlayFails(p)
    PROVE  PlayInv'
<1>1. play' = [play EXCEPT ![p] = NoCall] /\ UNCHANGED <<vars, legacy, urlCache, removal>>
    BY DEF PlayFails
<1>2. PlaybackTypeOK' /\ (CallInv => CallInv')
    BY <1>1, CallEnds DEF PlayInv, PlaybackTypeOK
<1>3. UrlInv => UrlInv'
    BY <1>1 DEF UrlInv, OneFile, NoUrl, Ready, vars
<1> QED BY <1>1, <1>2, <1>3 DEF PlayInv, vars

\* A call that finds no chunks to play takes the legacy copy.
LEMMA PlayReadsLegacyKeeps ==
    ASSUME DownloadInv, PlayInv, NEW p \in PlayCall, PlayReadsLegacy(p)
    PROVE  PlayInv'
<1>1. CASE ~legacy
    <2>1. /\ play' = [play EXCEPT ![p] = NoCall] /\ UNCHANGED <<vars, legacy, urlCache, removal>>
        BY <1>1 DEF PlayReadsLegacy
    <2>2. PlaybackTypeOK' /\ (CallInv => CallInv')
        BY <2>1, CallEnds DEF PlayInv, PlaybackTypeOK
    <2>3. UrlInv => UrlInv'
        BY <2>1 DEF UrlInv, OneFile, NoUrl, Ready, vars
    <2> QED BY <2>1, <2>2, <2>3 DEF PlayInv, vars
<1>2. CASE legacy
    <2>1. /\ play[p].pc = "legacy" /\ play' = [play EXCEPT ![p] = NoCall]
          /\ urlCache' = [of |-> {Legacy}, overlapped |-> play[p].overlapped]
          /\ UNCHANGED <<vars, legacy, removal>>
        BY <1>2 DEF PlayReadsLegacy, Cache
    <2>2. play[p].overlapped \in BOOLEAN
        BY DEF PlayInv, PlaybackTypeOK, Call
    <2>3. PlaybackTypeOK' /\ (CallInv => CallInv')
        BY <2>1, <2>2, CallEnds DEF PlayInv, PlaybackTypeOK
    <2>4. CallInv => UrlInv'
        BY <1>2, <2>1 DEF CallInv, Calling, UrlInv
    <2> QED BY <2>1, <2>3, <2>4 DEF PlayInv, vars
<1> QED BY <1>1, <1>2

\* What covers the total is one file; it is the whole copy that is ready.
LEMMA CoveringChunks ==
    ASSUME DownloadInv, ~misread, NEW total \in Nat,
           Validated(chunks) # {}, Bytes(Validated(chunks)) = 0..(total - 1)
    PROVE  /\ OneFile(Validated(chunks))
           /\ Ready /\ total = db.total => Validated(chunks) = chunks
<1> DEFINE valid == Validated(chunks)
<1>1. valid \subseteq chunks /\ Chunks(chunks) /\ chunks \subseteq Chunk
    BY ValidatedWithin, ChunksTyped DEF DownloadInv, TypeOK
<1>2. /\ db # Null /\ db \in VideoRecord /\ Sound(db.total, db.etag, db.lm, chunks)
      /\ \A c \in chunks : c.index < db.count
    BY <1>1 DEF DownloadInv, Stocked, TypeOK
<1>3. Cardinality(Bytes(valid)) = total
    <2>1. Cardinality(0..(total - 1)) = IF 0 > total - 1 THEN 0 ELSE total - 1 - 0 + 1
        BY FS_Interval
    <2> QED BY <2>1
<1>4. OneFile(valid)
    BY <1>1, <1>2, <1>3, LegacyAssumption DEF OneFile, Sound, OfOneFile
<1>5. ASSUME Ready, total = db.total, NEW c \in chunks PROVE c \in valid
    <2>1. /\ Laid(chunks) /\ \A d \in chunks : d.end < db.total
          /\ db.total \in Nat /\ db.count \in Nat
        BY <1>2 DEF Sound, Heard, VideoRecord
    <2>2. valid = {d \in chunks : d.start < total}
        BY <1>1, <1>2, <1>3, <2>1, ValidPrefix
    <2>3. c.start < total
        BY <1>1, <1>5, <2>1, EndsInBytes
    <2> QED BY <2>2, <2>3
<1> QED BY <1>1, <1>4, <1>5

\* A call that finds the chunks caches a URL of them.
LEMMA PlayReadsChunksKeeps ==
    ASSUME DownloadInv, PlayInv, NEW p \in PlayCall, PlayReadsChunks(p)
    PROVE  PlayInv'
<1> DEFINE valid == Validated(chunks)
<1>1. play[p] \in Call /\ play[p].overlapped \in BOOLEAN /\ play[p].total \in Nat
    BY DEF PlayInv, PlaybackTypeOK, Call
<1>2. CASE ~Covers(p, valid)
    <2>1. /\ play[p].pc = "chunks" /\ play' = [play EXCEPT ![p].pc = "legacy"]
          /\ UNCHANGED <<vars, legacy, urlCache, removal>>
        BY <1>2 DEF PlayReadsChunks
    <2>2. /\ play' \in [PlayCall -> Call] /\ play'[p].pc = "legacy"
          /\ play'[p].overlapped = play[p].overlapped
          /\ \A q \in PlayCall \ {p} : play'[q] = play[q]
        BY <1>1, <2>1 DEF PlayInv, PlaybackTypeOK, Call
    <2>3. PlaybackTypeOK'
        BY <2>1, <2>2 DEF PlayInv, PlaybackTypeOK
    <2>4. CallInv => CallInv'
        BY <2>1, <2>2 DEF CallInv, Calling, Ready, vars
    <2>5. UrlInv => UrlInv'
        BY <2>1 DEF UrlInv, OneFile, NoUrl, Ready, vars
    <2> QED BY <2>1, <2>3, <2>4, <2>5 DEF PlayInv, vars
<1>3. CASE Covers(p, valid)
    <2>1. /\ play[p].pc = "chunks" /\ play' = [play EXCEPT ![p] = NoCall]
          /\ urlCache' = [of |-> valid, overlapped |-> play[p].overlapped]
          /\ valid # {} /\ Bytes(valid) = 0..(play[p].total - 1)
          /\ UNCHANGED <<vars, legacy, removal>>
        BY <1>3 DEF PlayReadsChunks, Cache, Covers
    <2>2. PlaybackTypeOK' /\ (CallInv => CallInv')
        BY <1>1, <2>1, CallEnds DEF PlayInv, PlaybackTypeOK
    <2>3. ASSUME ~scenario.misreads PROVE UrlInv'
        <3>1. ~misread /\ CallInv
            BY <2>3 DEF DownloadInv, Phases, PlayInv
        <3>2. OneFile(valid) /\ (Ready /\ play[p].total = db.total => valid = chunks)
            BY <1>1, <2>1, <3>1, CoveringChunks
        <3>3. ~play[p].overlapped => /\ removal = "no" /\ Ready /\ db.total > 0
                                     /\ play[p].total = db.total
            BY <2>1, <3>1 DEF CallInv, Calling
        <3> HIDE DEF valid
        <3>4. urlCache'.of = valid /\ urlCache'.overlapped = play[p].overlapped
            BY <2>1
        <3> QED BY <2>1, <3>2, <3>3, <3>4 DEF UrlInv, OneFile, Ready, vars
    <2> QED BY <2>1, <2>2, <2>3 DEF PlayInv, vars
<1> QED BY <1>2, <1>3

\* The URL goes with what it was made of, and the calls are overlapped.
LEMMA RemoveDataKeeps == ASSUME DownloadInv, PlayInv, RemoveData PROVE PlayInv'
<1>1. /\ urlCache' = NoUrl /\ removal' = "legacy" /\ play' = Overlap(play) /\ legacy' = legacy
    BY DEF RemoveData
<1>2. play \in [PlayCall -> Call]
    BY DEF PlayInv, PlaybackTypeOK
<1>3. ASSUME NEW p \in PlayCall
      PROVE  /\ play'[p] \in Call /\ play'[p].pc = play[p].pc
             /\ play'[p].overlapped = (play[p].pc # "idle")
    BY <1>1, <1>2 DEF Overlap, Call
<1>4. play' \in [PlayCall -> Call]
    BY <1>1, <1>3 DEF Overlap
<1>5. NoUrl.overlapped \in BOOLEAN
    BY DEF NoUrl
<1>6. PlaybackTypeOK'
    BY <1>1, <1>4, <1>5 DEF PlayInv, PlaybackTypeOK
<1>7. CallInv'
    <2>1. ASSUME NEW q \in PlayCall, play'[q].pc # "idle"
          PROVE  play'[q].overlapped = TRUE
        BY <2>1, <1>3
    <2>2. ASSUME NEW q \in PlayCall, Calling(q)', ~play'[q].overlapped
          PROVE  FALSE
        <3>1. play'[q].pc # "idle"
            BY <2>2 DEF Calling
        <3> QED BY <2>1, <2>2, <3>1
    <2> QED BY <2>2 DEF CallInv
<1>8. UrlInv'
    BY <1>1 DEF UrlInv, NoUrl
<1> QED BY <1>6, <1>7, <1>8 DEF PlayInv

\* A removal that aborts has revoked the URL.
LEMMA RemoveFailsKeeps == ASSUME DownloadInv, PlayInv, RemoveFails PROVE PlayInv'
<1>1. urlCache' = NoUrl /\ UNCHANGED <<vars, legacy, play, removal>>
    BY DEF RemoveFails
<1>2. PlaybackTypeOK'
    BY <1>1 DEF PlayInv, PlaybackTypeOK, NoUrl
<1>3. CallInv => CallInv'
    BY <1>1 DEF CallInv, Calling, Ready, vars
<1>4. UrlInv'
    BY <1>1 DEF UrlInv, NoUrl
<1> QED BY <1>1, <1>2, <1>3, <1>4 DEF PlayInv, vars

\* The legacy copy is deleted when the URL is gone.
LEMMA RemoveLegacyKeeps == ASSUME DownloadInv, PlayInv, RemoveLegacy PROVE PlayInv'
<1>1. /\ removal = "legacy" /\ removal' = "no" /\ legacy' \in {FALSE, legacy}
      /\ UNCHANGED <<vars, urlCache, play>>
    BY DEF RemoveLegacy
<1>2. PlaybackTypeOK'
    BY <1>1 DEF PlayInv, PlaybackTypeOK
<1>3. CallInv => CallInv'
    BY <1>1 DEF CallInv, Calling
<1>4. UrlInv => UrlInv'
    BY <1>1 DEF UrlInv, OneFile, NoUrl
<1> QED BY <1>1, <1>2, <1>3, <1>4 DEF PlayInv, vars

\* A reload leaves the store.
LEMMA ReloadPageKeeps == ASSUME DownloadInv, PlayInv, ReloadPage PROVE PlayInv'
<1>1. /\ urlCache' = NoUrl /\ removal' = "no" /\ play' = [p \in PlayCall |-> NoCall]
      /\ legacy' = legacy
    BY DEF ReloadPage
<1>2. NoCall \in Call /\ NoCall.pc = "idle" /\ NoUrl.overlapped \in BOOLEAN
    BY DEF NoCall, Call, NoUrl
<1>3. PlaybackTypeOK'
    BY <1>1, <1>2 DEF PlayInv, PlaybackTypeOK
<1>4. CallInv'
    BY <1>1, <1>2 DEF CallInv, Calling
<1>5. UrlInv'
    BY <1>1 DEF UrlInv, NoUrl
<1> QED BY <1>3, <1>4, <1>5 DEF PlayInv

\* The invariant holds at first, and every step keeps it.
LEMMA PlayInitSafe == PlaybackInit => PlayInv
<1>1. NoCall \in Call /\ NoCall.pc = "idle" /\ NoUrl.overlapped \in BOOLEAN
    BY DEF NoCall, Call, NoUrl
<1> QED BY <1>1 DEF PlaybackInit, PlayInv, PlaybackTypeOK, CallInv, Calling, UrlInv, NoUrl

LEMMA PlayStepKeeps ==
    ASSUME DownloadInv, PlayInv, [PlaybackNext]_<<vars, playVars>>
    PROVE  PlayInv'
<1>1. scenario' = scenario
    BY RemainsOrRemoved
<1>2. CASE UNCHANGED <<vars, playVars>>
    BY <1>1, <1>2, StoreStepKeeps DEF vars
<1>3. CASE /\ \/ Load \/ LoadWithoutRecord \/ LoadFails \/ Step \/ LoggedIn \/ SourceChanges
              \/ PauseUnread
              \/ PauseLegacy /\ legacy
           /\ UNCHANGED playVars
    BY <1>1, <1>3, StoreStepKeeps
<1>4. ASSUME NEW p \in PlayCall,
             PlayReadsRecord(p) \/ PlayReadsChunks(p) \/ PlayReadsLegacy(p) \/ PlayFails(p)
      PROVE  PlayInv'
    BY <1>4, PlayReadsRecordKeeps, PlayReadsChunksKeeps, PlayReadsLegacyKeeps, PlayFailsKeeps
<1>5. CASE RemoveData \/ RemoveFails \/ RemoveLegacy \/ ReloadPage
    BY <1>5, RemoveDataKeeps, RemoveFailsKeeps, RemoveLegacyKeeps, ReloadPageKeeps
<1> QED BY <1>2, <1>3, <1>4, <1>5 DEF PlaybackNext

\* Whoever plays and removes, the download is the one above.
THEOREM PlayingLeavesTheDownload == PlaybackSpec => Init /\ [][Next]_vars
BY RemainsOrRemoved, PTL DEF PlaybackSpec

\* What offlinePlayUrl hands out is the copy that the store has, whole and of
\* one file, unless a removal overlapped the call that made the URL.
THEOREM PlayedIsStored == PlaybackSpec => []PlaysWhatIsStored
<1>1. Init /\ PlaybackInit => DownloadInv /\ PlayInv
    BY InitSafe, PlayInitSafe
<1>2. DownloadInv /\ PlayInv /\ [PlaybackNext]_<<vars, playVars>> => DownloadInv' /\ PlayInv'
    BY NextKeeps, RemainsOrRemoved, PlayStepKeeps
<1>3. DownloadInv /\ PlayInv => PlaysWhatIsStored
    <2> SUFFICES ASSUME DownloadInv, PlayInv PROVE PlaysWhatIsStored
        OBVIOUS
    <2>1. PlaybackTypeOK
        BY DEF PlayInv
    <2>2. ASSUME urlCache # NoUrl, ~scenario.misreads, Ready PROVE Bytes(chunks) = 0..(db.total - 1)
        BY <2>2 DEF DownloadInv, Phases, Whole
    <2> QED BY <2>1, <2>2 DEF PlayInv, UrlInv, OneFile, PlaysWhatIsStored
<1> QED BY <1>1, <1>2, <1>3, PTL DEF PlaybackSpec

=============================================================================
