------------------------ MODULE UnshieldReaderProofs ------------------------
(***************************************************************************)
(* Proofs about the reader of unshield and the loop that saves a file, for *)
(* every archive a writer of cabinets may produce: however many volumes,   *)
(* parts and chunks it has, and however much of it is missing or damaged.  *)
(*                                                                         *)
(* The inductive invariant has four parts: Place (where the reader stands  *)
(* in the volumes), Counted (how that place agrees with the counters of    *)
(* the save loop), Stored (what was written) and, of files whose chunk     *)
(* headers add up, InOrder.                                                *)
(***************************************************************************)
EXTENDS UnshieldReader, Induction, SequenceTheorems, TLAPS

-----------------------------------------------------------------------------
(* Archives.                                                               *)

\* The place in the stream where the part in volume v ends.
PartEnd(a, v) == a.begin[v] + a.part[v]

\* The home volume shows that the file is continued.
HomeSplit(a) ==
  \/ a.split
  \/ /\ a.version = 5
     /\ a.part[a.home] # a.total
     /\ \/ ~a.final /\ a.home \in a.last
        \/ ~a.initial /\ a.home \in a.first

\* What an archive consists of.
LEMMA ArchiveFields ==
  ASSUME NEW a \in Archives
  PROVE  /\ a.version \in {0, 5, 6} /\ a.volume \in 1..Volumes /\ a.home \in 1..Volumes
         /\ a.initial \in BOOLEAN /\ a.final \in BOOLEAN /\ a.split \in BOOLEAN
         /\ a.outside \in BOOLEAN /\ a.compressed \in BOOLEAN
         /\ a.total \in Nat \ {0}
         /\ a.begin \in [1..Volumes -> Nat] /\ a.part \in [1..Volumes -> Nat]
         /\ a.first \in SUBSET (1..Volumes) /\ a.last \in SUBSET (1..Volumes)
         /\ a.beyond \in SUBSET (1..Volumes) /\ a.present \in SUBSET (1..Volumes)
         /\ a.chunks \in Seq(Chunks) /\ a.far \in SUBSET (1..Volumes)
BY ArchivesAssumption DEF ArchiveRecords

\* The parts follow one another and end where the stream does.
LEMMA Parts ==
  ASSUME NEW a \in Archives
  PROVE  /\ \A v \in a.home..Volumes : PartEnd(a, v) <= a.total
         /\ PartEnd(a, Volumes) = a.total
         /\ \A v \in 1..Volumes : v > a.home => a.begin[v] = PartEnd(a, v - 1)
         /\ a.begin[a.home] = 0 /\ a.part[a.home] # 0
         /\ \A v \in 1..Volumes : a.begin[v] <= a.total /\ a.part[v] <= a.total
<1>. DEFINE D == {k \in Nat : Volumes - k >= a.home => PartEnd(a, Volumes - k) <= a.total}
<1>0. /\ Volumes \in Nat \ {0} /\ a.home \in 1..Volumes /\ a.total \in Nat
      /\ a.begin \in [1..Volumes -> Nat] /\ a.part \in [1..Volumes -> Nat]
  BY ArchiveFields, SizesAssumption
<1>1. /\ PartEnd(a, Volumes) = a.total /\ a.begin[a.home] = 0 /\ a.part[a.home] # 0
      /\ \A v \in 1..Volumes :
           /\ v > a.home => a.begin[v] = PartEnd(a, v - 1)
           /\ v < a.home => a.begin[v] = 0 /\ a.part[v] = 0
  BY ArchivesAssumption, <1>0 DEF WellFormed, PartEnd
<1>2. 0 \in D
  BY <1>0, <1>1
<1>3. ASSUME NEW k \in D
      PROVE  k + 1 \in D
  <2>. SUFFICES ASSUME Volumes - (k + 1) >= a.home
                PROVE  PartEnd(a, Volumes - (k + 1)) <= a.total
    OBVIOUS
  <2>1. PICK w \in 1..Volumes : w = Volumes - k
    BY <1>0
  <2>2. w > a.home /\ w - 1 = Volumes - (k + 1) /\ PartEnd(a, w) <= a.total
    BY <1>0, <2>1
  <2>3. a.begin[w] = PartEnd(a, w - 1)
    BY <1>1, <2>2
  <2>4. a.begin[w] \in Nat /\ a.part[w] \in Nat
    BY <1>0
  <2>5. a.begin[w] <= a.total
    <3>1. a.begin[w] + a.part[w] <= a.total
      BY <2>2 DEF PartEnd
    <3>. QED BY <3>1, <2>4, <1>0
  <2>. QED BY <2>2, <2>3, <2>5
<1>4. Nat = D
  <2>1. D \in SUBSET Nat
    OBVIOUS
  <2>. HIDE DEF D
  <2>. QED BY <1>2, <1>3, <2>1, SetInduction
<1>5. ASSUME NEW v \in a.home..Volumes
      PROVE  PartEnd(a, v) <= a.total
  <2>1. PICK k \in Nat : v = Volumes - k
    <3>1. Volumes - v \in Nat /\ v = Volumes - (Volumes - v)
      BY <1>0
    <3>. QED BY <3>1
  <2>2. k \in D /\ Volumes - k >= a.home
    <3>1. Volumes - k >= a.home
      BY <2>1, <1>0
    <3>. HIDE DEF D
    <3>. QED BY <1>4, <3>1
  <2>. QED BY <2>1, <2>2
<1>6. ASSUME NEW v \in 1..Volumes
      PROVE  a.begin[v] <= a.total /\ a.part[v] <= a.total
  <2>1. CASE v < a.home
    BY <2>1, <1>0, <1>1
  <2>2. CASE v >= a.home
    <3>1. PartEnd(a, v) <= a.total /\ a.begin[v] \in Nat /\ a.part[v] \in Nat
      BY <2>2, <1>0, <1>5, SMTT(30)
    <3>. QED BY <3>1, <1>0, SMTT(30) DEF PartEnd
  <2>. QED BY <2>1, <2>2, <1>0
<1>. QED BY <1>1, <1>5, <1>6

\* What the headers of the volumes say of the file.
LEMMA Headers ==
  ASSUME NEW a \in Archives
  PROVE  /\ \A v \in a.first \cup a.last : a.part[v] # 0 /\ v >= a.home
         /\ \A v \in 1..Volumes :
              v > a.home /\ v \notin a.first \cup a.last => a.part[v] = 0
         /\ \A v \in 1..Volumes :
              v > a.home /\ a.part[v] = 0 => a.begin[v] = a.total
         /\ a.part[a.home] # a.total => a.part[a.home] < a.total /\ a.home \in a.last
         /\ HomeSplit(a) => a.home \in a.first \cup a.last
<1>0. /\ Volumes \in Nat \ {0} /\ a.home \in 1..Volumes /\ a.total \in Nat
      /\ a.begin \in [1..Volumes -> Nat] /\ a.part \in [1..Volumes -> Nat]
      /\ a.first \in SUBSET (1..Volumes) /\ a.last \in SUBSET (1..Volumes)
  BY ArchiveFields, SizesAssumption
<1>1. /\ a.split => a.part[a.home] # a.total
      /\ a.part[a.home] # 0
      /\ \A v \in 1..Volumes :
           /\ v < a.home => a.part[v] = 0
           /\ a.part[v] # 0 /\ v > a.home => v \in a.first
           /\ a.part[v] # 0 /\ a.begin[v] + a.part[v] < a.total => v \in a.last
           /\ v \in a.first \cup a.last => a.part[v] # 0
           /\ a.part[v] = 0 /\ v > a.home => a.begin[v] = a.total
  BY ArchivesAssumption, <1>0 DEF WellFormed
<1>2. ASSUME a.part[a.home] # a.total
      PROVE  a.part[a.home] < a.total /\ a.home \in a.last
  <2>1. a.begin[a.home] = 0 /\ a.part[a.home] <= a.total /\ a.part[a.home] \in Nat
    BY <1>0, Parts
  <2>2. a.part[a.home] < a.total
    BY <2>1, <1>2, <1>0
  <2>. QED BY <2>1, <2>2, <1>0, <1>1
<1>3. \A v \in a.first \cup a.last : a.part[v] # 0 /\ v >= a.home
  BY <1>0, <1>1
<1>. QED BY <1>0, <1>1, <1>2, <1>3 DEF HomeSplit

\* ChunkEnds is the sum it is meant to be.
LEMMA ChunkEndsDef ==
  ASSUME NEW a \in Archives
  PROVE  /\ ChunkEnds(a) \in [0..Len(a.chunks) -> Nat]
         /\ ChunkEnds(a)[0] = 0
         /\ \A n \in 1..Len(a.chunks) :
              ChunkEnds(a)[n] = ChunkEnds(a)[n - 1] + HeaderSize + a.chunks[n].size
<1>. DEFINE N == Len(a.chunks)
            Sums(e, k) == \A n \in 0..k :
                            e[n] = IF n = 0 THEN 0 ELSE e[n - 1] + HeaderSize + a.chunks[n].size
            D == {k \in Nat : k <= N => \E e \in [0..k -> Nat] : Sums(e, k)}
<1>0. N \in Nat /\ \A n \in 1..N : a.chunks[n].size \in Nat
  <2>1. a.chunks \in Seq(Chunks)
    BY ArchiveFields
  <2>2. N \in Nat
    BY <2>1, LenProperties
  <2>3. ASSUME NEW n \in 1..N
        PROVE  a.chunks[n] \in Chunks
    BY <2>1, <2>3, ElementOfSeq
  <2>. QED BY <2>2, <2>3 DEF Chunks
<1>1. 0 \in D
  <2>1. [n \in 0..0 |-> 0] \in [0..0 -> Nat] /\ Sums([n \in 0..0 |-> 0], 0)
    OBVIOUS
  <2>. HIDE DEF Sums, N
  <2>. QED BY <2>1
<1>2. ASSUME NEW k \in D
      PROVE  k + 1 \in D
  <2>0. k \in Nat /\ (k <= N => \E e \in [0..k -> Nat] : Sums(e, k))
    <3>. HIDE DEF Sums, N
    <3>. QED OBVIOUS
  <2>1. ASSUME k + 1 <= N
        PROVE  \E e \in [0..(k + 1) -> Nat] : Sums(e, k + 1)
    <3>0. k <= N /\ k + 1 \in 1..N
      <4>. HIDE DEF N
      <4>. QED BY <1>0, <2>0, <2>1
    <3>1. PICK e \in [0..k -> Nat] : Sums(e, k)
      <4>. HIDE DEF Sums, N
      <4>. QED BY <2>0, <3>0
    <3>. DEFINE s == e[k] + HeaderSize + a.chunks[k + 1].size
                f == [n \in 0..(k + 1) |-> IF n = k + 1 THEN s ELSE e[n]]
    <3>2. s \in Nat
      BY <1>0, <2>0, <3>0, <3>1, SMTT(30) DEF HeaderSize
    <3>3. f \in [0..(k + 1) -> Nat]
      <4>. HIDE DEF s
      <4>1. ASSUME NEW n \in 0..(k + 1)
            PROVE  (IF n = k + 1 THEN s ELSE e[n]) \in Nat
        BY <2>0, <3>1, <3>2
      <4>. QED BY <4>1
    <3>4. ASSUME NEW n \in 0..(k + 1)
          PROVE  f[n] = IF n = 0 THEN 0 ELSE f[n - 1] + HeaderSize + a.chunks[n].size
      <4>1. CASE n = k + 1
        <5>1. n # 0 /\ n - 1 = k /\ k \in 0..(k + 1) /\ k # k + 1
          BY <4>1, <2>0
        <5>2. f[n] = s /\ f[k] = e[k]
          BY <4>1, <5>1
        <5>. QED BY <4>1, <5>1, <5>2
      <4>2. CASE n # k + 1
        <5>1. n \in 0..k
          BY <4>2, <2>0
        <5>2. f[n] = e[n] /\ (n # 0 => f[n - 1] = e[n - 1])
          BY <5>1, <2>0
        <5>. QED BY <3>1, <5>1, <5>2
      <4>. QED BY <4>1, <4>2
    <3>5. Sums(f, k + 1)
      <4>. HIDE DEF f
      <4>. QED BY <3>4
    <3>. HIDE DEF f, Sums
    <3>. QED BY <3>3, <3>5
  <2>. HIDE DEF Sums, N
  <2>. QED BY <2>0, <2>1
<1>3. PICK e \in [0..N -> Nat] : Sums(e, N)
  <2>1. D \in SUBSET Nat
    OBVIOUS
  <2>2. D = Nat
    <3>. HIDE DEF D
    <3>. QED BY <1>1, <1>2, <2>1, SetInduction
  <2>3. N \in D
    BY <1>0, <2>2
  <2>4. N <= N
    <3>. HIDE DEF N
    <3>. QED BY <1>0
  <2>. HIDE DEF Sums, N
  <2>. QED BY <2>3, <2>4
<1>4. e = [n \in 0..N |-> IF n = 0 THEN 0 ELSE e[n - 1] + HeaderSize + a.chunks[n].size]
  BY <1>3
<1>5. ChunkEnds(a) =
        [n \in 0..N |-> IF n = 0 THEN 0
                        ELSE ChunkEnds(a)[n - 1] + HeaderSize + a.chunks[n].size]
  BY <1>4 DEF ChunkEnds
<1>6. /\ DOMAIN ChunkEnds(a) = 0..N
      /\ Sums(ChunkEnds(a), N)
  BY <1>5
<1>7. ASSUME NEW f, Sums(f, N)
      PROVE  /\ f[0] = 0
             /\ \A n \in 1..N : f[n] = f[n - 1] + HeaderSize + a.chunks[n].size
             /\ \A n \in 0..N : f[n] \in Nat
  <2>. HIDE DEF N
  <2>1. f[0] = 0 /\ \A n \in 1..N : f[n] = f[n - 1] + HeaderSize + a.chunks[n].size
    BY <1>0, <1>7
  <2>. DEFINE T == {n \in Nat : n <= N => f[n] \in Nat}
  <2>2. T \in SUBSET Nat /\ 0 \in T
    BY <2>1
  <2>3. ASSUME NEW n \in T
        PROVE  n + 1 \in T
    <3>1. ASSUME n + 1 <= N
          PROVE  f[n + 1] \in Nat
      <4>1. n + 1 \in 1..N /\ n <= N /\ (n + 1) - 1 = n
        BY <3>1, <1>0
      <4>2. f[n] \in Nat /\ a.chunks[n + 1].size \in Nat
        BY <4>1, <1>0
      <4>3. f[n + 1] = f[n] + HeaderSize + a.chunks[n + 1].size
        BY <2>1, <4>1
      <4>. QED BY <4>2, <4>3 DEF HeaderSize
    <3>. QED BY <3>1
  <2>4. T = Nat
    <3>. HIDE DEF T
    <3>. QED BY <2>2, <2>3, SetInduction
  <2>5. ASSUME NEW n \in 0..N
        PROVE  f[n] \in Nat
    <3>1. n \in Nat /\ n <= N
      BY <1>0
    <3>. QED BY <2>4, <3>1
  <2>. HIDE DEF T
  <2>. QED BY <2>1, <2>5
<1>8. /\ ChunkEnds(a)[0] = 0
      /\ \A n \in 1..N : ChunkEnds(a)[n] = ChunkEnds(a)[n - 1] + HeaderSize + a.chunks[n].size
      /\ \A n \in 0..N : ChunkEnds(a)[n] \in Nat
  <2>. HIDE DEF Sums
  <2>. QED BY <1>6, <1>7
<1>9. ChunkEnds(a) = [n \in 0..N |-> ChunkEnds(a)[n]]
  <2>. DEFINE b(n) == IF n = 0 THEN 0 ELSE ChunkEnds(a)[n - 1] + HeaderSize + a.chunks[n].size
  <2>1. ChunkEnds(a) = [n \in 0..N |-> b(n)]
    BY <1>5
  <2>. HIDE DEF b, N
  <2>. QED BY <2>1
<1>10. ChunkEnds(a) \in [0..N -> Nat]
  <2>. HIDE DEF N
  <2>. QED BY <1>8, <1>9
<1>. QED BY <1>8, <1>10
\* Every chunk but the last ends before the stream of chunks does.
LEMMA ChunkPlaces ==
  ASSUME NEW a \in Archives, NEW i \in 0..Len(a.chunks)
  PROVE  /\ Len(a.chunks) \in Nat /\ DOMAIN a.chunks = 1..Len(a.chunks)
         /\ ChunkEnds(a)[i] \in Nat /\ ChunkEnds(a)[0] = 0 /\ Total(a) \in Nat
         /\ ChunkEnds(a)[i] = Total(a) => i = Len(a.chunks)
         /\ i # Len(a.chunks) =>
              /\ i + 1 \in 1..Len(a.chunks)
              /\ a.chunks[i + 1].size \in Nat \ {0} /\ a.chunks[i + 1].state \in ChunkStates
              /\ a.chunks[i + 1].yield \in Nat
              /\ ChunkEnds(a)[i + 1] =
                   ChunkEnds(a)[i] + HeaderSize + a.chunks[i + 1].size
              /\ ChunkEnds(a)[i + 1] <= Total(a)
<1>. DEFINE N == Len(a.chunks)
            e == ChunkEnds(a)
            D == {k \in Nat : k <= N => e[N - k] + k <= e[N]}
<1>0. /\ a.chunks \in Seq(Chunks)
      /\ N \in Nat /\ DOMAIN a.chunks = 1..N
  <2>1. a.chunks \in Seq(Chunks)
    BY ArchiveFields
  <2>. QED BY <2>1, LenProperties
<1>1. \A n \in 1..N : a.chunks[n] \in Chunks
  BY <1>0, ElementOfSeq
<1>2. \A n \in 1..N : /\ a.chunks[n].size \in Nat \ {0} /\ a.chunks[n].state \in ChunkStates
                      /\ a.chunks[n].yield \in Nat
  BY <1>1 DEF Chunks
<1>3. /\ e \in [0..N -> Nat] /\ e[0] = 0
      /\ \A n \in 1..N : e[n] = e[n - 1] + HeaderSize + a.chunks[n].size
  BY ChunkEndsDef
<1>. HIDE DEF e, N
<1>4. 0 \in D
  BY <1>0, <1>3
<1>5. ASSUME NEW k \in D
      PROVE  k + 1 \in D
  <2>1. ASSUME k + 1 <= N
        PROVE  e[N - (k + 1)] + (k + 1) <= e[N]
    <3>1. PICK n \in 1..N : n = N - k
      BY <2>1, <1>0
    <3>2. n - 1 = N - (k + 1) /\ n - 1 \in 0..N /\ n \in 0..N /\ N \in 0..N
      BY <2>1, <3>1, <1>0
    <3>3. e[n] = e[n - 1] + HeaderSize + a.chunks[n].size
      BY <1>3
    <3>4. e[n] + k <= e[N]
      BY <2>1, <3>1, <1>0
    <3>5. e[n] \in Nat /\ e[n - 1] \in Nat /\ e[N] \in Nat /\ a.chunks[n].size \in Nat
      BY <1>2, <1>3, <3>2
    <3>6. k \in Nat
      OBVIOUS
    <3>7. e[n - 1] + (k + 1) <= e[N]
      <4>1. \A x, y, z, s \in Nat : y = x + HeaderSize + s /\ y + k <= z => x + (k + 1) <= z
        BY <3>6 DEF HeaderSize
      <4>. QED BY <4>1, <3>3, <3>4, <3>5
    <3>. QED BY <3>2, <3>7
  <2>. QED BY <2>1
<1>6. Nat = D
  <2>1. D \in SUBSET Nat
    OBVIOUS
  <2>. HIDE DEF D
  <2>. QED BY <1>4, <1>5, <2>1, SetInduction
<1>7. ASSUME NEW j \in 0..N
      PROVE  e[j] \in Nat /\ e[N] \in Nat /\ e[j] + (N - j) <= e[N]
  <2>1. PICK k \in Nat : k = N - j
    BY <1>0
  <2>2. k <= N /\ j = N - k /\ N \in 0..N
    BY <2>1, <1>0
  <2>3. k \in D
    <3>. HIDE DEF D
    <3>. QED BY <1>6
  <2>4. e[N - k] + k <= e[N]
    BY <2>2, <2>3
  <2>. QED BY <2>1, <2>2, <2>4, <1>3
<1>8. i \in 0..N /\ N \in 0..N
  BY <1>0 DEF N
<1>9. e[i] = e[N] => i = N
  BY <1>0, <1>7, <1>8
<1>10. ASSUME i # N
       PROVE  /\ i + 1 \in 1..N /\ e[i + 1] = e[i] + HeaderSize + a.chunks[i + 1].size
              /\ e[i + 1] <= e[N]
  <2>1. i + 1 \in 1..N /\ i + 1 \in 0..N /\ (i + 1) - 1 = i
    BY <1>0, <1>8, <1>10
  <2>2. e[i + 1] + (N - (i + 1)) <= e[N] /\ e[i + 1] \in Nat /\ e[N] \in Nat
    BY <1>7, <2>1
  <2>3. e[i + 1] <= e[N]
    BY <2>1, <2>2, <1>0
  <2>. QED BY <1>3, <2>1, <2>3
<1>11. Total(a) = e[N]
  BY DEF Total, e, N
<1>12. e[i] \in Nat /\ e[N] \in Nat
  BY <1>7, <1>8
<1>. QED BY <1>0, <1>2, <1>3, <1>9, <1>10, <1>11, <1>12 DEF e, N

\* What chunks are good expand to what was packed into them.
LEMMA GoodChunks ==
  ASSUME NEW a \in Archives, NEW i \in DOMAIN a.chunks, a.chunks[i].state = "good"
  PROVE  a.chunks[i].yield = 1
BY ArchivesAssumption DEF WellFormed

\* A file that is not known to be split fits the counters, if what lies in its
\* volumes does.
LEMMA UnsplitIsNarrow ==
  ASSUME NEW a \in Archives, Narrow(a), ~HomeSplit(a)
  PROVE  a.total < Word
<1>1. /\ a.home \in 1..Volumes /\ a.version \in {0, 5, 6}
      /\ a.version = 6 /\ a.part[a.home] # a.total => a.split
      /\ a.version # 6 => a.total < Word
  BY ArchiveFields, ArchivesAssumption DEF WellFormed
<1>. QED BY <1>1 DEF Narrow, HomeSplit

\* Remainders, which the unsigned counters are.
LEMMA ModRange ==
  ASSUME NEW x \in Int
  PROVE  x % Word \in 0..(Word - 1)
BY SizesAssumption

LEMMA ModLe ==
  ASSUME NEW x \in Nat
  PROVE  x % Word \in 0..x
<1>1. Word \in Nat \ {0}
  BY SizesAssumption
<1>. QED BY <1>1

LEMMA ModSmall ==
  ASSUME NEW x \in Nat, x < Word
  PROVE  x % Word = x
BY SizesAssumption

\* Counting off from a remainder is counting off from the number.
LEMMA ModSub ==
  ASSUME NEW x \in Int, NEW k \in Int
  PROVE  ((x % Word) - k) % Word = (x - k) % Word
<1>0. Word \in Nat \ {0}
  BY SizesAssumption
<1>1. ASSUME NEW y \in Int
      PROVE  /\ y = Word * (y \div Word) + (y % Word)
             /\ y \div Word \in Int /\ y % Word \in 0..(Word - 1)
  BY <1>0
<1>2. ASSUME NEW q \in Int, NEW r \in 0..(Word - 1)
      PROVE  (Word * q + r) % Word = r
  BY <1>0
<1>. DEFINE q == x \div Word
            y == (x % Word) - k
            p == y \div Word
            r == y % Word
<1>3. x = Word * q + (x % Word) /\ q \in Int /\ x % Word \in Int
  BY <1>1
<1>4. y \in Int
  BY <1>3
<1>5. y = Word * p + r /\ p \in Int /\ r \in 0..(Word - 1)
  BY <1>1, <1>4
<1>. HIDE DEF q, y, p, r
<1>6. x - k = Word * q + y
  <2>1. Word * q \in Int
    BY <1>0, <1>3
  <2>2. \A z, w \in Int : x = z + w => x - k = z + (w - k)
    OBVIOUS
  <2>. QED BY <1>3, <2>1, <2>2 DEF y
<1>7. Word * q + (Word * p + r) = Word * (p + q) + r
  BY <1>0, <1>3, <1>5
<1>8. p + q \in Int
  BY <1>3, <1>5
<1>9. (Word * (p + q) + r) % Word = r
  BY <1>2, <1>5, <1>8
<1>. QED BY <1>5, <1>6, <1>7, <1>9 DEF y, r
-----------------------------------------------------------------------------
(* Where the reader stands.                                                *)

\* The reader exists and is in use.
Opened == pc \notin {"create", "done"}

\* What is true of the save before, between and after its readings.
Base ==
  /\ arc \in Archives
  /\ descriptor \in 1..arc.home
  /\ arc.version = 6 => descriptor = arc.home
  /\ pc = "create" => split = arc.split
  /\ pc \in {"create", "begin"} =>
       bytes_left = 0 /\ piece = 0 /\ written = 0 /\ pos = 0 /\ ~altered /\ ~garbled
  /\ pc # "done" => cause = "none"
  /\ pc \in {"read", "next"} => want > 0

\* The reader is in the volume it believes to be in, or it opened the next one,
\* found nothing of the file there and cannot go on.
InVolume ==
  /\ volume \in arc.home..Volumes
  /\ \/ file = volume
     \/ /\ file = volume + 1 /\ file \in arc.present /\ arc.part[file] = 0
        /\ pc = "read" /\ split /\ left = 0 /\ at = Foreign

\* The file pointer is in the part that lies in this volume and, if that fits the
\* counter and of a file known to be split, all of the part from there on is
\* still to be read.
InPart ==
  /\ pos <= PartEnd(arc, volume)
  /\ at # Foreign =>
       /\ pos <= at /\ at <= PartEnd(arc, file)
       /\ Narrow(arc) /\ ~garbled => at = pos
       /\ Narrow(arc) /\ split => at + left = PartEnd(arc, file)

\* A split file is known to be split in every volume that holds a part of it;
\* one that is not known to be split is read from its home volume.
SplitIsKnown ==
  /\ split => arc.part[volume] # 0
  /\ ~split => ~HomeSplit(arc)
  /\ Narrow(arc) /\ ~split /\ ~garbled /\ at # Foreign =>
       volume = arc.home /\ left + pos = arc.total

\* The next volume is opened when this one is exhausted.
Exhausted == pc = "next" => left = 0 /\ (~garbled => at # Foreign)

Place == Opened => InVolume /\ InPart /\ SplitIsKnown /\ Exhausted

Standing == TypeOK /\ Base /\ Place

LEMMA StandingInit == Init => Standing
<1>. SUFFICES ASSUME Init PROVE Standing
  OBVIOUS
<1>1. /\ arc.volume \in 1..Volumes /\ arc.home \in 1..Volumes /\ arc.split \in BOOLEAN
      /\ arc.total \in Nat \ {0}
  BY ArchiveFields DEF Init
<1>2. Volumes \in Nat /\ Word \in Nat \ {0}
  BY SizesAssumption
<1>3. arc \in ArchiveRecords /\ arc.volume <= arc.home /\ (arc.version = 6 => arc.volume = arc.home)
  BY ArchivesAssumption DEF Init, WellFormed
<1>4. TypeOK
  <2>1. /\ 0 \in 0..(Word - 1) /\ 0 \in 0..arc.total /\ 0 \in 0..Volumes /\ 0 \in 0..0
        /\ arc.volume \in 1..(Volumes + 1)
    BY <1>1, <1>2
  <2>. QED BY <1>1, <1>3, <2>1 DEF Init, TypeOK
<1>5. Base
  BY <1>1, <1>2, <1>3 DEF Init, Base
<1>. QED BY <1>4, <1>5 DEF Init, Standing, Place, Opened

\* What every step of a save may use.
LEMMA Here ==
  ASSUME Standing
  PROVE  /\ arc \in Archives /\ Volumes \in Nat \ {0} /\ Word \in Nat \ {0}
         /\ arc.home \in 1..Volumes /\ arc.total \in Nat \ {0}
         /\ arc.begin \in [1..Volumes -> Nat] /\ arc.part \in [1..Volumes -> Nat]
         /\ arc.compressed \in BOOLEAN /\ arc.split \in BOOLEAN
         /\ arc.version \in {0, 5, 6}
BY ArchiveFields, SizesAssumption DEF Standing, Base

\* Opening the home volume.
LEMMA OpenHome ==
  ASSUME Standing, pc = "create", OpenVolume(arc.home)
  PROVE  /\ file' = arc.home /\ volume' = arc.home /\ at' \in {Foreign, 0}
         /\ split' \in BOOLEAN /\ (split' <=> HomeSplit(arc))
         /\ left' \in 0..arc.total
         /\ Narrow(arc) =>
              /\ at' = 0
              /\ left' = IF split' THEN PartEnd(arc, arc.home) ELSE arc.total
<1>1. arc \in Archives /\ arc.home \in 1..Volumes /\ split = arc.split /\ split \in BOOLEAN
  BY Here DEF Standing, Base, TypeOK
<1>2. IsSplit(arc.home) <=> HomeSplit(arc)
  BY <1>1 DEF IsSplit, HomeSplit
<1>3. HomeSplit(arc) => arc.home \in arc.first \cup arc.last
  BY <1>1, Headers
<1>4. /\ arc.begin[arc.home] = 0 /\ arc.part[arc.home] \in 0..arc.total
      /\ arc.total \in Nat /\ arc.part[arc.home] \in Nat
  BY <1>1, Here, Parts
<1>5. PartEnd(arc, arc.home) = arc.part[arc.home]
  BY <1>4, Here DEF PartEnd
<1>6. IsSplit(arc.home) \in BOOLEAN
  BY <1>1 DEF IsSplit
<1>7. /\ arc.part[arc.home] % Word \in 0..arc.total
      /\ arc.total % Word \in 0..arc.total
  <2>1. /\ arc.part[arc.home] % Word \in 0..arc.part[arc.home]
        /\ arc.total % Word \in 0..arc.total
    BY <1>4, ModLe
  <2>. DEFINE m == arc.part[arc.home] % Word
  <2>2. m \in 0..arc.part[arc.home]
    BY <2>1
  <2>. HIDE DEF m
  <2>3. m \in 0..arc.total
    BY <1>4, <2>2
  <2>. QED BY <2>1, <2>3 DEF m
<1>8. /\ file' = arc.home /\ volume' = arc.home /\ split' = IsSplit(arc.home)
      /\ left' = (IF split' THEN arc.part[arc.home] ELSE arc.total) % Word
      /\ at' = SeekTo(arc.home, 0)
  BY <1>2, <1>3, <1>4 DEF OpenVolume
<1>9. Narrow(arc) => SeekTo(arc.home, 0) = 0
  BY DEF Narrow, SeekTo
<1>10. ASSUME Narrow(arc)
       PROVE  left' = IF split' THEN PartEnd(arc, arc.home) ELSE arc.total
  <2>1. arc.part[arc.home] % Word = arc.part[arc.home]
    BY <1>1, <1>4, <1>10, ModSmall DEF Narrow
  <2>2. ~split' => arc.total % Word = arc.total
    BY <1>1, <1>2, <1>4, <1>8, <1>10, ModSmall, UnsplitIsNarrow
  <2>. QED BY <1>5, <1>8, <2>1, <2>2
<1>11. left' \in 0..arc.total /\ at' \in {Foreign, 0}
  BY <1>7, <1>8 DEF SeekTo
<1>. QED BY <1>2, <1>6, <1>8, <1>9, <1>10, <1>11

\* Opening another volume, before the home volume is reached or after it.
LEMMA OpenOther ==
  ASSUME Standing, NEW v \in 1..Volumes, OpenVolume(v), v # arc.home
  PROVE  /\ file' = v /\ split' \in BOOLEAN /\ (split => split')
         /\ (split' /\ ~split => v \in arc.first \cup arc.last)
         /\ v < arc.home => split' = split
         /\ left' \in 0..arc.total /\ volume' \in {volume, v}
         /\ at' \in {Foreign} \cup 0..arc.total
         /\ \/ ~split' /\ at' = Foreign /\ volume' = v
            \/ /\ split' /\ v \in arc.first \cup arc.last
               /\ at' \in {Foreign, arc.begin[v]} /\ volume' = v
               /\ Narrow(arc) => left' = arc.part[v] /\ at' = arc.begin[v]
            \/ /\ split' /\ v \notin arc.first \cup arc.last
               /\ left' = left /\ at' = Foreign /\ volume' = volume
<1>1. /\ arc \in Archives /\ arc.home \in 1..Volumes /\ split \in BOOLEAN /\ left \in 0..arc.total
  BY Here DEF Standing, Base, TypeOK
<1>2. /\ arc.begin[v] \in 0..arc.total /\ arc.part[v] \in 0..arc.total
      /\ arc.total \in Nat /\ arc.part[v] \in Nat
  BY <1>1, Here, Parts
<1>3. v < arc.home => v \notin arc.first \cup arc.last
  BY <1>1, Headers
<1>4. IsSplit(v) \in BOOLEAN /\ (split => IsSplit(v))
      /\ (IsSplit(v) /\ ~split => v \in arc.first \cup arc.last)
  BY <1>1 DEF IsSplit
<1>5. /\ arc.part[v] % Word \in 0..arc.total
      /\ arc.total % Word \in 0..arc.total
  <2>1. /\ arc.part[v] % Word \in 0..arc.part[v]
        /\ arc.total % Word \in 0..arc.total
    BY <1>2, ModLe
  <2>. DEFINE m == arc.part[v] % Word
  <2>2. m \in 0..arc.part[v]
    BY <2>1
  <2>. HIDE DEF m
  <2>3. m \in 0..arc.total
    BY <1>2, <2>2
  <2>. QED BY <2>1, <2>3 DEF m
<1>6. SeekTo(v, Foreign) = Foreign /\ SeekTo(v, arc.begin[v]) \in {Foreign, arc.begin[v]}
  BY DEF SeekTo
<1>7. Narrow(arc) => arc.part[v] % Word = arc.part[v] /\ SeekTo(v, arc.begin[v]) = arc.begin[v]
  BY <1>2, ModSmall DEF Narrow, SeekTo
<1>8. file' = v /\ split' = IsSplit(v)
  BY DEF OpenVolume
<1>9. CASE ~IsSplit(v)
  <2>1. left' = arc.total % Word /\ at' = Foreign /\ volume' = v
    BY <1>6, <1>9 DEF OpenVolume
  <2>. QED BY <1>1, <1>3, <1>4, <1>5, <1>8, <1>9, <2>1
<1>10. CASE IsSplit(v) /\ v \in arc.first \cup arc.last
  <2>1. left' = arc.part[v] % Word /\ at' = SeekTo(v, arc.begin[v]) /\ volume' = v
    BY <1>10 DEF OpenVolume
  <2>. QED BY <1>1, <1>2, <1>3, <1>4, <1>5, <1>6, <1>7, <1>8, <1>10, <2>1
<1>11. CASE IsSplit(v) /\ v \notin arc.first \cup arc.last
  <2>1. left' = left /\ at' = Foreign /\ volume' = volume
    BY <1>11 DEF OpenVolume
  <2>. QED BY <1>1, <1>4, <1>8, <1>11, <2>1
<1>. QED BY <1>9, <1>10, <1>11
LEMMA StandingCreate ==
  ASSUME Standing, Create
  PROVE  Standing'
<1>. USE DEF Standing
<1>0. /\ arc \in Archives /\ arc.home \in 1..Volumes /\ Volumes \in Nat
      /\ descriptor \in 1..arc.home /\ arc.total \in Nat
  BY Here DEF Base
<1>1. /\ pc = "create" /\ arc' = arc /\ UNCHANGED << asked, size, want, bytes_left, piece >>
      /\ UNCHANGED << written, altered, pos, garbled >>
  BY DEF Create, requestVars, saveVars
<1>2. pos = 0 /\ ~garbled /\ split = arc.split /\ cause = "none"
  BY <1>1 DEF Base
<1>3. CASE descriptor \notin arc.present
  <2>1. pc' = "done" /\ cause' = "volume"
        /\ UNCHANGED << descriptor, split, volume, file, at, left >>
    BY <1>3 DEF Create, Fail, readerVars
  <2>2. TypeOK' /\ Base'
    BY <1>1, <2>1 DEF TypeOK, Base
  <2>. QED BY <2>1, <2>2 DEF Place, Opened
<1>4. CASE descriptor \in arc.present /\ descriptor # arc.home
  <2>1. descriptor < arc.home /\ descriptor \in 1..Volumes /\ descriptor + 1 \in 1..arc.home
    BY <1>0, <1>4
  <2>2. arc.version # 6 /\ arc.version <= 5 /\ descriptor \in arc.beyond
    <3>1. arc.beyond = 1..(arc.home - 1)
      BY <1>0, ArchivesAssumption DEF WellFormed
    <3>2. arc.version # 6 /\ arc.version \in {0, 5, 6}
      BY <1>4, Here DEF Base
    <3>. QED BY <1>0, <2>1, <3>1, <3>2
  <2>3. OpenVolume(descriptor) /\ descriptor' = descriptor + 1 /\ UNCHANGED << pc, cause >>
    BY <1>4, <2>2 DEF Create
  <2>4. /\ file' = descriptor /\ split' = split /\ left' \in 0..arc.total
        /\ volume' \in {volume, descriptor} /\ at' \in {Foreign} \cup 0..arc.total
    BY <1>4, <2>1, <2>3, OpenOther
  <2>5. TypeOK'
    <3>1. descriptor' \in 1..(Volumes + 1) /\ file' \in 0..Volumes /\ volume' \in 0..Volumes
      BY <1>0, <2>1, <2>3, <2>4 DEF TypeOK
    <3>. QED BY <1>1, <2>3, <2>4, <3>1 DEF TypeOK
  <2>6. Base'
    BY <1>1, <2>1, <2>2, <2>3, <2>4 DEF Base
  <2>. QED BY <1>1, <2>3, <2>5, <2>6 DEF Place, Opened
<1>5. CASE descriptor \in arc.present /\ descriptor = arc.home
  <2>1. descriptor \notin arc.beyond
    <3>1. arc.beyond = 1..(arc.home - 1)
      BY <1>0, ArchivesAssumption DEF WellFormed
    <3>. QED BY <1>0, <1>5, <3>1
  <2>2. OpenVolume(arc.home) /\ pc' = "begin" /\ UNCHANGED << descriptor, cause >>
    BY <1>5, <2>1 DEF Create
  <2>3. /\ file' = arc.home /\ volume' = arc.home /\ at' \in {Foreign, 0}
        /\ split' \in BOOLEAN /\ (split' <=> HomeSplit(arc))
        /\ left' \in 0..arc.total
        /\ Narrow(arc) =>
             /\ at' = 0
             /\ left' = IF split' THEN PartEnd(arc, arc.home) ELSE arc.total
    BY <1>1, <2>2, OpenHome
  <2>4. TypeOK'
    <3>1. /\ file' \in 0..Volumes /\ volume' \in 0..Volumes
          /\ at' \in {Foreign} \cup 0..arc.total
      BY <1>0, <2>3
    <3>. QED BY <1>1, <2>2, <2>3, <3>1 DEF TypeOK
  <2>5. Base'
    BY <1>1, <2>2, <2>3 DEF Base
  <2>6. PartEnd(arc, arc.home) \in Nat /\ arc.part[arc.home] # 0
    BY <1>0, Here, Parts, SMTT(30) DEF PartEnd
  <2>7. Place'
    <3>1. InVolume'
      BY <1>0, <1>1, <2>3 DEF InVolume
    <3>2. InPart'
      BY <1>0, <1>1, <1>2, <2>3, <2>6 DEF InPart, Foreign
    <3>3. SplitIsKnown'
      BY <1>0, <1>1, <1>2, <2>3, <2>6 DEF SplitIsKnown
    <3>. QED BY <2>2, <3>1, <3>2, <3>3 DEF Place, Exhausted
  <2>. QED BY <2>4, <2>5, <2>7
<1>. QED BY <1>3, <1>4, <1>5

\* Steps that leave the reader where it is.
LEMMA PlaceKept ==
  ASSUME Standing, Opened,
         UNCHANGED << arc, readerVars, pos, garbled >>, pc' # "next",
         file = volume
  PROVE  Place'
<1>1. /\ UNCHANGED << arc, split, volume, file, at, left, pos, garbled >>
  BY DEF readerVars
<1>2. InVolume /\ InPart /\ SplitIsKnown
  BY DEF Standing, Place
<1>3. InVolume' /\ InPart' /\ SplitIsKnown'
  BY <1>1, <1>2 DEF InVolume, InPart, SplitIsKnown
<1>. QED BY <1>3 DEF Place, Exhausted

LEMMA InOwnVolume ==
  ASSUME Standing, Opened, pc # "read"
  PROVE  file = volume
BY DEF Standing, Place, InVolume

LEMMA StandingBegin ==
  ASSUME Standing, Begin
  PROVE  Standing'
<1>. USE DEF Standing
<1>1. /\ UNCHANGED << arc, descriptor, split, volume, file, at, left, asked, size, want >>
      /\ UNCHANGED << piece, written, altered, pos, garbled >>
      /\ pc = "begin" /\ pc' \in {"done", "loop"} /\ bytes_left' \in {bytes_left, arc.total % Word}
      /\ pc' # "done" => cause' = cause
      /\ cause' \in {cause, "outside", "open"}
  BY DEF Begin, readerVars, requestVars, Fail
<1>2. TypeOK'
  <2>1. bytes_left' \in 0..(Word - 1)
    <3>1. arc.total \in Int
      BY Here
    <3>2. arc.total % Word \in 0..(Word - 1)
      BY <3>1, ModRange
    <3>. QED BY <1>1, <3>2 DEF TypeOK
  <2>2. cause' \in {"none", "volume", "outside", "open", "zero", "short", "size",
                "inflate", "write", "expanded", "md5"}
    BY <1>1 DEF TypeOK
  <2>. QED BY <1>1, <2>1, <2>2 DEF TypeOK
<1>3. Base'
  BY <1>1 DEF Base
<1>4. Place'
  BY <1>1, PlaceKept, InOwnVolume DEF Opened, readerVars
<1>. QED BY <1>2, <1>3, <1>4

LEMMA StandingAskNext ==
  ASSUME Standing, AskNext
  PROVE  Standing'
<1>. USE DEF Standing
<1>1. /\ UNCHANGED << arc, descriptor, split, volume, file, at, left, bytes_left, piece >>
      /\ UNCHANGED << written, altered, pos, garbled, cause >>
      /\ pc = "loop" /\ pc' = "read" /\ asked' \in {"header", "payload"}
      /\ size' = want' /\ size' \in {HeaderSize, Smaller(bytes_left, BUFFER_SIZE)}
      /\ bytes_left > 0
  BY DEF AskNext, Ask, readerVars, saveVars
<1>2. bytes_left \in Nat
  BY Here DEF TypeOK
<1>3. size' \in Nat /\ size' > 0
  BY <1>1, <1>2, SizesAssumption DEF HeaderSize, Smaller
<1>4. TypeOK'
  <2>1. want' \in 0..size'
    BY <1>1, <1>3
  <2>. QED BY <1>1, <1>3, <2>1 DEF TypeOK
<1>5. Base'
  BY <1>1, <1>3 DEF Base
<1>6. Place'
  BY <1>1, PlaceKept, InOwnVolume DEF Opened, readerVars
<1>. QED BY <1>4, <1>5, <1>6
\* What a reading delivers and leaves: n bytes more of the stream, or something
\* else.
LEMMA ReadHereFacts ==
  ASSUME Standing, ReadHere
  PROVE  \E n \in Nat \ {0} :
           /\ FreadStream(n) \/ FreadOther(n)
           /\ n <= want /\ n <= left /\ n \in {want, left}
           /\ want' = want - n /\ left' = left - n
           /\ want' \in 0..size /\ left' \in 0..arc.total
           /\ pc' = IF want' = 0 THEN asked ELSE "next"
           /\ pc = "read" /\ file = volume
           /\ UNCHANGED << arc, descriptor, split, volume, file, asked, size, bytes_left >>
           /\ UNCHANGED << piece, written, altered, cause >>
<1>1. want \in Nat /\ left \in Nat /\ want \in 0..size /\ left \in 0..arc.total /\ size \in Nat
      /\ arc.total \in Nat
  BY Here DEF Standing, TypeOK
<1>2. PICK n \in Nat \ {0} : n = Smaller(want, left)
  BY <1>1 DEF ReadHere, Smaller
<1>3. n <= want /\ n <= left /\ n \in {want, left}
  BY <1>1, <1>2 DEF Smaller
<1>4. /\ FreadStream(n) \/ FreadOther(n)
      /\ want' = want - n /\ left' = left - n
      /\ pc' = IF want' = 0 THEN asked ELSE "next"
      /\ pc = "read"
      /\ UNCHANGED << arc, descriptor, split, volume, file, asked, size, bytes_left >>
      /\ UNCHANGED << piece, written, altered, cause >>
  BY <1>2 DEF ReadHere, saveVars
<1>5. want' \in 0..size /\ left' \in 0..arc.total
  BY <1>1, <1>3, <1>4
<1>6. file = volume
  BY <1>1, <1>3, <1>4 DEF Standing, Place, Opened, InVolume
<1>. QED BY <1>3, <1>4, <1>5, <1>6

\* Bounds of the volume the reader is in.
LEMMA PlaceBounds ==
  ASSUME Standing, Opened
  PROVE  /\ volume \in 1..Volumes /\ file \in 1..Volumes
         /\ volume >= arc.home /\ file >= arc.home
         /\ PartEnd(arc, volume) \in 0..arc.total
         /\ PartEnd(arc, file) \in 0..arc.total
         /\ at # Foreign => at \in 0..arc.total
         /\ pos \in Nat /\ left \in Nat /\ want \in Nat /\ size \in Nat
<1>1. /\ arc \in Archives /\ Volumes \in Nat /\ arc.home \in 1..Volumes /\ arc.total \in Nat
      /\ arc.begin \in [1..Volumes -> Nat] /\ arc.part \in [1..Volumes -> Nat]
  BY Here
<1>2. volume \in arc.home..Volumes /\ (file = volume \/ (file = volume + 1 /\ file \in arc.present))
  BY DEF Standing, Place, InVolume
<1>3. arc.present \in SUBSET (1..Volumes)
  BY <1>1, ArchiveFields
<1>4. /\ volume \in 1..Volumes /\ file \in 1..Volumes /\ volume >= arc.home /\ file >= arc.home
      /\ file \in arc.home..Volumes
  BY <1>1, <1>2, <1>3, SMTT(30)
<1>5. /\ arc.begin[volume] \in Nat /\ arc.part[volume] \in Nat
      /\ arc.begin[file] \in Nat /\ arc.part[file] \in Nat
  BY <1>1, <1>4
<1>6. PartEnd(arc, volume) \in Nat /\ PartEnd(arc, file) \in Nat
  BY <1>5 DEF PartEnd
<1>7. PartEnd(arc, volume) <= arc.total /\ PartEnd(arc, file) <= arc.total
  BY <1>1, <1>2, <1>4, Parts
<1>8. /\ at # Foreign => at \in 0..arc.total
      /\ pos \in Nat /\ left \in Nat /\ want \in Nat /\ size \in Nat
  BY <1>1 DEF Standing, TypeOK
<1>. QED BY <1>1, <1>4, <1>6, <1>7, <1>8

LEMMA StandingReadHere ==
  ASSUME Standing, ReadHere
  PROVE  Standing'
<1>. USE DEF Standing
<1>1. PICK n \in Nat \ {0} :
           /\ FreadStream(n) \/ FreadOther(n)
           /\ n <= want /\ n <= left /\ n \in {want, left}
           /\ want' = want - n /\ left' = left - n
           /\ want' \in 0..size /\ left' \in 0..arc.total
           /\ pc' = IF want' = 0 THEN asked ELSE "next"
           /\ pc = "read" /\ file = volume
           /\ UNCHANGED << arc, descriptor, split, volume, file, asked, size, bytes_left >>
           /\ UNCHANGED << piece, written, altered, cause >>
  BY ReadHereFacts
<1>2. Opened /\ Place /\ Base /\ TypeOK
  BY <1>1 DEF Opened
<1>3. /\ PartEnd(arc, file) \in 0..arc.total
      /\ pos \in Nat /\ left \in Nat /\ want \in Nat /\ arc.total \in Nat
      /\ at # Foreign => at \in 0..arc.total
  BY <1>2, PlaceBounds, Here
<1>4. InVolume /\ InPart /\ SplitIsKnown
  BY <1>2 DEF Place
<1>5. want' # 0 => left' = 0
  BY <1>1, <1>3
<1>6. Base'
  <2>1. pc' \in {"header", "payload", "next"} /\ (pc' = "next" => want' > 0)
    BY <1>1, <1>2 DEF TypeOK
  <2>. QED BY <1>1, <2>1 DEF Base
<1>7. InVolume'
  BY <1>1, <1>4 DEF InVolume
<1>8. CASE FreadStream(n)
  <2>1. /\ at # Foreign /\ at \in 0..arc.total /\ at' = at + n /\ at' <= PartEnd(arc, file)
        /\ pos' = pos + n /\ garbled' = (garbled \/ at # pos)
        /\ pos <= at
    BY <1>3, <1>4, <1>8 DEF FreadStream, InPart, PartEnd
  <2>2. /\ at' \in 0..arc.total /\ pos' \in 0..arc.total /\ pos' <= at' /\ pos' <= PartEnd(arc, file)
        /\ at' # Foreign
    BY <1>3, <2>1 DEF Foreign
  <2>3. garbled' \in BOOLEAN
    BY <2>1 DEF TypeOK
  <2>4. TypeOK'
    <3>1. pc' \in {"header", "payload", "next"}
      BY <1>1, <1>2 DEF TypeOK
    <3>. QED BY <1>1, <2>2, <2>3, <3>1 DEF TypeOK
  <2>5. ~garbled' => ~garbled /\ at = pos /\ at' = pos'
    BY <2>1
  <2>6. Narrow(arc) /\ split => at' + left' = PartEnd(arc, file)
    <3>1. Narrow(arc) /\ split => at + left = PartEnd(arc, file)
      BY <1>4, <2>1 DEF InPart
    <3>. QED BY <1>1, <1>3, <2>1, <3>1
  <2>7. InPart'
    BY <1>1, <2>1, <2>2, <2>5, <2>6 DEF InPart
  <2>8. SplitIsKnown'
    <3>1. Narrow(arc) /\ ~split /\ ~garbled' => volume = arc.home /\ left' + pos' = arc.total
      <4>1. Narrow(arc) /\ ~split /\ ~garbled' => volume = arc.home /\ left + pos = arc.total
        BY <1>4, <2>1, <2>5 DEF SplitIsKnown
      <4>2. left' + pos' = left + pos
        BY <1>1, <1>3, <2>1
      <4>. QED BY <4>1, <4>2
    <3>. QED BY <1>1, <1>4, <3>1 DEF SplitIsKnown
  <2>9. Exhausted'
    BY <1>1, <1>5, <2>2, <2>4 DEF Exhausted, TypeOK
  <2>. QED BY <1>6, <1>7, <2>4, <2>7, <2>8, <2>9 DEF Place
<1>9. CASE FreadOther(n)
  <2>1. at' = Foreign /\ garbled' = TRUE /\ pos' = pos
    BY <1>9 DEF FreadOther
  <2>2. TypeOK'
    <3>1. pc' \in {"header", "payload", "next"}
      BY <1>1, <1>2 DEF TypeOK
    <3>. QED BY <1>1, <2>1, <3>1 DEF TypeOK
  <2>3. InPart' /\ SplitIsKnown'
    BY <1>1, <1>4, <2>1 DEF InPart, SplitIsKnown
  <2>4. Exhausted'
    BY <1>1, <1>5, <2>1, <2>2 DEF Exhausted, TypeOK
  <2>. QED BY <1>6, <1>7, <2>2, <2>3, <2>4 DEF Place
<1>. QED BY <1>1, <1>8, <1>9
\* Steps that end the save.
LEMMA StandingFails ==
  ASSUME Standing, UNCHANGED << arc, readerVars, requestVars, saveVars, pos, garbled >>,
         pc' = "done",
         cause' \in {"none", "volume", "zero", "short", "size", "inflate", "write",
                     "expanded", "md5"}
  PROVE  Standing'
<1>1. /\ UNCHANGED << arc, descriptor, split, volume, file, at, left, asked, size, want >>
      /\ UNCHANGED << bytes_left, piece, written, altered, pos, garbled >>
  BY DEF readerVars, requestVars, saveVars
<1>2. TypeOK' /\ Base'
  BY <1>1 DEF Standing, TypeOK, Base
<1>. QED BY <1>2 DEF Standing, Place, Opened

LEMMA StandingReadFails ==
  ASSUME Standing, ReadFails
  PROVE  Standing'
BY StandingFails DEF ReadFails, Fail

LEMMA StandingStoreFails ==
  ASSUME Standing, StoreFails
  PROVE  Standing'
BY StandingFails DEF StoreFails, Fail

LEMMA StandingVerify ==
  ASSUME Standing, Verify
  PROVE  Standing'
<1>1. pc = "loop" => cause = "none"
  BY DEF Standing, Base
<1>. QED BY <1>1, StandingFails DEF Verify, Fail

LEMMA StandingHeaderRead ==
  ASSUME Standing, HeaderRead
  PROVE  Standing'
<1>. USE DEF Standing
<1>1. PICK n \in SizesAt(piece + 1) :
        IF n = 0 THEN Fail("size") /\ UNCHANGED requestVars
                 ELSE Ask("payload", n) /\ UNCHANGED cause
  BY DEF HeaderRead
<1>2. pc = "header" /\ UNCHANGED << arc, readerVars, saveVars, pos, garbled >>
  BY DEF HeaderRead
<1>3. CASE n = 0
  BY <1>1, <1>2, <1>3, StandingFails DEF Fail
<1>4. CASE n # 0
  <2>1. n \in Nat
    <3>1. CASE garbled
      BY <3>1, SizesAssumption DEF SizesAt
    <3>2. CASE ~garbled
      <4>1. CASE piece + 1 <= Len(arc.chunks)
        <5>1. piece \in 0..Len(arc.chunks) /\ piece # Len(arc.chunks)
          <6>1. piece \in Nat /\ Len(arc.chunks) \in Nat
            <7>1. arc.chunks \in Seq(Chunks)
              BY ArchiveFields DEF Base
            <7>. QED BY <7>1, LenProperties DEF TypeOK
          <6>. QED BY <4>1, <6>1
        <5>2. arc.chunks[piece + 1].size \in Nat
          BY <5>1, ChunkPlaces, Here
        <5>. QED BY <3>2, <4>1, <5>2 DEF SizesAt
      <4>2. CASE ~(piece + 1 <= Len(arc.chunks))
        BY <3>2, <4>2 DEF SizesAt
      <4>. QED BY <4>1, <4>2
    <3>. QED BY <3>1, <3>2 DEF TypeOK
  <2>2. /\ UNCHANGED << arc, descriptor, split, volume, file, at, left, bytes_left, piece >>
        /\ UNCHANGED << written, altered, pos, garbled, cause >>
        /\ pc' = "read" /\ asked' = "payload" /\ size' = n /\ want' = n
    BY <1>1, <1>2, <1>4 DEF Ask, readerVars, saveVars
  <2>3. TypeOK'
    <3>1. n \in 0..n
      BY <2>1
    <3>. QED BY <2>1, <2>2, <3>1 DEF TypeOK
  <2>4. Base'
    BY <1>2, <1>4, <2>1, <2>2 DEF Base
  <2>5. Place'
    BY <1>2, <2>2, PlaceKept, InOwnVolume DEF Opened
  <2>. QED BY <2>3, <2>4, <2>5
<1>. QED BY <1>3, <1>4

\* What the data just read expand to.
LEMMA InflatedIsNat ==
  ASSUME Standing
  PROVE  \A n \in Inflated : n \in Nat
<1>1. arc \in Archives /\ size \in Nat /\ MaxYield \in Nat
  BY SizesAssumption DEF Standing, Base, TypeOK
<1>2. ASSUME NEW j \in DOMAIN arc.chunks
      PROVE  arc.chunks[j].yield \in Nat
  <2>1. arc.chunks \in Seq(Chunks)
    BY <1>1, ArchiveFields
  <2>2. arc.chunks[j] \in Chunks
    BY <2>1, ElementOfSeq, LenProperties
  <2>. QED BY <2>2 DEF Chunks
<1>. QED BY <1>1, <1>2 DEF Inflated

LEMMA StandingStorePiece ==
  ASSUME Standing, StorePiece
  PROVE  Standing'
<1>. USE DEF Standing
<1>1. /\ UNCHANGED << arc, descriptor, split, volume, file, at, left, asked, size, want >>
      /\ UNCHANGED << pos, garbled, cause >>
      /\ pc = "payload" /\ pc' = "loop"
      /\ bytes_left' =
           (bytes_left - (IF arc.compressed THEN HeaderSize + size ELSE size)) % Word
      /\ piece' = piece + 1
      /\ \E n \in Inflated : written' = written + n
      /\ altered' = (altered \/ IsAltered)
  BY DEF StorePiece, readerVars, requestVars
<1>2. size \in Nat /\ bytes_left \in Nat /\ piece \in Nat /\ written \in Nat /\ altered \in BOOLEAN
  BY Here DEF TypeOK
<1>3. bytes_left' \in 0..(Word - 1)
  <2>1. (IF arc.compressed THEN HeaderSize + size ELSE size) \in Nat
    BY <1>2 DEF HeaderSize
  <2>. DEFINE d == IF arc.compressed THEN HeaderSize + size ELSE size
  <2>2. bytes_left - d \in Int
    <3>. HIDE DEF d
    <3>1. d \in Nat
      BY <2>1 DEF d
    <3>. QED BY <1>2, <3>1
  <2>. QED BY <1>1, <2>2, ModRange
<1>4. piece' \in Nat /\ written' \in Nat /\ altered' \in BOOLEAN
  BY <1>1, <1>2, InflatedIsNat DEF IsAltered
<1>5. TypeOK'
  BY <1>1, <1>3, <1>4 DEF TypeOK
<1>6. Base'
  BY <1>1 DEF Base
<1>7. Place'
  BY <1>1, PlaceKept, InOwnVolume DEF Opened, readerVars
<1>. QED BY <1>5, <1>6, <1>7
\* When a volume is exhausted with part of the request still to come: in order,
\* the reader stands where the part in this volume ends, which is where the one
\* in the next volume begins.
LEMMA AtEndOfPart ==
  ASSUME Standing, pc = "next"
  PROVE  /\ file = volume /\ left = 0 /\ volume \in 1..Volumes /\ volume >= arc.home
         /\ pos <= PartEnd(arc, volume) /\ PartEnd(arc, volume) \in 0..arc.total
         /\ Narrow(arc) /\ ~garbled => pos = PartEnd(arc, volume)
         /\ Narrow(arc) /\ ~garbled /\ ~split => pos = arc.total
         /\ volume # Volumes => /\ volume + 1 \in 1..Volumes
                                /\ arc.begin[volume + 1] = PartEnd(arc, volume)
<1>1. Opened
  BY DEF Opened
<1>2. InPart /\ SplitIsKnown /\ Exhausted /\ file = volume
  BY <1>1, InOwnVolume DEF Standing, Place
<1>3. /\ volume \in 1..Volumes /\ volume >= arc.home /\ PartEnd(arc, volume) \in 0..arc.total
      /\ (at # Foreign => at \in 0..arc.total) /\ pos \in Nat
  BY <1>1, PlaceBounds
<1>4. /\ left = 0 /\ pos <= PartEnd(arc, volume) /\ (~garbled => at # Foreign)
      /\ Narrow(arc) /\ ~garbled => at = pos
  BY <1>2 DEF Exhausted, InPart
<1>5. Narrow(arc) /\ ~garbled /\ ~split => pos = arc.total
  BY <1>2, <1>3, <1>4 DEF SplitIsKnown
<1>6. Narrow(arc) /\ ~garbled => pos = PartEnd(arc, volume)
  <2>1. ASSUME Narrow(arc), ~garbled, split
        PROVE  pos = PartEnd(arc, volume)
    <3>1. at + left = PartEnd(arc, volume) /\ at = pos /\ left = 0
      BY <1>2, <1>4, <2>1 DEF InPart
    <3>. QED BY <1>3, <3>1
  <2>2. ASSUME Narrow(arc), ~garbled, ~split
        PROVE  pos = PartEnd(arc, volume)
    BY <1>3, <1>4, <1>5, <2>2, Here
  <2>. QED BY <2>1, <2>2
<1>7. ASSUME volume # Volumes
      PROVE  /\ volume + 1 \in 1..Volumes
             /\ arc.begin[volume + 1] = PartEnd(arc, volume)
  <2>1. volume + 1 \in 1..Volumes /\ volume + 1 > arc.home /\ (volume + 1) - 1 = volume
    BY <1>3, <1>7, Here
  <2>. QED BY <2>1, Here, Parts
<1>. QED BY <1>2, <1>3, <1>4, <1>5, <1>6, <1>7

LEMMA StandingNextVolume ==
  ASSUME Standing, NextVolume
  PROVE  Standing'
<1>. USE DEF Standing
<1>1. /\ pc = "next"
      /\ UNCHANGED << arc, descriptor, asked, size, want, bytes_left, piece, written >>
      /\ UNCHANGED << altered, pos, garbled >>
  BY DEF NextVolume, requestVars, saveVars
<1>2. CASE volume + 1 \notin arc.present
  BY <1>1, <1>2, StandingFails DEF NextVolume, Fail, readerVars, requestVars, saveVars
<1>3. CASE volume + 1 \in arc.present
  <2>. DEFINE w == volume + 1
  <2>1. OpenVolume(w) /\ pc' = "read" /\ cause' = cause
    BY <1>3 DEF NextVolume
  <2>2. /\ file = volume /\ left = 0 /\ volume \in 1..Volumes /\ volume >= arc.home
        /\ pos <= PartEnd(arc, volume) /\ PartEnd(arc, volume) \in 0..arc.total
        /\ Narrow(arc) /\ ~garbled => pos = PartEnd(arc, volume)
    BY <1>1, AtEndOfPart
  <2>3. w \in 1..Volumes /\ arc.begin[w] = PartEnd(arc, volume) /\ w > arc.home
        /\ volume \in arc.home..Volumes /\ w \in arc.home..Volumes
    <3>1. arc.present \in SUBSET (1..Volumes)
      BY Here, ArchiveFields
    <3>2. volume # Volumes
      BY <1>3, <2>2, <3>1, Here
    <3>. QED BY <1>1, <2>2, <3>2, Here, AtEndOfPart
  <2>4. /\ file' = w /\ split' \in BOOLEAN /\ (split => split')
        /\ (split' /\ ~split => w \in arc.first \cup arc.last)
        /\ left' \in 0..arc.total /\ volume' \in {volume, w}
        /\ at' \in {Foreign} \cup 0..arc.total
        /\ \/ ~split' /\ at' = Foreign /\ volume' = w
           \/ /\ split' /\ w \in arc.first \cup arc.last
              /\ at' \in {Foreign, arc.begin[w]} /\ volume' = w
              /\ Narrow(arc) => left' = arc.part[w] /\ at' = arc.begin[w]
           \/ /\ split' /\ w \notin arc.first \cup arc.last
              /\ left' = left /\ at' = Foreign /\ volume' = volume
    <3>1. w # arc.home
      BY <2>3, Here
    <3>. HIDE DEF w
    <3>. QED BY <2>1, <2>3, <3>1, OpenOther
  <2>5. /\ PartEnd(arc, w) \in 0..arc.total /\ arc.begin[w] <= PartEnd(arc, w)
        /\ PartEnd(arc, w) = arc.begin[w] + arc.part[w]
        /\ arc.begin[w] \in Nat /\ arc.part[w] \in Nat
    <3>. HIDE DEF w
    <3>1. PartEnd(arc, w) <= arc.total
      BY <2>3, Here, Parts
    <3>2. arc.begin[w] \in Nat /\ arc.part[w] \in Nat
      BY <2>3, Here
    <3>3. PartEnd(arc, w) = arc.begin[w] + arc.part[w]
      BY DEF PartEnd
    <3>. QED BY <3>1, <3>2, <3>3, Here
  <2>6. w \notin arc.first \cup arc.last => arc.part[w] = 0 /\ arc.begin[w] = arc.total
    <3>. HIDE DEF w
    <3>. QED BY <2>3, Here, Headers
  <2>7. w \in arc.first \cup arc.last => arc.part[w] # 0
    <3>. HIDE DEF w
    <3>. QED BY <2>3, Here, Headers
  <2>8. SplitIsKnown
    BY <1>1 DEF Place, Opened
  <2>9. pos \in Nat /\ split \in BOOLEAN
    BY Here DEF TypeOK
  <2>10. w = volume + 1
    OBVIOUS
  <2>. HIDE DEF w
  <2>11. TypeOK'
    <3>1. volume' \in 0..Volumes /\ file' \in 0..Volumes
      BY <2>2, <2>3, <2>4
    <3>. QED BY <1>1, <2>1, <2>4, <3>1 DEF TypeOK
  <2>12. Base'
    BY <1>1, <2>1 DEF Base
  <2>13. CASE ~split' /\ at' = Foreign /\ volume' = w
    <3>1. InVolume'
      BY <1>1, <2>3, <2>4, <2>13 DEF InVolume
    <3>2. InPart'
      BY <1>1, <2>2, <2>3, <2>4, <2>5, <2>9, <2>13, Here DEF InPart
    <3>3. SplitIsKnown'
      BY <1>1, <2>4, <2>8, <2>13 DEF SplitIsKnown
    <3>. QED BY <2>1, <2>11, <2>12, <3>1, <3>2, <3>3 DEF Place, Exhausted
  <2>14. CASE /\ split' /\ w \in arc.first \cup arc.last
              /\ at' \in {Foreign, arc.begin[w]} /\ volume' = w
              /\ Narrow(arc) => left' = arc.part[w] /\ at' = arc.begin[w]
    <3>1. InVolume'
      BY <1>1, <2>3, <2>4, <2>14 DEF InVolume
    <3>2. InPart'
      BY <1>1, <2>2, <2>3, <2>4, <2>5, <2>9, <2>14, Here, SMTT(30) DEF InPart, Foreign
    <3>3. SplitIsKnown'
      BY <1>1, <2>7, <2>14 DEF SplitIsKnown
    <3>. QED BY <2>1, <2>11, <2>12, <3>1, <3>2, <3>3 DEF Place, Exhausted
  <2>15. CASE /\ split' /\ w \notin arc.first \cup arc.last
              /\ left' = left /\ at' = Foreign /\ volume' = volume
    <3>1. split
      BY <2>4, <2>9, <2>15
    <3>2. InVolume'
      BY <1>1, <1>3, <2>1, <2>2, <2>3, <2>4, <2>6, <2>10, <2>15 DEF InVolume
    <3>3. InPart'
      BY <1>1, <2>2, <2>3, <2>6, <2>15 DEF InPart
    <3>4. SplitIsKnown'
      BY <1>1, <2>8, <2>15, <3>1 DEF SplitIsKnown
    <3>. QED BY <2>1, <2>11, <2>12, <3>2, <3>3, <3>4 DEF Place, Exhausted
  <2>. QED BY <2>4, <2>13, <2>14, <2>15
<1>. QED BY <1>2, <1>3

\* The reader is always where it should be.
LEMMA StandingHolds == Spec => []Standing
<1>1. Standing /\ [Next]_vars => Standing'
  <2>. SUFFICES ASSUME Standing, [Next]_vars
                PROVE  Standing'
    OBVIOUS
  <2>1. CASE UNCHANGED vars
    <3>1. /\ UNCHANGED << arc, pc, descriptor, split, volume, file, at, left, asked, size >>
          /\ UNCHANGED << want, bytes_left, piece, written, altered, pos, garbled, cause >>
      BY <2>1 DEF vars, readerVars, requestVars, saveVars
    <3>2. TypeOK' /\ Base'
      BY <3>1 DEF Standing, TypeOK, Base
    <3>3. Place'
      BY <3>1 DEF Standing, Place, Opened, InVolume, InPart, SplitIsKnown, Exhausted
    <3>. QED BY <3>2, <3>3 DEF Standing
  <2>. QED BY <2>1, StandingCreate, StandingBegin, StandingAskNext, StandingReadHere,
              StandingReadFails, StandingNextVolume, StandingHeaderRead,
              StandingStorePiece, StandingStoreFails, StandingVerify
           DEF Next, Step, Done
<1>. QED BY <1>1, StandingInit, PTL DEF Spec

\* The values the variables take.  (The widths of unshield_file_save's and the
\* reader's counters suffice.)
THEOREM TypeCorrect == Spec => []TypeOK
<1>1. Standing => TypeOK
  BY DEF Standing
<1>. QED BY <1>1, StandingHolds, PTL

\* As long as only the stream was delivered, and if what lies in each volume fits
\* the unsigned it is counted in, the file pointer is at the stream's next byte, in the volume the reader believes to be in, and volume_bytes_left is
\* what this volume's part of a split file still holds.
THEOREM ReaderAligned == Spec => []Aligned
<1>1. Standing => Aligned
  BY DEF Standing, Place, Opened, InVolume, InPart, PartEnd, Aligned
<1>. QED BY <1>1, StandingHolds, PTL
-----------------------------------------------------------------------------
(* The counters of the save loop.                                          *)

\* How much of the file the loop has handled.
Sofar == IF arc.compressed THEN ChunkEnds(arc)[piece] ELSE written

\* What the count will be told of the request under way.
Requested == IF arc.compressed /\ asked = "payload" THEN HeaderSize + size ELSE size

\* The loop of unshield_file_save was entered, and did not fail.
Saving == pc \in {"loop", "read", "next", "header", "payload"} \/ Saved

Requesting == pc \notin {"loop", "done"}

\* The count is what is left of the file, modulo its width; the place in the
\* stream agrees with what was handled and the request under way.
ByBytes ==
  /\ bytes_left = (arc.total - Sofar) % Word
  /\ ~Requesting => pos = Sofar
  /\ Requesting => bytes_left > 0 /\ pos + want = Sofar + Requested
  /\ pc \in {"header", "payload"} => want = 0 /\ asked = pc

\* A compressed file is read chunk by chunk, each with its header.
ByChunks ==
  /\ piece \in 0..Len(arc.chunks)
  /\ Requesting /\ asked = "header" => size = HeaderSize
  /\ Requesting /\ asked = "payload" =>
       piece # Len(arc.chunks) /\ size = arc.chunks[piece + 1].size

\* Any other file is written as it is read.
ByBuffers ==
  /\ written <= arc.total
  /\ Requesting => asked = "payload" /\ size <= bytes_left

Counted ==
  Saving /\ ~garbled =>
    ByBytes /\ (arc.compressed => ByChunks) /\ (~arc.compressed => ByBuffers)

\* Damaged chunks that can be inflated expand to what was packed into them.
TrueToSize(a) ==
  \A i \in DOMAIN a.chunks : a.chunks[i].state = "altered" => a.chunks[i].yield = 1

\* What is known of the chunks written: all good, or the MD5 will tell.
Stored ==
  /\ pc = "loop" \/ Saved => (garbled => altered)
  /\ arc.compressed /\ (~altered \/ (~garbled /\ TrueToSize(arc))) => written = piece
  /\ arc.compressed /\ ~altered =>
       \A i \in 1..piece : i <= Len(arc.chunks) /\ arc.chunks[i].state = "good"
  /\ altered => \/ garbled
                \/ \E i \in 1..Len(arc.chunks) : arc.chunks[i].state = "altered"
  /\ Saved => /\ bytes_left = 0 /\ written = ExpandedSize
              /\ arc.version >= 6 => ~altered

Counting == Standing /\ Counted /\ Stored

\* The numbers the arguments about the counters are made of.
LEMMA Numbers ==
  ASSUME Standing
  PROVE  /\ bytes_left \in Nat /\ pos \in 0..arc.total /\ want \in 0..size /\ size \in Nat
         /\ piece \in Nat /\ written \in Nat /\ Requested \in Nat
         /\ Len(arc.chunks) \in Nat /\ arc.total \in Nat /\ HeaderSize = 2
         /\ garbled \in BOOLEAN /\ altered \in BOOLEAN
         /\ asked \in {"header", "payload"}
<1>1. /\ bytes_left \in 0..(Word - 1) /\ pos \in 0..arc.total /\ want \in 0..size /\ size \in Nat
      /\ piece \in Nat /\ written \in Nat /\ garbled \in BOOLEAN /\ altered \in BOOLEAN
      /\ asked \in {"header", "payload"}
  BY DEF Standing, TypeOK
<1>2. Word \in Nat \ {0} /\ arc.total \in Nat /\ arc \in Archives
  BY Here
<1>3. bytes_left \in Nat
  BY <1>1, <1>2
<1>4. Len(arc.chunks) \in Nat
  <2>1. arc.chunks \in Seq(Chunks)
    BY <1>2, ArchiveFields
  <2>. QED BY <2>1, LenProperties
<1>5. Requested \in Nat
  BY <1>1 DEF Requested, HeaderSize
<1>. QED BY <1>1, <1>2, <1>3, <1>4, <1>5 DEF HeaderSize

\* As long as only the stream was delivered, what was handled is a number.
LEMMA SofarIsNat ==
  ASSUME Standing, arc.compressed => ByChunks
  PROVE  Sofar \in Nat
<1>1. CASE arc.compressed
  BY <1>1, ChunkPlaces, Here DEF Sofar, ByChunks
<1>2. CASE ~arc.compressed
  BY <1>2, Numbers DEF Sofar
<1>. QED BY <1>1, <1>2

LEMMA CountingInit == Init => Counting
<1>. SUFFICES ASSUME Init PROVE Counting
  OBVIOUS
<1>1. Standing
  BY StandingInit
<1>2. Counted
  BY DEF Init, Counted, Saving, Saved
<1>3. Stored
  <2>1. ~Saved /\ pc # "loop" /\ written = piece /\ 1..piece = {} /\ ~altered
    BY DEF Init, Saved
  <2>. QED BY <2>1 DEF Stored
<1>. QED BY <1>1, <1>2, <1>3 DEF Counting

\* Before the loop, and after a failure, nothing is claimed.
LEMMA CountedNotSaving ==
  ASSUME ~Saving'
  PROVE  Counted'
BY DEF Counted

\* Steps that write nothing keep what is stored.
LEMMA StoredKept ==
  ASSUME Stored, UNCHANGED << arc, piece, written, altered >>,
         garbled => garbled',
         pc' # "loop", ~Saved'
  PROVE  Stored'
BY DEF Stored

LEMMA CountingCreate ==
  ASSUME Counting, Create
  PROVE  Counting'
<1>1. pc' \in {"done", "create", "begin"} /\ (pc' = "done" => cause' # "none")
  BY DEF Create, Fail
<1>2. ~Saving' /\ ~Saved' /\ pc' # "loop"
  BY <1>1 DEF Saving, Saved
<1>3. Stored'
  BY <1>2, StoredKept DEF Counting, Create, saveVars
<1>. QED BY <1>2, <1>3, CountedNotSaving, StandingCreate DEF Counting

LEMMA CountingBegin ==
  ASSUME Counting, Begin
  PROVE  Counting'
<1>0. Standing /\ Stored /\ Standing'
  BY StandingBegin DEF Counting
<1>1. /\ UNCHANGED << arc, piece, written, altered, pos, garbled >>
      /\ pc = "begin" /\ ~garbled /\ pos = 0 /\ piece = 0 /\ written = 0 /\ ~altered
  BY <1>0 DEF Begin, Standing, Base
<1>2. CASE pc' = "loop"
  <2>1. bytes_left' = arc.total % Word /\ pc' = "loop" /\ ~Requesting' /\ ~Saved'
    BY <1>2 DEF Begin, Requesting, Fail, Saved
  <2>3. 0 \in 0..Len(arc.chunks) /\ ChunkEnds(arc)[0] = 0 /\ arc.total - 0 = arc.total
    BY <1>0, Numbers, Here, ChunkEndsDef
  <2>2. Sofar' = 0
    BY <1>1, <2>3 DEF Sofar
  <2>4. ByBytes'
    BY <1>1, <2>1, <2>2, <2>3 DEF ByBytes
  <2>5. ByChunks'
    BY <1>1, <2>1, <2>2, <2>3 DEF ByChunks
  <2>6. ByBuffers'
    BY <1>0, <1>1, <2>1, Numbers DEF ByBuffers
  <2>7. Stored'
    BY <1>0, <1>1, <2>1 DEF Stored
  <2>. QED BY <1>0, <2>4, <2>5, <2>6, <2>7 DEF Counting, Counted
<1>3. CASE pc' # "loop"
  <2>1. pc' = "done" /\ cause' # "none"
    BY <1>3 DEF Begin, Fail
  <2>2. ~Saving' /\ ~Saved'
    BY <2>1 DEF Saving, Saved
  <2>. QED BY <1>0, <1>1, <1>3, <2>2, CountedNotSaving, StoredKept DEF Counting
<1>. QED BY <1>2, <1>3

LEMMA CountingAskNext ==
  ASSUME Counting, AskNext
  PROVE  Counting'
<1>0. Standing /\ Counted /\ Stored /\ Standing'
  BY StandingAskNext DEF Counting
<1>1. /\ UNCHANGED << arc, bytes_left, piece, written, altered, pos, garbled, cause >>
      /\ pc = "loop" /\ pc' = "read" /\ want' = size' /\ bytes_left > 0
      /\ IF arc.compressed
         THEN asked' = "header" /\ size' = HeaderSize
         ELSE asked' = "payload" /\ size' = Smaller(bytes_left, BUFFER_SIZE)
  BY DEF AskNext, Ask, saveVars
<1>2. Saving /\ ~Requesting /\ Requesting' /\ ~Saved' /\ pc' # "loop"
  BY <1>1 DEF Saving, Requesting, Saved
<1>3. Sofar' = Sofar
  BY <1>1 DEF Sofar
<1>4. Requested' = size'
  BY <1>1 DEF Requested
<1>5. ASSUME ~garbled
      PROVE  ByBytes' /\ (arc.compressed => ByChunks') /\ (~arc.compressed => ByBuffers')
  <2>1. /\ ByBytes /\ (arc.compressed => ByChunks) /\ (~arc.compressed => ByBuffers)
    BY <1>0, <1>2, <1>5 DEF Counted
  <2>2. ByBytes'
    BY <1>1, <1>2, <1>3, <1>4, <2>1 DEF ByBytes
  <2>3. arc.compressed => ByChunks'
    BY <1>1, <1>2, <1>3, <2>1 DEF ByChunks
  <2>4. ~arc.compressed => ByBuffers'
    <3>1. Smaller(bytes_left, BUFFER_SIZE) <= bytes_left
      BY <1>0, Numbers, SizesAssumption DEF Smaller
    <3>. QED BY <1>1, <1>2, <1>3, <2>1, <3>1 DEF ByBuffers
  <2>. QED BY <2>2, <2>3, <2>4
<1>6. Counted'
  BY <1>1, <1>5 DEF Counted
<1>7. Stored'
  BY <1>0, <1>1, <1>2, StoredKept
<1>. QED BY <1>0, <1>6, <1>7 DEF Counting
\* Steps that end the save with an error.
LEMMA CountingFails ==
  ASSUME Counting, Standing', UNCHANGED << arc, piece, written, altered, garbled >>,
         pc' = "done", cause' # "none"
  PROVE  Counting'
<1>1. ~Saving' /\ ~Saved'
  BY DEF Saving, Saved
<1>. QED BY <1>1, CountedNotSaving, StoredKept DEF Counting

LEMMA CountingReadFails ==
  ASSUME Counting, ReadFails
  PROVE  Counting'
<1>1. Standing'
  BY StandingReadFails DEF Counting
<1>. QED BY <1>1, CountingFails DEF ReadFails, Fail, saveVars

LEMMA CountingStoreFails ==
  ASSUME Counting, StoreFails
  PROVE  Counting'
<1>1. Standing'
  BY StandingStoreFails DEF Counting
<1>. QED BY <1>1, CountingFails DEF StoreFails, Fail, saveVars

LEMMA CountingReadHere ==
  ASSUME Counting, ReadHere
  PROVE  Counting'
<1>0. Standing /\ Counted /\ Stored /\ Standing'
  BY StandingReadHere DEF Counting
<1>1. PICK n \in Nat \ {0} :
           /\ FreadStream(n) \/ FreadOther(n)
           /\ n <= want /\ n <= left /\ n \in {want, left}
           /\ want' = want - n /\ left' = left - n
           /\ want' \in 0..size /\ left' \in 0..arc.total
           /\ pc' = IF want' = 0 THEN asked ELSE "next"
           /\ pc = "read" /\ file = volume
           /\ UNCHANGED << arc, descriptor, split, volume, file, asked, size, bytes_left >>
           /\ UNCHANGED << piece, written, altered, cause >>
  BY <1>0, ReadHereFacts
<1>2. pc' \in {"header", "payload", "next"} /\ (pc' # "next" => want' = 0 /\ asked = pc')
  BY <1>0, <1>1, Numbers
<1>3. Saving /\ Requesting /\ Requesting' /\ ~Saved' /\ pc' # "loop"
  BY <1>1, <1>2 DEF Saving, Requesting, Saved
<1>4. Sofar' = Sofar /\ Requested' = Requested
  BY <1>1 DEF Sofar, Requested
<1>5. garbled => garbled'
  BY <1>1 DEF FreadStream, FreadOther
<1>6. ASSUME ~garbled'
      PROVE  ByBytes' /\ (arc.compressed => ByChunks') /\ (~arc.compressed => ByBuffers')
  <2>1. ByBytes /\ (arc.compressed => ByChunks) /\ (~arc.compressed => ByBuffers)
    BY <1>0, <1>3, <1>5, <1>6 DEF Counted
  <2>2. pos' = pos + n
    BY <1>1, <1>6 DEF FreadStream, FreadOther
  <2>3. pos' + want' = pos + want
    BY <1>0, <1>1, <2>2, Numbers
  <2>4. ByBytes'
    BY <1>1, <1>2, <1>3, <1>4, <2>1, <2>3 DEF ByBytes
  <2>5. arc.compressed => ByChunks'
    BY <1>1, <1>3, <1>4, <2>1 DEF ByChunks
  <2>6. ~arc.compressed => ByBuffers'
    BY <1>1, <1>3, <1>4, <2>1 DEF ByBuffers
  <2>. QED BY <2>4, <2>5, <2>6
<1>7. Counted'
  BY <1>1, <1>6 DEF Counted
<1>8. Stored'
  BY <1>0, <1>1, <1>3, <1>5, StoredKept
<1>. QED BY <1>0, <1>7, <1>8 DEF Counting

LEMMA CountingNextVolume ==
  ASSUME Counting, NextVolume
  PROVE  Counting'
<1>0. Standing /\ Counted /\ Stored /\ Standing'
  BY StandingNextVolume DEF Counting
<1>1. /\ UNCHANGED << arc, asked, size, want, bytes_left, piece, written, altered, pos, garbled >>
      /\ pc = "next"
  BY DEF NextVolume, requestVars, saveVars
<1>2. CASE volume + 1 \notin arc.present
  BY <1>0, <1>1, <1>2, CountingFails DEF NextVolume, Fail
<1>3. CASE volume + 1 \in arc.present
  <2>1. pc' = "read" /\ cause' = cause
    BY <1>3 DEF NextVolume
  <2>2. Saving /\ Requesting /\ Requesting' /\ ~Saved' /\ pc' # "loop"
    BY <1>1, <2>1 DEF Saving, Requesting, Saved
  <2>3. Sofar' = Sofar /\ Requested' = Requested
    BY <1>1 DEF Sofar, Requested
  <2>4. Counted'
    BY <1>0, <1>1, <2>1, <2>2, <2>3 DEF Counted, ByBytes, ByChunks, ByBuffers
  <2>. QED BY <1>0, <1>1, <2>2, <2>4, StoredKept DEF Counting
<1>. QED BY <1>2, <1>3

LEMMA CountingHeaderRead ==
  ASSUME Counting, HeaderRead
  PROVE  Counting'
<1>0. Standing /\ Counted /\ Stored /\ Standing'
  BY StandingHeaderRead DEF Counting
<1>1. PICK n \in SizesAt(piece + 1) :
        IF n = 0 THEN Fail("size") /\ UNCHANGED requestVars
                 ELSE Ask("payload", n) /\ UNCHANGED cause
  BY DEF HeaderRead
<1>2. /\ UNCHANGED << arc, bytes_left, piece, written, altered, pos, garbled >>
      /\ pc = "header"
  BY DEF HeaderRead, saveVars
<1>3. CASE n = 0
  BY <1>0, <1>1, <1>2, <1>3, CountingFails DEF Fail
<1>4. CASE n # 0
  <2>1. pc' = "read" /\ asked' = "payload" /\ size' = n /\ want' = n
    BY <1>1, <1>4 DEF Ask
  <2>2. Saving /\ Requesting /\ Requesting' /\ ~Saved' /\ pc' # "loop"
    BY <1>2, <2>1 DEF Saving, Requesting, Saved
  <2>3. ASSUME ~garbled
        PROVE  ByBytes' /\ ByChunks' /\ arc.compressed
    <3>1. ByBytes /\ (arc.compressed => ByChunks) /\ (~arc.compressed => ByBuffers)
      BY <1>0, <2>2, <2>3 DEF Counted
    <3>2. asked = "header" /\ want = 0 /\ bytes_left > 0 /\ pos + want = Sofar + Requested
      BY <1>2, <2>2, <3>1 DEF ByBytes
    <3>3. arc.compressed /\ ByChunks /\ Requested = HeaderSize
      BY <2>2, <3>1, <3>2 DEF ByBuffers, ByChunks, Requested
    <3>4. piece \in 0..Len(arc.chunks)
      BY <3>3 DEF ByChunks
    <3>5. piece # Len(arc.chunks) /\ n = arc.chunks[piece + 1].size
      <4>1. CASE piece + 1 <= Len(arc.chunks)
        BY <1>0, <2>3, <4>1, Numbers DEF SizesAt
      <4>2. CASE ~(piece + 1 <= Len(arc.chunks))
        BY <1>4, <2>3, <4>2 DEF SizesAt
      <4>. QED BY <4>1, <4>2
    <3>6. n \in Nat
      BY <1>0, <3>4, <3>5, ChunkPlaces, Here
    <3>7. Sofar' = Sofar /\ Requested' = HeaderSize + n
      BY <1>2, <2>1, <3>3 DEF Sofar, Requested
    <3>8. pos' + want' = Sofar' + Requested'
      <4>1. Sofar \in Nat /\ pos \in Nat
        BY <1>0, <3>3, SofarIsNat, Numbers
      <4>. QED BY <1>2, <2>1, <3>2, <3>3, <3>6, <3>7, <4>1 DEF HeaderSize
    <3>9. ByBytes'
      BY <1>2, <2>1, <2>2, <3>1, <3>2, <3>7, <3>8 DEF ByBytes
    <3>10. ByChunks'
      BY <1>2, <2>1, <2>2, <3>3, <3>5, <3>7 DEF ByChunks
    <3>. QED BY <3>3, <3>9, <3>10
  <2>4. Counted'
    BY <1>2, <2>3 DEF Counted
  <2>. QED BY <1>0, <1>2, <2>2, <2>4, StoredKept DEF Counting
<1>. QED BY <1>3, <1>4
\* What was read in order is the next chunk.
LEMMA NextChunk ==
  ASSUME Standing, arc.compressed, ~garbled, NEW m \in Inflated
  PROVE  /\ piece + 1 \in DOMAIN arc.chunks /\ piece < Len(arc.chunks)
         /\ arc.chunks[piece + 1].state # "bad" /\ m = arc.chunks[piece + 1].yield
<1>1. PICK j \in DOMAIN arc.chunks :
        j = piece + 1 /\ arc.chunks[j].state # "bad" /\ m = arc.chunks[j].yield
  BY DEF Inflated
<1>2. DOMAIN arc.chunks = 1..Len(arc.chunks)
  BY Here, ArchiveFields, LenProperties
<1>3. piece \in Nat /\ Len(arc.chunks) \in Nat
  BY Numbers
<1>4. piece < Len(arc.chunks)
  BY <1>1, <1>2, <1>3
<1>. QED BY <1>1, <1>4

LEMMA CountingStorePiece ==
  ASSUME Counting, StorePiece
  PROVE  Counting'
<1>0. Standing /\ Counted /\ Stored /\ Standing'
  BY StandingStorePiece DEF Counting
<1>1. /\ UNCHANGED << arc, asked, size, want, pos, garbled, cause >>
      /\ pc = "payload" /\ pc' = "loop"
      /\ bytes_left' =
           (bytes_left - (IF arc.compressed THEN HeaderSize + size ELSE size)) % Word
      /\ piece' = piece + 1
      /\ altered' = (altered \/ IsAltered)
  BY DEF StorePiece, requestVars
<1>a. PICK m \in Inflated : written' = written + m
  BY DEF StorePiece
<1>2. Saving /\ Requesting /\ ~Requesting' /\ ~Saved'
  BY <1>1 DEF Saving, Requesting, Saved
<1>3. ASSUME ~garbled
      PROVE  ByBytes' /\ (arc.compressed => ByChunks') /\ (~arc.compressed => ByBuffers')
  <2>1. ByBytes /\ (arc.compressed => ByChunks) /\ (~arc.compressed => ByBuffers)
    BY <1>0, <1>2, <1>3 DEF Counted
  <2>2. /\ want = 0 /\ asked = "payload" /\ pos + want = Sofar + Requested
        /\ bytes_left = (arc.total - Sofar) % Word
    BY <1>1, <1>2, <2>1 DEF ByBytes
  <2>3. Requested = IF arc.compressed THEN HeaderSize + size ELSE size
    BY <2>2 DEF Requested
  <2>4. Sofar \in Nat /\ Requested \in Nat /\ arc.total \in Nat /\ pos \in 0..arc.total
    BY <1>0, <2>1, SofarIsNat, Numbers
  <2>5. pos = Sofar + Requested
    BY <2>2, <2>4
  <2>6. Sofar' = Sofar + Requested
    <3>1. ASSUME arc.compressed
          PROVE  Sofar' = Sofar + Requested
      <4>1. piece \in 0..Len(arc.chunks) /\ piece # Len(arc.chunks) /\ size = arc.chunks[piece + 1].size
        BY <1>2, <2>1, <2>2, <3>1 DEF ByChunks
      <4>2. ChunkEnds(arc)[piece + 1] = ChunkEnds(arc)[piece] + HeaderSize + size
        BY <1>0, <4>1, ChunkPlaces, Here
      <4>3. \A x, s \in Nat : x + (HeaderSize + s) = x + HeaderSize + s
        BY DEF HeaderSize
      <4>4. Sofar = ChunkEnds(arc)[piece] /\ Sofar' = ChunkEnds(arc)[piece + 1]
        BY <1>1, <3>1 DEF Sofar
      <4>5. size \in Nat /\ Requested = HeaderSize + size
        BY <1>0, <2>3, <3>1, Numbers
      <4>. QED BY <2>4, <4>2, <4>3, <4>4, <4>5
    <3>2. ASSUME ~arc.compressed
          PROVE  Sofar' = Sofar + Requested
      BY <1>1, <1>a, <2>3, <3>2 DEF Sofar, Inflated
    <3>. QED BY <3>1, <3>2
  <2>7. bytes_left' = (arc.total - Sofar') % Word
    <3>1. bytes_left' = (bytes_left - Requested) % Word
      BY <1>1, <2>3
    <3>2. arc.total - Sofar \in Int /\ Requested \in Int
      BY <2>4
    <3>3. bytes_left' = ((arc.total - Sofar) - Requested) % Word
      BY <2>2, <3>1, <3>2, ModSub, Zenon
    <3>4. (arc.total - Sofar) - Requested = arc.total - Sofar'
      BY <2>4, <2>6
    <3>. QED BY <3>3, <3>4
  <2>8. ByBytes'
    BY <1>1, <1>2, <2>5, <2>6, <2>7 DEF ByBytes
  <2>9. ASSUME arc.compressed
        PROVE  ByChunks'
    <3>1. piece \in 0..Len(arc.chunks) /\ piece # Len(arc.chunks)
      BY <1>2, <2>1, <2>2, <2>9 DEF ByChunks
    <3>2. piece + 1 \in 0..Len(arc.chunks)
      BY <1>0, <3>1, Numbers
    <3>. QED BY <1>1, <1>2, <3>2 DEF ByChunks
  <2>10. ASSUME ~arc.compressed
         PROVE  ByBuffers'
    <3>1. written' = Sofar' /\ Sofar' <= arc.total
      BY <1>1, <2>4, <2>5, <2>6, <2>10 DEF Sofar
    <3>. QED BY <1>1, <1>2, <3>1 DEF ByBuffers
  <2>. QED BY <2>8, <2>9, <2>10
<1>4. Counted'
  BY <1>1, <1>3 DEF Counted
<1>5. garbled => altered'
  BY <1>1 DEF IsAltered
<1>6. ASSUME arc.compressed, ~altered'
      PROVE  \A i \in 1..piece' : i <= Len(arc.chunks) /\ arc.chunks[i].state = "good"
  <2>1. ~altered /\ ~garbled /\ \A i \in 1..piece : i <= Len(arc.chunks) /\ arc.chunks[i].state = "good"
    BY <1>0, <1>1, <1>6 DEF Stored, IsAltered
  <2>2. piece < Len(arc.chunks) /\ arc.chunks[piece + 1].state # "bad"
    BY <1>0, <1>6, <2>1, NextChunk, <1>a
  <2>3. arc.chunks[piece + 1].state # "altered"
    BY <1>1, <1>6, <2>2 DEF IsAltered
  <2>4. piece \in 0..Len(arc.chunks) /\ piece # Len(arc.chunks)
    BY <1>0, <2>2, Numbers
  <2>5. arc.chunks[piece + 1].state \in ChunkStates /\ piece + 1 <= Len(arc.chunks)
    BY <1>0, <2>4, ChunkPlaces, Here
  <2>6. \A i \in 1..(piece + 1) : i \in 1..piece \/ i = piece + 1
    BY <1>0, Numbers
  <2>. QED BY <1>1, <2>1, <2>2, <2>3, <2>5, <2>6 DEF ChunkStates
<1>7. altered' => garbled \/ \E i \in 1..Len(arc.chunks) : arc.chunks[i].state = "altered"
  <2>1. ASSUME IsAltered, ~garbled
        PROVE  \E i \in 1..Len(arc.chunks) : arc.chunks[i].state = "altered"
    <3>1. piece < Len(arc.chunks) /\ arc.chunks[piece + 1].state = "altered"
      BY <2>1 DEF IsAltered
    <3>2. piece + 1 \in 1..Len(arc.chunks)
      BY <1>0, <3>1, Numbers
    <3>. QED BY <3>1, <3>2
  <2>. QED BY <1>0, <1>1, <2>1 DEF Stored
<1>8. ASSUME arc.compressed, ~altered' \/ (~garbled' /\ TrueToSize(arc))
      PROVE  written' = piece'
  <2>1. written = piece /\ ~garbled
    BY <1>0, <1>1, <1>5, <1>8 DEF Stored
  <2>2. /\ piece + 1 \in DOMAIN arc.chunks /\ piece < Len(arc.chunks)
        /\ arc.chunks[piece + 1].state # "bad" /\ m = arc.chunks[piece + 1].yield
    BY <1>0, <1>a, <1>8, <2>1, NextChunk
  <2>3. arc.chunks[piece + 1].state \in {"good", "altered"}
    <3>1. piece \in 0..Len(arc.chunks) /\ piece # Len(arc.chunks)
      BY <1>0, <2>2, Numbers
    <3>2. arc.chunks[piece + 1].state \in ChunkStates
      BY <1>0, <3>1, ChunkPlaces, Here
    <3>. QED BY <2>2, <3>2 DEF ChunkStates
  <2>4. m = 1
    <3>1. CASE arc.chunks[piece + 1].state = "good"
      BY <1>0, <2>2, <3>1, GoodChunks, Here
    <3>2. CASE arc.chunks[piece + 1].state = "altered"
      <4>1. IsAltered
        BY <1>8, <2>2, <3>2 DEF IsAltered
      <4>2. TrueToSize(arc)
        BY <1>1, <1>8, <4>1
      <4>. QED BY <2>2, <3>2, <4>2 DEF TrueToSize
    <3>. QED BY <2>3, <3>1, <3>2
  <2>. QED BY <1>1, <1>a, <2>1, <2>4
<1>9. Stored'
  BY <1>1, <1>2, <1>5, <1>6, <1>7, <1>8 DEF Stored
<1>. QED BY <1>0, <1>4, <1>9 DEF Counting

LEMMA CountingVerify ==
  ASSUME Counting, Verify
  PROVE  Counting'
<1>0. Standing /\ Counted /\ Stored /\ Standing'
  BY StandingVerify DEF Counting
<1>1. /\ UNCHANGED << arc, bytes_left, piece, written, altered, pos, garbled, asked, size, want >>
      /\ pc = "loop" /\ bytes_left = 0 /\ pc' = "done"
  BY DEF Verify, requestVars, saveVars, Fail
<1>2. CASE cause' # "none"
  BY <1>0, <1>1, <1>2, CountingFails
<1>3. CASE cause' = "none"
  <2>1. written = ExpandedSize /\ ~(arc.version >= 6 /\ altered)
    BY <1>3 DEF Verify, Fail
  <2>2. Saved' /\ ~Requesting /\ ~Requesting' /\ Saving
    BY <1>1, <1>3 DEF Saved, Requesting, Saving
  <2>3. Sofar' = Sofar /\ ExpandedSize' = ExpandedSize
    BY <1>1 DEF Sofar, ExpandedSize
  <2>4. Counted'
    BY <1>0, <1>1, <2>2, <2>3 DEF Counted, ByBytes, ByChunks, ByBuffers
  <2>5. Stored'
    BY <1>0, <1>1, <2>1, <2>2, <2>3 DEF Stored
  <2>. QED BY <1>0, <2>4, <2>5 DEF Counting
<1>. QED BY <1>2, <1>3

LEMMA CountingStutter ==
  ASSUME Counting, UNCHANGED vars
  PROVE  Counting'
<1>1. /\ UNCHANGED << arc, pc, descriptor, split, volume, file, at, left, asked, size >>
      /\ UNCHANGED << want, bytes_left, piece, written, altered, pos, garbled, cause >>
  BY DEF vars, readerVars, requestVars, saveVars
<1>2. TypeOK' /\ Base' /\ Place'
  BY <1>1 DEF Counting, Standing, TypeOK, Base, Place, Opened, InVolume, InPart,
              SplitIsKnown, Exhausted
<1>3. Counted'
  BY <1>1 DEF Counting, Counted, Saving, Saved, Requesting, ByBytes, ByChunks, ByBuffers,
              Sofar, Requested
<1>4. Stored'
  BY <1>1 DEF Counting, Stored, Saved, ExpandedSize
<1>. QED BY <1>2, <1>3, <1>4 DEF Counting, Standing
-----------------------------------------------------------------------------
(* Files whose chunk headers add up, and whose parts fit the counters.     *)

\* Nothing but the stream is delivered, the reader is in the volume it believes
\* to be in, and only a request that has just begun may find it exhausted.
InOrder ==
  Regular(arc) =>
    /\ ~garbled
    /\ pc = "read" /\ want < size => left > 0
    /\ Opened => file = volume /\ at # Foreign

Orderly == Counting /\ InOrder /\ CauseIsReal

\* Of a file whose chunk headers add up, no more is requested than there is.
LEMMA Fits ==
  ASSUME Counting, Consistent(arc), ~garbled, pc \in {"read", "next", "header"}
  PROVE  /\ pos + want <= arc.total
         /\ arc.compressed => piece \in 0..Len(arc.chunks) /\ piece # Len(arc.chunks)
<1>0. Standing /\ Counted
  BY DEF Counting
<1>1. Saving /\ Requesting
  BY DEF Saving, Requesting
<1>2. ByBytes /\ (arc.compressed => ByChunks) /\ (~arc.compressed => ByBuffers)
  BY <1>0, <1>1 DEF Counted
<1>3. /\ bytes_left > 0 /\ pos + want = Sofar + Requested
      /\ bytes_left = (arc.total - Sofar) % Word
  BY <1>1, <1>2 DEF ByBytes
<1>4. Sofar # arc.total /\ Sofar \in Nat /\ arc.total \in Nat /\ Requested \in Nat
  <2>1. Sofar \in Nat /\ arc.total \in Nat /\ Requested \in Nat /\ Word \in Nat \ {0}
    BY <1>0, <1>2, SofarIsNat, Numbers, Here
  <2>2. Sofar = arc.total => arc.total - Sofar = 0
    BY <2>1
  <2>3. 0 % Word = 0
    BY <2>1, ModSmall
  <2>4. bytes_left \in Nat /\ bytes_left # 0
    BY <1>0, <1>3, Numbers
  <2>. QED BY <1>3, <2>1, <2>2, <2>3, <2>4
<1>5. CASE arc.compressed
  <2>1. piece \in 0..Len(arc.chunks) /\ Sofar = ChunkEnds(arc)[piece] /\ Total(arc) = arc.total
    BY <1>2, <1>5 DEF ByChunks, Consistent, Sofar
  <2>2. piece # Len(arc.chunks)
    BY <1>4, <2>1 DEF Total
  <2>3. /\ arc.chunks[piece + 1].size \in Nat
        /\ ChunkEnds(arc)[piece + 1] = Sofar + HeaderSize + arc.chunks[piece + 1].size
        /\ ChunkEnds(arc)[piece + 1] <= arc.total
    BY <1>0, <2>1, <2>2, ChunkPlaces, Here
  <2>4. Requested = HeaderSize \/ Requested = HeaderSize + arc.chunks[piece + 1].size
    BY <1>0, <1>1, <1>2, <1>5, Numbers DEF ByChunks, Requested
  <2>5. \A x, t \in Int, s, r \in Nat :
          x + HeaderSize + s <= t /\ (r = HeaderSize \/ r = HeaderSize + s) => x + r <= t
    BY DEF HeaderSize
  <2>6. Sofar + Requested <= arc.total
    <3>. DEFINE s == arc.chunks[piece + 1].size
    <3>1. s \in Nat /\ Requested \in Nat /\ Sofar \in Int /\ arc.total \in Int
      BY <1>4, <2>3
    <3>2. Sofar + HeaderSize + s <= arc.total
      BY <2>3
    <3>3. Requested = HeaderSize \/ Requested = HeaderSize + s
      BY <2>4
    <3>. HIDE DEF s
    <3>. QED BY <2>5, <3>1, <3>2, <3>3
  <2>. QED BY <1>3, <2>1, <2>2, <2>6
<1>6. CASE ~arc.compressed
  <2>1. Requested = size /\ size <= bytes_left /\ Sofar <= arc.total
    BY <1>1, <1>2, <1>6 DEF ByBuffers, Requested, Sofar
  <2>2. arc.total - Sofar \in Nat
    BY <1>4, <2>1
  <2>. DEFINE d == arc.total - Sofar
  <2>3. d % Word \in 0..d
    BY <2>2, ModLe
  <2>4. bytes_left \in 0..d
    BY <1>3, <2>3
  <2>5. Sofar + size <= arc.total
    BY <1>0, <1>4, <2>1, <2>2, <2>4, Numbers
  <2>. QED BY <1>3, <1>6, <2>1, <2>5
<1>. QED BY <1>5, <1>6, Here, <1>0

\* What is read of a volume lies in its part of the file, unless the file is
\* continued and the home volume did not give it away.
LEMMA WithinPart ==
  ASSUME Standing, Narrow(arc), pc = "read", ~garbled, file = volume, at # Foreign,
         NEW n \in Nat, n <= left, at + n > PartEnd(arc, file)
  PROVE  /\ ~split /\ ~HomeSplit(arc) /\ volume = arc.home
         /\ arc.part[arc.home] # arc.total /\ arc.home \in arc.last
<1>1. Opened
  BY DEF Opened
<1>2. InPart /\ SplitIsKnown
  BY <1>1 DEF Standing, Place
<1>3. /\ PartEnd(arc, file) \in 0..arc.total /\ at \in 0..arc.total /\ left \in Nat
      /\ pos \in Nat /\ arc.total \in Nat
  BY <1>1, PlaceBounds, Here
<1>4. ~split
  <2>1. SUFFICES ASSUME split PROVE FALSE
    OBVIOUS
  <2>2. at + left = PartEnd(arc, file)
    BY <1>2, <2>1 DEF InPart
  <2>. QED BY <1>3, <2>2
<1>5. ~HomeSplit(arc) /\ volume = arc.home /\ left + pos = arc.total
  BY <1>2, <1>4 DEF SplitIsKnown
<1>6. at = pos
  BY <1>2 DEF InPart
<1>7. PartEnd(arc, arc.home) < arc.total
  BY <1>3, <1>5, <1>6
<1>8. PartEnd(arc, arc.home) = arc.part[arc.home]
  <2>1. arc.begin[arc.home] = 0 /\ arc.part[arc.home] \in Nat
    BY Here, Parts
  <2>. QED BY <2>1 DEF PartEnd
<1>9. arc.part[arc.home] # arc.total
  BY <1>3, <1>5, <1>7, <1>8
<1>. QED BY <1>4, <1>5, <1>9, Headers, Here

\* No error, no reason needed.
LEMMA NoCause ==
  ASSUME cause' = "none"
  PROVE  CauseIsReal'
BY DEF CauseIsReal

LEMMA OrderlyInit == Init => Orderly
<1>1. Init => InOrder /\ CauseIsReal
  BY DEF Init, InOrder, CauseIsReal, Opened
<1>. QED BY <1>1, CountingInit DEF Orderly

LEMMA OrderlyCreate ==
  ASSUME Orderly, Create
  PROVE  Orderly'
<1>0. Standing /\ Counting'
  BY CountingCreate DEF Orderly, Counting
<1>1. pc = "create" /\ UNCHANGED << arc, garbled >> /\ cause = "none" /\ ~garbled
  BY <1>0 DEF Create, Standing, Base
<1>2. CASE descriptor \notin arc.present
  <2>1. pc' = "done" /\ cause' = "volume"
    BY <1>2 DEF Create, Fail
  <2>2. arc.present # 1..Volumes
    BY <1>0, <1>2, Here DEF Standing, Base
  <2>. QED BY <1>0, <1>1, <2>1, <2>2 DEF Orderly, InOrder, CauseIsReal, Opened
<1>3. CASE descriptor \in arc.present
  <2>1. cause' = "none" /\ pc' \in {"create", "begin"}
    BY <1>1, <1>3 DEF Create
  <2>2. ASSUME pc' = "begin", Regular(arc)
        PROVE  file' = volume' /\ at' # Foreign
    <3>1. descriptor \in 1..arc.home /\ (arc.version = 6 => descriptor = arc.home)
          /\ arc.version \in {0, 5, 6} /\ arc.beyond = 1..(arc.home - 1) /\ arc.home \in 1..Volumes
          /\ Volumes \in Nat
      BY <1>0, Here, ArchivesAssumption DEF Standing, Base, WellFormed
    <3>2. ~(arc.version <= 5 /\ descriptor \in arc.beyond)
      BY <1>1, <1>3, <2>2 DEF Create
    <3>3. descriptor = arc.home
      BY <3>1, <3>2
    <3>4. OpenVolume(arc.home)
      BY <1>3, <3>3 DEF Create
    <3>. QED BY <1>0, <1>1, <2>2, <3>4, OpenHome DEF Foreign, Regular
  <2>3. InOrder'
    BY <1>1, <2>1, <2>2 DEF InOrder, Opened
  <2>. QED BY <1>0, <2>1, <2>3, NoCause DEF Orderly
<1>. QED BY <1>2, <1>3

LEMMA OrderlyBegin ==
  ASSUME Orderly, Begin
  PROVE  Orderly'
<1>0. Standing /\ Counting' /\ InOrder
  BY CountingBegin DEF Orderly, Counting
<1>1. /\ pc = "begin" /\ cause = "none" /\ pc' \in {"done", "loop"}
      /\ UNCHANGED << arc, file, volume, at, garbled >>
      /\ cause' \in {"none", "outside", "open"} /\ (cause' = "outside" => arc.outside)
  BY <1>0 DEF Begin, Standing, Base, Fail, readerVars
<1>2. InOrder'
  BY <1>0, <1>1 DEF InOrder, Opened
<1>3. CauseIsReal'
  BY <1>1 DEF CauseIsReal
<1>. QED BY <1>0, <1>2, <1>3 DEF Orderly

LEMMA OrderlyAskNext ==
  ASSUME Orderly, AskNext
  PROVE  Orderly'
<1>0. Standing /\ Standing' /\ Counting' /\ InOrder
  BY CountingAskNext DEF Orderly, Counting
<1>1. /\ pc = "loop" /\ cause' = "none" /\ pc' = "read" /\ want' = size'
      /\ UNCHANGED << arc, file, volume, at, garbled >>
  BY <1>0 DEF AskNext, Ask, Standing, Base, readerVars
<1>2. size' \in Nat
  BY <1>0 DEF Standing, TypeOK
<1>3. InOrder'
  BY <1>0, <1>1, <1>2 DEF InOrder, Opened
<1>. QED BY <1>0, <1>1, <1>3, NoCause DEF Orderly
LEMMA OrderlyReadHere ==
  ASSUME Orderly, ReadHere
  PROVE  Orderly'
<1>0. Standing /\ Counting' /\ InOrder /\ Base
  BY CountingReadHere DEF Orderly, Counting, Standing
<1>1. PICK n \in Nat \ {0} :
           /\ FreadStream(n) \/ FreadOther(n)
           /\ n <= want /\ n <= left /\ n \in {want, left}
           /\ want' = want - n /\ left' = left - n
           /\ want' \in 0..size /\ left' \in 0..arc.total
           /\ pc' = IF want' = 0 THEN asked ELSE "next"
           /\ pc = "read" /\ file = volume
           /\ UNCHANGED << arc, descriptor, split, volume, file, asked, size, bytes_left >>
           /\ UNCHANGED << piece, written, altered, cause >>
  BY <1>0, ReadHereFacts
<1>2. pc' # "read" /\ cause' = "none"
  BY <1>0, <1>1, Numbers DEF Base
<1>3. ASSUME Regular(arc)
      PROVE  ~garbled' /\ at' # Foreign
  <2>1. ~garbled /\ at # Foreign /\ Opened /\ Narrow(arc)
    BY <1>0, <1>1, <1>3 DEF InOrder, Opened, Regular
  <2>2. at \in 0..arc.total /\ at = pos
    BY <1>0, <2>1, PlaceBounds DEF Standing, Place, InPart
  <2>3. CASE FreadStream(n)
    <3>1. at' = at + n /\ garbled' = (garbled \/ at # pos)
      BY <2>3 DEF FreadStream
    <3>2. at + n \in Nat
      BY <1>0, <2>2, Here
    <3>3. ~garbled'
      BY <2>1, <2>2, <3>1
    <3>4. at' # Foreign
      BY <3>1, <3>2 DEF Foreign
    <3>. QED BY <3>3, <3>4
  <2>4. CASE FreadOther(n)
    <3>1. at + n > PartEnd(arc, file) /\ file \notin arc.last
      BY <2>1, <2>4 DEF FreadOther, PartEnd
    <3>. QED BY <1>0, <1>1, <2>1, <3>1, WithinPart
  <2>. QED BY <1>1, <2>3, <2>4
<1>4. InOrder'
  BY <1>1, <1>2, <1>3 DEF InOrder
<1>. QED BY <1>0, <1>2, <1>4, NoCause DEF Orderly

LEMMA OrderlyReadFails ==
  ASSUME Orderly, ReadFails
  PROVE  Orderly'
<1>0. Counting /\ Standing /\ Counting' /\ InOrder
  BY CountingReadFails DEF Orderly, Counting
<1>1. /\ pc = "read" /\ pc' = "done" /\ cause' \in {"zero", "short"}
      /\ UNCHANGED << arc, want, size, pos, garbled >>
      /\ cause' = "zero" => Smaller(want, left) = 0
      /\ cause' = "short" => Smaller(want, left) # 0 /\ FreadShort(Smaller(want, left))
  BY DEF ReadFails, Fail, requestVars
<1>2. InOrder'
  BY <1>0, <1>1 DEF InOrder, Opened
<1>3. ASSUME Regular(arc)
      PROVE  CauseIsReal'
  <2>1. /\ Opened /\ ~garbled /\ file = volume /\ at # Foreign /\ (want < size => left > 0)
        /\ Consistent(arc) /\ Narrow(arc)
    BY <1>0, <1>1, <1>3 DEF InOrder, Opened, Regular
  <2>2. InPart /\ SplitIsKnown
    BY <1>0, <2>1 DEF Standing, Place
  <2>3. /\ want \in 0..size /\ size \in Nat /\ left \in Nat /\ want > 0 /\ pos \in Nat
        /\ arc.total \in Nat /\ pos + want <= arc.total
        /\ volume \in 1..Volumes /\ at \in 0..arc.total
    BY <1>0, <1>1, <1>3, <2>1, Fits, Numbers, PlaceBounds DEF Standing, Base
  <2>4. pos < arc.total /\ at = pos
    BY <2>1, <2>2, <2>3 DEF InPart
  <2>5. ASSUME cause' = "zero"
        PROVE  AtSeam' /\ want' = size' /\ pos' < arc'.total
    <3>1. left = 0 /\ want = size
      BY <1>1, <2>1, <2>3, <2>5 DEF Smaller
    <3>2. split
      BY <2>1, <2>2, <2>3, <2>4, <3>1 DEF SplitIsKnown
    <3>3. at + left = PartEnd(arc, volume) /\ arc.part[volume] # 0
      BY <2>1, <2>2, <3>2 DEF InPart, SplitIsKnown
    <3>4. pos = PartEnd(arc, volume)
      BY <2>3, <2>4, <3>1, <3>3
    <3>. QED BY <1>1, <2>3, <2>4, <3>1, <3>3, <3>4 DEF AtSeam, PartEnd
  <2>6. ASSUME cause' = "short"
        PROVE  UndetectedSplit(arc)
    <3>. DEFINE n == Smaller(want, left)
    <3>1. n \in Nat /\ n <= left
      BY <2>3 DEF Smaller
    <3>2. at + n > PartEnd(arc, file)
      BY <1>1, <2>1, <2>6 DEF FreadShort, PartEnd
    <3>. HIDE DEF n
    <3>3. /\ ~HomeSplit(arc) /\ arc.part[arc.home] # arc.total /\ arc.home \in arc.last
      BY <1>0, <1>1, <2>1, <3>1, <3>2, WithinPart
    <3>4. arc.version \in {0, 5, 6} /\ (arc.version = 6 /\ arc.part[arc.home] # arc.total => arc.split)
      BY <1>0, Here, ArchivesAssumption DEF WellFormed
    <3>. QED BY <3>3, <3>4 DEF HomeSplit, UndetectedSplit
  <2>. QED BY <1>1, <2>5, <2>6 DEF CauseIsReal
<1>4. CauseIsReal'
  BY <1>1, <1>3 DEF CauseIsReal
<1>. QED BY <1>0, <1>2, <1>4 DEF Orderly

LEMMA OrderlyNextVolume ==
  ASSUME Orderly, NextVolume
  PROVE  Orderly'
<1>0. Counting /\ Standing /\ Counting' /\ InOrder /\ Base
  BY CountingNextVolume DEF Orderly, Counting, Standing
<1>1. pc = "next" /\ UNCHANGED << arc, garbled, want, size, pos >> /\ cause = "none"
  BY <1>0 DEF NextVolume, requestVars, Base
<1>2. ASSUME Regular(arc)
      PROVE  /\ ~garbled /\ split /\ pos < arc.total /\ pos = PartEnd(arc, volume)
             /\ volume + 1 \in 1..Volumes /\ volume + 1 > arc.home
             /\ arc.begin[volume + 1] = pos /\ volume + 1 \in arc.first \cup arc.last
  <2>1. ~garbled /\ want > 0 /\ pos + want <= arc.total /\ Narrow(arc)
    BY <1>0, <1>1, <1>2, Fits DEF InOrder, Base, Regular
  <2>2. pos < arc.total /\ pos # arc.total
    BY <1>0, <2>1, Numbers
  <2>3. /\ pos = PartEnd(arc, volume) /\ (~split => pos = arc.total)
        /\ volume \in 1..Volumes /\ volume >= arc.home
    BY <1>0, <1>1, <2>1, AtEndOfPart
  <2>4. volume # Volumes
    BY <1>0, <2>2, <2>3, Here, Parts
  <2>5. /\ volume + 1 \in 1..Volumes /\ arc.begin[volume + 1] = pos
        /\ volume + 1 > arc.home
    BY <1>0, <1>1, <2>3, <2>4, AtEndOfPart, Here
  <2>6. arc.part[volume + 1] # 0
    BY <1>0, <2>2, <2>5, Here, Headers
  <2>7. volume + 1 \in arc.first \cup arc.last
    BY <1>0, <2>5, <2>6, Here, Headers
  <2>. QED BY <2>1, <2>2, <2>3, <2>5, <2>7
<1>3. CASE volume + 1 \notin arc.present
  <2>1. pc' = "done" /\ cause' = "volume"
    BY <1>3 DEF NextVolume, Fail
  <2>2. Regular(arc) => arc.present # 1..Volumes
    BY <1>2, <1>3
  <2>. QED BY <1>0, <1>1, <2>1, <2>2 DEF Orderly, InOrder, CauseIsReal, Opened
<1>4. CASE volume + 1 \in arc.present
  <2>1. OpenVolume(volume + 1) /\ pc' = "read" /\ cause' = "none"
    BY <1>1, <1>4 DEF NextVolume
  <2>2. ASSUME Regular(arc)
        PROVE  file' = volume' /\ at' # Foreign /\ left' > 0
    <3>. DEFINE w == volume + 1
    <3>1. /\ w \in 1..Volumes /\ w > arc.home /\ w \in arc.first \cup arc.last /\ split
          /\ arc.begin[w] = pos
      BY <1>2, <2>2
    <3>2. OpenVolume(w)
      BY <2>1
    <3>. HIDE DEF w
    <3>3. w # arc.home /\ Narrow(arc)
      BY <1>0, <2>2, <3>1, Here DEF Regular
    <3>4. file' = w /\ volume' = w /\ left' = arc.part[w] /\ at' = arc.begin[w]
      BY <1>0, <3>1, <3>2, <3>3, OpenOther
    <3>5. arc.part[w] \in Nat /\ arc.part[w] # 0 /\ arc.begin[w] \in Nat
      BY <1>0, <3>1, Here, Headers
    <3>. QED BY <3>4, <3>5 DEF Foreign
  <2>3. InOrder'
    BY <1>0, <1>1, <2>2 DEF InOrder
  <2>. QED BY <1>0, <2>1, <2>3, NoCause DEF Orderly
<1>. QED BY <1>3, <1>4
LEMMA OrderlyHeaderRead ==
  ASSUME Orderly, HeaderRead
  PROVE  Orderly'
<1>0. Counting /\ Standing /\ Counting' /\ InOrder /\ Base
  BY CountingHeaderRead DEF Orderly, Counting, Standing
<1>1. PICK n \in SizesAt(piece + 1) :
        IF n = 0 THEN Fail("size") /\ UNCHANGED requestVars
                 ELSE Ask("payload", n) /\ UNCHANGED cause
  BY DEF HeaderRead
<1>2. pc = "header" /\ UNCHANGED << arc, file, volume, at, garbled >> /\ cause = "none"
  BY <1>0 DEF HeaderRead, readerVars, Base
<1>3. ASSUME Regular(arc)
      PROVE  n # 0 /\ n \in Nat /\ ~garbled /\ file = volume /\ at # Foreign
  <2>1. ~garbled /\ file = volume /\ at # Foreign
    BY <1>0, <1>2, <1>3 DEF InOrder, Opened
  <2>2. arc.compressed
    <3>1. Saving /\ Requesting
      BY <1>2 DEF Saving, Requesting
    <3>2. ByBytes /\ (~arc.compressed => ByBuffers)
      BY <1>0, <2>1, <3>1 DEF Counting, Counted
    <3>. QED BY <1>0, <1>2, <3>1, <3>2, Here DEF ByBytes, ByBuffers
  <2>3. piece \in 0..Len(arc.chunks) /\ piece # Len(arc.chunks)
    BY <1>0, <1>2, <1>3, <2>1, <2>2, Fits DEF Regular
  <2>4. arc.chunks[piece + 1].size \in Nat \ {0} /\ piece + 1 <= Len(arc.chunks)
    BY <1>0, <2>3, ChunkPlaces, Here
  <2>5. n = arc.chunks[piece + 1].size
    BY <1>1, <2>1, <2>4 DEF SizesAt
  <2>. QED BY <2>1, <2>4, <2>5
<1>4. CASE n = 0
  <2>1. ~Regular(arc) /\ pc' = "done"
    BY <1>1, <1>3, <1>4 DEF Fail
  <2>. QED BY <1>0, <1>2, <2>1 DEF Orderly, InOrder, CauseIsReal
<1>5. CASE n # 0
  <2>1. pc' = "read" /\ size' = n /\ want' = n /\ cause' = "none"
    BY <1>1, <1>2, <1>5 DEF Ask
  <2>2. InOrder'
    BY <1>2, <1>3, <2>1 DEF InOrder
  <2>. QED BY <1>0, <2>1, <2>2, NoCause DEF Orderly
<1>. QED BY <1>4, <1>5

LEMMA OrderlyStorePiece ==
  ASSUME Orderly, StorePiece
  PROVE  Orderly'
<1>0. Standing /\ Counting' /\ InOrder
  BY CountingStorePiece DEF Orderly, Counting
<1>1. /\ pc = "payload" /\ pc' = "loop" /\ cause' = "none"
      /\ UNCHANGED << arc, file, volume, at, garbled >>
  BY <1>0 DEF StorePiece, Standing, Base, readerVars
<1>2. InOrder'
  BY <1>0, <1>1 DEF InOrder, Opened
<1>. QED BY <1>0, <1>1, <1>2, NoCause DEF Orderly

LEMMA OrderlyStoreFails ==
  ASSUME Orderly, StoreFails
  PROVE  Orderly'
<1>0. Standing /\ Counting' /\ InOrder
  BY CountingStoreFails DEF Orderly, Counting
<1>1. /\ pc = "payload" /\ pc' = "done" /\ cause' \in {"inflate", "write"}
      /\ UNCHANGED << arc, garbled >>
      /\ cause' = "inflate" => InflateFails
  BY DEF StoreFails, Fail
<1>2. InOrder'
  BY <1>0, <1>1 DEF InOrder, Opened
<1>3. ASSUME Regular(arc), cause' = "inflate"
      PROVE  \E i \in DOMAIN arc.chunks : arc.chunks[i].state = "bad"
  <2>1. piece < Len(arc.chunks) /\ arc.chunks[piece + 1].state = "bad"
    BY <1>0, <1>1, <1>3 DEF InOrder, InflateFails
  <2>2. piece \in 0..Len(arc.chunks) /\ piece # Len(arc.chunks)
    BY <1>0, <2>1, Numbers
  <2>3. piece + 1 \in DOMAIN arc.chunks
    BY <1>0, <2>2, ChunkPlaces, Here
  <2>. QED BY <2>1, <2>3
<1>4. CauseIsReal'
  BY <1>1, <1>3 DEF CauseIsReal
<1>. QED BY <1>0, <1>2, <1>4 DEF Orderly

\* The counter reached zero: everything was handled, if it has the width for it.
LEMMA AllHandled ==
  ASSUME Standing, ByBytes, ~Requesting, bytes_left = 0, arc.total < Word
  PROVE  Sofar = arc.total
<1>1. pos = Sofar /\ (arc.total - Sofar) % Word = 0
  BY DEF ByBytes
<1>2. pos \in 0..arc.total /\ arc.total \in Nat
  BY Numbers
<1>3. arc.total - pos \in Nat /\ arc.total - pos < Word
  BY <1>2, Here
<1>4. (arc.total - pos) % Word = arc.total - pos
  BY <1>3, ModSmall
<1>5. arc.total - pos = 0
  BY <1>1, <1>4
<1>. QED BY <1>1, <1>2, <1>5

LEMMA OrderlyVerify ==
  ASSUME Orderly, Verify
  PROVE  Orderly'
<1>0. Standing /\ Counted /\ Stored /\ Counting' /\ InOrder /\ Base
  BY CountingVerify DEF Orderly, Counting, Standing
<1>1. /\ pc = "loop" /\ pc' = "done" /\ cause' \in {"none", "expanded", "md5"}
      /\ UNCHANGED << arc, garbled, piece, written, altered >> /\ bytes_left = 0
      /\ cause' = "expanded" => written # ExpandedSize
      /\ cause' = "md5" => altered
  BY <1>0 DEF Verify, Fail, Base, saveVars
<1>2. InOrder'
  BY <1>0, <1>1 DEF InOrder, Opened
<1>3. ASSUME Regular(arc)
      PROVE  /\ written # ExpandedSize =>
                  \/ arc.total >= Word
                  \/ \E i \in DOMAIN arc.chunks :
                       arc.chunks[i].state = "altered" /\ arc.chunks[i].yield # 1
             /\ altered => \E i \in DOMAIN arc.chunks : arc.chunks[i].state = "altered"
  <2>1. ~garbled /\ Saving /\ ~Requesting
    BY <1>0, <1>1, <1>3 DEF InOrder, Saving, Requesting
  <2>2. ByBytes /\ (arc.compressed => ByChunks) /\ (~arc.compressed => ByBuffers)
    BY <1>0, <2>1 DEF Counted
  <2>3. ASSUME arc.total < Word, TrueToSize(arc)
        PROVE  written = ExpandedSize
    <3>1. Sofar = arc.total
      BY <1>0, <1>1, <2>1, <2>2, <2>3, AllHandled
    <3>2. ASSUME arc.compressed
          PROVE  written = Len(arc.chunks)
      <4>1. piece \in 0..Len(arc.chunks) /\ ChunkEnds(arc)[piece] = Total(arc)
        BY <1>3, <2>2, <3>1, <3>2 DEF ByChunks, Consistent, Regular, Sofar
      <4>2. piece = Len(arc.chunks)
        BY <1>0, <4>1, ChunkPlaces, Here
      <4>. QED BY <1>0, <2>1, <2>3, <3>2, <4>2 DEF Stored
    <3>. QED BY <3>1, <3>2 DEF ExpandedSize, Sofar
  <2>4. TrueToSize(arc) \/ \E i \in DOMAIN arc.chunks :
                             arc.chunks[i].state = "altered" /\ arc.chunks[i].yield # 1
    BY DEF TrueToSize
  <2>5. arc.total < Word \/ arc.total >= Word
    BY <1>0, Here
  <2>6. DOMAIN arc.chunks = 1..Len(arc.chunks)
    BY <1>0, Here, ArchiveFields, LenProperties
  <2>. QED BY <1>0, <2>1, <2>3, <2>4, <2>5, <2>6 DEF Stored
<1>4. CauseIsReal'
  BY <1>1, <1>3 DEF CauseIsReal
<1>. QED BY <1>0, <1>2, <1>4 DEF Orderly

\* The conjunction of the parts is inductive.
LEMMA OrderlyHolds == Spec => []Orderly
<1>1. Orderly /\ [Next]_vars => Orderly'
  <2>. SUFFICES ASSUME Orderly, [Next]_vars
                PROVE  Orderly'
    OBVIOUS
  <2>1. CASE UNCHANGED vars
    <3>1. /\ UNCHANGED << arc, pc, file, volume, at, left, size, want, pos, garbled, cause >>
      BY <2>1 DEF vars, readerVars, requestVars
    <3>2. InOrder'
      BY <3>1 DEF Orderly, InOrder, Opened
    <3>3. CauseIsReal'
      BY <3>1 DEF Orderly, CauseIsReal, AtSeam
    <3>. QED BY <2>1, <3>2, <3>3, CountingStutter DEF Orderly
  <2>. QED BY <2>1, OrderlyCreate, OrderlyBegin, OrderlyAskNext, OrderlyReadHere,
              OrderlyReadFails, OrderlyNextVolume, OrderlyHeaderRead,
              OrderlyStorePiece, OrderlyStoreFails, OrderlyVerify
           DEF Next, Step, Done
<1>. QED BY <1>1, OrderlyInit, PTL DEF Spec

-----------------------------------------------------------------------------
(* What the saving of a file promises.                                     *)

\* Over however many volumes a file is cut, in either format, every byte the
\* reader delivers is the next one, if the chunk headers add up and what lies in
\* each volume has less than 4 GiB.
THEOREM DeliveredInOrder == Spec => []ReassembledInOrder
<1>1. Orderly => ReassembledInOrder
  BY DEF Orderly, InOrder, ReassembledInOrder
<1>. QED BY <1>1, OrderlyHolds, PTL

\* unshield_file_save's counter of bytes left is, whenever the loop comes round,
\* what the stream still holds modulo the width of an unsigned: it wraps for files
\* of 4 GiB or more, and for them only.
THEOREM CounterIsExact == Spec => []CounterMatchesStream
<1>1. ASSUME Orderly, pc = "loop", ~garbled
      PROVE  bytes_left = (arc.total - pos) % Word
  <2>1. Counted
    BY <1>1 DEF Orderly, Counting
  <2>2. Saving /\ ~Requesting
    BY <1>1 DEF Saving, Requesting
  <2>. QED BY <1>1, <2>1, <2>2 DEF Counted, ByBytes
<1>2. Orderly => CounterMatchesStream
  BY <1>1 DEF CounterMatchesStream
<1>. QED BY <1>2, OrderlyHolds, PTL

\* A file that is reported saved is whole and in order, because the chunk
\* headers add up or, from format 6 on, because of the MD5, whatever its size.
THEOREM SavedIsWhole == Spec => []SavedWhole
<1>1. ASSUME Orderly, Saved, Regular(arc) \/ arc.version >= 6
      PROVE  ~garbled /\ pos = IF arc.compressed THEN Total(arc) ELSE arc.total
  <2>1. Standing /\ Counted /\ Stored /\ InOrder
    BY <1>1 DEF Orderly, Counting
  <2>2. ~garbled
    BY <1>1, <2>1 DEF InOrder, Stored
  <2>3. Saving /\ ~Requesting /\ bytes_left = 0
    BY <1>1, <2>1 DEF Saving, Requesting, Saved, Stored
  <2>4. ByBytes /\ (arc.compressed => ByChunks) /\ pos = Sofar
    BY <2>1, <2>2, <2>3 DEF Counted, ByBytes
  <2>5. ASSUME ~arc.compressed
        PROVE  pos = arc.total
    BY <1>1, <2>1, <2>4, <2>5 DEF Stored, ExpandedSize, Sofar
  <2>6. ASSUME arc.compressed, arc.version >= 6
        PROVE  pos = Total(arc)
    <3>1. piece = Len(arc.chunks)
      BY <1>1, <2>1, <2>6 DEF Stored, ExpandedSize
    <3>. QED BY <2>4, <2>6, <3>1 DEF Sofar, Total
  <2>7. ASSUME arc.compressed, Regular(arc), ~(arc.version >= 6)
        PROVE  pos = Total(arc)
    <3>1. arc.total < Word
      <4>1. arc.version # 6
        BY <2>7
      <4>. QED BY <2>1, <4>1, Here, ArchivesAssumption DEF WellFormed
    <3>2. Sofar = arc.total
      BY <2>1, <2>3, <2>4, <3>1, AllHandled
    <3>. QED BY <2>4, <2>7, <3>2 DEF Regular, Consistent
  <2>. QED BY <1>1, <2>2, <2>5, <2>6, <2>7
<1>2. Orderly => SavedWhole
  BY <1>1 DEF SavedWhole
<1>. QED BY <1>2, OrderlyHolds, PTL

\* From format 6 on, a file with a damaged chunk is never reported saved: a bad
\* one stops the save, an altered one changes the MD5, and the expanded size
\* tells if one was never read.
THEOREM DamagedIsNotSaved == Spec => []DamageIsFound
<1>1. ASSUME Orderly, Saved, arc.version >= 6, arc.compressed,
             NEW i \in DOMAIN arc.chunks
      PROVE  arc.chunks[i].state = "good"
  <2>1. Standing /\ Stored
    BY <1>1 DEF Orderly, Counting
  <2>2. written = piece /\ written = Len(arc.chunks) /\ ~altered
    BY <1>1, <2>1 DEF Stored, ExpandedSize
  <2>3. DOMAIN arc.chunks = 1..Len(arc.chunks)
    <3>1. 0 \in 0..Len(arc.chunks)
      BY <2>1, Numbers
    <3>. QED BY <2>1, <3>1, ChunkPlaces, Here
  <2>. QED BY <1>1, <2>1, <2>2, <2>3 DEF Stored
<1>2. Orderly => DamageIsFound
  BY <1>1 DEF DamageIsFound
<1>. QED BY <1>2, OrderlyHolds, PTL

\* A save of a file whose chunk headers add up and whose parts have less than
\* 4 GiB fails for the reason it reports: damage is reported for a damaged chunk
\* only, and a wrong size for one that expands to another size or for a file of
\* 4 GiB or more.  What it reports of the reader comes from a request that begins
\* at a seam or from a split that the home volume does not give away.
THEOREM CauseIsTrue == Spec => []CauseIsReal
<1>1. Orderly => CauseIsReal
  BY DEF Orderly
<1>. QED BY <1>1, OrderlyHolds, PTL
=============================================================================
