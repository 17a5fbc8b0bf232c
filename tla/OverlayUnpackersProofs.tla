----------------------- MODULE OverlayUnpackersProofs -----------------------
(***************************************************************************)
(* TypeOK, FirstPackagesFound, CabsFound and CabsDumped hold for every set *)
(* of images and of directories and every bound.                           *)
(*                                                                         *)
(* What the first two searches rest on is where they are: Packages and     *)
(* Cabinets tie the offsets a search works with to the start of the part   *)
(* it comes to next, and so to the number of parts found.  Dumping rests   *)
(* on Dumped: a directory is there only where the ones above it are, and   *)
(* the loop adds to those that were there before the call the directories  *)
(* of the cabs it dumps, and no other.                                     *)
(***************************************************************************)
EXTENDS OverlayProofs, Induction

-----------------------------------------------------------------------------
(* Where parts begin.                                                      *)

First(m) == m.pe + (IF m.form = "dotnet" THEN ZzdHeader ELSE 0)

\* A part begins where the one before it ends.
LEMMA PartsAdjacent ==
  ASSUME NEW m \in Images
  PROVE  /\ PartStart(m, 1) = First(m)
         /\ \A i \in 1..Len(m.parts) :
              PartStart(m, i + 1) = PartStart(m, i) + PartLength(m, i)
<1>. DEFINE N == Len(m.parts)
            Adds(s, k) ==
              \A i \in 1..(k + 1) :
                s[i] = IF i = 1 THEN First(m) ELSE s[i - 1] + PartLength(m, i - 1)
            D == {k \in Nat : \E s : s = [i \in 1..(k + 1) |-> s[i]] /\ Adds(s, k)}
<1>0. N \in Nat
  BY PartsAssumption
<1>1. 0 \in D
  <2>. DEFINE s == [i \in 1..(0 + 1) |-> First(m)]
  <2>1. s = [i \in 1..(0 + 1) |-> s[i]] /\ Adds(s, 0)
    OBVIOUS
  <2>. HIDE DEF s, Adds
  <2>. QED BY <2>1
<1>2. ASSUME NEW k \in D
      PROVE  k + 1 \in D
  <2>1. k \in Nat /\ \E s : s = [i \in 1..(k + 1) |-> s[i]] /\ Adds(s, k)
    OBVIOUS
  <2>2. PICK s : Adds(s, k)
    BY <2>1
  <2>. DEFINE v == [i \in 1..((k + 1) + 1) |->
                      IF i = k + 2 THEN s[k + 1] + PartLength(m, k + 1) ELSE s[i]]
  <2>3. v = [i \in 1..((k + 1) + 1) |-> v[i]]
    OBVIOUS
  <2>4. ASSUME NEW i \in 1..((k + 1) + 1)
        PROVE  v[i] = IF i = 1 THEN First(m) ELSE v[i - 1] + PartLength(m, i - 1)
    <3>1. CASE i = k + 2
      <4>1. i # 1 /\ i - 1 = k + 1 /\ k + 1 \in 1..((k + 1) + 1) /\ k + 1 # k + 2
        BY <3>1, <2>1
      <4>2. v[i] = s[k + 1] + PartLength(m, k + 1) /\ v[k + 1] = s[k + 1]
        BY <3>1, <4>1
      <4>. QED BY <4>1, <4>2
    <3>2. CASE i # k + 2
      <4>1. i \in 1..(k + 1)
        BY <3>2, <2>1
      <4>2. v[i] = s[i] /\ (i # 1 => v[i - 1] = s[i - 1])
        BY <4>1, <2>1
      <4>. QED BY <2>2, <4>1, <4>2
    <3>. QED BY <3>1, <3>2
  <2>5. Adds(v, k + 1)
    <3>. HIDE DEF v
    <3>. QED BY <2>4
  <2>. HIDE DEF v, Adds
  <2>. QED BY <2>1, <2>3, <2>5
<1>3. PICK s : s = [i \in 1..(N + 1) |-> s[i]] /\ Adds(s, N)
  <2>1. D \in SUBSET Nat
    OBVIOUS
  <2>2. D = Nat
    <3>. HIDE DEF D
    <3>. QED BY <1>1, <1>2, <2>1, SetInduction
  <2>3. N \in D
    BY <1>0, <2>2
  <2>. HIDE DEF Adds, N
  <2>. QED BY <2>3
<1>4. s = [i \in 1..(N + 1) |->
             IF i = 1 THEN First(m) ELSE s[i - 1] + PartLength(m, i - 1)]
  BY <1>3
<1>5. PartStarts(m) =
        [i \in 1..(N + 1) |->
           IF i = 1 THEN First(m) ELSE PartStarts(m)[i - 1] + PartLength(m, i - 1)]
  BY <1>4 DEF PartStarts, First
<1>6. Adds(PartStarts(m), N)
  BY <1>5
<1>7. ASSUME NEW u, Adds(u, N)
      PROVE  u[1] = First(m) /\ \A i \in 1..N : u[i + 1] = u[i] + PartLength(m, i)
  <2>1. u[1] = First(m)
    BY <1>0, <1>7
  <2>2. ASSUME NEW i \in 1..N
        PROVE  u[i + 1] = u[i] + PartLength(m, i)
    <3>1. i + 1 \in 1..(N + 1) /\ i + 1 # 1 /\ (i + 1) - 1 = i
      BY <1>0
    <3>2. u[i + 1] = u[(i + 1) - 1] + PartLength(m, (i + 1) - 1)
      BY <1>7, <3>1
    <3>. QED BY <3>1, <3>2
  <2>. QED BY <2>1, <2>2
<1>. QED BY <1>6, <1>7 DEF PartStart

\* No part is empty.
LEMMA PartLengths ==
  ASSUME NEW m \in Images, NEW i \in 1..Len(m.parts)
  PROVE  /\ m.parts[i].size \in Nat
         /\ m.form = "dotnet" => m.parts[i].size > 0
                                 /\ PartLength(m, i) = SizeHeader + m.parts[i].size
         /\ m.form # "dotnet" => m.parts[i].info \in Nat \ {0}
                                 /\ PartLength(m, i) = m.parts[i].info + m.parts[i].size
         /\ PartLength(m, i) \in Nat \ {0}
<1>. DEFINE part == m.parts[i]
<1>1. /\ part.size \in Nat
      /\ m.form = "dotnet" => part.size # 0
      /\ m.form # "dotnet" => part.info \in Nat \ {0}
  BY PartsAssumption
<1>2. CASE m.form = "dotnet"
  <2>1. PartLength(m, i) = part.size + 8 /\ SizeHeader = 8
    BY <1>2 DEF PartLength, SizeHeader
  <2>. HIDE DEF part
  <2>2. PartLength(m, i) = SizeHeader + part.size /\ PartLength(m, i) \in Nat \ {0}
        /\ part.size > 0
    BY <1>1, <1>2, <2>1
  <2>. QED BY <1>1, <1>2, <2>2 DEF part
<1>3. CASE m.form # "dotnet"
  <2>1. PartLength(m, i) = part.size + part.info
    BY <1>3 DEF PartLength
  <2>. HIDE DEF part
  <2>2. PartLength(m, i) = part.info + part.size /\ PartLength(m, i) \in Nat \ {0}
    BY <1>1, <1>3, <2>1
  <2>. QED BY <1>1, <1>3, <2>2 DEF part
<1>. QED BY <1>2, <1>3

\* Parts begin in order, each in the file, and the file ends with the last one.
LEMMA PartPlaces ==
  ASSUME NEW m \in Images
  PROVE  /\ Len(m.parts) \in Nat /\ DOMAIN m.parts = 1..Len(m.parts)
         /\ m.pe \in Nat \ {0} /\ First(m) \in Nat
         /\ \A i \in 1..(Len(m.parts) + 1) :
              PartStart(m, i) \in Nat /\ PartStart(m, i) >= First(m)
         /\ \A i, j \in 1..(Len(m.parts) + 1) : i < j => PartStart(m, i) < PartStart(m, j)
         /\ \A i \in 1..(Len(m.parts) + 1) : PartStart(m, i) <= FileLength(m)
         /\ FileLength(m) \in Nat /\ FileLength(m) < Word
<1>. DEFINE N == Len(m.parts)
            S(i) == PartStart(m, i)
            D == {k \in Nat : k <= N => S(k + 1) \in Nat /\ S(k + 1) >= First(m)}
<1>0. /\ N \in Nat /\ DOMAIN m.parts = 1..N /\ FileLength(m) < Word
      /\ m.pe \in Nat \ {0} /\ First(m) \in Nat
  BY PartsAssumption, OverlayAssumption DEF First, ZzdHeader
<1>1. S(1) = First(m) /\ \A i \in 1..N : S(i + 1) = S(i) + PartLength(m, i)
  BY PartsAdjacent
<1>2. \A i \in 1..N : PartLength(m, i) \in Nat \ {0}
  BY PartLengths
<1>. HIDE DEF S
<1>3. 0 \in D
  BY <1>0, <1>1
<1>4. ASSUME NEW k \in D
      PROVE  k + 1 \in D
  <2>1. CASE k + 1 <= N
    <3>1. k + 1 \in 1..N /\ k <= N
      BY <1>0, <2>1
    <3>2. S(k + 1) \in Nat /\ S(k + 1) >= First(m)
      BY <3>1
    <3>3. S((k + 1) + 1) = S(k + 1) + PartLength(m, k + 1)
          /\ PartLength(m, k + 1) \in Nat
      BY <1>1, <1>2, <3>1
    <3>. QED BY <1>0, <3>2, <3>3
  <2>2. CASE ~(k + 1 <= N)
    BY <2>2
  <2>. QED BY <2>1, <2>2
<1>5. D = Nat
  <2>1. D \in SUBSET Nat
    OBVIOUS
  <2>. HIDE DEF D
  <2>. QED BY <1>3, <1>4, <2>1, SetInduction
<1>6. ASSUME NEW i \in 1..(N + 1)
      PROVE  S(i) \in Nat /\ S(i) >= First(m)
  <2>1. i - 1 \in Nat /\ i - 1 <= N /\ (i - 1) + 1 = i
    BY <1>0
  <2>2. i - 1 \in D
    BY <1>5, <2>1
  <2>. QED BY <2>1, <2>2
<1>7. ASSUME NEW i \in 1..(N + 1), NEW j \in 1..(N + 1), i < j
      PROVE  S(i) < S(j)
  <2>. DEFINE E == {k \in Nat : (i + 1) + k <= N + 1 => S(i) < S((i + 1) + k)}
  <2>1. i \in 1..N
    BY <1>0, <1>7
  <2>2. 0 \in E
    <3>1. S(i + 1) = S(i) + PartLength(m, i) /\ PartLength(m, i) \in Nat \ {0}
          /\ S(i) \in Nat
      BY <1>1, <1>2, <1>6, <2>1
    <3>2. S(i) < S(i + 1) /\ (i + 1) + 0 = i + 1
      BY <3>1
    <3>. QED BY <3>2
  <2>3. ASSUME NEW k \in E
        PROVE  k + 1 \in E
    <3>1. CASE (i + 1) + (k + 1) <= N + 1
      <4>1. /\ (i + 1) + k \in 1..N /\ (i + 1) + k \in 1..(N + 1)
            /\ (i + 1) + (k + 1) = ((i + 1) + k) + 1
        BY <1>0, <3>1
      <4>2. S(i) < S((i + 1) + k)
        BY <1>0, <4>1
      <4>3. /\ S(((i + 1) + k) + 1) = S((i + 1) + k) + PartLength(m, (i + 1) + k)
            /\ PartLength(m, (i + 1) + k) \in Nat \ {0}
            /\ S((i + 1) + k) \in Nat /\ S(i) \in Nat
        BY <1>1, <1>2, <1>6, <4>1
      <4>. QED BY <4>1, <4>2, <4>3
    <3>2. CASE ~((i + 1) + (k + 1) <= N + 1)
      BY <3>2
    <3>. QED BY <3>1, <3>2
  <2>4. E = Nat
    <3>1. E \in SUBSET Nat
      OBVIOUS
    <3>. HIDE DEF E
    <3>. QED BY <2>2, <2>3, <3>1, SetInduction
  <2>5. j - (i + 1) \in Nat /\ (i + 1) + (j - (i + 1)) = j /\ j <= N + 1
    BY <1>0, <1>7
  <2>6. j - (i + 1) \in E
    BY <2>4, <2>5
  <2>. QED BY <2>5, <2>6
<1>8. FileLength(m) = S(N + 1) /\ N + 1 \in 1..(N + 1)
  BY <1>0 DEF FileLength, S
<1>9. ASSUME NEW i \in 1..(N + 1)
      PROVE  S(i) <= FileLength(m)
  <2>1. i = N + 1 \/ i < N + 1
    BY <1>0
  <2>. HIDE DEF N
  <2>. QED BY <1>6, <1>7, <1>8, <2>1
<1>. QED BY <1>0, <1>6, <1>7, <1>8, <1>9 DEF S

-----------------------------------------------------------------------------
(* Where a search is.                                                      *)

\* The parts found are the first ones.
Progress ==
  /\ found \in Seq(Parts)
  /\ Len(found) <= Len(img.parts)
  /\ \A k \in 1..Len(found) : found[k] = k

\* What was asked and decided on the way to a search.
Asked ==
  /\ uOverlayOffset \in {0, img.pe}
  /\ pc \in {"unpack", "unpacked", "packages", "extract", "search", "dump", "cabs"} =>
       img.form \in {"dotnet", "shield"}
  /\ pc \in {"match", "matched", "unpack", "unpacked"} => found = << >>
  /\ pc \notin {"dump", "cabs", "idle"} => cabs = {} /\ opened = {}

\* pCur is at the next package; uOffset, which is advanced by the packages
\* only, has fallen behind its signature by a header for each one found.
Packages ==
  pc \in {"packages", "extract"} =>
    /\ img.form = "dotnet" /\ uOverlayOffset = img.pe
    /\ pCur = PartStart(img, Len(found) + 1)
    /\ uOffset = pCur + SizeHeader - SizeHeader * Len(found) /\ uOffset >= img.pe
    /\ ~renewed => uOverlaySize = FileLength(img) - img.pe
    /\ pc = "extract" => ~AnotherPackage

\* uOffset is at the next cab; the counter is at most a file shorter than the
\* word for each cab found.
Cabinets ==
  pc \in {"search", "dump", "cabs"} =>
    /\ img.form = "shield"
    /\ uOffset = PartStart(img, Len(found) + 1)
    /\ uSize \in 0..(Word - 1)
    /\ ~renewed /\ found = << >> => uSize = FileLength(img) - img.pe
    /\ ~renewed /\ found # << >> /\ CounterHarmless =>
         uSize + Len(found) * FileLength(img) >= Word
    /\ pc # "search" => CabHere = {}

Searching == CacheInv /\ DumpsInv /\ Progress /\ Asked /\ Packages /\ Cabinets

\* The mapped image.
LEMMA Mapped ==
  ASSUME CacheInv
  PROVE  img \in Images /\ Parts = 1..Len(img.parts) /\ Len(img.parts) \in Nat
BY PartPlaces DEF CacheInv, Parts

LEMMA SizeIsWord ==
  ASSUME CacheInv
  PROVE  GetOverlaySize(parser) \in 0..(Word - 1)
<1>1. GetPEFileSize(parser) \in Int /\ img.pe \in Int /\ Word \in Nat \ {0}
  BY LengthIsNat, LengthAssumption
<1>2. Difference(GetPEFileSize(parser), img.pe) \in 0..(Word - 1)
  BY <1>1, DifferenceIsUnsigned, Zenon
<1>. QED BY <1>1, <1>2, SizeAnswer

\* The answer is the overlay of the mapped image, if that is what was measured.
LEMMA SizeIsOverlay ==
  ASSUME CacheInv, ~renewed
  PROVE  GetOverlaySize(parser) = FileLength(img) - img.pe
<1>1. img \in Images /\ img # NoFile /\ FileLength(img) \in Nat \ {0}
  BY LengthAssumption, OverlayAssumption DEF CacheInv
<1>2. GetPEFileSize(parser) = FileLength(img)
  <2>1. CASE parser.fileSize = 0
    BY <1>1, <2>1 DEF CacheInv, GetPEFileSize, LengthNow
  <2>2. CASE parser.fileSize # 0
    BY <1>1, <2>2 DEF CacheInv, GetPEFileSize
  <2>. QED BY <2>1, <2>2
<1>. QED BY <1>1, <1>2, SizeAnswer, DifferenceExact

\* The next part is added to those found.
LEMMA ProgressGrows ==
  ASSUME CacheInv, Progress, NEW i, i = Len(found) + 1, i \in Parts,
         img' = img, found' = Append(found, i)
  PROVE  Progress' /\ Len(found') = Len(found) + 1 /\ Len(found) \in Nat /\ found' # << >>
<1>1. /\ found' \in Seq(Parts) /\ Len(found') = Len(found) + 1 /\ found' # << >>
      /\ \A k \in 1..Len(found) : found'[k] = found[k]
      /\ found'[Len(found) + 1] = i
  BY AppendProperties DEF Progress
<1>2. Len(found) \in Nat
  BY LenProperties DEF Progress
<1>3. i <= Len(img.parts) /\ Parts' = Parts
  BY Mapped DEF Parts
<1>4. ASSUME NEW k \in 1..Len(found')
      PROVE  found'[k] = k
  <2>1. k \in 1..Len(found) \/ k = Len(found) + 1
    BY <1>1, <1>2
  <2>. QED BY <1>1, <2>1 DEF Progress
<1>. QED BY <1>1, <1>2, <1>3, <1>4 DEF Progress

\* Only one part begins at a place.
LEMMA PlaceIsPart ==
  ASSUME NEW m \in Images, NEW i \in 1..(Len(m.parts) + 1), NEW j \in 1..(Len(m.parts) + 1),
         PartStart(m, i) = PartStart(m, j)
  PROVE  i = j
<1>1. PartStart(m, i) \in Nat /\ PartStart(m, j) \in Nat
  BY PartPlaces
<1>2. i < j \/ j < i \/ i = j
  BY PartPlaces
<1>. QED BY <1>1, <1>2, PartPlaces

-----------------------------------------------------------------------------
\* A step that leaves the search alone, or ends the call.
LEMMA SearchKept ==
  ASSUME Searching,
         UNCHANGED << img, uOverlayOffset, uOverlaySize, uOffset, pCur, uSize, found >>,
         renewed => renewed',
         \/ pc' \in {pc, "idle"}
         \/ pc = "dump" /\ pc' = "cabs"
         \/ pc = "matched" /\ pc' = "unpack" /\ img.form \in {"dotnet", "shield"},
         pc \in {"dump", "cabs"} \/ UNCHANGED << cabs, opened >>
  PROVE  Progress' /\ Asked' /\ Packages' /\ Cabinets'
<1>1. Progress' /\ Asked'
  BY DEF Searching, Progress, Asked, Parts
<1>2. AnotherPackage' <=> AnotherPackage
  BY DEF AnotherPackage, HasUnprocessed7zPackage, PackageHere, SigAt, Parts
<1>3. CabHere' = CabHere /\ (CounterHarmless' <=> CounterHarmless)
  BY DEF CabHere, Window, Parts, CounterHarmless
<1>4. Packages'
  BY <1>2 DEF Searching, Packages
<1>5. Cabinets'
  BY <1>3 DEF Searching, Cabinets
<1>. QED BY <1>1, <1>4, <1>5

\* A call begins with nothing found.
LEMMA CallSearches ==
  ASSUME Searching, Call
  PROVE  Progress' /\ Asked' /\ Packages' /\ Cabinets'
<1>1. /\ pc' = "match" /\ found' = << >> /\ uOverlayOffset' = 0
      /\ cabs' = {} /\ opened' = {}
  BY DEF Call
<1>2. CacheInv'
  BY ParseKeeps DEF Searching, Call
<1>3. img' \in Images /\ Len(img'.parts) \in Nat
  BY <1>2, PartsAssumption DEF CacheInv
<1>4. found' \in Seq(Parts') /\ Len(found') = 0
  BY <1>1, EmptySeq
<1>. QED BY <1>1, <1>3, <1>4 DEF Progress, Asked, Packages, Cabinets

\* The answers to the matcher and to the unpacker.
LEMMA AskingSearches ==
  ASSUME Searching, AskForOffset \/ MatcherAsksForSize
  PROVE  Progress' /\ Asked' /\ Packages' /\ Cabinets'
<1>0. UNCHANGED << found, img, cabs, opened >>
  BY DEF AskForOffset, MatcherAsksForSize, AskOffset, AskSize, searchVars, shieldVars
<1>1. CASE AskForOffset
  <2>1. uOverlayOffset' = GetOverlayOffset(parser)
    BY <1>1 DEF AskForOffset
  <2>2. uOverlayOffset' \in {0, img.pe}
    BY <2>1, OffsetAnswer DEF Searching
  <2>3. \/ pc = "match" /\ pc' = "matched"
        \/ pc = "unpack" /\ pc' = "unpacked"
    BY <1>1 DEF AskForOffset
  <2>. QED BY <1>0, <2>2, <2>3 DEF Searching, Progress, Asked, Packages, Cabinets, Parts
<1>2. CASE MatcherAsksForSize
  <2>1. pc = "matched" /\ uOverlayOffset' = uOverlayOffset
    BY <1>2 DEF MatcherAsksForSize
  <2>2. \/ pc' = "unpack" /\ img.form \in {"dotnet", "shield"}
        \/ pc' = "idle"
    BY <1>2 DEF MatcherAsksForSize, Recognised, Return
  <2>. QED BY <1>0, <2>1, <2>2 DEF Searching, Progress, Asked, Packages, Cabinets, Parts
<1>. QED BY <1>1, <1>2

\* A search begins at the first part.
LEMMA SearchBegins ==
  ASSUME Searching, UnpackerAsksForSize
  PROVE  Progress' /\ Asked' /\ Packages' /\ Cabinets'
<1>1. /\ pc = "unpacked" /\ uOverlayOffset = img.pe /\ found = << >>
      /\ img.form \in {"dotnet", "shield"}
  BY DEF UnpackerAsksForSize, Searching, Asked
<1>2. /\ UNCHANGED << found, img, renewed, uOverlayOffset, cabs, opened >>
      /\ uOverlaySize' = GetOverlaySize(parser)
  BY DEF UnpackerAsksForSize, AskSize, searchVars, shieldVars
<1>3. CacheInv /\ Progress /\ Asked /\ img \in Images
  BY DEF Searching, CacheInv
<1>4. Len(found) = 0 /\ PartStart(img, 1) = First(img) /\ img.pe \in Nat
  BY <1>1, <1>3, EmptySeq, PartPlaces, PartsAdjacent
<1>5. /\ uOverlaySize' \in 0..(Word - 1)
      /\ ~renewed => uOverlaySize' = FileLength(img) - img.pe
  BY <1>2, <1>3, SizeIsWord, SizeIsOverlay
<1>6. CASE pc' = "idle"
  BY <1>1, <1>2, <1>3, <1>6 DEF Progress, Asked, Packages, Cabinets, Parts
<1>7. CASE pc' = "packages" /\ img.form = "dotnet"
  <2>1. uOffset' = FirstPackage /\ pCur' = uOverlayOffset + ZzdHeader
    BY <1>7 DEF UnpackerAsksForSize, Return
  <2>2. /\ pCur' = PartStart(img, Len(found) + 1)
        /\ uOffset' = pCur' + SizeHeader - SizeHeader * Len(found) /\ uOffset' >= img.pe
    BY <1>1, <1>4, <1>7, <2>1 DEF FirstPackage, First, ZzdHeader, SizeHeader
  <2>. QED BY <1>1, <1>2, <1>3, <1>5, <1>7, <2>2 DEF Progress, Asked, Packages, Cabinets, Parts
<1>8. CASE pc' = "search" /\ img.form = "shield"
  <2>1. uOffset' = uOverlayOffset /\ uSize' = uOverlaySize'
    BY <1>8 DEF UnpackerAsksForSize, Return
  <2>2. uOffset' = PartStart(img, Len(found) + 1)
    BY <1>1, <1>4, <1>8, <2>1 DEF First
  <2>. QED BY <1>1, <1>2, <1>3, <1>5, <1>8, <2>1, <2>2
           DEF Progress, Asked, Packages, Cabinets, Parts
<1>. QED BY <1>1, <1>6, <1>7, <1>8 DEF UnpackerAsksForSize, Return

-----------------------------------------------------------------------------
(* The rounds of the two searches.                                         *)

\* The package at pCur is the next one.
LEMMA PackageIsNext ==
  ASSUME Searching, pc = "packages", NEW i \in PackageHere
  PROVE  i = Len(found) + 1 /\ i \in Parts
<1>1. /\ img.form = "dotnet" /\ pCur = PartStart(img, Len(found) + 1)
      /\ Len(found) <= Len(img.parts) /\ Len(found) \in Nat
  BY LenProperties DEF Searching, Packages, Progress
<1>2. img \in Images /\ Parts = 1..Len(img.parts) /\ Len(img.parts) \in Nat
  BY Mapped DEF Searching
<1>3. i \in Parts /\ SigAt(i) = pCur + SizeHeader
  BY DEF PackageHere
<1>4. SigAt(i) = PartStart(img, i) + SizeHeader
  BY <1>1 DEF SigAt
<1>5. i \in 1..(Len(img.parts) + 1) /\ Len(found) + 1 \in 1..(Len(img.parts) + 1)
  BY <1>1, <1>2, <1>3
<1>6. PartStart(img, i) = PartStart(img, Len(found) + 1)
  <2>1. PartStart(img, i) \in Nat /\ PartStart(img, Len(found) + 1) \in Nat
    BY <1>2, <1>5, PartPlaces
  <2>. QED BY <1>1, <1>3, <1>4, <2>1 DEF SizeHeader
<1>. QED BY <1>2, <1>3, <1>5, <1>6, PlaceIsPart

\* Each package found takes uOffset one header further back.
LEMMA DumpPackageSearches ==
  ASSUME Searching, DumpPackage
  PROVE  Progress' /\ Asked' /\ Packages' /\ Cabinets'
<1>. DEFINE n == Len(found)
<1>1. /\ pc = "packages" /\ pc' = "packages"
      /\ UNCHANGED << img, renewed, uOverlayOffset, uOverlaySize, cabs, opened >>
  BY DEF DumpPackage, overlayVars, answerVars, shieldVars
<1>2. PICK i \in PackageHere :
        /\ found' = Append(found, i)
        /\ pCur' = pCur + SizeHeader + img.parts[i].size
        /\ uOffset' = uOffset + img.parts[i].size
  BY DEF DumpPackage
<1>3. /\ CacheInv /\ Progress /\ Asked /\ img \in Images
      /\ img.form = "dotnet" /\ uOverlayOffset = img.pe
      /\ pCur = PartStart(img, n + 1) /\ uOffset = pCur + SizeHeader - SizeHeader * n
      /\ uOffset >= img.pe
      /\ ~renewed => uOverlaySize = FileLength(img) - img.pe
  BY <1>1 DEF Searching, Packages, CacheInv
<1>4. i = n + 1 /\ i \in Parts
  BY <1>1, <1>2, PackageIsNext
<1>5. Progress' /\ Len(found') = n + 1 /\ n \in Nat
  BY <1>1, <1>2, <1>3, <1>4, ProgressGrows
<1>6. i \in 1..Len(img.parts)
  BY <1>3, <1>4, Mapped
<1>7. /\ PartStart(img, i + 1) = PartStart(img, i) + PartLength(img, i)
      /\ PartLength(img, i) = SizeHeader + img.parts[i].size
      /\ img.parts[i].size \in Nat
  BY <1>3, <1>6, PartsAdjacent, PartLengths
<1>8. PartStart(img, i) \in Nat
  <2>1. i \in 1..(Len(img.parts) + 1)
    BY <1>3, <1>6, PartPlaces
  <2>. QED BY <1>3, <2>1, PartPlaces
<1>9. /\ pCur' = PartStart(img, Len(found') + 1)
      /\ uOffset' = pCur' + SizeHeader - SizeHeader * Len(found')
  <2>. DEFINE s == img.parts[i].size
  <2>1. /\ \A p, x, k \in Int :
             (p + SizeHeader - SizeHeader * k) + x
               = (p + SizeHeader + x) + SizeHeader - SizeHeader * (k + 1)
        /\ \A p, x \in Int : p + SizeHeader + x = p + (SizeHeader + x)
    BY DEF SizeHeader
  <2>2. pCur = PartStart(img, i) /\ pCur \in Int /\ s \in Int /\ n \in Int
    BY <1>3, <1>4, <1>5, <1>7, <1>8
  <2>3. /\ pCur' = pCur + SizeHeader + s /\ uOffset' = uOffset + s
        /\ PartStart(img, i + 1) = PartStart(img, i) + (SizeHeader + s)
    BY <1>2, <1>7
  <2>. HIDE DEF s, n
  <2>4. pCur' = PartStart(img, i + 1)
    BY <2>1, <2>2, <2>3
  <2>5. uOffset' = pCur' + SizeHeader - SizeHeader * (n + 1)
    BY <1>3, <2>1, <2>2, <2>3
  <2>. QED BY <1>4, <1>5, <2>4, <2>5 DEF n
<1>10. Packages'
  <2>1. uOffset' >= img.pe
    <3>1. pCur \in Nat /\ n \in Nat /\ img.pe \in Nat
      BY <1>3, <1>4, <1>5, <1>8, PartPlaces
    <3>2. uOffset \in Int
      BY <1>3, <3>1 DEF SizeHeader
    <3>. QED BY <1>2, <1>3, <1>7, <3>1, <3>2
  <2>. QED BY <1>1, <1>3, <1>9, <2>1 DEF Packages
<1>11. Asked' /\ Cabinets'
  BY <1>1, <1>3 DEF Asked, Cabinets
<1>. QED BY <1>5, <1>10, <1>11

LEMMA EndPackagesSearches ==
  ASSUME Searching, EndPackages
  PROVE  Progress' /\ Asked' /\ Packages' /\ Cabinets'
<1>1. /\ pc = "packages" /\ pc' = "extract" /\ ~AnotherPackage
      /\ UNCHANGED << img, renewed, uOverlayOffset, uOverlaySize, uOffset, pCur, found,
                      cabs, opened >>
  BY DEF EndPackages, overlayVars, answerVars, searchVars, shieldVars
<1>2. AnotherPackage' <=> AnotherPackage
  BY <1>1 DEF AnotherPackage, HasUnprocessed7zPackage, PackageHere, SigAt, Parts
<1>. QED BY <1>1, <1>2 DEF Searching, Progress, Asked, Packages, Cabinets, Parts

\* The cab at uOffset is the next one.
LEMMA CabIsNext ==
  ASSUME Searching, pc = "search", NEW i \in CabHere
  PROVE  i = Len(found) + 1 /\ i \in Parts
<1>1. /\ uOffset = PartStart(img, Len(found) + 1)
      /\ Len(found) <= Len(img.parts) /\ Len(found) \in Nat
  BY LenProperties DEF Searching, Cabinets, Progress
<1>2. img \in Images /\ Parts = 1..Len(img.parts) /\ Len(img.parts) \in Nat
  BY Mapped DEF Searching
<1>3. i \in Parts /\ PartStart(img, i) = uOffset
  BY DEF CabHere
<1>4. i \in 1..(Len(img.parts) + 1) /\ Len(found) + 1 \in 1..(Len(img.parts) + 1)
  BY <1>1, <1>2, <1>3
<1>. QED BY <1>1, <1>2, <1>3, <1>4, PlaceIsPart

\* Subtracting from a word, with and without a borrow.
LEMMA Borrow ==
  /\ \A a, b \in Int : a - b >= 0 /\ a - b < Word => Difference(a, b) = a - b
  /\ \A a, b \in Int : a - b < 0 /\ a - b >= -Word => Difference(a, b) = a - b + Word
  /\ \A a, b \in Int : Difference(a, b) \in 0..(Word - 1)
BY LengthAssumption DEF Difference

\* The counter passes zero with the first cab and stays close below the word.
LEMMA CounterFalls ==
  ASSUME Searching, pc = "search", NEW i, i = Len(found) + 1, i \in Parts,
         ~renewed, CounterHarmless
  PROVE  LET left == Difference(uSize, PartStart(img, i + 1))
         IN  left + (Len(found) + 1) * FileLength(img) >= Word
<1>. DEFINE n == Len(found)
            F == FileLength(img)
            P == PartStart(img, i + 1)
            L == Len(img.parts)
<1>0. CacheInv /\ img \in Images
  BY DEF Searching, CacheInv
<1>1. n \in Nat /\ L \in Nat /\ i \in 1..L /\ i + 1 \in 1..(L + 1) /\ n + 1 <= L
  BY <1>0, Mapped, LenProperties DEF Searching, Progress
<1>2. F \in Nat /\ F < Word /\ P \in Nat /\ P <= F /\ img.pe \in Nat /\ P > img.pe
  <2>1. /\ F \in Nat /\ F < Word /\ P \in Nat /\ P <= F /\ img.pe \in Nat
        /\ PartStart(img, i) >= First(img) /\ PartStart(img, i) < P
        /\ PartStart(img, i) \in Nat /\ First(img) \in Nat
    BY <1>0, <1>1, PartPlaces
  <2>2. First(img) >= img.pe
    BY <2>1 DEF First, ZzdHeader
  <2>. HIDE DEF F, P
  <2>. QED BY <2>1, <2>2
<1>3. 2 * img.pe >= F /\ L * F + 260 <= Word /\ Word \in Nat
  <2>1. 2 * img.pe >= F /\ L * F + 256 + 4 <= Word
    BY DEF CounterHarmless, MAX_INSTSHIELD_SIG_OFFSET, SigLen
  <2>2. L * F \in Int /\ Word \in Nat
    BY <1>1, <1>2, LengthAssumption
  <2>3. \A x, w \in Int : x + 256 + 4 <= w => x + 260 <= w
    OBVIOUS
  <2>. QED BY <2>1, <2>2, <2>3
<1>. HIDE DEF F, P, L, n
<1>4. CASE n = 0
  <2>1. found = << >>
    BY <1>4 DEF n, Searching, Progress
  <2>2. uSize = F - img.pe
    BY <2>1 DEF Searching, Cabinets, F
  <2>3. uSize - P < 0 /\ uSize - P >= -Word /\ uSize \in Int /\ P \in Int
    <3>1. 2 * img.pe >= F /\ Word \in Nat
      BY <1>3
    <3>2. \A f, e, p, w \in Nat :
            2 * e >= f /\ p > e /\ p <= f /\ f < w =>
              f - e - p < 0 /\ f - e - p >= -w /\ f - e \in Int /\ p \in Int
      OBVIOUS
    <3>3. F - img.pe - P < 0 /\ F - img.pe - P >= -Word /\ F - img.pe \in Int /\ P \in Int
      BY <1>2, <3>1, <3>2, Zenon
    <3>. QED BY <2>2, <3>3, Zenon
  <2>4. Difference(uSize, P) = uSize - P + Word
    BY <2>3, Borrow
  <2>5. (n + 1) * F = F
    BY <1>2, <1>4
  <2>6. uSize - P + Word + F >= Word
    BY <1>2, <1>3, <2>2, SMTT(30)
  <2>. QED BY <2>4, <2>5, <2>6 DEF F, P, n
<1>5. CASE n # 0
  <2>1. found # << >>
    BY <1>5 DEF n
  <2>2. uSize + n * F >= Word /\ uSize \in 0..(Word - 1)
    BY <2>1 DEF Searching, Cabinets, F, n
  <2>3. (n + 1) * F = n * F + F /\ n * F \in Nat /\ (n + 1) * F <= L * F
    <3>1. \A x, y \in Nat : (x + 1) * y = x * y + y /\ x * y \in Nat
      OBVIOUS
    <3>2. \A x, y, z \in Nat : x <= z => x * y <= z * y
      OBVIOUS
    <3>. QED BY <1>1, <1>2, <3>1, <3>2
  <2>4. L * F \in Nat
    BY <1>1, <1>2
  <2>5. uSize - P >= 0 /\ uSize - P < Word /\ uSize \in Int /\ P \in Int
    BY <1>2, <1>3, <2>2, <2>3, <2>4
  <2>6. Difference(uSize, P) = uSize - P
    BY <2>5, Borrow
  <2>7. Difference(uSize, P) + (n + 1) * F >= Word
    <3>1. \A u, p, x, y, w \in Int : u + x >= w /\ p <= y => u - p + (x + y) >= w
      OBVIOUS
    <3>. QED BY <1>2, <1>3, <2>2, <2>3, <2>5, <2>6, <3>1
  <2>. QED BY <2>7 DEF F, P, n
<1>. QED BY <1>4, <1>5

LEMMA FindCabSearches ==
  ASSUME Searching, FindCab
  PROVE  Progress' /\ Asked' /\ Packages' /\ Cabinets'
<1>. DEFINE n == Len(found)
<1>1. /\ pc = "search"
      /\ UNCHANGED << img, renewed, uOverlayOffset, uOverlaySize, cabs, opened >>
  BY DEF FindCab, overlayVars, answerVars, shieldVars
<1>2. PICK i \in CabHere :
        IF img.parts[i].overlong
        THEN Return(FALSE) /\ UNCHANGED searchVars
        ELSE /\ found' = Append(found, i)
             /\ uOffset' = CabEnd(i)
             /\ uSize' = Difference(uSize, uOffset')
             /\ UNCHANGED << pc, pCur, ret >>
  BY DEF FindCab
<1>3. CacheInv /\ Progress /\ Asked /\ img \in Images /\ img.form = "shield"
  BY <1>1 DEF Searching, CacheInv, Cabinets
<1>4. CASE img.parts[i].overlong
  <2>1. pc' = "idle" /\ found' = found
    BY <1>2, <1>4 DEF Return, searchVars
  <2>. QED BY <1>1, <1>3, <2>1 DEF Progress, Asked, Packages, Cabinets, Parts
<1>5. CASE ~img.parts[i].overlong
  <2>1. /\ found' = Append(found, i) /\ uOffset' = CabEnd(i) /\ pc' = "search"
        /\ uSize' = Difference(uSize, uOffset')
    BY <1>1, <1>2, <1>5
  <2>2. i = n + 1 /\ i \in Parts
    BY <1>1, CabIsNext
  <2>3. Progress' /\ Len(found') = n + 1 /\ n \in Nat /\ found' # << >>
    BY <1>1, <1>3, <2>1, <2>2, ProgressGrows
  <2>4. i \in 1..Len(img.parts) /\ i + 1 \in 1..(Len(img.parts) + 1)
    BY <1>3, <2>2, Mapped
  <2>5. uOffset' = PartStart(img, i + 1) /\ uOffset' \in Int
    <3>1. /\ PartStart(img, i + 1) = PartStart(img, i) + PartLength(img, i)
          /\ PartLength(img, i) = img.parts[i].info + img.parts[i].size
          /\ img.parts[i].info \in Nat /\ img.parts[i].size \in Nat
      BY <1>3, <2>4, PartsAdjacent, PartLengths
    <3>2. PartStart(img, i) = uOffset /\ uOffset \in Nat
      <4>1. PartStart(img, i) = uOffset
        BY DEF CabHere
      <4>2. i \in 1..(Len(img.parts) + 1)
        BY <1>3, <2>4, PartPlaces
      <4>. QED BY <1>3, <4>1, <4>2, PartPlaces
    <3>. QED BY <2>1, <3>1, <3>2 DEF CabEnd
  <2>6. uSize' \in 0..(Word - 1)
    <3>1. uSize \in Int
      BY <1>1, LengthAssumption DEF Searching, Cabinets
    <3>. QED BY <2>1, <2>5, <3>1, Borrow
  <2>7. ~renewed' /\ CounterHarmless' => uSize' + Len(found') * FileLength(img) >= Word
    <3>1. CounterHarmless' <=> CounterHarmless
      BY <1>1 DEF CounterHarmless
    <3>. QED BY <1>1, <2>1, <2>2, <2>3, <2>5, <3>1, CounterFalls
  <2>8. Cabinets'
    BY <1>1, <1>3, <2>1, <2>2, <2>3, <2>5, <2>6, <2>7 DEF Cabinets
  <2>. QED BY <1>1, <1>3, <2>1, <2>3, <2>8 DEF Asked, Packages
<1>. QED BY <1>4, <1>5

LEMMA EndSearchSearches ==
  ASSUME Searching, EndSearch
  PROVE  Progress' /\ Asked' /\ Packages' /\ Cabinets'
<1>1. /\ pc = "search" /\ pc' \in {"idle", "dump"} /\ CabHere = {}
      /\ UNCHANGED << img, renewed, uOverlayOffset, uOffset, uSize, found,
                      cabs, opened >>
  BY DEF EndSearch, Return, overlayVars, answerVars, searchVars, shieldVars
<1>2. CabHere' = CabHere /\ (CounterHarmless' <=> CounterHarmless)
  BY <1>1 DEF CabHere, Window, Parts, CounterHarmless
<1>. QED BY <1>1, <1>2 DEF Searching, Progress, Asked, Packages, Cabinets, Parts

-----------------------------------------------------------------------------
\* Searching is inductive.
LEMMA SearchingStep ==
  ASSUME Searching, [Next]_vars
  PROVE  Searching'
<1>1. CacheInv' /\ DumpsInv'
  BY CacheStep, DumpsStep DEF Searching
<1>. SUFFICES Progress' /\ Asked' /\ Packages' /\ Cabinets'
  BY <1>1 DEF Searching
<1>2. CASE Call
  BY <1>2, CallSearches
<1>3. CASE AskForOffset \/ MatcherAsksForSize
  BY <1>3, AskingSearches
<1>4. CASE UnpackerAsksForSize
  BY <1>4, SearchBegins
<1>5. CASE OtherCall \/ NoOverlay \/ ExtractDump \/ EndExtract
  BY <1>5, SearchKept
     DEF OtherCall, NoOverlay, ExtractDump, EndExtract, Return, overlayVars, answerVars, searchVars, shieldVars
<1>6. CASE ReplaceFile
  <2>1. UNCHANGED << pc, img, uOverlayOffset, uOverlaySize, uOffset, pCur, uSize, found,
                     cabs, opened >>
    BY <1>6 DEF ReplaceFile, Replace, answerVars, searchVars, shieldVars
  <2>2. renewed => renewed'
    BY <1>6 DEF ReplaceFile, Replace
  <2>. QED BY <2>1, <2>2, SearchKept
<1>7. CASE DumpPackage
  BY <1>7, DumpPackageSearches
<1>8. CASE EndPackages
  BY <1>8, EndPackagesSearches
<1>9. CASE FindCab
  BY <1>9, FindCabSearches
<1>10. CASE EndSearch
  BY <1>10, EndSearchSearches
<1>11. CASE DumpCab \/ EndDump \/ UnpackCab \/ EndCabs
  <2>1. UNCHANGED << img, uOverlayOffset, uOverlaySize, uOffset, pCur, uSize, found, renewed >>
    BY <1>11 DEF DumpCab, EndDump, UnpackCab, EndCabs, overlayVars, answerVars, searchVars
  <2>2. pc \in {"dump", "cabs"} /\ (pc' \in {pc, "idle"} \/ (pc = "dump" /\ pc' = "cabs"))
    BY <1>11 DEF DumpCab, EndDump, UnpackCab, EndCabs, Return
  <2>. QED BY <2>1, <2>2, SearchKept
<1>12. CASE UNCHANGED vars
  BY <1>12, SearchKept DEF vars, overlayVars, answerVars, searchVars, shieldVars
<1>. QED BY <1>2, <1>3, <1>4, <1>5, <1>6, <1>7, <1>8, <1>9, <1>10, <1>11, <1>12
         DEF Next, Terminated

LEMMA SearchingInit == Init => Searching
<1> SUFFICES ASSUME Init PROVE Searching
  OBVIOUS
<1>1. /\ pc = "idle" /\ found = << >> /\ uOverlayOffset = 0 /\ img \in Images
      /\ cabs = {} /\ opened = {}
  BY DEF Init
<1>2. found \in Seq(Parts) /\ Len(found) = 0 /\ Len(img.parts) \in Nat
  BY <1>1, EmptySeq, PartsAssumption
<1>. QED BY <1>1, <1>2, CacheInit, DumpsInit
         DEF Searching, Progress, Asked, Packages, Cabinets

LEMMA AlwaysSearching == Spec => []Searching
<1>1. Searching /\ [Next]_vars => Searching'
  BY SearchingStep
<1>. QED BY <1>1, SearchingInit, PTL DEF Spec

-----------------------------------------------------------------------------
(* What the searches find.                                                 *)

LEMMA PackagesImplyFirst == Searching => FirstPackagesFound
<1>. SUFFICES ASSUME Searching, pc = "extract", ~renewed
              PROVE  /\ \A k \in DOMAIN found : found[k] = k
                     /\ Len(found) >= (IF Len(img.parts) < 4 THEN Len(img.parts) ELSE 4)
  BY DEF FirstPackagesFound
<1>. DEFINE n == Len(found)
            i == n + 1
            F == FileLength(img)
<1>1. /\ CacheInv /\ Progress /\ img \in Images /\ img.form = "dotnet"
      /\ uOverlayOffset = img.pe /\ pCur = PartStart(img, n + 1)
      /\ uOffset = pCur + SizeHeader - SizeHeader * n /\ uOffset >= img.pe
      /\ uOverlaySize = F - img.pe /\ ~AnotherPackage
  BY DEF Searching, CacheInv, Packages
<1>2. n \in Nat /\ DOMAIN found = 1..n /\ Len(img.parts) \in Nat
  BY <1>1, Mapped, LenProperties DEF Progress
<1>3. \A k \in DOMAIN found : found[k] = k
  BY <1>1, <1>2 DEF Progress
<1>4. ASSUME n < Len(img.parts), n < 4
      PROVE  FALSE
  <2>1. /\ i \in 1..Len(img.parts) /\ i \in Parts
        /\ i \in 1..(Len(img.parts) + 1) /\ i + 1 \in 1..(Len(img.parts) + 1)
    BY <1>1, <1>2, <1>4, Mapped
  <2>2. /\ PartStart(img, i) \in Nat /\ PartStart(img, i + 1) <= F /\ F \in Nat /\ F < Word
        /\ img.pe \in Nat
    BY <1>1, <2>1, PartPlaces
  <2>3. /\ PartStart(img, i + 1) = PartStart(img, i) + (SizeHeader + img.parts[i].size)
        /\ img.parts[i].size \in Nat /\ img.parts[i].size > 0
    BY <1>1, <2>1, PartsAdjacent, PartLengths
  <2>4. SigAt(i) = pCur + SizeHeader
    BY <1>1 DEF SigAt
  <2>5. i \in PackageHere
    BY <2>1, <2>4 DEF PackageHere
  <2>. DEFINE s == img.parts[i].size
              P == PartStart(img, i)
  <2>6. P + (8 + s) <= F /\ s \in Nat /\ s > 0 /\ P \in Nat /\ pCur = P
        /\ uOffset = P + 8 - 8 * n
    BY <1>1, <2>2, <2>3 DEF SizeHeader
  <2>. HIDE DEF s, P, i, F, n
  <2>7. uOffset \in Int /\ uOffset < F /\ uOffset + 27 >= P + 8 /\ P + 8 >= uOffset
    BY <1>2, <1>4, <2>2, <2>6
  <2>8. HasUnprocessed7zPackage
    <3>1. SigAt(i) \in uOffset .. (uOffset + 32 - SigLen - 1)
      BY <2>4, <2>6, <2>7 DEF SizeHeader, SigLen
    <3>. QED BY <2>1, <3>1 DEF HasUnprocessed7zPackage
  <2>9. Difference(uOffset, uOverlayOffset) < uOverlaySize
    <3>1. uOffset - img.pe >= 0 /\ uOffset - img.pe < Word
      BY <1>1, <2>2, <2>7, LengthAssumption
    <3>2. Difference(uOffset, img.pe) = uOffset - img.pe
      <4>1. uOffset \in Int /\ img.pe \in Int
        BY <2>2, <2>7
      <4>. QED BY <3>1, <4>1, Borrow, Zenon
    <3>. QED BY <1>1, <2>2, <2>7, <3>2
  <2>. QED BY <1>1, <2>5, <2>8, <2>9 DEF AnotherPackage
<1>. QED BY <1>2, <1>3, <1>4

\* However far uOffset falls behind, the first four packages are found, in order.
THEOREM FirstFour == Spec => []FirstPackagesFound
BY AlwaysSearching, PackagesImplyFirst, PTL

LEMMA CabinetsImplyFound == Searching => CabsFound
<1>. DEFINE n == Len(found)
            i == n + 1
            F == FileLength(img)
            L == Len(img.parts)
<1>. SUFFICES ASSUME Searching, pc \in {"dump", "cabs"}, ~renewed
              PROVE  /\ \A k \in DOMAIN found : found[k] = k
                     /\ /\ CounterHarmless \/ Len(img.parts) = 1
                        /\ \A k \in Parts : img.parts[k].info + SigLen < MAX_INSTSHIELD_SIG_OFFSET
                                            /\ img.parts[k].size > 2 * SigLen
                        => Len(found) = Len(img.parts)
  BY DEF CabsFound
<1>1. /\ CacheInv /\ Progress /\ img \in Images /\ img.form = "shield"
      /\ uOffset = PartStart(img, n + 1) /\ uSize \in 0..(Word - 1) /\ CabHere = {}
      /\ found = << >> => uSize = F - img.pe
      /\ found # << >> /\ CounterHarmless => uSize + n * F >= Word
  BY DEF Searching, CacheInv, Cabinets
<1>2. n \in Nat /\ DOMAIN found = 1..n /\ L \in Nat /\ n <= L
  BY <1>1, Mapped, LenProperties DEF Progress
<1>3. \A k \in DOMAIN found : found[k] = k
  BY <1>1, <1>2 DEF Progress
<1>4. ASSUME CounterHarmless \/ L = 1,
             \A k \in Parts : img.parts[k].info + SigLen < MAX_INSTSHIELD_SIG_OFFSET
                              /\ img.parts[k].size > 2 * SigLen,
             n < L
      PROVE  FALSE
  <2>1. i \in Parts /\ i \in 1..L /\ i \in 1..(L + 1) /\ i + 1 \in 1..(L + 1)
    BY <1>1, <1>2, <1>4, Mapped
  <2>2. /\ PartStart(img, i + 1) = PartStart(img, i) + (img.parts[i].info + img.parts[i].size)
        /\ img.parts[i].info \in Nat /\ img.parts[i].size \in Nat
        /\ img.parts[i].info + 4 < 256 /\ img.parts[i].size > 8
    BY <1>1, <1>4, <2>1, PartsAdjacent, PartLengths DEF SigLen, MAX_INSTSHIELD_SIG_OFFSET
  <2>3. PartStart(img, i + 1) <= F /\ F \in Nat /\ F < Word /\ img.pe \in Nat
        /\ PartStart(img, i) \in Nat /\ PartStart(img, i) >= First(img)
    BY <1>1, <2>1, PartPlaces
  <2>4. First(img) = img.pe
    BY <1>1, <2>3 DEF First
  <2>. DEFINE info == img.parts[i].info
              size == img.parts[i].size
  <2>5. info + 4 < Window
    <3>1. CASE n = 0
      <4>1. found = << >>
        BY <1>1, <3>1 DEF Progress
      <4>. DEFINE P == PartStart(img, i)
      <4>2. /\ P + (info + size) <= F /\ F \in Nat /\ P \in Nat /\ P >= img.pe
            /\ img.pe \in Nat /\ uSize = F - img.pe
            /\ info \in Nat /\ size \in Nat /\ info + 4 < 256 /\ size > 8
        BY <1>1, <2>2, <2>3, <2>4, <4>1
      <4>. HIDE DEF info, size, F, i, P
      <4>3. info + 4 < 256 /\ info + 4 < uSize - 4 /\ info \in Nat /\ uSize \in Nat
        BY <4>2
      <4>. QED BY <4>3 DEF Window, SigLen, MAX_INSTSHIELD_SIG_OFFSET
    <3>2. CASE n # 0
      <4>1. found # << >> /\ CounterHarmless
        <5>1. found # << >>
          BY <3>2, EmptySeq
        <5>2. L # 1
          BY <1>2, <1>4, <3>2
        <5>. QED BY <1>4, <5>1, <5>2
      <4>2. L * F + 256 + 4 <= Word /\ Word \in Nat
        BY <4>1, LengthAssumption DEF CounterHarmless, MAX_INSTSHIELD_SIG_OFFSET, SigLen
      <4>3. n * F <= L * F /\ n * F \in Nat /\ L * F \in Nat
        <5>1. \A x, y, z \in Nat : x <= z => x * y <= z * y /\ x * y \in Nat /\ z * y \in Nat
          OBVIOUS
        <5>. QED BY <1>2, <2>3, <5>1
      <4>4. uSize + n * F >= Word /\ uSize \in Nat
        BY <1>1, <4>1
      <4>. DEFINE x == n * F
                  y == L * F
      <4>5. x <= y /\ x \in Nat /\ y \in Nat /\ y + 256 + 4 <= Word /\ uSize + x >= Word
        BY <4>2, <4>3, <4>4
      <4>. HIDE DEF x, y
      <4>6. uSize >= 260
        BY <4>2, <4>4, <4>5
      <4>7. Window >= 256
        BY <4>4, <4>6 DEF Window, SigLen, MAX_INSTSHIELD_SIG_OFFSET
      <4>8. Window = 256
        BY <4>4, <4>6, <4>7 DEF Window, SigLen, MAX_INSTSHIELD_SIG_OFFSET
      <4>. QED BY <2>2, <4>8
    <3>. QED BY <3>1, <3>2
  <2>6. i \in CabHere
    BY <1>1, <2>1, <2>5 DEF CabHere, SigLen
  <2>. QED BY <1>1, <2>6
<1>. QED BY <1>2, <1>3, <1>4

\* The counter misses no cab if it cannot do harm.
THEOREM CabsAreFound == Spec => []CabsFound
BY AlwaysSearching, CabinetsImplyFound, PTL

-----------------------------------------------------------------------------
(* The cabs on disk.                                                       *)

DirAt(j) == img.parts[j].dir

\* The cabs the loop of ExtractAllCabs has come to, as parts.
Seen == IF pc = "cabs" THEN 1..Len(found) ELSE 1..(next - 1)

\* What is above a directory of the disk is there too.
Disk ==
  /\ made \in [Dirs -> SUBSET Trail] /\ filled \subseteq Dirs /\ before \subseteq Trail
  /\ \A d \in Dirs : Closed(made[d])
  /\ Closed(before)

\* When the loop begins, what is on disk was there before the call; afterwards
\* the directories of the cabs dumped have been added to it.
Loop ==
  /\ pc \in {"match", "matched", "unpack", "unpacked", "search"} =>
       next = 1 /\ made[dst] = before
  /\ pc \in {"dump", "cabs"} =>
       /\ next \in 1..(Len(found) + 1)
       /\ \A k \in Seen : DirAt(k) # << >>
  /\ pc = "dump" => made[dst] = before \cup {DirAt(j) : j \in cabs} /\ opened = {}
  /\ pc = "cabs" => {DirAt(j) : j \in cabs} \subseteq made[dst]
  /\ opened # {} => \A k \in 1..Len(found) : DirAt(k) # << >>

\* What is above the directory of a cab was there or came with earlier cabs.
Room(k) ==
  \A e \in Above(DirAt(k)) :
    e \in before \/ \E j \in 1..(k - 1) : j \in cabs /\ DirAt(j) = e

\* Which cabs were dumped.
Chosen ==
  img.form = "shield" /\ pc \in {"dump", "cabs", "idle"} =>
    cabs \subseteq Seen /\ \A k \in Seen : k \in cabs <=> Room(k)

Dumped == Disk /\ Loop /\ Chosen

\* Above a directory are the one it is in and those above that.
LEMMA AboveFront ==
  ASSUME NEW d \in Seq(STRING), Len(d) > 1
  PROVE  Above(d) = Above(Front(d)) \cup {Front(d)} /\ Front(d) # << >>
<1>. DEFINE n == Len(d)
<1>1. n \in Nat /\ n - 1 \in 1..n /\ 1 \in 1..n /\ \A k \in 1..n : d[k] \in STRING
  BY LenProperties, ElementOfSeq
<1>2. Front(d) = SubSeq(d, 1, n - 1)
  BY DEF Front
<1>3. Front(d) \in Seq(STRING) /\ Len(Front(d)) = n - 1
  <2>1. \A k \in 1..(n - 1) : d[k] \in STRING
    BY <1>1
  <2>2. 1 \in Int /\ n - 1 \in Int /\ 1 <= n - 1 /\ (n - 1) - 1 + 1 = n - 1
    BY <1>1
  <2>. HIDE DEF n
  <2>. QED BY <1>2, <2>1, <2>2, SubSeqProperties
<1>4. \A k \in 1..(n - 2) : SubSeq(Front(d), 1, k) = SubSeq(d, 1, k)
  <2>1. ASSUME NEW k \in 1..(n - 2)
        PROVE  SubSeq(Front(d), 1, k) = SubSeq(d, 1, k)
    <3>1. k \in 1..(n - 1) /\ 1 \in 1..(n - 1) /\ (n - 1) - 1 + 1 = n - 1 /\ 1 + k - 1 = k
          /\ 1 + 1 - 1 = 1
      BY <1>1
    <3>. HIDE DEF n
    <3>. QED BY <1>1, <1>2, <1>3, <3>1, SubSeqOfSubSeq DEF n
  <2>. QED BY <2>1
<1>5. \A k \in 1..(n - 1) : k \in 1..(n - 2) \/ k = n - 1
  BY <1>1
<1>6. \A k \in 1..(n - 2) : k \in 1..(n - 1)
  BY <1>1
<1>7. Len(Front(d)) - 1 = n - 2 /\ n - 1 \in 1..(n - 1)
  BY <1>1, <1>3
<1>8. Above(Front(d)) = {SubSeq(d, 1, k) : k \in 1..(n - 2)}
  <2>. HIDE DEF n
  <2>. QED BY <1>4, <1>7 DEF Above
<1>9. Above(d) = {SubSeq(d, 1, k) : k \in 1..(n - 1)}
  BY DEF Above
<1>10. Front(d) # << >>
  BY <1>1, <1>3, EmptySeq
<1>. HIDE DEF n
<1>. QED BY <1>2, <1>5, <1>6, <1>7, <1>8, <1>9, <1>10

\* One mkdir makes a directory if those above it are there, and only then,
\* since what is above a directory of the disk is.
LEMMA MadeIfAboveIs ==
  ASSUME NEW d \in Seq(STRING), d # << >>, Closed(made[dst])
  PROVE  /\ CreateCabOutputPath(d) = made[dst] \cup {e \in {d} : Above(d) \subseteq made[dst]}
         /\ d \in CreateCabOutputPath(d) <=> Above(d) \subseteq made[dst]
<1>. DEFINE there == made[dst]
<1>0. \A e \in there : Above(e) \subseteq there
  BY DEF Closed
<1>1. Len(d) = 1 \/ Len(d) > 1
  <2>1. Len(d) \in Nat /\ Len(d) # 0
    BY LenProperties, EmptySeq
  <2>2. \A n \in Nat : n # 0 => n = 1 \/ n > 1
    OBVIOUS
  <2>. QED BY <2>1, <2>2, Zenon
<1>2. Exists(Front(d)) => Above(d) \subseteq there
  <2>1. CASE Len(d) = 1
    BY <2>1 DEF Above
  <2>2. CASE Len(d) > 1
    BY <1>0, <2>2, AboveFront DEF Exists
  <2>. QED BY <1>1, <2>1, <2>2
<1>3. Above(d) \subseteq there => Exists(Front(d))
  <2>1. CASE Len(d) = 1
    <3>1. Front(d) = SubSeq(d, 1, 0)
      BY <2>1 DEF Front
    <3>2. SubSeq(d, 1, 0) = << >>
      BY SubSeqEmpty
    <3>. QED BY <3>1, <3>2 DEF Exists
  <2>2. CASE Len(d) > 1
    BY <2>2, AboveFront DEF Exists
  <2>. QED BY <1>1, <2>1, <2>2
<1>4. d \in there => Above(d) \subseteq there
  BY <1>0
<1>. QED BY <1>2, <1>3, <1>4 DEF CreateCabOutputPath

\* The directory of a cab is among those told apart.
LEMMA CabOnTrail ==
  ASSUME NEW m \in Images, m.form = "shield", NEW k \in 1..Len(m.parts)
  PROVE  /\ m.parts[k].dir \in Seq(STRING)
         /\ m.parts[k].dir \in Trail /\ Above(m.parts[k].dir) \subseteq Trail
<1>. DEFINE d == m.parts[k].dir
<1>1. DOMAIN m.parts = 1..Len(m.parts) /\ d \in Seq(STRING)
  BY PartsAssumption
<1>2. m.parts[k] \in ToSet(m.parts)
  BY <1>1 DEF ToSet
<1>3. d \in CabDirs
  BY <1>2 DEF CabDirs
<1>. HIDE DEF d
<1>4. d \in Trail /\ Above(d) \subseteq Trail
  BY <1>3 DEF Trail
<1>. QED BY <1>1, <1>4 DEF d

\* What an unpacker adds leaves the disk closed.
LEMMA MakeSomeKeeps ==
  ASSUME Disk, NEW d \in Dirs, NEW D \in SUBSET Trail, MakeSome(d, D)
  PROVE  /\ made' \in [Dirs -> SUBSET Trail]
         /\ \A e \in Dirs : Closed(made'[e]) /\ made[e] \subseteq made'[e]
<1>1. PICK new \in SUBSET D : /\ Closed(made[d] \cup new)
                              /\ made' = [made EXCEPT ![d] = @ \cup new]
  BY DEF MakeSome
<1>2. made \in [Dirs -> SUBSET Trail] /\ \A e \in Dirs : Closed(made[e])
  BY DEF Disk
<1>3. made' \in [Dirs -> SUBSET Trail]
  BY <1>1, <1>2
<1>4. \A e \in Dirs : made'[e] = IF e = d THEN made[d] \cup new ELSE made[e]
  BY <1>1, <1>2
<1>. QED BY <1>1, <1>2, <1>3, <1>4

\* The cab the loop of ExtractAllCabs has come to.
LEMMA CabNext ==
  ASSUME Searching, DumpCab
  PROVE  /\ pc = "dump" /\ UNCHANGED << img, found, dst, before, opened >>
         /\ next \in Nat \ {0} /\ next <= Len(found) /\ Len(found) \in Nat
         /\ found[next] = next /\ img \in Images /\ img.form = "shield"
         /\ next \in 1..Len(img.parts) /\ dst \in Dirs
<1>1. CacheInv /\ Progress /\ DumpsInv /\ Cabinets /\ pc = "dump" /\ next <= Len(found)
  BY DEF Searching, DumpCab
<1>2. Len(found) \in Nat /\ next \in Nat \ {0} /\ dst \in Dirs
  BY <1>1, LenProperties DEF Progress, DumpsInv
<1>3. found[next] = next /\ Len(found) <= Len(img.parts) /\ Len(img.parts) \in Nat
  BY <1>1, <1>2, Mapped DEF Progress
<1>4. UNCHANGED << img, found, dst, before, opened >>
  BY DEF DumpCab, overlayVars, searchVars, callVars
<1>. QED BY <1>1, <1>2, <1>3, <1>4 DEF CacheInv, Cabinets

\* It is dumped if what is above its directory is there.
LEMMA CabIsDumped ==
  ASSUME Searching, Dumped, DumpCab, pc' = "dump"
  PROVE  LET d == DirAt(next)
             new == IF Above(d) \subseteq made[dst] THEN {next} ELSE {}
         IN  /\ d # << >> /\ next' = next + 1
             /\ made' \in [Dirs -> SUBSET Trail] /\ filled' \subseteq Dirs
             /\ made'[dst] = made[dst] \cup {DirAt(j) : j \in new}
             /\ \A e \in Dirs : Closed(made'[e])
             /\ cabs' = cabs \cup new
<1>. DEFINE d == DirAt(next)
            new == IF Above(d) \subseteq made[dst] THEN {next} ELSE {}
            there == made[dst] \cup {DirAt(j) : j \in new}
<1>1. /\ pc = "dump" /\ found[next] = next /\ img \in Images /\ img.form = "shield"
      /\ next \in 1..Len(img.parts) /\ dst \in Dirs
  BY CabNext
<1>2. /\ d # << >> /\ next' = next + 1
      /\ made' = [made EXCEPT ![dst] = CreateCabOutputPath(d)]
      /\ IF d \in made'[dst]
         THEN cabs' = cabs \cup {next} /\ filled' = filled \cup {dst}
         ELSE UNCHANGED << cabs, filled >>
  BY <1>1 DEF DumpCab, Return, Cab, DirAt
<1>3. d \in Seq(STRING) /\ d \in Trail
  BY <1>1, CabOnTrail DEF DirAt
<1>4. made \in [Dirs -> SUBSET Trail] /\ filled \subseteq Dirs /\ \A e \in Dirs : Closed(made[e])
  BY DEF Dumped, Disk
<1>5. /\ CreateCabOutputPath(d) = made[dst] \cup {e \in {d} : Above(d) \subseteq made[dst]}
      /\ d \in CreateCabOutputPath(d) <=> Above(d) \subseteq made[dst]
  BY <1>1, <1>2, <1>3, <1>4, MadeIfAboveIs
<1>6. {DirAt(j) : j \in new} = {e \in {d} : Above(d) \subseteq made[dst]}
  BY DEF DirAt
<1>. HIDE DEF d, new
<1>7. made' = [made EXCEPT ![dst] = there]
  BY <1>2, <1>5, <1>6
<1>8. there \subseteq Trail
  BY <1>1, <1>3, <1>4, <1>6
<1>9. Closed(there)
  <2>1. Closed(made[dst])
    BY <1>1, <1>4
  <2>2. ASSUME NEW e \in there
        PROVE  Above(e) \subseteq there
    <3>1. CASE e \in made[dst]
      BY <2>1, <3>1 DEF Closed
    <3>2. CASE e = d /\ Above(d) \subseteq made[dst]
      BY <3>2
    <3>. QED BY <1>6, <3>1, <3>2
  <2>. HIDE DEF there
  <2>. QED BY <2>2 DEF Closed
<1>. HIDE DEF there
<1>10. /\ made' \in [Dirs -> SUBSET Trail] /\ made'[dst] = there
       /\ \A e \in Dirs : Closed(made'[e])
  BY <1>1, <1>4, <1>7, <1>8, <1>9
<1>11. d \in made'[dst] <=> Above(d) \subseteq made[dst]
  BY <1>1, <1>2, <1>4, <1>5
<1>12. cabs' = cabs \cup new /\ filled' \subseteq Dirs
  BY <1>1, <1>2, <1>4, <1>11 DEF new
<1>. QED BY <1>2, <1>10, <1>12 DEF d, new, there

\* No step takes a directory away or makes one where those above it are not.
LEMMA DiskStep ==
  ASSUME Searching, Dumped, [Next]_vars
  PROVE  Disk'
<1>0. Disk /\ dst \in Dirs
  BY DEF Dumped, Searching, DumpsInv
<1>1. ASSUME UNCHANGED << made, filled, before >>
      PROVE  Disk'
  BY <1>0, <1>1 DEF Disk, Closed
<1>2. ASSUME NEW d \in Dirs, NEW D \in SUBSET Trail, MakeSome(d, D),
             filled' \subseteq Dirs, before' = before
      PROVE  Disk'
  <2>1. /\ made' \in [Dirs -> SUBSET Trail] /\ \A e \in Dirs : Closed(made'[e])
    BY <1>0, <1>2, MakeSomeKeeps
  <2>. QED BY <1>0, <1>2, <2>1 DEF Disk
<1>3. CASE OtherCall
  <2>1. PICK d \in Dirs : MakeSome(d, Trail) /\ filled' \in {filled, filled \cup {d}}
    BY <1>3 DEF OtherCall
  <2>2. before' = before
    BY <1>3 DEF OtherCall
  <2>. QED BY <1>0, <1>2, <2>1, <2>2 DEF Disk
<1>4. CASE Call
  <2>1. UNCHANGED << made, filled >> /\ before' = made[dst'] /\ dst' \in Dirs
    BY <1>4 DEF Call
  <2>. QED BY <1>0, <2>1 DEF Disk
<1>5. CASE AskForOffset \/ MatcherAsksForSize \/ NoOverlay \/ UnpackerAsksForSize
           \/ ReplaceFile
  BY <1>1, <1>5 DEF AskForOffset, MatcherAsksForSize, NoOverlay, UnpackerAsksForSize,
                    ReplaceFile, diskVars
<1>6. CASE DumpPackage \/ EndPackages \/ EndExtract \/ FindCab \/ EndSearch
  BY <1>1, <1>6 DEF DumpPackage, EndPackages, EndExtract, FindCab, EndSearch, diskVars
<1>7. CASE EndDump \/ EndCabs \/ UNCHANGED vars
  BY <1>1, <1>7 DEF EndDump, EndCabs, vars, diskVars
<1>8. CASE ExtractDump
  <2>1. before' = before /\ (\/ UNCHANGED << made, filled >>
                             \/ MakeSome(dst, Trail) /\ filled' = filled \cup {dst})
    BY <1>8 DEF ExtractDump
  <2>. QED BY <1>0, <1>1, <1>2, <2>1 DEF Disk
<1>9. CASE DumpCab
  <2>1. CASE pc' = "dump"
    BY <1>0, <1>9, <2>1, CabNext, CabIsDumped DEF Disk
  <2>2. CASE pc' # "dump"
    <3>1. UNCHANGED << made, filled, before >>
      BY <1>9, <2>2 DEF DumpCab
    <3>. QED BY <1>1, <3>1
  <2>. QED BY <2>1, <2>2
<1>10. CASE UnpackCab
  <2>. DEFINE D == {dir \in Trail : Cab(next).dir \in Above(dir)}
  <2>1. UNCHANGED << before, filled >> /\ (made' = made \/ MakeSome(dst, D))
    BY <1>10 DEF UnpackCab
  <2>2. D \in SUBSET Trail
    OBVIOUS
  <2>. HIDE DEF D
  <2>. QED BY <1>0, <1>1, <1>2, <2>1, <2>2 DEF Disk
<1>. QED BY <1>3, <1>4, <1>5, <1>6, <1>7, <1>8, <1>9, <1>10 DEF Next, Terminated

\* Before the loop, and where it is not reached, there is nothing to say but
\* that no directory has been made since the call began.
LEMMA LoopAhead ==
  ASSUME Searching, Dumped,
         pc \in {"match", "matched", "unpack", "unpacked", "search"},
         pc' \notin {"dump", "cabs"}, next' = 1,
         UNCHANGED << dst, made, before, cabs, opened >>
  PROVE  Loop' /\ Chosen'
<1>1. made[dst] = before /\ cabs = {} /\ opened = {}
  BY DEF Dumped, Loop, Searching, Asked
<1>2. Seen' = {}
  BY DEF Seen
<1>3. Loop'
  BY <1>1 DEF Loop
<1>4. Chosen'
  BY <1>1, <1>2 DEF Chosen
<1>. QED BY <1>3, <1>4

LEMMA ChosenKept ==
  ASSUME UNCHANGED << img, before, cabs >>, Seen' = Seen,
         cabs \subseteq Seen /\ \A k \in Seen : k \in cabs <=> Room(k)
  PROVE  Chosen'
<1>1. \A j : DirAt(j)' = DirAt(j)
  BY DEF DirAt
<1>2. \A k : Room(k)' <=> Room(k)
  BY <1>1 DEF Room, Above
<1>. QED BY <1>2 DEF Chosen

\* A step that leaves the cabs and the place in the list alone.
LEMMA LoopKept ==
  ASSUME Searching, Dumped,
         UNCHANGED << img, found, dst, made, before, cabs, opened, next, pc >>
  PROVE  Loop' /\ Chosen'
<1>1. Seen' = Seen /\ (\A j : DirAt(j)' = DirAt(j))
  BY DEF Seen, DirAt
<1>2. Loop'
  BY <1>1 DEF Dumped, Loop
<1>3. Chosen'
  <2>1. CASE img.form = "shield" /\ pc \in {"dump", "cabs", "idle"}
    BY <1>1, <2>1, ChosenKept DEF Dumped, Chosen
  <2>2. CASE ~(img.form = "shield" /\ pc \in {"dump", "cabs", "idle"})
    BY <2>2 DEF Chosen
  <2>. QED BY <2>1, <2>2
<1>. QED BY <1>2, <1>3

LEMMA DumpCabDumps ==
  ASSUME Searching, Dumped, DumpCab
  PROVE  Loop' /\ Chosen'
<1>. DEFINE k == next
            d == DirAt(k)
            new == IF Above(d) \subseteq made[dst] THEN {k} ELSE {}
<1>1. /\ pc = "dump" /\ UNCHANGED << img, found, dst, before, opened >>
      /\ next \in Nat \ {0} /\ next <= Len(found) /\ Len(found) \in Nat
      /\ img.form = "shield"
  BY CabNext
<1>2. \A j : DirAt(j)' = DirAt(j)
  BY <1>1 DEF DirAt
<1>3. /\ made[dst] = before \cup {DirAt(j) : j \in cabs} /\ opened = {}
      /\ \A l \in 1..(k - 1) : DirAt(l) # << >>
      /\ cabs \subseteq 1..(k - 1)
      /\ \A l \in 1..(k - 1) : l \in cabs <=> Room(l)
      /\ Seen = 1..(k - 1)
  BY <1>1 DEF Dumped, Loop, Chosen, Seen
<1>4. CASE pc' # "dump"
  <2>1. pc' = "idle" /\ UNCHANGED << next, made, cabs >>
    BY <1>1, <1>4 DEF DumpCab, Return
  <2>2. Seen' = 1..(k - 1)
    BY <2>1 DEF Seen
  <2>3. Loop'
    BY <1>1, <1>3, <2>1 DEF Loop
  <2>4. Chosen'
    BY <1>1, <1>3, <2>1, <2>2, ChosenKept
  <2>. QED BY <2>3, <2>4
<1>5. CASE pc' = "dump"
  <2>1. /\ d # << >> /\ next' = k + 1
        /\ made'[dst] = made[dst] \cup {DirAt(j) : j \in new}
        /\ cabs' = cabs \cup new
    BY <1>5, CabIsDumped
  <2>2. /\ \A l \in 1..k : l \in 1..(k - 1) \/ l = k
        /\ \A l \in 1..(k - 1) : l \in 1..k /\ l # k
        /\ k \in 1..k /\ k + 1 \in 1..(Len(found) + 1) /\ (k + 1) - 1 = k
        /\ k \notin 1..(k - 1)
    BY <1>1
  <2>3. Seen' = 1..k
    BY <1>5, <2>1, <2>2 DEF Seen
  <2>4. cabs' \subseteq 1..k
    BY <1>3, <2>1, <2>2
  <2>5. made'[dst] = before \cup {DirAt(j) : j \in cabs'}
    BY <1>3, <2>1
  <2>6. ASSUME NEW l \in 1..k
        PROVE  l \in cabs' <=>
                 \A e \in Above(DirAt(l)) :
                   e \in before \/ \E j \in 1..(l - 1) : j \in cabs' /\ DirAt(j) = e
    <3>1. \A j \in 1..(l - 1) : j \in cabs' <=> j \in cabs
      <4>1. \A j \in 1..(l - 1) : j # k
        BY <1>1
      <4>. QED BY <2>1, <4>1
    <3>2. CASE l = k
      <4>1. k \in cabs' <=> Above(d) \subseteq made[dst]
        BY <1>3, <2>1, <2>2
      <4>2. \A e : e \in made[dst] <=>
                     e \in before \/ \E j \in 1..(k - 1) : j \in cabs /\ DirAt(j) = e
        BY <1>3
      <4>. QED BY <3>1, <3>2, <4>1, <4>2
    <3>3. CASE l \in 1..(k - 1)
      <4>1. l \in cabs' <=> l \in cabs
        BY <2>1, <2>2, <3>3
      <4>. QED BY <1>3, <3>1, <3>3, <4>1 DEF Room
    <3>. QED BY <2>2, <3>2, <3>3
  <2>. HIDE DEF new
  <2>7. next' \in 1..(Len(found)' + 1) /\ \A l \in Seen' : DirAt(l)' # << >>
    BY <1>1, <1>2, <1>3, <2>1, <2>2, <2>3
  <2>8. made'[dst'] = before' \cup {DirAt(j)' : j \in cabs'} /\ opened' = {}
    BY <1>1, <1>2, <1>3, <2>5
  <2>9. cabs' \subseteq Seen'
        /\ \A l \in Seen' :
             l \in cabs' <=>
               \A e \in Above(DirAt(l)') :
                 e \in before' \/ \E j \in 1..(l - 1) : j \in cabs' /\ DirAt(j)' = e
    BY <1>1, <1>2, <2>3, <2>4, <2>6
  <2>. HIDE DEF k, d
  <2>10. Loop'
    BY <1>5, <2>7, <2>8 DEF Loop
  <2>11. Chosen'
    BY <2>9 DEF Chosen, Room, Above
  <2>. QED BY <2>10, <2>11
<1>. QED BY <1>4, <1>5

\* The second loop, and the end of either, leave the cabs alone.
LEMMA AfterDump ==
  ASSUME Searching, Dumped, EndSearch \/ EndDump \/ UnpackCab \/ EndCabs
  PROVE  Loop' /\ Chosen'
<1>. DEFINE N == Len(found)
<1>0. N \in Nat
  BY LenProperties DEF Searching, Progress
<1>1. UNCHANGED << img, found, dst, before, cabs >> /\ \A j : DirAt(j)' = DirAt(j)
  BY DEF EndSearch, EndDump, UnpackCab, EndCabs, overlayVars, searchVars, callVars,
         diskVars, shieldVars, DirAt
<1>2. CASE EndSearch
  <2>1. pc = "search" /\ pc' \in {"dump", "idle"} /\ UNCHANGED << next, made, opened >>
    BY <1>2 DEF EndSearch, Return, diskVars, shieldVars
  <2>2. made[dst] = before /\ cabs = {} /\ opened = {} /\ next = 1
    BY <2>1 DEF Dumped, Loop, Searching, Asked
  <2>3. CASE pc' = "idle"
    BY <1>1, <2>1, <2>2, <2>3, LoopAhead
  <2>4. CASE pc' = "dump"
    <3>1. Seen' = {} /\ 1 \in 1..(N + 1)
      BY <1>0, <2>1, <2>2, <2>4 DEF Seen
    <3>2. Loop'
      BY <1>1, <2>1, <2>2, <2>4, <3>1 DEF Loop
    <3>3. Chosen'
      BY <1>1, <2>2, <3>1 DEF Chosen
    <3>. QED BY <3>2, <3>3
  <2>. QED BY <2>1, <2>3, <2>4
<1>3. CASE EndDump
  <2>1. pc = "dump" /\ pc' = "cabs" /\ next' = 1 /\ next > N /\ UNCHANGED << made, opened >>
    BY <1>3 DEF EndDump, diskVars, shieldVars
  <2>2. /\ made[dst] = before \cup {DirAt(j) : j \in cabs} /\ opened = {}
        /\ next \in 1..(N + 1) /\ img.form = "shield"
    BY <2>1 DEF Dumped, Loop, Searching, Cabinets
  <2>3. Seen = 1..N /\ Seen' = 1..N /\ 1 \in 1..(N + 1)
    <3>1. next - 1 = N
      BY <1>0, <2>1, <2>2
    <3>. QED BY <1>0, <1>1, <2>1, <3>1 DEF Seen
  <2>4. Loop'
    <3>1. \A j \in Seen : DirAt(j) # << >>
      BY <2>1 DEF Dumped, Loop
    <3>. QED BY <1>1, <2>1, <2>2, <2>3, <3>1 DEF Loop
  <2>5. Chosen'
    BY <1>1, <2>1, <2>2, <2>3, ChosenKept DEF Dumped, Chosen
  <2>. QED BY <2>4, <2>5
<1>4. CASE UnpackCab
  <2>1. pc = "cabs" /\ pc' = "cabs" /\ next' = next + 1 /\ next <= N
        /\ (made' = made \/ \E D \in SUBSET Trail : MakeSome(dst, D))
    BY <1>4 DEF UnpackCab
  <2>2. dst \in Dirs /\ Disk /\ img.form = "shield"
    BY <2>1 DEF Dumped, Searching, DumpsInv, Cabinets
  <2>3. made[dst] \subseteq made'[dst]
    <3>1. CASE made' = made
      BY <3>1
    <3>2. CASE \E D \in SUBSET Trail : MakeSome(dst, D)
      BY <2>2, <3>2, MakeSomeKeeps
    <3>. QED BY <2>1, <3>1, <3>2
  <2>4. Seen = 1..N /\ Seen' = 1..N
    BY <1>1, <2>1 DEF Seen
  <2>5. next' \in 1..(N + 1)
    BY <1>0, <2>1 DEF Dumped, Loop
  <2>6. \A j \in 1..N : DirAt(j) # << >>
    BY <2>1, <2>4 DEF Dumped, Loop
  <2>7. {DirAt(j) : j \in cabs} \subseteq made'[dst]
    BY <2>1, <2>3 DEF Dumped, Loop
  <2>8. Loop'
    BY <1>1, <2>1, <2>4, <2>5, <2>6, <2>7 DEF Loop
  <2>9. Chosen'
    BY <1>1, <2>1, <2>2, <2>4, ChosenKept DEF Dumped, Chosen
  <2>. QED BY <2>8, <2>9
<1>5. CASE EndCabs
  <2>1. pc = "cabs" /\ pc' = "idle" /\ next > N /\ UNCHANGED << next, made, opened >>
    BY <1>5 DEF EndCabs, Return, diskVars, shieldVars
  <2>2. Seen = 1..N /\ Seen' = 1..N /\ img.form = "shield"
    <3>1. next \in 1..(N + 1)
      BY <2>1 DEF Dumped, Loop
    <3>2. next - 1 = N
      BY <1>0, <2>1, <3>1
    <3>. QED BY <1>1, <2>1, <3>2 DEF Seen, Searching, Cabinets
  <2>3. Loop'
    BY <1>1, <2>1 DEF Dumped, Loop
  <2>4. Chosen'
    BY <1>1, <2>1, <2>2, ChosenKept DEF Dumped, Chosen
  <2>. QED BY <2>3, <2>4
<1>. QED BY <1>2, <1>3, <1>4, <1>5

\* No other step takes a cab away, and the loops begin with the first.
LEMMA DumpedStep ==
  ASSUME Searching, Dumped, [Next]_vars
  PROVE  Dumped'
<1>0. Disk'
  BY DiskStep
<1>. SUFFICES Loop' /\ Chosen'
  BY <1>0 DEF Dumped
<1>1. CASE OtherCall
  <2>1. UNCHANGED << img, found, dst, before, cabs, opened, next, pc >> /\ pc = "idle"
    BY <1>1 DEF OtherCall, overlayVars, searchVars, shieldVars
  <2>2. Seen' = Seen /\ \A j : DirAt(j)' = DirAt(j)
    BY <2>1 DEF Seen, DirAt
  <2>3. Loop'
    BY <2>1, <2>2 DEF Dumped, Loop
  <2>4. Chosen'
    <3>1. CASE img.form = "shield"
      BY <2>1, <2>2, <3>1, ChosenKept DEF Dumped, Chosen
    <3>2. CASE img.form # "shield"
      BY <2>1, <3>2 DEF Chosen
    <3>. QED BY <3>1, <3>2
  <2>. QED BY <2>3, <2>4
<1>2. CASE Call
  <2>1. /\ pc' = "match" /\ next' = 1 /\ opened' = {}
        /\ made' = made /\ before' = made[dst']
    BY <1>2 DEF Call
  <2>. QED BY <2>1 DEF Loop, Chosen
<1>3. CASE AskForOffset \/ MatcherAsksForSize \/ NoOverlay \/ FindCab
  <2>1. /\ pc \in {"match", "matched", "unpack", "unpacked", "search"}
        /\ pc' \notin {"dump", "cabs"}
        /\ UNCHANGED << dst, made, before, cabs, opened, next >>
    BY <1>3 DEF AskForOffset, MatcherAsksForSize, NoOverlay, FindCab, Return, callVars,
                diskVars, shieldVars
  <2>2. next = 1
    BY <2>1 DEF Dumped, Loop
  <2>. QED BY <2>1, <2>2, LoopAhead
<1>4. CASE UnpackerAsksForSize
  <2>1. /\ pc = "unpacked" /\ pc' \in {"idle", "packages", "search"} /\ next' = 1
        /\ UNCHANGED << dst, made, before, cabs, opened >>
    BY <1>4 DEF UnpackerAsksForSize, Return, callVars, diskVars, shieldVars
  <2>. QED BY <2>1, LoopAhead
<1>5. CASE ReplaceFile
  BY <1>5, LoopKept DEF ReplaceFile, Replace, searchVars, diskVars, shieldVars
<1>6. CASE DumpPackage \/ EndPackages \/ ExtractDump \/ EndExtract
  <2>1. /\ pc \in {"packages", "extract"} /\ pc' \in {"packages", "extract", "idle"}
        /\ UNCHANGED << img, opened >>
    BY <1>6 DEF DumpPackage, EndPackages, ExtractDump, EndExtract, Return, overlayVars,
                shieldVars
  <2>2. img.form = "dotnet" /\ opened = {}
    BY <2>1 DEF Searching, Packages, Asked
  <2>. QED BY <2>1, <2>2 DEF Loop, Chosen
<1>7. CASE DumpCab
  BY <1>7, DumpCabDumps
<1>8. CASE EndSearch \/ EndDump \/ UnpackCab \/ EndCabs
  BY <1>8, AfterDump
<1>9. CASE UNCHANGED vars
  BY <1>9, LoopKept DEF vars, overlayVars, callVars, searchVars, diskVars, shieldVars
<1>. QED BY <1>1, <1>2, <1>3, <1>4, <1>5, <1>6, <1>7, <1>8, <1>9 DEF Next, Terminated

LEMMA DumpedInit == Init => Dumped
<1>. SUFFICES ASSUME Init
              PROVE  Dumped
  OBVIOUS
<1>1. /\ pc = "idle" /\ next = 1 /\ made = [d \in Dirs |-> {}] /\ filled = {} /\ before = {}
      /\ cabs = {} /\ opened = {}
  BY DEF Init
<1>2. Disk
  BY <1>1 DEF Disk, Closed
<1>3. Loop
  BY <1>1 DEF Loop
<1>4. Seen = {}
  BY <1>1 DEF Seen
<1>5. Chosen
  BY <1>1, <1>4 DEF Chosen
<1>. QED BY <1>2, <1>3, <1>5 DEF Dumped

-----------------------------------------------------------------------------
(* Types.                                                                  *)

Words == 0..(Word - 1)

Positions ==
  /\ parser.fileSize < Word
  /\ {uOverlaySize, uOffset, pCur, uSize} \subseteq Words

Names ==
  /\ \A i \in DOMAIN vec : vec[i].num < num
  /\ contents \in [Dirs -> SUBSET [by : 1..MaxCalls, of : 1..MaxCalls]]

Control ==
  /\ pc \in {"idle", "match", "matched", "unpack", "unpacked", "packages",
             "extract", "search", "dump", "cabs"}
  /\ ret \in BOOLEAN /\ call \in 0..MaxCalls /\ replaces \in 0..MaxReplaces
  /\ pc # "idle" => call # 0

Below == cabs \subseteq ToSet(found) /\ opened \subseteq made[dst]

\* No file is longer than a word can say.
LEMMA MeasuredIsWord ==
  ASSUME CacheInv, Positions
  PROVE  GetPEFileSize(parser) < Word
<1>1. Word \in Nat \ {0} /\ LengthNow < Word
  BY PartsAssumption, LengthAssumption DEF CacheInv, LengthNow
<1>. QED BY <1>1 DEF GetPEFileSize, Positions

LEMMA FileSizeStep ==
  ASSUME CacheInv, Positions, [Next]_vars
  PROVE  parser'.fileSize < Word
<1>1. parser.fileSize < Word /\ GetPEFileSize(parser) < Word /\ 0 < Word
  BY MeasuredIsWord, LengthAssumption DEF Positions
<1>2. \/ parser' = parser \/ parser' = Fresh
      \/ parser' = SizeAsked(parser) \/ parser' = OffsetAsked(parser)
  <2>1. CASE Call \/ AskForOffset \/ MatcherAsksForSize \/ UnpackerAsksForSize \/ ReplaceFile
    BY <2>1 DEF Call, Parse, AskForOffset, AskOffset, MatcherAsksForSize,
                UnpackerAsksForSize, AskSize, ReplaceFile, Replace
  <2>2. CASE UNCHANGED overlayVars
    BY <2>2 DEF overlayVars
  <2>3. CASE OtherCall \/ NoOverlay \/ DumpPackage \/ EndPackages \/ ExtractDump \/ EndExtract
    BY <2>2, <2>3 DEF OtherCall, NoOverlay, DumpPackage, EndPackages, ExtractDump, EndExtract
  <2>4. CASE FindCab \/ EndSearch \/ DumpCab \/ EndDump \/ UnpackCab \/ EndCabs
    BY <2>2, <2>4 DEF FindCab, EndSearch, DumpCab, EndDump, UnpackCab, EndCabs
  <2>5. CASE UNCHANGED vars
    BY <2>2, <2>5 DEF vars
  <2>. QED BY <2>1, <2>3, <2>4, <2>5 DEF Next, Terminated
<1>3. Fresh.fileSize = 0
  BY FreshIsEmpty
<1>4. SizeAsked(parser).fileSize = GetPEFileSize(parser)
  BY SizeRemembered
<1>5. OffsetAsked(parser).fileSize = GetPEFileSize(parser)
  BY OffsetRemembered
<1>. QED BY <1>1, <1>2, <1>3, <1>4, <1>5

\* A search goes from part to part, and parts are in the file.
LEMMA PositionsStep ==
  ASSUME Searching, Searching', Positions, [Next]_vars
  PROVE  Positions'
<1>0. parser'.fileSize < Word /\ Word \in Nat \ {0} /\ Words' = Words
  BY FileSizeStep, LengthAssumption DEF Searching, Words
<1>1. ASSUME UNCHANGED << uOverlaySize, uOffset, pCur, uSize >>
      PROVE  Positions'
  BY <1>0, <1>1 DEF Positions
<1>2. CacheInv /\ img \in Images /\ uOverlaySize \in Words /\ uOffset \in Words
      /\ pCur \in Words /\ uSize \in Words
  BY DEF Searching, CacheInv, Positions
<1>3. CASE Call
  BY <1>0, <1>3 DEF Call, Positions, Words
<1>4. CASE OtherCall \/ AskForOffset \/ NoOverlay \/ ReplaceFile
  BY <1>1, <1>4 DEF OtherCall, AskForOffset, NoOverlay, ReplaceFile, answerVars, searchVars
<1>5. CASE MatcherAsksForSize
  BY <1>0, <1>2, <1>5, SizeIsWord DEF MatcherAsksForSize, searchVars, Positions, Words
<1>6. CASE UnpackerAsksForSize
  <2>1. uOverlaySize' \in Words
    BY <1>2, <1>6, SizeIsWord DEF UnpackerAsksForSize, Words
  <2>2. CASE pc' = "idle"
    BY <1>0, <1>2, <1>6, <2>1, <2>2 DEF UnpackerAsksForSize, searchVars, Positions, Return
  <2>3. CASE pc' = "packages"
    <3>1. /\ uOverlayOffset = img.pe /\ found = << >> /\ img.form = "dotnet"
          /\ uOffset' = FirstPackage /\ pCur' = uOverlayOffset + ZzdHeader
          /\ uSize' = uOverlaySize'
      BY <1>6, <2>3 DEF UnpackerAsksForSize, Return, Searching, Asked
    <3>2. Len(img.parts) \in Nat /\ Len(img.parts) > 0
      BY <1>2, <3>1, PartsAssumption
    <3>3. 1 \in 1..Len(img.parts) /\ 1 + 1 \in 1..(Len(img.parts) + 1)
      BY <3>2
    <3>4. PartStart(img, 1 + 1) = First(img) + (SizeHeader + img.parts[1].size)
          /\ img.parts[1].size \in Nat
      BY <1>2, <3>1, <3>3, PartsAdjacent, PartLengths
    <3>5. PartStart(img, 1 + 1) < Word /\ PartStart(img, 1 + 1) \in Nat /\ img.pe \in Nat
      <4>1. /\ PartStart(img, 1 + 1) <= FileLength(img) /\ PartStart(img, 1 + 1) \in Nat
            /\ FileLength(img) \in Nat /\ FileLength(img) < Word /\ img.pe \in Nat
        BY <1>2, <3>3, PartPlaces
      <4>. QED BY <1>0, <4>1
    <3>6. First(img) = img.pe + 6
      BY <3>1 DEF First, ZzdHeader
    <3>. DEFINE s == img.parts[1].size
                p == PartStart(img, 1 + 1)
    <3>7. p = img.pe + 6 + (8 + s) /\ s \in Nat /\ p \in Nat /\ p < Word /\ img.pe \in Nat
          /\ uOffset' = img.pe + 6 + 8 /\ pCur' = img.pe + 6
      BY <3>1, <3>4, <3>5, <3>6 DEF SizeHeader, ZzdHeader, FirstPackage
    <3>. HIDE DEF s, p
    <3>8. uOffset' \in Words /\ pCur' \in Words
      BY <1>0, <3>7 DEF Words
    <3>. QED BY <1>0, <2>1, <3>1, <3>8 DEF Positions
  <2>4. CASE pc' = "search"
    <3>1. uOffset' = uOverlayOffset /\ uSize' = uOverlaySize' /\ pCur' = pCur
          /\ uOverlayOffset = img.pe
      BY <1>6, <2>4 DEF UnpackerAsksForSize, Return, Searching, Asked
    <3>2. img.pe \in Words
      <4>1. /\ img.pe \in Nat /\ FileLength(img) \in Nat /\ FileLength(img) < Word
            /\ FileLength(img) - img.pe >= 0
        BY <1>2, PartPlaces, LengthAssumption
      <4>. QED BY <1>0, <4>1 DEF Words
    <3>. QED BY <1>0, <1>2, <2>1, <3>1, <3>2 DEF Positions
  <2>. QED BY <1>6, <2>2, <2>3, <2>4 DEF UnpackerAsksForSize, Return
<1>7. CASE DumpPackage
  <2>. DEFINE n == Len(found)'
  <2>1. /\ pc' = "packages" /\ UNCHANGED << img, uOverlaySize, uSize >> /\ found' # << >>
    <3>1. CacheInv /\ Progress /\ pc = "packages"
      BY <1>7 DEF Searching, DumpPackage
    <3>2. PICK i \in PackageHere : found' = Append(found, i)
      BY <1>7 DEF DumpPackage
    <3>3. i = Len(found) + 1 /\ i \in Parts /\ img' = img
      BY <1>7, <3>1, <3>2, PackageIsNext DEF DumpPackage, overlayVars
    <3>4. found' # << >>
      BY <3>1, <3>2, <3>3, ProgressGrows
    <3>. QED BY <1>7, <3>3, <3>4 DEF DumpPackage, answerVars
  <2>2. /\ pCur' = PartStart(img, n + 1) /\ uOffset' = pCur' + SizeHeader - SizeHeader * n
        /\ uOffset' >= img.pe /\ n <= Len(img.parts) /\ found' \in Seq(Parts')
    BY <2>1 DEF Searching, Packages, Progress
  <2>3. n \in Nat /\ n # 0
    BY <2>1, <2>2, LenProperties, EmptySeq
  <2>4. n + 1 \in 1..(Len(img.parts) + 1)
    BY <1>2, <2>2, <2>3, PartPlaces
  <2>5. /\ PartStart(img, n + 1) \in Nat /\ PartStart(img, n + 1) <= FileLength(img)
        /\ FileLength(img) \in Nat /\ FileLength(img) < Word /\ img.pe \in Nat
    BY <1>2, <2>4, PartPlaces
  <2>. HIDE DEF n
  <2>6. pCur' \in Words
    BY <1>0, <2>2, <2>5 DEF Words
  <2>7. uOffset' \in Words
    <3>1. uOffset' = pCur' + 8 - 8 * n
      BY <2>2 DEF SizeHeader
    <3>. DEFINE behind(p, k) == p + 8 - 8 * k
    <3>2. \A p \in Int : \A k \in Nat :
            k # 0 => behind(p, k) <= p /\ behind(p, k) \in Int
      OBVIOUS
    <3>3. pCur' \in Int
      BY <1>0, <2>6 DEF Words
    <3>4. uOffset' = behind(pCur', n)
      BY <3>1
    <3>. HIDE DEF behind
    <3>5. uOffset' <= pCur' /\ uOffset' \in Int
      BY <2>3, <3>2, <3>3, <3>4, Zenon
    <3>. QED BY <1>0, <2>2, <2>5, <2>6, <3>5 DEF Words
  <2>. QED BY <1>0, <1>2, <2>1, <2>6, <2>7 DEF Positions
<1>8. CASE EndPackages \/ ExtractDump \/ EndExtract
  BY <1>1, <1>8 DEF EndPackages, ExtractDump, EndExtract, answerVars, searchVars
<1>9. CASE FindCab
  <2>1. uOverlaySize' = uOverlaySize /\ pCur' = pCur /\ img' = img
    BY <1>9 DEF FindCab, answerVars, searchVars, overlayVars
  <2>2. CASE pc' = "idle"
    BY <1>1, <1>9, <2>2 DEF FindCab, Return, answerVars, searchVars
  <2>3. CASE pc' # "idle"
    <3>. DEFINE n == Len(found)'
    <3>1. pc' = "search"
      BY <1>9, <2>3 DEF FindCab, Return
    <3>2. /\ uOffset' = PartStart(img, n + 1) /\ uSize' \in 0..(Word - 1)
          /\ n <= Len(img.parts) /\ found' \in Seq(Parts')
      BY <2>1, <3>1 DEF Searching, Cabinets, Progress
    <3>3. n \in Nat
      BY <3>2, LenProperties
    <3>4. n + 1 \in 1..(Len(img.parts) + 1)
      BY <1>2, <3>2, <3>3, PartPlaces
    <3>5. /\ PartStart(img, n + 1) \in Nat /\ PartStart(img, n + 1) <= FileLength(img)
          /\ FileLength(img) \in Nat /\ FileLength(img) < Word
      BY <1>2, <3>4, PartPlaces
    <3>6. uOffset' \in Words /\ uSize' \in Words
      BY <1>0, <3>2, <3>5 DEF Words
    <3>. QED BY <1>0, <1>2, <2>1, <3>6 DEF Positions
  <2>. QED BY <2>2, <2>3
<1>10. CASE EndSearch \/ DumpCab \/ EndDump \/ UnpackCab \/ EndCabs
  BY <1>1, <1>10 DEF EndSearch, DumpCab, EndDump, UnpackCab, EndCabs, answerVars, searchVars
<1>11. CASE UNCHANGED vars
  BY <1>1, <1>11 DEF vars, answerVars, searchVars
<1>. QED BY <1>3, <1>4, <1>5, <1>6, <1>7, <1>8, <1>9, <1>10, <1>11 DEF Next, Terminated
\* A name is taken from the counter before it is advanced, and who unpacks and
\* who dumped is a call that was made.
LEMMA NamesStep ==
  ASSUME Searching, Names, Control, [Next]_vars
  PROVE  Names'
<1>0. num \in Nat /\ vec \in Seq(DumpName) /\ dst \in Dirs /\ call \in 0..MaxCalls
      /\ MaxCalls \in Nat
  BY BoundsAssumption DEF Searching, DumpsInv, Control
<1>1. ASSUME UNCHANGED << vec, num, contents >>
      PROVE  Names'
  BY <1>1 DEF Names
<1>2. CASE DumpPackage
  <2>. DEFINE name == [dir |-> dst, num |-> num]
  <2>1. num' = num + 1 /\ contents' = contents /\ (vec' = vec \/ vec' = Append(vec, name))
    BY <1>2 DEF DumpPackage
  <2>2. ASSUME NEW i \in DOMAIN vec
        PROVE  vec[i].num < num'
    <3>1. i \in 1..Len(vec)
      BY <1>0, LenProperties
    <3>2. vec[i] \in DumpName
      BY <1>0, <3>1, ElementOfSeq
    <3>3. vec[i].num \in Nat /\ vec[i].num < num
      BY <3>2 DEF Names, DumpName
    <3>. QED BY <1>0, <2>1, <3>3
  <2>3. CASE vec' = vec
    BY <2>1, <2>2, <2>3 DEF Names
  <2>4. CASE vec' = Append(vec, name)
    <3>1. ASSUME NEW i \in DOMAIN vec'
          PROVE  vec'[i].num < num'
      <4>1. name \in DumpName
        BY <1>0 DEF DumpName
      <4>2. DOMAIN vec' = 1..(Len(vec) + 1) /\ DOMAIN vec = 1..Len(vec) /\ Len(vec) \in Nat
        BY <1>0, <2>4, <4>1, LenProperties, AppendProperties
      <4>3. CASE i = Len(vec) + 1
        <5>1. vec'[i] = name
          BY <1>0, <2>4, <4>1, <4>3, AppendProperties
        <5>. QED BY <1>0, <2>1, <5>1
      <4>4. CASE i # Len(vec) + 1
        <5>1. i \in 1..Len(vec)
          BY <4>2, <4>4
        <5>2. vec'[i] = vec[i]
          BY <1>0, <2>4, <4>1, <5>1, AppendProperties
        <5>. QED BY <2>2, <4>2, <5>1, <5>2
      <4>. QED BY <4>3, <4>4
    <3>. QED BY <2>1, <3>1 DEF Names
  <2>. QED BY <2>1, <2>3, <2>4
<1>3. CASE ExtractDump
  <2>1. UNCHANGED << vec, num >> /\ call \in 1..MaxCalls
    BY <1>0, <1>3 DEF ExtractDump, Control
  <2>. DEFINE new == {[by |-> call, of |-> d.call] : d \in Named(next)}
  <2>2. new \subseteq [by : 1..MaxCalls, of : 1..MaxCalls]
    BY <2>1 DEF Named, Searching, DumpsInv
  <2>3. contents' = contents \/ contents' = [contents EXCEPT ![dst] = @ \cup new]
    BY <1>3 DEF ExtractDump
  <2>. HIDE DEF new
  <2>4. contents' \in [Dirs -> SUBSET [by : 1..MaxCalls, of : 1..MaxCalls]]
    BY <2>2, <2>3 DEF Names
  <2>. QED BY <2>1, <2>4 DEF Names
<1>4. CASE OtherCall \/ Call \/ AskForOffset \/ MatcherAsksForSize \/ NoOverlay
           \/ UnpackerAsksForSize \/ ReplaceFile
  BY <1>1, <1>4 DEF OtherCall, Call, AskForOffset, MatcherAsksForSize, NoOverlay, UnpackerAsksForSize,
                    ReplaceFile, dotnetVars
<1>5. CASE EndPackages \/ EndExtract \/ FindCab \/ EndSearch
  BY <1>1, <1>5 DEF EndPackages, EndExtract, FindCab, EndSearch, dotnetVars
<1>6. CASE DumpCab \/ EndDump \/ UnpackCab \/ EndCabs \/ UNCHANGED vars
  BY <1>1, <1>6 DEF DumpCab, EndDump, UnpackCab, EndCabs, vars, dotnetVars
<1>. QED BY <1>2, <1>3, <1>4, <1>5, <1>6 DEF Next, Terminated

\* The steps follow one another, and a call is counted before it does anything.
LEMMA ControlStep ==
  ASSUME Searching, Control, [Next]_vars
  PROVE  Control'
<1>0. MaxCalls \in Nat /\ MaxReplaces \in Nat /\ call \in Nat /\ replaces \in Nat
  BY BoundsAssumption DEF Control
<1>1. CASE OtherCall \/ Call
  <2>1. call' = call + 1 /\ call < MaxCalls /\ pc' \in {"match", pc}
        /\ UNCHANGED << replaces, ret >>
    BY <1>1 DEF OtherCall, Call
  <2>. QED BY <1>0, <2>1 DEF Control
<1>2. CASE ReplaceFile
  <2>1. replaces' = replaces + 1 /\ replaces < MaxReplaces /\ UNCHANGED << pc, call, ret >>
    BY <1>2 DEF ReplaceFile
  <2>. QED BY <1>0, <2>1 DEF Control
<1>3. CASE AskForOffset
  BY <1>3 DEF AskForOffset, callVars, Control
<1>4. CASE MatcherAsksForSize
  BY <1>4 DEF MatcherAsksForSize, Return, callVars, Control
<1>5. CASE NoOverlay
  BY <1>5 DEF NoOverlay, Return, callVars, Control
<1>6. CASE UnpackerAsksForSize
  BY <1>6 DEF UnpackerAsksForSize, Return, callVars, Control
<1>7. CASE DumpPackage \/ ExtractDump \/ DumpCab \/ UnpackCab \/ FindCab
  <2>1. UNCHANGED << call, replaces >> /\ (pc' = pc \/ pc' = "idle") /\ ret' \in BOOLEAN
    BY <1>7 DEF DumpPackage, ExtractDump, DumpCab, UnpackCab, FindCab, Return, callVars, Control
  <2>2. pc # "idle"
    BY <1>7 DEF DumpPackage, ExtractDump, DumpCab, UnpackCab, FindCab
  <2>. QED BY <2>1, <2>2 DEF Control
<1>8. CASE EndPackages \/ EndExtract \/ EndSearch \/ EndDump
  <2>1. UNCHANGED << call, replaces >> /\ pc' \in {"extract", "dump", "cabs", "idle"}
        /\ ret' \in BOOLEAN /\ pc # "idle"
    BY <1>8 DEF EndPackages, EndExtract, EndSearch, EndDump, Return, callVars, Control
  <2>. QED BY <2>1 DEF Control
<1>9. CASE EndCabs
  <2>1. UNCHANGED << call, replaces >> /\ pc' = "idle"
    BY <1>9 DEF EndCabs, Return, callVars
  <2>2. ret' = (dst \in filled)
    BY <1>9, Zenon DEF EndCabs, Return
  <2>3. ret' \in BOOLEAN
    <3>1. (dst \in filled) = TRUE \/ (dst \in filled) = FALSE
      OBVIOUS
    <3>. QED BY <2>2, <3>1
  <2>. QED BY <2>1, <2>3 DEF Control
<1>10. CASE UNCHANGED vars
  BY <1>10 DEF vars, callVars, Control
<1>. QED BY <1>1, <1>2, <1>3, <1>4, <1>5, <1>6, <1>7, <1>8, <1>9, <1>10 DEF Next, Terminated

\* Cabs come from the list, and unshield is run where a cab was put.
LEMMA BelowStep ==
  ASSUME Searching, Searching', Dumped, Below, [Next]_vars
  PROVE  Below'
<1>0. Disk /\ dst \in Dirs
  BY DEF Dumped, Searching, DumpsInv
<1>1. ASSUME UNCHANGED << found, dst, made, cabs, opened >>
      PROVE  Below'
  BY <1>1 DEF Below
<1>2. CASE pc' \notin {"dump", "cabs", "idle"}
  BY <1>2 DEF Searching, Asked, Below
<1>3. CASE Call
  BY <1>2, <1>3 DEF Call
<1>4. CASE AskForOffset \/ NoOverlay \/ ReplaceFile \/ MatcherAsksForSize
  BY <1>1, <1>4 DEF AskForOffset, NoOverlay, ReplaceFile, MatcherAsksForSize,
                    callVars, searchVars, diskVars, shieldVars
<1>5. CASE UnpackerAsksForSize
  BY <1>1, <1>5 DEF UnpackerAsksForSize, callVars, searchVars, diskVars, shieldVars
<1>6. CASE DumpPackage \/ ExtractDump
  BY <1>2, <1>6 DEF DumpPackage, ExtractDump
<1>7. CASE FindCab
  BY <1>1, <1>2, <1>7 DEF FindCab, callVars, searchVars, diskVars, shieldVars
<1>8. CASE EndPackages \/ EndExtract \/ EndSearch \/ EndDump \/ EndCabs
  BY <1>1, <1>8 DEF EndPackages, EndExtract, EndSearch, EndDump, EndCabs,
                    callVars, searchVars, diskVars, shieldVars
<1>9. CASE DumpCab
  <2>1. /\ UNCHANGED << found, dst, opened >> /\ next \in DOMAIN found
    BY <1>9, CabNext, LenProperties DEF Searching, Progress
  <2>2. made[dst] \subseteq made'[dst] /\ cabs' \subseteq cabs \cup {found[next]}
    <3>1. CASE pc' = "dump"
      BY <1>9, <3>1, CabIsDumped, CabNext
    <3>2. CASE pc' # "dump"
      BY <1>9, <3>2 DEF DumpCab
    <3>. QED BY <3>1, <3>2
  <2>3. found[next] \in ToSet(found)
    BY <2>1 DEF ToSet
  <2>. QED BY <2>1, <2>2, <2>3 DEF Below
<1>10. CASE UnpackCab
  <2>1. UNCHANGED << found, dst, cabs >> /\ pc = "cabs"
        /\ \/ UNCHANGED << opened, made >>
           \/ /\ found[next] \in cabs /\ opened' = opened \cup {Cab(next).dir}
              /\ \E D \in SUBSET Trail : MakeSome(dst, D)
    BY <1>10 DEF UnpackCab, searchVars, callVars
  <2>2. {DirAt(j) : j \in cabs} \subseteq made[dst]
    BY <2>1 DEF Dumped, Loop
  <2>3. found[next] \in cabs => Cab(next).dir \in made[dst]
    BY <2>2 DEF Cab, DirAt
  <2>4. made[dst] \subseteq made'[dst]
    <3>1. CASE made' = made
      BY <3>1
    <3>2. CASE \E D \in SUBSET Trail : MakeSome(dst, D)
      BY <1>0, <3>2, MakeSomeKeeps
    <3>. QED BY <2>1, <3>1, <3>2
  <2>. QED BY <2>1, <2>3, <2>4 DEF Below
<1>11. CASE OtherCall
  <2>1. UNCHANGED << found, dst, cabs, opened >> /\ \E d \in Dirs : MakeSome(d, Trail)
    BY <1>11 DEF OtherCall, searchVars, shieldVars
  <2>2. made[dst] \subseteq made'[dst]
    BY <1>0, <2>1, MakeSomeKeeps
  <2>. QED BY <2>1, <2>2 DEF Below
<1>12. CASE UNCHANGED vars
  BY <1>1, <1>12 DEF vars, callVars, searchVars, diskVars, shieldVars
<1>. QED BY <1>3, <1>4, <1>5, <1>6, <1>7, <1>8, <1>9, <1>10, <1>11, <1>12
         DEF Next, Terminated

\* What is remembered and answered are words, since a file is no longer than one.
LEMMA ParserIsWords ==
  ASSUME CacheInv, Positions
  PROVE  /\ parser \in [fileSize : Words, peSize : Words,
                        overlaySize : Words, overlayOffset : Words]
         /\ img.pe \in Words
         /\ \A a \in answered : a.is \in Words
<1>0. Word \in Nat \ {0} /\ 0 \in Words
  BY LengthAssumption DEF Words
<1>1. img.pe \in Words
  <2>1. /\ img.pe \in Nat /\ FileLength(img) \in Nat /\ FileLength(img) < Word
        /\ FileLength(img) - img.pe >= 0
    BY PartPlaces, LengthAssumption DEF CacheInv
  <2>. QED BY <1>0, <2>1 DEF Words
<1>2. parser.fileSize \in Words /\ Measured \in Words
  <2>1. parser.fileSize \in Nat /\ img.pe \in Int /\ parser.fileSize < Word
    BY <1>0, <1>1 DEF CacheInv, Positions, Words
  <2>2. parser.fileSize \in Int /\ img.pe \in Int
    BY <2>1
  <2>3. Difference(parser.fileSize, img.pe) \in 0..(Word - 1)
    BY <2>2, DifferenceIsUnsigned
  <2>4. Measured \in Words
    BY <2>3 DEF Measured, Words
  <2>. QED BY <1>0, <2>1, <2>4 DEF Words
<1>3. parser.peSize \in Words
  BY <1>0, <1>1 DEF CacheInv
<1>4. \A n \in Nat : n > 0 \/ n = 0
  OBVIOUS
<1>5. parser.overlaySize \in Words /\ parser.overlayOffset \in Words
  <2>1. parser.overlaySize \in Nat /\ parser.overlayOffset \in Nat
    BY DEF CacheInv
  <2>2. parser.overlaySize > 0 => parser.overlaySize = Measured
    BY DEF CacheInv
  <2>3. parser.overlayOffset > 0 => parser.overlayOffset = img.pe
    BY DEF CacheInv
  <2>. QED BY <1>0, <1>1, <1>2, <1>4, <2>1, <2>2, <2>3
<1>6. \A a \in answered : a.is \in Words
  BY <1>0, <1>1, <1>2 DEF CacheInv
<1>7. parser \in [fileSize : Words, peSize : Words,
                  overlaySize : Words, overlayOffset : Words]
  BY <1>2, <1>3, <1>5 DEF CacheInv
<1>. QED BY <1>1, <1>6, <1>7

LEMMA TypesFollow ==
  ASSUME Searching, Positions, Names, Control, Below, Dumped
  PROVE  TypeOK
<1>1. /\ world \in Images \cup {NoFile} /\ img \in Images /\ renewed \in BOOLEAN
      /\ dst \in Dirs /\ next \in Nat \ {0} /\ num \in Nat /\ found \in Seq(Parts)
      /\ uOverlayOffset \in {0, img.pe}
  BY DEF Searching, CacheInv, DumpsInv, Progress, Asked
<1>2. /\ parser \in [fileSize : Words, peSize : Words,
                     overlaySize : Words, overlayOffset : Words]
      /\ img.pe \in Words /\ 0 \in Words
      /\ \A a \in answered : a.is \in Words
  BY ParserIsWords, LengthAssumption DEF Searching, Words
<1>3. {uOverlayOffset, uOverlaySize, uOffset, pCur, uSize} \subseteq Words
  BY <1>1, <1>2 DEF Positions
<1>4. \A i \in DOMAIN vec : vec[i].dir \in Dirs /\ vec[i].num < num
  <2>1. ASSUME NEW i \in DOMAIN vec
        PROVE  vec[i].dir \in Dirs /\ vec[i].num < num
    <3>1. vec \in Seq(DumpName) /\ i \in 1..Len(vec)
      BY LenProperties DEF Searching, DumpsInv
    <3>2. vec[i] \in DumpName
      BY <3>1, ElementOfSeq
    <3>. QED BY <3>2 DEF Names, DumpName
  <2>. QED BY <2>1
<1>5. ASSUME NEW d \in dumps
      PROVE  [dir |-> d.dir, num |-> d.num] \in ToSet(vec)
  <2>1. vec \in Seq(DumpName) /\ DOMAIN vec = 1..Len(vec)
    BY LenProperties DEF Searching, DumpsInv
  <2>2. PICK k \in 1..Len(vec) : vec[k].dir = d.dir /\ vec[k].num = d.num
    BY DEF Searching, DumpsInv
  <2>3. vec[k] \in DumpName
    BY <2>1, ElementOfSeq
  <2>4. vec[k] = [dir |-> d.dir, num |-> d.num]
    BY <2>2, <2>3 DEF DumpName
  <2>. QED BY <2>1, <2>4 DEF ToSet
<1>6. contents \in [Dirs -> SUBSET [by : 1..MaxCalls, of : 1..MaxCalls]]
  BY DEF Names
<1>. QED BY <1>1, <1>2, <1>3, <1>4, <1>5, <1>6 DEF TypeOK, Control, Below, Dumped, Disk, Words

LEMMA TypesAtStart == Init => Positions /\ Names /\ Control /\ Below
<1>. SUFFICES ASSUME Init
              PROVE  Positions /\ Names /\ Control /\ Below
  OBVIOUS
<1>1. Word \in Nat \ {0} /\ MaxCalls \in Nat /\ MaxReplaces \in Nat
  BY LengthAssumption, BoundsAssumption
<1>2. Positions
  BY <1>1, FreshIsEmpty DEF Init, Positions, Words
<1>3. Names
  BY EmptySeq DEF Init, Names
<1>4. Control
  <2>1. pc = "idle" /\ call = 0 /\ replaces = 0 /\ ret = FALSE
    BY DEF Init
  <2>2. 0 \in 0..MaxCalls /\ 0 \in 0..MaxReplaces
    BY <1>1
  <2>. QED BY <2>1, <2>2, Zenon DEF Control
<1>5. Below
  BY DEF Init, Below
<1>. QED BY <1>2, <1>3, <1>4, <1>5

LEMMA DumpedImpliesCabs == Searching /\ Control /\ Dumped => CabsDumped
<1>. SUFFICES ASSUME Searching, Control, Dumped, img.form = "shield"
              PROVE  CabsDumped
  BY DEF CabsDumped
<1>1. /\ Len(found) \in Nat /\ DOMAIN found = 1..Len(found)
      /\ \A j \in 1..Len(found) : found[j] = j
  BY LenProperties DEF Searching, Progress
<1>2. \A j \in 1..Len(found) : Cab(j).dir = DirAt(j)
  BY <1>1 DEF Cab, DirAt
<1>3. ASSUME NEW k \in DOMAIN found
      PROVE  found[k] \in cabs <=>
               /\ k \in Dealt
               /\ \A dir \in Above(Cab(k).dir) :
                    \/ dir \in before
                    \/ \E j \in 1..(k - 1) : found[j] \in cabs /\ Cab(j).dir = dir
  <2>1. k \in 1..Len(found) /\ found[k] = k /\ \A j \in 1..(k - 1) : j \in 1..Len(found)
    BY <1>1
  <2>2. Cab(k).dir = DirAt(k)
        /\ \A j \in 1..(k - 1) : Cab(j).dir = DirAt(j) /\ found[j] = j
    BY <1>1, <1>2, <2>1
  <2>3. k \in Dealt <=> k \in Seen
    BY <1>1 DEF Dealt, Seen
  <2>4. CASE pc \in {"dump", "cabs", "idle"}
    <3>1. /\ cabs \subseteq Seen
          /\ k \in Seen =>
               (k \in cabs <=>
                  \A e \in Above(DirAt(k)) :
                    e \in before \/ \E j \in 1..(k - 1) : j \in cabs /\ DirAt(j) = e)
      BY <2>4 DEF Dumped, Chosen, Room
    <3>. QED BY <2>1, <2>2, <2>3, <3>1
  <2>5. CASE pc \notin {"dump", "cabs", "idle"}
    <3>1. cabs = {} /\ pc \notin {"packages", "extract"}
      BY <2>5 DEF Searching, Asked, Packages
    <3>2. pc \in {"match", "matched", "unpack", "unpacked", "search"} => Seen = {}
      BY DEF Dumped, Loop, Seen
    <3>3. pc \in {"match", "matched", "unpack", "unpacked", "search"}
      BY <2>5, <3>1 DEF Control
    <3>. QED BY <2>3, <3>1, <3>2, <3>3
  <2>. QED BY <2>4, <2>5
<1>4. opened # {} => \A k \in DOMAIN found : Cab(k).dir # << >>
  BY <1>1, <1>2 DEF Dumped, Loop
<1>. QED BY <1>3, <1>4 DEF CabsDumped

\* The cabs on disk are those that the loop gets to and whose upper directories
\* were there before the call or are those of earlier cabs; and unshield is
\* given none of them if one has no directory in its path.
THEOREM CabsAreDumped == Spec => []CabsDumped
<1>1. Init => Control /\ Dumped
  BY TypesAtStart, DumpedInit
<1>2. Searching /\ Searching' /\ Control /\ Dumped /\ [Next]_vars => Control' /\ Dumped'
  BY ControlStep, DumpedStep
<1>. QED BY <1>1, <1>2, AlwaysSearching, DumpedImpliesCabs, PTL DEF Spec

\* The types of the overlay unpackers: every position and size fits its word
\* though the search subtracts what it should not, every dump has a name of the
\* list, cabs come from the list and are unpacked where they were put.
THEOREM UnpackersTypeCorrect == Spec => []TypeOK
<1>. DEFINE Typed == Positions /\ Names /\ Control /\ Below /\ Dumped
<1>1. Init => Typed
  BY TypesAtStart, DumpedInit
<1>2. Searching /\ Searching' /\ Typed /\ [Next]_vars => Typed'
  BY DumpedStep, PositionsStep, NamesStep, ControlStep, BelowStep
<1>3. Searching /\ Typed => TypeOK
  BY TypesFollow
<1>. QED BY <1>1, <1>2, <1>3, AlwaysSearching, PTL DEF Spec
=============================================================================
