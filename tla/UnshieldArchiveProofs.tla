----------------------- MODULE UnshieldArchiveProofs -----------------------
(***************************************************************************)
(* TypeOK, HeadersAccounted, LastAttemptDecides and SavedIfPossible hold   *)
(* for every set of archives and every number of volumes.                  *)
(*                                                                         *)
(* TypeInv adds where the group is in range and no FILE is open;           *)
(* HeadersInv says what HeadersAccounted says also while headers are read. *)
(* Extracting says where a save is: it has come to its file along links    *)
(* of files it could use, so that it ends at the file at the end of the    *)
(* way or goes round in a circle.                                          *)
(***************************************************************************)
EXTENDS UnshieldArchive, Induction, SequenceTheorems, FiniteSetTheorems, TLAPS

HeadersInv ==
  /\ pc \in {"read", "group", "file", "save", "close", "done"}
  /\ i \in Nat \ {0}
  /\ i = 1 => list = << >> /\ lost = {} /\ pc \in {"read", "done"}
  /\ pc # "done" =>
       /\ i = 2 => list = << 1 >>
       /\ i > 2 => list = << 1, i - 1 >>
       /\ i > 1 => lost = 2..(i - 2)
       /\ arc.hdr[1] # "absent" => i = 1 \/ (i = 2 /\ pc # "read")

-----------------------------------------------------------------------------
\* A good header exists.
LEMMA GoodIsInRange ==
  ASSUME HeadersInv, GoodHeader
  PROVE  i <= MaxIndex
BY ArchiveAssumption DEF HeadersInv, GoodHeader, Header

\* The headers linked before the second are lost with it.
LEMMA GoodHeaderKeeps ==
  ASSUME HeadersInv, GoodHeader
  PROVE  HeadersInv'
<1> DEFINE dropped == {list[k] : k \in DOMAIN list \ {1}}
<1>1. /\ pc = "read" /\ i \in Nat \ {0} /\ i' = i + 1 /\ arc' = arc
      /\ list' = IF list = << >> THEN << i >> ELSE << list[1], i >>
      /\ lost' = lost \cup dropped
      /\ i > 1 => arc.hdr[1] = "absent"
  BY DEF HeadersInv, GoodHeader
<1>2. pc' \in {"read", "group", "done"}
  BY <1>1 DEF GoodHeader, HeadersRead
<1>3. pc' = "read" => ~HasHdr
  BY <1>1 DEF GoodHeader, StopsHere, HeadersRead
<1>4. CASE i = 1
  <2>1. list = << >> /\ lost = {}
    BY <1>4 DEF HeadersInv
  <2>2. list' = << 1 >> /\ lost' = {}
    BY <1>1, <1>4, <2>1
  <2>3. pc' = "read" => arc.hdr[1] = "absent"
    BY <1>3, <1>4, GoodIsInRange DEF HasHdr
  <2> QED BY <1>1, <1>2, <1>4, <2>2, <2>3 DEF HeadersInv
<1>5. CASE i = 2
  <2>1. list = << 1 >> /\ lost = {}
    BY <1>1, <1>5 DEF HeadersInv
  <2>2. list' = << 1, 2 >> /\ lost' = {}
    BY <1>1, <1>5, <2>1
  <2> QED BY <1>1, <1>2, <1>5, <2>2 DEF HeadersInv
<1>6. CASE i > 2
  <2>1. list = << 1, i - 1 >> /\ lost = 2..(i - 2)
    BY <1>1, <1>6 DEF HeadersInv
  <2>2. dropped = {i - 1}
    BY <2>1
  <2>3. list' = << 1, i >> /\ lost' = 2..(i - 1)
    BY <1>1, <1>6, <2>1, <2>2
  <2> QED BY <1>1, <1>2, <1>6, <2>3 DEF HeadersInv
<1> QED BY <1>1, <1>4, <1>5, <1>6

\* The end of the loop: files are extracted only if there is a header.
LEMMA HeadersReadKeeps ==
  ASSUME HeadersInv, NoHeader \/ BadHeader
  PROVE  HeadersInv'
<1>1. /\ pc = "read" /\ UNCHANGED << arc, i, list, lost >>
      /\ pc' = IF list # << >> THEN "group" ELSE "done"
  BY DEF NoHeader, BadHeader, HeadersRead
<1> QED BY <1>1 DEF HeadersInv

\* Extracting leaves the headers alone.
LEMMA ExtractionKeeps ==
  ASSUME HeadersInv, UNCHANGED << arc, i, list, lost >>,
         pc \notin {"read", "done"}, pc' \in {"group", "file", "save", "close"}
  PROVE  HeadersInv'
BY DEF HeadersInv

\* HeadersInv is inductive: only reading changes what it speaks of.
LEMMA HeadersStep ==
  ASSUME HeadersInv, [Next]_vars
  PROVE  HeadersInv'
<1>1. CASE NoHeader \/ BadHeader
  BY <1>1, HeadersReadKeeps
<1>2. CASE GoodHeader
  BY <1>2, GoodHeaderKeeps
<1>3. CASE EnterGroup \/ LastGroup \/ LeaveGroup \/ SkipFile
  BY <1>3, ExtractionKeeps DEF EnterGroup, LastGroup, LeaveGroup, SkipFile, headerVars
<1>4. CASE ExtractFile \/ FollowLink \/ SaveFile
  BY <1>4, ExtractionKeeps DEF ExtractFile, FollowLink, SaveFile, headerVars
<1>5. CASE Close
  BY <1>5 DEF HeadersInv, Close
<1>6. CASE UNCHANGED vars
  BY <1>6 DEF HeadersInv, vars, headerVars
<1> QED BY <1>1, <1>2, <1>3, <1>4, <1>5, <1>6 DEF Next, Step, Terminated

\* Once files are extracted the list is one of two, and both are accounted for.
LEMMA HeadersImplyAccounted == HeadersInv => HeadersAccounted
<1> SUFFICES ASSUME HeadersInv, pc \notin {"read", "done"}
             PROVE  /\ list[1] = 1
                    /\ arc.hdr[1] # "absent" => i = 2 /\ list = << 1 >> /\ lost = {}
                    /\ list[Len(list)] = i - 1
                    /\ lost = 2..(i - 2)
  BY DEF HeadersAccounted
<1>1. i > 1 /\ lost = 2..(i - 2)
  BY DEF HeadersInv
<1>2. CASE i = 2
  <2>1. list = << 1 >>
    BY <1>2 DEF HeadersInv
  <2> QED BY <1>1, <1>2, <2>1
<1>3. CASE i > 2
  <2>1. list = << 1, i - 1 >> /\ ~(arc.hdr[1] # "absent")
    BY <1>3 DEF HeadersInv
  <2> QED BY <1>1, <2>1
<1> QED BY <1>1, <1>2, <1>3 DEF HeadersInv

\* Of the headers read, exactly those between the first and the last are lost,
\* and none is if there is a header file.
THEOREM HeadersAreAccounted == Spec => []HeadersAccounted
<1>1. Init => HeadersInv
  BY DEF Init, HeadersInv
<1>2. HeadersInv /\ [Next]_vars => HeadersInv'
  BY HeadersStep
<1> QED BY <1>1, <1>2, HeadersImplyAccounted, PTL DEF Spec

-----------------------------------------------------------------------------
(* TypeInv is inductive.                                                   *)

TypeInv ==
  /\ TypeOK
  /\ pc = "read" => unclosed = 0
  /\ pc \in {"file", "save"} => group <= Len(arc.groups)

\* The lists that occur.
LEMMA ShortLists ==
  /\ << >> \in Seq(1..MaxIndex) /\ Len(<< >>) <= 2
  /\ \A x \in 1..MaxIndex : << x >> \in Seq(1..MaxIndex) /\ Len(<< x >>) <= 2
  /\ \A x, y \in 1..MaxIndex : << x, y >> \in Seq(1..MaxIndex) /\ Len(<< x, y >>) <= 2
<1>1. << >> \in Seq(1..MaxIndex) /\ Len(<< >>) <= 2
  BY EmptySeq
<1>2. ASSUME NEW x \in 1..MaxIndex
      PROVE  << x >> \in Seq(1..MaxIndex) /\ Len(<< x >>) <= 2
  OBVIOUS
<1>3. ASSUME NEW x \in 1..MaxIndex, NEW y \in 1..MaxIndex
      PROVE  << x, y >> \in Seq(1..MaxIndex) /\ Len(<< x, y >>) <= 2
  OBVIOUS
<1> QED BY <1>1, <1>2, <1>3

\* A header read adds one name to a list of at most two.
LEMMA ReadingTypes ==
  ASSUME TypeInv, NoHeader \/ BadHeader \/ GoodHeader
  PROVE  TypeInv'
<1>1. /\ pc = "read" /\ unclosed = 0
      /\ pc' \in {"read", "group", "done"} /\ opened' \in BOOLEAN
  BY DEF TypeInv, TypeOK, NoHeader, BadHeader, GoodHeader, HeadersRead
<1>2. UNCHANGED << arc, group, outputVars >>
  BY DEF NoHeader, BadHeader, GoodHeader
<1>3. /\ i' \in 1..(MaxIndex + 1) /\ unclosed' \in 0..1
      /\ list' \in Seq(1..MaxIndex) /\ Len(list') <= 2 /\ lost' \in SUBSET (1..MaxIndex)
      /\ pc' = "read" => unclosed' = 0
  <2>1. CASE NoHeader
    BY <1>1, <2>1 DEF TypeInv, TypeOK, NoHeader
  <2>2. CASE BadHeader
    BY <1>1, <2>2 DEF TypeInv, TypeOK, BadHeader, HeadersRead
  <2>3. CASE GoodHeader
    <3>1. i \in 1..MaxIndex
      BY <2>3, ArchiveAssumption DEF TypeInv, TypeOK, GoodHeader, Header
    <3>2. list \in Seq(1..MaxIndex) /\ Len(list) <= 2 /\ lost \subseteq 1..MaxIndex
      BY DEF TypeInv, TypeOK
    <3>3. \A k \in DOMAIN list : list[k] \in 1..MaxIndex
      BY <3>2, ElementOfSeq, LenProperties
    <3>4. list # << >> => list[1] \in 1..MaxIndex
      BY <3>2, <3>3, EmptySeq
    <3>5. \A x \in lost' : x \in 1..MaxIndex
      BY <2>3, <3>2, <3>3 DEF GoodHeader
    <3>6. list' \in Seq(1..MaxIndex) /\ Len(list') <= 2
      <4>1. CASE list = << >>
        <5>1. list' = << i >>
          BY <2>3, <4>1 DEF GoodHeader
        <5> QED BY <3>1, <5>1, ShortLists
      <4>2. CASE list # << >>
        <5>1. list' = << list[1], i >>
          BY <2>3, <4>2 DEF GoodHeader
        <5> QED BY <3>1, <3>4, <4>2, <5>1, ShortLists
      <4> QED BY <4>1, <4>2
    <3>7. i' \in 1..(MaxIndex + 1) /\ unclosed' = unclosed
      BY <2>3, <3>1, ArchiveAssumption DEF GoodHeader
    <3> QED BY <1>1, <3>5, <3>6, <3>7
  <2> QED BY <2>1, <2>2, <2>3
<1>4. made' = made /\ disk' = disk /\ count' = count /\ Files' = Files
  BY <1>2 DEF outputVars, Files
<1> QED BY <1>1, <1>2, <1>3, <1>4 DEF TypeInv, TypeOK

\* A save puts a file where its directory is, in the place of any other there.
LEMMA SaveTypes ==
  ASSUME TypeInv, SaveFile
  PROVE  TypeInv'
<1>1. /\ UNCHANGED << arc, i, list, lost, unclosed, opened, group, made >>
      /\ pc = "save" /\ pc' = "file"
  BY DEF SaveFile, headerVars
<1>2. Files' = Files
  BY <1>1 DEF Files
<1>3. count' \in Nat
  BY DEF SaveFile, TypeInv, TypeOK
<1>4. \/ disk' = Others
      \/ Opens /\ disk' = Others \cup {Saved}
  BY DEF SaveFile, Failed
<1>5. \A d \in Others : d \in disk /\ d.path # PathOf(index)
  BY DEF Others
<1>6. Opens => /\ Saved.path = PathOf(index) /\ Saved.path.dir \in made
               /\ Saved.of \in Files /\ Saved.whole \in BOOLEAN
  BY DEF Opens, Saved, PathOf
<1>7. \A d \in disk' : d.path.dir \in made /\ d.of \in Files /\ d.whole \in BOOLEAN
  BY <1>4, <1>5, <1>6 DEF TypeInv, TypeOK
<1>8. \A d, e \in disk' : d.path = e.path => d = e
  BY <1>4, <1>5, <1>6 DEF TypeInv, TypeOK
<1> QED BY <1>1, <1>2, <1>3, <1>7, <1>8 DEF TypeInv, TypeOK

\* The other steps move through groups and files.
LEMMA MovingTypes ==
  ASSUME TypeInv,
         \/ EnterGroup \/ LastGroup \/ LeaveGroup \/ SkipFile \/ ExtractFile
         \/ FollowLink \/ Close
  PROVE  TypeInv'
<1>1. arc' = arc /\ Files' = Files
  BY DEF EnterGroup, LastGroup, LeaveGroup, SkipFile, ExtractFile, FollowLink, Close, Files
<1>2. UNCHANGED << i, lost, unclosed, opened, disk, count >> /\ made \subseteq made'
  BY DEF EnterGroup, LastGroup, LeaveGroup, SkipFile, ExtractFile, FollowLink, Close,
         MakeDirectory, headerVars, outputVars
<1>3. list' = list \/ list' = << >>
  BY DEF EnterGroup, LastGroup, LeaveGroup, SkipFile, ExtractFile, FollowLink, Close,
         headerVars
<1>4. /\ group' \in 1..(Len(arc.groups) + 1)
      /\ pc' \in {"group", "file", "save", "close", "done"}
      /\ pc' \in {"file", "save"} => group' <= Len(arc.groups)
  <2>1. Len(arc.groups) \in Nat
    BY ArchiveAssumption DEF TypeInv, TypeOK
  <2> QED BY <2>1 DEF TypeInv, TypeOK, EnterGroup, LastGroup, LeaveGroup, SkipFile,
                      ExtractFile, FollowLink, Close
<1>5. list' \in Seq(1..MaxIndex) /\ Len(list') <= 2
  <2>1. CASE list' = list
    BY <2>1 DEF TypeInv, TypeOK
  <2>2. CASE list' = << >>
    BY <2>2, ShortLists
  <2> QED BY <1>3, <2>1, <2>2
<1> QED BY <1>1, <1>2, <1>4, <1>5 DEF TypeInv, TypeOK

\* At the start nothing is read, made or saved.
LEMMA TypeInit == Init => TypeInv
<1> SUFFICES ASSUME Init PROVE TypeInv
  OBVIOUS
<1>1. MaxIndex \in Nat /\ Len(arc.groups) \in Nat
  BY ArchiveAssumption DEF Init
<1>2. list \in Seq(1..MaxIndex) /\ Len(list) <= 2
  <2>1. list = << >>
    BY DEF Init
  <2> QED BY <2>1, ShortLists
<1>3. /\ arc \in Archives /\ pc = "read" /\ i = 1 /\ lost = {} /\ unclosed = 0
      /\ opened = FALSE /\ group = 1 /\ made = {<< >>} /\ disk = {} /\ count = 0
  BY DEF Init
<1>4. /\ i \in 1..(MaxIndex + 1) /\ group \in 1..(Len(arc.groups) + 1)
      /\ unclosed \in 0..1 /\ count \in Nat
  BY <1>1, <1>3
<1>5. << >> \in made /\ lost \subseteq 1..MaxIndex /\ opened \in BOOLEAN
  BY <1>3
<1>6. /\ \A d \in disk : d.path.dir \in made /\ d.of \in Files /\ d.whole \in BOOLEAN
      /\ \A d, e \in disk : d.path = e.path => d = e
  BY <1>3
<1>7. pc = "read" => unclosed = 0
  BY <1>3
<1>8. ~(pc \in {"file", "save"})
  BY <1>3
<1> QED BY <1>2, <1>3, <1>4, <1>5, <1>6, <1>7, <1>8 DEF TypeInv, TypeOK

\* TypeInv is inductive.
LEMMA TypeStep ==
  ASSUME TypeInv, [Next]_vars
  PROVE  TypeInv'
<1>1. CASE UNCHANGED vars
  BY <1>1 DEF TypeInv, TypeOK, Files, vars, headerVars, outputVars
<1>. QED BY <1>1, ReadingTypes, SaveTypes, MovingTypes DEF Next, Step, Terminated

\* The variables keep their types; what is on disk is in a directory that was
\* made, and no two files are at one path.
THEOREM TypeCorrect == Spec => []TypeOK
<1>1. Init => TypeInv
  BY TypeInit
<1>2. TypeInv /\ [Next]_vars => TypeInv'
  BY TypeStep
<1>3. TypeInv => TypeOK
  BY DEF TypeInv
<1> QED BY <1>1, <1>2, <1>3, PTL DEF Spec
-----------------------------------------------------------------------------
(* Links of files.                                                         *)

\* OnTheWay for an archive that need not be the one at hand.
Onto(a, f) == IF f \in DOMAIN a.files /\ a.files[f].link # NoLink THEN a.files[f].link ELSE f

Way(a, f) ==
  LET w[n \in 0..Len(a.files)] == IF n = 0 THEN f ELSE Onto(a, w[n - 1]) IN w

LEMMA OnTheWayIsWay ==
  /\ \A f : OnTheWay(f) = Way(arc, f)
  /\ \A f : OnTheWay(f)' = Way(arc', f)
BY DEF OnTheWay, Way, Onward, Onto, Files, File

\* A way leads from each file to the one it is linked to.
LEMMA WaySteps ==
  ASSUME NEW a \in Archives, NEW f
  PROVE  /\ Way(a, f)[0] = f
         /\ \A n \in 1..Len(a.files) : Way(a, f)[n] = Onto(a, Way(a, f)[n - 1])
<1>. DEFINE N == Len(a.files)
            Goes(w, k) == \A n \in 0..k : w[n] = IF n = 0 THEN f ELSE Onto(a, w[n - 1])
            D == {k \in Nat : \E w : w = [n \in 0..k |-> w[n]] /\ Goes(w, k)}
<1>0. N \in Nat
  BY ArchiveAssumption
<1>1. 0 \in D
  <2>. DEFINE w == [n \in 0..0 |-> f]
  <2>1. w = [n \in 0..0 |-> w[n]] /\ Goes(w, 0)
    OBVIOUS
  <2>. HIDE DEF w, Goes
  <2>. QED BY <2>1
<1>2. ASSUME NEW k \in D
      PROVE  k + 1 \in D
  <2>1. k \in Nat /\ \E w : w = [n \in 0..k |-> w[n]] /\ Goes(w, k)
    OBVIOUS
  <2>2. PICK w : Goes(w, k)
    BY <2>1
  <2>. DEFINE v == [n \in 0..(k + 1) |-> IF n = k + 1 THEN Onto(a, w[k]) ELSE w[n]]
  <2>3. v = [n \in 0..(k + 1) |-> v[n]]
    OBVIOUS
  <2>4. ASSUME NEW n \in 0..(k + 1)
        PROVE  v[n] = IF n = 0 THEN f ELSE Onto(a, v[n - 1])
    <3>1. CASE n = k + 1
      <4>1. n # 0 /\ n - 1 = k /\ k \in 0..(k + 1) /\ k # k + 1
        BY <3>1, <2>1
      <4>2. v[n] = Onto(a, w[k]) /\ v[k] = w[k]
        BY <3>1, <4>1
      <4>. QED BY <4>1, <4>2
    <3>2. CASE n # k + 1
      <4>1. n \in 0..k
        BY <3>2, <2>1
      <4>2. v[n] = w[n] /\ (n # 0 => v[n - 1] = w[n - 1])
        BY <4>1, <2>1
      <4>. QED BY <2>2, <4>1, <4>2
    <3>. QED BY <3>1, <3>2
  <2>5. Goes(v, k + 1)
    <3>. HIDE DEF v
    <3>. QED BY <2>4
  <2>. HIDE DEF v, Goes
  <2>. QED BY <2>1, <2>3, <2>5
<1>3. PICK w : w = [n \in 0..N |-> w[n]] /\ Goes(w, N)
  <2>1. D \in SUBSET Nat
    OBVIOUS
  <2>2. D = Nat
    <3>. HIDE DEF D
    <3>. QED BY <1>1, <1>2, <2>1, SetInduction
  <2>3. N \in D
    BY <1>0, <2>2
  <2>. HIDE DEF Goes, N
  <2>. QED BY <2>3
<1>4. w = [n \in 0..N |-> IF n = 0 THEN f ELSE Onto(a, w[n - 1])]
  BY <1>3
<1>5. Way(a, f) = [n \in 0..N |-> IF n = 0 THEN f ELSE Onto(a, Way(a, f)[n - 1])]
  BY <1>4 DEF Way
<1>6. Goes(Way(a, f), N)
  BY <1>5
<1>7. ASSUME NEW u, Goes(u, N)
      PROVE  u[0] = f /\ \A n \in 1..N : u[n] = Onto(a, u[n - 1])
  <2>. HIDE DEF N
  <2>. QED BY <1>0, <1>7
<1>. QED BY <1>6, <1>7

\* A way that does not go on from a file stays there.
LEMMA WayRests ==
  ASSUME NEW a \in Archives, NEW f, NEW n \in 0..Len(a.files),
         Onto(a, Way(a, f)[n]) = Way(a, f)[n]
  PROVE  \A m \in n..Len(a.files) : Way(a, f)[m] = Way(a, f)[n]
<1>. DEFINE N == Len(a.files)
            D == {k \in Nat : n + k <= N => Way(a, f)[n + k] = Way(a, f)[n]}
<1>0. N \in Nat
  BY ArchiveAssumption
<1>1. 0 \in D
  BY <1>0
<1>2. ASSUME NEW k \in D
      PROVE  k + 1 \in D
  <2>1. ASSUME n + (k + 1) <= N
        PROVE  Way(a, f)[n + (k + 1)] = Way(a, f)[n]
    <3>1. /\ n + (k + 1) \in 1..N /\ (n + (k + 1)) - 1 = n + k /\ n + k <= N
      BY <1>0, <2>1
    <3>2. Way(a, f)[n + k] = Way(a, f)[n]
      BY <3>1
    <3>. HIDE DEF D
    <3>. QED BY <3>1, <3>2, WaySteps
  <2>. QED BY <2>1
<1>3. D = Nat
  <2>1. D \in SUBSET Nat
    OBVIOUS
  <2>. HIDE DEF D
  <2>. QED BY <1>1, <1>2, <2>1, SetInduction
<1>4. ASSUME NEW m \in n..N
      PROVE  Way(a, f)[m] = Way(a, f)[n]
  <2>1. m - n \in Nat /\ n + (m - n) = m /\ m <= N
    BY <1>0
  <2>2. m - n \in D
    BY <1>3, <2>1
  <2>. QED BY <2>1, <2>2
<1>. QED BY <1>4

\* A way along as many links as there are files comes to a file twice, so that
\* its last link leads to a file it came to before.
LEMMA WayReturns ==
  ASSUME NEW a \in Archives, NEW f,
         \A m \in 0..Len(a.files) : Way(a, f)[m] \in DOMAIN a.files
  PROVE  \E n \in 0..Len(a.files) : Way(a, f)[n] = Onto(a, Way(a, f)[Len(a.files)])
<1>. DEFINE N == Len(a.files)
            w == [m \in 0..N |-> Way(a, f)[m]]
<1>0. N \in Nat /\ DOMAIN a.files = 1..N
  BY ArchiveAssumption
<1>1. PICK x \in 0..N, y \in 0..N : x < y /\ Way(a, f)[x] = Way(a, f)[y]
  <2>1. IsFiniteSet(0..N) /\ Cardinality(0..N) = N + 1
    BY <1>0, FS_Interval
  <2>2. IsFiniteSet(1..N) /\ Cardinality(1..N) = N
    BY <1>0, FS_Interval
  <2>3. w \in [0..N -> 1..N]
    BY <1>0
  <2>4. N < N + 1
    BY <1>0
  <2>5. \E x, y \in 0..N : x # y /\ w[x] = w[y]
    <3>. HIDE DEF w, N
    <3>. QED BY <2>1, <2>2, <2>3, <2>4, FS_PigeonHole
  <2>6. PICK x \in 0..N, y \in 0..N : x # y /\ w[x] = w[y]
    BY <2>5
  <2>7. Way(a, f)[x] = Way(a, f)[y]
    BY <2>6
  <2>. QED BY <1>0, <2>6, <2>7
<1>. DEFINE D == {k \in Nat : y + k <= N => Way(a, f)[x + k] = Way(a, f)[y + k]}
<1>2. 0 \in D
  BY <1>1
<1>3. ASSUME NEW k \in D
      PROVE  k + 1 \in D
  <2>1. ASSUME y + (k + 1) <= N
        PROVE  Way(a, f)[x + (k + 1)] = Way(a, f)[y + (k + 1)]
    <3>1. /\ y + (k + 1) \in 1..N /\ (y + (k + 1)) - 1 = y + k /\ y + k <= N
          /\ x + (k + 1) \in 1..N /\ (x + (k + 1)) - 1 = x + k
      BY <1>0, <1>1, <2>1
    <3>2. Way(a, f)[x + k] = Way(a, f)[y + k]
      BY <3>1
    <3>3. \A n \in 1..N : Way(a, f)[n] = Onto(a, Way(a, f)[n - 1])
      BY WaySteps
    <3>. HIDE DEF D, N
    <3>. QED BY <3>1, <3>2, <3>3
  <2>. QED BY <2>1
<1>4. D = Nat
  <2>1. D \in SUBSET Nat
    OBVIOUS
  <2>. HIDE DEF D
  <2>. QED BY <1>2, <1>3, <2>1, SetInduction
<1>5. /\ N - y \in Nat /\ y + (N - y) = N
      /\ x + (N - y) + 1 \in 1..N /\ (x + (N - y) + 1) - 1 = x + (N - y)
  BY <1>0, <1>1
<1>6. Way(a, f)[x + (N - y)] = Way(a, f)[N]
  <2>1. N - y \in D
    BY <1>4, <1>5
  <2>. QED BY <1>0, <1>5, <2>1
<1>7. Way(a, f)[x + (N - y) + 1] = Onto(a, Way(a, f)[N])
  <2>1. \A n \in 1..N : Way(a, f)[n] = Onto(a, Way(a, f)[n - 1])
    BY WaySteps
  <2>. HIDE DEF D, N
  <2>. QED BY <1>5, <1>6, <2>1
<1>8. x + (N - y) + 1 \in 0..N
  BY <1>0, <1>5
<1>. QED BY <1>7, <1>8
-----------------------------------------------------------------------------
(* Extracting: which file a save is at, what is on disk, which directories *)
(* were made.                                                              *)

\* The entries of tried.
Attempts ==
  [file : Nat,
   path : [dir : Seq(STRING), name : {a.files[f].name : a \in Archives, f \in Nat}],
   success : BOOLEAN]

\* The file g is one whose data is saved by saving that of the next.
Follows(g) ==
  g \in Files /\ ~File(g).invalid /\ File(g).data # "none" /\ File(g).link # NoLink

\* A save has come to its file along the links, each of a file it could use.
Tracing ==
  pc = "save" =>
    /\ index \in Files
    /\ \E n \in 0..Len(arc.files) :
         /\ at = OnTheWay(index)[n]
         /\ \A m \in 0..(n - 1) : Follows(OnTheWay(index)[m])

\* The saves that succeeded and have no later one to the same path.
Lasting(t) ==
  {j \in DOMAIN t :
     t[j].success /\ \A l \in DOMAIN t : l > j => t[l].path # t[j].path}

OnDisk ==
  disk = {[path |-> tried[k].path, of |-> Source(tried[k].file), whole |-> TRUE] :
            k \in Lasting(tried)}

\* Earlier files were to go to each of the directories above that of the j-th.
Ready(t, j) == Above(t[j].path.dir) \subseteq {t[k].path.dir : k \in 1..(j - 1)}

\* A directory is below others that were made, and was made for a file; it was
\* made for each file if those above it were there.
Directories ==
  /\ \A d \in made : Above(d) \subseteq made
  /\ \A d \in made :
       \/ d = << >>
       \/ \E j \in DOMAIN tried : tried[j].path.dir = d
       \/ pc = "save" /\ d = DirOf(index)
  /\ (\A j \in DOMAIN tried : Ready(tried, j)) =>
       \A j \in DOMAIN tried : tried[j].path.dir \in made
  /\ pc = "save" => (Above(DirOf(index)) \subseteq made => DirOf(index) \in made)

Extracting ==
  /\ TypeInv
  /\ tried \in Seq(Attempts)
  /\ Tracing
  /\ OnDisk
  /\ Directories
  /\ SavedIfPossible

-----------------------------------------------------------------------------
\* What the archive says of a file stays.
LEMMA ArchiveStays ==
  ASSUME arc' = arc
  PROVE  /\ Files' = Files
         /\ \A f : File(f)' = File(f)
         /\ \A f : OnTheWay(f)' = OnTheWay(f)
         /\ \A f : Source(f)' = Source(f)
         /\ \A f : Readable(f)' = Readable(f)
         /\ \A f : Follows(f)' = Follows(f)
<1>1. Files' = Files /\ \A f : File(f)' = File(f)
  BY DEF Files, File
<1>2. \A f : OnTheWay(f)' = OnTheWay(f)
  BY OnTheWayIsWay
<1>3. \A f : Source(f)' = Source(f)
  BY <1>2 DEF Source
<1>4. \A f : Readable(f)' = Readable(f)
  BY <1>1, <1>2, <1>3 DEF Readable
<1>5. \A f : Follows(f)' = Follows(f)
  BY <1>1 DEF Follows
<1>. QED BY <1>1, <1>2, <1>3, <1>4, <1>5

\* In the archive at hand.
LEMMA Here ==
  ASSUME TypeInv
  PROVE  /\ arc \in Archives /\ Len(arc.files) \in Nat /\ Files = 1..Len(arc.files)
         /\ \A f : OnTheWay(f) = Way(arc, f)
         /\ \A f : Onto(arc, f) = Onward(f)
         /\ \A g : Follows(g) => Onward(g) = LinkTarget(g)
BY ArchiveAssumption, OnTheWayIsWay
   DEF TypeInv, TypeOK, Files, File, Onto, Onward, Follows, LinkTarget

\* The directory of a file is a path.
LEMMA DirIsPath ==
  ASSUME TypeInv, pc \in {"file", "save"}, NEW f \in Files
  PROVE  DirOf(f) \in Seq(STRING)
<1>1. arc \in Archives /\ group \in 1..Len(arc.groups)
  BY ArchiveAssumption DEF TypeInv, TypeOK
<1>2. Group.name \in Seq(STRING) /\ File(f).dir \in Seq(STRING)
  BY <1>1, ArchiveAssumption DEF Group, File, Files
<1>. QED BY <1>2, ConcatProperties DEF DirOf

\* The directories above a path are others, and none is the output directory.
LEMMA AboveIsShorter ==
  ASSUME NEW d \in Seq(STRING)
  PROVE  d \notin Above(d) /\ << >> \notin Above(d)
<1>1. Len(d) \in Nat /\ \A k \in 1..Len(d) : d[k] \in STRING
  BY LenProperties, ElementOfSeq
<1>2. ASSUME NEW n \in 1..(Len(d) - 1)
      PROVE  Len(SubSeq(d, 1, n)) = n
  <2>1. \A k \in 1..n : d[k] \in STRING
    BY <1>1
  <2>. QED BY <1>1, <2>1, SubSeqProperties
<1>3. Len(<< >>) = 0
  BY EmptySeq
<1>. QED BY <1>1, <1>2, <1>3 DEF Above

-----------------------------------------------------------------------------
(* FollowLink.                                                             *)

LEMMA FollowLinkTraces ==
  ASSUME TypeInv, Tracing, FollowLink
  PROVE  Tracing'
<1>. DEFINE N == Len(arc.files)
            w == OnTheWay(index)
<1>1. /\ pc = "save" /\ index' = index /\ arc' = arc
      /\ Follows(at) /\ at' = LinkTarget(at)
  BY DEF FollowLink, Follows
<1>2. /\ index \in Files
      /\ \E n \in 0..N : at = w[n] /\ \A m \in 0..(n - 1) : Follows(w[m])
  BY <1>1 DEF Tracing
<1>3. PICK n \in 0..N : at = w[n] /\ \A m \in 0..(n - 1) : Follows(w[m])
  BY <1>2
<1>4. N \in Nat
  BY Here
<1>5. \A m \in 0..n : Follows(w[m])
  <2>. HIDE DEF w, N
  <2>. QED BY <1>1, <1>3, <1>4
<1>6. at' = Onto(arc, w[n])
  BY <1>1, <1>3, Here
<1>7. w = Way(arc, index) /\ arc \in Archives
  BY Here
<1>8. \E k \in 0..N : at' = w[k] /\ \A m \in 0..(k - 1) : Follows(w[m])
  <2>1. CASE n < N
    <3>1. n + 1 \in 1..N /\ (n + 1) - 1 = n
      BY <1>4, <2>1
    <3>2. w[n + 1] = Onto(arc, w[n])
      BY <1>7, <3>1, WaySteps
    <3>3. n + 1 \in 0..N
      BY <1>4, <3>1
    <3>. HIDE DEF w, N
    <3>. QED BY <1>5, <1>6, <3>1, <3>2, <3>3
  <2>2. CASE n = N
    <3>1. \A m \in 0..N : Way(arc, index)[m] \in DOMAIN arc.files
      BY <1>5, <1>7, <2>2 DEF Follows, Files
    <3>2. PICK k \in 0..N : w[k] = Onto(arc, w[N])
      BY <1>7, <3>1, WayReturns
    <3>3. \A m \in 0..(k - 1) : Follows(w[m])
      BY <1>4, <1>5, <2>2
    <3>. QED BY <1>6, <2>2, <3>2, <3>3
  <2>. QED BY <1>4, <2>1, <2>2
<1>. QED BY <1>1, <1>2, <1>8, ArchiveStays DEF Tracing

-----------------------------------------------------------------------------
(* SaveFile.                                                               *)

\* A save that is at no link is at the file whose data it has been after; it
\* succeeds if it can get at the data and the directory is there.
LEMMA SaveIsAtSource ==
  ASSUME TypeInv, Tracing, SaveFile
  PROVE  /\ Opens => Source(index) = at
         /\ Opens /\ Saved.whole <=> Readable(index) /\ DirOf(index) \in made
<1>. DEFINE N == Len(arc.files)
            w == OnTheWay(index)
<1>1. /\ index \in Files
      /\ \E n \in 0..N : at = w[n] /\ \A m \in 0..(n - 1) : Follows(w[m])
  BY DEF Tracing, SaveFile
<1>2. PICK n \in 0..N : at = w[n] /\ \A m \in 0..(n - 1) : Follows(w[m])
  BY <1>1
<1>3. at \in Files => File(at).invalid \/ File(at).data = "none" \/ File(at).link = NoLink
  BY DEF SaveFile
<1>4. N \in Nat /\ w = Way(arc, index) /\ arc \in Archives
  BY Here
<1>5. ASSUME File(at).link = NoLink
      PROVE  \A m \in n..N : w[m] = at
  <2>1. Onto(arc, w[n]) = w[n]
    BY <1>2, <1>5 DEF Onto, File
  <2>. QED BY <1>2, <1>4, <2>1, WayRests
<1>6. Source(index) = w[N] /\ N \in n..N
  BY <1>4 DEF Source
<1>7. Opens => File(at).link = NoLink
  BY <1>3 DEF Opens
<1>8. Opens => Source(index) = at
  BY <1>5, <1>6, <1>7
<1>9. ASSUME Opens, Saved.whole
      PROVE  Readable(index) /\ DirOf(index) \in made
  <2>1. File(at).data = "whole"
    BY <1>9 DEF Saved
  <2>2. at \in Files /\ ~File(at).invalid /\ File(at).data # "none"
    BY <1>9, <2>1 DEF Opens
  <2>3. ASSUME NEW m \in 0..N
        PROVE  w[m] \in Files /\ ~File(w[m]).invalid /\ File(w[m]).data # "none"
    <3>1. CASE m < n
      <4>1. Follows(w[m])
        <5>1. m \in 0..(n - 1)
          BY <1>4, <3>1
        <5>. QED BY <1>2, <5>1
      <4>. QED BY <4>1 DEF Follows
    <3>2. CASE m >= n
      <4>1. w[m] = at
        <5>1. m \in n..N
          BY <1>4, <3>2
        <5>. QED BY <1>5, <1>7, <1>9, <5>1
      <4>. QED BY <2>2, <4>1
    <3>. QED BY <1>4, <3>1, <3>2
  <2>4. DirOf(index) \in made
    BY <1>9 DEF Opens
  <2>5. File(Source(index)).data = "whole"
    BY <1>8, <1>9, <2>1
  <2>. QED BY <2>3, <2>4, <2>5 DEF Readable
<1>10. ASSUME Readable(index), DirOf(index) \in made
       PROVE  Opens /\ Saved.whole
  <2>1. at \in Files /\ ~File(at).invalid /\ File(at).data # "none"
    BY <1>2, <1>10 DEF Readable
  <2>2. File(at).link = NoLink
    BY <1>3, <2>1
  <2>3. Source(index) = at
    BY <1>5, <1>6, <2>2
  <2>4. File(at).data = "whole"
    BY <1>10, <2>3 DEF Readable
  <2>. QED BY <1>10, <2>1, <2>4 DEF Opens, Saved
<1>. QED BY <1>8, <1>9, <1>10
\* The entry a save adds to tried.
Entry == [file |-> index, path |-> PathOf(index), success |-> Opens /\ Saved.whole]

LEMMA EntryAdded ==
  ASSUME Extracting, SaveFile
  PROVE  /\ Entry \in Attempts /\ tried' = Append(tried, Entry)
         /\ tried' \in Seq(Attempts)
         /\ Len(tried) \in Nat /\ DOMAIN tried = 1..Len(tried)
         /\ DOMAIN tried' = 1..(Len(tried) + 1)
         /\ \A j \in 1..Len(tried) : tried'[j] = tried[j]
         /\ tried'[Len(tried) + 1] = Entry
<1>1. TypeInv /\ Tracing /\ tried \in Seq(Attempts) /\ pc = "save"
  BY DEF Extracting, SaveFile
<1>2. index \in Files /\ arc \in Archives /\ Files = 1..Len(arc.files) /\ Len(arc.files) \in Nat
  BY <1>1, Here DEF Tracing
<1>3. DirOf(index) \in Seq(STRING)
  BY <1>1, <1>2, DirIsPath
<1>4. PathOf(index) \in
        [dir : Seq(STRING), name : {a.files[f].name : a \in Archives, f \in Nat}]
  <2>1. index \in Nat
    BY <1>2
  <2>2. arc.files[index].name \in {a.files[f].name : a \in Archives, f \in Nat}
    BY <1>2, <2>1
  <2>. QED BY <1>3, <2>2 DEF PathOf, File
<1>5. (Opens /\ Saved.whole) \in BOOLEAN
  OBVIOUS
<1>6. Entry \in Attempts
  BY <1>2, <1>4, <1>5 DEF Entry, Attempts
<1>7. tried' = Append(tried, Entry)
  BY DEF SaveFile, Entry
<1>8. /\ tried' \in Seq(Attempts) /\ Len(tried') = Len(tried) + 1
      /\ \A j \in 1..Len(tried) : tried'[j] = tried[j]
      /\ tried'[Len(tried) + 1] = Entry
  BY <1>1, <1>6, <1>7, AppendProperties
<1>9. /\ Len(tried) \in Nat /\ DOMAIN tried = 1..Len(tried)
      /\ DOMAIN tried' = 1..Len(tried')
  BY <1>1, <1>8, LenProperties
<1>. QED BY <1>6, <1>7, <1>8, <1>9

\* The last save to a path decides what is there.
LEMMA SaveIsOnDisk ==
  ASSUME Extracting, SaveFile
  PROVE  OnDisk'
<1>. DEFINE T == Len(tried)
            Left(t, k) == [path |-> t[k].path, of |-> Source(t[k].file), whole |-> TRUE]
<1>1. /\ T \in Nat /\ DOMAIN tried = 1..T /\ DOMAIN tried' = 1..(T + 1)
      /\ \A j \in 1..T : tried'[j] = tried[j]
      /\ tried'[T + 1] = Entry
  BY EntryAdded
<1>2. TypeInv /\ Tracing /\ OnDisk
  BY DEF Extracting
<1>3. /\ disk' = IF Opens /\ Saved.whole THEN Others \cup {Saved} ELSE Others
      /\ arc' = arc
  BY DEF SaveFile, Failed
<1>4. Opens /\ Saved.whole => Saved = Left(tried', T + 1)
  <2>1. ASSUME Opens, Saved.whole
        PROVE  Saved = [path |-> PathOf(index), of |-> Source(index), whole |-> TRUE]
    <3>1. Source(index) = at
      BY <1>2, <2>1, SaveIsAtSource
    <3>2. File(at).data = "whole"
      BY <2>1 DEF Saved
    <3>. QED BY <3>1, <3>2 DEF Saved
  <2>2. tried'[T + 1].path = PathOf(index) /\ tried'[T + 1].file = index
    BY <1>1 DEF Entry
  <2>3. Left(tried', T + 1) = [path |-> PathOf(index), of |-> Source(index), whole |-> TRUE]
    BY <2>2
  <2>. HIDE DEF Left
  <2>. QED BY <2>1, <2>3
<1>5. \A k \in 1..T : Left(tried', k) = Left(tried, k)
  BY <1>1
<1>6. disk = {Left(tried, k) : k \in Lasting(tried)}
  BY <1>2 DEF OnDisk
<1>7. Others = {Left(tried, k) : k \in {j \in Lasting(tried) : tried[j].path # PathOf(index)}}
  <2>1. \A k : Left(tried, k).path = tried[k].path
    OBVIOUS
  <2>. HIDE DEF Left
  <2>. QED BY <1>6, <2>1 DEF Others
<1>8. Lasting(tried') =
        {j \in Lasting(tried) : tried[j].path # PathOf(index)}
          \cup (IF Opens /\ Saved.whole THEN {T + 1} ELSE {})
  <2>1. /\ tried'[T + 1].path = PathOf(index)
        /\ tried'[T + 1].success = (Opens /\ Saved.whole)
    BY <1>1 DEF Entry
  <2>2. ASSUME NEW j \in 1..T
        PROVE  j \in Lasting(tried') <=> j \in Lasting(tried) /\ tried[j].path # PathOf(index)
    <3>1. T + 1 > j /\ tried'[j] = tried[j] /\ j \in 1..(T + 1) /\ T + 1 \in 1..(T + 1)
      BY <1>1
    <3>2. (\A l \in 1..(T + 1) : l > j => tried'[l].path # tried[j].path)
            <=> (\A l \in 1..T : l > j => tried[l].path # tried[j].path)
                /\ PathOf(index) # tried[j].path
      <4>1. \A l \in 1..(T + 1) : l \in 1..T \/ l = T + 1
        BY <1>1
      <4>2. \A l \in 1..T : l \in 1..(T + 1) /\ tried'[l].path = tried[l].path
        BY <1>1
      <4>. HIDE DEF T
      <4>. QED BY <2>1, <3>1, <4>1, <4>2
    <3>. QED BY <1>1, <3>1, <3>2 DEF Lasting
  <2>3. T + 1 \in Lasting(tried') <=> Opens /\ Saved.whole
    <3>1. T + 1 \in 1..(T + 1) /\ \A l \in 1..(T + 1) : ~(l > T + 1)
      BY <1>1
    <3>. QED BY <1>1, <2>1, <3>1 DEF Lasting
  <2>4. \A j \in Lasting(tried') : j \in 1..T \/ j = T + 1
    BY <1>1 DEF Lasting
  <2>5. \A j \in Lasting(tried) : j \in 1..T
    BY <1>1 DEF Lasting
  <2>. HIDE DEF T
  <2>. QED BY <2>2, <2>3, <2>4, <2>5
<1>9. disk' = {Left(tried', k) : k \in Lasting(tried')}
  <2>1. \A j \in Lasting(tried) : j \in 1..T
    BY <1>1 DEF Lasting
  <2>. HIDE DEF T, Left
  <2>2. CASE Opens /\ Saved.whole
    BY <1>3, <1>4, <1>5, <1>7, <1>8, <2>1, <2>2
  <2>3. CASE ~(Opens /\ Saved.whole)
    BY <1>3, <1>5, <1>7, <1>8, <2>1, <2>3
  <2>. QED BY <2>2, <2>3
<1>10. \A f : Source(f)' = Source(f)
  BY <1>3, ArchiveStays
<1>11. Lasting(tried)' = Lasting(tried')
  BY DEF Lasting
<1>. QED BY <1>9, <1>10, <1>11 DEF OnDisk

\* The directory of the file just saved is that of the entry.
LEMMA SaveKeepsDirectories ==
  ASSUME Extracting, SaveFile
  PROVE  /\ Directories'
         /\ \A j \in 1..Len(tried) : Ready(tried', j) <=> Ready(tried, j)
         /\ Ready(tried', Len(tried) + 1) <=> \A e \in Above(DirOf(index)) :
              \E j \in 1..Len(tried) : tried[j].path.dir = e
<1>. DEFINE T == Len(tried)
<1>1. /\ T \in Nat /\ DOMAIN tried = 1..T /\ DOMAIN tried' = 1..(T + 1)
      /\ \A j \in 1..T : tried'[j] = tried[j]
      /\ tried'[T + 1].path.dir = DirOf(index)
  BY EntryAdded DEF Entry, PathOf
<1>2. made' = made /\ pc = "save" /\ pc' = "file"
  BY DEF SaveFile
<1>3. ASSUME NEW j \in 1..(T + 1)
      PROVE  {tried'[k].path.dir : k \in 1..(j - 1)} = {tried[k].path.dir : k \in 1..(j - 1)}
  <2>1. \A k \in 1..(j - 1) : tried'[k].path.dir = tried[k].path.dir
    BY <1>1
  <2>. QED BY <2>1
<1>4. \A j \in 1..T : Ready(tried', j) <=> Ready(tried, j)
  <2>1. \A j \in 1..T : tried'[j].path.dir = tried[j].path.dir /\ j \in 1..(T + 1)
    BY <1>1
  <2>. QED BY <1>3, <2>1 DEF Ready
<1>5. Ready(tried', T + 1) <=> \A e \in Above(DirOf(index)) : \E j \in 1..T : tried[j].path.dir = e
  <2>1. T + 1 \in 1..(T + 1) /\ (T + 1) - 1 = T
    BY <1>1
  <2>2. {tried'[k].path.dir : k \in 1..T} = {tried[k].path.dir : k \in 1..T}
    BY <1>3, <2>1
  <2>3. Ready(tried', T + 1) <=> Above(DirOf(index)) \subseteq {tried'[k].path.dir : k \in 1..T}
    BY <1>1, <2>1 DEF Ready
  <2>. QED BY <2>2, <2>3
<1>6. \A j \in 1..(T + 1) : j \in 1..T \/ j = T + 1
  BY <1>1
<1>7. Directories
  BY DEF Extracting
<1>8. /\ \A d \in made : Above(d) \subseteq made
      /\ \A d \in made : d = << >> \/ \E j \in 1..(T + 1) : tried'[j].path.dir = d
  <2>1. \A j \in 1..T : j \in 1..(T + 1) /\ tried'[j].path.dir = tried[j].path.dir
    BY <1>1
  <2>2. T + 1 \in 1..(T + 1)
    BY <1>1
  <2>. HIDE DEF T
  <2>. QED BY <1>1, <1>7, <2>1, <2>2 DEF Directories
<1>9. ASSUME \A j \in 1..(T + 1) : Ready(tried', j)
      PROVE  \A j \in 1..(T + 1) : tried'[j].path.dir \in made
  <2>1. \A j \in 1..T : j \in 1..(T + 1)
    BY <1>1
  <2>2. \A j \in 1..T : Ready(tried, j)
    BY <1>4, <1>9, <2>1
  <2>3. \A j \in 1..T : tried[j].path.dir \in made
    BY <1>1, <1>7, <2>2 DEF Directories
  <2>4. T + 1 \in 1..(T + 1)
    BY <1>1
  <2>5. Above(DirOf(index)) \subseteq made
    BY <1>5, <1>9, <2>3, <2>4
  <2>6. DirOf(index) \in made
    BY <1>2, <1>7, <2>5 DEF Directories
  <2>. HIDE DEF T
  <2>. QED BY <1>1, <1>6, <2>3, <2>6
<1>10. Directories'
  <2>1. \A j : Ready(tried, j)' <=> Ready(tried', j)
    BY DEF Ready, Above
  <2>. QED BY <1>1, <1>2, <1>8, <1>9, <2>1 DEF Directories, Above
<1>. QED BY <1>4, <1>5, <1>10

\* SavedIfPossible of other saves t and another count c.
Possible(t, c) ==
  /\ \A k \in DOMAIN t :
       /\ t[k].success => Readable(t[k].file) /\ Ready(t, k)
       /\ Readable(t[k].file) /\ (\A j \in 1..k : Ready(t, j)) => t[k].success
  /\ c = Cardinality({k \in DOMAIN t : t[k].success})

LEMMA SavedIsPossible ==
  ASSUME arc' = arc
  PROVE  /\ SavedIfPossible <=> Possible(tried, count)
         /\ SavedIfPossible' <=> Possible(tried', count')
<1>1. SavedIfPossible <=> Possible(tried, count)
  BY DEF SavedIfPossible, Possible, Ready, Earlier
<1>2. SavedIfPossible' <=> Possible(tried', count')
  <2>1. \A f : Readable(f)' = Readable(f)
    BY ArchiveStays
  <2>. QED BY <2>1 DEF SavedIfPossible, Possible, Ready, Earlier
<1>. QED BY <1>1, <1>2

\* A save can be done if it is possible.
LEMMA SaveIsPossible ==
  ASSUME Extracting, SaveFile
  PROVE  SavedIfPossible'
<1>. DEFINE T == Len(tried)
<1>0. TypeInv /\ Tracing /\ Directories /\ SavedIfPossible /\ pc = "save"
  BY DEF Extracting, SaveFile
<1>1. /\ T \in Nat /\ DOMAIN tried = 1..T /\ DOMAIN tried' = 1..(T + 1)
      /\ \A j \in 1..T : tried'[j] = tried[j]
      /\ tried'[T + 1].file = index
      /\ tried'[T + 1].success = (Opens /\ Saved.whole)
  BY EntryAdded DEF Entry
<1>2. /\ \A j \in 1..T : Ready(tried', j) <=> Ready(tried, j)
      /\ Ready(tried', T + 1) <=> \A e \in Above(DirOf(index)) :
           \E j \in 1..T : tried[j].path.dir = e
  BY SaveKeepsDirectories
<1>3. /\ tried'[T + 1].success <=> Readable(index) /\ DirOf(index) \in made
      /\ \A f : Readable(f)' = Readable(f)
  BY <1>0, <1>1, SaveIsAtSource, ArchiveStays DEF SaveFile
<1>4. ASSUME NEW k \in 1..T
      PROVE  /\ tried'[k].success => Readable(tried'[k].file) /\ Ready(tried', k)
             /\ Readable(tried'[k].file) /\ (\A j \in 1..k : Ready(tried', j)) => tried'[k].success
  <2>1. \A j \in 1..k : j \in 1..T
    BY <1>1
  <2>2. /\ tried[k].success => Readable(tried[k].file) /\ Ready(tried, k)
        /\ Readable(tried[k].file) /\ (\A j \in 1..k : Ready(tried, j)) => tried[k].success
    BY <1>0, <1>1 DEF SavedIfPossible, Ready, Earlier
  <2>3. tried'[k] = tried[k] /\ (Ready(tried', k) <=> Ready(tried, k))
    BY <1>1, <1>2, <1>3
  <2>. HIDE DEF T
  <2>. QED BY <1>2, <2>1, <2>2, <2>3
<1>5. ASSUME tried'[T + 1].success
      PROVE  Readable(index) /\ Ready(tried', T + 1)
  <2>1. DirOf(index) \in Seq(STRING)
    BY <1>0, DirIsPath DEF Tracing
  <2>2. \A e \in Above(DirOf(index)) : e \in made /\ e # << >> /\ e # DirOf(index)
    BY <1>0, <1>3, <1>5, <2>1, AboveIsShorter DEF Directories
  <2>3. \A e \in Above(DirOf(index)) : \E j \in 1..T : tried[j].path.dir = e
    BY <1>0, <1>1, <2>2 DEF Directories
  <2>. QED BY <1>2, <1>3, <1>5, <2>3
<1>6. ASSUME Readable(index), \A j \in 1..(T + 1) : Ready(tried', j)
      PROVE  tried'[T + 1].success
  <2>1. \A j \in 1..T : Ready(tried, j)
    <3>1. \A j \in 1..T : j \in 1..(T + 1)
      BY <1>1
    <3>. QED BY <1>2, <1>6, <3>1
  <2>2. \A j \in 1..T : tried[j].path.dir \in made
    BY <1>0, <1>1, <2>1 DEF Directories
  <2>3. Above(DirOf(index)) \subseteq made
    <3>1. T + 1 \in 1..(T + 1)
      BY <1>1
    <3>. QED BY <1>2, <1>6, <2>2, <3>1
  <2>4. DirOf(index) \in made
    BY <1>0, <2>3 DEF Directories
  <2>. QED BY <1>3, <1>6, <2>4
<1>7. ASSUME NEW k \in 1..(T + 1)
      PROVE  /\ tried'[k].success => Readable(tried'[k].file) /\ Ready(tried', k)
             /\ Readable(tried'[k].file) /\ (\A j \in 1..k : Ready(tried', j)) => tried'[k].success
  <2>1. CASE k \in 1..T
    BY <1>4, <2>1
  <2>2. CASE k = T + 1
    <3>. HIDE DEF T
    <3>. QED BY <1>1, <1>5, <1>6, <2>2
  <2>. QED BY <1>1, <2>1, <2>2
<1>. DEFINE S == {k \in 1..T : tried[k].success}
            S1 == {k \in 1..(T + 1) : tried'[k].success}
<1>8. count' = Cardinality(S1)
  <2>1. count = Cardinality(S)
    BY <1>0, <1>1 DEF SavedIfPossible
  <2>2. IsFiniteSet(S) /\ T + 1 \notin S
    <3>1. IsFiniteSet(1..T) /\ S \in SUBSET (1..T)
      BY <1>1, FS_Interval
    <3>2. T + 1 \notin S
      BY <1>1
    <3>. HIDE DEF S
    <3>. QED BY <3>1, <3>2, FS_Subset
  <2>3. count' = count + (IF Opens /\ Saved.whole THEN 1 ELSE 0)
    BY DEF SaveFile
  <2>4. count \in Nat
    BY <1>0 DEF TypeInv, TypeOK
  <2>5. \A k \in 1..(T + 1) : k \in 1..T \/ k = T + 1
    BY <1>1
  <2>6. \A k \in 1..T : k \in 1..(T + 1) /\ tried'[k].success = tried[k].success
    BY <1>1
  <2>7. T + 1 \in 1..(T + 1)
    BY <1>1
  <2>8. CASE Opens /\ Saved.whole
    <3>1. S1 = S \cup {T + 1}
      <4>. HIDE DEF T
      <4>. QED BY <1>1, <2>5, <2>6, <2>7, <2>8
    <3>2. Cardinality(S \cup {T + 1}) = Cardinality(S) + 1
      <4>. HIDE DEF S, T
      <4>. QED BY <2>2, FS_AddElement
    <3>. QED BY <2>1, <2>3, <2>8, <3>1, <3>2
  <2>9. CASE ~(Opens /\ Saved.whole)
    <3>1. S1 = S
      <4>. HIDE DEF T
      <4>. QED BY <1>1, <2>5, <2>6, <2>7, <2>9
    <3>2. count' = count
      BY <2>3, <2>4, <2>9
    <3>. QED BY <2>1, <3>1, <3>2
  <2>. QED BY <2>8, <2>9
<1>9. SavedIfPossible' <=> Possible(tried', count')
  BY SavedIsPossible DEF SaveFile
<1>10. S1 = {k \in DOMAIN tried' : tried'[k].success}
  BY <1>1
<1>. HIDE DEF S1, T
<1>. QED BY <1>1, <1>7, <1>8, <1>9, <1>10 DEF Possible

-----------------------------------------------------------------------------
(* The other steps.                                                        *)

\* Nothing is made, saved or tried, and no save begins or ends.
LEMMA QuietKeeps ==
  ASSUME Extracting, TypeInv', Tracing', arc' = arc, UNCHANGED outputVars,
         \/ pc # "save" /\ pc' # "save"
         \/ UNCHANGED << pc, group, index >>
  PROVE  Extracting'
<1>1. made' = made /\ disk' = disk /\ count' = count /\ tried' = tried
  BY DEF outputVars
<1>2. tried \in Seq(Attempts) /\ OnDisk /\ Directories /\ SavedIfPossible
  BY DEF Extracting
<1>3. /\ \A f : Source(f)' = Source(f)
      /\ \A f : Readable(f)' = Readable(f)
  BY ArchiveStays
<1>4. OnDisk'
  BY <1>1, <1>2, <1>3 DEF OnDisk, Lasting
<1>5. SavedIfPossible'
  BY <1>1, <1>2, SavedIsPossible
<1>6. Directories'
  <2>1. CASE pc # "save" /\ pc' # "save"
    <3>1. \A j : Ready(tried, j)' <=> Ready(tried, j)
      BY <1>1 DEF Ready
    <3>. QED BY <1>1, <1>2, <2>1, <3>1 DEF Directories
  <2>2. CASE UNCHANGED << pc, group, index >>
    <3>1. \A f : DirOf(f)' = DirOf(f)
      BY <2>2 DEF DirOf, Group, File
    <3>2. DirOf(index)' = DirOf(index)
      BY <2>2 DEF DirOf, Group, File
    <3>. QED BY <1>1, <1>2, <2>2, <3>1, <3>2 DEF Directories, Ready
  <2>. QED BY <2>1, <2>2
<1>7. Seq(Attempts)' = Seq(Attempts)
  BY DEF Attempts
<1>. QED BY <1>1, <1>2, <1>4, <1>5, <1>6 DEF Extracting, Attempts

\* One directory may be added, that of the file about to be saved.
LEMMA ExtractFileKeeps ==
  ASSUME Extracting, TypeInv', ExtractFile
  PROVE  Extracting'
<1>1. /\ arc' = arc /\ index' = index /\ group' = group /\ at' = index
      /\ disk' = disk /\ count' = count /\ tried' = tried
      /\ made' = MakeDirectory(DirOf(index))
      /\ pc = "file" /\ pc' = "save" /\ index \in Files
  BY DEF ExtractFile, IsValid
<1>2. /\ TypeInv /\ tried \in Seq(Attempts) /\ OnDisk /\ Directories /\ SavedIfPossible
  BY DEF Extracting
<1>3. /\ \A f : Source(f)' = Source(f)
      /\ \A f : Readable(f)' = Readable(f)
      /\ Files' = Files
      /\ \A f : OnTheWay(f)' = OnTheWay(f)
  BY <1>1, ArchiveStays
<1>4. OnDisk'
  BY <1>1, <1>2, <1>3 DEF OnDisk, Lasting
<1>5. SavedIfPossible'
  BY <1>1, <1>2, SavedIsPossible
<1>6. Tracing'
  <2>1. OnTheWay(index)[0] = index /\ 0 \in 0..Len(arc.files)
    BY <1>2, Here, WaySteps
  <2>2. \A m \in 0..(0 - 1) : Follows(OnTheWay(index)[m])'
    OBVIOUS
  <2>3. \E n \in 0..Len(arc.files) :
          index = OnTheWay(index)[n] /\ \A m \in 0..(n - 1) : Follows(OnTheWay(index)[m])'
    BY <2>1, <2>2
  <2>4. \A n \in Int : n = 0 => 0..(n - 1) = {}
    OBVIOUS
  <2>. QED BY <1>1, <1>3, <2>1, <2>4 DEF Tracing
<1>7. Directories'
  <2>. DEFINE d == DirOf(index)
  <2>1. d' = d
    BY <1>1 DEF DirOf, Group, File
  <2>2. d \in Seq(STRING)
    BY <1>1, <1>2, DirIsPath
  <2>3. d \notin Above(d)
    BY <2>2, AboveIsShorter
  <2>4. /\ made \subseteq made'
        /\ \A e \in made' : e \in made \/ (e = d /\ Above(d) \subseteq made)
        /\ Above(d) \subseteq made => d \in made'
    BY <1>1 DEF MakeDirectory
  <2>5. Above(d) \subseteq made' => Above(d) \subseteq made
    BY <2>3, <2>4
  <2>6. \A e \in made' : Above(e) \subseteq made'
    BY <1>2, <2>4 DEF Directories
  <2>7. \A e \in made' : e = << >> \/ (\E j \in DOMAIN tried : tried[j].path.dir = e) \/ e = d
    BY <1>1, <1>2, <2>4 DEF Directories
  <2>8. (\A j \in DOMAIN tried : Ready(tried, j)) =>
          \A j \in DOMAIN tried : tried[j].path.dir \in made'
    BY <1>2, <2>4 DEF Directories
  <2>9. \A j : Ready(tried, j)' <=> Ready(tried, j)
    BY <1>1 DEF Ready
  <2>. HIDE DEF d
  <2>10. d' = DirOf(index)'
    BY DEF d
  <2>. QED BY <1>1, <2>1, <2>4, <2>5, <2>6, <2>7, <2>8, <2>9, <2>10 DEF Directories
<1>. QED BY <1>1, <1>2, <1>4, <1>5, <1>6, <1>7 DEF Extracting, Attempts

LEMMA ExtractingStep ==
  ASSUME Extracting, [Next]_vars
  PROVE  Extracting'
<1>1. TypeInv' /\ TypeInv /\ Tracing
  BY TypeStep DEF Extracting
<1>2. CASE NoHeader \/ BadHeader \/ GoodHeader
  <2>1. pc = "read" /\ pc' \in {"read", "group", "done"} /\ arc' = arc /\ UNCHANGED outputVars
    BY <1>2 DEF NoHeader, BadHeader, GoodHeader, HeadersRead
  <2>2. Tracing'
    BY <2>1 DEF Tracing
  <2>. QED BY <1>1, <2>1, <2>2, QuietKeeps
<1>3. CASE EnterGroup \/ LastGroup \/ LeaveGroup \/ SkipFile \/ Close
  <2>1. pc # "save" /\ pc' # "save" /\ arc' = arc /\ UNCHANGED outputVars
    BY <1>3 DEF EnterGroup, LastGroup, LeaveGroup, SkipFile, Close
  <2>2. Tracing'
    BY <2>1 DEF Tracing
  <2>. QED BY <1>1, <2>1, <2>2, QuietKeeps
<1>4. CASE ExtractFile
  BY <1>1, <1>4, ExtractFileKeeps
<1>5. CASE FollowLink
  <2>1. arc' = arc /\ UNCHANGED outputVars /\ UNCHANGED << pc, group, index >>
    BY <1>5 DEF FollowLink
  <2>. QED BY <1>1, <1>5, <2>1, FollowLinkTraces, QuietKeeps
<1>6. CASE SaveFile
  <2>1. Tracing'
    BY <1>6 DEF Tracing, SaveFile
  <2>2. tried' \in Seq(Attempts)
    BY <1>6, EntryAdded
  <2>. QED BY <1>1, <1>6, <2>1, <2>2, SaveIsOnDisk, SaveKeepsDirectories, SaveIsPossible
           DEF Extracting, Attempts
<1>7. CASE UNCHANGED vars
  <2>1. arc' = arc /\ UNCHANGED outputVars /\ UNCHANGED << pc, group, index, at >>
    BY <1>7 DEF vars
  <2>2. Tracing'
    BY <1>1, <2>1, ArchiveStays DEF Tracing
  <2>. QED BY <1>1, <2>1, <2>2, QuietKeeps
<1>. QED BY <1>2, <1>3, <1>4, <1>5, <1>6, <1>7 DEF Next, Step, Terminated

LEMMA ExtractingInit == Init => Extracting
<1> SUFFICES ASSUME Init PROVE Extracting
  OBVIOUS
<1>1. made = {<< >>} /\ disk = {} /\ count = 0 /\ tried = << >> /\ pc = "read"
  BY DEF Init
<1>2. tried \in Seq(Attempts) /\ DOMAIN tried = {}
  BY <1>1, EmptySeq
<1>3. OnDisk /\ Tracing
  BY <1>1, <1>2 DEF OnDisk, Lasting, Tracing
<1>4. SavedIfPossible
  <2>1. {k \in DOMAIN tried : tried[k].success} = {}
    BY <1>2
  <2>. QED BY <1>1, <1>2, <2>1, FS_EmptySet DEF SavedIfPossible
<1>5. Directories
  <2>1. Above(<< >>) = {}
    BY EmptySeq DEF Above
  <2>. QED BY <1>1, <1>2, <2>1 DEF Directories
<1>. QED BY <1>2, <1>3, <1>4, <1>5, TypeInit DEF Extracting

LEMMA AlwaysExtracting == Spec => []Extracting
<1>1. Extracting /\ [Next]_vars => Extracting'
  BY ExtractingStep
<1>. QED BY <1>1, ExtractingInit, PTL DEF Spec

\* The output directory holds what the last saves to each path have left: the
\* whole data of the file the last one was for, or nothing if that one failed.
THEOREM LastAttemptWins == Spec => []LastAttemptDecides
<1>1. Extracting => LastAttemptDecides
  BY DEF Extracting, OnDisk, Lasting, LastAttemptDecides
<1>. QED BY <1>1, AlwaysExtracting, PTL

\* A file is saved only if its data is readable and earlier files made the
\* directories above its own, and is saved if that was so for all files before
\* it as well; the helper's count is that of the saves that succeeded.
THEOREM SavesWhatItCan == Spec => []SavedIfPossible
<1>1. Extracting => SavedIfPossible
  BY DEF Extracting
<1>. QED BY <1>1, AlwaysExtracting, PTL
=============================================================================
