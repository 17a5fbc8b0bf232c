--------------------------- MODULE OverlayProofs ---------------------------
(***************************************************************************)
(* AnswersAgree and OwnPackagesOnly hold for every set of images and of    *)
(* directories and every bound.  Neither is inductive.  Why the second     *)
(* answer is like the first lies in the sizes that are remembered, which   *)
(* CacheInv ties to the first measurement.  Why old names in the list of   *)
(* dumps do no harm is that their files are gone, which DumpsInv says.     *)
(***************************************************************************)
EXTENDS OverlayUnpackers, SequenceTheorems, TLAPS

\* The overlay as the first measurement makes it.
Measured == Difference(parser.fileSize, img.pe)

CacheInv ==
  /\ img \in Images /\ world \in Images \cup {NoFile}
  /\ renewed \in BOOLEAN
  /\ parser \in [fileSize : Nat, peSize : Nat, overlaySize : Nat, overlayOffset : Nat]
  /\ parser.peSize \in {0, img.pe}
  /\ parser.overlaySize > 0 => parser.fileSize > 0 /\ parser.overlaySize = Measured
  /\ parser.overlayOffset > 0 =>
       /\ parser.fileSize > 0 /\ Measured # 0
       /\ parser.overlayOffset = img.pe
  /\ ~renewed => IF parser.fileSize = 0 THEN world = img
                 ELSE parser.fileSize = FileLength(img)
  /\ parser.fileSize = 0 => answered = {}
  /\ \A a \in answered :
       \/ a.what = "size" /\ a.is = Measured
       \/ a.what = "offset" /\ a.is = (IF Measured = 0 THEN 0 ELSE img.pe)

-----------------------------------------------------------------------------
\* The difference of unsigned numbers is one.
LEMMA DifferenceIsUnsigned ==
  ASSUME NEW a \in Int, NEW b \in Int
  PROVE  Difference(a, b) \in 0..(Word - 1)
BY LengthAssumption DEF Difference

\* A difference that fits is not changed by the modulus.
LEMMA DifferenceExact ==
  ASSUME NEW m \in Images
  PROVE  Difference(FileLength(m), m.pe) = FileLength(m) - m.pe
BY LengthAssumption, OverlayAssumption DEF Difference

\* What a measurement gives.
LEMMA LengthIsNat ==
  ASSUME CacheInv
  PROVE  /\ LengthNow \in Nat
         /\ GetPEFileSize(parser) \in Nat
         /\ img.pe \in Nat \ {0}
         /\ GetPEPESize(parser) = img.pe
BY LengthAssumption, OverlayAssumption
   DEF CacheInv, LengthNow, GetPEFileSize, GetPEPESize

\* The answers, by whether the file could be measured.
LEMMA SizeAnswer ==
  ASSUME CacheInv
  PROVE  LET n == GetPEFileSize(parser)
         IN  GetOverlaySize(parser) = IF n = 0 THEN 0 ELSE Difference(n, img.pe)
<1>1. CASE parser.overlaySize > 0
  BY <1>1 DEF CacheInv, Measured, GetOverlaySize, GetPEFileSize
<1>2. CASE ~(parser.overlaySize > 0)
  BY <1>2, LengthIsNat DEF GetOverlaySize
<1> QED BY <1>1, <1>2

\* The answer to the other question.
LEMMA OffsetAnswer ==
  ASSUME CacheInv
  PROVE  LET n == GetPEFileSize(parser)
         IN  GetOverlayOffset(parser) =
               IF n = 0 \/ Difference(n, img.pe) = 0 THEN 0 ELSE img.pe
<1>1. CASE parser.overlayOffset > 0
  BY <1>1 DEF CacheInv, Measured, GetOverlayOffset, GetPEFileSize
<1>2. CASE ~(parser.overlayOffset > 0)
  BY <1>2, SizeAnswer, LengthIsNat DEF GetOverlayOffset
<1> QED BY <1>1, <1>2

\* What is remembered after a question.
LEMMA SizeRemembered ==
  ASSUME CacheInv
  PROVE  LET n == GetPEFileSize(parser)
             q == SizeAsked(parser)
         IN  /\ q \in [fileSize : Nat, peSize : Nat, overlaySize : Nat, overlayOffset : Nat]
             /\ q.fileSize = n
             /\ q.peSize \in {0, img.pe}
             /\ q.overlaySize > 0 => n > 0 /\ q.overlaySize = Difference(n, img.pe)
             /\ q.overlayOffset = parser.overlayOffset
<1> DEFINE n == GetPEFileSize(parser)
<1>1. CASE parser.overlaySize > 0
  BY <1>1 DEF CacheInv, Measured, SizeAsked, GetPEFileSize
<1>2. CASE ~(parser.overlaySize > 0) /\ n = 0
  <2>1. SizeAsked(parser) = parser
    BY <1>2 DEF SizeAsked
  <2>2. parser.fileSize = 0
    BY <1>2 DEF CacheInv, GetPEFileSize
  <2> QED BY <1>2, <2>1, <2>2 DEF CacheInv
<1>3. CASE ~(parser.overlaySize > 0) /\ n # 0
  <2>1. SizeAsked(parser) =
          [FileSizeKept(parser) EXCEPT !.peSize = img.pe,
                                       !.overlaySize = Difference(n, img.pe)]
    BY <1>3, SizeAnswer, LengthIsNat DEF SizeAsked
  <2>2. n \in Nat /\ img.pe \in Nat
    BY LengthIsNat
  <2>3. Difference(n, img.pe) \in Nat
    <3>1. n \in Int /\ img.pe \in Int
      BY <2>2
    <3>2. Difference(n, img.pe) \in 0..(Word - 1)
      BY <3>1, DifferenceIsUnsigned, Zenon
    <3> QED BY <3>2, LengthAssumption
  <2>4. FileSizeKept(parser) = [parser EXCEPT !.fileSize = n]
    BY DEF FileSizeKept
  <2> DEFINE d == Difference(n, img.pe)
  <2> HIDE DEF n, d
  <2>5. SizeAsked(parser) =
          [fileSize |-> n, peSize |-> img.pe, overlaySize |-> d,
           overlayOffset |-> parser.overlayOffset]
    BY <2>1, <2>4 DEF CacheInv, d
  <2> QED BY <1>3, <2>2, <2>3, <2>5 DEF CacheInv, n, d
<1> QED BY <1>1, <1>2, <1>3

\* After the other question the offset may be remembered as well.
LEMMA OffsetRemembered ==
  ASSUME CacheInv
  PROVE  LET n == GetPEFileSize(parser)
             q == OffsetAsked(parser)
         IN  /\ q \in [fileSize : Nat, peSize : Nat, overlaySize : Nat, overlayOffset : Nat]
             /\ q.fileSize = n
             /\ q.peSize \in {0, img.pe}
             /\ q.overlaySize > 0 => n > 0 /\ q.overlaySize = Difference(n, img.pe)
             /\ q.overlayOffset > 0 =>
                  n > 0 /\ Difference(n, img.pe) # 0 /\ q.overlayOffset = img.pe
<1> DEFINE n == GetPEFileSize(parser)
<1>1. CASE parser.overlayOffset > 0
  <2>1. OffsetAsked(parser) = parser /\ n = parser.fileSize
    BY <1>1 DEF CacheInv, OffsetAsked, GetPEFileSize
  <2> QED BY <1>1, <2>1 DEF CacheInv, Measured
<1>2. CASE ~(parser.overlayOffset > 0)
  <2> DEFINE q == SizeAsked(parser)
             o == GetOverlayOffset(parser)
  <2>1. OffsetAsked(parser) = [q EXCEPT !.overlayOffset = o]
    BY <1>2 DEF OffsetAsked
  <2>2. o = IF n = 0 \/ Difference(n, img.pe) = 0 THEN 0 ELSE img.pe
    BY OffsetAnswer
  <2>3. n \in Nat /\ img.pe \in Nat /\ o \in Nat
    BY <2>2, LengthIsNat
  <2>4. /\ q \in [fileSize : Nat, peSize : Nat, overlaySize : Nat, overlayOffset : Nat]
        /\ q.fileSize = n /\ q.peSize \in {0, img.pe}
        /\ q.overlaySize > 0 => n > 0 /\ q.overlaySize = Difference(n, img.pe)
    BY SizeRemembered
  <2> HIDE DEF n, q, o
  <2>5. OffsetAsked(parser) =
          [fileSize |-> n, peSize |-> q.peSize, overlaySize |-> q.overlaySize,
           overlayOffset |-> o]
    BY <2>1, <2>4
  <2> QED BY <2>2, <2>3, <2>4, <2>5 DEF n
<1> QED BY <1>1, <1>2

-----------------------------------------------------------------------------
(* CacheInv is inductive.                                                  *)

\* A question leaves what is remembered in order, whatever was asked.
LEMMA AnswerKeeps ==
  ASSUME CacheInv,
         NEW n, n = GetPEFileSize(parser),
         NEW what, NEW is,
         parser' \in [fileSize : Nat, peSize : Nat, overlaySize : Nat, overlayOffset : Nat],
         parser'.fileSize = n,
         parser'.peSize \in {0, img.pe},
         parser'.overlaySize > 0 => n > 0 /\ parser'.overlaySize = Difference(n, img.pe),
         parser'.overlayOffset > 0 =>
           n > 0 /\ Difference(n, img.pe) # 0 /\ parser'.overlayOffset = img.pe,
         n # 0 => \/ what = "size" /\ is = Difference(n, img.pe)
                  \/ what = "offset" /\ is = (IF Difference(n, img.pe) = 0 THEN 0 ELSE img.pe),
         Answer(what, is),
         UNCHANGED << world, img, renewed >>
  PROVE  CacheInv'
<1>1. n \in Nat /\ (parser.fileSize > 0 => n = parser.fileSize)
  BY LengthIsNat DEF GetPEFileSize
<1>2. parser.fileSize \in Nat /\ parser'.fileSize \in Nat
  BY DEF CacheInv
<1>3. Measured' = Difference(n, img.pe)
  BY DEF Measured, Difference
<1>4. ~renewed => n = FileLength(img) /\ n # 0
  <2> SUFFICES ASSUME ~renewed PROVE n = FileLength(img) /\ n # 0
    OBVIOUS
  <2>1. img \in Images /\ img # NoFile /\ FileLength(img) \in Nat \ {0}
    BY LengthAssumption, OverlayAssumption DEF CacheInv
  <2>2. CASE parser.fileSize = 0
    <3>1. world = img
      BY <2>2 DEF CacheInv
    <3> QED BY <2>1, <2>2, <3>1 DEF GetPEFileSize, LengthNow
  <2>3. CASE parser.fileSize # 0
    BY <1>1, <1>2, <2>1, <2>3 DEF CacheInv
  <2> QED BY <2>2, <2>3
<1>5. n = 0 => answered' = {}
  BY <1>1, <1>2 DEF Answer, CacheInv
<1>6. \A a \in answered' :
         \/ a.what = "size" /\ a.is = Measured'
         \/ a.what = "offset" /\ a.is = (IF Measured' = 0 THEN 0 ELSE img.pe)
  <2> SUFFICES ASSUME NEW a \in answered', n # 0
               PROVE  \/ a.what = "size" /\ a.is = Measured'
                      \/ a.what = "offset" /\ a.is = (IF Measured' = 0 THEN 0 ELSE img.pe)
    BY <1>5
  <2>1. a \in answered \/ a = [what |-> what, is |-> is]
    BY DEF Answer
  <2>2. CASE a \in answered
    <3>1. parser.fileSize # 0
      BY <2>2 DEF CacheInv
    <3>2. Measured' = Measured
      BY <1>1, <1>2, <1>3, <3>1 DEF Measured
    <3> QED BY <2>2, <3>2 DEF CacheInv
  <2>3. CASE a = [what |-> what, is |-> is]
    BY <1>3, <2>3
  <2> QED BY <2>1, <2>2, <2>3
<1> QED BY <1>2, <1>3, <1>4, <1>5, <1>6 DEF CacheInv

\* AskSize is such a question.
LEMMA AskSizeKeeps ==
  ASSUME CacheInv, NEW n, AskSize(n)
  PROVE  CacheInv'
<1> DEFINE m == GetPEFileSize(parser)
<1>1. parser' = SizeAsked(parser)
  BY DEF AskSize
<1>2. m # 0 => n = Difference(m, img.pe)
  BY SizeAnswer DEF AskSize
<1>3. parser'.overlayOffset > 0 => m > 0 /\ Difference(m, img.pe) # 0 /\ parser'.overlayOffset = img.pe
  BY <1>1, SizeRemembered DEF CacheInv, Measured, GetPEFileSize
<1>4. Answer("size", n) /\ UNCHANGED << world, img, renewed >>
  BY DEF AskSize
<1>5. /\ parser' \in [fileSize : Nat, peSize : Nat, overlaySize : Nat, overlayOffset : Nat]
      /\ parser'.fileSize = m
      /\ parser'.peSize \in {0, img.pe}
      /\ parser'.overlaySize > 0 => m > 0 /\ parser'.overlaySize = Difference(m, img.pe)
  BY <1>1, SizeRemembered
<1> QED BY <1>2, <1>3, <1>4, <1>5, AnswerKeeps

\* So is AskOffset.
LEMMA AskOffsetKeeps ==
  ASSUME CacheInv, NEW n, AskOffset(n)
  PROVE  CacheInv'
<1> DEFINE m == GetPEFileSize(parser)
<1>1. parser' = OffsetAsked(parser)
  BY DEF AskOffset
<1>2. m # 0 => n = (IF Difference(m, img.pe) = 0 THEN 0 ELSE img.pe)
  BY OffsetAnswer DEF AskOffset
<1>3. Answer("offset", n) /\ UNCHANGED << world, img, renewed >>
  BY DEF AskOffset
<1>4. /\ parser' \in [fileSize : Nat, peSize : Nat, overlaySize : Nat, overlayOffset : Nat]
      /\ parser'.fileSize = m
      /\ parser'.peSize \in {0, img.pe}
      /\ parser'.overlaySize > 0 => m > 0 /\ parser'.overlaySize = Difference(m, img.pe)
      /\ parser'.overlayOffset > 0 =>
           m > 0 /\ Difference(m, img.pe) # 0 /\ parser'.overlayOffset = img.pe
  BY <1>1, OffsetRemembered
<1> QED BY <1>2, <1>3, <1>4, AnswerKeeps

\* Nothing is remembered after Parse.
LEMMA FreshIsEmpty ==
  /\ Fresh \in [fileSize : Nat, peSize : Nat, overlaySize : Nat, overlayOffset : Nat]
  /\ Fresh.fileSize = 0 /\ Fresh.peSize = 0
  /\ ~(Fresh.overlaySize > 0) /\ ~(Fresh.overlayOffset > 0)
BY DEF Fresh

\* A new image forgets what was remembered and answered.
LEMMA ParseKeeps ==
  ASSUME CacheInv, Parse
  PROVE  CacheInv'
<1>1. /\ img' \in Images /\ world' = img' /\ renewed' = FALSE /\ answered' = {}
      /\ parser' = Fresh
  BY DEF Parse, CacheInv
<1> QED BY <1>1, FreshIsEmpty DEF CacheInv

\* Another file at the path matters only before the size is read.
LEMMA ReplaceKeeps ==
  ASSUME CacheInv, Replace
  PROVE  CacheInv'
<1>1. Measured' = Measured
  BY DEF Replace, Measured, Difference
<1>2. /\ world' \in Images \cup {NoFile} /\ renewed' \in BOOLEAN
      /\ ~renewed' => ~renewed /\ parser.fileSize # 0
      /\ UNCHANGED << img, parser, answered >>
  BY DEF Replace, CacheInv
<1> QED BY <1>1, <1>2 DEF CacheInv

\* No other step touches what CacheInv speaks of.
LEMMA CacheStep ==
  ASSUME CacheInv, [Next]_vars
  PROVE  CacheInv'
<1>1. CASE Call
  BY <1>1, ParseKeeps DEF Call
<1>2. CASE AskForOffset
  BY <1>2, AskOffsetKeeps DEF AskForOffset
<1>3. CASE MatcherAsksForSize
  BY <1>3, AskSizeKeeps DEF MatcherAsksForSize
<1>4. CASE UnpackerAsksForSize
  BY <1>4, AskSizeKeeps DEF UnpackerAsksForSize
<1>5. CASE ReplaceFile
  BY <1>5, ReplaceKeeps DEF ReplaceFile
<1>6. CASE UNCHANGED overlayVars
  BY <1>6 DEF CacheInv, Measured, Difference, overlayVars
<1>7. CASE OtherCall \/ NoOverlay \/ DumpPackage \/ EndPackages \/ ExtractDump \/ EndExtract
  BY <1>6, <1>7 DEF OtherCall, NoOverlay, DumpPackage, EndPackages, ExtractDump, EndExtract
<1>8. CASE FindCab \/ EndSearch \/ DumpCab \/ EndDump \/ UnpackCab \/ EndCabs
  BY <1>6, <1>8 DEF FindCab, EndSearch, DumpCab, EndDump, UnpackCab, EndCabs
<1>9. CASE UNCHANGED vars
  BY <1>6, <1>9 DEF vars
<1> QED BY <1>1, <1>2, <1>3, <1>4, <1>5, <1>7, <1>8, <1>9 DEF Next, Terminated

\* At the start nothing is remembered.
LEMMA CacheInit == Init => CacheInv
<1> SUFFICES ASSUME Init PROVE CacheInv
  OBVIOUS
<1>1. /\ img \in Images /\ world = img /\ renewed = FALSE /\ answered = {}
      /\ parser = Fresh
  BY DEF Init
<1> QED BY <1>1, FreshIsEmpty DEF CacheInv

\* Answers that CacheInv allows agree, and describe the mapped image unless
\* its file was replaced before it was measured.
LEMMA CacheImpliesAgree == CacheInv => AnswersAgree
<1> SUFFICES ASSUME CacheInv PROVE AnswersAgree
  OBVIOUS
<1>1. \A a, b \in answered : a.what = b.what => a.is = b.is
  BY DEF CacheInv
<1>2. ASSUME NEW a \in answered, ~renewed
      PROVE  LET overlay == FileLength(img) - img.pe
             IN  a.is = IF a.what = "size" \/ overlay = 0 THEN overlay ELSE img.pe
  <2>1. parser.fileSize = FileLength(img)
    BY <1>2 DEF CacheInv
  <2>2. Measured = FileLength(img) - img.pe
    BY <2>1, DifferenceExact DEF CacheInv, Measured
  <2> QED BY <1>2, <2>2 DEF CacheInv
<1> QED BY <1>1, <1>2 DEF AnswersAgree

\* Within a call CPEParser gives no two different answers about the overlay,
\* however often it is asked and the file replaced.
THEOREM AnswersAlwaysAgree == Spec => []AnswersAgree
<1>1. Init => CacheInv
  BY CacheInit
<1>2. CacheInv /\ [Next]_vars => CacheInv'
  BY CacheStep
<1> QED BY <1>1, <1>2, CacheImpliesAgree, PTL DEF Spec

-----------------------------------------------------------------------------
(* The dumps of the .NET unpacker.                                         *)

DumpName == [dir : Dirs, num : Nat]

DumpsInv ==
  /\ vec \in Seq(DumpName) /\ num \in Nat /\ dst \in Dirs /\ next \in Nat \ {0}
  /\ pc \notin {"packages", "extract"} => dumps = {}
  /\ pc = "packages" => next = 1
  /\ \A d \in dumps :
       /\ d.call = call
       /\ \E k \in 1..Len(vec) : k >= next /\ vec[k].dir = d.dir /\ vec[k].num = d.num
  /\ contents \in [Dirs -> SUBSET [by : Nat, of : Nat]]
  /\ call \in Nat
  /\ \A d \in Dirs : \A p \in contents[d] : p.by = p.of

\* A new dump is the last of the list.
LEMMA DumpPackageKeeps ==
  ASSUME DumpsInv, DumpPackage
  PROVE  DumpsInv'
<1> DEFINE name == [dir |-> dst, num |-> num]
<1>1. /\ pc = "packages" /\ pc' = pc /\ next = 1 /\ num' = num + 1
      /\ UNCHANGED << call, dst, next, contents >>
  BY DEF DumpsInv, DumpPackage, callVars
<1>2. \/ UNCHANGED << vec, dumps >>
      \/ /\ vec' = Append(vec, name)
         /\ \E i \in PackageHere :
              dumps' = dumps \cup {[dir |-> dst, num |-> num, call |-> call, part |-> i]}
  BY DEF DumpPackage
<1>3. CASE UNCHANGED << vec, dumps >>
  BY <1>1, <1>3 DEF DumpsInv
<1>4. CASE ~ UNCHANGED << vec, dumps >>
  <2>1. PICK i \in PackageHere :
          dumps' = dumps \cup {[dir |-> dst, num |-> num, call |-> call, part |-> i]}
    BY <1>2, <1>4
  <2>2. name \in DumpName /\ vec \in Seq(DumpName)
    BY DEF DumpsInv, DumpName
  <2>3. /\ vec' \in Seq(DumpName) /\ Len(vec') = Len(vec) + 1 /\ Len(vec) \in Nat
        /\ \A k \in 1..Len(vec) : vec'[k] = vec[k]
        /\ vec'[Len(vec) + 1] = name
    BY <1>2, <1>4, <2>2, AppendProperties, LenProperties
  <2>4. ASSUME NEW d \in dumps'
        PROVE  /\ d.call = call
               /\ \E k \in 1..Len(vec') : k >= 1 /\ vec'[k].dir = d.dir /\ vec'[k].num = d.num
    <3>1. CASE d \in dumps
      <4>1. d.call = call
        BY <3>1 DEF DumpsInv
      <4>2. PICK k \in 1..Len(vec) : vec[k].dir = d.dir /\ vec[k].num = d.num
        BY <3>1 DEF DumpsInv
      <4>3. k \in 1..Len(vec') /\ vec'[k] = vec[k]
        BY <2>3
      <4> QED BY <4>1, <4>2, <4>3
    <3>2. CASE d \notin dumps
      <4>1. d = [dir |-> dst, num |-> num, call |-> call, part |-> i]
        BY <2>1, <3>2
      <4>2. Len(vec) + 1 \in 1..Len(vec')
        BY <2>3
      <4> QED BY <2>3, <4>1, <4>2
    <3> QED BY <3>1, <3>2
  <2>5. num' \in Nat
    BY <1>1 DEF DumpsInv
  <2> QED BY <1>1, <2>3, <2>4, <2>5 DEF DumpsInv
<1> QED BY <1>3, <1>4

\* A dump that is unpacked is of this call; it is removed with its name.
LEMMA ExtractDumpKeeps ==
  ASSUME DumpsInv, ExtractDump
  PROVE  DumpsInv'
<1>1. /\ pc = "extract" /\ pc' = pc /\ next' = next + 1 /\ dumps' = RemoveDump(next)
      /\ UNCHANGED << call, dst, vec, num >>
  BY DEF ExtractDump, callVars
<1> DEFINE new == {[by |-> call, of |-> d.call] : d \in Named(next)}
<1>2. \A p \in new : p = [by |-> call, of |-> call] /\ p \in [by : Nat, of : Nat]
  BY DEF Named, DumpsInv
<1>3. \/ contents' = contents
      \/ contents' = [contents EXCEPT ![dst] = @ \cup new]
  BY DEF ExtractDump
<1>4. /\ contents' \in [Dirs -> SUBSET [by : Nat, of : Nat]]
      /\ \A d \in Dirs : \A p \in contents'[d] : p.by = p.of
  BY <1>2, <1>3 DEF DumpsInv
<1>5. ASSUME NEW d \in dumps'
      PROVE  /\ d.call = call
             /\ \E k \in 1..Len(vec) : k >= next + 1 /\ vec[k].dir = d.dir /\ vec[k].num = d.num
  <2>1. d \in dumps /\ ~(d.dir = vec[next].dir /\ d.num = vec[next].num)
    BY <1>1 DEF RemoveDump, Named
  <2>2. PICK k \in 1..Len(vec) : k >= next /\ vec[k].dir = d.dir /\ vec[k].num = d.num
    BY <2>1 DEF DumpsInv
  <2>3. k # next
    BY <2>1, <2>2
  <2>4. k >= next + 1
    BY <2>2, <2>3 DEF DumpsInv
  <2> QED BY <2>1, <2>2, <2>4 DEF DumpsInv
<1>6. next' \in Nat \ {0}
  BY <1>1 DEF DumpsInv
<1> QED BY <1>1, <1>4, <1>5, <1>6 DEF DumpsInv

\* After the last name no dump is left.
LEMMA EndExtractKeeps ==
  ASSUME DumpsInv, EndExtract
  PROVE  DumpsInv'
<1>1. /\ next > Len(vec) /\ pc' = "idle"
      /\ UNCHANGED << call, dst, vec, num, next, dumps, contents >>
  BY DEF EndExtract, Return, callVars, dotnetVars
<1>2. Len(vec) \in Nat /\ next \in Nat
  BY LenProperties DEF DumpsInv
<1>3. dumps = {}
  BY <1>1, <1>2 DEF DumpsInv
<1> QED BY <1>1, <1>3 DEF DumpsInv

\* Where there are no dumps, nothing but the list of names is carried on.
LEMMA OutsideKeeps ==
  ASSUME DumpsInv,
         pc \notin {"packages", "extract"},
         UNCHANGED << vec, num, dumps, contents >>,
         call' \in Nat, dst' \in Dirs, next' \in Nat \ {0},
         pc' = "packages" => next' = 1
  PROVE  DumpsInv'
BY DEF DumpsInv

\* DumpsInv is inductive.
LEMMA DumpsStep ==
  ASSUME DumpsInv, [Next]_vars
  PROVE  DumpsInv'
<1>1. call \in Nat /\ dst \in Dirs /\ next \in Nat \ {0} /\ next + 1 \in Nat \ {0}
  BY DEF DumpsInv
<1>2. CASE OtherCall \/ Call
  <2>1. call' \in Nat
    BY <1>1, <1>2 DEF OtherCall, Call
  <2> QED BY <1>1, <1>2, <2>1, OutsideKeeps DEF OtherCall, Call, dotnetVars
<1>3. CASE AskForOffset \/ MatcherAsksForSize \/ NoOverlay
  BY <1>1, <1>3, OutsideKeeps
     DEF AskForOffset, MatcherAsksForSize, NoOverlay, Return, callVars, dotnetVars
<1>4. CASE UnpackerAsksForSize
  BY <1>1, <1>4, OutsideKeeps DEF UnpackerAsksForSize, Return, callVars, dotnetVars
<1>5. CASE ReplaceFile
  BY <1>5 DEF ReplaceFile, DumpsInv, dotnetVars
<1>6. CASE DumpPackage
  BY <1>6, DumpPackageKeeps
<1>7. CASE EndPackages
  BY <1>7 DEF EndPackages, DumpsInv, callVars, dotnetVars
<1>8. CASE ExtractDump
  BY <1>8, ExtractDumpKeeps
<1>9. CASE EndExtract
  BY <1>9, EndExtractKeeps
<1>10. CASE FindCab \/ EndSearch \/ DumpCab
  BY <1>1, <1>10, OutsideKeeps DEF FindCab, EndSearch, DumpCab, Return, callVars, dotnetVars
<1>11. CASE EndDump \/ UnpackCab \/ EndCabs
  BY <1>1, <1>11, OutsideKeeps DEF EndDump, UnpackCab, EndCabs, Return, callVars, dotnetVars
<1>12. CASE UNCHANGED vars
  BY <1>12 DEF DumpsInv, vars, callVars, dotnetVars
<1> QED BY <1>2, <1>3, <1>4, <1>5, <1>6, <1>7, <1>8, <1>9, <1>10, <1>11, <1>12
        DEF Next, Terminated

\* At the start there are no names, no dumps and no packages.
LEMMA DumpsInit == Init => DumpsInv
<1> SUFFICES ASSUME Init PROVE DumpsInv
  OBVIOUS
<1>1. /\ vec = << >> /\ num = 0 /\ next = 1 /\ call = 0 /\ dst \in Dirs
      /\ dumps = {} /\ pc = "idle" /\ contents = [d \in Dirs |-> {}]
  BY DEF Init
<1>2. vec \in Seq(DumpName)
  BY <1>1, EmptySeq
<1> QED BY <1>1, <1>2 DEF DumpsInv

\* What a call unpacks into its output directory are packages of its own
\* installer, although the list of dumps is never emptied.
THEOREM OwnPackages == Spec => []OwnPackagesOnly
<1>1. Init => DumpsInv
  BY DumpsInit
<1>2. DumpsInv /\ [Next]_vars => DumpsInv'
  BY DumpsStep
<1>3. DumpsInv => OwnPackagesOnly
  BY DEF DumpsInv, OwnPackagesOnly
<1> QED BY <1>1, <1>2, <1>3, PTL DEF Spec
=============================================================================
