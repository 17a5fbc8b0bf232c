-------------------------- MODULE OverlayUnpackers --------------------------
(***************************************************************************)
(* The two unpackers that walk an overlay themselves:                      *)
(* CDotnetInstallerUnpacker::Unpack dumps the 7z packages it finds and     *)
(* hands the dumps to the 7-Zip engine, CShieldInstUnpacker::Unpack dumps  *)
(* the cabs it finds and hands them to unshield.  Both are objects that    *)
(* outlive a call; the list of dumps of the first one is never emptied.    *)
(* What is in an output directory outlives a call as well: a scan unpacks  *)
(* all its installers into one.                                            *)
(*                                                                         *)
(* One action per step between which the file at the path may be replaced. *)
(* Positions are offsets in the mapped file.  Memory past the mapped file  *)
(* is taken to hold no signature.  Of an output directory only what cabs   *)
(* are dumped into is told apart; a name of it is not that of a file.      *)
(***************************************************************************)
EXTENDS Overlay

CONSTANTS
  Dirs,         \* output directories, which exist
  Substitutes,  \* bound: what another program may put at the path
  MaxCalls,     \* bound: how many calls a behaviour makes
  MaxReplaces   \* bound: how often it does so

ASSUME BoundsAssumption == MaxCalls \in Nat /\ MaxReplaces \in Nat

\* A position in a mapped file fits uint32_t.  A .NET installer is known by its
\* first package, and a package begins with the signature; what precedes it may
\* be zzd.  A cab has four strings before it, each with its end.
ASSUME PartsAssumption ==
  \A m \in Images :
    /\ FileLength(m) < Word
    /\ Len(m.parts) \in Nat /\ DOMAIN m.parts = 1..Len(m.parts)
    /\ m.form = "dotnet" => Len(m.parts) > 0 /\ m.zzd \in BOOLEAN
    /\ \A i \in 1..Len(m.parts) :
         LET part == m.parts[i]
         IN  /\ part.size \in Nat
             /\ IF m.form = "dotnet" THEN part.size # 0
                ELSE /\ part.info \in Nat \ {0}
                     /\ part.dir \in Seq(STRING) /\ part.overlong \in BOOLEAN

VARIABLES
  pc,        \* where the call stands; "idle" between calls
  call,      \* the number of the current, or last, call
  replaces,  \* how often the file was replaced
  dst,       \* szDstPath
  uOverlayOffset, uOverlaySize,  \* what GetOverlayOffset and -Size answered
  uOffset,   \* where the search for the next part begins
  pCur,      \* where the size of the next package is read
  uSize,     \* what the search for cabs takes to be left of the overlay
  found,     \* the parts found so far
  next,      \* the next dump, or cab, of the list being gone through
  vec,       \* m_vecDump7zFile: the names of dumps
  num,       \* m_uExtractNum
  dumps,     \* the dumps on disk: their name, the call and the package
  contents,  \* by directory: which calls unpacked which calls' dumps into it
  made,      \* by output directory: the directories below it
  filled,    \* the output directories with a file in them or below
  before,    \* the directories below dst when the call began
  cabs,      \* the cabs that the call put on disk below dst
  opened,    \* vDirs: the directories whose cabs unshield has unpacked
  ret        \* what the last call returned

callVars == << call, replaces, dst >>
answerVars == << uOverlayOffset, uOverlaySize >>
searchVars == << uOffset, pCur, uSize, found >>
dotnetVars == << vec, num, dumps, contents >>
diskVars == << made, filled, before >>
shieldVars == << cabs, opened >>
vars == << overlayVars, pc, callVars, answerVars, searchVars, next,
           dotnetVars, diskVars, shieldVars, ret >>

MAX_INSTSHIELD_SIG_OFFSET == 256
SigLen == 4   \* of the 7z signature as of "ISc("

Parts == DOMAIN img.parts

\* A directory is the sequence of the names below the output directory.
Above(dir) == {SubSeq(dir, 1, n) : n \in 1..(Len(dir) - 1)}

CabDirs ==
  UNION {{part.dir : part \in ToSet(m.parts)} : m \in {i \in Images : i.form = "shield"}}

\* The directories of cabs and those above them.
Trail == UNION {{dir} \cup Above(dir) : dir \in CabDirs}

\* A directory is there only if those above it are.
Closed(D) == \A dir \in D : Above(dir) \subseteq D

\* Where the signature of a part is.
SigAt(i) ==
  PartStart(img, i) + (IF img.form = "dotnet" THEN SizeHeader ELSE img.parts[i].info)

-----------------------------------------------------------------------------
TypeOK ==
  /\ world \in Images \cup {NoFile} /\ img \in Images
  /\ parser \in [fileSize : 0..(Word - 1), peSize : 0..(Word - 1),
                 overlaySize : 0..(Word - 1), overlayOffset : 0..(Word - 1)]
  /\ \A a \in answered : a.is \in 0..(Word - 1)
  /\ renewed \in BOOLEAN /\ ret \in BOOLEAN
  /\ pc \in {"idle", "match", "matched", "unpack", "unpacked", "packages",
             "extract", "search", "dump", "cabs"}
  /\ call \in 0..MaxCalls /\ replaces \in 0..MaxReplaces /\ dst \in Dirs
  /\ {uOverlayOffset, uOverlaySize, uOffset, pCur, uSize} \subseteq 0..(Word - 1)
  /\ next \in Nat \ {0} /\ num \in Nat
  /\ found \in Seq(Parts)
  /\ \A i \in DOMAIN vec : vec[i].dir \in Dirs /\ vec[i].num < num
  /\ \A d \in dumps : [dir |-> d.dir, num |-> d.num] \in ToSet(vec)
  /\ contents \in [Dirs -> SUBSET [by : 1..MaxCalls, of : 1..MaxCalls]]
  /\ made \in [Dirs -> SUBSET Trail] /\ filled \subseteq Dirs /\ before \subseteq Trail
  /\ cabs \subseteq ToSet(found) /\ opened \subseteq made[dst]

Init ==
  /\ world \in Images
  /\ img = world
  /\ parser = Fresh
  /\ answered = {}
  /\ renewed = FALSE
  /\ pc = "idle"
  /\ call = 0 /\ replaces = 0
  /\ dst \in Dirs
  /\ uOverlayOffset = 0 /\ uOverlaySize = 0
  /\ uOffset = 0 /\ pCur = 0 /\ uSize = 0
  /\ found = << >>
  /\ next = 1
  /\ vec = << >> /\ num = 0 /\ dumps = {}
  /\ contents = [d \in Dirs |-> {}]
  /\ made = [d \in Dirs |-> {}] /\ filled = {} /\ before = {}
  /\ cabs = {} /\ opened = {}
  /\ ret = FALSE

\* An unpacker makes some of D below d, where what is above them is there.
MakeSome(d, D) ==
  \E new \in SUBSET D :
    /\ Closed(made[d] \cup new)
    /\ made' = [made EXCEPT ![d] = @ \cup new]

\* A call for another installer, whose unpacker puts what it finds into an
\* output directory.
OtherCall ==
  /\ pc = "idle" /\ call < MaxCalls
  /\ call' = call + 1
  /\ \E d \in Dirs : MakeSome(d, Trail) /\ filled' \in {filled, filled \cup {d}}
  /\ UNCHANGED << overlayVars, pc, replaces, dst, answerVars, searchVars, next,
                  dotnetVars, before, shieldVars, ret >>

\* A call is given a fresh CPEParser and its Parse succeeds.  It finds in its
\* output directory whatever earlier calls left there.
Call ==
  /\ pc = "idle" /\ call < MaxCalls
  /\ Parse
  /\ call' = call + 1
  /\ dst' \in Dirs
  /\ pc' = "match"
  /\ uOverlayOffset' = 0 /\ uOverlaySize' = 0
  /\ uOffset' = 0 /\ pCur' = 0 /\ uSize' = 0
  /\ found' = << >>
  /\ next' = 1
  /\ before' = made[dst']
  /\ cabs' = {} /\ opened' = {}
  /\ UNCHANGED << replaces, dotnetVars, made, filled, ret >>

\* Matchers and unpackers ask for the offset first and the size after it.
AskForOffset ==
  /\ \/ pc = "match" /\ pc' = "matched"
     \/ pc = "unpack" /\ pc' = "unpacked"
  /\ \E n \in {GetOverlayOffset(parser)} : AskOffset(n) /\ uOverlayOffset' = n
  /\ UNCHANGED << callVars, uOverlaySize, searchVars, next, dotnetVars,
                  diskVars, shieldVars, ret >>

Return(b) == pc' = "idle" /\ ret' = b

\* Whether the image goes to its unpacker.  The .NET matcher looks for the 7z
\* signature in at most 0x110 bytes of the overlay; InstallShield has other
\* signatures besides "ISc(".
Recognised(n) ==
  \/ img.form = "shield"
  \/ /\ img.form = "dotnet" /\ uOverlayOffset # 0
     /\ ZzdHeader + SizeHeader + SigLen < n

MatcherAsksForSize ==
  /\ pc = "matched"
  /\ \E n \in {GetOverlaySize(parser)} : AskSize(n) /\ uOverlaySize' = n
  /\ IF Recognised(uOverlaySize') THEN pc' = "unpack" /\ UNCHANGED ret ELSE Return(FALSE)
  /\ UNCHANGED << callVars, uOverlayOffset, searchVars, next, dotnetVars, diskVars, shieldVars >>

\* Mutant: the search begins at the header, not at the first signature.
FirstPackageUnskipped == uOverlayOffset

\* Past zzd and the size and checksum of the first package.
FirstPackage == uOverlayOffset + ZzdHeader + SizeHeader

\* ExtractAllCabs gives up if there is no offset.  The other unpacker gets here
\* only when its matcher was given one, which is remembered.
NoOverlay ==
  /\ pc = "unpacked"
  /\ img.form = "shield" /\ uOverlayOffset = 0
  /\ Return(FALSE)
  /\ UNCHANGED << overlayVars, callVars, answerVars, searchVars, next,
                  dotnetVars, diskVars, shieldVars >>

\* ExtractAllCabs wants an overlay that is not empty, the other unpacker one
\* that begins with zzd.
Refused(n) == IF img.form = "shield" THEN n = 0 ELSE ~img.zzd

\* The unpacker asks again, the last time it looks at the path, and begins
\* its search.
UnpackerAsksForSize ==
  /\ pc = "unpacked"
  /\ uOverlayOffset # 0
  /\ \E n \in {GetOverlaySize(parser)} : AskSize(n) /\ uOverlaySize' = n
  /\ IF Refused(uOverlaySize')
     THEN Return(FALSE) /\ UNCHANGED searchVars
     ELSE /\ pc' = IF img.form = "dotnet" THEN "packages" ELSE "search"
          /\ uOffset' = IF img.form = "dotnet" THEN FirstPackage ELSE uOverlayOffset
          /\ pCur' = IF img.form = "dotnet" THEN uOverlayOffset + ZzdHeader ELSE pCur
          /\ uSize' = uOverlaySize'
          /\ UNCHANGED << found, ret >>
  /\ next' = 1
  /\ UNCHANGED << callVars, uOverlayOffset, dotnetVars, diskVars, shieldVars >>

ReplaceFile ==
  /\ replaces < MaxReplaces
  /\ replaces' = replaces + 1
  /\ Replace /\ world' \in Substitutes
  /\ UNCHANGED << pc, call, dst, answerVars, searchVars, next, dotnetVars,
                  diskVars, shieldVars, ret >>

-----------------------------------------------------------------------------
(* CDotnetInstallerUnpacker::Unpack.                                       *)

\* IsFindHexSig looks at the starts i with i + 4 < 0x20.
HasUnprocessed7zPackage ==
  \E i \in Parts : SigAt(i) \in uOffset .. (uOffset + 32 - SigLen - 1)

\* The package whose size pCur is at and whose signature follows it, if any.
PackageHere == {i \in Parts : SigAt(i) = pCur + SizeHeader}

\* HasUnprocessed7zPackage, the test against the size and IsMatch.
AnotherPackage ==
  /\ HasUnprocessed7zPackage
  /\ Difference(uOffset, uOverlayOffset) < uOverlaySize
  /\ PackageHere # {}

\* One round of the loop.  A dump that cannot be created is passed over.
\* uOffset advances by the package only, pCur also by what precedes it.
DumpPackage ==
  /\ pc = "packages"
  /\ AnotherPackage
  /\ \E i \in PackageHere :
       LET name == [dir |-> dst, num |-> num]
       IN /\ \/ /\ vec' = Append(vec, name)
                /\ dumps' = dumps \cup {[dir |-> dst, num |-> num, call |-> call, part |-> i]}
             \/ UNCHANGED << vec, dumps >>
          /\ num' = num + 1
          /\ found' = Append(found, i)
          /\ pCur' = pCur + SizeHeader + img.parts[i].size
          /\ uOffset' = uOffset + img.parts[i].size
  /\ UNCHANGED << overlayVars, pc, callVars, answerVars, uSize, next,
                  contents, diskVars, shieldVars, ret >>

EndPackages ==
  /\ pc = "packages"
  /\ ~AnotherPackage
  /\ pc' = "extract"
  /\ UNCHANGED << overlayVars, callVars, answerVars, searchVars, next,
                  dotnetVars, diskVars, shieldVars, ret >>

Named(i) == {d \in dumps : d.dir = vec[i].dir /\ d.num = vec[i].num}

\* Mutant: the dump is left behind.
RemoveDumpForgotten(i) == dumps

RemoveDump(i) == dumps \ Named(i)

\* One round of the loop over all names ever listed: the engine, whose result
\* is not looked at, and remove().  A name that is gone is not an error.  The
\* engine makes whatever directories the package has.
ExtractDump ==
  /\ pc = "extract"
  /\ next <= Len(vec)
  /\ \/ /\ Named(next) # {}
        /\ contents' = [contents EXCEPT ![dst] =
                          @ \cup {[by |-> call, of |-> d.call] : d \in Named(next)}]
        /\ MakeSome(dst, Trail)
        /\ filled' = filled \cup {dst}
     \/ UNCHANGED << contents, made, filled >>
  /\ dumps' = RemoveDump(next)
  /\ next' = next + 1
  /\ UNCHANGED << overlayVars, pc, callVars, answerVars, searchVars,
                  vec, num, before, shieldVars, ret >>

EndExtract ==
  /\ pc = "extract"
  /\ next > Len(vec)
  /\ Return(TRUE)
  /\ UNCHANGED << overlayVars, callVars, answerVars, searchVars, next,
                  dotnetVars, diskVars, shieldVars >>

-----------------------------------------------------------------------------
(* CShieldInstUnpacker::Unpack.                                            *)

\* What IsFindStringSig is given as the size of its window.  The subtraction
\* is done in 64 bits, so that a small uSize makes the window full again.
Window ==
  IF uSize < SigLen \/ uSize - SigLen > MAX_INSTSHIELD_SIG_OFFSET
  THEN MAX_INSTSHIELD_SIG_OFFSET ELSE uSize - SigLen

\* A cab whose strings begin at uOffset and whose "ISc(" is in the window.
CabHere ==
  {i \in Parts : PartStart(img, i) = uOffset
                 /\ img.parts[i].info + SigLen < Window}

\* Mutant: the strings before a cab are not skipped.
CabEndWithoutInfo(i) == uOffset + img.parts[i].size

CabEnd(i) == uOffset + img.parts[i].size + img.parts[i].info

\* One round of SearchAllCabsInOverlay.  A cab with an overlong string ends it
\* all.  uSize is reduced by the position reached, not by the length passed.
FindCab ==
  /\ pc = "search"
  /\ \E i \in CabHere :
       IF img.parts[i].overlong
       THEN Return(FALSE) /\ UNCHANGED searchVars
       ELSE /\ found' = Append(found, i)
            /\ uOffset' = CabEnd(i)
            /\ uSize' = Difference(uSize, uOffset')
            /\ UNCHANGED << pc, pCur, ret >>
  /\ UNCHANGED << overlayVars, callVars, answerVars, next,
                  dotnetVars, diskVars, shieldVars >>

EndSearch ==
  /\ pc = "search"
  /\ CabHere = {}
  /\ IF found = << >> THEN Return(FALSE) ELSE pc' = "dump" /\ UNCHANGED ret
  /\ UNCHANGED << overlayVars, callVars, answerVars, searchVars, next,
                  dotnetVars, diskVars, shieldVars >>

Cab(k) == img.parts[found[k]]

\* CreateDir asks the disk, which keeps what earlier calls made.
Exists(dir) == dir = << >> \/ dir \in made[dst]

\* Mutant: the directory is made only if its parent is the output directory.
CreateCabOutputPathFlat(dir) == made[dst] \cup {d \in {dir} : Len(d) = 1}

\* The directories below dst after CreateDir, which makes the last directory of
\* the path only.
CreateCabOutputPath(dir) == made[dst] \cup {d \in {dir} : Exists(Front(d))}

\* One round of the loop of ExtractAllCabs.  A cab whose path has no directory
\* ends it all, one that cannot be created is passed over.
DumpCab ==
  /\ pc = "dump"
  /\ next <= Len(found)
  /\ IF Cab(next).dir = << >>
     THEN Return(FALSE) /\ UNCHANGED << next, made, filled, cabs >>
     ELSE /\ made' = [made EXCEPT ![dst] = CreateCabOutputPath(Cab(next).dir)]
          /\ IF Cab(next).dir \in made'[dst]
             THEN cabs' = cabs \cup {found[next]} /\ filled' = filled \cup {dst}
             ELSE UNCHANGED << cabs, filled >>
          /\ next' = next + 1
          /\ UNCHANGED << pc, ret >>
  /\ UNCHANGED << overlayVars, callVars, answerVars, searchVars,
                  dotnetVars, before, opened >>

EndDump ==
  /\ pc = "dump"
  /\ next > Len(found)
  /\ pc' = "cabs"
  /\ next' = 1
  /\ UNCHANGED << overlayVars, callVars, answerVars, searchVars,
                  dotnetVars, diskVars, shieldVars, ret >>

\* One round of the loop of UnpackAllCabs: a directory is done once one of its
\* cabs, if it is there, is opened and unpacked, into that directory.  Another
\* cab of a directory that is done is passed over.
UnpackCab ==
  /\ pc = "cabs"
  /\ next <= Len(found)
  /\ next' = next + 1
  /\ \/ UNCHANGED << opened, made >>
     \/ /\ found[next] \in cabs /\ Cab(next).dir \notin opened
        /\ opened' = opened \cup {Cab(next).dir}
        /\ MakeSome(dst, {dir \in Trail : Cab(next).dir \in Above(dir)})
  /\ UNCHANGED << overlayVars, pc, callVars, answerVars, searchVars,
                  dotnetVars, filled, before, cabs, ret >>

\* UnpackAllCabs is always true.  IsEmptyDirectory sees every file, also one
\* that an earlier call left.
EndCabs ==
  /\ pc = "cabs"
  /\ next > Len(found)
  /\ Return(dst \in filled)
  /\ UNCHANGED << overlayVars, callVars, answerVars, searchVars, next,
                  dotnetVars, diskVars, shieldVars >>

-----------------------------------------------------------------------------
\* Nobody need ever call.
Terminated == pc = "idle" /\ UNCHANGED vars

Next ==
  \/ OtherCall \/ Call \/ AskForOffset \/ MatcherAsksForSize \/ NoOverlay \/ UnpackerAsksForSize
  \/ ReplaceFile
  \/ DumpPackage \/ EndPackages \/ ExtractDump \/ EndExtract
  \/ FindCab \/ EndSearch \/ DumpCab \/ EndDump \/ UnpackCab \/ EndCabs
  \/ Terminated

Spec == Init /\ [][Next]_vars

-----------------------------------------------------------------------------
(* Correctness.                                                            *)

\* Within a call nobody is given two different answers, not even "no overlay"
\* and later one, although the file may be replaced and the sizes are asked for
\* many times; and together they describe the mapped image if its file was
\* still there when its size was read.
AnswersAgree ==
  /\ \A a, b \in answered : a.what = b.what => a.is = b.is
  /\ \A a \in answered :
       LET overlay == FileLength(img) - img.pe
       IN  ~renewed => a.is = IF a.what = "size" \/ overlay = 0 THEN overlay ELSE img.pe

\* However uOffset falls behind, the packages dumped are the first ones, in
\* order, and none of the first four is passed over.
FirstPackagesFound ==
  pc = "extract" /\ ~renewed =>
    /\ \A k \in DOMAIN found : found[k] = k
    /\ Len(found) >= (IF Len(img.parts) < 4 THEN Len(img.parts) ELSE 4)

\* The list of dumps grows from call to call, but what a call unpacks into its
\* output directory are packages of its own installer.
OwnPackagesOnly == \A d \in Dirs : \A p \in contents[d] : p.by = p.of

\* The counter of SearchAllCabsInOverlay cannot stop the search too early if
\* the PE part is at least as long as the overlay and the file far shorter than
\* the word: every subtraction then leaves a number close below the word.
CounterHarmless ==
  /\ 2 * img.pe >= FileLength(img)
  /\ Len(img.parts) * FileLength(img) + MAX_INSTSHIELD_SIG_OFFSET + SigLen <= Word

\* The cabs found are the first ones, in order.  None is missed, whatever the
\* counter is reduced by, if it cannot do harm or is used only once.
CabsFound ==
  pc \in {"dump", "cabs"} /\ ~renewed =>
    /\ \A k \in DOMAIN found : found[k] = k
    /\ /\ CounterHarmless \/ Len(img.parts) = 1
       /\ \A i \in Parts : img.parts[i].info + SigLen < MAX_INSTSHIELD_SIG_OFFSET
                           /\ img.parts[i].size > 2 * SigLen
       => Len(found) = Len(img.parts)

\* The cabs the loop of ExtractAllCabs has dealt with.
Dealt == IF pc = "cabs" THEN DOMAIN found ELSE 1..(next - 1)

\* Whether a cab reaches the disk depends on what earlier calls left and on the
\* order of the cabs: exactly those do that the loop gets to and whose upper
\* directories were there before the call or are those of earlier cabs.  And
\* one cab whose path has no directory keeps unshield from all of them, also
\* from those that did reach the disk.
CabsDumped ==
  img.form = "shield" =>
    /\ \A k \in DOMAIN found :
         found[k] \in cabs <=>
           /\ k \in Dealt
           /\ \A dir \in Above(Cab(k).dir) :
                \/ dir \in before
                \/ \E j \in 1..(k - 1) : found[j] \in cabs /\ Cab(j).dir = dir
    /\ opened # {} => \A k \in DOMAIN found : Cab(k).dir # << >>
=============================================================================
