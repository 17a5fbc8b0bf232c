--------------------------- MODULE UnpackManager ---------------------------
(***************************************************************************)
(* CUnpackManager::ScanFile and the parts it drives, one action per step   *)
(* of a call that another program or an earlier call can get in between:   *)
(* parse, look at the two paths, load a non-PE file, consult one matcher   *)
(* (and again, when it has to measure the file), unpack, release.  The     *)
(* library is called by one thread at a time (export.h: callers            *)
(* synchronise), so one program counter is enough; the file system is      *)
(* shared, so the file may be replaced at any moment.                      *)
(*                                                                         *)
(* The matchers are objects that live as long as the process and keep two  *)
(* fields from call to call: m_pPE, the parser they were last given, and   *)
(* m_uUnpackMethod.  Calls are numbered, and the CPEParser of a call is    *)
(* named by the call's number.                                             *)
(***************************************************************************)
EXTENDS Installers

CONSTANTS
  Substitutes, \* bound: the kinds that another program may put at a path
  MaxScans,    \* bound: how many calls a behaviour makes
  MaxChanges   \* bound: how often another program replaces a file

ASSUME BoundsAssumption == MaxScans \in Nat /\ MaxChanges \in Nat

VARIABLES
  world,    \* the kind of file at each path
  seen,     \* the kinds the file of the current call has had since it began
  changes,  \* how many replacements there were
  scan,     \* the number of the current, or last, call
  pc,       \* where ScanFile stands; "idle" between calls
  req,      \* its arguments: szTarPath, szOutputPath and bUnpack
  snap,     \* the kind of the image that was mapped (Parse) or read (NPE)
  idx,      \* index in the matcher table
  size,     \* m_uFileSize of the call's CPEParser; 0: not measured yet
  live,     \* the calls whose mapped image or buffer is not yet released
  bound,    \* m_pPE of each matcher; 0: never set
  method,   \* m_uUnpackMethod of the WinZip matcher
  engine,   \* how the unpacker of this call fared
  info,     \* *pPackInfo
  ans,      \* what the last call gave its caller
  disk,     \* the installers whose contents each directory holds
  fresh     \* whether IsEmptyDirectory(szOutputPath) held when the call began

fileVars == << world, seen, changes >>
callVars == << scan, req, snap, fresh >>
vars == << world, seen, changes, scan, pc, req, snap, idx, size, live, bound,
           method, engine, info, ans, disk, fresh >>

Detect == [api : {"detect"}, file : Files, out : {NullPath}]
Extract == [api : {"extract"}, file : Files, out : OutPaths]

Refused == [ret |-> FALSE, type |-> NoType, success |-> FALSE]
NoInfo == [type |-> NoType, success |-> FALSE]
NotUnpacked == [ok |-> FALSE, wrote |-> FALSE, whole |-> FALSE, left |-> FALSE]

Calls == Detect \cup Extract
Infos == [type : Matchers \cup {NoType}, success : BOOLEAN]
Answers == [ret : BOOLEAN, type : Matchers \cup {NoType}, success : BOOLEAN]

\* How an unpacker fares: what it returns before any look at the directory,
\* whether it wrote extracted files, whether everything in the package came
\* out, and whether a temporary dump stays behind.
AnyOutcome == [ok : BOOLEAN, wrote : BOOLEAN, whole : BOOLEAN, left : BOOLEAN]

METHOD_NONE == 0
METHOD_EXTRACT_PE_WINZIP == 1

-----------------------------------------------------------------------------
(* The unpackers.                                                          *)

\* Their Linux bodies return without doing anything, some after refusing a
\* NULL output path.
NullCheckedStubs ==
  {"7zip", "winrar", "molebox", "zipsfx", "vise", "advanced", "wise", "msi"}
PlainStubs == {"gentee", "inno", "setupfactory", "smart", "nestedpe"}

\* These report success only if the output directory is not empty afterwards.
DirCheckedUnpackers == {"7zOffical", "nsis", "shield", "winzip"}

\* These return what the 7-Zip engine returned.
SevenZipUnpackers == {"7zOffical", "nsis"}

\* Whether Unpack of matcher m comes to extract from a file of kind k.
Extracts(m, k, out) ==
  \/ m = "dotnet" /\ out # NullPath /\ k.zzd
  \/ m = "winzip" /\ method = METHOD_EXTRACT_PE_WINZIP
  \/ m = "nsis" /\ out # NullPath
  \/ m \in {"7zOffical", "shield"}

\* The 7-Zip engine and unshield may fail half way.  The .NET unpacker drops
\* the engine's results, and that of the removal of its dumps; the InstallShield
\* one those of unshield; the WinZip one those of its writes.
Outcomes(m, k, out) ==
  IF Extracts(m, k, out)
  THEN {o \in AnyOutcome :
          /\ o.whole => o.ok
          /\ m \in SevenZipUnpackers => (o.ok => o.whole)
          /\ m \in {"dotnet", "winzip"} => o.ok
          /\ o.left => m = "dotnet"}
  ELSE {[NotUnpacked EXCEPT !.ok =
           m \in PlainStubs \/ (m \in NullCheckedStubs /\ out # NullPath)]}

\* IsEmptyDirectory looks at the path as it was passed in: NULL and "" count
\* as empty, although the default extraction goes to "./".
IsEmptyDirectory(contents, out) ==
  out \in GoodOuts => contents[out] = {}

-----------------------------------------------------------------------------
TypeOK ==
  /\ world \in [Files -> Kinds]
  /\ seen \in SUBSET Kinds
  /\ changes \in 0..MaxChanges
  /\ scan \in 0..MaxScans
  /\ pc \in {"idle", "access", "output", "load", "pe", "overlay", "npe", "unpack",
             "clear"}
  /\ req \in Calls
  /\ snap \in Kinds
  /\ idx \in 1..(Len(RegisterAllPEPackMatcher) + 1)
  /\ pc = "overlay" => idx <= Len(RegisterAllPEPackMatcher)
  /\ size \in Nat
  /\ live \in SUBSET (0..MaxScans)
  /\ bound \in [Matchers -> 0..MaxScans]
  /\ method \in {METHOD_NONE, METHOD_EXTRACT_PE_WINZIP}
  /\ engine \in AnyOutcome
  /\ info \in Infos
  /\ ans \in Answers
  /\ disk \in [Dirs -> SUBSET Files]
  /\ fresh \in BOOLEAN

Init ==
  /\ world \in [Files -> Kinds]
  /\ seen = {}
  /\ changes = 0
  /\ scan = 0
  /\ pc = "idle"
  /\ req \in Detect
  /\ snap = world[req.file]
  /\ idx = 1
  /\ size = 0
  /\ live = {}
  /\ bound = [m \in Matchers |-> 0]
  /\ method = METHOD_NONE
  /\ engine = NotUnpacked
  /\ info = NoInfo
  /\ ans = Refused
  /\ disk \in [Dirs -> SUBSET Files]
  /\ fresh = FALSE

\* The target path is NULL: nothing is looked at, not even *pPackInfo.
CallNullTarget ==
  /\ pc = "idle"
  /\ ans' = Refused
  /\ UNCHANGED << fileVars, callVars, pc, idx, size, live, bound, method, engine,
                  info, disk >>

\* Mutant: *pPackInfo is left as the previous call filled it.
CallKeepingInfo ==
  /\ pc = "idle"
  /\ scan < MaxScans
  /\ pc' = "access"
  /\ scan' = scan + 1
  /\ req' \in Calls
  /\ seen' = {world[req'.file]}
  /\ fresh' = IsEmptyDirectory(disk, req'.out)
  /\ snap' = world[req'.file]
  /\ size' = 0
  /\ live' = IF snap'.form = "pe" THEN live \cup {scan'} ELSE live
  /\ engine' = NotUnpacked
  /\ UNCHANGED << world, changes, idx, bound, method, info, ans, disk >>

\* InstallerTypeDetect or InstallerExtract enters ScanFile, which resets
\* *pPackInfo and parses; an image that parses stays mapped.
Call ==
  /\ pc = "idle"
  /\ scan < MaxScans
  /\ pc' = "access"
  /\ scan' = scan + 1
  /\ req' \in Calls
  /\ seen' = {world[req'.file]}
  /\ fresh' = IsEmptyDirectory(disk, req'.out)
  /\ snap' = world[req'.file]
  /\ size' = 0
  /\ live' = IF snap'.form = "pe" THEN live \cup {scan'} ELSE live
  /\ engine' = NotUnpacked
  /\ info' = NoInfo
  /\ UNCHANGED << world, changes, idx, bound, method, ans, disk >>

\* return false, past the PEPARSE_CLEAR label.
ReturnFalse ==
  /\ pc' = "idle"
  /\ ans' = Refused

\* Mutant: the access() test is gone.
CheckTargetUntested ==
  /\ pc = "access"
  /\ pc' = "output"
  /\ UNCHANGED << fileVars, callVars, idx, size, live, bound, method, engine, info,
                  ans, disk >>

\* access(szTarPath), after the parse.
CheckTarget ==
  /\ pc = "access"
  /\ IF world[req.file].form = "absent"
     THEN ReturnFalse
     ELSE pc' = "output" /\ UNCHANGED ans
  /\ UNCHANGED << fileVars, callVars, idx, size, live, bound, method, engine, info,
                  disk >>

\* Mutant: the walk over the table starts one slot too early.
CheckOutputOffByOne ==
  /\ pc = "output"
  /\ idx' = 0
  /\ IF ~IsValidOutputPath(req.out)
     THEN ReturnFalse
     ELSE pc' = (IF snap.form = "pe" THEN "pe" ELSE "load") /\ UNCHANGED ans
  /\ UNCHANGED << fileVars, callVars, size, live, bound, method, engine, info,
                  disk >>

\* IsValidOutputPath(szOutputPath), then the branch on bIsPEPacker.
\* IsNeedScanFile is true for every image that parsed.
CheckOutput ==
  /\ pc = "output"
  /\ idx' = 1
  /\ IF ~IsValidOutputPath(req.out)
     THEN ReturnFalse
     ELSE pc' = (IF snap.form = "pe" THEN "pe" ELSE "load") /\ UNCHANGED ans
  /\ UNCHANGED << fileVars, callVars, size, live, bound, method, engine, info,
                  disk >>

\* GetNPEBuffer reads the file a second time.
LoadNPE ==
  /\ pc = "load"
  /\ pc' = "npe"
  /\ snap' = world[req.file]
  /\ live' = IF snap'.form = "absent" THEN live ELSE live \cup {scan}
  /\ UNCHANGED << fileVars, scan, req, fresh, idx, size, bound, method, engine,
                  info, ans, disk >>

Table == IF pc = "npe" THEN RegisterAllNPEPackMatcher
                       ELSE RegisterAllPEPackMatcher

\* The head of the loop for the kind of file at hand.
LoopHead == IF pc = "npe" THEN "npe" ELSE "pe"

\* Mutant: the loop goes on after a hit, so the last matcher wins.
RecogniseAndGoOn(m) ==
  /\ info' = [info EXCEPT !.type = m]
  /\ idx' = idx + 1
  /\ pc' = LoopHead

\* Mutant: a detection unpacks as well.
RecogniseAlwaysUnpack(m) ==
  /\ info' = [info EXCEPT !.type = m]
  /\ pc' = IF pc # "npe" THEN "unpack" ELSE "clear"
  /\ UNCHANGED idx

\* The matcher says yes: its type is reported and, for a PE file that is to
\* be extracted, it unpacks.  (The call of Unpack for other files is
\* commented out.)
Recognise(m) ==
  /\ info' = [info EXCEPT !.type = m]
  /\ pc' = IF req.api = "extract" /\ pc # "npe" THEN "unpack" ELSE "clear"
  /\ UNCHANGED idx

PassOver ==
  /\ idx' = idx + 1
  /\ pc' = LoopHead
  /\ UNCHANGED info

\* The matcher says yes without the overlay; 7zOffical begins by handing the
\* path to the engine, which opens the file that is there now.
SaysYes(m) ==
  \/ m \in snap.sigs
  \/ m = "7zOffical" /\ world[req.file].packed7z

\* Mutant: a matcher that has a parser keeps it.
TryMatcherBoundOnce ==
  /\ pc \in {"pe", "npe"}
  /\ idx <= Len(Table)
  /\ bound' = [bound EXCEPT ![Table[idx]] = IF @ = 0 THEN scan ELSE @]
  /\ method' = IF Table[idx] = "winzip" /\ snap.zipRsrc
               THEN METHOD_EXTRACT_PE_WINZIP ELSE method
  /\ LET m == Table[idx]
     IN  \/ SaysYes(m) /\ Recognise(m)
         \/ /\ ~SaysYes(m)
            /\ m \in OverlayMatchers
            /\ pc' = "overlay"
            /\ UNCHANGED << idx, info >>
         \/ /\ ~SaysYes(m)
            /\ m \notin AlwaysMeasure \cup snap.overlay \cup snap.resized
            /\ PassOver
  /\ UNCHANGED << fileVars, callVars, size, live, engine, ans, disk >>

\* One turn of the matcher loop, up to the moment where the overlay is asked
\* for.  WinZip's IsMatchPackerSig remembers the way it recognised the file.
TryMatcher ==
  /\ pc \in {"pe", "npe"}
  /\ idx <= Len(Table)
  /\ bound' = [bound EXCEPT ![Table[idx]] = scan]
  /\ method' = IF Table[idx] = "winzip" /\ snap.zipRsrc
               THEN METHOD_EXTRACT_PE_WINZIP ELSE method
  /\ LET m == Table[idx]
     IN  \/ SaysYes(m) /\ Recognise(m)
         \/ /\ ~SaysYes(m)
            /\ m \in OverlayMatchers
            /\ pc' = "overlay"
            /\ UNCHANGED << idx, info >>
         \/ /\ ~SaysYes(m)
            /\ m \notin AlwaysMeasure \cup snap.overlay \cup snap.resized
            /\ PassOver
  /\ UNCHANGED << fileVars, callVars, size, live, engine, ans, disk >>

\* GetPEFileSize: the size that is remembered, or else that of the file at the
\* path now; nothing is remembered of a file that is absent or empty.
GetPEFileSize == IF size > 0 THEN size ELSE world[req.file].size

\* What a matcher may answer when it takes the file to have s bytes.
OverlayAnswers(m, s) ==
  {yes \in BOOLEAN :
     IF s = snap.size THEN yes <=> m \in snap.overlay
     ELSE yes => s > 0 /\ m \in snap.overlay \cup snap.resized}

\* The rest of the turn of a matcher that asks for the overlay.
TryOverlay ==
  /\ pc = "overlay"
  /\ size' = GetPEFileSize
  /\ \/ TRUE \in OverlayAnswers(Table[idx], size') /\ Recognise(Table[idx])
     \/ FALSE \in OverlayAnswers(Table[idx], size') /\ PassOver
  /\ UNCHANGED << fileVars, callVars, live, bound, method, engine, ans, disk >>

\* The loop ends: "Pack recognizing failed".
NoMatch ==
  /\ pc \in {"pe", "npe"}
  /\ idx > Len(Table)
  /\ pc' = "clear"
  /\ UNCHANGED << fileVars, callVars, idx, size, live, bound, method, engine, info,
                  ans, disk >>

\* Mutant: "or" for "and": anything in the directory is a success.
SuccessIfAnyFile(m, o, contents, out) ==
  IF m \in DirCheckedUnpackers THEN o.ok \/ ~IsEmptyDirectory(contents, out)
                               ELSE o.ok

\* What Unpack returns, o being the outcome of the extraction itself.
Success(m, o, contents, out) ==
  /\ o.ok
  /\ m \in DirCheckedUnpackers => ~IsEmptyDirectory(contents, out)

\* What the directories hold when matcher m is done with outcome o, the
\* extraction having gone to dir.
Written(o, dir) ==
  [d \in Dirs |->
     IF (o.wrote /\ d = dir) \/ (o.left /\ d = DumpDir(req.out))
     THEN disk[d] \cup {req.file} ELSE disk[d]]

\* p->Unpack; CWinZip resets its method whatever the outcome.
Unpack ==
  /\ pc = "unpack"
  /\ pc' = "clear"
  /\ \E o \in Outcomes(info.type, snap, req.out) :
       /\ engine' = o
       /\ disk' = Written(o, CheckOutputDir(req.out))
       /\ info' = [info EXCEPT !.success =
                     Success(info.type, o, disk', req.out)]
  /\ method' = IF info.type = "winzip" THEN METHOD_NONE ELSE method
  /\ UNCHANGED << fileVars, callVars, idx, size, live, bound, ans >>

\* Mutant: only PE images are released, the buffer of other files is not.
ClearOnlyPE ==
  /\ pc = "clear"
  /\ pc' = "idle"
  /\ live' = IF snap.form = "pe" THEN live \ {scan} ELSE live
  /\ ans' = [ret |-> TRUE, type |-> info.type, success |-> info.success]
  /\ UNCHANGED << fileVars, callVars, idx, size, bound, method, engine, info,
                  disk >>

\* PEPARSE_CLEAR: release the image and the buffer; return true.
Clear ==
  /\ pc = "clear"
  /\ pc' = "idle"
  /\ live' = live \ {scan}
  /\ ans' = [ret |-> TRUE, type |-> info.type, success |-> info.success]
  /\ UNCHANGED << fileVars, callVars, idx, size, bound, method, engine, info,
                  disk >>

\* Another program replaces, removes or creates a file.
Replace ==
  \E f \in Files, k \in Kinds \cap Substitutes :
    /\ changes < MaxChanges
    /\ k # world[f]
    /\ changes' = changes + 1
    /\ world' = [world EXCEPT ![f] = k]
    /\ seen' = IF pc # "idle" /\ req.file = f THEN seen \cup {k} ELSE seen
    /\ UNCHANGED << callVars, pc, idx, size, live, bound, method, engine, info,
                    ans, disk >>

\* The steps of a call; the library runs them one after the other.
ScanFileStep ==
  \/ CheckTarget \/ CheckOutput \/ LoadNPE
  \/ TryMatcher \/ TryOverlay \/ NoMatch
  \/ Unpack \/ Clear

Next == CallNullTarget \/ Call \/ ScanFileStep \/ Replace

Spec == Init /\ [][Next]_vars

-----------------------------------------------------------------------------
(* Properties.                                                             *)

\* The unpacker that is about to run reads, through the m_pPE field it kept,
\* the image parsed by this very call, and that image is still mapped.
\* (ScanFile: SetParsedPE before IsMatchPackerSig; Clear after Unpack.)
BindingSafe ==
  pc = "unpack" => /\ info.type \in Matchers
                   /\ bound[info.type] = scan
                   /\ scan \in live
                   /\ snap.form = "pe"

\* A call that returned true has released what it mapped.  (PEPARSE_CLEAR;
\* the early returns before it are another matter, see NothingHeldWhenIdle.)
ReleasedWhenAccepted ==
  pc = "idle" /\ ans.ret => scan \notin live

\* Success of an unpacker that looks at the output directory is more than what
\* lay there before: if the directory was empty when the call began, this call
\* has written into it, and where the 7-Zip engine's own result counts, the
\* engine got everything out.  (UnpackInternal && !IsEmptyDirectory.  What the
\* InstallShield unpacker returns says nothing of that: it drops the results of
\* unshield, so that there success only means that some file is in the directory.)
SuccessIsBacked ==
  info.success /\ info.type \in DirCheckedUnpackers =>
    /\ fresh => engine.wrote
    /\ info.type \in SevenZipUnpackers => engine.whole

\* If nobody replaced the file while the call ran, the reported type is that
\* of the first matcher, in registration order, that recognises the file.
FirstMatchWins ==
  pc \in {"unpack", "clear"} /\ seen = {snap} => info.type = Classify(snap)

\* The invariant of the matcher loop, which FirstMatchWins rests on: whatever
\* was read, mapped or measured is of a kind the file has had during the call;
\* past access() the file existed; a file of one kind is in the table of its
\* kind and no matcher passed over recognises it, nor has the one that is about
\* to measure it said yes; and the matcher that ends the loop may recognise it,
\* image and path taken as they have been.
LoopInv ==
  /\ pc # "idle" => /\ snap \in seen /\ world[req.file] \in seen
                    /\ size = 0 \/ \E n \in seen : n.size = size
  /\ pc \notin {"idle", "access"} => \E k \in seen : k.form # "absent"
  /\ pc \notin {"idle", "access", "output"} => IsValidOutputPath(req.out)
  /\ pc = "load" => snap.form # "pe" /\ idx = 1
  /\ pc = "npe" /\ seen = {snap} => snap.form # "pe"
  /\ pc \in {"pe", "overlay", "npe"} /\ seen = {snap} =>
       \A j \in 1..(idx - 1) : ~IsMatchPackerSig(Table[j], snap, snap)
  /\ pc = "overlay" /\ seen = {snap} => ~SaysYes(Table[idx])
  /\ pc \in {"unpack", "clear"} /\ seen = {snap} => info.type = Classify(snap)
  /\ pc \in {"unpack", "clear"} /\ info.type # NoType =>
       \E k, n \in seen : IsMatchPackerSig(info.type, k, n)

\* What a call has in hand at each step: nothing is reported before a matcher
\* said yes; only an extraction of a PE file unpacks, with a matcher bound to
\* the image of this call; that image stays mapped until the end; the output
\* directory is as it was until then; and only an extraction reports success.
\* (*pPackInfo is reset before the parse.)
CallInv ==
  /\ pc \in {"access", "output", "load", "pe", "overlay", "npe"} => info = NoInfo
  /\ pc \in {"pe", "overlay"} => snap.form = "pe"
  /\ pc = "overlay" => bound[Table[idx]] = scan
  /\ pc = "unpack" => /\ req.api = "extract"
                      /\ info.type \in Matchers
                      /\ bound[info.type] = scan
                      /\ snap.form = "pe"
                      /\ ~info.success
  /\ pc \in {"access", "output", "pe", "overlay", "unpack"} /\ snap.form = "pe" =>
       scan \in live
  /\ pc \notin {"idle", "clear"} => fresh = IsEmptyDirectory(disk, req.out)
  /\ info.success => req.api = "extract" /\ info.type \in Matchers

\* ScanFile implements the service of export.h as InstallerService states it:
\* what it may write and when, and what it may answer.
Service == INSTANCE InstallerService
  WITH phase <- IF pc = "idle" THEN "ready" ELSE "busy"
Implements == Service!Spec

-----------------------------------------------------------------------------
(* What comments of the code say and runs refute.                          *)

\* parse.h: Clear must be called before the next parse, lest memory leak.
NothingHeldWhenIdle == pc = "idle" => live = {}

\* export.h: bUnpackSuccess says whether the package was extracted.
SuccessMeansExtracted == pc = "clear" /\ info.success => engine.wrote

\* export.h: without an output path the files go where the installer lies.
NextToInstaller ==
  pc = "clear" /\ engine.wrote /\ req.out \in {NullPath, EmptyPath} =>
    req.file \in disk[Home]

\* WinZip.cpp: the way of unpacking follows the way of recognising.
MethodFollowsMatch ==
  pc = "unpack" /\ info.type = "winzip" =>
    (method = METHOD_EXTRACT_PE_WINZIP) = snap.zipRsrc
=============================================================================
