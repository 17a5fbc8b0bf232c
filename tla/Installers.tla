----------------------------- MODULE Installers -----------------------------
(***************************************************************************)
(* What the recogniser knows about a file: the kinds of file it can meet,  *)
(* the matcher tables of CUnpackManager in their registration order, and   *)
(* which matcher recognises which kind.  Shared by the abstract service    *)
(* (InstallerService) and by the code-level module (UnpackManager).        *)
(*                                                                         *)
(* GetEnumType returns a different enumerator in every matcher, so an      *)
(* INSTALLER_TYPE is modelled by the name of the matcher that returns it,  *)
(* and INST_NONE by NoType.                                                *)
(***************************************************************************)
EXTENDS Naturals, Sequences

CONSTANTS
  Files,      \* the paths a caller may name as installers
  Kinds,      \* the kinds of content those paths may have
  GoodOuts,   \* output directories that exist
  BadOuts,    \* output paths for which access() fails
  NullPath,   \* szOutputPath = NULL
  EmptyPath,  \* szOutputPath = ""
  Cwd,        \* the directory "./" of the calling process
  Home,       \* the directory the installers lie in
  Root        \* the directory "/"

\* The order in which the PE matchers are registered, hence consulted.
RegisterAllPEPackMatcher ==
  << "dotnet", "7zOffical", "winrar", "7zip", "molebox", "setupfactory",
     "smart", "zipsfx", "vise", "gentee", "advanced", "wise", "nsis",
     "shield", "inno", "winzip", "nestedpe" >>

\* The matchers for files that do not parse as PE.
RegisterAllNPEPackMatcher == << "msi" >>

Matchers ==
  { "dotnet", "7zOffical", "winrar", "7zip", "molebox", "setupfactory",
    "smart", "zipsfx", "vise", "gentee", "advanced", "wise", "nsis",
    "shield", "inno", "winzip", "nestedpe", "msi" }

NoType == "none"

\* Who measures the file again: the overlay is what the file at the path, not
\* the mapped image, has beyond the PE part.  The first need it whenever
\* nothing else made them say yes, the others after an entry point test.
AlwaysMeasure ==
  { "7zOffical", "winrar", "7zip", "setupfactory", "advanced", "wise", "nsis",
    "shield", "inno", "nestedpe" }
MayMeasure == { "dotnet", "smart", "zipsfx", "vise", "gentee" }
OverlayMatchers == AlwaysMeasure \cup MayMeasure

\* A kind of file.  form: there is no such file, it does not parse as PE, or
\* it does; size: its length; sigs: the matchers that recognise the image
\* without a look at its overlay; overlay: those that do with one, the file
\* having the length the image has; resized: those that may if the file has
\* another length by then (Wise finds the length of the file in it);
\* packed7z: the 7-Zip engine, given the path, finds an archive; zipRsrc:
\* WinZip recognises it by sig_4 and a PK resource; zzd: the overlay starts
\* with the DotNetInstaller header.
FileKinds ==
  [ form : {"absent", "npe", "pe"}, size : Nat,
    sigs : SUBSET Matchers, overlay : SUBSET OverlayMatchers,
    resized : SUBSET OverlayMatchers,
    packed7z : BOOLEAN, zipRsrc : BOOLEAN, zzd : BOOLEAN ]

\* Only the PE matchers read a PE image and only MSI reads anything else;
\* seven of them have a way that needs no overlay; the resource test belongs
\* to the WinZip matcher, the header test to dotnet.
WellFormedKind(k) ==
  /\ k.form = "pe" => k.size > 0 /\ "msi" \notin k.sigs
  /\ k.form # "pe" => k.sigs \subseteq {"msi"} /\ k.overlay \cup k.resized = {}
  /\ k.form = "absent" => k.size = 0 /\ k.sigs = {} /\ ~k.packed7z
  /\ k.sigs \subseteq {"molebox", "setupfactory", "vise", "gentee", "shield",
                      "winzip", "msi"}
  /\ k.zipRsrc => "winzip" \in k.sigs

ASSUME KindsAssumption ==
  Kinds \subseteq FileKinds /\ \A k \in Kinds : WellFormedKind(k)

OutPaths == GoodOuts \cup BadOuts \cup {NullPath, EmptyPath}

Dirs == GoodOuts \cup {Cwd, Home, Root}

ASSUME PathsAssumption ==
  /\ GoodOuts \cap (BadOuts \cup {NullPath, EmptyPath}) = {}
  /\ BadOuts \cap {NullPath, EmptyPath} = {}

\* IsValidOutputPath: NULL and "" stand for the default, any other path must
\* exist.
IsValidOutputPath(out) == out \notin BadOuts

\* CheckOutputDir: where an extraction to `out` really lands.
CheckOutputDir(out) == IF out \in {NullPath, EmptyPath} THEN Cwd ELSE out

\* Where the .NET unpacker puts its temporary dumps: below the path as it was
\* passed in, which is "/" for "".
DumpDir(out) == IF out = EmptyPath THEN Root ELSE CheckOutputDir(out)

\* Whether matcher m may say yes to the image `mapped` when the path, looked
\* at again, holds `now`.  The 7-Zip engine opens the path, and so does
\* whoever measures the file; everything else is read from the image.
IsMatchPackerSig(m, mapped, now) ==
  \/ m \in mapped.sigs \cup mapped.overlay
  \/ m = "7zOffical" /\ now.packed7z
  \/ m \in mapped.resized /\ now.size # mapped.size

\* What the tables promise for a file that does not change: the first matcher
\* that recognises it, in registration order.
FirstIn(table, k) ==
  LET hit(i) == IsMatchPackerSig(table[i], k, k)
  IN  IF \E i \in 1..Len(table) : hit(i)
      THEN table[CHOOSE i \in 1..Len(table) :
                   hit(i) /\ \A j \in 1..(i - 1) : ~hit(j)]
      ELSE NoType

Classify(k) ==
  FirstIn(IF k.form = "pe" THEN RegisterAllPEPackMatcher
                           ELSE RegisterAllNPEPackMatcher, k)
=============================================================================
