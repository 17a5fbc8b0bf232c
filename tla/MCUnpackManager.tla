--------------------------- MODULE MCUnpackManager ---------------------------
(***************************************************************************)
(* The kinds of file the runs of UnpackManager use.  Each one makes a      *)
(* different path through ScanFile possible.                               *)
(***************************************************************************)
EXTENDS UnpackManager

Kind(form, bytes) ==
  [form |-> form, size |-> bytes, sigs |-> {}, overlay |-> {}, resized |-> {},
   packed7z |-> FALSE, zipRsrc |-> FALSE, zzd |-> FALSE]

NoFile == Kind("absent", 0)
PlainText == Kind("npe", 0)
MsiPackage == [Kind("npe", 1) EXCEPT !.sigs = {"msi"}]

\* A self-extractor that the 7-Zip engine opens, carrying the 7zip stub's own
\* signature too: two matchers recognise it.
SevenZipSfx == [Kind("pe", 2) EXCEPT !.packed7z = TRUE, !.overlay = {"7zip"}]
DotnetSetup == [Kind("pe", 3) EXCEPT !.overlay = {"dotnet"}, !.zzd = TRUE]

\* Recognised late in the table; unpacked by unshield.
ShieldSetup == [Kind("pe", 4) EXCEPT !.overlay = {"shield", "nestedpe"}]
WinZipBySig == [Kind("pe", 5) EXCEPT !.sigs = {"winzip"}]
WinZipByRsrc == [WinZipBySig EXCEPT !.zipRsrc = TRUE]

\* Only a stub unpacks it.
GenteeSetup == [Kind("pe", 6) EXCEPT !.sigs = {"gentee"}]
WinRarSfx == [Kind("pe", 7) EXCEPT !.overlay = {"winrar"}]
NsisSetup == [Kind("pe", 8) EXCEPT !.overlay = {"nsis"}]

\* Nothing recognises it, unless the file is replaced before it is measured and
\* happens to have the length that Wise would find in its data.
PlainExe == [Kind("pe", 9) EXCEPT !.resized = {"wise"}]

\* What another program puts in place of a file.
Replacements == {NoFile, MsiPackage, SevenZipSfx, PlainExe}
UnpackerKinds ==
  {PlainText, DotnetSetup, SevenZipSfx, ShieldSetup, WinZipByRsrc, WinZipBySig,
   GenteeSetup, WinRarSfx, NsisSetup}
AllKinds == Replacements \cup UnpackerKinds
FewKinds == {NoFile, SevenZipSfx, GenteeSetup}
StubKinds == {GenteeSetup}
SevenZipKinds == {SevenZipSfx}
WinZipKinds == {WinZipByRsrc, WinZipBySig}
=============================================================================
