------------------------------ MODULE Overlay ------------------------------
(***************************************************************************)
(* The overlay of a mapped image, as CPEParser reports it: what follows    *)
(* the last section.  Parse maps the file that is at the path then; the    *)
(* size of the file is taken from the path when the first question needs   *)
(* it, possibly of another file; the PE size is that of the mapped image.  *)
(* All three sizes are remembered until the next Parse, 0 meaning unknown. *)
(*                                                                         *)
(* Every function that returns a bool and a number is modelled by the      *)
(* number, which is 0 where the function fails: its callers tell the two   *)
(* apart nowhere.                                                          *)
(***************************************************************************)
EXTENDS Integers, SequencesExt

CONSTANTS
  Images,   \* the images that may be at the path; pe: the end of the last
            \* section, form: the installer in the overlay, parts: its pieces
  NoFile,   \* what the path names when there is no file
  Word      \* 2^32, the modulus of uint32_t

ASSUME OverlayAssumption ==
  NoFile \notin Images /\ \A m \in Images : m.pe \in Nat \ {0}

VARIABLES
  world,     \* the image at the path
  img,       \* the image that is mapped
  parser,    \* m_uFileSize, m_uPESize, m_uOverlaySize, m_uOverlayOffset
  answered,  \* the answers given in the current call while the file could be read
  renewed    \* the file was replaced after it was mapped, before its size was read

overlayVars == << world, img, parser, answered, renewed >>

\* Sizes of the parts of an overlay: an InstallShield cab is preceded by four
\* strings (info), a 7z package by its size and checksum, all packages by zzd.
SizeHeader == 8
ZzdHeader == 6

PartLength(m, i) ==
  m.parts[i].size + (IF m.form = "dotnet" THEN SizeHeader ELSE m.parts[i].info)

\* The start of each part and, last, the end of the file.
PartStarts(m) ==
  LET start[i \in 1..(Len(m.parts) + 1)] ==
        IF i = 1 THEN m.pe + (IF m.form = "dotnet" THEN ZzdHeader ELSE 0)
        ELSE start[i - 1] + PartLength(m, i - 1)
  IN  start

PartStart(m, i) == PartStarts(m)[i]

FileLength(m) == PartStart(m, Len(m.parts) + 1)

\* Sizes fit their type, as those of a mapped file do.
ASSUME LengthAssumption ==
  /\ Word \in Nat \ {0}
  /\ \A m \in Images :
       FileLength(m) \in Nat \ {0} /\ FileLength(m) - m.pe \in 0..(Word - 1)

-----------------------------------------------------------------------------
Fresh == [fileSize |-> 0, peSize |-> 0, overlaySize |-> 0, overlayOffset |-> 0]

\* CPEParser::Parse.
Parse ==
  /\ world # NoFile
  /\ img' = world
  /\ parser' = Fresh
  /\ answered' = {}
  /\ renewed' = FALSE
  /\ UNCHANGED world

\* The file at the path as GetPEFileSize finds it.
LengthNow == IF world = NoFile THEN 0 ELSE FileLength(world)

GetPEFileSize(p) == IF p.fileSize > 0 THEN p.fileSize ELSE LengthNow

\* Mutant: the size of the file is asked for again and again.
FileSizeForgotten(p) == LET n == GetPEFileSize(p) IN [p EXCEPT !.fileSize = 0]

\* m_uFileSize once GetPEFileSize has returned.
FileSizeKept(p) == LET n == GetPEFileSize(p) IN [p EXCEPT !.fileSize = n]

GetPEPESize(p) == IF p.peSize > 0 THEN p.peSize ELSE img.pe

\* Mutant: the difference is not that of unsigned numbers.
DifferenceSigned(a, b) == a - b

Difference(a, b) == (a - b) % Word

\* A file that is shorter than the PE size only gets a message.  The mark for
\* an empty overlay, 2^32 - 1, is overwritten at once by the difference 0.
GetOverlaySize(p) ==
  IF p.overlaySize > 0 THEN p.overlaySize
  ELSE IF GetPEFileSize(p) = 0 THEN 0
  ELSE Difference(GetPEFileSize(p), GetPEPESize(p))

GetOverlayOffset(p) ==
  IF p.overlayOffset > 0 THEN p.overlayOffset
  ELSE IF GetOverlaySize(p) = 0 THEN 0
  ELSE GetPEPESize(p)

\* The remembered sizes after a question.
SizeAsked(p) ==
  IF p.overlaySize > 0 THEN p
  ELSE IF GetPEFileSize(p) = 0 THEN p
  ELSE [FileSizeKept(p) EXCEPT !.peSize = GetPEPESize(p),
                               !.overlaySize = GetOverlaySize(p)]

OffsetAsked(p) ==
  IF p.overlayOffset > 0 THEN p
  ELSE [SizeAsked(p) EXCEPT !.overlayOffset = GetOverlayOffset(p)]

\* A caller asks for the size, or the offset, and is given n.  That no file
\* was there is no answer.
Answer(what, n) ==
  answered' = IF GetPEFileSize(parser) = 0 THEN answered
              ELSE answered \cup {[what |-> what, is |-> n]}

AskSize(n) ==
  /\ n = GetOverlaySize(parser)
  /\ parser' = SizeAsked(parser)
  /\ Answer("size", n)
  /\ UNCHANGED << world, img, renewed >>

AskOffset(n) ==
  /\ n = GetOverlayOffset(parser)
  /\ parser' = OffsetAsked(parser)
  /\ Answer("offset", n)
  /\ UNCHANGED << world, img, renewed >>

\* Another program replaces or removes the file; the mapping stays.
Replace ==
  /\ world' \in (Images \cup {NoFile}) \ {world}
  /\ renewed' = (renewed \/ parser.fileSize = 0)
  /\ UNCHANGED << img, parser, answered >>
=============================================================================
