------------------------- MODULE MCOverlayUnpackers -------------------------
(***************************************************************************)
(* .NET installers of two and of five packages, small and not so small,    *)
(* and one without zzd;                                                    *)
(* InstallShield installers whose cabs the counter does and does not let   *)
(* the search reach, with nested directories in either order, an overlong  *)
(* string and a path without directory; and a file without an overlay.     *)
(* Lengths are those of the code, only the word is shorter.                *)
(***************************************************************************)
EXTENDS OverlayUnpackers, TLC

Dotnet(pe, sizes) ==
  [form |-> "dotnet", pe |-> pe, zzd |-> TRUE,
   parts |-> [i \in DOMAIN sizes |-> [size |-> sizes[i]]]]

CabPart(info, size, dir) ==
  [info |-> info, size |-> size, dir |-> dir, overlong |-> FALSE]

Shield(pe, parts) == [form |-> "shield", pe |-> pe, parts |-> parts]

A == << "a" >>
AB == << "a", "b" >>

MCImages ==
  { [form |-> "plain", pe |-> 300, parts |-> << >>],
    Dotnet(100, << 40, 50, 60, 70, 80 >>),
    Dotnet(300, << 10, 12 >>),
    [Dotnet(200, << 10 >>) EXCEPT !.zzd = FALSE],
    Shield(900, << CabPart(20, 300, A), CabPart(30, 300, AB) >>),
    Shield(900, << CabPart(20, 300, AB), CabPart(30, 300, A) >>),
    Shield(100, << CabPart(20, 480, A), CabPart(20, 100, A) >>),
    Shield(900, << CabPart(20, 300, A), CabPart(20, 100, << >>) >>),
    Shield(300, << [CabPart(20, 100, A) EXCEPT !.overlong = TRUE] >>) }

\* Measured, they give an overlay of another size, none, or a larger one than
\* the length of the file allows.
MCSubstitutes ==
  {NoFile, [form |-> "plain", pe |-> 300, parts |-> << >>],
   Dotnet(300, << 10, 12 >>)}

\* Nothing tells one output directory from the other.
DirsSymmetry == Permutations(Dirs)
=============================================================================
