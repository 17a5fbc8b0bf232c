------------------------- MODULE MCUnshieldArchive -------------------------
(***************************************************************************)
(* Every archive of three files of few kinds in one or two groups, behind  *)
(* one header file; and one archive behind every combination of header     *)
(* files and volumes.                                                      *)
(***************************************************************************)
EXTENDS UnshieldArchive

MCMaxIndex == 4

Plain == [dir |-> << >>, name |-> "a", link |-> 0, data |-> "whole",
          invalid |-> FALSE, named |-> TRUE]

FileKinds ==
  {[Plain EXCEPT !.dir = d, !.name = n, !.data = s] :
     d \in {<< >>, << "d" >>}, n \in {"a", "b"}, s \in {"whole", "damaged"}}
  \cup {[Plain EXCEPT !.data = s] : s \in {"none", "outside"}}
  \cup {[Plain EXCEPT !.link = k] : k \in 1..4}
  \cup {[Plain EXCEPT !.dir = << "d", "e" >>], [Plain EXCEPT !.invalid = TRUE],
        [Plain EXCEPT !.named = FALSE]}

OneGroup == << [name |-> << "g" >>, first |-> 1, last |-> 3] >>

\* The second group has no name and reaches past the last file.
TwoGroups ==
  << [name |-> << "g" >>, first |-> 1, last |-> 2], [name |-> << >>, first |-> 3, last |-> 4] >>

At(s, t) == << s, t, "absent", "absent" >>

MCArchives ==
  [hdr : {At("good", "good")}, cab : {At("good", "good")},
   groups : {OneGroup, TwoGroups}, files : FileKinds \X FileKinds \X FileKinds]
  \cup
  [hdr : {At(s, t) : s \in States, t \in States}
           \cup {<< "absent", "absent", s, "absent" >> : s \in States},
   cab : [1..MCMaxIndex -> States],
   groups : {OneGroup}, files : {<< Plain, Plain, Plain >>}]
=============================================================================
