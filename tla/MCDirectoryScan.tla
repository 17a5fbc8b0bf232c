-------------------------- MODULE MCDirectoryScan --------------------------
(***************************************************************************)
(* A working directory with an installer a, a directory d with another     *)
(* one, an output directory o with a file of its own and a link l.  The    *)
(* scan starts at the working directory or at o and extracts to either,    *)
(* so that it may walk through what it writes; a holds the installer x.    *)
(* With the output directory o, the other installer has a file of the name *)
(* that is there already and one that goes above it.                       *)
(***************************************************************************)
EXTENDS DirectoryScan, TLC

Rel == {<< "x" >>, << "y" >>, << "y", "z" >>}

MCPaths ==
  {<< >>, << "a" >>, << "d" >>, << "d", "b" >>, << "o" >>, << "o", "c" >>,
   << "l" >>} \cup Rel \cup {<< "o" >> \o r : r \in Rel}

Before == ( << >> :> "dir" @@ << "a" >> :> "file" @@ << "d" >> :> "dir" @@
            << "d", "b" >> :> "file" @@ << "o" >> :> "dir" @@
            << "o", "c" >> :> "file" @@ << "l" >> :> "other" )

MCTrees ==
  {[p \in MCPaths |-> IF p \in DOMAIN Before THEN Before[p] ELSE "absent"],
   [p \in MCPaths |->
      IF p \in DOMAIN Before \ {<< "o" >>, << "o", "c" >>} THEN Before[p] ELSE "absent"]}

MCRecent == {<< "d" >>}

MCFolders == {<< "y" >>, << "o", "y" >>}

MCMeddled == {<< "a" >>, << "d" >>, << "o" >>}

MCPathOf == [s \in {".", "o", "a", "", "-r", "-x", "-o", "-z"} |->
               CASE s = "o" -> << "o" >> [] s = "a" -> << "a" >> [] s = "." -> << >> [] OTHER -> << "x" >>]

MCContents ==
  [p \in MCPaths |-> [out \in DOMAIN MCPathOf |->
     LET dest == IF out = "" THEN << >> ELSE MCPathOf[out]
         below == IF out \in {"", "o"} THEN {dest \o r : r \in Rel} ELSE {}
     IN CASE p = << "a" >> -> below
          [] p \in {<< "x" >>, << "o", "x" >>} -> below \cap {dest \o << "y" >>}
          [] p = << "d", "b" >> ->
               IF out = "o" THEN {<< "x" >>, << "o", "c" >>} ELSE below \cap {<< "x" >>}
          [] OTHER -> {}]]

MCCommandLines ==
  {<< >>, << "-r" >>, << "-z", "." >>, << "-o", "o" >>, << "-r", ".", "-o", "o" >>,
   << "-r", "." >>, << "-x", "." >>, << "-x", ".", "-o", "o" >>,
   << "-o", "o", "-x", "." >>, << "-x", "o", "-x", "." >>, << "-x", ".", "-o", "" >>,
   << "-x", "a" >>}
=============================================================================
