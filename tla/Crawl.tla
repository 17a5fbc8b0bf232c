------------------------------- MODULE Crawl -------------------------------
(***************************************************************************)
(* What a run of the command-line program promises, with no directory      *)
(* streams, no recursion and no time stamps in sight.  A run whose         *)
(* arguments ask for nothing that makes sense ends at once.  Otherwise     *)
(* files strictly below the target are met; only when the arguments say -x *)
(* does the run write or remove anything; and the run comes to an end.     *)
(* Neither which files are reached is promised, as other programs share    *)
(* the file system, nor that all that is written is below the output       *)
(* directory, as the packages have a say in that.                          *)
(***************************************************************************)
EXTENDS CommandLine

VARIABLES
  argv,   \* the arguments of the run
  phase,  \* "ready", "scanning", "over"
  met,    \* the paths given to ScanFile since they were last written
  wrote   \* the paths the run has written that are still as it left them

crawlVars == << argv, phase, met, wrote >>

\* The modes, stated by the options that are given, whatever their order.
Recognise == Len(argv) % 2 = 0 /\ Options(argv) = {"-r"}
Extract ==
  Len(argv) % 2 = 0 /\ (Options(argv) = {"-x"} \/ Options(argv) = {"-x", "-o"})

Target == PathOf[ValueOf(argv, IF Recognise THEN "-r" ELSE "-x")]

Init ==
  /\ argv \in CommandLines
  /\ phase = "ready"
  /\ met = {}
  /\ wrote = {}

Begin ==
  /\ phase = "ready"
  /\ phase' = IF Recognise \/ Extract THEN "scanning" ELSE "over"
  /\ UNCHANGED << argv, met, wrote >>

Meet(f) ==
  /\ phase = "scanning"
  /\ f \in Under(Target)
  /\ met' = met \cup {f}
  /\ UNCHANGED << argv, phase, wrote >>

\* Files are made, written over or removed; those written may be met, again.
Write ==
  /\ phase = "scanning" /\ Extract
  /\ wrote' \in SUBSET Paths
  /\ met' \in SUBSET met /\ met' \cap (wrote' \ wrote) = {}
  /\ UNCHANGED << argv, phase >>

\* Another program writes or removes files.
Interfere ==
  /\ met' \in SUBSET met
  /\ wrote' \in SUBSET wrote
  /\ UNCHANGED << argv, phase >>

End ==
  /\ phase = "scanning"
  /\ phase' = "over"
  /\ UNCHANGED << argv, met, wrote >>

Next == Begin \/ (\E f \in Paths : Meet(f)) \/ Write \/ Interfere \/ End

\* A run neither waits for ever before it begins nor meets files for ever.
Spec ==
  Init /\ [][Next]_crawlVars /\ WF_crawlVars(Begin) /\ WF_crawlVars(End)
=============================================================================
