---------------------------- MODULE CommandLine ----------------------------
(***************************************************************************)
(* What the command-line program is asked to do: the paths it may meet,    *)
(* the arguments of main, and CCmdLineParser::Parse, which turns them into *)
(* a target, an output path and a mode.  Shared by the abstract crawl      *)
(* (Crawl) and by the code-level scan of a directory (DirectoryScan).      *)
(*                                                                         *)
(* A path is the sequence of the names on the way to it from the working   *)
(* directory, which is the empty sequence.                                 *)
(***************************************************************************)
EXTENDS Naturals, Sequences

CONSTANTS
  Paths,         \* every path that may come to exist
  CommandLines,  \* the sequences of arguments main may get after argv[0]
  PathOf         \* the path each argument names; "" names none

Cwd == << >>

ASSUME PathAssumption ==
  /\ Cwd \in Paths /\ Paths \subseteq Seq(STRING)
  /\ \A p \in Paths : Len(p) > 0 => SubSeq(p, 1, Len(p) - 1) \in Paths
  /\ CommandLines \subseteq Seq(DOMAIN PathOf)
  /\ PathOf \in [DOMAIN PathOf -> Paths] /\ "" \in DOMAIN PathOf

Parent(p) == IF p = Cwd THEN Cwd ELSE SubSeq(p, 1, Len(p) - 1)

\* The paths strictly below d.
Under(d) == {p \in Paths : Len(p) > Len(d) /\ SubSeq(p, 1, Len(d)) = d}

\* The names the directory d may hold.
Names(d) == {p[Len(p)] : p \in {q \in Under(d) : Parent(q) = d}}

-----------------------------------------------------------------------------
(* CCmdLineParser.                                                         *)

ValidOptions == {"-r", "-o", "-x"}

\* m_mapOptValue after the loop over the pairs: map::insert keeps the first
\* value of an option that comes twice.
Options(argv) == {argv[i] : i \in {j \in DOMAIN argv : j % 2 = 1}}

IsExistOption(argv, o) == o \in Options(argv)

ValueOf(argv, o) ==
  LET at == {i \in DOMAIN argv : i % 2 = 1 /\ argv[i] = o}
  IN  argv[1 + (CHOOSE i \in at : \A j \in at : i <= j)]

\* Parse: argc counts the program's name, so an odd number of arguments makes
\* argc even and is refused.  main passes a null output path for -r and the
\* empty string for -x without -o; the scan treats both alike.
Parse(argv) ==
  LET argc == Len(argv) + 1
      refused == [ok |-> FALSE, unpack |-> FALSE, target |-> "", out |-> ""]
  IN IF argc < 3 \/ argc % 2 = 0 THEN refused
     ELSE IF ~(Options(argv) \subseteq ValidOptions) THEN refused
     ELSE IF IsExistOption(argv, "-r") THEN
       IF IsExistOption(argv, "-x") \/ IsExistOption(argv, "-o") THEN refused
       ELSE [ok |-> TRUE, unpack |-> FALSE, target |-> ValueOf(argv, "-r"), out |-> ""]
     ELSE IF IsExistOption(argv, "-x") THEN
       [ok |-> TRUE, unpack |-> TRUE, target |-> ValueOf(argv, "-x"),
        out |-> IF IsExistOption(argv, "-o") THEN ValueOf(argv, "-o") ELSE ""]
     ELSE refused

\* CheckOutputDir: no output path means "./".
CheckOutputDir(out) == IF out = "" THEN Cwd ELSE PathOf[out]
=============================================================================
