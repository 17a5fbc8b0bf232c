--------------------------- MODULE DirectoryScan ---------------------------
(***************************************************************************)
(* main, CUnpackManager::ScanDir and what it does to the file system: one  *)
(* action per step between which another program, or the extraction of the *)
(* file just scanned, may change the directories being walked.  ScanFile   *)
(* itself is UnpackManager's subject; here it is what its caller sees, a   *)
(* look at one path that may leave files behind, write over some, and take *)
(* away again what it needed only for a while.                             *)
(*                                                                         *)
(* ScanDir recurses, so its activations are a stack.  A directory stream   *)
(* returns each name that was there when it was opened and stays there;    *)
(* a name that came or went since may be returned or not.  The result of   *)
(* lstat is not checked: when the name is gone, statbuf keeps what the     *)
(* previous entry put there, or what the stack held before the first one.  *)
(***************************************************************************)
EXTENDS CommandLine

CONSTANTS
  Trees,       \* what may be at each path when the program starts
  Recent,      \* the directories that may be less than five seconds old then
  Contents,    \* by path and output path: where extracting such a file may write
  Folders,     \* the paths among those that are directories
  Meddled,     \* the paths another program may make, remove or touch
  MaxChanges   \* bound: how often it does so

Kinds == {"dir", "file", "other"}

\* The loop treats "." and ".." alike, so one of them stands for both.
DotNames == {"."}

ASSUME ScanAssumption ==
  /\ \A fs \in Trees : fs[Cwd] = "dir"
       /\ fs \in [Paths -> Kinds \cup {"absent"}]
       /\ \A p \in Paths : fs[p] # "absent" => fs[Parent(p)] = "dir"
  /\ \A p \in Paths : \A k \in DOMAIN p : p[k] \notin DotNames
  /\ Recent \subseteq Paths /\ Meddled \subseteq Paths \ {Cwd}
  /\ MaxChanges \in Nat
  /\ \A p \in Paths, out \in DOMAIN PathOf : Contents[p][out] \subseteq Paths \ {Cwd}

VARIABLES
  fs,       \* what is at each path: "absent", "dir", "file" or "other"
  recent,   \* the directories whose st_ctime is not before m_timep
  argv,     \* the arguments of main
  pc,       \* "start", "open", "read", "file", "done"
  entry,    \* the path ScanDir or ScanFile is about to be called with
  stack,    \* the activations of ScanDir whose stream is open
  handles,  \* how many directory streams are open
  changes,  \* how often another program meddled
  met,      \* the paths given to ScanFile, unless written or removed since they were read
  wrote,    \* the paths the program has written that are still as it left them
  steady,   \* the files that have been there since the start, untouched
  missed,   \* the directories read but not entered
  stirred,  \* the directories the program has made or changed the entries of
  given_up  \* the directories opened but left because of the output path

fsVars == << fs, recent, changes >>
historyVars == << met, wrote, steady, missed, stirred, given_up >>
vars == << fsVars, argv, pc, entry, stack, handles, historyVars >>

Request == Parse(argv)
Target == PathOf[Request.target]
Dest == CheckOutputDir(Request.out)

Top == stack[Len(stack)]

\* The path an entry of the directory d leads to.
Resolve(d, name) == IF name \in DotNames THEN d ELSE Append(d, name)

-----------------------------------------------------------------------------
TypeOK ==
  /\ fs \in [Paths -> Kinds \cup {"absent"}]
  /\ \A p \in Paths : fs[p] # "absent" => fs[Parent(p)] = "dir"
  /\ recent \subseteq {p \in Paths : fs[p] = "dir"}
  /\ argv \in CommandLines
  /\ pc \in {"start", "open", "read", "file", "done"}
  /\ entry \in Paths
  /\ \A i \in DOMAIN stack :
       /\ stack[i].dir \in Paths
       /\ stack[i].left \cup stack[i].maybe \subseteq Names(stack[i].dir) \cup DotNames
       /\ stack[i].left \cap stack[i].maybe = {}
       /\ stack[i].statbuf.kind \in Kinds \cup {"unset"}
  /\ handles \in Nat
  /\ changes \in 0..MaxChanges
  /\ met \cup wrote \cup steady \cup missed \cup stirred \cup given_up \subseteq Paths

Init ==
  /\ fs \in Trees
  /\ recent \in SUBSET {p \in Recent : fs[p] = "dir"}
  /\ argv \in CommandLines
  /\ pc = "start"
  /\ entry = Cwd
  /\ stack = << >>
  /\ handles = 0
  /\ changes = 0
  /\ met = {}
  /\ wrote = {}
  /\ steady = {p \in Paths : fs[p] = "file"}
  /\ missed = {}
  /\ stirred = {}
  /\ given_up = {}

\* main: arguments that do not parse end the program, others start ScanDir,
\* with a null PPACK_INFO that nothing looks at.
ParseCmdline ==
  /\ pc = "start"
  /\ IF Request.ok
     THEN pc' = "open" /\ entry' = Target
     ELSE pc' = "done" /\ UNCHANGED entry
  /\ UNCHANGED << fsVars, argv, stack, handles, historyVars >>

\* ScanDir's result is not used by its callers, the loop of the directory
\* above and main, which returns 1 whatever happened.
ReturnTo == pc' = IF stack = << >> THEN "done" ELSE "read"

\* No output path, or one for which access() succeeds.
IsValidOutputPath == Request.out = "" \/ fs[PathOf[Request.out]] # "absent"

\* opendir fails.
OpenFails ==
  /\ pc = "open"
  /\ fs[entry] # "dir"
  /\ ReturnTo
  /\ UNCHANGED << fsVars, argv, entry, stack, handles, historyVars >>

\* The output path is looked at after opendir; the return skips closedir.
OpenGivesUp ==
  /\ pc = "open"
  /\ fs[entry] = "dir"
  /\ ~IsValidOutputPath
  /\ handles' = handles + 1
  /\ given_up' = given_up \cup {entry}
  /\ ReturnTo
  /\ UNCHANGED << fsVars, argv, entry, stack, met, wrote, steady, missed, stirred >>

OpenSucceeds ==
  /\ pc = "open"
  /\ fs[entry] = "dir"
  /\ IsValidOutputPath
  /\ handles' = handles + 1
  /\ pc' = "read"
  /\ stack' = Append(stack,
       [dir |-> entry,
        left |-> DotNames \cup {n \in Names(entry) : fs[Append(entry, n)] # "absent"},
        maybe |-> {},
        linked |-> TRUE,  \* the stream is still that of the directory at dir
        statbuf |-> [kind |-> "unset", old |-> FALSE]])
  /\ UNCHANGED << fsVars, argv, entry, historyVars >>

\* lstat finds nothing at an entry of the directory d.
Gone(d, name) ==
  IF name \in DotNames THEN fs[d] # "dir" ELSE fs[Append(d, name)] = "absent"

\* What statbuf may hold after lstat on that entry, having held s before.
Lstat(d, name, s) ==
  IF ~Gone(d, name) THEN
    LET p == Resolve(d, name) IN {[kind |-> fs[p], old |-> p \notin recent]}
  ELSE IF s.kind = "unset" THEN [kind : Kinds, old : BOOLEAN]
  ELSE {s}

\* Mutant: every directory counts as one that was there before.
IsAnyDir(statbuf) == TRUE

\* Mutant: the comparison is the wrong way round.
IsNewDir(statbuf) == ~statbuf.old

\* IsExistedDir: st_ctime < m_timep, five seconds before the program started.
IsExistedDir(statbuf) == statbuf.old

\* Mutant: the dot names are entered like any other.
IsAnyName(name) == TRUE

\* The two string comparisons.
IsProper(name) == name \notin DotNames

\* readdir and lstat, and what the loop's body makes of the two.  A dot name
\* is passed to ScanFile only when its directory is gone, and is then found not
\* to exist; that call is left out.
ReadEntry ==
  /\ pc = "read"
  /\ \E name \in Top.left \cup Top.maybe :
       \E s \in Lstat(Top.dir, name, Top.statbuf) :
         LET enters == s.kind = "dir" /\ IsProper(name) /\ IsExistedDir(s)
             scans == s.kind = "file" /\ IsProper(name)
         IN /\ stack' = [stack EXCEPT ![Len(stack)].left = @ \ {name},
                                      ![Len(stack)].maybe = @ \ {name},
                                      ![Len(stack)].statbuf = s]
            /\ entry' = Resolve(Top.dir, name)
            /\ pc' = IF enters THEN "open"
                     ELSE IF scans THEN "file" ELSE "read"
            /\ met' = IF scans THEN met \cup {entry'} ELSE met
            /\ missed' = IF /\ s.kind = "dir" /\ IsProper(name) /\ ~enters
                            /\ fs[entry'] = "dir"   \* and not only statbuf's word for it
                         THEN missed \cup {entry'} ELSE missed
  /\ UNCHANGED << fsVars, argv, handles, wrote, steady, stirred, given_up >>

\* Mutant: the stream is not closed.
CloseForgotten ==
  /\ pc = "read"
  /\ Top.left = {}
  /\ stack' = SubSeq(stack, 1, Len(stack) - 1)
  /\ pc' = IF Len(stack) = 1 THEN "done" ELSE "read"
  /\ UNCHANGED << fsVars, argv, entry, handles, historyVars >>

\* Mutant: the stream is closed twice.
CloseTwice ==
  /\ pc = "read"
  /\ Top.left = {}
  /\ stack' = SubSeq(stack, 1, Len(stack) - 1)
  /\ handles' = handles - 2
  /\ pc' = IF Len(stack) = 1 THEN "done" ELSE "read"
  /\ UNCHANGED << fsVars, argv, entry, historyVars >>

\* readdir returns NULL: closedir, and back to the directory above.
CloseDir ==
  /\ pc = "read"
  /\ Top.left = {}
  /\ stack' = SubSeq(stack, 1, Len(stack) - 1)
  /\ handles' = handles - 1
  /\ pc' = IF Len(stack) = 1 THEN "done" ELSE "read"
  /\ UNCHANGED << fsVars, argv, entry, historyVars >>

-----------------------------------------------------------------------------
(* What happens to open streams, and to the record of what was done, when  *)
(* the names of the paths S come, go or are made anew.                     *)

Relist(S) ==
  [i \in DOMAIN stack |->
     LET f == stack[i]
         names == {p[Len(p)] : p \in {q \in S : q # Cwd /\ Parent(q) = f.dir}}
     IN IF f.dir \in S   \* the directory itself is gone or replaced
        THEN [f EXCEPT !.left = {}, !.maybe = @ \cup f.left, !.linked = FALSE]
        ELSE IF ~f.linked THEN f
        ELSE [f EXCEPT !.left = @ \ names,
                       !.maybe = @ \cup {n \in names : n \in f.left \/
                                            fs'[Append(f.dir, n)] # "absent"}]]

ScanFileDone ==
  /\ pc = "file"
  /\ pc' = "read"
  /\ UNCHANGED << argv, entry, handles, changes, missed, given_up >>

\* ScanFile writes nothing: it only recognises, the path or the output path is
\* gone, or the file is not one it can unpack.
ScanFileLooks ==
  /\ ScanFileDone
  /\ UNCHANGED << fs, recent, stack, met, wrote, steady, stirred >>

\* Mutant: -r extracts as well.
ExtractsAlways == Request.ok

ExtractsFiles == Request.unpack

\* The unpacker writes some of what the file holds: below the output directory,
\* unless a path in the package leads elsewhere.  A file that is there already
\* is written over in place or made anew (R).  Not everything is kept: dumps
\* that are unpacked further and files that could not be saved are removed
\* again, also when there was a file before.  Directories are never removed.
ScanFileUnpacks ==
  /\ ScanFileDone
  /\ ExtractsFiles
  /\ fs[entry] = "file"
  /\ IsValidOutputPath /\ fs[Dest] = "dir"
  /\ \E S \in SUBSET Contents[entry][Request.out] : \E kept \in SUBSET S :
       LET dirs == S \cap Folders
           fresh == {p \in S : fs[p] = "absent"}
           gone == S \ kept
       IN /\ S # {} /\ dirs \subseteq kept
          /\ \A p \in S : fs[Parent(p)] = "dir" \/ Parent(p) \in dirs
          /\ \A p \in S \ fresh : p \notin dirs /\ fs[p] = "file"
          /\ fs' = [p \in Paths |->
                      IF p \in gone THEN "absent"
                      ELSE IF p \notin fresh THEN fs[p]
                      ELSE IF p \in dirs THEN "dir" ELSE "file"]
          /\ \E R \in {{}, kept \ fresh} :
               LET named == fresh \cup gone \cup R
                   changed == dirs \cup {Parent(p) : p \in named}
               IN /\ recent' = recent \cup changed
                  /\ stirred' = stirred \cup changed
                  /\ stack' = Relist(named)
          /\ met' = met \ S
          /\ wrote' = (wrote \cup kept) \ gone
          /\ steady' = steady \ S

-----------------------------------------------------------------------------
(* Another program.                                                        *)

Meddle ==
  /\ changes < MaxChanges
  /\ changes' = changes + 1
  /\ UNCHANGED << argv, pc, entry, handles, missed, stirred, given_up >>

Forget(S) ==
  /\ stack' = Relist(S)
  /\ met' = met \ S
  /\ wrote' = wrote \ S
  /\ steady' = steady \ S

Remove ==
  /\ Meddle
  /\ \E p \in Meddled :
       LET S == {q \in {p} \cup Under(p) : fs[q] # "absent"}
       IN /\ S # {}
          /\ fs' = [q \in Paths |-> IF q \in S THEN "absent" ELSE fs[q]]
          /\ recent' = (recent \ S) \cup {Parent(p)}
          /\ Forget(S)

Create ==
  /\ Meddle
  /\ \E p \in Meddled, k \in {"dir", "file"} :
       /\ fs[p] = "absent" /\ fs[Parent(p)] = "dir"
       /\ fs' = [fs EXCEPT ![p] = k]
       /\ recent' = recent \cup {Parent(p)} \cup (IF k = "dir" THEN {p} ELSE {})
       /\ Forget({p})

\* A change of mode or owner, or of an entry out of the scan's sight.
Touch ==
  /\ Meddle
  /\ \E p \in Meddled : fs[p] = "dir" /\ recent' = recent \cup {p}
  /\ UNCHANGED << fs, stack, met, wrote, steady >>

-----------------------------------------------------------------------------
Terminated == pc = "done" /\ UNCHANGED vars

Scan ==
  \/ ParseCmdline \/ OpenFails \/ OpenGivesUp \/ OpenSucceeds \/ ReadEntry
  \/ CloseDir \/ ScanFileLooks \/ ScanFileUnpacks

Next == Scan \/ Remove \/ Create \/ Touch \/ Terminated

\* The thread keeps running; other programs need not do anything.
Spec == Init /\ [][Next]_vars /\ WF_vars(Scan)

-----------------------------------------------------------------------------
(* Correctness.                                                            *)

\* ScanDir's activations are a chain of directories, each an entry of the one
\* before it, so that the recursion is no deeper than the tree; and none but
\* the target itself is a directory the program has made.  (One that was there
\* before, and where it has only written over files, it may well walk into.)
NeverIntoOwnOutput ==
  \A i \in 2..Len(stack) :
    /\ stack[i].dir # Cwd
    /\ Parent(stack[i].dir) = stack[i - 1].dir
    /\ stack[i].dir \notin wrote

\* Every stream but those of directories given up is closed on the way out,
\* and a directory is given up only if the output path was wrong from the
\* start, which stops the scan at once, or another program removed it.
StreamsClosed ==
  /\ pc = "done" /\ given_up = {} => handles = 0
  /\ given_up # {} /\ changes = 0 => given_up = {Target} /\ stack = << >>

\* A scan nobody interferes with looks at every file that was there and is
\* left alone, except in directories it was not to enter, and below them: those
\* changed less than five seconds before the start, and those the program
\* changed itself, be it by a file that it removed again at once.
EveryFileScanned ==
  pc = "done" /\ Request.ok /\ changes = 0 /\ given_up = {} =>
    /\ \A f \in steady \cap Under(Target) :
         f \in met \/ \E d \in missed : f \in Under(d)
    /\ missed \subseteq Recent \cup stirred

\* No file is given to ScanFile a second time, unless it was written or made
\* anew since it was read: whatever comes, goes or is made anew while
\* directories are read, none is walked through twice with the same files.
NothingTwice == [][pc = "read" /\ pc' = "file" => entry' \notin met]_vars

\* The scan as the crawl its user asked for: nothing outside the target is
\* scanned, nothing is written unless the arguments ask for extraction, in
\* whatever order they come, and the program ends.
C == INSTANCE Crawl WITH
       phase <- CASE pc = "start" -> "ready" [] pc = "done" -> "over"
                  [] OTHER -> "scanning"

Crawls == C!Spec
=============================================================================
