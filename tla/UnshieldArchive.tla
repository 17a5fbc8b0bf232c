-------------------------- MODULE UnshieldArchive --------------------------
(***************************************************************************)
(* unshield_open_force_version, the loop of unshield_extract_helper over   *)
(* the files of every group, and unshield_close: what UnpackCab does with  *)
(* the cabs of one directory.  Reading the data of one file is             *)
(* UnshieldReader's subject; here a save ends as the state of the data     *)
(* says.                                                                   *)
(*                                                                         *)
(* Paths are those extract_file composes, after it has replaced the        *)
(* characters it does not let through: two files may share one.            *)
(***************************************************************************)
EXTENDS Naturals, Sequences, FiniteSets

CONSTANTS
  MaxIndex,   \* no volume has a higher number
  Archives,   \* the archives
  NoLink      \* a file that is not linked to another one

\* hdr, cab: what the header files and the volumes are like; groups: their
\* name (a sequence of at most one) and range of files; files: by index from 1.
States == {"absent", "good", "tiny", "bad"}
Data == {"none", "outside", "damaged", "whole"}

ASSUME ArchiveAssumption ==
  /\ MaxIndex \in Nat
  /\ \A a \in Archives :
       /\ a.hdr \in [1..MaxIndex -> States] /\ a.cab \in [1..MaxIndex -> States]
       /\ Len(a.groups) \in Nat
       /\ \A g \in 1..Len(a.groups) : a.groups[g].name \in Seq(STRING)
       /\ Len(a.files) \in Nat /\ DOMAIN a.files = 1..Len(a.files)
       /\ \A f \in DOMAIN a.files :
            a.files[f].data \in Data /\ a.files[f].dir \in Seq(STRING)

VARIABLES
  arc,       \* the archive
  pc,        \* "read", "group", "file", "save", "close", "done"
  i,         \* the number of the header file about to be opened
  list,      \* the headers reachable from header_list
  lost,      \* the headers allocated and not reachable any more
  unclosed,  \* how many FILEs were left open
  group,     \* the group of files being extracted
  index,     \* the file of that group
  at,        \* the file whose data is to be saved: index or one it is linked to
  made,      \* the directories that exist below the output directory
  disk,      \* the files there: path, whose data, and whether all of it
  count,     \* how many files the helper reports
  tried,     \* the saves so far, in order: file, path and success
  opened     \* the result of unshield_read_headers

headerVars == << i, list, lost, unclosed, opened >>
outputVars == << made, disk, count, tried >>
vars == << arc, pc, headerVars, group, index, at, outputVars >>

Files == DOMAIN arc.files

File(f) == arc.files[f]

Group == arc.groups[group]

\* Where extract_file puts a file of the group.
DirOf(f) == Group.name \o File(f).dir
PathOf(f) == [dir |-> DirOf(f), name |-> File(f).name]

\* unshield_file_is_valid.
IsValid(f) ==
  f \in Files /\ ~File(f).invalid /\ File(f).named /\ File(f).data # "none"

-----------------------------------------------------------------------------
TypeOK ==
  /\ arc \in Archives
  /\ pc \in {"read", "group", "file", "save", "close", "done"}
  /\ i \in 1..(MaxIndex + 1)
  /\ list \in Seq(1..MaxIndex) /\ Len(list) <= 2
  /\ lost \subseteq 1..MaxIndex
  /\ unclosed \in 0..1 /\ count \in Nat
  /\ group \in 1..(Len(arc.groups) + 1)
  /\ << >> \in made
  /\ \A d \in disk : d.path.dir \in made /\ d.of \in Files /\ d.whole \in BOOLEAN
  /\ \A d, e \in disk : d.path = e.path => d = e
  /\ opened \in BOOLEAN

Init ==
  /\ arc \in Archives
  /\ pc = "read"
  /\ i = 1
  /\ list = << >> /\ lost = {} /\ unclosed = 0 /\ opened = FALSE
  /\ group = 1 /\ index = 1 /\ at = 1
  /\ made = {<< >>} /\ disk = {} /\ count = 0 /\ tried = << >>

-----------------------------------------------------------------------------
(* unshield_read_headers.                                                  *)

HasHdr == i <= MaxIndex /\ arc.hdr[i] # "absent"

\* The header file is read if there is one, else the volume.
Header ==
  IF i > MaxIndex THEN "absent" ELSE IF HasHdr THEN arc.hdr[i] ELSE arc.cab[i]

\* Nothing is extracted if the list is empty.
HeadersRead ==
  /\ opened' = (list' # << >>)
  /\ pc' = IF opened' THEN "group" ELSE "done"

NoHeader ==
  /\ pc = "read" /\ Header = "absent"
  /\ UNCHANGED << arc, i, list, lost, unclosed, group, index, at, outputVars >>
  /\ HeadersRead

\* A header that cannot be used is freed; one that is shorter than its
\* signature leaves its FILE open.
BadHeader ==
  /\ pc = "read" /\ Header \in {"tiny", "bad"}
  /\ unclosed' = unclosed + (IF Header = "tiny" THEN 1 ELSE 0)
  /\ UNCHANGED << arc, i, list, lost, group, index, at, outputVars >>
  /\ HeadersRead

\* Mutant: a header file does not end the loop.
StopsHereNever == FALSE

StopsHere == HasHdr

\* previous stays at the first header, so that a third one takes the second
\* one's place in the list.
GoodHeader ==
  /\ pc = "read" /\ Header = "good"
  /\ list' = IF list = << >> THEN << i >> ELSE << list[1], i >>
  /\ lost' = lost \cup {list[k] : k \in DOMAIN list \ {1}}
  /\ i' = i + 1
  /\ UNCHANGED << arc, unclosed, group, index, at, outputVars >>
  /\ IF StopsHere THEN HeadersRead ELSE UNCHANGED << pc, opened >>

-----------------------------------------------------------------------------
(* unshield_do_action, unshield_extract_helper and extract_file.           *)

EnterGroup ==
  /\ pc = "group" /\ group <= Len(arc.groups)
  /\ pc' = "file"
  /\ index' = Group.first
  /\ UNCHANGED << arc, headerVars, group, at, outputVars >>

LastGroup ==
  /\ pc = "group" /\ group > Len(arc.groups)
  /\ pc' = "close"
  /\ UNCHANGED << arc, headerVars, group, index, at, outputVars >>

LeaveGroup ==
  /\ pc = "file" /\ index > Group.last
  /\ pc' = "group"
  /\ group' = group + 1
  /\ UNCHANGED << arc, headerVars, index, at, outputVars >>

SkipFile ==
  /\ pc = "file" /\ index <= Group.last
  /\ ~IsValid(index)
  /\ index' = index + 1
  /\ UNCHANGED << arc, headerVars, pc, group, at, outputVars >>

\* The directories on the way to d but for the last.
Above(d) == {SubSeq(d, 1, n) : n \in 1..(Len(d) - 1)}

\* Mutant: directories below another one are not made at all.
MakeDirectoryFlat(d) == made \cup {e \in {d} : Len(e) = 1}

\* make_sure_directory_exists is one mkdir.
MakeDirectory(d) == made \cup {e \in {d} : Above(e) \subseteq made}

ExtractFile ==
  /\ pc = "file" /\ index <= Group.last
  /\ IsValid(index)
  /\ made' = MakeDirectory(DirOf(index))
  /\ at' = index
  /\ pc' = "save"
  /\ UNCHANGED << arc, headerVars, group, index, disk, count, tried >>

\* Mutant: the file itself is taken for the previous one.
LinkTargetSelf(f) == f

LinkTarget(f) == File(f).link

\* unshield_file_save calls itself for the previous file of a link.
FollowLink ==
  /\ pc = "save"
  /\ at \in Files /\ ~File(at).invalid /\ File(at).data # "none"
  /\ File(at).link # NoLink
  /\ at' = LinkTarget(at)
  /\ UNCHANGED << arc, headerVars, pc, group, index, outputVars >>

\* The output file is opened, and truncated, once the data is known to be there.
Opens ==
  /\ at \in Files /\ ~File(at).invalid /\ File(at).data \in {"damaged", "whole"}
  /\ DirOf(index) \in made

Saved == [path |-> PathOf(index), of |-> at, whole |-> File(at).data = "whole"]

\* Mutant: a file of that name is not replaced.
OthersAndOld == disk

Others == {d \in disk : d.path # PathOf(index)}

\* Mutant: what a failed save has written stays.
FailedLeavesPartial == IF Opens THEN Others \cup {Saved} ELSE disk

\* Whatever the reason, unlink(filename): an earlier file of that name goes.
Failed == Others

\* The end of a save that is not a link, and of extract_file.
SaveFile ==
  /\ pc = "save"
  /\ at \in Files => File(at).invalid \/ File(at).data = "none" \/ File(at).link = NoLink
  /\ LET success == Opens /\ Saved.whole
     IN /\ disk' = IF success THEN Others \cup {Saved} ELSE Failed
        /\ count' = count + (IF success THEN 1 ELSE 0)
        /\ tried' = Append(tried, [file |-> index, path |-> PathOf(index), success |-> success])
  /\ index' = index + 1
  /\ pc' = "file"
  /\ UNCHANGED << arc, headerVars, group, at, made >>

\* unshield_close frees what it reaches from header_list.
Close ==
  /\ pc = "close"
  /\ list' = << >>
  /\ pc' = "done"
  /\ UNCHANGED << arc, i, lost, unclosed, opened, group, index, at, outputVars >>

-----------------------------------------------------------------------------
Step ==
  \/ NoHeader \/ BadHeader \/ GoodHeader \/ EnterGroup \/ LastGroup \/ LeaveGroup
  \/ SkipFile \/ ExtractFile \/ FollowLink \/ SaveFile \/ Close

Terminated == pc = "done" /\ UNCHANGED vars

Next == Step \/ Terminated

\* The calling thread keeps running.
Spec == Init /\ [][Next]_vars /\ WF_vars(Step)

-----------------------------------------------------------------------------
(* Correctness.                                                            *)

\* The file f is linked to, if it is.
Onward(f) == IF f \in Files /\ File(f).link # NoLink THEN File(f).link ELSE f

\* The n-th file on the way from f along the links.
OnTheWay(f) ==
  LET w[n \in 0..Len(arc.files)] == IF n = 0 THEN f ELSE Onward(w[n - 1]) IN w

Source(f) == OnTheWay(f)[Len(arc.files)]

LinksEnd == \A f \in Files : Source(f) \in Files => File(Source(f)).link = NoLink

\* The archive holds the data of f, undamaged.
Readable(f) ==
  /\ \A n \in 0..Len(arc.files) :
       LET g == OnTheWay(f)[n] IN g \in Files /\ ~File(g).invalid /\ File(g).data # "none"
  /\ File(Source(f)).data = "whole"

\* With a header file, as InstallShield makes them, its header is the only one.
\* Without, the headers of the volumes are read up to the first that is missing
\* or cannot be used; the first and the last are in the list, and what is
\* between them is lost.
HeadersAccounted ==
  pc \notin {"read", "done"} =>
    /\ list[1] = 1
    /\ arc.hdr[1] # "absent" => i = 2 /\ list = << 1 >> /\ lost = {}
    /\ list[Len(list)] = i - 1
    /\ lost = 2..(i - 2)

\* What is in the output directory is whole, never the rest of a save that
\* failed, and of all files that were to go to a path it is the last one, if
\* that one could be saved; a file counted before may be gone again.
LastAttemptDecides ==
  pc # "save" =>
    disk = {[path |-> tried[k].path, of |-> Source(tried[k].file), whole |-> TRUE] :
              k \in {j \in DOMAIN tried :
                       /\ tried[j].success
                       /\ \A l \in DOMAIN tried : l > j => tried[l].path # tried[j].path}}

Earlier(k) == {tried[j].path.dir : j \in 1..(k - 1)}

\* A save succeeds only if the data is readable and earlier files were to go to
\* each of the directories above its own; and does succeed if that was so for
\* all files up to this one.  All that succeed are counted.
SavedIfPossible ==
  /\ \A k \in DOMAIN tried :
       LET ready(j) == Above(tried[j].path.dir) \subseteq Earlier(j)
       IN /\ tried[k].success => Readable(tried[k].file) /\ ready(k)
          /\ Readable(tried[k].file) /\ (\A j \in 1..k : ready(j)) => tried[k].success
  /\ count = Cardinality({k \in DOMAIN tried : tried[k].success})

\* Unless links of files go round in a circle, the extraction ends.
ExtractionEnds == LinksEnd => <>(pc = "done")

-----------------------------------------------------------------------------
(* What a comment of the code says and a run refutes.                      *)

\* make_sure_directory_exists: making one level after the other is switched
\* off, "the caller has only to see to it that the directory exists".
CallerMadeDirectories == pc = "save" => Above(DirOf(index)) \subseteq made
=============================================================================
