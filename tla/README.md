# ExtractEverything: a verification development

This directory models and checks the part of ExtractEverything that is its own
logic: how directories are scanned, how one file is recognised and unpacked, how
the two unpackers that read an overlay themselves walk it
(`src/pe-parser-library`), how unshield reads the headers of an archive, goes
through its files (`src/unshield-master/lib`, `src/pe-parser-library/src/unshield.c`)
and puts a file together that is split over several volumes (`lib/file.c`).

## 1. The system

    another program                       main.cpp: CCmdLineParser
       | InstallerTypeDetect,                |
       | InstallerExtract (export.h)         v
       |                       CUnpackManager::ScanDir <-> file system
       v                                     |
    CUnpackManager::ScanFile <---------------+
       |  ^      \-------------> CPEParser (Parse, GetNPEBuffer, Clear, overlay)
       |  |                            ^
       |  | INSTALLER_TYPE, success    | m_pPE
       v  |                            |
    matcher table: IsMatchPackerSig, Unpack (18 classes)
       |            |                |
       v            v                v
    7-Zip engine   unshield        CFileAssist (dump to temporary files)
                   (volumes -> files)

The library is single-threaded by contract (`export.h:52,66`: multithreading is
not supported, callers synchronise); concurrency comes from the file system, which other programs
change while a call runs, and from objects that outlive a call.

| Component | State it keeps | Operations | What is hard | What makes it correct |
|---|---|---|---|---|
| Scan of one file, `UnpackManager.cpp` | none of its own across calls; the matcher tables | `ScanFile` behind the two exported functions | early returns, a file replaced between two looks at it | a reply is justified by the file's content during the call; writes only when asked, and only where the output path leads |
| Scan of a directory, `UnpackManager.cpp` | the open directory streams, the start time | `ScanDir` | readdir meets the files the scan extracts; names vanish between readdir and lstat | every file there at the start is scanned, none twice unchanged; files are changed only for `-x`; the scan ends |
| Parser lifecycle, `src/parse.cpp` | mapped image, buffer of a non-PE file | `Parse`, `GetNPEBuffer`, `Clear` | release on every path | nothing is held between calls; nothing is read after release |
| Overlay and size caches, `src/parse.cpp` | `m_uFileSize`, `m_uPESize`, `m_uOverlaySize`, `m_uOverlayOffset` | `GetOverlaySize`, `GetOverlayOffset`, `GetPEFileSize`, `GetPEPESize` | the file is measured later than it is mapped; 32-bit differences | all answers within a call agree |
| Matchers, 18 classes | `m_pPE`, WinZip's `m_uUnpackMethod` | `SetParsedPE`, `IsMatchPackerSig` | they live as long as the process | what a matcher reads belongs to the current call |
| Unpackers, the same classes | list of temporary files of the .NET unpacker | `Unpack` | failure half way, stubs, lists that are never cleared, offsets that drift | success means extracted; what is extracted is of this installer and all of it |
| unshield reader and save loop, `lib/file.c` | `UnshieldReader`, the descriptor | `unshield_reader_*`, `unshield_file_save` | parts in several volumes, three formats | a saved file is whole and in order |
| unshield headers and tables, `lib/*.c` | list of headers | `unshield_open_force_version`, `unshield_close` | several headers | no header in use is lost |
| unshield extraction driver, `pe-parser-library/src/unshield.c` | output directory, counters | `unshield_do_action`, `unshield_extract_helper`, `extract_file` | one file of several fails; two files share a path; links | what is on disk is whole and the latest; the extraction ends |
| Command line, `CmdLineParser.cpp` | map of options | `Parse` | repeated, missing and contradictory options | recognition and extraction exclude each other, in any order of the options |
| Error callback, `global.cpp` | one function pointer | `SetErrorMessageCallback` | none | - |
| PE format, 7-Zip engine | - | - | vendored | - |

The hazards of `PROJECT.json` are the list of what can go wrong at which line;
all but four are covered by a property of the runs below; each of the four
(`UnpackManager.cpp:308`, `WinZip.cpp:34`, `FileAssist.cpp:199`,
`libunshield.c:246`) has a note that says why none covers it.

## 2. Modules

| Module | Models | Role |
|---|---|---|
| `Installers` | matcher tables of `UnpackManager.cpp`, path helpers | constants and operators shared by the next two |
| `InstallerService` | `export.h` | abstract specification: call, write, reply |
| `UnpackManager` | `ScanFile` with parser lifecycle, matchers and outcomes of the unpackers | one action per step of a call |
| `UnpackManagerProofs` | - | theorems about `UnpackManager` |
| `MCUnpackManager` | - | kinds of file for TLC |
| `Induction` | - | the least element of a set of naturals and induction, for the proofs |
| `CommandLine` | `CCmdLineParser`, the default output directory | constants and operators shared by the next two |
| `Crawl` | what `-r` and `-x` ask for | abstract specification of a run of the program |
| `DirectoryScan` | `main`, `ScanDir`, the file system | one action per look at, or change of, the file system |
| `DirectoryScanProofs` | - | theorems about `DirectoryScan` |
| `MCDirectoryScan` | - | a small tree and command lines for TLC |
| `Overlay` | the four sizes that `CPEParser` remembers | state and actions used by the next |
| `OverlayUnpackers` | `CDotnetInstallerUnpacker`, `CShieldInstUnpacker` | matching, search, dump and unpacking over several calls |
| `OverlayProofs` | - | theorems about the answers of `Overlay` and the .NET unpacker's list |
| `OverlayUnpackersProofs` | - | theorems about the two searches and about the types |
| `MCOverlayUnpackers` | - | installers for TLC |
| `UnshieldArchive` | `unshield_read_headers`, `_do_action`, `extract_file`, `_close` | opening an archive and extracting all its files |
| `UnshieldArchiveProofs` | - | theorems about `UnshieldArchive` |
| `MCUnshieldArchive` | - | archives for TLC |
| `UnshieldReader` | `unshield_reader_open_volume`, `_read`, `_create`, the loop and checks of `unshield_file_save` | one action per turn of a loop |
| `UnshieldReaderProofs` | - | theorems about `UnshieldReader` |
| `MCUnshieldReader` | - | small archives for TLC |

### 2.1 UnpackManager

State. `pc` is the place in `ScanFile`: `access` and `output` are the two path
tests, `load` the call of `GetNPEBuffer`, `pe` and `npe` the two matcher loops
with loop variable `idx`, `overlay` the moment in a matcher where it asks for the
overlay, `unpack` the call of `Unpack`, `clear` the label
`PEPARSE_CLEAR`. `snap` is the content that was mapped or read, `world` what is
at the path now, `size` the parser's `m_uFileSize`. `bound` and `method` are the two fields that matchers keep from
call to call, `live` the images and buffers that are still allocated, `info` the
caller's `PACK_INFO`, `ans` what the caller got, `disk` what lies in the
directories. `seen`, `engine` and `fresh` are history: the kinds the file of the
current call has had, how the unpacker really fared, and whether the output
directory counted as empty when the call began.

Actions and code, in order: `Call` (`ScanFile` up to and including `Parse`),
`CallNullTarget`, `CheckTarget` (`access`), `CheckOutput` (`IsValidOutputPath`,
`IsNeedScanFile`), `LoadNPE`, `TryMatcher` (one turn of either loop: bind,
match, report, or come to the overlay), `TryOverlay` (the rest of such a turn),
`NoMatch`, `Unpack`, `Clear`. `Replace` is the environment.

Steps are cut where another program can get in between: each look at the path
(`Parse`, `access`, `GetNPEBuffer`, the 7-Zip engine inside the 7zOffical
matcher, and `GetPEFileSize`, by which every matcher that asks for the overlay
opens the path again) is a step of its own. The size is remembered once it is not 0,
so that only the first measuring matcher really looks, unless the file was
absent or empty then.

Abstractions.
- A file is a *kind*: whether it parses as PE, its length, which matchers its
  image satisfies without the overlay (`sigs`) and with it (`overlay`), and which
  may be satisfied if the file at the path has another length by then (`resized`:
  Wise compares that length with one in its data). With another length any matcher may miss the
  overlay. `WellFormedKind` says which combinations the code can meet.
- A matcher that reads past the mapping, because the file has grown, is taken to find no
  signature there. If one matcher asks for the size several times and nothing
  is remembered, the questions are one step (`Overlay` takes them apart).
- An unpacker is the set of its outcomes (`Outcomes`), read off its Linux body:
  thirteen return without extracting, five extract. `ok` is what the body
  returns before it looks at the directory, `wrote` whether anything came out,
  `whole` whether everything did, `left` whether a .NET dump stays behind. Only the
  two unpackers that return the engine's result tie `ok` to `whole`; .NET, InstallShield
  and WinZip drop the results of engine, unshield and writes, so that their success may be partial.
- Four unpackers look afterwards whether the directory is empty. They look at the path as it
  was passed, so without an output path they never succeed. `SuccessIsBacked` takes it that nobody
  else writes into the output directory while the call runs.
- For `""` the .NET unpacker makes its dumps below `/` (`DumpDir`), as it puts
  "/" between the path and the name; the engine extracts to the working directory.
- Modelled is the Linux build. The Windows branches, `CheckPathSlash` (it rewrites
  separators in the caller's strings) and allocation failures are left out.
- The caller passes a non-NULL `PACK_INFO`, as both exported functions do.

### 2.2 InstallerService

The service keeps `world`, `disk` and one request. `Reply` may refuse only if
the file was absent at some moment of the call or the output path is bad;
otherwise the type is the one the tables give (if the file did not change), or
one that some two contents of the file justify (if it did: image, engine and measured size may
belong to different ones). `Write` may happen only for an extraction, and only
where the output path leads (`Targets`): the directory given; without one the working
directory, and for `""` also `/`. In this the service is weaker than `export.h:64`, which
promises the installer's own directory; the contradiction is the finding of run `no_output_path`. Refinement mapping: `phase` is "ready" iff `pc` is
"idle"; the other variables map to themselves.

### 2.3 UnshieldReader

A behaviour saves one file of one archive. The archive (`arc`) is fixed: how the
stored bytes are cut into parts (`begin`, `part` by volume), which volume headers
name the file as their first or last, whether the descriptor is flagged
`FILE_SPLIT`, which volumes exist, what the chunks of a compressed file are.
`WellFormed` states what the writer of cabinets guarantees. Chunk headers that do
not add up, missing volumes and damaged chunks are *not* excluded. Before format 6
the headers have 32 bits for a size (`READ_UINT32`, `file.c:66-71`); from
format 6 on they have 64 (`file.c:108-111`), and so may the stored size here.

A byte is known by its place in the stream: `at` is the place of the byte under
the file pointer, `pos` how far the stream has been delivered in order,
`garbled` that something else was delivered. Thus "the right bytes in the right
order" is a property of numbers, not of data.

Actions and code: `Create` (one turn of the search for the home volume in
`unshield_reader_create`), `OpenVolume` (an operator: `unshield_reader_open_volume`),
`Begin` (start of `unshield_file_save`), `AskNext` (head of its loop),
`ReadHere`, `ReadFails`, `NextVolume` (one turn of `unshield_reader_read`),
`HeaderRead`, `StorePiece`, `StoreFails` (inflate, count, write), `Verify`
(expanded size and MD5). `bytes_left` and `volume_bytes_left` are unsigned: a 64-bit
size is cut to `Word` when it is assigned to them (`Begin`, `OpenVolume`) and `bytes_left`
wraps there. A volume in `far` is one where the file begins at 4 GiB or beyond: the
`_high` half of the offset is not looked at, and `fseek` gets somewhere else
(`SeekTo`).

Abstractions: what was packed into a chunk is one unit, so that an intact chunk yields 1
(`yield`); a damaged one that inflates yields any number of units, of other content. A read that
leaves the stream delivers foreign bytes; a chunk size read from them is any value up to
`MaxChunk`, and what they inflate to any up to `MaxYield`. Left out: `LINK_PREV` (it is in `UnshieldArchive`), the old
and the raw save, the external reader, deobfuscation (a bytewise permutation that
keeps its own running offset).

### 2.4 DirectoryScan and Crawl

A behaviour is one run of the program. `fs` is what is at each path, a path being
the sequence of names from the working directory. `ScanDir` calls itself, so its
activations are the sequence `stack`, each with the names its stream must still
return (`left`) and those it may (`maybe`): POSIX leaves open whether an entry made
or removed since `opendir` is returned (`Relist`). `statbuf` is the C variable of that name:
the result of `lstat` is not looked at, so after a failure it keeps the previous
entry's values, or anything if there was none. `recent` are the directories whose `st_ctime` is not before
`m_timep`; a directory that gets a new entry becomes recent, and so does a new one.

Actions and code: `ParseCmdline` (`main`), `OpenFails`, `OpenGivesUp`,
`OpenSucceeds` (`ScanDir` to line 284), `ReadEntry` (`readdir`, `lstat` and the
tests of the loop's body), `ScanFileLooks`, `ScanFileUnpacks` (line 308),
`CloseDir`. `Remove`, `Create`, `Touch` are another program; `MaxChanges` bounds them.

`ScanFile` is one step here, with what `UnpackManager` leaves to its caller: it may write
any part of what the file holds (`Contents`, which depends on the output path). That may
lie anywhere: a cab path with `..` is not refused (`ShieldInstUnpacker.cpp:250-262`) and dumps
for `""` go to `/`. A file that exists
already may be overwritten in place or unlinked and made anew, which for `readdir` is not the same.
What was written may be removed again before the call ends: .NET dumps
(`DotnetInstallerUnpacker.cpp:89,101`) and failed saves of unshield (`unshield.c:572`), the latter also
where there was a file before. `stirred` are the directories whose entries
the program itself changed in either way; their `st_ctime` is new though nothing may be left in them.

`met` are the paths given to `ScanFile`; a path leaves it when it is written, removed or
made anew, so that `NothingTwice` speaks of a file read again unchanged.

`Crawl` has no streams, times or recursion: files strictly below the target are met
(`Meet`), files are written and removed only for `-x` (`Write`), and it does not promise where;
what is written may be met again, another program may interfere, and the run ends. It states the two modes by the set of
options given, the code by nested tests over a map. Refinement mapping:
`phase` is "ready", "scanning" or "over" as `pc` is "start", something else or "done".

Left out: symbolic links are entries that are neither file nor directory (`lstat`
does not follow them), and no program puts a link in the place of a directory between
`lstat` and `opendir`; `.` and `..` are one name, as the code treats them alike;
`opendir` does not fail for lack of descriptors.

### 2.5 Overlay and OverlayUnpackers

`Overlay` holds the image that is mapped (`img`), the one at the path (`world`) and the four
numbers that are remembered. `GetPEFileSize` measures the file at the *path*,
so a replaced file gives a size that has nothing to do with the mapped image;
`Difference` is the subtraction of `uint32_t`. The queries are operators, with
`SizeAsked` and `OffsetAsked` for what they leave remembered.

`OverlayUnpackers` drives them as the two unpackers do: `Call`, the matcher's two questions
(`AskForOffset`, `MatcherAsksForSize`), the unpacker's (`AskForOffset`,
`UnpackerAsksForSize`, `NoOverlay`), then for .NET `DumpPackage`, `EndPackages`, `ExtractDump`,
`EndExtract`, and for InstallShield `FindCab`, `EndSearch`, `DumpCab`, `EndDump`,
`UnpackCab`, `EndCabs`. The two unpackers live as long as the process: `vec`
(`m_vecDump7zFile`) and `num` (`m_uExtractNum`) survive a call.

So does what is on disk: a scan extracts all its installers into one output directory.
`made` are the directories below each output directory and `filled` says which
output directories hold a file; both keep what earlier calls left, and `CreateDir` and `IsEmptyDirectory`
ask them. `OtherCall` is a call for any other installer into an output directory. `before`
is history: what was below the output directory when the call began. The engine may make any
directories (`ExtractDump`), unshield those below a cab's own (`UnpackCab`).

An overlay is the list of its parts with their lengths; a signature is the place
where it begins. Bytes of a part other than its signature, and bytes past the mapped
file, are taken to hold no signature; the program reads past the mapped file there, which is
undefined, and this is the one outcome modelled. `remove()` of a dump is taken to succeed (its
result is not looked at), and a directory of a cab does not have the name of a file. The time stamp in the name of a dump
is left out: number and directory already tell names apart.

### 2.6 UnshieldArchive

A behaviour is one call of `UnpackCab`: `NoHeader`, `BadHeader`, `GoodHeader` are one
turn of the loop of `unshield_read_headers`; `EnterGroup`, `LeaveGroup`,
`LastGroup`, `SkipFile`, `ExtractFile` the two loops around `extract_file`;
`FollowLink` one level of the recursion of `unshield_file_save`; `SaveFile` its end
and the end of `extract_file`; `Close` is `unshield_close`. The data of a file is
"whole", "damaged", missing or outside the cabinet: what `UnshieldReader` makes of
volumes and chunks ends in one of these. `tried` is history. `disk` and `made` start empty:
they are what *this* extraction has put below the directory of the cab, in which the cabs themselves
and the files of earlier calls already lie; no file of an archive is taken to have the path of one of those.

Left out: path lengths and character replacement (they make two files share a path,
and the archives here have such files), the check against paths that leave the output directory,
named groups and components, which nobody sets.

## 3. Runs

| Run | Shows | Bounds |
|---|---|---|
| `scan_file` | The reply, the writes, the release of the image, the classification and what a reported success is worth, for every family of unpackers and every output path, although another program replaces or removes the file at any step, also between the matchers' looks at it. | 1 path, 12 kinds covering every family of `Outcomes`, 4 of them (absent, MSI, 7-Zip stub, plain) as replacements; output paths NULL, "", a good and a missing one; 2 calls, 2 replacements. |
| `volumes` | A file cut over volumes is read in order, saved whole, damage is found, a failure has the reported cause, every save ends. | 3 volumes, streams of 2 to 11 bytes, all cuts into 1 to 3 parts, home volume 1 or 2, formats 0, 5, 6; with neighbours before and after or none; second volume missing or not; one chunk damaged or not, of the right size or not; chunk headers one too small, exact, one too large; in format 6 streams longer than `Word` = 8 and offsets beyond it. |
| `directory_scan` | A run of the program looks at the files it should, at none twice unless it changed, changes files only for `-x`, closes its streams, does not walk into directories it made, and ends, whoever changes the tree. | 2 trees over 13 paths with an installer in an installer, a recent directory, an output directory (or none) and a link; a package that writes outside the output directory and over a file there; 12 command lines; 1 change by another program at any step. |
| `overlay_unpackers` | Two different answers about the overlay are never given within a call; which packages and cabs are found, dumped and unpacked, also into a directory an earlier call has filled. | 9 images, 3 things as replacements, 2 directories (interchangeable: symmetry), 2 calls, 2 replacements, `Word` = 2^20. |
| `unshield_archive` | Headers, files on disk, links, directories and the count. | every archive of 3 files of 17 kinds in 1 or 2 groups; header files 1 and 2 (or 3 alone) and volumes 1 to 4 each absent, good, too short or bad. |
| `early_return_leak` | finding 1 | 1 path, 3 kinds, 1 call |
| `success_without_files` | finding 2 | 1 path, 1 kind, 1 call |
| `stale_winzip_method` | finding 3 | 2 paths, 2 kinds, 2 calls |
| `request_at_a_seam` | finding 4 | as `volumes` |
| `split_last_file` | finding 5 | as `volumes` |
| `unshield_directories` | finding 6 | as `unshield_archive` |
| `no_output_path` | finding 7 | 1 path, 1 kind, 1 call; the installer's directory, the working directory and `/` told apart |

Why these bounds: a matcher's state is overwritten at its next use, so two calls
show every way it can be stale; two replacements give three different contents
at three looks. In `scan_file` the installers lie in the working directory, as only
`no_output_path` needs to tell the two apart. A volume header describes only its first and last
file, so three volumes show a beginning, a middle that holds nothing but this
file, and an end; `BUFFER_SIZE = 2` makes requests smaller than, equal to and
larger than a part; `Word = 8` is less than some streams of format 6 and larger than the
others, so that both a size that is cut and one that is not occur. For `directory_scan` the tree has every pair of roles
once (installer in the target, in a subdirectory, in the output; output inside and
outside the target), and the scan itself already changes what it walks through, so
one foreign change is enough to meet every step. In `overlay_unpackers` two calls
show what the first leaves in the unpacker and on disk, two replacements a file that goes and one that
comes (with one, a size asked for again after an empty overlay is never seen to differ); lengths are those of the code (window 0x100, signature 4), only the
word is 2^20 instead of 2^32: the longest file is below 2^11, so that a wrapped
number is far from every length, as it is in the code. In `unshield_archive` three files
make a link to a link and a circle, and four volumes show the lost header.
`MaxScans`, `MaxChanges`, `Substitutes`, `MaxChunk`, `MaxYield`, `MaxCalls`, `MaxReplaces` and
`MaxIndex` are the only bounds.

Deadlock is checked in every run: between calls the null call is always
possible, and a save, a scan or an extraction that is over stutters (`Done`,
`Terminated`).

Fairness. `UnshieldReader`, `UnshieldArchive` and `DirectoryScan` assume weak
fairness of the steps of the one thread that runs (`Step`, `Step`, `Scan`): it
waits for no lock, message or timer. `UnpackManager` needs none: that a call returns
follows from the fixed length of the matcher table, and is not stated. `Crawl` asks for an end of every scan (weak fairness of `Begin` and
`End`), which `DirectoryScan` meets because a name is returned once and no new
directory is entered. `ExtractionEnds` is claimed only for archives whose links do
not go round in a circle: `unshield_file_save` would call itself for ever. Nothing is assumed of clients or of other
programs. Reads and writes of files are taken to return.

### Findings

1. `ScanFile` parses before it looks at the paths, and its early returns skip
   `Clear`: the image stays mapped (`NothingHeldWhenIdle`).
2. Unpackers without a Linux body return true, so `bUnpackSuccess` is true after
   nothing was extracted; the trace is one with Gentee (`SuccessMeansExtracted`).
3. WinZip's unpack method outlives a detection and is used for the next package
   (`MethodFollowsMatch`).
4. A read that begins where one volume's part ends is refused although the next
   volume holds the data (`NeverZeroBytes`).
5. The last file of a format 5 archive is never marked split in the volume it
   ends; it cannot be read to its end (`SplitIS5Supported`).
6. unshield makes only the last directory of a path and leaves the others to its
   caller, which does not make them (`CallerMadeDirectories`).
7. Without an output path the files go to the working directory (`FileAssist.cpp:180`), not next to
   the installer as `export.h:64` says (`NextToInstaller`).

What the passing properties say is what holds, and shows how far it goes:
- `SuccessIsBacked`: a success of the InstallShield unpacker means no more than that the output directory
  holds a file, since the results of unshield are dropped
  (`ShieldInstUnpacker.cpp:288,294`); if the directory was empty before, that file came from
  the call, but it may be the dumped cab.
- `EveryFileScanned`: a directory changed in the five seconds before the start, or by the
  scan itself, is skipped with everything below it, even if the scan removed again
  what it had put there.
- `StreamsClosed`: a missing output directory costs one stream per call.
- `FirstPackagesFound`: four packages are always found; `uOffset` falls eight bytes
  behind per package and only 32 bytes are searched.
- `CabsFound`: `uSize -= uOffset` is harmless if the PE part is at least as long as the
  overlay, or if there is one cab.
- `CabsDumped`: a cab in `a/b` is dumped only if an earlier one was in `a`, or `a` was there
  before the call; one without a directory keeps all from unshield.
- `CauseIsReal`, `CounterMatchesStream`: sizes of 4 GiB and more are cut; such a file ends early and is
  refused for its expanded size, which has 64 bits.
- `LastAttemptDecides`: of two files with one path, a failure of the second also removes
  the first, which stays counted.

The properties of `volumes` are stated so that they hold beside findings 4 and 5:
`CauseIsReal` lists exactly these two, and sizes of 4 GiB, as the ways a save of a sound archive can
fail without a damaged or missing volume.

## 4. Proofs

Every safety property of the passing runs is a theorem, for every value of the constants
that meets the assumptions, where a run shows it on one instance:

| Module | Theorem | Property |
|---|---|---|
| `UnpackManagerProofs` | `TypeCorrect` | `TypeOK` |
| | `CallsAreInOrder` | `CallInv` |
| | `BindingIsSafe` | `BindingSafe` |
| | `AcceptedCallsRelease` | `ReleasedWhenAccepted` |
| | `SuccessIsBackedHolds` | `SuccessIsBacked` |
| | `LoopIsConsistent` | `LoopInv` |
| | `LoopIsOrdered` | `FirstMatchWins` |
| | `ScanFileImplementsService` | `Implements` |
| `DirectoryScanProofs` | `TypeCorrect` | `TypeOK` |
| | `OutputNotEntered` | `NeverIntoOwnOutput` |
| | `StreamsAreClosed` | `StreamsClosed` |
| | `NothingReadTwice` | `NothingTwice` |
| | `AllScanned` | `EveryFileScanned` |
| | `ScanIsCrawl` | the safety part of `Crawls` |
| `OverlayProofs` | `AnswersAlwaysAgree` | `AnswersAgree` |
| | `OwnPackages` | `OwnPackagesOnly` |
| `OverlayUnpackersProofs` | `UnpackersTypeCorrect` | `TypeOK` |
| | `FirstFour` | `FirstPackagesFound` |
| | `CabsAreFound` | `CabsFound` |
| | `CabsAreDumped` | `CabsDumped` |
| `UnshieldArchiveProofs` | `TypeCorrect` | `TypeOK` |
| | `HeadersAreAccounted` | `HeadersAccounted` |
| | `LastAttemptWins` | `LastAttemptDecides` |
| | `SavesWhatItCan` | `SavedIfPossible` |
| `UnshieldReaderProofs` | `TypeCorrect` | `TypeOK` |
| | `ReaderAligned` | `Aligned` |
| | `DeliveredInOrder` | `ReassembledInOrder` |
| | `CounterIsExact` | `CounterMatchesStream` |
| | `SavedIsWhole` | `SavedWhole` |
| | `DamagedIsNotSaved` | `DamageIsFound` |
| | `CauseIsTrue` | `CauseIsReal` |

### Assumptions

TLC evaluates all of them in the runs.

- `UnpackManager`: `KindsAssumption` (kinds are well formed), `PathsAssumption` (the
  classes of output path are disjoint), `BoundsAssumption` (naturals).
- `DirectoryScan`: `PathAssumption` (a path is a sequence of names, and what is above a
  path is one), `ScanAssumption` (a file is in a directory; no name is a dot; the
  working directory itself is neither removed nor written as a file). Where packages unpack to is
  not assumed.
- `OverlayUnpackers`: `OverlayAssumption` (the last section of an image does not end at
  0, and no file is not an image), `LengthAssumption` (an overlay fits its `uint32_t`,
  and the sections of an image lie within its own file; that the file at the path may be
  shorter than the mapped image is not excluded), `PartsAssumption` (a file is shorter
  than 2^32; a .NET installer holds a package, and a package its signature, with or without zzd
  before the first; a cab is
  preceded by its strings), `BoundsAssumption`.
- `UnshieldArchive`: `ArchiveAssumption` (an archive has a state for each header and
  volume, finitely many groups and files; directories are sequences of names). Links may
  point anywhere, also in circles.
- `UnshieldReader`: `SizesAssumption` (naturals), `ArchivesAssumption` (archives are
  `WellFormed`, as a writer of cabinets makes them; sizes and offsets fit 32 bits before
  format 6, where the headers have no more). Chunk headers that do not add up, missing
  volumes, damage of any size and, from format 6 on, files of 4 GiB and more are allowed.

### Arguments

`UnpackManager`. `TypeOK` is inductive. `BindingSafe` is not: at `unpack` one must
know that the turn before bound this matcher, that the image is a PE image and
that it is still held; `CallInv` records that for every `pc`, that `info` is
clean until a matcher says yes, and that the output directory is as it was until the unpacker runs, on
which `SuccessIsBacked` rests. `FirstMatchWins` is not inductive either: `LoopInv`
adds that the readings and the measured size are among those of `seen`, that the matchers before `idx` have all
declined, and that a file of one kind is in the loop for its kind, whence
`FirstIn` (a `CHOOSE` of the least index) is the matcher that ends the loop. The
refinement uses all three: `Clear` replies with a type that `LoopInv` justifies,
a refusal in `CheckTarget` or `CheckOutput` has a cause in `seen` or in the
request, `Unpack` is `Write` or a stutter by `CallInv`.

`DirectoryScan`. The recursion is a stack, so most of what is needed says how
activations, files and history fit together. `Chain`: the activations go from the
target down, each in the one before, and what is about to be opened or scanned is in the
last. `OutputApart`: a path that was written and is a directory is recent, hence is not
entered; nobody removes it from `recent` without removing it from `wrote`. `Streams`
counts the open streams by activations. `Once`: nothing that a stream may still return has
been met, and a directory still to be entered holds nothing that was met and is no
activation; removing and making a path anew takes it out of `met`. `Coverage`: as long
as nobody interferes, every file that has been there since the start is met, in a
directory that was left out, or below something a stream must still return; and what is recent was so
at the start or is in `stirred`. The
refinement needs `Chain` (what is met is below the target).

`OverlayUnpackers`, the answers. Two answers of one call come from different steps, between
which the file may be replaced and anything remembered or not, so `AnswersAgree` is not
inductive. `CacheInv` says what makes them agree: nothing was answered while
`fileSize` is 0, and once it is not, each of `overlaySize` and `overlayOffset` is either 0 or what follows from
`fileSize` and `img.pe`, and so is every answer. The queries are taken apart
by whether they use a remembered number (`SizeAnswer`, `OffsetAnswer` for the answers,
`SizeRemembered`, `OffsetRemembered` for what they leave behind); `AnswerKeeps` puts the two together. It also
carries that an image whose file was not replaced before it was measured is
measured right, which gives the second half of the property. `OwnPackagesOnly`
concerns what is unpacked, while the danger is in the names left over from earlier calls:
`DumpsInv` adds that every dump on disk was made by the current call and is named in `vec` at `next` or
later, and that none is left outside the loops. An old name therefore names either
nothing or a dump of this call, and the end of the list means that no dump remains.

`OverlayUnpackers`, the searches. `PartsAdjacent` and `PartPlaces` say where parts begin:
one after the other, all within the file. `Packages` ties `pCur` to the start of the next
package, and `uOffset` to `pCur` less eight bytes for each package found; the 32 bytes
searched from there reach the signature as long as four packages were not found.
`Cabinets` ties `uOffset` to the start of the next cab, and bounds the counter from below:
`uSize + Len(found) * FileLength(img) >= Word` once a cab was found, if the counter is
harmless; each subtraction takes away less than a file, or borrows once, from a number
that was too small (`Borrow`, `CounterFalls`). `CabsDumped` says what reaches the disk
without mentioning `made`; `Dumped` connects the two: until unshield runs the directories made are those
of `before` and of the cabs on disk, and they are always closed under going up, so that the one a directory
is in exists exactly if all above it do (`MadeIfAboveIs`). `TypeOK` needs all of these: a position stays
in its word because it is a place in the file.

`UnshieldArchive`. `HeadersAccounted` speaks of an archive being extracted. `HeadersInv`
says it of every step of reading: before the third header the list is what was read, from then on it is
the first and the last, and the ones between are `lost`. `TypeInv` adds to `TypeOK` that no `FILE` is open while
headers are read and that the group is in range in the steps that use it. The other two
properties rest on `Extracting`: a save is somewhere on the way of its file along the
links, and could follow each link before (`Tracing`); as there are only finitely many
files, a way that rests does so within that many steps (`WayRests`), and one that does not,
never reaches an end (`WayReturns`, by counting). `OnDisk` and `Directories` say of
every step what the properties say between saves.

`UnshieldReader`. `Standing` (types, and `Place`: which part of the stream the volume
holds and where the file pointer is in it) gives `Aligned`. `Counting` adds how far the
counters of the save loop are from the stream, modulo the word (`Counted`), and what was written and why a
save is over (`Stored`), which is all that `DamageIsFound` needs. `Orderly` adds, for archives whose
chunk headers add up and whose parts and offsets fit the word (`Regular`), that every request ends where a chunk ends (`ChunkEnds`) and that a failure had
its cause; `ReassembledInOrder`, `CounterMatchesStream`, `SavedWhole` and `CauseIsReal` follow. Nothing bounds the number of volumes, parts or chunks.

### Induction, and what is only model-checked

The provers cannot instantiate the library's induction theorems, which have an operator as
parameter. `Induction` states induction of a set of naturals instead; with it the
recursive functions of the models are unfolded (`PartStarts`, `ChunkEnds`, `OnTheWay`),
once per function, by showing that one function satisfies the equations. No module declares
a RECURSIVE operator.

Only model-checked: what must eventually happen (`SaveEnds`,
`ExtractionEnds`, the end of a scan that `Crawls` asks for with its fairness), which is
beyond the provers; and that the runs which refute something refute it.

## 5. Plan

Done: the modules of section 2 and the proofs of section 4.

Next, in this order:

1. Properties that follow from what is now proved and that no run states yet: of `DirectoryScan`,
   that a directory is open once only (`Chain` has it); of `UnshieldReader`, that
   a request never goes past the part it begins in.
2. The conditions of `CabsFound` and `FirstPackagesFound` from the other side: which overlays
   are searched to their end, beyond the four packages that always are.
3. Where there is room for further runs: the byte-level matcher (wildcards and windows of
   `ipackermatch.cpp`) against a reference definition.

## 6. Not modelled, and why

- The 7-Zip engine (`p7zip_16.02`, `7z1900-src`) is vendored twice and makes up nearly
  all of the repository's half million lines of implementation; it appears as outcomes. The lines mapped
  here are therefore a small share of the repository's (well below 1 %, and no model of the
  program's own logic could bring it near 30 %), though most of the state-changing part of the program's own sources.
- pe-parse (`src/parse.cpp` up to line 2805, `src/buffer.cpp`) is vendored: the decoding of
  a binary format, which a state machine would only copy.
- The byte patterns of the matchers are a property of the kind of file (`Installers`),
  except for the overlay windows of `OverlayUnpackers`.
- WinZip's table of nested files is filled inside a callback of pe-parse from resources,
  and what it leads to is a stub on Linux.
- The tables of unshield (`helper.c`, `directory.c`, `component.c`) are look-ups in a decoded
  header; a header is good, too short, or bad.
- The error callback is one assignment that only the vendored engine reads.
- Windows branches, logging, allocation failures, a full disk (the code looks at no
  result of `fwrite` on this side of the engine): no state the properties are about.
