--------------------------- MODULE UnshieldReader ---------------------------
(***************************************************************************)
(* unshield's way from an InstallShield cabinet to a file on disk:         *)
(* UnshieldReader (open a volume, read across volumes) and the loop of     *)
(* unshield_file_save that asks it for data.  One behaviour saves one      *)
(* file of one archive.                                                    *)
(*                                                                         *)
(* The stored bytes of the file form a stream 0..total-1, cut into parts   *)
(* that lie in consecutive volumes.  A byte is known by its place in the   *)
(* stream, so that `at` says what the file pointer is about to deliver and *)
(* `pos` how much of the stream has been delivered in order; anything else *)
(* that is delivered sets `garbled`.                                       *)
(***************************************************************************)
EXTENDS Integers, Sequences

CONSTANTS
  Volumes,      \* numbers the volumes of an archive: 1..Volumes
  Archives,     \* the archives and files to save
  BUFFER_SIZE,  \* how much of an uncompressed file is copied at a time
  MaxChunk,     \* bound: the sizes a garbled chunk header may show
  MaxYield,     \* bound: how much a garbled chunk may expand to
  Word          \* 2^w for the unsigned counters of bytes left

HeaderSize == 2   \* a compressed chunk is preceded by its uint16 size

ChunkStates == {"good", "bad", "altered"}  \* bad: inflate reports an error

\* yield: how much it expands to, where one unit is what was packed into it.
Chunks == [size : Nat \ {0}, state : ChunkStates, yield : Nat]

\* version: 0, 5 or 6 (6 and later are alike); volume: where the descriptor says
\* the file starts; home: where it does; initial, final: it is the first, the
\* last file of the archive; split: FILE_SPLIT in the descriptor; outside: the
\* volume ends where the file should begin; beyond: the volumes that hold only
\* earlier files; first, last: those whose header names the file first, last;
\* far: those in which the file begins at 4 GiB or beyond.
ArchiveRecords ==
  [ version : {0, 5, 6}, volume : 1..Volumes, home : 1..Volumes,
    initial : BOOLEAN, final : BOOLEAN, split : BOOLEAN, outside : BOOLEAN,
    compressed : BOOLEAN, total : Nat \ {0},
    chunks : Seq(Chunks),
    begin : [1..Volumes -> Nat], part : [1..Volumes -> Nat],
    first : SUBSET (1..Volumes), last : SUBSET (1..Volumes),
    beyond : SUBSET (1..Volumes), present : SUBSET (1..Volumes),
    far : SUBSET (1..Volumes) ]

\* What the writer of cabinets guarantees: the parts follow one another from
\* the home volume on, a continued part is the last of its volume, a
\* continuation the first; the flag is set on split files only, and in format 6
\* on all of them; before format 6 sizes and offsets have 32 bits.  That every
\* volume is there, what the chunk headers say and what a damaged chunk expands
\* to are not guaranteed.
WellFormed(a) ==
  /\ a.beyond = 1..(a.home - 1)
  /\ a.volume <= a.home
  /\ a.version = 6 => a.volume = a.home
  /\ a.split => a.part[a.home] # a.total
  /\ a.version = 6 /\ a.part[a.home] # a.total => a.split
  /\ a.version # 6 => a.total < Word /\ a.far = {}
  /\ \A i \in DOMAIN a.chunks : a.chunks[i].state = "good" => a.chunks[i].yield = 1
  /\ \A v \in 1..Volumes :
       /\ v < a.home => a.part[v] = 0
       /\ v <= a.home => a.begin[v] = 0
       /\ v > a.home => a.begin[v] = a.begin[v - 1] + a.part[v - 1]
       /\ a.part[v] # 0 /\ v > a.home => v \in a.first
       /\ a.part[v] # 0 /\ a.begin[v] + a.part[v] < a.total => v \in a.last
       /\ v \in a.first \cup a.last => a.part[v] # 0
       /\ a.part[v] = 0 /\ v > a.home => a.begin[v] = a.total
  /\ a.part[a.home] # 0
  /\ a.begin[Volumes] + a.part[Volumes] = a.total

ASSUME SizesAssumption ==
  /\ Volumes \in Nat \ {0}
  /\ BUFFER_SIZE \in Nat \ {0}
  /\ MaxChunk \in Nat
  /\ MaxYield \in Nat
  /\ Word \in Nat \ {0}

ASSUME ArchivesAssumption ==
  \A a \in Archives : a \in ArchiveRecords /\ WellFormed(a)

VARIABLES
  arc,         \* the archive, and the file in it
  pc,          \* where unshield_file_save stands
  descriptor,  \* file_descriptor->volume, advanced while looking for the file
  split,       \* FILE_SPLIT in file_descriptor->flags
  volume,      \* reader->volume
  file,        \* the volume reader->volume_file is
  at,          \* the place in the stream of the byte under the file pointer
  left,        \* reader->volume_bytes_left, an unsigned
  asked,       \* what is being read: "header" of a chunk, or "payload"
  size,        \* how much was asked for
  want,        \* how much of it is still to come
  bytes_left,  \* of the file, as unshield_file_save counts in an unsigned
  piece,       \* how many chunks or buffers were handled
  written,     \* total_written
  pos,         \* history: bytes of the stream delivered in order
  garbled,     \* history: anything else was delivered
  altered,     \* the MD5 of what was written will not be the stored one
  cause        \* the error reported, or "none"

readerVars == << descriptor, split, volume, file, at, left >>
requestVars == << asked, size, want >>
saveVars == << bytes_left, piece, written, altered >>
vars == << arc, pc, readerVars, requestVars, saveVars, pos, garbled, cause >>

Foreign == -1   \* a place outside the stream
Smaller(a, b) == IF a < b THEN a ELSE b

Fail(c) ==
  /\ pc' = "done"
  /\ cause' = c

-----------------------------------------------------------------------------
Init ==
  /\ arc \in Archives
  /\ pc = "create"
  /\ descriptor = arc.volume
  /\ split = arc.split
  /\ volume = 0 /\ file = 0 /\ at = Foreign /\ left = 0
  /\ asked = "payload" /\ size = 0 /\ want = 0
  /\ bytes_left = 0 /\ piece = 0 /\ written = 0 /\ altered = FALSE
  /\ pos = 0 /\ garbled = FALSE
  /\ cause = "none"

\* Mutant: only a file that ends the volume is recognised as split.
IsSplitLastOnly(v) ==
  \/ split
  \/ /\ arc.version = 5
     /\ arc.part[v] # arc.total
     /\ ~arc.final /\ v \in arc.last

\* "Support for split archives for IS5": there the flag is deduced from the
\* part's size in the volume just opened, and kept in the descriptor.
IsSplit(v) ==
  \/ split
  \/ /\ arc.version = 5
     /\ arc.part[v] # arc.total
     /\ \/ ~arc.final /\ v \in arc.last
        \/ ~arc.initial /\ v \in arc.first

\* Where fseek gets to for a place in the file's data in volume v: the header's
\* _high halves are not looked at.
SeekTo(v, place) == IF v \in arc.far THEN Foreign ELSE place

\* Mutant: the first record of the header is preferred, whatever it describes,
\* and its offset is that of the descriptor.
OpenVolumeAtDescriptor(v) ==
  /\ file' = v
  /\ split' = IsSplit(v)
  /\ left' = (IF IsSplit(v) THEN arc.part[v] ELSE arc.total) % Word
  /\ at' = SeekTo(v, IF v = arc.home THEN 0 ELSE Foreign)
  /\ volume' = v

\* unshield_reader_open_volume, for a volume that is there: how much of the
\* file it holds and where.  A volume that has nothing of a split file leaves
\* reader->volume and volume_bytes_left as they were.
OpenVolume(v) ==
  /\ file' = v
  /\ split' = IsSplit(v)
  /\ IF ~IsSplit(v)
     THEN /\ left' = arc.total % Word
          /\ at' = SeekTo(v, IF v = arc.home THEN 0 ELSE Foreign)
          /\ volume' = v
     ELSE IF v \in arc.first \cup arc.last
     THEN /\ left' = arc.part[v] % Word
          /\ at' = SeekTo(v, arc.begin[v])
          /\ volume' = v
     ELSE /\ at' = Foreign
          /\ UNCHANGED << left, volume >>

\* Mutant: the search for the home volume does not advance.
CreateStuck ==
  /\ pc = "create"
  /\ IF descriptor \notin arc.present
     THEN Fail("volume") /\ UNCHANGED readerVars
     ELSE /\ OpenVolume(descriptor)
          /\ UNCHANGED << descriptor, cause >>
          /\ IF arc.version <= 5 /\ descriptor \in arc.beyond
             THEN UNCHANGED pc
             ELSE pc' = "begin"
  /\ UNCHANGED << arc, requestVars, saveVars, pos, garbled >>

\* Mutant: the reader starts in the volume the descriptor names.
CreateAtDescriptor ==
  /\ pc = "create"
  /\ IF descriptor \notin arc.present
     THEN Fail("volume") /\ UNCHANGED readerVars
     ELSE /\ OpenVolume(descriptor)
          /\ pc' = "begin"
          /\ UNCHANGED << descriptor, cause >>
  /\ UNCHANGED << arc, requestVars, saveVars, pos, garbled >>

\* One turn of unshield_reader_create: "start with the correct volume for IS5
\* cabinets".
Create ==
  /\ pc = "create"
  /\ IF descriptor \notin arc.present
     THEN Fail("volume") /\ UNCHANGED readerVars
     ELSE /\ OpenVolume(descriptor)
          /\ UNCHANGED cause
          /\ IF arc.version <= 5 /\ descriptor \in arc.beyond
             THEN descriptor' = descriptor + 1 /\ UNCHANGED pc
             ELSE pc' = "begin" /\ UNCHANGED descriptor
  /\ UNCHANGED << arc, requestVars, saveVars, pos, garbled >>

\* The reader exists; the file must lie inside the cabinet, and the output file
\* may not open.  The stored size is cut to the width of the counter.
Begin ==
  /\ pc = "begin"
  /\ \/ arc.outside /\ Fail("outside") /\ UNCHANGED bytes_left
     \/ ~arc.outside /\ Fail("open") /\ UNCHANGED bytes_left
     \/ ~arc.outside /\ pc' = "loop" /\ bytes_left' = arc.total % Word /\ UNCHANGED cause
  /\ UNCHANGED << arc, readerVars, requestVars, piece, written, altered, pos,
                  garbled >>

Ask(what, n) ==
  /\ pc' = "read"
  /\ asked' = what
  /\ size' = n
  /\ want' = n

\* The head of the loop: ask for the size of the next chunk, or for the next
\* buffer of an uncompressed file.
AskNext ==
  /\ pc = "loop"
  /\ bytes_left > 0
  /\ IF arc.compressed THEN Ask("header", HeaderSize)
                       ELSE Ask("payload", Smaller(bytes_left, BUFFER_SIZE))
  /\ UNCHANGED << arc, readerVars, saveVars, pos, garbled, cause >>

\* fread of n bytes: the stream, if there is that much of it here; else it
\* runs into the end of the volume or into other data.
FreadStream(n) ==
  /\ at # Foreign /\ at + n <= arc.begin[file] + arc.part[file]
  /\ at' = at + n
  /\ pos' = pos + n
  /\ garbled' = (garbled \/ at # pos)

FreadOther(n) ==
  /\ at = Foreign \/ at + n > arc.begin[file] + arc.part[file]
  /\ at = Foreign \/ file \notin arc.last
  /\ at' = Foreign
  /\ garbled' = TRUE
  /\ UNCHANGED pos

FreadShort(n) == at = Foreign \/ at + n > arc.begin[file] + arc.part[file]

\* Mutant: what was read is not counted off the volume.
ReadHereUncounted ==
  /\ pc = "read"
  /\ LET n == Smaller(want, left)
     IN  /\ n # 0
         /\ FreadStream(n) \/ FreadOther(n)
         /\ want' = want - n
         /\ left' = left
         /\ pc' = IF want' = 0 THEN asked ELSE "next"
  /\ UNCHANGED << arc, descriptor, split, volume, file, asked, size, saveVars,
                  cause >>

\* One turn of unshield_reader_read.
ReadHere ==
  /\ pc = "read"
  /\ LET n == Smaller(want, left)
     IN  /\ n # 0
         /\ FreadStream(n) \/ FreadOther(n)
         /\ want' = want - n
         /\ left' = left - n
         /\ pc' = IF want' = 0 THEN asked ELSE "next"
  /\ UNCHANGED << arc, descriptor, split, volume, file, asked, size, saveVars,
                  cause >>

ReadFails ==
  /\ pc = "read"
  /\ \/ Smaller(want, left) = 0 /\ Fail("zero")
     \/ Smaller(want, left) # 0 /\ FreadShort(Smaller(want, left)) /\ Fail("short")
  /\ UNCHANGED << arc, readerVars, requestVars, saveVars, pos, garbled >>

\* "Open next volume", with part of the request still to come.
NextVolume ==
  /\ pc = "next"
  /\ IF volume + 1 \notin arc.present
     THEN Fail("volume") /\ UNCHANGED << split, volume, file, at, left >>
     ELSE OpenVolume(volume + 1) /\ pc' = "read" /\ UNCHANGED cause
  /\ UNCHANGED << arc, descriptor, requestVars, saveVars, pos, garbled >>

\* What a chunk header may say: past the last chunk there is nothing.
SizesAt(i) ==
  IF garbled THEN 0..MaxChunk
  ELSE IF i <= Len(arc.chunks) THEN {arc.chunks[i].size} ELSE {0}

HeaderRead ==
  /\ pc = "header"
  /\ \E n \in SizesAt(piece + 1) :
       IF n = 0 THEN Fail("size") /\ UNCHANGED requestVars
                ELSE Ask("payload", n) /\ UNCHANGED cause
  /\ UNCHANGED << arc, readerVars, saveVars, pos, garbled >>

\* How much the data just read may expand to; whether inflating it may fail, and
\* whether it is other than what was packed.
Inflated ==
  IF ~arc.compressed THEN {size}
  ELSE IF garbled THEN 0..MaxYield
  ELSE {arc.chunks[i].yield : i \in
          {j \in DOMAIN arc.chunks : j = piece + 1 /\ arc.chunks[j].state # "bad"}}
InflateFails ==
  arc.compressed /\ (garbled \/ (piece < Len(arc.chunks) /\ arc.chunks[piece + 1].state = "bad"))
IsAltered ==
  \/ garbled
  \/ arc.compressed /\ piece < Len(arc.chunks) /\ arc.chunks[piece + 1].state = "altered"

\* Mutant: the two bytes of the chunk header are not counted.
StorePieceUncounted ==
  /\ pc = "payload"
  /\ pc' = "loop"
  /\ bytes_left' = (bytes_left - size) % Word
  /\ piece' = piece + 1
  /\ \E n \in Inflated : written' = written + n
  /\ altered' = (altered \/ IsAltered)
  /\ UNCHANGED << arc, readerVars, requestVars, pos, garbled, cause >>

\* Mutant: the counter is signed and unbounded.
StorePieceSigned ==
  /\ pc = "payload"
  /\ pc' = "loop"
  /\ bytes_left' =
       bytes_left - (IF arc.compressed THEN HeaderSize + size ELSE size)
  /\ piece' = piece + 1
  /\ \E n \in Inflated : written' = written + n
  /\ altered' = (altered \/ IsAltered)
  /\ UNCHANGED << arc, readerVars, requestVars, pos, garbled, cause >>

\* A piece arrived: inflate it, count it off, write it out.  The counter is
\* unsigned.
StorePiece ==
  /\ pc = "payload"
  /\ pc' = "loop"
  /\ bytes_left' =
       (bytes_left - (IF arc.compressed THEN HeaderSize + size ELSE size)) % Word
  /\ piece' = piece + 1
  /\ \E n \in Inflated : written' = written + n
  /\ altered' = (altered \/ IsAltered)
  /\ UNCHANGED << arc, readerVars, requestVars, pos, garbled, cause >>

StoreFails ==
  /\ pc = "payload"
  /\ (InflateFails /\ Fail("inflate")) \/ (Inflated # {} /\ Fail("write"))
  /\ UNCHANGED << arc, readerVars, requestVars, saveVars, pos, garbled >>

\* The expanded size in the descriptor, which has 64 bits: a unit for each chunk.
ExpandedSize == IF arc.compressed THEN Len(arc.chunks) ELSE arc.total

\* Mutant: the expanded size decides, the MD5 is not looked at.
VerifySizeOnly ==
  /\ pc = "loop"
  /\ bytes_left = 0
  /\ IF written # ExpandedSize THEN Fail("expanded")
                               ELSE pc' = "done" /\ UNCHANGED cause
  /\ UNCHANGED << arc, readerVars, requestVars, saveVars, pos, garbled >>

\* The loop is over: check the expanded size and, from format 6 on, the MD5.
Verify ==
  /\ pc = "loop"
  /\ bytes_left = 0
  /\ IF written # ExpandedSize THEN Fail("expanded")
     ELSE IF arc.version >= 6 /\ altered THEN Fail("md5")
     ELSE pc' = "done" /\ UNCHANGED cause
  /\ UNCHANGED << arc, readerVars, requestVars, saveVars, pos, garbled >>

Step ==
  \/ Create \/ Begin \/ AskNext \/ ReadHere \/ ReadFails \/ NextVolume
  \/ HeaderRead \/ StorePiece \/ StoreFails \/ Verify

\* unshield_file_save returned.
Done == pc = "done" /\ UNCHANGED vars

Next == Step \/ Done

\* The thread that saves runs on.
Spec == Init /\ [][Next]_vars /\ WF_vars(Step)

-----------------------------------------------------------------------------
(* Properties.                                                             *)

TypeOK ==
  /\ arc \in ArchiveRecords
  /\ pc \in {"create", "begin", "loop", "read", "next", "header", "payload", "done"}
  /\ descriptor \in 1..(Volumes + 1)
  /\ split \in BOOLEAN
  /\ volume \in 0..Volumes /\ file \in 0..Volumes
  /\ at \in {Foreign} \cup 0..arc.total
  /\ left \in 0..arc.total
  /\ asked \in {"header", "payload"}
  /\ size \in Nat /\ want \in 0..size
  /\ bytes_left \in 0..(Word - 1)
  /\ piece \in Nat /\ written \in Nat
  /\ pos \in 0..arc.total
  /\ garbled \in BOOLEAN /\ altered \in BOOLEAN
  /\ cause \in {"none", "volume", "outside", "open", "zero", "short", "size",
                "inflate", "write", "expanded", "md5"}

\* The places in the stream where the chunks end, if it begins with the first.
ChunkEnds(a) ==
  LET e[n \in 0..Len(a.chunks)] ==
        IF n = 0 THEN 0 ELSE e[n - 1] + HeaderSize + a.chunks[n].size
  IN  e

Total(a) == ChunkEnds(a)[Len(a.chunks)]

\* The chunk headers add up to what the descriptor says is stored.
Consistent(a) == a.compressed => Total(a) = a.total

\* What lies in one volume fits the unsigned it is counted in and the half of the
\* offset that is looked at.
Narrow(a) == a.far = {} /\ \A v \in 1..Volumes : a.part[v] < Word

Regular(a) == Consistent(a) /\ Narrow(a)

Saved == pc = "done" /\ cause = "none"

\* The reader never leaves the stream: over however many volumes it is cut, in
\* either format, every byte delivered is the next one.
\* (unshield_reader_open_volume's choice of the record to read from.)
ReassembledInOrder == Regular(arc) => ~garbled

\* A file reported saved is whole and in order: because its chunks add up, or,
\* from format 6 on, because of the MD5, even where sizes were cut to 32 bits.
SavedWhole ==
  Saved /\ (Regular(arc) \/ arc.version >= 6) =>
    ~garbled /\ pos = IF arc.compressed THEN Total(arc) ELSE arc.total

\* Nothing that was damaged in the archive is reported saved in format 6.
DamageIsFound ==
  Saved /\ arc.version >= 6 /\ arc.compressed =>
    \A i \in DOMAIN arc.chunks : arc.chunks[i].state = "good"

\* Whenever the loop comes round the counter of bytes left is what the stream
\* still holds, as far as an unsigned can tell: a file of 4 GiB or more makes it
\* wrap, nothing else does.
CounterMatchesStream ==
  pc = "loop" /\ ~garbled => bytes_left = (arc.total - pos) % Word

\* Where the reader stands: the file pointer is at the next byte of the
\* stream, and of a split file exactly the rest of this volume's part is left.
Aligned ==
  Narrow(arc) /\ pc \notin {"create", "done"} /\ ~garbled /\ at # Foreign =>
    /\ at = pos
    /\ file = volume
    /\ split => at + left = arc.begin[file] + arc.part[file]

\* A file continued in another volume without being flagged, which the home
\* volume does not give away: format 0 never looks, format 5 does not for the
\* last file of the archive.
UndetectedSplit(a) ==
  /\ ~a.split /\ a.part[a.home] # a.total
  /\ \/ a.version = 0
     \/ a.version = 5 /\ a.final /\ (a.initial \/ a.home \notin a.first)

\* The place where one part ends and the next begins.
AtSeam == \E v \in 1..Volumes : arc.part[v] # 0 /\ pos = arc.begin[v] + arc.part[v]

\* A save of a regular file fails for a reason, and the reason is the one
\* reported: a volume is missing, the file is not inside, a chunk is damaged and
\* cannot be inflated, or to another size or content than what was packed, the
\* disk is full, the file has 4 GiB or more, or one of the two weaknesses of the
\* reader was hit: a request that begins at a seam, and an undetected split.
CauseIsReal ==
  Regular(arc) =>
    /\ cause = "volume" => arc.present # 1..Volumes
    /\ cause = "outside" => arc.outside
    /\ cause = "zero" => AtSeam /\ want = size /\ pos < arc.total
    /\ cause = "short" => UndetectedSplit(arc)
    /\ cause = "inflate" => \E i \in DOMAIN arc.chunks : arc.chunks[i].state = "bad"
    /\ cause = "expanded" =>
         \/ arc.total >= Word
         \/ \E i \in DOMAIN arc.chunks :
              arc.chunks[i].state = "altered" /\ arc.chunks[i].yield # 1
    /\ cause = "md5" => \E i \in DOMAIN arc.chunks : arc.chunks[i].state = "altered"
    /\ cause # "size"

\* Every save ends.
SaveEnds == <>(pc = "done")

-----------------------------------------------------------------------------
(* What messages and comments of the code say and runs refute.             *)

\* file.c: "bytes_to_read can't be zero".
NeverZeroBytes == Regular(arc) => cause # "zero"

\* file.c: "enable support for split archives for IS5".
SplitIS5Supported == Regular(arc) /\ arc.version = 5 => cause # "short"
=============================================================================
