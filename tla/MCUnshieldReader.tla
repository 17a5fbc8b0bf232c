-------------------------- MODULE MCUnshieldReader --------------------------
(***************************************************************************)
(* Small archives: every way to cut a short stream into parts over at most *)
(* three volumes, in both formats, with and without chunk headers that add *)
(* up, with one volume missing or one chunk damaged.  In format 6 a stream *)
(* may also be longer than the unsigned counters tell, and begin beyond    *)
(* what the offsets do.                                                    *)
(***************************************************************************)
EXTENDS UnshieldReader

MCVolumes == 3

Chunk(n, s, y) == [size |-> n, state |-> s, yield |-> y]

\* One or two chunks, one of them damaged or none.
PackedFiles ==
  {<< Chunk(1, "good", 1), Chunk(1, "good", 1) >>, << Chunk(1, "bad", 0) >>,
   << Chunk(1, "good", 1), Chunk(1, "altered", 1) >>,
   << Chunk(1, "altered", 2) >>, << Chunk(3, "good", 1) >>}

\* As much as the counters tell and more, one of them with a damaged chunk whose
\* size makes up for the chunk that is never read.
LongFiles ==
  {<< Chunk(3, "good", 1), Chunk(1, "good", 1) >>,
   << Chunk(2, "good", 1), Chunk(3, "good", 1) >>,
   << Chunk(1, "altered", 2), Chunk(6, "good", 1) >>}

\* The ways to cut a stream of `total` bytes over at most k volumes.
Cuts(total, k) ==
  {<< total >>}
  \cup {<< i, total - i >> : i \in 1..(IF k < 2 THEN 0 ELSE total - 1)}
  \cup {<< i[1], i[2], total - i[1] - i[2] >> :
          i \in {j \in (1..total) \X (1..total) : k >= 3 /\ j[1] + j[2] < total}}

\* The record of a file cut into the parts p, the first of them in volume h.
\* m says what else the volumes hold: whether other files precede it in its
\* first volume and follow it in its last one, and whether the file is flagged
\* as split where the format leaves that open.
Archive(ver, h, p, total, chunks, m) ==
  LET e == h + Len(p) - 1
      part(v) == IF v \in h..e THEN p[v - h + 1] ELSE 0
      begin(v) == CASE v <= h -> 0
                    [] v = h + 1 -> part(h)
                    [] OTHER -> part(h) + part(h + 1)
  IN [version |-> ver, volume |-> IF ver = 6 THEN h ELSE 1, home |-> h,
      initial |-> h = 1 /\ ~m.precede, final |-> ~m.follow /\ m.ends,
      split |-> Len(p) > 1 /\ (ver = 6 \/ m.flagged), outside |-> m.outside,
      compressed |-> chunks # << >>, total |-> total, chunks |-> chunks,
      begin |-> << begin(1), begin(2), begin(3) >>,
      part |-> << part(1), part(2), part(3) >>,
      first |-> {v \in h..e : v > h \/ ~m.precede},
      last |-> {v \in h..e : v < e \/ ~m.follow},
      beyond |-> 1..(h - 1), present |-> (1..MCVolumes) \ m.missing,
      far |-> IF ver = 6 /\ m.far THEN {h} ELSE {}]

Surroundings ==
  {m \in [precede : BOOLEAN, follow : BOOLEAN, ends : BOOLEAN, flagged : BOOLEAN,
          outside : {FALSE}, far : {FALSE}, missing : {{}, {2}}] :
     m.ends => ~m.follow}
    \cup {[precede |-> TRUE, follow |-> TRUE, ends |-> FALSE, flagged |-> FALSE,
           outside |-> ~f, far |-> f, missing |-> {}] : f \in BOOLEAN}

\* Chunk headers that add up, and ones that promise more or less than there is.
Totals(chunks) ==
  IF chunks = << >> THEN {3, 4, 9}
  ELSE LET n == Total([chunks |-> chunks])
       IN  IF n >= Word \/ chunks[1].size > 1 THEN {n} ELSE {n - 1, n, n + 1}

MCArchives ==
  UNION {UNION {
    {Archive(ver, h, p, n, c, m) :
       ver \in {x \in {0, 5, 6} : x = 6 \/ n < Word}, p \in Cuts(n, MCVolumes - h + 1),
       m \in {x \in Surroundings : n < Word \/ (x.precede /\ x.follow)}} :
      h \in 1..2, n \in Totals(c)} : c \in PackedFiles \cup LongFiles \cup {<< >>}}
=============================================================================
