------------------------ MODULE DirectoryScanProofs ------------------------
(***************************************************************************)
(* What DirectoryScan promises, for every tree, every set of command lines *)
(* and any number of changes by other programs.                            *)
(***************************************************************************)
EXTENDS DirectoryScan, Induction, SequenceTheorems, TLAPS

-----------------------------------------------------------------------------
(* Paths.                                                                  *)

\* A path is a sequence of names, none of them a dot.
LEMMA PathFacts ==
  ASSUME NEW p \in Paths
  PROVE  /\ p \in Seq(STRING) /\ Len(p) \in Nat /\ DOMAIN p = 1..Len(p)
         /\ \A k \in 1..Len(p) : p[k] \in STRING /\ p[k] \notin DotNames
         /\ Len(p) = 0 <=> p = Cwd
<1>1. p \in Seq(STRING)
  BY PathAssumption
<1>2. Len(p) \in Nat /\ DOMAIN p = 1..Len(p)
  BY <1>1, LenProperties
<1>3. \A k \in 1..Len(p) : p[k] \in STRING
  BY <1>1, ElementOfSeq
<1>4. \A k \in 1..Len(p) : p[k] \notin DotNames
  BY <1>2, ScanAssumption
<1>5. Len(p) = 0 <=> p = Cwd
  BY <1>1, EmptySeq DEF Cwd
<1> QED BY <1>1, <1>2, <1>3, <1>4, <1>5

\* Two paths with the same names are the same.
LEMMA PathEqual ==
  ASSUME NEW p \in Paths, NEW q \in Paths, Len(p) = Len(q),
         \A k \in 1..Len(p) : p[k] = q[k]
  PROVE  p = q
BY PathFacts, SeqEqual

\* The beginning of a path.
LEMMA PrefixFacts ==
  ASSUME NEW p \in Paths, NEW n \in 0..Len(p)
  PROVE  /\ SubSeq(p, 1, n) \in Seq(STRING) /\ Len(SubSeq(p, 1, n)) = n
         /\ \A k \in 1..n : SubSeq(p, 1, n)[k] = p[k]
<1>1. Len(p) \in Nat /\ \A k \in 1..n : p[k] \in STRING
  BY PathFacts
<1>2. 1 \in Int /\ n \in Int
  BY <1>1
<1>3. /\ SubSeq(p, 1, n) \in Seq(STRING)
      /\ Len(SubSeq(p, 1, n)) = (IF 1 <= n THEN n - 1 + 1 ELSE 0)
      /\ \A k \in 1..(n - 1 + 1) : SubSeq(p, 1, n)[k] = p[1 + k - 1]
  BY <1>1, <1>2, SubSeqProperties
<1> QED BY <1>1, <1>3

\* One path is below another if it goes on where the other one ends.
LEMMA UnderIff ==
  ASSUME NEW d \in Paths, NEW p \in Paths
  PROVE  p \in Under(d) <=> Len(p) > Len(d) /\ \A k \in 1..Len(d) : p[k] = d[k]
<1> SUFFICES ASSUME Len(p) > Len(d)
             PROVE  SubSeq(p, 1, Len(d)) = d <=> \A k \in 1..Len(d) : p[k] = d[k]
  BY DEF Under
<1>1. Len(d) \in 0..Len(p) /\ d \in Seq(STRING)
  BY PathFacts
<1>2. /\ SubSeq(p, 1, Len(d)) \in Seq(STRING) /\ Len(SubSeq(p, 1, Len(d))) = Len(d)
      /\ \A k \in 1..Len(d) : SubSeq(p, 1, Len(d))[k] = p[k]
  BY <1>1, PrefixFacts
<1>3. ASSUME \A k \in 1..Len(d) : p[k] = d[k]
      PROVE  SubSeq(p, 1, Len(d)) = d
  BY <1>1, <1>2, <1>3, SeqEqual
<1> QED BY <1>2, <1>3

\* The directory a path is an entry of.
LEMMA ParentFacts ==
  ASSUME NEW p \in Paths, p # Cwd
  PROVE  /\ Parent(p) \in Paths /\ Len(Parent(p)) = Len(p) - 1
         /\ \A k \in 1..(Len(p) - 1) : Parent(p)[k] = p[k]
         /\ p \in Under(Parent(p))
         /\ p = Append(Parent(p), p[Len(p)])
<1>1. Len(p) \in Nat \ {0} /\ p \in Seq(STRING) /\ p[Len(p)] \in STRING
  BY PathFacts
<1>2. Parent(p) = SubSeq(p, 1, Len(p) - 1)
  BY DEF Parent
<1>3. Parent(p) \in Paths
  <2>1. Len(p) > 0
    BY <1>1
  <2> QED BY <1>2, <2>1, PathAssumption
<1>4. /\ Parent(p) \in Seq(STRING) /\ Len(Parent(p)) = Len(p) - 1
      /\ \A k \in 1..(Len(p) - 1) : Parent(p)[k] = p[k]
  <2>1. Len(p) - 1 \in 0..Len(p)
    BY <1>1
  <2> QED BY <1>2, <2>1, PrefixFacts
<1>5. p \in Under(Parent(p))
  BY <1>1, <1>3, <1>4, UnderIff
<1>6. p = Append(Parent(p), p[Len(p)])
  <2> DEFINE q == Append(Parent(p), p[Len(p)])
  <2>1. /\ q \in Seq(STRING) /\ Len(q) = Len(Parent(p)) + 1
        /\ \A k \in 1..Len(Parent(p)) : q[k] = Parent(p)[k]
        /\ q[Len(Parent(p)) + 1] = p[Len(p)]
    BY <1>1, <1>4, AppendProperties
  <2> HIDE DEF q
  <2>2. \A k \in 1..Len(p) : p[k] = q[k]
    BY <1>1, <1>4, <2>1
  <2> QED BY <1>1, <1>4, <2>1, <2>2, SeqEqual DEF q
<1> QED BY <1>3, <1>4, <1>5, <1>6

\* An entry of a directory.
LEMMA ChildFacts ==
  ASSUME NEW d \in Paths, NEW n \in Names(d)
  PROVE  /\ n \in STRING /\ n \notin DotNames
         /\ Append(d, n) \in Paths /\ Append(d, n) # Cwd /\ Parent(Append(d, n)) = d
         /\ Append(d, n) \in Under(d) /\ Len(Append(d, n)) = Len(d) + 1
         /\ Append(d, n)[Len(d) + 1] = n
<1>1. PICK p \in Under(d) : Parent(p) = d /\ n = p[Len(p)]
  BY DEF Names
<1>2. p \in Paths /\ Len(p) > Len(d)
  BY DEF Under
<1>3. p # Cwd
  BY <1>2, PathFacts
<1>4. p = Append(d, n) /\ Len(p) = Len(d) + 1 /\ p[Len(p)] \in STRING
      /\ p[Len(p)] \notin DotNames
  <2>1. Len(p) \in 1..Len(p) /\ Len(d) \in Nat
    BY <1>2, <1>3, PathFacts
  <2>2. p = Append(d, n) /\ Len(d) = Len(p) - 1
    BY <1>1, <1>2, <1>3, ParentFacts
  <2>3. Len(p) = Len(d) + 1
    BY <2>1, <2>2
  <2> QED BY <1>2, <2>1, <2>2, <2>3, PathFacts
<1> QED BY <1>1, <1>2, <1>3, <1>4

\* Below what is below.
LEMMA UnderTransitive ==
  ASSUME NEW d \in Paths, NEW q \in Under(d), NEW p \in Under(q)
  PROVE  p \in Under(d)
<1>1. q \in Paths /\ p \in Paths
  BY DEF Under
<1>2. Len(d) \in Nat /\ Len(q) \in Nat /\ Len(p) \in Nat
  BY <1>1, PathFacts
<1>3. Len(q) > Len(d) /\ Len(p) > Len(q)
  BY DEF Under
<1>4. \A k \in 1..Len(d) : p[k] = d[k]
  <2> TAKE k \in 1..Len(d)
  <2>1. q[k] = d[k]
    BY <1>1, UnderIff
  <2>2. k \in 1..Len(q)
    BY <1>2, <1>3
  <2> QED BY <1>1, <2>1, <2>2, UnderIff
<1> QED BY <1>1, <1>2, <1>3, <1>4, UnderIff

\* The beginnings of a path are paths, and directories if there is something
\* at the path.
LEMMA PrefixIsPath ==
  ASSUME NEW p \in Paths
  PROVE  \A n \in 0..Len(p) : SubSeq(p, 1, n) \in Paths
<1>1. Len(p) \in Nat /\ p \in Seq(STRING)
  BY PathFacts
<1> DEFINE S == {k \in Nat : \A n \in 0..Len(p) : n + k = Len(p) => SubSeq(p, 1, n) \in Paths}
<1>2. 0 \in S
  <2>1. SubSeq(p, 1, Len(p)) = p
    BY <1>1, SubSeqFull
  <2>2. \A n \in 0..Len(p) : n + 0 = Len(p) => n = Len(p)
    BY <1>1
  <2> QED BY <2>1, <2>2
<1>3. ASSUME NEW k \in S PROVE k + 1 \in S
  <2> SUFFICES ASSUME NEW m \in 0..Len(p), m + (k + 1) = Len(p)
               PROVE  SubSeq(p, 1, m) \in Paths
    OBVIOUS
  <2> DEFINE n == m + 1
             q == SubSeq(p, 1, n)
  <2>1. n \in 1..Len(p) /\ n \in 0..Len(p) /\ n - 1 \in 0..Len(p) /\ m = n - 1 /\ n + k = Len(p)
    BY <1>1
  <2>2. q \in Paths
    BY <2>1
  <2>3. Len(q) = n /\ \A j \in 1..n : q[j] = p[j]
    BY <2>1, PrefixFacts
  <2> HIDE DEF q, n
  <2>4. q # Cwd
    BY <2>1, <2>2, <2>3, PathFacts
  <2>5. Parent(q) \in Paths /\ Len(Parent(q)) = n - 1
        /\ \A j \in 1..(n - 1) : Parent(q)[j] = q[j]
    BY <2>2, <2>3, <2>4, ParentFacts
  <2>6. /\ SubSeq(p, 1, n - 1) \in Seq(STRING) /\ Len(SubSeq(p, 1, n - 1)) = n - 1
        /\ \A j \in 1..(n - 1) : SubSeq(p, 1, n - 1)[j] = p[j]
    BY <2>1, PrefixFacts
  <2>7. \A j \in 1..(n - 1) : Parent(q)[j] = SubSeq(p, 1, n - 1)[j]
    BY <2>1, <2>3, <2>5, <2>6
  <2>8. Parent(q) = SubSeq(p, 1, n - 1)
    <3>1. Parent(q) \in Seq(STRING)
      BY <2>5, PathFacts
    <3> QED BY <2>5, <2>6, <2>7, <3>1, SeqEqual
  <2> QED BY <2>1, <2>5, <2>8
<1>4. S = Nat
  <2> HIDE DEF S
  <2>1. S \in SUBSET Nat
    BY DEF S
  <2> QED BY <1>2, <1>3, <2>1, SetInduction
<1> QED
  <2> TAKE n \in 0..Len(p)
  <2>1. Len(p) - n \in Nat /\ n + (Len(p) - n) = Len(p)
    BY <1>1
  <2>2. Len(p) - n \in S
    BY <1>4, <2>1
  <2> QED BY <2>1, <2>2

\* The next name on the way from a directory to what is below it.
LEMMA NextName ==
  ASSUME NEW d \in Paths, NEW p \in Under(d)
  PROVE  LET n == p[Len(d) + 1]
             q == Append(d, n)
         IN  n \in Names(d) /\ q \in Paths /\ (p = q \/ p \in Under(q))
<1> DEFINE l == Len(d) + 1
           q == SubSeq(p, 1, l)
<1>1. p \in Paths /\ Len(p) \in Nat /\ Len(d) \in Nat /\ l \in 1..Len(p) /\ l \in 0..Len(p)
  <2>1. p \in Paths /\ Len(p) > Len(d)
    BY DEF Under
  <2>2. Len(p) \in Nat /\ Len(d) \in Nat
    BY <2>1, PathFacts
  <2> QED BY <2>1, <2>2
<1>2. q \in Paths
  BY <1>1, PrefixIsPath
<1>3. Len(q) = l /\ \A k \in 1..l : q[k] = p[k]
  BY <1>1, PrefixFacts
<1> HIDE DEF q
<1>4. q # Cwd
  BY <1>1, <1>2, <1>3, PathFacts
<1>5. Parent(q) = d
  <2>1. /\ Parent(q) \in Paths /\ Len(Parent(q)) = Len(d)
        /\ \A k \in 1..Len(d) : Parent(q)[k] = q[k]
    BY <1>1, <1>2, <1>3, <1>4, ParentFacts
  <2>2. \A k \in 1..Len(d) : q[k] = d[k]
    BY <1>1, <1>3, UnderIff
  <2> QED BY <2>1, <2>2, PathEqual
<1>6. q \in Under(d) /\ q = Append(d, p[l])
  BY <1>1, <1>2, <1>3, <1>4, <1>5, ParentFacts
<1>7. p[l] \in Names(d)
  <2>1. q[Len(q)] = p[l]
    BY <1>1, <1>3
  <2> QED BY <1>5, <1>6, <2>1 DEF Names
<1>8. p = q \/ p \in Under(q)
  <2>1. CASE Len(p) = l
    BY <1>1, <1>2, <1>3, <2>1, PathEqual
  <2>2. CASE Len(p) # l
    BY <1>1, <1>2, <1>3, <2>2, UnderIff
  <2> QED BY <2>1, <2>2
<1> QED BY <1>2, <1>6, <1>7, <1>8

\* A path is an entry of the directory above it.
LEMMA EntryOfParent ==
  ASSUME NEW p \in Paths, p # Cwd
  PROVE  p[Len(p)] \in Names(Parent(p)) /\ p = Append(Parent(p), p[Len(p)])
BY ParentFacts DEF Names

IsTree(f) ==
  /\ f \in [Paths -> Kinds \cup {"absent"}]
  /\ f[Cwd] = "dir"
  /\ \A p \in Paths : f[p] # "absent" => f[Parent(p)] = "dir"

\* What is above something is a directory.
LEMMA AboveIsDir ==
  ASSUME NEW f, IsTree(f), NEW p \in Paths, f[p] # "absent",
         NEW d \in Paths, p \in Under(d)
  PROVE  f[d] = "dir"
<1>1. Len(p) \in Nat /\ Len(d) \in Nat /\ Len(d) < Len(p)
  BY PathFacts DEF Under
<1> DEFINE S == {k \in Nat : \A n \in 0..Len(p) : n + k + 1 = Len(p) => f[SubSeq(p, 1, n)] = "dir"}
<1>2. 0 \in S
  <2> SUFFICES ASSUME NEW n \in 0..Len(p), n + 0 + 1 = Len(p)
               PROVE  f[SubSeq(p, 1, n)] = "dir"
    OBVIOUS
  <2>1. n = Len(p) - 1 /\ p # Cwd
    BY <1>1, PathFacts
  <2>2. SubSeq(p, 1, n) = Parent(p)
    BY <2>1 DEF Parent
  <2> QED BY <2>2 DEF IsTree
<1>3. ASSUME NEW k \in S PROVE k + 1 \in S
  <2> SUFFICES ASSUME NEW m \in 0..Len(p), m + (k + 1) + 1 = Len(p)
               PROVE  f[SubSeq(p, 1, m)] = "dir"
    OBVIOUS
  <2> DEFINE n == m + 1
             q == SubSeq(p, 1, n)
  <2>1. n \in 1..Len(p) /\ n \in 0..Len(p) /\ m = n - 1 /\ n + k + 1 = Len(p) /\ m \in 0..n
    BY <1>1
  <2>2. f[q] = "dir"
    BY <2>1
  <2>3. q \in Paths /\ q \in Seq(STRING) /\ Len(q) = n /\ \A j \in 1..n : q[j] = p[j]
    BY <2>1, PrefixFacts, PrefixIsPath
  <2>4. Parent(q) = SubSeq(p, 1, m)
    <3> HIDE DEF q
    <3>1. q # Cwd
      BY <2>1, <2>3, PathFacts
    <3>2. Parent(q) \in Paths /\ Len(Parent(q)) = m /\ \A j \in 1..m : Parent(q)[j] = q[j]
      <4>1. Len(q) - 1 = m
        BY <2>1, <2>3
      <4>2. /\ Parent(q) \in Paths /\ Len(Parent(q)) = Len(q) - 1
            /\ \A j \in 1..(Len(q) - 1) : Parent(q)[j] = q[j]
        BY <2>3, <3>1, ParentFacts
      <4> QED BY <4>1, <4>2
    <3>3. /\ SubSeq(p, 1, m) \in Paths /\ Len(SubSeq(p, 1, m)) = m
          /\ \A j \in 1..m : SubSeq(p, 1, m)[j] = p[j]
      BY PrefixFacts, PrefixIsPath
    <3>4. \A j \in 1..m : Parent(q)[j] = SubSeq(p, 1, m)[j]
      BY <2>1, <2>3, <3>2, <3>3
    <3> QED BY <3>2, <3>3, <3>4, PathEqual
  <2>5. f[q] # "absent"
    BY <2>2
  <2> HIDE DEF q
  <2> QED BY <2>3, <2>4, <2>5 DEF IsTree
<1>4. S = Nat
  <2> HIDE DEF S
  <2>1. S \in SUBSET Nat
    BY DEF S
  <2> QED BY <1>2, <1>3, <2>1, SetInduction
<1>5. SubSeq(p, 1, Len(d)) = d
  BY DEF Under
<1>6. PICK k \in S : Len(d) + k + 1 = Len(p)
  <2> HIDE DEF S
  <2>1. Len(p) - Len(d) - 1 \in Nat
    BY <1>1
  <2>2. Len(d) + (Len(p) - Len(d) - 1) + 1 = Len(p)
    BY <1>1
  <2> QED BY <1>4, <2>1, <2>2
<1>7. Len(d) \in 0..Len(p)
  BY <1>1
<1> QED BY <1>5, <1>6, <1>7

-----------------------------------------------------------------------------
(* Arguments.                                                              *)

\* The value of an option that is given.
LEMMA ValueFacts ==
  ASSUME NEW a \in CommandLines, Len(a) % 2 = 0, NEW o \in Options(a)
  PROVE  ValueOf(a, o) \in DOMAIN PathOf
<1>1. a \in Seq(DOMAIN PathOf) /\ Len(a) \in Nat /\ DOMAIN a = 1..Len(a)
  BY PathAssumption, LenProperties
<1> DEFINE at == {i \in DOMAIN a : i % 2 = 1 /\ a[i] = o}
           first == CHOOSE i \in at : \A j \in at : i <= j
<1>2. at \in SUBSET Nat /\ at # {}
  BY <1>1 DEF Options
<1>3. \E i \in at : \A j \in at : i <= j
  <2> HIDE DEF at
  <2> QED BY <1>2, LeastElement
<1>4. first \in at
  <2> HIDE DEF at
  <2> QED BY <1>3
<1>5. 1 + first \in 1..Len(a)
  <2>1. first \in 1..Len(a) /\ first % 2 = 1
    BY <1>1, <1>4
  <2>2. Len(a) % 2 # 1
    OBVIOUS
  <2>3. first # Len(a)
    BY <2>1, <2>2
  <2>4. \A l \in Nat : \A k \in 1..l : k # l => 1 + k \in 1..l
    OBVIOUS
  <2> HIDE DEF first
  <2> QED BY <1>1, <2>1, <2>3, <2>4
<1>6. ValueOf(a, o) = a[1 + first]
  BY DEF ValueOf
<1> HIDE DEF first
<1> QED BY <1>1, <1>5, <1>6, ElementOfSeq

\* The paths main passes on.
LEMMA RequestFacts ==
  ASSUME NEW a \in CommandLines
  PROVE  /\ Parse(a).ok \in BOOLEAN /\ Parse(a).unpack \in BOOLEAN
         /\ Parse(a).target \in DOMAIN PathOf /\ Parse(a).out \in DOMAIN PathOf
         /\ CheckOutputDir(Parse(a).out) \in Paths
<1>1. "" \in DOMAIN PathOf /\ Cwd \in Paths /\ PathOf \in [DOMAIN PathOf -> Paths]
  BY PathAssumption
<1>2. Len(a) \in Nat
  BY PathAssumption, LenProperties
<1>3. (Len(a) + 1) % 2 # 0 => Len(a) % 2 = 0
  BY <1>2
<1>4. /\ Parse(a).ok \in BOOLEAN /\ Parse(a).unpack \in BOOLEAN
      /\ Parse(a).target \in DOMAIN PathOf /\ Parse(a).out \in DOMAIN PathOf
  BY <1>1, <1>3, ValueFacts DEF Parse, IsExistOption
<1> QED BY <1>1, <1>4 DEF CheckOutputDir

\* The modes of Crawl are those that Parse finds.
LEMMA ModesAgree ==
  ASSUME argv \in CommandLines
  PROVE  /\ Request.ok <=> C!Recognise \/ C!Extract
         /\ Request.unpack <=> C!Extract
         /\ Request.ok => C!Target = Target
<1>1. Len(argv) \in Nat /\ argv \in Seq(DOMAIN PathOf) /\ DOMAIN argv = 1..Len(argv)
  BY PathAssumption, LenProperties
<1>2. (Len(argv) + 1) % 2 = 0 <=> Len(argv) % 2 # 0
  BY <1>1
<1>3. ASSUME NEW o \in Options(argv) PROVE Len(argv) >= 1
  BY <1>1 DEF Options
<1>4. Len(argv) % 2 = 0 /\ Len(argv) >= 1 => ~(Len(argv) + 1 < 3)
  BY <1>1
<1> DEFINE O == Options(argv)
           r == "-r" \in O
           x == "-x" \in O
           p == "-o" \in O
<1>5. C!Recognise <=> Len(argv) % 2 = 0 /\ O \subseteq ValidOptions /\ r /\ ~x /\ ~p
  BY DEF C!Recognise, C!Options, Options, ValidOptions
<1>6. C!Extract <=> Len(argv) % 2 = 0 /\ O \subseteq ValidOptions /\ ~r /\ x
  BY DEF C!Extract, C!Options, Options, ValidOptions
<1>7. Request.ok <=> /\ Len(argv) % 2 = 0 /\ O \subseteq ValidOptions
                     /\ (r /\ ~x /\ ~p) \/ (~r /\ x)
  BY <1>2, <1>3, <1>4 DEF Request, Parse, IsExistOption
<1>8. Request.unpack <=> Len(argv) % 2 = 0 /\ O \subseteq ValidOptions /\ ~r /\ x
  BY <1>2, <1>3, <1>4 DEF Request, Parse, IsExistOption
<1>9. Request.ok => C!Target = Target
  <2>1. \A o : C!ValueOf(argv, o) = ValueOf(argv, o)
    BY DEF C!ValueOf, ValueOf
  <2>2. Request.ok => Request.target = ValueOf(argv, IF r THEN "-r" ELSE "-x")
    BY <1>7 DEF Request, Parse, IsExistOption
  <2> QED BY <1>5, <1>7, <2>1, <2>2 DEF C!Target, Target
<1> QED BY <1>5, <1>6, <1>7, <1>8, <1>9

-----------------------------------------------------------------------------
(* The state.                                                              *)

StatBuf == [kind : Kinds \cup {"unset"}, old : BOOLEAN]

Frame ==
  [dir : Paths, left : SUBSET (STRING \cup DotNames), maybe : SUBSET (STRING \cup DotNames),
   linked : BOOLEAN, statbuf : StatBuf]

Here == 1..Len(stack)

\* The type invariant, with what makes Top and the streams' count meaningful.
Typing ==
  /\ TypeOK
  /\ IsTree(fs)
  /\ stack \in Seq(Frame)
  /\ handles >= Len(stack)
  /\ pc \in {"read", "file"} => stack # << >>

\* The names a stream may still return, without the dot names, as paths.
ToRead(f) == {Append(f.dir, n) : n \in (f.left \cup f.maybe) \ DotNames}

LEMMA StackFacts ==
  ASSUME Typing
  PROVE  /\ Len(stack) \in Nat /\ DOMAIN stack = Here
         /\ \A i \in Here :
              /\ stack[i] \in Frame /\ stack[i].dir \in Paths
              /\ stack[i].left \cup stack[i].maybe \subseteq Names(stack[i].dir) \cup DotNames
              /\ stack[i].left \cap stack[i].maybe = {}
         /\ stack # << >> => Len(stack) >= 1 /\ Len(stack) \in Here /\ Top = stack[Len(stack)]
<1>1. stack \in Seq(Frame)
  BY DEF Typing
<1>2. Len(stack) \in Nat /\ DOMAIN stack = Here
  BY <1>1, LenProperties DEF Here
<1>3. \A i \in Here : stack[i] \in Frame
  BY <1>1, ElementOfSeq DEF Here
<1>4. \A i \in Here :
        /\ stack[i].dir \in Paths
        /\ stack[i].left \cup stack[i].maybe \subseteq Names(stack[i].dir) \cup DotNames
        /\ stack[i].left \cap stack[i].maybe = {}
  BY <1>2 DEF Typing, TypeOK
<1>5. stack # << >> => Len(stack) # 0
  BY <1>1, EmptySeq
<1> QED BY <1>2, <1>3, <1>4, <1>5 DEF Here, Top

\* What a step that pushes, reads from, pops or relists the streams leaves.
LEMMA PushFacts ==
  ASSUME Typing, OpenSucceeds
  PROVE  /\ stack' \in Seq(Frame) /\ Len(stack') = Len(stack) + 1
         /\ \A i \in Here : stack'[i] = stack[i]
         /\ stack'[Len(stack')].dir = entry
         /\ stack'[Len(stack')].left =
              DotNames \cup {n \in Names(entry) : fs[Append(entry, n)] # "absent"}
         /\ stack'[Len(stack')].maybe = {}
         /\ stack'[Len(stack')].linked
         /\ stack'[Len(stack')].statbuf \in StatBuf
<1> DEFINE left == DotNames \cup {n \in Names(entry) : fs[Append(entry, n)] # "absent"}
           f == [dir |-> entry, left |-> left, maybe |-> {}, linked |-> TRUE,
                 statbuf |-> [kind |-> "unset", old |-> FALSE]]
<1>1. left \in SUBSET (STRING \cup DotNames)
  <2>1. entry \in Paths
    BY DEF Typing, TypeOK
  <2>2. \A n \in Names(entry) : n \in STRING
    BY <2>1, ChildFacts
  <2> QED BY <2>2
<1> HIDE DEF left
<1>2. f \in Frame /\ f.dir = entry /\ f.left = left /\ f.maybe = {} /\ f.linked /\ f.statbuf \in StatBuf
  BY <1>1 DEF Frame, StatBuf, Typing, TypeOK
<1>3. stack' = Append(stack, f)
  BY DEF OpenSucceeds, left
<1> HIDE DEF f
<1>4. stack \in Seq(Frame)
  BY DEF Typing
<1>5. /\ stack' \in Seq(Frame) /\ Len(stack') = Len(stack) + 1
      /\ \A i \in Here : stack'[i] = stack[i]
      /\ stack'[Len(stack) + 1] = f
  BY <1>2, <1>3, <1>4, AppendProperties DEF Here
<1> QED BY <1>2, <1>5 DEF left

LEMMA PopFacts ==
  ASSUME Typing, pc = "read", stack' = SubSeq(stack, 1, Len(stack) - 1)
  PROVE  /\ stack' \in Seq(Frame) /\ Len(stack') = Len(stack) - 1 /\ Len(stack') \in Nat
         /\ \A i \in 1..Len(stack') : i \in Here /\ stack'[i] = stack[i]
         /\ Len(stack) = 1 <=> stack' = << >>
<1>1. Len(stack) \in Nat /\ Len(stack) >= 1 /\ stack \in Seq(Frame)
  BY StackFacts DEF Typing
<1>2. \A i \in 1..(Len(stack) - 1) : stack[i] \in Frame
  BY <1>1, StackFacts DEF Here
<1>3. 1 \in Int /\ Len(stack) - 1 \in Int
  BY <1>1
<1>4. /\ stack' \in Seq(Frame)
      /\ Len(stack') = (IF 1 <= Len(stack) - 1 THEN (Len(stack) - 1) - 1 + 1 ELSE 0)
      /\ \A k \in 1..((Len(stack) - 1) - 1 + 1) : stack'[k] = stack[1 + k - 1]
  BY <1>2, <1>3, SubSeqProperties
<1>5. Len(stack') = Len(stack) - 1 /\ Len(stack') \in Nat
  <2>1. \A n \in Nat : n >= 1 => (IF 1 <= n - 1 THEN (n - 1) - 1 + 1 ELSE 0) = n - 1 /\ n - 1 \in Nat
    OBVIOUS
  <2> QED BY <1>1, <1>4, <2>1
<1>6. \A i \in 1..Len(stack') : i \in Here /\ stack'[i] = stack[i]
  BY <1>1, <1>4, <1>5 DEF Here
<1>7. Len(stack') = 0 <=> stack' = << >>
  BY <1>4, EmptySeq
<1> QED BY <1>1, <1>4, <1>5, <1>6, <1>7

\* What lstat leaves in statbuf: if the entry is there, what is there.
LEMMA LstatFacts ==
  ASSUME Typing, pc = "read", NEW name \in Top.left \cup Top.maybe,
         NEW s \in Lstat(Top.dir, name, Top.statbuf)
  PROVE  /\ s \in [kind : Kinds, old : BOOLEAN]
         /\ Resolve(Top.dir, name) \in Paths
         /\ name \notin DotNames =>
              /\ name \in Names(Top.dir) /\ Resolve(Top.dir, name) = Append(Top.dir, name)
              /\ fs[Append(Top.dir, name)] # "absent" =>
                   /\ s.kind = fs[Append(Top.dir, name)]
                   /\ s.old <=> Append(Top.dir, name) \notin recent
<1>1. /\ Top \in Frame /\ Top.dir \in Paths /\ name \in Names(Top.dir) \cup DotNames
      /\ Top.statbuf \in StatBuf
  <2>1. Len(stack) \in Here /\ Top = stack[Len(stack)]
    BY StackFacts DEF Typing
  <2> QED BY <2>1, StackFacts DEF Frame
<1>2. name \notin DotNames => name \in Names(Top.dir) /\ Append(Top.dir, name) \in Paths
  BY <1>1, ChildFacts
<1>3. fs \in [Paths -> Kinds \cup {"absent"}]
  BY DEF Typing, IsTree
<1>4. Resolve(Top.dir, name) \in Paths
  BY <1>1, <1>2 DEF Resolve
<1> DEFINE k == fs[Resolve(Top.dir, name)]
           b == Resolve(Top.dir, name) \notin recent
<1>5. ~Gone(Top.dir, name) => s = [kind |-> k, old |-> b] /\ k \in Kinds
  BY <1>1, <1>2, <1>3 DEF Lstat, Gone, Resolve, Kinds
<1>6. Gone(Top.dir, name) => s \in [kind : Kinds, old : BOOLEAN]
  <2>1. CASE Top.statbuf.kind = "unset"
    BY <2>1 DEF Lstat
  <2>2. CASE Top.statbuf.kind # "unset"
    <3>1. Top.statbuf \in [kind : Kinds, old : BOOLEAN]
      BY <1>1, <2>2 DEF StatBuf
    <3> QED BY <2>2, <3>1 DEF Lstat
  <2> QED BY <2>1, <2>2
<1>7. ~Gone(Top.dir, name) => s.kind = k /\ s.old = b /\ s \in [kind : Kinds, old : BOOLEAN]
  <2>1. b \in BOOLEAN
    OBVIOUS
  <2> HIDE DEF k, b
  <2> QED BY <1>5, <2>1
<1>8. name \notin DotNames => Resolve(Top.dir, name) = Append(Top.dir, name)
                              /\ (Gone(Top.dir, name) <=> fs[Append(Top.dir, name)] = "absent")
  BY DEF Resolve, Gone
<1> QED BY <1>2, <1>4, <1>6, <1>7, <1>8
\* What another program, or the extraction, leaves of the open streams.
LEMMA RelistFacts ==
  ASSUME Typing, NEW S \in SUBSET Paths, stack' = Relist(S)
  PROVE  /\ stack' \in Seq(Frame) /\ Len(stack') = Len(stack) /\ Here' = Here
         /\ \A i \in Here :
              /\ stack'[i].dir = stack[i].dir
              /\ stack'[i].left \subseteq stack[i].left
              /\ stack'[i].left \cup stack'[i].maybe \subseteq Names(stack[i].dir) \cup DotNames
              /\ stack'[i].left \cap stack'[i].maybe = {}
              /\ stack[i].dir \notin S => stack'[i].linked = stack[i].linked
              /\ \A n \in stack'[i].maybe \ (stack[i].left \cup stack[i].maybe) :
                   LET q == Append(stack[i].dir, n)
                   IN  n \in Names(stack[i].dir) /\ q \in S /\ fs'[q] # "absent"
              /\ \A n \in stack[i].left \ stack'[i].left :
                   stack[i].dir \in S \/ (n \notin DotNames /\ Append(stack[i].dir, n) \in S)
<1>1. /\ Len(stack) \in Nat /\ DOMAIN stack = Here
      /\ \A i \in Here :
           /\ stack[i] \in Frame /\ stack[i].dir \in Paths
           /\ stack[i].left \cup stack[i].maybe \subseteq Names(stack[i].dir) \cup DotNames
           /\ stack[i].left \cap stack[i].maybe = {}
  BY StackFacts
<1> DEFINE names(f) == {p[Len(p)] : p \in {q \in S : q # Cwd /\ Parent(q) = f.dir}}
           Replaced(f) == [f EXCEPT !.left = {}, !.maybe = @ \cup f.left, !.linked = FALSE]
           Changed(f) == [f EXCEPT !.left = @ \ names(f),
                                   !.maybe = @ \cup {n \in names(f) : n \in f.left \/
                                                fs'[Append(f.dir, n)] # "absent"}]
           g(i) == stack'[i]
<1>2. \A i \in Here : \A n \in names(stack[i]) :
        n \in Names(stack[i].dir) /\ n \notin DotNames /\ n \in STRING
        /\ Append(stack[i].dir, n) \in S
  <2> SUFFICES ASSUME NEW i \in Here, NEW n \in names(stack[i])
               PROVE  /\ n \in Names(stack[i].dir) /\ n \notin DotNames /\ n \in STRING
                      /\ Append(stack[i].dir, n) \in S
    OBVIOUS
  <2>1. PICK q \in S : q # Cwd /\ Parent(q) = stack[i].dir /\ n = q[Len(q)]
    OBVIOUS
  <2>2. n \in Names(stack[i].dir) /\ q = Append(stack[i].dir, n)
    BY <2>1, EntryOfParent
  <2> QED BY <1>1, <2>1, <2>2, ChildFacts
<1>3. /\ DOMAIN stack' = Here
      /\ \A i \in Here :
           g(i) = IF stack[i].dir \in S THEN Replaced(stack[i])
                  ELSE IF ~stack[i].linked THEN stack[i] ELSE Changed(stack[i])
  BY <1>1 DEF Relist
<1> HIDE DEF names
<1>4. ASSUME NEW i \in Here
      PROVE  /\ g(i) \in Frame
             /\ g(i).dir = stack[i].dir
             /\ g(i).left \subseteq stack[i].left
             /\ g(i).left \cup g(i).maybe \subseteq Names(stack[i].dir) \cup DotNames
             /\ g(i).left \cap g(i).maybe = {}
             /\ stack[i].dir \notin S => g(i).linked = stack[i].linked
             /\ \A n \in g(i).maybe \ (stack[i].left \cup stack[i].maybe) :
                   /\ n \in names(stack[i])
                   /\ fs'[Append(stack[i].dir, n)] # "absent"
             /\ \A n \in stack[i].left \ g(i).left :
                   stack[i].dir \in S \/ n \in names(stack[i])
  <2> DEFINE f == stack[i]
             N == names(f)
  <2>1. /\ f \in Frame /\ f.left \cap f.maybe = {}
        /\ f.left \cup f.maybe \subseteq Names(f.dir) \cup DotNames
        /\ N \subseteq Names(f.dir) /\ N \subseteq STRING
    BY <1>1, <1>2
  <2> HIDE DEF f, N
  <2>2. CASE f.dir \in S
    <3>1. g(i) = Replaced(f)
      BY <1>3, <2>2 DEF f
    <3> HIDE DEF g
    <3>2. /\ g(i) \in Frame /\ g(i).dir = f.dir /\ g(i).left = {}
          /\ g(i).maybe = f.maybe \cup f.left
      BY <2>1, <3>1 DEF Frame
    <3> QED BY <2>1, <2>2, <3>2 DEF f
  <2>3. CASE f.dir \notin S /\ ~f.linked
    <3>1. g(i) = f
      BY <1>3, <2>3 DEF f
    <3> QED BY <2>1, <3>1 DEF f
  <2>4. CASE f.dir \notin S /\ f.linked
    <3>1. g(i) = Changed(f)
      BY <1>3, <2>4 DEF f
    <3> HIDE DEF g
    <3>2. /\ g(i) \in Frame /\ g(i).dir = f.dir /\ g(i).left = f.left \ N
          /\ g(i).linked = f.linked
          /\ g(i).maybe = f.maybe \cup {n \in N : n \in f.left \/ fs'[Append(f.dir, n)] # "absent"}
      BY <2>1, <3>1 DEF Frame, N
    <3> QED BY <2>1, <3>2 DEF f, N
  <2> QED BY <2>2, <2>3, <2>4
<1> HIDE DEF g
<1>5. stack' \in Seq(Frame) /\ Len(stack') = Len(stack)
  <2>1. stack' = [i \in Here |-> stack'[i]]
    BY <1>1 DEF Relist
  <2>2. stack' \in [1..Len(stack) -> Frame]
    BY <1>4, <2>1 DEF Here, g
  <2> HIDE DEF g
  <2>3. stack' \in Seq(Frame)
    BY <1>1, <2>2, SeqDef
  <2>4. stack' \in [1..Len(stack') -> Frame] /\ Len(stack') \in Nat
    BY <2>3, LenProperties
  <2>5. 1..Len(stack') = 1..Len(stack)
    BY <2>2, <2>4
  <2>6. Len(stack') = Len(stack)
    BY <1>1, <2>4, <2>5
  <2> QED BY <2>3, <2>6
<1>6. Here' = Here
  BY <1>5 DEF Here
<1> QED BY <1>2, <1>4, <1>5, <1>6 DEF g

\* What reading one name of the topmost stream does.
LEMMA ReadFacts ==
  ASSUME Typing, ReadEntry
  PROVE  \E name \in Top.left \cup Top.maybe : \E s \in Lstat(Top.dir, name, Top.statbuf) :
           /\ stack' \in Seq(Frame) /\ Len(stack') = Len(stack) /\ Here' = Here
           /\ \A i \in Here : i # Len(stack) => stack'[i] = stack[i]
           /\ \A i \in Here : stack'[i].dir = stack[i].dir /\ stack'[i].linked = stack[i].linked
           /\ Top'.left = Top.left \ {name} /\ Top'.maybe = Top.maybe \ {name}
           /\ entry' = Resolve(Top.dir, name)
           /\ pc' = IF s.kind = "dir" /\ name \notin DotNames /\ s.old THEN "open"
                    ELSE IF s.kind = "file" /\ name \notin DotNames THEN "file" ELSE "read"
           /\ met' = IF s.kind = "file" /\ name \notin DotNames THEN met \cup {entry'} ELSE met
           /\ missed' = IF s.kind = "dir" /\ name \notin DotNames /\ ~s.old /\ fs[entry'] = "dir"
                        THEN missed \cup {entry'} ELSE missed
<1>1. /\ Len(stack) \in Nat /\ Len(stack) \in Here /\ DOMAIN stack = Here
      /\ Top = stack[Len(stack)] /\ \A i \in Here : stack[i] \in Frame
  BY StackFacts DEF Typing, ReadEntry
<1> DEFINE Reads(name, s) ==
             /\ stack' = [stack EXCEPT ![Len(stack)].left = @ \ {name},
                                       ![Len(stack)].maybe = @ \ {name},
                                       ![Len(stack)].statbuf = s]
             /\ entry' = Resolve(Top.dir, name)
             /\ pc' = IF s.kind = "dir" /\ name \notin DotNames /\ s.old THEN "open"
                      ELSE IF s.kind = "file" /\ name \notin DotNames THEN "file" ELSE "read"
             /\ met' = IF s.kind = "file" /\ name \notin DotNames THEN met \cup {entry'} ELSE met
             /\ missed' = IF s.kind = "dir" /\ name \notin DotNames /\ ~s.old /\ fs[entry'] = "dir"
                          THEN missed \cup {entry'} ELSE missed
<1>2. \E name \in Top.left \cup Top.maybe :
        \E s \in Lstat(Top.dir, name, Top.statbuf) : Reads(name, s)
  BY DEF ReadEntry, IsProper, IsExistedDir
<1> HIDE DEF Reads
<1>10. PICK name \in Top.left \cup Top.maybe :
         \E s \in Lstat(Top.dir, name, Top.statbuf) : Reads(name, s)
  BY <1>2
<1>11. PICK s \in Lstat(Top.dir, name, Top.statbuf) : Reads(name, s)
  BY <1>10
<1>3. s \in [kind : Kinds, old : BOOLEAN]
  BY LstatFacts DEF ReadEntry
<1> DEFINE f == [stack[Len(stack)] EXCEPT !.left = @ \ {name}, !.maybe = @ \ {name}, !.statbuf = s]
<1>4. stack' = [stack EXCEPT ![Len(stack)] = f]
  <2>1. stack \in [Here -> Frame]
    BY LenProperties DEF Typing, Here
  <2> QED BY <1>1, <1>11, <2>1 DEF Frame, Reads
<1>5. /\ f \in Frame /\ f.dir = Top.dir /\ f.left = Top.left \ {name}
      /\ f.maybe = Top.maybe \ {name} /\ f.linked = Top.linked
  BY <1>1, <1>3 DEF Frame, StatBuf
<1> HIDE DEF f
<1>6. stack' \in Seq(Frame) /\ Len(stack') = Len(stack)
  <2>1. stack \in Seq(Frame)
    BY DEF Typing
  <2> QED BY <1>1, <1>4, <1>5, <2>1, ExceptSeq DEF Here
<1>7. \A i \in Here : stack'[i] = IF i = Len(stack) THEN f ELSE stack[i]
  BY <1>1, <1>4
<1>8. Top' = f /\ Here' = Here
  BY <1>1, <1>6, <1>7 DEF Top, Here
<1>9. /\ \A i \in Here : i # Len(stack) => stack'[i] = stack[i]
      /\ \A i \in Here : stack'[i].dir = stack[i].dir /\ stack'[i].linked = stack[i].linked
  BY <1>1, <1>5, <1>7
<1>12. Top'.left = Top.left \ {name} /\ Top'.maybe = Top.maybe \ {name}
  BY <1>5, <1>8
<1>13. entry' = Resolve(Top.dir, name)
  BY <1>11 DEF Reads
<1>14. /\ pc' = IF s.kind = "dir" /\ name \notin DotNames /\ s.old THEN "open"
                 ELSE IF s.kind = "file" /\ name \notin DotNames THEN "file" ELSE "read"
       /\ met' = IF s.kind = "file" /\ name \notin DotNames THEN met \cup {entry'} ELSE met
       /\ missed' = IF s.kind = "dir" /\ name \notin DotNames /\ ~s.old /\ fs[entry'] = "dir"
                    THEN missed \cup {entry'} ELSE missed
  BY <1>11 DEF Reads
<1> WITNESS name \in Top.left \cup Top.maybe
<1> WITNESS s \in Lstat(Top.dir, name, Top.statbuf)
<1> QED BY <1>6, <1>8, <1>9, <1>12, <1>13, <1>14
\* A step that changes what is at the paths S: of the directories among them
\* none looks old, and streams are relisted for the paths T.
Shift(T, S) ==
  /\ T \subseteq S /\ S \subseteq Paths
  /\ IsTree(fs')
  /\ \A p \in Paths \ S : fs'[p] = fs[p]
  /\ \A p \in S \cup recent : fs'[p] = "dir" => p \in recent'
  /\ recent' \subseteq {p \in Paths : fs'[p] = "dir"}
  /\ stack' = Relist(T) /\ met' = met \ S /\ steady' = steady \ S

LEMMA RemoveFacts ==
  ASSUME Typing, Remove
  PROVE  \E S \in SUBSET Paths : Shift(S, S) /\ wrote' = wrote \ S
<1>1. PICK p \in Meddled :
        LET S == {q \in {p} \cup Under(p) : fs[q] # "absent"}
        IN /\ S # {}
           /\ fs' = [q \in Paths |-> IF q \in S THEN "absent" ELSE fs[q]]
           /\ recent' = (recent \ S) \cup {Parent(p)}
           /\ Forget(S)
  BY DEF Remove
<1> DEFINE S == {q \in {p} \cup Under(p) : fs[q] # "absent"}
<1>2. /\ p \in Paths /\ p # Cwd /\ Parent(p) \in Paths /\ Len(p) \in Nat
      /\ Len(Parent(p)) = Len(p) - 1
  BY ScanAssumption, ParentFacts, PathFacts
<1>3. S \in SUBSET Paths /\ \A q \in S : Len(q) >= Len(p)
  BY <1>2, PathFacts DEF Under
<1>4. IsTree(fs)
  BY DEF Typing
<1>5. fs[Parent(p)] = "dir" /\ Parent(p) \notin S
  <2>1. fs[p] # "absent"
    <3>1. PICK q \in S : TRUE
      BY <1>1
    <3>2. q = p \/ (q \in Under(p) /\ q \in Paths /\ fs[q] # "absent")
      BY <1>3, <3>1
    <3>3. q \in Under(p) => fs[p] = "dir"
      BY <1>2, <1>4, <3>2, AboveIsDir
    <3> QED BY <3>1, <3>2, <3>3
  <2>2. fs[Parent(p)] = "dir"
    BY <1>2, <1>4, <2>1 DEF IsTree
  <2>3. ~(Len(Parent(p)) >= Len(p))
    BY <1>2
  <2> QED BY <1>3, <2>2, <2>3
<1>6. /\ fs' = [q \in Paths |-> IF q \in S THEN "absent" ELSE fs[q]]
      /\ recent' = (recent \ S) \cup {Parent(p)}
      /\ Forget(S)
  BY <1>1
<1>7. IsTree(fs')
  <2>1. fs' \in [Paths -> Kinds \cup {"absent"}]
    BY <1>4, <1>6 DEF IsTree
  <2>2. Cwd \in Paths /\ Cwd \notin S
    <3>1. Cwd \in Paths /\ Len(Cwd) = 0
      BY PathAssumption, PathFacts
    <3>2. Len(p) # 0
      BY <1>2, PathFacts
    <3> QED BY <1>2, <1>3, <3>1, <3>2
  <2>3. ASSUME NEW q \in Paths, fs'[q] # "absent" PROVE fs'[Parent(q)] = "dir"
    <3>1. q \notin S /\ fs[q] # "absent" /\ q \notin Under(p) /\ q # p
      BY <1>6, <2>3
    <3>2. Parent(q) \in Paths /\ fs[Parent(q)] = "dir"
      BY <1>4, <3>1, ParentFacts DEF IsTree, Parent
    <3>3. Parent(q) \notin S
      <4>1. CASE q = Cwd
        BY <2>2, <4>1 DEF Parent
      <4>2. CASE q # Cwd
        <5>1. q \in Under(Parent(q))
          BY <4>2, ParentFacts
        <5>2. Parent(q) # p
          BY <3>1, <5>1
        <5>3. Parent(q) \notin Under(p)
          BY <1>2, <3>1, <5>1, UnderTransitive
        <5> QED BY <5>2, <5>3
      <4> QED BY <4>1, <4>2
    <3> QED BY <1>6, <3>2, <3>3
  <2> QED BY <1>4, <1>6, <2>1, <2>2, <2>3 DEF IsTree
<1> HIDE DEF S
<1>8. recent \subseteq {q \in Paths : fs[q] = "dir"}
  BY DEF Typing, TypeOK
<1>9. Shift(S, S) /\ wrote' = wrote \ S
  BY <1>2, <1>3, <1>5, <1>6, <1>7, <1>8 DEF Shift, Forget
<1> QED BY <1>3, <1>9

LEMMA CreateFacts ==
  ASSUME Typing, Create
  PROVE  \E S \in SUBSET Paths : Shift(S, S) /\ wrote' = wrote \ S
<1>1. PICK p \in Meddled, k \in {"dir", "file"} :
        /\ fs[p] = "absent" /\ fs[Parent(p)] = "dir"
        /\ fs' = [fs EXCEPT ![p] = k]
        /\ recent' = recent \cup {Parent(p)} \cup (IF k = "dir" THEN {p} ELSE {})
        /\ Forget({p})
  BY DEF Create
<1>2. p \in Paths /\ p # Cwd /\ Parent(p) \in Paths /\ p # Parent(p)
  BY <1>1, ScanAssumption, ParentFacts
<1>3. IsTree(fs) /\ fs \in [Paths -> Kinds \cup {"absent"}]
  BY DEF Typing, IsTree
<1>4. \A q \in Paths : fs'[q] = IF q = p THEN k ELSE fs[q]
  BY <1>1, <1>2, <1>3
<1>5. IsTree(fs')
  <2>1. fs' \in [Paths -> Kinds \cup {"absent"}]
    BY <1>1, <1>2, <1>3 DEF Kinds
  <2>2. Cwd \in Paths /\ fs'[Cwd] = "dir"
    BY <1>2, <1>3, <1>4, PathAssumption DEF IsTree
  <2>3. ASSUME NEW q \in Paths, fs'[q] # "absent" PROVE fs'[Parent(q)] = "dir"
    <3>1. Parent(q) \in Paths
      BY ParentFacts DEF Parent
    <3>2. fs[Parent(q)] = "dir"
      BY <1>1, <1>3, <1>4, <2>3 DEF IsTree
    <3> QED BY <1>1, <1>4, <3>1, <3>2
  <2> QED BY <2>1, <2>2, <2>3 DEF IsTree
<1>6. recent \subseteq {q \in Paths : fs[q] = "dir"}
  BY DEF Typing, TypeOK
<1>7. recent' \subseteq {q \in Paths : fs'[q] = "dir"}
  BY <1>1, <1>2, <1>4, <1>6
<1>8. \A q \in {p} \cup recent : fs'[q] = "dir" => q \in recent'
  BY <1>1, <1>2, <1>4
<1>9. Shift({p}, {p}) /\ wrote' = wrote \ {p}
  BY <1>1, <1>2, <1>4, <1>5, <1>7, <1>8 DEF Shift, Forget
<1> QED BY <1>2, <1>9

\* What extraction does: of the paths S it writes, those in K are kept and the
\* others gone; no directory is removed or put in the place of something else;
\* and the directories that look new by it are counted as stirred.
LEMMA UnpackFacts ==
  ASSUME Typing, ScanFileUnpacks
  PROVE  \E S \in SUBSET Paths : \E T \in SUBSET S : \E K \in SUBSET S :
           /\ Shift(T, S) /\ wrote' = (wrote \cup K) \ (S \ K)
           /\ \A p \in S : fs[p] \in {"absent", "file"}
           /\ \A p \in K : fs'[p] # "absent"
           /\ \A p \in Paths : fs[p] = "dir" => fs'[p] = "dir"
           /\ stirred \subseteq stirred' /\ stirred' \subseteq Paths
           /\ recent' \subseteq recent \cup stirred'
<1>1. PICK S \in SUBSET Contents[entry][Request.out] : \E K \in SUBSET S :
        LET dirs == S \cap Folders
            fresh == {p \in S : fs[p] = "absent"}
            gone == S \ K
        IN /\ dirs \subseteq K
           /\ \A p \in S : fs[Parent(p)] = "dir" \/ Parent(p) \in dirs
           /\ \A p \in S \ fresh : p \notin dirs /\ fs[p] = "file"
           /\ fs' = [p \in Paths |->
                       IF p \in gone THEN "absent"
                       ELSE IF p \notin fresh THEN fs[p]
                       ELSE IF p \in dirs THEN "dir" ELSE "file"]
           /\ \E R \in {{}, K \ fresh} :
                LET named == fresh \cup gone \cup R
                    changed == dirs \cup {Parent(p) : p \in named}
                IN /\ recent' = recent \cup changed
                   /\ stirred' = stirred \cup changed
                   /\ stack' = Relist(named)
           /\ met' = met \ S
           /\ wrote' = (wrote \cup K) \ gone
           /\ steady' = steady \ S
  BY DEF ScanFileUnpacks
<1>2. S \in SUBSET Paths
  <2>1. argv \in CommandLines /\ entry \in Paths
    BY DEF Typing, TypeOK
  <2>2. Request.out \in DOMAIN PathOf
    BY <2>1, RequestFacts DEF Request
  <2>3. Contents[entry][Request.out] \subseteq Paths
    BY <2>1, <2>2, ScanAssumption
  <2> QED BY <2>3
<1> DEFINE dirs == S \cap Folders
           fresh == {p \in S : fs[p] = "absent"}
<1>3. PICK K \in SUBSET S :
        /\ dirs \subseteq K
        /\ \A p \in S : fs[Parent(p)] = "dir" \/ Parent(p) \in dirs
        /\ \A p \in S \ fresh : p \notin dirs /\ fs[p] = "file"
        /\ fs' = [p \in Paths |->
                    IF p \in S \ K THEN "absent"
                    ELSE IF p \notin fresh THEN fs[p]
                    ELSE IF p \in dirs THEN "dir" ELSE "file"]
        /\ \E R \in {{}, K \ fresh} :
             LET named == fresh \cup (S \ K) \cup R
                 changed == dirs \cup {Parent(p) : p \in named}
             IN /\ recent' = recent \cup changed
                /\ stirred' = stirred \cup changed
                /\ stack' = Relist(named)
        /\ met' = met \ S
        /\ wrote' = (wrote \cup K) \ (S \ K)
        /\ steady' = steady \ S
  BY <1>1
<1>4. PICK R \in {{}, K \ fresh} :
        LET named == fresh \cup (S \ K) \cup R
            changed == dirs \cup {Parent(p) : p \in named}
        IN /\ recent' = recent \cup changed
           /\ stirred' = stirred \cup changed
           /\ stack' = Relist(named)
  BY <1>3
<1> DEFINE T == fresh \cup (S \ K) \cup R
           changed == dirs \cup {Parent(p) : p \in T}
<1>5. /\ recent' = recent \cup changed /\ stirred' = stirred \cup changed /\ stack' = Relist(T)
      /\ T \in SUBSET S /\ dirs \subseteq S /\ fresh \subseteq S
      /\ \A p \in S : fs[p] = "absent" <=> p \in fresh
      /\ dirs \subseteq changed /\ \A p \in changed : p \in dirs \/ \E q \in S : p = Parent(q)
  BY <1>4
<1> HIDE DEF dirs, fresh, T, changed
<1>6. IsTree(fs) /\ fs \in [Paths -> Kinds \cup {"absent"}] /\ Cwd \in Paths
      /\ recent \subseteq {p \in Paths : fs[p] = "dir"} /\ stirred \subseteq Paths
  BY PathAssumption DEF Typing, TypeOK, IsTree
<1>7. \A p \in S : fs[p] \in {"absent", "file"}
  BY <1>3, <1>5
<1>8. \A p \in Paths : fs[p] = "dir" => fs'[p] = "dir"
  BY <1>3, <1>5, <1>7
<1>9. \A p \in dirs : p \in Paths /\ fs'[p] = "dir"
  BY <1>2, <1>3, <1>5
<1>10. \A p \in S : Parent(p) \in Paths /\ fs'[Parent(p)] = "dir"
  <2> SUFFICES ASSUME NEW p \in S PROVE Parent(p) \in Paths /\ fs'[Parent(p)] = "dir"
    OBVIOUS
  <2>1. Parent(p) \in Paths
    BY <1>2, ParentFacts DEF Parent
  <2> QED BY <1>3, <1>8, <1>9, <2>1
<1>11. IsTree(fs')
  <2>1. fs' \in [Paths -> Kinds \cup {"absent"}]
    BY <1>3, <1>6 DEF Kinds
  <2>2. ASSUME NEW p \in Paths, fs'[p] # "absent" PROVE fs'[Parent(p)] = "dir"
    <3>1. CASE p \in S
      BY <1>10, <3>1
    <3>2. CASE p \notin S
      <4>1. fs'[p] = fs[p]
        BY <1>3, <1>5, <3>2
      <4>2. fs[Parent(p)] = "dir" /\ Parent(p) \in Paths
        BY <1>6, <2>2, <4>1, ParentFacts DEF IsTree, Parent
      <4> QED BY <1>8, <4>2
    <3> QED BY <3>1, <3>2
  <2>3. fs'[Cwd] = "dir"
    BY <1>6, <1>8 DEF IsTree
  <2> QED BY <2>1, <2>2, <2>3 DEF IsTree
<1>12. changed \subseteq {p \in Paths : fs'[p] = "dir"}
  BY <1>5, <1>9, <1>10
<1>13. recent' \subseteq {p \in Paths : fs'[p] = "dir"}
  BY <1>5, <1>6, <1>8, <1>12
<1>14. \A p \in S \cup recent : fs'[p] = "dir" => p \in recent'
  <2>1. \A p \in S : fs'[p] = "dir" => p \in dirs
    BY <1>2, <1>3, <1>7
  <2> QED BY <1>5, <2>1
<1>15. Shift(T, S)
  <2>1. \A p \in Paths \ S : fs'[p] = fs[p]
    BY <1>3, <1>5
  <2> QED BY <1>2, <1>3, <1>5, <1>11, <1>13, <1>14, <2>1 DEF Shift
<1>16. \A p \in K : fs'[p] # "absent"
  BY <1>2, <1>3, <1>5
<1>17. stirred \subseteq stirred' /\ stirred' \subseteq Paths /\ recent' \subseteq recent \cup stirred'
  BY <1>5, <1>6, <1>12
<1>18. T \in SUBSET S /\ wrote' = (wrote \cup K) \ (S \ K)
  BY <1>3, <1>5
<1> QED BY <1>2, <1>7, <1>8, <1>15, <1>16, <1>17, <1>18

-----------------------------------------------------------------------------
(* Typing is inductive.                                                    *)

\* TypeOK says of the streams no more than their names.
LEMMA TypingIntro ==
  ASSUME fs' \in [Paths -> Kinds \cup {"absent"}], IsTree(fs'),
         recent' \subseteq {p \in Paths : fs'[p] = "dir"},
         argv' \in CommandLines,
         pc' \in {"start", "open", "read", "file", "done"},
         entry' \in Paths,
         stack' \in Seq(Frame),
         \A i \in 1..Len(stack') :
           /\ stack'[i].left \cup stack'[i].maybe \subseteq Names(stack'[i].dir) \cup DotNames
           /\ stack'[i].left \cap stack'[i].maybe = {},
         handles' \in Nat, handles' >= Len(stack'), changes' \in 0..MaxChanges,
         met' \cup wrote' \cup steady' \cup missed' \cup stirred' \cup given_up' \subseteq Paths,
         pc' \in {"read", "file"} => stack' # << >>
  PROVE  Typing'
<1>1. DOMAIN stack' = 1..Len(stack')
  BY LenProperties
<1>2. \A i \in 1..Len(stack') : stack'[i] \in Frame
  BY ElementOfSeq
<1>3. \A i \in DOMAIN stack' :
        stack'[i].dir \in Paths /\ stack'[i].statbuf.kind \in Kinds \cup {"unset"}
  BY <1>1, <1>2 DEF Frame, StatBuf
<1> QED BY <1>1, <1>3 DEF Typing, TypeOK, IsTree

LEMMA TypingInit == Init => Typing
<1> SUFFICES ASSUME Init PROVE Typing
  OBVIOUS
<1>1. Cwd \in Paths
  BY PathAssumption
<1>2. fs \in Trees /\ fs[Cwd] = "dir" /\ fs \in [Paths -> Kinds \cup {"absent"}]
      /\ \A p \in Paths : fs[p] # "absent" => fs[Parent(p)] = "dir"
  BY ScanAssumption DEF Init
<1>3. IsTree(fs)
  BY <1>2 DEF IsTree
<1>4. stack = << >> /\ stack \in Seq(Frame) /\ Len(stack) = 0
  BY EmptySeq DEF Init
<1>5. recent \subseteq {p \in Paths : fs[p] = "dir"}
  BY ScanAssumption DEF Init
<1>6. handles = 0 /\ changes = 0 /\ pc = "start" /\ argv \in CommandLines
      /\ entry \in Paths /\ 0 \in 0..MaxChanges
      /\ met \cup wrote \cup steady \cup missed \cup stirred \cup given_up \subseteq Paths
  BY <1>1, ScanAssumption DEF Init
<1> QED BY <1>2, <1>3, <1>4, <1>5, <1>6 DEF Typing, TypeOK

\* What stays when the file system changes.
LEMMA TypingShift ==
  ASSUME Typing, NEW S \in SUBSET Paths, NEW T \in SUBSET S, Shift(T, S),
         entry' = entry, handles' = handles, argv' = argv,
         pc' \in {"start", "open", "read", "file", "done"},
         pc' \in {"read", "file"} => pc \in {"read", "file"},
         changes' \in 0..MaxChanges,
         wrote' \in SUBSET Paths, stirred' \in SUBSET Paths,
         missed' = missed, given_up' = given_up
  PROVE  Typing'
<1>1. /\ stack' \in Seq(Frame) /\ Len(stack') = Len(stack) /\ Here' = Here
      /\ \A i \in Here :
           /\ stack'[i].dir = stack[i].dir
           /\ stack'[i].left \cup stack'[i].maybe \subseteq Names(stack[i].dir) \cup DotNames
           /\ stack'[i].left \cap stack'[i].maybe = {}
  <2>1. T \in SUBSET Paths /\ stack' = Relist(T)
    BY DEF Shift
  <2> QED BY <2>1, RelistFacts
<1>2. \A i \in 1..Len(stack') :
        /\ stack'[i].left \cup stack'[i].maybe \subseteq Names(stack'[i].dir) \cup DotNames
        /\ stack'[i].left \cap stack'[i].maybe = {}
  BY <1>1 DEF Here
<1>3. /\ fs' \in [Paths -> Kinds \cup {"absent"}] /\ IsTree(fs')
      /\ recent' \subseteq {p \in Paths : fs'[p] = "dir"}
      /\ met' \subseteq Paths /\ steady' \subseteq Paths
  BY DEF Shift, IsTree, Typing, TypeOK
<1>4. /\ argv' \in CommandLines /\ entry' \in Paths /\ handles' \in Nat
      /\ handles' >= Len(stack') /\ missed' \cup given_up' \subseteq Paths
  BY <1>1 DEF Typing, TypeOK
<1>5. pc' \in {"read", "file"} => stack' # << >>
  <2>1. stack # << >> => stack' # << >>
    BY <1>1, StackFacts, EmptySeq
  <2> QED BY <2>1 DEF Typing
<1> QED BY <1>1, <1>2, <1>3, <1>4, <1>5, TypingIntro

LEMMA TypingStep == Typing /\ [Next]_vars => Typing'
<1> SUFFICES ASSUME Typing, [Next]_vars PROVE Typing'
  OBVIOUS
<1>1. /\ fs \in [Paths -> Kinds \cup {"absent"}] /\ IsTree(fs)
      /\ recent \subseteq {p \in Paths : fs[p] = "dir"}
      /\ argv \in CommandLines /\ entry \in Paths /\ stack \in Seq(Frame)
      /\ pc \in {"start", "open", "read", "file", "done"}
      /\ handles \in Nat /\ handles >= Len(stack) /\ changes \in 0..MaxChanges
      /\ met \cup wrote \cup steady \cup missed \cup stirred \cup given_up \subseteq Paths
      /\ pc \in {"read", "file"} => stack # << >>
  BY DEF Typing, TypeOK
<1>2. /\ Len(stack) \in Nat /\ Here = 1..Len(stack)
      /\ \A i \in 1..Len(stack) :
           /\ stack[i] \in Frame /\ stack[i].dir \in Paths
           /\ stack[i].left \cup stack[i].maybe \subseteq Names(stack[i].dir) \cup DotNames
           /\ stack[i].left \cap stack[i].maybe = {}
  BY StackFacts DEF Here
<1>3. Target \in Paths
  BY <1>1, RequestFacts, PathAssumption DEF Target, Request
<1>4. ReturnTo => pc' \in {"done", "read"} /\ (pc' = "read" => stack # << >>)
  BY DEF ReturnTo
<1>5. CASE ParseCmdline
  BY <1>1, <1>2, <1>3, <1>5, TypingIntro DEF ParseCmdline, fsVars, historyVars
<1>6. CASE OpenFails
  <2>1. UNCHANGED << fsVars, argv, entry, stack, handles, historyVars >> /\ ReturnTo
    BY <1>6 DEF OpenFails
  <2> QED BY <1>1, <1>2, <1>4, <2>1, TypingIntro DEF fsVars, historyVars
<1>7. CASE OpenGivesUp
  <2>1. /\ UNCHANGED << fsVars, argv, entry, stack, met, wrote, steady, missed, stirred >>
        /\ ReturnTo
        /\ handles' = handles + 1 /\ given_up' = given_up \cup {entry}
    BY <1>7 DEF OpenGivesUp
  <2>2. handles' \in Nat /\ handles' >= Len(stack) /\ given_up' \subseteq Paths
    BY <1>1, <1>2, <2>1
  <2> QED BY <1>1, <1>2, <1>4, <2>1, <2>2, TypingIntro DEF fsVars, historyVars
<1>8. CASE OpenSucceeds
  <2>1. /\ UNCHANGED << fsVars, argv, entry, historyVars >>
        /\ handles' = handles + 1 /\ pc' = "read"
    BY <1>8 DEF OpenSucceeds
  <2>2. /\ stack' \in Seq(Frame) /\ Len(stack') = Len(stack) + 1
        /\ \A i \in Here : stack'[i] = stack[i]
        /\ stack'[Len(stack')].dir = entry
        /\ stack'[Len(stack')].left =
             DotNames \cup {n \in Names(entry) : fs[Append(entry, n)] # "absent"}
        /\ stack'[Len(stack')].maybe = {}
    BY <1>8, PushFacts
  <2>3. \A i \in 1..Len(stack') : i = Len(stack') \/ i \in Here
    BY <1>2, <2>2 DEF Here
  <2>4. \A i \in 1..Len(stack') :
          /\ stack'[i].left \cup stack'[i].maybe \subseteq Names(stack'[i].dir) \cup DotNames
          /\ stack'[i].left \cap stack'[i].maybe = {}
    BY <1>2, <2>2, <2>3
  <2>5. handles' \in Nat /\ handles' >= Len(stack') /\ stack' # << >>
    BY <1>1, <1>2, <2>1, <2>2, EmptySeq
  <2> QED BY <1>1, <2>1, <2>2, <2>4, <2>5, TypingIntro DEF fsVars, historyVars
<1>9. CASE ReadEntry
  <2>1. UNCHANGED << fsVars, argv, handles, wrote, steady, stirred, given_up >> /\ stack # << >>
    BY <1>1, <1>9 DEF ReadEntry
  <2>2. PICK name \in Top.left \cup Top.maybe :
          \E s \in Lstat(Top.dir, name, Top.statbuf) :
           /\ stack' \in Seq(Frame) /\ Len(stack') = Len(stack) /\ Here' = Here
           /\ \A i \in Here : i # Len(stack) => stack'[i] = stack[i]
           /\ \A i \in Here : stack'[i].dir = stack[i].dir
           /\ Top'.left = Top.left \ {name} /\ Top'.maybe = Top.maybe \ {name}
           /\ entry' = Resolve(Top.dir, name)
           /\ pc' \in {"open", "file", "read"}
           /\ met' \subseteq met \cup {entry'} /\ missed' \subseteq missed \cup {entry'}
    BY <1>9, ReadFacts
  <2>3. entry' \in Paths
    BY <1>9, <2>2, LstatFacts DEF ReadEntry
  <2>4. Top = stack[Len(stack)] /\ Top' = stack'[Len(stack)]
    BY <2>2 DEF Top
  <2>5. \A i \in 1..Len(stack') :
          /\ stack'[i].left \cup stack'[i].maybe \subseteq Names(stack'[i].dir) \cup DotNames
          /\ stack'[i].left \cap stack'[i].maybe = {}
    BY <1>2, <2>2, <2>4
  <2>6. stack' # << >>
    BY <1>2, <2>1, <2>2, StackFacts, EmptySeq
  <2>7. met' \cup missed' \subseteq Paths
    BY <1>1, <2>2, <2>3
  <2> QED BY <1>1, <1>2, <2>1, <2>2, <2>3, <2>5, <2>6, <2>7, TypingIntro DEF fsVars
<1>10. CASE CloseDir
  <2>1. /\ UNCHANGED << fsVars, argv, entry, historyVars >>
        /\ handles' = handles - 1 /\ pc' = IF Len(stack) = 1 THEN "done" ELSE "read"
        /\ pc = "read" /\ stack' = SubSeq(stack, 1, Len(stack) - 1)
    BY <1>10 DEF CloseDir
  <2>2. /\ stack' \in Seq(Frame) /\ Len(stack') = Len(stack) - 1 /\ Len(stack') \in Nat
        /\ \A i \in 1..Len(stack') : i \in Here /\ stack'[i] = stack[i]
        /\ Len(stack) = 1 <=> stack' = << >>
    BY <2>1, PopFacts
  <2>3. handles' \in Nat /\ handles' >= Len(stack')
    BY <1>1, <1>2, <2>1, <2>2
  <2> QED BY <1>1, <1>2, <2>1, <2>2, <2>3, TypingIntro DEF fsVars, historyVars
<1>11. CASE ScanFileLooks
  <2>1. pc' = "read" /\ stack # << >>
        /\ UNCHANGED << fs, recent, stack, met, wrote, steady, argv, entry, handles, changes,
                        missed, stirred, given_up >>
    BY <1>1, <1>11 DEF ScanFileLooks, ScanFileDone
  <2> QED BY <1>1, <1>2, <2>1, TypingIntro
<1>12. CASE ScanFileUnpacks
  <2>1. /\ pc = "file" /\ pc' = "read"
        /\ UNCHANGED << argv, entry, handles, changes, missed, given_up >>
    BY <1>12 DEF ScanFileUnpacks, ScanFileDone
  <2>2. PICK S \in SUBSET Paths : \E T \in SUBSET S : \E K \in SUBSET S :
          Shift(T, S) /\ wrote' = (wrote \cup K) \ (S \ K) /\ stirred' \subseteq Paths
    BY <1>12, UnpackFacts
  <2>3. wrote' \in SUBSET Paths
    BY <1>1, <2>2
  <2> QED BY <1>1, <2>1, <2>2, <2>3, TypingShift
<1>13. CASE Remove \/ Create
  <2>1. PICK S \in SUBSET Paths : Shift(S, S) /\ wrote' = wrote \ S
    BY <1>13, RemoveFacts, CreateFacts
  <2>2. /\ changes < MaxChanges /\ changes' = changes + 1
        /\ UNCHANGED << argv, pc, entry, handles, missed, stirred, given_up >>
    BY <1>13 DEF Remove, Create, Meddle
  <2>3. changes' \in 0..MaxChanges
    BY <1>1, <2>2, ScanAssumption
  <2> QED BY <1>1, <2>1, <2>2, <2>3, TypingShift
<1>14. CASE Touch
  <2>1. PICK p \in Meddled : fs[p] = "dir" /\ recent' = recent \cup {p}
    BY <1>14 DEF Touch
  <2>2. /\ changes < MaxChanges /\ changes' = changes + 1
        /\ UNCHANGED << argv, pc, entry, handles, missed, stirred, given_up >>
        /\ UNCHANGED << fs, stack, met, wrote, steady >>
    BY <1>14 DEF Touch, Meddle
  <2>3. changes' \in 0..MaxChanges /\ p \in Paths
    BY <1>1, <2>2, ScanAssumption
  <2> QED BY <1>1, <1>2, <2>1, <2>2, <2>3, TypingIntro
<1>15. CASE UNCHANGED vars
  BY <1>1, <1>2, <1>15, TypingIntro DEF vars, fsVars, historyVars
<1> QED BY <1>5, <1>6, <1>7, <1>8, <1>9, <1>10, <1>11, <1>12, <1>13, <1>14, <1>15
        DEF Next, Scan, Terminated

\* At every moment the paths of the scan are paths of the file system, what
\* exists lies in a directory, and no stream offers a name twice or one its
\* directory cannot hold.
THEOREM TypeCorrect == Spec => []TypeOK
<1>1. Typing => TypeOK
  BY DEF Typing
<1> QED BY <1>1, TypingInit, TypingStep, PTL DEF Spec
-----------------------------------------------------------------------------
(* The activations of ScanDir form a chain from the target downwards, and  *)
(* what is about to be opened or scanned continues it.                     *)

Chain ==
  /\ pc \in {"start", "done"} => stack = << >>
  /\ pc \in {"open", "read", "file"} => Request.ok
  /\ pc = "open" /\ stack = << >> => entry = Target
  /\ stack # << >> => stack[1].dir = Target
  /\ \A i \in Here : i # 1 => stack[i].dir # Cwd /\ Parent(stack[i].dir) = stack[i - 1].dir
  /\ \A j \in Here : \A i \in Here : i < j => stack[j].dir \in Under(stack[i].dir)
  /\ pc \in {"open", "file"} /\ stack # << >> =>
       /\ entry # Cwd /\ Parent(entry) = Top.dir
       /\ \A i \in Here : entry \in Under(stack[i].dir)

\* A step that leaves the chain of directories as it was.
LEMMA ChainKept ==
  ASSUME Typing, Chain, argv' = argv, entry' = entry, Len(stack') = Len(stack),
         stack' \in Seq(Frame), \A i \in Here : stack'[i].dir = stack[i].dir,
         \/ pc' = pc
         \/ pc \in {"read", "file"} /\ pc' = "read"
  PROVE  Chain'
<1>1. Here' = Here /\ Request' = Request /\ Target' = Target
  BY DEF Here, Request, Target
<1>2. stack' = << >> <=> stack = << >>
  BY StackFacts, EmptySeq
<1>3. stack # << >> => 1 \in Here /\ Len(stack) \in Here /\ Top'.dir = Top.dir
  BY StackFacts DEF Here, Top
<1>4. \A i \in Here : i # 1 => i - 1 \in Here
  BY StackFacts DEF Here
<1>5. /\ stack' # << >> => stack'[1].dir = Target
      /\ \A i \in Here : i # 1 => stack'[i].dir # Cwd /\ Parent(stack'[i].dir) = stack'[i - 1].dir
      /\ \A j \in Here : \A i \in Here : i < j => stack'[j].dir \in Under(stack'[i].dir)
  BY <1>2, <1>3, <1>4 DEF Chain
<1>6. pc' \in {"open", "file"} /\ stack' # << >> =>
       /\ entry # Cwd /\ Parent(entry) = Top'.dir
       /\ \A i \in Here : entry \in Under(stack'[i].dir)
  BY <1>2, <1>3 DEF Chain
<1>7. /\ pc' \in {"start", "done"} => stack' = << >>
      /\ pc' \in {"open", "read", "file"} => Request.ok
      /\ pc' = "open" /\ stack' = << >> => entry = Target
  BY <1>2 DEF Chain
<1> QED BY <1>1, <1>5, <1>6, <1>7 DEF Chain

LEMMA ChainInit == Init => Chain
<1> SUFFICES ASSUME Init PROVE Chain
  OBVIOUS
<1>1. stack = << >> /\ Len(stack) = 0 /\ pc = "start"
  BY EmptySeq DEF Init
<1> QED BY <1>1 DEF Chain, Here

LEMMA ChainPush ==
  ASSUME Typing, Chain, OpenSucceeds
  PROVE  Chain'
<1>1. /\ pc = "open" /\ pc' = "read" /\ argv' = argv /\ entry' = entry
  BY DEF OpenSucceeds
<1>2. /\ stack' \in Seq(Frame) /\ Len(stack') = Len(stack) + 1
      /\ \A i \in Here : stack'[i] = stack[i]
      /\ stack'[Len(stack')].dir = entry
  BY PushFacts
<1>3. Len(stack) \in Nat /\ Here = 1..Len(stack) /\ Here' = 1..(Len(stack) + 1)
  BY <1>2, StackFacts DEF Here
<1>4. stack = << >> <=> Len(stack) = 0
  BY StackFacts, EmptySeq
<1>5. \A i \in Here' : i = Len(stack') \/ i \in Here
  BY <1>2, <1>3
<1>6. Len(stack) # 0 => Top = stack[Len(stack)] /\ Len(stack) \in Here /\ 1 \in Here
  BY <1>3 DEF Top
<1>7. stack'[1].dir = Target
  <2>1. CASE Len(stack) = 0
    BY <1>1, <1>2, <1>4, <2>1 DEF Chain
  <2>2. CASE Len(stack) # 0
    BY <1>2, <1>4, <1>6, <2>2 DEF Chain
  <2> QED BY <2>1, <2>2
<1>8. ASSUME NEW i \in Here', i # 1
      PROVE  stack'[i].dir # Cwd /\ Parent(stack'[i].dir) = stack'[i - 1].dir
  <2>1. CASE i \in Here
    <3>1. i - 1 \in Here
      BY <1>3, <1>8, <2>1
    <3> QED BY <1>2, <1>8, <2>1, <3>1 DEF Chain
  <2>2. CASE i = Len(stack')
    <3>1. i - 1 = Len(stack) /\ Len(stack) # 0
      BY <1>2, <1>3, <1>8, <2>2
    <3> QED BY <1>1, <1>2, <1>4, <1>6, <2>2, <3>1 DEF Chain
  <2> QED BY <1>5, <2>1, <2>2
<1>9. ASSUME NEW j \in Here', NEW i \in Here', i < j
      PROVE  stack'[j].dir \in Under(stack'[i].dir)
  <2>1. i \in Here /\ Len(stack) # 0
    BY <1>3, <1>9
  <2>2. CASE j \in Here
    BY <1>2, <1>9, <2>1, <2>2 DEF Chain
  <2>3. CASE j = Len(stack')
    BY <1>1, <1>2, <1>4, <2>1, <2>3 DEF Chain
  <2> QED BY <1>5, <2>2, <2>3
<1>10. Request'.ok
  BY <1>1 DEF Chain, Request
<1>11. Target' = Target
  BY <1>1 DEF Target, Request
<1> QED BY <1>1, <1>7, <1>8, <1>9, <1>10, <1>11 DEF Chain

LEMMA ChainRead ==
  ASSUME Typing, Chain, ReadEntry
  PROVE  Chain'
<1>1. pc = "read" /\ argv' = argv /\ stack # << >>
  BY DEF ReadEntry, Typing
<1>2. PICK name \in Top.left \cup Top.maybe :
        \E s \in Lstat(Top.dir, name, Top.statbuf) :
          /\ stack' \in Seq(Frame) /\ Len(stack') = Len(stack) /\ Here' = Here
          /\ \A i \in Here : stack'[i].dir = stack[i].dir
          /\ entry' = Resolve(Top.dir, name)
          /\ pc' \in {"open", "file", "read"}
          /\ pc' \in {"open", "file"} => name \notin DotNames
  BY ReadFacts
<1>3. Len(stack) \in Here /\ Top = stack[Len(stack)] /\ Top.dir \in Paths /\ Here = 1..Len(stack)
      /\ 1 \in Here /\ Len(stack) \in Nat
  BY <1>1, StackFacts DEF Here
<1>4. Top'.dir = Top.dir /\ stack' # << >>
  BY <1>2, <1>3, EmptySeq DEF Top
<1>5. name \notin DotNames =>
        /\ entry' # Cwd /\ Parent(entry') = Top.dir /\ entry' \in Under(Top.dir)
  <2>1. name \notin DotNames => name \in Names(Top.dir) /\ entry' = Append(Top.dir, name)
    BY <1>1, <1>2, LstatFacts
  <2>2. \A d \in Paths : \A n \in Names(d) :
          Append(d, n) # Cwd /\ Parent(Append(d, n)) = d /\ Append(d, n) \in Under(d)
    BY ChildFacts
  <2> QED BY <1>3, <2>1, <2>2
<1>6. ASSUME name \notin DotNames, NEW i \in Here
      PROVE  entry' \in Under(stack[i].dir)
  <2>1. CASE i = Len(stack)
    BY <1>3, <1>5, <1>6, <2>1
  <2>2. CASE i # Len(stack)
    <3>1. i < Len(stack)
      BY <1>3, <2>2
    <3>2. Top.dir \in Under(stack[i].dir) /\ stack[i].dir \in Paths
      BY <1>3, <3>1, StackFacts DEF Chain
    <3> QED BY <1>5, <1>6, <3>2, UnderTransitive
  <2> QED BY <2>1, <2>2
<1>7. \A i \in Here : i # 1 => i - 1 \in Here
  BY <1>3
<1>8. Request' = Request /\ Target' = Target
  BY <1>1 DEF Request, Target
<1>9. /\ stack'[1].dir = Target
      /\ \A i \in Here : i # 1 => stack'[i].dir # Cwd /\ Parent(stack'[i].dir) = stack'[i - 1].dir
      /\ \A j \in Here : \A i \in Here : i < j => stack'[j].dir \in Under(stack'[i].dir)
  BY <1>1, <1>2, <1>3, <1>7 DEF Chain
<1>10. pc' \in {"open", "file"} =>
         /\ entry' # Cwd /\ Parent(entry') = Top'.dir
         /\ \A i \in Here : entry' \in Under(stack'[i].dir)
  BY <1>2, <1>4, <1>5, <1>6
<1>11. Request.ok
  BY <1>1 DEF Chain
<1> QED BY <1>2, <1>4, <1>8, <1>9, <1>10, <1>11 DEF Chain

LEMMA ChainPop ==
  ASSUME Typing, Chain, CloseDir
  PROVE  Chain'
<1>1. /\ pc = "read" /\ argv' = argv /\ stack' = SubSeq(stack, 1, Len(stack) - 1)
      /\ pc' = IF Len(stack) = 1 THEN "done" ELSE "read"
  BY DEF CloseDir
<1>2. /\ stack' \in Seq(Frame) /\ Len(stack') = Len(stack) - 1 /\ Len(stack') \in Nat
      /\ \A i \in 1..Len(stack') : i \in Here /\ stack'[i] = stack[i]
      /\ Len(stack) = 1 <=> stack' = << >>
  BY <1>1, PopFacts
<1>3. Here' = 1..Len(stack')
  BY DEF Here
<1>4. \A i \in Here' : i # 1 => i - 1 \in Here'
  BY <1>2, <1>3
<1>5. stack # << >>
  BY <1>1 DEF Typing
<1>6. stack' # << >> => 1 \in Here'
  BY <1>2, <1>3, EmptySeq
<1>7. Request' = Request /\ Target' = Target
  BY <1>1 DEF Request, Target
<1>8. /\ stack' # << >> => stack'[1].dir = Target
      /\ \A i \in Here' : i # 1 => stack'[i].dir # Cwd /\ Parent(stack'[i].dir) = stack'[i - 1].dir
      /\ \A j \in Here' : \A i \in Here' : i < j => stack'[j].dir \in Under(stack'[i].dir)
  <2>1. \A i \in Here' : i \in Here /\ stack'[i] = stack[i]
    BY <1>2, <1>3
  <2>2. stack[1].dir = Target
    BY <1>5 DEF Chain
  <2>3. \A i \in Here' : i # 1 => stack'[i].dir # Cwd /\ Parent(stack'[i].dir) = stack'[i - 1].dir
    BY <1>4, <2>1 DEF Chain
  <2>4. \A j \in Here' : \A i \in Here' : i < j => stack'[j].dir \in Under(stack'[i].dir)
    BY <2>1 DEF Chain
  <2> QED BY <1>6, <2>1, <2>2, <2>3, <2>4
<1> QED BY <1>1, <1>2, <1>7, <1>8 DEF Chain

LEMMA ChainStep == Typing /\ Chain /\ [Next]_vars => Chain'
<1> SUFFICES ASSUME Typing, Chain, [Next]_vars PROVE Chain'
  OBVIOUS
<1>1. stack \in Seq(Frame) /\ Len(stack) \in Nat
  BY StackFacts DEF Typing
<1>2. CASE ParseCmdline
  <2>1. /\ pc = "start" /\ argv' = argv /\ stack' = stack /\ stack = << >>
        /\ \/ pc' = "open" /\ entry' = Target /\ Request.ok
           \/ pc' = "done"
    BY <1>2 DEF ParseCmdline, Chain
  <2>2. Len(stack') = 0 /\ Request' = Request /\ Target' = Target
    BY <2>1, EmptySeq DEF Request, Target
  <2> QED BY <2>1, <2>2 DEF Chain, Here
<1>3. CASE OpenFails \/ OpenGivesUp
  <2>1. /\ pc = "open" /\ argv' = argv /\ stack' = stack /\ entry' = entry
        /\ pc' = IF stack = << >> THEN "done" ELSE "read"
    BY <1>3 DEF OpenFails, OpenGivesUp, ReturnTo
  <2>2. Here' = Here /\ Request' = Request /\ Target' = Target
    BY <2>1 DEF Here, Request, Target
  <2> QED BY <2>1, <2>2 DEF Chain
<1>4. CASE OpenSucceeds
  BY <1>4, ChainPush
<1>5. CASE ReadEntry
  BY <1>5, ChainRead
<1>6. CASE CloseDir
  BY <1>6, ChainPop
<1>7. CASE ScanFileLooks
  BY <1>1, <1>7, ChainKept DEF ScanFileLooks, ScanFileDone
<1>8. CASE ScanFileUnpacks \/ Remove \/ Create
  <2>1. PICK S \in SUBSET Paths : \E T \in SUBSET S : Shift(T, S)
    <3>1. CASE ScanFileUnpacks
      BY <3>1, UnpackFacts
    <3>2. CASE Remove \/ Create
      BY <3>2, RemoveFacts, CreateFacts
    <3> QED BY <1>8, <3>1, <3>2
  <2>2. /\ stack' \in Seq(Frame) /\ Len(stack') = Len(stack)
        /\ \A i \in Here : stack'[i].dir = stack[i].dir
    BY <2>1, RelistFacts DEF Shift
  <2>3. /\ argv' = argv /\ entry' = entry
        /\ pc' = pc \/ (pc \in {"read", "file"} /\ pc' = "read")
    BY <1>8 DEF ScanFileUnpacks, ScanFileDone, Remove, Create, Meddle
  <2> QED BY <2>2, <2>3, ChainKept
<1>9. CASE Touch
  BY <1>1, <1>9, ChainKept DEF Touch, Meddle
<1>10. CASE UNCHANGED vars
  BY <1>1, <1>10, ChainKept DEF vars
<1> QED BY <1>2, <1>3, <1>4, <1>5, <1>6, <1>7, <1>8, <1>9, <1>10 DEF Next, Scan, Terminated
-----------------------------------------------------------------------------
(* The program's own output is not walked into: what it wrote is there,    *)
(* and a directory it made looks new.                                      *)

OutputApart ==
  /\ \A p \in wrote : fs[p] # "absent" /\ (fs[p] = "dir" => p \in recent)
  /\ \A i \in Here : i # 1 => stack[i].dir \notin wrote
  /\ pc = "open" /\ stack # << >> => entry \notin wrote

\* While a file is scanned, the directories on the way to it are there.
LEMMA WayToEntry ==
  ASSUME Typing, Chain, pc \in {"open", "file"}, stack # << >>, fs[entry] # "absent"
  PROVE  \A i \in Here : fs[stack[i].dir] = "dir"
<1> TAKE i \in Here
<1>1. entry \in Paths /\ stack[i].dir \in Paths /\ entry \in Under(stack[i].dir) /\ IsTree(fs)
  BY StackFacts DEF Typing, TypeOK, Chain
<1> QED BY <1>1, AboveIsDir

LEMMA OutputApartStep ==
  Typing /\ Chain /\ OutputApart /\ [Next]_vars => OutputApart'
<1> SUFFICES ASSUME Typing, Chain, OutputApart, [Next]_vars PROVE OutputApart'
  OBVIOUS
<1>1. Len(stack) \in Nat /\ Here = 1..Len(stack) /\ stack \in Seq(Frame)
      /\ wrote \subseteq Paths /\ recent \subseteq Paths
  BY StackFacts DEF Typing, TypeOK, Here
<1>2. CASE \/ ParseCmdline \/ OpenFails \/ OpenGivesUp \/ ScanFileLooks \/ Touch
           \/ UNCHANGED vars
  <2>1. /\ stack' = stack /\ wrote' = wrote /\ fs' = fs /\ recent \subseteq recent'
        /\ pc' = "open" => (entry' = entry /\ pc = "open") \/ stack = << >>
    BY <1>2 DEF ParseCmdline, OpenFails, OpenGivesUp, ReturnTo, ScanFileLooks, ScanFileDone,
                Touch, Meddle, vars, fsVars, historyVars, Chain
  <2>2. Here' = Here
    BY <2>1 DEF Here
  <2> QED BY <2>1, <2>2 DEF OutputApart
<1>3. CASE OpenSucceeds
  <2>1. /\ fs' = fs /\ recent' = recent /\ wrote' = wrote /\ pc = "open" /\ pc' = "read"
    BY <1>3 DEF OpenSucceeds, fsVars, historyVars
  <2>2. /\ Len(stack') = Len(stack) + 1 /\ \A i \in Here : stack'[i] = stack[i]
        /\ stack'[Len(stack')].dir = entry
    BY <1>3, PushFacts
  <2>3. ASSUME NEW i \in Here', i # 1 PROVE stack'[i].dir \notin wrote
    <3>1. CASE i \in Here
      BY <2>2, <2>3, <3>1 DEF OutputApart
    <3>2. CASE i \notin Here
      <4>1. i = Len(stack') /\ Len(stack) # 0
        BY <1>1, <2>2, <2>3, <3>2 DEF Here
      <4>2. stack # << >>
        BY <1>1, <4>1, EmptySeq
      <4> QED BY <2>1, <2>2, <4>1, <4>2 DEF OutputApart
    <3> QED BY <3>1, <3>2
  <2> QED BY <2>1, <2>3 DEF OutputApart
<1>4. CASE ReadEntry
  <2>1. /\ fs' = fs /\ recent' = recent /\ wrote' = wrote /\ pc = "read"
    BY <1>4 DEF ReadEntry, fsVars
  <2>2. PICK name \in Top.left \cup Top.maybe :
          \E s \in Lstat(Top.dir, name, Top.statbuf) :
            /\ Here' = Here /\ \A i \in Here : stack'[i].dir = stack[i].dir
            /\ entry' = Resolve(Top.dir, name)
            /\ pc' = IF s.kind = "dir" /\ name \notin DotNames /\ s.old THEN "open"
                     ELSE IF s.kind = "file" /\ name \notin DotNames THEN "file" ELSE "read"
    BY <1>4, ReadFacts
  <2>3. PICK s \in Lstat(Top.dir, name, Top.statbuf) :
          pc' = IF s.kind = "dir" /\ name \notin DotNames /\ s.old THEN "open"
                ELSE IF s.kind = "file" /\ name \notin DotNames THEN "file" ELSE "read"
    BY <2>2
  <2>4. ASSUME pc' = "open" PROVE entry' \notin wrote
    <3>1. s.kind = "dir" /\ name \notin DotNames /\ s.old
      BY <2>3, <2>4
    <3>2. /\ entry' = Append(Top.dir, name)
          /\ fs[entry'] # "absent" => s.kind = fs[entry'] /\ (s.old <=> entry' \notin recent)
      BY <2>1, <2>2, <3>1, LstatFacts
    <3> QED BY <3>1, <3>2 DEF OutputApart
  <2> QED BY <2>1, <2>2, <2>4 DEF OutputApart
<1>5. CASE CloseDir
  <2>1. /\ fs' = fs /\ recent' = recent /\ wrote' = wrote /\ pc = "read"
        /\ stack' = SubSeq(stack, 1, Len(stack) - 1) /\ pc' # "open"
    BY <1>5 DEF CloseDir, fsVars, historyVars
  <2>2. \A i \in Here' : i \in Here /\ stack'[i] = stack[i]
    BY <2>1, PopFacts DEF Here
  <2> QED BY <2>1, <2>2 DEF OutputApart
<1>6. CASE ScanFileUnpacks
  <2>1. pc = "file" /\ pc' = "read" /\ fs[entry] = "file" /\ stack # << >>
    BY <1>6 DEF ScanFileUnpacks, ScanFileDone, Typing
  <2>2. PICK S \in SUBSET Paths : \E T \in SUBSET S : \E K \in SUBSET S :
           /\ Shift(T, S) /\ wrote' = (wrote \cup K) \ (S \ K)
           /\ \A p \in S : fs[p] \in {"absent", "file"}
           /\ \A p \in K : fs'[p] # "absent"
    BY <1>6, UnpackFacts
  <2>3. Here' = Here /\ \A i \in Here : stack'[i].dir = stack[i].dir
    BY <2>2, RelistFacts DEF Shift
  <2>4. \A p \in wrote' : fs'[p] # "absent" /\ (fs'[p] = "dir" => p \in recent')
    BY <1>1, <2>2 DEF Shift, OutputApart
  <2>5. \A i \in Here : i # 1 => stack[i].dir \notin wrote'
    <3>1. \A i \in Here : fs[stack[i].dir] = "dir"
      BY <2>1, WayToEntry
    <3> QED BY <2>2, <3>1 DEF OutputApart
  <2> QED BY <2>1, <2>2, <2>3, <2>4, <2>5 DEF OutputApart
<1>7. CASE Remove \/ Create
  <2>1. PICK S \in SUBSET Paths : Shift(S, S) /\ wrote' = wrote \ S
    BY <1>7, RemoveFacts, CreateFacts
  <2>2. Here' = Here /\ \A i \in Here : stack'[i].dir = stack[i].dir
    BY <2>1, RelistFacts DEF Shift
  <2>3. \A p \in wrote \ S : fs'[p] # "absent" /\ (fs'[p] = "dir" => p \in recent')
    BY <1>1, <2>1 DEF Shift, OutputApart
  <2>4. pc' = pc /\ entry' = entry /\ (stack' = << >> <=> stack = << >>)
    <3>1. stack' = << >> <=> stack = << >>
      BY <1>1, <2>1, RelistFacts, EmptySeq DEF Shift
    <3> QED BY <1>7, <3>1 DEF Remove, Create, Meddle
  <2> QED BY <2>1, <2>2, <2>3, <2>4 DEF OutputApart
<1> QED BY <1>2, <1>3, <1>4, <1>5, <1>6, <1>7 DEF Next, Scan, Terminated

\* The recursion is a chain of directories, each an entry of the one before,
\* and whatever is extracted meanwhile, no directory the program made is walked
\* into; with ReadEntry's test of the time stamp and no other precaution.
THEOREM OutputNotEntered == Spec => []NeverIntoOwnOutput
<1>1. Init => OutputApart
  <2> SUFFICES ASSUME Init PROVE OutputApart
    OBVIOUS
  <2>1. wrote = {} /\ stack = << >>
    BY DEF Init
  <2> QED BY <2>1 DEF OutputApart
<1>2. Typing /\ Chain /\ OutputApart => NeverIntoOwnOutput
  <2> SUFFICES ASSUME Typing, Chain, OutputApart, NEW i \in 2..Len(stack)
               PROVE  /\ stack[i].dir # Cwd
                      /\ Parent(stack[i].dir) = stack[i - 1].dir
                      /\ stack[i].dir \notin wrote
    BY DEF NeverIntoOwnOutput
  <2>1. i \in Here /\ i # 1
    BY StackFacts DEF Here
  <2> QED BY <2>1 DEF Chain, OutputApart
<1> QED BY <1>1, <1>2, TypingInit, TypingStep, ChainInit, ChainStep, OutputApartStep, PTL DEF Spec
-----------------------------------------------------------------------------
(* Open streams.                                                           *)

Streams ==
  /\ given_up = {} => handles = Len(stack)
  /\ changes = 0 =>
       /\ given_up # {} => given_up = {Target} /\ stack = << >> /\ pc = "done"
       /\ stack # << >> => IsValidOutputPath

LEMMA StreamsStep == Typing /\ Chain /\ Streams /\ [Next]_vars => Streams'
<1> SUFFICES ASSUME Typing, Chain, Streams, [Next]_vars PROVE Streams'
  OBVIOUS
<1>1. /\ Len(stack) \in Nat /\ stack \in Seq(Frame) /\ handles \in Nat /\ changes \in Nat
      /\ PathOf[Request.out] \in Paths
  <2>1. handles \in Nat /\ changes \in Nat /\ argv \in CommandLines /\ stack \in Seq(Frame)
    BY ScanAssumption DEF Typing, TypeOK
  <2>2. Request.out \in DOMAIN PathOf
    BY <2>1, RequestFacts DEF Request
  <2> QED BY <2>1, <2>2, StackFacts, PathAssumption
<1>2. CASE ParseCmdline \/ OpenFails \/ ScanFileLooks \/ UNCHANGED vars
  <2>1. /\ stack' = stack /\ handles' = handles /\ given_up' = given_up /\ changes' = changes
        /\ fs' = fs /\ argv' = argv /\ (pc = "done" => pc' = "done")
    BY <1>2 DEF ParseCmdline, OpenFails, ScanFileLooks, ScanFileDone, vars, fsVars, historyVars
  <2> QED BY <2>1 DEF Streams, Target, Request, IsValidOutputPath
<1>3. CASE OpenGivesUp
  <2>1. /\ pc = "open" /\ stack' = stack /\ handles' = handles + 1 /\ changes' = changes
        /\ given_up' = given_up \cup {entry} /\ argv' = argv /\ ~IsValidOutputPath
        /\ pc' = IF stack = << >> THEN "done" ELSE "read"
    BY <1>3 DEF OpenGivesUp, ReturnTo, fsVars
  <2>2. changes = 0 => given_up = {} /\ stack = << >> /\ entry = Target
    BY <2>1 DEF Streams, Chain
  <2>3. Target' = Target
    BY <2>1 DEF Target, Request
  <2> QED BY <2>1, <2>2, <2>3 DEF Streams
<1>4. CASE OpenSucceeds
  <2>1. /\ pc = "open" /\ handles' = handles + 1 /\ given_up' = given_up /\ changes' = changes
        /\ fs' = fs /\ argv' = argv /\ IsValidOutputPath /\ Len(stack') = Len(stack) + 1
    BY <1>4, PushFacts DEF OpenSucceeds, fsVars, historyVars
  <2> QED BY <1>1, <2>1 DEF Streams, IsValidOutputPath, Request
<1>5. CASE ReadEntry
  <2>1. /\ pc = "read" /\ handles' = handles /\ given_up' = given_up /\ changes' = changes
        /\ fs' = fs /\ argv' = argv /\ Len(stack') = Len(stack) /\ stack # << >>
    BY <1>5, ReadFacts DEF ReadEntry, fsVars, Typing
  <2> QED BY <2>1 DEF Streams, IsValidOutputPath, Request
<1>6. CASE CloseDir
  <2>1. /\ pc = "read" /\ handles' = handles - 1 /\ given_up' = given_up /\ changes' = changes
        /\ fs' = fs /\ argv' = argv /\ stack' = SubSeq(stack, 1, Len(stack) - 1) /\ stack # << >>
    BY <1>6 DEF CloseDir, fsVars, historyVars, Typing
  <2>2. Len(stack') = Len(stack) - 1
    BY <2>1, PopFacts
  <2> QED BY <1>1, <2>1, <2>2 DEF Streams, IsValidOutputPath, Request
<1>7. CASE ScanFileUnpacks
  <2>1. /\ pc = "file" /\ handles' = handles /\ given_up' = given_up /\ changes' = changes
        /\ argv' = argv /\ IsValidOutputPath /\ stack # << >>
    BY <1>7 DEF ScanFileUnpacks, ScanFileDone, Typing
  <2>2. PICK S \in SUBSET Paths : \E T \in SUBSET S :
           Shift(T, S) /\ \A p \in Paths : fs[p] = "dir" => fs'[p] = "dir"
    BY <1>7, UnpackFacts
  <2>3. Len(stack') = Len(stack)
    BY <2>2, RelistFacts DEF Shift
  <2>4. Request.out # "" => fs'[PathOf[Request.out]] = "dir"
    <3>1. fs[Dest] = "dir"
      BY <1>7 DEF ScanFileUnpacks
    <3> QED BY <1>1, <2>2, <3>1 DEF Dest, CheckOutputDir
  <2>5. IsValidOutputPath'
    BY <2>1, <2>4 DEF IsValidOutputPath, Request
  <2> QED BY <2>1, <2>3, <2>5 DEF Streams
<1>8. CASE Remove \/ Create \/ Touch
  <2>1. handles' = handles /\ given_up' = given_up /\ changes' = changes + 1
    BY <1>8 DEF Remove, Create, Touch, Meddle
  <2>2. Len(stack') = Len(stack)
    <3>1. CASE Remove \/ Create
      <4>1. PICK S \in SUBSET Paths : Shift(S, S)
        BY <3>1, RemoveFacts, CreateFacts
      <4> QED BY <4>1, RelistFacts DEF Shift
    <3>2. CASE Touch
      BY <3>2 DEF Touch
    <3> QED BY <1>8, <3>1, <3>2
  <2>3. changes' # 0
    BY <1>1, <2>1
  <2> QED BY <2>1, <2>2, <2>3 DEF Streams
<1> QED BY <1>2, <1>3, <1>4, <1>5, <1>6, <1>7, <1>8 DEF Next, Scan, Terminated

\* The program ends with no stream open unless a directory was opened and given
\* up; and that happens only at the target, or after another program meddled.
THEOREM StreamsAreClosed == Spec => []StreamsClosed
<1>1. Init => Streams
  <2> SUFFICES ASSUME Init PROVE Streams
    OBVIOUS
  <2>1. stack = << >> /\ Len(stack) = 0 /\ handles = 0 /\ given_up = {}
    BY EmptySeq DEF Init
  <2> QED BY <2>1 DEF Streams
<1>2. Chain /\ Streams => StreamsClosed
  <2> SUFFICES ASSUME Chain, Streams PROVE StreamsClosed
    OBVIOUS
  <2>1. Len(<< >>) = 0
    BY EmptySeq
  <2> QED BY <2>1 DEF Chain, Streams, StreamsClosed
<1> QED BY <1>1, <1>2, TypingInit, TypingStep, ChainInit, ChainStep, StreamsStep, PTL DEF Spec

-----------------------------------------------------------------------------
(* No file twice.  What is still to be read from any of the streams was not *)
(* met; and of what is still to be read, a directory that looks old has     *)
(* nothing met below it and is not being walked through already.            *)

\* The directory would be entered.
Enterable(q) == fs[q] = "dir" /\ q \notin recent

Unmet(q) == \A p \in Under(q) : fs[p] # "absent" => p \notin met

Once ==
  /\ pc = "start" => met = {}
  /\ pc = "open" => Unmet(entry)
  /\ \A i \in Here : \A q \in ToRead(stack[i]) :
       /\ q \notin met
       /\ Enterable(q) => /\ Unmet(q)
                          /\ \A j \in Here : stack[j].dir # q
                          /\ ~(pc = "open" /\ entry = q)

\* What is to be read are entries of the directory.
LEMMA ToReadFacts ==
  ASSUME Typing, NEW i \in Here, NEW q \in ToRead(stack[i])
  PROVE  /\ stack[i].dir \in Paths /\ Len(stack[i].dir) \in Nat
         /\ q \in Paths /\ q # Cwd /\ Parent(q) = stack[i].dir /\ q \in Under(stack[i].dir)
         /\ Len(q) = Len(stack[i].dir) + 1
<1>1. PICK n \in (stack[i].left \cup stack[i].maybe) \ DotNames : q = Append(stack[i].dir, n)
  BY DEF ToRead
<1>2. stack[i].dir \in Paths /\ n \in Names(stack[i].dir)
  BY <1>1, StackFacts
<1> QED BY <1>1, <1>2, ChildFacts, PathFacts
\* On the way from the working directory to a path, there is one path of each
\* length.
LEMMA SameLength ==
  ASSUME NEW p \in Paths, NEW q \in Paths, NEW r \in Paths,
         r \in Under(p), r \in Under(q), Len(p) = Len(q)
  PROVE  p = q
<1>1. \A k \in 1..Len(p) : p[k] = q[k]
  BY UnderIff
<1> QED BY <1>1, PathEqual

LEMMA OncePush ==
  ASSUME Typing, Chain, Once, OpenSucceeds
  PROVE  Once'
<1>1. /\ pc = "open" /\ pc' = "read" /\ fs' = fs /\ recent' = recent /\ met' = met
      /\ fs[entry] = "dir"
  BY DEF OpenSucceeds, fsVars, historyVars
<1>2. /\ Len(stack') = Len(stack) + 1 /\ \A i \in Here : stack'[i] = stack[i]
      /\ stack'[Len(stack')].dir = entry
      /\ stack'[Len(stack')].left =
           DotNames \cup {n \in Names(entry) : fs[Append(entry, n)] # "absent"}
      /\ stack'[Len(stack')].maybe = {}
  BY PushFacts
<1>3. /\ Len(stack) \in Nat /\ entry \in Paths /\ \A i \in Here' : i \in Here \/ i = Len(stack')
      /\ stack # << >> <=> Len(stack) # 0 /\ Here = 1..Len(stack)
  BY <1>2, StackFacts, EmptySeq DEF Here, Typing, TypeOK
<1>4. \A i \in Here : stack[i].dir \in Paths /\ entry \in Under(stack[i].dir)
  BY <1>1, <1>3, StackFacts DEF Chain
<1>5. ASSUME NEW i \in Here', NEW q \in ToRead(stack'[i])
      PROVE  /\ q \notin met
             /\ Enterable(q) => Unmet(q) /\ \A j \in Here' : stack'[j].dir # q
  <2>1. CASE i \in Here
    <3>1. q \in ToRead(stack[i])
      BY <1>2, <2>1
    <3> QED BY <1>1, <1>2, <1>3, <2>1, <3>1 DEF Once
  <2>2. CASE i = Len(stack')
    <3>1. PICK n \in Names(entry) : q = Append(entry, n) /\ fs[q] # "absent"
      BY <1>2, <2>2 DEF ToRead
    <3>2. q \in Paths /\ q \in Under(entry) /\ Len(q) = Len(entry) + 1
      BY <1>3, <3>1, ChildFacts
    <3>3. q \notin met
      BY <1>1, <3>1, <3>2 DEF Once, Unmet
    <3>4. Unmet(q)
      BY <1>1, <1>3, <3>2, UnderTransitive DEF Once, Unmet
    <3>5. ASSUME NEW j \in Here' PROVE stack'[j].dir # q
      <4>1. j \in Here => Len(stack[j].dir) \in Nat /\ Len(entry) \in Nat /\ Len(entry) > Len(stack[j].dir)
        BY <1>3, <1>4, PathFacts DEF Under
      <4>2. j \in Here => Len(stack[j].dir) # Len(q)
        BY <3>2, <4>1
      <4>3. Len(entry) # Len(q)
        BY <1>3, <3>2, PathFacts
      <4> QED BY <1>2, <1>3, <4>2, <4>3
    <3> QED BY <3>3, <3>4, <3>5
  <2> QED BY <1>3, <2>1, <2>2
<1> QED BY <1>1, <1>5 DEF Once, Enterable, Unmet

LEMMA OnceRead ==
  ASSUME Typing, Chain, Once, ReadEntry
  PROVE  /\ Once'
         /\ pc' = "file" => entry' \notin met
<1>1. pc = "read" /\ fs' = fs /\ recent' = recent /\ stack # << >>
  BY DEF ReadEntry, fsVars, Typing
<1>2. PICK name \in Top.left \cup Top.maybe :
        \E s \in Lstat(Top.dir, name, Top.statbuf) :
          /\ Here' = Here
          /\ \A i \in Here : i # Len(stack) => stack'[i] = stack[i]
          /\ \A i \in Here : stack'[i].dir = stack[i].dir
          /\ Len(stack') = Len(stack)
          /\ Top'.left = Top.left \ {name} /\ Top'.maybe = Top.maybe \ {name}
          /\ entry' = Resolve(Top.dir, name)
          /\ pc' = IF s.kind = "dir" /\ name \notin DotNames /\ s.old THEN "open"
                   ELSE IF s.kind = "file" /\ name \notin DotNames THEN "file" ELSE "read"
          /\ met' = IF s.kind = "file" /\ name \notin DotNames THEN met \cup {entry'} ELSE met
  BY ReadFacts
<1>3. PICK s \in Lstat(Top.dir, name, Top.statbuf) :
        /\ pc' = IF s.kind = "dir" /\ name \notin DotNames /\ s.old THEN "open"
                 ELSE IF s.kind = "file" /\ name \notin DotNames THEN "file" ELSE "read"
        /\ met' = IF s.kind = "file" /\ name \notin DotNames THEN met \cup {entry'} ELSE met
  BY <1>2
<1>4. Len(stack) \in Here /\ Top = stack[Len(stack)] /\ Top.dir \in Paths /\ Here = 1..Len(stack)
      /\ Len(stack) \in Nat /\ Top' = stack'[Len(stack)]
  BY <1>1, <1>2, StackFacts DEF Here, Top
<1> DEFINE q0 == Append(Top.dir, name)
<1>5. ASSUME name \notin DotNames
      PROVE  /\ entry' = q0 /\ q0 \in ToRead(Top) /\ q0 \in Paths /\ name \in Names(Top.dir)
             /\ fs[q0] # "absent" => s.kind = fs[q0] /\ (s.old <=> q0 \notin recent)
  <2>1. /\ name \in Names(Top.dir) /\ entry' = q0
        /\ fs[q0] # "absent" => s.kind = fs[q0] /\ (s.old <=> q0 \notin recent)
    BY <1>1, <1>2, <1>5, LstatFacts
  <2> QED BY <1>4, <1>5, <2>1, ChildFacts DEF ToRead
<1> HIDE DEF q0
<1>6. ASSUME name \notin DotNames
      PROVE  q0 \notin met /\ q0 \in Under(Top.dir) /\ Parent(q0) = Top.dir
             /\ Len(q0) = Len(Top.dir) + 1 /\ Len(Top.dir) \in Nat
  BY <1>4, <1>5, <1>6, ToReadFacts DEF Once
<1>7. ASSUME NEW i \in Here, NEW q \in ToRead(stack'[i])
      PROVE  /\ q \in ToRead(stack[i])
             /\ name \notin DotNames => q # q0
  <2>1. CASE i # Len(stack)
    <3>1. q \in ToRead(stack[i])
      BY <1>2, <2>1
    <3>2. Parent(q) = stack[i].dir /\ stack[i].dir \in Paths
      BY <3>1, ToReadFacts
    <3>3. Top.dir \in Under(stack[i].dir)
      BY <1>4, <2>1 DEF Chain
    <3>4. Top.dir # stack[i].dir
      BY <1>4, <3>2, <3>3, PathFacts DEF Under
    <3> QED BY <1>6, <3>1, <3>2, <3>4
  <2>2. CASE i = Len(stack)
    <3>1. PICK n \in (Top.left \cup Top.maybe) \ DotNames : n # name /\ q = Append(Top.dir, n)
      BY <1>2, <1>4, <2>2 DEF ToRead
    <3>2. q \in ToRead(stack[i])
      BY <1>4, <2>2, <3>1 DEF ToRead
    <3>3. n \in Names(Top.dir)
      BY <1>4, <3>1, StackFacts
    <3>4. q[Len(Top.dir) + 1] = n
      BY <1>4, <3>1, <3>3, ChildFacts
    <3>5. name \notin DotNames => q0[Len(Top.dir) + 1] = name
      BY <1>4, <1>5, ChildFacts DEF q0
    <3> QED BY <3>1, <3>2, <3>4, <3>5
  <2> QED BY <2>1, <2>2
<1>8. ASSUME name \notin DotNames, NEW i \in Here, NEW q \in ToRead(stack'[i]), Enterable(q)
      PROVE  q0 \notin Under(q)
  <2> SUFFICES ASSUME q0 \in Under(q) PROVE FALSE
    OBVIOUS
  <2>1. /\ q \in ToRead(stack[i]) /\ q \in Paths /\ Parent(q) = stack[i].dir
        /\ Len(q) = Len(stack[i].dir) + 1 /\ stack[i].dir \in Paths /\ Len(stack[i].dir) \in Nat
    BY <1>7, ToReadFacts
  <2>2. q0 \in Paths /\ Len(q0) > Len(q)
    BY DEF Under
  <2>3. i # Len(stack)
    BY <1>4, <1>6, <1>8, <2>1, <2>2
  <2>4. i + 1 \in Here /\ i + 1 # 1 /\ (i + 1) - 1 = i
    BY <1>4, <2>3
  <2>5. stack[i + 1].dir \in Paths /\ stack[i + 1].dir # Cwd /\ Parent(stack[i + 1].dir) = stack[i].dir
    BY <2>4, StackFacts DEF Chain
  <2>6. Len(stack[i + 1].dir) = Len(q)
    <3>1. Len(stack[i].dir) = Len(stack[i + 1].dir) - 1 /\ Len(stack[i + 1].dir) \in Nat
      BY <2>5, ParentFacts, PathFacts
    <3> QED BY <2>1, <3>1
  <2>7. q0 \in Under(stack[i + 1].dir)
    <3>1. CASE i + 1 = Len(stack)
      BY <1>4, <1>6, <1>8, <3>1
    <3>2. CASE i + 1 # Len(stack)
      <4>1. i + 1 < Len(stack)
        BY <1>4, <2>4, <3>2
      <4>2. Top.dir \in Under(stack[i + 1].dir)
        BY <1>4, <2>4, <4>1 DEF Chain
      <4> QED BY <1>6, <1>8, <2>5, <4>2, UnderTransitive
    <3> QED BY <3>1, <3>2
  <2>8. stack[i + 1].dir = q
    BY <2>1, <2>2, <2>5, <2>6, <2>7, SameLength
  <2> QED BY <1>8, <2>1, <2>4, <2>8 DEF Once
<1>9. met' \subseteq met \cup {q0} /\ (met' # met => name \notin DotNames)
  BY <1>3, <1>5
<1>10. ASSUME pc' = "open" PROVE Unmet(q0) /\ met' = met /\ name \notin DotNames
  <2>1. s.kind = "dir" /\ name \notin DotNames /\ s.old
    BY <1>3, <1>10
  <2>2. met' = met
    BY <1>3, <2>1
  <2>3. CASE fs[q0] # "absent"
    BY <1>4, <1>5, <2>1, <2>2, <2>3 DEF Once, Enterable
  <2>4. CASE fs[q0] = "absent"
    <3>1. \A p \in Under(q0) : fs[p] = "absent"
      BY <1>5, <2>1, <2>4, AboveIsDir DEF Under, Typing
    <3> QED BY <2>1, <2>2, <3>1 DEF Unmet
  <2> QED BY <2>1, <2>2, <2>3, <2>4
<1>11. ASSUME NEW i \in Here, NEW q \in ToRead(stack'[i])
       PROVE  /\ q \notin met'
              /\ Enterable(q) => /\ \A p \in Under(q) : fs[p] # "absent" => p \notin met'
                                 /\ \A j \in Here : stack'[j].dir # q
                                 /\ ~(pc' = "open" /\ entry' = q)
  <2>1. q \in ToRead(stack[i]) /\ (name \notin DotNames => q # q0)
    BY <1>7
  <2>2. q \notin met'
    BY <1>9, <2>1 DEF Once
  <2>3. ASSUME Enterable(q)
        PROVE  /\ \A p \in Under(q) : fs[p] # "absent" => p \notin met'
               /\ \A j \in Here : stack'[j].dir # q
    <3>1. name \notin DotNames => q0 \notin Under(q)
      BY <1>8, <2>3
    <3>2. Unmet(q) /\ \A j \in Here : stack[j].dir # q
      BY <2>1, <2>3 DEF Once
    <3> QED BY <1>2, <1>9, <3>1, <3>2 DEF Unmet
  <2>4. ~(pc' = "open" /\ entry' = q)
    BY <1>5, <1>10, <2>1
  <2> QED BY <2>2, <2>3, <2>4
<1>12. pc' # "start"
  BY <1>3
<1>13. pc' = "open" => Unmet(entry)'
  BY <1>1, <1>5, <1>10 DEF Unmet
<1>14. Once'
  BY <1>1, <1>2, <1>11, <1>12, <1>13 DEF Once, Enterable, Unmet
<1>15. pc' = "file" => entry' \notin met
  <2>1. pc' = "file" => name \notin DotNames
    BY <1>3
  <2> QED BY <1>5, <1>6, <2>1
<1> QED BY <1>14, <1>15
LEMMA OncePop ==
  ASSUME Typing, Once, CloseDir
  PROVE  Once'
<1>1. /\ pc = "read" /\ fs' = fs /\ recent' = recent /\ met' = met
      /\ stack' = SubSeq(stack, 1, Len(stack) - 1) /\ pc' \notin {"start", "open"}
  BY DEF CloseDir, fsVars, historyVars
<1>2. \A i \in Here' : i \in Here /\ stack'[i] = stack[i]
  BY <1>1, PopFacts DEF Here
<1> QED BY <1>1, <1>2 DEF Once, Enterable, Unmet

LEMMA OnceShift ==
  ASSUME Typing, Once, NEW S \in SUBSET Paths, NEW T \in SUBSET S, Shift(T, S),
         entry' = entry, pc' = pc \/ pc' = "read"
  PROVE  Once'
<1>1. /\ Here' = Here
      /\ \A i \in Here :
           /\ stack'[i].dir = stack[i].dir
           /\ stack'[i].left \subseteq stack[i].left
           /\ \A n \in stack'[i].maybe \ (stack[i].left \cup stack[i].maybe) :
                LET q == Append(stack[i].dir, n)
                IN  n \in Names(stack[i].dir) /\ q \in S /\ fs'[q] # "absent"
  BY RelistFacts DEF Shift
<1>2. /\ \A p \in Paths \ S : fs'[p] = fs[p]
      /\ \A p \in S \cup recent : fs'[p] = "dir" => p \in recent'
      /\ met' = met \ S
  BY DEF Shift
<1>3. ASSUME NEW i \in Here, NEW q \in ToRead(stack'[i])
      PROVE  q \in Paths /\ (q \in ToRead(stack[i]) \/ q \in S)
  <2>1. PICK n \in (stack'[i].left \cup stack'[i].maybe) \ DotNames : q = Append(stack[i].dir, n)
    BY <1>1 DEF ToRead
  <2>2. CASE n \in stack[i].left \cup stack[i].maybe
    <3>1. q \in ToRead(stack[i])
      BY <2>1, <2>2 DEF ToRead
    <3> QED BY <3>1, ToReadFacts
  <2>3. CASE n \notin stack[i].left \cup stack[i].maybe
    BY <1>1, <2>1, <2>3
  <2> QED BY <2>2, <2>3
<1>4. ASSUME NEW q \in Paths, Unmet(q) PROVE Unmet(q)'
  BY <1>2, <1>4 DEF Unmet, Under
<1>5. ASSUME NEW i \in Here, NEW q \in ToRead(stack'[i])
      PROVE  /\ q \notin met'
             /\ Enterable(q)' => /\ Unmet(q)'
                                 /\ \A j \in Here : stack'[j].dir # q
                                 /\ ~(pc' = "open" /\ entry' = q)
  <2>1. q \in Paths /\ (q \in ToRead(stack[i]) \/ q \in S)
    BY <1>3
  <2>2. q \notin met'
    BY <1>2, <2>1 DEF Once
  <2>3. ASSUME Enterable(q)'
        PROVE  Unmet(q)' /\ (\A j \in Here : stack'[j].dir # q) /\ ~(pc' = "open" /\ entry' = q)
    <3>1. fs'[q] = "dir" /\ q \notin recent'
      BY <2>3 DEF Enterable
    <3>2. q \in ToRead(stack[i]) /\ Enterable(q)
      BY <1>2, <2>1, <3>1 DEF Enterable
    <3>3. Unmet(q) /\ (\A j \in Here : stack[j].dir # q) /\ ~(pc = "open" /\ entry = q)
      BY <3>2 DEF Once
    <3> QED BY <1>1, <1>4, <2>1, <3>3
  <2> QED BY <2>2, <2>3
<1>6. pc' = "open" => Unmet(entry)'
  BY <1>4 DEF Once, Typing, TypeOK
<1>7. pc' = "start" => met' = {}
  BY <1>2 DEF Once
<1> QED BY <1>1, <1>5, <1>6, <1>7 DEF Once

LEMMA OnceStep == Typing /\ Chain /\ Once /\ [Next]_vars => Once'
<1> SUFFICES ASSUME Typing, Chain, Once, [Next]_vars PROVE Once'
  OBVIOUS
<1>1. CASE ParseCmdline
  <2>1. /\ pc = "start" /\ stack' = << >> /\ met' = {} /\ pc' # "start"
    BY <1>1 DEF ParseCmdline, Chain, Once, historyVars
  <2>2. Here' = {}
    BY <2>1, EmptySeq DEF Here
  <2> QED BY <2>1, <2>2 DEF Once, Unmet
<1>2. CASE OpenFails \/ OpenGivesUp \/ ScanFileLooks \/ UNCHANGED vars
  <2>1. /\ fs' = fs /\ recent' = recent /\ met' = met /\ stack' = stack /\ entry' = entry
        /\ pc' = pc \/ pc' \in {"read", "done"}
    BY <1>2 DEF OpenFails, OpenGivesUp, ReturnTo, ScanFileLooks, ScanFileDone, vars, fsVars, historyVars
  <2> QED BY <2>1 DEF Once, Here, Enterable, Unmet
<1>3. CASE OpenSucceeds
  BY <1>3, OncePush
<1>4. CASE ReadEntry
  BY <1>4, OnceRead
<1>5. CASE CloseDir
  BY <1>5, OncePop
<1>6. CASE ScanFileUnpacks
  <2>1. PICK S \in SUBSET Paths : \E T \in SUBSET S : Shift(T, S)
    BY <1>6, UnpackFacts
  <2>2. entry' = entry /\ pc' = "read"
    BY <1>6 DEF ScanFileUnpacks, ScanFileDone
  <2> QED BY <2>1, <2>2, OnceShift
<1>7. CASE Remove \/ Create
  <2>1. PICK S \in SUBSET Paths : Shift(S, S)
    BY <1>7, RemoveFacts, CreateFacts
  <2>2. entry' = entry /\ pc' = pc
    BY <1>7 DEF Remove, Create, Meddle
  <2> QED BY <2>1, <2>2, OnceShift
<1>8. CASE Touch
  <2>1. /\ fs' = fs /\ recent \subseteq recent' /\ met' = met /\ stack' = stack /\ entry' = entry
        /\ pc' = pc
    BY <1>8 DEF Touch, Meddle
  <2> QED BY <2>1 DEF Once, Here, Enterable, Unmet
<1> QED BY <1>1, <1>2, <1>3, <1>4, <1>5, <1>6, <1>7, <1>8 DEF Next, Scan, Terminated

\* No file is given to ScanFile a second time unless it was written or made
\* anew since the first, for any number of changes made meanwhile: a directory
\* that comes back under a name still to be read looks new and is not entered.
THEOREM NothingReadTwice == Spec => NothingTwice
<1>1. Init => Once
  <2> SUFFICES ASSUME Init PROVE Once
    OBVIOUS
  <2>1. stack = << >> /\ met = {} /\ pc = "start"
    BY DEF Init
  <2>2. Here = {}
    BY <2>1, EmptySeq DEF Here
  <2> QED BY <2>1, <2>2 DEF Once
<1>2. Typing /\ Chain /\ Once /\ [Next]_vars => [pc = "read" /\ pc' = "file" => entry' \notin met]_vars
  <2> SUFFICES ASSUME Typing, Chain, Once, Next, pc = "read", pc' = "file"
               PROVE  entry' \notin met
    OBVIOUS
  <2>1. ReadEntry
    BY DEF Next, Scan, Terminated, ParseCmdline, OpenFails, OpenGivesUp, OpenSucceeds, CloseDir,
           ScanFileLooks, ScanFileUnpacks, ScanFileDone, Remove, Create, Touch, Meddle, vars
  <2> QED BY <2>1, OnceRead
<1> QED BY <1>1, <1>2, TypingInit, TypingStep, ChainInit, ChainStep, OnceStep, PTL
        DEF Spec, NothingTwice
-----------------------------------------------------------------------------
(* No file overlooked.  While nobody interferes, each of the files below   *)
(* the target that has been left alone was met, is below a directory that  *)
(* was not entered, below the one being opened, or still to be reached     *)
(* through a name that an open stream is certain to return.                *)

\* The directories that may look new.
Young == Recent \cup stirred

Awaits(f) ==
  \E i \in Here : \E n \in stack[i].left \ DotNames :
    LET q == Append(stack[i].dir, n) IN f = q \/ f \in Under(q)

Accounted(f) ==
  \/ f \in met
  \/ \E d \in missed : f \in Under(d)
  \/ Awaits(f)
  \/ pc = "open" /\ f \in Under(entry)

Coverage ==
  /\ \A f \in steady : fs[f] = "file"
  /\ changes = 0 =>
       /\ recent \cup missed \subseteq Young
       /\ given_up = {} /\ pc # "start" /\ Request.ok =>
            \A f \in steady \cap Under(Target) : Accounted(f)

LEMMA CoverageOpen ==
  ASSUME Typing, Chain, Coverage, OpenFails \/ OpenGivesUp \/ OpenSucceeds
  PROVE  Coverage'
<1>1. /\ pc = "open" /\ fs' = fs /\ recent' = recent /\ changes' = changes /\ argv' = argv
      /\ met' = met /\ missed' = missed /\ steady' = steady /\ stirred' = stirred
  BY DEF OpenFails, OpenGivesUp, OpenSucceeds, fsVars, historyVars
<1>2. Request' = Request /\ Target' = Target /\ Young' = Young /\ entry \in Paths /\ IsTree(fs)
      /\ steady \subseteq Paths
  BY <1>1 DEF Request, Target, Young, Typing, TypeOK
<1>3. CASE OpenFails
  <2>1. /\ stack' = stack /\ given_up' = given_up /\ fs[entry] # "dir" /\ pc' # "open"
    BY <1>3 DEF OpenFails, ReturnTo, historyVars
  <2>2. \A f \in steady : f \notin Under(entry)
    <3> TAKE f \in steady
    <3>1. fs[f] # "absent" /\ f \in Paths
      BY <1>2 DEF Coverage
    <3> QED BY <1>2, <2>1, <3>1, AboveIsDir
  <2>3. \A f \in steady : Accounted(f) => Accounted(f)'
    BY <1>1, <2>1, <2>2 DEF Accounted, Awaits, Here
  <2> QED BY <1>1, <1>2, <2>1, <2>3 DEF Coverage, Here
<1>4. CASE OpenGivesUp
  <2>1. stack' = stack /\ given_up' # {}
    BY <1>4 DEF OpenGivesUp
  <2> QED BY <1>1, <1>2, <2>1 DEF Coverage, Here
<1>5. CASE OpenSucceeds
  <2>1. /\ given_up' = given_up /\ pc' = "read"
    BY <1>5 DEF OpenSucceeds, historyVars
  <2>2. /\ Len(stack') = Len(stack) + 1 /\ \A i \in Here : stack'[i] = stack[i]
        /\ stack'[Len(stack')].dir = entry
        /\ stack'[Len(stack')].left =
             DotNames \cup {n \in Names(entry) : fs[Append(entry, n)] # "absent"}
        /\ stack'[Len(stack')].maybe = {}
    BY <1>5, PushFacts
  <2>3. /\ Len(stack') \in Here' /\ \A i \in Here : i \in Here'
        /\ \A i \in Here' : i \in Here \/ i = Len(stack')
    BY <2>2, StackFacts DEF Here
  <2>5. ASSUME NEW f \in steady, Accounted(f) PROVE Accounted(f)'
    <3>1. CASE f \in met \/ \E d \in missed : f \in Under(d)
      BY <1>1, <3>1 DEF Accounted
    <3>2. CASE Awaits(f)
      <4>1. Awaits(f)'
        BY <2>2, <2>3, <3>2 DEF Awaits
      <4> QED BY <4>1 DEF Accounted
    <3>3. CASE f \in Under(entry)
      <4> DEFINE n == f[Len(entry) + 1]
                 q == Append(entry, n)
      <4>1. n \in Names(entry) /\ q \in Paths /\ (f = q \/ f \in Under(q))
        BY <1>2, <3>3, NextName
      <4>2. fs[f] # "absent" /\ f \in Paths
        BY <1>2 DEF Coverage
      <4> HIDE DEF n
      <4>3. fs[q] # "absent"
        BY <1>2, <4>1, <4>2, AboveIsDir
      <4>4. n \in stack'[Len(stack')].left \ DotNames
        BY <1>2, <2>2, <4>1, <4>3, ChildFacts
      <4>5. Awaits(f)'
        BY <2>2, <2>3, <4>1, <4>4 DEF Awaits
      <4> QED BY <4>5 DEF Accounted
    <3> QED BY <2>5, <3>1, <3>2, <3>3 DEF Accounted
  <2> QED BY <1>1, <1>2, <2>1, <2>5 DEF Coverage
<1> QED BY <1>3, <1>4, <1>5

LEMMA CoverageRead ==
  ASSUME Typing, Chain, Coverage, ReadEntry
  PROVE  Coverage'
<1>1. /\ pc = "read" /\ fs' = fs /\ recent' = recent /\ changes' = changes /\ argv' = argv
      /\ steady' = steady /\ stirred' = stirred /\ given_up' = given_up /\ stack # << >>
  BY DEF ReadEntry, fsVars, Typing
<1>2. PICK name \in Top.left \cup Top.maybe :
        \E s \in Lstat(Top.dir, name, Top.statbuf) :
          /\ Here' = Here /\ Len(stack') = Len(stack)
          /\ \A i \in Here : i # Len(stack) => stack'[i] = stack[i]
          /\ \A i \in Here : stack'[i].dir = stack[i].dir
          /\ Top'.left = Top.left \ {name} /\ Top'.maybe = Top.maybe \ {name}
          /\ entry' = Resolve(Top.dir, name)
          /\ pc' = IF s.kind = "dir" /\ name \notin DotNames /\ s.old THEN "open"
                   ELSE IF s.kind = "file" /\ name \notin DotNames THEN "file" ELSE "read"
          /\ met' = IF s.kind = "file" /\ name \notin DotNames THEN met \cup {entry'} ELSE met
          /\ missed' = IF s.kind = "dir" /\ name \notin DotNames /\ ~s.old /\ fs[entry'] = "dir"
                       THEN missed \cup {entry'} ELSE missed
  BY ReadFacts
<1>3. PICK s \in Lstat(Top.dir, name, Top.statbuf) :
        /\ pc' = IF s.kind = "dir" /\ name \notin DotNames /\ s.old THEN "open"
                 ELSE IF s.kind = "file" /\ name \notin DotNames THEN "file" ELSE "read"
        /\ met' = IF s.kind = "file" /\ name \notin DotNames THEN met \cup {entry'} ELSE met
        /\ missed' = IF s.kind = "dir" /\ name \notin DotNames /\ ~s.old /\ fs[entry'] = "dir"
                     THEN missed \cup {entry'} ELSE missed
  BY <1>2
<1>4. /\ Len(stack) \in Here /\ Top = stack[Len(stack)] /\ Top' = stack'[Len(stack)]
      /\ Request' = Request /\ Target' = Target /\ Young' = Young
  BY <1>1, <1>2, StackFacts DEF Top, Request, Target, Young
<1> DEFINE q0 == Append(Top.dir, name)
<1>5. ASSUME name \notin DotNames
      PROVE  /\ entry' = q0
             /\ fs[q0] # "absent" => s.kind = fs[q0] /\ (s.old <=> q0 \notin recent)
  BY <1>1, <1>2, <1>5, LstatFacts
<1>7. ASSUME NEW f \in steady, Accounted(f) PROVE Accounted(f)'
  <2>1. CASE f \in met \/ \E d \in missed : f \in Under(d)
    BY <1>3, <2>1 DEF Accounted
  <2>2. ASSUME NEW i \in Here, NEW n \in stack[i].left \ DotNames, i # Len(stack) \/ n # name,
               LET q == Append(stack[i].dir, n) IN f = q \/ f \in Under(q)
        PROVE  Accounted(f)'
    <3>1. n \in stack'[i].left \ DotNames
      BY <1>2, <1>4, <2>2
    <3>2. Awaits(f)'
      BY <1>2, <2>2, <3>1 DEF Awaits
    <3> QED BY <3>2 DEF Accounted
  <2>3. ASSUME name \notin DotNames, f = q0 PROVE Accounted(f)'
    <3>1. fs[q0] = "file"
      BY <2>3 DEF Coverage
    <3>2. s.kind = "file" /\ entry' = q0
      BY <1>5, <2>3, <3>1
    <3>3. f \in met'
      BY <1>3, <2>3, <3>2
    <3> QED BY <3>3 DEF Accounted
  <2>4. ASSUME name \notin DotNames, f \in Under(q0) PROVE Accounted(f)'
    <3>1. fs[f] # "absent" /\ f \in Paths /\ IsTree(fs)
      BY DEF Coverage, Typing, TypeOK
    <3>2. q0 \in Paths
      BY <1>1, <2>4, LstatFacts DEF Resolve
    <3>3. fs[q0] = "dir"
      BY <2>4, <3>1, <3>2, AboveIsDir
    <3>4. s.kind = "dir" /\ entry' = q0
      BY <1>5, <2>4, <3>3
    <3>5. (pc' = "open" /\ f \in Under(entry')) \/ (\E d \in missed' : f \in Under(d))
      BY <1>3, <2>4, <3>3, <3>4
    <3> QED BY <3>5 DEF Accounted
  <2>5. CASE Awaits(f)
    <3>1. PICK i \in Here : \E n \in stack[i].left \ DotNames :
                 LET q == Append(stack[i].dir, n) IN f = q \/ f \in Under(q)
      BY <2>5 DEF Awaits
    <3>2. PICK n \in stack[i].left \ DotNames :
                 LET q == Append(stack[i].dir, n) IN f = q \/ f \in Under(q)
      BY <3>1
    <3>3. CASE i # Len(stack) \/ n # name
      BY <2>2, <3>2, <3>3
    <3>4. CASE i = Len(stack) /\ n = name
      BY <1>4, <2>3, <2>4, <3>2, <3>4
    <3> QED BY <3>3, <3>4
  <2> QED BY <1>1, <1>7, <2>1, <2>5 DEF Accounted
<1>8. ASSUME changes = 0 PROVE missed' \subseteq Young
  <2>1. CASE missed' = missed
    BY <1>8, <2>1 DEF Coverage
  <2>2. CASE missed' # missed
    <3>1. /\ missed' = missed \cup {entry'} /\ name \notin DotNames /\ ~s.old
          /\ fs[entry'] = "dir"
      BY <1>3, <2>2
    <3>2. entry' \in recent
      BY <1>5, <3>1
    <3> QED BY <1>8, <3>1, <3>2 DEF Coverage
  <2> QED BY <2>1, <2>2
<1> QED BY <1>1, <1>2, <1>4, <1>7, <1>8 DEF Coverage

LEMMA CoverageUnpack ==
  ASSUME Typing, Chain, Coverage, ScanFileUnpacks
  PROVE  Coverage'
<1>1. /\ pc = "file" /\ pc' = "read" /\ fs[entry] = "file" /\ stack # << >> /\ argv' = argv
      /\ changes' = changes /\ missed' = missed /\ given_up' = given_up
  BY DEF ScanFileUnpacks, ScanFileDone, Typing
<1>2. PICK S \in SUBSET Paths : \E T \in SUBSET S :
         /\ Shift(T, S)
         /\ \A p \in S : fs[p] \in {"absent", "file"}
         /\ stirred \subseteq stirred' /\ recent' \subseteq recent \cup stirred'
  BY UnpackFacts
<1>3. PICK T \in SUBSET S : Shift(T, S)
  BY <1>2
<1>4. /\ Here' = Here
      /\ \A i \in Here :
           /\ stack'[i].dir = stack[i].dir
           /\ \A n \in stack[i].left \ stack'[i].left :
                stack[i].dir \in T \/ (n \notin DotNames /\ Append(stack[i].dir, n) \in T)
  BY <1>3, RelistFacts DEF Shift
<1>5. /\ \A p \in Paths \ S : fs'[p] = fs[p]
      /\ met' = met \ S /\ steady' = steady \ S
      /\ steady \subseteq Paths /\ IsTree(fs)
  BY <1>3 DEF Shift, Typing, TypeOK
<1>6. Request' = Request /\ Target' = Target /\ Young \subseteq Young' /\ stirred' \subseteq Young'
  BY <1>1, <1>2 DEF Request, Target, Young
<1>7. ASSUME NEW i \in Here PROVE stack[i].dir \notin T
  BY <1>1, <1>2, WayToEntry
<1>9. ASSUME NEW f \in steady', Accounted(f)
      PROVE  Accounted(f)'
  <2>1. f \in steady /\ f \notin S /\ f \in Paths /\ fs[f] = "file"
    BY <1>5, <1>9 DEF Coverage
  <2>2. CASE f \in met \/ \E d \in missed : f \in Under(d)
    BY <1>1, <1>5, <2>1, <2>2 DEF Accounted
  <2>3. CASE Awaits(f)
    <3>1. PICK i \in Here : \E n \in stack[i].left \ DotNames :
                 LET q == Append(stack[i].dir, n) IN f = q \/ f \in Under(q)
      BY <2>3 DEF Awaits
    <3>2. PICK n \in stack[i].left \ DotNames :
                 LET q == Append(stack[i].dir, n) IN f = q \/ f \in Under(q)
      BY <3>1
    <3> DEFINE q == Append(stack[i].dir, n)
    <3>3. n \in stack'[i].left
      <4> SUFFICES ASSUME n \notin stack'[i].left PROVE FALSE
        OBVIOUS
      <4>1. q \in T
        BY <1>4, <1>7, <3>2
      <4>2. q \in ToRead(stack[i])
        BY <3>2 DEF ToRead
      <4>3. q \in Paths /\ fs[q] # "dir"
        BY <1>2, <4>1, <4>2, ToReadFacts
      <4>4. f \in Under(q)
        BY <2>1, <3>2, <4>1
      <4>5. fs[q] = "dir"
        BY <1>5, <2>1, <4>3, <4>4, AboveIsDir
      <4> QED BY <4>3, <4>5
    <3>4. Awaits(f)'
      BY <1>4, <3>2, <3>3 DEF Awaits
    <3> QED BY <3>4 DEF Accounted
  <2> QED BY <1>1, <1>9, <2>2, <2>3 DEF Accounted
<1>10. \A f \in steady' : fs'[f] = "file"
  BY <1>5 DEF Coverage
<1>11. changes = 0 => recent' \cup missed' \subseteq Young'
  <2>1. changes = 0 => recent \cup missed \subseteq Young
    BY DEF Coverage
  <2> QED BY <1>1, <1>2, <1>6, <2>1
<1>12. ASSUME changes = 0, given_up = {}, Request.ok, NEW f \in steady' \cap Under(Target)
       PROVE  Accounted(f)'
  <2>1. Accounted(f)
    BY <1>1, <1>5, <1>12 DEF Coverage
  <2> QED BY <1>9, <1>12, <2>1
<1> QED BY <1>1, <1>4, <1>6, <1>10, <1>11, <1>12 DEF Coverage

LEMMA CoverageStep == Typing /\ Chain /\ Coverage /\ [Next]_vars => Coverage'
<1> SUFFICES ASSUME Typing, Chain, Coverage, [Next]_vars PROVE Coverage'
  OBVIOUS
<1>1. CASE ParseCmdline
  <2>1. /\ pc = "start" /\ stack' = stack /\ fs' = fs /\ recent' = recent /\ changes' = changes
        /\ argv' = argv /\ missed' = missed /\ steady' = steady /\ stirred' = stirred
        /\ Request.ok => pc' = "open" /\ entry' = Target
    BY <1>1 DEF ParseCmdline, fsVars, historyVars
  <2> QED BY <2>1 DEF Coverage, Here, Request, Target, Young, Accounted
<1>2. CASE OpenFails \/ OpenGivesUp \/ OpenSucceeds
  BY <1>2, CoverageOpen
<1>3. CASE ReadEntry
  BY <1>3, CoverageRead
<1>4. CASE CloseDir
  <2>1. /\ pc = "read" /\ fs' = fs /\ recent' = recent /\ changes' = changes /\ argv' = argv
        /\ met' = met /\ missed' = missed /\ steady' = steady /\ stirred' = stirred
        /\ given_up' = given_up /\ stack' = SubSeq(stack, 1, Len(stack) - 1) /\ Top.left = {}
    BY <1>4 DEF CloseDir, fsVars, historyVars
  <2>2. /\ \A i \in Here' : i \in Here /\ stack'[i] = stack[i]
        /\ \A i \in Here : i \in Here' \/ i = Len(stack)
    <3>1. /\ Len(stack') = Len(stack) - 1
          /\ \A i \in 1..Len(stack') : i \in Here /\ stack'[i] = stack[i]
      BY <2>1, PopFacts
    <3>2. Len(stack) \in Nat
      BY StackFacts
    <3> QED BY <3>1, <3>2 DEF Here
  <2>3. \A f \in steady : Accounted(f) => Accounted(f)'
    BY <2>1, <2>2 DEF Accounted, Awaits, Top
  <2>4. Request' = Request /\ Target' = Target /\ Young' = Young
    BY <2>1 DEF Request, Target, Young
  <2> QED BY <2>1, <2>2, <2>3, <2>4 DEF Coverage
<1>5. CASE ScanFileLooks \/ UNCHANGED vars
  <2>1. /\ fs' = fs /\ recent' = recent /\ changes' = changes /\ argv' = argv
        /\ met' = met /\ missed' = missed /\ steady' = steady /\ stirred' = stirred
        /\ given_up' = given_up /\ stack' = stack /\ entry' = entry
        /\ pc' = pc \/ (pc = "file" /\ pc' = "read")
    BY <1>5 DEF ScanFileLooks, ScanFileDone, vars, fsVars, historyVars
  <2>2. \A f \in steady : Accounted(f) => Accounted(f)'
    BY <2>1 DEF Accounted, Awaits, Here
  <2>3. Request' = Request /\ Target' = Target /\ Young' = Young
    BY <2>1 DEF Request, Target, Young
  <2> QED BY <2>1, <2>2, <2>3 DEF Coverage, Here
<1>6. CASE ScanFileUnpacks
  BY <1>6, CoverageUnpack
<1>7. CASE Remove \/ Create \/ Touch
  <2>1. changes \in Nat /\ changes' = changes + 1 /\ steady \subseteq Paths
    BY <1>7, ScanAssumption DEF Remove, Create, Touch, Meddle, Typing, TypeOK
  <2>2. \A f \in steady' : fs'[f] = "file"
    <3>1. CASE Remove \/ Create
      <4>1. PICK S \in SUBSET Paths : Shift(S, S)
        BY <3>1, RemoveFacts, CreateFacts
      <4> QED BY <2>1, <4>1 DEF Shift, Coverage
    <3>2. CASE Touch
      BY <3>2 DEF Touch, Coverage
    <3> QED BY <1>7, <3>1, <3>2
  <2>3. changes' # 0
    BY <2>1
  <2> QED BY <2>2, <2>3 DEF Coverage
<1> QED BY <1>1, <1>2, <1>3, <1>4, <1>5, <1>6, <1>7 DEF Next, Scan, Terminated

\* Every file that was there at the start and left alone has been looked at
\* when the program ends, unless another program meddled, the output path was
\* wrong, or the file is below a directory that looked new; and only the
\* directories that may be recent, and those the program made or changed,
\* if only for a while, look new.
THEOREM AllScanned == Spec => []EveryFileScanned
<1>1. Init => Coverage
  <2> SUFFICES ASSUME Init PROVE Coverage
    OBVIOUS
  <2>1. /\ stack = << >> /\ pc = "start" /\ missed = {} /\ recent \subseteq Recent
        /\ \A f \in steady : fs[f] = "file"
    BY DEF Init
  <2>2. Here = {}
    BY <2>1, EmptySeq DEF Here
  <2> QED BY <2>1, <2>2 DEF Coverage, Young
<1>2. Chain /\ Coverage => EveryFileScanned
  <2> SUFFICES ASSUME Chain, Coverage, pc = "done", Request.ok, changes = 0, given_up = {}
               PROVE  /\ \A f \in steady \cap Under(Target) :
                           f \in met \/ \E d \in missed : f \in Under(d)
                      /\ missed \subseteq Recent \cup stirred
    BY DEF EveryFileScanned
  <2>1. Here = {}
    BY EmptySeq DEF Chain, Here
  <2> QED BY <2>1 DEF Coverage, Accounted, Awaits, Young
<1> QED BY <1>1, <1>2, TypingInit, TypingStep, ChainInit, ChainStep, CoverageStep, PTL DEF Spec

-----------------------------------------------------------------------------
(* The scan as a crawl.                                                    *)

\* A scan's first state is a crawl's, and its steps are steps of a crawl or
\* leave the crawl alone: files strictly below the target are met, nothing is
\* written or removed unless the arguments ask for extraction, and what is
\* written anew while the scan goes on may be met again.
THEOREM ScanIsCrawl == Spec => C!Init /\ [][C!Next]_(C!crawlVars)
<1> DEFINE phase == CASE pc = "start" -> "ready" [] pc = "done" -> "over" [] OTHER -> "scanning"
<1>1. Init => C!Init
  BY DEF Init, C!Init
<1>2. ASSUME Typing, Chain, [Next]_vars
      PROVE  [C!Next]_(C!crawlVars)
  <2>1. /\ Request.ok <=> C!Recognise \/ C!Extract
        /\ Request.unpack <=> C!Extract
        /\ Request.ok => C!Target = Target
        /\ \A d : C!Under(d) = Under(d)
    BY <1>2, ModesAgree DEF Typing, TypeOK, C!Under, Under
  <2>2. CASE ParseCmdline
    <3>1. /\ pc = "start" /\ UNCHANGED << argv, met, wrote >>
          /\ pc' = IF Request.ok THEN "open" ELSE "done"
      BY <2>2 DEF ParseCmdline, historyVars
    <3>2. C!Begin
      BY <2>1, <3>1 DEF C!Begin
    <3> QED BY <3>2 DEF C!Next
  <2>3. CASE OpenFails \/ OpenGivesUp \/ OpenSucceeds \/ CloseDir
    <3>1. /\ pc \in {"open", "read"} /\ UNCHANGED << argv, met, wrote >>
          /\ pc' \in {"read", "done"}
      BY <2>3 DEF OpenFails, OpenGivesUp, ReturnTo, OpenSucceeds, CloseDir, historyVars
    <3>2. CASE pc' = "done"
      <4>1. C!End
        BY <3>1, <3>2 DEF C!End
      <4> QED BY <4>1 DEF C!Next
    <3>3. CASE pc' = "read"
      BY <3>1, <3>3 DEF C!crawlVars
    <3> QED BY <3>1, <3>2, <3>3
  <2>4. CASE ReadEntry
    <3>1. pc = "read" /\ UNCHANGED << argv, wrote >> /\ stack # << >> /\ entry' \in Paths
      <4>1. entry' \in Paths
        BY <1>2, TypingStep DEF Typing, TypeOK
      <4> QED BY <1>2, <2>4, <4>1 DEF ReadEntry, Typing
    <3>2. pc' \in {"open", "file", "read"} /\ (met' = met \/ (pc' = "file" /\ met' = met \cup {entry'}))
          /\ Len(stack') = Len(stack)
      BY <1>2, <2>4, ReadFacts
    <3>3. CASE met' = met
      BY <3>1, <3>2, <3>3 DEF C!crawlVars
    <3>4. CASE pc' = "file" /\ met' = met \cup {entry'}
      <4>1. Chain' /\ Typing' /\ Target' = Target
        BY <1>2, <3>1, ChainStep, TypingStep DEF Target, Request
      <4>2. 1 \in Here'
        BY <1>2, <3>1, <3>2, StackFacts DEF Here
      <4>3. stack' # << >>
        BY <4>1, <3>4 DEF Typing
      <4>4. entry' \in Under(Target)
        BY <4>1, <4>2, <4>3, <3>4 DEF Chain
      <4>5. Request.ok
        BY <1>2, <3>1 DEF Chain
      <4>6. C!Meet(entry')
        BY <2>1, <3>1, <3>4, <4>4, <4>5 DEF C!Meet
      <4> QED BY <3>1, <4>6 DEF C!Next
    <3> QED BY <3>2, <3>3, <3>4
  <2>5. CASE ScanFileLooks \/ Touch \/ UNCHANGED vars
    <3>1. UNCHANGED << argv, met, wrote >> /\ (pc' = pc \/ (pc = "file" /\ pc' = "read"))
      BY <2>5 DEF ScanFileLooks, ScanFileDone, Touch, Meddle, vars, historyVars
    <3> QED BY <3>1 DEF C!crawlVars
  <2>6. CASE ScanFileUnpacks
    <3>1. pc = "file" /\ pc' = "read" /\ argv' = argv /\ Request.unpack
      BY <2>6 DEF ScanFileUnpacks, ScanFileDone, ExtractsFiles
    <3>2. PICK S \in SUBSET Paths : \E T \in SUBSET S : \E K \in SUBSET S :
            Shift(T, S) /\ wrote' = (wrote \cup K) \ (S \ K)
      BY <1>2, <2>6, UnpackFacts
    <3>3. met' = met \ S
      BY <3>2 DEF Shift
    <3>4. wrote' \in SUBSET Paths /\ met' \in SUBSET met /\ met' \cap (wrote' \ wrote) = {}
      BY <1>2, <3>2, <3>3 DEF Typing, TypeOK
    <3>5. C!Write
      BY <2>1, <3>1, <3>4 DEF C!Write
    <3> QED BY <3>5 DEF C!Next
  <2>7. CASE Remove \/ Create
    <3>1. PICK S \in SUBSET Paths : Shift(S, S) /\ wrote' = wrote \ S
      BY <1>2, <2>7, RemoveFacts, CreateFacts
    <3>2. argv' = argv /\ pc' = pc /\ met' = met \ S
      BY <2>7, <3>1 DEF Remove, Create, Meddle, Shift
    <3>3. C!Interfere
      BY <3>1, <3>2 DEF C!Interfere
    <3> QED BY <3>3 DEF C!Next
  <2> QED BY <1>2, <2>2, <2>3, <2>4, <2>5, <2>6, <2>7 DEF Next, Scan, Terminated
<1> QED BY <1>1, <1>2, TypingInit, TypingStep, ChainInit, ChainStep, PTL DEF Spec
=============================================================================
