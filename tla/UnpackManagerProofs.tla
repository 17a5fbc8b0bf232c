------------------------ MODULE UnpackManagerProofs ------------------------
(***************************************************************************)
(* Proofs about UnpackManager, for every set of files, of kinds of file    *)
(* and of directories, and for every bound.                                *)
(***************************************************************************)
EXTENDS UnpackManager, TLAPS

\* Facts about the two tables, so that nothing below has to expand them.
LEMMA TableFacts ==
  /\ Len(RegisterAllPEPackMatcher) = 17
  /\ Len(RegisterAllNPEPackMatcher) = 1
  /\ \A i \in 1..17 : RegisterAllPEPackMatcher[i] \in Matchers
  /\ RegisterAllNPEPackMatcher[1] \in Matchers
  /\ NoType \notin Matchers
  BY DEF RegisterAllPEPackMatcher, RegisterAllNPEPackMatcher, Matchers, NoType

LEMMA TableLength == Len(Table) \in Nat /\ Len(Table) >= 1
<1>1. Table = RegisterAllPEPackMatcher \/ Table = RegisterAllNPEPackMatcher
  BY DEF Table
<1>2. Len(Table) = 17 \/ Len(Table) = 1
  BY <1>1, TableFacts
<1> QED BY <1>2

\* The table of either loop holds matchers only, and neither is longer than
\* the PE table.
LEMMA TableRange ==
  ASSUME NEW i \in Nat, i >= 1, i <= Len(Table)
  PROVE  Table[i] \in Matchers /\ i <= Len(RegisterAllPEPackMatcher)
<1>1. CASE pc # "npe"
  <2>1. Table = RegisterAllPEPackMatcher
    BY <1>1 DEF Table
  <2> QED BY <2>1, TableFacts
<1>2. CASE pc = "npe"
  <2>1. Table = RegisterAllNPEPackMatcher
    BY <1>2 DEF Table
  <2>2. i = 1
    BY <2>1, TableFacts
  <2> QED BY <2>1, <2>2, TableFacts
<1> QED BY <1>1, <1>2

\* The matcher that a turn of the loop consults.
LEMMA TryIndex ==
  TypeOK /\ TryMatcher =>
    /\ idx \in Nat /\ idx >= 1
    /\ Table[idx] \in Matchers
    /\ idx <= Len(RegisterAllPEPackMatcher)
<1> SUFFICES ASSUME TypeOK, TryMatcher
             PROVE  /\ idx \in Nat /\ idx >= 1
                    /\ Table[idx] \in Matchers
                    /\ idx <= Len(RegisterAllPEPackMatcher)
  OBVIOUS
<1>1. idx \in Nat /\ idx >= 1
  BY TableFacts DEF TypeOK
<1>2. idx <= Len(Table)
  BY DEF TryMatcher
<1> QED BY <1>1, <1>2, TableRange

\* The matchers of files that are not PE do not measure them.
LEMMA NotMeasured ==
  ASSUME TypeOK, pc = "npe", idx <= Len(Table)
  PROVE  Table[idx] \notin OverlayMatchers
<1>1. Table = RegisterAllNPEPackMatcher
  BY DEF Table
<1>2. idx = 1
  BY <1>1, TableFacts DEF TypeOK
<1>3. Table[idx] = "msi"
  BY <1>1, <1>2 DEF RegisterAllNPEPackMatcher
<1> QED BY <1>3 DEF OverlayMatchers, AlwaysMeasure, MayMeasure

\* The turn goes on, so it has a matcher.
LEMMA OverlayIndex ==
  TypeOK /\ TryOverlay =>
    /\ idx \in Nat /\ idx >= 1 /\ idx <= Len(Table)
    /\ Table[idx] \in Matchers
    /\ idx <= Len(RegisterAllPEPackMatcher)
<1> SUFFICES ASSUME TypeOK, TryOverlay
             PROVE  /\ idx \in Nat /\ idx >= 1 /\ idx <= Len(Table)
                    /\ Table[idx] \in Matchers
                    /\ idx <= Len(RegisterAllPEPackMatcher)
  OBVIOUS
<1>1. idx \in Nat /\ idx >= 1
  BY TableFacts DEF TypeOK
<1>2. idx <= Len(Table)
  BY DEF TypeOK, TryOverlay, Table
<1> QED BY <1>1, <1>2, TableRange

\* The three ways a turn may go until the overlay is asked for.
LEMMA TryCases ==
  ASSUME TryMatcher
  PROVE  \/ SaysYes(Table[idx]) /\ Recognise(Table[idx])
         \/ /\ ~SaysYes(Table[idx])
            /\ Table[idx] \in OverlayMatchers
            /\ pc' = "overlay"
            /\ UNCHANGED << idx, info >>
         \/ /\ ~SaysYes(Table[idx])
            /\ Table[idx] \notin snap.overlay \cup snap.resized
            /\ PassOver
  BY DEF TryMatcher

\* The arguments of a call.
LEMMA CallFields ==
  ASSUME NEW r \in Calls
  PROVE  r.api \in {"detect", "extract"} /\ r.file \in Files /\ r.out \in OutPaths
<1>1. CASE r \in Detect
  BY <1>1 DEF Detect, OutPaths
<1>2. CASE r \in Extract
  BY <1>2 DEF Extract
<1> QED BY <1>1, <1>2 DEF Calls

\* The constant records have the types of the variables they reset.
LEMMA ResetTypes ==
  Refused \in Answers /\ NoInfo \in Infos /\ NotUnpacked \in AnyOutcome
  BY DEF Refused, Answers, NoInfo, Infos, NotUnpacked, AnyOutcome

\* Whatever an unpacker does, its outcome is a record of four Booleans.
LEMMA OutcomesType ==
  ASSUME NEW m, NEW k, NEW out, NEW o \in Outcomes(m, k, out)
  PROVE  o \in AnyOutcome
<1>1. CASE Extracts(m, k, out)
  BY <1>1 DEF Outcomes
<1>2. CASE ~Extracts(m, k, out)
  <2> DEFINE said == m \in PlainStubs \/ (m \in NullCheckedStubs /\ out # NullPath)
  <2>1. o = [NotUnpacked EXCEPT !.ok = said]
    BY <1>2 DEF Outcomes
  <2>2. said \in BOOLEAN
    OBVIOUS
  <2> HIDE DEF said
  <2>3. o = [ok |-> said, wrote |-> FALSE, whole |-> FALSE, left |-> FALSE]
    BY <2>1 DEF NotUnpacked
  <2> QED BY <2>2, <2>3 DEF AnyOutcome
<1> QED BY <1>1, <1>2

\* What comes of a directory-checking unpacker: no dump of it stays behind, and
\* the 7-Zip engine says whether everything came out.
LEMMA CheckedOutcomes ==
  ASSUME NEW m \in DirCheckedUnpackers, NEW k, NEW out,
         NEW o \in Outcomes(m, k, out), o.ok
  PROVE  ~o.left /\ (m \in SevenZipUnpackers => o.whole)
<1>1. m # "dotnet" /\ m \notin PlainStubs \cup NullCheckedStubs
  BY DEF DirCheckedUnpackers, PlainStubs, NullCheckedStubs
<1>2. CASE Extracts(m, k, out)
  BY <1>1, <1>2 DEF Outcomes
<1>3. CASE ~Extracts(m, k, out)
  <2>1. o = [NotUnpacked EXCEPT !.ok = FALSE]
    BY <1>1, <1>3 DEF Outcomes
  <2>2. o.ok = FALSE
    BY <2>1 DEF NotUnpacked
  <2> QED BY <2>2
<1> QED BY <1>2, <1>3

-----------------------------------------------------------------------------
(* Type correctness.                                                       *)

LEMMA InitTypeOK == Init => TypeOK
<1> SUFFICES ASSUME Init PROVE TypeOK
  OBVIOUS
<1>1. req \in Calls /\ req.file \in Files
  BY CallFields DEF Init, Calls
<1>2. fresh \in BOOLEAN
  BY DEF Init
<1>3. idx \in 1..(Len(RegisterAllPEPackMatcher) + 1)
  BY TableFacts DEF Init
<1> QED BY <1>1, <1>2, <1>3, BoundsAssumption, ResetTypes DEF Init, TypeOK

\* The size of a file is a number.
LEMMA SizeType == ASSUME NEW k \in Kinds PROVE k.size \in Nat
  BY KindsAssumption DEF FileKinds

\* What saying yes, and passing on, leave in the table index and *pPackInfo.
LEMMA TurnTypes ==
  ASSUME TypeOK, idx <= Len(RegisterAllPEPackMatcher), Table[idx] \in Matchers,
         Recognise(Table[idx]) \/ PassOver
  PROVE  /\ idx' \in 1..(Len(RegisterAllPEPackMatcher) + 1)
         /\ info' \in Infos
         /\ pc' \in {"pe", "npe", "unpack", "clear"}
<1>1. CASE Recognise(Table[idx])
  BY <1>1 DEF TypeOK, Infos, Recognise
<1>2. CASE PassOver
  BY <1>2, TableFacts DEF TypeOK, PassOver, LoopHead
<1> QED BY <1>1, <1>2

LEMMA NextTypeOK == TypeOK /\ [Next]_vars => TypeOK'
<1> SUFFICES ASSUME TypeOK, [Next]_vars PROVE TypeOK'
  OBVIOUS
<1> USE BoundsAssumption, ResetTypes
<1>1. CASE CallNullTarget
  BY <1>1 DEF TypeOK, CallNullTarget, fileVars, callVars
<1>2. CASE Call
  <2>1. fresh' \in BOOLEAN
    BY <1>2 DEF Call, IsEmptyDirectory
  <2> QED BY <1>2, <2>1, CallFields DEF TypeOK, Call
<1>3. CASE CheckTarget
  BY <1>3 DEF TypeOK, CheckTarget, ReturnFalse, fileVars, callVars
<1>4. CASE CheckOutput
  BY <1>4, TableFacts
  DEF TypeOK, CheckOutput, ReturnFalse, fileVars, callVars
<1>5. CASE LoadNPE
  BY <1>5, CallFields DEF TypeOK, LoadNPE, fileVars
<1>6. CASE TryMatcher
  <2>1. Table[idx] \in Matchers /\ idx <= Len(RegisterAllPEPackMatcher)
    BY <1>6, TryIndex
  <2>2. bound' \in [Matchers -> 0..MaxScans]
    BY <1>6 DEF TypeOK, TryMatcher
  <2>3. CASE Recognise(Table[idx]) \/ PassOver
    <3>1. /\ idx' \in 1..(Len(RegisterAllPEPackMatcher) + 1)
          /\ info' \in Infos
          /\ pc' \in {"pe", "npe", "unpack", "clear"}
      BY <2>1, <2>3, TurnTypes
    <3> QED BY <1>6, <2>2, <3>1 DEF TypeOK, TryMatcher, fileVars, callVars
  <2>4. CASE pc' = "overlay" /\ UNCHANGED << idx, info >>
    BY <1>6, <2>1, <2>2, <2>4 DEF TypeOK, TryMatcher, fileVars, callVars
  <2> QED BY <1>6, <2>3, <2>4, TryCases
<1>7. CASE NoMatch
  BY <1>7 DEF TypeOK, NoMatch, fileVars, callVars
<1>8. CASE Unpack
  <2>1. PICK o \in Outcomes(info.type, snap, req.out) :
          /\ engine' = o
          /\ disk' = Written(o, CheckOutputDir(req.out))
          /\ info' = [info EXCEPT !.success = Success(info.type, o, disk', req.out)]
    BY <1>8 DEF Unpack
  <2>2. o \in AnyOutcome
    BY <2>1, OutcomesType
  <2>3. Success(info.type, o, disk', req.out) \in BOOLEAN
    BY <2>2 DEF Success, AnyOutcome
  <2>4. disk' \in [Dirs -> SUBSET Files]
    BY <2>1, CallFields DEF TypeOK, Written
  <2>5. info' \in Infos
    BY <2>1, <2>3 DEF TypeOK, Infos
  <2> QED BY <1>8, <2>1, <2>2, <2>4, <2>5 DEF TypeOK, Unpack, fileVars, callVars
<1>9. CASE Clear
  <2>1. ans' \in Answers
    BY <1>9 DEF TypeOK, Clear, Infos, Answers
  <2> QED BY <1>9, <2>1 DEF TypeOK, Clear, fileVars, callVars
<1>10. CASE Replace
  BY <1>10 DEF TypeOK, Replace, callVars
<1>11. CASE UNCHANGED vars
  BY <1>11 DEF TypeOK, vars
<1>12. CASE TryOverlay
  <2>1. Table[idx] \in Matchers /\ idx <= Len(RegisterAllPEPackMatcher)
    BY <1>12, OverlayIndex
  <2>2. Recognise(Table[idx]) \/ PassOver
    BY <1>12 DEF TryOverlay
  <2>3. /\ idx' \in 1..(Len(RegisterAllPEPackMatcher) + 1)
        /\ info' \in Infos
        /\ pc' \in {"pe", "npe", "unpack", "clear"}
    BY <2>1, <2>2, TurnTypes
  <2>4. size' \in Nat
    <3>1. world[req.file] \in Kinds
      BY CallFields DEF TypeOK
    <3> QED BY <1>12, <3>1, SizeType DEF TypeOK, TryOverlay, GetPEFileSize
  <2> QED BY <1>12, <2>3, <2>4 DEF TypeOK, TryOverlay, fileVars, callVars
<1> QED
  BY <1>1, <1>2, <1>3, <1>4, <1>5, <1>6, <1>7, <1>8, <1>9, <1>10, <1>11, <1>12
  DEF Next, ScanFileStep

\* Every variable of ScanFile keeps its type, whatever the constants.
THEOREM TypeCorrect == Spec => []TypeOK
  BY InitTypeOK, NextTypeOK, PTL DEF Spec

-----------------------------------------------------------------------------
(* What a call has in hand.                                                *)

LEMMA InitCallInv == Init => CallInv
  BY DEF Init, CallInv, NoInfo

\* Only TryMatcher binds, only Unpack and Recognise fill *pPackInfo, only
\* Clear releases.
LEMMA NextCallInv == TypeOK /\ CallInv /\ [Next]_vars => CallInv'
<1> SUFFICES ASSUME TypeOK, CallInv, [Next]_vars PROVE CallInv'
  OBVIOUS
<1>1. CASE CallNullTarget
  BY <1>1 DEF CallInv, CallNullTarget, callVars, Table
<1>2. CASE Call
  <2>1. info' = NoInfo /\ pc' = "access" /\ fresh' = IsEmptyDirectory(disk', req'.out)
    BY <1>2 DEF Call
  <2>2. snap'.form = "pe" => scan' \in live'
    BY <1>2 DEF Call
  <2> QED BY <2>1, <2>2 DEF CallInv, NoInfo
<1>3. CASE CheckTarget
  BY <1>3 DEF CallInv, CheckTarget, ReturnFalse, fileVars, callVars
<1>4. CASE CheckOutput
  BY <1>4 DEF CallInv, CheckOutput, ReturnFalse, fileVars, callVars
<1>5. CASE LoadNPE
  BY <1>5 DEF CallInv, LoadNPE, fileVars, NoInfo
<1>6. CASE TryMatcher
  <2>1. Table[idx] \in Matchers
    BY <1>6, TryIndex
  <2>2. bound'[Table[idx]] = scan
    BY <1>6, <2>1 DEF TypeOK, TryMatcher
  <2>3. info = NoInfo
    BY <1>6 DEF CallInv, TryMatcher
  <2>4. CASE Recognise(Table[idx])
    <3>1. info'.type = Table[idx] /\ info'.success = FALSE
      BY <2>3, <2>4 DEF Recognise, NoInfo
    <3> QED BY <1>6, <2>1, <2>2, <2>4, <3>1
            DEF CallInv, TryMatcher, Recognise, callVars
  <2>5. CASE PassOver
    BY <1>6, <2>5 DEF CallInv, TryMatcher, PassOver, LoopHead, callVars
  <2>6. CASE /\ Table[idx] \in OverlayMatchers
             /\ pc' = "overlay"
             /\ UNCHANGED << idx, info >>
    <3>1. pc = "pe"
      BY <1>6, <2>6, NotMeasured DEF TryMatcher
    <3>2. bound'[Table'[idx']] = scan'
      BY <1>6, <2>2, <2>6, <3>1 DEF TryMatcher, Table, callVars
    <3> QED BY <1>6, <2>3, <2>6, <3>1, <3>2 DEF CallInv, TryMatcher, callVars
  <2> QED BY <1>6, <2>4, <2>5, <2>6, TryCases
<1>7. CASE NoMatch
  BY <1>7 DEF CallInv, NoMatch, callVars, NoInfo
<1>8. CASE Unpack
  <2>1. info'.type = info.type
    BY <1>8 DEF TypeOK, Infos, Unpack
  <2> QED BY <1>8, <2>1 DEF CallInv, Unpack, callVars
<1>9. CASE Clear
  BY <1>9 DEF CallInv, Clear, callVars
<1>10. CASE Replace
  BY <1>10 DEF CallInv, Replace, callVars, Table
<1>11. CASE UNCHANGED vars
  BY <1>11 DEF CallInv, vars, Table
<1>12. CASE TryOverlay
  <2>1. Table[idx] \in Matchers
    BY <1>12, OverlayIndex
  <2>2. info = NoInfo
    BY <1>12 DEF CallInv, TryOverlay
  <2>3. CASE Recognise(Table[idx])
    <3>1. info'.type = Table[idx] /\ info'.success = FALSE
      BY <2>2, <2>3 DEF Recognise, NoInfo
    <3> QED BY <1>12, <2>1, <2>3, <3>1
            DEF CallInv, TryOverlay, Recognise, callVars
  <2>4. CASE PassOver
    BY <1>12, <2>4 DEF CallInv, TryOverlay, PassOver, LoopHead, callVars
  <2> QED BY <1>12, <2>3, <2>4 DEF TryOverlay
<1> QED
  BY <1>1, <1>2, <1>3, <1>4, <1>5, <1>6, <1>7, <1>8, <1>9, <1>10, <1>11, <1>12
  DEF Next, ScanFileStep

\* A call has in hand what the steps to come rely on, and reports nothing it
\* did not find.
THEOREM CallsAreInOrder == Spec => []CallInv
<1>1. TypeOK /\ CallInv /\ [Next]_vars => TypeOK' /\ CallInv'
  BY NextTypeOK, NextCallInv
<1> QED BY InitTypeOK, InitCallInv, <1>1, PTL DEF Spec

\* The unpacker reads the image that this call parsed and still holds.
THEOREM BindingIsSafe == Spec => []BindingSafe
<1>1. CallInv => BindingSafe
  BY DEF CallInv, BindingSafe
<1> QED BY CallsAreInOrder, <1>1, PTL

-----------------------------------------------------------------------------
(* Release.                                                                *)

LEMMA NextReleased ==
  TypeOK /\ ReleasedWhenAccepted /\ [Next]_vars => ReleasedWhenAccepted'
<1> SUFFICES ASSUME TypeOK, ReleasedWhenAccepted, [Next]_vars
             PROVE  ReleasedWhenAccepted'
  OBVIOUS
<1>1. CASE CallNullTarget
  BY <1>1 DEF ReleasedWhenAccepted, CallNullTarget, callVars, Refused
<1>2. CASE Call
  BY <1>2 DEF ReleasedWhenAccepted, Call
<1>3. CASE CheckTarget \/ CheckOutput
  <2>1. pc' # "idle" \/ ans'.ret = FALSE
    BY <1>3 DEF CheckTarget, CheckOutput, ReturnFalse, Refused
  <2> QED BY <2>1 DEF ReleasedWhenAccepted
<1>4. CASE LoadNPE \/ NoMatch \/ Unpack
  BY <1>4 DEF ReleasedWhenAccepted, LoadNPE, NoMatch, Unpack
<1>5. CASE TryMatcher
  BY <1>5, TryCases DEF ReleasedWhenAccepted, Recognise, PassOver, LoopHead
<1>6. CASE Clear
  BY <1>6 DEF ReleasedWhenAccepted, Clear, callVars
<1>7. CASE Replace
  BY <1>7 DEF ReleasedWhenAccepted, Replace, callVars
<1>8. CASE UNCHANGED vars
  BY <1>8 DEF ReleasedWhenAccepted, vars
<1>9. CASE TryOverlay
  BY <1>9 DEF ReleasedWhenAccepted, TryOverlay, Recognise, PassOver, LoopHead
<1> QED BY <1>1, <1>2, <1>3, <1>4, <1>5, <1>6, <1>7, <1>8, <1>9 DEF Next, ScanFileStep

\* A call that returned true holds nothing.
THEOREM AcceptedCallsRelease == Spec => []ReleasedWhenAccepted
<1>1. Init => ReleasedWhenAccepted
  BY DEF Init, ReleasedWhenAccepted
<1>2. TypeOK /\ ReleasedWhenAccepted /\ [Next]_vars
        => TypeOK' /\ ReleasedWhenAccepted'
  BY NextTypeOK, NextReleased
<1> QED BY InitTypeOK, <1>1, <1>2, PTL DEF Spec

-----------------------------------------------------------------------------
(* Success.                                                                *)

LEMMA NextBacked ==
  TypeOK /\ CallInv /\ SuccessIsBacked /\ [Next]_vars
    => SuccessIsBacked'
<1> SUFFICES ASSUME TypeOK, CallInv, SuccessIsBacked, [Next]_vars
             PROVE  SuccessIsBacked'
  OBVIOUS
<1>1. CASE CallNullTarget
  BY <1>1 DEF SuccessIsBacked, CallNullTarget, callVars
<1>2. CASE Call
  BY <1>2 DEF SuccessIsBacked, Call, NoInfo
<1>3. CASE CheckTarget \/ CheckOutput \/ LoadNPE \/ NoMatch \/ Clear \/ Replace
  BY <1>3 DEF SuccessIsBacked, CheckTarget, CheckOutput, LoadNPE,
              NoMatch, Clear, Replace, callVars
<1>4. CASE TryMatcher
  <2>1. ~info'.success
    BY <1>4, TryCases DEF CallInv, NoInfo, TryMatcher, Recognise, PassOver
  <2> QED BY <2>1 DEF SuccessIsBacked
<1>5. CASE Unpack
  <2>1. PICK o \in Outcomes(info.type, snap, req.out) :
          /\ engine' = o
          /\ disk' = Written(o, CheckOutputDir(req.out))
          /\ info' = [info EXCEPT !.success = Success(info.type, o, disk', req.out)]
    BY <1>5 DEF Unpack
  <2>2. info'.type = info.type /\ info'.success = Success(info.type, o, disk', req.out)
    BY <2>1 DEF TypeOK, Infos
  <2>3. req' = req /\ fresh' = fresh /\ fresh = IsEmptyDirectory(disk, req.out)
    BY <1>5 DEF CallInv, Unpack, callVars
  <2> SUFFICES ASSUME info'.success, info'.type \in DirCheckedUnpackers
               PROVE  /\ fresh => o.wrote
                      /\ info.type \in SevenZipUnpackers => o.whole
    BY <2>1, <2>2, <2>3 DEF SuccessIsBacked
  <2>4. o.ok /\ ~IsEmptyDirectory(disk', req.out)
    BY <2>2 DEF Success
  <2>5. ~o.left /\ (info.type \in SevenZipUnpackers => o.whole)
    BY <2>2, <2>4, CheckedOutcomes
  <2>6. ASSUME fresh PROVE o.wrote
    <3>1. req.out \in GoodOuts /\ disk'[req.out] # {}
      BY <2>4 DEF IsEmptyDirectory
    <3>2. disk[req.out] = {}
      BY <2>3, <2>6, <3>1 DEF IsEmptyDirectory
    <3> QED BY <2>1, <2>5, <3>1, <3>2 DEF Written, Dirs
  <2> QED BY <2>5, <2>6
<1>6. CASE UNCHANGED vars
  BY <1>6 DEF SuccessIsBacked, vars
<1>7. CASE TryOverlay
  <2>1. ~info'.success
    <3>1. info = NoInfo
      BY <1>7 DEF CallInv, TryOverlay
    <3>2. \/ info' = [info EXCEPT !.type = Table[idx]]
          \/ info' = info
      BY <1>7 DEF TryOverlay, Recognise, PassOver
    <3> QED BY <3>1, <3>2 DEF NoInfo
  <2> QED BY <2>1 DEF SuccessIsBacked
<1> QED BY <1>1, <1>2, <1>3, <1>4, <1>5, <1>6, <1>7 DEF Next, ScanFileStep

\* Success reported by a directory-checking unpacker is backed by a file of this
\* call, if the directory was empty before, and where the 7-Zip engine's result
\* counts, by a whole extraction.
THEOREM SuccessIsBackedHolds == Spec => []SuccessIsBacked
<1>1. Init => SuccessIsBacked
  BY DEF Init, SuccessIsBacked, NoInfo
<1>2. TypeOK /\ CallInv /\ SuccessIsBacked /\ [Next]_vars
        => TypeOK' /\ CallInv' /\ SuccessIsBacked'
  BY NextTypeOK, NextCallInv, NextBacked
<1> QED BY InitTypeOK, InitCallInv, <1>1, <1>2, PTL DEF Spec

-----------------------------------------------------------------------------
(* The matcher loop.                                                       *)

\* FirstIn is the first entry that matches ...
LEMMA FirstInHit ==
  ASSUME NEW table, NEW k, Len(table) \in Nat,
         NEW i \in 1..Len(table),
         IsMatchPackerSig(table[i], k, k),
         \A j \in 1..(i - 1) : ~IsMatchPackerSig(table[j], k, k)
  PROVE  FirstIn(table, k) = table[i]
<1> DEFINE First(n) == /\ IsMatchPackerSig(table[n], k, k)
                       /\ \A j \in 1..(n - 1) : ~IsMatchPackerSig(table[j], k, k)
<1>1. First(i)
  OBVIOUS
<1>2. ASSUME NEW n \in 1..Len(table), First(n) PROVE n = i
  <2>1. CASE n < i
    <3>1. n \in 1..(i - 1)
      BY <2>1
    <3> QED BY <3>1, <1>2
  <2>2. CASE i < n
    <3>1. i \in 1..(n - 1)
      BY <2>2
    <3> QED BY <3>1, <1>2
  <2> QED BY <2>1, <2>2
<1>3. (CHOOSE n \in 1..Len(table) : First(n)) = i
  <2> HIDE DEF First
  <2> QED BY <1>1, <1>2
<1> QED BY <1>3 DEF FirstIn

\* ... and NoType if there is none.
LEMMA FirstInMiss ==
  ASSUME NEW table, NEW k,
         \A j \in 1..Len(table) : ~IsMatchPackerSig(table[j], k, k)
  PROVE  FirstIn(table, k) = NoType
  BY DEF FirstIn

\* The table of the loop is the one the kind of the file calls for.
LEMMA TableOfKind ==
  ASSUME pc \in {"pe", "overlay", "npe"}, (pc # "npe") = (snap.form = "pe")
  PROVE  Classify(snap) = FirstIn(Table, snap) /\ Len(Table) \in Nat
  BY TableFacts DEF Classify, Table

LEMMA InitLoopInv == Init => LoopInv
  BY DEF Init, LoopInv

\* Every step keeps LoopInv.  The image and the file on disk coincide in a
\* call during which the file had one kind only.
LEMMA NextLoopInv == TypeOK /\ CallInv /\ LoopInv /\ [Next]_vars => LoopInv'
<1> SUFFICES ASSUME TypeOK, CallInv, LoopInv, [Next]_vars PROVE LoopInv'
  OBVIOUS
<1>1. CASE CallNullTarget
  BY <1>1 DEF LoopInv, CallNullTarget, fileVars, callVars, Table
<1>2. CASE Call
  BY <1>2 DEF LoopInv, Call
<1>3. CASE CheckTarget
  BY <1>3 DEF LoopInv, CheckTarget, ReturnFalse, fileVars, callVars
<1>4. CASE CheckOutput
  BY <1>4 DEF LoopInv, CheckOutput, ReturnFalse, fileVars, callVars, Table
<1>5. CASE LoadNPE
  <2>1. snap \in seen /\ snap.form # "pe" /\ idx = 1
    BY <1>5 DEF LoopInv, LoadNPE
  <2>2. snap' = world[req.file] /\ pc' = "npe" /\ pc = "load"
    BY <1>5 DEF LoadNPE
  <2>3. UNCHANGED << world, seen, req, idx, size >>
    BY <1>5 DEF LoadNPE, fileVars
  <2>4. 1..(idx' - 1) = {}
    BY <2>1, <2>3
  <2> QED BY <2>1, <2>2, <2>3, <2>4 DEF LoopInv
<1>6. CASE TryMatcher
  <2>1. idx \in Nat /\ idx >= 1 /\ idx <= Len(Table) /\ Len(Table) \in Nat
    BY <1>6, TryIndex, TableLength DEF TryMatcher
  <2>2. UNCHANGED << world, seen, req, snap, size >> /\ pc \in {"pe", "npe"}
    BY <1>6 DEF TryMatcher, fileVars, callVars
  <2>3. snap \in seen /\ world[req.file] \in seen
    BY <2>2 DEF LoopInv
  <2>4. seen = {snap} => /\ world[req.file] = snap
                         /\ (pc # "npe") = (snap.form = "pe")
                         /\ Classify(snap) = FirstIn(Table, snap)
                         /\ \A j \in 1..(idx - 1) : ~IsMatchPackerSig(Table[j], snap, snap)
    BY <2>2, <2>3, TableOfKind DEF LoopInv, CallInv
  <2>5. CASE SaysYes(Table[idx]) /\ Recognise(Table[idx])
    <3>1. info'.type = Table[idx] /\ pc' \in {"unpack", "clear"}
      BY <2>5 DEF TypeOK, Infos, Recognise
    <3>2. IsMatchPackerSig(Table[idx], snap, world[req.file])
      BY <2>5 DEF SaysYes, IsMatchPackerSig
    <3>3. seen = {snap} => info'.type = Classify(snap)
      BY <2>1, <2>4, <3>1, <3>2, FirstInHit
    <3> QED BY <2>2, <2>3, <3>1, <3>2, <3>3 DEF LoopInv
  <2>6. CASE /\ ~SaysYes(Table[idx])
             /\ Table[idx] \in OverlayMatchers
             /\ pc' = "overlay"
             /\ UNCHANGED << idx, info >>
    <3>1. Table' = Table /\ pc # "npe"
      BY <1>6, <2>1, <2>2, <2>6, NotMeasured DEF Table
    <3>2. ~SaysYes(Table[idx])'
      BY <2>2, <2>6, <3>1 DEF SaysYes
    <3> QED BY <2>2, <2>3, <2>4, <2>6, <3>1, <3>2 DEF LoopInv
  <2>7. CASE /\ ~SaysYes(Table[idx])
             /\ Table[idx] \notin snap.overlay \cup snap.resized
             /\ PassOver
    <3>1. idx' = idx + 1 /\ pc' = pc /\ Table' = Table
      BY <2>2, <2>7 DEF PassOver, LoopHead, Table
    <3>2. seen = {snap} => ~IsMatchPackerSig(Table[idx], snap, snap)
      BY <2>4, <2>7 DEF SaysYes, IsMatchPackerSig
    <3>3. seen = {snap} =>
            \A j \in 1..(idx' - 1) : ~IsMatchPackerSig(Table[j], snap, snap)
      BY <2>1, <2>4, <3>1, <3>2
    <3> QED BY <2>2, <2>3, <3>1, <3>3 DEF LoopInv
  <2> QED BY <1>6, <2>5, <2>6, <2>7, TryCases
<1>7. CASE NoMatch
  <2>1. UNCHANGED << world, seen, req, snap, size, info >> /\ pc \in {"pe", "npe"}
    BY <1>7 DEF NoMatch, fileVars, callVars
  <2>2. idx \in Nat /\ Len(Table) \in Nat /\ idx > Len(Table)
    BY <1>7, TableFacts, TableLength DEF TypeOK, NoMatch
  <2>3. info.type = NoType
    BY <2>1 DEF CallInv, NoInfo
  <2>4. seen = {snap} => Classify(snap) = NoType
    <3> SUFFICES ASSUME seen = {snap} PROVE Classify(snap) = NoType
      OBVIOUS
    <3>1. Classify(snap) = FirstIn(Table, snap)
      BY <2>1, TableOfKind DEF LoopInv, CallInv
    <3>2. \A j \in 1..Len(Table) : ~IsMatchPackerSig(Table[j], snap, snap)
      BY <2>1, <2>2 DEF LoopInv
    <3> QED BY <3>1, <3>2, FirstInMiss
  <2> QED BY <1>7, <2>1, <2>3, <2>4 DEF LoopInv, NoMatch
<1>8. CASE Unpack
  <2>1. info'.type = info.type
    BY <1>8 DEF TypeOK, Infos, Unpack
  <2>2. UNCHANGED << world, seen, req, snap, size >> /\ pc = "unpack" /\ pc' = "clear"
    BY <1>8 DEF Unpack, fileVars, callVars
  <2> QED BY <2>1, <2>2 DEF LoopInv
<1>9. CASE Clear
  BY <1>9 DEF LoopInv, Clear, fileVars, callVars
<1>10. CASE Replace
  <2>1. PICK f \in Files, k \in Kinds :
          /\ k # world[f]
          /\ world' = [world EXCEPT ![f] = k]
          /\ seen' = IF pc # "idle" /\ req.file = f THEN seen \cup {k} ELSE seen
    BY <1>10 DEF Replace
  <2>2. UNCHANGED << req, snap, pc, idx, size, info >> /\ Table' = Table
    BY <1>10 DEF Replace, callVars, Table
  <2>3. world'[req.file] = IF req.file = f THEN k ELSE world[req.file]
    BY <2>1, CallFields DEF TypeOK
  <2>4. CASE pc = "idle"
    BY <2>2, <2>4 DEF LoopInv
  <2>5. CASE pc # "idle"
    <3>1. snap \in seen /\ world[req.file] \in seen
      BY <2>5 DEF LoopInv
    <3>2. seen \subseteq seen' /\ snap \in seen' /\ world'[req.file] \in seen'
      BY <2>1, <2>3, <2>5, <3>1
    <3>3. seen' = {snap} => seen = {snap} /\ world'[req.file] = world[req.file]
      BY <2>1, <2>3, <2>5, <3>1, <3>2
    <3>4. seen' = {snap} => (SaysYes(Table[idx]) <=> SaysYes(Table[idx])')
      BY <2>2, <3>3 DEF SaysYes
    <3> QED BY <2>2, <2>5, <3>2, <3>3, <3>4 DEF LoopInv
  <2> QED BY <2>4, <2>5
<1>11. CASE UNCHANGED vars
  BY <1>11 DEF LoopInv, vars, Table, SaysYes
<1>12. CASE TryOverlay
  <2> DEFINE m == Table[idx]
  <2>1. idx \in Nat /\ idx >= 1 /\ idx <= Len(Table) /\ Len(Table) \in Nat
    BY <1>12, OverlayIndex, TableLength
  <2>2. UNCHANGED << world, seen, req, snap >> /\ pc = "overlay"
    BY <1>12 DEF TryOverlay, fileVars, callVars
  <2>3. snap \in seen /\ world[req.file] \in seen
    BY <2>2 DEF LoopInv
  <2>4. size' = 0 \/ \E n \in seen : n.size = size'
    BY <1>12, <2>2, <2>3 DEF LoopInv, TryOverlay, GetPEFileSize, TypeOK
  <2>5. seen = {snap} => size' = snap.size
    BY <1>12, <2>2, <2>3 DEF LoopInv, TryOverlay, GetPEFileSize, TypeOK
  <2>6. seen = {snap} => /\ world[req.file] = snap
                         /\ Classify(snap) = FirstIn(Table, snap)
                         /\ ~SaysYes(m)
                         /\ \A j \in 1..(idx - 1) : ~IsMatchPackerSig(Table[j], snap, snap)
    BY <2>2, <2>3, TableOfKind DEF LoopInv, CallInv
  <2>7. CASE TRUE \in OverlayAnswers(m, size') /\ Recognise(m)
    <3>1. info'.type = m /\ pc' \in {"unpack", "clear"}
      BY <2>7 DEF TypeOK, Infos, Recognise
    <3>2. \E n \in seen : IsMatchPackerSig(m, snap, n)
      <4>1. m \in snap.overlay \/ (m \in snap.resized /\ size' # snap.size /\ size' # 0)
        BY <2>7 DEF OverlayAnswers
      <4> QED BY <2>3, <2>4, <4>1 DEF IsMatchPackerSig
    <3>3. seen = {snap} => info'.type = Classify(snap)
      BY <2>1, <2>6, <3>1, <3>2, FirstInHit
    <3> QED BY <2>2, <2>3, <2>4, <3>1, <3>2, <3>3 DEF LoopInv
  <2>8. CASE FALSE \in OverlayAnswers(m, size') /\ PassOver
    <3>1. idx' = idx + 1 /\ pc' = "pe" /\ Table' = Table
      BY <2>2, <2>8 DEF PassOver, LoopHead, Table
    <3>2. size' = snap.size => m \notin snap.overlay
      BY <2>8 DEF OverlayAnswers
    <3>3. seen = {snap} => ~IsMatchPackerSig(m, snap, snap)
      BY <2>5, <2>6, <3>2 DEF SaysYes, IsMatchPackerSig
    <3>4. seen = {snap} =>
            \A j \in 1..(idx' - 1) : ~IsMatchPackerSig(Table[j], snap, snap)
      BY <2>1, <2>6, <3>1, <3>3
    <3> QED BY <2>2, <2>3, <2>4, <3>1, <3>4 DEF LoopInv
  <2> QED BY <1>12, <2>7, <2>8 DEF TryOverlay
<1> QED
  BY <1>1, <1>2, <1>3, <1>4, <1>5, <1>6, <1>7, <1>8, <1>9, <1>10, <1>11, <1>12
  DEF Next, ScanFileStep

\* While the matchers are gone through, the file has been what each reading of
\* it says, be it mapped, opened by the engine or measured; if it has been one
\* kind only, none of those passed over recognises it; and the one that ends
\* the loop may.
THEOREM LoopIsConsistent == Spec => []LoopInv
<1>1. TypeOK /\ CallInv /\ LoopInv /\ [Next]_vars
        => TypeOK' /\ CallInv' /\ LoopInv'
  BY NextTypeOK, NextCallInv, NextLoopInv
<1> QED BY InitTypeOK, InitCallInv, InitLoopInv, <1>1, PTL DEF Spec

\* The matcher loop takes the first matcher in registration order.
THEOREM LoopIsOrdered == Spec => []FirstMatchWins
<1>1. LoopInv => FirstMatchWins
  BY DEF LoopInv, FirstMatchWins
<1> QED BY LoopIsConsistent, <1>1, PTL

-----------------------------------------------------------------------------
(* Refinement.                                                             *)

\* The two copies of the shared definitions say the same.
LEMMA SameWords ==
  /\ \A m, k, n : Service!IsMatchPackerSig(m, k, n) <=> IsMatchPackerSig(m, k, n)
  /\ \A out : Service!IsValidOutputPath(out) <=> IsValidOutputPath(out)
  /\ \A r : Service!Targets(r) = IF r.out = EmptyPath THEN {Cwd, Root}
                                 ELSE {CheckOutputDir(r.out)}
  /\ Service!Matchers = Matchers
  /\ Service!NoType = NoType
  /\ Service!Dirs = Dirs
  /\ Service!Refused = Refused
  /\ Service!Requests = Calls
  BY DEF Service!IsMatchPackerSig, IsMatchPackerSig, Service!IsValidOutputPath,
         IsValidOutputPath, Service!Targets, Service!CheckOutputDir, CheckOutputDir,
         Service!Matchers, Matchers, Service!NoType, NoType, Service!Dirs, Dirs,
         Service!Refused, Refused, Service!Requests, Calls, Detect, Extract,
         Service!OutPaths, OutPaths

LEMMA SameClassify == \A k : Service!Classify(k) = Classify(k)
<1>1. \A table, k : Service!FirstIn(table, k) = FirstIn(table, k)
  BY DEF Service!FirstIn, FirstIn, Service!IsMatchPackerSig, IsMatchPackerSig,
         Service!NoType, NoType
<1>2. /\ Service!RegisterAllPEPackMatcher = RegisterAllPEPackMatcher
      /\ Service!RegisterAllNPEPackMatcher = RegisterAllNPEPackMatcher
  BY DEF Service!RegisterAllPEPackMatcher, RegisterAllPEPackMatcher,
         Service!RegisterAllNPEPackMatcher, RegisterAllNPEPackMatcher
<1> QED BY <1>1, <1>2 DEF Service!Classify, Classify

LEMMA InitRefines == Init => Service!Init
  BY SameWords DEF Init, Service!Init, Calls

\* What a call may have found justifies what it reports.
LEMMA ReportIsJustified ==
  ASSUME TypeOK, LoopInv, pc = "clear"
  PROVE  info.type \in Service!TypesFor(seen)
<1>1. snap \in seen
  BY DEF LoopInv
<1>2. CASE seen = {snap}
  <2>1. info.type = Service!Classify(snap)
    BY <1>2, SameClassify DEF LoopInv
  <2> QED BY <1>2, <2>1 DEF Service!TypesFor
<1>3. CASE seen # {snap}
  <2>1. ~\E k \in seen : seen = {k}
    BY <1>1, <1>3
  <2>2. info.type \in Matchers \cup {NoType}
    BY DEF TypeOK, Infos
  <2>3. info.type # NoType =>
          \E k, n \in seen : Service!IsMatchPackerSig(info.type, k, n)
    BY SameWords DEF LoopInv
  <2> QED BY <2>1, <2>2, <2>3, SameWords DEF Service!TypesFor
<1> QED BY <1>2, <1>3

LEMMA NextRefines ==
  TypeOK /\ CallInv /\ LoopInv /\ [Next]_vars
    => [Service!Next]_(Service!serviceVars)
<1> SUFFICES ASSUME TypeOK, CallInv, LoopInv, [Next]_vars
             PROVE  Service!Next \/ UNCHANGED Service!serviceVars
  OBVIOUS
<1> USE SameWords
<1>1. CASE CallNullTarget
  BY <1>1 DEF CallNullTarget, fileVars, callVars, Service!Next, Service!RefuseNull
<1>2. CASE Call
  BY <1>2 DEF Call, Service!Next, Service!Ask
<1>3. CASE CheckTarget
  <2>1. CASE world[req.file].form = "absent"
    <3>1. Refused \in Service!Replies(req, seen)
      BY <1>3, <2>1 DEF LoopInv, CheckTarget, Service!Replies
    <3> QED BY <1>3, <2>1, <3>1
            DEF CheckTarget, ReturnFalse, fileVars, callVars, Service!Next,
                Service!Reply
  <2>2. CASE world[req.file].form # "absent"
    BY <1>3, <2>2 DEF CheckTarget, fileVars, callVars, Service!serviceVars
  <2> QED BY <2>1, <2>2
<1>4. CASE CheckOutput
  <2>1. CASE ~IsValidOutputPath(req.out)
    <3>1. Refused \in Service!Replies(req, seen)
      BY <2>1 DEF Service!Replies
    <3> QED BY <1>4, <2>1, <3>1
            DEF CheckOutput, ReturnFalse, fileVars, callVars, Service!Next,
                Service!Reply
  <2>2. CASE IsValidOutputPath(req.out)
    BY <1>4, <2>2 DEF CheckOutput, fileVars, callVars, Service!serviceVars
  <2> QED BY <2>1, <2>2
<1>5. CASE LoadNPE \/ NoMatch
  BY <1>5 DEF LoadNPE, NoMatch, fileVars, callVars, Service!serviceVars
<1>6. CASE TryMatcher
  <2>1. pc # "idle" /\ pc' # "idle"
    BY <1>6, TryCases DEF TryMatcher, Recognise, PassOver, LoopHead
  <2> QED BY <1>6, <2>1 DEF TryMatcher, fileVars, callVars, Service!serviceVars
<1>7. CASE Unpack
  <2>1. /\ pc = "unpack" /\ pc' = "clear"
        /\ UNCHANGED << world, req, seen, ans >>
    BY <1>7 DEF Unpack, fileVars, callVars
  <2>2. req.api = "extract" /\ IsValidOutputPath(req.out)
    BY <2>1 DEF CallInv, LoopInv
  <2>3. PICK o \in AnyOutcome : disk' = Written(o, CheckOutputDir(req.out))
    BY <1>7, OutcomesType DEF Unpack
  <2> DEFINE S == {d \in Dirs : \/ o.wrote /\ d = CheckOutputDir(req.out)
                                \/ o.left /\ d = DumpDir(req.out)}
  <2>4. S \in SUBSET Service!Targets(req)
    BY DEF DumpDir, CheckOutputDir
  <2>5. disk' = [d \in Service!Dirs |-> IF d \in S THEN disk[d] \cup {req.file}
                                                 ELSE disk[d]]
    BY <2>3 DEF Written
  <2> HIDE DEF S
  <2> QED BY <2>1, <2>2, <2>4, <2>5 DEF Service!Next, Service!Write
<1>8. CASE Clear
  <2>1. info.type \in Service!TypesFor(seen)
    BY <1>8, ReportIsJustified DEF Clear
  <2>2. (\E k \in seen : k.form # "absent") /\ IsValidOutputPath(req.out)
    BY <1>8 DEF LoopInv, Clear
  <2>3. info.success \in BOOLEAN
    BY DEF TypeOK, Infos
  <2>4. info.success => req.api = "extract" /\ info.type # NoType
    BY TableFacts DEF CallInv
  <2>5. ans' \in [ret : {TRUE}, type : Service!TypesFor(seen), success : BOOLEAN]
    BY <1>8, <2>1, <2>3 DEF Clear
  <2>6. ans' \in Service!Replies(req, seen)
    BY <1>8, <2>2, <2>4, <2>5 DEF Clear, Service!Replies
  <2> QED BY <1>8, <2>6 DEF Clear, fileVars, callVars, Service!Next, Service!Reply
<1>9. CASE Replace
  BY <1>9 DEF Replace, callVars, Service!Next, Service!Change
<1>10. CASE UNCHANGED vars
  BY <1>10 DEF vars, Service!serviceVars
<1>11. CASE TryOverlay
  <2>1. pc # "idle" /\ pc' # "idle"
    BY <1>11 DEF TryOverlay, Recognise, PassOver, LoopHead
  <2> QED BY <1>11, <2>1 DEF TryOverlay, fileVars, callVars, Service!serviceVars
<1> QED
  BY <1>1, <1>2, <1>3, <1>4, <1>5, <1>6, <1>7, <1>8, <1>9, <1>10, <1>11
  DEF Next, ScanFileStep

\* ScanFile implements the service as InstallerService states it: it writes
\* only for an extraction and only into the output directory, which without an
\* output path is the process's own and not, as export.h has it, the
\* installer's (and "/" too, for the .NET temporaries of ""); and it answers
\* nothing that the content of the file does not justify.
THEOREM ScanFileImplementsService == Spec => Implements
<1>1. TypeOK /\ CallInv /\ LoopInv /\ [Next]_vars
        => TypeOK' /\ CallInv' /\ LoopInv'
  BY NextTypeOK, NextCallInv, NextLoopInv
<1> QED
  BY InitTypeOK, InitCallInv, InitLoopInv, InitRefines, NextRefines, <1>1, PTL
  DEF Spec, Implements, Service!Spec
=============================================================================
