-------------------------- MODULE InstallerService --------------------------
(***************************************************************************)
(* What the library offers through export.h, with no matcher loop, no      *)
(* parser and no unpacker in sight: a client asks for one file at a time;  *)
(* the service may put extracted files where the request allows, and only  *)
(* for an extraction; it then replies.  The reply is a refusal only        *)
(* when the file or the output directory was missing, and otherwise names  *)
(* a type that the content of the file during the call justifies.          *)
(*                                                                         *)
(* In one point the service is weaker than export.h, line 64: without an   *)
(* output path that promises the installer's own directory, while this     *)
(* service may write where the process runs and, for "", temporaries in    *)
(* "/" (see NextToInstaller in UnpackManager).                             *)
(*                                                                         *)
(* The file system belongs to everybody: another program may replace or    *)
(* remove the file while the call runs.                                    *)
(***************************************************************************)
EXTENDS Installers

VARIABLES
  world,   \* the kind of file at each path
  disk,    \* the installers whose contents each directory holds
  phase,   \* "ready" for a call or "busy" with one
  req,     \* the call being served
  seen,    \* the kinds the file of that call has had since the call began
  ans      \* the last reply

serviceVars == << world, disk, phase, req, seen, ans >>

Requests ==
  [api : {"detect"}, file : Files, out : {NullPath}]
    \cup [api : {"extract"}, file : Files, out : OutPaths]

Refused == [ret |-> FALSE, type |-> NoType, success |-> FALSE]

\* The types a call may report when its file had the kinds S meanwhile: if
\* the file did not change, exactly the one the matcher tables give it.
TypesFor(S) ==
  IF \E k \in S : S = {k}
  THEN {Classify(k) : k \in S}
  ELSE {NoType} \cup {m \in Matchers : \E k, n \in S : IsMatchPackerSig(m, k, n)}

Replies(r, S) ==
  {a \in {Refused} :
     (\E k \in S : k.form = "absent") \/ ~IsValidOutputPath(r.out)}
  \cup
  {a \in [ret : {TRUE}, type : TypesFor(S), success : BOOLEAN] :
     /\ IsValidOutputPath(r.out)
     /\ \E k \in S : k.form # "absent"
     /\ a.success => r.api = "extract" /\ a.type # NoType}

Init ==
  /\ world \in [Files -> Kinds]
  /\ disk \in [Dirs -> SUBSET Files]
  /\ phase = "ready"
  /\ req \in Requests
  /\ seen = {}
  /\ ans = Refused

\* A client calls; a NULL path is refused on the spot.
Ask ==
  /\ phase = "ready"
  /\ phase' = "busy"
  /\ req' \in Requests
  /\ seen' = {world[req'.file]}
  /\ UNCHANGED << world, disk, ans >>

RefuseNull ==
  /\ phase = "ready"
  /\ ans' = Refused
  /\ UNCHANGED << world, disk, phase, req, seen >>

\* Where files of a request may appear.
Targets(r) ==
  IF r.out = EmptyPath THEN {Cwd, Root} ELSE {CheckOutputDir(r.out)}

Write ==
  /\ phase = "busy"
  /\ req.api = "extract"
  /\ IsValidOutputPath(req.out)
  /\ \E S \in SUBSET Targets(req) :
       disk' = [d \in Dirs |-> IF d \in S THEN disk[d] \cup {req.file} ELSE disk[d]]
  /\ UNCHANGED << world, phase, req, seen, ans >>

Reply ==
  /\ phase = "busy"
  /\ phase' = "ready"
  /\ ans' \in Replies(req, seen)
  /\ UNCHANGED << world, disk, req, seen >>

\* Another program changes what is at a path.
Change ==
  \E f \in Files, k \in Kinds :
    /\ world' = [world EXCEPT ![f] = k]
    /\ seen' = IF phase = "busy" /\ req.file = f THEN seen \cup {k} ELSE seen
    /\ UNCHANGED << disk, phase, req, ans >>

Next == Ask \/ RefuseNull \/ Write \/ Reply \/ Change

Spec == Init /\ [][Next]_serviceVars
=============================================================================
