---------------------------- MODULE CommitProofs -----------------------------
(***************************************************************************)
(* manifest.txt is a commit record: proved for every set of packages and   *)
(* build types, any number of invocations that install different packages  *)
(* at the same time, one of them from source, every kill and every failure *)
(* but those named in Noticed.                                             *)
(***************************************************************************)
EXTENDS InstallProofs

(* What an invocation may come to install.                                 *)
Reach(p) == UNION {Needs(q) : q \in Requests[p]}

(* Invocations that run together share the home directory and its scratch  *)
(* directories, but neither a package nor an archive of one.               *)
Apart ==
  \A p, q \in Procs : p # q =>
    /\ Reach(p) \cap Reach(q) = {}
    /\ \A r \in Reach(p) \cap Packages, s \in Reach(q) \cap Packages :
         ArchiveOf[r] # ArchiveOf[s]

(* A dependency is a binary package without dependencies of its own, as in *)
(* the recipes.  (A source package as a dependency cannot be installed,    *)
(* having no prefix to log into.  Of a dependency with dependencies a      *)
(* sampled check may take a file that a sibling has placed for its own.)   *)
Flat ==
  \A q \in Packages : \A i \in 1..Len(DEPENDS[q]) : DEPENDS[q][i] \in Packages =>
    DEPENDS[q][i] \in Binary /\ DEPENDS[DEPENDS[q][i]] = <<>>

(* The recipe's DEPENDS is read.                                           *)
Parsed == "deps" \notin Unchecked

-----------------------------------------------------------------------------
(* The call.  A root call goes through its dependencies one by one; a      *)
(* nested one is for the last one it came to.                              *)
Preparing == {"verify", "wipe", "wipeSrc", "mkSrc", "wipeBld", "mkBld", "mkdir"}
Fetching  == {"download", "wget", "wgetting", "hash", "unzstd", "unzstding", "untar"}
Here(p)   == stack[p][1].dep

Called(p) ==
  /\ Root(p) \in Requests[p]
  /\ pc[p] \in OfSource => Pkg(p) \notin Binary
  /\ pc[p] = "unpacking" => Pkg(p) \in Binary
  /\ pc[p] \in {"mkdir", "lines"} => ~Nested(p)
  /\ Here(p) <= Len(DEPENDS[Root(p)]) + 1
  /\ Nested(p) =>
       /\ Len(stack[p]) = 2
       /\ Here(p) - 1 \in 1..Len(DEPENDS[Root(p)])
       /\ Pkg(p) = DEPENDS[Root(p)][Here(p) - 1]
  /\ ~Nested(p) =>
       /\ pc[p] \in Preparing => Here(p) = 1
       /\ pc[p] \notin Preparing \cup {"deps", "returned"} =>
            Here(p) = Len(DEPENDS[Root(p)]) + 1

Calling == \A p \in Procs : pc[p] # "idle" => Called(p) /\ Verified(p)

(* What a call stands for, under the assumptions.                          *)
LEMMA Placing ==
  ASSUME TypeOK, Flat, NEW p \in Procs, pc[p] # "idle", Called(p)
  PROVE  /\ Root(p) \in Needs(Root(p)) /\ Pkg(p) \in Needs(Root(p))
         /\ Needs(Root(p)) \subseteq Reach(p)
         /\ Own(p) \in Prefixes /\ Dest(p) \in Prefixes
         /\ Own(p)[1] = Pkg(p) /\ Dest(p)[1] = Root(p)
         /\ ~Nested(p) => Pkg(p) = Root(p) /\ Own(p) = Dest(p) /\ Top(p) = stack[p][1]
         /\ Nested(p) => /\ Pkg(p) # Root(p) /\ Own(p) # Dest(p)
                         /\ Pkg(p) \in Binary /\ DEPENDS[Pkg(p)] = <<>>
<1>1. /\ Pkg(p) \in Packages /\ Root(p) \in Packages /\ Own(p) \in Prefixes
      /\ Dest(p) \in Prefixes /\ Len(stack[p]) \in Nat \ {0} /\ Top(p) \in Frame
  BY Typing DEF TypeOK
<1>2. Own(p)[1] = Pkg(p) /\ Dest(p)[1] = Root(p)
  BY DEF Own, Dest, PrefixOf
<1>3. Root(p) \in Needs(Root(p)) /\ Needs(Root(p)) \subseteq Reach(p)
  BY DEF Needs, Reach, Called
<1>4. CASE ~Nested(p)
  <2>1. Len(stack[p]) = 1
    <3> DEFINE n == Len(stack[p])
    <3>1. n \in Nat \ {0} /\ ~(n > 1)
      BY <1>1, <1>4 DEF Nested
    <3> HIDE DEF n
    <3>2. n = 1
      BY <3>1
    <3> QED
      BY <3>2 DEF n
  <2>2. Pkg(p) = Root(p) /\ Own(p) = Dest(p) /\ Top(p) = stack[p][1]
    BY <2>1 DEF Pkg, Root, Top, Own, Dest
  <2> QED
    BY <1>1, <1>2, <1>3, <1>4, <2>2
<1>5. CASE Nested(p)
  <2> DEFINE i == Here(p) - 1
  <2>1. i \in 1..Len(DEPENDS[Root(p)]) /\ Pkg(p) = DEPENDS[Root(p)][i]
    BY <1>5 DEF Called
  <2> HIDE DEF i
  <2>2. Pkg(p) \in Binary /\ DEPENDS[Pkg(p)] = <<>>
    BY <1>1, <2>1 DEF Flat
  <2>3. Pkg(p) # Root(p)
    <3> SUFFICES ASSUME Pkg(p) = Root(p) PROVE FALSE
      OBVIOUS
    <3>1. Len(DEPENDS[Root(p)]) = 0
      BY <2>2
    <3> QED
      BY <2>1, <3>1
  <2>4. Pkg(p) \in Needs(Root(p))
    BY <2>1 DEF Needs
  <2> QED
    BY <1>1, <1>2, <1>3, <1>5, <2>2, <2>3, <2>4
<1> QED
  BY <1>4, <1>5

(* What depends on the call alone.                                         *)
LEMMA SameFrame ==
  ASSUME NEW p, stack'[p] = stack[p], todo'[p] = todo[p]
  PROVE  /\ Pkg(p)' = Pkg(p) /\ Root(p)' = Root(p) /\ Nested(p)' = Nested(p)
         /\ Own(p)' = Own(p) /\ Dest(p)' = Dest(p) /\ Archive(p)' = Archive(p)
         /\ Here(p)' = Here(p)
BY DEF Pkg, Root, Top, Nested, Own, Dest, Archive, Here

(* The steps of the others leave it alone.                                 *)
SameCallOf(p) ==
  /\ pc'[p] = pc[p] /\ stack'[p] = stack[p] /\ todo'[p] = todo[p]
  /\ left'[p] = left[p] /\ outcome'[p] = outcome[p]

LEMMA OthersCall ==
  ASSUME TypeOK, NEW p \in Procs, NEW q \in Procs, p # q, Acts(q)
  PROVE  SameCallOf(p)
<1> USE DEF TypeOK, CallOK, SameCallOf, Goto, Abort, End, Finish, Accept, call
<1>1. ASSUME NEW pkg \in Requests[q], Invoke(q, pkg) PROVE SameCallOf(p)
  BY <1>1 DEF Invoke
<1>2. CASE DownloadStep(q) \/ DownloadFault(q)
  BY <1>2 DEF DownloadStep, DownloadFault, CheckCache, OpenArchive, Fetch, FetchOther,
              CheckHash, Unzstd, Unzstded, UntarSource, UntarBinary, UntarFails, Clone,
              CloneBinary, Reset, ResetFails
<1>3. CASE InstallFault(q)
  BY <1>3 DEF InstallFault, SkipDependencies, LoseTail, Fails, Crash
<1>4. CASE InstallStep(q)
  BY <1>4 DEF InstallStep, AlreadyInstalled, NeedInstall, RemoveEntry, RemovePrefix,
              RemoveSource, CreateSource, RemoveBuild, CreateBuild, CreateInstallDir,
              InstallDependency, UnknownDependency, DependenciesInstalled, OpenLog,
              Configure, Make, MakeInstall, MakeFails, PlaceFile, TargetGone,
              FilesPlaced, OpenManifest, WriteLine, CloseManifest, CleanSource,
              CleanBuild, Return
<1> QED
  BY <1>1, <1>2, <1>3, <1>4 DEF Acts, Step

(* Who is not running can only start.                                      *)
LEMMA IdleOnlyStarts ==
  ASSUME NEW q \in Procs, pc[q] = "idle"
  PROVE  ~Step(q) /\ ~DownloadFault(q) /\ ~InstallFault(q)
<1> USE DEF At
<1>1. ~DownloadStep(q) /\ ~DownloadFault(q)
  BY DEF DownloadStep, DownloadFault, CheckCache, OpenArchive, Fetch, FetchOther,
         CheckHash, Unzstd, Unzstded, UntarSource, UntarBinary, UntarFails, Clone,
         CloneBinary, Reset, ResetFails, Unnoticed
<1>2. ~InstallFault(q)
  BY HomeAssumption DEF InstallFault, SkipDependencies, LoseTail, Fails, Crash,
                        Unnoticed, Fallible
<1>3. ~InstallStep(q)
  BY DEF InstallStep, AlreadyInstalled, NeedInstall, RemoveEntry, RemovePrefix,
         RemoveSource, CreateSource, RemoveBuild, CreateBuild, CreateInstallDir,
         InstallDependency, UnknownDependency, DependenciesInstalled, OpenLog,
         Configure, Make, MakeInstall, MakeFails, PlaceFile, TargetGone, FilesPlaced,
         OpenManifest, WriteLine, CloseManifest, CleanSource, CleanBuild, Return
<1> QED
  BY <1>1, <1>2, <1>3 DEF Step

LEMMA SameActivation ==
  ASSUME TypeOK, NEW p \in Procs, Step(p) \/ DownloadFault(p) \/ InstallFault(p),
         ~InstallDependency(p), ~Return(p)
  PROVE  pc'[p] = "idle" \/ (stack'[p] = stack[p] /\ todo'[p] = todo[p])
<1> USE DEF TypeOK, CallOK, Goto, Abort, End, Finish, Accept, call
<1>1. CASE DownloadStep(p) \/ DownloadFault(p)
  BY <1>1 DEF DownloadStep, DownloadFault, CheckCache, OpenArchive, Fetch, FetchOther,
              CheckHash, Unzstd, Unzstded, UntarSource, UntarBinary, UntarFails, Clone,
              CloneBinary, Reset, ResetFails
<1>2. CASE InstallFault(p)
  BY <1>2 DEF InstallFault, SkipDependencies, LoseTail, Fails, Crash
<1>3. CASE InstallStep(p)
  BY <1>3 DEF InstallStep, AlreadyInstalled, NeedInstall, RemoveEntry, RemovePrefix,
              RemoveSource, CreateSource, RemoveBuild, CreateBuild, CreateInstallDir,
              UnknownDependency, DependenciesInstalled, OpenLog, Configure, Make,
              MakeInstall, MakeFails, PlaceFile, TargetGone, FilesPlaced,
              OpenManifest, WriteLine, CloseManifest, CleanSource, CleanBuild
<1> QED
  BY <1>1, <1>2, <1>3 DEF Step

(* A call for a dependency, and the return from it.                        *)
LEMMA CallFrame ==
  ASSUME TypeOK, Flat, NEW p \in Procs, pc[p] # "idle", Called(p), InstallDependency(p)
  PROVE  /\ pc[p] = "deps" /\ pc'[p] = "verify" /\ ~Nested(p) /\ Root(p) \in Packages
         /\ Here(p) \in Nat \ {0} /\ Here(p) <= Len(DEPENDS[Root(p)])
         /\ DEPENDS[Root(p)][Here(p)] \in Packages
         /\ Root(p)' = Root(p) /\ Here(p)' = Here(p) + 1 /\ Nested(p)'
         /\ Pkg(p)' = DEPENDS[Root(p)][Here(p)] /\ Len(stack'[p]) = 2
         /\ UNCHANGED <<files, manifest, scratchVars, todo>>
<1> USE DEF At
<1> DEFINE s == stack[p]
           d == DEPENDS[Root(p)][Here(p)]
<1>1. /\ pc[p] = "deps" /\ s \in Seq(Frame) /\ Len(s) \in Nat \ {0} /\ Top(p) \in Frame
      /\ Root(p) \in Packages
      /\ UNCHANGED <<files, manifest, scratchVars, todo>>
  BY Typing DEF InstallDependency, TypeOK, home, prefixVars
<1>2. ~Nested(p)
  <2> SUFFICES ASSUME Nested(p) PROVE FALSE
    OBVIOUS
  <2>1. Len(DEPENDS[Pkg(p)]) = 0
    <3>1. DEPENDS[Pkg(p)] = <<>>
      BY Placing
    <3> QED
      BY <3>1
  <2>2. Top(p).dep \in Nat \ {0}
    BY <1>1 DEF Frame
  <2> QED
    BY <2>1, <2>2 DEF InstallDependency, Dependencies
<1>3. Len(s) = 1 /\ Pkg(p) = Root(p) /\ Top(p) = s[1]
  <2>1. Pkg(p) = Root(p) /\ Top(p) = s[1]
    BY <1>2, Placing
  <2> DEFINE n == Len(s)
  <2>2. n \in Nat \ {0} /\ ~(n > 1)
    BY <1>1, <1>2 DEF Nested
  <2> HIDE DEF n
  <2>3. n = 1
    BY <2>2
  <2> QED
    BY <2>1, <2>3 DEF n
<1>4. Here(p) \in Nat \ {0} /\ Here(p) <= Len(DEPENDS[Root(p)]) /\ d \in Packages
  BY <1>1, <1>3 DEF Here, InstallDependency, Dependencies, Frame
<1>5. /\ pc'[p] = "verify" /\ Len(stack'[p]) = 2
      /\ stack'[p][1] = [pkg |-> Root(p), dep |-> Here(p) + 1]
      /\ stack'[p][2] = [pkg |-> d, dep |-> 1]
  <2> DEFINE e == [pkg |-> Root(p), dep |-> Here(p) + 1]
             t == [pkg |-> d, dep |-> 1]
  <2>1. NextDependency(s) = <<e>>
    <3>1. s = <<s[1]>>
      BY <1>1, <1>3
    <3> QED
      BY <1>3, <3>1 DEF NextDependency, Root, Here
  <2>2. pc'[p] = "verify" /\ stack'[p] = Append(NextDependency(s), t)
    BY <1>3 DEF InstallDependency, Dependencies, Here, TypeOK, CallOK
  <2>3. e \in Frame /\ t \in Frame
    BY <1>1, <1>4 DEF Frame
  <2> HIDE DEF e, t
  <2>4. <<e>> \in Seq(Frame) /\ Len(<<e>>) = 1
    BY <2>3
  <2>5. Len(Append(<<e>>, t)) = 2 /\ Append(<<e>>, t)[1] = e /\ Append(<<e>>, t)[2] = t
    BY <2>3, <2>4
  <2> QED
    BY <2>1, <2>2, <2>5 DEF e, t
<1> HIDE DEF d
<1>6. /\ Root(p)' = Root(p) /\ Here(p)' = Here(p) + 1 /\ Nested(p)' /\ Pkg(p)' = d
      /\ Len(stack'[p]) = 2
  <2>1. Root(p)' = Root(p) /\ Here(p)' = Here(p) + 1
    BY <1>5 DEF Root, Here
  <2>2. Nested(p)' /\ Pkg(p)' = d
    BY <1>5 DEF Nested, Pkg, Top
  <2> QED
    BY <1>5, <2>1, <2>2
<1> QED
  BY <1>1, <1>2, <1>4, <1>5, <1>6 DEF d

LEMMA ReturnFrame ==
  ASSUME TypeOK, NEW p \in Procs, pc[p] # "idle", Called(p), Return(p), Nested(p)
  PROVE  /\ pc[p] = "returned" /\ pc'[p] = "deps"
         /\ stack[p] \in Seq(Frame) /\ Len(stack[p]) = 2 /\ Len(stack'[p]) = 1
         /\ Root(p)' = Root(p) /\ Here(p)' = Here(p) /\ ~Nested(p)'
         /\ Pkg(p)' = Root(p) /\ Dest(p)' = Dest(p)
         /\ UNCHANGED <<files, manifest, scratchVars, todo>>
<1> USE DEF At
<1>1. /\ pc[p] = "returned" /\ stack[p] \in Seq(Frame) /\ Len(stack[p]) = 2
      /\ pc'[p] = "deps" /\ stack'[p] = SubSeq(stack[p], 1, 1)
      /\ UNCHANGED <<files, manifest, scratchVars, todo>>
  <2>1. /\ pc[p] = "returned" /\ stack[p] \in Seq(Frame) /\ Len(stack[p]) = 2
        /\ pc'[p] = "deps" /\ stack'[p] = SubSeq(stack[p], 1, Len(stack[p]) - 1)
        /\ UNCHANGED <<files, manifest, scratchVars, todo>>
    BY Typing DEF Return, TypeOK, CallOK, home, prefixVars, Called
  <2> QED
    BY <2>1
<1>2. Len(stack'[p]) = 1 /\ stack'[p][1] = stack[p][1]
  BY <1>1
<1>3. /\ Root(p)' = Root(p) /\ Here(p)' = Here(p) /\ ~Nested(p)' /\ Pkg(p)' = Root(p)
      /\ Dest(p)' = Dest(p)
  <2>1. Root(p)' = Root(p) /\ Here(p)' = Here(p) /\ ~Nested(p)' /\ Pkg(p)' = Root(p)
    BY <1>2 DEF Root, Here, Nested, Pkg, Top
  <2> QED
    BY <1>1, <2>1 DEF Dest, PrefixOf
<1> QED
  BY <1>1, <1>2, <1>3

LEMMA Starts ==
  ASSUME NEW p \in Procs, NEW r \in Requests[p], r \in Packages, pc'[p] = "verify",
         stack'[p] = <<[pkg |-> r, dep |-> 1]>>
  PROVE  Called(p)' /\ Verified(p)' /\ ~Nested(p)'
<1>1. Root(p)' = r /\ Here(p)' = 1 /\ ~Nested(p)'
  BY DEF Root, Here, Nested
<1>2. 1 <= Len(DEPENDS[r]) + 1
  <2>1. DEPENDS[r] \in Seq(Names)
    BY HomeAssumption
  <2> QED
    BY <2>1
<1> QED
  BY <1>1, <1>2 DEF Called, OfSource, Preparing, Verified

(* How a call goes from label to label.                                    *)
LEMMA Moves ==
  ASSUME TypeOK, Parsed, NEW p \in Procs, Step(p) \/ DownloadFault(p) \/ InstallFault(p),
         ~InstallDependency(p), ~Return(p), pc'[p] # "idle"
  PROVE  /\ pc'[p] \in OfSource => pc[p] \in OfSource \/ Pkg(p) \notin Binary
         /\ pc'[p] = "unpacking" => pc[p] = "unpacking" \/ Pkg(p) \in Binary
         /\ pc'[p] = "mkdir" => pc[p] = "mkdir" \/ ~Nested(p)
         /\ pc'[p] = "lines" => pc[p] = "lines" \/ ~Nested(p)
         /\ pc'[p] \in Preparing => pc[p] \in Preparing
         /\ pc'[p] \notin Preparing \cup {"deps", "returned"} =>
              \/ pc[p] \notin Preparing \cup {"deps", "returned"}
              \/ pc[p] = "deps" /\ Top(p).dep > Len(DEPENDS[Pkg(p)])
<1> USE DEF TypeOK, CallOK, At, Goto, Abort, End, Finish, Accept, call, OfSource, Preparing
<1>1. CASE DownloadStep(p) \/ DownloadFault(p)
  <2>1. Pkg(p) \in Packages
    BY <1>1, IdleOnlyStarts, Typing
  <2>2. CASE UntarSource(p) \/ UntarBinary(p) \/ Clone(p) \/ CloneBinary(p)
    BY <2>1, <2>2 DEF UntarSource, UntarBinary, Clone, CloneBinary
  <2>3. CASE \/ CheckCache(p) \/ OpenArchive(p) \/ Fetch(p) \/ FetchOther(p)
             \/ CheckHash(p) \/ Unzstd(p) \/ Unzstded(p) \/ UntarFails(p)
             \/ Reset(p) \/ ResetFails(p)
    BY <2>3 DEF CheckCache, OpenArchive, Fetch, FetchOther, CheckHash, Unzstd, Unzstded,
                UntarFails, Reset, ResetFails, Unnoticed
  <2> QED
    BY <1>1, <2>2, <2>3 DEF DownloadStep, DownloadFault
<1>2. CASE InstallFault(p)
  BY <1>2 DEF InstallFault, SkipDependencies, LoseTail, Fails, Crash, Unnoticed, Parsed,
              AfterManifest
<1>3. CASE InstallStep(p)
  <2>1. CASE \/ AlreadyInstalled(p) \/ NeedInstall(p) \/ RemoveEntry(p) \/ RemovePrefix(p)
             \/ RemoveSource(p) \/ CreateSource(p) \/ RemoveBuild(p) \/ CreateBuild(p)
             \/ CreateInstallDir(p)
    BY <2>1 DEF AlreadyInstalled, NeedInstall, RemoveEntry, RemovePrefix, RemoveSource,
                CreateSource, RemoveBuild, CreateBuild, CreateInstallDir, AfterScratch
  <2>2. CASE UnknownDependency(p) \/ DependenciesInstalled(p)
    BY <2>2 DEF UnknownDependency, DependenciesInstalled, Dependencies
  <2>3. CASE \/ OpenLog(p) \/ Configure(p) \/ Make(p) \/ MakeInstall(p) \/ MakeFails(p)
             \/ PlaceFile(p) \/ TargetGone(p) \/ FilesPlaced(p)
    BY <2>3 DEF OpenLog, Configure, Make, MakeInstall, MakeFails, PlaceFile, TargetGone,
                FilesPlaced
  <2>4. CASE \/ OpenManifest(p) \/ WriteLine(p) \/ CloseManifest(p)
             \/ CleanSource(p) \/ CleanBuild(p)
    BY <2>4 DEF OpenManifest, WriteLine, CloseManifest, CleanSource, CleanBuild,
                AfterManifest
  <2> QED
    BY <1>3, <2>1, <2>2, <2>3, <2>4 DEF InstallStep
<1> QED
  BY <1>1, <1>2, <1>3 DEF Step

LEMMA CalledStep ==
  ASSUME TypeOK, Flat, Parsed, NEW p \in Procs, Acts(p),
         pc[p] # "idle" => Called(p) /\ Verified(p)
  PROVE  pc'[p] = "idle" \/ (Called(p)' /\ Verified(p)')
<1>1. ASSUME NEW pkg \in Requests[p], Invoke(p, pkg) PROVE Called(p)' /\ Verified(p)'
  <2>1. /\ pkg \in Packages /\ pc'[p] = "verify"
        /\ stack'[p] = <<[pkg |-> pkg, dep |-> 1]>>
    BY <1>1, HomeAssumption DEF Invoke, TypeOK, CallOK
  <2> QED
    BY <2>1, Starts
<1>2. CASE pc[p] = "idle"
  BY <1>1, <1>2, IdleOnlyStarts DEF Acts
<1>3. CASE pc[p] # "idle" /\ (Step(p) \/ DownloadFault(p) \/ InstallFault(p))
  <2>1. Called(p) /\ Verified(p)'
    BY <1>3, VerifiedStep
  <2>2. CASE InstallDependency(p)
    <3>1. /\ pc'[p] = "verify" /\ Root(p) \in Packages
          /\ Here(p) \in Nat \ {0} /\ Here(p) <= Len(DEPENDS[Root(p)])
          /\ Root(p)' = Root(p) /\ Here(p)' = Here(p) + 1 /\ Nested(p)'
          /\ Pkg(p)' = DEPENDS[Root(p)][Here(p)] /\ Len(stack'[p]) = 2
      BY <1>3, <2>1, <2>2, CallFrame
    <3>2. Len(DEPENDS[Root(p)]) \in Nat
      <4>1. DEPENDS[Root(p)] \in Seq(Names)
        BY <3>1, HomeAssumption
      <4> QED
        BY <4>1
    <3>3. /\ Here(p) + 1 - 1 = Here(p) /\ Here(p) \in 1..Len(DEPENDS[Root(p)])
          /\ Here(p) + 1 <= Len(DEPENDS[Root(p)]) + 1
      BY <3>1, <3>2
    <3> QED
      BY <2>1, <3>1, <3>3 DEF Called, OfSource
  <2>3. CASE Return(p) /\ Nested(p)
    <3>1. /\ pc'[p] = "deps" /\ Root(p)' = Root(p) /\ Here(p)' = Here(p) /\ ~Nested(p)'
      BY <1>3, <2>1, <2>3, ReturnFrame
    <3> QED
      BY <2>1, <3>1 DEF Called, OfSource, Preparing
  <2>4. CASE Return(p) /\ ~Nested(p)
    <3>1. CASE pc'[p] = "verify" /\ stack'[p] = <<[pkg |-> Root(p), dep |-> 1]>>
      BY <1>3, <2>1, <3>1, Starts, Typing DEF Called, TypeOK
    <3>2. pc'[p] = "idle" \/ (pc'[p] = "verify" /\ stack'[p] = <<[pkg |-> Root(p), dep |-> 1]>>)
      BY <2>4 DEF Return, End, TypeOK, CallOK
    <3> QED
      BY <3>1, <3>2
  <2>5. CASE ~InstallDependency(p) /\ ~Return(p) /\ pc'[p] # "idle"
    <3>1. stack'[p] = stack[p] /\ todo'[p] = todo[p]
      BY <1>3, <2>5, SameActivation
    <3>2. /\ Pkg(p)' = Pkg(p) /\ Root(p)' = Root(p) /\ Nested(p)' = Nested(p)
          /\ Here(p)' = Here(p)
      BY <3>1, SameFrame
    <3>3. ASSUME ~Nested(p), pc[p] = "deps", Top(p).dep > Len(DEPENDS[Pkg(p)])
          PROVE  Here(p) = Len(DEPENDS[Root(p)]) + 1
      <4> DEFINE n == Len(DEPENDS[Root(p)])
      <4>1. Top(p).dep = Here(p) /\ Pkg(p) = Root(p)
        BY <1>3, <2>1, <3>3, Placing DEF Here
      <4>2. n \in Nat
        <5>1. Root(p) \in Packages
          BY <1>3, Typing DEF TypeOK
        <5>2. DEPENDS[Root(p)] \in Seq(Names)
          BY <5>1, HomeAssumption
        <5> QED
          BY <5>2
      <4>3. Here(p) > n /\ Here(p) <= n + 1 /\ Here(p) \in Nat
        BY <1>3, <2>1, <3>3, <4>1, Typing DEF Called, TypeOK, Frame
      <4> HIDE DEF n
      <4>4. Here(p) = n + 1
        BY <4>2, <4>3
      <4> QED
        BY <4>4 DEF n
    <3>4. ~Nested(p) => (pc'[p] \in Preparing => Here(p) = 1)
      BY <1>3, <2>1, <2>5, Moves DEF Called
    <3>5. ~Nested(p) => (pc'[p] \notin Preparing \cup {"deps", "returned"} =>
                           Here(p) = Len(DEPENDS[Root(p)]) + 1)
      BY <1>3, <2>1, <2>5, <3>3, Moves DEF Called
    <3>6. /\ pc'[p] \in OfSource => Pkg(p) \notin Binary
          /\ pc'[p] = "unpacking" => Pkg(p) \in Binary
          /\ pc'[p] \in {"mkdir", "lines"} => ~Nested(p)
      BY <1>3, <2>1, <2>5, Moves DEF Called
    <3> QED
      BY <2>1, <3>1, <3>2, <3>4, <3>5, <3>6 DEF Called
  <2> QED
    BY <2>2, <2>3, <2>4, <2>5
<1> QED
  BY <1>1, <1>2, <1>3 DEF Acts

LEMMA ArchivesOfOthers ==
  ASSUME TypeOK, NEW q \in Procs, Acts(q), NEW a \in Archives, a # Archive(q)
  PROVE  distr'[a] = distr[a] /\ tmp'[a] = tmp[a]
<1> USE DEF TypeOK, HomeOK, home, distrVars, TmpRemoved
<1>1. ASSUME NEW pkg \in Requests[q], Invoke(q, pkg) PROVE UNCHANGED distrVars
  BY <1>1 DEF Invoke
<1>2. CASE DownloadStep(q) \/ DownloadFault(q)
  BY <1>2 DEF DownloadStep, DownloadFault, CheckCache, OpenArchive, Fetch, FetchOther,
              CheckHash, Unzstd, Unzstded, UntarSource, UntarBinary, UntarFails, Clone,
              CloneBinary, Reset, ResetFails
<1>3. CASE InstallFault(q)
  BY <1>3 DEF InstallFault, SkipDependencies, LoseTail, Fails, Crash
<1>4. CASE InstallStep(q)
  BY <1>4 DEF InstallStep, AlreadyInstalled, NeedInstall, RemoveEntry, RemovePrefix,
              RemoveSource, CreateSource, RemoveBuild, CreateBuild, CreateInstallDir,
              InstallDependency, UnknownDependency, DependenciesInstalled, OpenLog,
              Configure, Make, MakeInstall, MakeFails, PlaceFile, TargetGone,
              FilesPlaced, OpenManifest, WriteLine, CloseManifest, CleanSource,
              CleanBuild, Return
<1> QED
  BY <1>1, <1>2, <1>3, <1>4 DEF Acts, Step

(* The archives of one invocation are not those of another.                *)
SameArchives(p) ==
  \A r \in Reach(p) \cap Packages :
    distr'[ArchiveOf[r]] = distr[ArchiveOf[r]] /\ tmp'[ArchiveOf[r]] = tmp[ArchiveOf[r]]

LEMMA CallsApart ==
  ASSUME TypeOK, Apart, Flat, NEW p \in Procs, NEW q \in Procs, p # q, Acts(q),
         pc[q] # "idle" => Called(q)
  PROVE  SameCallOf(p) /\ SameArchives(p)
<1>1. SameCallOf(p)
  BY OthersCall
<1>2. CASE pc[q] = "idle"
  <2>1. UNCHANGED <<distr, tmp>>
    BY <1>2, IdleOnlyStarts DEF Acts, Invoke, home, distrVars
  <2> QED
    BY <1>1, <2>1 DEF SameArchives
<1>3. CASE pc[q] # "idle"
  <2>1. /\ Pkg(q) \in Reach(q) /\ Pkg(q) \in Packages
        /\ Archive(q) = ArchiveOf[Pkg(q)]
    BY <1>3, Placing, Typing DEF TypeOK, Archive
  <2> SUFFICES ASSUME NEW r \in Reach(p) \cap Packages
               PROVE  /\ distr'[ArchiveOf[r]] = distr[ArchiveOf[r]]
                      /\ tmp'[ArchiveOf[r]] = tmp[ArchiveOf[r]]
    BY <1>1 DEF SameArchives
  <2>2. ArchiveOf[r] # Archive(q) /\ ArchiveOf[r] \in Archives
    BY <2>1, HomeAssumption DEF Apart
  <2> QED
    BY <2>2, ArchivesOfOthers
<1> QED
  BY <1>2, <1>3

LEMMA OthersCalled ==
  ASSUME TypeOK, Flat, NEW p \in Procs, pc[p] # "idle", Called(p), Verified(p),
         SameCallOf(p), SameArchives(p)
  PROVE  Called(p)' /\ Verified(p)'
<1>1. pc'[p] = pc[p] /\ stack'[p] = stack[p] /\ todo'[p] = todo[p]
  BY DEF SameCallOf
<1>2. /\ Pkg(p)' = Pkg(p) /\ Root(p)' = Root(p) /\ Nested(p)' = Nested(p)
      /\ Archive(p)' = Archive(p) /\ Here(p)' = Here(p)
  BY <1>1, SameFrame
<1>3. distr'[Archive(p)] = distr[Archive(p)] /\ tmp'[Archive(p)] = tmp[Archive(p)]
  BY Placing, Typing DEF SameArchives, Archive, TypeOK
<1> QED
  BY <1>1, <1>2, <1>3 DEF Called, Verified, TarInput

LEMMA CallInvariant ==
  ASSUME TypeOK, Apart, Flat, Parsed, Calling, [Next]_vars
  PROVE  Calling'
<1> SUFFICES ASSUME NEW p \in Procs, pc'[p] # "idle" PROVE Called(p)' /\ Verified(p)'
  BY DEF Calling
<1>1. CASE UNCHANGED vars \/ \E x \in Prefixes, f \in Rotting : Rot(x, f)
  <2>1. UNCHANGED <<distr, tmp, pc, stack, todo, left, outcome>>
    BY <1>1 DEF vars, home, distrVars, call, Rot
  <2>2. SameCallOf(p) /\ SameArchives(p)
    BY <2>1 DEF SameCallOf, SameArchives
  <2> QED
    BY <2>1, <2>2, OthersCalled DEF Calling
<1>2. ASSUME NEW q \in Procs, Acts(q) PROVE Called(p)' /\ Verified(p)'
  <2>1. CASE q = p
    BY <1>2, <2>1, CalledStep DEF Calling
  <2>2. CASE q # p
    <3>1. SameCallOf(p) /\ SameArchives(p)
      BY <1>2, <2>2, CallsApart DEF Calling
    <3> QED
      BY <3>1, OthersCalled DEF Calling, SameCallOf
  <2> QED
    BY <2>1, <2>2
<1> QED
  BY <1>1, <1>2 DEF Next, Acts

(* What invocations that run together unpack has passed the check of its   *)
(* hash: nobody replaces the archive that another one has checked, though  *)
(* they may disturb each other's builds.                                   *)
THEOREM VerifiedTogether == Apart /\ Flat /\ Parsed => (Spec => []UnpackVerified)
<1> SUFFICES ASSUME Apart, Flat, Parsed PROVE Spec => []UnpackVerified
  OBVIOUS
<1>1. Init => Calling
  BY DEF Init, Calling
<1>2. TypeOK /\ Calling /\ [Next]_vars => Calling'
  BY CallInvariant
<1>3. Calling => UnpackVerified
  BY DEF Calling, Verified, UnpackVerified, At
<1> QED
  BY <1>1, <1>2, <1>3, TypeCorrect, PTL DEF Spec

-----------------------------------------------------------------------------
(* The prefix a build logs into.  From the end of the preparations on the  *)
(* install directory of a call exists, while dependencies are installed    *)
(* into it as well.                                                        *)
Housed(p) ==
  pc[p] # "idle" /\ (Nested(p) \/ pc[p] \notin Preparing \cup {"returned"}) =>
    Dest(p) \in dirs
AllHoused == \A p \in Procs : Housed(p)

(* A directory goes away only when the invocation whose prefix it is, or   *)
(* the prefix of its dependency, is done with the wiping.                  *)
LEMMA DirsStay ==
  ASSUME NEW q \in Procs, Acts(q), NEW x \in dirs, x # Own(q) \/ pc[q] # "wipe"
  PROVE  x \in dirs'
<1> USE DEF home, prefixVars, At
<1>1. ASSUME NEW pkg \in Requests[q], Invoke(q, pkg) PROVE UNCHANGED dirs
  BY <1>1 DEF Invoke
<1>2. CASE DownloadStep(q) \/ DownloadFault(q)
  BY <1>2 DEF DownloadStep, DownloadFault, CheckCache, OpenArchive, Fetch, FetchOther,
              CheckHash, Unzstd, Unzstded, UntarSource, UntarBinary, UntarFails, Clone,
              CloneBinary, Reset, ResetFails
<1>3. CASE InstallFault(q)
  BY <1>3 DEF InstallFault, SkipDependencies, LoseTail, Fails, Crash
<1>4. CASE InstallStep(q)
  BY <1>4 DEF InstallStep, AlreadyInstalled, NeedInstall, RemoveEntry, RemovePrefix,
              RemoveSource, CreateSource, RemoveBuild, CreateBuild, CreateInstallDir,
              InstallDependency, UnknownDependency, DependenciesInstalled, OpenLog,
              Configure, Make, MakeInstall, MakeFails, PlaceFile, TargetGone,
              FilesPlaced, OpenManifest, WriteLine, CloseManifest, CleanSource,
              CleanBuild, Return
<1> QED
  BY <1>1, <1>2, <1>3, <1>4 DEF Acts, Step

(* The steps within a call; a root call leaves the preparations only       *)
(* through the creation of its install directory.                          *)
LEMMA LeavesPreparing ==
  ASSUME TypeOK, NEW p \in Procs, pc[p] \in Preparing, ~Nested(p),
         Step(p) \/ DownloadFault(p) \/ InstallFault(p)
  PROVE  \/ pc'[p] \in Preparing \cup {"returned", "idle"}
         \/ Own(p) \in dirs'
<1> USE DEF TypeOK, CallOK, At, Goto, Abort, End, Preparing, AfterScratch
<1>1. ~DownloadStep(p) /\ ~DownloadFault(p)
  BY DEF DownloadStep, DownloadFault, CheckCache, OpenArchive, Fetch, FetchOther,
         CheckHash, Unzstd, Unzstded, UntarSource, UntarBinary, UntarFails, Clone,
         CloneBinary, Reset, ResetFails, Unnoticed
<1>2. CASE InstallFault(p)
  BY <1>2 DEF InstallFault, SkipDependencies, LoseTail, Fails, Crash, Unnoticed
<1>3. CASE InstallStep(p)
  <2>1. CASE CreateInstallDir(p)
    BY <2>1 DEF CreateInstallDir
  <2>2. CASE \/ AlreadyInstalled(p) \/ NeedInstall(p) \/ RemoveEntry(p)
             \/ RemovePrefix(p) \/ RemoveSource(p) \/ CreateSource(p)
             \/ RemoveBuild(p) \/ CreateBuild(p)
    BY <2>2 DEF AlreadyInstalled, NeedInstall, RemoveEntry, RemovePrefix, RemoveSource,
                CreateSource, RemoveBuild, CreateBuild
  <2> QED
    BY <1>3, <2>1, <2>2
       DEF InstallStep, InstallDependency, UnknownDependency, DependenciesInstalled,
           OpenLog, Configure, Make,
              MakeInstall, MakeFails, PlaceFile, TargetGone, FilesPlaced, OpenManifest,
           WriteLine, CloseManifest, CleanSource, CleanBuild, Return
<1> QED
  BY <1>1, <1>2, <1>3 DEF Step

LEMMA StaysReturned ==
  ASSUME TypeOK, NEW p \in Procs, pc[p] = "returned", ~Return(p),
         Step(p) \/ DownloadFault(p) \/ InstallFault(p)
  PROVE  pc'[p] = "idle"
<1> USE DEF TypeOK, CallOK, At, Abort, End
<1>1. ~DownloadStep(p) /\ ~DownloadFault(p)
  BY DEF DownloadStep, DownloadFault, CheckCache, OpenArchive, Fetch, FetchOther,
         CheckHash, Unzstd, Unzstded, UntarSource, UntarBinary, UntarFails, Clone,
         CloneBinary, Reset, ResetFails, Unnoticed
<1>2. CASE InstallFault(p)
  BY <1>2, HomeAssumption
     DEF InstallFault, SkipDependencies, LoseTail, Fails, Crash, Unnoticed, Fallible
<1>3. ~InstallStep(p)
  BY DEF InstallStep, AlreadyInstalled, NeedInstall, RemoveEntry, RemovePrefix,
         RemoveSource, CreateSource, RemoveBuild, CreateBuild, CreateInstallDir,
         InstallDependency, UnknownDependency, DependenciesInstalled, OpenLog,
         Configure, Make, MakeInstall, MakeFails, PlaceFile, TargetGone, FilesPlaced,
         OpenManifest, WriteLine, CloseManifest, CleanSource, CleanBuild
<1> QED
  BY <1>1, <1>2, <1>3 DEF Step

LEMMA OwnHoused ==
  ASSUME TypeOK, Flat, NEW p \in Procs, Acts(p), Housed(p), pc[p] # "idle" => Called(p)
  PROVE  Housed(p)'
<1>1. ASSUME NEW pkg \in Requests[p], Invoke(p, pkg) PROVE Housed(p)'
  <2>1. pc'[p] = "verify" /\ Len(stack'[p]) = 1
    BY <1>1 DEF Invoke, TypeOK, CallOK
  <2> QED
    BY <2>1 DEF Housed, Nested, Preparing
<1>2. CASE pc[p] = "idle"
  BY <1>1, <1>2, IdleOnlyStarts DEF Acts
<1>3. CASE pc[p] # "idle" /\ (Step(p) \/ DownloadFault(p) \/ InstallFault(p))
  <2>1. Called(p)
    BY <1>3
  <2>2. CASE InstallDependency(p)
    <3>1. /\ pc[p] = "deps" /\ UNCHANGED <<dirs, todo>> /\ Root(p)' = Root(p)
      BY <1>3, <2>1, <2>2, CallFrame DEF InstallDependency, home, prefixVars
    <3> QED
      BY <3>1 DEF Housed, Dest, Preparing
  <2>3. CASE Return(p)
    <3>1. CASE Nested(p)
      <4>1. UNCHANGED dirs /\ Dest(p)' = Dest(p)
        BY <1>3, <2>1, <2>3, <3>1, ReturnFrame DEF Return, home, prefixVars
      <4> QED
        BY <1>3, <3>1, <4>1 DEF Housed
    <3>2. CASE ~Nested(p)
      <4>1. pc'[p] = "idle" \/ (pc'[p] = "verify" /\ Len(stack'[p]) = 1)
        BY <2>3, <3>2 DEF Return, End, TypeOK, CallOK
      <4>2. ASSUME pc'[p] = "verify", Len(stack'[p]) = 1 PROVE Housed(p)'
        BY <4>2 DEF Housed, Nested, Preparing
      <4> QED
        BY <4>1, <4>2 DEF Housed
    <3> QED
      BY <3>1, <3>2
  <2>4. CASE ~InstallDependency(p) /\ ~Return(p) /\ pc'[p] # "idle"
    <3>1. stack'[p] = stack[p] /\ todo'[p] = todo[p]
      BY <1>3, <2>4, SameActivation
    <3>2. Nested(p)' = Nested(p) /\ Dest(p)' = Dest(p)
      BY <3>1, SameFrame
    <3>3. CASE Nested(p)
      <4>1. Dest(p) \in dirs /\ Dest(p) # Own(p)
        BY <1>3, <2>1, <3>3, Placing DEF Housed
      <4> QED
        BY <3>2, <4>1, DirsStay DEF Housed
    <3>4. CASE ~Nested(p) /\ pc[p] \in Preparing
      <4>1. Own(p) = Dest(p)
        BY <1>3, <2>1, <3>4, Placing
      <4> QED
        BY <1>3, <3>2, <3>4, <4>1, LeavesPreparing DEF Housed
    <3>5. CASE ~Nested(p) /\ pc[p] \notin Preparing \cup {"returned"}
      <4>1. Dest(p) \in dirs /\ pc[p] # "wipe"
        BY <1>3, <3>5 DEF Housed, Preparing
      <4> QED
        BY <3>2, <4>1, DirsStay DEF Housed
    <3>6. pc[p] # "returned"
      BY <1>3, <2>4, StaysReturned
    <3> QED
      BY <3>3, <3>4, <3>5, <3>6
  <2> QED
    BY <2>2, <2>3, <2>4 DEF Housed
<1> QED
  BY <1>1, <1>2, <1>3 DEF Acts

LEMMA OthersHoused ==
  ASSUME TypeOK, Apart, Flat, NEW p \in Procs, NEW q \in Procs, p # q, Acts(q),
         Housed(p), pc[p] # "idle" => Called(p), pc[q] # "idle" => Called(q)
  PROVE  Housed(p)'
<1> SUFFICES ASSUME pc[p] # "idle", Dest(p) \in dirs PROVE Dest(p) \in dirs'
  <2>1. pc'[p] = pc[p] /\ stack'[p] = stack[p] /\ todo'[p] = todo[p]
    BY OthersCall DEF SameCallOf
  <2>2. Nested(p)' = Nested(p) /\ Dest(p)' = Dest(p)
    BY <2>1, SameFrame
  <2> QED
    BY <2>1, <2>2 DEF Housed
<1>1. CASE pc[q] = "idle"
  BY <1>1, DirsStay
<1>2. CASE pc[q] # "idle"
  <2>1. Root(p) \in Reach(p) /\ Dest(p)[1] = Root(p)
    BY Placing
  <2>2. Pkg(q) \in Reach(q) /\ Own(q)[1] = Pkg(q)
    BY <1>2, Placing
  <2>3. Dest(p) # Own(q)
    BY <2>1, <2>2 DEF Apart
  <2> QED
    BY <2>3, DirsStay
<1> QED
  BY <1>1, <1>2

(* Where all dependencies are binary packages, as in the recipes of the    *)
(* repository, whoever comes to open build.log has the directory it is *)
(* to be created in, which no other invocation takes away, not even one    *)
(* that builds in the same .b (main.cpp:607).                              *)
THEOREM BuildsHaveAPrefix == Apart /\ Flat /\ Parsed => (Spec => []BuildHasPrefix)
<1> SUFFICES ASSUME Apart, Flat, Parsed PROVE Spec => []BuildHasPrefix
  OBVIOUS
<1> DEFINE Inv == Calling /\ AllHoused
<1>1. Init => Inv
  BY DEF Init, Calling, AllHoused, Housed
<1>2. TypeOK /\ Inv /\ [Next]_vars => Inv'
  <2> SUFFICES ASSUME TypeOK, Inv, [Next]_vars PROVE AllHoused'
    BY CallInvariant
  <2>1. CASE UNCHANGED vars \/ \E x \in Prefixes, f \in Rotting : Rot(x, f)
    <3>1. UNCHANGED <<pc, stack, todo, dirs>>
      BY <2>1 DEF vars, home, prefixVars, call, Rot
    <3> QED
      BY <3>1 DEF AllHoused, Housed, Nested, Dest, Root
  <2>2. ASSUME NEW q \in Procs, Acts(q), NEW p \in Procs PROVE Housed(p)'
    BY <2>2, OwnHoused, OthersHoused DEF Calling, AllHoused
  <2> QED
    BY <2>1, <2>2 DEF Next, Acts, AllHoused
<1>3. TypeOK /\ Inv => BuildHasPrefix
  <2> SUFFICES ASSUME TypeOK, Inv, NEW p \in Procs, pc[p] = "log"
               PROVE  Own(p) \in dirs
    BY DEF BuildHasPrefix, At
  <2>1. Called(p) /\ Pkg(p) \notin Binary /\ Dest(p) \in dirs
    BY DEF Calling, Called, OfSource, AllHoused, Housed, Preparing
  <2> QED
    BY <2>1, Placing
<1> QED
  BY <1>1, <1>2, <1>3, TypeCorrect, PTL DEF Spec

-----------------------------------------------------------------------------
(* What is installed.  No two packages install a file of the same name.    *)
Separate == \A q, r \in Packages : q # r => FilesOf[q] \cap FilesOf[r] = {}

(* The manifest is written to its end, and of the failures the code does   *)
(* not look at only that of wget happens.  (Each of the others lets it     *)
(* commit what is not complete.)                                           *)
Noticed == "lines" \notin CrashPoints /\ Unchecked \subseteq {"wgetting"}

(* At most one of the invocations builds from source.  (Two of them build  *)
(* in one directory: run shared_build.)                                    *)
OneBuilder ==
  \A p, q \in Procs : p # q =>
    \/ Reach(p) \cap Packages \subseteq Binary
    \/ Reach(q) \cap Packages \subseteq Binary

(* The install directory, from its wiping to its manifest: it holds files  *)
(* of the package and of its dependencies only, of each of them all or     *)
(* none, unless it is just being unpacked, and all of the dependencies     *)
(* that are done with.                                                     *)
Lines(p, q)   == PackageLines(q, Head(todo[p]))
InPlace(p, q) == \A l \in Lines(p, q) : files[Dest(p)][l[1]] = l[2]
Away(p, q)    == \A f \in FilesOf[q] : files[Dest(p)][f] = None
Foreseen(p)   ==
  \A f \in Files : files[Dest(p)][f] # None =>
    \E q \in Needs(Root(p)) \cap Packages : <<f, files[Dest(p)][f]>> \in Lines(p, q)

Busy(p)    == IF pc[p] \in {"unpacking", "copying"} THEN {Pkg(p)} ELSE {}
Done(p)    == Here(p) - (IF Nested(p) THEN 2 ELSE 1)
Cleared(p) ==
  Nested(p) \/ pc[p] \notin {"verify", "wipe", "lines", "cleanSrc", "cleanBld", "returned"}

Clear(p) == Cleared(p) =>
  /\ manifest[Dest(p)] = Absent
  /\ Foreseen(p)
  /\ \A q \in Packages \ Busy(p) : InPlace(p, q) \/ Away(p, q)
  /\ \A i \in 1..Done(p) :
       DEPENDS[Root(p)][i] \in Packages /\ InPlace(p, DEPENDS[Root(p)][i])

(* The files of the package on top.                                        *)
Written(p) ==
  /\ pc[p] \in {"unpacking", "copying"} =>
       /\ left[p] \subseteq Lines(p, Pkg(p))
       /\ \A l \in Lines(p, Pkg(p)) \ left[p] : files[Dest(p)][l[1]] = l[2]
  /\ pc[p] = "manifest" \/ (pc[p] = "returned" /\ Nested(p)) => InPlace(p, Pkg(p))

(* The manifest lists what there is, and that is everything.               *)
Existing(p) == {<<f, files[Dest(p)][f]>> : f \in {g \in Files : files[Dest(p)][g] # None}}
AllInPlace(p) == \A q \in Needs(Root(p)) : q \in Packages /\ InPlace(p, q)
Complete(p) ==
  \A q \in Needs(Root(p)) : \A l \in PackageLines(q, Dest(p)[2]) :
    files[Dest(p)][l[1]] = l[2]

Committing(p) ==
  /\ pc[p] = "lines" =>
       /\ Foreseen(p) /\ left[p] \subseteq Existing(p)
       /\ manifest[Dest(p)] # Absent => manifest[Dest(p)] \cup left[p] = Existing(p)
  /\ pc[p] \in {"lines", "cleanSrc", "cleanBld"} => AllInPlace(p)
  /\ pc[p] = "returned" /\ ~Nested(p) /\ outcome[p] \in {"built", "verified"} => Complete(p)

(* The scratch directories hold nothing of this package but what it has    *)
(* put there itself, at the right revision and for this build type, and    *)
(* the build files are its own.                                            *)
Built(q) == IF bldDir = Absent THEN {} ELSE {o \in bldDir : o.pkg = q}

RightTrees(p) == \A t \in Sources(Root(p)) : t.rev = "requested"
RightBuilt(p) == \A o \in Built(Root(p)) : o = Wanted(Root(p), Head(todo[p]))
Scratch(p) == Root(p) \notin Binary =>
  /\ \/ Nested(p)
     \/ pc[p] \in Fetching \cup
          {"mkSrc", "wipeBld", "mkBld", "mkdir", "deps", "log", "configure", "make",
           "install"}
     => RightTrees(p)
  /\ \/ Nested(p)
     \/ pc[p] \in Fetching \cup
          {"mkBld", "mkdir", "deps", "reset", "log", "configure", "make", "install"}
     => RightBuilt(p)
  /\ pc[p] \in {"make", "install"} => makefile = Own(p)

Sound(p) ==
  Called(p) /\ Clear(p) /\ Written(p) /\ Committing(p) /\ Scratch(p) /\ Verified(p)

(* Manifests list nothing but files of the package and its dependencies.   *)
Kept ==
  \A x \in Prefixes : manifest[x] # Absent =>
    \A l \in manifest[x] : \E q \in Needs(x[1]) \cap Packages : l \in PackageLines(q, x[2])

Assumed == Apart /\ Flat /\ Separate /\ Noticed /\ OneBuilder
Running == \A p \in Procs : pc[p] # "idle" => Sound(p)

-----------------------------------------------------------------------------
(* The data.                                                               *)

LEMMA LineOf ==
  ASSUME NEW q \in Packages, NEW b \in BuildTypes \cup {"any"}, NEW l \in PackageLines(q, b)
  PROVE  /\ l = <<l[1], l[2]>> /\ l[1] \in FilesOf[q] /\ l[1] \in Files
         /\ l[2] = Wanted(q, b) /\ l[2] \in Content /\ l[2] # None /\ l \in Line
<1>1. l = <<l[1], l[2]>> /\ l[1] \in FilesOf[q] /\ l[2] = Wanted(q, b)
  BY DEF PackageLines
<1>2. l[1] \in Files
  BY <1>1, HomeAssumption
<1>3. Wanted(q, b) \in Content
  BY DEF Wanted, Content, Object, Revisions
<1> QED
  BY <1>1, <1>2, <1>3, NotThere DEF Line

(* A line of a package the root needs is the same below either prefix.     *)
LEMMA LinesOfDest ==
  ASSUME TypeOK, Flat, NEW p \in Procs, pc[p] # "idle",
         NEW q \in Needs(Root(p)), q \in Packages
  PROVE  PackageLines(q, Dest(p)[2]) = Lines(p, q)
<1>1. Root(p) \in Packages
  BY Typing DEF TypeOK
<1>2. q = Root(p) \/ q \in Binary
  BY <1>1 DEF Needs, Flat
<1>3. Wanted(q, Dest(p)[2]) = Wanted(q, Head(todo[p]))
  BY <1>2 DEF Wanted, Dest, PrefixOf
<1> QED
  BY <1>3 DEF PackageLines, Lines

LEMMA AllIsComplete ==
  ASSUME TypeOK, Flat, NEW p \in Procs, pc[p] # "idle", AllInPlace(p)
  PROVE  Complete(p)
BY LinesOfDest DEF AllInPlace, Complete, InPlace

(* What depends on the call, and on the install directory, alone.          *)
LEMMA SameLines ==
  ASSUME NEW p, stack'[p] = stack[p], todo'[p] = todo[p]
  PROVE  Done(p)' = Done(p) /\ \A q : Lines(p, q)' = Lines(p, q)
BY SameFrame DEF Done, Lines

LEMMA SamePlace ==
  ASSUME NEW p, Dest(p)' = Dest(p), Root(p)' = Root(p), todo'[p] = todo[p],
         files'[Dest(p)] = files[Dest(p)]
  PROVE  /\ Foreseen(p)' <=> Foreseen(p)
         /\ \A q : InPlace(p, q)' <=> InPlace(p, q)
         /\ \A q : Away(p, q)' <=> Away(p, q)
         /\ Existing(p)' = Existing(p)
         /\ AllInPlace(p)' <=> AllInPlace(p)
         /\ Complete(p)' <=> Complete(p)
<1>1. \A q : Lines(p, q)' = Lines(p, q)
  BY DEF Lines
<1>2. \A q : InPlace(p, q)' <=> InPlace(p, q)
  BY <1>1 DEF InPlace
<1>3. \A q : Away(p, q)' <=> Away(p, q)
  BY DEF Away
<1>4. Foreseen(p)' <=> Foreseen(p)
  BY <1>1 DEF Foreseen
<1>5. Existing(p)' = Existing(p)
  BY DEF Existing
<1>6. Complete(p)' <=> Complete(p)
  BY DEF Complete
<1> QED
  BY <1>2, <1>3, <1>4, <1>5, <1>6 DEF AllInPlace

(* A package is installed into the prefix of the root call, by tar and by  *)
(* its own make install.                                                   *)
LEMMA Targets ==
  ASSUME TypeOK, Flat, NEW p \in Procs, pc[p] \in {"unpacking", "copying"}, Sound(p),
         NEW l \in left[p]
  PROVE  Target(p, l) = Dest(p)
<1>1. CASE Pkg(p) \in Binary
  BY <1>1 DEF Target
<1>2. CASE Pkg(p) \notin Binary
  <2>1. /\ Own(p) = Dest(p) /\ Pkg(p) \in Packages /\ Head(todo[p]) \in BuildTypes
        /\ l \in Lines(p, Pkg(p))
    BY <1>2, Placing, Typing DEF Sound, Written, TypeOK
  <2>2. l[2] = Wanted(Pkg(p), Head(todo[p]))
    BY <2>1, LineOf DEF Lines
  <2>3. l[2].pkg = Pkg(p) /\ l[2].bt = Head(todo[p])
    BY <1>2, <2>2 DEF Wanted
  <2> QED
    BY <1>2, <2>1, <2>3 DEF Target, Own, PrefixOf
<1> QED
  BY <1>1, <1>2

(* What make makes by the package's own build files.                       *)
LEMMA RightMakes ==
  ASSUME TypeOK, Flat, NEW p \in Procs, pc[p] # "idle", Called(p),
         Pkg(p) \notin Binary, RightTrees(p), RightBuilt(p), NEW o \in Makes(Own(p))
  PROVE  o = Wanted(Root(p), Head(todo[p]))
<1>1. Pkg(p) = Root(p) /\ Own(p)[1] = Root(p) /\ Own(p)[2] = Head(todo[p])
  BY Placing DEF Own, PrefixOf
<1>2. CASE o \in Objects(Own(p))
  BY <1>1, <1>2 DEF Objects, RightBuilt, Built
<1>3. ASSUME NEW t \in Sources(Own(p)[1]),
             o = [pkg |-> Own(p)[1], rev |-> t.rev, bt |-> Own(p)[2]]
      PROVE  o = Wanted(Root(p), Head(todo[p]))
  <2>1. t.rev = "requested"
    BY <1>1, <1>3 DEF RightTrees
  <2> QED
    BY <1>1, <1>3, <2>1 DEF Wanted
<1> QED
  BY <1>2, <1>3 DEF Makes

-----------------------------------------------------------------------------
(* Steps of the others.  They leave alone what this invocation depends on: *)
(* its prefixes, its archives, its share of the scratch directories.       *)
SamePrefixes(p) ==
  \A x \in Prefixes : x[1] \in Reach(p) => files'[x] = files[x] /\ manifest'[x] = manifest[x]

(* The files and manifests a step may change: below the prefix of the root *)
(* call, or of the package on top.                                         *)
LEMMA WritesOwn ==
  ASSUME TypeOK, NEW q \in Procs, Flat, Acts(q), pc[q] # "idle" => Sound(q),
         NEW x \in Prefixes, x # Own(q), x # Dest(q)
  PROVE  files'[x] = files[x] /\ manifest'[x] = manifest[x]
<1> USE DEF TypeOK, HomeOK, home, prefixVars
<1>1. ASSUME NEW pkg \in Requests[q], Invoke(q, pkg) PROVE UNCHANGED <<files, manifest>>
  BY <1>1 DEF Invoke
<1>2. CASE DownloadStep(q) \/ DownloadFault(q)
  <2>1. UNCHANGED <<files, manifest>>
    BY <1>2 DEF DownloadStep, DownloadFault, CheckCache, OpenArchive, Fetch,
                FetchOther, CheckHash, Unzstd, Unzstded, UntarSource, UntarBinary,
                UntarFails, Clone, CloneBinary, Reset, ResetFails
  <2> QED
    BY <2>1
<1>3. CASE SkipDependencies(q) \/ LoseTail(q) \/ Fails(q)
  BY <1>3 DEF SkipDependencies, LoseTail, Fails
<1>4. CASE Crash(q)
  BY <1>4 DEF Crash
<1>5. CASE \/ AlreadyInstalled(q) \/ NeedInstall(q) \/ RemovePrefix(q)
           \/ RemoveSource(q) \/ CreateSource(q) \/ RemoveBuild(q) \/ CreateBuild(q)
           \/ CreateInstallDir(q) \/ InstallDependency(q) \/ UnknownDependency(q)
           \/ DependenciesInstalled(q) \/ OpenLog(q) \/ Configure(q) \/ Make(q)
           \/ MakeInstall(q) \/ MakeFails(q) \/ TargetGone(q) \/ FilesPlaced(q)
           \/ CloseManifest(q) \/ CleanSource(q) \/ CleanBuild(q) \/ Return(q)
  <2>1. UNCHANGED <<files, manifest>>
    BY <1>5 DEF AlreadyInstalled, NeedInstall, RemovePrefix, RemoveSource,
                CreateSource, RemoveBuild, CreateBuild, CreateInstallDir,
                InstallDependency, UnknownDependency, DependenciesInstalled, OpenLog,
                Configure, Make, MakeInstall, MakeFails, TargetGone, FilesPlaced,
                CloseManifest, CleanSource, CleanBuild, Return
  <2> QED
    BY <2>1
<1>6. CASE RemoveEntry(q)
  BY <1>6 DEF RemoveEntry
<1>7. CASE OpenManifest(q) \/ WriteLine(q)
  BY <1>7 DEF OpenManifest, WriteLine
<1>8. CASE PlaceFile(q)
  <2>1. pc[q] # "idle" /\ pc[q] \in {"unpacking", "copying"} /\ UNCHANGED manifest
    BY <1>8 DEF PlaceFile
  <2>2. PICK l \in left[q] : files' = [files EXCEPT ![Dest(q)][l[1]] = l[2]]
    BY <1>8, <2>1, Targets DEF PlaceFile
  <2> QED
    BY <2>1, <2>2
<1> QED
  BY <1>1, <1>2, <1>3, <1>4, <1>5, <1>6, <1>7, <1>8
     DEF Acts, Step, InstallStep, InstallFault

(* An invocation of binary packages does not touch .s and .b.              *)
SameScratch(p) == Root(p) \notin Binary => UNCHANGED scratchVars

LEMMA BinariesTouchNothing ==
  ASSUME NEW q \in Procs, Acts(q), pc[q] # "idle" => Called(q) /\ Pkg(q) \in Binary
  PROVE  UNCHANGED scratchVars
<1> USE DEF home, At
<1>1. ASSUME NEW pkg \in Requests[q], Invoke(q, pkg) PROVE UNCHANGED scratchVars
  BY <1>1 DEF Invoke
<1>2. CASE pc[q] = "idle"
  BY <1>1, <1>2, IdleOnlyStarts DEF Acts
<1>3. CASE pc[q] \notin OfSource /\ Pkg(q) \in Binary
  <2>1. CASE DownloadStep(q) \/ DownloadFault(q)
    BY <1>3, <2>1 DEF DownloadStep, DownloadFault, CheckCache, OpenArchive, Fetch,
                FetchOther, CheckHash, Unzstd, Unzstded, UntarSource, UntarBinary,
                UntarFails, Clone, CloneBinary, Reset, ResetFails, OfSource
  <2>2. CASE InstallFault(q)
    BY <2>2 DEF InstallFault, SkipDependencies, LoseTail, Fails, Crash
  <2>3. CASE InstallStep(q)
    BY <1>3, <2>3 DEF InstallStep, AlreadyInstalled, NeedInstall, RemoveEntry,
                RemovePrefix, RemoveSource, CreateSource, RemoveBuild, CreateBuild,
                CreateInstallDir, InstallDependency, UnknownDependency,
                DependenciesInstalled, OpenLog, Configure, Make, MakeInstall, MakeFails,
                PlaceFile, TargetGone, FilesPlaced, OpenManifest, WriteLine,
                CloseManifest, CleanSource, CleanBuild, Return, OfSource
  <2> QED
    BY <1>1, <2>1, <2>2, <2>3 DEF Acts, Step
<1> QED
  BY <1>2, <1>3 DEF Called

LEMMA Elsewhere ==
  ASSUME TypeOK, Apart, Flat, OneBuilder, NEW p \in Procs, NEW q \in Procs, p # q, Acts(q),
         pc[p] # "idle", Called(p), pc[q] # "idle" => Sound(q)
  PROVE  SameCallOf(p) /\ SamePrefixes(p) /\ SameArchives(p) /\ SameScratch(p)
<1>1. SameCallOf(p) /\ SameArchives(p)
  BY CallsApart DEF Sound
<1>2. CASE pc[q] = "idle"
  <2>1. UNCHANGED home
    BY <1>2, IdleOnlyStarts DEF Acts, Invoke
  <2>2. UNCHANGED <<files, manifest, scratchVars>>
    BY <2>1 DEF home, prefixVars
  <2> QED
    BY <1>1, <2>2 DEF SamePrefixes, SameScratch
<1>3. CASE pc[q] # "idle"
  <2>1. /\ Pkg(q) \in Reach(q) /\ Root(q) \in Reach(q) /\ Pkg(q) \in Packages
        /\ Own(q)[1] = Pkg(q) /\ Dest(q)[1] = Root(q)
    BY <1>3, Placing, Typing DEF Sound, TypeOK
  <2>2. Pkg(q) \notin Reach(p) /\ Root(q) \notin Reach(p)
    BY <2>1 DEF Apart
  <2>3. SamePrefixes(p)
    BY <1>3, <2>1, <2>2, WritesOwn DEF SamePrefixes
  <2>4. SameScratch(p)
    <3> SUFFICES ASSUME Root(p) \notin Binary PROVE UNCHANGED scratchVars
      BY DEF SameScratch
    <3>1. Root(p) \in Reach(p) \cap Packages
      BY Placing, Typing DEF TypeOK
    <3>2. Pkg(q) \in Binary
      BY <2>1, <3>1 DEF OneBuilder
    <3> QED
      BY <1>3, <3>2, BinariesTouchNothing DEF Sound
  <2> QED
    BY <1>1, <2>3, <2>4
<1> QED
  BY <1>2, <1>3

(* So what holds of a call goes on holding while the others work.          *)
LEMMA OthersKeep ==
  ASSUME TypeOK, Flat, NEW p \in Procs, pc[p] # "idle", Sound(p),
         SameCallOf(p), SamePrefixes(p), SameArchives(p), SameScratch(p)
  PROVE  Sound(p)'
<1>1. /\ pc'[p] = pc[p] /\ stack'[p] = stack[p] /\ todo'[p] = todo[p]
      /\ left'[p] = left[p] /\ outcome'[p] = outcome[p]
  BY DEF SameCallOf
<1>2. /\ Root(p) \in Reach(p) /\ Pkg(p) \in Reach(p) /\ Pkg(p) \in Packages
      /\ Dest(p) \in Prefixes /\ Dest(p)[1] = Root(p)
  BY Placing, Typing DEF Sound, TypeOK
<1>3. files'[Dest(p)] = files[Dest(p)] /\ manifest'[Dest(p)] = manifest[Dest(p)]
  BY <1>2 DEF SamePrefixes
<1>4. /\ Pkg(p)' = Pkg(p) /\ Root(p)' = Root(p) /\ Nested(p)' = Nested(p)
      /\ Own(p)' = Own(p) /\ Dest(p)' = Dest(p) /\ Archive(p)' = Archive(p)
      /\ Here(p)' = Here(p) /\ Done(p)' = Done(p)
      /\ \A q : Lines(p, q)' = Lines(p, q)
  BY <1>1, SameFrame, SameLines
<1>5. /\ Foreseen(p)' <=> Foreseen(p)
      /\ \A q : InPlace(p, q)' <=> InPlace(p, q)
      /\ \A q : Away(p, q)' <=> Away(p, q)
      /\ Existing(p)' = Existing(p)
      /\ AllInPlace(p)' <=> AllInPlace(p)
      /\ Complete(p)' <=> Complete(p)
  BY <1>1, <1>3, <1>4, SamePlace
<1>6. Called(p)' /\ Verified(p)'
  BY OthersCalled DEF Sound
<1>7. Clear(p)'
  <2>1. Cleared(p)' = Cleared(p) /\ Busy(p)' = Busy(p)
    BY <1>1, <1>4 DEF Cleared, Busy
  <2> QED
    BY <1>3, <1>4, <1>5, <2>1 DEF Sound, Clear
<1>8. Written(p)'
  BY <1>1, <1>3, <1>4, <1>5 DEF Sound, Written
<1>9. Committing(p)'
  BY <1>1, <1>3, <1>4, <1>5 DEF Sound, Committing
<1>10. Scratch(p)'
  <2>1. CASE Root(p) \in Binary
    BY <1>4, <2>1 DEF Scratch
  <2>2. CASE UNCHANGED scratchVars
    BY <1>1, <1>4, <2>2 DEF Sound, Scratch, RightTrees, RightBuilt, Sources, Built,
       scratchVars
  <2> QED
    BY <2>1, <2>2 DEF SameScratch
<1> QED
  BY <1>6, <1>7, <1>8, <1>9, <1>10 DEF Sound

-----------------------------------------------------------------------------
(* Own steps: first those that leave the call and the install directory as *)
(* they are.                                                               *)
Stays(p) ==
  /\ stack'[p] = stack[p] /\ todo'[p] = todo[p]
  /\ files'[Dest(p)] = files[Dest(p)] /\ manifest'[Dest(p)] = manifest[Dest(p)]

LEMMA Staying ==
  ASSUME NEW p, Stays(p)
  PROVE  /\ Pkg(p)' = Pkg(p) /\ Root(p)' = Root(p) /\ Nested(p)' = Nested(p)
         /\ Own(p)' = Own(p) /\ Dest(p)' = Dest(p) /\ Archive(p)' = Archive(p)
         /\ Here(p)' = Here(p) /\ Done(p)' = Done(p)
         /\ \A q : Lines(p, q)' = Lines(p, q)
         /\ Foreseen(p)' <=> Foreseen(p)
         /\ \A q : InPlace(p, q)' <=> InPlace(p, q)
         /\ \A q : Away(p, q)' <=> Away(p, q)
         /\ Existing(p)' = Existing(p)
         /\ AllInPlace(p)' <=> AllInPlace(p)
         /\ Complete(p)' <=> Complete(p)
BY SameFrame, SameLines, SamePlace DEF Stays

LEMMA ClearKept ==
  ASSUME NEW p, Stays(p), Clear(p), Cleared(p)' => Cleared(p), Busy(p) \subseteq Busy(p)'
  PROVE  Clear(p)'
<1>1. /\ Root(p)' = Root(p) /\ Done(p)' = Done(p) /\ Dest(p)' = Dest(p)
      /\ Foreseen(p)' <=> Foreseen(p)
      /\ \A q : InPlace(p, q)' <=> InPlace(p, q)
      /\ \A q : Away(p, q)' <=> Away(p, q)
  BY Staying
<1>2. manifest'[Dest(p)] = manifest[Dest(p)]
  BY DEF Stays
<1> QED
  BY <1>1, <1>2 DEF Clear

(* Labels at which nothing of the package on top is in its files yet.      *)
Quiet == Fetching \cup {"wipeSrc", "mkSrc", "wipeBld", "mkBld", "mkdir", "deps",
                        "reset", "log", "configure", "make", "install"}

LEMMA QuietMove ==
  ASSUME NEW p, Sound(p), Stays(p), pc[p] \in Quiet, pc'[p] \in Quiet
  PROVE  Clear(p)' /\ Written(p)' /\ Committing(p)'
<1>1. Cleared(p) /\ Busy(p) = {}
  BY DEF Quiet, Fetching, Cleared, Busy
<1>2. Clear(p)'
  BY <1>1, ClearKept DEF Sound
<1>3. Written(p)' /\ Committing(p)'
  BY DEF Quiet, Fetching, Written, Committing
<1> QED
  BY <1>2, <1>3

LEMMA MovesTo ==
  ASSUME TypeOK, NEW p \in Procs, NEW l, Goto(p, l) \/ Finish(p, l)
  PROVE  pc'[p] = l /\ stack'[p] = stack[p] /\ todo'[p] = todo[p]
BY DEF Goto, Finish, call, TypeOK, CallOK

LEMMA Ends ==
  ASSUME TypeOK, NEW p \in Procs, NEW s, End(p, s)
  PROVE  pc'[p] = "idle"
BY DEF End, TypeOK, CallOK

(* The scratch directories.                                                *)
LEMMA SoundScratch ==
  ASSUME TypeOK, Flat, NEW p \in Procs, pc[p] # "idle", Sound(p), Called(p)', Verified(p)',
         \/ RemoveSource(p) \/ CreateSource(p) \/ RemoveBuild(p) \/ CreateBuild(p)
         \/ CreateInstallDir(p) \/ CleanSource(p) \/ CleanBuild(p)
  PROVE  pc'[p] = "idle" \/ Sound(p)'
<1> USE DEF At
<1>1. CASE Abort(p)
  BY <1>1, Ends DEF Abort
<1>2. CASE ~Abort(p)
  <2>1. UNCHANGED <<files, manifest>>
    BY DEF RemoveSource, CreateSource, RemoveBuild, CreateBuild, CreateInstallDir,
           CleanSource, CleanBuild, prefixVars
  <2>2. /\ stack'[p] = stack[p] /\ todo'[p] = todo[p]
        /\ \/ pc[p] = "wipeSrc" /\ pc'[p] = "mkSrc" /\ srcDir' = Absent /\ UNCHANGED bldDir
           \/ pc[p] = "mkSrc" /\ pc'[p] = "wipeBld" /\ srcDir' = {} /\ UNCHANGED bldDir
           \/ pc[p] = "wipeBld" /\ pc'[p] = "mkBld" /\ bldDir' = Absent /\ UNCHANGED srcDir
           \/ pc[p] = "mkBld" /\ pc'[p] = AfterScratch(p) /\ bldDir' = {} /\ UNCHANGED srcDir
           \/ pc[p] = "mkdir" /\ pc'[p] = "deps" /\ UNCHANGED scratchVars
           \/ pc[p] = "cleanSrc" /\ pc'[p] = "cleanBld" /\ srcDir' = Absent /\ UNCHANGED bldDir
           \/ pc[p] = "cleanBld" /\ pc'[p] = "returned" /\ bldDir' = Absent /\ UNCHANGED srcDir
    BY <1>2, MovesTo DEF RemoveSource, CreateSource, RemoveBuild, CreateBuild,
       CreateInstallDir, CleanSource, CleanBuild
  <2>3. Stays(p)
    BY <2>1, <2>2 DEF Stays
  <2>4. ~Nested(p)
    <3>1. pc[p] # "mkdir" => Pkg(p) \notin Binary
      BY <2>2 DEF Sound, Called, OfSource
    <3>2. pc[p] = "mkdir" => ~Nested(p)
      BY DEF Sound, Called
    <3> QED
      BY <3>1, <3>2, Placing DEF Sound
  <2>6. Scratch(p)'
    <3>1. \/ pc'[p] \in {"mkSrc", "wipeBld", "cleanBld"} /\ Sources(Root(p))' = {}
             /\ UNCHANGED bldDir
          \/ pc'[p] \in {"mkBld", "mkdir", "returned"} /\ Built(Root(p))' = {}
             /\ UNCHANGED srcDir
          \/ pc'[p] = "deps" /\ UNCHANGED <<srcDir, bldDir>>
      BY <2>2, <2>4 DEF Sources, Built, AfterScratch, scratchVars
    <3>2. /\ UNCHANGED srcDir => (RightTrees(p) => RightTrees(p)')
          /\ UNCHANGED bldDir => (RightBuilt(p) => RightBuilt(p)')
      BY <2>2, <2>3, Staying DEF RightTrees, RightBuilt, Sources, Built
    <3>3. /\ Sources(Root(p))' = {} => RightTrees(p)'
          /\ Built(Root(p))' = {} => RightBuilt(p)'
      BY DEF RightTrees, RightBuilt
    <3> QED
      BY <2>2, <2>3, <2>4, <3>1, <3>2, <3>3, Staying DEF Sound, Scratch, Fetching
  <2>7. CASE pc[p] \in Quiet
    <3>1. pc'[p] \in Quiet
      BY <2>2, <2>4, <2>7 DEF Quiet, Fetching, AfterScratch
    <3>2. Clear(p)' /\ Written(p)' /\ Committing(p)'
      BY <2>3, <2>7, <3>1, QuietMove
    <3> QED
      BY <2>6, <3>2 DEF Sound
  <2>8. CASE pc[p] \in {"cleanSrc", "cleanBld"}
    <3>1. Clear(p)'
      BY <2>2, <2>3, <2>4, <2>8, Staying DEF Clear, Cleared
    <3>2. Written(p)'
      BY <2>2, <2>3, <2>4, <2>8, Staying DEF Written
    <3>3. AllInPlace(p)'
      BY <2>3, <2>8, Staying DEF Sound, Committing
    <3>4. Complete(p)'
      BY <2>3, <2>8, Staying, AllIsComplete DEF Sound, Committing
    <3>5. Committing(p)'
      BY <2>2, <2>8, <3>3, <3>4 DEF Committing
    <3> QED
      BY <2>6, <3>1, <3>2, <3>5 DEF Sound
  <2> QED
    BY <2>2, <2>7, <2>8 DEF Quiet
<1> QED
  BY <1>1, <1>2

(* The way through the cache and wget to the unpacker.                     *)
LEMMA SoundFetch ==
  ASSUME TypeOK, Flat, NEW p \in Procs, pc[p] # "idle", Sound(p), Called(p)', Verified(p)',
         \/ DependenciesInstalled(p) \/ CheckCache(p) \/ OpenArchive(p) \/ Fetch(p)
         \/ FetchOther(p) \/ CheckHash(p) \/ Unzstd(p) \/ Unzstded(p) \/ UntarFails(p)
  PROVE  pc'[p] = "idle" \/ Sound(p)'
<1> USE DEF At
<1>1. CASE Abort(p)
  BY <1>1, Ends DEF Abort
<1>2. CASE ~Abort(p)
  <2>1. UNCHANGED <<files, manifest, srcDir, bldDir>>
    BY DEF DependenciesInstalled, CheckCache, OpenArchive, Fetch, FetchOther, CheckHash,
           Unzstd, Unzstded, UntarFails, home, prefixVars, scratchVars
  <2>2. /\ stack'[p] = stack[p] /\ todo'[p] = todo[p] /\ pc'[p] \in Fetching
        /\ \/ pc[p] = "deps" /\ Top(p).dep > Len(DEPENDS[Pkg(p)])
           \/ pc[p] \in Fetching
    BY <1>2, MovesTo DEF DependenciesInstalled, CheckCache, OpenArchive, Fetch,
                         FetchOther, CheckHash, Unzstd, Unzstded, UntarFails,
                         Unnoticed, Accept, Fetching, Dependencies
  <2>3. Stays(p)
    BY <2>1, <2>2 DEF Stays
  <2>5. Scratch(p)'
    <3>1. (RightTrees(p) => RightTrees(p)') /\ (RightBuilt(p) => RightBuilt(p)')
      BY <2>1, <2>2, <2>3, Staying DEF RightTrees, RightBuilt, Sources, Built
    <3> QED
      BY <2>2, <2>3, <3>1, Staying DEF Sound, Scratch, Fetching
  <2>6. pc[p] \in Quiet /\ pc'[p] \in Quiet
    BY <2>2 DEF Quiet
  <2>7. Clear(p)' /\ Written(p)' /\ Committing(p)'
    BY <2>3, <2>6, QuietMove
  <2> QED
    BY <2>5, <2>7 DEF Sound
<1> QED
  BY <1>1, <1>2

(* What the unpackers, git and the build put into .s and .b.               *)
LEMMA SoundBuild ==
  ASSUME TypeOK, Flat, NEW p \in Procs, pc[p] # "idle", Sound(p), Called(p)', Verified(p)',
         \/ UntarSource(p) \/ Clone(p) \/ Reset(p) \/ OpenLog(p) \/ Configure(p) \/ Make(p)
  PROVE  pc'[p] = "idle" \/ Sound(p)'
<1> USE DEF At
<1>1. CASE Abort(p)
  BY <1>1, Ends DEF Abort
<1>2. CASE ~Abort(p)
  <2>1. UNCHANGED <<files, manifest>>
    BY DEF UntarSource, Clone, Reset, OpenLog, Configure, Make, home, prefixVars
  <2>2. /\ stack'[p] = stack[p] /\ todo'[p] = todo[p] /\ pc[p] \in Quiet
        /\ \/ pc[p] = "untar" /\ pc'[p] = "log" /\ UntarSource(p)
           \/ pc[p] = "download" /\ pc'[p] \in {"reset", "log"} /\ Clone(p) /\ srcDir = {}
              /\ (Pkg(p) \in Pinned => pc'[p] = "reset")
           \/ pc[p] = "reset" /\ pc'[p] = "log" /\ Reset(p)
           \/ pc[p] = "log" /\ pc'[p] = "configure" /\ OpenLog(p)
           \/ pc[p] = "configure" /\ pc'[p] = "make" /\ Configure(p)
           \/ pc[p] = "make" /\ pc'[p] = "install" /\ Make(p)
    BY <1>2, MovesTo DEF UntarSource, Clone, Reset, OpenLog, Configure, Make, Quiet,
                         Fetching
  <2>3. Stays(p)
    BY <2>1, <2>2 DEF Stays
  <2>4. Pkg(p) \notin Binary
    <3>1. Pkg(p) \in Packages
      BY Typing DEF TypeOK
    <3>2. UntarSource(p) \/ Clone(p) => Pkg(p) \notin Binary
      BY <3>1, HomeAssumption DEF UntarSource, Clone
    <3>3. pc[p] \in {"reset", "log", "configure", "make"} => Pkg(p) \notin Binary
      BY DEF Sound, Called, OfSource
    <3> QED
      BY <2>2, <3>2, <3>3
  <2>5. ~Nested(p) /\ Pkg(p) = Root(p)
    BY <2>4, Placing DEF Sound
  <2>7. pc'[p] \in Quiet
    BY <2>2 DEF Quiet
  <2>8. Clear(p)' /\ Written(p)' /\ Committing(p)'
    BY <2>2, <2>3, <2>7, QuietMove
  <2>9. Scratch(p)'
    <3>0. Root(p) \notin Binary /\ Root(p)' = Root(p) /\ ~Nested(p)' /\ todo'[p] = todo[p]
      BY <2>2, <2>3, <2>4, <2>5, Staying
    <3>1. CASE UntarSource(p) /\ pc[p] = "untar" /\ pc'[p] = "log"
      <4>1. RightTrees(p) /\ RightBuilt(p)
        BY <3>0, <3>1 DEF Sound, Scratch, Fetching
      <4>2. srcDir' = srcDir \cup {[pkg |-> TarInput(p), rev |-> "requested"]}
            /\ srcDir # Absent /\ UNCHANGED bldDir
        BY <2>4, <3>1 DEF UntarSource, Unpackable
      <4>3. RightTrees(p)'
        BY <3>0, <4>1, <4>2 DEF RightTrees, Sources
      <4>4. RightBuilt(p)'
        BY <3>0, <4>1, <4>2 DEF RightBuilt, Built
      <4> QED
        BY <3>1, <4>3, <4>4 DEF Scratch
    <3>2. CASE Clone(p) /\ srcDir = {} /\ pc[p] = "download" /\ pc'[p] \in {"reset", "log"}
               /\ (Pkg(p) \in Pinned => pc'[p] = "reset")
      <4>1. RightBuilt(p)
        BY <3>0, <3>2 DEF Sound, Scratch, Fetching
      <4>2. /\ UNCHANGED bldDir
            /\ srcDir' = {[pkg |-> Pkg(p),
                           rev |-> IF Pkg(p) \in Pinned THEN "tip" ELSE "requested"]}
        BY <3>2 DEF Clone
      <4>3. pc'[p] = "log" => RightTrees(p)'
        BY <3>2, <4>2 DEF RightTrees, Sources
      <4>4. RightBuilt(p)'
        BY <3>0, <4>1, <4>2 DEF RightBuilt, Built
      <4> QED
        BY <3>0, <3>2, <4>3, <4>4 DEF Scratch, Fetching
    <3>3. CASE Reset(p) /\ pc[p] = "reset" /\ pc'[p] = "log"
      <4>1. RightBuilt(p) /\ UNCHANGED bldDir
        BY <3>0, <3>3 DEF Sound, Scratch, Reset
      <4>2. RightTrees(p)'
        <5>1. CASE srcDir = Absent
          BY <3>3, <5>1 DEF Reset, RightTrees, Sources
        <5>2. CASE srcDir # Absent
          <6>1. srcDir' = {IF t.pkg = Pkg(p) THEN [t EXCEPT !.rev = "requested"] ELSE t
                           : t \in srcDir}
            BY <3>3, <5>2 DEF Reset
          <6>2. srcDir \subseteq Tree
            BY <5>2 DEF TypeOK, HomeOK
          <6>3. \A t \in srcDir' : t.pkg = Pkg(p) => t.rev = "requested"
            BY <6>1, <6>2 DEF Tree
          <6> QED
            BY <2>5, <3>0, <6>3 DEF RightTrees, Sources
        <5> QED
          BY <5>1, <5>2
      <4>3. RightBuilt(p)'
        BY <3>0, <4>1 DEF RightBuilt, Built
      <4> QED
        BY <3>3, <4>2, <4>3 DEF Scratch
    <3>4. CASE OpenLog(p) /\ pc[p] = "log" /\ pc'[p] = "configure"
      <4>1. RightTrees(p) /\ RightBuilt(p) /\ UNCHANGED <<srcDir, bldDir>>
        BY <3>0, <3>4 DEF Sound, Scratch, OpenLog, home, scratchVars
      <4>2. RightTrees(p)' /\ RightBuilt(p)'
        BY <3>0, <4>1 DEF RightTrees, RightBuilt, Sources, Built
      <4> QED
        BY <3>4, <4>2 DEF Scratch
    <3>5. CASE Configure(p) /\ pc[p] = "configure" /\ pc'[p] = "make"
      <4>1. RightTrees(p) /\ RightBuilt(p) /\ UNCHANGED <<srcDir, bldDir>>
        BY <3>0, <3>5 DEF Sound, Scratch, Configure
      <4>2. makefile' = Own(p) /\ Own(p)' = Own(p)
        BY <1>2, <2>3, <3>5, Staying DEF Configure
      <4>3. RightTrees(p)' /\ RightBuilt(p)'
        BY <3>0, <4>1 DEF RightTrees, RightBuilt, Sources, Built
      <4> QED
        BY <3>5, <4>2, <4>3 DEF Scratch
    <3>6. CASE Make(p) /\ pc[p] = "make" /\ pc'[p] = "install"
      <4>1. RightTrees(p) /\ RightBuilt(p) /\ makefile = Own(p)
        BY <3>0, <3>6 DEF Sound, Scratch
      <4>2. PICK o \in Makes(Own(p)) : bldDir' = bldDir \cup {o}
        BY <3>6, <4>1 DEF Make
      <4>3. UNCHANGED <<srcDir, makefile>> /\ Own(p)' = Own(p) /\ bldDir # Absent
        BY <2>3, <3>6, Staying, NotThere DEF Make, TypeOK, HomeOK
      <4>4. o = Wanted(Root(p), Head(todo[p]))
        BY <2>4, <2>5, <4>1, <4>2, RightMakes DEF Sound
      <4>5. RightTrees(p)' /\ RightBuilt(p)'
        BY <3>0, <4>1, <4>2, <4>3, <4>4 DEF RightTrees, RightBuilt, Sources, Built
      <4> QED
        BY <3>6, <4>1, <4>3, <4>5 DEF Scratch
    <3> QED
      BY <2>2, <3>1, <3>2, <3>3, <3>4, <3>5, <3>6
  <2> QED
    BY <2>8, <2>9 DEF Sound
<1> QED
  BY <1>1, <1>2

(* A manifest that is there when it is checked is complete.                *)
LEMMA Trusted ==
  ASSUME TypeOK, Apart, Flat, Running, CommitsWhole, NEW p \in Procs, pc[p] = "verify",
         manifest[Own(p)] # Absent
  PROVE  \A q \in Needs(Pkg(p)) : PackageLines(q, Own(p)[2]) \subseteq manifest[Own(p)]
<1>1. /\ Own(p) \in Prefixes /\ Own(p)[1] = Pkg(p) /\ Pkg(p) \in Reach(p)
  BY Placing DEF Running, Sound
<1>2. ASSUME NEW q \in Procs, pc[q] = "lines", Own(q) = Own(p)
      PROVE  FALSE
  <2>1. Own(q)[1] = Pkg(q) /\ Pkg(q) \in Reach(q)
    BY <1>2, Placing DEF Running, Sound
  <2> QED
    BY <1>1, <1>2, <2>1 DEF Apart
<1> QED
  BY <1>1, <1>2 DEF CommitsWhole, At

(* The check.  Of a dependency some lines are in place only if all are.    *)
LEMMA SoundVerify ==
  ASSUME TypeOK, Apart, Flat, Running, Kept, CommitsWhole,
         NEW p \in Procs, pc[p] # "idle", Called(p)', Verified(p)',
         AlreadyInstalled(p) \/ NeedInstall(p)
  PROVE  Sound(p)'
<1> USE DEF At
<1>1. UNCHANGED <<files, manifest, srcDir, bldDir>>
  BY DEF AlreadyInstalled, NeedInstall, home, prefixVars, scratchVars
<1>2. /\ stack'[p] = stack[p] /\ todo'[p] = todo[p] /\ pc[p] = "verify"
      /\ \/ pc'[p] = "wipe"
         \/ /\ pc'[p] = "returned" /\ manifest[Own(p)] # Absent
            /\ \/ outcome'[p] = "sampled" /\ \E line \in manifest[Own(p)] : Matches(p, line)
               \/ Verifies(p)
  BY DEF AlreadyInstalled, NeedInstall, Goto, call, Verifies, TypeOK, CallOK
<1>3. Sound(p) /\ Stays(p)
  BY <1>1, <1>2 DEF Running, Stays
<1>5. Clear(p)'
  <2>1. (Cleared(p)' => Cleared(p)) /\ Busy(p) \subseteq Busy(p)'
    BY <1>2, <1>3, Staying DEF Cleared, Busy
  <2> QED
    BY <1>3, <2>1, ClearKept DEF Sound
<1>6. /\ Pkg(p) \in Packages /\ Root(p) \in Packages /\ Dest(p) \in Prefixes
      /\ Own(p) \in Prefixes /\ Own(p)[1] = Pkg(p)
      /\ Head(todo[p]) \in BuildTypes /\ Pkg(p) \in Needs(Root(p))
  BY <1>3, Placing, Typing DEF Sound, TypeOK
<1>7. PackageLines(Pkg(p), Own(p)[2]) = Lines(p, Pkg(p))
  <2>1. Wanted(Pkg(p), Own(p)[2]) = Wanted(Pkg(p), Head(todo[p]))
    BY DEF Wanted, Own, PrefixOf
  <2> QED
    BY <2>1 DEF PackageLines, Lines
<1>8. ASSUME pc'[p] = "returned", Nested(p) PROVE InPlace(p, Pkg(p))
  <2>1. \/ manifest[Own(p)] # Absent /\ \E line \in manifest[Own(p)] : Matches(p, line)
        \/ Verifies(p)
    BY <1>2, <1>8
  <2>2. Lines(p, Pkg(p)) \subseteq manifest[Own(p)]
    <3>1. PackageLines(Pkg(p), Own(p)[2]) \subseteq manifest[Own(p)]
      BY <1>2, <1>8, Trusted DEF Needs
    <3> QED
      BY <1>7, <3>1
  <2>3. CASE Verifies(p)
    BY <2>2, <2>3 DEF Verifies, Matches, InPlace
  <2>4. ASSUME NEW line \in manifest[Own(p)], Matches(p, line), manifest[Own(p)] # Absent
        PROVE  InPlace(p, Pkg(p))
    <3>1. PICK q \in Needs(Pkg(p)) \cap Packages : line \in PackageLines(q, Own(p)[2])
      BY <1>6, <2>4 DEF Kept
    <3>2. Needs(Pkg(p)) = {Pkg(p)}
      <4>1. DEPENDS[Pkg(p)] = <<>>
        BY <1>3, <1>8, Placing DEF Sound
      <4>2. Len(DEPENDS[Pkg(p)]) = 0
        BY <4>1
      <4> QED
        BY <4>2 DEF Needs
    <3>3. line \in Lines(p, Pkg(p))
      BY <1>7, <3>1, <3>2
    <3>4. line[1] \in FilesOf[Pkg(p)] /\ line[2] # None
      BY <1>6, <3>3, LineOf DEF Lines
    <3>5. ~Away(p, Pkg(p))
      BY <2>4, <3>4 DEF Away, Matches
    <3>6. Cleared(p) /\ Busy(p) = {}
      BY <1>2, <1>8 DEF Cleared, Busy
    <3> QED
      BY <1>3, <1>6, <3>5, <3>6 DEF Sound, Clear
  <2> QED
    BY <2>1, <2>3, <2>4
<1>9. Written(p)'
  BY <1>2, <1>3, <1>8, Staying DEF Written
<1>10. Committing(p)'
  <2>1. ASSUME ~Nested(p), outcome'[p] # "sampled", pc'[p] = "returned"
        PROVE  Complete(p)
    <3>1. Verifies(p) /\ Own(p) = Dest(p) /\ Pkg(p) = Root(p) /\ manifest[Own(p)] # Absent
      BY <1>2, <1>3, <2>1, Placing DEF Sound
    <3>2. \A q \in Needs(Root(p)) : PackageLines(q, Dest(p)[2]) \subseteq manifest[Dest(p)]
      BY <1>2, <3>1, Trusted
    <3> QED
      BY <3>1, <3>2 DEF Verifies, Matches, Complete
  <2> QED
    BY <1>2, <1>3, <2>1, Staying DEF Committing
<1>11. Scratch(p)'
  <2>1. (RightTrees(p) => RightTrees(p)') /\ (RightBuilt(p) => RightBuilt(p)')
    BY <1>1, <1>2, <1>3, Staying DEF RightTrees, RightBuilt, Sources, Built
  <2> QED
    BY <1>2, <1>3, <2>1, Staying DEF Sound, Scratch, Fetching
<1> QED
  BY <1>5, <1>9, <1>10, <1>11 DEF Sound

(* The wiping: of the root's prefix nothing is left when it is over, and   *)
(* that of a dependency is not the install directory.                      *)
LEMMA SoundWipe ==
  ASSUME TypeOK, Flat, NEW p \in Procs, pc[p] # "idle", Sound(p), Called(p)', Verified(p)',
         RemoveEntry(p) \/ RemovePrefix(p)
  PROVE  Sound(p)'
<1> USE DEF At
<1>0. /\ pc[p] = "wipe" /\ stack'[p] = stack[p] /\ todo'[p] = todo[p]
      /\ UNCHANGED <<srcDir, bldDir>>
  BY MovesTo DEF RemoveEntry, RemovePrefix, call, scratchVars
<1>1. /\ Pkg(p)' = Pkg(p) /\ Root(p)' = Root(p) /\ Nested(p)' = Nested(p)
      /\ Dest(p)' = Dest(p) /\ Here(p)' = Here(p) /\ Done(p)' = Done(p)
      /\ \A q : Lines(p, q)' = Lines(p, q)
  BY <1>0, SameFrame, SameLines
<1>2. /\ Own(p) \in Prefixes /\ Dest(p) \in Prefixes
      /\ ~Nested(p) => Pkg(p) = Root(p) /\ Own(p) = Dest(p)
      /\ Nested(p) => Own(p) # Dest(p) /\ Pkg(p) \in Binary
  BY Placing DEF Sound
<1>3. /\ pc'[p] \in {"wipe", "wipeSrc", "mkdir", "deps"}
      /\ pc'[p] = "wipeSrc" => Pkg(p) \notin Binary
      /\ pc'[p] = "mkdir" => ~Nested(p)
      /\ pc'[p] = "deps" => Nested(p)
  BY <1>0, MovesTo DEF RemoveEntry, RemovePrefix, AfterScratch
<1>5. Written(p)' /\ Committing(p)'
  BY <1>3 DEF Written, Committing
<1>6. Scratch(p)'
  <2>1. (RightTrees(p) => RightTrees(p)') /\ (RightBuilt(p) => RightBuilt(p)')
    BY <1>0, <1>1 DEF RightTrees, RightBuilt, Sources, Built
  <2>2. Root(p) \notin Binary /\ pc'[p] = "mkdir" => FALSE
    BY <1>0, <1>2, <1>3, MovesTo DEF RemoveEntry, RemovePrefix
  <2> QED
    BY <1>1, <1>3, <2>1, <2>2 DEF Sound, Scratch, Fetching
<1>7. Clear(p)'
  <2>1. CASE Nested(p)
    <3>1. files'[Dest(p)] = files[Dest(p)] /\ manifest'[Dest(p)] = manifest[Dest(p)]
      BY <1>2, <2>1 DEF RemoveEntry, RemovePrefix, TypeOK, HomeOK
    <3>2. Stays(p)
      BY <1>0, <3>1 DEF Stays
    <3>3. Cleared(p) /\ Busy(p) = {}
      BY <1>0, <2>1 DEF Cleared, Busy
    <3> QED
      BY <3>2, <3>3, ClearKept DEF Sound
  <2>2. CASE RemoveEntry(p) /\ ~Nested(p)
    <3>1. pc'[p] = "wipe"
      BY <1>0, <2>2 DEF RemoveEntry
    <3> QED
      BY <1>1, <2>2, <3>1 DEF Clear, Cleared
  <2>3. CASE RemovePrefix(p) /\ ~Nested(p)
    <3>1. /\ manifest[Dest(p)] = Absent /\ \A f \in Files : files[Dest(p)][f] = None
          /\ UNCHANGED <<files, manifest>>
      BY <1>2, <2>3 DEF RemovePrefix
    <3>2. Done(p) = 0
      BY <1>0, <2>3 DEF Sound, Called, Preparing, Done
    <3>3. manifest'[Dest(p)] = Absent /\ Foreseen(p)'
      BY <1>1, <3>1 DEF Foreseen
    <3>4. \A q \in Packages : Away(p, q)'
      BY <1>1, <3>1, HomeAssumption DEF Away
    <3> QED
      BY <1>1, <3>2, <3>3, <3>4 DEF Clear
  <2> QED
    BY <2>1, <2>2, <2>3
<1> QED
  BY <1>5, <1>6, <1>7 DEF Sound

(* tar, git and make install begin, with the files of this very package.   *)
LEMMA SoundUnpack ==
  ASSUME TypeOK, Flat, NEW p \in Procs, pc[p] # "idle", Sound(p), Called(p)', Verified(p)',
         UntarBinary(p) \/ CloneBinary(p) \/ MakeInstall(p)
  PROVE  pc'[p] = "idle" \/ Sound(p)'
<1> USE DEF At
<1>1. CASE Abort(p)
  BY <1>1, Ends DEF Abort
<1>2. CASE ~Abort(p)
  <2>1. UNCHANGED <<files, manifest, srcDir>>
    BY DEF UntarBinary, CloneBinary, MakeInstall, home, prefixVars, scratchVars
  <2>2. /\ stack'[p] = stack[p] /\ todo'[p] = todo[p]
        /\ \/ UntarBinary(p) /\ pc[p] = "untar" /\ pc'[p] = "unpacking" /\ Pkg(p) \in Binary
           \/ CloneBinary(p) /\ pc[p] = "download" /\ pc'[p] = "unpacking"
              /\ Pkg(p) \in Binary
           \/ MakeInstall(p) /\ pc[p] = "install" /\ pc'[p] = "copying"
    BY <1>2, MovesTo DEF UntarBinary, CloneBinary, MakeInstall
  <2>3. Stays(p)
    BY <2>1, <2>2 DEF Stays
  <2>4. ASSUME MakeInstall(p), pc[p] = "install"
        PROVE  left'[p] = Lines(p, Pkg(p)) /\ RightBuilt(p)'
    <3>1. Pkg(p) \notin Binary
      BY <2>4 DEF Sound, Called, OfSource
    <3>2. ~Nested(p) /\ Pkg(p) = Root(p)
      BY <3>1, Placing DEF Sound
    <3>3. RightTrees(p) /\ RightBuilt(p) /\ makefile = Own(p) /\ Own(p)[1] = Pkg(p)
      BY <2>4, <3>1, <3>2, Placing DEF Sound, Scratch
    <3>4. PICK o \in Makes(Own(p)) : /\ bldDir' = bldDir \cup {o}
                                    /\ left' = [left EXCEPT ![p] = FilesOf[Pkg(p)] \X {o}]
      BY <1>2, <2>4, <3>3 DEF MakeInstall
    <3>5. o = Wanted(Root(p), Head(todo[p]))
      BY <3>1, <3>2, <3>3, RightMakes DEF Sound
    <3>6. bldDir # Absent
      BY <2>4, NotThere DEF MakeInstall, TypeOK, HomeOK
    <3>7. RightBuilt(p)'
      BY <2>2, <2>3, <3>3, <3>4, <3>5, <3>6, Staying DEF RightBuilt, Built
    <3>8. left'[p] = Lines(p, Pkg(p))
      BY <3>2, <3>4, <3>5 DEF Lines, PackageLines, TypeOK
    <3> QED
      BY <3>7, <3>8
  <2>5. left'[p] = Lines(p, Pkg(p)) /\ (RightBuilt(p) => RightBuilt(p)')
    <3>1. CASE UntarBinary(p) /\ pc[p] = "untar" /\ Pkg(p) \in Binary
      <4>1. TarInput(p) = Pkg(p)
        BY <3>1 DEF Sound, Verified
      <4>2. left'[p] = FilesOf[Pkg(p)] \X {Wanted(Pkg(p), "any")} /\ UNCHANGED bldDir
        BY <3>1, <4>1 DEF UntarBinary, TypeOK, home, scratchVars
      <4> QED
        BY <2>2, <2>3, <3>1, <4>2, Staying
           DEF Lines, PackageLines, Wanted, RightBuilt, Built
    <3>2. CASE CloneBinary(p) /\ pc[p] = "download" /\ Pkg(p) \in Binary
      <4>1. left'[p] = FilesOf[Pkg(p)] \X {Wanted(Pkg(p), "any")} /\ UNCHANGED bldDir
        BY <1>2, <3>2 DEF CloneBinary, TypeOK, home, scratchVars
      <4> QED
        BY <2>2, <2>3, <3>2, <4>1, Staying
           DEF Lines, PackageLines, Wanted, RightBuilt, Built
    <3> QED
      BY <2>2, <2>4, <3>1, <3>2
  <2>6. Clear(p)'
    <3>1. Cleared(p) /\ Busy(p) = {}
      BY <2>2 DEF Cleared, Busy
    <3> QED
      BY <2>3, <3>1, ClearKept DEF Sound
  <2>7. Written(p)'
    BY <2>2, <2>3, <2>5, Staying DEF Written
  <2>8. Committing(p)'
    BY <2>2 DEF Committing
  <2>9. Scratch(p)'
    <3>1. RightTrees(p) => RightTrees(p)'
      BY <2>1, <2>2, <2>3, Staying DEF RightTrees, Sources
    <3> QED
      BY <2>2, <2>3, <2>5, <3>1, Staying DEF Sound, Scratch, Fetching
  <2> QED
    BY <2>6, <2>7, <2>8, <2>9 DEF Sound
<1> QED
  BY <1>1, <1>2

(* One file more.                                                          *)
LEMMA SoundPlace ==
  ASSUME TypeOK, Flat, Separate, NEW p \in Procs, pc[p] # "idle", Sound(p),
         Called(p)', Verified(p)', PlaceFile(p)
  PROVE  Sound(p)'
<1> DEFINE q == Pkg(p)
           x == Dest(p)
<1>0. /\ pc[p] \in {"unpacking", "copying"} /\ pc' = pc
      /\ stack' = stack /\ todo' = todo /\ UNCHANGED <<manifest, srcDir, bldDir>>
  BY DEF PlaceFile, call, scratchVars
<1>1. /\ Pkg(p)' = q /\ Root(p)' = Root(p) /\ Nested(p)' = Nested(p)
      /\ Dest(p)' = x /\ Here(p)' = Here(p) /\ Done(p)' = Done(p)
      /\ \A r : Lines(p, r)' = Lines(p, r)
  BY <1>0, SameFrame, SameLines
<1>2. /\ x \in Prefixes /\ q \in Packages /\ Root(p) \in Packages
      /\ q \in Needs(Root(p)) /\ Head(todo[p]) \in BuildTypes
  BY Placing, Typing DEF Sound, TypeOK
<1>3. PICK l \in left[p] : /\ files' = [files EXCEPT ![x][l[1]] = l[2]]
                          /\ left' = [left EXCEPT ![p] = @ \ {l}]
  BY <1>0, Targets DEF PlaceFile
<1>4. l \in Lines(p, q)
  BY <1>0, <1>3 DEF Sound, Written
<1>5. l[1] \in FilesOf[q] /\ l[1] \in Files /\ l[2] = Wanted(q, Head(todo[p]))
      /\ l = <<l[1], l[2]>>
  BY <1>2, <1>4, LineOf DEF Lines
<1>6. \A f \in Files : files'[x][f] = IF f = l[1] THEN l[2] ELSE files[x][f]
  BY <1>2, <1>3, <1>5 DEF TypeOK, HomeOK
<1> HIDE DEF q, x
<1>7. \A r \in Packages : InPlace(p, r) => InPlace(p, r)'
  <2> SUFFICES ASSUME NEW r \in Packages, InPlace(p, r), NEW m \in Lines(p, r)
               PROVE  files'[x][m[1]] = m[2]
    BY <1>1 DEF InPlace
  <2>1. m[1] \in FilesOf[r] /\ m[1] \in Files /\ m[2] = Wanted(r, Head(todo[p]))
    BY <1>2, LineOf DEF Lines
  <2>2. m[1] = l[1] => r = q
    BY <1>2, <1>5, <2>1 DEF Separate
  <2> QED
    BY <1>5, <1>6, <2>1, <2>2 DEF InPlace, x
<1>8. \A r \in Packages : r # q /\ Away(p, r) => Away(p, r)'
  <2> SUFFICES ASSUME NEW r \in Packages, r # q, Away(p, r), NEW f \in FilesOf[r]
               PROVE  files'[x][f] = None
    BY <1>1 DEF Away
  <2>1. f # l[1] /\ f \in Files
    BY <1>2, <1>5, HomeAssumption DEF Separate
  <2> QED
    BY <1>6, <2>1 DEF Away, x
<1>9. Busy(p) = {q} /\ Busy(p)' = {q} /\ Cleared(p)
  BY <1>0, <1>1 DEF Busy, Cleared, q
<1>10. Foreseen(p)'
  <2> SUFFICES ASSUME NEW f \in Files, files'[x][f] # None
               PROVE  \E r \in Needs(Root(p)) \cap Packages : <<f, files'[x][f]>> \in Lines(p, r)
    BY <1>1 DEF Foreseen
  <2>1. CASE f = l[1]
    BY <1>2, <1>4, <1>5, <1>6, <2>1
  <2>2. CASE f # l[1]
    <3>1. files'[x][f] = files[x][f]
      BY <1>6, <2>2
    <3> QED
      BY <1>9, <3>1 DEF Sound, Clear, Foreseen, x
  <2> QED
    BY <2>1, <2>2
<1>11. Clear(p)'
  BY <1>0, <1>1, <1>7, <1>8, <1>9, <1>10 DEF Sound, Clear, x
<1>12. Written(p)'
  <2>1. left'[p] = left[p] \ {l}
    BY <1>3 DEF TypeOK
  <2>2. ASSUME NEW m \in Lines(p, q), m \notin left'[p] PROVE files'[x][m[1]] = m[2]
    <3>1. m[1] \in Files /\ m[2] = Wanted(q, Head(todo[p])) /\ m = <<m[1], m[2]>>
      BY <1>2, LineOf DEF Lines
    <3>2. CASE m[1] = l[1]
      BY <1>5, <1>6, <3>1, <3>2
    <3>3. CASE m[1] # l[1]
      <4>1. m \notin left[p]
        BY <2>1, <2>2, <3>3
      <4>2. files[x][m[1]] = m[2]
        BY <1>0, <4>1 DEF Sound, Written, q, x
      <4> QED
        BY <1>6, <3>1, <3>3, <4>2
    <3> QED
      BY <3>2, <3>3
  <2>3. left'[p] \subseteq Lines(p, q)
    BY <1>0, <2>1 DEF Sound, Written, q
  <2> QED
    BY <1>0, <1>1, <2>2, <2>3 DEF Written
<1>13. Committing(p)' /\ Scratch(p)'
  <2>1. (RightTrees(p) => RightTrees(p)') /\ (RightBuilt(p) => RightBuilt(p)')
    BY <1>0, <1>1 DEF RightTrees, RightBuilt, Sources, Built
  <2> QED
    BY <1>0, <1>1, <2>1 DEF Sound, Committing, Scratch, q
<1> QED
  BY <1>11, <1>12, <1>13 DEF Sound

(* The last file is in place.                                              *)
LEMMA SoundPlaced ==
  ASSUME TypeOK, Flat, NEW p \in Procs, pc[p] # "idle", Sound(p), Called(p)', Verified(p)',
         FilesPlaced(p)
  PROVE  Sound(p)'
<1>1. /\ pc[p] \in {"unpacking", "copying"} /\ pc'[p] = "manifest"
      /\ stack'[p] = stack[p] /\ todo'[p] = todo[p] /\ left[p] = {}
      /\ UNCHANGED <<files, manifest, srcDir, bldDir>>
  BY MovesTo DEF FilesPlaced, prefixVars, scratchVars
<1>2. Stays(p)
  BY <1>1 DEF Stays
<1>3. InPlace(p, Pkg(p))
  BY <1>1 DEF Sound, Written, InPlace
<1>5. Clear(p)'
  <2>1. Cleared(p) /\ Busy(p) = {Pkg(p)} /\ Busy(p)' = {}
    BY <1>1 DEF Cleared, Busy
  <2>2. \A q \in Packages : InPlace(p, q) \/ Away(p, q)
    BY <1>3, <2>1 DEF Sound, Clear
  <2> QED
    BY <1>2, <2>1, <2>2, Staying DEF Sound, Clear, Stays
<1>6. Written(p)' /\ Committing(p)'
  BY <1>1, <1>2, <1>3, Staying DEF Written, Committing
<1>7. Scratch(p)'
  <2>1. (RightTrees(p) => RightTrees(p)') /\ (RightBuilt(p) => RightBuilt(p)')
    BY <1>1, <1>2, Staying DEF RightTrees, RightBuilt, Sources, Built
  <2> QED
    BY <1>1, <1>2, <2>1, Staying DEF Sound, Scratch, Fetching
<1> QED
  BY <1>5, <1>6, <1>7 DEF Sound

(* The manifest: what was installed is now on record.                      *)
LEMMA AllOfRoot ==
  ASSUME TypeOK, Flat, NEW p \in Procs, pc[p] = "manifest", ~Nested(p), Sound(p)
  PROVE  AllInPlace(p) /\ Foreseen(p)
<1>1. Cleared(p) /\ Pkg(p) = Root(p) /\ Root(p) \in Packages
  BY Placing, Typing DEF Sound, Cleared, TypeOK
<1>2. InPlace(p, Root(p))
  BY <1>1 DEF Sound, Written
<1>3. Here(p) = Len(DEPENDS[Root(p)]) + 1
  BY DEF Sound, Called, Preparing
<1>4. Done(p) = Len(DEPENDS[Root(p)])
  <2> DEFINE n == Len(DEPENDS[Root(p)])
  <2>1. DEPENDS[Root(p)] \in Seq(Names)
    BY <1>1, HomeAssumption
  <2>2. n \in Nat /\ Done(p) = n + 1 - 1
    BY <1>3, <2>1 DEF Done
  <2> HIDE DEF n
  <2>3. Done(p) = n
    BY <2>2
  <2> QED
    BY <2>3 DEF n
<1> QED
  BY <1>1, <1>2, <1>4 DEF Sound, Clear, AllInPlace, Needs

LEMMA SoundManifest ==
  ASSUME TypeOK, Flat, NEW p \in Procs, pc[p] # "idle", Sound(p), Called(p)', Verified(p)',
         OpenManifest(p) \/ WriteLine(p) \/ CloseManifest(p)
  PROVE  pc'[p] = "idle" \/ Sound(p)'
<1> USE DEF At
<1>1. UNCHANGED <<files, srcDir, bldDir>>
  BY DEF OpenManifest, WriteLine, CloseManifest, home, prefixVars, scratchVars
<1>2. CASE Abort(p)
  BY <1>2, Ends DEF Abort
<1>3. CASE ~Abort(p)
  <2>1. stack'[p] = stack[p] /\ todo'[p] = todo[p]
    BY <1>3, MovesTo DEF OpenManifest, WriteLine, CloseManifest, call
  <2>2. /\ Pkg(p)' = Pkg(p) /\ Root(p)' = Root(p) /\ Nested(p)' = Nested(p)
        /\ Dest(p)' = Dest(p) /\ Here(p)' = Here(p) /\ Done(p)' = Done(p)
        /\ \A q : Lines(p, q)' = Lines(p, q)
    BY <2>1, SameFrame, SameLines
  <2>3. /\ Foreseen(p)' <=> Foreseen(p)
        /\ \A q : InPlace(p, q)' <=> InPlace(p, q)
        /\ Existing(p)' = Existing(p)
        /\ AllInPlace(p)' <=> AllInPlace(p)
        /\ Complete(p)' <=> Complete(p)
    BY <1>1, <2>1, <2>2, SamePlace
  <2>4. /\ Own(p) \in Prefixes
        /\ ~Nested(p) => Own(p) = Dest(p)
        /\ Nested(p) => Pkg(p) \in Binary
    BY Placing DEF Sound
  <2>5. (RightTrees(p) => RightTrees(p)') /\ (RightBuilt(p) => RightBuilt(p)')
    BY <1>1, <2>1, <2>2 DEF RightTrees, RightBuilt, Sources, Built
  <2>6. CASE OpenManifest(p) /\ Nested(p)
    <3>1. /\ pc[p] = "manifest" /\ pc'[p] = "returned" /\ UNCHANGED manifest
      BY <1>3, <2>4, <2>6, MovesTo DEF OpenManifest, AfterManifest
    <3>3. Clear(p)'
      <4>1. Stays(p)
        BY <1>1, <2>1, <3>1 DEF Stays
      <4>2. Cleared(p) /\ Busy(p) = {}
        BY <3>1 DEF Cleared, Busy
      <4> QED
        BY <4>1, <4>2, ClearKept DEF Sound
    <3>4. Written(p)' /\ Committing(p)'
      BY <2>2, <2>3, <2>6, <3>1 DEF Sound, Written, Committing
    <3>5. Scratch(p)'
      BY <2>2, <2>5, <2>6, <3>1 DEF Sound, Scratch
    <3> QED
      BY <3>3, <3>4, <3>5 DEF Sound
  <2>7. CASE OpenManifest(p) /\ ~Nested(p)
    <3>1. /\ pc[p] = "manifest" /\ pc'[p] = "lines"
          /\ manifest' = [manifest EXCEPT ![Own(p)] = {}]
          /\ left' = [left EXCEPT ![p] =
               {<<f, files[Own(p)][f]>> : f \in {g \in Files : files[Own(p)][g] # None}}]
      BY <1>3, <2>7, MovesTo DEF OpenManifest
    <3>2. AllInPlace(p) /\ Foreseen(p)
      BY <2>7, <3>1, AllOfRoot
    <3>3. left'[p] = Existing(p) /\ manifest'[Dest(p)] = {}
      BY <2>4, <2>7, <3>1 DEF Existing, TypeOK, HomeOK
    <3>4. Committing(p)'
      BY <2>2, <2>3, <3>1, <3>2, <3>3 DEF Committing
    <3>5. Clear(p)' /\ Written(p)'
      BY <2>2, <2>7, <3>1 DEF Clear, Cleared, Written
    <3>6. Scratch(p)'
      BY <2>2, <2>7, <3>1 DEF Sound, Scratch, Fetching
    <3> QED
      BY <3>4, <3>5, <3>6 DEF Sound
  <2>8. CASE WriteLine(p)
    <3>1. pc[p] = "lines" /\ pc' = pc /\ ~Nested(p)
      BY <2>8 DEF WriteLine, Sound, Called
    <3>2. PICK l \in left[p] :
            /\ manifest' = [manifest EXCEPT ![Own(p)] = IF @ = Absent THEN Absent ELSE @ \cup {l}]
            /\ left' = [left EXCEPT ![p] = @ \ {l}]
      BY <2>8 DEF WriteLine
    <3>3. /\ left'[p] = left[p] \ {l}
          /\ manifest'[Dest(p)] =
               IF manifest[Dest(p)] = Absent THEN Absent ELSE manifest[Dest(p)] \cup {l}
      BY <2>4, <3>1, <3>2 DEF TypeOK, HomeOK
    <3>4. Foreseen(p) /\ AllInPlace(p) /\ left'[p] \subseteq Existing(p)
      BY <3>1, <3>3 DEF Sound, Committing
    <3>5. ASSUME manifest'[Dest(p)] # Absent
          PROVE  manifest'[Dest(p)] \cup left'[p] = Existing(p)
      <4>1. manifest[Dest(p)] # Absent
        BY <3>3, <3>5
      <4>2. manifest[Dest(p)] \cup left[p] = Existing(p)
        BY <3>1, <4>1 DEF Sound, Committing
      <4> QED
        BY <3>3, <4>1, <4>2
    <3>6. Committing(p)'
      BY <2>2, <2>3, <3>1, <3>4, <3>5 DEF Committing
    <3>7. Clear(p)' /\ Written(p)'
      BY <2>2, <3>1 DEF Clear, Cleared, Written
    <3>8. Scratch(p)'
      BY <2>2, <3>1 DEF Sound, Scratch, Fetching
    <3> QED
      BY <3>6, <3>7, <3>8 DEF Sound
  <2>9. CASE CloseManifest(p)
    <3>1. pc[p] = "lines" /\ pc'[p] = AfterManifest(p) /\ ~Nested(p)
      BY <2>9, MovesTo DEF CloseManifest, Sound, Called
    <3>2. AllInPlace(p) /\ Complete(p)
      BY <3>1, AllIsComplete DEF Sound, Committing
    <3>3. Committing(p)'
      BY <2>3, <3>1, <3>2 DEF Committing, AfterManifest
    <3>4. Clear(p)' /\ Written(p)'
      BY <2>2, <3>1 DEF Clear, Cleared, Written, AfterManifest
    <3>5. Scratch(p)'
      BY <2>2, <3>1 DEF Sound, Scratch, Fetching, AfterManifest
    <3> QED
      BY <3>3, <3>4, <3>5 DEF Sound
  <2> QED
    BY <2>6, <2>7, <2>8, <2>9
<1> QED
  BY <1>2, <1>3

LEMMA SoundCall ==
  ASSUME TypeOK, Flat, NEW p \in Procs, pc[p] # "idle", Sound(p), Called(p)', Verified(p)',
         InstallDependency(p)
  PROVE  Sound(p)'
<1> USE DEF At
<1> DEFINE d == DEPENDS[Root(p)][Here(p)]
<1>1. /\ pc[p] = "deps" /\ pc'[p] = "verify" /\ Root(p) \in Packages
      /\ UNCHANGED <<files, manifest, srcDir, bldDir, todo>>
  BY CallFrame DEF Sound, scratchVars
<1>2. ~Nested(p) /\ pc'[p] = "verify"
  BY CallFrame DEF Sound, scratchVars
<1>4. Here(p) \in Nat \ {0} /\ Here(p) <= Len(DEPENDS[Root(p)]) /\ d \in Packages
  BY CallFrame DEF Sound, scratchVars
<1>6. /\ Root(p)' = Root(p) /\ Here(p)' = Here(p) + 1 /\ Nested(p)' /\ Pkg(p)' = d
      /\ Len(stack'[p]) = 2
  BY CallFrame DEF Sound, scratchVars
<1> HIDE DEF d
<1>7. Dest(p)' = Dest(p) /\ Done(p)' = Done(p)
  <2>1. Here(p) + 1 - 2 = Here(p) - 1
    BY <1>4
  <2>2. Dest(p)' = Dest(p)
    BY <1>1, <1>6 DEF Dest, PrefixOf
  <2>3. Done(p)' = Here(p)' - 2 /\ Done(p) = Here(p) - 1
    BY <1>2, <1>6 DEF Done
  <2> QED
    BY <1>4, <1>6, <2>1, <2>2, <2>3
<1>8. /\ Foreseen(p)' <=> Foreseen(p)
      /\ \A q : InPlace(p, q)' <=> InPlace(p, q)
      /\ \A q : Away(p, q)' <=> Away(p, q)
  BY <1>1, <1>6, <1>7, SamePlace
<1>10. Clear(p)'
  <2>1. Cleared(p) /\ Busy(p) = {} /\ Busy(p)' = {}
    BY <1>1, <1>2 DEF Cleared, Busy
  <2> QED
    BY <1>1, <1>6, <1>7, <1>8, <2>1 DEF Sound, Clear
<1>11. Written(p)' /\ Committing(p)'
  BY <1>2 DEF Written, Committing
<1>12. Scratch(p)'
  <2>1. (RightTrees(p) => RightTrees(p)') /\ (RightBuilt(p) => RightBuilt(p)')
    BY <1>1, <1>6 DEF RightTrees, RightBuilt, Sources, Built
  <2> QED
    BY <1>1, <1>6, <2>1 DEF Sound, Scratch
<1> QED
  BY <1>10, <1>11, <1>12 DEF Sound

LEMMA SoundReturn ==
  ASSUME TypeOK, Flat, NEW p \in Procs, pc[p] # "idle", Sound(p), Called(p)', Verified(p)',
         Return(p), Nested(p)
  PROVE  Sound(p)'
<1> USE DEF At
<1>1. /\ pc[p] = "returned" /\ stack[p] \in Seq(Frame) /\ Len(stack[p]) = 2
      /\ pc'[p] = "deps"
      /\ UNCHANGED <<files, manifest, srcDir, bldDir, todo>>
  BY ReturnFrame DEF Sound, scratchVars
<1>3. /\ Root(p)' = Root(p) /\ Here(p)' = Here(p) /\ ~Nested(p)' /\ Pkg(p)' = Root(p)
      /\ Dest(p)' = Dest(p) /\ Len(stack'[p]) = 1
  BY ReturnFrame DEF Sound, scratchVars
<1>4. /\ Foreseen(p)' <=> Foreseen(p)
      /\ \A q : InPlace(p, q)' <=> InPlace(p, q)
      /\ \A q : Away(p, q)' <=> Away(p, q)
  BY <1>1, <1>3, SamePlace
<1>5. /\ Here(p) \in Nat /\ Here(p) - 1 \in Nat
      /\ Pkg(p) = DEPENDS[Root(p)][Here(p) - 1] /\ Pkg(p) \in Packages
      /\ Done(p) = Here(p) - 2 /\ Done(p)' = Here(p) - 1
  <2>1. Here(p) \in Nat
    <3>1. stack[p][1] \in Frame
      BY <1>1
    <3> QED
      BY <3>1 DEF Here, Frame
  <2>2. Here(p) - 1 \in Nat /\ Pkg(p) = DEPENDS[Root(p)][Here(p) - 1]
    BY DEF Sound, Called
  <2>3. Done(p) = Here(p) - 2 /\ Done(p)' = Here(p) - 1
    BY <1>3 DEF Done
  <2> QED
    BY <2>1, <2>2, <2>3, Typing DEF TypeOK
<1>6. InPlace(p, Pkg(p)) /\ Cleared(p) /\ Busy(p) = {} /\ Busy(p)' = {}
  BY <1>1 DEF Sound, Written, Cleared, Busy
<1>7. \A i \in 1..Done(p)' :
        DEPENDS[Root(p)][i] \in Packages /\ InPlace(p, DEPENDS[Root(p)][i])
  <2> SUFFICES ASSUME NEW i \in 1..(Here(p) - 1)
               PROVE  DEPENDS[Root(p)][i] \in Packages /\ InPlace(p, DEPENDS[Root(p)][i])
    BY <1>5
  <2>1. CASE i = Here(p) - 1
    BY <1>5, <1>6, <2>1
  <2>2. CASE i # Here(p) - 1
    <3>1. i \in 1..(Here(p) - 2)
      BY <1>5, <2>2
    <3> QED
      BY <1>5, <1>6, <3>1 DEF Sound, Clear
  <2> QED
    BY <2>1, <2>2
<1>8. Clear(p)'
  BY <1>1, <1>3, <1>4, <1>6, <1>7 DEF Sound, Clear
<1>10. Written(p)' /\ Committing(p)'
  BY <1>1 DEF Written, Committing
<1>11. Scratch(p)'
  <2>1. (RightTrees(p) => RightTrees(p)') /\ (RightBuilt(p) => RightBuilt(p)')
    BY <1>1, <1>3 DEF RightTrees, RightBuilt, Sources, Built
  <2> QED
    BY <1>1, <1>3, <2>1 DEF Sound, Scratch
<1> QED
  BY <1>8, <1>10, <1>11 DEF Sound

(* A root call begins: for what main was asked for, or for the next build  *)
(* type.                                                                   *)
LEMMA SoundStart ==
  ASSUME NEW p \in Procs, NEW r \in Requests[p], r \in Packages, pc'[p] = "verify",
         stack'[p] = <<[pkg |-> r, dep |-> 1]>>
  PROVE  Sound(p)'
<1>1. Called(p)' /\ Verified(p)' /\ ~Nested(p)'
  BY Starts
<1> QED
  BY <1>1 DEF Sound, Clear, Cleared, Written, Committing, Scratch, Fetching

(* Every step of a call keeps what holds of it.                            *)
LEMMA OwnKeep ==
  ASSUME TypeOK, Assumed, Running, Kept, CommitsWhole, NEW p \in Procs, Acts(p)
  PROVE  pc'[p] = "idle" \/ Sound(p)'
<1>1. ASSUME NEW pkg \in Requests[p], Invoke(p, pkg) PROVE Sound(p)'
  <2>1. /\ pkg \in Packages /\ pc'[p] = "verify"
        /\ stack'[p] = <<[pkg |-> pkg, dep |-> 1]>>
    BY <1>1, HomeAssumption DEF Invoke, TypeOK, CallOK
  <2> QED
    BY <2>1, SoundStart
<1>2. CASE pc[p] = "idle"
  <2>1. ~Step(p) /\ ~DownloadFault(p) /\ ~InstallFault(p)
    BY <1>2, IdleOnlyStarts
  <2> QED
    BY <1>1, <2>1 DEF Acts
<1>3. CASE /\ pc[p] # "idle" /\ pc'[p] # "idle"
           /\ Step(p) \/ DownloadFault(p) \/ InstallFault(p)
  <2>1. Sound(p) /\ Called(p)' /\ Verified(p)'
    <3>1. Sound(p)
      BY <1>3 DEF Running
    <3> QED
      BY <1>3, <3>1, CalledStep DEF Sound, Assumed, Parsed, Noticed
  <2>2. ~ResetFails(p) /\ ~SkipDependencies(p) /\ ~LoseTail(p)
    BY DEF Assumed, Noticed, ResetFails, SkipDependencies, LoseTail, Unnoticed
  <2>3. ~Fails(p) /\ ~Crash(p) /\ ~UnknownDependency(p) /\ ~MakeFails(p) /\ ~TargetGone(p)
    BY <1>3, Ends DEF Fails, Crash, UnknownDependency, MakeFails, TargetGone, Abort
  <2>4. CASE DownloadStep(p) \/ FetchOther(p)
    BY <1>3, <2>1, <2>4, SoundFetch, SoundBuild, SoundUnpack DEF DownloadStep, Assumed
  <2>5. CASE Return(p)
    <3>1. CASE Nested(p)
      BY <1>3, <2>1, <2>5, <3>1, SoundReturn DEF Assumed
    <3>2. CASE End(p, "ok")
      BY <3>2, Ends
    <3>3. CASE /\ pc' = [pc EXCEPT ![p] = "verify"]
               /\ stack' = [stack EXCEPT ![p] = <<[pkg |-> Root(p), dep |-> 1]>>]
      <4>1. Root(p) \in Requests[p] /\ Root(p) \in Packages
        BY <1>3, <2>1, Typing DEF Sound, Called, TypeOK
      <4>2. pc'[p] = "verify" /\ stack'[p] = <<[pkg |-> Root(p), dep |-> 1]>>
        BY <3>3 DEF TypeOK, CallOK
      <4> QED
        BY <4>1, <4>2, SoundStart
    <3> QED
      BY <2>5, <3>1, <3>2, <3>3 DEF Return
  <2>6. CASE InstallStep(p) /\ ~Return(p)
    <3>1. CASE AlreadyInstalled(p) \/ NeedInstall(p)
      BY <1>3, <2>1, <3>1, SoundVerify DEF Assumed
    <3>2. CASE RemoveEntry(p) \/ RemovePrefix(p)
      BY <1>3, <2>1, <3>2, SoundWipe DEF Assumed
    <3>3. CASE \/ RemoveSource(p) \/ CreateSource(p) \/ RemoveBuild(p) \/ CreateBuild(p)
               \/ CreateInstallDir(p) \/ CleanSource(p) \/ CleanBuild(p)
      BY <1>3, <2>1, <3>3, SoundScratch DEF Assumed
    <3>4. CASE InstallDependency(p)
      BY <1>3, <2>1, <3>4, SoundCall DEF Assumed
    <3>5. CASE DependenciesInstalled(p)
      BY <1>3, <2>1, <3>5, SoundFetch DEF Assumed
    <3>6. CASE OpenLog(p) \/ Configure(p) \/ Make(p)
      BY <1>3, <2>1, <3>6, SoundBuild DEF Assumed
    <3>7. CASE MakeInstall(p)
      BY <1>3, <2>1, <3>7, SoundUnpack DEF Assumed
    <3>8. CASE PlaceFile(p)
      BY <1>3, <2>1, <3>8, SoundPlace DEF Assumed
    <3>9. CASE FilesPlaced(p)
      BY <1>3, <2>1, <3>9, SoundPlaced DEF Assumed
    <3>10. CASE OpenManifest(p) \/ WriteLine(p) \/ CloseManifest(p)
      BY <1>3, <2>1, <3>10, SoundManifest DEF Assumed
    <3> QED
      BY <2>3, <2>6, <3>1, <3>2, <3>3, <3>4, <3>5, <3>6, <3>7, <3>8, <3>9, <3>10 DEF 
                                                                                     InstallStep
  <2> QED
    BY <1>3, <2>2, <2>3, <2>4, <2>5, <2>6 DEF Step, DownloadFault, InstallFault
<1> QED
  BY <1>1, <1>2, <1>3 DEF Acts

-----------------------------------------------------------------------------
(* The manifests.  What a step does to them.                               *)
LEMMA ManifestChange ==
  ASSUME TypeOK, Noticed, NEW p \in Procs, Acts(p), NEW x \in Prefixes
  PROVE  \/ manifest'[x] = manifest[x] /\ ~OpenManifest(p)
         \/ manifest'[x] = manifest[x] /\ x # Own(p)
         \/ manifest'[x] = Absent /\ RemoveEntry(p) /\ x = Own(p)
         \/ OpenManifest(p) /\ (manifest'[x] = manifest[x] \/ manifest'[x] = {})
         \/ /\ WriteLine(p) /\ x = Own(p) /\ manifest[x] # Absent
            /\ \E l \in left[p] : manifest'[x] = manifest[x] \cup {l}
<1> USE DEF TypeOK, HomeOK, home, prefixVars
<1>1. CASE WriteLine(p)
  <2>1. PICK l \in left[p] :
          manifest' = [manifest EXCEPT ![Own(p)] = IF @ = Absent THEN Absent ELSE @ \cup {l}]
    BY <1>1 DEF WriteLine
  <2>2. ~OpenManifest(p)
    BY <1>1 DEF WriteLine, OpenManifest, At
  <2> QED
    BY <1>1, <2>1, <2>2
<1>2. CASE OpenManifest(p)
  BY <1>2 DEF OpenManifest
<1>3. CASE RemoveEntry(p)
  <2>1. ~OpenManifest(p)
    BY <1>3 DEF RemoveEntry, OpenManifest, At
  <2> QED
    BY <1>3, <2>1 DEF RemoveEntry
<1>4. CASE Crash(p) /\ ~OpenManifest(p)
  BY <1>4 DEF Crash, At, Noticed
<1>5. ASSUME ~WriteLine(p), ~OpenManifest(p), ~RemoveEntry(p), ~Crash(p)
      PROVE  UNCHANGED manifest
  <2>1. ASSUME NEW pkg \in Requests[p], Invoke(p, pkg) PROVE UNCHANGED manifest
    BY <2>1 DEF Invoke
  <2>2. CASE DownloadStep(p) \/ DownloadFault(p)
    BY <2>2 DEF DownloadStep, DownloadFault, CheckCache, OpenArchive, Fetch,
                FetchOther, CheckHash, Unzstd, Unzstded, UntarSource, UntarBinary,
                UntarFails, Clone, CloneBinary, Reset, ResetFails
  <2>3. CASE InstallFault(p)
    BY <1>5, <2>3 DEF InstallFault, SkipDependencies, LoseTail, Fails
  <2>4. CASE InstallStep(p)
    BY <1>5, <2>4 DEF InstallStep, AlreadyInstalled, NeedInstall, RemovePrefix,
                      RemoveSource, CreateSource, RemoveBuild, CreateBuild,
                      CreateInstallDir, InstallDependency, UnknownDependency,
                      DependenciesInstalled, OpenLog, Configure, Make, MakeInstall,
                      MakeFails, PlaceFile, TargetGone, FilesPlaced, CloseManifest,
                      CleanSource, CleanBuild, Return
  <2> QED
    BY <2>1, <2>2, <2>3, <2>4 DEF Acts, Step
<1>6. CASE Crash(p) /\ OpenManifest(p)
  BY <1>2, <1>6
<1> QED
  BY <1>1, <1>2, <1>3, <1>4, <1>5, <1>6

LEMMA KeptStep ==
  ASSUME TypeOK, Assumed, Running, Kept, NEW p \in Procs, Acts(p)
  PROVE  Kept'
<1> SUFFICES ASSUME NEW x \in Prefixes, manifest'[x] # Absent, NEW l \in manifest'[x]
             PROVE  \E q \in Needs(x[1]) \cap Packages : l \in PackageLines(q, x[2])
  BY DEF Kept
<1>1. CASE manifest'[x] = manifest[x]
  BY <1>1 DEF Kept
<1>2. CASE manifest'[x] # manifest[x]
  <2>1. /\ WriteLine(p) /\ x = Own(p) /\ manifest[x] # Absent
        /\ \E m \in left[p] : manifest'[x] = manifest[x] \cup {m}
    BY <1>2, ManifestChange DEF Assumed
  <2>2. CASE l \in manifest[x]
    BY <2>1, <2>2 DEF Kept
  <2>3. CASE l \in left[p]
    <3>1. /\ pc[p] = "lines" /\ Sound(p) /\ ~Nested(p)
      BY <2>1 DEF WriteLine, At, Running, Sound, Called
    <3>2. x = Dest(p) /\ x[1] = Root(p)
      BY <2>1, <3>1, Placing DEF Sound, Assumed
    <3>3. Foreseen(p) /\ l \in Existing(p)
      BY <2>3, <3>1 DEF Sound, Committing
    <3>4. PICK q \in Needs(Root(p)) \cap Packages : l \in Lines(p, q)
      BY <3>3 DEF Foreseen, Existing
    <3>5. PackageLines(q, x[2]) = Lines(p, q)
      BY <3>1, <3>2, LinesOfDest DEF Assumed
    <3> QED
      BY <3>2, <3>4, <3>5
  <2> QED
    BY <2>1, <2>2, <2>3
<1> QED
  BY <1>1, <1>2

(* A manifest is closed when it lists everything.                          *)
LEMMA ClosedWhole ==
  ASSUME TypeOK, Flat, NEW p \in Procs, pc[p] = "lines", left[p] = {}, Sound(p),
         manifest[Own(p)] # Absent
  PROVE  \A q \in Needs(Own(p)[1]) : PackageLines(q, Own(p)[2]) \subseteq manifest[Own(p)]
<1>1. /\ Own(p) = Dest(p) /\ Own(p)[1] = Root(p) /\ Dest(p) \in Prefixes
      /\ Head(todo[p]) \in BuildTypes
  BY Placing, Typing DEF Sound, Called, TypeOK
<1>2. manifest[Own(p)] = Existing(p) /\ AllInPlace(p)
  BY <1>1 DEF Sound, Committing
<1> SUFFICES ASSUME NEW q \in Needs(Root(p)), NEW l \in PackageLines(q, Dest(p)[2])
             PROVE  l \in Existing(p)
  BY <1>1, <1>2
<1>3. q \in Packages /\ InPlace(p, q)
  BY <1>2 DEF AllInPlace
<1>4. l \in Lines(p, q)
  BY <1>3, LinesOfDest
<1>5. l = <<l[1], l[2]>> /\ l[1] \in Files /\ l[2] # None
  BY <1>1, <1>3, <1>4, LineOf DEF Lines
<1>6. files[Dest(p)][l[1]] = l[2]
  BY <1>3, <1>4 DEF InPlace
<1> QED
  BY <1>5, <1>6 DEF Existing

LEMMA CommitsStep ==
  ASSUME TypeOK, Assumed, Running, CommitsWhole, NEW p \in Procs, Acts(p)
  PROVE  CommitsWhole'
<1> USE DEF At
<1> SUFFICES ASSUME NEW x \in Prefixes, manifest'[x] # Absent,
                    \A r \in Procs : pc'[r] = "lines" => Own(r)' # x
             PROVE  \A q \in Needs(x[1]) : PackageLines(q, x[2]) \subseteq manifest'[x]
  BY DEF CommitsWhole
<1>1. \A r \in Procs : r # p /\ pc[r] = "lines" => Own(r) # x
  <2> SUFFICES ASSUME NEW r \in Procs, r # p, pc[r] = "lines" PROVE Own(r) # x
    OBVIOUS
  <2>1. SameCallOf(r)
    BY OthersCall
  <2>2. pc'[r] = "lines" /\ Own(r)' = Own(r)
    BY <2>1, SameFrame DEF SameCallOf
  <2> QED
    BY <2>2
<1>2. ~WriteLine(p) \/ x # Own(p)
  <2> SUFFICES ASSUME WriteLine(p) PROVE x # Own(p)
    OBVIOUS
  <2>1. pc'[p] = "lines" /\ Own(p)' = Own(p)
    BY SameFrame DEF WriteLine, call
  <2> QED
    BY <2>1
<1>3. manifest'[x] = manifest[x] \/ OpenManifest(p)
  BY <1>2, ManifestChange DEF Assumed
<1>4. CASE OpenManifest(p) /\ manifest'[x] # manifest[x]
  <2>1. pc'[p] = "lines" /\ Own(p)' = Own(p) /\ x = Own(p)
    <3>1. manifest' = [manifest EXCEPT ![Own(p)] = {}] /\ Goto(p, "lines")
      BY <1>4 DEF OpenManifest
    <3> QED
      BY <1>4, <3>1, MovesTo, SameFrame DEF TypeOK, HomeOK
  <2> QED
    BY <2>1
<1>5. CASE manifest'[x] = manifest[x] /\ (pc[p] = "lines" => Own(p) # x)
  BY <1>1, <1>5 DEF CommitsWhole
<1>6. CASE manifest'[x] = manifest[x] /\ pc[p] = "lines" /\ Own(p) = x
  <2>1. Sound(p)
    BY <1>6 DEF Running
  <2>2. CloseManifest(p)
    <3>1. ~DownloadStep(p) /\ ~DownloadFault(p)
      BY <1>6 DEF DownloadStep, DownloadFault, CheckCache, OpenArchive, Fetch,
                  FetchOther, CheckHash, Unzstd, Unzstded, UntarSource, UntarBinary,
                  UntarFails, Clone, CloneBinary, Reset, ResetFails, Unnoticed
    <3>2. ~InstallFault(p)
      BY <1>6, HomeAssumption DEF InstallFault, SkipDependencies, LoseTail, Fails,
                                  Crash, Unnoticed, Fallible, Assumed, Noticed
    <3>3. ~\E pkg \in Requests[p] : Invoke(p, pkg)
      BY <1>6 DEF Invoke
    <3>4. InstallStep(p) => WriteLine(p) \/ CloseManifest(p)
      BY <1>6 DEF InstallStep, AlreadyInstalled, NeedInstall, RemoveEntry,
                  RemovePrefix, RemoveSource, CreateSource, RemoveBuild, CreateBuild,
                  CreateInstallDir, InstallDependency, UnknownDependency,
                  DependenciesInstalled, OpenLog, Configure, Make, MakeInstall,
                  MakeFails, PlaceFile, TargetGone, FilesPlaced, OpenManifest,
                  CleanSource, CleanBuild, Return
    <3> QED
      BY <1>2, <1>6, <3>1, <3>2, <3>3, <3>4 DEF Acts, Step
  <2>3. left[p] = {}
    BY <2>2 DEF CloseManifest
  <2> QED
    BY <1>6, <2>1, <2>3, ClosedWhole DEF Assumed
<1> QED
  BY <1>3, <1>4, <1>5, <1>6

LEMMA CommitInvariant ==
  ASSUME TypeOK, Assumed, Running, Kept, CommitsWhole, [Next]_vars
  PROVE  Running' /\ Kept' /\ CommitsWhole'
<1>1. CASE UNCHANGED vars \/ \E x \in Prefixes, f \in Rotting : Rot(x, f)
  <2>1. UNCHANGED <<manifest, scratchVars, distr, tmp, pc, stack, todo, left, outcome>>
    BY <1>1 DEF vars, home, prefixVars, distrVars, call, Rot
  <2>2. UNCHANGED files \/ \A p \in Procs : pc[p] = "idle"
    BY <1>1 DEF vars, home, prefixVars, Rot, At
  <2>3. Kept' /\ CommitsWhole'
    <3>1. \A p : Own(p)' = Own(p)
      BY <2>1 DEF Own, Pkg, Top
    <3> QED
      BY <2>1, <3>1 DEF Kept, CommitsWhole, At
  <2>4. Running'
    <3> SUFFICES ASSUME NEW p \in Procs, pc[p] # "idle" PROVE Sound(p)'
      BY <2>1 DEF Running
    <3>1. SameCallOf(p) /\ SamePrefixes(p) /\ SameArchives(p) /\ SameScratch(p)
      BY <2>1, <2>2 DEF SameCallOf, SamePrefixes, SameArchives, SameScratch
    <3> QED
      BY <3>1, OthersKeep DEF Running, Assumed
  <2> QED
    BY <2>3, <2>4
<1>2. ASSUME NEW p \in Procs, Acts(p) PROVE Running' /\ Kept' /\ CommitsWhole'
  <2>1. ASSUME NEW q \in Procs, pc'[q] # "idle" PROVE Sound(q)'
    <3>1. CASE q = p
      BY <1>2, <2>1, <3>1, OwnKeep
    <3>2. CASE q # p
      <4>0. pc[q] # "idle"
        BY <1>2, <2>1, <3>2, OthersCall DEF SameCallOf
      <4>1. SameCallOf(q) /\ SamePrefixes(q) /\ SameArchives(q) /\ SameScratch(q)
        BY <1>2, <3>2, <4>0, Elsewhere DEF Running, Sound, Assumed
      <4> QED
        BY <4>0, <4>1, OthersKeep DEF Running, Assumed
    <3> QED
      BY <3>1, <3>2
  <2> QED
    BY <1>2, <2>1, KeptStep, CommitsStep DEF Running
<1> QED
  BY <1>1, <1>2 DEF Next, Acts

LEMMA CommitInit == Init => Running /\ Kept /\ CommitsWhole
BY DEF Init, Running, Kept, CommitsWhole

(* manifest.txt is the commit record: whenever nobody is writing it, it    *)
(* lists every file of the package and of what it depends on, through all  *)
(* kills, failures and reinstallations but those Noticed names, while the  *)
(* other invocations, one of which builds from source, install other       *)
(* packages.                                                               *)
THEOREM ManifestsAreWhole == Assumed => (Spec => []CommitsWhole)
<1> SUFFICES ASSUME Assumed PROVE Spec => []CommitsWhole
  OBVIOUS
<1>1. TypeOK /\ (Running /\ Kept /\ CommitsWhole) /\ [Next]_vars
        => (Running /\ Kept /\ CommitsWhole)'
  BY CommitInvariant
<1> QED
  BY <1>1, CommitInit, TypeCorrect, PTL DEF Spec

(* An installation that is reported as done, built or verified to its last *)
(* line, has every file of the package and of its dependencies in place.   *)
THEOREM SuccessIsComplete == Assumed => (Spec => []SuccessMeansComplete)
<1> SUFFICES ASSUME Assumed PROVE Spec => []SuccessMeansComplete
  OBVIOUS
<1>1. TypeOK /\ (Running /\ Kept /\ CommitsWhole) /\ [Next]_vars
        => (Running /\ Kept /\ CommitsWhole)'
  BY CommitInvariant
<1>2. TypeOK /\ Running => SuccessMeansComplete
  <2> SUFFICES ASSUME TypeOK, Running, NEW p \in Procs, pc[p] = "returned", ~Nested(p),
                      outcome[p] \in {"built", "verified"}
               PROVE  \A q \in Needs(Pkg(p)) : \A l \in PackageLines(q, Own(p)[2]) :
                        files[Own(p)][l[1]] = l[2]
    BY DEF SuccessMeansComplete, At
  <2>1. Sound(p)
    BY DEF Running
  <2>2. Pkg(p) = Root(p) /\ Own(p) = Dest(p)
    BY <2>1, Placing DEF Sound, Assumed
  <2> QED
    BY <2>1, <2>2 DEF Sound, Committing, Complete
<1> QED
  BY <1>1, <1>2, CommitInit, TypeCorrect, PTL DEF Spec

=============================================================================
