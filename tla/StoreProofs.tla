----------------------------- MODULE StoreProofs ------------------------------
(***************************************************************************)
(* The installer implements the package store, and no installation is      *)
(* taken apart by another: proved for every set of packages and build      *)
(* types and any number of invocations, one of which builds from source,   *)
(* under the assumptions of CommitProofs and one more on what is asked for.*)
(***************************************************************************)
EXTENDS CommitProofs, InstallStore

(* Nobody asks for a package that others depend on.  (Who does loses it    *)
(* when it is next installed as a dependency: run standalone.)             *)
Roots ==
  \A q \in Packages : \A i \in 1..Len(DEPENDS[q]) :
    \A p \in Procs : DEPENDS[q][i] \notin Requests[p]

-----------------------------------------------------------------------------
(* The inductive invariant.  An activation has an outcome when it returns; *)
(* what a root call wipes has failed its check; where it returns there is  *)
(* a manifest, and where it has built something the whole installation;    *)
(* what nobody asks for has no manifest.                                   *)
Undecided(p) == pc[p] = "returned" <=> outcome[p] # "none"
Broken(p)    == pc[p] = "wipe" /\ ~Nested(p) => ~Verifies(p)
Settled(p)   ==
  /\ pc[p] = "lines" \/ (pc[p] = "returned" /\ ~Nested(p)) => manifest[Dest(p)] # Absent
  /\ \/ pc[p] \in {"cleanSrc", "cleanBld"}
     \/ pc[p] = "returned" /\ ~Nested(p) /\ outcome[p] = "built"
     => Whole(Dest(p))
Ready(p) == Undecided(p) /\ (pc[p] # "idle" => Broken(p) /\ Settled(p))
Unrequested ==
  \A x \in Prefixes : (\A p \in Procs : x[1] \notin Requests[p]) => manifest[x] = Absent

Installing == TypeOK /\ Assumed /\ Roots /\ Running /\ Kept /\ CommitsWhole
Storing    == (\A p \in Procs : Ready(p)) /\ Unrequested

-----------------------------------------------------------------------------
(* A dependency is not asked for.                                          *)
LEMMA Unasked ==
  ASSUME TypeOK, Roots, NEW p \in Procs, pc[p] # "idle", Called(p), Nested(p)
  PROVE  \A q \in Procs : Pkg(p) \notin Requests[q]
<1>1. Root(p) \in Packages
  BY Typing DEF TypeOK
<1> QED
  BY <1>1 DEF Called, Roots

LEMMA SameWhole ==
  ASSUME NEW x, files'[x] = files[x], manifest'[x] = manifest[x]
  PROVE  /\ Whole(x)' <=> Whole(x)
         /\ StoreOf(x)' = StoreOf(x)
         /\ Intact(x)' <=> Intact(x)
<1>1. Whole(x)' <=> Whole(x)
  BY DEF Whole
<1>2. Intact(x)' <=> Intact(x)
  BY DEF Intact
<1> QED
  BY <1>1, <1>2 DEF StoreOf

(* Four steps write below a prefix.                                        *)
Writes(p) == RemoveEntry(p) \/ PlaceFile(p) \/ OpenManifest(p) \/ WriteLine(p)

LEMMA OnlyWriters ==
  ASSUME Noticed, NEW p \in Procs, Acts(p), ~Writes(p)
  PROVE  UNCHANGED <<files, manifest>>
<1> USE DEF home, prefixVars, Writes
<1>1. ASSUME NEW pkg \in Requests[p], Invoke(p, pkg) PROVE UNCHANGED <<files, manifest>>
  BY <1>1 DEF Invoke
<1>2. CASE DownloadStep(p) \/ DownloadFault(p)
  BY <1>2 DEF DownloadStep, DownloadFault, CheckCache, OpenArchive, Fetch, FetchOther,
              CheckHash, Unzstd, Unzstded, UntarSource, UntarBinary, UntarFails, Clone,
              CloneBinary, Reset, ResetFails
<1>3. CASE InstallFault(p)
  BY <1>3 DEF InstallFault, SkipDependencies, LoseTail, Fails, Crash, Noticed, At
<1>4. CASE InstallStep(p)
  BY <1>4 DEF InstallStep, AlreadyInstalled, NeedInstall, RemovePrefix,
              RemoveSource, CreateSource, RemoveBuild, CreateBuild, CreateInstallDir,
              InstallDependency, UnknownDependency, DependenciesInstalled, OpenLog,
              Configure, Make, MakeInstall, MakeFails, TargetGone, FilesPlaced,
              CloseManifest, CleanSource, CleanBuild, Return
<1> QED
  BY <1>1, <1>2, <1>3, <1>4 DEF Acts, Step

(* The steps in the midst of an activation: it ends, or goes on with the   *)
(* same work until it returns.                                             *)
Proceeds(p) ==
  /\ pc'[p] \notin {"idle", "verify"}
  /\ stack'[p] = stack[p] /\ todo'[p] = todo[p] /\ UNCHANGED exit
  /\ outcome'[p] = IF pc'[p] = "returned" THEN "built" ELSE "none"

LEMMA Proceeding ==
  ASSUME TypeOK, NEW p \in Procs, outcome[p] = "none", NEW l,
         \/ Goto(p, l) /\ l \notin {"idle", "verify", "returned"}
         \/ Finish(p, l) /\ l \notin {"idle", "verify"}
  PROVE  Proceeds(p)
BY DEF Goto, Finish, call, TypeOK, CallOK, Proceeds

LEMMA Amidst ==
  ASSUME TypeOK, NEW p \in Procs, Acts(p), pc[p] \notin {"idle", "verify", "returned"},
         outcome[p] = "none", ~InstallDependency(p)
  PROVE  End(p, "failed") \/ End(p, "crashed") \/ Proceeds(p)
<1> USE DEF At
<1>1. ~\E pkg \in Requests[p] : Invoke(p, pkg)
  BY DEF Invoke
<1>2. CASE DownloadStep(p) \/ DownloadFault(p)
  BY <1>2, Proceeding DEF DownloadStep, DownloadFault, CheckCache, OpenArchive, Fetch,
     FetchOther, CheckHash, Unzstd, Unzstded, UntarSource, UntarBinary, UntarFails, Clone,
     CloneBinary, Reset, ResetFails, Accept, Abort
<1>3. CASE SkipDependencies(p) \/ Fails(p) \/ Crash(p)
  BY <1>3, Proceeding DEF SkipDependencies, Fails, Crash, Abort
<1>4. CASE RemoveEntry(p) \/ PlaceFile(p) \/ WriteLine(p)
  BY <1>4 DEF RemoveEntry, PlaceFile, WriteLine, call, Proceeds
<1>5. CASE \/ RemovePrefix(p) \/ RemoveSource(p) \/ CreateSource(p) \/ RemoveBuild(p)
           \/ CreateBuild(p) \/ CreateInstallDir(p) \/ UnknownDependency(p)
           \/ DependenciesInstalled(p)
  BY <1>5, Proceeding DEF RemovePrefix, RemoveSource, CreateSource, RemoveBuild,
     CreateBuild, CreateInstallDir, UnknownDependency, DependenciesInstalled, Abort,
     AfterScratch
<1>6. CASE \/ OpenLog(p) \/ Configure(p) \/ Make(p) \/ MakeInstall(p)
           \/ MakeFails(p) \/ TargetGone(p) \/ FilesPlaced(p)
  BY <1>6, Proceeding DEF OpenLog, Configure, Make, MakeInstall, MakeFails, TargetGone,
     FilesPlaced, Abort
<1>7. CASE \/ OpenManifest(p) \/ CloseManifest(p) \/ LoseTail(p)
           \/ CleanSource(p) \/ CleanBuild(p)
  BY <1>7, Proceeding DEF OpenManifest, CloseManifest, LoseTail, CleanSource, CleanBuild,
     AfterManifest, Abort
<1>8. ~AlreadyInstalled(p) /\ ~NeedInstall(p) /\ ~Return(p)
  BY DEF AlreadyInstalled, NeedInstall, Return
<1> QED
  BY <1>1, <1>2, <1>3, <1>4, <1>5, <1>6, <1>7, <1>8
     DEF Acts, Step, InstallStep, InstallFault

-----------------------------------------------------------------------------
(* The invariant is kept: what the others do, and the starts.              *)
LEMMA OthersReady ==
  ASSUME TypeOK, Flat, NEW p \in Procs, pc[p] # "idle" => Sound(p), Ready(p),
         SameCallOf(p), pc[p] # "idle" => SamePrefixes(p)
  PROVE  Ready(p)'
<1>1. pc'[p] = pc[p] /\ Undecided(p)'
  BY DEF SameCallOf, Ready, Undecided
<1>2. CASE pc[p] = "idle"
  BY <1>1, <1>2 DEF Ready
<1>3. CASE pc[p] # "idle"
  <2>1. /\ Pkg(p)' = Pkg(p) /\ Root(p)' = Root(p) /\ Nested(p)' = Nested(p)
        /\ Own(p)' = Own(p) /\ Dest(p)' = Dest(p) /\ outcome'[p] = outcome[p]
    BY SameFrame DEF SameCallOf
  <2>2. /\ Own(p) \in Prefixes /\ Dest(p) \in Prefixes
        /\ Own(p)[1] \in Reach(p) /\ Dest(p)[1] \in Reach(p)
    BY <1>3, Placing DEF Sound
  <2>3. /\ files'[Own(p)] = files[Own(p)] /\ manifest'[Own(p)] = manifest[Own(p)]
        /\ files'[Dest(p)] = files[Dest(p)] /\ manifest'[Dest(p)] = manifest[Dest(p)]
    BY <1>3, <2>2 DEF SamePrefixes
  <2>4. Verifies(p)' <=> Verifies(p)
    BY <2>1, <2>3 DEF Verifies, Matches
  <2>5. Whole(Dest(p))' <=> Whole(Dest(p))
    BY <2>1, <2>3 DEF Whole
  <2>6. Broken(p)'
    BY <1>1, <1>3, <2>1, <2>4 DEF Ready, Broken
  <2>7. Settled(p)'
    BY <1>1, <1>3, <2>1, <2>3, <2>5 DEF Ready, Settled
  <2> QED
    BY <1>1, <2>6, <2>7 DEF Ready
<1> QED
  BY <1>2, <1>3

LEMMA ReadyElsewhere ==
  ASSUME NEW p, pc'[p] \notin {"wipe", "lines", "cleanSrc", "cleanBld", "returned"},
         outcome'[p] = "none"
  PROVE  Ready(p)'
BY DEF Ready, Undecided, Broken, Settled

(* The check decides: it finds a manifest, or the package is wiped.        *)
LEMMA ReadyVerify ==
  ASSUME Installing, NEW p \in Procs, pc[p] # "idle", Ready(p),
         AlreadyInstalled(p) \/ NeedInstall(p)
  PROVE  Ready(p)'
<1> USE DEF At, TypeOK, CallOK
<1>1. /\ pc[p] = "verify" /\ stack'[p] = stack[p] /\ todo'[p] = todo[p]
      /\ UNCHANGED <<files, manifest>> /\ Sound(p) /\ outcome[p] = "none"
  BY DEF AlreadyInstalled, NeedInstall, Goto, call, home, prefixVars, Installing,
         Running, Ready, Undecided
<1>2. /\ Own(p)' = Own(p) /\ Dest(p)' = Dest(p) /\ Nested(p)' = Nested(p)
      /\ ~Nested(p) => Own(p) = Dest(p)
  BY <1>1, SameFrame, Placing DEF Installing, Assumed, Sound
<1>3. CASE AlreadyInstalled(p)
  <2>1. /\ pc'[p] = "returned" /\ outcome'[p] \in {"verified", "sampled"}
        /\ manifest[Own(p)] # Absent
    BY <1>3 DEF AlreadyInstalled, Verifies, Installing
  <2> QED
    BY <1>1, <1>2, <2>1 DEF Ready, Undecided, Broken, Settled
<1>4. CASE NeedInstall(p)
  <2>1. pc'[p] = "wipe" /\ outcome'[p] = "none" /\ ~Verifies(p)
    BY <1>1, <1>4 DEF NeedInstall, Goto, call, Installing
  <2>2. ~Verifies(p)'
    BY <1>1, <1>2, <2>1 DEF Verifies, Matches
  <2> QED
    BY <2>1, <2>2 DEF Ready, Undecided, Broken, Settled
<1> QED
  BY <1>3, <1>4

(* What has failed its check is still broken with one entry less.          *)
LEMMA ReadyWipe ==
  ASSUME Installing, NEW p \in Procs, pc[p] # "idle", Ready(p), RemoveEntry(p)
  PROVE  Ready(p)'
<1> USE DEF At, TypeOK, HomeOK
<1>1. /\ pc[p] = "wipe" /\ pc'[p] = "wipe" /\ outcome'[p] = outcome[p]
      /\ stack'[p] = stack[p] /\ todo'[p] = todo[p] /\ Sound(p)
  BY DEF RemoveEntry, call, Installing, Running
<1>2. /\ Own(p)' = Own(p) /\ Dest(p)' = Dest(p) /\ Nested(p)' = Nested(p)
      /\ ~Nested(p) => Own(p) = Dest(p)
      /\ Own(p) \in Prefixes
  BY <1>1, SameFrame, Placing DEF Installing, Assumed, Sound
<1>3. ASSUME ~Nested(p) PROVE ~Verifies(p)'
  <2>1. ~Verifies(p)
    BY <1>1, <1>3 DEF Ready, Broken
  <2>2. CASE manifest'[Own(p)] = Absent
    BY <1>2, <2>2 DEF Verifies
  <2>3. ASSUME manifest'[Own(p)] # Absent PROVE ~Verifies(p)'
    <3>1. manifest' = manifest
      BY <1>2, <2>3 DEF RemoveEntry, Installing
    <3>2. PICK line \in manifest[Own(p)] : files[Own(p)][line[1]] # line[2]
      BY <1>2, <1>3, <2>1, <2>3, <3>1 DEF Verifies, Matches
    <3>3. PICK f \in Files : files' = [files EXCEPT ![Own(p)][f] = None]
      BY <1>2, <2>3, <3>1 DEF RemoveEntry, Installing
    <3>4. line \in Line /\ line[1] \in Files /\ line[2] # None
      BY <1>2, <2>3, <3>1, <3>2, NotThere DEF Installing, Line
    <3>5. files'[Own(p)][line[1]] # line[2]
      BY <1>2, <3>2, <3>3, <3>4 DEF Installing
    <3> QED
      BY <1>2, <1>3, <3>1, <3>2, <3>5 DEF Verifies, Matches
  <2> QED
    BY <2>2, <2>3
<1> QED
  BY <1>1, <1>2, <1>3 DEF Ready, Undecided, Broken, Settled

(* A manifest written to its end makes the installation whole.             *)
LEMMA ClosedIsWhole ==
  ASSUME Installing, NEW p \in Procs, pc[p] = "lines", left[p] = {},
         manifest[Dest(p)] # Absent
  PROVE  Whole(Dest(p))
<1>1. Sound(p) /\ ~Nested(p)
  BY DEF Installing, Running, Sound, Called
<1>2. Own(p) = Dest(p) /\ Dest(p) \in Prefixes
  BY <1>1, Placing DEF Sound, Installing, Assumed
<1>3. manifest[Dest(p)] = Existing(p)
  BY <1>1 DEF Sound, Committing
<1>4. \A l \in manifest[Dest(p)] : files[Dest(p)][l[1]] = l[2]
  BY <1>3 DEF Existing
<1>5. \A q \in Needs(Dest(p)[1]) : PackageLines(q, Dest(p)[2]) \subseteq manifest[Dest(p)]
  BY <1>1, <1>2, ClosedWhole DEF Installing, Assumed
<1> QED
  BY <1>4, <1>5 DEF Whole

LEMMA ReadyManifest ==
  ASSUME Installing, NEW p \in Procs, pc[p] # "idle", Ready(p),
         OpenManifest(p) \/ WriteLine(p) \/ CloseManifest(p), Proceeds(p)
  PROVE  Ready(p)'
<1> USE DEF At, TypeOK, HomeOK
<1>1. Sound(p) /\ pc[p] \in {"manifest", "lines"}
  BY DEF OpenManifest, WriteLine, CloseManifest, Installing, Running
<1>2. /\ Own(p)' = Own(p) /\ Dest(p)' = Dest(p) /\ Nested(p)' = Nested(p)
      /\ ~Nested(p) => Own(p) = Dest(p)
      /\ Own(p) \in Prefixes /\ (Nested(p) => Pkg(p) \in Binary)
  BY <1>1, SameFrame, Placing DEF Installing, Assumed, Sound, Proceeds
<1>3. Undecided(p)'
  BY DEF Proceeds, Undecided
<1>4. CASE OpenManifest(p) /\ Nested(p)
  <2>1. pc'[p] = "returned"
    BY <1>2, <1>4, MovesTo DEF OpenManifest, AfterManifest, Installing
  <2> QED
    BY <1>2, <1>3, <1>4, <2>1 DEF Ready, Broken, Settled
<1>5. CASE (OpenManifest(p) /\ ~Nested(p)) \/ WriteLine(p)
  <2>1. ~Nested(p)
    BY <1>1, <1>5 DEF WriteLine, Sound, Called
  <2>2. pc'[p] = "lines"
    <3>1. CASE WriteLine(p)
      BY <3>1 DEF WriteLine
    <3>2. CASE OpenManifest(p)
      <4>1. ~Abort(p)
        BY Ends DEF Proceeds, Abort, Installing
      <4>2. Goto(p, "lines")
        BY <2>1, <3>2, <4>1 DEF OpenManifest
      <4> QED
        BY <4>2, MovesTo DEF Installing
    <3> QED
      BY <1>5, <3>1, <3>2
  <2>3. manifest'[Own(p)] \in SUBSET Line
    <3>1. CASE WriteLine(p)
      <4>1. manifest[Own(p)] # Absent
        BY <1>2, <2>1, <3>1 DEF WriteLine, Ready, Settled
      <4>2. PICK l \in left[p] : manifest'[Own(p)] = manifest[Own(p)] \cup {l}
        BY <1>2, <3>1, <4>1 DEF WriteLine, Installing
      <4> QED
        BY <1>2, <4>1, <4>2 DEF Installing
    <3>2. CASE OpenManifest(p)
      <4>1. ~Abort(p)
        BY Ends DEF Proceeds, Abort, Installing
      <4>2. manifest'[Own(p)] = {}
        BY <1>2, <2>1, <3>2, <4>1 DEF OpenManifest, Installing
      <4> QED
        BY <4>2
    <3> QED
      BY <1>5, <3>1, <3>2
  <2>4. manifest'[Dest(p)] # Absent
    BY <1>2, <2>1, <2>3, NotThere DEF Installing
  <2> QED
    BY <1>2, <1>3, <2>2, <2>4 DEF Ready, Broken, Settled
<1>6. CASE CloseManifest(p)
  <2>1. /\ pc[p] = "lines" /\ left[p] = {} /\ UNCHANGED <<files, manifest>>
        /\ pc'[p] \in {"returned", "cleanSrc"}
    BY <1>6, MovesTo DEF CloseManifest, AfterManifest, home, prefixVars, Installing
  <2>2. manifest[Dest(p)] # Absent
    BY <2>1 DEF Ready, Settled
  <2>3. Whole(Dest(p))
    BY <2>1, <2>2, ClosedIsWhole
  <2>4. Whole(Dest(p))'
    BY <1>2, <2>1, <2>3 DEF Whole
  <2> QED
    BY <1>2, <1>3, <2>1, <2>2, <2>4 DEF Ready, Broken, Settled
<1> QED
  BY <1>4, <1>5, <1>6

LEMMA ReadyClean ==
  ASSUME Installing, NEW p \in Procs, pc[p] # "idle", Ready(p),
         CleanSource(p) \/ CleanBuild(p), Proceeds(p)
  PROVE  Ready(p)'
<1>1. /\ pc[p] \in {"cleanSrc", "cleanBld"} /\ UNCHANGED <<files, manifest>>
      /\ pc'[p] \in {"cleanBld", "returned"}
  BY MovesTo DEF CleanSource, CleanBuild, prefixVars, At, Installing
<1>2. Dest(p)' = Dest(p) /\ Nested(p)' = Nested(p)
  BY SameFrame DEF Proceeds
<1>3. Whole(Dest(p))
  BY <1>1 DEF Ready, Settled
<1>4. Whole(Dest(p))' /\ manifest'[Dest(p)] # Absent
  BY <1>1, <1>2, <1>3 DEF Whole
<1> QED
  BY <1>1, <1>2, <1>4 DEF Ready, Undecided, Broken, Settled, Proceeds

(* The labels the invariant speaks of are entered by these steps only.     *)
LEMMA Enters ==
  ASSUME TypeOK, Noticed, NEW p \in Procs, Acts(p), Proceeds(p),
         pc[p] \notin {"idle", "verify", "returned"},
         pc'[p] \in {"wipe", "lines", "cleanSrc", "cleanBld", "returned"}
  PROVE  \/ RemoveEntry(p) \/ OpenManifest(p) \/ WriteLine(p) \/ CloseManifest(p)
         \/ CleanSource(p) \/ CleanBuild(p)
<1> USE DEF At
<1>1. ~\E pkg \in Requests[p] : Invoke(p, pkg)
  BY DEF Invoke
<1>2. ~Abort(p) /\ ~End(p, "crashed")
  BY Ends DEF Abort, Proceeds
<1>3. ~DownloadStep(p) /\ ~DownloadFault(p)
  BY <1>2, MovesTo DEF DownloadStep, DownloadFault, CheckCache, OpenArchive, Fetch,
     FetchOther, CheckHash, Unzstd, Unzstded, UntarSource, UntarBinary, UntarFails, Clone,
     CloneBinary, Reset, ResetFails, Accept
<1>4. ~InstallFault(p)
  BY <1>2 DEF InstallFault, SkipDependencies, LoseTail, Fails, Crash, Unnoticed, Noticed
<1>5. ~AlreadyInstalled(p) /\ ~NeedInstall(p) /\ ~Return(p)
  BY DEF AlreadyInstalled, NeedInstall, Return
<1>6. /\ ~RemovePrefix(p) /\ ~RemoveSource(p) /\ ~CreateSource(p) /\ ~RemoveBuild(p)
      /\ ~CreateBuild(p) /\ ~CreateInstallDir(p)
  BY <1>2, MovesTo DEF RemovePrefix, RemoveSource, CreateSource, RemoveBuild, CreateBuild,
     CreateInstallDir, AfterScratch
<1>7. ~InstallDependency(p) /\ ~UnknownDependency(p) /\ ~DependenciesInstalled(p)
  <2>1. ~InstallDependency(p)
    BY DEF InstallDependency, Proceeds, TypeOK, CallOK
  <2> QED
    BY <1>2, <2>1, MovesTo DEF UnknownDependency, DependenciesInstalled
<1>8. /\ ~OpenLog(p) /\ ~Configure(p) /\ ~Make(p) /\ ~MakeInstall(p)
      /\ ~MakeFails(p) /\ ~TargetGone(p) /\ ~FilesPlaced(p)
  BY <1>2, MovesTo DEF OpenLog, Configure, Make, MakeInstall, MakeFails, TargetGone,
     FilesPlaced
<1>9. ~PlaceFile(p)
  BY DEF PlaceFile
<1> QED
  BY <1>1, <1>3, <1>4, <1>5, <1>6, <1>7, <1>8, <1>9 DEF Acts, Step, InstallStep

(* What may be done at either end of an activation.                        *)
LEMMA AtVerify ==
  ASSUME NEW p \in Procs, Acts(p), pc[p] = "verify"
  PROVE  AlreadyInstalled(p) \/ NeedInstall(p) \/ Fails(p) \/ Crash(p)
<1> USE DEF At
<1>1. ~DownloadStep(p) /\ ~DownloadFault(p) /\ ~\E pkg \in Requests[p] : Invoke(p, pkg)
  BY DEF DownloadStep, DownloadFault, CheckCache, OpenArchive, Fetch, FetchOther,
     CheckHash, Unzstd, Unzstded, UntarSource, UntarBinary, UntarFails, Clone,
     CloneBinary, Reset, ResetFails, Unnoticed, Invoke
<1>2. InstallFault(p) => Fails(p) \/ Crash(p)
  BY DEF InstallFault, SkipDependencies, LoseTail, Unnoticed
<1>3. InstallStep(p) => AlreadyInstalled(p) \/ NeedInstall(p)
  BY DEF InstallStep, RemoveEntry, RemovePrefix, RemoveSource, CreateSource,
     RemoveBuild, CreateBuild, CreateInstallDir, InstallDependency, UnknownDependency,
     DependenciesInstalled, OpenLog, Configure, Make, MakeInstall, MakeFails, PlaceFile,
     TargetGone, FilesPlaced, OpenManifest, WriteLine, CloseManifest, CleanSource,
     CleanBuild, Return
<1> QED
  BY <1>1, <1>2, <1>3 DEF Acts, Step

LEMMA AtReturn ==
  ASSUME NEW p \in Procs, Acts(p), pc[p] = "returned"
  PROVE  Return(p) \/ Crash(p)
<1> USE DEF At
<1>1. ~DownloadStep(p) /\ ~DownloadFault(p) /\ ~\E pkg \in Requests[p] : Invoke(p, pkg)
  BY DEF DownloadStep, DownloadFault, CheckCache, OpenArchive, Fetch, FetchOther,
     CheckHash, Unzstd, Unzstded, UntarSource, UntarBinary, UntarFails, Clone,
     CloneBinary, Reset, ResetFails, Unnoticed, Invoke
<1>2. InstallFault(p) => Crash(p)
  BY HomeAssumption DEF InstallFault, SkipDependencies, LoseTail, Fails,
     Unnoticed, Fallible
<1>3. InstallStep(p) => Return(p)
  BY DEF InstallStep, AlreadyInstalled, NeedInstall, RemoveEntry, RemovePrefix,
     RemoveSource, CreateSource, RemoveBuild, CreateBuild, CreateInstallDir,
     InstallDependency, UnknownDependency, DependenciesInstalled, OpenLog, Configure,
     Make, MakeInstall, MakeFails, PlaceFile, TargetGone, FilesPlaced, OpenManifest,
     WriteLine, CloseManifest, CleanSource, CleanBuild
<1> QED
  BY <1>1, <1>2, <1>3 DEF Acts, Step

(* The return of an activation, and the call of one for a dependency.      *)
LEMMA Returns ==
  ASSUME TypeOK, NEW p \in Procs, Return(p)
  PROVE  \/ pc'[p] = "idle" /\ outcome'[p] = "none"
         \/ pc'[p] \in {"deps", "verify"} /\ outcome'[p] = "none"
BY DEF Return, End, TypeOK, CallOK

LEMMA OwnReady ==
  ASSUME Installing, NEW p \in Procs, Ready(p), Acts(p)
  PROVE  Ready(p)'
<1> USE DEF At
<1>1. ASSUME NEW pkg \in Requests[p], Invoke(p, pkg) PROVE Ready(p)'
  <2>1. pc[p] = "idle" /\ pc'[p] = "verify" /\ outcome'[p] = outcome[p]
    BY <1>1 DEF Invoke, Installing, TypeOK, CallOK
  <2> QED
    BY <2>1, ReadyElsewhere DEF Ready, Undecided
<1>2. CASE pc[p] = "idle"
  <2>1. ~Step(p) /\ ~DownloadFault(p) /\ ~InstallFault(p)
    BY <1>2, IdleOnlyStarts
  <2> QED
    BY <1>1, <2>1 DEF Acts
<1>3. CASE pc[p] = "verify"
  <2>1. AlreadyInstalled(p) \/ NeedInstall(p) \/ Fails(p) \/ Crash(p)
    BY <1>3, AtVerify
  <2>2. CASE Fails(p) \/ Crash(p)
    <3>1. pc'[p] = "idle" /\ outcome'[p] = "none"
      BY <2>2 DEF Fails, Crash, Abort, End, Installing, TypeOK, CallOK
    <3> QED
      BY <3>1, ReadyElsewhere
  <2> QED
    BY <1>3, <2>1, <2>2, ReadyVerify
<1>4. CASE pc[p] = "returned"
  <2>1. Return(p) \/ Crash(p)
    BY <1>4, AtReturn
  <2>2. pc'[p] \in {"idle", "deps", "verify"} /\ outcome'[p] = "none"
    BY <2>1, Returns DEF Crash, End, Installing, TypeOK, CallOK
  <2> QED
    BY <2>2, ReadyElsewhere
<1>5. CASE InstallDependency(p)
  <2>1. pc'[p] = "verify" /\ pc[p] = "deps" /\ outcome'[p] = outcome[p]
    BY <1>5 DEF InstallDependency, Installing, TypeOK, CallOK
  <2> QED
    BY <2>1, ReadyElsewhere DEF Ready, Undecided
<1>6. CASE pc[p] \notin {"idle", "verify", "returned"} /\ ~InstallDependency(p)
  <2>1. outcome[p] = "none"
    BY <1>6 DEF Ready, Undecided
  <2>2. End(p, "failed") \/ End(p, "crashed") \/ Proceeds(p)
    BY <1>6, <2>1, Amidst DEF Installing
  <2>3. CASE End(p, "failed") \/ End(p, "crashed")
    <3>1. pc'[p] = "idle" /\ outcome'[p] = "none"
      BY <2>3 DEF End, Installing, TypeOK, CallOK
    <3> QED
      BY <3>1, ReadyElsewhere
  <2>4. CASE Proceeds(p) /\ pc'[p] \notin {"wipe", "lines", "cleanSrc", "cleanBld", "returned"}
    BY <2>4, ReadyElsewhere DEF Proceeds
  <2>5. CASE Proceeds(p) /\ pc'[p] \in {"wipe", "lines", "cleanSrc", "cleanBld", "returned"}
    <3>1. \/ RemoveEntry(p) \/ OpenManifest(p) \/ WriteLine(p) \/ CloseManifest(p)
          \/ CleanSource(p) \/ CleanBuild(p)
      BY <1>6, <2>5, Enters DEF Installing, Assumed
    <3> QED
      BY <1>6, <2>5, <3>1, ReadyWipe, ReadyManifest, ReadyClean
  <2> QED
    BY <2>2, <2>3, <2>4, <2>5
<1> QED
  BY <1>2, <1>3, <1>4, <1>5, <1>6

(* Only root calls write manifests, and they are asked for.                *)
LEMMA UnrequestedStep ==
  ASSUME Installing, Unrequested, NEW p \in Procs, Acts(p)
  PROVE  Unrequested'
<1> SUFFICES ASSUME NEW x \in Prefixes, \A q \in Procs : x[1] \notin Requests[q]
             PROVE  manifest'[x] = Absent
  BY DEF Unrequested
<1>1. manifest[x] = Absent
  BY DEF Unrequested
<1>2. CASE OpenManifest(p)
  <2>1. Sound(p) /\ pc[p] # "idle"
    BY <1>2 DEF OpenManifest, At, Installing, Running
  <2>2. CASE ~Nested(p)
    <3>1. Own(p)[1] = Root(p) /\ Root(p) \in Requests[p]
      BY <2>1, <2>2, Placing DEF Sound, Called, Installing, Assumed
    <3>2. x # Own(p)
      BY <3>1
    <3> QED
      BY <1>1, <1>2, <3>2 DEF OpenManifest, Installing, TypeOK, HomeOK
  <2>3. CASE Nested(p)
    BY <1>1, <1>2, <2>3 DEF OpenManifest
  <2> QED
    BY <2>2, <2>3
<1>3. CASE ~OpenManifest(p)
  BY <1>1, <1>3, ManifestChange DEF Installing, Assumed
<1> QED
  BY <1>2, <1>3

LEMMA StoringStep ==
  ASSUME Installing, Storing, [Next]_vars
  PROVE  Storing'
<1>1. CASE UNCHANGED vars \/ \E x \in Prefixes, f \in Rotting : Rot(x, f)
  <2>1. UNCHANGED <<manifest, pc, stack, todo, left, outcome>>
    BY <1>1 DEF vars, home, prefixVars, call, Rot
  <2>2. UNCHANGED files \/ \A p \in Procs : pc[p] = "idle"
    BY <1>1 DEF vars, home, prefixVars, Rot, At
  <2>3. \A p \in Procs : SameCallOf(p) /\ (pc[p] # "idle" => SamePrefixes(p))
    BY <2>1, <2>2 DEF SameCallOf, SamePrefixes
  <2>4. \A p \in Procs : Ready(p)'
    BY <2>3, OthersReady DEF Installing, Assumed, Running, Storing
  <2> QED
    BY <2>1, <2>4 DEF Storing, Unrequested
<1>2. ASSUME NEW p \in Procs, Acts(p) PROVE Storing'
  <2>1. ASSUME NEW q \in Procs PROVE Ready(q)'
    <3>1. CASE q = p
      BY <1>2, <3>1, OwnReady DEF Storing
    <3>2. CASE q # p
      <4>1. SameCallOf(q)
        BY <1>2, <3>2, OthersCall DEF Installing
      <4>2. pc[q] # "idle" => SamePrefixes(q)
        BY <1>2, <3>2, Elsewhere DEF Installing, Running, Sound, Assumed
      <4> QED
        BY <4>1, <4>2, OthersReady DEF Installing, Assumed, Running, Storing
    <3> QED
      BY <3>1, <3>2
  <2> QED
    BY <1>2, <2>1, UnrequestedStep DEF Storing
<1> QED
  BY <1>1, <1>2 DEF Next, Acts

LEMMA StoringInit == Init => Storing
BY DEF Init, Storing, Ready, Undecided, Unrequested

-----------------------------------------------------------------------------
(* What a step does to the installation below a prefix: nothing; or it     *)
(* works on one that was not whole; or it adds a line of a file that is    *)
(* there to the manifest.                                                  *)
Mismatched(x) ==
  manifest[x] = Absent \/ \E l \in manifest[x] : files[x][l[1]] # l[2]

LEMMA Touched ==
  ASSUME Installing, Storing, NEW p \in Procs, Acts(p), NEW x \in Prefixes,
         files'[x] # files[x] \/ manifest'[x] # manifest[x]
  PROVE  /\ Writes(p) /\ x[1] \in Needs(Root(p))
         /\ pc[p] \notin {"idle", "verify", "returned"}
         /\ \/ Mismatched(x)
            \/ /\ manifest[x] # Absent /\ files'[x] = files[x] /\ manifest'[x] # Absent
               /\ \E l : files[x][l[1]] = l[2] /\ manifest'[x] = manifest[x] \cup {l}
<1> USE DEF At
<1>1. Writes(p)
  BY OnlyWriters DEF Installing, Assumed
<1>2. /\ pc[p] \in {"wipe", "unpacking", "copying", "manifest", "lines"}
      /\ Sound(p) /\ Ready(p)
  BY <1>1 DEF Writes, RemoveEntry, PlaceFile, OpenManifest, WriteLine, Installing, Running,
              Storing
<1>3. /\ Own(p)[1] = Pkg(p) /\ Dest(p)[1] = Root(p)
      /\ Pkg(p) \in Needs(Root(p)) /\ Root(p) \in Needs(Root(p))
      /\ Own(p) \in Prefixes /\ Dest(p) \in Prefixes
      /\ (~Nested(p) => Own(p) = Dest(p))
  BY <1>2, Placing DEF Sound, Installing, Assumed
<1>4. x = Own(p) \/ x = Dest(p)
  BY <1>2, WritesOwn DEF Installing, Assumed
<1>5. CASE RemoveEntry(p)
  <2>1. x = Own(p) /\ pc[p] = "wipe"
    BY <1>4, <1>5 DEF RemoveEntry, Installing, TypeOK, HomeOK
  <2>2. CASE Nested(p)
    <3>1. \A q \in Procs : x[1] \notin Requests[q]
      BY <1>2, <1>3, <2>1, <2>2, Unasked DEF Sound, Installing
    <3> QED
      BY <1>1, <1>2, <1>3, <2>1, <3>1 DEF Storing, Unrequested, Mismatched
  <2>3. CASE ~Nested(p)
    <3>1. ~Verifies(p)
      BY <1>2, <2>1, <2>3 DEF Ready, Broken
    <3> QED
      BY <1>1, <1>2, <1>3, <2>1, <2>3, <3>1 DEF Verifies, Matches, Mismatched
  <2> QED
    BY <2>2, <2>3
<1>6. CASE PlaceFile(p)
  <2>1. x = Dest(p) /\ pc[p] \in {"unpacking", "copying"}
    <3>1. pc[p] \in {"unpacking", "copying"} /\ UNCHANGED manifest
      BY <1>6 DEF PlaceFile
    <3>2. PICK l \in left[p] : files' = [files EXCEPT ![Dest(p)][l[1]] = l[2]]
      BY <1>2, <1>6, <3>1, Targets DEF PlaceFile, Installing, Assumed
    <3> QED
      BY <1>3, <3>1, <3>2 DEF Installing, TypeOK, HomeOK
  <2>2. manifest[x] = Absent
    BY <1>2, <2>1 DEF Sound, Clear, Cleared
  <2> QED
    BY <1>1, <1>2, <1>3, <2>1, <2>2 DEF Mismatched
<1>7. CASE OpenManifest(p)
  <2>1. x = Own(p) /\ pc[p] = "manifest" /\ ~Nested(p)
    BY <1>4, <1>7 DEF OpenManifest, Installing, TypeOK, HomeOK
  <2>2. manifest[x] = Absent
    BY <1>2, <1>3, <2>1 DEF Sound, Clear, Cleared
  <2> QED
    BY <1>1, <1>2, <1>3, <2>1, <2>2 DEF Mismatched
<1>8. CASE WriteLine(p)
  <2>1. /\ x = Own(p) /\ pc[p] = "lines" /\ ~Nested(p) /\ pc'[p] = "lines"
        /\ files' = files
    BY <1>2, <1>4, <1>8 DEF WriteLine, Installing, TypeOK, HomeOK, Sound, Called
  <2>2. x = Dest(p) /\ manifest[x] # Absent /\ left[p] \subseteq Existing(p)
    BY <1>2, <1>3, <2>1 DEF Ready, Settled, Sound, Committing
  <2>3. PICK l \in left[p] : manifest'[x] = manifest[x] \cup {l}
    BY <1>3, <1>8, <2>1, <2>2 DEF WriteLine, Installing, TypeOK, HomeOK
  <2>4. files[x][l[1]] = l[2]
    BY <2>2, <2>3 DEF Existing
  <2>5. manifest[x] \cup {l} \in SUBSET Line
    BY <2>2, <2>3 DEF Installing, TypeOK, HomeOK
  <2>6. manifest'[x] # Absent
    BY <2>3, <2>5, NotThere DEF Installing
  <2> QED
    BY <1>1, <1>2, <1>3, <2>1, <2>2, <2>3, <2>4, <2>6
<1> QED
  BY <1>1, <1>5, <1>6, <1>7, <1>8 DEF Writes

(* An installation that would pass the check for already installed is not  *)
(* destroyed by any installation, failed or killed or not: install wipes   *)
(* only what has just failed the check.                                    *)
THEOREM InstallationsStayIntact ==
  (Assumed /\ Roots /\ Rotting = {}) => (Spec => IntactKept)
<1> SUFFICES ASSUME Assumed, Roots, Rotting = {} PROVE Spec => IntactKept
  OBVIOUS
<1> DEFINE Inv == (Running /\ Kept /\ CommitsWhole) /\ Storing
<1>1. Init => Inv
  BY CommitInit, StoringInit
<1>2. TypeOK /\ Inv /\ [Next]_vars => Inv'
  BY CommitInvariant, StoringStep DEF Installing
<1>3. TypeOK /\ Inv /\ [Next]_vars
        => [\A x \in Prefixes : Intact(x) => Intact(x)']_vars
  <2> SUFFICES ASSUME TypeOK, Inv, [Next]_vars, ~UNCHANGED vars,
                      NEW x \in Prefixes, Intact(x)
               PROVE  Intact(x)'
    OBVIOUS
  <2>1. PICK p \in Procs : Acts(p)
    BY DEF Next, Acts
  <2>2. CASE files'[x] = files[x] /\ manifest'[x] = manifest[x]
    BY <2>2, SameWhole
  <2>3. CASE files'[x] # files[x] \/ manifest'[x] # manifest[x]
    <3>1. ~Mismatched(x)
      BY DEF Intact, Mismatched
    <3>2. /\ files'[x] = files[x] /\ manifest'[x] # Absent
          /\ \E l : files[x][l[1]] = l[2] /\ manifest'[x] = manifest[x] \cup {l}
      BY <2>1, <2>3, <3>1, Touched DEF Installing
    <3> QED
      BY <3>2 DEF Intact
  <2> QED
    BY <2>2, <2>3
<1> HIDE DEF Inv
<1>4. Spec => [][\A x \in Prefixes : Intact(x) => Intact(x)']_vars
  BY <1>1, <1>2, <1>3, TypeCorrect, PTL DEF Spec
<1> QED
  BY <1>4 DEF IntactKept

-----------------------------------------------------------------------------
(* The refinement: what a step of the installer looks like to the store.   *)
Others(p) == \A q \in Procs : q # p => JobOf(q)' = JobOf(q) /\ (Works(q)' <=> Works(q))
SameStore == \A x \in Prefixes : StoreOf(x)' = StoreOf(x)

LEMMA IsStutter ==
  ASSUME SameStore, NEW p \in Procs, Others(p), JobOf(p)' = JobOf(p),
         Works(p)' <=> Works(p), exit' = exit
  PROVE  UNCHANGED Store!storeVars
<1>1. \A q \in Procs : JobOf(q)' = JobOf(q) /\ (Works(q)' <=> Works(q))
  BY DEF Others
<1> QED
  BY <1>1 DEF SameStore, Store!storeVars

LEMMA IsAsk ==
  ASSUME SameStore, NEW p \in Procs, Others(p), JobOf(p) = <<>>,
         NEW pkg \in Requests[p], NEW bts \in BuildRequests,
         JobOf(p)' = PrefixesOf(pkg, bts), Works(p)' <=> Works(p),
         exit' = [exit EXCEPT ![p] = "none"]
  PROVE  Store!Ask(p)
<1>1. \A q \in Procs : Works(q)' <=> Works(q)
  BY DEF Others
<1>2. PrefixesOf(pkg, bts) \in OrdersOf(p)
  BY DEF OrdersOf
<1>3. [q \in Procs |-> JobOf(q)]'
        = [[q \in Procs |-> JobOf(q)] EXCEPT ![p] = PrefixesOf(pkg, bts)]
  BY DEF Others
<1> QED
  BY <1>1, <1>2, <1>3 DEF SameStore, Store!Ask

LEMMA IsBegin ==
  ASSUME SameStore, NEW p \in Procs, Others(p), JobOf(p) # <<>>, JobOf(p)' = JobOf(p),
         Head(JobOf(p)) \in Prefixes, StoreOf(Head(JobOf(p))) # "whole", Works(p)',
         exit' = exit
  PROVE  Store!Begin(p)
<1>1. \A q \in Procs : JobOf(q)' = JobOf(q)
  BY DEF Others
<1> QED
  BY <1>1 DEF SameStore, Others, Store!Begin

LEMMA IsChange ==
  ASSUME NEW x \in Prefixes, StoreOf(x) # "whole",
         \A y \in Prefixes : y # x => StoreOf(y)' = StoreOf(y),
         NEW p \in Procs, Others(p), Works(p), Works(p)', JobOf(p)' = JobOf(p),
         Head(JobOf(p)) \in Prefixes, x[1] \in Needs(Head(JobOf(p))[1]), exit' = exit
  PROVE  Store!Change(p)
<1>1. \A q \in Procs : JobOf(q)' = JobOf(q) /\ (Works(q)' <=> Works(q))
  BY DEF Others
<1>2. StoreOf(x)' \in {"absent", "dirty", "whole"}
  BY DEF StoreOf
<1>3. [y \in Prefixes |-> StoreOf(y)]'
        = [[y \in Prefixes |-> StoreOf(y)] EXCEPT ![x] = StoreOf(x)']
  OBVIOUS
<1> QED
  BY <1>1, <1>2, <1>3 DEF Store!Change

LEMMA IsFinish ==
  ASSUME SameStore, NEW p \in Procs, Others(p), JobOf(p) # <<>>,
         Head(JobOf(p)) \in Prefixes,
         StoreOf(Head(JobOf(p))) \in IF Works(p) THEN {"whole"} ELSE {"dirty", "whole"},
         JobOf(p)' = Tail(JobOf(p)), ~Works(p)',
         exit \in [Procs -> {"none", "ok", "failed", "crashed"}],
         exit' = [exit EXCEPT ![p] = IF Len(JobOf(p)) = 1 THEN "ok" ELSE @]
  PROVE  Store!Finish(p)
BY DEF SameStore, Others, Store!Finish

LEMMA IsStop ==
  ASSUME SameStore, NEW p \in Procs, Others(p), JobOf(p) # <<>>, JobOf(p)' = <<>>,
         ~Works(p)', NEW a \in {"failed", "crashed"}, exit' = [exit EXCEPT ![p] = a]
  PROVE  Store!Stop(p)
BY DEF SameStore, Others, Store!Stop

LEMMA IsDamage ==
  ASSUME \A q \in Procs : JobOf(q) = <<>> /\ JobOf(q)' = <<>> /\ ~Works(q) /\ ~Works(q)',
         exit' = exit, NEW x \in Prefixes, StoreOf(x) = "whole", StoreOf(x)' = "dirty",
         \A y \in Prefixes : y # x => StoreOf(y)' = StoreOf(y)
  PROVE  Store!Damage
BY DEF Store!Damage

(* The jobs of the invocations.                                            *)
LEMMA PrefixesSequence ==
  ASSUME NEW r \in Packages, NEW bts \in Seq(BuildTypes)
  PROVE  /\ PrefixesOf(r, bts) \in Seq(Prefixes)
         /\ Len(PrefixesOf(r, bts)) = Len(bts)
         /\ \A i \in 1..Len(bts) : PrefixesOf(r, bts)[i] = PrefixOf(r, bts[i])
<1>1. \A i \in 1..Len(bts) : PrefixOf(r, bts[i]) \in Prefixes
  BY DEF PrefixOf, Prefixes
<1> QED
  BY <1>1 DEF PrefixesOf

LEMMA Prefixed ==
  ASSUME NEW r \in Packages, NEW bts \in Seq(BuildTypes), bts # <<>>
  PROVE  /\ PrefixesOf(r, bts) \in Seq(Prefixes) \ {<<>>}
         /\ Len(PrefixesOf(r, bts)) = Len(bts)
         /\ Head(PrefixesOf(r, bts)) = PrefixOf(r, Head(bts))
         /\ Tail(PrefixesOf(r, bts)) = PrefixesOf(r, Tail(bts))
<1> DEFINE n == Len(bts)
           s == PrefixesOf(r, bts)
           u == Tail(bts)
           t == PrefixesOf(r, u)
<1>1. n \in Nat \ {0}
  OBVIOUS
<1>2. s \in Seq(Prefixes) /\ Len(s) = n /\ \A i \in 1..n : s[i] = PrefixOf(r, bts[i])
  BY PrefixesSequence
<1>3. s # <<>> /\ Head(s) = PrefixOf(r, Head(bts))
  BY <1>1, <1>2
<1>4. /\ u \in Seq(BuildTypes) /\ Len(u) = n - 1
      /\ \A i \in 1..(n - 1) : u[i] = bts[i + 1]
  BY HeadTailProperties
<1>5. t \in Seq(Prefixes) /\ Len(t) = n - 1 /\ \A i \in 1..(n - 1) : t[i] = PrefixOf(r, u[i])
  <2> HIDE DEF n, u
  <2> QED
    BY <1>4, PrefixesSequence
<1>6. /\ Tail(s) \in Seq(Prefixes) /\ Len(Tail(s)) = n - 1
      /\ \A i \in 1..(n - 1) : Tail(s)[i] = s[i + 1]
  BY <1>1, <1>2, <1>3, HeadTailProperties
<1> HIDE DEF n, s, t, u
<1>7. \A i \in 1..(n - 1) : Tail(s)[i] = t[i]
  BY <1>1, <1>2, <1>4, <1>5, <1>6
<1>8. Tail(s) = t
  BY <1>5, <1>6, <1>7, SeqEqual
<1> QED
  BY <1>2, <1>3, <1>8 DEF n, s, t, u

LEMMA JobRunning ==
  ASSUME TypeOK, NEW p \in Procs, pc[p] # "idle"
  PROVE  /\ JobOf(p) # <<>> /\ Len(JobOf(p)) = Len(todo[p])
         /\ Head(JobOf(p)) = Dest(p) /\ Dest(p) \in Prefixes
         /\ Tail(JobOf(p)) = PrefixesOf(Root(p), Tail(todo[p]))
<1>1. /\ Root(p) \in Packages /\ todo[p] \in Seq(BuildTypes) /\ todo[p] # <<>>
      /\ Dest(p) \in Prefixes
  BY Typing DEF TypeOK, CallOK
<1>2. JobOf(p) = PrefixesOf(Root(p), todo[p])
  BY DEF JobOf, At
<1> QED
  BY <1>1, <1>2, Prefixed DEF Dest

LEMMA JobKept ==
  ASSUME NEW p, pc[p] # "idle", pc'[p] # "idle", Root(p)' = Root(p), todo'[p] = todo[p]
  PROVE  JobOf(p)' = JobOf(p)
BY DEF JobOf, At, PrefixesOf

LEMMA OthersWork ==
  ASSUME TypeOK, NEW p \in Procs, Acts(p)
  PROVE  Others(p)
<1> SUFFICES ASSUME NEW q \in Procs, q # p
             PROVE  JobOf(q)' = JobOf(q) /\ (Works(q)' <=> Works(q))
  BY DEF Others
<1>1. SameCallOf(q)
  BY OthersCall
<1>2. Root(q)' = Root(q) /\ Nested(q)' = Nested(q) /\ todo'[q] = todo[q]
  BY <1>1, SameFrame DEF SameCallOf
<1> QED
  BY <1>1, <1>2 DEF SameCallOf, JobOf, Works, At, PrefixesOf

LEMMA SameFiles ==
  ASSUME UNCHANGED <<files, manifest>>
  PROVE  SameStore
BY SameWhole DEF SameStore

LEMMA StopsStore ==
  ASSUME Installing, NEW p \in Procs, Acts(p), pc[p] # "idle",
         End(p, "failed") \/ End(p, "crashed"), UNCHANGED <<files, manifest>>
  PROVE  Store!Stop(p)
<1>1. JobOf(p) # <<>>
  BY JobRunning DEF Installing
<1>2. pc'[p] = "idle"
  BY DEF End, Installing, TypeOK, CallOK
<1>3. JobOf(p)' = <<>> /\ ~Works(p)'
  BY <1>2 DEF JobOf, Works, At
<1>4. PICK a \in {"failed", "crashed"} : exit' = [exit EXCEPT ![p] = a]
  BY DEF End
<1>5. SameStore /\ Others(p)
  BY SameFiles, OthersWork DEF Installing
<1> QED
  BY <1>1, <1>3, <1>4, <1>5, IsStop

LEMMA AsksStore ==
  ASSUME Installing, NEW p \in Procs, Acts(p), NEW pkg \in Requests[p], Invoke(p, pkg)
  PROVE  Store!Ask(p)
<1>1. PICK bts \in BuildRequests : todo' = [todo EXCEPT ![p] = bts]
  BY DEF Invoke
<1>2. /\ pc[p] = "idle" /\ pc'[p] = "verify" /\ stack'[p] = <<[pkg |-> pkg, dep |-> 1]>>
      /\ todo'[p] = bts /\ exit' = [exit EXCEPT ![p] = "none"]
  BY <1>1 DEF Invoke, At, Installing, TypeOK, CallOK
<1>3. Root(p)' = pkg /\ ~Nested(p)'
  BY <1>2 DEF Root, Nested
<1>4. JobOf(p) = <<>> /\ ~Works(p) /\ JobOf(p)' = PrefixesOf(pkg, bts) /\ ~Works(p)'
  BY <1>2, <1>3 DEF JobOf, Works, At, PrefixesOf
<1>5. SameStore /\ Others(p)
  BY SameFiles, OthersWork DEF Installing, Invoke, home, prefixVars
<1> QED
  BY <1>2, <1>4, <1>5, IsAsk

(* The check: an installation that fails it is not whole.                  *)
LEMMA ChecksStore ==
  ASSUME Installing, NEW p \in Procs, Acts(p), Ready(p), pc[p] = "verify",
         AlreadyInstalled(p) \/ NeedInstall(p)
  PROVE  Store!Begin(p) \/ UNCHANGED Store!storeVars
<1> USE DEF At
<1>1. /\ stack'[p] = stack[p] /\ todo'[p] = todo[p] /\ exit' = exit
      /\ UNCHANGED <<files, manifest>> /\ Sound(p) /\ outcome[p] = "none"
  BY DEF AlreadyInstalled, NeedInstall, Goto, call, home, prefixVars, Installing,
         Running, Ready, Undecided
<1>2. pc'[p] \in {"returned", "wipe"}
  BY DEF AlreadyInstalled, NeedInstall, Goto, Installing, TypeOK, CallOK
<1>3. Root(p)' = Root(p) /\ Nested(p)' = Nested(p) /\ JobOf(p)' = JobOf(p)
  BY <1>1, <1>2, SameFrame, JobKept
<1>4. SameStore /\ Others(p)
  BY <1>1, SameFiles, OthersWork DEF Installing
<1>5. CASE Nested(p)
  <2>1. Works(p) /\ Works(p)'
    BY <1>2, <1>3, <1>5 DEF Works
  <2> QED
    BY <1>1, <1>3, <1>4, <2>1, IsStutter
<1>6. CASE ~Nested(p) /\ AlreadyInstalled(p)
  <2>1. outcome'[p] \in {"verified", "sampled"}
    BY <1>6 DEF AlreadyInstalled, Installing, TypeOK, CallOK
  <2>2. ~Works(p) /\ ~Works(p)'
    BY <1>3, <1>6, <2>1 DEF Works
  <2> QED
    BY <1>1, <1>3, <1>4, <2>2, IsStutter
<1>7. CASE ~Nested(p) /\ NeedInstall(p)
  <2>1. pc'[p] = "wipe" /\ outcome'[p] = "none" /\ ~Verifies(p)
    BY <1>1, <1>7 DEF NeedInstall, Goto, call, Installing, TypeOK, CallOK
  <2>2. Own(p) = Dest(p)
    BY <1>1, <1>7, Placing DEF Sound, Installing, Assumed
  <2>3. ~Whole(Dest(p))
    BY <2>1, <2>2 DEF Verifies, Matches, Whole
  <2>4. /\ JobOf(p) # <<>> /\ Head(JobOf(p)) = Dest(p) /\ Dest(p) \in Prefixes
        /\ StoreOf(Dest(p)) # "whole"
    BY <2>3, JobRunning DEF Installing, StoreOf
  <2>5. Works(p)'
    BY <2>1 DEF Works
  <2> QED
    BY <1>1, <1>3, <1>4, <2>4, <2>5, IsBegin
<1> QED
  BY <1>5, <1>6, <1>7

(* The return: what was built is whole, what was checked has a manifest.   *)
LEMMA FinishesStore ==
  ASSUME Installing, NEW p \in Procs, Acts(p), Ready(p), Return(p)
  PROVE  Store!Finish(p) \/ UNCHANGED Store!storeVars
<1> USE DEF At
<1>1. pc[p] = "returned" /\ Sound(p) /\ UNCHANGED <<files, manifest>>
  BY DEF Return, Installing, Running, home, prefixVars
<1>2. SameStore /\ Others(p)
  BY <1>1, SameFiles, OthersWork DEF Installing
<1>3. CASE Nested(p)
  <2>1. /\ pc'[p] = "deps" /\ Root(p)' = Root(p) /\ ~Nested(p)' /\ todo'[p] = todo[p]
    BY <1>1, <1>3, ReturnFrame DEF Sound, Installing
  <2>2. outcome'[p] = "none" /\ exit' = exit
    BY <1>3 DEF Return, Installing, TypeOK, CallOK
  <2>3. Works(p) /\ Works(p)' /\ JobOf(p)' = JobOf(p)
    BY <1>1, <1>3, <2>1, <2>2, JobKept DEF Works
  <2> QED
    BY <1>2, <2>2, <2>3, IsStutter
<1>4. CASE ~Nested(p)
  <2>1. /\ JobOf(p) # <<>> /\ Head(JobOf(p)) = Dest(p) /\ Dest(p) \in Prefixes
        /\ Tail(JobOf(p)) = PrefixesOf(Root(p), Tail(todo[p]))
        /\ Len(JobOf(p)) = Len(todo[p])
    BY <1>1, JobRunning DEF Installing
  <2>2. StoreOf(Dest(p)) \in IF Works(p) THEN {"whole"} ELSE {"dirty", "whole"}
    <3>1. outcome[p] \in {"verified", "sampled", "built"}
      BY <1>1 DEF Ready, Undecided, Installing, TypeOK, CallOK
    <3>2. Works(p) <=> outcome[p] = "built"
      BY <1>1, <1>4, <3>1 DEF Works
    <3>3. manifest[Dest(p)] # Absent /\ (outcome[p] = "built" => Whole(Dest(p)))
      BY <1>1, <1>4 DEF Ready, Settled
    <3> QED
      BY <3>2, <3>3 DEF StoreOf
  <2>3. CASE /\ Len(todo[p]) > 1 /\ exit' = exit
             /\ stack' = [stack EXCEPT ![p] = <<[pkg |-> Root(p), dep |-> 1]>>]
             /\ todo' = [todo EXCEPT ![p] = Tail(@)]
             /\ pc' = [pc EXCEPT ![p] = "verify"]
    <3>1. /\ pc'[p] = "verify" /\ stack'[p] = <<[pkg |-> Root(p), dep |-> 1]>>
          /\ todo'[p] = Tail(todo[p])
      BY <2>3 DEF Installing, TypeOK, CallOK
    <3>2. Root(p)' = Root(p) /\ ~Nested(p)'
      BY <3>1 DEF Root, Nested
    <3>3. ~Works(p)' /\ JobOf(p)' = PrefixesOf(Root(p), Tail(todo[p]))
      BY <3>1, <3>2 DEF Works, JobOf, PrefixesOf
    <3>4. exit' = [exit EXCEPT ![p] = IF Len(JobOf(p)) = 1 THEN "ok" ELSE @]
      <4> DEFINE n == Len(JobOf(p))
      <4>1. n > 1 /\ exit' = [exit EXCEPT ![p] = exit[p]]
        BY <2>1, <2>3 DEF Installing, TypeOK, CallOK
      <4> HIDE DEF n
      <4>2. n # 1
        BY <4>1
      <4> QED
        BY <4>1, <4>2 DEF n
    <3> QED
      BY <1>2, <2>1, <2>2, <3>3, <3>4, IsFinish DEF Installing, TypeOK, CallOK
  <2>4. CASE Len(todo[p]) = 1 /\ End(p, "ok")
    <3>1. pc'[p] = "idle"
      BY <2>4, Ends DEF Installing
    <3>2. ~Works(p)' /\ JobOf(p)' = <<>>
      BY <3>1 DEF Works, JobOf
    <3>3. Tail(JobOf(p)) = <<>>
      <4>1. todo[p] \in Seq(BuildTypes) /\ Len(todo[p]) = 1
        BY <1>1, <2>4, Typing DEF Installing, TypeOK
      <4>2. Len(Tail(todo[p])) = 0
        BY <4>1
      <4> QED
        BY <2>1, <4>2 DEF PrefixesOf
    <3>4. exit' = [exit EXCEPT ![p] = IF Len(JobOf(p)) = 1 THEN "ok" ELSE @]
      BY <2>1, <2>4 DEF End
    <3> QED
      BY <1>2, <2>1, <2>2, <3>2, <3>3, <3>4, IsFinish DEF Installing, TypeOK, CallOK
  <2> QED
    BY <1>4, <2>3, <2>4 DEF Return
<1> QED
  BY <1>3, <1>4

(* A step writes below one prefix only, and a call that ends below none.   *)
LEMMA OneTouched ==
  ASSUME TypeOK, NEW p \in Procs, Writes(p), NEW x \in Prefixes, NEW y \in Prefixes, x # y,
         files'[x] # files[x] \/ manifest'[x] # manifest[x]
  PROVE  files'[y] = files[y] /\ manifest'[y] = manifest[y]
<1> USE DEF TypeOK, HomeOK
<1>1. CASE RemoveEntry(p)
  BY <1>1 DEF RemoveEntry
<1>2. CASE PlaceFile(p)
  BY <1>2 DEF PlaceFile
<1>3. CASE OpenManifest(p)
  BY <1>3 DEF OpenManifest
<1>4. CASE WriteLine(p)
  BY <1>4 DEF WriteLine
<1> QED
  BY <1>1, <1>2, <1>3, <1>4 DEF Writes

LEMMA EndsClean ==
  ASSUME TypeOK, Noticed, NEW p \in Procs, Acts(p), pc[p] # "idle", pc'[p] = "idle"
  PROVE  UNCHANGED <<files, manifest>>
<1>1. ~RemoveEntry(p) /\ ~PlaceFile(p) /\ ~WriteLine(p)
  BY DEF RemoveEntry, PlaceFile, WriteLine
<1>2. CASE OpenManifest(p)
  <2>1. ~Finish(p, AfterManifest(p)) /\ ~Goto(p, "lines")
    BY MovesTo DEF AfterManifest
  <2> QED
    BY <1>2, <2>1 DEF OpenManifest
<1> QED
  BY <1>1, <1>2, OnlyWriters DEF Writes

LEMMA CallsStore ==
  ASSUME Installing, NEW p \in Procs, Acts(p), Ready(p), InstallDependency(p)
  PROVE  UNCHANGED Store!storeVars
<1> USE DEF At
<1>1. Sound(p) /\ pc[p] = "deps" /\ exit' = exit /\ outcome[p] = "none"
  BY DEF InstallDependency, Installing, Running, Ready, Undecided
<1>2. /\ pc'[p] = "verify" /\ Root(p)' = Root(p) /\ Nested(p)' /\ todo'[p] = todo[p]
      /\ UNCHANGED <<files, manifest>>
  BY <1>1, CallFrame DEF Sound, Installing, Assumed
<1>3. Works(p) /\ Works(p)' /\ JobOf(p)' = JobOf(p)
  BY <1>1, <1>2, JobKept DEF Works
<1>4. SameStore /\ Others(p)
  BY <1>2, SameFiles, OthersWork DEF Installing
<1> QED
  BY <1>1, <1>3, <1>4, IsStutter

(* The work in between: a change of one prefix, or nothing to be seen.     *)
LEMMA ChangesStore ==
  ASSUME Installing, Storing, NEW p \in Procs, Acts(p),
         pc[p] \notin {"idle", "verify", "returned"}, Proceeds(p)
  PROVE  Store!Change(p) \/ UNCHANGED Store!storeVars
<1> USE DEF At
<1>1. Sound(p) /\ Ready(p) /\ outcome[p] = "none"
  BY DEF Installing, Running, Storing, Ready, Undecided
<1>2. Root(p)' = Root(p) /\ Nested(p)' = Nested(p) /\ JobOf(p)' = JobOf(p) /\ exit' = exit
  BY SameFrame, JobKept DEF Proceeds
<1>3. Works(p) /\ Works(p)' /\ Others(p)
  <2>1. Works(p)'
    BY DEF Works, Proceeds
  <2> QED
    BY <1>1, <2>1, OthersWork DEF Works, Installing
<1>4. CASE SameStore
  BY <1>2, <1>3, <1>4, IsStutter
<1>5. CASE ~SameStore
  <2>1. PICK x \in Prefixes : StoreOf(x)' # StoreOf(x)
    BY <1>5 DEF SameStore
  <2>2. files'[x] # files[x] \/ manifest'[x] # manifest[x]
    BY <2>1, SameWhole
  <2>3. /\ Writes(p) /\ x[1] \in Needs(Root(p))
        /\ \/ Mismatched(x)
           \/ /\ manifest[x] # Absent /\ files'[x] = files[x] /\ manifest'[x] # Absent
              /\ \E l : files[x][l[1]] = l[2] /\ manifest'[x] = manifest[x] \cup {l}
    BY <2>2, Touched
  <2>4. ~Whole(x)
    <3>1. CASE Mismatched(x)
      BY <3>1 DEF Mismatched, Whole
    <3>2. CASE /\ files'[x] = files[x] /\ manifest'[x] # Absent
               /\ \E l : files[x][l[1]] = l[2] /\ manifest'[x] = manifest[x] \cup {l}
      <4>1. Whole(x) => Whole(x)'
        BY <3>2 DEF Whole
      <4> QED
        BY <2>1, <4>1 DEF StoreOf
    <3> QED
      BY <2>3, <3>1, <3>2
  <2>5. \A y \in Prefixes : y # x => StoreOf(y)' = StoreOf(y)
    BY <2>2, <2>3, OneTouched, SameWhole DEF Installing
  <2>6. /\ Head(JobOf(p)) = Dest(p) /\ Dest(p) \in Prefixes /\ Dest(p)[1] = Root(p)
    BY <1>1, JobRunning, Placing DEF Installing, Assumed, Sound
  <2>7. StoreOf(x) # "whole"
    BY <2>4 DEF StoreOf
  <2>8. x[1] \in Needs(Head(JobOf(p))[1]) /\ Head(JobOf(p)) \in Prefixes
    BY <2>3, <2>6
  <2> QED
    BY <1>2, <1>3, <2>5, <2>7, <2>8, IsChange
<1> QED
  BY <1>4, <1>5

(* The damage: a file with a line in the manifest, or one without.         *)
LEMMA DamagesStore ==
  ASSUME Installing, NEW x \in Prefixes, NEW f \in Rotting, Rot(x, f)
  PROVE  Store!Damage \/ UNCHANGED Store!storeVars
<1> USE DEF At, TypeOK, HomeOK
<1>1. \A q \in Procs : pc[q] = "idle" /\ pc'[q] = "idle"
  BY DEF Rot
<1>2. \A q \in Procs : JobOf(q) = <<>> /\ JobOf(q)' = <<>> /\ ~Works(q) /\ ~Works(q)'
  BY <1>1 DEF JobOf, Works
<1>3. exit' = exit /\ manifest' = manifest
  BY DEF Rot, call
<1>4. PICK c \in {None, Garbage} : files' = [files EXCEPT ![x][f] = c]
  BY DEF Rot
<1>5. \A y \in Prefixes : y # x => StoreOf(y)' = StoreOf(y)
  BY <1>3, <1>4, SameWhole DEF Installing
<1>6. CASE StoreOf(x)' = StoreOf(x)
  <2>1. \A y \in Prefixes : StoreOf(y)' = StoreOf(y)
    BY <1>5, <1>6
  <2>2. \A q \in Procs : JobOf(q)' = JobOf(q) /\ (Works(q)' <=> Works(q))
    BY <1>2
  <2> QED
    BY <1>3, <2>1, <2>2 DEF Store!storeVars
<1>7. CASE StoreOf(x)' # StoreOf(x)
  <2>1. manifest[x] # Absent
    BY <1>3, <1>7 DEF StoreOf, Whole
  <2>2. PICK l \in manifest[x] : l[1] = f
    <3> SUFFICES ASSUME \A l \in manifest[x] : l[1] # f PROVE StoreOf(x)' = StoreOf(x)
      BY <1>7
    <3>1. \A l \in manifest[x] : l \in Line /\ l[1] \in Files
      BY <2>1 DEF Installing, Line
    <3>2. \A l \in manifest[x] : files'[x][l[1]] = files[x][l[1]]
      BY <1>4, <3>1 DEF Installing
    <3> QED
      BY <1>3, <3>2 DEF StoreOf, Whole
  <2>3. l \in Line /\ f \in Files
    BY <2>1, <2>2 DEF Installing, Line
  <2>4. l[2] \in Object
    <3>1. PICK q \in Needs(x[1]) \cap Packages : l \in PackageLines(q, x[2])
      BY <2>1 DEF Installing, Kept
    <3>2. x[2] \in BuildTypes \cup {"any"}
      BY DEF Prefixes
    <3> QED
      BY <3>1, <3>2 DEF PackageLines, Wanted, Object, Revisions
  <2>5. files'[x][f] = c /\ c # l[2]
    BY <1>4, <2>3, <2>4, NoneAssumption DEF Installing, Content
  <2>6. ~Whole(x)'
    BY <1>3, <2>2, <2>5 DEF Whole
  <2>7. StoreOf(x) = "whole" /\ StoreOf(x)' = "dirty"
    BY <1>3, <1>7, <2>1, <2>6 DEF StoreOf
  <2> QED
    BY <1>2, <1>3, <1>5, <2>7, IsDamage
<1> QED
  BY <1>6, <1>7

LEMMA StepMaps ==
  ASSUME Installing, Storing, [Next]_vars
  PROVE  [Store!StoreNext]_Store!storeVars
<1>1. CASE UNCHANGED vars
  <2>1. UNCHANGED <<files, manifest, pc, stack, todo, outcome, exit>>
    BY <1>1 DEF vars, home, prefixVars, call
  <2>2. \A x \in Prefixes : StoreOf(x)' = StoreOf(x)
    BY <2>1, SameWhole
  <2>3. \A q \in Procs : JobOf(q)' = JobOf(q) /\ (Works(q)' <=> Works(q))
    BY <2>1 DEF JobOf, Works, At, PrefixesOf, Root, Nested
  <2> QED
    BY <2>1, <2>2, <2>3 DEF Store!storeVars
<1>2. ASSUME NEW x \in Prefixes, NEW f \in Rotting, Rot(x, f)
      PROVE  Store!Damage \/ UNCHANGED Store!storeVars
  BY <1>2, DamagesStore
<1>3. ASSUME NEW p \in Procs, Acts(p)
      PROVE  \/ Store!Ask(p) \/ Store!Begin(p) \/ Store!Change(p)
             \/ Store!Finish(p) \/ Store!Stop(p) \/ UNCHANGED Store!storeVars
  <2>1. Ready(p)
    BY DEF Storing
  <2>2. ASSUME NEW pkg \in Requests[p], Invoke(p, pkg) PROVE Store!Ask(p)
    BY <1>3, <2>2, AsksStore
  <2>3. CASE pc[p] = "idle"
    <3>1. ~Step(p) /\ ~DownloadFault(p) /\ ~InstallFault(p)
      BY <2>3, IdleOnlyStarts
    <3> QED
      BY <1>3, <2>2, <3>1 DEF Acts
  <2>4. ASSUME pc[p] # "idle", End(p, "failed") \/ End(p, "crashed") PROVE Store!Stop(p)
    <3>1. pc'[p] = "idle"
      BY <2>4, Ends DEF Installing
    <3>2. UNCHANGED <<files, manifest>>
      BY <1>3, <2>4, <3>1, EndsClean DEF Installing, Assumed
    <3> QED
      BY <1>3, <2>4, <3>2, StopsStore
  <2>5. CASE pc[p] = "verify"
    <3>1. \/ AlreadyInstalled(p) \/ NeedInstall(p)
          \/ End(p, "failed") \/ End(p, "crashed")
      BY <1>3, <2>5, AtVerify DEF Fails, Crash, Abort
    <3> QED
      BY <1>3, <2>1, <2>4, <2>5, <3>1, ChecksStore
  <2>6. CASE pc[p] = "returned"
    <3>1. Return(p) \/ End(p, "crashed")
      BY <1>3, <2>6, AtReturn DEF Crash
    <3> QED
      BY <1>3, <2>1, <2>4, <2>6, <3>1, FinishesStore
  <2>7. CASE InstallDependency(p)
    BY <1>3, <2>1, <2>7, CallsStore
  <2>8. CASE pc[p] \notin {"idle", "verify", "returned"} /\ ~InstallDependency(p)
    <3>1. outcome[p] = "none"
      BY <2>1, <2>8 DEF Ready, Undecided
    <3>2. End(p, "failed") \/ End(p, "crashed") \/ Proceeds(p)
      BY <1>3, <2>8, <3>1, Amidst DEF Installing
    <3> QED
      BY <1>3, <2>4, <2>8, <3>2, ChangesStore
  <2> QED
    BY <2>3, <2>5, <2>6, <2>7, <2>8
<1> QED
  BY <1>1, <1>2, <1>3 DEF Next, Acts, Store!StoreNext

LEMMA InitMaps == Init => Store!StoreInit
BY DEF Init, Store!StoreInit, StoreOf, Whole, JobOf, Works, At

(* Through every interleaving, failure and kill, and whatever is damaged   *)
(* between two invocations, the installer does what the package store      *)
(* promises: what it has built is whole when it answers ok, what it has    *)
(* only checked has been installed, and nothing that is whole is touched.  *)
THEOREM InstallerImplementsStore ==
  (Assumed /\ Roots) => (Spec => ImplementsStore)
<1> SUFFICES ASSUME Assumed, Roots PROVE Spec => ImplementsStore
  OBVIOUS
<1> DEFINE Inv == (Running /\ Kept /\ CommitsWhole) /\ Storing
<1>1. Init => Inv
  BY CommitInit, StoringInit
<1>2. TypeOK /\ Inv /\ [Next]_vars => Inv'
  BY CommitInvariant, StoringStep DEF Installing
<1>3. TypeOK /\ Inv /\ [Next]_vars => [Store!StoreNext]_Store!storeVars
  BY StepMaps DEF Installing
<1> HIDE DEF Inv
<1>4. Spec => Store!StoreInit /\ [][Store!StoreNext]_Store!storeVars
  BY <1>1, <1>2, <1>3, InitMaps, TypeCorrect, PTL DEF Spec
<1> QED
  BY <1>4 DEF ImplementsStore, Store!StoreSpec
=============================================================================
