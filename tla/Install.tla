------------------------------- MODULE Install ------------------------------
(***************************************************************************)
(* install of src/main.cpp and the install mode of main: check of the  *)
(* manifest, wiping of the prefix, the scratch directories .s and .b, the  *)
(* dependencies (installed recursively into the prefix of the root call),  *)
(* the build, the manifest that commits the installation, the cleanup.     *)
(***************************************************************************)
EXTENDS Download

(* main has parsed the command line, inspected the package and computed    *)
(* the build types to install.                                             *)
Invoke(p, pkg) ==
  /\ At(p, "idle")
  /\ stack' = [stack EXCEPT ![p] = <<[pkg |-> pkg, dep |-> 1]>>]
  /\ \E bts \in BuildRequests : todo' = [todo EXCEPT ![p] = bts]
  /\ pc' = [pc EXCEPT ![p] = "verify"]
  /\ exit' = [exit EXCEPT ![p] = "none"]
  /\ UNCHANGED <<home, left, outcome, faults>>

-----------------------------------------------------------------------------
(* Mutated form of Matches: the file is there, whatever is in it.          *)
MatchesByName(p, line) == files[Dest(p)][line[1]] # None

(* A line of the own manifest is compared with the file of that name in    *)
(* the install directory, which for a dependency is the root call's.       *)
Matches(p, line) == files[Dest(p)][line[1]] = line[2]
Verifies(p) ==
  manifest[Own(p)] # Absent /\ \A line \in manifest[Own(p)] : Matches(p, line)

(* Every line matches, or the 125 ms run out after lines that match.       *)
AlreadyInstalled(p) ==
  /\ At(p, "verify")
  /\ \/ Verifies(p) /\ outcome' = [outcome EXCEPT ![p] = "verified"]
     \/ /\ manifest[Own(p)] # Absent
        /\ \E line \in manifest[Own(p)] : Matches(p, line)
        /\ outcome' = [outcome EXCEPT ![p] = "sampled"]
  /\ pc' = [pc EXCEPT ![p] = "returned"]
  /\ UNCHANGED <<home, stack, todo, exit, left, faults>>

(* Mutated form of NeedInstall: reinstalls what is in order.               *)
NeedInstallAlways(p) ==
  At(p, "verify") /\ Goto(p, "wipe") /\ UNCHANGED <<home, left, faults>>

NeedInstall(p) ==
  /\ At(p, "verify")
  /\ ~Verifies(p)
  /\ Goto(p, "wipe")
  /\ UNCHANGED <<home, left, faults>>

(* removeDirectory(package.Prefix): remove_all deletes one entry at a time *)
(* in the order of the directory, the directory itself last.               *)
RemoveEntry(p) ==
  /\ At(p, "wipe")
  /\ \/ /\ \E f \in Files :
             /\ files[Own(p)][f] # None
             /\ files' = [files EXCEPT ![Own(p)][f] = None]
        /\ UNCHANGED manifest
     \/ /\ manifest[Own(p)] # Absent
        /\ manifest' = [manifest EXCEPT ![Own(p)] = Absent]
        /\ UNCHANGED files
  /\ UNCHANGED <<dirs, scratchVars, distrVars, pc, call, left, faults>>

(* Mutated form of AfterScratch: nobody creates the install directory.     *)
AfterScratchNoDir(p) == "deps"

(* Only the root call creates the install directory.                       *)
AfterScratch(p) == IF Nested(p) THEN "deps" ELSE "mkdir"

RemovePrefix(p) ==
  /\ At(p, "wipe")
  /\ manifest[Own(p)] = Absent /\ \A f \in Files : files[Own(p)][f] = None
  /\ dirs' = dirs \ {Own(p)}
  /\ Goto(p, IF Pkg(p) \in Binary THEN AfterScratch(p) ELSE "wipeSrc")
  /\ UNCHANGED <<files, manifest, scratchVars, distrVars, left, faults>>

(* .s and .b are removed and created anew; create_directories reports      *)
(* false when the directory is there already.                              *)
RemoveSource(p) ==
  /\ At(p, "wipeSrc") /\ Goto(p, "mkSrc")
  /\ srcDir' = Absent
  /\ UNCHANGED <<prefixVars, bldDir, makefile, inBld, distrVars, left, faults>>

CreateSource(p) ==
  /\ At(p, "mkSrc")
  /\ \/ srcDir = Absent /\ srcDir' = {} /\ Goto(p, "wipeBld") /\ UNCHANGED left
     \/ srcDir # Absent /\ Abort(p) /\ UNCHANGED srcDir
  /\ UNCHANGED <<prefixVars, bldDir, makefile, inBld, distrVars, faults>>

(* Mutated form of RemoveBuild: an existing .b is used as it is.           *)
ReuseBuild(p) ==
  /\ At(p, "wipeBld")
  /\ Goto(p, IF bldDir = Absent THEN "mkBld" ELSE AfterScratch(p))
  /\ UNCHANGED <<home, left, faults>>

RemoveBuild(p) ==
  /\ At(p, "wipeBld") /\ Goto(p, "mkBld")
  /\ bldDir' = Absent /\ makefile' = None /\ inBld' = {}
  /\ UNCHANGED <<prefixVars, srcDir, distrVars, left, faults>>

CreateBuild(p) ==
  /\ At(p, "mkBld")
  /\ \/ bldDir = Absent /\ bldDir' = {} /\ Goto(p, AfterScratch(p)) /\ UNCHANGED left
     \/ bldDir # Absent /\ Abort(p) /\ UNCHANGED bldDir
  /\ UNCHANGED <<prefixVars, srcDir, makefile, inBld, distrVars, faults>>

CreateInstallDir(p) ==
  /\ At(p, "mkdir")
  /\ \/ /\ Own(p) \notin dirs /\ dirs' = dirs \cup {Own(p)}
        /\ Goto(p, "deps") /\ UNCHANGED left
     \/ Own(p) \in dirs /\ Abort(p) /\ UNCHANGED dirs
  /\ UNCHANGED <<files, manifest, scratchVars, distrVars, faults>>

-----------------------------------------------------------------------------
Dependencies(p) == DEPENDS[Pkg(p)]
NextDependency(s) ==
  [s EXCEPT ![Len(s)] = [pkg |-> s[Len(s)].pkg, dep |-> s[Len(s)].dep + 1]]

(* The recursive call for the next word of DEPENDS.                        *)
InstallDependency(p) ==
  /\ At(p, "deps") /\ Top(p).dep <= Len(Dependencies(p))
  /\ Dependencies(p)[Top(p).dep] \in Packages
  /\ stack' = [stack EXCEPT ![p] =
                 Append(NextDependency(stack[p]),
                        [pkg |-> Dependencies(p)[Top(p).dep], dep |-> 1])]
  /\ pc' = [pc EXCEPT ![p] = "verify"]
  /\ UNCHANGED <<home, todo, outcome, exit, left, faults>>

UnknownDependency(p) ==
  /\ At(p, "deps") /\ Top(p).dep <= Len(Dependencies(p))
  /\ Dependencies(p)[Top(p).dep] \notin Packages
  /\ Abort(p)
  /\ UNCHANGED <<home, faults>>

(* Mutated form of DependenciesInstalled: the last dependency is left out. *)
DependenciesOneShort(p) ==
  /\ At(p, "deps") /\ Top(p).dep >= Len(Dependencies(p))
  /\ Goto(p, "download")
  /\ UNCHANGED <<home, left, faults>>

DependenciesInstalled(p) ==
  /\ At(p, "deps") /\ Top(p).dep > Len(Dependencies(p))
  /\ Goto(p, "download")
  /\ UNCHANGED <<home, left, faults>>

(* The shell that reads DEPENDS fails: the dependencies are left out and   *)
(* the installation goes on.                                               *)
SkipDependencies(p) ==
  /\ Unnoticed(p, "deps") /\ Top(p).dep = 1 /\ Dependencies(p) # <<>>
  /\ Goto(p, "download")
  /\ UNCHANGED <<home, left>>

-----------------------------------------------------------------------------
(* build.log is created in the prefix, which a nested source package does  *)
(* not have.                                                               *)
OpenLog(p) ==
  /\ At(p, "log")
  /\ \/ Own(p) \in dirs /\ Goto(p, "configure") /\ UNCHANGED left
     \/ Own(p) \notin dirs /\ Abort(p)
  /\ UNCHANGED <<home, faults>>

(* The recipe's build(): configure, make and make install in the one .b    *)
(* that all invocations share (gmp, libsodium; openssl does it in its own  *)
(* tree in .s).  The build files name the sources and the prefix of the    *)
(* package that was configured last, and make goes by them, whoever it is  *)
(* that calls it.  (The git recipes, whose tree is .s itself, do not       *)
(* configure in a tree of each other.)                                     *)
Sources(q) == IF srcDir = Absent THEN {} ELSE {t \in srcDir : t.pkg = q}
Objects(x) == IF bldDir = Absent THEN {} ELSE {o \in bldDir : o.pkg = x[1] /\ o.bt = x[2]}

(* What make has or makes for the prefix x.                                *)
Makes(x) == Objects(x) \cup
  {[pkg |-> x[1], rev |-> t.rev, bt |-> x[2]] : t \in Sources(x[1])}

(* The build enters .b.  configure overwrites the build files of another   *)
(* package; CMake refuses.                                                 *)
Configure(p) ==
  /\ At(p, "configure")
  /\ \/ /\ bldDir # Absent /\ Sources(Pkg(p)) # {}
        /\ makefile' = Own(p) /\ inBld' = inBld \cup {p}
        /\ Goto(p, "make") /\ UNCHANGED left
     \/ /\ bldDir = Absent \/ Sources(Pkg(p)) = {} \/ makefile \notin {None, Own(p)}
        /\ Abort(p) /\ UNCHANGED <<makefile, inBld>>
  /\ UNCHANGED <<prefixVars, srcDir, bldDir, distrVars, faults>>

(* make finds no build files when .b has been removed under it, even if    *)
(* there is a new one, and may miss sources that have been removed.        *)
MakeFails(p) ==
  /\ pc[p] \in {"make", "install"}
  /\ p \in inBld => Sources(makefile[1]) = {}
  /\ Abort(p)
  /\ UNCHANGED <<home, faults>>

Make(p) ==
  /\ At(p, "make") /\ p \in inBld
  /\ \E o \in Makes(makefile) : bldDir' = bldDir \cup {o}
  /\ Goto(p, "install")
  /\ UNCHANGED <<prefixVars, srcDir, makefile, inBld, distrVars, left, faults>>

(* make install first makes what is missing.                               *)
MakeInstall(p) ==
  /\ At(p, "install") /\ p \in inBld
  /\ \E o \in Makes(makefile) :
       /\ bldDir' = bldDir \cup {o}
       /\ left' = [left EXCEPT ![p] = FilesOf[makefile[1]] \X {o}]
  /\ dirs' = dirs \cup {makefile}
  /\ Goto(p, "copying")
  /\ UNCHANGED <<files, manifest, srcDir, makefile, inBld, distrVars, faults>>

(* One file written by tar or by make install, which copies an object to   *)
(* the prefix it was made for.                                             *)
Target(p, l) == IF Pkg(p) \in Binary THEN Dest(p) ELSE <<l[2].pkg, l[2].bt>>

PlaceFile(p) ==
  /\ pc[p] \in {"unpacking", "copying"}
  /\ \E l \in left[p] :
       /\ Target(p, l) \in dirs
       /\ files' = [files EXCEPT ![Target(p, l)][l[1]] = l[2]]
       /\ left' = [left EXCEPT ![p] = @ \ {l}]
  /\ UNCHANGED <<manifest, dirs, scratchVars, distrVars, pc, call, faults>>

(* Another invocation has removed the directory that is copied to.         *)
TargetGone(p) ==
  /\ At(p, "copying") /\ \E l \in left[p] : Target(p, l) \notin dirs
  /\ Abort(p)
  /\ UNCHANGED <<home, faults>>

FilesPlaced(p) ==
  /\ pc[p] \in {"unpacking", "copying"} /\ left[p] = {}
  /\ Goto(p, "manifest")
  /\ TmpRemoved(p)
  /\ UNCHANGED <<prefixVars, scratchVars, distr, left, faults>>

-----------------------------------------------------------------------------
(* The files of a dependency are listed in the manifest of the root call.  *)
AfterManifest(p) == IF Pkg(p) \in Binary THEN "returned" ELSE "cleanSrc"
Finish(p, l) ==
  /\ pc' = [pc EXCEPT ![p] = l]
  /\ outcome' = [outcome EXCEPT ![p] = IF l = "returned" THEN "built" ELSE @]
  /\ UNCHANGED <<stack, todo, exit>>

OpenManifest(p) ==
  /\ At(p, "manifest")
  /\ \/ Nested(p) /\ Finish(p, AfterManifest(p)) /\ UNCHANGED <<manifest, left>>
     \/ /\ ~Nested(p) /\ Own(p) \in dirs
        /\ manifest' = [manifest EXCEPT ![Own(p)] = {}]
        /\ left' = [left EXCEPT ![p] =
             {<<f, files[Own(p)][f]>> :
                f \in {g \in Files : files[Own(p)][g] # None}}]
        /\ Goto(p, "lines")
     \/ ~Nested(p) /\ Own(p) \notin dirs /\ Abort(p) /\ UNCHANGED manifest
  /\ UNCHANGED <<files, dirs, scratchVars, distrVars, faults>>

(* A line reaches the disk, unless the file has been unlinked meanwhile.   *)
WriteLine(p) ==
  /\ At(p, "lines")
  /\ \E l \in left[p] :
       /\ manifest' = [manifest EXCEPT ![Own(p)] =
                         IF @ = Absent THEN Absent ELSE @ \cup {l}]
       /\ left' = [left EXCEPT ![p] = @ \ {l}]
  /\ UNCHANGED <<files, dirs, scratchVars, distrVars, pc, call, faults>>

CloseManifest(p) ==
  /\ At(p, "lines") /\ left[p] = {}
  /\ Finish(p, AfterManifest(p))
  /\ UNCHANGED <<home, left, faults>>

(* fprintf or fclose fails (disk full), which nobody looks at.             *)
LoseTail(p) ==
  /\ Unnoticed(p, "lines") /\ left[p] # {}
  /\ left' = [left EXCEPT ![p] = {}]
  /\ Finish(p, AfterManifest(p))
  /\ UNCHANGED home

CleanSource(p) ==
  /\ At(p, "cleanSrc") /\ Goto(p, "cleanBld")
  /\ srcDir' = Absent
  /\ UNCHANGED <<prefixVars, bldDir, makefile, inBld, distrVars, left, faults>>

CleanBuild(p) ==
  /\ At(p, "cleanBld") /\ Finish(p, "returned")
  /\ bldDir' = Absent /\ makefile' = None /\ inBld' = {}
  /\ UNCHANGED <<prefixVars, srcDir, distrVars, left, faults>>

(* Mutated form of Return: the loop over the build types runs once more.   *)
ReturnLate(p) ==
  /\ At(p, "returned") /\ ~Nested(p)
  /\ stack' = [stack EXCEPT ![p] = <<[pkg |-> Root(p), dep |-> 1]>>]
  /\ todo' = [todo EXCEPT ![p] = Tail(@)]
  /\ outcome' = [outcome EXCEPT ![p] = "none"]
  /\ pc' = [pc EXCEPT ![p] = "verify"]
  /\ UNCHANGED <<home, exit, left, faults>>

(* install returns true: to the loop over DEPENDS, or to the loop of main  *)
(* over the build types.                                                   *)
Return(p) ==
  /\ At(p, "returned")
  /\ \/ /\ Nested(p)
        /\ stack' = [stack EXCEPT ![p] = SubSeq(@, 1, Len(@) - 1)]
        /\ outcome' = [outcome EXCEPT ![p] = "none"]
        /\ pc' = [pc EXCEPT ![p] = "deps"]
        /\ UNCHANGED <<todo, exit, left>>
     \/ /\ ~Nested(p) /\ Len(todo[p]) > 1
        /\ stack' = [stack EXCEPT ![p] = <<[pkg |-> Root(p), dep |-> 1]>>]
        /\ todo' = [todo EXCEPT ![p] = Tail(@)]
        /\ outcome' = [outcome EXCEPT ![p] = "none"]
        /\ pc' = [pc EXCEPT ![p] = "verify"]
        /\ UNCHANGED <<exit, left>>
     \/ ~Nested(p) /\ Len(todo[p]) = 1 /\ End(p, "ok")
  /\ UNCHANGED <<home, faults>>

-----------------------------------------------------------------------------
(* Mutated form of Fails: a failed make install is not noticed.            *)
FailsUnnoticed(p) ==
  /\ pc[p] \in FailPoints /\ Fault
  /\ \/ At(p, "copying") /\ Goto(p, "manifest") /\ left' = [left EXCEPT ![p] = {}]
     \/ ~At(p, "copying") /\ Abort(p)
  /\ IF pc[p] \in {"unzstding", "untar", "unpacking"} THEN TmpRemoved(p)
                                                      ELSE UNCHANGED tmp
  /\ UNCHANGED <<prefixVars, scratchVars, distr>>

(* A call of the code fails: install returns false and leaves what it has  *)
(* done in place, but for the decompressed archive.                        *)
Fails(p) ==
  /\ pc[p] \in FailPoints /\ Fault /\ Abort(p)
  /\ IF pc[p] \in {"unzstding", "untar", "unpacking"} THEN TmpRemoved(p)
                                                      ELSE UNCHANGED tmp
  /\ UNCHANGED <<prefixVars, scratchVars, distr>>

(* The invocation is killed, or the machine stops.  The manifest is the    *)
(* one file written through a stdio buffer: its last line may be torn.     *)
Crash(p) ==
  /\ pc[p] \in CrashPoints /\ Fault /\ End(p, "crashed")
  /\ \/ UNCHANGED manifest
     \/ /\ At(p, "lines") /\ manifest[Own(p)] # Absent
        /\ \E l \in left[p] :
             manifest' = [manifest EXCEPT ![Own(p)] = @ \cup {<<l[1], Torn>>}]
  /\ UNCHANGED <<files, dirs, scratchVars, distrVars>>

(* While nothing runs an installed file is damaged or deleted.             *)
Rot(x, f) ==
  /\ \A p \in Procs : At(p, "idle")
  /\ files[x][f] # None /\ Fault
  /\ \E c \in {None, Garbage} : files' = [files EXCEPT ![x][f] = c]
  /\ UNCHANGED <<manifest, dirs, scratchVars, distrVars, pc, call, left>>

-----------------------------------------------------------------------------
InstallStep(p) ==
  \/ AlreadyInstalled(p) \/ NeedInstall(p)
  \/ RemoveEntry(p) \/ RemovePrefix(p)
  \/ RemoveSource(p) \/ CreateSource(p) \/ RemoveBuild(p) \/ CreateBuild(p)
  \/ CreateInstallDir(p)
  \/ InstallDependency(p) \/ UnknownDependency(p) \/ DependenciesInstalled(p)
  \/ OpenLog(p) \/ Configure(p) \/ Make(p) \/ MakeInstall(p) \/ MakeFails(p)
  \/ PlaceFile(p) \/ TargetGone(p) \/ FilesPlaced(p)
  \/ OpenManifest(p) \/ WriteLine(p) \/ CloseManifest(p)
  \/ CleanSource(p) \/ CleanBuild(p) \/ Return(p)

InstallFault(p) == SkipDependencies(p) \/ LoseTail(p) \/ Fails(p) \/ Crash(p)

Step(p) == DownloadStep(p) \/ InstallStep(p)

Next ==
  \/ \E p \in Procs :
       \/ \E pkg \in Requests[p] : Invoke(p, pkg)
       \/ Step(p) \/ DownloadFault(p) \/ InstallFault(p)
  \/ \E x \in Prefixes, f \in Rotting : Rot(x, f)

(* A running process is scheduled, and whoever wants a package asks for it *)
(* again; the faults of the environment are never forced.                  *)
Fairness ==
  \A p \in Procs : /\ WF_vars(Step(p))
                   /\ \A pkg \in Requests[p] : SF_vars(Invoke(p, pkg))

Spec     == Init /\ [][Next]_vars
FairSpec == Spec /\ Fairness

-----------------------------------------------------------------------------
(* Whatever a URL is called and whatever the cache or the server held: the *)
(* unpacker is only run on an archive with the hash of this very recipe    *)
(* (downloadPackageFiles, hash checks at main.cpp:343 and 364).            *)
UnpackVerified == \A p \in Procs : At(p, "untar") => TarInput(p) = Pkg(p)

(* A build starts from nothing but its own sources: no tree or object of   *)
(* an earlier, aborted or killed installation is left in .s or .b.         *)
BuildIsolated ==
  \A p \in Procs : At(p, "configure") =>
    /\ bldDir = {} /\ makefile = None
    /\ srcDir # Absent /\ \A t \in srcDir : t.pkg = Pkg(p)

(* The lines a manifest must have before a later invocation may trust it.  *)
PackageLines(pkg, b) == FilesOf[pkg] \X {Wanted(pkg, b)}
Needs(pkg) == {pkg} \cup {DEPENDS[pkg][i] : i \in 1..Len(DEPENDS[pkg])}

(* manifest.txt is the commit record: once it is written it lists every    *)
(* file of the package and of the packages it depends on, each with the    *)
(* right hash, through all later kills, failures and reinstallations.      *)
CommitsWhole ==
  \A x \in Prefixes :
    manifest[x] # Absent /\ (\A p \in Procs : At(p, "lines") => Own(p) # x) =>
      \A q \in Needs(x[1]) : PackageLines(q, x[2]) \subseteq manifest[x]

(* When install reports success after a build or a full verification, every *)
(* file of the package and of its dependencies is in place with the right  *)
(* content.                                                                *)
SuccessMeansComplete ==
  \A p \in Procs :
    At(p, "returned") /\ ~Nested(p) /\ outcome[p] \in {"built", "verified"} =>
      \A q \in Needs(Pkg(p)) : \A l \in PackageLines(q, Own(p)[2]) :
         files[Own(p)][l[1]] = l[2]

(* An installation that would pass the check for already installed is not  *)
(* destroyed by any installation, failed or not (main.cpp:488).            *)
Intact(x) ==
  /\ manifest[x] # Absent
  /\ PackageLines(x[1], x[2]) \subseteq manifest[x]
  /\ \A l \in manifest[x] : files[x][l[1]] = l[2]
IntactKept == [][\A x \in Prefixes : Intact(x) => Intact(x)']_vars

(* A package that gets as far as its build has a prefix to log into and to *)
(* install into, nested or not (main.cpp:565, Install depends).            *)
BuildHasPrefix == \A p \in Procs : At(p, "log") => Own(p) \in dirs

(* Whatever earlier invocations left behind (partial prefixes, manifests,  *)
(* archives, tmp files, scratch directories), asking for a package again   *)
(* and again succeeds again and again once the faults are over.            *)
Recovers ==
  \A p \in Procs : \A pkg \in Requests[p] :
    []<>(At(p, "returned") /\ ~Nested(p) /\ Pkg(p) = pkg /\ Len(todo[p]) = 1)
=============================================================================
