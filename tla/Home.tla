-------------------------------- MODULE Home --------------------------------
(***************************************************************************)
(* The state cxx-pm works on: the home directory ~/.cxxpm, shared by every *)
(* invocation and guarded by no lock, and the control state of the         *)
(* invocations themselves (each one is a single thread that walks through  *)
(* main, install and downloadPackageFiles).  Module Download holds the     *)
(* steps of downloadPackageFiles, module Install those of install and of   *)
(* the install mode of main.                                               *)
(***************************************************************************)
EXTENDS Integers, Sequences

CONSTANTS
  Procs,          \* invocations of cxx-pm that may run at the same time
  Packages,       \* directories of <sysRoot>/packages
  Names,          \* names a DEPENDS variable may hold: packages and others
  Binary,         \* packages with PACKAGE_TYPE="binary"
  Git,            \* packages with TYPE="git" (the others have TYPE="archive")
  Pinned,         \* git source packages with a COMMIT (not read for binaries)
  Zst,            \* packages whose URL ends with .tar.zst
  Archives,       \* last components of the URLs: file names in distr/
  ArchiveOf,      \* the file name a package's URL ends with
  DEPENDS,        \* the names a package depends on, in order
  BuildTypes,     \* build types after --build-type-mapping
  BuildRequests,  \* sequences of build types uniqueBuildTypes may return
  Files,          \* relative paths below install/
  FilesOf,        \* the files a package is made of
  Requests,       \* what an invocation may be asked to install
  Rotting,        \* files that may be damaged while nothing runs (bound)
  CrashPoints,    \* labels at which a kill or a power cut is tried (bound)
  FailPoints,     \* labels whose system call or child may fail (bound)
  Unchecked,      \* labels at which a failure the code ignores is tried (bound)
  MaxFaults,      \* how many faults one behaviour may have (bound)
  None, Garbage, Torn

(***************************************************************************)
(* Where an invocation is.  A label stands for the call about to be made.  *)
(***************************************************************************)
Labels == {"idle", "verify", "wipe", "wipeSrc", "mkSrc", "wipeBld", "mkBld",
           "mkdir", "deps", "download", "wget", "wgetting", "hash", "unzstd",
           "unzstding", "untar", "unpacking", "reset", "log", "configure",
           "make", "install", "copying", "manifest", "lines", "cleanSrc",
           "cleanBld", "returned"}

(* The calls whose failure makes install return false; for verify it is    *)
(* that of loadVariables, before anything else.  The writes of the         *)
(* manifest are not checked; a failing git reset is reported and ignored.  *)
Fallible == {"verify", "wipe", "wipeSrc", "mkSrc", "wipeBld", "mkBld", "mkdir", "deps",
             "download", "wgetting", "unzstding", "untar", "unpacking", "log",
             "configure", "make", "copying", "manifest", "cleanSrc", "cleanBld"}

ASSUME HomeAssumption ==
  /\ Packages \subseteq Names
  /\ Binary \subseteq Packages
  /\ Git \subseteq Packages
  /\ Pinned \subseteq Git \ Binary
  /\ Zst \subseteq Packages \ Git
  /\ ArchiveOf \in [Packages -> Archives]
  /\ DEPENDS \in [Packages -> Seq(Names)]
  /\ \A b \in BuildRequests : b \in Seq(BuildTypes) /\ b # <<>>
  /\ "any" \notin BuildTypes
  /\ FilesOf \in [Packages -> SUBSET Files]
  /\ Requests \in [Procs -> SUBSET Packages]
  /\ CrashPoints \subseteq Labels \ {"idle"}
  /\ FailPoints \subseteq Fallible
  /\ Unchecked \subseteq {"wgetting", "deps", "reset", "lines"}
  /\ MaxFaults \in Nat
  /\ None \notin Packages /\ Garbage \notin Packages /\ None # Garbage

VARIABLES
  files,      \* install directory of every prefix: content of each file
  manifest,   \* manifest.txt of every prefix: its lines, or Absent
  dirs,       \* prefixes whose install directory exists
  srcDir,     \* ~/.cxxpm/.s: the source trees in it, or Absent
  bldDir,     \* ~/.cxxpm/.b: the objects built in it, or Absent
  makefile,   \* the prefix that the build files in .b install to, or None
  inBld,      \* invocations whose build works in .b as it is now
  distr,      \* ~/.cxxpm/distr: whose archive a file holds
  tmp,        \* ~/.cxxpm/distr/tmp-*: the decompressed .zst archives
  pc,         \* label of each invocation
  stack,      \* activations of install, the root call first
  todo,       \* build types left to install, the current one first
  left,       \* what the running loop has still to write, as manifest lines
  outcome,    \* how the activation on top came to return true
  exit,       \* exit status of the last invocation
  faults      \* faults so far

prefixVars  == <<files, manifest, dirs>>
scratchVars == <<srcDir, bldDir, makefile, inBld>>
distrVars   == <<distr, tmp>>
home        == <<prefixVars, scratchVars, distrVars>>
call        == <<stack, todo, outcome, exit>>
vars        == <<home, pc, call, left, faults>>

-----------------------------------------------------------------------------
(***************************************************************************)
(* Data.  What a file contains is told by what made it: the package, the   *)
(* revision of its source and the build type.  The SHA3 hash of a file is  *)
(* identified with its content.  A source tree is at the revision the      *)
(* recipe asks for or, before git reset, at the tip of the branch.         *)
(***************************************************************************)
Revisions == {"requested", "tip"}
Tree      == [pkg : Packages, rev : Revisions]
Object    == [pkg : Packages, rev : Revisions, bt : BuildTypes \cup {"any"}]
Content   == Object \cup {Garbage, Torn}
Line      == Files \X Content
Frame     == [pkg : Packages, dep : Nat \ {0}]

(* packagePrefix: a binary package has one prefix for all build types.     *)
Prefixes         == Packages \X (BuildTypes \cup {"any"})
PrefixOf(pkg, b) == <<pkg, IF pkg \in Binary THEN "any" ELSE b>>

(* What is not there is told from every content, prefix and tree, and a    *)
(* damaged file from every built one.                                      *)
ASSUME NoneAssumption ==
  /\ None \notin Content \cup Prefixes \cup Tree \cup Line
  /\ Garbage \notin Object

(* A directory or a manifest that does not exist, unlike an empty one.     *)
Absent == {None}

(* What a correct installation of a package writes into each of its files. *)
Wanted(pkg, b) == [pkg |-> pkg, rev |-> "requested",
                   bt |-> IF pkg \in Binary THEN "any" ELSE b]

Top(p)     == stack[p][Len(stack[p])]
Pkg(p)     == Top(p).pkg
Root(p)    == stack[p][1].pkg
Nested(p)  == Len(stack[p]) > 1
Own(p)     == PrefixOf(Pkg(p), Head(todo[p]))    \* package.Prefix
Dest(p)    == PrefixOf(Root(p), Head(todo[p]))   \* prefix of installDir
Archive(p) == ArchiveOf[Pkg(p)]

HomeOK ==
  /\ files \in [Prefixes -> [Files -> Content \cup {None}]]
  /\ manifest \in [Prefixes -> (SUBSET Line) \cup {Absent}]
  /\ dirs \subseteq Prefixes
  /\ srcDir \in (SUBSET Tree) \cup {Absent}
  /\ bldDir \in (SUBSET Object) \cup {Absent}
  /\ makefile \in Prefixes \cup {None}
  /\ inBld \subseteq Procs
  /\ inBld # {} => bldDir \in SUBSET Object /\ makefile \in Prefixes
  /\ distr \in [Archives -> Packages \cup {None, Garbage}]
  /\ tmp \in [Archives -> Packages \cup {None, Garbage}]

CallOK ==
  /\ pc \in [Procs -> Labels]
  /\ stack \in [Procs -> Seq(Frame)]
  /\ todo \in [Procs -> Seq(BuildTypes)]
  /\ \A p \in Procs : pc[p] # "idle" => stack[p] # <<>> /\ todo[p] # <<>>
  /\ outcome \in [Procs -> {"none", "verified", "sampled", "built"}]
  /\ exit \in [Procs -> {"none", "ok", "failed", "crashed"}]

(* Every variable has its type, and an invocation that runs is inside a    *)
(* call of install for some build type.                                    *)
TypeOK ==
  /\ HomeOK
  /\ CallOK
  /\ left \in [Procs -> SUBSET Line]
  /\ faults \in 0..MaxFaults

-----------------------------------------------------------------------------
(* An empty home directory and no invocation running.                      *)
Init ==
  /\ files = [x \in Prefixes |-> [f \in Files |-> None]]
  /\ manifest = [x \in Prefixes |-> Absent]
  /\ dirs = {}
  /\ srcDir = Absent
  /\ bldDir = Absent
  /\ makefile = None
  /\ inBld = {}
  /\ distr = [a \in Archives |-> None]
  /\ tmp = [a \in Archives |-> None]
  /\ pc = [p \in Procs |-> "idle"]
  /\ stack = [p \in Procs |-> <<>>]
  /\ todo = [p \in Procs |-> <<>>]
  /\ left = [p \in Procs |-> {}]
  /\ outcome = [p \in Procs |-> "none"]
  /\ exit = [p \in Procs |-> "none"]
  /\ faults = 0

At(p, l)   == pc[p] = l
Goto(p, l) == pc' = [pc EXCEPT ![p] = l] /\ UNCHANGED call

(* The invocation ends: every activation of install returns and main gives *)
(* its exit status.                                                        *)
End(p, status) ==
  /\ pc' = [pc EXCEPT ![p] = "idle"]
  /\ exit' = [exit EXCEPT ![p] = status]
  /\ stack' = [stack EXCEPT ![p] = <<>>]
  /\ todo' = [todo EXCEPT ![p] = <<>>]
  /\ outcome' = [outcome EXCEPT ![p] = "none"]
  /\ left' = [left EXCEPT ![p] = {}]

(* Mutated form of Abort: main does not look at what install returns.      *)
AbortUnseen(p) == End(p, "ok")

(* install returns false: so do its callers, and main returns 1.           *)
Abort(p) == End(p, "failed")

Fault == faults < MaxFaults /\ faults' = faults + 1

(* A failure at label l that goes unnoticed there.                         *)
Unnoticed(p, l) == At(p, l) /\ l \in Unchecked /\ Fault
=============================================================================
