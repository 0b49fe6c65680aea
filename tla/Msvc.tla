--------------------------------- MODULE Msvc ---------------------------------
(***************************************************************************)
(* Windows: the search for executables (PathCache of src/exec.cpp), the    *)
(* environment of the process that main and loadMSVCSettings change under  *)
(* it, and the detection of Visual Studio compilers that depends on both   *)
(* (compilers/msvc.cpp, searchCompilers).  GNU compilers, whose detection  *)
(* module Toolchain models, only answer or do not.                         *)
(* A directory is a sequence of names; the one that holds a cl.exe is      *)
(* <<Visual Studio, processor it builds for>>.                             *)
(***************************************************************************)
EXTENDS Integers, Sequences

CONSTANTS
  Worlds,    \* environments cxx-pm is started in, and what the disk holds
  LongPath,  \* entries a PATH must have to be longer than 1023 characters
  None

(* What cxx-pm does not change: PATH, preinit and prompt are the           *)
(* environment it starts in; VCInstallDir and given the command line.      *)
VARIABLES
  world,
  PATH,       \* the environment variable, a sequence of directories
  preinit,    \* __VSCMD_PREINIT_PATH, or None
  prompt,     \* Visual Studio whose INCLUDE, LIB, VSINSTALLDIR and
              \* VCToolsVersion are set, or None
  AllPath, Cache,        \* of gPathCache
  compilers,  \* CCompilerInfo of each language
  package,    \* index of the package: those after the first are depends
  lang,       \* index of the loop over its languages
  named,      \* a command stood in the description of the language
  toolset,    \* VSToolSetVersion: the Visual Studio it belongs to
  pc, exit

environment == <<PATH, preinit, prompt>>
pathCache   == <<AllPath, Cache>>
vars == <<world, environment, pathCache, compilers, package, lang, named, toolset, pc, exit>>

Bundle     == <<"msys2">>
Languages  == {"C", "C++"}
\* A command is the directory it was found in, or None, and its name.
Relative(name) == <<None, name>>
Unknown(command) == [Command |-> command, Id |-> None, SubType |-> "", arch |-> None]
GNUName    == [l \in Languages |-> IF l = "C" THEN "gcc" ELSE "g++"]
ClangName  == [l \in Languages |-> IF l = "C" THEN "clang" ELSE "clang++"]

Directory == Seq(STRING)
Names     == {"cl", "gcc", "g++", "clang", "clang++"} \cup
             {w.given[l] : w \in Worlds, l \in Languages}
Commands  == (Directory \cup {None}) \X Names
ASSUME WorldAssumption ==
  /\ LongPath \in Nat /\ Bundle \in Directory
  /\ None \notin Directory \cup Seq(Directory) \cup Commands
  /\ \A w \in Worlds :
       /\ w.PATH \in Seq(Directory) /\ w.preinit \in Seq(Directory) \cup {None}
       /\ w.VCInstallDir # None => <<w.VCInstallDir, w.target>> \in Directory
       /\ w.packages \in Seq(Seq(Languages)) \ {<<>>}
       /\ w.banner \in {"known", "translated", "silent"}

Init ==
  /\ world \in Worlds
  /\ PATH = world.PATH /\ preinit = world.preinit /\ prompt = world.prompt
  /\ AllPath = PATH /\ Cache = <<>>
  /\ compilers = [l \in Languages |->
                    Unknown(IF world.given[l] = None THEN None ELSE Relative(world.given[l]))]
  /\ package = 1 /\ lang = 1 /\ named = FALSE /\ toolset = None
  /\ pc = "bundle" /\ exit = None

Goto(l) == pc' = l /\ UNCHANGED exit
Exit(status) == pc' = "done" /\ exit' = status

-----------------------------------------------------------------------------
(* Mutated form of UpdatePath: the new PATH is not read.                   *)
UpdateNothing == UNCHANGED AllPath

(* PathCache::update, called whenever PATH was set: what is cached stays.  *)
UpdatePath == AllPath' = PATH'

With(path, name) == {i \in 1..Len(path) : <<path[i], name>> \in world.programs}

(* Mutated form of Search: the first directory of PATH, as a shell does.   *)
SearchFirst(path, name) ==
  IF With(path, name) = {} THEN None
  ELSE path[CHOOSE i \in With(path, name) : \A j \in With(path, name) : i <= j]

(* PathCache::get goes through the directories from the last to the first. *)
Search(path, name) ==
  IF With(path, name) = {} THEN None
  ELSE path[CHOOSE i \in With(path, name) : \A j \in With(path, name) : j <= i]

Lookup(name) == IF name \in DOMAIN Cache THEN Cache[name] ELSE Search(AllPath, name)
Remember(name) ==
  Cache' = IF Lookup(name) = None THEN Cache
           ELSE [n \in DOMAIN Cache \cup {name} |-> Lookup(n)]

-----------------------------------------------------------------------------
(* main: the msys2 bundle is found, goes behind PATH and runs the recipe.  *)
AddBundle ==
  /\ pc = "bundle"
  /\ IF world.bundle
       THEN PATH' = Append(PATH, Bundle) /\ UpdatePath /\ Goto("inspect")
       ELSE Exit(1) /\ UNCHANGED <<PATH, AllPath>>
  /\ UNCHANGED <<world, preinit, prompt, Cache, compilers, package, lang, named, toolset>>

Inspect ==
  /\ pc = "inspect" /\ Remember("bash")
  /\ \/ Lookup("bash") # None /\ Goto("language")
     \/ Exit(1)
  /\ UNCHANGED <<world, environment, AllPath, compilers, package, lang, named, toolset>>

(* The loop over the languages of searchCompilers.                         *)
Langs == world.packages[package]
Searching == lang <= Len(Langs)
Lang == Langs[lang]
Info == compilers[Lang]
SetInfo(info) == compilers' = [compilers EXCEPT ![Lang] = info]

NextLanguage ==
  /\ pc = "language" /\ Searching
  /\ \/ Info.Id # None /\ lang' = lang + 1 /\ UNCHANGED <<named, pc, exit>>
     \/ Info.Id = None /\ named' = (Info.Command # None) /\ Goto("msvc") /\ UNCHANGED lang
  /\ UNCHANGED <<world, environment, pathCache, compilers, package, toolset>>

(* loadMSVCSettings, case 1: a Visual Studio is given.                     *)
Processors == {"x86", "x86_64", "aarch64"}
vcvarsPlatform == world.host \in Processors /\ world.target \in Processors

CheckVcvars ==
  /\ pc = "msvc" /\ world.VCInstallDir # None
  /\ Goto(IF world.vcvars # "missing" /\ vcvarsPlatform THEN "restore" ELSE "noMsvc")
  /\ UNCHANGED <<world, environment, pathCache, compilers, package, lang, named, toolset>>

(* Mutated form of RestorePath: PATH is taken as it is.                    *)
KeepPath ==
  /\ pc = "restore" /\ Goto("vcvars")
  /\ UNCHANGED <<world, environment, pathCache, compilers, package, lang, named, toolset>>

(* The PATH of before the developer prompt, with the bundle behind it      *)
(* unless it is a long one.                                                *)
RestorePath ==
  /\ pc = "restore" /\ Goto("vcvars")
  /\ \/ preinit = None /\ UNCHANGED <<PATH, AllPath>>
     \/ /\ preinit # None /\ Len(preinit) >= LongPath
        /\ PATH' = preinit /\ UpdatePath
     \/ /\ preinit # None /\ Len(preinit) < LongPath
        /\ PATH' = Append(preinit, Bundle) /\ UpdatePath
  /\ UNCHANGED <<world, preinit, prompt, Cache, compilers, package, lang, named, toolset>>

(* cmd.exe runs vcvarsall.bat (external): it puts the directory of cl in   *)
(* front of PATH, remembers the PATH it found if none is remembered, and   *)
(* sets the other variables; or it sets nothing; or cmd.exe fails.         *)
RunVcvars ==
  /\ pc = "vcvars" /\ Remember("cmd")
  /\ \/ /\ Lookup("cmd") # None /\ world.vcvars = "works"
        /\ PATH' = <<<<world.VCInstallDir, world.target>>>> \o PATH
        /\ preinit' = IF preinit = None THEN PATH ELSE preinit
        /\ prompt' = world.VCInstallDir
        /\ UpdatePath /\ Goto("initialized")
     \/ /\ Lookup("cmd") # None /\ world.vcvars = "breaks"
        /\ PATH' = PATH /\ UNCHANGED <<preinit, prompt>>
        /\ UpdatePath /\ Goto("initialized")
     \/ /\ Lookup("cmd") = None \/ world.vcvars = "fails"
        /\ Goto("noMsvc") /\ UNCHANGED <<environment, AllPath>>
  /\ UNCHANGED <<world, compilers, package, lang, named, toolset>>

(* Case 2 starts here: a developer prompt.  Case 3: nothing.               *)
Initialized ==
  /\ pc = "initialized" \/ (pc = "msvc" /\ world.VCInstallDir = None)
  /\ Goto(IF prompt # None THEN "cl" ELSE "noMsvc")
  /\ UNCHANGED <<world, environment, pathCache, compilers, package, lang, named, toolset>>

(* loadClExecutableSettings: cl is run.  Its banner is read for version    *)
(* and processor; one in another language is accepted without them.        *)
Cl(dir, id, arch) ==
  [Command |-> <<dir, "cl">>, Id |-> id, SubType |-> "msvc", arch |-> arch]
LoadCl ==
  /\ pc = "cl" /\ Remember("cl")
  /\ LET dir == Lookup("cl") IN
       CASE dir = None ->
              SetInfo([Info EXCEPT !.Command = Relative("cl")]) /\ Goto("noMsvc")
         [] dir # None /\ world.banner = "silent" ->
              SetInfo([Info EXCEPT !.Command = <<dir, "cl">>]) /\ Goto("noMsvc")
         [] dir # None /\ world.banner = "known" ->
              SetInfo(Cl(dir, <<"cl", dir>>, dir[2])) /\ Goto("msvcFound")
         [] dir # None /\ world.banner = "translated" ->
              SetInfo(Cl(dir, None, None)) /\ Goto("msvcFound")
  /\ UNCHANGED <<world, environment, AllPath, package, lang, named, toolset>>

(* Mutated form of MsvcFound: the compiler of the user gives way.          *)
MsvcPreferred ==
  /\ pc = "msvcFound" /\ Goto("language") /\ lang' = lang + 1
  /\ UNCHANGED <<world, environment, pathCache, compilers, package, named, toolset>>

(* A command is not replaced by Visual Studio's compiler, whether the user *)
(* gave it or an earlier search that accepted a banner it could not read.  *)
MsvcFound ==
  /\ pc = "msvcFound"
  /\ \/ named /\ Exit(1) /\ UNCHANGED lang
     \/ ~named /\ Goto("language") /\ lang' = lang + 1
  /\ UNCHANGED <<world, environment, pathCache, compilers, package, named, toolset>>

(* Without Visual Studio: the command of the user, or gcc, then clang.     *)
NoMsvc ==
  /\ pc = "noMsvc" /\ Goto(IF named THEN "named" ELSE "gcc")
  /\ UNCHANGED <<world, environment, pathCache, compilers, package, lang, named, toolset>>

Gnu(name, dir) == [Command |-> <<dir, name>>, Id |-> <<name, dir>>,
                   SubType |-> "mingw-w64", arch |-> world.target]
GnuCommand ==
  CASE pc = "named" -> Info.Command
    [] pc = "gcc"   -> Relative(GNUName[Lang])
    [] pc = "clang" -> Relative(ClangName[Lang])

(* loadGNUSettings: the full path takes the place of the command, also     *)
(* when nothing was found.  A cl that printed nothing is tried, in vain.   *)
LoadGNU ==
  /\ pc \in {"named", "gcc", "clang"}
  /\ LET absolute == GnuCommand[1] # None
         name == GnuCommand[2]
         dir  == IF absolute THEN GnuCommand[1] ELSE Lookup(name)
     IN /\ IF absolute THEN UNCHANGED Cache ELSE Remember(name)
        /\ \/ /\ dir # None /\ name # "cl"
              /\ SetInfo(Gnu(name, dir)) /\ lang' = lang + 1 /\ Goto("language")
           \/ /\ dir = None \/ name = "cl"
              /\ SetInfo([Info EXCEPT !.Command = IF dir = None THEN None ELSE <<dir, name>>])
              /\ UNCHANGED lang
              /\ IF pc = "gcc" THEN Goto("clang") ELSE Exit(1)
  /\ UNCHANGED <<world, environment, AllPath, package, named, toolset>>

-----------------------------------------------------------------------------
(* All compilers together: target, one subtype, one cl; then               *)
(* msvcLookupVersion, whose VCToolsVersion may have another format, or     *)
(* windres, which may be missing.                                          *)
Used(p) == {world.packages[p][i] : i \in 1..Len(world.packages[p])}
IsMsvc(l) == compilers[l].SubType = "msvc"
Accepted ==
  /\ \A l \in Used(package) : compilers[l].arch \in {None, world.target}
  /\ \A l, m \in Used(package) : compilers[l].SubType = compilers[m].SubType
  /\ \A l, m \in Languages :
       compilers[l].Id # None /\ compilers[m].Id # None /\ IsMsvc(l) =>
         compilers[l].Command = compilers[m].Command

(* A package that depends on another has that one inspected and its        *)
(* compilers searched before any archive is unpacked (main.cpp:583-586).   *)
CheckTogether ==
  /\ pc = "language" /\ ~Searching
  /\ \/ /\ Accepted
        /\ toolset' = IF \E l \in Used(package) : IsMsvc(l) THEN prompt ELSE toolset
        /\ \/ package < Len(world.packages) /\ package' = package + 1 /\ lang' = 1 /\ Goto("inspect")
           \/ package = Len(world.packages) /\ UNCHANGED <<package, lang>> /\ Goto("download")
     \/ Exit(1) /\ UNCHANGED <<toolset, package, lang>>
  /\ UNCHANGED <<world, environment, pathCache, compilers, named>>

(* downloadPackageFiles: the first tool that no earlier step has run.      *)
Download ==
  /\ pc = "download" /\ Remember("tar")
  /\ Exit(IF Lookup("tar") # None THEN 0 ELSE 1)
  /\ UNCHANGED <<world, environment, AllPath, compilers, package, lang, named, toolset>>

Next ==
  \/ AddBundle \/ Inspect \/ NextLanguage
  \/ CheckVcvars \/ RestorePath \/ RunVcvars \/ Initialized \/ LoadCl
  \/ MsvcFound \/ NoMsvc \/ LoadGNU \/ CheckTogether \/ Download

Spec == Init /\ [][Next]_vars

-----------------------------------------------------------------------------
(* A developer prompt leaves the PATH it found short enough to be read     *)
(* into the buffer of loadMSVCSettings.                                    *)
ShortPath == world.preinit = None \/ Len(world.preinit) < LongPath

(* The tools that recipes and cxx-pm use are those of the bundle, not      *)
(* those of Windows with the same names, whatever the search for a         *)
(* compiler has done to PATH in between (main.cpp:839, msvc.cpp:123).      *)
ToolsOfBundle ==
  ShortPath => \A name \in DOMAIN Cache \cap {"bash", "tar"} : Cache[name] = Bundle

(* The cache outlives changes of PATH and yet no command is run from where *)
(* a search of the present PATH would not find it (exec.cpp:48).           *)
Sought ==
  CASE pc = "inspect"  -> {"bash"}
    [] pc = "vcvars"   -> {"cmd"}
    [] pc = "cl"       -> {"cl"}
    [] pc \in {"named", "gcc", "clang"} /\ GnuCommand[1] = None -> {GnuCommand[2]}
    [] pc = "download" -> {"tar"}
    [] OTHER           -> {}
CacheFresh == ShortPath => \A name \in Sought : Lookup(name) = Search(PATH, name)

(* Builds that use Visual Studio use one: the same cl for all languages,   *)
(* of the installation the command line names or else the developer        *)
(* prompt, and the toolset of that very installation, which names the      *)
(* generator of CMake (msvc.cpp:103-231, common.cpp:199-213).              *)
OneInstallation ==
  pc = "download" /\ toolset # None =>
    /\ toolset = IF world.VCInstallDir # None THEN world.VCInstallDir ELSE world.prompt
    /\ \A p \in 1..Len(world.packages) : \A l \in Used(p) : compilers[l].Command[1][1] = toolset

(* A search that succeeds has detected the compiler the user asked for in  *)
(* every language he named one for (common.cpp:129-144).                   *)
NamedCompilerUsed ==
  pc = "download" =>
    \A p \in 1..Len(world.packages) : \A l \in Used(p) :
      world.given[l] # None => compilers[l].Command[2] = world.given[l]
=============================================================================
