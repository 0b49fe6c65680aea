--------------------------------- MODULE Main ---------------------------------
(***************************************************************************)
(* main of src/main.cpp from the command line to its exit status: the      *)
(* options, the checks at startup, the list of packages, the inspection of *)
(* the package that is asked for, and the modes --package-list,            *)
(* --search-path and --install.  The search for compilers, the mapping of  *)
(* build types, install and cmakeExport succeed or fail here; modules      *)
(* Toolchain, Msvc, Export and Install are about them.                     *)
(* A string is the sequence of the pieces the program tells apart.         *)
(***************************************************************************)
EXTENDS Getopt, StringSplitter, FiniteSets

CONSTANTS
  Scenarios   \* command lines and the worlds they are given in

(* A variable of a recipe is a line: echo puts the words of its value,     *)
(* which is not quoted, behind each other.                                 *)
Assigned == {"defaultVersion", "packageType", "langs"}
Texts    == {"metaPrints", "recipePrints"} \cup Assigned
ASSUME ScenarioAssumption ==
  /\ {"NL", "@", ","} \subseteq Chars /\ None \notin Seq(Chars)
  /\ \A s \in Scenarios :
       /\ s.args \in Seq(Elements) /\ s.world.posix \in BOOLEAN
       /\ s.world.sysname \in Seq(Chars) \cup {None}
       /\ s.world.machine \in Seq(Chars) \cup {None}
       /\ \A t \in Texts : s.world[t] \in Seq(Chars)
       /\ \A t \in Assigned : \A i \in 1..Len(s.world[t]) : s.world[t][i] # "NL"
       /\ s.world.manifest # None =>
            s.world.manifest \in Seq([path : Seq(STRING) \ {None}, wellFormed : BOOLEAN])

(* A world: how cxx-pm was started, what exists on the disk, what uname    *)
(* and the recipe print.  None as a text: the child cannot be run.         *)
VARIABLES
  world,
  pc,         \* "next", "options", ...: the part of main that is running
  settings,   \* the local variables that one option sets
  mode, extraPackageDirs, compilers,
  host,       \* HostSystemName, HostSystemProcessor
  packages,   \* Path and ExtraPath of each package
  line,       \* the one line a child should print
  variables,  \* what loadVariables has read
  package,    \* Version, BuildFile, IsBinary, Languages of the package
  toDo,       \* build types left to install, or lines of the manifest read
  result,     \* of searchPath
  exit, printed

local    == <<mode, extraPackageDirs, compilers, host, packages, line, variables,
              package, toDo, result, printed>>
mainVars == <<world, pc, settings, local, exit>>
vars     == <<mainVars, getoptVars, splitVars>>

Option(name, hasArg, val) == [name |-> name, hasArg |-> hasArg, val |-> val]
cmdLineOpts == <<
  Option(<<"compiler">>, TRUE, "Compiler"),
  Option(<<"compiler", "-flags">>, TRUE, "CompilerFlags"),
  Option(<<"compiler", "-definitions">>, TRUE, "CompilerDefinitions"),
  Option(<<"use-flags">>, TRUE, "UseFlags"),
  Option(<<"system-", "name">>, TRUE, "SystemName"),
  Option(<<"system-", "processor">>, TRUE, "SystemProcessor"),
  Option(<<"build-type">>, TRUE, "BuildType"),
  Option(<<"build-type", "-mapping">>, TRUE, "BuildTypeMapping"),
  Option(<<"vs-install-dir">>, TRUE, "VSInstallDir"),
  Option(<<"vc-toolset">>, TRUE, "VCToolset"),
  Option(<<"sys-root">>, TRUE, "SysRoot"),
  Option(<<"help">>, FALSE, "Help"),
  Option(<<"package-", "list">>, FALSE, "PackageList"),
  Option(<<"search-path">>, TRUE, "SearchPath"),
  Option(<<"search-path", "-type">>, TRUE, "SearchPathType"),
  Option(<<"install">>, TRUE, "Install"),
  Option(<<"export-cmake">>, TRUE, "ExportCMake"),
  Option(<<"ver", "sion">>, FALSE, "Version"),
  Option(<<"package-", "root">>, TRUE, "PackageRoot"),
  Option(<<"package-", "extra-dir">>, TRUE, "PackageExtraDirectory"),
  Option(<<"file">>, TRUE, "File"),
  Option(<<"ver", "bose">>, FALSE, "Verbose") >>

(* The options that set one variable, and the mode each mode option asks   *)
(* for.  --help, --sys-root and --use-flags have no case in the switch.    *)
Plain   == {"SystemName", "SystemProcessor", "BuildType", "BuildTypeMapping",
            "VSInstallDir", "VCToolset", "ExportCMake", "PackageRoot", "File"}
Modes   == {"PackageList", "SearchPath", "Install"}
Ignored == {"Help", "SysRoot", "UseFlags"}
Defaults ==
  [v \in Plain \cup {"SearchPathType", "Package", "Verbose"} |->
     CASE v = "BuildType" -> <<"Release">>
       [] v = "SearchPathType" -> <<"native">>
       [] v = "BuildTypeMapping" -> <<"Debug", ":", "Debug", ";", "*", ":", "Release">>
       [] OTHER -> <<>>]
Languages == {"C", "C++"}
NoPackage == [Version |-> <<>>, BuildFile |-> None, IsBinary |-> FALSE,
              Languages |-> <<>>]

Init ==
  /\ \E s \in Scenarios :
       /\ GetoptInit(s.args, s.world.posix) /\ world = s.world
  /\ text = <<>> /\ delimiters = {} /\ p = 0 /\ last = 0
  /\ endReached = FALSE /\ phase = "ready" /\ tokens = <<>>
  /\ pc = "next" /\ settings = Defaults /\ mode = "NoMode"
  /\ extraPackageDirs = <<>> /\ compilers = [l \in Languages |-> <<>>]
  /\ host = <<>> /\ packages = <<>> /\ line = None /\ variables = <<>>
  /\ package = NoPackage /\ toDo = 0 /\ result = None
  /\ exit = None /\ printed = None

(* The places of the items of a text.                                      *)
Items(t, ds) ==
  {r \in (0..Len(t)) \X (0..Len(t)) : PieceOf(t, ds, r[1], r[2])}

Goto(l) == pc' = l /\ UNCHANGED exit
Exit(status) == pc' = "done" /\ exit' = status

-----------------------------------------------------------------------------
(* The loop over the options.                                              *)
CallGetopt ==
  /\ pc = "next" /\ Call /\ Goto("options")
  /\ UNCHANGED <<world, settings, local, splitVars>>
GetoptRuns ==
  /\ pc = "options" /\ GetoptStep
  /\ UNCHANGED <<mainVars, splitVars>>
Returned(val) == pc = "options" /\ at = "caller" /\ ret = val

(* Mutated form of Set: an option given again is ignored.                  *)
SetOnce ==
  /\ pc = "options" /\ at = "caller" /\ ret \in Plain /\ Goto("next")
  /\ settings' = [settings EXCEPT ![ret] = IF @ = Defaults[ret] THEN optarg ELSE @]
  /\ UNCHANGED <<world, local, getoptVars, splitVars>>

Set ==
  /\ \E v \in Plain : Returned(v)
  /\ settings' = [settings EXCEPT ![ret] = optarg]
  /\ Goto("next")
  /\ UNCHANGED <<world, local, getoptVars, splitVars>>

Ignore ==
  /\ \E v \in Ignored : Returned(v)
  /\ Goto("next")
  /\ UNCHANGED <<world, settings, local, getoptVars, splitVars>>

SetVerbose ==
  /\ Returned("Verbose") /\ Goto("next")
  /\ settings' = [settings EXCEPT !.Verbose = <<"true">>]
  /\ UNCHANGED <<world, local, getoptVars, splitVars>>

SetPathType ==
  /\ Returned("SearchPathType")
  /\ IF optarg \in {<<"native">>, <<"posix">>, <<"cmake">>}
       THEN settings' = [settings EXCEPT !.SearchPathType = optarg] /\ Goto("next")
       ELSE Exit(1) /\ UNCHANGED settings
  /\ UNCHANGED <<world, local, getoptVars, splitVars>>

AddExtraDirectory ==
  /\ Returned("PackageExtraDirectory") /\ Goto("next")
  /\ extraPackageDirs' = Append(extraPackageDirs, optarg)
  /\ UNCHANGED <<world, settings, mode, compilers, host, packages, line, variables,
                 package, toDo, result, printed, getoptVars, splitVars>>

(* One mode only; an option that names a package sets packageName.         *)
SetMode ==
  /\ \E v \in Modes : Returned(v)
  /\ IF mode = "NoMode"
       THEN /\ mode' = ret /\ Goto("next")
            /\ settings' = IF ret = "PackageList" THEN settings
                           ELSE [settings EXCEPT !.Package = optarg]
       ELSE Exit(1) /\ UNCHANGED <<mode, settings>>
  /\ UNCHANGED <<world, extraPackageDirs, compilers, host, packages, line, variables,
                 package, toDo, result, printed, getoptVars, splitVars>>

(* parseCompilerOption: <language>:<command>; flags and definitions are    *)
(* refused when they are well formed, and when they are not.               *)
Colon(s) == {i \in 2..Len(s) : s[i] = ":" /\ \A j \in 1..(i - 1) : s[j] # ":"}
SetCompiler ==
  /\ Returned("Compiler")
  /\ IF \E i \in Colon(optarg) : i = 2 /\ optarg[1] \in Languages
       THEN /\ compilers' = [compilers EXCEPT ![optarg[1]] =
                               SubSeq(optarg, 3, Len(optarg))]
            /\ Goto("next")
       ELSE Exit(1) /\ UNCHANGED compilers
  /\ UNCHANGED <<world, settings, mode, extraPackageDirs, host, packages, line,
                 variables, package, toDo, result, printed, getoptVars, splitVars>>

LeaveAtOnce ==
  /\ \/ Returned("Version") /\ Exit(0)
     \/ \E v \in {"?", "CompilerFlags", "CompilerDefinitions"} : Returned(v) /\ Exit(1)
  /\ UNCHANGED <<world, settings, local, getoptVars, splitVars>>

OptionsDone ==
  /\ Returned("end") /\ Goto("paths")
  /\ UNCHANGED <<world, settings, local, getoptVars, splitVars>>

Options ==
  \/ CallGetopt \/ GetoptRuns \/ Set \/ Ignore \/ SetVerbose \/ SetPathType
  \/ AddExtraDirectory \/ SetMode \/ SetCompiler \/ LeaveAtOnce \/ OptionsDone

-----------------------------------------------------------------------------
(* Startup.  whereami takes argv[0] as a path, or looks through PATH from  *)
(* its end.                                                                *)
WhereAmI ==
  LET dirs == IF world.argv0.dir # None THEN <<world.argv0.dir>> ELSE world.PATH
      with == {i \in 1..Len(dirs) : dirs[i] \in world.argv0.in}
  IN IF with = {} THEN None ELSE dirs[CHOOSE i \in with : \A j \in with : j <= i]
sysRoot == IF settings.PackageRoot = <<>> THEN <<"home", "self">> ELSE settings.PackageRoot

CheckPaths ==
  /\ pc = "paths"
  /\ IF WhereAmI # None /\ sysRoot \in world.roots /\ sysRoot \in world.withPackages
       THEN Goto("uname -s") ELSE Exit(1)
  /\ UNCHANGED <<world, settings, local, getoptVars, splitVars>>

(* A child that should print one line: uname, or the shell that echoes     *)
(* DEFAULT_VERSION of meta.build.  It may fail to run.                     *)
OneLine == {"uname -s", "uname -m", "version"}
Echo(l) ==
  CASE l = "uname -s" -> world.sysname
    [] l = "uname -m" -> world.machine
    [] l = "version"  -> world.metaPrints \o world.defaultVersion \o <<"NL">>

RunOneLine ==
  /\ pc \in OneLine /\ delimiters = {}
  /\ \/ Echo(pc) # None /\ Split(Echo(pc), {"NL"}) /\ UNCHANGED <<pc, exit>>
     \/ Exit(1) /\ UNCHANGED splitVars
  /\ UNCHANGED <<world, settings, local, getoptVars>>

(* The shell that prints the variables of the build file, each with an @   *)
(* behind it; and the list of languages, cut at its commas.                *)
BuildEcho ==
  world.recipePrints \o world.packageType \o <<"@", "NL">>
                     \o world.langs \o <<"@", "NL">>
RunBuildFile ==
  /\ pc = "variables" /\ delimiters = {}
  /\ \/ Split(BuildEcho, {"NL"}) /\ UNCHANGED <<pc, exit>>
     \/ Exit(1) /\ UNCHANGED splitVars
  /\ UNCHANGED <<world, settings, local, getoptVars>>

Splitting == pc \in OneLine \cup {"variables", "languages"} /\ delimiters # {}
SplitRuns ==
  /\ Splitting /\ SplitStep
  /\ UNCHANGED <<mainVars, getoptVars>>

(* The splitter goes out of scope.                                         *)
Closed == Split(<<>>, {})

(* Mutated form of FirstLine: further lines are read over.                *)
FirstLineOnly ==
  /\ pc \in OneLine /\ Splitting /\ phase = "token" /\ Get
  /\ line' = IF line = None THEN Piece(<<last, p>>) ELSE line
  /\ UNCHANGED <<pc, exit>>
  /\ UNCHANGED <<world, settings, mode, extraPackageDirs, compilers, host, packages,
                 variables, package, toDo, result, printed, getoptVars>>

(* A second line is an error.                                              *)
FirstLine ==
  /\ pc \in OneLine /\ Splitting /\ phase = "token"
  /\ \/ /\ line = None /\ Get /\ line' = Piece(<<last, p>>)
        /\ UNCHANGED <<pc, exit>>
     \/ line # None /\ Exit(1) /\ UNCHANGED <<splitVars, line>>
  /\ UNCHANGED <<world, settings, mode, extraPackageDirs, compilers, host, packages,
                 variables, package, toDo, result, printed, getoptVars>>

Line == IF line = None THEN <<>> ELSE line
Normalize(processor) ==
  CASE processor \in {<<"arm64">>, <<"ARM64">>} -> <<"aarch64">>
    [] processor \in {<<"AMD64">>, <<"x64">>}   -> <<"x86_64">>
    [] processor \in {<<"i386">>, <<"i686">>}   -> <<"x86">>
    [] OTHER -> processor

HostDetected ==
  /\ pc \in {"uname -s", "uname -m"} /\ Splitting /\ phase = "over"
  /\ Closed /\ line' = None
  /\ host' = Append(host, IF pc = "uname -s" THEN Line ELSE Normalize(Line))
  /\ IF pc = "uname -s" THEN Goto("uname -m")
     ELSE IF host[1] # <<>> /\ Line # <<>> THEN Goto("mapping") ELSE Exit(1)
  /\ UNCHANGED <<world, settings, mode, extraPackageDirs, compilers, packages,
                 variables, package, toDo, result, printed, getoptVars>>

(* The configurations --build-type lists, mapped or not (malformed         *)
(* mapping); then the directories of cxx-pm.                               *)
BuildTypes == Cardinality(Items(settings.BuildType, {";"}))
MapBuildTypes ==
  /\ pc = "mapping"
  /\ Goto("packages") \/ Exit(1)
  /\ UNCHANGED <<world, settings, local, getoptVars, splitVars>>

(* All packages; each extra directory adds the directories below sysRoot   *)
(* once more, and may not be given twice.                                  *)
LoadPackages ==
  /\ pc = "packages" /\ Goto("extra") /\ toDo' = 1
  /\ packages' = [n \in world.folders |-> [Path |-> sysRoot, ExtraPath |-> <<>>]]
  /\ UNCHANGED <<world, settings, mode, extraPackageDirs, compilers, host, line,
                 variables, package, result, printed, getoptVars, splitVars>>

LoadExtra ==
  /\ pc = "extra" /\ toDo <= Len(extraPackageDirs)
  /\ IF \E i \in 1..(toDo - 1) : extraPackageDirs[i] = extraPackageDirs[toDo]
       THEN Exit(1) /\ UNCHANGED <<packages, toDo>>
       ELSE /\ packages' = [n \in DOMAIN packages |->
                 [packages[n] EXCEPT !.ExtraPath = Append(@, sysRoot)]]
            /\ toDo' = toDo + 1 /\ UNCHANGED <<pc, exit>>
  /\ UNCHANGED <<world, settings, mode, extraPackageDirs, compilers, host, line,
                 variables, package, result, printed, getoptVars, splitVars>>

Startup ==
  \/ CheckPaths \/ RunOneLine \/ SplitRuns \/ FirstLine \/ HostDetected
  \/ MapBuildTypes \/ LoadPackages \/ LoadExtra

-----------------------------------------------------------------------------
(* The modes.  --package-list does nothing.                                *)
SelectMode ==
  /\ pc = "extra" /\ toDo > Len(extraPackageDirs)
  /\ CASE mode = "NoMode" -> Exit(1)
       [] mode = "PackageList" -> Exit(0)
       [] mode = "SearchPath" ->
            IF BuildTypes = 1 /\ settings.Package \in DOMAIN packages
            THEN Goto("version") ELSE Exit(1)
       [] mode = "Install" ->
            IF settings.Package \in DOMAIN packages THEN Goto("version") ELSE Exit(1)
  /\ UNCHANGED <<world, settings, local, getoptVars, splitVars>>

(* packageQueryVersion: the requested version, which is empty, gives way   *)
(* to the line that was read, if there was one.                            *)
VersionRead ==
  /\ pc = "version" /\ Splitting /\ phase = "over"
  /\ Closed /\ line' = None
  /\ package' = [package EXCEPT !.Version = Line]
  /\ Goto("locate")
  /\ UNCHANGED <<world, settings, mode, extraPackageDirs, compilers, host, packages,
                 variables, toDo, result, printed, getoptVars>>

(* locatePackageBuildFile: in Path, then in each ExtraPath.                *)
Locate ==
  LET known == packages[settings.Package]
      dirs  == <<known.Path>> \o known.ExtraPath
      with  == {i \in 1..Len(dirs) : <<dirs[i], settings.Package, package.Version>>
                                       \in world.builds}
  IN /\ pc = "locate"
     /\ IF with = {} THEN Exit(1) /\ UNCHANGED package
        ELSE /\ package' = [package EXCEPT !.BuildFile =
                               dirs[CHOOSE i \in with : \A j \in with : i <= j]]
             /\ Goto("variables")
     /\ UNCHANGED <<world, settings, mode, extraPackageDirs, compilers, host, packages,
                    line, variables, toDo, result, printed, getoptVars, splitVars>>

(* A line that ends with @ is a variable, others are read over.            *)
VariableLine ==
  /\ pc = "variables" /\ Splitting /\ Get
  /\ LET v == Piece(<<last, p>>) IN
       variables' = IF v[Len(v)] = "@" THEN Append(variables, SubSeq(v, 1, Len(v) - 1))
                    ELSE variables
  /\ UNCHANGED <<world, pc, settings, mode, extraPackageDirs, compilers, host, packages,
                 line, package, toDo, result, exit, printed, getoptVars>>

VariablesRead ==
  /\ pc = "variables" /\ Splitting /\ phase = "over"
  /\ CASE Len(variables) # 2 -> Exit(1) /\ UNCHANGED <<package, splitVars>>
       [] Len(variables) = 2 /\ variables[1] = <<"binary">> ->
            /\ package' = [package EXCEPT !.IsBinary = TRUE]
            /\ Closed /\ Goto("compilers")
       [] Len(variables) = 2 /\ variables[1] = <<"source">> ->
            Split(variables[2], {","}) /\ Goto("languages") /\ UNCHANGED package
       [] OTHER -> Exit(1) /\ UNCHANGED <<package, splitVars>>
  /\ UNCHANGED <<world, settings, mode, extraPackageDirs, compilers, host, packages,
                 line, variables, toDo, result, printed, getoptVars>>

AddLanguage ==
  /\ pc = "languages" /\ Splitting /\ Get
  /\ LET lang == Piece(<<last, p>>) IN
       IF \E l \in Languages : lang = <<l>>
       THEN /\ package' = [package EXCEPT !.Languages = Append(@, lang)]
            /\ UNCHANGED <<pc, exit>>
       ELSE Exit(1) /\ UNCHANGED package
  /\ UNCHANGED <<world, settings, mode, extraPackageDirs, compilers, host, packages,
                 line, variables, toDo, result, printed, getoptVars>>

LanguagesRead ==
  /\ pc = "languages" /\ Splitting /\ phase = "over"
  /\ IF package.Languages = <<>> THEN Exit(1) ELSE Goto("compilers")
  /\ Closed
  /\ UNCHANGED <<world, settings, local, getoptVars>>

SearchCompilers ==
  /\ pc = "compilers"
  /\ \/ Goto(mode) /\ toDo' = IF mode = "Install" THEN BuildTypes ELSE 1
     \/ Exit(1) /\ UNCHANGED toDo
  /\ UNCHANGED <<world, settings, mode, extraPackageDirs, compilers, host, packages,
                 line, variables, package, result, printed, getoptVars, splitVars>>

Inspect ==
  \/ SelectMode \/ VersionRead \/ Locate \/ RunBuildFile \/ VariableLine
  \/ VariablesRead \/ AddLanguage \/ LanguagesRead \/ SearchCompilers

-----------------------------------------------------------------------------
(* --search-path: the prefix, or the one file whose path ends so.          *)
EndsWith(path) == IsSuffix(settings.File, path)

PrintPrefix ==
  /\ pc = "SearchPath" /\ settings.File = <<>>
  /\ printed' = [path |-> <<"prefix">>, as |-> settings.SearchPathType] /\ Exit(0)
  /\ UNCHANGED <<world, settings, mode, extraPackageDirs, compilers, host, packages,
                 line, variables, package, toDo, result, getoptVars, splitVars>>

(* Mutated form of ManifestLine: the search ends with the first match.     *)
ManifestLineFirst ==
  /\ pc = "SearchPath" /\ settings.File # <<>> /\ world.manifest # None
  /\ toDo <= Len(world.manifest)
  /\ LET l == world.manifest[toDo] IN
       IF l.wellFormed
       THEN /\ result' = IF EndsWith(l.path) /\ result = None THEN l.path ELSE result
            /\ toDo' = toDo + 1 /\ UNCHANGED <<pc, exit>>
       ELSE Exit(1) /\ UNCHANGED <<result, toDo>>
  /\ UNCHANGED <<world, settings, mode, extraPackageDirs, compilers, host, packages,
                 line, variables, package, printed, getoptVars, splitVars>>

ManifestLine ==
  /\ pc = "SearchPath" /\ settings.File # <<>> /\ world.manifest # None
  /\ toDo <= Len(world.manifest)
  /\ LET l == world.manifest[toDo] IN
       IF l.wellFormed /\ ~(EndsWith(l.path) /\ result # None)
       THEN /\ result' = IF EndsWith(l.path) THEN l.path ELSE result
            /\ toDo' = toDo + 1 /\ UNCHANGED <<pc, exit>>
       ELSE Exit(1) /\ UNCHANGED <<result, toDo>>
  /\ UNCHANGED <<world, settings, mode, extraPackageDirs, compilers, host, packages,
                 line, variables, package, printed, getoptVars, splitVars>>

PrintFile ==
  /\ pc = "SearchPath" /\ settings.File # <<>>
  /\ \/ /\ world.manifest # None /\ toDo > Len(world.manifest) /\ result # None
        /\ printed' = [path |-> result, as |-> settings.SearchPathType] /\ Exit(0)
     \/ /\ world.manifest # None /\ toDo > Len(world.manifest) /\ result = None
        /\ Exit(1) /\ UNCHANGED printed
     \/ world.manifest = None /\ Exit(1) /\ UNCHANGED printed
  /\ UNCHANGED <<world, settings, mode, extraPackageDirs, compilers, host, packages,
                 line, variables, package, toDo, result, getoptVars, splitVars>>

(* --install: each build type once (as many as are listed, or fewer if two *)
(* are mapped to the same), then the export.                               *)
InstallOne ==
  /\ pc = "Install" /\ toDo > 0
  /\ \/ \E n \in (IF toDo = BuildTypes THEN 0..(toDo - 1) ELSE {toDo - 1}) : toDo' = n
                /\ UNCHANGED <<pc, exit>>
     \/ Exit(1) /\ UNCHANGED toDo
  /\ UNCHANGED <<world, settings, mode, extraPackageDirs, compilers, host, packages,
                 line, variables, package, result, printed, getoptVars, splitVars>>

InstallEnds ==
  /\ pc = "Install" /\ toDo = 0
  /\ Exit(0) \/ (settings.ExportCMake # <<>> /\ Exit(1))
  /\ UNCHANGED <<world, settings, local, getoptVars, splitVars>>

RunMode == PrintPrefix \/ ManifestLine \/ PrintFile \/ InstallOne \/ InstallEnds

Next == Options \/ Startup \/ Inspect \/ RunMode
Spec == Init /\ [][Next]_vars
FairSpec == Spec /\ WF_vars(Next)

-----------------------------------------------------------------------------
(* What the first n results of getopt_long ask for: each variable has the  *)
(* value given last, there is at most one mode, it is the one asked for,   *)
(* with its package, and every extra directory is there in its place.      *)
Given(whole, n, S) == {i \in 1..n : whole[i][1] \in S}
LastOf(whole, n, v) ==
  IF Given(whole, n, {v}) = {} THEN Defaults[v]
  ELSE whole[CHOOSE i \in Given(whole, n, {v}) : \A j \in Given(whole, n, {v}) : j <= i][2]

SetBy(whole, n) ==
  /\ \A v \in Plain \cup {"SearchPathType"} : settings[v] = LastOf(whole, n, v)
  /\ settings.Verbose # <<>> <=> Given(whole, n, {"Verbose"}) # {}
  /\ \A i, j \in Given(whole, n, Modes) : i = j
  /\ mode = "NoMode" <=> Given(whole, n, Modes) = {}
  /\ \A i \in Given(whole, n, Modes) :
       /\ mode = whole[i][1]
       /\ mode \in {"SearchPath", "Install"} => settings.Package = whole[i][2]
  /\ LET extra == Given(whole, n, {"PackageExtraDirectory"}) IN
       /\ Len(extraPackageDirs) = Cardinality(extra)
       /\ \A i \in extra :
            extraPackageDirs[Cardinality({j \in extra : j <= i})] = whole[i][2]

(* However the command line is abbreviated, repeated and mixed with other  *)
(* words: when the options are done the variables of main are what its     *)
(* options, read one by one, ask for (main.cpp:724-821).                   *)
SettingsAsGiven ==
  pc = "paths" => SetBy(Reading.results, Len(Reading.results))

(* seq are the items of the text t, all of them and in their order.        *)
AreItems(seq, t, ds) ==
  /\ Len(seq) = Cardinality(Items(t, ds))
  /\ \A r \in Items(t, ds) :
       seq[Cardinality({q \in Items(t, ds) : q[1] <= r[1]})] = SubSeq(t, r[1] + 1, r[2])

(* What an inspection that succeeds has found is what the recipe assigns   *)
(* to its variables, whatever lines the recipe prints besides              *)
(* (loadSingleVariable and loadVariables, main.cpp:104-161), and what the  *)
(* host is is the one line that each uname prints (os.cpp:53-140).         *)
InspectedAsAssigned ==
  pc \in {"compilers", "SearchPath", "Install"} =>
    /\ world.defaultVersion # <<>> => package.Version = world.defaultVersion
    /\ package.IsBinary = (world.packageType = <<"binary">>)
    /\ ~package.IsBinary => AreItems(package.Languages, world.langs, {","})
    /\ AreItems(<<host[1]>>, world.sysname, {"NL"})
    /\ \E r \in Items(world.machine, {"NL"}) :
         LET processor == SubSeq(world.machine, r[1] + 1, r[2]) IN
           AreItems(<<processor>>, world.machine, {"NL"}) /\ host[2] = Normalize(processor)

(* A path that --search-path --file prints is the only one of the package  *)
(* that ends so, in a manifest without a broken line (searchPath).         *)
PrintsTheOneFile ==
  printed # None /\ settings.File # <<>> =>
    /\ \A i \in 1..Len(world.manifest) : world.manifest[i].wellFormed
    /\ \A i \in 1..Len(world.manifest) :
         IsSuffix(settings.File, world.manifest[i].path) <=> world.manifest[i].path = printed.path

(* Every invocation comes to its exit status.                              *)
Exits == <>(pc = "done")
=============================================================================
