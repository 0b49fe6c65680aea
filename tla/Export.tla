-------------------------------- MODULE Export --------------------------------
(***************************************************************************)
(* What an invocation with --install, --build-type and --export-cmake does *)
(* around the installation itself: it maps the configurations of the build *)
(* system to build types (doBuildTypeMapping), installs each build type    *)
(* once (uniqueBuildTypes), asks the recipe for its artifacts in every     *)
(* configuration, merges the answers and writes a CMake file that imports  *)
(* them (cmakeExport), which add.cmake includes after exit status 0.       *)
(* The installation of one build type is one step here; it is the subject  *)
(* of module Install.                                                      *)
(***************************************************************************)
EXTENDS Integers, Sequences

CONSTANTS
  Names,      \* configurations and build types
  Requests,   \* sequences of configurations: --build-type split at ';'
  Mappings,   \* sequences of entries: --build-type-mapping split at ';',
              \* an entry being the sequence of its parts split at ':'
  Lists,      \* what the artifacts function of a recipe may print
  Contents,   \* what install/ may hold once a build type is installed
  Outputs,    \* whether the output file can be written (subset of BOOLEAN)
  Targets,    \* whether the target system is Windows (subset of BOOLEAN)
  Old, Overrun, NoArtifact

ASSUME ExportAssumption ==
  /\ \A r \in Requests : r \in Seq(Names)
  /\ "*" \notin Names
  /\ \A m \in Mappings : Len(m) \in Nat /\ \A i \in 1..Len(m) :
       Len(m[i]) = 2 => m[i][1] \in (Names \cup {"*"}) /\ m[i][2] \in Names
  /\ \A l \in Lists : l # NoArtifact => Len(l) \in Nat
  /\ Outputs \subseteq BOOLEAN /\ Targets \subseteq BOOLEAN

VARIABLES
  request, mapping, lists, writable, windows,   \* the input: constant
  pc,         \* parse, install, collect, generate, done
  configs,    \* SystemInfo.BuildType: Name and MappedTo
  n,          \* index of the loop that pc names
  installed,  \* build types that install has returned true for
  content,    \* the files below install/ of each build type
  artifacts,  \* merged artifacts
  libSet,     \* libraries of the first configuration
  file,       \* the output: one group of commands per artifact
  result      \* exit status, or a crash

input == <<request, mapping, lists, writable, windows>>
vars  == <<input, pc, configs, n, installed, content, artifacts, libSet, file, result>>

Init ==
  /\ request \in Requests /\ mapping \in Mappings /\ writable \in Outputs
  /\ windows \in Targets
  /\ lists \in [Names -> Lists]
  /\ pc = "parse" /\ configs = <<>> /\ n = 1
  /\ installed = {} /\ content = [b \in Names |-> {}]
  /\ artifacts = <<>> /\ libSet = {} /\ file = <<Old>> /\ result = "none"

Return(r) == pc' = "done" /\ result' = r

-----------------------------------------------------------------------------
(* Build types.  An entry has two parts; "*" may be mapped only once.      *)
WellFormed(m) ==
  /\ \A i \in 1..Len(m) : Len(m[i]) = 2
  /\ \A i, j \in 1..Len(m) : m[i][1] = "*" /\ m[j][1] = "*" => i = j

(* Mutated form of MappedTo: the parts of an entry are swapped.            *)
MappedFrom(m, cfg) ==
  LET for(x) == {i \in 1..Len(m) : m[i][1] = x}
      first(S) == CHOOSE i \in S : \A j \in S : i <= j
  IN  IF for(cfg) # {} THEN m[first(for(cfg))][1]
      ELSE IF for("*") # {} THEN m[first(for("*"))][1] ELSE cfg

(* The first entry for the configuration, else the default, else itself.   *)
MappedTo(m, cfg) ==
  LET for(x) == {i \in 1..Len(m) : m[i][1] = x}
      first(S) == CHOOSE i \in S : \A j \in S : i <= j
  IN  IF for(cfg) # {} THEN m[first(for(cfg))][2]
      ELSE IF for("*") # {} THEN m[first(for("*"))][2] ELSE cfg

ParseBuildTypes ==
  /\ pc = "parse"
  /\ IF WellFormed(mapping)
       THEN /\ configs' = [i \in 1..Len(request) |->
                  [Name |-> request[i], MappedTo |-> MappedTo(mapping, request[i])]]
            /\ pc' = "install" /\ UNCHANGED result
       ELSE Return("1") /\ UNCHANGED configs
  /\ UNCHANGED <<input, n, installed, content, artifacts, libSet, file>>

(* Mutated form of Unique: what occurs again is left out altogether.       *)
Single(i) == \A j \in 1..Len(configs) : j # i => configs[j].MappedTo # configs[i].MappedTo

(* uniqueBuildTypes keeps the first configuration of each build type.      *)
Unique(i) == \A j \in 1..(i - 1) : configs[j].MappedTo # configs[i].MappedTo

InstallNext ==
  /\ pc = "install" /\ n <= Len(configs) /\ n' = n + 1
  /\ IF Unique(n)
       THEN /\ installed' = installed \cup {configs[n].MappedTo}
            /\ \E c \in Contents : content' = [content EXCEPT ![configs[n].MappedTo] = c]
       ELSE UNCHANGED <<installed, content>>
  /\ UNCHANGED <<input, pc, configs, artifacts, libSet, file, result>>

InstallFails ==
  /\ pc = "install" /\ n <= Len(configs) /\ Unique(n)
  /\ Return("1")
  /\ UNCHANGED <<input, configs, n, installed, content, artifacts, libSet, file>>

(* The output is opened, and emptied, before the recipe is asked; whether  *)
(* that or any write succeeds is not looked at.                            *)
OpenOutput ==
  /\ pc = "install" /\ n > Len(configs)
  /\ pc' = "collect" /\ n' = 1
  /\ file' = IF writable THEN <<>> ELSE file
  /\ UNCHANGED <<input, configs, installed, content, artifacts, libSet, result>>

-----------------------------------------------------------------------------
(* Artifacts.  A printed artifact has at most one path; RelativePaths,     *)
(* DllPaths, ImplibPath and Definitions of a merged one grow together, one *)
(* record "at" per configuration; a libset has none.                       *)
Printed == lists[configs[n].MappedTo]
Libraries == {"static_lib", "shared_lib"}

Loads(a) == a.type # "unknown"

loadFromJson(a) ==
  [type |-> a.type, name |-> a.name, libs |-> IF a.type = "libset" THEN a.libs ELSE <<>>,
   includes |-> a.includes, at |-> IF a.type = "libset" THEN <<>> ELSE <<a.at>>]

Mergeable(a, b) ==
  a.type = b.type /\ a.name = b.name /\ (a.type = "libset" => a.libs = b.libs)

(* Mutated forms of merge: the first path again; no paths of include       *)
(* directories.                                                            *)
MergeFirst(a, b) == IF a.type = "libset" THEN a ELSE [a EXCEPT !.at = Append(@, a.at[1])]
MergeLibraries(a, b) == IF a.type \in Libraries THEN [a EXCEPT !.at = Append(@, b.at)] ELSE a

(* Only the paths of the other configuration are taken over.               *)
merge(a, b) == IF a.type = "libset" THEN a ELSE [a EXCEPT !.at = Append(@, b.at)]

(* The recipe's artifacts function fails, or prints no array.              *)
NoList ==
  /\ pc = "collect" /\ n <= Len(configs) /\ Printed = NoArtifact
  /\ Return("1")
  /\ UNCHANGED <<input, configs, n, installed, content, artifacts, libSet, file>>

FirstList ==
  /\ pc = "collect" /\ n = 1 /\ n <= Len(configs) /\ Printed # NoArtifact
  /\ IF \A k \in 1..Len(Printed) : Loads(Printed[k])
       THEN /\ artifacts' = [k \in 1..Len(Printed) |-> loadFromJson(Printed[k])]
            /\ libSet' = {Printed[k].name : k \in
                 {i \in 1..Len(Printed) : Printed[i].type \in Libraries}}
            /\ n' = n + 1 /\ UNCHANGED <<pc, result>>
       ELSE Return("1") /\ UNCHANGED <<artifacts, libSet, n>>
  /\ UNCHANGED <<input, configs, installed, content, file>>

(* A further configuration may not print more artifacts than the first;    *)
(* that it prints fewer is not noticed.                                    *)
MergeList ==
  /\ pc = "collect" /\ n > 1 /\ n <= Len(configs) /\ Printed # NoArtifact
  /\ IF /\ Len(Printed) <= Len(artifacts)
        /\ \A k \in 1..Len(Printed) :
             Loads(Printed[k]) /\ Mergeable(artifacts[k], loadFromJson(Printed[k]))
       THEN /\ artifacts' = [k \in 1..Len(artifacts) |->
                 IF k <= Len(Printed) THEN merge(artifacts[k], Printed[k]) ELSE artifacts[k]]
            /\ n' = n + 1 /\ UNCHANGED <<pc, result>>
       ELSE Return("1") /\ UNCHANGED <<artifacts, n>>
  /\ UNCHANGED <<input, configs, installed, content, libSet, file>>

Collected ==
  /\ pc = "collect" /\ n > Len(configs)
  /\ pc' = "generate" /\ n' = 1
  /\ UNCHANGED <<input, configs, installed, content, artifacts, libSet, file, result>>

-----------------------------------------------------------------------------
(* The CMake file.                                                         *)
Configurations == 1..Len(configs)
PerConfig(a) == a.type \notin {"libset", "cmake_module"}

(* The file imported for an artifact, and the files that have to exist.    *)
Imported(a, x) == IF a.type = "shared_lib" /\ windows THEN x.dll ELSE x.path
Needed(a, x) ==
  {Imported(a, x)} \cup (IF a.type = "shared_lib" /\ windows THEN {x.implib} ELSE {})

Location(a, i) ==
  IF i <= Len(a.at)
    THEN [config |-> configs[i].Name, prefix |-> configs[i].MappedTo,
          needed |-> Needed(a, a.at[i]), defs |-> a.at[i].defs]
    ELSE Overrun

Linked(a) ==
  {k \in 1..Len(artifacts) : artifacts[k].type = "include" /\
     \E j \in 1..Len(a.includes) : a.includes[j] = artifacts[k].name}

Group(a) ==
  [type |-> a.type, name |-> a.name, libs |-> a.libs,
   at |-> [i \in {j \in Configurations : PerConfig(a) \/ (a.type = "cmake_module" /\ j = 1)}
            |-> Location(a, i)],
   includes |-> [i \in Configurations |->
                   {Location(artifacts[k], i) : k \in IF a.type \in Libraries THEN Linked(a) ELSE {}}]]

(* Mutated form of Missing: include directories are not looked for.        *)
MissingFile(a) ==
  a.type # "include" /\ PerConfig(a) /\ \E i \in Configurations : i <= Len(a.at) /\
    ~(Needed(a, a.at[i]) \subseteq content[configs[i].MappedTo])

Missing(a) ==
  PerConfig(a) /\ \E i \in Configurations : i <= Len(a.at) /\
    ~(Needed(a, a.at[i]) \subseteq content[configs[i].MappedTo])

Dangling(a) ==
  \/ a.type \in Libraries /\ \E j \in 1..Len(a.includes) :
       \A k \in 1..Len(artifacts) :
         ~(artifacts[k].type = "include" /\ artifacts[k].name = a.includes[j])
  \/ a.type = "libset" /\ \E j \in 1..Len(a.libs) : a.libs[j] \notin libSet

(* RelativePaths[i] is read beyond its end: for the artifact itself, or    *)
(* for an include directory it links.                                      *)
ReadsBeyond(a) == PerConfig(a) /\ Len(a.at) < Len(configs)
LinksBeyond(a) == a.type \in Libraries /\ \E k \in Linked(a) : ReadsBeyond(artifacts[k])

Artifact == artifacts[n]
Generating == pc = "generate" /\ n <= Len(artifacts)

(* The group is written.  A path read beyond the end of the vector may be  *)
(* empty, and the directory it then names exists.                          *)
Generate ==
  /\ Generating /\ ~Missing(Artifact) /\ ~Dangling(Artifact)
  /\ file' = IF writable THEN Append(file, Group(Artifact)) ELSE file
  /\ n' = n + 1
  /\ UNCHANGED <<input, pc, configs, installed, content, artifacts, libSet, result>>

GenerateFails ==
  /\ Generating /\ (Missing(Artifact) \/ Dangling(Artifact) \/ ReadsBeyond(Artifact))
  /\ Return("1")
  /\ UNCHANGED <<input, configs, n, installed, content, artifacts, libSet, file>>

(* What it reads there is no string.                                       *)
Crash ==
  /\ Generating /\ ~Missing(Artifact)
  /\ ReadsBeyond(Artifact) \/ (LinksBeyond(Artifact) /\ ~Dangling(Artifact))
  /\ Return("crash")
  /\ UNCHANGED <<input, configs, n, installed, content, artifacts, libSet, file>>

Exported ==
  /\ pc = "generate" /\ n > Len(artifacts)
  /\ Return("0")
  /\ UNCHANGED <<input, configs, n, installed, content, artifacts, libSet, file>>

Next ==
  \/ ParseBuildTypes \/ InstallNext \/ InstallFails \/ OpenOutput
  \/ NoList \/ FirstList \/ MergeList \/ Collected
  \/ Generate \/ GenerateFails \/ Crash \/ Exported

Spec == Init /\ [][Next]_vars

-----------------------------------------------------------------------------
TypeOK ==
  /\ pc \in {"parse", "install", "collect", "generate", "done"}
  /\ configs \in Seq([Name : Names, MappedTo : Names])
  /\ n \in Nat \ {0}
  /\ installed \subseteq Names
  /\ DOMAIN content = Names
  /\ \A k \in 1..Len(artifacts) : Len(artifacts[k].at) <= Len(configs)
  /\ Len(file) <= Len(artifacts) + 1
  /\ result \in {"none", "0", "1", "crash"}

(* A recipe is asked for artifacts, and files are imported, only from      *)
(* build types that have been installed, for every configuration although  *)
(* each build type is installed once (main.cpp:966-985).                   *)
InstalledFirst ==
  pc \in {"collect", "generate"} =>
    \A i \in Configurations : configs[i].MappedTo \in installed

(* What the recipe prints for a configuration, and whether all agree on    *)
(* the number.                                                             *)
PrintedFor(i) == lists[MappedTo(mapping, request[i])]
SameNumber ==
  WellFormed(mapping) => \A i \in 1..Len(request) : PrintedFor(i) # NoArtifact /\ PrintedFor(1) # NoArtifact
                            /\ Len(PrintedFor(i)) = Len(PrintedFor(1))

(* What CMake links or runs: on Windows the DLL and the import library of  *)
(* a shared library, whatever its path is.                                 *)
Promised(w) ==
  IF windows /\ w.type = "shared_lib" THEN {w.at.dll, w.at.implib} ELSE {w.at.path}

(* When the configurations agree on the number, after exit status 0 the    *)
(* file that add.cmake includes holds exactly the artifacts of the recipe, *)
(* in its order, and for every configuration the files and definitions the *)
(* recipe gave for the build type of that configuration, below the prefix  *)
(* of that build type, where they exist (cmake.cpp:118-449).               *)
CompleteExport ==
  result = "0" /\ writable /\ SameNumber =>
    /\ Len(file) = IF request = <<>> THEN 0 ELSE Len(PrintedFor(1))
    /\ \A k \in 1..Len(file), i \in 1..Len(request) :
         LET w == PrintedFor(i)[k]
         IN  /\ file[k].type = w.type /\ file[k].name = w.name
             /\ w.type = "libset" => file[k].libs = w.libs
             /\ PerConfig(w) =>
                  /\ file[k].at[i] = [config |-> request[i],
                        prefix |-> MappedTo(mapping, request[i]),
                        needed |-> Promised(w), defs |-> w.at.defs]
                  /\ Promised(w) \subseteq content[MappedTo(mapping, request[i])]

(* After exit status 0 every include directory a library links exists in   *)
(* every configuration, although only its name is looked up there, and     *)
(* every library a libset names is imported by the same file               *)
(* (cmake.cpp:303-343, 424-432).                                           *)
LinksExist ==
  result = "0" /\ writable /\ SameNumber => \A k \in 1..Len(file) :
    /\ \A i \in DOMAIN file[k].includes : \A l \in file[k].includes[i] :
         l.config = request[i] /\ l.needed \subseteq content[l.prefix]
    /\ file[k].type = "libset" => \A j \in 1..Len(file[k].libs) :
         \E x \in 1..Len(file) : file[x].name = file[k].libs[j] /\ file[x].type \in Libraries

(* When all configurations have the same number of artifacts, no path is   *)
(* read beyond the end of its vector (cmake.cpp:201-445).                  *)
NothingBeyond ==
  SameNumber => /\ result # "crash"
                /\ pc = "generate" => \A k \in 1..Len(artifacts) : ~ReadsBeyond(artifacts[k])

(* Configurations with a different number of artifacts are refused:        *)
(* "confirutations have a different artifacts number, aborting..."         *)
(* (cmake.cpp:182).  Not so when a later one has fewer.                    *)
DifferentNumberAborts == pc = "done" /\ ~SameNumber => result = "1"
=============================================================================
