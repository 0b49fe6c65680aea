------------------------------- MODULE Toolchain -------------------------------
(***************************************************************************)
(* The context an invocation carries through main and the recursion of     *)
(* install: inspectPackage reads type and languages of a recipe,           *)
(* searchCompilers detects the compilers of its languages and checks them  *)
(* against the target, updatePackagePrefix derives the prefix from them,   *)
(* and prepareBuildEnvironment hands all of it to the recipe.  Compilers   *)
(* and TargetSystemSubType are shared by every package of the invocation.  *)
(* POSIX hosts: only GNU style compilers are looked for.                   *)
(***************************************************************************)
EXTENDS Integers, Sequences

CONSTANTS
  Packages,    \* recipes
  Binary,      \* those with PACKAGE_TYPE="binary"
  LANGS,       \* languages a source recipe names, in order
  DEPENDS,     \* packages it depends on, in order; acyclic
  Requests,    \* [package, types, system, processor]: what is installed, in which
               \* build types, TargetSystemName and TargetSystemProcessor
  Languages,
  Detections,  \* what "<compiler> -v" may tell: [id, system, processor, archs, sub]
  None

ASSUME ToolchainAssumption ==
  /\ Binary \subseteq Packages
  /\ \A p \in Packages : LANGS[p] \in Seq(Languages) /\ DEPENDS[p] \in Seq(Packages)
  /\ \A r \in Requests : r.package \in Packages /\ Len(r.types) \in Nat \ {0}
  /\ None \notin Detections

VARIABLES
  request,   \* the command line: constant
  host,      \* what each compiler of the host would tell: constant
  compilers, \* context.Compilers: detected so far
  subType,   \* context.SystemInfo.TargetSystemSubType
  langs,     \* CPackage::Languages
  prefix,    \* CPackage::Prefix
  stack,     \* calls of install: [package, dep]
  type,      \* index of the build type in the loop of main
  pc,        \* inspect, search, prefix, install, depends, done
  package,   \* the package the step at pc is about
  env,       \* what the last build was given
  exit

vars == <<request, host, compilers, subType, langs, prefix, stack, type, pc,
          package, env, exit>>

Init ==
  /\ request \in Requests /\ host \in [Languages -> Detections \cup {None}]
  /\ compilers = [l \in Languages |-> None] /\ subType = ""
  /\ langs = [p \in Packages |-> <<>>] /\ prefix = [p \in Packages |-> None]
  /\ stack = <<>> /\ type = 1
  /\ pc = "inspect" /\ package = request.package
  /\ env = None /\ exit = "none"

InSeq(s) == {s[i] : i \in 1..Len(s)}
BuildType == request.types[type]

(* main and install return an error up to the exit status.                 *)
ReturnError ==
  /\ pc' = "done" /\ exit' = "1"
  /\ UNCHANGED <<request, host, compilers, subType, langs, prefix, stack, type, package, env>>

-----------------------------------------------------------------------------
(* The languages are appended to those of an earlier inspection.           *)
Inspect ==
  /\ pc = "inspect"
  /\ package \notin Binary => langs[package] \o LANGS[package] # <<>>
  /\ langs' = IF package \in Binary THEN langs
              ELSE [langs EXCEPT ![package] = @ \o LANGS[package]]
  /\ pc' = "search"
  /\ UNCHANGED <<request, host, compilers, subType, prefix, stack, type, package, env, exit>>

(* DEFAULT_VERSION, the build file or a variable is missing or wrong.      *)
InspectFails == pc = "inspect" /\ ReturnError

(* loadGNUSettings runs the compiler of a language not yet detected.       *)
Detected(ls) ==
  [l \in Languages |-> IF compilers[l] = None /\ l \in InSeq(ls) THEN host[l] ELSE compilers[l]]

Fits(c) ==
  /\ c.system # "" => c.system = request.system
  /\ c.processor # "" => c.processor = request.processor \/ request.processor \in c.archs

(* The loop over the languages in order: a subtype found so far has to be  *)
(* matched; as long as none was found the next one is taken.               *)
SubTypes(ls, found) == [i \in 1..Len(ls) |-> found[ls[i]].sub]
SameSubTypes(subs) ==
  \A i, j \in 1..Len(subs) : i < j /\ subs[i] # "" => subs[j] = subs[i]

(* Mutated form of SubTypeOf: the first compiler is the one that counts.   *)
FirstSubType(subs) == IF subs # <<>> THEN subs[1] ELSE ""

(* The first subtype that is told.                                         *)
SubTypeOf(subs) ==
  IF \E i \in 1..Len(subs) : subs[i] # ""
    THEN subs[CHOOSE i \in 1..Len(subs) : subs[i] # ""] ELSE ""

(* Mutated form of Accepted: the processor is not compared.                *)
AcceptedSystem(ls, found) ==
  /\ \A l \in InSeq(ls) : found[l] # None /\ found[l].system \in {"", request.system}
  /\ SameSubTypes(SubTypes(ls, found))

Accepted(ls, found) ==
  /\ \A l \in InSeq(ls) : found[l] # None /\ Fits(found[l])
  /\ SameSubTypes(SubTypes(ls, found))

(* The subtype is cleared, then set from the compilers of this package.    *)
SearchCompilers ==
  /\ pc = "search"
  /\ LET ls == langs[package]
         found == Detected(ls)
     IN  /\ Accepted(ls, found)
         /\ compilers' = found
         /\ subType' = SubTypeOf(SubTypes(ls, found))
  /\ pc' = "prefix"
  /\ UNCHANGED <<request, host, langs, prefix, stack, type, package, env, exit>>

(* A compiler is missing or refused, or its resource compiler is missing.  *)
SearchFails == pc = "search" /\ ReturnError

-----------------------------------------------------------------------------
(* packagePrefix: the ids of the compilers, one after the other, an id     *)
(* that repeats the previous one left out; hashes are taken as injective.  *)
WithoutRepeats(ids) ==
  LET kept == SelectSeq([i \in 1..Len(ids) |-> i], LAMBDA i : i = 1 \/ ids[i] # ids[i - 1])
  IN  [k \in 1..Len(kept) |-> ids[kept[k]]]

ToolchainIds(ls) == WithoutRepeats([i \in 1..Len(ls) |-> compilers[ls[i]].id])

PackagePrefix(p, ls) ==
  IF p \in Binary THEN <<"binary-packages", p>> ELSE <<ToolchainIds(ls), p, BuildType>>

UpdatePrefix ==
  /\ pc = "prefix"
  /\ prefix' = [prefix EXCEPT ![package] = PackagePrefix(package, langs[package])]
  /\ pc' = "install"
  /\ UNCHANGED <<request, host, compilers, subType, langs, stack, type, package, env, exit>>

(* Mutated form of InstallReturns: each build type inspects the package.   *)
InspectAgain ==
  IF stack' # <<>>
    THEN pc' = "depends" /\ package' = stack'[Len(stack')].package /\ UNCHANGED <<type, exit>>
    ELSE IF type < Len(request.types)
      THEN type' = type + 1 /\ pc' = "inspect" /\ package' = request.package /\ UNCHANGED exit
      ELSE pc' = "done" /\ exit' = "0" /\ UNCHANGED <<type, package>>

(* Mutated form of InstallReturns: the loop ends one build type too late.  *)
OneTypeMore ==
  IF stack' # <<>>
    THEN pc' = "depends" /\ package' = stack'[Len(stack')].package /\ UNCHANGED <<type, exit>>
    ELSE IF type <= Len(request.types)
      THEN type' = type + 1 /\ pc' = "prefix" /\ package' = request.package /\ UNCHANGED exit
      ELSE pc' = "done" /\ exit' = "0" /\ UNCHANGED <<type, package>>

(* install returns true in the frame below, or to the loop of main, which  *)
(* goes on with the next build type of the package inspected before.       *)
InstallReturns ==
  IF stack' # <<>>
    THEN pc' = "depends" /\ package' = stack'[Len(stack')].package /\ UNCHANGED <<type, exit>>
    ELSE IF type < Len(request.types)
      THEN type' = type + 1 /\ pc' = "prefix" /\ package' = request.package /\ UNCHANGED exit
      ELSE pc' = "done" /\ exit' = "0" /\ UNCHANGED <<type, package>>

(* The manifest of package.Prefix decides.  A source package that waits    *)
(* for its dependencies has none: its prefix was just emptied.             *)
AlreadyInstalled ==
  /\ pc = "install"
  /\ package \in Binary \/ \A i \in 1..Len(stack) : stack[i].package # package
  /\ stack' = stack /\ InstallReturns
  /\ UNCHANGED <<request, host, compilers, subType, langs, prefix, env>>

InstallBegins ==
  /\ pc = "install" /\ pc' = "depends"
  /\ stack' = Append(stack, [package |-> package, dep |-> 1])
  /\ UNCHANGED <<request, host, compilers, subType, langs, prefix, type, package, env, exit>>

Frame == stack[Len(stack)]

(* Each dependency is inspected, searched and given a prefix in turn.      *)
NextDependency ==
  /\ pc = "depends" /\ Frame.dep <= Len(DEPENDS[Frame.package])
  /\ package' = DEPENDS[Frame.package][Frame.dep]
  /\ stack' = [stack EXCEPT ![Len(stack)].dep = @ + 1]
  /\ pc' = "inspect"
  /\ UNCHANGED <<request, host, compilers, subType, langs, prefix, type, env, exit>>

Pop == stack' = SubSeq(stack, 1, Len(stack) - 1)

(* prepareBuildEnvironment and the build, or only unpacking.               *)
Build ==
  /\ pc = "depends" /\ Frame.dep > Len(DEPENDS[Frame.package])
  /\ env' = IF Frame.package \in Binary THEN env
            ELSE [package |-> Frame.package, sub |-> subType, prefix |-> prefix[Frame.package],
                  type |-> BuildType, compilers |-> compilers]
  /\ Frame.package \in Binary \/ Len(stack) = 1
  /\ Pop /\ InstallReturns
  /\ UNCHANGED <<request, host, compilers, subType, langs, prefix>>

(* Any other step of install fails; the build of a source dependency       *)
(* always does.                                                            *)
InstallFails == pc \in {"install", "depends"} /\ ReturnError

Next ==
  \/ Inspect \/ InspectFails \/ SearchCompilers \/ SearchFails \/ UpdatePrefix
  \/ AlreadyInstalled \/ InstallBegins \/ NextDependency \/ Build \/ InstallFails

Spec == Init /\ [][Next]_vars

-----------------------------------------------------------------------------
TypeOK ==
  /\ compilers \in [Languages -> Detections \cup {None}]
  /\ \A p \in Packages : langs[p] \in Seq(Languages)
  /\ \A i \in 1..Len(stack) : stack[i].package \in Packages /\ stack[i].dep \in Nat
  /\ type \in 1..Len(request.types)
  /\ pc \in {"inspect", "search", "prefix", "install", "depends", "done"}
  /\ package \in Packages /\ exit \in {"none", "0", "1"}

Declared(p) == InSeq(LANGS[p])

(* Every language of a package that is built has a compiler that was run   *)
(* and that builds for the target system and processor, whatever the       *)
(* packages before it looked for (common.cpp:121-223).                     *)
BuildsForTarget ==
  env # None => \A l \in Declared(env.package) :
    /\ env.compilers[l] # None
    /\ env.compilers[l].system \in {"", request.system}
    /\ \/ env.compilers[l].processor \in {"", request.processor}
       \/ request.processor \in env.compilers[l].archs

(* A build goes to the prefix that names its compilers in the order of its *)
(* languages: the one that every other build type, and every later         *)
(* invocation, computes for it (package.cpp:40-81).                        *)
PrefixNamesToolchain ==
  env # None => env.prefix[1] = ToolchainIds(LANGS[env.package]) /\ env.prefix[3] = env.type

(* "Check all compilers together, update system info" (common.cpp:172):    *)
(* the build of a package is told the subtype that its compilers have, in  *)
(* whatever order they are asked and in whichever build type, if the       *)
(* package has no dependency: the search for one clears the subtype.       *)
SubTypeOfBuild ==
  env # None /\ DEPENDS[env.package] = <<>> =>
    \A l \in Declared(env.package) :
      env.compilers[l].sub # "" => env.sub = env.compilers[l].sub
=============================================================================
