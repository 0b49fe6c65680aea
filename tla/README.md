# cxx-pm: verification project

cxx-pm (`src/src`) is a package manager for C and C++: a command line program
that downloads sources or binaries named by shell recipes, builds them with the
compilers it finds, keeps the results under `~/.cxxpm`, and writes CMake files
that import them. This directory holds TLA+ models of it, the TLC runs that
check them and the TLAPS proofs about them. Line numbers are those of the
commit in `src/`.

## 1. The system

| component | code | state | operations |
|---|---|---|---|
| installer | `main.cpp` `install`, `removeDirectory`, `createManifestForDirectory`, install mode of `main` | the home directory: prefixes with `install/` and `manifest.txt`, scratch directories `.s` and `.b` | check, wipe, recurse over DEPENDS, unpack, build, commit, clean |
| downloader | `main.cpp` `downloadPackageFiles` | `distr/`: archives by the last component of their URL, `tmp-*` files of unzstd | wget, SHA3 check, tar/unzip/unzstd, git clone and reset |
| child processes | `exec.cpp` `run`, `runCaptureLog`, `runNoCapture` | pipes, the state of the child | fork, drain, waitpid |
| executable search | `exec.cpp` `PathCache` | a list of directories, a map of names, both apart from the PATH of the process | get, update |
| inspection, prefixes | `main.cpp` `inspectPackage`, `updatePackagePrefix`; `package.cpp` `packagePrefix`, `prepareBuildEnvironment` | fields of `CPackage` | read a recipe, derive its prefix, prepare the build |
| toolchain detection | `compilers/common.cpp`, `compilers/gnu.cpp`, `compilers/msvc.cpp` | `CContext::Compilers`, `TargetSystemSubType` | detect, compare with the target |
| build type mapping | `os.cpp` `doBuildTypeMapping`, `uniqueBuildTypes` | `SystemInfo.BuildType` | map, make unique |
| CMake export | `bs/cmake.cpp` `cmakeExport`, `package.cpp` `CArtifact` | merged artifacts, the output file | load, merge, write |
| command line, startup, modes | `main.cpp` `main`, `loadVariables`, `searchPath`; `os.cpp` `whereami`, `osGetSystem*` | local variables of `main`, the package list | read options, find itself and its host, collect packages, inspect, print or install |
| getopt | `msvc/getopt.c` | `argv`, `optind`, the range of skipped words | scan, permute, match abbreviations |
| string splitter | `strExtras.cpp` | pointers into a text | next, get |
| argument formatting | `bs/`, `os.cpp` | none | pure functions |
| recipes, CMake front end | `packages/*`, `cmake/*` | | shell and CMake scripts |
| third party | `json/json11.cpp`, `tiny_sha3.c` | | |

An invocation is one thread. `main` inspects the package, detects compilers,
and calls `install` for each build type; `install` calls itself for the words
of DEPENDS, then `downloadPackageFiles`, then `bash -c "source recipe; build"`
through `runCaptureLog`; afterwards `cmakeExport` runs `artifacts` of the recipe
through `run`. All of an invocation's packages share one `CContext`. All
invocations share the home directory, without any lock; there are several at a
time when a build system starts them in parallel, and also when a recipe calls
`${CXXPM_EXECUTABLE}` from inside its own build, as the openssl recipe does.

What is hard here, and hardly reached by a test: kills and failures between any
two of the file operations, with only `manifest.txt` to tell a whole
installation from a partial one; another invocation between two steps, and in
particular a second build in the one `.b`; archives
that share a cache name; the bounded time of the check; a recursion that mixes
the prefix of a dependency with that of its parent; a parent that drains two
pipes one after the other; vectors of the exporter that are aligned only when
every configuration prints the same; a context that one package leaves to the
next; an `argv` that is permuted while it is read; a recipe whose output is read
together with its variables; a PATH that is rewritten under a cache that is
never emptied. `PROJECT.json` lists these hazards at their lines.

## 2. Modules

| module | models | extends |
|---|---|---|
| `Home` | state of the home directory and of the invocations, constants, types | |
| `Download` | `downloadPackageFiles` | `Home` |
| `Install` | `install` and the install mode of `main`; their properties | `Download` |
| `ChildProcess` | the three functions of `exec.cpp` | |
| `Export` | build types, `CArtifact`, `cmakeExport` | |
| `Toolchain` | `inspectPackage`, `searchCompilers`, `packagePrefix`, and the context that the recursion of `install` passes on | |
| `PackageStore` | what the installer promises: an abstract store of prefixes and the jobs on it | |
| `InstallStore` | the refinement mapping from `Install` to `PackageStore` | `Install`, instantiates `PackageStore` |
| `StringSplitter` | `StringSplitter::next` and `get` | |
| `Getopt` | `getopt_long` as `main` calls it | |
| `Main` | `main` from `argv` to its exit status, without the inside of `install` and `cmakeExport` | `Getopt`, `StringSplitter` |
| `Msvc` | `PathCache`, the environment, `loadMSVCSettings` and the Windows branches of `searchCompilers` | |
| `MCInstall`, `MCChildProcess`, `MCExport`, `MCToolchain`, `MCMain`, `MCMsvc` | instances for TLC | the model each is named for (`MCInstall`: `InstallStore`) |
| `InstallProofs` | theorems: types, verified archives, isolated builds | `Install` |
| `CommitProofs` | theorems: manifests and successes are complete | `InstallProofs` |
| `StoreProofs` | theorems: the refinement of `PackageStore`, intact installations | `CommitProofs`, `InstallStore` |
| `ChildProofs`, `ExportProofs`, `ToolchainProofs`, `MsvcProofs` | theorems | the model each is named for |
| `MainProofs` | theorems about the splitter and getopt, on their own and in `main`, and about what `main` sets and prints | `Main` |

Each model names, above every definition, what it stands for; "Mutated form of
X" marks a variant of X with a plausible bug, used to show that a property would
notice it. The mutants are listed in `PROJECT.json`.

### Home, Download, Install

A process `p` is an invocation slot: it is idle or it runs one invocation. `pc[p]`
is the label of the call about to be made, `stack[p]` the activations of `install`,
`todo[p]` the build types left. The home directory is `files` (content of each
file below `install/` of each prefix), `manifest` (the lines of each
`manifest.txt`, or `Absent`), `dirs` (prefixes that exist), `srcDir`/`bldDir`
(`.s`, `.b`), `makefile` (the prefix that the build files in `.b` install to),
`inBld` (whose build works in `.b` as it is now), `distr` and `tmp`. The content of a
file is what made it: package, revision, build type; a hash is identified with the
content.

One action stands for one call that changes the disk or decides something;
calls that other processes or a kill may see half done are split: `remove_all`
goes entry by entry (`RemoveEntry`, then `RemovePrefix`), `wget -O` truncates and
later fills (`OpenArchive`, `Fetch`), unzstd likewise, tar and `make install` place
one file at a time (`PlaceFile`), the manifest appears empty and then line by
line (`OpenManifest`, `WriteLine`, `CloseManifest`). A dependency is unpacked below
the prefix of the root call (`Dest`), as `externalPrefix` says, while its manifest
is looked for below its own (`Own`). Faults are actions of their own, each
counted in `faults`: `Fails` (a call whose failure makes `install` return false, that of `loadVariables`
before the check included),
`Crash` (a kill or power cut; the manifest is written through a stdio buffer, so
its last line may be torn), `Rot` (an installed file is damaged while nothing
runs), and those the code does not notice: `FetchOther`, `ResetFails`,
`SkipDependencies`, `LoseTail`.

Abstractions. The check stops after 125 ms: `AlreadyInstalled` may succeed as
soon as some line matches (outcome `sampled`), which allows more than the code
does. Unpacking sources into `.s`, configuring and compiling are one step each, and so
is the copy of a file. `unzstd` asks
before it overwrites a file; both answers are tried. DEPENDS is acyclic.

Of a recipe, `build` is what gmp and libsodium do: enter `.b`, configure, make, make
install. There is one `.b` for all, and its build files are those of whoever
configured last: `Configure` overwrites them (or refuses, as CMake does for the
sources of another package), and `Make` and `MakeInstall` go by them, whoever
calls. So a build may make and install another package, below the other's prefix,
and succeed. A build whose `.b` was removed under it finds nothing there, nor in a
new one (`MakeFails`); the target of a copy may be removed under it as well
(`TargetGone`). A binary package that is cloned needs neither (`CloneBinary`).

### ChildProcess

The three functions differ in the pipes they create, in the stream each pipe is
dup2'ed to, and in the order they read them: that record is `mode`. The child and a
process it may leave behind write to a bounded pipe and block while it is full;
`Read` moves one unit, `Eof` needs an empty pipe without writers. `waitpid` with
WUNTRACED returns for a stopped child too; that iteration changes nothing and is
left out, so `Wait` is the iteration that ends the loop. A failing `execve` is a
child that writes and exits with 1.

### Export

Inputs (`request`, `mapping`, `lists`, `writable`, `windows`) are chosen in `Init` and
constant. `ParseBuildTypes` is `doBuildTypeMapping`; `InstallNext` is the loop of
`main` over `uniqueBuildTypes`, whose `install` is one step here;
`FirstList`/`MergeList` read one configuration; `Generate` writes the commands of
one artifact. Executables, modules and include directories have the same shape
of output and are told apart by type only. Reading an element beyond the end of
a vector is undefined: `Crash`, a failure, or an empty path that is accepted.

### Toolchain

What `compiler -v` tells is a record; parsing its text is not modelled. `Inspect`
appends the languages of a recipe as the code does (`push_back` on a package that
lives as long as the invocation), `SearchCompilers` detects those still unknown
and compares all of them, `UpdatePrefix` concatenates the ids, `Build` records what
`prepareBuildEnvironment` hands to the recipe. Only GNU style compilers are
looked for, as on POSIX hosts.

### PackageStore, InstallStore

The store holds prefixes that are absent, dirty or whole; a user asks for a
sequence of them, finds the first one in need of work or not, works, finishes or
stops. The promise is in what is missing: no action takes a whole prefix apart
except damage from outside while nobody works, and a prefix that was worked on
is only finished when it is whole. The mapping reads a prefix as whole when its
manifest lists everything the package and its direct dependencies place, and the
files are what the manifest says; it reads jobs off `Root` and `todo`. The prefix
of a package that is installed as a dependency is the root's, so that the
refinement is about the requests of roots; a package that is asked for on its
own and is a dependency as well breaks it, as `standalone` shows for `IntactKept`.

### StringSplitter, Getopt, Main

`StringSplitter` keeps the pointers of the code as offsets and has one action per
iteration of the loop. `Getopt` keeps `argv` as a sequence of elements that
are words, `--`, clusters of short options or long options, each a sequence of
the pieces in which the program's own names share beginnings (`--ver` begins
`--version` and `--verbose`); `SwapBottom` and `SwapTop` are one iteration of
`exchange` each. `Main` owns both: its options run `GetoptStep`, its reads of a
child's output run `SplitStep`, so that the two libraries are checked and proved
in the place where they are used. A child that prints (`uname`, the shell that
echoes DEFAULT_VERSION, the shell that echoes PACKAGE_TYPE and LANGS) may print
more lines before; the world of a scenario says what. The search for compilers,
the mapping of build types, `install` and `cmakeExport` succeed or fail here.
`--help`, `--sys-root` and `--use-flags` are accepted and ignored, and the loop over
an extra package directory walks the packages of cxx-pm, as in the code.

### Msvc

`PATH`, `preinit` and `prompt` are the environment of the process, which
`loadMSVCSettings` changes; `AllPath` and `Cache` are those of `gPathCache`, searched
from the last directory. `vcvarsall.bat` is external: it puts the directory of its
`cl` in front, or changes nothing, or `cmd` fails. The steps that run a program
(`bash`, `cmd`, `cl`, `gcc`, `tar`) look it up and remember it. One invocation
inspects a package and then its dependency, with the compilers kept.

## 3. Runs

Passing runs:

| run | asks | bounds |
|---|---|---|
| `recipes` | One invocation at a time, sources: is only a verified archive unpacked (`UnpackVerified`), does a build start with nothing but its own sources (`BuildIsolated`), is a manifest complete once it is written (`CommitsWhole`), is a reported success complete (`SuccessMeansComplete`), does no installation destroy an intact one (`IntactKept`)? | two archives whose URLs end alike and a git package with a COMMIT, one or two build types, two faults: enough for a leftover of one failure to meet a second one |
| `together` | Two invocations interleaved at every step, one of which builds: an installation from source (out of git, or with a binary dependency) or one of binaries that are cloned, with one of `.tar.zst` binaries and their dependency (which is what openssl does to itself), while installed files may rot. They may fail each other; may one commit or unpack what is not its own, report what is not complete, or come to a build without a prefix (`BuildHasPrefix`), and is it all an implementation of the package store (`ImplementsStore`)? | two processes, seven packages, one fault: a kill or failure at every label or a damaged file of each kind of package |
| `builders` | Two invocations that both build, in the one `.s` and `.b`, one of them perhaps of a package that depends on an unknown name. What they build is not what they should (`shared_build`); is it still verified archives that they unpack (`UnpackVerified`), and has a build its prefix (`BuildHasPrefix`)? | two processes, four packages, one fault |
| `recovery` | After the faults, does asking again succeed again (`Recovers`)? | every label may be killed and every failure tried, noticed or not; two faults; three roots |
| `run` | Is everything captured (`ReturnsEverything`), do parent and child never wait for each other (`NeverStuck`), and does the function return (`Returns`)? | the three functions; three writes per process into pipes of two units, so that a script fits, fills or overflows a pipe; one stop |
| `export` | Does a written export hold what the recipe named, for every configuration, from prefixes that were installed, where it exists (`InstalledFirst`, `CompleteExport`, `LinksExist`, `NothingBeyond`)? | zero to three configurations (three is the least for which one may be skipped and a later one take its place), five mappings, ten lists, three contents, Windows or not |
| `toolchain` | Is what is built built for the target (`BuildsForTarget`), under the prefix of its compilers (`PrefixNamesToolchain`), with their subtype (`SubTypeOfBuild`)? | two languages, seven compilers or none for each, up to two build types, a recursion three deep |
| `main` | Are options read as written (`ReadsAsWritten`), words moved behind them in order (`OptionsFirst`), without leaving `argv` (`IndicesInRange`)? Are all variables of `main`, its mode and its list of extra directories, what the options ask for (`SettingsAsGiven`)? Is what children print cut exactly (`SplitsExactly`) and read as the recipe means it (`InspectedAsAssigned`)? Does `--file` print the only match (`PrintsTheOneFile`), and does every invocation end (`Exits`)? | all sequences of up to four of five elements under both orderings (the shortest in which words, options with an argument and `--` surround each other), all patterns of words and options of length seven (in which `exchange` has to divide a block twice), pairs of sixteen forms of options and words, triples of six; about 20 useful command lines in ordinary and broken worlds; manifests of up to three lines |
| `msvc` | Are the tools those of the bundle (`ToolsOfBundle`), is a cached path still the one PATH gives (`CacheFresh`), does a build use one Visual Studio (`OneInstallation`), is the compiler that the user named used (`NamedCompilerUsed`)? | two Visual Studios, four consoles with and without a developer prompt, two languages, two packages, three banners, `vcvarsall` in four conditions; a PATH of four entries is a long one |

Deadlock is checked in the runs of `Install`: an invocation that is running can
always go on, and an idle one can be started. The models of one call
(`ChildProcess`, `Export`, `Toolchain`, `Main`, `Msvc`) stop when the call returns or
`main` exits.

`recipes`, `together` and `builders` keep kills out of the label `lines` (the manifest
being written) and leave out the failures nobody notices, apart from a wrong
download: there the properties do not hold, as the end of this section tells for
each. Likewise `together` has one invocation that builds, since with two of them
neither manifests nor successes are complete (`shared_build`). `recovery` has
all these failures: that a request succeeds again does not mean that what it
accepts is complete.

Runs that end in a violation, each a disagreement between the code and what it
says (the findings of `PROJECT.json` quote the lines):

| run | property | what happens |
|---|---|---|
| `standalone` | `IntactKept` | a dependency installed on its own is verified against the parent's directory, taken for damaged and removed |
| `shared_build` | `SuccessMeansComplete` | two packages are built at a time: the `configure` of the second replaces the build files of the first, whose `make install` then installs the second package and succeeds; a manifest without a line is committed as an installation |
| `export_number` | `DifferentNumberAborts` | a configuration with fewer artifacts than the first is not refused |

More were met while modelling. They are listed as hazards, and TLC finds them
within seconds when the constants of a run are changed as follows:

- A kill while the manifest is written leaves a shorter or empty one, which the
  next installation accepts ("Verified 0(all!) files"): `recipes` with
  `CrashPoints <- Everywhere` fails `CommitsWhole`.
- What `fprintf` and `fclose` return for the manifest is not looked at, so that on a
  full disk a shorter one is committed: `recipes` with `"lines"` in `Unchecked` fails
  `CommitsWhole`.
- A failing `git reset --hard` is printed and ignored; the tip of the branch is
  installed as the COMMIT of the recipe (no recipe of the repository has one):
  `recipes` with `"reset"` in `Unchecked` fails `CommitsWhole`.
- A failure of the shell that reads DEPENDS is taken for no dependencies:
  `together` with `"deps"` in `Unchecked` fails `CommitsWhole`.
- A source package that is a dependency has no prefix to open its log in, and
  can never be installed as one: `recipes` with the packages `top` and `lib` fails
  `BuildHasPrefix`.

Two are not runs of `Install`: the output stream of `cmakeExport` is never checked,
so `CompleteExport` and `LinksExist` are stated for writable outputs; and
`searchCompilers` for a binary dependency clears the subtype of the package above,
so `SubTypeOfBuild` is stated for packages without dependencies.

Fairness. `Recovers` assumes that a running process is scheduled (`WF` of `Step`) and
that whoever wants a package asks again (`SF` of `Invoke`; weak fairness is not
enough, as a request for another package may come first each time). Nothing is
assumed of faults; there are at most `MaxFaults`. `Returns` assumes that the parent
and the programs it started are scheduled and that a stopped child is continued;
nobody has to spawn, kill or stop. For `run` it also needs that what goes to stderr
fits into its pipe (`Fits`), since stdout is read to its end first; for
`runCaptureLog` and `runNoCapture` the condition is void. `Exits` assumes that the one
thread of `main` runs on (`WF` of `Next`): its loops over `argv`, texts and manifests are
bounded by what they read, and its children return (which is what `Returns` is about).

## 4. Proofs

Every property of a passing run that is not about liveness is also a theorem.
"For every value" below means: of the constants, as far as the
assumptions allow, which are named in the modules and evaluated by TLC in every
run:

| assumption | says |
|---|---|
| `HomeAssumption`, `NoneAssumption` | kinds of packages, files and requests fit together; what is not there is told from every content, and a damaged file from a built one |
| `ChildAssumption` | the three functions create the pipes they connect and read |
| `ExportAssumption` | build types and artifacts are of their types; `*` is not a build type |
| `ToolchainAssumption` | recipes name languages and packages (cycles are allowed) |
| `TableAssumption` | no two options share a name or a value, and none has the value of the end or of an error |
| `ScenarioAssumption` | command lines, texts and manifests are of their types; a variable of a recipe is one line, since `echo` is given it without quotes |
| `WorldAssumption` | directories, compilers and packages are of their types |

Some theorems have hypotheses besides, each defined beside its theorem. None but
`Parsed` is for convenience: where the code breaks without it, section 3 says how.

| hypothesis | says | without it |
|---|---|---|
| `Solo` | one invocation at a time | another one may remove `.b` and fill it, or overwrite an archive between its hash check and its `tar` |
| `Apart` | invocations at a time have no package and no archive in common | the same |
| `Flat` | a dependency is a binary package without dependencies, as in the recipes | a source package cannot be installed as one; a sampled check may also take a file that a sibling has placed for its own |
| `Separate` | no two packages install a file of one name | the later one replaces the file and the manifest names one content |
| `Parsed` | the shell that reads DEPENDS does not fail unnoticed | its packages are not followed as `Called` says |
| `Noticed` | no kill while the manifest is written; of the failures nobody looks at only those of `wget` | manifests that lack lines, packages without their dependencies, the wrong revision |
| `OneBuilder` | of any two invocations one installs binary packages only | `shared_build` |
| `Roots` | nobody asks for a package that others depend on | `standalone` |
| `BundleHasTools` | if any directory has `bash` or `tar`, the bundle has it | the tool of Windows is found |
| `PrintsWholeLines` | what a recipe prints while it is sourced ends with the end of a line | its last line and its first variable are read as one |
| `ClOfPrompts` | every `cl` in PATH was put there by a developer prompt, which kept the PATH it found | a `cl` of some other Visual Studio stays in PATH behind that of the prompt |

`Assumed` is `Apart`, `Flat`, `Separate`, `Noticed` and `OneBuilder`. The constants of
`recipes` and `together` satisfy it and `Roots`, those of `builders` `Apart`, `Flat` and
`Parsed`, those of `msvc` `BundleHasTools` and `ClOfPrompts`, those of `main`
`PrintsWholeLines`, so that the runs show each theorem on an instance. The
hypotheses are needed one by one: `shared_build` fails `OneBuilder` alone,
`standalone` fails `Roots` alone, and of the changes listed at the end of section 3
the first four fail `Noticed` alone, the last one `Flat` and `Roots`.

**Installer.** `InstallProofs.TypeCorrect`: `TypeOK` is inductive as it stands; its
clause that a running invocation has an activation and a build type is what makes
`Top`, `Own` and `Dest` typed.
`OnlyVerifiedUnpacked` (`Solo`): from the hash check to `tar` the archive stays the
one that passed, and what unzstd has written was read from it (`Verified`).
`BuildsAreIsolated` (`Solo`): both scratch directories stay empty from their creation
to the unpacking (`Fresh`), also while dependencies are installed in between,
because a nested source package never gets to its sources: its prefix is gone
after the wipe and nobody creates it again (`Gone`).

`CommitProofs.VerifiedTogether` and `BuildsHaveAPrefix` (`Apart`, `Flat`, `Parsed`) hold for
any number of invocations, whatever they do to each other in `.s` and `.b`. The
first rests on where each one is in the list of its dependencies (`Called`) and on
`Verified` (together: `Calling`). For the second, with binary dependencies only, the install directory exists
from the end of the preparations on (`Housed`), because a dependency wipes a
prefix of its own and no other invocation has a package of this one, while a
`make install` with another's build files only creates directories; and what is
built is always the root call.

`ManifestsAreWhole` and `SuccessIsComplete` (`Assumed`) are about one builder and any
number of installations of binaries beside it. The invariant `Sound` says of each
running one, besides `Called` and `Verified`, that from the wiping to the
manifest its prefix holds files of the package and of its dependencies only, of
each of them all or none, and all of those it is done with (`Clear`, `Written`); that
the lines written and those left are together what there is (`Committing`); and of
the builder that `.s` and `.b` hold nothing of its package but the right revision
and build type, whatever a killed one has left there, and that from `configure` on
the build files are its own (`Scratch`). `Kept` carries manifests across invocations.
For two builders neither theorem is true, which `shared_build` shows.

`StoreProofs.InstallationsStayIntact` (besides `Assumed`: `Roots`, and nothing rots)
and `InstallerImplementsStore` (`Assumed`, `Roots`): each step of `Install` is a
step of `PackageStore` or leaves it alone. The invariant adds that what a root call
wipes has failed its check (`Broken`), that where it returns there is a manifest and
where it has built something a whole installation (`Settled`), and that what nobody
asks for has no manifest (`Unrequested`).

**Child processes.** `ChildTypeCorrect`, `CapturesEverything`: what was written to a
pipe is what was captured followed by what the pipe holds (`Kept`); a pipe once read
to its end stays empty (`Drained`), because the end is seen only after the last
writer is gone and a write end is only got from a process that has one (`Phase`). The
same proof covers the three functions. `NobodyIsStuck` is the part of `Returns` that is
about safety: until the function returns somebody can go on without a signal from
outside. A writer that waits has filled a pipe that is not read yet; while the first
pipe is read what the others hold and what is still meant for them fits (`Room`; a
write takes from the one what it adds to the other, `TailElements`), and once it was
read to its end no writer is left. That the write ends of the parent are closed before
it reads (`Company`) is what the mutant of this property leaves out.

**Export.** `ExportTypes`, `ExportsInstalled`: every configuration before the loop
index has its build type installed. `ReadsWithin`, `ExportsAll`, `LinksAreThere`: after
`m` configurations each artifact has `m` places, which are the ones printed, and
`libSet` has the libraries among them (`Agreed`); what has been written is `Generate`
of the artifacts so far, and nothing of it was missing (`Output`).

**Toolchain.** `ToolchainTypes`; `TargetsFit`: source packages past their search, those
that wait for a dependency included, keep compilers that fit (`Searched`), because a
later search only adds. `PrefixesNameToolchains`: the root is inspected once unless
the invocation is going to fail, since the build of a source package below
another fails, and so does that of a root that is its own dependency (`Doomed`). `SubTypesTold`: between the search and the build of a package without
dependencies nothing else is searched (`Alone`).

**MSVC.** `BundleToolsRun`, `CacheStaysFresh`: `Env` says at each label which PATH it can be, and
each command that is remembered is found at the same place in the PATH of the
present and in the last one of the run (`Remembered`): what differs between them
does not have it. `NamedCompilersUsed`: a command the user gave stays in place
through every search, also where `cl` tells nothing of itself and is searched for
again. `OneVisualStudio` (`ClOfPrompts`): whether a search ends with Visual Studio is
decided before the first one (`HasMsvc`), and the same for all languages and
packages.

**Splitter.** `SplitterIsExact`, for every text and every set of delimiters: the text
between `last` and `p` holds no delimiter, a delimiter or the beginning precedes
`last`, and every piece that begins before `last` is among `tokens`.

**getopt.** `StaysInArgv`: `argv` keeps its length, and each label carries the order
of `firstNonopt`, `bottom`, `lastNonopt`, `top` and `optind` that the next one needs.
`ReadsEveryLine`, `OptionsComeFirst`: the definition they compare with, `Reading`, is the
command line read from the left, element by element, by a recursive function. The
invariant (`ReadingInv`) compares from the middle: what has been returned, followed
by the reading of what lies ahead (`Ahead`), is the whole reading; and of `argv`, as
it will be when the swaps under way are done (`Sorted`), the options taken so far and
the words skipped are the two beginnings of its parts. That the swaps come to this
is a fact about `Swapped`, by the index each element comes from (`Source`); that
`Found` and `Ambiguous` pick what `Meant` means is `FoundIsMeant`.

**main.** `MainStaysInArgv`, `MainSplitsExactly`, `MainReadsEveryLine`, `MainOptionsFirst`:
every step of `main` is a step or a stutter of the library it calls, and what it
hands over is a text. `SettingsAreGiven`: after each option that was handled, the
variables are what the results so far ask for (`AllBy`; the one being handled does
not count yet, `Seen`), and at the end these are the whole reading.
`PrintsOnlyOneFile`: what has been found is the only path, of the lines read, that
ends as asked (`Searched`).
`InspectsAsAssigned` (`PrintsWholeLines`): while a text is cut, what has been taken are
the pieces returned so far (`Took`), and when the splitter is done these are the items
of the text in their order (`TookItems`; the splitter's invariant gives that none is
missing, and the place of an item is the number of those that begin no later). The
lines of DEFAULT_VERSION, PACKAGE_TYPE and LANGS are items of what the shell prints,
at known places (`VersionLine`, `RecipeLines`); two lines that lie behind each other are
returned one after the other (`LastReturned`), so that the two variables counted are
those two, or there are more and `main` stops (`VariablesBy`). The invariant
(`FoundInv`) says at each label what is known of the host, the version and the
variables.

Only model-checked: liveness (`Recovers`, `Returns`, `Exits`), which is out of the
prover's reach. `GetoptSpec` and `SplitSpec` are stated for the proofs; the
runs check their properties in `main`, which uses both.

## 5. Not modelled

`CreateProcess` and the job objects of Windows; `pathConvert` and the formatting of
build system arguments, which rewrite text that no decision depends on; the
branches of `getopt.c` that only another caller reaches; third-party code (SHA3 is
taken as injective, JSON from its result); the scripts of the CMake front end;
text of recipes beyond what `MCInstall` and `MCMain` take from them, of `build`
everything but configure, make and make install; the same
package installed by two invocations at a time; a kill within the copy of one file,
whose manifest is not written then; cyclic DEPENDS; disks that lose
completed writes of files other than the manifest.

## 6. Plan

Done, in this order: `Home`, `Download`, `Install` (what everything else serves);
`ChildProcess`; `Export`; `Toolchain`; `StringSplitter`, `Getopt` and `Main`; `Msvc`;
`PackageStore` and its refinement; then the theorems of section 4; then the build
files that builds share in `.b`, with `builders` and the runs that show what each
hypothesis is for.

Next:

1. `IntactKept` and the refinement without `Flat`, for dependencies that have
   dependencies: the invariant on prefixes (`Clear`) has to range over the stack.
2. `Export` for configurations that do not agree on the number: what is refused.
3. Two builders where one does not use `.b`, as openssl, which builds in a tree of
   its own in `.s`: what may be promised of the other one is less than `Assumed`
   gives, since each still removes both directories of the other.
4. `Toolchain` with the tools of `gnuSearchTools` on POSIX hosts that build for
   Windows; `CreateProcess` as a fourth mode of `ChildProcess`.
