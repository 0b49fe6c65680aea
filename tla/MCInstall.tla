----------------------------- MODULE MCInstall ------------------------------
(***************************************************************************)
(* Instances of Install for TLC.  The packages stand for recipes of the    *)
(* repository: ssl and tbb are source archives whose URLs end alike, gmp   *)
(* and sodium are built by configure and make in .b, json is a git package *)
(* whose COMMIT is empty, as rapidjson's is, perl is a .tar.zst binary     *)
(* that depends on gcclibs, nasm a plain binary archive.  The others cover *)
(* what the code accepts and no recipe says: pin is a git package with a   *)
(* COMMIT, tools a binary one of TYPE git, and kit another that depends on *)
(* it; app is a source package that depends on a binary one, top one that  *)
(* depends on a source package, odd one on a name that is no package.      *)
(***************************************************************************)
EXTENDS InstallStore

RecipeArchive ==
  [ssl |-> "v1.tar.gz", tbb |-> "v1.tar.gz", json |-> "none", pin |-> "none",
   tools |-> "none", kit |-> "none", app |-> "app.zip", gmp |-> "gmp.tar.bz2",
   sodium |-> "sodium.tar.gz", odd |-> "odd.zip", lib |-> "lib.zip", top |-> "top.zip",
   perl |-> "perl.tar.zst", gcclibs |-> "gcclibs.tar.zst", nasm |-> "nasm.zip"]
RecipeFiles ==
  [ssl |-> {"libssl", "ssl.h"}, tbb |-> {"libtbb"}, json |-> {"json.h"}, pin |-> {"pin.h"},
   tools |-> {"tool.exe"}, kit |-> {"kit.exe"}, app |-> {"app.exe"}, gmp |-> {"libgmp"},
   sodium |-> {"libsodium"}, odd |-> {}, lib |-> {"lib.a"}, top |-> {"top.a"},
   perl |-> {"perl.exe", "perl.dll"}, gcclibs |-> {"gcc.dll"}, nasm |-> {"nasm.exe"}]
RecipeDepends ==
  [ssl |-> <<>>, tbb |-> <<>>, json |-> <<>>, pin |-> <<>>, tools |-> <<>>,
   kit |-> <<"tools">>, app |-> <<"nasm">>, gmp |-> <<>>, sodium |-> <<>>,
   odd |-> <<"missing">>, lib |-> <<>>, top |-> <<"lib">>, perl |-> <<"gcclibs">>,
   gcclibs |-> <<>>, nasm |-> <<>>]

MCArchiveOf == [q \in Packages |-> RecipeArchive[q]]
MCArchives  == {MCArchiveOf[q] : q \in Packages}
MCFilesOf   == [q \in Packages |-> RecipeFiles[q]]
MCFiles     == UNION {MCFilesOf[q] : q \in Packages}
MCDepends   == [q \in Packages |-> RecipeDepends[q]]

AllBinary   == {"perl", "gcclibs", "nasm", "tools", "kit"} \cap Packages
AllGit      == {"json", "pin", "tools", "kit"} \cap Packages
AllPinned   == {"pin"} \cap Packages
AllZst      == {"perl", "gcclibs"} \cap Packages

OneType     == {<<"Release">>}
OneOrTwo    == {<<"Release">>, <<"Debug", "Release">>}

Everywhere  == Labels \ {"idle"}
NotInLines  == Everywhere \ {"lines"}
Nowhere     == {}

(* One invocation at a time, for any package, or for those that no other   *)
(* package depends on; or an outer one and the one its recipe starts; or   *)
(* two users of the same home who build different packages.                *)
OneProcess   == {"p"}
RequestAll   == [p \in Procs |-> Packages]
RequestRoots == [p \in Procs |-> Packages \ {"gcclibs", "lib"}]
OuterInner   == {"outer", "inner"}
RequestBoth  == [p \in Procs |->
                  IF p = "outer" THEN {"json", "app", "kit", "gmp"} \cap Packages
                  ELSE {"perl", "sodium", "odd"} \cap Packages]
=============================================================================
