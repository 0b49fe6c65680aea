----------------------------- MODULE MCToolchain -----------------------------
(***************************************************************************)
(* Instances of Toolchain for TLC: source packages in C and C++, without   *)
(* dependencies (both), on a binary one that has a binary dependency of    *)
(* its own (app), and on a source one (top); and hosts with any two of     *)
(* seven compilers, or without one.                                        *)
(***************************************************************************)
EXTENDS Toolchain

MCPackages == {"both", "app", "top", "clib", "perl", "gcclibs"}
MCBinary   == {"perl", "gcclibs"}
MCLANGS    == [p \in MCPackages |->
  CASE p \in {"both", "app"} -> <<"C", "CPP">> [] p = "clib" -> <<"C">>
    [] p = "top" -> <<"CPP">> [] OTHER -> <<>>]
MCDEPENDS  == [p \in MCPackages |->
  CASE p = "app" -> <<"perl", "gcclibs">> [] p = "top" -> <<"clib">>
    [] p = "perl" -> <<"gcclibs">> [] OTHER -> <<>>]

MCRequests ==
  [package : MCPackages \ {"gcclibs"}, types : {<<"Release">>, <<"Debug", "Release">>},
   system : {"Windows", "Darwin"}, processor : {"x86_64"}]

Gnu(target, system, processor, sub) ==
  [id |-> target, system |-> system, processor |-> processor, archs |-> {}, sub |-> sub]

Mingw   == Gnu("x86_64-w64-mingw32", "Windows", "x86_64", "mingw-w64")
Mingw32 == Gnu("i686-w64-mingw32", "Windows", "x86", "mingw-w64")
Cygwin  == Gnu("x86_64-pc-cygwin", "Windows", "x86_64", "cygwin")
Linux   == Gnu("x86_64-linux-gnu", "Linux", "x86_64", "")
GccMac  == Gnu("x86_64-apple-darwin", "Darwin", "x86_64", "")
Apple   == [Gnu("arm64-apple-darwin", "Darwin", "aarch64", "")
              EXCEPT !.archs = {"aarch64", "x86_64"}]
OldMingw == Gnu("mingw32", "", "", "")   \* no '-' in the target: nothing is told

MCDetections == {Mingw, Mingw32, Cygwin, OldMingw, Linux, GccMac, Apple}
=============================================================================
