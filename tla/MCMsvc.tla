-------------------------------- MODULE MCMsvc --------------------------------
(***************************************************************************)
(* Instances of Msvc for TLC: cxx-pm started from a plain console or from  *)
(* a developer prompt of Visual Studio 2019, with or without another       *)
(* installation on the command line; gcc of mingw in PATH or not.          *)
(***************************************************************************)
EXTENDS Msvc, TLC

System == <<"System32">>
Mingw  == <<"mingw64">>
VS(v, processor) == <<v, processor>>

Programs ==
  {<<System, "cmd">>, <<System, "bash">>, <<System, "tar">>, <<Bundle, "bash">>, <<Bundle, "tar">>,
   <<Mingw, "gcc">>, <<Mingw, "g++">>, <<Mingw, "tar">>, <<<<"llvm">>, "clang">>,
   <<<<"llvm">>, "clang++">>} \cup
  {<<VS(v, processor), "cl">> : v \in {"2019", "2022"}, processor \in {"x86", "x86_64"}}

Consoles == {<<System>>, <<System, Mingw>>, <<<<"llvm">>, System>>,
             <<System, Mingw, <<"go">>, <<"python">>>>}
Starts ==
  [PATH : Consoles, preinit : {None}, prompt : {None}] \cup
  {[PATH |-> <<VS("2019", processor)>> \o c, preinit |-> c, prompt |-> "2019"] :
     c \in Consoles, processor \in {"x86", "x86_64"}}

MCWorlds ==
  {[PATH |-> s.PATH, preinit |-> s.preinit, prompt |-> s.prompt,
    bundle |-> TRUE, programs |-> Programs, banner |-> b, packages |-> l,
    given |-> ("C" :> g @@ "C++" :> None), VCInstallDir |-> v[1], vcvars |-> v[2],
    host |-> "x86_64", target |-> t] :
     s \in Starts, b \in {"known", "translated", "silent"},
     l \in {<<<<"C">>>>, <<<<"C", "C++">>>>, <<<<"C++">>, <<"C">>>>, <<<<"C">>, <<"C", "C++">>>>}, g \in {None, "gcc", "none"},
     v \in {<<None, "works">>} \cup ({"2019", "2022"} \X {"works", "breaks", "fails", "missing"}),
     t \in {"x86_64", "riscv64"}} \cup
  {[PATH |-> <<System>>, preinit |-> None, prompt |-> None,
    bundle |-> b, programs |-> p, banner |-> "known", packages |-> <<<<"C">>>>,
    given |-> ("C" :> None @@ "C++" :> None), VCInstallDir |-> None, vcvars |-> "works",
    host |-> "x86_64", target |-> "x86_64"] :
     b \in BOOLEAN, p \in {{}, {<<Bundle, "bash">>, <<System, "gcc">>}}}
=============================================================================
