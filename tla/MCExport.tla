------------------------------ MODULE MCExport ------------------------------
(***************************************************************************)
(* An instance of Export for TLC: three configurations, the default        *)
(* mapping and others, and recipes that agree, disagree and fail.          *)
(***************************************************************************)
EXTENDS Export

MCRequests == {<<>>, <<"Debug">>, <<"Debug", "Release">>,
               <<"MinSizeRel", "Release", "Debug">>}

Default == <<<<"Debug", "Debug">>, <<"*", "Release">>>>
MCMappings == {<<>>, Default, <<<<"Release", "Debug">>>>,
               <<<<"*", "Debug">>, <<"*", "Release">>>>, <<<<"Debug">>>>}

(* What a recipe prints.  d tells the files of one build type apart.       *)
At(p, d, defs) == [path |-> <<p, d>>, dll |-> <<"dll", p, d>>,
                   implib |-> <<"implib", p, d>>, defs |-> defs]
Art(t, name, at, includes, libs) ==
  [type |-> t, name |-> name, at |-> at, includes |-> includes, libs |-> libs]

Inc    == Art("include", "INC", At("inc", "", {}), <<>>, <<>>)
Lib(t, d, inc) ==
  Art(t, "lib", At("lib", d, IF d = "" THEN {} ELSE {"USE_DEBUG"}), <<inc>>, <<>>)
Set(lib) == Art("libset", "LIBS", NoArtifact, <<>>, <<lib>>)
Exe    == Art("executable", "protoc", At("bin", "", {}), <<>>, <<>>)
Module == Art("cmake_module", "mod", At("mod", "", {}), <<>>, <<>>)
Bad    == Art("unknown", "?", NoArtifact, <<>>, <<>>)

MCLists == {NoArtifact, <<Bad>>, <<Inc, Lib("static_lib", "", "INC"), Set("lib")>>,
            <<Inc, Lib("static_lib", "d", "INC"), Set("lib")>>,
            <<Lib("static_lib", "", "INC"), Inc>>, <<Lib("static_lib", "", "INC")>>,
            <<Lib("shared_lib", "", "INC"), Inc, Exe, Module>>,
            <<Lib("static_lib", "", "OTHER")>>, <<Inc, Lib("static_lib", "", "INC"), Set("lost")>>,
            <<Inc, Lib("static_lib", "", "INC")>>}

All == {<<p, d>> : p \in {"inc", "lib", "bin"}, d \in {"", "d"}}
         \cup {<<x, "lib", "">> : x \in {"dll", "implib"}}
MCContents == {All, All \ {<<"inc", "">>}, All \ {<<"lib", "">>, <<"implib", "lib", "">>}}
=============================================================================
