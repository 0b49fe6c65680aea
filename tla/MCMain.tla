-------------------------------- MODULE MCMain --------------------------------
(***************************************************************************)
(* Instances of Main for TLC: command lines in an ordinary world, all that *)
(* can be put together from a few words and from one of each option, and a *)
(* few useful ones in worlds where something is missing, printed besides,  *)
(* or not as expected.                                                     *)
(***************************************************************************)
EXTENDS Main

Word(s)      == [kind |-> "word", name |-> s, eq |-> None]
Long(s)      == [kind |-> "long", name |-> s, eq |-> None]
LongEq(s, v) == [kind |-> "long", name |-> s, eq |-> v]
Short(s)     == [kind |-> "short", name |-> s, eq |-> None]
Dashes       == [kind |-> "dashes", name |-> <<>>, eq |-> None]

Ordinary ==
  [posix |-> FALSE,
   argv0 |-> [dir |-> None, in |-> {"/usr/bin", "/opt"}], PATH |-> <<"/usr/bin", "/bin">>,
   roots |-> {<<"home", "self">>, <<"src">>}, withPackages |-> {<<"home", "self">>},
   sysname |-> <<"Linux", "NL">>, machine |-> <<"x86_64", "NL">>,
   folders |-> {<<"ssl">>, <<"nasm">>},
   builds |-> {<<<<"home", "self">>, <<"ssl">>, <<"1.1">>>>},
   metaPrints |-> <<>>, defaultVersion |-> <<"1.1">>,
   recipePrints |-> <<>>, packageType |-> <<"source">>, langs |-> <<"C">>,
   manifest |-> <<[path |-> <<"lib/", "my", "ssl.a">>, wellFormed |-> TRUE],
                  [path |-> <<"bin/", "ssl">>, wellFormed |-> TRUE]>>]

Up(n, S) == UNION {[1..k -> S] : k \in 0..n}
AnyOrder ==
  [args : Up(4, {Word(<<"ssl">>), Word(<<"tbb">>), Long(<<"ver", "bose">>),
                 Long(<<"use-flags">>), Dashes}),
   world : {Ordinary, [Ordinary EXCEPT !.posix = TRUE]}]

(* Words, all different, and options in any order of seven.                *)
Letters == <<"a", "b", "c", "d", "e", "f", "g">>
Blocks ==
  [args : {[i \in 1..7 |-> IF i \in where THEN Long(<<"ver", "bose">>) ELSE Word(<<Letters[i]>>)]
           : where \in SUBSET (1..7)},
   world : {Ordinary}]

AnyOption ==
  [args : Up(2, {Long(cmdLineOpts[i].name) : i \in {1, 5, 7, 15, 16, 18}} \cup
                {Long(<<"ver">>), Long(<<"package-">>), LongEq(<<>>, <<"ssl">>),
                 LongEq(<<"build-type", "-mapping">>, <<"*", ":", "Debug">>),
                 LongEq(<<"ver", "bose">>, <<>>), Long(<<"nothing">>), Short(<<"v", "h">>),
                 LongEq(<<"install">>, <<"ssl">>), Word(<<"C", ":", "clang">>), Dashes})
     \cup [1..3 -> {Long(<<"file">>), LongEq(<<"file">>, <<"ssl">>), Long(<<"build-type">>),
                    Word(<<"Debug">>), LongEq(<<"install">>, <<"ssl">>), Long(<<"ver">>)}],
   world : {Ordinary}]

Search  == <<LongEq(<<"search-path">>, <<"ssl">>)>>
Find(f) == Search \o <<Long(<<"file">>), Word(f)>>
Install == <<Long(<<"install">>), Word(<<"ssl">>)>>
Useful ==
  {Search, Find(<<"ssl">>), Find(<<"ssl.a">>), Find(<<"lib">>), Install, Install \o Search,
   <<>>, <<Long(<<"help">>)>>, <<Short(<<"v">>)>>, <<Long(<<"package-", "list">>)>>,
   <<Long(<<"compiler", "-flags">>), Word(<<"C", ":", "-O2">>)>>,
   <<Long(<<"compiler">>), Word(<<"gcc">>)>>,
   <<LongEq(<<"search-path">>, <<"gcc">>)>>,
   Install \o <<LongEq(<<"compiler">>, <<"C++", ":", "clang">>)>>,
   Install \o <<Long(<<"package-", "extra-dir">>), Word(<<"src">>)>>,
   Install \o <<Long(<<"package-", "extra-dir">>), Word(<<"src">>),
                LongEq(<<"package-", "extra-dir">>, <<"src">>)>>,
   Install \o <<Long(<<"package-", "root">>), Word(<<"src">>)>>,
   Install \o <<Long(<<"export-cmake">>), Word(<<"out">>), Long(<<"build-type">>),
                Word(<<"Debug", ";", "Release">>)>>,
   Search \o <<Long(<<"build-type">>), Word(<<"Debug", ";", "Release">>)>>,
   Search \o <<LongEq(<<"search-path", "-type">>, <<"posix">>)>>,
   Search \o <<LongEq(<<"search-path", "-type">>, <<"dos">>)>>,
   Install \o <<LongEq(<<"build-type">>, <<>>)>>}

MCChars ==
  {"Linux", "GNU", "x86_64", "arm64", "AMD64", "i686", "loading", "1.1", "2.0", "at",
   "source", "binary", "header", "C", "C++", "D", "NL", "@", ","}

Noise == <<"loading", "NL", "NL">>
Echoes ==
  {[Ordinary EXCEPT !.metaPrints = m, !.defaultVersion = v] :
     m \in {<<>>, Noise}, v \in {<<>>, <<"1.1">>, <<"2.0">>}}
  \cup
  {[Ordinary EXCEPT !.recipePrints = r, !.packageType = t, !.langs = l] :
     r \in {<<>>, Noise, <<"at", "@", "NL">>},
     t \in {<<>>, <<"source">>, <<"binary">>, <<"header">>},
     l \in {<<>>, <<"C">>, <<"C", ",", "C++">>, <<"D">>, <<"C++", ",", ",", "C", ",">>}}
Hosts ==
  {[Ordinary EXCEPT !.sysname = s, !.machine = m] :
     s \in {None, <<>>, <<"Linux", "NL">>, <<"NL", "Linux">>, <<"Linux", "NL", "GNU", "NL">>},
     m \in {None, <<"NL">>, <<"arm64", "NL">>, <<"AMD64", "NL">>, <<"i686", "NL">>}}
Starts ==
  {[Ordinary EXCEPT !.argv0 = a, !.roots = r] :
     a \in {[dir |-> None, in |-> {}], [dir |-> "/src", in |-> {"/src"}],
            [dir |-> "/src", in |-> {"/bin"}]},
     r \in {{}, {<<"home", "self">>}}}
Manifests ==
  {[Ordinary EXCEPT !.manifest = m, !.langs = <<>>, !.packageType = <<"binary">>] :
     m \in {None, <<>>} \cup
           Up(3, {[path |-> <<"bin/", "ssl">>, wellFormed |-> TRUE],
                  [path |-> <<"lib/", "my", "ssl">>, wellFormed |-> TRUE],
                  [path |-> <<"lib/", "ssl.a">>, wellFormed |-> TRUE],
                  [path |-> <<"lib/", "ssl">>, wellFormed |-> FALSE]})}

MCScenarios ==
  AnyOrder \cup Blocks \cup AnyOption
    \cup [args : Useful, world : {Ordinary} \cup Starts]
    \cup [args : {Search, Install}, world : Echoes \cup Hosts]
    \cup [args : {Find(<<"ssl">>), Find(<<"my", "ssl">>)}, world : Manifests]
=============================================================================
