------------------------------ MODULE MsvcProofs -------------------------------
(***************************************************************************)
(* The cache of executables outlives what vcvarsall.bat does to PATH, and  *)
(* the compilers that are found fit together: proved for every environment *)
(* cxx-pm is started in, every PATH and every command line.                *)
(***************************************************************************)
EXTENDS Msvc, SequenceTheorems, WellFoundedInduction, TLAPS

Tools == {"bash", "tar"}

(* The search in a world w; Search is that in the present one.             *)
Matches(w, path, name) == {i \in 1..Len(path) : <<path[i], name>> \in w.programs}
FoundIn(w, path, name) ==
  IF Matches(w, path, name) = {} THEN None
  ELSE path[CHOOSE i \in Matches(w, path, name) : \A j \in Matches(w, path, name) : j <= i]

(* The PATH in which vcvarsall.bat is run, whatever has happened before,   *)
(* and the one in which compilers are searched.                            *)
Base(w) ==
  IF w.preinit = None THEN Append(w.PATH, Bundle)
  ELSE IF Len(w.preinit) < LongPath THEN Append(w.preinit, Bundle) ELSE w.preinit
Through(w) ==
  /\ w.VCInstallDir # None /\ w.vcvars # "missing"
  /\ w.host \in Processors /\ w.target \in Processors
Works(w) == Through(w) /\ w.vcvars = "works" /\ FoundIn(w, Base(w), "cmd") # None
Final(w) ==
  IF ~Through(w) THEN Append(w.PATH, Bundle)
  ELSE IF Works(w) THEN <<<<w.VCInstallDir, w.target>>>> \o Base(w) ELSE Base(w)

Alike(w, a, b) == \A name : FoundIn(w, a, name) = FoundIn(w, b, name)
EndsInBundle(path) == path # <<>> /\ path[Len(path)] = Bundle

-----------------------------------------------------------------------------
(* What a search finds.                                                    *)
LEMMA SearchIs == \A path, name : Search(path, name) = FoundIn(world, path, name)
BY DEF Search, With, FoundIn, Matches

LEMMA HasLargest ==
  ASSUME NEW n \in Nat, NEW M \in SUBSET (1..n), M # {}
  PROVE  \E i \in M : \A j \in M : j <= i
<1> DEFINE T == {n - i : i \in M}
<1> DEFINE R == {ss \in Nat \X Nat : ss[1] < ss[2]}
<1>1. IsWellFoundedOn(R, Nat)
  BY NatLessThanWellFounded DEF OpToRel
<1>2. T \subseteq Nat /\ T # {}
  <2>1. PICK k \in M : TRUE
    OBVIOUS
  <2>2. n - k \in T
    BY <2>1
  <2> QED BY <2>2
<1>3. \E x \in T : \A y \in T : ~(<<y, x>> \in R)
  <2> HIDE DEF T, R
  <2> QED BY <1>1, <1>2, WFMin
<1>4. PICK i \in M : \A y \in T : ~(<<y, n - i>> \in R)
  BY <1>3
<1>5. ASSUME NEW j \in M PROVE j <= i
  <2>1. n - j \in T /\ n - j \in Nat /\ n - i \in Nat
    OBVIOUS
  <2>2. ~(n - j < n - i)
    BY <1>4, <2>1
  <2> QED BY <2>2
<1> QED BY <1>5

LEMMA FindLast ==
  ASSUME NEW w, NEW path \in Seq(Directory), NEW name
  PROVE  \/ /\ FoundIn(w, path, name) = None
            /\ \A i \in 1..Len(path) : <<path[i], name>> \notin w.programs
         \/ \E i \in 1..Len(path) :
              /\ FoundIn(w, path, name) = path[i] /\ <<path[i], name>> \in w.programs
              /\ \A j \in 1..Len(path) : <<path[j], name>> \in w.programs => j <= i
<1> DEFINE M == Matches(w, path, name)
<1>1. CASE M = {}
  BY <1>1 DEF FoundIn, Matches
<1>2. CASE M # {}
  <2>1. \E i \in M : \A j \in M : j <= i
    <3>1. Len(path) \in Nat /\ M \in SUBSET (1..Len(path))
      BY DEF Matches
    <3> HIDE DEF M
    <3> QED BY <1>2, <3>1, HasLargest
  <2> DEFINE i == CHOOSE i \in M : \A j \in M : j <= i
  <2>2. i \in M /\ \A j \in M : j <= i
    BY <2>1
  <2>3. FoundIn(w, path, name) = path[i]
    BY <1>2 DEF FoundIn
  <2> QED
    <3> HIDE DEF i
    <3> QED BY <2>2, <2>3 DEF Matches
<1> QED BY <1>1, <1>2

(* It finds the same in the same programs, so at another time as well.     *)
LEMMA FindIs ==
  ASSUME NEW w, NEW path \in Seq(Directory), NEW name, NEW i \in 1..Len(path),
         <<path[i], name>> \in w.programs,
         \A j \in 1..Len(path) : <<path[j], name>> \in w.programs => j <= i
  PROVE  FoundIn(w, path, name) = path[i]
<1>1. PICK k \in 1..Len(path) :
        /\ FoundIn(w, path, name) = path[k] /\ <<path[k], name>> \in w.programs
        /\ \A j \in 1..Len(path) : <<path[j], name>> \in w.programs => j <= k
  BY FindLast
<1>2. k = i
  BY <1>1
<1> QED BY <1>1, <1>2

LEMMA FindNone ==
  ASSUME NEW w, NEW path \in Seq(Directory), NEW name,
         \A j \in 1..Len(path) : <<path[j], name>> \notin w.programs
  PROVE  FoundIn(w, path, name) = None
BY FindLast

LEMMA FoundIsDirectory ==
  ASSUME NEW w, NEW path \in Seq(Directory), NEW name
  PROVE  FoundIn(w, path, name) \in Directory \cup {None}
<1>1. \A i \in 1..Len(path) : path[i] \in Directory
  OBVIOUS
<1>2. FoundIn(w, path, name) = None \/ \E i \in 1..Len(path) : FoundIn(w, path, name) = path[i]
  BY FindLast
<1> QED BY <1>1, <1>2

(* A directory behind the others is searched first, one in front of them   *)
(* last.                                                                   *)
LEMMA FindAppend ==
  ASSUME NEW w, NEW path \in Seq(Directory), NEW d \in Directory, NEW name
  PROVE  FoundIn(w, Append(path, d), name) =
           IF <<d, name>> \in w.programs THEN d ELSE FoundIn(w, path, name)
<1> DEFINE q == Append(path, d)
<1>1. /\ q \in Seq(Directory) /\ Len(q) = Len(path) + 1 /\ q[Len(path) + 1] = d
      /\ Len(path) \in Nat /\ \A i \in 1..Len(path) : q[i] = path[i]
  OBVIOUS
<1> HIDE DEF q
<1>2. CASE <<d, name>> \in w.programs
  <2>1. FoundIn(w, q, name) = q[Len(path) + 1]
    BY <1>1, <1>2, FindIs
  <2> QED BY <1>1, <1>2, <2>1 DEF q
<1>3. CASE <<d, name>> \notin w.programs
  <2>1. ASSUME NEW j \in 1..Len(q), <<q[j], name>> \in w.programs
        PROVE  j \in 1..Len(path) /\ <<path[j], name>> \in w.programs
    <3>1. j # Len(path) + 1
      BY <1>1, <1>3, <2>1
    <3>2. j \in 1..Len(path)
      BY <1>1, <3>1
    <3> QED BY <1>1, <2>1, <3>2
  <2>2. CASE \A j \in 1..Len(path) : <<path[j], name>> \notin w.programs
    BY <1>1, <1>3, <2>1, <2>2, FindNone DEF q
  <2>3. ASSUME NEW i \in 1..Len(path), FoundIn(w, path, name) = path[i],
               <<path[i], name>> \in w.programs,
               \A j \in 1..Len(path) : <<path[j], name>> \in w.programs => j <= i
        PROVE  FoundIn(w, q, name) = FoundIn(w, path, name)
    <3>1. i \in 1..Len(q) /\ q[i] = path[i] /\ <<q[i], name>> \in w.programs
      BY <1>1, <2>3
    <3>2. \A j \in 1..Len(q) : <<q[j], name>> \in w.programs => j <= i
      BY <2>1, <2>3
    <3>3. FoundIn(w, q, name) = q[i]
      BY <1>1, <3>1, <3>2, FindIs
    <3> QED BY <2>3, <3>1, <3>3
  <2> QED BY <1>3, <2>2, <2>3, FindLast DEF q
<1> QED BY <1>2, <1>3

LEMMA FindBehind ==
  ASSUME NEW w, NEW path \in Seq(Directory), NEW d \in Directory, NEW name
  PROVE  FoundIn(w, <<d>> \o path, name) =
           IF FoundIn(w, path, name) # None THEN FoundIn(w, path, name)
           ELSE IF <<d, name>> \in w.programs THEN d ELSE None
<1> DEFINE q == <<d>> \o path
<1>1. /\ q \in Seq(Directory) /\ Len(q) = Len(path) + 1 /\ q[1] = d
      /\ Len(path) \in Nat /\ \A i \in 1..Len(path) : q[i + 1] = path[i]
  OBVIOUS
<1> HIDE DEF q
<1>2. ASSUME NEW j \in 1..Len(q), j # 1
      PROVE  j - 1 \in 1..Len(path) /\ q[j] = path[j - 1]
  <2>1. j - 1 \in 1..Len(path) /\ (j - 1) + 1 = j
    BY <1>1, <1>2
  <2> QED BY <1>1, <2>1
<1>3. CASE \A j \in 1..Len(path) : <<path[j], name>> \notin w.programs
  <2>1. FoundIn(w, path, name) = None
    BY <1>3, FindNone
  <2>2. CASE <<d, name>> \in w.programs
    <3>1. 1 \in 1..Len(q) /\ \A j \in 1..Len(q) : <<q[j], name>> \in w.programs => j <= 1
      BY <1>1, <1>2, <1>3
    <3>2. FoundIn(w, q, name) = q[1]
      BY <1>1, <2>2, <3>1, FindIs
    <3> QED BY <1>1, <2>1, <2>2, <3>2 DEF q
  <2>3. CASE <<d, name>> \notin w.programs
    <3>1. \A j \in 1..Len(q) : <<q[j], name>> \notin w.programs
      BY <1>1, <1>2, <1>3, <2>3
    <3> QED BY <1>1, <2>1, <2>3, <3>1, FindNone DEF q
  <2> QED BY <2>2, <2>3
<1>4. ASSUME NEW i \in 1..Len(path), FoundIn(w, path, name) = path[i],
             <<path[i], name>> \in w.programs,
             \A j \in 1..Len(path) : <<path[j], name>> \in w.programs => j <= i
      PROVE  FoundIn(w, q, name) = FoundIn(w, path, name) /\ FoundIn(w, path, name) # None
  <2>1. PICK k \in 1..Len(q) : k = i + 1 /\ q[k] = path[i]
    <3>1. i + 1 \in 1..Len(q)
      BY <1>1
    <3>2. q[i + 1] = path[i]
      BY <1>1
    <3> QED BY <3>1, <3>2
  <2>2. ASSUME NEW j \in 1..Len(q), <<q[j], name>> \in w.programs
        PROVE  j <= k
    <3>1. CASE j = 1
      BY <2>1, <3>1
    <3>2. CASE j # 1
      <4>1. j - 1 \in 1..Len(path) /\ q[j] = path[j - 1]
        BY <1>2, <3>2
      <4>2. j - 1 <= i
        BY <1>4, <2>2, <4>1
      <4> QED BY <2>1, <4>2
    <3> QED BY <3>1, <3>2
  <2>3. path[i] # None
    BY WorldAssumption
  <2>4. FoundIn(w, q, name) = q[k]
    <3>1. <<q[k], name>> \in w.programs
      BY <1>4, <2>1
    <3>2. \A j \in 1..Len(q) : <<q[j], name>> \in w.programs => j <= k
      BY <2>2
    <3>3. q \in Seq(Directory)
      BY <1>1
    <3> QED BY <3>1, <3>2, <3>3, FindIs
  <2> QED BY <1>4, <2>1, <2>3, <2>4
<1> QED BY <1>3, <1>4, FindLast DEF q

-----------------------------------------------------------------------------
(* The search paths of a world.                                            *)
Short(w) == w.preinit = None \/ Len(w.preinit) < LongPath

(* A tool that is anywhere is in the bundle.                               *)
BundleHas(w) ==
  \A name \in Tools :
    (\E d \in Directory : <<d, name>> \in w.programs) => <<Bundle, name>> \in w.programs

LEMMA ToolSearch ==
  ASSUME NEW w, NEW path \in Seq(Directory), EndsInBundle(path), BundleHas(w),
         NEW name \in Tools
  PROVE  FoundIn(w, path, name) = IF <<Bundle, name>> \in w.programs THEN Bundle ELSE None
<1>1. Len(path) \in Nat /\ Len(path) # 0 /\ path[Len(path)] = Bundle
  BY DEF EndsInBundle
<1>2. CASE <<Bundle, name>> \in w.programs
  <2>1. PICK i \in 1..Len(path) : i = Len(path)
    BY <1>1
  <2>2. <<path[i], name>> \in w.programs /\ path[i] = Bundle
    BY <1>1, <1>2, <2>1
  <2>3. \A j \in 1..Len(path) : <<path[j], name>> \in w.programs => j <= i
    BY <2>1
  <2>4. FoundIn(w, path, name) = path[i]
    BY <2>2, <2>3, FindIs
  <2> QED BY <1>2, <2>2, <2>4
<1>3. CASE <<Bundle, name>> \notin w.programs
  <2>1. \A i \in 1..Len(path) : path[i] \in Directory
    OBVIOUS
  <2>2. \A i \in 1..Len(path) : <<path[i], name>> \notin w.programs
    BY <1>3, <2>1 DEF BundleHas
  <2> QED BY <1>3, <2>2, FindNone
<1> QED BY <1>2, <1>3

LEMMA AppendBundle ==
  ASSUME NEW path \in Seq(Directory)
  PROVE  Append(path, Bundle) \in Seq(Directory) /\ EndsInBundle(Append(path, Bundle))
<1> DEFINE q == Append(path, Bundle)
<1>1. /\ q \in Seq(Directory) /\ Len(q) = Len(path) + 1 /\ q[Len(path) + 1] = Bundle
      /\ Len(path) \in Nat
  BY WorldAssumption
<1>2. q # <<>>
  <2>1. Len(q) # 0 /\ Len(<<>>) = 0
    <3> HIDE DEF q
    <3> QED BY <1>1
  <2> QED BY <2>1
<1> QED BY <1>1, <1>2 DEF EndsInBundle

LEMMA FrontOfBundle ==
  ASSUME NEW path \in Seq(Directory), NEW d \in Directory
  PROVE  /\ <<d>> \o path \in Seq(Directory)
         /\ EndsInBundle(path) => EndsInBundle(<<d>> \o path)
<1> DEFINE q == <<d>> \o path
<1>1. /\ q \in Seq(Directory) /\ Len(q) = Len(path) + 1
      /\ Len(path) \in Nat /\ \A i \in 1..Len(path) : q[i + 1] = path[i]
  OBVIOUS
<1>2. ASSUME EndsInBundle(path) PROVE EndsInBundle(q)
  <2> HIDE DEF q
  <2>1. Len(path) # 0 /\ path[Len(path)] = Bundle
    BY <1>2 DEF EndsInBundle
  <2>2. Len(path) \in 1..Len(path)
    BY <1>1, <2>1
  <2>3. q[Len(q)] = Bundle
    BY <1>1, <2>1, <2>2
  <2>4. q # <<>>
    <3>1. Len(q) # 0 /\ Len(<<>>) = 0
      BY <1>1
    <3> QED BY <3>1
  <2> QED BY <2>3, <2>4 DEF EndsInBundle
<1> QED BY <1>1, <1>2

LEMMA BaseIsPath ==
  ASSUME NEW w \in Worlds
  PROVE  Base(w) \in Seq(Directory) /\ (Short(w) => EndsInBundle(Base(w)))
<1>1. w.PATH \in Seq(Directory) /\ w.preinit \in Seq(Directory) \cup {None}
  BY WorldAssumption
<1>2. CASE w.preinit = None
  BY <1>1, <1>2, AppendBundle DEF Base
<1>3. CASE w.preinit # None
  BY <1>1, <1>3, AppendBundle DEF Base, Short
<1> QED BY <1>2, <1>3

LEMMA FinalIsPath ==
  ASSUME NEW w \in Worlds
  PROVE  Final(w) \in Seq(Directory) /\ (Short(w) => EndsInBundle(Final(w)))
<1>1. w.PATH \in Seq(Directory) /\ (w.VCInstallDir # None => <<w.VCInstallDir, w.target>> \in Directory)
  BY WorldAssumption
<1>2. CASE ~Through(w)
  BY <1>1, <1>2, AppendBundle DEF Final
<1>3. CASE Through(w) /\ Works(w)
  BY <1>1, <1>3, BaseIsPath, FrontOfBundle DEF Final, Through
<1>4. CASE Through(w) /\ ~Works(w)
  BY <1>4, BaseIsPath DEF Final
<1> QED BY <1>2, <1>3, <1>4

(* The directory of cl.exe changes nothing for what was found without it;  *)
(* so cmd.exe stays the same.                                              *)
LEMMA CmdStays ==
  ASSUME NEW w \in Worlds, Through(w)
  PROVE  FoundIn(w, Final(w), "cmd") = FoundIn(w, Base(w), "cmd")
<1>1. CASE Works(w)
  <2>1. <<w.VCInstallDir, w.target>> \in Directory
    BY WorldAssumption DEF Through
  <2>2. FoundIn(w, <<<<w.VCInstallDir, w.target>>>> \o Base(w), "cmd") = FoundIn(w, Base(w), "cmd")
    BY <1>1, <2>1, BaseIsPath, FindBehind DEF Works
  <2> QED BY <1>1, <2>2 DEF Final
<1>2. CASE ~Works(w)
  BY <1>2 DEF Final
<1> QED BY <1>1, <1>2

(* The bundle behind itself is searched no differently.                    *)
LEMMA TwiceIsAlike ==
  ASSUME NEW w, NEW path \in Seq(Directory)
  PROVE  Alike(w, Append(Append(path, Bundle), Bundle), Append(path, Bundle))
<1>1. Bundle \in Directory /\ Append(path, Bundle) \in Seq(Directory)
  BY WorldAssumption, AppendBundle
<1> SUFFICES ASSUME NEW name
             PROVE  FoundIn(w, Append(Append(path, Bundle), Bundle), name)
                      = FoundIn(w, Append(path, Bundle), name)
  BY DEF Alike
<1>2. FoundIn(w, Append(path, Bundle), name) =
        IF <<Bundle, name>> \in w.programs THEN Bundle ELSE FoundIn(w, path, name)
  BY <1>1, FindAppend
<1>3. FoundIn(w, Append(Append(path, Bundle), Bundle), name) =
        IF <<Bundle, name>> \in w.programs THEN Bundle
        ELSE FoundIn(w, Append(path, Bundle), name)
  BY <1>1, FindAppend
<1> QED BY <1>2, <1>3

LEMMA FrontIsAlike ==
  ASSUME NEW w, NEW a \in Seq(Directory), NEW b \in Seq(Directory), NEW d \in Directory,
         Alike(w, a, b)
  PROVE  Alike(w, <<d>> \o a, <<d>> \o b)
<1> SUFFICES ASSUME NEW name
             PROVE  FoundIn(w, <<d>> \o a, name) = FoundIn(w, <<d>> \o b, name)
  BY DEF Alike
<1>1. FoundIn(w, a, name) = FoundIn(w, b, name)
  BY DEF Alike
<1>2. FoundIn(w, <<d>> \o a, name) =
        IF FoundIn(w, a, name) # None THEN FoundIn(w, a, name)
        ELSE IF <<d, name>> \in w.programs THEN d ELSE None
  BY FindBehind
<1>3. FoundIn(w, <<d>> \o b, name) =
        IF FoundIn(w, b, name) # None THEN FoundIn(w, b, name)
        ELSE IF <<d, name>> \in w.programs THEN d ELSE None
  BY FindBehind
<1> QED BY <1>1, <1>2, <1>3

-----------------------------------------------------------------------------
(* The environment and the cache.  Once a Visual Studio is given, PATH is  *)
(* Base whenever vcvarsall.bat is run, and Final when compilers are tried. *)
Trying == {"initialized", "cl", "noMsvc", "msvcFound", "named", "gcc", "clang"}

Env ==
  /\ world \in Worlds
  /\ PATH \in Seq(Directory) /\ AllPath = PATH
  /\ preinit \in {world.preinit, Append(world.PATH, Bundle)}
  /\ preinit = world.preinit \/ world.preinit = None
  /\ pc = "bundle" => PATH = world.PATH /\ preinit = world.preinit
  /\ pc \notin {"bundle", "done"} =>
       /\ ~Through(world) \/ preinit = None => PATH = Append(world.PATH, Bundle)
       /\ Short(world) => EndsInBundle(PATH)
  /\ pc \in {"restore", "vcvars", "initialized"} => Through(world)
  /\ pc = "vcvars" => Alike(world, PATH, Base(world))
  /\ pc \in Trying => Alike(world, PATH, Final(world))

(* What the rest of a run holds of a name: for the two tools, only if the  *)
(* bundle has them and its PATH has not been cut.                          *)
Steady(name) == name \notin Tools \/ (Short(world) /\ BundleHas(world))
Remembered ==
  \A name \in DOMAIN Cache :
    /\ Cache[name] \in Directory
    /\ Steady(name) => Cache[name] = FoundIn(world, Final(world), name)

LEMMA LookupIs ==
  ASSUME Env, Remembered, NEW name,
         Steady(name) => FoundIn(world, PATH, name) = FoundIn(world, Final(world), name)
  PROVE  /\ Lookup(name) \in Directory \cup {None}
         /\ Steady(name) => Lookup(name) = FoundIn(world, PATH, name)
<1>1. PATH \in Seq(Directory) /\ AllPath = PATH
  BY DEF Env
<1>2. Search(AllPath, name) = FoundIn(world, PATH, name)
  BY <1>1, SearchIs
<1>3. FoundIn(world, PATH, name) \in Directory \cup {None}
  BY <1>1, FoundIsDirectory
<1> QED BY <1>2, <1>3 DEF Lookup, Remembered

LEMMA RememberKeeps ==
  ASSUME Env, Remembered, NEW name, Remember(name), world' = world,
         Steady(name) => FoundIn(world, PATH, name) = FoundIn(world, Final(world), name)
  PROVE  Remembered'
<1>1. /\ Lookup(name) \in Directory \cup {None}
      /\ Steady(name) => Lookup(name) = FoundIn(world, Final(world), name)
  BY LookupIs
<1>2. CASE Lookup(name) = None
  BY <1>2 DEF Remember, Remembered, Steady
<1>3. CASE Lookup(name) # None
  <2>1. Cache' = [n \in DOMAIN Cache \cup {name} |-> Lookup(n)]
    BY <1>3 DEF Remember
  <2>2. DOMAIN Cache' = DOMAIN Cache \cup {name}
    BY <2>1
  <2>3. ASSUME NEW n \in DOMAIN Cache'
        PROVE  /\ Cache'[n] \in Directory
               /\ Steady(n) => Cache'[n] = FoundIn(world, Final(world), n)
    BY <1>1, <1>3, <2>1, <2>2, <2>3 DEF Remembered, Lookup
  <2>4. \A n : Steady(n)' <=> Steady(n)
    BY DEF Steady
  <2> QED BY <2>3, <2>4 DEF Remembered
<1> QED BY <1>2, <1>3

LEMMA KeepCache == Remembered /\ UNCHANGED <<world, Cache>> => Remembered'
BY DEF Remembered, Steady

(* The tools are sought where the bundle ends PATH, compilers where PATH   *)
(* is Final, and cmd.exe where it is Base.                                 *)
LEMMA ToolsSteady ==
  ASSUME Env, pc \notin {"bundle", "done"}, NEW name \in Tools, Steady(name)
  PROVE  FoundIn(world, PATH, name) = FoundIn(world, Final(world), name)
<1>1. Short(world) /\ BundleHas(world) /\ EndsInBundle(PATH) /\ PATH \in Seq(Directory)
  BY DEF Env, Steady
<1>2. Final(world) \in Seq(Directory) /\ EndsInBundle(Final(world))
  BY <1>1, FinalIsPath DEF Env
<1> QED BY <1>1, <1>2, ToolSearch

LEMMA CompilersSteady ==
  ASSUME Env, pc \in Trying, NEW name
  PROVE  FoundIn(world, PATH, name) = FoundIn(world, Final(world), name)
BY DEF Env, Alike

LEMMA CmdSteady ==
  ASSUME Env, pc = "vcvars"
  PROVE  /\ FoundIn(world, PATH, "cmd") = FoundIn(world, Final(world), "cmd")
         /\ FoundIn(world, PATH, "cmd") = FoundIn(world, Base(world), "cmd")
<1>1. Through(world) /\ world \in Worlds /\ Alike(world, PATH, Base(world))
  BY DEF Env
<1> QED BY <1>1, CmdStays DEF Alike

LEMMA InitEnv == Init => Env /\ Remembered
<1> SUFFICES ASSUME Init PROVE Env /\ Remembered
  OBVIOUS
<1>1. Env
  BY WorldAssumption DEF Init, Env, Trying
<1>2. Remembered
  BY DEF Init, Remembered
<1> QED BY <1>1, <1>2

LEMMA BundleEnv == Env /\ Remembered /\ AddBundle => Env' /\ Remembered'
<1> SUFFICES ASSUME Env, Remembered, AddBundle PROVE Env' /\ Remembered'
  OBVIOUS
<1>1. Remembered'
  BY KeepCache DEF AddBundle
<1>2. CASE pc' = "done" /\ UNCHANGED <<PATH, AllPath>>
  <2>1. UNCHANGED <<world, preinit>>
    BY DEF AddBundle
  <2> QED BY <1>1, <1>2, <2>1 DEF Env, Trying
<1>3. CASE PATH' = Append(PATH, Bundle) /\ UpdatePath /\ pc' = "inspect"
  <2>1. /\ PATH' \in Seq(Directory) /\ EndsInBundle(PATH') /\ AllPath' = PATH'
        /\ PATH' = Append(world.PATH, Bundle)
    BY <1>3, AppendBundle DEF Env, AddBundle, UpdatePath
  <2>2. UNCHANGED <<world, preinit>>
    BY DEF AddBundle
  <2> QED BY <1>1, <1>3, <2>1, <2>2 DEF Env, Trying
<1> QED BY <1>1, <1>2, <1>3 DEF AddBundle, Goto, Exit

(* Steps that leave the environment alone.                                 *)
LEMMA SameEnv ==
  ASSUME Env, UNCHANGED <<world, PATH, preinit, AllPath>>, pc # "bundle", pc # "done",
         pc' # "bundle", pc' \in {"restore", "initialized"} => Through(world),
         pc' # "vcvars", pc' \in Trying => Alike(world, PATH, Final(world))
  PROVE  Env'
BY DEF Env

LEMMA InspectEnv == Env /\ Remembered /\ Inspect => Env' /\ Remembered'
<1> SUFFICES ASSUME Env, Remembered, Inspect PROVE Env' /\ Remembered'
  OBVIOUS
<1>1. /\ pc = "inspect" /\ pc' \in {"language", "done"} /\ Remember("bash")
      /\ UNCHANGED <<world, PATH, preinit, AllPath>>
  BY DEF Inspect, Goto, Exit, environment
<1>2. Env'
  BY <1>1, SameEnv DEF Trying
<1>3. Remembered'
  BY <1>1, RememberKeeps, ToolsSteady DEF Tools
<1> QED BY <1>2, <1>3

LEMMA DownloadEnv == Env /\ Remembered /\ Download => Env' /\ Remembered'
<1> SUFFICES ASSUME Env, Remembered, Download PROVE Env' /\ Remembered'
  OBVIOUS
<1>1. /\ pc = "download" /\ pc' = "done" /\ Remember("tar")
      /\ UNCHANGED <<world, PATH, preinit, AllPath>>
  BY DEF Download, Exit, environment
<1>2. Env'
  BY <1>1, SameEnv DEF Trying
<1>3. Remembered'
  BY <1>1, RememberKeeps, ToolsSteady DEF Tools
<1> QED BY <1>2, <1>3

LEMMA LanguageEnv == Env /\ Remembered /\ (NextLanguage \/ CheckTogether) => Env' /\ Remembered'
<1> SUFFICES ASSUME Env, Remembered, NextLanguage \/ CheckTogether PROVE Env' /\ Remembered'
  OBVIOUS
<1>1. /\ pc = "language" /\ pc' \in {"language", "msvc", "inspect", "download", "done"}
      /\ UNCHANGED <<world, PATH, preinit, AllPath, Cache>>
  BY DEF NextLanguage, CheckTogether, Goto, Exit, environment, pathCache
<1> QED BY <1>1, SameEnv, KeepCache DEF Trying

LEMMA CheckVcvarsEnv == Env /\ Remembered /\ CheckVcvars => Env' /\ Remembered'
<1> SUFFICES ASSUME Env, Remembered, CheckVcvars PROVE Env' /\ Remembered'
  OBVIOUS
<1>1. /\ pc = "msvc" /\ UNCHANGED <<world, PATH, preinit, AllPath, Cache>>
      /\ pc' = IF Through(world) THEN "restore" ELSE "noMsvc"
  BY DEF CheckVcvars, Goto, environment, pathCache, Through, vcvarsPlatform
<1>2. ~Through(world) => PATH = Final(world)
  BY <1>1 DEF Env, Final
<1> QED BY <1>1, <1>2, SameEnv, KeepCache DEF Alike, Trying

LEMMA RestoreEnv == Env /\ Remembered /\ RestorePath => Env' /\ Remembered'
<1> SUFFICES ASSUME Env, Remembered, RestorePath PROVE Env' /\ Remembered'
  OBVIOUS
<1>1. /\ pc = "restore" /\ pc' = "vcvars" /\ UNCHANGED <<world, preinit, Cache>>
      /\ Through(world) /\ world \in Worlds /\ PATH \in Seq(Directory)
      /\ preinit = world.preinit \/ (world.preinit = None /\ preinit = Append(world.PATH, Bundle))
  BY DEF Env, RestorePath, Goto
<1>2. /\ world.PATH \in Seq(Directory) /\ world.preinit \in Seq(Directory) \cup {None}
      /\ Base(world) \in Seq(Directory) /\ (Short(world) => EndsInBundle(Base(world)))
  BY <1>1, WorldAssumption, BaseIsPath
<1>3. /\ PATH' \in Seq(Directory) /\ AllPath' = PATH'
      /\ Alike(world, PATH', Base(world)) /\ (Short(world) => EndsInBundle(PATH'))
      /\ preinit = None => PATH' = Append(world.PATH, Bundle)
  <2>1. CASE preinit = None /\ UNCHANGED <<PATH, AllPath>>
    <3>1. Append(world.PATH, Bundle) # None
      BY <1>2, AppendBundle, WorldAssumption
    <3> QED BY <1>1, <2>1 DEF Env, Base, Alike
  <2>2. CASE preinit # None /\ Len(preinit) >= LongPath /\ PATH' = preinit /\ UpdatePath
    <3>1. preinit = Base(world)
      BY <1>1, <1>2, <2>2, WorldAssumption DEF Base
    <3> QED BY <1>2, <2>2, <3>1 DEF UpdatePath, Alike
  <2>3. CASE preinit # None /\ Len(preinit) < LongPath
             /\ PATH' = Append(preinit, Bundle) /\ UpdatePath
    <3>1. CASE preinit = world.preinit
      <4>1. PATH' = Base(world)
        BY <2>3, <3>1 DEF Base
      <4> QED BY <1>2, <2>3, <4>1 DEF UpdatePath, Alike
    <3>2. CASE world.preinit = None /\ preinit = Append(world.PATH, Bundle)
      <4>1. PATH' = Append(Append(world.PATH, Bundle), Bundle) /\ Base(world) = Append(world.PATH, Bundle)
        BY <2>3, <3>2 DEF Base
      <4>2. PATH' \in Seq(Directory) /\ EndsInBundle(PATH')
        BY <1>2, <4>1, AppendBundle
      <4>3. Alike(world, PATH', Base(world))
        BY <1>2, <4>1, TwiceIsAlike
      <4> QED BY <2>3, <4>2, <4>3 DEF UpdatePath
    <3> QED BY <1>1, <3>1, <3>2
  <2> QED BY <2>1, <2>2, <2>3 DEF RestorePath
<1>4. Env'
  BY <1>1, <1>3 DEF Env, Trying
<1> QED BY <1>1, <1>4, KeepCache

LEMMA VcvarsEnv == Env /\ Remembered /\ RunVcvars => Env' /\ Remembered'
<1> SUFFICES ASSUME Env, Remembered, RunVcvars PROVE Env' /\ Remembered'
  OBVIOUS
<1>1. /\ pc = "vcvars" /\ Remember("cmd") /\ UNCHANGED world
      /\ Through(world) /\ world \in Worlds /\ PATH \in Seq(Directory)
      /\ Alike(world, PATH, Base(world))
  BY DEF Env, RunVcvars
<1>2. Remembered'
  BY <1>1, CmdSteady, RememberKeeps
<1>3. Lookup("cmd") = FoundIn(world, Base(world), "cmd")
  BY <1>1, CmdSteady, LookupIs DEF Steady, Tools
<1>4. CASE /\ Lookup("cmd") # None /\ world.vcvars = "works"
           /\ PATH' = <<<<world.VCInstallDir, world.target>>>> \o PATH
           /\ preinit' = (IF preinit = None THEN PATH ELSE preinit)
           /\ UpdatePath /\ pc' = "initialized"
  <2>1. <<world.VCInstallDir, world.target>> \in Directory
    BY <1>1, WorldAssumption DEF Through
  <2>2. Final(world) = <<<<world.VCInstallDir, world.target>>>> \o Base(world)
    BY <1>1, <1>3, <1>4 DEF Final, Works
  <2>3. Base(world) \in Seq(Directory)
    BY <1>1, BaseIsPath
  <2>4. Alike(world, PATH', Final(world))
    BY <1>1, <1>4, <2>1, <2>2, <2>3, FrontIsAlike
  <2>5. PATH' \in Seq(Directory) /\ (Short(world) => EndsInBundle(PATH'))
    BY <1>1, <1>4, <2>1, FrontOfBundle DEF Env
  <2>6. /\ preinit' \in {world.preinit, Append(world.PATH, Bundle)}
        /\ preinit' = world.preinit \/ world.preinit = None
        /\ preinit' # None
    <3>1. CASE preinit = None
      <4>1. PATH = Append(world.PATH, Bundle) /\ world.preinit = None
        BY <1>1, <3>1 DEF Env
      <4>2. PATH # None
        BY <1>1, WorldAssumption
      <4> QED BY <1>4, <3>1, <4>1, <4>2
    <3>2. CASE preinit # None
      BY <1>4, <3>2 DEF Env
    <3> QED BY <3>1, <3>2
  <2> QED BY <1>1, <1>2, <1>4, <2>4, <2>5, <2>6 DEF Env, UpdatePath, Trying
<1>5. CASE /\ world.vcvars = "breaks" /\ PATH' = PATH /\ preinit' = preinit
           /\ UpdatePath /\ pc' = "initialized"
  <2>1. Final(world) = Base(world)
    BY <1>1, <1>5 DEF Final, Works
  <2> QED BY <1>1, <1>2, <1>5, <2>1, SameEnv DEF Env, UpdatePath, Trying
<1>6. CASE /\ Lookup("cmd") = None \/ world.vcvars = "fails"
           /\ pc' = "noMsvc" /\ UNCHANGED <<PATH, preinit, AllPath>>
  <2>1. Final(world) = Base(world)
    BY <1>1, <1>3, <1>6 DEF Final, Works
  <2> QED BY <1>1, <1>2, <1>6, <2>1, SameEnv DEF Trying
<1> QED BY <1>4, <1>5, <1>6 DEF RunVcvars, Goto, environment

LEMMA InitializedEnv ==
  Env /\ Remembered /\ (Initialized \/ NoMsvc \/ MsvcFound) => Env' /\ Remembered'
<1> SUFFICES ASSUME Env, Remembered, Initialized \/ NoMsvc \/ MsvcFound
             PROVE  Env' /\ Remembered'
  OBVIOUS
<1>1. /\ UNCHANGED <<world, PATH, preinit, AllPath, Cache>>
      /\ pc' \in {"cl", "noMsvc", "named", "gcc", "language", "done"}
      /\ pc \in Trying \/ (pc = "msvc" /\ ~Through(world))
  BY DEF Initialized, NoMsvc, MsvcFound, Goto, Exit, environment, pathCache, Trying, Through
<1>2. CASE pc \in Trying
  BY <1>1, <1>2, SameEnv, KeepCache DEF Env, Trying
<1>3. CASE pc = "msvc" /\ ~Through(world)
  <2>1. PATH = Final(world)
    BY <1>3 DEF Env, Final
  <2> QED BY <1>1, <1>3, <2>1, SameEnv, KeepCache DEF Alike
<1> QED BY <1>1, <1>2, <1>3

LEMMA TryEnv == Env /\ Remembered /\ (LoadCl \/ LoadGNU) => Env' /\ Remembered'
<1> SUFFICES ASSUME Env, Remembered, LoadCl \/ LoadGNU PROVE Env' /\ Remembered'
  OBVIOUS
<1>1. /\ UNCHANGED <<world, PATH, preinit, AllPath>> /\ pc \in Trying
      /\ pc' \in {"noMsvc", "msvcFound", "language", "clang", "done"}
  <2>1. CASE LoadCl
    <3>1. world.banner \in {"known", "translated", "silent"}
      BY WorldAssumption DEF Env
    <3>2. pc' \in {"noMsvc", "msvcFound"}
      BY <2>1, <3>1 DEF LoadCl, Goto
    <3> QED BY <2>1, <3>2 DEF LoadCl, environment, Trying
  <2>2. CASE LoadGNU
    BY <2>2 DEF LoadGNU, Goto, Exit, environment, Trying
  <2> QED BY <2>1, <2>2
<1>2. Env'
  BY <1>1, SameEnv DEF Env, Trying
<1>3. UNCHANGED Cache \/ \E name : Remember(name)
  BY DEF LoadCl, LoadGNU
<1>4. Remembered'
  BY <1>1, <1>3, RememberKeeps, KeepCache, CompilersSteady
<1> QED BY <1>2, <1>4

LEMMA NextEnv == Env /\ Remembered /\ [Next]_vars => Env' /\ Remembered'
<1> SUFFICES ASSUME Env, Remembered, [Next]_vars PROVE Env' /\ Remembered'
  OBVIOUS
<1>1. CASE UNCHANGED vars
  <2>1. UNCHANGED <<world, PATH, preinit, AllPath, Cache, pc>>
    BY <1>1 DEF vars, environment, pathCache
  <2> QED BY <2>1, KeepCache DEF Env
<1>2. CASE Next
  BY <1>2, BundleEnv, InspectEnv, DownloadEnv, LanguageEnv, CheckVcvarsEnv, RestoreEnv,
     VcvarsEnv, InitializedEnv, TryEnv DEF Next
<1> QED BY <1>1, <1>2

(* Whoever installs cxx-pm gets bash and tar with it: what is anywhere in  *)
(* the search path is also in the bundle.                                  *)
BundleHasTools == \A w \in Worlds : BundleHas(w)

(* bash and tar are those of the bundle in every environment and in every  *)
(* order of languages and packages, however often vcvarsall.bat and a      *)
(* developer prompt have changed PATH (main.cpp:839, msvc.cpp:123).        *)
THEOREM BundleToolsRun == BundleHasTools => (Spec => []ToolsOfBundle)
<1> SUFFICES ASSUME BundleHasTools PROVE Spec => []ToolsOfBundle
  OBVIOUS
<1>1. Env /\ Remembered => ToolsOfBundle
  <2> SUFFICES ASSUME Env, Remembered, ShortPath, NEW name \in DOMAIN Cache \cap {"bash", "tar"}
               PROVE  Cache[name] = Bundle
    BY DEF ToolsOfBundle
  <2>1. Short(world) /\ BundleHas(world) /\ world \in Worlds /\ name \in Tools
    BY DEF ShortPath, Short, Env, BundleHasTools, Tools
  <2>2. Cache[name] = FoundIn(world, Final(world), name) /\ Cache[name] # None
    BY <2>1, WorldAssumption DEF Remembered, Steady
  <2>3. Final(world) \in Seq(Directory) /\ EndsInBundle(Final(world))
    BY <2>1, FinalIsPath
  <2> QED BY <2>1, <2>2, <2>3, ToolSearch
<1> QED BY <1>1, InitEnv, NextEnv, PTL DEF Spec

(* The cache is never emptied and never wrong: every command is run from   *)
(* where a search of the PATH of that moment would find it (exec.cpp:48).  *)
THEOREM CacheStaysFresh == BundleHasTools => (Spec => []CacheFresh)
<1> SUFFICES ASSUME BundleHasTools PROVE Spec => []CacheFresh
  OBVIOUS
<1>1. Env /\ Remembered => CacheFresh
  <2> SUFFICES ASSUME Env, Remembered, ShortPath, NEW name \in Sought
               PROVE  Lookup(name) = Search(PATH, name)
    BY DEF CacheFresh
  <2>1. Short(world) /\ BundleHas(world)
    BY DEF ShortPath, Short, Env, BundleHasTools
  <2>2. Steady(name)
    BY <2>1 DEF Steady
  <2>3. FoundIn(world, PATH, name) = FoundIn(world, Final(world), name)
    <3>1. CASE pc = "inspect" \/ pc = "download"
      <4>1. name \in Tools
        BY <3>1 DEF Sought, Tools
      <4> QED BY <2>2, <3>1, <4>1, ToolsSteady
    <3>2. CASE pc = "vcvars"
      BY <3>2, CmdSteady DEF Sought
    <3>3. CASE pc \in Trying
      BY <3>3, CompilersSteady
    <3> QED BY <3>1, <3>2, <3>3 DEF Sought, Trying
  <2> QED BY <2>2, <2>3, LookupIs, SearchIs
<1> QED BY <1>1, InitEnv, NextEnv, PTL DEF Spec

-----------------------------------------------------------------------------
(* The compilers.                                                          *)
Infos ==
  [Command : Commands \cup {None}, Id : (Names \X Directory) \cup {None},
   SubType : {"", "msvc", "mingw-w64"},
   arch : {None} \cup {w.target : w \in Worlds} \cup {d[2] : d \in Directory}]

(* One language is being looked at.                                        *)
Body == {"msvc", "restore", "vcvars"} \cup Trying

Typed ==
  /\ compilers \in [Languages -> Infos]
  /\ package \in 1..Len(world.packages) /\ lang \in Nat \ {0}
  /\ named \in BOOLEAN
  /\ pc \in Body \cup {"bundle", "inspect", "language", "download", "done"}
  /\ pc \in Body => lang <= Len(Langs)
  /\ pc \in Body /\ named => Info.Command # None
  /\ pc = "named" => named

LEMMA WorldIs ==
  ASSUME NEW w \in Worlds
  PROVE  /\ w.packages \in Seq(Seq(Languages)) /\ Len(w.packages) \in Nat \ {0}
         /\ \A k \in 1..Len(w.packages) : w.packages[k] \in Seq(Languages)
         /\ w.banner \in {"known", "translated", "silent"}
<1>1. w.packages \in Seq(Seq(Languages)) /\ w.packages # <<>>
  BY WorldAssumption
<1>2. Len(w.packages) \in Nat \ {0}
  <2> DEFINE q == w.packages
  <2>1. q \in Seq(Seq(Languages)) /\ q # <<>>
    BY <1>1
  <2> HIDE DEF q
  <2>2. Len(q) \in Nat \ {0}
    BY <2>1
  <2> QED BY <2>2 DEF q
<1>3. \A k \in 1..Len(w.packages) : w.packages[k] \in Seq(Languages)
  BY <1>1
<1> QED BY <1>1, <1>2, <1>3, WorldAssumption

LEMMA LangIs ==
  ASSUME Env, Typed
  PROVE  /\ Langs \in Seq(Languages) /\ Len(Langs) \in Nat
         /\ lang <= Len(Langs) => Lang \in Languages /\ Info \in Infos
         /\ pc \in Body => Lang \in Languages /\ Info \in Infos
<1>1. Langs \in Seq(Languages)
  BY WorldIs DEF Env, Typed, Langs
<1>2. Len(Langs) \in Nat /\ (lang <= Len(Langs) => Lang \in Languages)
  BY <1>1 DEF Typed, Lang
<1> QED BY <1>1, <1>2 DEF Typed, Info

LEMMA SetInfoIs ==
  ASSUME Env, Typed, pc \in Body, NEW info \in Infos, SetInfo(info)
  PROVE  /\ compilers' \in [Languages -> Infos] /\ compilers'[Lang] = info
         /\ \A l \in Languages : l # Lang => compilers'[l] = compilers[l]
BY LangIs DEF Typed, SetInfo

(* A cl that is found takes the place of the command in any case; what is  *)
(* known of the compiler besides only if its banner is one.                *)
LEMMA ClIs ==
  ASSUME Env, Remembered, Typed, LoadCl
  PROVE  /\ pc = "cl" /\ UNCHANGED <<world, prompt, package, lang, named, toolset>>
         /\ \E info \in Infos :
              /\ SetInfo(info) /\ info.Command # None /\ info.Command[2] = "cl"
              /\ \/ /\ pc' = "noMsvc" /\ info.SubType = Info.SubType /\ info.Id = Info.Id
                    /\ Lookup("cl") = None \/ world.banner = "silent"
                 \/ /\ pc' = "msvcFound" /\ info.SubType = "msvc"
                    /\ info.Command = <<Lookup("cl"), "cl">>
                    /\ Lookup("cl") # None /\ world.banner \in {"known", "translated"}
<1> DEFINE dir == Lookup("cl")
<1>1. pc = "cl" /\ UNCHANGED <<world, prompt, package, lang, named, toolset>>
  BY DEF LoadCl, environment
<1>2. /\ dir \in Directory \cup {None} /\ Info \in Infos
      /\ world \in Worlds /\ world.banner \in {"known", "translated", "silent"}
  <2>1. dir \in Directory \cup {None}
    BY <1>1, LookupIs, CompilersSteady DEF Trying
  <2> QED BY <1>1, <2>1, LangIs, WorldIs DEF Body, Trying, Env
<1>3. \A d \in Directory \cup {None} : <<d, "cl">> \in Commands /\ <<d, "cl">> # None
  BY WorldAssumption DEF Commands, Names
<1>4. CASE dir = None
  <2> DEFINE i == [Info EXCEPT !.Command = Relative("cl")]
  <2>1. SetInfo(i) /\ pc' = "noMsvc"
    BY <1>2, <1>4 DEF LoadCl, Goto
  <2>2. i \in Infos /\ i.Command = <<None, "cl">> /\ i.SubType = Info.SubType /\ i.Id = Info.Id
    BY <1>2, <1>3 DEF Infos, Relative
  <2>3. i.Command # None /\ i.Command[2] = "cl"
    BY <1>3, <2>2
  <2> HIDE DEF i
  <2> QED BY <1>1, <1>4, <2>1, <2>2, <2>3
<1>5. CASE dir # None /\ world.banner = "silent"
  <2> DEFINE i == [Info EXCEPT !.Command = <<dir, "cl">>]
  <2>1. SetInfo(i) /\ pc' = "noMsvc"
    BY <1>2, <1>5 DEF LoadCl, Goto
  <2>2. i \in Infos /\ i.Command = <<dir, "cl">> /\ i.SubType = Info.SubType /\ i.Id = Info.Id
    BY <1>2, <1>3 DEF Infos
  <2>3. i.Command # None /\ i.Command[2] = "cl"
    BY <1>2, <1>3, <2>2
  <2> HIDE DEF i
  <2> QED BY <1>1, <1>5, <2>1, <2>2, <2>3
<1>6. CASE dir # None /\ world.banner \in {"known", "translated"}
  <2>1. PICK id \in {<<"cl", dir>>, None}, arch \in {dir[2], None} :
          SetInfo(Cl(dir, id, arch)) /\ pc' = "msvcFound"
    BY <1>2, <1>6 DEF LoadCl, Goto
  <2>2. Cl(dir, id, arch) \in Infos
    <3>1. dir \in Directory /\ "cl" \in Names
      BY <1>2, <1>6 DEF Names
    <3> QED BY <1>3, <2>1, <3>1 DEF Cl, Infos
  <2>3. Cl(dir, id, arch).Command = <<dir, "cl">> /\ Cl(dir, id, arch).SubType = "msvc"
    BY DEF Cl
  <2> QED BY <1>1, <1>2, <1>3, <1>6, <2>1, <2>2, <2>3
<1> QED BY <1>2, <1>4, <1>5, <1>6

LEMMA GnuIs ==
  ASSUME Env, Remembered, Typed, LoadGNU
  PROVE  /\ pc \in {"named", "gcc", "clang"}
         /\ UNCHANGED <<world, prompt, package, named, toolset>>
         /\ \E info \in Infos :
              /\ SetInfo(info)
              /\ \/ /\ pc' = "language" /\ lang' = lang + 1
                    /\ info.SubType = "mingw-w64" /\ info.Command # None
                    /\ info.Command[2] = GnuCommand[2] /\ GnuCommand[2] # "cl"
                 \/ /\ pc' = "clang" /\ pc = "gcc" /\ lang' = lang
                    /\ info.SubType = Info.SubType /\ info.Id = Info.Id
                 \/ pc' = "done"
<1> DEFINE absolute == GnuCommand[1] # None
           name == GnuCommand[2]
           dir  == IF absolute THEN GnuCommand[1] ELSE Lookup(name)
<1>1. /\ pc \in {"named", "gcc", "clang"}
      /\ UNCHANGED <<world, prompt, package, named, toolset>>
  BY DEF LoadGNU, environment
<1>2. Info \in Infos /\ Lang \in Languages /\ world \in Worlds
  BY <1>1, LangIs DEF Body, Trying, Env
<1>3. /\ GnuCommand[1] \in Directory \cup {None} /\ name \in Names
  <2>1. CASE pc = "named"
    <3>1. Info.Command # None
      BY <2>1 DEF Typed, Body, Trying
    <3>2. Info.Command \in Commands
      BY <1>2, <3>1 DEF Infos
    <3> QED BY <2>1, <3>2 DEF GnuCommand, Commands
  <2>2. CASE pc = "gcc"
    BY <1>2, <2>2 DEF GnuCommand, Relative, GNUName, Languages, Names
  <2>3. CASE pc = "clang"
    BY <1>2, <2>3 DEF GnuCommand, Relative, ClangName, Languages, Names
  <2> QED BY <1>1, <2>1, <2>2, <2>3
<1>4. dir \in Directory \cup {None}
  <2>1. Lookup(name) \in Directory \cup {None}
    BY <1>1, LookupIs, CompilersSteady DEF Trying
  <2> QED BY <1>3, <2>1
<1>5. CASE dir # None /\ name # "cl" /\ SetInfo(Gnu(name, dir)) /\ lang' = lang + 1 /\ pc' = "language"
  <2> DEFINE i == Gnu(name, dir)
  <2>1. <<dir, name>> \in Commands /\ <<dir, name>> # None /\ <<name, dir>> \in Names \X Directory
    BY <1>3, <1>4, <1>5, WorldAssumption DEF Commands
  <2>2. i \in Infos
    BY <1>2, <2>1 DEF Gnu, Infos
  <2>3. i.SubType = "mingw-w64" /\ i.Command # None /\ i.Command[2] = name
    BY <2>1 DEF Gnu
  <2>4. SetInfo(i)
    BY <1>5
  <2> HIDE DEF i
  <2> QED BY <1>1, <1>5, <2>2, <2>3, <2>4
<1>6. CASE /\ SetInfo([Info EXCEPT !.Command = IF dir = None THEN None ELSE <<dir, name>>])
           /\ UNCHANGED lang
           /\ IF pc = "gcc" THEN pc' = "clang" ELSE pc' = "done"
  <2> DEFINE c == IF dir = None THEN None ELSE <<dir, name>>
  <2> DEFINE i == [Info EXCEPT !.Command = c]
  <2>1. c \in Commands \cup {None}
    BY <1>3, <1>4 DEF Commands
  <2>2. i \in Infos /\ i.SubType = Info.SubType /\ i.Id = Info.Id
    <3> HIDE DEF c
    <3> QED BY <1>2, <2>1 DEF Infos
  <2>3. SetInfo(i)
    BY <1>6
  <2> HIDE DEF i
  <2> QED BY <1>1, <1>6, <2>2, <2>3
<1> QED
  <2> HIDE DEF absolute
  <2>1. \/ dir # None /\ name # "cl" /\ SetInfo(Gnu(name, dir)) /\ lang' = lang + 1 /\ pc' = "language"
        \/ /\ SetInfo([Info EXCEPT !.Command = IF dir = None THEN None ELSE <<dir, name>>])
           /\ UNCHANGED lang
           /\ IF pc = "gcc" THEN pc' = "clang" ELSE pc' = "done"
    BY DEF LoadGNU, Goto, Exit, absolute
  <2> QED BY <1>5, <1>6, <2>1

-----------------------------------------------------------------------------
(* The compiler a user names.  A cl that was tried in its place stands for *)
(* it only until the search fails.                                         *)
Named ==
  /\ pc \in Body /\ world.given[Lang] # None => named
  /\ pc \in {"gcc", "clang"} => ~named
  /\ pc # "done" => \A l \in Languages : world.given[l] # None =>
       \/ compilers[l].Command # None /\ compilers[l].Command[2] = world.given[l]
       \/ /\ pc \in {"msvcFound", "noMsvc", "named"} /\ l = Lang
          /\ compilers[l].Command # None /\ compilers[l].Command[2] = "cl"

(* Steps that only move on within a search.                                *)
Quiet == AddBundle \/ Inspect \/ CheckVcvars \/ RestorePath \/ RunVcvars \/ Initialized
         \/ NoMsvc \/ Download

LEMMA QuietIs ==
  ASSUME Quiet
  PROVE  /\ UNCHANGED <<world, compilers, package, lang, named, toolset>>
         /\ pc' \in {"inspect", "language", "restore", "vcvars", "initialized", "cl", "noMsvc",
                     "named", "gcc", "done"}
         /\ pc' \in Body => pc \in Body
         /\ pc = "noMsvc" => pc' = IF named THEN "named" ELSE "gcc"
         /\ pc' \in {"named", "gcc"} => pc = "noMsvc"
         /\ pc \notin {"done", "msvcFound", "named", "gcc", "clang", "language"}
         /\ pc' = "language" => pc = "inspect"
         /\ pc' = "inspect" => pc = "bundle"
BY DEF Quiet, AddBundle, Inspect, CheckVcvars, RestorePath, RunVcvars, Initialized, NoMsvc,
       Download, Goto, Exit, Body, Trying

LEMMA InitTyped == Init => Typed /\ Named
<1> SUFFICES ASSUME Init PROVE Typed /\ Named
  OBVIOUS
<1>1. world \in Worlds /\ package = 1 /\ lang = 1 /\ named = FALSE /\ pc = "bundle"
      /\ Len(world.packages) \in Nat \ {0}
  BY WorldIs DEF Init
<1>2. ASSUME NEW l \in Languages
      PROVE  /\ compilers[l] = Unknown(IF world.given[l] = None THEN None
                                       ELSE Relative(world.given[l]))
             /\ compilers[l] \in Infos
             /\ world.given[l] # None => /\ compilers[l].Command # None
                                         /\ compilers[l].Command[2] = world.given[l]
  <2>1. compilers[l] = Unknown(IF world.given[l] = None THEN None ELSE Relative(world.given[l]))
    BY DEF Init
  <2>2. Relative(world.given[l]) \in Commands /\ Relative(world.given[l]) # None
    <3>1. world.given[l] \in Names
      BY <1>1 DEF Names
    <3> QED BY <3>1, WorldAssumption DEF Relative, Commands
  <2> DEFINE c == IF world.given[l] = None THEN None ELSE Relative(world.given[l])
  <2>3. c \in Commands \cup {None} /\ compilers[l] = Unknown(c)
    BY <2>1, <2>2
  <2>4. compilers[l] \in Infos /\ compilers[l].Command = c
    <3> HIDE DEF c
    <3> DEFINE ids == (Names \X Directory) \cup {None}
               arches == {None} \cup {w.target : w \in Worlds} \cup {d[2] : d \in Directory}
    <3>1. None \in ids /\ None \in arches
      OBVIOUS
    <3>2. Infos = [Command : Commands \cup {None}, Id : ids,
                   SubType : {"", "msvc", "mingw-w64"}, arch : arches]
      BY DEF Infos
    <3> HIDE DEF ids, arches
    <3>3. Unknown(c) \in Infos /\ Unknown(c).Command = c
      BY <2>3, <3>1, <3>2 DEF Unknown
    <3> QED BY <2>3, <3>3
  <2>5. world.given[l] # None => c # None /\ c[2] = world.given[l]
    BY <2>2 DEF Relative
  <2> QED BY <2>1, <2>4, <2>5
<1>3. compilers \in [Languages -> Infos]
  <2>1. compilers = [l \in Languages |-> compilers[l]]
    BY DEF Init
  <2> QED BY <1>2, <2>1
<1>4. Named
  BY <1>1, <1>2 DEF Named, Body, Trying
<1>5. package \in 1..Len(world.packages) /\ lang \in Nat \ {0} /\ named \in BOOLEAN
  <2>1. package = 1 /\ lang = 1 /\ Len(world.packages) \in Nat \ {0}
    BY <1>1
  <2>2. package \in 1..Len(world.packages)
    BY <2>1
  <2>3. named \in BOOLEAN
    <3>1. named = FALSE
      BY <1>1
    <3> QED BY <3>1, Zenon
  <2>4. lang \in Nat \ {0}
    BY <2>1
  <2> QED BY <2>2, <2>3, <2>4
<1>6. pc = "bundle" /\ pc \notin Body
  BY <1>1 DEF Body, Trying
<1> QED BY <1>3, <1>4, <1>5, <1>6 DEF Typed

LEMMA QuietTyped == Env /\ Typed /\ Named /\ Quiet => Typed' /\ Named'
<1> SUFFICES ASSUME Env, Typed, Named, Quiet PROVE Typed' /\ Named'
  OBVIOUS
<1>1. /\ UNCHANGED <<world, compilers, package, lang, named>>
      /\ Langs' = Langs /\ Lang' = Lang /\ Info' = Info
  BY QuietIs DEF Langs, Lang, Info
<1>2. Typed'
  BY <1>1, QuietIs DEF Typed, Body, Trying
<1>3. Named'
  BY <1>1, QuietIs DEF Named, Typed, Body, Trying
<1> QED BY <1>2, <1>3

LEMMA LanguageTyped ==
  Env /\ Typed /\ Named /\ (NextLanguage \/ MsvcFound) => Typed' /\ Named'
<1> SUFFICES ASSUME Env, Typed, Named, NextLanguage \/ MsvcFound PROVE Typed' /\ Named'
  OBVIOUS
<1>1. /\ UNCHANGED <<world, compilers, package>>
      /\ \/ lang' = lang + 1 /\ pc' = "language" /\ UNCHANGED named /\ (pc = "msvcFound" => ~named)
         \/ lang' = lang /\ pc' = "done" /\ UNCHANGED named
         \/ /\ pc = "language" /\ lang' = lang /\ pc' = "msvc" /\ lang <= Len(Langs)
            /\ named' = (Info.Command # None)
  BY DEF NextLanguage, MsvcFound, Goto, Exit, Searching
<1>2. Langs' = Langs
  BY <1>1 DEF Langs
<1>3. CASE lang' = lang + 1 /\ pc' = "language" /\ UNCHANGED named /\ (pc = "msvcFound" => ~named)
  <2>1. Typed'
    BY <1>1, <1>2, <1>3 DEF Typed, Body, Trying
  <2>2. pc \in {"language", "msvcFound"}
    BY DEF NextLanguage, MsvcFound
  <2>3. Named'
    BY <1>1, <1>3, <2>2 DEF Named, Body, Trying
  <2> QED BY <2>1, <2>3
<1>4. CASE lang' = lang /\ pc' = "done" /\ UNCHANGED named
  BY <1>1, <1>4 DEF Typed, Named, Body, Trying
<1>5. CASE /\ pc = "language" /\ lang' = lang /\ pc' = "msvc" /\ lang <= Len(Langs)
           /\ named' = (Info.Command # None)
  <2>1. Lang' = Lang /\ Info' = Info /\ Lang \in Languages
    BY <1>1, <1>2, <1>5, LangIs DEF Lang, Info
  <2>2. Typed'
    BY <1>1, <1>2, <1>5, <2>1 DEF Typed, Body, Trying
  <2>3. Named'
    BY <1>1, <1>5, <2>1 DEF Named, Info, Body, Trying
  <2> QED BY <2>2, <2>3
<1> QED BY <1>1, <1>3, <1>4, <1>5

LEMMA TogetherTyped == Env /\ Typed /\ Named /\ CheckTogether => Typed' /\ Named'
<1> SUFFICES ASSUME Env, Typed, Named, CheckTogether PROVE Typed' /\ Named'
  OBVIOUS
<1>1. /\ pc = "language" /\ UNCHANGED <<world, compilers, named>>
      /\ \/ package < Len(world.packages) /\ package' = package + 1 /\ lang' = 1 /\ pc' = "inspect"
         \/ UNCHANGED <<package, lang>> /\ pc' \in {"download", "done"}
  BY DEF CheckTogether, Goto, Exit
<1>2. Len(world.packages) \in Nat
  BY WorldIs DEF Env
<1>3. Typed'
  BY <1>1, <1>2 DEF Typed, Body, Trying
<1>4. Named'
  BY <1>1 DEF Named, Body, Trying
<1> QED BY <1>3, <1>4

LEMMA TryTyped ==
  Env /\ Remembered /\ Typed /\ Named /\ (LoadCl \/ LoadGNU) => Typed' /\ Named'
<1> SUFFICES ASSUME Env, Remembered, Typed, Named, LoadCl \/ LoadGNU PROVE Typed' /\ Named'
  OBVIOUS
<1>1. /\ UNCHANGED <<world, package, named>> /\ pc \in Body /\ Langs' = Langs
      /\ Lang \in Languages
  BY ClIs, GnuIs, LangIs DEF Body, Trying, Langs
<1>2. ASSUME LoadCl
      PROVE  Typed' /\ Named'
  <2>1. /\ pc = "cl" /\ lang' = lang /\ pc' \in {"noMsvc", "msvcFound"} /\ Lang' = Lang
    BY <1>1, <1>2, ClIs DEF Lang
  <2>2. PICK info \in Infos : SetInfo(info) /\ info.Command # None /\ info.Command[2] = "cl"
    BY <1>2, ClIs
  <2>3. /\ compilers' \in [Languages -> Infos] /\ compilers'[Lang] = info
        /\ \A l \in Languages : l # Lang => compilers'[l] = compilers[l]
    BY <1>1, <2>2, SetInfoIs
  <2>4. Typed'
    BY <1>1, <2>1, <2>2, <2>3 DEF Typed, Body, Trying, Info
  <2>5. Named'
    BY <1>1, <2>1, <2>2, <2>3 DEF Named, Body, Trying
  <2> QED BY <2>4, <2>5
<1>3. ASSUME LoadGNU
      PROVE  Typed' /\ Named'
  <2>1. PICK info \in Infos :
          /\ SetInfo(info)
          /\ \/ /\ pc' = "language" /\ lang' = lang + 1 /\ info.Command # None
                /\ info.Command[2] = GnuCommand[2] /\ GnuCommand[2] # "cl"
             \/ pc' = "clang" /\ pc = "gcc" /\ lang' = lang
             \/ pc' = "done"
    BY <1>3, GnuIs
  <2>2. /\ compilers' \in [Languages -> Infos] /\ compilers'[Lang] = info
        /\ \A l \in Languages : l # Lang => compilers'[l] = compilers[l]
    BY <1>1, <2>1, SetInfoIs
  <2>3. pc \in {"named", "gcc", "clang"} /\ lang' \in {lang, lang + 1}
    BY <1>3 DEF LoadGNU
  <2>4. Typed'
    <3>1. pc' = "clang" => Lang' = Lang /\ ~named
      BY <1>1, <2>1 DEF Lang, Named
    <3>2. lang' \in Nat \ {0}
      BY <2>3 DEF Typed
    <3> QED BY <1>1, <2>1, <2>2, <3>1, <3>2 DEF Typed, Body, Trying
  <2>5. CASE pc' = "done"
    <3> QED BY <2>4, <2>5 DEF Named, Body, Trying
  <2>6. CASE pc' = "clang" /\ pc = "gcc" /\ lang' = lang
    <3>1. Lang' = Lang /\ ~named /\ world.given[Lang] = None
      BY <1>1, <2>6 DEF Lang, Named
    <3> QED BY <1>1, <2>2, <2>4, <2>6, <3>1 DEF Named, Body, Trying
  <2>7. CASE /\ pc' = "language" /\ lang' = lang + 1 /\ info.Command # None
             /\ info.Command[2] = GnuCommand[2] /\ GnuCommand[2] # "cl"
    <3>1. world.given[Lang] # None => info.Command[2] = world.given[Lang]
      <4>1. ASSUME world.given[Lang] # None PROVE pc = "named"
        BY <1>1, <2>3, <4>1 DEF Named
      <4>2. pc = "named" => GnuCommand[2] = compilers[Lang].Command[2]
        BY DEF GnuCommand, Info
      <4> QED BY <1>1, <2>7, <4>1, <4>2 DEF Named
    <3>2. \A l \in Languages : l # Lang /\ world.given[l] # None =>
            compilers[l].Command # None /\ compilers[l].Command[2] = world.given[l]
      BY <2>3 DEF Named
    <3> QED BY <1>1, <2>2, <2>4, <2>7, <3>1, <3>2 DEF Named, Body, Trying
  <2> QED BY <2>1, <2>4, <2>5, <2>6, <2>7
<1> QED BY <1>2, <1>3

LEMMA NextTyped ==
  Env /\ Remembered /\ Typed /\ Named /\ [Next]_vars => Typed' /\ Named'
<1> SUFFICES ASSUME Env, Remembered, Typed, Named, [Next]_vars PROVE Typed' /\ Named'
  OBVIOUS
<1>1. CASE UNCHANGED vars
  <2>1. UNCHANGED <<world, compilers, package, lang, named, pc>>
    BY <1>1 DEF vars
  <2>2. Langs' = Langs /\ Lang' = Lang /\ Info' = Info
    BY <2>1 DEF Langs, Lang, Info
  <2> QED BY <2>1, <2>2 DEF Typed, Named
<1>2. CASE Next
  BY <1>2, QuietTyped, LanguageTyped, TogetherTyped, TryTyped DEF Next, Quiet
<1> QED BY <1>1, <1>2

(* A compiler that the user named is used or the search fails: neither the *)
(* cl of Visual Studio nor gcc or clang takes its place, in no environment *)
(* and whatever an earlier package has found (common.cpp:129-144).         *)
THEOREM NamedCompilersUsed == Spec => []NamedCompilerUsed
<1>1. Env /\ Typed /\ Named => NamedCompilerUsed
  <2> SUFFICES ASSUME Env, Typed, Named, pc = "download", NEW p \in 1..Len(world.packages),
                      NEW l \in Used(p), world.given[l] # None
               PROVE  compilers[l].Command[2] = world.given[l]
    BY DEF NamedCompilerUsed
  <2>1. l \in Languages
    <3>1. world.packages[p] \in Seq(Languages)
      BY WorldIs DEF Env
    <3> QED BY <3>1 DEF Used
  <2> QED BY <2>1 DEF Named
<1> QED BY <1>1, InitEnv, NextEnv, InitTyped, NextTyped, PTL DEF Spec

-----------------------------------------------------------------------------
(* One Visual Studio.  A cl.exe in PATH was put there by a developer       *)
(* prompt, which kept the PATH it found; the bundle has none.              *)
Installation(w) == IF w.VCInstallDir # None THEN w.VCInstallDir ELSE w.prompt
ClOfPrompt(w) ==
  /\ <<Bundle, "cl">> \notin w.programs
  /\ w.prompt # None => w.preinit # None
  /\ \A i \in 1..Len(w.PATH) :
       <<w.PATH[i], "cl">> \in w.programs => w.prompt # None /\ w.PATH[i][1] = w.prompt
  /\ w.preinit # None =>
       \A i \in 1..Len(w.preinit) : <<w.preinit[i], "cl">> \notin w.programs

(* Whether a search in this world ends with Visual Studio, decided before  *)
(* the first one.                                                          *)
Asks(w) == IF w.VCInstallDir # None THEN Through(w) ELSE w.prompt # None
HasMsvc(w) ==
  /\ Asks(w) /\ w.banner \in {"known", "translated"}
  /\ FoundIn(w, Final(w), "cl") # None

(* The languages that have been dealt with, of this and earlier packages.  *)
Complete(p) == \A l \in Used(p) : compilers[l].SubType # ""
Reached ==
  /\ \A p \in 1..Len(world.packages) : p < package \/ pc = "download" => Complete(p)
  /\ pc # "download" =>
       \A i \in 1..Len(Langs) : i < lang => compilers[Langs[i]].SubType # ""
  /\ pc \in {"bundle", "inspect"} => lang = 1

Chosen ==
  /\ world.VCInstallDir = None => prompt = world.prompt
  /\ pc \in {"initialized", "cl"} /\ Works(world) => prompt = world.VCInstallDir
  /\ pc = "cl" => Asks(world)
  /\ pc \in {"noMsvc", "named", "gcc", "clang"} => ~HasMsvc(world)
  /\ pc = "msvcFound" => HasMsvc(world) /\ Info.SubType = "msvc"
  /\ toolset # None => HasMsvc(world) /\ toolset = Installation(world)

Settled ==
  \A l \in Languages :
    /\ compilers[l].Id # None => compilers[l].SubType # ""
    /\ compilers[l].SubType = "msvc" =>
         /\ HasMsvc(world) /\ prompt = Installation(world)
         /\ compilers[l].Command = <<FoundIn(world, Final(world), "cl"), "cl">>
    /\ compilers[l].SubType = "mingw-w64" => ~HasMsvc(world)

One == pc # "done" => Reached /\ Chosen /\ Settled

LEMMA NoClBelow ==
  ASSUME NEW w \in Worlds, ClOfPrompt(w), w.VCInstallDir # None
  PROVE  FoundIn(w, Base(w), "cl") = None
<1>1. /\ w.PATH \in Seq(Directory) /\ w.preinit \in Seq(Directory) \cup {None}
      /\ Bundle \in Directory /\ <<Bundle, "cl">> \notin w.programs
  BY WorldAssumption DEF ClOfPrompt
<1>2. CASE w.preinit = None
  <2>1. \A i \in 1..Len(w.PATH) : <<w.PATH[i], "cl">> \notin w.programs
    BY <1>2 DEF ClOfPrompt
  <2>2. FoundIn(w, w.PATH, "cl") = None
    BY <1>1, <2>1, FindNone
  <2>3. FoundIn(w, Append(w.PATH, Bundle), "cl") = None
    BY <1>1, <2>2, FindAppend
  <2> QED BY <1>2, <2>3 DEF Base
<1>3. CASE w.preinit # None
  <2>1. FoundIn(w, w.preinit, "cl") = None
    BY <1>1, <1>3, FindNone DEF ClOfPrompt
  <2>2. FoundIn(w, Append(w.preinit, Bundle), "cl") = None
    BY <1>1, <1>3, <2>1, FindAppend
  <2> QED BY <1>3, <2>1, <2>2 DEF Base
<1> QED BY <1>2, <1>3

(* The cl.exe that a search accepts is the one of the installation.        *)
LEMMA ClOfInstallation ==
  ASSUME NEW w \in Worlds, ClOfPrompt(w), Asks(w), FoundIn(w, Final(w), "cl") # None
  PROVE  /\ FoundIn(w, Final(w), "cl")[1] = Installation(w)
         /\ w.VCInstallDir # None => Works(w)
<1>1. w.PATH \in Seq(Directory) /\ Bundle \in Directory /\ <<Bundle, "cl">> \notin w.programs
  BY WorldAssumption DEF ClOfPrompt
<1>2. CASE w.VCInstallDir = None
  <2>1. Final(w) = Append(w.PATH, Bundle)
    BY <1>2 DEF Final, Through
  <2>2. FoundIn(w, Final(w), "cl") = FoundIn(w, w.PATH, "cl")
    BY <1>1, <2>1, FindAppend
  <2>3. PICK i \in 1..Len(w.PATH) :
          FoundIn(w, w.PATH, "cl") = w.PATH[i] /\ <<w.PATH[i], "cl">> \in w.programs
    BY <1>1, <2>2, FindLast
  <2> QED BY <1>2, <2>2, <2>3 DEF ClOfPrompt, Installation
<1>3. CASE w.VCInstallDir # None
  <2>1. Through(w) /\ FoundIn(w, Base(w), "cl") = None
    BY <1>3, NoClBelow DEF Asks
  <2>2. Works(w)
    BY <2>1 DEF Final
  <2>3. /\ Final(w) = <<<<w.VCInstallDir, w.target>>>> \o Base(w)
        /\ <<w.VCInstallDir, w.target>> \in Directory /\ Base(w) \in Seq(Directory)
    BY <1>3, <2>1, <2>2, BaseIsPath, WorldAssumption DEF Final
  <2>4. FoundIn(w, Final(w), "cl") = <<w.VCInstallDir, w.target>>
    <3> DEFINE d == <<w.VCInstallDir, w.target>>
    <3>1. d \in Directory /\ Final(w) = <<d>> \o Base(w) /\ Base(w) \in Seq(Directory)
      BY <2>3
    <3> HIDE DEF d
    <3>2. FoundIn(w, <<d>> \o Base(w), "cl") =
            IF FoundIn(w, Base(w), "cl") # None THEN FoundIn(w, Base(w), "cl")
            ELSE IF <<d, "cl">> \in w.programs THEN d ELSE None
      BY <3>1, FindBehind
    <3>3. FoundIn(w, Final(w), "cl") = d
      BY <2>1, <3>1, <3>2
    <3> QED BY <3>3 DEF d
  <2> QED BY <1>3, <2>2, <2>4 DEF Installation
<1> QED BY <1>2, <1>3

LEMMA UsedIs ==
  ASSUME Env, NEW p \in 1..Len(world.packages), NEW l \in Used(p)
  PROVE  l \in Languages
<1>1. world.packages[p] \in Seq(Languages)
  BY WorldIs DEF Env
<1> QED BY <1>1 DEF Used

LEMMA InitOne == Init => One
<1> SUFFICES ASSUME Init PROVE One
  OBVIOUS
<1>1. /\ package = 1 /\ lang = 1 /\ pc = "bundle" /\ prompt = world.prompt /\ toolset = None
      /\ world \in Worlds
  BY DEF Init
<1>2. \A l \in Languages : compilers[l].Id = None /\ compilers[l].SubType = ""
  <2> SUFFICES ASSUME NEW l \in Languages
               PROVE  compilers[l].Id = None /\ compilers[l].SubType = ""
    OBVIOUS
  <2> DEFINE c == IF world.given[l] = None THEN None ELSE Relative(world.given[l])
  <2>1. compilers[l] = Unknown(c)
    BY DEF Init
  <2> HIDE DEF c
  <2>2. Unknown(c).Id = None /\ Unknown(c).SubType = ""
    BY DEF Unknown
  <2> QED BY <2>1, <2>2
<1>3. Reached
  <2>1. Len(Langs) \in Nat /\ Len(world.packages) \in Nat
    BY <1>1, WorldIs DEF Langs
  <2>2. \A p \in 1..Len(world.packages) : ~(p < package) /\ pc # "download"
    BY <1>1, <2>1
  <2>3. \A i \in 1..Len(Langs) : ~(i < lang)
    BY <1>1, <2>1
  <2> QED BY <1>1, <2>2, <2>3 DEF Reached
<1>4. Chosen
  BY <1>1 DEF Chosen
<1>5. Settled
  BY <1>2 DEF Settled
<1> QED BY <1>3, <1>4, <1>5 DEF One

LEMMA QuietReached == Quiet /\ Reached => Reached' \/ pc' = "done"
<1> SUFFICES ASSUME Quiet, Reached, pc' # "done" PROVE Reached'
  OBVIOUS
<1>1. UNCHANGED <<world, compilers, package, lang>> /\ Langs' = Langs /\ Used(package)' = Used(package)
  BY QuietIs DEF Langs, Used
<1>2. \A p : Complete(p)' <=> Complete(p)
  BY <1>1 DEF Complete, Used
<1>3. /\ pc' \notin {"download", "bundle"} /\ (pc' = "inspect" => pc = "bundle")
      /\ (pc = "download" => pc' = "done")
  BY QuietIs DEF Quiet, Download, Exit, AddBundle, Inspect, CheckVcvars, RestorePath, RunVcvars,
     Initialized, NoMsvc
<1> QED BY <1>1, <1>2, <1>3 DEF Reached

LEMMA VcvarsOne ==
  ASSUME Env, Remembered, ClOfPrompt(world), One, RunVcvars
  PROVE  One'
<1>1. /\ pc = "vcvars" /\ pc # "done" /\ Through(world) /\ world \in Worlds
      /\ UNCHANGED <<world, compilers, package, lang, named, toolset>> /\ Quiet
      /\ world.VCInstallDir # None
  BY QuietIs DEF Env, RunVcvars, Quiet, Through
<1>2. Lookup("cmd") = FoundIn(world, Base(world), "cmd")
  BY <1>1, CmdSteady, LookupIs DEF Steady, Tools
<1>3. /\ pc' \in {"initialized", "noMsvc"}
      /\ Works(world) => prompt' = world.VCInstallDir
      /\ prompt' \in {prompt, world.VCInstallDir}
      /\ pc' = "noMsvc" => ~Works(world)
  BY <1>2 DEF RunVcvars, Goto, environment, Works
<1>4. ~Works(world) => ~HasMsvc(world)
  BY <1>1, ClOfInstallation DEF HasMsvc
<1>5. Reached'
  BY <1>1, <1>3, QuietReached DEF One
<1>6. Chosen'
  BY <1>1, <1>3, <1>4 DEF One, Chosen
<1>7. Settled'
  BY <1>1, <1>3 DEF One, Settled, Installation
<1> QED BY <1>5, <1>6, <1>7 DEF One

LEMMA QuietOne ==
  ASSUME Env, Remembered, ClOfPrompt(world), One, Quiet, ~RunVcvars
  PROVE  One'
<1> SUFFICES ASSUME pc' # "done" PROVE One'
  BY DEF One
<1>1. /\ UNCHANGED <<world, prompt, compilers, package, lang, named, toolset>>
      /\ pc # "done" /\ Reached /\ Chosen /\ Settled
  BY QuietIs DEF Quiet, AddBundle, Inspect, CheckVcvars, RestorePath, Initialized, NoMsvc,
     Download, environment, One
<1>2. Reached'
  BY <1>1, QuietReached
<1>3. Settled'
  BY <1>1 DEF Settled
<1>4. CASE CheckVcvars
  <2>1. /\ world.VCInstallDir # None
        /\ pc' = IF Through(world) THEN "restore" ELSE "noMsvc"
    BY <1>4 DEF CheckVcvars, Goto, Through, vcvarsPlatform
  <2>2. ~Through(world) => ~HasMsvc(world)
    BY <2>1 DEF HasMsvc, Asks
  <2>3. Chosen'
    BY <1>1, <2>1, <2>2 DEF Chosen
  <2> QED BY <1>2, <1>3, <2>3 DEF One
<1>5. CASE Initialized
  <2>1. /\ pc = "initialized" \/ (pc = "msvc" /\ world.VCInstallDir = None)
        /\ pc' = IF prompt # None THEN "cl" ELSE "noMsvc"
    BY <1>5 DEF Initialized, Goto
  <2>2. /\ world \in Worlds /\ (pc = "initialized" => Through(world))
        /\ Works(world) => world.VCInstallDir # None /\ Through(world)
        /\ Through(world) => world.VCInstallDir # None
    BY DEF Env, Works, Through
  <2>3. pc' = "cl" => Asks(world) /\ (Works(world) => prompt = world.VCInstallDir)
    BY <1>1, <2>1, <2>2 DEF Asks, Chosen
  <2>4. prompt = None => ~HasMsvc(world)
    <3>1. CASE pc = "initialized"
      <4>1. prompt = None => ~Works(world)
        BY <1>1, <2>2, <3>1 DEF Chosen
      <4> QED BY <2>2, <3>1, <4>1, ClOfInstallation DEF HasMsvc
    <3>2. CASE world.VCInstallDir = None
      BY <1>1, <3>2 DEF Chosen, HasMsvc, Asks
    <3> QED BY <2>1, <3>1, <3>2
  <2>5. Chosen'
    BY <1>1, <2>1, <2>3, <2>4 DEF Chosen
  <2> QED BY <1>2, <1>3, <2>5 DEF One
<1>6. CASE NoMsvc
  <2>1. pc = "noMsvc" /\ pc' \in {"named", "gcc"}
    BY <1>6 DEF NoMsvc, Goto
  <2>2. Chosen'
    BY <1>1, <2>1 DEF Chosen
  <2> QED BY <1>2, <1>3, <2>2 DEF One
<1>7. CASE AddBundle \/ Inspect \/ RestorePath \/ Download
  <2>1. pc' \in {"inspect", "language", "vcvars"}
    BY <1>7 DEF AddBundle, Inspect, RestorePath, Download, Goto, Exit
  <2>2. Chosen'
    BY <1>1, <2>1 DEF Chosen
  <2> QED BY <1>2, <1>3, <2>2 DEF One
<1> QED BY <1>4, <1>5, <1>6, <1>7 DEF Quiet

LEMMA LanguageOne ==
  ASSUME Env, Typed, One, NextLanguage \/ MsvcFound
  PROVE  One'
<1> SUFFICES ASSUME pc' # "done" PROVE One'
  BY DEF One
<1>1. /\ UNCHANGED <<world, prompt, compilers, package, toolset>>
      /\ pc \in {"language", "msvcFound"} /\ pc' \in {"language", "msvc"}
      /\ \/ lang' = lang
         \/ lang' = lang + 1 /\ lang <= Len(Langs) /\ (Info.Id # None \/ pc = "msvcFound")
      /\ Reached /\ Chosen /\ Settled
  BY DEF NextLanguage, MsvcFound, Goto, Exit, Searching, environment, One, Typed, Body, Trying
<1>2. Langs' = Langs /\ \A p : Complete(p)' <=> Complete(p)
  BY <1>1 DEF Langs, Complete, Used
<1>3. lang <= Len(Langs) /\ (Info.Id # None \/ pc = "msvcFound") =>
        Lang \in Languages /\ compilers[Langs[lang]].SubType # ""
  BY <1>1, LangIs DEF Settled, Chosen, Info, Lang
<1>4. \A i \in 1..Len(Langs) : i < lang' => compilers[Langs[i]].SubType # ""
  <2>1. \A i \in 1..Len(Langs) : i < lang => compilers[Langs[i]].SubType # ""
    BY <1>1 DEF Reached
  <2>2. lang \in Nat /\ Len(Langs) \in Nat
    BY LangIs DEF Typed
  <2> SUFFICES ASSUME NEW i \in 1..Len(Langs), i < lang'
               PROVE  compilers[Langs[i]].SubType # ""
    OBVIOUS
  <2>3. i \in Nat /\ (i < lang \/ (i = lang /\ lang' = lang + 1))
    BY <1>1, <2>2
  <2>4. i = lang => i <= Len(Langs)
    BY <2>2
  <2>5. i = lang /\ lang' = lang + 1 => lang' # lang
    BY <2>2
  <2> QED BY <1>1, <1>3, <2>1, <2>3, <2>4, <2>5
<1>5. Reached'
  BY <1>1, <1>2, <1>4 DEF Reached
<1>6. Chosen' /\ Settled'
  BY <1>1 DEF Chosen, Settled
<1> QED BY <1>5, <1>6 DEF One

LEMMA OneMore ==
  ASSUME NEW a \in Nat, NEW b \in {a, a + 1}, NEW n \in Nat, NEW i \in 1..n, i < b
  PROVE  i < a \/ (i = a /\ b # a)
OBVIOUS

LEMMA ElementIs ==
  ASSUME NEW S, NEW q \in Seq(S), NEW i \in 1..Len(q)
  PROVE  q[i] \in S
OBVIOUS

(* One compiler changes, and what is known of it is not forgotten.         *)
LEMMA SetReached ==
  ASSUME Env, Typed, Reached, pc \in Body, NEW info \in Infos, SetInfo(info),
         UNCHANGED <<world, package>>, pc' \notin {"bundle", "inspect", "download"},
         info.SubType # "" \/ (info.SubType = Info.SubType /\ lang' = lang),
         lang' \in {lang, lang + 1}
  PROVE  Reached'
<1>1. /\ compilers' \in [Languages -> Infos] /\ compilers'[Lang] = info
      /\ \A l \in Languages : l # Lang => compilers'[l] = compilers[l]
      /\ Langs' = Langs /\ lang \in Nat /\ Lang \in Languages
  BY SetInfoIs, LangIs DEF Langs, Typed
<1>2. \A l \in Languages : compilers[l].SubType # "" => compilers'[l].SubType # ""
  BY <1>1 DEF Info
<1>3. ASSUME NEW p \in 1..Len(world.packages), p < package
      PROVE  Complete(p)'
  <2>1. pc # "download" /\ Complete(p)
    BY <1>3 DEF Reached, Body, Trying
  <2>2. Used(p)' = Used(p) /\ \A l \in Used(p) : l \in Languages
    BY UsedIs DEF Used
  <2> QED BY <1>2, <2>1, <2>2 DEF Complete
<1>4. ASSUME NEW i \in 1..Len(Langs), i < lang'
      PROVE  compilers'[Langs[i]].SubType # ""
  <2>1. Langs[i] \in Languages
    BY LangIs, ElementIs
  <2>2. i < lang \/ (i = lang /\ lang' # lang)
    BY <1>1, <1>4, LangIs, OneMore
  <2>3. CASE i < lang
    <3>1. compilers[Langs[i]].SubType # ""
      BY <2>3 DEF Reached, Body, Trying
    <3> QED BY <1>2, <2>1, <3>1
  <2>4. CASE i = lang /\ lang' # lang
    BY <1>1, <2>4 DEF Lang
  <2> QED BY <2>2, <2>3, <2>4
<1> QED BY <1>1, <1>3, <1>4 DEF Reached

LEMMA ClOne ==
  ASSUME Env, Remembered, Typed, ClOfPrompt(world), One, LoadCl
  PROVE  One'
<1>1. /\ pc = "cl" /\ UNCHANGED <<world, prompt, package, lang, named, toolset>>
      /\ Reached /\ Chosen /\ Settled /\ pc \in Body /\ Lang \in Languages /\ Lang' = Lang
      /\ world \in Worlds
  BY ClIs, LangIs DEF One, Body, Trying, Lang, Langs, Env
<1>2. Lookup("cl") = FoundIn(world, Final(world), "cl")
  BY <1>1, LookupIs, CompilersSteady DEF Trying, Steady, Tools
<1>3. PICK info \in Infos :
        /\ SetInfo(info)
        /\ \/ /\ pc' = "noMsvc" /\ info.SubType = Info.SubType /\ info.Id = Info.Id
              /\ Lookup("cl") = None \/ world.banner = "silent"
           \/ /\ pc' = "msvcFound" /\ info.SubType = "msvc"
              /\ info.Command = <<Lookup("cl"), "cl">>
              /\ Lookup("cl") # None /\ world.banner \in {"known", "translated"}
  BY ClIs
<1>4. /\ compilers'[Lang] = info
      /\ \A l \in Languages : l # Lang => compilers'[l] = compilers[l]
  BY <1>1, <1>3, SetInfoIs
<1>5. Reached'
  <2>1. info.SubType # "" \/ (info.SubType = Info.SubType /\ lang' = lang)
    BY <1>1, <1>3
  <2>2. pc' \notin {"bundle", "inspect", "download"} /\ lang' \in {lang, lang + 1}
    BY <1>1, <1>3
  <2> QED BY <1>1, <1>3, <2>1, <2>2, SetReached
<1>6. CASE /\ pc' = "noMsvc" /\ info.SubType = Info.SubType /\ info.Id = Info.Id
           /\ Lookup("cl") = None \/ world.banner = "silent"
  <2>1. ~HasMsvc(world)
    BY <1>2, <1>6 DEF HasMsvc
  <2>2. Chosen'
    BY <1>1, <1>6, <2>1 DEF Chosen
  <2>3. Settled'
    BY <1>1, <1>4, <1>6, <2>1 DEF Settled, Info
  <2> QED BY <1>5, <2>2, <2>3 DEF One
<1>7. CASE /\ pc' = "msvcFound" /\ info.SubType = "msvc"
           /\ info.Command = <<Lookup("cl"), "cl">>
           /\ Lookup("cl") # None /\ world.banner \in {"known", "translated"}
  <2>1. HasMsvc(world)
    BY <1>1, <1>2, <1>7 DEF HasMsvc, Chosen
  <2>2. prompt = Installation(world)
    <3>1. CASE world.VCInstallDir = None
      BY <1>1, <3>1 DEF Chosen, Installation
    <3>2. CASE world.VCInstallDir # None
      <4>1. Works(world)
        BY <1>1, <2>1, <3>2, ClOfInstallation DEF HasMsvc
      <4> QED BY <1>1, <3>2, <4>1 DEF Chosen, Installation
    <3> QED BY <3>1, <3>2
  <2>3. Info'.SubType = "msvc"
    BY <1>1, <1>4, <1>7 DEF Info
  <2>4. Chosen'
    BY <1>1, <1>7, <2>1, <2>3 DEF Chosen
  <2>5. Settled'
    BY <1>1, <1>2, <1>4, <1>7, <2>1, <2>2 DEF Settled
  <2> QED BY <1>5, <2>4, <2>5 DEF One
<1> QED BY <1>3, <1>6, <1>7

LEMMA GnuOne ==
  ASSUME Env, Remembered, Typed, One, LoadGNU
  PROVE  One'
<1> SUFFICES ASSUME pc' # "done" PROVE One'
  BY DEF One
<1>1. /\ pc \in {"named", "gcc", "clang"} /\ UNCHANGED <<world, prompt, package, named, toolset>>
      /\ Reached /\ Chosen /\ Settled /\ ~HasMsvc(world)
  BY GnuIs DEF One, Chosen
<1>2. PICK info \in Infos :
        /\ SetInfo(info)
        /\ \/ pc' = "language" /\ lang' = lang + 1 /\ info.SubType = "mingw-w64"
           \/ /\ pc' = "clang" /\ lang' = lang
              /\ info.SubType = Info.SubType /\ info.Id = Info.Id
  BY GnuIs
<1>3. pc \in Body /\ Lang \in Languages
  BY <1>1, LangIs DEF Body, Trying
<1>4. /\ compilers'[Lang] = info
      /\ \A l \in Languages : l # Lang => compilers'[l] = compilers[l]
  BY <1>2, <1>3, SetInfoIs
<1>5. Reached'
  <2>1. info.SubType # "" \/ (info.SubType = Info.SubType /\ lang' = lang)
    BY <1>2
  <2>2. pc' \notin {"bundle", "inspect", "download"} /\ lang' \in {lang, lang + 1}
    BY <1>2
  <2> QED BY <1>1, <1>2, <1>3, <2>1, <2>2, SetReached
<1>6. Chosen'
  BY <1>1, <1>2 DEF Chosen
<1>7. Settled'
  BY <1>1, <1>2, <1>3, <1>4 DEF Settled, Info
<1> QED BY <1>5, <1>6, <1>7 DEF One

LEMMA TogetherOne ==
  ASSUME Env, Typed, One, CheckTogether
  PROVE  One'
<1> SUFFICES ASSUME pc' # "done" PROVE One'
  BY DEF One
<1>1. /\ pc = "language" /\ ~(lang <= Len(Langs)) /\ UNCHANGED <<world, prompt, compilers, named>>
      /\ toolset' = IF \E l \in Used(package) : IsMsvc(l) THEN prompt ELSE toolset
      /\ \/ package' = package + 1 /\ lang' = 1 /\ pc' = "inspect"
         \/ /\ package = Len(world.packages) /\ UNCHANGED package /\ pc' = "download"
      /\ Reached /\ Chosen /\ Settled
  BY DEF CheckTogether, Goto, Exit, Searching, environment, One
<1>2. /\ package \in 1..Len(world.packages) /\ Len(world.packages) \in Nat
      /\ Len(Langs) \in Nat /\ lang \in Nat
  BY WorldIs, LangIs DEF Env, Typed
<1>3. Complete(package)
  <2>1. \A i \in 1..Len(Langs) : i < lang
    BY <1>1, <1>2
  <2>2. \A i \in 1..Len(Langs) : compilers[Langs[i]].SubType # ""
    BY <1>1, <2>1 DEF Reached
  <2> QED BY <2>2 DEF Complete, Used, Langs
<1>4. \A p \in 1..Len(world.packages) : p < package + 1 => Complete(p)
  <2>1. \A p \in 1..Len(world.packages) : p < package => Complete(p)
    BY <1>1 DEF Reached
  <2> QED BY <1>2, <1>3, <2>1
<1>5. \A p : Complete(p)' <=> Complete(p)
  BY <1>1 DEF Complete, Used
<1>6. Reached'
  <2>1. CASE package' = package + 1 /\ lang' = 1 /\ pc' = "inspect"
    <3>1. package' <= Len(world.packages) \/ package = Len(world.packages)
      BY <1>2, <2>1
    <3>2. \A i \in 1..Len(Langs') : ~(i < lang')
      BY <2>1
    <3> QED BY <1>1, <1>4, <1>5, <2>1, <3>2 DEF Reached
  <2>2. CASE package = Len(world.packages) /\ UNCHANGED package /\ pc' = "download"
    <3>1. \A p \in 1..Len(world.packages) : p < package + 1
      BY <1>2, <2>2
    <3> QED BY <1>1, <1>4, <1>5, <2>2, <3>1 DEF Reached
  <2> QED BY <1>1, <2>1, <2>2
<1>7. toolset' # None => HasMsvc(world) /\ toolset' = Installation(world)
  <2>1. ASSUME NEW l \in Used(package), IsMsvc(l)
        PROVE  HasMsvc(world) /\ prompt = Installation(world)
    <3>1. l \in Languages
      BY <1>2, UsedIs
    <3> QED BY <1>1, <2>1, <3>1 DEF IsMsvc, Settled
  <2>2. toolset # None => HasMsvc(world) /\ toolset = Installation(world)
    BY <1>1 DEF Chosen
  <2> QED BY <1>1, <2>1, <2>2
<1>8. Chosen' /\ Settled'
  <2>1. Chosen'
    BY <1>1, <1>7 DEF Chosen
  <2>2. Settled'
    BY <1>1 DEF Settled
  <2> QED BY <2>1, <2>2
<1> QED BY <1>6, <1>8 DEF One

LEMMA NextOne ==
  ASSUME Env, Remembered, Typed, ClOfPrompt(world), One, [Next]_vars
  PROVE  One'
<1>1. CASE UNCHANGED vars
  <2>1. UNCHANGED <<world, prompt, compilers, package, lang, named, toolset, pc>>
    BY <1>1 DEF vars, environment
  <2>2. Langs' = Langs /\ Lang' = Lang /\ Info' = Info /\ \A p : Complete(p)' <=> Complete(p)
    BY <2>1 DEF Langs, Lang, Info, Complete, Used
  <2>3. /\ Reached' <=> Reached
        /\ Chosen' <=> Chosen
        /\ Settled' <=> Settled
    BY <2>1, <2>2 DEF Reached, Chosen, Settled
  <2> QED BY <2>1, <2>3 DEF One
<1>2. CASE Next
  <2>1. CASE RunVcvars
    BY <2>1, VcvarsOne
  <2>2. CASE Quiet /\ ~RunVcvars
    BY <2>2, QuietOne
  <2>3. CASE NextLanguage \/ MsvcFound
    BY <2>3, LanguageOne
  <2>4. CASE LoadCl
    BY <2>4, ClOne
  <2>5. CASE LoadGNU
    BY <2>5, GnuOne
  <2>6. CASE CheckTogether
    BY <2>6, TogetherOne
  <2> QED BY <1>2, <2>1, <2>2, <2>3, <2>4, <2>5, <2>6 DEF Next, Quiet
<1> QED BY <1>1, <1>2

(* Every cl.exe in PATH was put there by a developer prompt, and this one  *)
(* has kept the PATH it found.                                             *)
ClOfPrompts == \A w \in Worlds : ClOfPrompt(w)

(* The compilers that are used and the toolset CMake is told of belong to  *)
(* one installation, the one that was asked for, in every environment, for *)
(* every order of packages and languages (msvc.cpp:103-231).               *)
THEOREM OneVisualStudio == ClOfPrompts => (Spec => []OneInstallation)
<1> SUFFICES ASSUME ClOfPrompts PROVE Spec => []OneInstallation
  OBVIOUS
<1>1. Env /\ Remembered /\ Typed /\ One /\ [Next]_vars => One'
  BY NextOne DEF ClOfPrompts, Env
<1>2. Env /\ Typed /\ One => OneInstallation
  <2> SUFFICES ASSUME Env, Typed, One, pc = "download", toolset # None
               PROVE  /\ toolset = Installation(world)
                      /\ \A p \in 1..Len(world.packages) : \A l \in Used(p) :
                           compilers[l].Command[1][1] = toolset
    BY DEF OneInstallation, Installation
  <2>1. HasMsvc(world) /\ toolset = Installation(world) /\ ClOfPrompt(world) /\ world \in Worlds
    BY DEF One, Chosen, Env, ClOfPrompts
  <2>2. FoundIn(world, Final(world), "cl")[1] = Installation(world)
    BY <2>1, ClOfInstallation DEF HasMsvc
  <2>3. ASSUME NEW p \in 1..Len(world.packages), NEW l \in Used(p)
        PROVE  compilers[l].Command[1][1] = toolset
    <3>1. l \in Languages /\ compilers[l].SubType # ""
      BY <2>3, UsedIs DEF One, Reached, Complete
    <3>2. compilers[l].SubType \in {"", "msvc", "mingw-w64"}
      BY <3>1 DEF Typed, Infos
    <3>3. compilers[l].Command = <<FoundIn(world, Final(world), "cl"), "cl">>
      BY <2>1, <3>1, <3>2 DEF One, Settled
    <3> QED BY <2>1, <2>2, <3>3
  <2> QED BY <2>1, <2>3
<1> QED BY <1>1, <1>2, InitEnv, NextEnv, InitTyped, NextTyped, InitOne, PTL DEF Spec
=============================================================================
