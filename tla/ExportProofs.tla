----------------------------- MODULE ExportProofs -----------------------------
(***************************************************************************)
(* Proofs about Export, for any configurations, mappings and recipes.      *)
(***************************************************************************)
EXTENDS Export, SequenceTheorems, WellFoundedInduction, TLAPS

(* The loop over the build types has installed those of the configurations *)
(* before n: each is unique, or has the build type of an earlier one.      *)
Sized == n \in Nat \ {0} /\ Len(configs) \in Nat /\ Len(request) \in Nat

Installing ==
  /\ pc = "parse" => n = 1
  /\ pc = "install" =>
       \A i \in Configurations : i < n => configs[i].MappedTo \in installed
  /\ pc \in {"collect", "generate"} =>
       \A i \in Configurations : configs[i].MappedTo \in installed

IInv == Sized /\ Installing

(* Every configuration before n is installed after the step at n.          *)
LEMMA InstalledAtN ==
  ASSUME IInv, InstallNext
  PROVE  \A i \in Configurations : i < n + 1 => configs[i].MappedTo \in installed'
<1> USE DEF IInv, Sized, Installing, Configurations
<1> SUFFICES ASSUME NEW i \in Configurations, i < n + 1
             PROVE  configs[i].MappedTo \in installed'
  OBVIOUS
<1>1. installed \subseteq installed'
  BY DEF InstallNext
<1>2. CASE i < n
  BY <1>1, <1>2 DEF InstallNext
<1>3. CASE i = n
  <2>1. CASE Unique(n)
    BY <1>3, <2>1 DEF InstallNext
  <2>2. CASE ~Unique(n)
    <3>1. PICK j \in 1..(n - 1) : configs[j].MappedTo = configs[n].MappedTo
      BY <2>2 DEF Unique
    <3>2. j \in Configurations /\ j < n
      BY <3>1 DEF InstallNext
    <3>3. configs[j].MappedTo \in installed
      BY <3>2 DEF InstallNext
    <3> QED BY <1>1, <1>3, <3>1, <3>3
  <2> QED BY <2>1, <2>2
<1> QED BY <1>2, <1>3

LEMMA InitInstalling == Init => IInv
<1> SUFFICES ASSUME Init PROVE IInv
  OBVIOUS
<1>1. Len(request) \in Nat
  BY ExportAssumption DEF Init, ExportAssumption
<1>2. Len(configs) \in Nat
  BY DEF Init
<1> QED BY <1>1, <1>2 DEF Init, IInv, Sized, Installing

LEMMA NextInstalling == IInv /\ [Next]_vars => IInv'
<1> SUFFICES ASSUME IInv, [Next]_vars PROVE IInv'
  OBVIOUS
<1> USE DEF IInv, Sized, Installing, Configurations, Return, input
<1>1. CASE ParseBuildTypes
  <2>1. CASE WellFormed(mapping)
    <3>1. configs' = [i \in 1..Len(request) |->
            [Name |-> request[i], MappedTo |-> MappedTo(mapping, request[i])]]
      BY <1>1, <2>1 DEF ParseBuildTypes
    <3>2. Len(configs') = Len(request)
      BY <3>1
    <3>3. n' = 1 /\ pc' = "install" /\ request' = request
      BY <1>1, <2>1 DEF ParseBuildTypes
    <3> QED BY <3>2, <3>3
  <2>2. CASE ~WellFormed(mapping)
    BY <1>1, <2>2 DEF ParseBuildTypes
  <2> QED BY <2>1, <2>2
<1>2. CASE InstallNext
  BY <1>2, InstalledAtN DEF InstallNext
<1>3. CASE InstallFails
  BY <1>3 DEF InstallFails
<1>4. CASE OpenOutput
  BY <1>4 DEF OpenOutput
<1>5. CASE NoList
  BY <1>5 DEF NoList
<1>6. CASE FirstList
  BY <1>6 DEF FirstList
<1>7. CASE MergeList
  BY <1>7 DEF MergeList
<1>8. CASE Collected
  BY <1>8 DEF Collected
<1>9. CASE Generate
  BY <1>9 DEF Generate, Generating
<1>10. CASE GenerateFails
  BY <1>10 DEF GenerateFails
<1>11. CASE Crash
  BY <1>11 DEF Crash
<1>12. CASE Exported
  BY <1>12 DEF Exported
<1>13. CASE UNCHANGED vars
  BY <1>13 DEF vars
<1> QED BY <1>1, <1>2, <1>3, <1>4, <1>5, <1>6, <1>7, <1>8, <1>9, <1>10, <1>11,
           <1>12, <1>13 DEF Next

(* Recipes are asked and files are imported only from installed build      *)
(* types, for any configurations and any mapping.                          *)
THEOREM ExportsInstalled == Spec => []InstalledFirst
<1>1. IInv => InstalledFirst
  BY DEF IInv, Installing, InstalledFirst
<1> QED BY <1>1, InitInstalling, NextInstalling, PTL DEF Spec

-----------------------------------------------------------------------------
LEMMA ElementIs ==
  ASSUME NEW S, NEW q \in Seq(S), NEW i \in 1..Len(q)
  PROVE  q[i] \in S
OBVIOUS

LEMMA ShortIs ==
  ASSUME NEW S, NEW x \in S, NEW s \in {<<>>, <<x>>}
  PROVE  s \in Seq(S) /\ Len(s) \in Nat /\ Len(s) <= 1
<1>1. CASE s = <<>>
  BY <1>1
<1>2. CASE s = <<x>>
  BY <1>2
<1> QED BY <1>1, <1>2

(* The build type of a configuration.                                      *)
LEMMA HasFirst ==
  ASSUME NEW m \in Nat, NEW S \in SUBSET (1..m), S # {}
  PROVE  \E i \in S : \A j \in S : i <= j
<1> DEFINE R == {ss \in Nat \X Nat : ss[1] < ss[2]}
<1>1. IsWellFoundedOn(R, Nat)
  BY NatLessThanWellFounded DEF OpToRel
<1>2. S \subseteq Nat
  OBVIOUS
<1>3. \E x \in S : \A y \in S : ~(<<y, x>> \in R)
  <2> HIDE DEF R
  <2> QED BY <1>1, <1>2, WFMin
<1>4. PICK i \in S : \A y \in S : ~(<<y, i>> \in R)
  BY <1>3
<1>5. ASSUME NEW j \in S PROVE i <= j
  <2>1. j \in Nat /\ i \in Nat
    BY <1>2
  <2>2. ~(j < i)
    BY <1>4, <2>1
  <2> QED BY <2>1, <2>2
<1> QED BY <1>5

LEMMA MappedIs ==
  ASSUME NEW m \in Mappings, WellFormed(m), NEW cfg \in Names
  PROVE  MappedTo(m, cfg) \in Names
<1>1. Len(m) \in Nat /\ \A i \in 1..Len(m) : m[i][2] \in Names
  BY ExportAssumption DEF ExportAssumption, WellFormed
<1> DEFINE for(x) == {i \in 1..Len(m) : m[i][1] = x}
           first(S) == CHOOSE i \in S : \A j \in S : i <= j
<1>2. ASSUME NEW x, for(x) # {} PROVE first(for(x)) \in 1..Len(m)
  <2> DEFINE S == for(x)
  <2>1. S \in SUBSET (1..Len(m)) /\ S # {}
    BY <1>2
  <2> HIDE DEF S
  <2>2. first(S) \in S
    BY <1>1, <2>1, HasFirst
  <2> QED BY <2>1, <2>2 DEF S
<1>3. MappedTo(m, cfg) = IF for(cfg) # {} THEN m[first(for(cfg))][2]
                         ELSE IF for("*") # {} THEN m[first(for("*"))][2] ELSE cfg
  BY DEF MappedTo
<1> HIDE DEF for, first
<1> QED BY <1>1, <1>2, <1>3

-----------------------------------------------------------------------------
(* The sizes of everything, whatever the recipe prints.                    *)
Places == UNION {{l[k].at : k \in 1..Len(l)} : l \in Lists}
Fields == {"type", "name", "libs", "includes", "at"}

Given ==
  /\ request \in Requests /\ mapping \in Mappings /\ lists \in [Names -> Lists]
  /\ writable \in BOOLEAN

Config(i) == [Name |-> request[i], MappedTo |-> MappedTo(mapping, request[i])]
Parsed == WellFormed(mapping) /\ configs = [i \in 1..Len(request) |-> Config(i)]

Written == [k \in 1..(n - 1) |-> Group(artifacts[k])]
Sound == \A k \in 1..(n - 1) : ~Missing(artifacts[k]) /\ ~Dangling(artifacts[k])

Stages ==
  /\ pc \in {"parse", "install", "collect", "generate", "done"}
  /\ result \in {"none", "0", "1", "crash"} /\ (pc # "done" => result = "none")
  /\ n \in Nat \ {0} /\ configs \in Seq([Name : Names, MappedTo : Names])
  /\ pc = "parse" => n = 1
  /\ pc \in {"install", "collect", "generate"} \/ result = "0" => Parsed
  /\ installed \subseteq Names /\ DOMAIN content = Names

Merged ==
  /\ Len(artifacts) \in Nat
  /\ \A k \in 1..Len(artifacts) :
       /\ DOMAIN artifacts[k] = Fields /\ artifacts[k].at \in Seq(Places)
       /\ Len(artifacts[k].at) <= Len(configs) /\ (pc = "collect" => Len(artifacts[k].at) < n)
  /\ pc \in {"parse", "install"} => artifacts = <<>> /\ libSet = {}
  /\ pc = "collect" => n <= Len(configs) + 1 /\ (n = 1 => artifacts = <<>> /\ libSet = {})

Output ==
  /\ Len(file) \in Nat /\ Len(file) <= Len(artifacts) + 1
  /\ pc \in {"parse", "install"} => file = <<Old>>
  /\ pc = "collect" => file = IF writable THEN <<>> ELSE <<Old>>
  /\ pc = "generate" => n <= Len(artifacts) + 1
  /\ result = "0" => n = Len(artifacts) + 1
  /\ pc = "generate" \/ result = "0" =>
       file = (IF writable THEN Written ELSE <<Old>>) /\ Sound

Basic == Given /\ Stages /\ Merged /\ Output

(* The agreement of the configurations, of which those before n have been  *)
(* merged: what has been collected is what the recipe printed for each.    *)
Agreed(m) ==
  /\ m = 0 => artifacts = <<>>
  /\ m # 0 => Len(artifacts) = Len(PrintedFor(1))
  /\ libSet = {artifacts[k].name : k \in {j \in 1..Len(artifacts) : artifacts[j].type \in Libraries}}
  /\ \A k \in 1..Len(artifacts) :
       /\ artifacts[k].type # "libset" => Len(artifacts[k].at) = m
       /\ \A i \in 1..m :
            /\ artifacts[k].type = PrintedFor(i)[k].type /\ artifacts[k].name = PrintedFor(i)[k].name
            /\ artifacts[k].type = "libset" => artifacts[k].libs = PrintedFor(i)[k].libs
            /\ artifacts[k].type # "libset" => artifacts[k].at[i] = PrintedFor(i)[k].at

Agreement ==
  SameNumber =>
    /\ pc = "collect" => Agreed(n - 1)
    /\ pc = "generate" \/ result = "0" => Agreed(Len(configs))
    /\ result # "crash"

LEMMA AppendIs ==
  ASSUME NEW m \in Nat, NEW f, NEW q, q = [k \in 1..m |-> f[k]]
  PROVE  Append(q, f[m + 1]) = [k \in 1..(m + 1) |-> f[k]]
<1> DEFINE S == {f[k] : k \in 1..(m + 1)}
<1>1. q \in Seq(S) /\ f[m + 1] \in S /\ Len(q) = m
  OBVIOUS
<1> HIDE DEF S
<1>2. /\ Append(q, f[m + 1]) \in Seq(S) /\ Len(Append(q, f[m + 1])) = m + 1
      /\ \A k \in 1..m : Append(q, f[m + 1])[k] = q[k]
      /\ Append(q, f[m + 1])[m + 1] = f[m + 1]
  BY <1>1
<1> DEFINE r == Append(q, f[m + 1])
<1>3. \A k \in 1..(m + 1) : r[k] = f[k]
  <2> SUFFICES ASSUME NEW k \in 1..(m + 1) PROVE r[k] = f[k]
    OBVIOUS
  <2>1. k \in 1..m \/ k = m + 1
    OBVIOUS
  <2> QED BY <1>2, <2>1
<1>4. r = [k \in 1..(m + 1) |-> r[k]]
  BY <1>2
<1> QED BY <1>3, <1>4

LEMMA PrintedIs ==
  ASSUME Given, Parsed, NEW i \in 1..Len(configs)
  PROVE  /\ Len(configs) = Len(request) /\ Len(configs) \in Nat
         /\ lists[configs[i].MappedTo] = PrintedFor(i) /\ PrintedFor(i) \in Lists
         /\ PrintedFor(i) # NoArtifact => Len(PrintedFor(i)) \in Nat
<1>1. request \in Seq(Names) /\ Len(request) \in Nat
  BY ExportAssumption DEF ExportAssumption, Given
<1>2. Len(configs) = Len(request)
  BY <1>1 DEF Parsed
<1>3. request[i] \in Names /\ configs[i].MappedTo = MappedTo(mapping, request[i])
  BY <1>1, <1>2 DEF Parsed, Config
<1>4. MappedTo(mapping, request[i]) \in Names
  BY <1>3, MappedIs DEF Given, Parsed
<1> QED BY <1>1, <1>2, <1>3, <1>4, ExportAssumption DEF ExportAssumption, PrintedFor, Given

LEMMA PlaceIs ==
  ASSUME NEW l \in Lists, NEW k \in 1..Len(l)
  PROVE  l[k].at \in Places
BY DEF Places

(* What is written depends on nothing that changes while it is.            *)
LEMMA SameFile ==
  ASSUME UNCHANGED <<windows, configs, artifacts, content, libSet>>
  PROVE  /\ \A a : Group(a)' = Group(a)
         /\ \A a : (Missing(a)' <=> Missing(a)) /\ (Dangling(a)' <=> Dangling(a))
<1>1. \A a : (Missing(a)' <=> Missing(a)) /\ (Dangling(a)' <=> Dangling(a))
  BY DEF Missing, Dangling, PerConfig, Configurations, Needed, Imported
<1>2. \A a, i : Location(a, i)' = Location(a, i)
  BY DEF Location, Needed, Imported
<1>3. \A a : Linked(a)' = Linked(a)
  BY DEF Linked
<1>4. \A a : Group(a)' = Group(a)
  BY <1>2, <1>3 DEF Group, Configurations, PerConfig
<1> QED BY <1>1, <1>4

LEMMA InitBasic == Init => Basic
<1> SUFFICES ASSUME Init PROVE Basic
  OBVIOUS
<1>1. Given
  BY ExportAssumption DEF Init, Given, ExportAssumption
<1>2. Stages
  BY DEF Init, Stages
<1>3. Merged
  BY DEF Init, Merged
<1>4. Output
  BY DEF Init, Output
<1> QED BY <1>1, <1>2, <1>3, <1>4 DEF Basic

LEMMA InputStays == [Next]_vars => UNCHANGED <<request, mapping, lists, writable, windows>>
BY DEF Next, vars, input, ParseBuildTypes, InstallNext, InstallFails, OpenOutput, NoList,
   FirstList, MergeList, Collected, Generate, GenerateFails, Crash, Exported

(* Steps that give up.                                                     *)
Fails == \/ InstallFails \/ NoList \/ GenerateFails \/ Crash
         \/ ParseBuildTypes /\ pc' = "done"
         \/ (FirstList \/ MergeList) /\ pc' = "done"

LEMMA FailsBasic == Basic /\ Fails => Basic'
<1> SUFFICES ASSUME Basic, Fails PROVE Basic'
  OBVIOUS
<1>1. /\ pc' = "done" /\ result' \in {"1", "crash"} /\ pc # "done"
      /\ UNCHANGED <<request, mapping, lists, writable, windows, configs, n, installed, content,
                     artifacts, libSet, file>>
  BY DEF Fails, InstallFails, NoList, GenerateFails, Generating, Crash, ParseBuildTypes,
     FirstList, MergeList, Return, input
<1>2. Given'
  BY <1>1 DEF Basic, Given
<1>3. Stages'
  BY <1>1 DEF Basic, Stages
<1>4. Merged'
  BY <1>1 DEF Basic, Merged
<1>5. Output'
  BY <1>1 DEF Basic, Output
<1> QED BY <1>2, <1>3, <1>4, <1>5 DEF Basic

LEMMA ParseBasic == Basic /\ ParseBuildTypes /\ pc' # "done" => Basic'
<1> SUFFICES ASSUME Basic, ParseBuildTypes, pc' # "done" PROVE Basic'
  OBVIOUS
<1>1. /\ pc = "parse" /\ WellFormed(mapping) /\ pc' = "install"
      /\ configs' = [i \in 1..Len(request) |-> Config(i)]
      /\ UNCHANGED <<request, mapping, lists, writable, windows, n, installed, content,
                     artifacts, libSet, file, result>>
  BY DEF ParseBuildTypes, Return, Config, input
<1>2. Parsed'
  BY <1>1 DEF Parsed, Config
<1>3. configs' \in Seq([Name : Names, MappedTo : Names])
  <2>1. request \in Seq(Names) /\ Len(request) \in Nat
    BY ExportAssumption DEF ExportAssumption, Basic, Given
  <2>2. \A i \in 1..Len(request) : request[i] \in Names
    BY <2>1
  <2>3. \A i \in 1..Len(request) : MappedTo(mapping, request[i]) \in Names
    BY <1>1, <2>2, MappedIs DEF Basic, Given
  <2>4. \A i \in 1..Len(request) : Config(i) \in [Name : Names, MappedTo : Names]
    BY <2>2, <2>3 DEF Config
  <2> QED BY <1>1, <2>1, <2>4
<1>4. Stages'
  BY <1>1, <1>2, <1>3 DEF Basic, Stages
<1>5. Merged'
  <2>1. artifacts = <<>> /\ libSet = {}
    BY <1>1 DEF Basic, Merged
  <2> QED BY <1>1, <2>1 DEF Merged
<1>6. Output'
  BY <1>1 DEF Basic, Output, Stages
<1>7. Given'
  BY <1>1 DEF Basic, Given
<1> QED BY <1>4, <1>5, <1>6, <1>7 DEF Basic

LEMMA InstallBasic ==
  Basic /\ (InstallNext \/ OpenOutput \/ Collected) => Basic'
<1> SUFFICES ASSUME Basic, InstallNext \/ OpenOutput \/ Collected PROVE Basic'
  OBVIOUS
<1>1. /\ UNCHANGED <<request, mapping, lists, writable, windows, configs, artifacts, libSet, result>>
      /\ \/ pc = "install" /\ pc' = "install" /\ n' = n + 1 /\ file' = file
         \/ pc = "install" /\ pc' = "collect" /\ n' = 1 /\ file' = IF writable THEN <<>> ELSE file
         \/ pc = "collect" /\ pc' = "generate" /\ n' = 1 /\ file' = file
      /\ pc # "done"
  BY DEF InstallNext, OpenOutput, Collected, input
<1>2. Given'
  BY <1>1 DEF Basic, Given
<1>3. Parsed' /\ Len(configs) \in Nat
  BY <1>1, PrintedIs DEF Basic, Stages, Parsed, Config
<1>4. installed' \subseteq Names /\ DOMAIN content' = Names
  <2>1. CASE InstallNext /\ Unique(n)
    <3>1. /\ n \in 1..Len(configs) /\ installed' = installed \cup {configs[n].MappedTo}
          /\ \E c \in Contents : content' = [content EXCEPT ![configs[n].MappedTo] = c]
      BY <1>3, <2>1 DEF InstallNext, Basic, Stages
    <3>2. configs[n] \in [Name : Names, MappedTo : Names]
      <4>1. configs \in Seq([Name : Names, MappedTo : Names])
        BY DEF Basic, Stages
      <4>2. n \in 1..Len(configs)
        BY <3>1
      <4> QED BY <4>1, <4>2, ElementIs
    <3> QED BY <3>1, <3>2 DEF Basic, Stages
  <2>2. CASE UNCHANGED <<installed, content>>
    BY <2>2 DEF Basic, Stages
  <2> QED BY <2>1, <2>2 DEF InstallNext, OpenOutput, Collected
<1>5. Stages'
  <2>1. n' \in Nat \ {0}
    BY <1>1 DEF Basic, Stages
  <2> QED BY <1>1, <1>3, <1>4, <2>1 DEF Basic, Stages
<1>6. Merged'
  BY <1>1, <1>3 DEF Basic, Merged
<1>7. Output'
  <2>1. CASE pc' = "install"
    BY <1>1, <2>1 DEF Basic, Output, Stages
  <2>2. CASE pc' = "collect"
    BY <1>1, <2>2 DEF Basic, Output, Stages, Merged
  <2>3. CASE pc' = "generate"
    <3>1. n' = 1 /\ file' = IF writable THEN <<>> ELSE <<Old>>
      BY <1>1, <2>3 DEF Basic, Output
    <3>2. Written' = <<>>
      BY <3>1 DEF Written
    <3>3. Sound'
      BY <3>1 DEF Sound
    <3> QED BY <1>1, <2>3, <3>1, <3>2, <3>3 DEF Basic, Output, Stages, Merged
  <2> QED BY <1>1, <2>1, <2>2, <2>3
<1> QED BY <1>2, <1>5, <1>6, <1>7 DEF Basic

LEMMA FirstIs ==
  ASSUME Basic, FirstList, pc' # "done"
  PROVE  /\ n = 1 /\ n' = 2 /\ pc = "collect" /\ pc' = "collect" /\ 1 \in 1..Len(configs)
         /\ PrintedFor(1) \in Lists /\ PrintedFor(1) # NoArtifact /\ Len(PrintedFor(1)) \in Nat
         /\ Printed = PrintedFor(1)
         /\ artifacts' = [k \in 1..Len(PrintedFor(1)) |-> loadFromJson(PrintedFor(1)[k])]
         /\ libSet' = {PrintedFor(1)[k].name : k \in
              {i \in 1..Len(PrintedFor(1)) : PrintedFor(1)[i].type \in Libraries}}
         /\ UNCHANGED <<request, mapping, lists, writable, windows, configs, installed, content,
                        file, result>>
<1>1. /\ n = 1 /\ n <= Len(configs) /\ pc = "collect" /\ Printed # NoArtifact
      /\ artifacts' = [k \in 1..Len(Printed) |-> loadFromJson(Printed[k])]
      /\ libSet' = {Printed[k].name : k \in {i \in 1..Len(Printed) : Printed[i].type \in Libraries}}
      /\ n' = n + 1 /\ pc' = pc
      /\ UNCHANGED <<request, mapping, lists, writable, windows, configs, installed, content,
                     file, result>>
  BY DEF FirstList, Return, input
<1>2. Given /\ Parsed
  BY <1>1 DEF Basic, Stages
<1>3. 1 \in 1..Len(configs)
  BY <1>1, <1>2 DEF Basic, Stages
<1>4. Printed = PrintedFor(1)
  BY <1>1, <1>2, <1>3, PrintedIs DEF Printed
<1>5. n' = 2
  BY <1>1
<1> QED BY <1>1, <1>2, <1>3, <1>4, <1>5, PrintedIs

LEMMA LoadedIs ==
  ASSUME NEW a
  PROVE  /\ DOMAIN loadFromJson(a) = Fields
         /\ loadFromJson(a).type = a.type /\ loadFromJson(a).name = a.name
         /\ a.type = "libset" => loadFromJson(a).libs = a.libs /\ loadFromJson(a).at = <<>>
         /\ a.type # "libset" => loadFromJson(a).at = <<a.at>>
BY DEF loadFromJson, Fields

LEMMA FirstBasic == Basic /\ FirstList /\ pc' # "done" => Basic'
<1> SUFFICES ASSUME Basic, FirstList, pc' # "done" PROVE Basic'
  OBVIOUS
<1> DEFINE p == PrintedFor(1)
<1>1. /\ n = 1 /\ n' = 2 /\ pc = "collect" /\ pc' = "collect" /\ 1 \in 1..Len(configs)
      /\ p \in Lists /\ Len(p) \in Nat
      /\ artifacts' = [k \in 1..Len(p) |-> loadFromJson(p[k])]
      /\ UNCHANGED <<request, mapping, lists, writable, windows, configs, installed, content,
                     file, result>>
  BY FirstIs
<1>2. Given'
  BY <1>1 DEF Basic, Given
<1>3. Stages'
  <2>1. Parsed'
    BY <1>1 DEF Basic, Stages, Parsed, Config
  <2> QED BY <1>1, <2>1 DEF Basic, Stages
<1> HIDE DEF p
<1>4. Len(artifacts') = Len(p)
  BY <1>1
<1>5. ASSUME NEW k \in 1..Len(p)
      PROVE  /\ DOMAIN artifacts'[k] = Fields /\ artifacts'[k].at \in Seq(Places)
             /\ Len(artifacts'[k].at) \in Nat /\ Len(artifacts'[k].at) <= 1
  <2>1. artifacts'[k] = loadFromJson(p[k])
    BY <1>1
  <2>2. p[k].at \in Places
    BY <1>1, PlaceIs
  <2>3. DOMAIN artifacts'[k] = Fields /\ artifacts'[k].at \in {<<>>, <<p[k].at>>}
    BY <2>1, LoadedIs
  <2> QED BY <2>2, <2>3, ShortIs
<1>6. Merged'
  <2>1. Len(configs) \in Nat /\ Len(configs) >= 1
    BY <1>1 DEF Basic, Stages
  <2>2. \A k \in 1..Len(p) : Len(artifacts'[k].at) <= Len(configs) /\ Len(artifacts'[k].at) < 2
    <3> SUFFICES ASSUME NEW k \in 1..Len(p)
                 PROVE  Len(artifacts'[k].at) <= Len(configs) /\ Len(artifacts'[k].at) < 2
      OBVIOUS
    <3> DEFINE x == Len(artifacts'[k].at)
               c == Len(configs)
    <3>1. x \in Nat /\ x <= 1 /\ c \in Nat /\ c >= 1
      BY <1>5, <2>1
    <3> HIDE DEF x, c
    <3>2. x <= c /\ x < 2
      BY <3>1
    <3> QED BY <3>2 DEF x, c
  <2>3. 2 <= Len(configs) + 1 /\ n' # 1
    BY <1>1, <2>1
  <2> QED BY <1>1, <1>4, <1>5, <2>2, <2>3 DEF Merged
<1>7. Output'
  <2>1. Len(file) <= 1 /\ Len(file) \in Nat
    <3>1. file \in {<<>>, <<Old>>} /\ Old \in {Old}
      BY <1>1 DEF Basic, Output
    <3> QED BY <3>1, ShortIs
  <2> QED BY <1>1, <1>4, <2>1 DEF Basic, Output, Stages
<1> QED BY <1>2, <1>3, <1>6, <1>7 DEF Basic

(* A merged artifact has one place more, and is the same otherwise.        *)
LEMMA MergedIs ==
  ASSUME NEW a, NEW b, DOMAIN a = Fields, a.at \in Seq(Places), b.at \in Places
  PROVE  /\ DOMAIN merge(a, b) = Fields /\ merge(a, b).at \in Seq(Places)
         /\ merge(a, b).type = a.type /\ merge(a, b).name = a.name /\ merge(a, b).libs = a.libs
         /\ a.type = "libset" => merge(a, b).at = a.at
         /\ a.type # "libset" =>
              /\ Len(merge(a, b).at) = Len(a.at) + 1
              /\ merge(a, b).at[Len(a.at) + 1] = b.at
              /\ \A i \in 1..Len(a.at) : merge(a, b).at[i] = a.at[i]
<1>1. CASE a.type = "libset"
  BY <1>1 DEF merge
<1>2. CASE a.type # "libset"
  <2> DEFINE s == Append(a.at, b.at)
  <2>1. /\ s \in Seq(Places) /\ Len(s) = Len(a.at) + 1 /\ s[Len(a.at) + 1] = b.at
        /\ \A i \in 1..Len(a.at) : s[i] = a.at[i]
    OBVIOUS
  <2>2. merge(a, b) = [a EXCEPT !.at = s]
    BY <1>2 DEF merge
  <2> HIDE DEF s
  <2>3. /\ DOMAIN merge(a, b) = Fields /\ merge(a, b).at = s
        /\ merge(a, b).type = a.type /\ merge(a, b).name = a.name /\ merge(a, b).libs = a.libs
    BY <2>2 DEF Fields
  <2> QED BY <1>2, <2>1, <2>3
<1> QED BY <1>1, <1>2

LEMMA MergeIs ==
  ASSUME Basic, MergeList, pc' # "done"
  PROVE  /\ n \in 2..Len(configs) /\ n' = n + 1 /\ pc = "collect" /\ pc' = "collect"
         /\ PrintedFor(n) \in Lists /\ PrintedFor(n) # NoArtifact /\ Len(PrintedFor(n)) \in Nat
         /\ Len(PrintedFor(n)) <= Len(artifacts)
         /\ \A k \in 1..Len(PrintedFor(n)) : Mergeable(artifacts[k], loadFromJson(PrintedFor(n)[k]))
         /\ artifacts' = [k \in 1..Len(artifacts) |->
              IF k <= Len(PrintedFor(n)) THEN merge(artifacts[k], PrintedFor(n)[k]) ELSE artifacts[k]]
         /\ UNCHANGED <<request, mapping, lists, writable, windows, configs, installed, content,
                        libSet, file, result>>
<1>1. /\ n > 1 /\ n <= Len(configs) /\ pc = "collect" /\ Printed # NoArtifact
      /\ Len(Printed) <= Len(artifacts)
      /\ \A k \in 1..Len(Printed) : Mergeable(artifacts[k], loadFromJson(Printed[k]))
      /\ artifacts' = [k \in 1..Len(artifacts) |->
           IF k <= Len(Printed) THEN merge(artifacts[k], Printed[k]) ELSE artifacts[k]]
      /\ n' = n + 1 /\ pc' = pc
      /\ UNCHANGED <<request, mapping, lists, writable, windows, configs, installed, content,
                     libSet, file, result>>
  BY DEF MergeList, Return, input
<1>2. Given /\ Parsed /\ n \in 1..Len(configs) /\ n \in 2..Len(configs)
  BY <1>1 DEF Basic, Stages
<1>3. Printed = PrintedFor(n)
  BY <1>2, PrintedIs DEF Printed
<1> QED BY <1>1, <1>2, <1>3, PrintedIs

LEMMA MergeBasic == Basic /\ MergeList /\ pc' # "done" => Basic'
<1> SUFFICES ASSUME Basic, MergeList, pc' # "done" PROVE Basic'
  OBVIOUS
<1> DEFINE p == PrintedFor(n)
<1>1. /\ n \in 2..Len(configs) /\ n' = n + 1 /\ pc = "collect" /\ pc' = "collect"
      /\ p \in Lists /\ Len(p) \in Nat /\ Len(p) <= Len(artifacts)
      /\ artifacts' = [k \in 1..Len(artifacts) |->
           IF k <= Len(p) THEN merge(artifacts[k], p[k]) ELSE artifacts[k]]
      /\ UNCHANGED <<request, mapping, lists, writable, windows, configs, installed, content,
                     libSet, file, result>>
  BY MergeIs
<1>2. Given'
  BY <1>1 DEF Basic, Given
<1>3. Len(configs) \in Nat /\ n \in Nat /\ Len(artifacts) \in Nat
  BY DEF Basic, Stages, Merged
<1>4. Stages'
  <2>1. Parsed'
    BY <1>1 DEF Basic, Stages, Parsed, Config
  <2>2. n' \in Nat \ {0}
    BY <1>1, <1>3
  <2> QED BY <1>1, <2>1, <2>2 DEF Basic, Stages
<1> HIDE DEF p
<1>5. Len(artifacts') = Len(artifacts)
  BY <1>1, <1>3
<1>6. ASSUME NEW k \in 1..Len(artifacts)
      PROVE  /\ DOMAIN artifacts'[k] = Fields /\ artifacts'[k].at \in Seq(Places)
             /\ Len(artifacts'[k].at) <= Len(configs) /\ Len(artifacts'[k].at) < n + 1
  <2>1. /\ DOMAIN artifacts[k] = Fields /\ artifacts[k].at \in Seq(Places)
        /\ Len(artifacts[k].at) < n
    BY <1>1 DEF Basic, Merged
  <2>2. Len(artifacts[k].at) \in Nat /\ Len(artifacts[k].at) + 1 <= n /\ n <= Len(configs)
    BY <1>1, <1>3, <2>1
  <2>3. CASE k <= Len(p)
    <3>1. artifacts'[k] = merge(artifacts[k], p[k]) /\ k \in 1..Len(p)
      BY <1>1, <2>3
    <3>2. p[k].at \in Places
      BY <1>1, <3>1, PlaceIs
    <3>3. /\ DOMAIN artifacts'[k] = Fields /\ artifacts'[k].at \in Seq(Places)
          /\ Len(artifacts'[k].at) \in {Len(artifacts[k].at), Len(artifacts[k].at) + 1}
      BY <2>1, <3>1, <3>2, MergedIs
    <3> QED BY <1>3, <2>2, <3>3
  <2>4. CASE ~(k <= Len(p))
    <3>1. artifacts'[k] = artifacts[k]
      BY <1>1, <2>4
    <3> QED BY <1>3, <2>1, <2>2, <3>1
  <2> QED BY <2>3, <2>4
<1>7. Merged'
  <2>1. n' <= Len(configs) + 1 /\ n' # 1 /\ n' = n + 1
    BY <1>1, <1>3
  <2> QED BY <1>1, <1>3, <1>5, <1>6, <2>1 DEF Merged
<1>8. Output'
  BY <1>1, <1>5 DEF Basic, Output, Stages
<1> QED BY <1>2, <1>4, <1>7, <1>8 DEF Basic

LEMMA GenerateBasic == Basic /\ Generate => Basic'
<1> SUFFICES ASSUME Basic, Generate PROVE Basic'
  OBVIOUS
<1>1. /\ pc = "generate" /\ pc' = pc /\ n <= Len(artifacts) /\ n' = n + 1
      /\ file' = IF writable THEN Append(file, Group(artifacts[n])) ELSE file
      /\ ~Missing(artifacts[n]) /\ ~Dangling(artifacts[n])
      /\ UNCHANGED <<request, mapping, lists, writable, windows, configs, installed, content,
                     artifacts, libSet, result>>
  BY DEF Generate, Generating, Artifact, input
<1>2. Given'
  BY <1>1 DEF Basic, Given
<1>3. n \in Nat \ {0} /\ Len(artifacts) \in Nat
  BY DEF Basic, Stages, Merged
<1>4. Stages'
  <2>1. Parsed'
    BY <1>1 DEF Basic, Stages, Parsed, Config
  <2>2. n' \in Nat \ {0}
    BY <1>1, <1>3
  <2> QED BY <1>1, <2>1, <2>2 DEF Basic, Stages
<1>5. Merged'
  BY <1>1 DEF Basic, Merged
<1>6. Written' = [k \in 1..n |-> Group(artifacts[k])]
  <2>1. n' - 1 = n /\ \A a : Group(a)' = Group(a)
    BY <1>1, <1>3, SameFile
  <2> QED BY <1>1, <2>1 DEF Written
<1>7. writable => file' = Written'
  <2> DEFINE f == [k \in 1..n |-> Group(artifacts[k])]
             m == n - 1
  <2>1. m \in Nat /\ m + 1 = n /\ n \in 1..n
    BY <1>3
  <2>2. Written = [k \in 1..m |-> f[k]]
    BY <2>1 DEF Written
  <2>3. f[n] = Group(artifacts[n]) /\ [k \in 1..n |-> f[k]] = f
    BY <2>1
  <2> HIDE DEF f, m
  <2>4. Append(Written, f[m + 1]) = [k \in 1..(m + 1) |-> f[k]]
    BY <2>1, <2>2, AppendIs
  <2>5. Append(Written, Group(artifacts[n])) = f
    BY <2>1, <2>3, <2>4
  <2>6. writable => file = Written
    BY <1>1 DEF Basic, Output
  <2> QED BY <1>1, <1>6, <2>5, <2>6 DEF f
<1>8. Sound'
  <2>1. \A a : (Missing(a)' <=> Missing(a)) /\ (Dangling(a)' <=> Dangling(a))
    BY <1>1, SameFile
  <2>2. \A k \in 1..(n - 1) : ~Missing(artifacts[k]) /\ ~Dangling(artifacts[k])
    BY <1>1 DEF Basic, Output, Sound
  <2>3. \A k \in 1..(n' - 1) : k \in 1..(n - 1) \/ k = n
    BY <1>1, <1>3
  <2> QED BY <1>1, <2>1, <2>2, <2>3 DEF Sound
<1>9. Len(file') \in Nat /\ Len(file') <= Len(artifacts) + 1 /\ (~writable => file' = <<Old>>)
  <2>1. CASE writable
    <3>1. Len(file') = n
      BY <1>3, <1>6, <1>7, <2>1
    <3> QED BY <1>1, <1>3, <2>1, <3>1
  <2>2. CASE ~writable
    BY <1>1, <2>2 DEF Basic, Output
  <2> QED BY <2>1, <2>2
<1>10. Output'
  <2>1. n' <= Len(artifacts) + 1
    BY <1>1, <1>3
  <2> QED BY <1>1, <1>7, <1>8, <1>9, <2>1 DEF Basic, Output, Stages
<1> QED BY <1>2, <1>4, <1>5, <1>10 DEF Basic

LEMMA ExportedBasic == Basic /\ Exported => Basic'
<1> SUFFICES ASSUME Basic, Exported PROVE Basic'
  OBVIOUS
<1>1. /\ pc = "generate" /\ pc' = "done" /\ result' = "0" /\ n > Len(artifacts)
      /\ UNCHANGED <<request, mapping, lists, writable, windows, configs, n, installed, content,
                     artifacts, libSet, file>>
  BY DEF Exported, Return, input
<1>2. n = Len(artifacts) + 1
  BY <1>1 DEF Basic, Stages, Merged, Output
<1>3. Given' /\ Merged'
  BY <1>1 DEF Basic, Given, Merged
<1>4. Stages'
  <2>1. Parsed'
    BY <1>1 DEF Basic, Stages, Parsed, Config
  <2> QED BY <1>1, <2>1 DEF Basic, Stages
<1>5. Written' = Written /\ Sound'
  BY <1>1, SameFile DEF Basic, Output, Written, Sound
<1>6. Output'
  BY <1>1, <1>2, <1>5 DEF Basic, Output
<1> QED BY <1>3, <1>4, <1>6 DEF Basic

LEMMA NextBasic == Basic /\ [Next]_vars => Basic'
<1> SUFFICES ASSUME Basic, [Next]_vars PROVE Basic'
  OBVIOUS
<1>1. CASE UNCHANGED vars
  <2>1. UNCHANGED <<request, mapping, lists, writable, windows, pc, configs, n, installed, content,
                    artifacts, libSet, file, result>>
    BY <1>1 DEF vars, input
  <2>2. Written' = Written /\ (Sound' <=> Sound) /\ (Parsed' <=> Parsed)
    BY <2>1, SameFile DEF Written, Sound, Parsed, Config
  <2>3. (Given' <=> Given) /\ (Stages' <=> Stages)
    BY <2>1, <2>2 DEF Given, Stages
  <2>4. (Merged' <=> Merged) /\ (Output' <=> Output)
    BY <2>1, <2>2 DEF Merged, Output
  <2> QED BY <2>3, <2>4 DEF Basic
<1>2. CASE Next
  <2>1. CASE Fails
    BY <2>1, FailsBasic
  <2>2. CASE ~Fails
    BY <1>2, <2>2, ParseBasic, InstallBasic, FirstBasic, MergeBasic, GenerateBasic, ExportedBasic
       DEF Next, Fails
  <2> QED BY <2>1, <2>2
<1> QED BY <1>1, <1>2

(* The state of an export keeps its type: no artifact gets more paths than *)
(* there are configurations, and no more is written than there are         *)
(* artifacts, whatever recipes print (package.cpp:201-254).                *)
THEOREM ExportTypes == Spec => []TypeOK
<1>1. Basic => TypeOK
  BY DEF Basic, Stages, Merged, Output, TypeOK
<1> QED BY <1>1, InitBasic, NextBasic, PTL DEF Spec

-----------------------------------------------------------------------------
(* Configurations that print the same number of artifacts.                 *)
LEMMA AgreedStays ==
  ASSUME UNCHANGED <<request, mapping, lists, artifacts, libSet>>
  PROVE  \A m : Agreed(m)' <=> Agreed(m)
BY DEF Agreed, PrintedFor

LEMMA SameStays ==
  ASSUME UNCHANGED <<request, mapping, lists>>
  PROVE  (SameNumber' <=> SameNumber) /\ \A i : PrintedFor(i)' = PrintedFor(i)
BY DEF SameNumber, PrintedFor

LEMMA FirstAgrees ==
  ASSUME Basic, FirstList, pc' # "done"
  PROVE  n' = 2 /\ Agreed(1)'
<1> DEFINE p == PrintedFor(1)
<1>1. /\ n' = 2 /\ Len(p) \in Nat
      /\ artifacts' = [k \in 1..Len(p) |-> loadFromJson(p[k])]
      /\ libSet' = {p[k].name : k \in {i \in 1..Len(p) : p[i].type \in Libraries}}
      /\ p' = p
  BY FirstIs, SameStays
<1> HIDE DEF p
<1>2. Len(artifacts') = Len(p)
  BY <1>1
<1>3. ASSUME NEW k \in 1..Len(p)
      PROVE  /\ artifacts'[k].type = p[k].type /\ artifacts'[k].name = p[k].name
             /\ artifacts'[k].type = "libset" => artifacts'[k].libs = p[k].libs
             /\ artifacts'[k].type # "libset" => artifacts'[k].at = <<p[k].at>>
  <2>1. artifacts'[k] = loadFromJson(p[k])
    BY <1>1
  <2> QED BY <2>1, LoadedIs
<1>4. ASSUME NEW k \in 1..Len(p), artifacts'[k].type # "libset"
      PROVE  Len(artifacts'[k].at) = 1 /\ artifacts'[k].at[1] = p[k].at
  <2>1. artifacts'[k].at = <<p[k].at>>
    BY <1>3, <1>4
  <2> QED BY <2>1
<1>5. libSet' = {artifacts'[k].name : k \in {j \in 1..Len(artifacts') : artifacts'[j].type \in Libraries}}
  BY <1>1, <1>2, <1>3
<1>6. \A i \in 1..1 : i = 1
  OBVIOUS
<1> QED BY <1>1, <1>2, <1>3, <1>4, <1>5, <1>6 DEF Agreed, p

LEMMA MergeAgrees ==
  ASSUME Basic, MergeList, pc' # "done", SameNumber, Agreed(n - 1)
  PROVE  Agreed(n - 1)'
<1> DEFINE p == PrintedFor(n)
<1>1. /\ n \in 2..Len(configs) /\ n' = n + 1 /\ p \in Lists /\ Len(p) \in Nat
      /\ \A k \in 1..Len(p) : Mergeable(artifacts[k], loadFromJson(p[k]))
      /\ artifacts' = [k \in 1..Len(artifacts) |->
           IF k <= Len(p) THEN merge(artifacts[k], p[k]) ELSE artifacts[k]]
      /\ UNCHANGED <<request, mapping, lists, libSet>> /\ pc = "collect"
  BY MergeIs
<1>2. n \in Nat /\ n - 1 # 0 /\ Len(configs) = Len(request) /\ n \in 1..Len(request)
  <2>1. Given /\ Parsed /\ n \in Nat /\ Len(configs) \in Nat /\ n \in 1..Len(configs)
    BY <1>1 DEF Basic, Stages
  <2>2. Len(configs) = Len(request)
    BY <2>1, PrintedIs
  <2> QED BY <1>1, <2>1, <2>2
<1>3. Len(p) = Len(artifacts) /\ Len(PrintedFor(1)) = Len(artifacts)
  BY <1>1, <1>2 DEF Agreed, SameNumber, Basic, Stages, Parsed
<1>4. \A i : PrintedFor(i)' = PrintedFor(i)
  BY <1>1, SameStays
<1> HIDE DEF p
<1>5. Len(artifacts') = Len(artifacts)
  BY <1>1, <1>3
<1>6. ASSUME NEW k \in 1..Len(artifacts)
      PROVE  /\ artifacts'[k].type = artifacts[k].type /\ artifacts'[k].name = artifacts[k].name
             /\ artifacts[k].type = p[k].type /\ artifacts[k].name = p[k].name
             /\ artifacts'[k].libs = artifacts[k].libs
             /\ artifacts[k].type = "libset" => artifacts[k].libs = p[k].libs
             /\ artifacts[k].type # "libset" =>
                  /\ Len(artifacts'[k].at) = n /\ artifacts'[k].at[n] = p[k].at
                  /\ \A i \in 1..(n - 1) : artifacts'[k].at[i] = artifacts[k].at[i]
  <2>1. artifacts'[k] = merge(artifacts[k], p[k]) /\ k \in 1..Len(p)
    BY <1>1, <1>3
  <2>2. DOMAIN artifacts[k] = Fields /\ artifacts[k].at \in Seq(Places) /\ p[k].at \in Places
    BY <1>1, <2>1, PlaceIs DEF Basic, Merged
  <2>3. /\ artifacts'[k].type = artifacts[k].type /\ artifacts'[k].name = artifacts[k].name
        /\ artifacts'[k].libs = artifacts[k].libs
    BY <2>1, <2>2, MergedIs
  <2>4. /\ artifacts[k].type = p[k].type /\ artifacts[k].name = p[k].name
        /\ artifacts[k].type = "libset" => artifacts[k].libs = p[k].libs
    BY <1>1, <2>1, LoadedIs DEF Mergeable
  <2>5. ASSUME artifacts[k].type # "libset"
        PROVE  /\ Len(artifacts'[k].at) = n /\ artifacts'[k].at[n] = p[k].at
               /\ \A i \in 1..(n - 1) : artifacts'[k].at[i] = artifacts[k].at[i]
    <3>1. Len(artifacts[k].at) = n - 1
      BY <2>5 DEF Agreed
    <3>2. (n - 1) + 1 = n
      BY <1>2
    <3>3. /\ Len(artifacts'[k].at) = Len(artifacts[k].at) + 1
          /\ artifacts'[k].at[Len(artifacts[k].at) + 1] = p[k].at
          /\ \A i \in 1..Len(artifacts[k].at) : artifacts'[k].at[i] = artifacts[k].at[i]
      BY <2>1, <2>2, <2>5, MergedIs
    <3> QED BY <3>1, <3>2, <3>3
  <2> QED BY <2>3, <2>4, <2>5
<1>7. libSet' = {artifacts'[k].name : k \in {j \in 1..Len(artifacts') : artifacts'[j].type \in Libraries}}
  <2>1. libSet = {artifacts[k].name : k \in {j \in 1..Len(artifacts) : artifacts[j].type \in Libraries}}
    BY DEF Agreed
  <2> QED BY <1>1, <1>5, <1>6, <2>1
<1>8. ASSUME NEW k \in 1..Len(artifacts), NEW i \in 1..n
      PROVE  /\ artifacts'[k].type = PrintedFor(i)[k].type /\ artifacts'[k].name = PrintedFor(i)[k].name
             /\ artifacts'[k].type = "libset" => artifacts'[k].libs = PrintedFor(i)[k].libs
             /\ artifacts'[k].type # "libset" => artifacts'[k].at[i] = PrintedFor(i)[k].at
  <2>1. CASE i = n
    BY <1>6, <2>1 DEF p
  <2>2. CASE i # n
    <3>1. i \in 1..(n - 1)
      BY <1>2, <2>2
    <3>2. /\ artifacts[k].type = PrintedFor(i)[k].type /\ artifacts[k].name = PrintedFor(i)[k].name
          /\ artifacts[k].type = "libset" => artifacts[k].libs = PrintedFor(i)[k].libs
          /\ artifacts[k].type # "libset" => artifacts[k].at[i] = PrintedFor(i)[k].at
      BY <3>1 DEF Agreed
    <3> QED BY <1>6, <3>1, <3>2
  <2> QED BY <2>1, <2>2
<1>9. \A k \in 1..Len(artifacts) : artifacts'[k].type # "libset" => Len(artifacts'[k].at) = n
  BY <1>6
<1>10. n' - 1 = n /\ n # 0
  BY <1>1, <1>2
<1>11. \A k \in 1..Len(artifacts') :
         /\ artifacts'[k].type # "libset" => Len(artifacts'[k].at) = n' - 1
         /\ \A i \in 1..(n' - 1) :
              /\ artifacts'[k].type = PrintedFor(i)'[k].type
              /\ artifacts'[k].name = PrintedFor(i)'[k].name
              /\ artifacts'[k].type = "libset" => artifacts'[k].libs = PrintedFor(i)'[k].libs
              /\ artifacts'[k].type # "libset" => artifacts'[k].at[i] = PrintedFor(i)'[k].at
  <2> SUFFICES ASSUME NEW k \in 1..Len(artifacts)
               PROVE  /\ artifacts'[k].type # "libset" => Len(artifacts'[k].at) = n
                      /\ \A i \in 1..n :
                           /\ artifacts'[k].type = PrintedFor(i)[k].type
                           /\ artifacts'[k].name = PrintedFor(i)[k].name
                           /\ artifacts'[k].type = "libset" => artifacts'[k].libs = PrintedFor(i)[k].libs
                           /\ artifacts'[k].type # "libset" => artifacts'[k].at[i] = PrintedFor(i)[k].at
    BY <1>4, <1>5, <1>10
  <2> QED BY <1>8, <1>9
<1>12. /\ n' - 1 # 0
       /\ Len(artifacts') = Len(PrintedFor(1)')
  BY <1>2, <1>3, <1>4, <1>5, <1>10
<1> QED BY <1>7, <1>11, <1>12 DEF Agreed

LEMMA NothingIsBeyond ==
  ASSUME Basic, Agreed(Len(configs)), pc = "generate"
  PROVE  \A k \in 1..Len(artifacts) : ~ReadsBeyond(artifacts[k])
<1>1. Len(configs) \in Nat
  BY DEF Basic, Stages
<1> QED BY <1>1 DEF Agreed, ReadsBeyond, PerConfig

LEMMA NextAgreement == Basic /\ Agreement /\ [Next]_vars => Agreement'
<1> SUFFICES ASSUME Basic, Agreement, [Next]_vars, SameNumber
             PROVE  /\ pc' = "collect" => Agreed(n - 1)'
                    /\ pc' = "generate" \/ result' = "0" => Agreed(Len(configs))'
                    /\ result' # "crash"
  BY InputStays, SameStays DEF Agreement
<1>1. pc # "done" => result = "none"
  BY DEF Basic, Stages
<1>2. CASE UNCHANGED vars
  <2>1. /\ UNCHANGED <<request, mapping, lists, artifacts, libSet>>
        /\ UNCHANGED <<pc, configs, n, result>>
    BY <1>2 DEF vars, input
  <2> QED BY <2>1, AgreedStays DEF Agreement
<1>3. CASE ParseBuildTypes \/ InstallNext \/ InstallFails \/ NoList \/ GenerateFails
  <2>1. pc' \in {"install", "done"} /\ result' \in {"none", "1"}
    BY <1>1, <1>3 DEF ParseBuildTypes, InstallNext, InstallFails, NoList, GenerateFails, Generating, Return
  <2> QED BY <2>1
<1>4. CASE (FirstList \/ MergeList) /\ pc' = "done"
  <2>1. result' = "1"
    BY <1>4 DEF FirstList, MergeList, Return
  <2> QED BY <1>4, <2>1
<1>5. CASE OpenOutput
  <2>1. /\ pc' = "collect" /\ n' = 1 /\ result' = "none" /\ artifacts' = <<>> /\ libSet' = {}
    BY <1>1, <1>5 DEF OpenOutput, Basic, Merged
  <2>2. Agreed(0)'
    BY <2>1 DEF Agreed
  <2>3. n' - 1 = 0
    BY <2>1
  <2> QED BY <2>1, <2>2, <2>3
<1>6. CASE FirstList /\ pc' # "done"
  <2>1. /\ pc' = "collect" /\ n' = 2 /\ result' = "none" /\ Agreed(1)'
    BY <1>1, <1>6, FirstIs, FirstAgrees
  <2>2. n' - 1 = 1
    BY <2>1
  <2> QED BY <2>1, <2>2
<1>7. CASE MergeList /\ pc' # "done"
  <2>1. pc = "collect" /\ pc' = "collect" /\ result' = "none"
    BY <1>1, <1>7, MergeIs
  <2> QED BY <1>7, <2>1, MergeAgrees DEF Agreement
<1>8. CASE Collected
  <2>1. /\ pc = "collect" /\ pc' = "generate" /\ n > Len(configs) /\ result' = "none"
        /\ UNCHANGED <<request, mapping, lists, configs, artifacts, libSet>>
    BY <1>1, <1>8 DEF Collected, input
  <2>2. n - 1 = Len(configs)
    BY <2>1 DEF Basic, Stages, Merged
  <2> QED BY <2>1, <2>2, AgreedStays DEF Agreement
<1>9. CASE Generate \/ Exported
  <2>1. /\ pc = "generate" /\ pc' \in {"generate", "done"} /\ result' \in {"none", "0"}
        /\ UNCHANGED <<request, mapping, lists, configs, artifacts, libSet>>
    BY <1>1, <1>9 DEF Generate, Generating, Exported, Return, input
  <2> QED BY <2>1, AgreedStays DEF Agreement
<1>10. CASE Crash
  <2>1. pc = "generate" /\ Agreed(Len(configs)) /\ n \in 1..Len(artifacts)
    BY <1>10 DEF Crash, Generating, Agreement, Basic, Stages, Merged
  <2>2. \A k \in 1..Len(artifacts) : ~ReadsBeyond(artifacts[k])
    BY <2>1, NothingIsBeyond
  <2> QED BY <1>10, <2>1, <2>2 DEF Crash, Artifact, LinksBeyond, Linked
<1> QED BY <1>2, <1>3, <1>4, <1>5, <1>6, <1>7, <1>8, <1>9, <1>10 DEF Next

LEMMA InitAgreement == Init => Agreement
BY DEF Init, Agreement

(* When the configurations agree on the number of artifacts no vector of   *)
(* paths is read beyond its end, so the export does not crash and no group *)
(* holds a path of nothing, for every recipe (cmake.cpp:201-445).          *)
THEOREM ReadsWithin == Spec => []NothingBeyond
<1>1. Basic /\ Agreement => NothingBeyond
  BY NothingIsBeyond DEF NothingBeyond, Agreement
<1> QED BY <1>1, InitBasic, NextBasic, InitAgreement, NextAgreement, PTL DEF Spec

-----------------------------------------------------------------------------
(* What a file says of the artifacts it was written from.                  *)
LEMMA GroupFields ==
  \A a : /\ Group(a).type = a.type /\ Group(a).name = a.name /\ Group(a).libs = a.libs
         /\ \A i \in Configurations : PerConfig(a) => Group(a).at[i] = Location(a, i)
         /\ DOMAIN Group(a).includes = Configurations
         /\ \A i \in Configurations : Group(a).includes[i] =
              {Location(artifacts[k], i) : k \in IF a.type \in Libraries THEN Linked(a) ELSE {}}
BY DEF Group

LEMMA GroupIs ==
  ASSUME Basic, result = "0", writable
  PROVE  /\ Len(file) = Len(artifacts) /\ Len(artifacts) \in Nat
         /\ \A k \in 1..Len(artifacts) :
              /\ file[k] = Group(artifacts[k])
              /\ ~Missing(artifacts[k]) /\ ~Dangling(artifacts[k])
<1>1. n = Len(artifacts) + 1 /\ Len(artifacts) \in Nat /\ file = Written /\ Sound
  BY DEF Basic, Output, Merged
<1>2. n - 1 = Len(artifacts)
  BY <1>1
<1>3. file = [k \in 1..Len(artifacts) |-> Group(artifacts[k])]
  BY <1>1, <1>2 DEF Written
<1> QED BY <1>1, <1>2, <1>3 DEF Sound

LEMMA LocationIs ==
  ASSUME Basic, Parsed, Agreed(Len(configs)), NEW k \in 1..Len(artifacts),
         artifacts[k].type # "libset", NEW i \in 1..Len(configs)
  PROVE  /\ Location(artifacts[k], i) =
              [config |-> request[i], prefix |-> MappedTo(mapping, request[i]),
               needed |-> Needed(artifacts[k], PrintedFor(i)[k].at),
               defs |-> PrintedFor(i)[k].at.defs]
         /\ ~Missing(artifacts[k]) /\ PerConfig(artifacts[k]) =>
              Needed(artifacts[k], PrintedFor(i)[k].at) \subseteq content[MappedTo(mapping, request[i])]
<1>1. Len(configs) = Len(request) /\ Len(configs) \in Nat
  BY PrintedIs DEF Basic
<1>2. /\ Len(artifacts[k].at) = Len(configs) /\ artifacts[k].at[i] = PrintedFor(i)[k].at
      /\ i <= Len(artifacts[k].at)
  BY <1>1 DEF Agreed
<1>3. configs[i].Name = request[i] /\ configs[i].MappedTo = MappedTo(mapping, request[i])
  BY <1>1 DEF Parsed, Config
<1> QED BY <1>2, <1>3 DEF Location, Missing, Configurations

(* After exit status 0 the file holds the artifacts of the recipe, all and *)
(* in order, and in every configuration those that the build type mapped   *)
(* to it has, which exist below its prefix (cmake.cpp:118-449).            *)
THEOREM ExportsAll == Spec => []CompleteExport
<1>1. Basic /\ Agreement => CompleteExport
  <2> SUFFICES ASSUME Basic, Agreement, result = "0", writable, SameNumber
               PROVE  CompleteExport
    BY DEF CompleteExport
  <2>1. Parsed /\ Agreed(Len(configs))
    BY DEF Basic, Stages, Agreement
  <2>2. Len(configs) = Len(request) /\ Len(request) \in Nat
    <3>1. request \in Seq(Names) /\ Len(request) \in Nat
      BY ExportAssumption DEF ExportAssumption, Basic, Given
    <3> QED BY <2>1, <3>1 DEF Parsed
  <2>3. Len(file) = IF request = <<>> THEN 0 ELSE Len(PrintedFor(1))
    <3>1. CASE request = <<>>
      <4>1. Len(configs) = 0
        BY <2>2, <3>1
      <4>2. artifacts = <<>>
        BY <2>1, <4>1 DEF Agreed
      <4> QED BY <3>1, <4>2, GroupIs
    <3>2. CASE request # <<>>
      <4>1. Len(configs) # 0
        BY <2>2, <3>2, ExportAssumption DEF ExportAssumption, Basic, Given
      <4> QED BY <2>1, <3>2, <4>1, GroupIs DEF Agreed
    <3> QED BY <3>1, <3>2
  <2>4. ASSUME NEW k \in 1..Len(file), NEW i \in 1..Len(request)
        PROVE  LET w == PrintedFor(i)[k]
               IN  /\ file[k].type = w.type /\ file[k].name = w.name
                   /\ w.type = "libset" => file[k].libs = w.libs
                   /\ PerConfig(w) =>
                        /\ file[k].at[i] = [config |-> request[i],
                              prefix |-> MappedTo(mapping, request[i]),
                              needed |-> Promised(w), defs |-> w.at.defs]
                        /\ Promised(w) \subseteq content[MappedTo(mapping, request[i])]
    <3> DEFINE w == PrintedFor(i)[k]
               a == artifacts[k]
    <3>1. /\ k \in 1..Len(artifacts) /\ i \in 1..Len(configs) /\ file[k] = Group(a) /\ ~Missing(a)
      BY <2>2, GroupIs
    <3>2. a.type = w.type /\ a.name = w.name /\ (w.type = "libset" => a.libs = w.libs)
      BY <2>1, <3>1 DEF Agreed
    <3>3. file[k].type = a.type /\ file[k].name = a.name /\ file[k].libs = a.libs
      BY <3>1, GroupFields
    <3>4. ASSUME PerConfig(w)
          PROVE  /\ file[k].at[i] = [config |-> request[i],
                        prefix |-> MappedTo(mapping, request[i]),
                        needed |-> Promised(w), defs |-> w.at.defs]
                 /\ Promised(w) \subseteq content[MappedTo(mapping, request[i])]
      <4>1. PerConfig(a) /\ a.type # "libset"
        BY <3>2, <3>4 DEF PerConfig
      <4>2. file[k].at[i] = Location(a, i)
        BY <3>1, <4>1, GroupFields DEF Configurations
      <4>3. Needed(a, w.at) = Promised(w)
        BY <3>2 DEF Needed, Imported, Promised
      <4> QED BY <2>1, <3>1, <4>1, <4>2, <4>3, LocationIs
    <3> QED BY <3>2, <3>3, <3>4
  <2> QED BY <2>3, <2>4 DEF CompleteExport
<1> QED BY <1>1, InitBasic, NextBasic, InitAgreement, NextAgreement, PTL DEF Spec

(* After exit status 0 what a library links and what a libset names is     *)
(* there, in every configuration (cmake.cpp:303-343, 424-432).             *)
THEOREM LinksAreThere == Spec => []LinksExist
<1>1. Basic /\ Agreement => LinksExist
  <2> SUFFICES ASSUME Basic, Agreement, result = "0", writable, SameNumber, NEW k \in 1..Len(file)
               PROVE  /\ \A i \in DOMAIN file[k].includes : \A l \in file[k].includes[i] :
                           l.config = request[i] /\ l.needed \subseteq content[l.prefix]
                      /\ file[k].type = "libset" => \A j \in 1..Len(file[k].libs) :
                           \E x \in 1..Len(file) : /\ file[x].name = file[k].libs[j]
                                                   /\ file[x].type \in Libraries
    BY DEF LinksExist
  <2> DEFINE a == artifacts[k]
  <2>1. Parsed /\ Agreed(Len(configs))
    BY DEF Basic, Stages, Agreement
  <2>2. /\ k \in 1..Len(artifacts) /\ file[k] = Group(a) /\ ~Dangling(a)
        /\ Len(file) = Len(artifacts)
        /\ \A x \in 1..Len(artifacts) : file[x] = Group(artifacts[x]) /\ ~Missing(artifacts[x])
    BY GroupIs
  <2>3. \A x \in 1..Len(artifacts) :
          /\ file[x].type = artifacts[x].type /\ file[x].name = artifacts[x].name
          /\ file[x].libs = artifacts[x].libs
    BY <2>2, GroupFields
  <2>4. ASSUME NEW i \in DOMAIN file[k].includes, NEW l \in file[k].includes[i]
        PROVE  l.config = request[i] /\ l.needed \subseteq content[l.prefix]
    <3>1. /\ i \in 1..Len(configs)
          /\ l \in {Location(artifacts[x], i) : x \in IF a.type \in Libraries THEN Linked(a) ELSE {}}
      BY <2>2, <2>4, GroupFields DEF Configurations
    <3>2. PICK x \in 1..Len(artifacts) :
            artifacts[x].type = "include" /\ l = Location(artifacts[x], i)
      BY <3>1 DEF Linked
    <3>3. artifacts[x].type # "libset" /\ PerConfig(artifacts[x]) /\ ~Missing(artifacts[x])
      BY <2>2, <3>2 DEF PerConfig
    <3> DEFINE files == Needed(artifacts[x], PrintedFor(i)[x].at)
               d == PrintedFor(i)[x].at.defs
    <3>4. /\ l = [config |-> request[i], prefix |-> MappedTo(mapping, request[i]),
                  needed |-> files, defs |-> d]
          /\ files \subseteq content[MappedTo(mapping, request[i])]
      BY <2>1, <3>1, <3>2, <3>3, LocationIs
    <3> HIDE DEF files, d
    <3> QED BY <3>4
  <2>5. ASSUME file[k].type = "libset", NEW j \in 1..Len(file[k].libs)
        PROVE  \E x \in 1..Len(file) : file[x].name = file[k].libs[j] /\ file[x].type \in Libraries
    <3>1. a.libs[j] \in libSet /\ file[k].libs = a.libs
      BY <2>2, <2>3, <2>5 DEF Dangling
    <3>2. PICK x \in 1..Len(artifacts) :
            artifacts[x].type \in Libraries /\ artifacts[x].name = a.libs[j]
      BY <2>1, <3>1 DEF Agreed
    <3> QED BY <2>2, <2>3, <3>1, <3>2
  <2> QED BY <2>4, <2>5
<1> QED BY <1>1, InitBasic, NextBasic, InitAgreement, NextAgreement, PTL DEF Spec
===============================================================================
