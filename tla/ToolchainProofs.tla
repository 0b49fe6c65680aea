---------------------------- MODULE ToolchainProofs ----------------------------
(***************************************************************************)
(* Proofs about Toolchain, for any recipes, dependencies, compilers of the *)
(* host and requests.  That DEPENDS has no cycles is not used: what comes  *)
(* back to a source package can only fail.                                 *)
(***************************************************************************)
EXTENDS Toolchain, SequenceTheorems, TLAPS

Frames == [package : Packages, dep : Nat \ {0}]

Typed ==
  /\ request \in Requests
  /\ host \in [Languages -> Detections \cup {None}]
  /\ compilers \in [Languages -> Detections \cup {None}]
  /\ langs \in [Packages -> Seq(Languages)]
  /\ prefix = [p \in Packages |-> prefix[p]]
  /\ stack \in Seq(Frames)
  /\ type \in 1..Len(request.types)
  /\ pc \in {"inspect", "search", "prefix", "install", "depends", "done"}
  /\ package \in Packages /\ exit \in {"none", "0", "1"}
  /\ pc = "depends" => stack # <<>>

Root == request.package

(* The root call is below all others.                                      *)
Rooted ==
  /\ stack # <<>> => stack[1].package = Root
  /\ stack = <<>> /\ pc # "done" => package = Root

(* The compilers of p were run and accepted.                               *)
Searched(p) == \A l \in Declared(p) : compilers[l] # None /\ Fits(compilers[l])

(* The search is for every language the recipe names.                      *)
Learnt == pc = "search" /\ package \notin Binary =>
            Declared(package) \subseteq InSeq(langs[package])

(* Source packages past the search, and those that wait for a dependency.  *)
Ready == pc \in {"prefix", "install"} /\ package \notin Binary => Searched(package)
Waiting == \A i \in 1..Len(stack) :
             stack[i].package \notin Binary => Searched(stack[i].package)

(* Only the root is built, by the compilers still known.                   *)
Handed ==
  env # None =>
    /\ env.package = Root /\ Root \notin Binary /\ Searched(Root)
    /\ \A l \in Declared(Root) : env.compilers[l] = compilers[l]

(* A source package to be built as a dependency, or the root as one of its *)
(* own dependencies: the invocation will fail.                             *)
Doomed ==
  \/ \E i \in 2..Len(stack) : stack[i].package \notin Binary
  \/ /\ stack # <<>> /\ package = Root /\ Root \notin Binary
     /\ pc \in {"inspect", "search", "prefix", "install"}

(* Otherwise the root was inspected once, and the prefix it has names the  *)
(* compilers of its languages, and the build type of the loop of main.     *)
RootInspected ==
  Root \notin Binary /\ ~Doomed /\ pc # "done" =>
    langs[Root] = IF pc = "inspect" /\ stack = <<>> THEN <<>> ELSE LANGS[Root]
RootPrefixed ==
  Root \notin Binary /\ ~Doomed /\ (stack # <<>> \/ pc = "install") /\ pc # "done" =>
    prefix[Root] = <<ToolchainIds(LANGS[Root]), Root, BuildType>>
Named ==
  env # None =>
    /\ env.prefix[1] = ToolchainIds(LANGS[Root])
    /\ env.prefix[3] = env.type

(* Nothing clears the subtype found for a root without dependencies.       *)
Agrees(found, sub) == \A l \in Declared(Root) : found[l].sub # "" => sub = found[l].sub
Alone ==
  DEPENDS[Root] = <<>> /\ pc # "done" =>
    /\ pc # "depends" => stack = <<>>
    /\ Len(stack) <= 1
    /\ pc \in {"prefix", "install", "depends"} /\ Root \notin Binary =>
         Agrees(compilers, subType)
Told == env # None /\ DEPENDS[Root] = <<>> => Agrees(env.compilers, env.sub)

-----------------------------------------------------------------------------
LEMMA ElementIs ==
  ASSUME NEW S, NEW q \in Seq(S), NEW i \in 1..Len(q)
  PROVE  q[i] \in S
OBVIOUS

LEMMA LastIs ==
  ASSUME NEW S, NEW q \in Seq(S), q # <<>>
  PROVE  Len(q) \in 1..Len(q) /\ q[Len(q)] \in S
OBVIOUS

(* The frame that is left when a call returns.                             *)
LEMMA Shorter ==
  ASSUME NEW S, NEW q \in Seq(S), q # <<>>
  PROVE  /\ SubSeq(q, 1, Len(q) - 1) \in Seq(S)
         /\ Len(SubSeq(q, 1, Len(q) - 1)) = Len(q) - 1
         /\ \A i \in 1..(Len(q) - 1) : SubSeq(q, 1, Len(q) - 1)[i] = q[i]
OBVIOUS

LEMMA Longer ==
  ASSUME NEW S, NEW q \in Seq(S), NEW x \in S
  PROVE  /\ Append(q, x) \in Seq(S) /\ Append(q, x) # <<>>
         /\ Len(Append(q, x)) = Len(q) + 1
         /\ \A i \in 1..Len(q) : Append(q, x)[i] = q[i]
         /\ Append(q, x)[Len(q) + 1] = x
OBVIOUS

(* The other fields and frames stay when a dependency is taken.            *)
LEMMA Stepped ==
  ASSUME NEW q \in Seq(Frames), q # <<>>, NEW r,
         r = [q EXCEPT ![Len(q)].dep = @ + 1]
  PROVE  /\ r \in Seq(Frames) /\ Len(r) = Len(q)
         /\ \A i \in 1..Len(q) : r[i].package = q[i].package
<1>1. q[Len(q)] \in Frames
  BY LastIs
<1> DEFINE f == [q[Len(q)] EXCEPT !.dep = @ + 1]
<1>2. f \in Frames /\ f.package = q[Len(q)].package
  BY <1>1 DEF Frames
<1>3. r = [q EXCEPT ![Len(q)] = f]
  OBVIOUS
<1> HIDE DEF f
<1>4. Len(q) \in 1..Len(q)
  BY LastIs
<1>5. r \in Seq(Frames) /\ Len(r) = Len(q)
  BY <1>2, <1>3, <1>4
<1>6. ASSUME NEW i \in 1..Len(q) PROVE r[i].package = q[i].package
  <2>1. CASE i = Len(q)
    BY <2>1, <1>2, <1>3
  <2>2. CASE i # Len(q)
    BY <2>2, <1>3
  <2> QED BY <2>1, <2>2
<1> QED BY <1>5, <1>6

(* What InstallReturns leads to.                                           *)
LEMMA Returning ==
  ASSUME Typed, stack' \in Seq(Frames), InstallReturns, UNCHANGED request
  PROVE  /\ type' \in 1..Len(request.types)
         /\ pc' \in {"prefix", "depends", "done"}
         /\ package' \in Packages /\ exit' \in {"none", "0", "1"}
         /\ pc' = "depends" => stack' # <<>>
         /\ pc' = "depends" => package' = stack'[Len(stack')].package /\ type' = type
         /\ pc' = "prefix" => stack' = <<>> /\ package' = Root
         /\ stack' = <<>> => pc' \in {"prefix", "done"}
         /\ stack' # <<>> => pc' = "depends"
<1>1. Len(request.types) \in Nat /\ request.package \in Packages
  BY ToolchainAssumption DEF Typed, ToolchainAssumption
<1>2. CASE stack' # <<>>
  <2>1. stack'[Len(stack')] \in Frames
    BY <1>2, LastIs
  <2>2. stack'[Len(stack')].package \in Packages
    BY <2>1 DEF Frames
  <2> QED BY <1>2, <2>2 DEF InstallReturns, Typed
<1>3. CASE stack' = <<>>
  <2>1. CASE type < Len(request.types)
    BY <1>1, <1>3, <2>1 DEF InstallReturns, Typed, Root
  <2>2. CASE ~(type < Len(request.types))
    BY <1>1, <1>3, <2>2 DEF InstallReturns, Typed, Root
  <2> QED BY <2>1, <2>2
<1> QED BY <1>2, <1>3

LEMMA DetectedIs ==
  ASSUME Typed, NEW ls
  PROVE  /\ Detected(ls) \in [Languages -> Detections \cup {None}]
         /\ \A l \in Languages : compilers[l] # None => Detected(ls)[l] = compilers[l]
BY DEF Typed, Detected

(* The frame an action of "depends" works in.                              *)
LEMMA FrameIs ==
  ASSUME Typed, pc = "depends"
  PROVE  stack # <<>> /\ Frame \in Frames /\ Frame.package \in Packages
         /\ Frame.dep \in Nat \ {0} /\ Len(stack) \in 1..Len(stack)
<1>1. stack \in Seq(Frames) /\ stack # <<>>
  BY DEF Typed
<1>2. stack[Len(stack)] \in Frames /\ Len(stack) \in 1..Len(stack)
  BY <1>1, LastIs
<1> QED BY <1>1, <1>2 DEF Frame, Frames

LEMMA InitTyped == Init => Typed
<1> SUFFICES ASSUME Init PROVE Typed
  OBVIOUS
<1>1. request \in Requests /\ request.package \in Packages /\ Len(request.types) \in Nat \ {0}
  BY ToolchainAssumption DEF Init, ToolchainAssumption
<1>2. request.types = request.types /\ 1 \in 1..Len(request.types)
  BY <1>1
<1>3. compilers \in [Languages -> Detections \cup {None}]
  BY DEF Init
<1>4. langs \in [Packages -> Seq(Languages)]
  <2>1. <<>> \in Seq(Languages)
    OBVIOUS
  <2> QED BY <2>1 DEF Init
<1>5. prefix = [p \in Packages |-> prefix[p]]
  BY Zenon DEF Init
<1>6. stack \in Seq(Frames) /\ type \in 1..Len(request.types)
  <2>1. stack = <<>> /\ type = 1
    BY DEF Init
  <2> QED BY <1>2, <2>1
<1>7. /\ pc \in {"inspect", "search", "prefix", "install", "depends", "done"}
      /\ pc # "depends" /\ exit \in {"none", "0", "1"}
      /\ host \in [Languages -> Detections \cup {None}] /\ package \in Packages
  BY <1>1 DEF Init
<1> QED BY <1>1, <1>3, <1>4, <1>5, <1>6, <1>7 DEF Typed

LEMMA NextTyped ==
  ASSUME Typed, [Next]_vars
  PROVE  Typed'
<1>1. CASE Inspect
  <2>1. langs' \in [Packages -> Seq(Languages)]
    <3>1. langs[package] \in Seq(Languages) /\ LANGS[package] \in Seq(Languages)
      BY ToolchainAssumption DEF Typed, ToolchainAssumption
    <3>2. langs[package] \o LANGS[package] \in Seq(Languages)
      BY <3>1
    <3> QED BY <1>1, <3>2 DEF Inspect, Typed
  <2> QED BY <1>1, <2>1 DEF Inspect, Typed
<1>2. CASE pc \in {"inspect", "search", "install", "depends"} /\ ReturnError
  BY <1>2 DEF ReturnError, Typed
<1>3. CASE SearchCompilers
  BY <1>3, DetectedIs DEF SearchCompilers, Typed
<1>4. CASE UpdatePrefix
  BY <1>4 DEF UpdatePrefix, Typed
<1>5. CASE AlreadyInstalled
  <2>1. stack' \in Seq(Frames) /\ request' = request /\ InstallReturns
    BY <1>5 DEF AlreadyInstalled, Typed
  <2>2. /\ type' \in 1..Len(request.types)
        /\ pc' \in {"prefix", "depends", "done"}
        /\ package' \in Packages /\ exit' \in {"none", "0", "1"}
        /\ pc' = "depends" => stack' # <<>>
    BY <2>1, Returning
  <2> QED BY <1>5, <2>1, <2>2 DEF AlreadyInstalled, Typed
<1>6. CASE InstallBegins
  <2>1. [package |-> package, dep |-> 1] \in Frames
    BY DEF Typed, Frames
  <2>2. stack' \in Seq(Frames) /\ stack' # <<>>
    BY <1>6, <2>1, Longer DEF InstallBegins, Typed
  <2> QED BY <1>6, <2>2 DEF InstallBegins, Typed
<1>7. CASE NextDependency
  <2>1. pc = "depends"
    BY <1>7 DEF NextDependency
  <2>2. stack' \in Seq(Frames)
    BY <1>7, <2>1, FrameIs, Stepped DEF NextDependency, Typed
  <2>3. package' \in Packages
    <3>1. Frame.package \in Packages /\ Frame.dep \in Nat \ {0}
      BY <2>1, FrameIs
    <3>2. DEPENDS[Frame.package] \in Seq(Packages)
      BY <3>1, ToolchainAssumption DEF ToolchainAssumption
    <3>3. Frame.dep \in 1..Len(DEPENDS[Frame.package])
      BY <1>7, <3>1, <3>2 DEF NextDependency
    <3> QED BY <1>7, <3>2, <3>3, ElementIs DEF NextDependency
  <2> QED BY <1>7, <2>2, <2>3 DEF NextDependency, Typed
<1>8. CASE Build
  <2>1. pc = "depends" /\ request' = request /\ InstallReturns
    BY <1>8 DEF Build
  <2>2. stack' \in Seq(Frames)
    BY <1>8, <2>1, FrameIs, Shorter DEF Build, Pop, Typed
  <2>3. /\ type' \in 1..Len(request.types)
        /\ pc' \in {"prefix", "depends", "done"}
        /\ package' \in Packages /\ exit' \in {"none", "0", "1"}
        /\ pc' = "depends" => stack' # <<>>
    BY <2>1, <2>2, Returning
  <2> QED BY <1>8, <2>1, <2>2, <2>3 DEF Build, Typed
<1>9. CASE UNCHANGED vars
  BY <1>9 DEF vars, Typed
<1> QED BY <1>1, <1>2, <1>3, <1>4, <1>5, <1>6, <1>7, <1>8, <1>9
        DEF Next, InspectFails, SearchFails, InstallFails

LEMMA TypedIsTypeOK == Typed => TypeOK
<1> SUFFICES ASSUME Typed PROVE TypeOK
  OBVIOUS
<1>1. ASSUME NEW i \in 1..Len(stack)
      PROVE  stack[i].package \in Packages /\ stack[i].dep \in Nat
  <2>1. stack[i] \in Frames
    BY ElementIs DEF Typed
  <2> QED BY <2>1 DEF Frames
<1>2. \A p \in Packages : langs[p] \in Seq(Languages)
  BY DEF Typed
<1> QED BY <1>1, <1>2 DEF TypeOK, Typed

(* Compilers, languages, frames and the build type of main keep their      *)
(* types, for any recipes, hosts and requests.                             *)
THEOREM ToolchainTypes == Spec => []TypeOK
<1> QED BY InitTyped, NextTyped, TypedIsTypeOK, PTL DEF Spec

-----------------------------------------------------------------------------
(* What a step leaves: the request, and each compiler that was detected.   *)
LEMMA Kept ==
  ASSUME Typed, [Next]_vars
  PROVE  /\ request' = request
         /\ \A l \in Languages : compilers[l] # None => compilers'[l] = compilers[l]
<1>1. CASE SearchCompilers
  <2>1. compilers' = Detected(langs[package])
    BY <1>1 DEF SearchCompilers
  <2> QED BY <1>1, <2>1, DetectedIs DEF SearchCompilers
<1>2. CASE ~SearchCompilers
  BY <1>2 DEF Next, Inspect, InspectFails, SearchFails, UpdatePrefix, AlreadyInstalled,
     InstallBegins, NextDependency, Build, InstallFails, ReturnError, vars
<1> QED BY <1>1, <1>2

LEMMA DeclaredIs ==
  ASSUME NEW p \in Packages, NEW l \in Declared(p)
  PROVE  l \in Languages
<1>1. LANGS[p] \in Seq(Languages)
  BY ToolchainAssumption DEF ToolchainAssumption
<1> QED BY <1>1 DEF Declared, InSeq

LEMMA SearchedKept ==
  ASSUME Typed, [Next]_vars, NEW p \in Packages, Searched(p)
  PROVE  /\ Searched(p)'
         /\ \A l \in Declared(p) : compilers'[l] = compilers[l]
<1>1. ASSUME NEW l \in Declared(p)
      PROVE  compilers'[l] = compilers[l] /\ compilers[l] # None /\ Fits(compilers[l])
  BY DeclaredIs, Kept DEF Searched
<1> QED BY <1>1, Kept DEF Searched, Fits

LEMMA RootIs == ASSUME Typed PROVE Root \in Packages
BY ToolchainAssumption DEF Root, Typed, ToolchainAssumption

LEMMA InitRooted == Init => Rooted /\ Learnt /\ Ready /\ Waiting /\ Handed
<1> SUFFICES ASSUME Init PROVE Rooted /\ Learnt /\ Ready /\ Waiting /\ Handed
  OBVIOUS
<1>1. stack = <<>> /\ pc = "inspect" /\ env = None /\ package = Root
  BY DEF Init, Root
<1>2. \A i \in 1..Len(<<>>) : FALSE
  OBVIOUS
<1> QED BY <1>1, <1>2 DEF Rooted, Learnt, Ready, Waiting, Handed

(* What the frame of a call that returns leaves.                           *)
LEMMA Popped ==
  ASSUME Typed, Build
  PROVE  /\ stack' \in Seq(Frames) /\ Len(stack') = Len(stack) - 1
         /\ \A i \in 1..Len(stack') : i \in 1..Len(stack) /\ stack'[i] = stack[i]
         /\ stack' = <<>> <=> Len(stack) = 1
<1>1. stack \in Seq(Frames) /\ stack # <<>> /\ Len(stack) \in Nat
  BY FrameIs DEF Build, Typed
<1>2. stack' = SubSeq(stack, 1, Len(stack) - 1)
  BY DEF Build, Pop
<1>3. /\ stack' \in Seq(Frames) /\ Len(stack') = Len(stack) - 1
      /\ \A i \in 1..(Len(stack) - 1) : stack'[i] = stack[i]
  BY <1>1, <1>2, Shorter
<1>4. stack' = <<>> <=> Len(stack) = 1
  BY <1>1, <1>3
<1>5. 1..Len(stack') = 1..(Len(stack) - 1) /\ 1..Len(stack') \subseteq 1..Len(stack)
  BY <1>1, <1>3
<1> QED BY <1>3, <1>4, <1>5

(* How a nested call changes the frames.                                   *)
LEMMA Pushed ==
  ASSUME Typed, InstallBegins
  PROVE  /\ stack' \in Seq(Frames) /\ stack' # <<>> /\ Len(stack') = Len(stack) + 1
         /\ \A i \in 1..Len(stack) : i \in 1..Len(stack') /\ stack'[i] = stack[i]
         /\ stack'[Len(stack) + 1].package = package
<1>1. [package |-> package, dep |-> 1] \in Frames
  BY DEF Typed, Frames
<1>2. stack \in Seq(Frames) /\ Len(stack) \in Nat
  BY DEF Typed
<1>3. stack' = Append(stack, [package |-> package, dep |-> 1])
  BY DEF InstallBegins
<1> QED BY <1>1, <1>2, <1>3, Longer

LEMMA NextFrame ==
  ASSUME Typed, NextDependency
  PROVE  /\ stack' \in Seq(Frames) /\ stack' # <<>> /\ Len(stack') = Len(stack)
         /\ \A i \in 1..Len(stack) : stack'[i].package = stack[i].package
<1>1. stack \in Seq(Frames) /\ stack # <<>> /\ Len(stack) \in Nat \ {0}
  BY FrameIs DEF NextDependency, Typed
<1>2. stack' = [stack EXCEPT ![Len(stack)].dep = @ + 1]
  BY DEF NextDependency
<1> QED BY <1>1, <1>2, Stepped

LEMMA NextRooted ==
  ASSUME Typed, Rooted, [Next]_vars
  PROVE  Rooted'
<1> USE DEF Rooted, Root
<1>1. CASE AlreadyInstalled
  <2>1. stack' \in Seq(Frames) /\ request' = request /\ InstallReturns /\ stack' = stack
    BY <1>1 DEF AlreadyInstalled, Typed
  <2>2. pc' \in {"prefix", "done"} \/ stack' # <<>>
    BY <2>1, Returning
  <2>3. pc' = "prefix" => package' = request.package
    BY <2>1, Returning DEF Root
  <2> QED BY <2>1, <2>2, <2>3
<1>2. CASE InstallBegins
  <2>1. stack \in Seq(Frames) /\ Len(stack) \in Nat /\ request' = request
    BY <1>2 DEF InstallBegins, Typed
  <2>2. CASE stack = <<>>
    <3>1. stack'[1].package = package
      BY <1>2, <2>2, Pushed
    <3> QED BY <1>2, <2>1, <2>2, <3>1, Pushed DEF InstallBegins
  <2>3. CASE stack # <<>>
    <3>1. 1 \in 1..Len(stack)
      BY <2>1, <2>3
    <3> QED BY <1>2, <2>1, <2>3, <3>1, Pushed
  <2> QED BY <2>2, <2>3
<1>3. CASE NextDependency
  <2>1. stack # <<>> /\ 1 \in 1..Len(stack) /\ request' = request
    BY <1>3, FrameIs DEF NextDependency
  <2> QED BY <1>3, <2>1, NextFrame
<1>4. CASE Build
  <2>1. stack' \in Seq(Frames) /\ request' = request /\ InstallReturns /\ stack # <<>>
    BY <1>4, Popped, FrameIs DEF Build
  <2>2. stack' # <<>> => stack'[1] = stack[1]
    <3>1. stack' # <<>> => 1 \in 1..Len(stack')
      BY <2>1
    <3> QED BY <1>4, <3>1, Popped
  <2>3. (stack' = <<>> => pc' \in {"prefix", "done"}) /\ (pc' = "prefix" => package' = request.package)
    BY <2>1, Returning DEF Root
  <2> QED BY <2>1, <2>2, <2>3
<1>5. CASE ~(AlreadyInstalled \/ InstallBegins \/ NextDependency \/ Build)
  BY <1>5 DEF Next, Inspect, InspectFails, SearchCompilers, SearchFails, UpdatePrefix,
     InstallFails, ReturnError, vars
<1> QED BY <1>1, <1>2, <1>3, <1>4, <1>5

-----------------------------------------------------------------------------
LEMMA NextLearnt ==
  ASSUME Typed, [Next]_vars, Learnt
  PROVE  Learnt'
<1>1. CASE Inspect
  <2>1. CASE package \in Binary
    BY <1>1, <2>1 DEF Inspect, Learnt
  <2>2. CASE package \notin Binary
    <3>1. langs[package] \in Seq(Languages) /\ LANGS[package] \in Seq(Languages)
      BY ToolchainAssumption DEF Typed, ToolchainAssumption
    <3>2. langs'[package] = langs[package] \o LANGS[package] /\ package' = package
      BY <1>1, <2>2 DEF Inspect, Typed
    <3>3. InSeq(LANGS[package]) \subseteq InSeq(langs[package] \o LANGS[package])
      <4> DEFINE a == langs[package]
                 b == LANGS[package]
      <4>1. SUFFICES ASSUME NEW i \in 1..Len(b) PROVE b[i] \in InSeq(a \o b)
        BY DEF InSeq
      <4>2. a \in Seq(Languages) /\ b \in Seq(Languages)
        BY <3>1
      <4> HIDE DEF a, b
      <4>3. Len(a) + i \in 1..Len(a \o b) /\ (a \o b)[Len(a) + i] = b[i]
        BY <4>2
      <4> QED BY <4>3 DEF InSeq
    <3> QED BY <3>2, <3>3 DEF Learnt, Declared
  <2> QED BY <2>1, <2>2
<1>2. CASE pc' # "search"
  BY <1>2 DEF Learnt
<1>3. CASE UNCHANGED vars
  BY <1>3 DEF Learnt, vars
<1>4. CASE pc' = "search" /\ Next
  BY <1>1, <1>4 DEF Next, InspectFails, SearchCompilers, SearchFails, UpdatePrefix,
     AlreadyInstalled, InstallBegins, NextDependency, Build, InstallFails, ReturnError,
     InstallReturns
<1> QED BY <1>2, <1>3, <1>4

(* A return to the loop of main finds the compilers of the root.           *)
LEMMA RootSearched ==
  ASSUME Typed, Rooted, Ready, Waiting, stack # <<>> \/ pc = "install",
         Root \notin Binary
  PROVE  Searched(Root)
<1>1. CASE stack # <<>>
  <2>1. 1 \in 1..Len(stack)
    BY <1>1 DEF Typed
  <2> QED BY <1>1, <2>1 DEF Rooted, Waiting
<1>2. CASE stack = <<>>
  BY <1>2 DEF Rooted, Ready
<1> QED BY <1>1, <1>2

LEMMA NextReady ==
  ASSUME Typed, [Next]_vars, Rooted, Learnt, Ready, Waiting
  PROVE  Ready'
<1>1. CASE SearchCompilers
  <2>1. SUFFICES ASSUME package \notin Binary PROVE Searched(package)'
    BY <1>1 DEF SearchCompilers, Ready
  <2>2. ASSUME NEW l \in Declared(package)
        PROVE  compilers'[l] # None /\ Fits(compilers'[l])
    <3>1. l \in InSeq(langs[package])
      BY <1>1, <2>1 DEF SearchCompilers, Learnt
    <3> QED BY <1>1, <3>1 DEF SearchCompilers, Accepted
  <2> QED BY <1>1, <2>2, Kept DEF Searched, Fits, SearchCompilers
<1>2. CASE UpdatePrefix
  <2>1. package' = package /\ pc = "prefix" /\ pc' = "install"
    BY <1>2 DEF UpdatePrefix
  <2>2. package \notin Binary => Searched(package)'
    BY <2>1, SearchedKept DEF Ready, Typed
  <2> QED BY <2>1, <2>2 DEF Ready, Searched, Declared
<1>3. CASE AlreadyInstalled \/ Build
  <2>1. stack' \in Seq(Frames) /\ request' = request /\ InstallReturns
    BY <1>3, Popped DEF AlreadyInstalled, Build, Typed
  <2>2. pc' \in {"prefix", "depends", "done"} /\ (pc' = "prefix" => package' = Root)
    BY <2>1, Returning
  <2>3. Root \notin Binary => Searched(Root)
    BY <1>3, RootSearched, FrameIs DEF AlreadyInstalled, Build
  <2>4. Root \notin Binary => \A l \in Declared(Root) :
          compilers'[l] = compilers[l] /\ compilers[l] # None /\ Fits(compilers[l])
    BY <2>3, SearchedKept, RootIs DEF Searched
  <2>5. pc' = "prefix" /\ package' \notin Binary =>
          \A l \in Declared(package') : compilers'[l] # None /\ Fits(compilers'[l])
    BY <2>2, <2>4
  <2> QED BY <2>1, <2>2, <2>5 DEF Ready, Searched, Fits
<1>4. CASE UNCHANGED vars
  BY <1>4 DEF vars, Ready, Searched, Fits
<1>5. CASE Next /\ ~(SearchCompilers \/ UpdatePrefix \/ AlreadyInstalled \/ Build)
  <2>1. pc' \notin {"prefix", "install"}
    BY <1>5 DEF Next, Inspect, InspectFails, SearchFails, InstallBegins,
       NextDependency, InstallFails, ReturnError
  <2> QED BY <2>1 DEF Ready
<1> QED BY <1>1, <1>2, <1>3, <1>4, <1>5

LEMMA NextWaiting ==
  ASSUME Typed, [Next]_vars, Ready, Waiting
  PROVE  Waiting'
<1>1. Len(stack) \in Nat /\ \A i \in 1..Len(stack) : stack[i].package \in Packages
  <2>1. ASSUME NEW i \in 1..Len(stack) PROVE stack[i].package \in Packages
    <3>1. stack[i] \in Frames
      BY ElementIs DEF Typed
    <3> QED BY <3>1 DEF Frames
  <2> QED BY <2>1 DEF Typed
<1>2. ASSUME NEW i \in 1..Len(stack), stack[i].package \notin Binary
      PROVE  \A l \in Declared(stack[i].package) :
               compilers'[l] # None /\ Fits(compilers'[l])
  <2>1. stack[i].package \in Packages /\ Searched(stack[i].package)
    BY <1>1, <1>2 DEF Waiting
  <2> QED BY <2>1, SearchedKept DEF Searched
<1>3. request' = request
  BY Kept
<1>4. SUFFICES ASSUME NEW i \in 1..Len(stack'), stack'[i].package \notin Binary
               PROVE  \A l \in Declared(stack'[i].package) :
                        compilers'[l] # None /\ Fits(compilers'[l])
  BY <1>3 DEF Waiting, Searched, Fits
<1>5. CASE InstallBegins
  <2>1. /\ Len(stack') = Len(stack) + 1 /\ stack'[Len(stack) + 1].package = package
        /\ \A j \in 1..Len(stack) : stack'[j] = stack[j]
    BY <1>5, Pushed
  <2>2. CASE i = Len(stack) + 1
    <3>1. package \notin Binary /\ package \in Packages /\ stack'[i].package = package
      BY <1>4, <2>1, <2>2 DEF Typed
    <3>2. Searched(package)
      BY <1>5, <3>1 DEF InstallBegins, Ready
    <3> QED BY <3>1, <3>2, SearchedKept DEF Searched
  <2>3. CASE i # Len(stack) + 1
    <3>1. i \in 1..Len(stack)
      BY <1>1, <2>1, <2>3
    <3> QED BY <1>2, <1>4, <2>1, <3>1
  <2> QED BY <2>2, <2>3
<1>6. CASE NextDependency
  <2>1. i \in 1..Len(stack) /\ stack'[i].package = stack[i].package
    BY <1>6, NextFrame
  <2> QED BY <1>2, <1>4, <2>1
<1>7. CASE Build
  <2>1. i \in 1..Len(stack) /\ stack'[i] = stack[i]
    BY <1>7, Popped
  <2> QED BY <1>2, <1>4, <2>1
<1>8. CASE ~(InstallBegins \/ NextDependency \/ Build)
  <2>1. stack' = stack
    BY <1>8 DEF Next, Inspect, InspectFails, SearchCompilers, SearchFails, UpdatePrefix,
       AlreadyInstalled, InstallFails, ReturnError, vars
  <2> QED BY <1>2, <1>4, <2>1
<1> QED BY <1>5, <1>6, <1>7, <1>8

(* What a build of a source package is about.                              *)
LEMMA Building ==
  ASSUME Typed, Rooted, Waiting, Build, Frame.package \notin Binary
  PROVE  /\ Len(stack) = 1 /\ Frame.package = Root /\ Searched(Root)
         /\ env' = [package |-> Root, sub |-> subType, prefix |-> prefix[Root],
                    type |-> BuildType, compilers |-> compilers]
<1>1. Len(stack) = 1 /\ stack # <<>> /\ 1 \in 1..Len(stack)
  BY FrameIs DEF Build
<1>2. Frame = stack[1] /\ Frame.package = Root
  BY <1>1 DEF Frame, Rooted
<1>3. Searched(Root)
  BY <1>1, <1>2 DEF Waiting
<1> QED BY <1>1, <1>2, <1>3 DEF Build

LEMMA NextHanded ==
  ASSUME Typed, [Next]_vars, Rooted, Waiting, Handed
  PROVE  Handed'
<1>1. request' = request /\ Root' = Root /\ Root \in Packages
  BY Kept, RootIs DEF Root
<1>2. CASE Build /\ Frame.package \notin Binary
  <2>1. compilers' = compilers
    BY <1>2 DEF Build
  <2>2. Searched(Root)' /\ Root \notin Binary
    BY <1>1, <1>2, <2>1, Building DEF Searched, Fits
  <2> QED BY <1>1, <1>2, <2>1, <2>2, Building DEF Handed
<1>3. CASE ~(Build /\ Frame.package \notin Binary)
  <2>1. env' = env
    BY <1>3 DEF Next, Inspect, InspectFails, SearchCompilers, SearchFails, UpdatePrefix,
       AlreadyInstalled, InstallBegins, NextDependency, Build, InstallFails, ReturnError, vars
  <2>2. CASE env = None
    BY <2>1, <2>2 DEF Handed
  <2>3. CASE env # None
    <3>1. Searched(Root) /\ env.package = Root /\ Root \notin Binary
      BY <2>3 DEF Handed
    <3>2. \A l \in Declared(Root) :
            compilers'[l] = compilers[l] /\ compilers[l] # None /\ Fits(compilers[l])
      BY <1>1, <3>1, SearchedKept DEF Searched
    <3> QED BY <1>1, <2>1, <2>3, <3>1, <3>2 DEF Handed, Searched, Fits
  <2> QED BY <2>2, <2>3
<1> QED BY <1>2, <1>3

Handing == Typed /\ Rooted /\ Learnt /\ Ready /\ Waiting /\ Handed

LEMMA InitHanding == Init => Handing
BY InitTyped, InitRooted DEF Handing

LEMMA NextHanding == Handing /\ [Next]_vars => Handing'
BY NextTyped, NextRooted, NextLearnt, NextReady, NextWaiting, NextHanded DEF Handing

LEMMA HandingBuilds == Handing => BuildsForTarget
<1> SUFFICES ASSUME Handing, env # None, NEW l \in Declared(env.package)
             PROVE  /\ env.compilers[l] # None
                    /\ env.compilers[l].system \in {"", request.system}
                    /\ \/ env.compilers[l].processor \in {"", request.processor}
                       \/ request.processor \in env.compilers[l].archs
  BY DEF BuildsForTarget
<1>1. env.compilers[l] # None /\ Fits(env.compilers[l])
  BY DEF Handing, Handed, Searched
<1> QED BY <1>1 DEF Fits

(* Whatever was detected for the packages before, a build has a compiler   *)
(* for each of its languages that fits the target system and processor     *)
(* (searchCompilers), for any recipes, hosts and requests.                 *)
THEOREM TargetsFit == Spec => []BuildsForTarget
<1> QED BY InitHanding, NextHanding, HandingBuilds, PTL DEF Spec

-----------------------------------------------------------------------------
LEMMA StaysDoomed ==
  ASSUME Typed, Rooted, [Next]_vars, pc' # "done"
  PROVE  (Doomed => Doomed') /\ pc # "done"
<1> USE DEF Doomed, Root
<1>1. Len(stack) \in Nat
  BY DEF Typed
<1>2. CASE AlreadyInstalled
  <2>1. stack # <<>> => 1 \in 1..Len(stack) /\ stack[1].package = Root
    BY <1>1 DEF Rooted, Typed
  <2>2. ~(stack # <<>> /\ package = Root /\ Root \notin Binary)
    BY <1>2, <2>1 DEF AlreadyInstalled
  <2> QED BY <1>2, <2>2 DEF AlreadyInstalled
<1>3. CASE InstallBegins
  <2>1. /\ Len(stack') = Len(stack) + 1 /\ stack'[Len(stack) + 1].package = package
        /\ \A j \in 1..Len(stack) : stack'[j] = stack[j]
    BY <1>3, Pushed
  <2>2. ASSUME NEW i \in 2..Len(stack), stack[i].package \notin Binary
        PROVE  Doomed'
    <3>1. i \in 1..Len(stack) /\ i \in 2..Len(stack')
      BY <1>1, <2>1
    <3> QED BY <2>1, <2>2, <3>1
  <2>3. ASSUME stack # <<>>, package \notin Binary
        PROVE  Doomed'
    <3>1. Len(stack) + 1 \in 2..Len(stack')
      BY <1>1, <2>1, <2>3 DEF Typed
    <3> QED BY <2>1, <2>3, <3>1
  <2> QED BY <1>3, <2>2, <2>3 DEF InstallBegins
<1>4. CASE NextDependency
  <2>1. /\ Len(stack') = Len(stack) /\ pc = "depends"
        /\ \A i \in 1..Len(stack) : stack'[i].package = stack[i].package
    BY <1>4, NextFrame DEF NextDependency
  <2>2. 2..Len(stack) \subseteq 1..Len(stack)
    BY <1>1
  <2> QED BY <2>1, <2>2
<1>5. CASE Build
  <2>1. /\ Len(stack') = Len(stack) - 1 /\ pc = "depends"
        /\ \A i \in 1..Len(stack') : stack'[i] = stack[i]
    BY <1>5, Popped DEF Build
  <2>2. ASSUME NEW i \in 2..Len(stack), stack[i].package \notin Binary
        PROVE  i \in 2..Len(stack') /\ stack'[i] = stack[i]
    <3>1. i # Len(stack)
      BY <1>1, <1>5, <2>2 DEF Build, Frame
    <3>2. i \in 2..(Len(stack) - 1) /\ i \in 1..(Len(stack) - 1)
      BY <1>1, <3>1
    <3> QED BY <2>1, <3>2
  <2> QED BY <2>1, <2>2
<1>6. CASE ~(AlreadyInstalled \/ InstallBegins \/ NextDependency \/ Build)
  BY <1>6 DEF Next, Inspect, InspectFails, SearchCompilers, SearchFails, UpdatePrefix,
     InstallFails, ReturnError, vars
<1>7. pc # "done"
  BY DEF Next, Inspect, InspectFails, SearchCompilers, SearchFails, UpdatePrefix,
     AlreadyInstalled, InstallBegins, NextDependency, Build, InstallFails, ReturnError, vars
<1> QED BY <1>2, <1>3, <1>4, <1>5, <1>6, <1>7

LEMMA NextInspected ==
  ASSUME Typed, Rooted, RootInspected, [Next]_vars
  PROVE  RootInspected'
<1>1. request' = request /\ Root' = Root /\ Root \in Packages
  BY Kept, RootIs DEF Root
<1>2. SUFFICES ASSUME Root \notin Binary, ~Doomed', pc' # "done"
               PROVE  langs'[Root] = IF pc' = "inspect" /\ stack' = <<>> THEN <<>> ELSE LANGS[Root]
  BY <1>1 DEF RootInspected
<1>3. ~Doomed /\ pc # "done"
  BY <1>2, StaysDoomed
<1>4. langs[Root] = IF pc = "inspect" /\ stack = <<>> THEN <<>> ELSE LANGS[Root]
  BY <1>2, <1>3 DEF RootInspected
<1>5. CASE Inspect
  <2>1. pc' = "search" /\ stack' = stack /\ pc = "inspect"
    BY <1>5 DEF Inspect
  <2>2. CASE stack = <<>>
    <3>1. package = Root
      BY <1>3, <2>2 DEF Rooted
    <3>2. langs[Root] = <<>> /\ langs'[Root] = langs[Root] \o LANGS[Root]
      BY <1>1, <1>2, <1>4, <1>5, <2>2, <3>1 DEF Inspect, Typed
    <3>3. LANGS[Root] \in Seq(Languages)
      BY <1>1, ToolchainAssumption DEF ToolchainAssumption
    <3>4. <<>> \o LANGS[Root] = LANGS[Root]
      BY <3>3, ConcatEmptySeq
    <3> QED BY <2>1, <3>2, <3>4
  <2>3. CASE stack # <<>>
    <3>1. package # Root
      BY <1>2, <1>3, <2>1, <2>3 DEF Doomed
    <3>2. langs'[Root] = langs[Root]
      BY <1>1, <1>5, <3>1 DEF Inspect, Typed
    <3> QED BY <1>4, <2>1, <2>3, <3>2
  <2> QED BY <2>2, <2>3
<1>6. CASE NextDependency
  <2>1. stack' # <<>> /\ pc = "depends" /\ langs' = langs
    BY <1>6, NextFrame DEF NextDependency
  <2> QED BY <1>4, <2>1
<1>7. CASE ~(Inspect \/ NextDependency) /\ Next
  <2>1. langs' = langs /\ pc # "inspect" /\ pc' # "inspect"
    BY <1>2, <1>7 DEF Next, InspectFails, SearchCompilers, SearchFails, UpdatePrefix,
       AlreadyInstalled, InstallBegins, Build, InstallFails, ReturnError, InstallReturns
  <2> QED BY <1>4, <2>1
<1>8. CASE UNCHANGED vars
  BY <1>4, <1>8 DEF vars
<1> QED BY <1>5, <1>6, <1>7, <1>8

(* The ids of a source root stay once its compilers were detected.         *)
LEMMA IdsKept ==
  ASSUME Typed, [Next]_vars, Searched(Root) \/ compilers' = compilers
  PROVE  ToolchainIds(LANGS[Root])' = ToolchainIds(LANGS[Root])
<1> DEFINE ls == LANGS[Root]
<1>1. request' = request /\ Root' = Root /\ Root \in Packages
  BY Kept, RootIs DEF Root
<1>2. ASSUME NEW i \in 1..Len(ls) PROVE compilers'[ls[i]] = compilers[ls[i]]
  <2>1. ls[i] \in Declared(Root)
    BY DEF Declared, InSeq
  <2> QED BY <1>1, <2>1, SearchedKept
<1>3. [i \in 1..Len(ls) |-> compilers'[ls[i]].id] = [i \in 1..Len(ls) |-> compilers[ls[i]].id]
  BY <1>2
<1> QED BY <1>1, <1>3 DEF ToolchainIds

LEMMA NextPrefixed ==
  ASSUME Typed, Rooted, Ready, Waiting, RootInspected, RootPrefixed, [Next]_vars
  PROVE  RootPrefixed'
<1>1. request' = request /\ Root' = Root /\ Root \in Packages
  BY Kept, RootIs DEF Root
<1> DEFINE Wanted == <<ToolchainIds(LANGS[Root]), Root, BuildType>>
<1>2. SUFFICES ASSUME Root \notin Binary, ~Doomed', stack' # <<>> \/ pc' = "install",
                      pc' # "done"
               PROVE  prefix'[Root] = Wanted'
  BY <1>1 DEF RootPrefixed
<1>3. ~Doomed /\ pc # "done"
  BY <1>2, StaysDoomed
<1>4. stack # <<>> \/ pc = "install" => prefix[Root] = Wanted
  BY <1>2, <1>3 DEF RootPrefixed
<1>5. ASSUME type' = type, Searched(Root) \/ compilers' = compilers
      PROVE  Wanted' = Wanted
  <2>1. ToolchainIds(LANGS[Root])' = ToolchainIds(LANGS[Root])
    BY <1>5, IdsKept
  <2>2. BuildType' = BuildType
    BY <1>1, <1>5 DEF BuildType
  <2> QED BY <1>1, <2>1, <2>2
<1> HIDE DEF Wanted
<1>6. CASE UpdatePrefix
  <2>1. type' = type /\ compilers' = compilers /\ stack' = stack
    BY <1>6 DEF UpdatePrefix
  <2>2. CASE package = Root
    <3>1. stack = <<>>
      BY <1>2, <1>3, <1>6, <2>2 DEF UpdatePrefix, Doomed
    <3>2. langs[Root] = LANGS[Root]
      BY <1>2, <1>3, <1>6 DEF UpdatePrefix, RootInspected
    <3>3. prefix'[Root] = PackagePrefix(Root, LANGS[Root])
      BY <1>1, <1>6, <2>2, <3>2 DEF UpdatePrefix, Typed
    <3> QED BY <1>2, <1>5, <2>1, <3>3 DEF PackagePrefix, Wanted
  <2>3. CASE package # Root
    <3>1. stack # <<>>
      BY <1>3, <2>3 DEF Rooted
    <3>2. prefix'[Root] = prefix[Root]
      BY <1>1, <1>6, <2>3 DEF UpdatePrefix, Typed
    <3> QED BY <1>4, <1>5, <2>1, <3>1, <3>2
  <2> QED BY <2>2, <2>3
<1>7. CASE SearchCompilers
  <2>1. stack # <<>> /\ type' = type /\ prefix' = prefix
    BY <1>2, <1>7 DEF SearchCompilers
  <2>2. Searched(Root)
    BY <1>2, <2>1, RootSearched
  <2> QED BY <1>4, <1>5, <2>1, <2>2
<1>8. CASE AlreadyInstalled \/ Build
  <2>1. stack' \in Seq(Frames) /\ InstallReturns /\ prefix' = prefix /\ compilers' = compilers
    BY <1>8, Popped DEF AlreadyInstalled, Build, Typed
  <2>2. stack' # <<>>
    BY <1>1, <1>2, <2>1, Returning
  <2>3. type' = type
    BY <1>1, <2>1, <2>2, Returning
  <2>4. stack # <<>>
    BY <1>8, <2>2, FrameIs DEF AlreadyInstalled, Build
  <2> QED BY <1>4, <1>5, <2>1, <2>3, <2>4
<1>9. CASE InstallBegins \/ NextDependency
  <2>1. type' = type /\ prefix' = prefix /\ compilers' = compilers
    BY <1>9 DEF InstallBegins, NextDependency
  <2>2. stack # <<>> \/ pc = "install"
    BY <1>9, FrameIs DEF InstallBegins, NextDependency
  <2> QED BY <1>4, <1>5, <2>1, <2>2
<1>10. CASE Inspect
  <2>1. stack # <<>> /\ type' = type /\ prefix' = prefix /\ compilers' = compilers
    BY <1>2, <1>10 DEF Inspect
  <2> QED BY <1>4, <1>5, <2>1
<1>11. CASE UNCHANGED vars
  <2>1. /\ stack' = stack /\ pc' = pc /\ type' = type /\ prefix' = prefix
        /\ compilers' = compilers
    BY <1>11 DEF vars
  <2> QED BY <1>2, <1>4, <1>5, <2>1
<1> QED BY <1>2, <1>6, <1>7, <1>8, <1>9, <1>10, <1>11
        DEF Next, InspectFails, SearchFails, InstallFails, ReturnError

LEMMA NextNamed ==
  ASSUME Typed, Rooted, Waiting, Handed, RootPrefixed, Named, [Next]_vars
  PROVE  Named'
<1>1. request' = request /\ Root' = Root /\ Root \in Packages
  BY Kept, RootIs DEF Root
<1>2. CASE Build /\ Frame.package \notin Binary
  <2>1. Len(stack) = 1 /\ stack # <<>> /\ pc = "depends" /\ compilers' = compilers
    BY <1>2, Building, FrameIs DEF Build
  <2>2. ~Doomed
    BY <2>1 DEF Doomed
  <2>3. prefix[Root] = <<ToolchainIds(LANGS[Root]), Root, BuildType>>
    BY <1>2, <2>1, <2>2, Building DEF RootPrefixed
  <2>4. env'.prefix = prefix[Root] /\ env'.type = BuildType
    BY <1>2, Building
  <2>5. ToolchainIds(LANGS[Root])' = ToolchainIds(LANGS[Root])
    BY <2>1, IdsKept
  <2> QED BY <2>3, <2>4, <2>5 DEF Named
<1>3. CASE ~(Build /\ Frame.package \notin Binary)
  <2>1. env' = env
    BY <1>3 DEF Next, Inspect, InspectFails, SearchCompilers, SearchFails, UpdatePrefix,
       AlreadyInstalled, InstallBegins, NextDependency, Build, InstallFails, ReturnError, vars
  <2>2. CASE env = None
    BY <2>1, <2>2 DEF Named
  <2>3. CASE env # None
    <3>1. Searched(Root)
      BY <2>3 DEF Handed
    <3>2. ToolchainIds(LANGS[Root])' = ToolchainIds(LANGS[Root])
      BY <3>1, IdsKept
    <3> QED BY <2>1, <2>3, <3>2 DEF Named
  <2> QED BY <2>2, <2>3
<1> QED BY <1>2, <1>3

Naming == Handing /\ RootInspected /\ RootPrefixed /\ Named

LEMMA InitNaming == Init => Naming
<1> SUFFICES ASSUME Init PROVE Naming
  OBVIOUS
<1>1. stack = <<>> /\ pc = "inspect" /\ env = None
  BY DEF Init
<1>2. Root \in Packages
  BY InitTyped, RootIs
<1>3. langs[Root] = <<>>
  BY <1>2 DEF Init
<1> QED BY <1>1, <1>3, InitHanding DEF Naming, RootInspected, RootPrefixed, Named

LEMMA NextNaming == Naming /\ [Next]_vars => Naming'
BY NextHanding, NextInspected, NextPrefixed, NextNamed DEF Naming, Handing

LEMMA NamingNames == Naming => PrefixNamesToolchain
BY DEF Naming, Handing, Handed, Named, PrefixNamesToolchain

(* A build goes to the prefix named by its compilers, in the order of its  *)
(* languages and of its build type, whatever was inspected and searched    *)
(* for its dependencies (packagePrefix), for any recipes and hosts.        *)
THEOREM PrefixesNameToolchains == Spec => []PrefixNamesToolchain
<1> QED BY InitNaming, NextNaming, NamingNames, PTL DEF Spec

-----------------------------------------------------------------------------
LEMMA Ordered ==
  ASSUME NEW n \in Nat, NEW i \in 1..n, NEW j \in 1..n
  PROVE  i < j \/ j < i \/ i = j
OBVIOUS

LEMMA JustOne == ASSUME NEW n \in Nat, n <= 1, n \in 1..n PROVE n = 1
OBVIOUS

(* When no two subtypes differ, each that is told is the one taken.        *)
LEMMA OneSubType ==
  ASSUME NEW n \in Nat, NEW subs, Len(subs) = n, SameSubTypes(subs),
         NEW j \in 1..n, subs[j] # ""
  PROVE  SubTypeOf(subs) = subs[j]
<1> DEFINE i == CHOOSE i \in 1..n : subs[i] # ""
<1>1. i \in 1..n /\ subs[i] # ""
  BY Zenon
<1>2. SubTypeOf(subs) = subs[i]
  BY Zenon DEF SubTypeOf
<1> HIDE DEF i
<1>3. \A k, m \in 1..n : k < m /\ subs[k] # "" => subs[m] = subs[k]
  BY DEF SameSubTypes
<1>4. i < j \/ j < i \/ i = j
  BY <1>1, Ordered
<1> QED BY <1>1, <1>2, <1>3, <1>4

LEMMA SearchAgrees ==
  ASSUME Typed, Rooted, Learnt, SearchCompilers, Root \notin Binary, stack = <<>>
  PROVE  Agrees(compilers', subType')
<1> DEFINE ls == langs[package]
           found == Detected(ls)
           subs == SubTypes(ls, found)
<1>1. package = Root /\ Declared(Root) \subseteq InSeq(ls)
  BY DEF Rooted, Learnt, SearchCompilers
<1>2. SameSubTypes(subs) /\ compilers' = found /\ subType' = SubTypeOf(subs)
  BY DEF SearchCompilers, Accepted
<1>3. Len(ls) \in Nat
  BY DEF Typed
<1>4. Len(subs) = Len(ls) /\ \A i \in 1..Len(ls) : subs[i] = found[ls[i]].sub
  <2> HIDE DEF found, ls
  <2> QED BY <1>3 DEF SubTypes
<1> HIDE DEF subs, found, ls
<1>5. ASSUME NEW l \in Declared(Root), found[l].sub # ""
      PROVE  SubTypeOf(subs) = found[l].sub
  <2>1. PICK i \in 1..Len(ls) : l = ls[i]
    BY <1>1 DEF InSeq
  <2>2. subs[i] = found[l].sub /\ i \in 1..Len(subs) /\ Len(subs) \in Nat
    BY <1>3, <1>4, <2>1
  <2> QED BY <1>2, <1>5, <2>2, OneSubType
<1> QED BY <1>2, <1>5 DEF Agrees

LEMMA NextAlone ==
  ASSUME Typed, Rooted, Learnt, Alone, [Next]_vars
  PROVE  Alone'
<1>1. request' = request /\ Root' = Root /\ Root \in Packages /\ Len(stack) \in Nat
  BY Kept, RootIs DEF Root, Typed
<1>2. SUFFICES ASSUME DEPENDS[Root] = <<>>, pc' # "done"
               PROVE  /\ pc' # "depends" => stack' = <<>>
                      /\ Len(stack') <= 1
                      /\ pc' \in {"prefix", "install", "depends"} /\ Root \notin Binary =>
                           Agrees(compilers', subType')
  BY <1>1 DEF Alone, Agrees
<1>3. pc # "done"
  BY <1>2, StaysDoomed
<1>4. /\ pc # "depends" => stack = <<>>
      /\ Len(stack) <= 1
      /\ pc \in {"prefix", "install", "depends"} /\ Root \notin Binary =>
           Agrees(compilers, subType)
  BY <1>2, <1>3 DEF Alone
<1>5. CASE Inspect
  BY <1>4, <1>5 DEF Inspect
<1>6. CASE SearchCompilers
  BY <1>4, <1>6, SearchAgrees DEF SearchCompilers
<1>7. CASE UpdatePrefix
  BY <1>4, <1>7 DEF UpdatePrefix
<1>8. CASE AlreadyInstalled
  <2>1. /\ stack = <<>> /\ stack' = stack /\ pc = "install"
        /\ compilers' = compilers /\ subType' = subType
    BY <1>4, <1>8 DEF AlreadyInstalled
  <2> QED BY <1>4, <2>1
<1>9. CASE InstallBegins
  <2>1. stack = <<>> /\ Len(stack') = Len(stack) + 1 /\ pc = "install"
    BY <1>4, <1>9, Pushed DEF InstallBegins
  <2>2. Len(stack') <= 1
    BY <2>1
  <2> QED BY <1>4, <1>9, <2>1, <2>2 DEF InstallBegins
<1>10. CASE NextDependency
  <2>0. stack # <<>> /\ Frame.dep \in Nat \ {0} /\ Len(stack) \in 1..Len(stack)
    BY <1>10, FrameIs DEF NextDependency
  <2>1. Len(stack) = 1
    BY <1>1, <1>4, <2>0, JustOne
  <2>2. Frame.package = Root
    BY <2>0, <2>1 DEF Frame, Rooted
  <2>3. Len(<<>>) = 0
    OBVIOUS
  <2>4. Frame.dep <= 0
    BY <1>2, <1>10, <2>2, <2>3 DEF NextDependency
  <2> QED BY <2>0, <2>4
<1>11. CASE Build
  <2>0. stack # <<>> /\ Len(stack) \in 1..Len(stack) /\ pc = "depends"
    BY <1>11, FrameIs DEF Build
  <2>1. Len(stack) = 1
    BY <1>1, <1>4, <2>0, JustOne
  <2>2. stack' = <<>> /\ Len(stack') = 0
    BY <1>11, <2>1, Popped
  <2> QED BY <1>4, <1>11, <2>0, <2>2 DEF Build
<1>12. CASE UNCHANGED vars
  BY <1>4, <1>12 DEF vars
<1> QED BY <1>2, <1>5, <1>6, <1>7, <1>8, <1>9, <1>10, <1>11, <1>12
        DEF Next, InspectFails, SearchFails, InstallFails, ReturnError

LEMMA NextTold ==
  ASSUME Typed, Rooted, Waiting, Alone, Told, [Next]_vars
  PROVE  Told'
<1>1. Root' = Root
  BY Kept DEF Root
<1>2. CASE Build /\ Frame.package \notin Binary
  <2>1. pc = "depends" /\ Root \notin Binary
    BY <1>2, Building DEF Build
  <2>2. env'.compilers = compilers /\ env'.sub = subType
    BY <1>2, Building
  <2> QED BY <1>1, <2>1, <2>2 DEF Alone, Told, Agrees
<1>3. CASE ~(Build /\ Frame.package \notin Binary)
  <2>1. env' = env
    BY <1>3 DEF Next, Inspect, InspectFails, SearchCompilers, SearchFails, UpdatePrefix,
       AlreadyInstalled, InstallBegins, NextDependency, Build, InstallFails, ReturnError, vars
  <2> QED BY <1>1, <2>1 DEF Told, Agrees
<1> QED BY <1>2, <1>3

Telling == Handing /\ Alone /\ Told

LEMMA InitTelling == Init => Telling
<1> SUFFICES ASSUME Init PROVE Telling
  OBVIOUS
<1>1. stack = <<>> /\ pc = "inspect" /\ env = None
  BY DEF Init
<1>2. Len(<<>>) = 0
  OBVIOUS
<1> QED BY <1>1, <1>2, InitHanding DEF Telling, Alone, Told

LEMMA NextTelling == Telling /\ [Next]_vars => Telling'
BY NextHanding, NextAlone, NextTold DEF Telling, Handing

LEMMA TellingTells == Telling => SubTypeOfBuild
BY DEF Telling, Handing, Handed, Told, Agrees, SubTypeOfBuild

(* A build without dependencies is told the subtype its compilers have,    *)
(* in whatever order they are asked and in every build type                *)
(* (searchCompilers), for any recipes, hosts and requests.                 *)
THEOREM SubTypesTold == Spec => []SubTypeOfBuild
<1> QED BY InitTelling, NextTelling, TellingTells, PTL DEF Spec

=============================================================================
