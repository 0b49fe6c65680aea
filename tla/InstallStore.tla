----------------------------- MODULE InstallStore -----------------------------
(***************************************************************************)
(* The installer implements the package store.  The refinement mapping     *)
(* reads the store off the files and manifests of the home directory, and  *)
(* the jobs off the stacks of the invocations.                             *)
(***************************************************************************)
EXTENDS Install

Whole(x) ==
  /\ manifest[x] # Absent
  /\ \A q \in Needs(x[1]) \cap Packages : PackageLines(q, x[2]) \subseteq manifest[x]
  /\ \A l \in manifest[x] : files[x][l[1]] = l[2]

StoreOf(x) ==
  IF Whole(x) THEN "whole" ELSE IF manifest[x] # Absent THEN "dirty" ELSE "absent"

(* The prefixes of a package, one for each build type; the root call has   *)
(* begun to work when its check has not found the package installed.       *)
PrefixesOf(pkg, bts) == [i \in 1..Len(bts) |-> PrefixOf(pkg, bts[i])]
OrdersOf(p) == {PrefixesOf(pkg, bts) : pkg \in Requests[p], bts \in BuildRequests}
JobOf(p) == IF At(p, "idle") THEN <<>> ELSE PrefixesOf(Root(p), todo[p])
Works(p) ==
  ~At(p, "idle") /\ (Nested(p) \/ (~At(p, "verify") /\ outcome[p] \notin {"verified", "sampled"}))

Store == INSTANCE PackageStore WITH
  Users  <- Procs,
  Orders <- [p \in Procs |-> OrdersOf(p)],
  Reach  <- [x \in Prefixes |-> {y \in Prefixes : y[1] \in Needs(x[1])}],
  store  <- [x \in Prefixes |-> StoreOf(x)],
  job    <- [p \in Procs |-> JobOf(p)],
  worked <- {p \in Procs : Works(p)},
  answer <- exit

(* Through every interleaving, failure and kill: an invocation that has    *)
(* built a package answers ok only with the whole installation in place,   *)
(* one that trusts its sample of the manifest at least with a committed    *)
(* one, and nobody takes a whole installation apart (install, main).       *)
ImplementsStore == Store!StoreSpec
=============================================================================
