----------------------------- MODULE PackageStore -----------------------------
(***************************************************************************)
(* What the install mode of cxx-pm promises, with everything between the   *)
(* question and the answer left out: a store of installation prefixes and  *)
(* the jobs that work on it.  A prefix is whole when its manifest lists    *)
(* all that belongs into it and the files are what the manifest says.      *)
(***************************************************************************)
EXTENDS Sequences

CONSTANTS
  Users,     \* invocations that may run at the same time
  Prefixes,  \* installation prefixes
  Orders,    \* the sequences of prefixes a user may ask for
  Reach      \* the prefixes that work on a prefix may touch

VARIABLES
  store,   \* "absent", "dirty" or "whole", for every prefix
  job,     \* the prefixes each user waits for, the current one first
  worked,  \* users whose current prefix is being installed, not just checked
  answer   \* the last answer of each user

storeVars == <<store, job, worked, answer>>

StoreInit ==
  /\ store = [x \in Prefixes |-> "absent"]
  /\ job = [u \in Users |-> <<>>]
  /\ worked = {}
  /\ answer = [u \in Users |-> "none"]

Ask(u) ==
  /\ job[u] = <<>>
  /\ \E order \in Orders[u] : job' = [job EXCEPT ![u] = order]
  /\ answer' = [answer EXCEPT ![u] = "none"]
  /\ UNCHANGED <<store, worked>>

(* The check of the current prefix says that it has to be installed.       *)
Begin(u) ==
  /\ job[u] # <<>> /\ store[Head(job[u])] # "whole"
  /\ worked' = worked \cup {u}
  /\ UNCHANGED <<store, job, answer>>

(* The work passes through any states, but never through one in which an   *)
(* installation that is whole has become something else.                   *)
Change(u) ==
  /\ u \in worked
  /\ \E x \in Reach[Head(job[u])] : \E s \in {"absent", "dirty", "whole"} :
       store[x] # "whole" /\ store' = [store EXCEPT ![x] = s]
  /\ UNCHANGED <<job, worked, answer>>

(* One prefix is done: what was worked on is whole, and what was only      *)
(* checked has been installed once.                                        *)
Finish(u) ==
  /\ job[u] # <<>>
  /\ store[Head(job[u])] \in IF u \in worked THEN {"whole"} ELSE {"dirty", "whole"}
  /\ job' = [job EXCEPT ![u] = Tail(@)]
  /\ worked' = worked \ {u}
  /\ answer' = [answer EXCEPT ![u] = IF Len(job[u]) = 1 THEN "ok" ELSE @]
  /\ UNCHANGED store

(* A job fails or dies and leaves the store as it is.                      *)
Stop(u) ==
  /\ job[u] # <<>>
  /\ job' = [job EXCEPT ![u] = <<>>]
  /\ worked' = worked \ {u}
  /\ \E a \in {"failed", "crashed"} : answer' = [answer EXCEPT ![u] = a]
  /\ UNCHANGED store

(* Somebody else damages an installation while no job runs.                *)
Damage ==
  /\ \A u \in Users : job[u] = <<>>
  /\ \E x \in Prefixes : store[x] = "whole" /\ store' = [store EXCEPT ![x] = "dirty"]
  /\ UNCHANGED <<job, worked, answer>>

StoreNext ==
  \/ \E u \in Users : Ask(u) \/ Begin(u) \/ Change(u) \/ Finish(u) \/ Stop(u)
  \/ Damage

StoreSpec == StoreInit /\ [][StoreNext]_storeVars
=============================================================================
