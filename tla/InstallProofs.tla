---------------------------- MODULE InstallProofs ---------------------------
(***************************************************************************)
(* Proofs about Install, for every value of the constants: its types; and  *)
(* what the download promises the rest of install and what a build starts  *)
(* from, when one invocation at a time works on the home directory.        *)
(***************************************************************************)
EXTENDS Install, SequenceTheorems, TLAPS

-----------------------------------------------------------------------------
(* Type correctness: the helpers first, then one lemma per group of        *)
(* actions.                                                                *)

(* A sequence of two or more elements without its last, or its first, one. *)
LEMMA Shorter ==
  ASSUME NEW S, NEW s \in Seq(S), Len(s) > 1
  PROVE  /\ SubSeq(s, 1, Len(s) - 1) \in Seq(S) \ {<<>>}
         /\ Tail(s) \in Seq(S) \ {<<>>}
<1>0. Len(<<>>) = 0
  OBVIOUS
<1>1. Len(s) \in Nat /\ Len(s) - 1 \in Nat \ {0} /\ s # <<>>
  <2>1. Len(s) \in Nat
    OBVIOUS
  <2>2. Len(s) - 1 \in Nat \ {0}
    <3>1. \A n \in Nat : n > 1 => n - 1 \in Nat \ {0}
      OBVIOUS
    <3> QED
      BY <2>1, <3>1
  <2>3. s # <<>>
    <3> SUFFICES ASSUME s = <<>> PROVE FALSE
      OBVIOUS
    <3>1. Len(s) = 0
      BY <1>0, Zenon
    <3> QED
      BY <3>1
  <2> QED
    BY <2>1, <2>2, <2>3
<1>2. \A i \in 1..(Len(s) - 1) : s[i] \in S
  BY <1>1
<1>3. /\ SubSeq(s, 1, Len(s) - 1) \in Seq(S)
      /\ Len(SubSeq(s, 1, Len(s) - 1)) = Len(s) - 1
  BY <1>1, <1>2, SubSeqProperties, Z3
<1>4. Tail(s) \in Seq(S) /\ Len(Tail(s)) = Len(s) - 1
  BY <1>1, HeadTailProperties
<1>5. \A t : Len(t) \in Nat \ {0} => t # <<>>
  BY <1>0
<1> QED
  BY <1>1, <1>3, <1>4, <1>5

(* What does not exist is told from everything that does.                  *)
LEMMA NotThere ==
  /\ Absent \notin SUBSET Tree /\ Absent \notin SUBSET Object /\ Absent \notin SUBSET Line
  /\ None \notin Content /\ None \notin Prefixes
  BY NoneAssumption DEF Absent, Content

LEMMA InitTypeOK == Init => TypeOK
<1> SUFFICES ASSUME Init PROVE TypeOK
  OBVIOUS
<1>1. files \in [Prefixes -> [Files -> Content \cup {None}]]
  BY DEF Init
<1>2. /\ manifest \in [Prefixes -> (SUBSET Line) \cup {Absent}]
      /\ dirs \subseteq Prefixes
      /\ srcDir \in (SUBSET Tree) \cup {Absent}
      /\ bldDir \in (SUBSET Object) \cup {Absent}
      /\ makefile \in Prefixes \cup {None}
      /\ inBld = {}
  BY DEF Init
<1>3. /\ distr \in [Archives -> Packages \cup {None, Garbage}]
      /\ tmp \in [Archives -> Packages \cup {None, Garbage}]
  BY DEF Init
<1>4. /\ pc \in [Procs -> Labels]
      /\ \A p \in Procs : pc[p] # "idle" => stack[p] # <<>> /\ todo[p] # <<>>
  BY DEF Init, Labels
<1>5. /\ stack \in [Procs -> Seq(Frame)]
      /\ todo \in [Procs -> Seq(BuildTypes)]
      /\ left \in [Procs -> SUBSET Line]
  BY DEF Init
<1>6. /\ outcome \in [Procs -> {"none", "verified", "sampled", "built"}]
      /\ exit \in [Procs -> {"none", "ok", "failed", "crashed"}]
      /\ faults \in 0..MaxFaults
  BY HomeAssumption DEF Init
<1> QED
  BY <1>1, <1>2, <1>3, <1>4, <1>5, <1>6 DEF TypeOK, HomeOK, CallOK

(* What the helpers stand for while an invocation runs.                    *)
LEMMA Typing ==
  ASSUME CallOK, NEW p \in Procs, pc[p] # "idle"
  PROVE  /\ stack[p] \in Seq(Frame) /\ Len(stack[p]) \in Nat \ {0}
         /\ todo[p] \in Seq(BuildTypes) /\ Len(todo[p]) \in Nat \ {0}
         /\ Head(todo[p]) \in BuildTypes
         /\ Top(p) \in Frame
         /\ Pkg(p) \in Packages
         /\ Root(p) \in Packages
         /\ Own(p) \in Prefixes
         /\ Dest(p) \in Prefixes
         /\ Archive(p) \in Archives
<1>1. stack[p] \in Seq(Frame) /\ stack[p] # <<>>
  BY DEF CallOK
<1>2. Len(stack[p]) \in Nat \ {0}
  BY <1>1
<1>3. todo[p] \in Seq(BuildTypes) /\ todo[p] # <<>>
  BY DEF CallOK
<1>4. Len(todo[p]) \in Nat \ {0} /\ Head(todo[p]) \in BuildTypes
  BY <1>3
<1>5. stack[p][Len(stack[p])] \in Frame /\ stack[p][1] \in Frame
  BY <1>1, <1>2
<1>6. Top(p) \in Frame /\ Pkg(p) \in Packages /\ Root(p) \in Packages
  BY <1>5 DEF Top, Pkg, Root, Frame
<1>7. Own(p) \in Prefixes /\ Dest(p) \in Prefixes
  BY <1>4, <1>6 DEF Own, Dest, PrefixOf, Prefixes
<1>8. Archive(p) \in Archives
  BY <1>6, HomeAssumption DEF Archive
<1> QED
  BY <1>1, <1>2, <1>3, <1>4, <1>6, <1>7, <1>8

(* The ways an invocation moves on.                                        *)
LEMMA GotoOK ==
  ASSUME CallOK, NEW p \in Procs, pc[p] # "idle", NEW l \in Labels, Goto(p, l)
  PROVE  CallOK'
<1>1. pc' \in [Procs -> Labels]
  BY DEF CallOK, Goto
<1>2. \A q \in Procs : pc'[q] # "idle" => stack[q] # <<>> /\ todo[q] # <<>>
  BY DEF CallOK, Goto
<1>3. UNCHANGED <<stack, todo, outcome, exit>>
  BY DEF Goto, call
<1> QED
  BY <1>1, <1>2, <1>3 DEF CallOK

LEMMA EndOK ==
  ASSUME CallOK, left \in [Procs -> SUBSET Line], NEW p \in Procs,
         NEW s \in {"ok", "failed", "crashed"}, End(p, s)
  PROVE  CallOK' /\ left' \in [Procs -> SUBSET Line]
<1>1. pc' \in [Procs -> Labels]
  BY DEF CallOK, End, Labels
<1>2. \A q \in Procs : pc'[q] # "idle" => stack'[q] # <<>> /\ todo'[q] # <<>>
  BY DEF CallOK, End
<1>3. stack' \in [Procs -> Seq(Frame)] /\ todo' \in [Procs -> Seq(BuildTypes)]
  BY DEF CallOK, End
<1>4. /\ outcome' \in [Procs -> {"none", "verified", "sampled", "built"}]
      /\ exit' \in [Procs -> {"none", "ok", "failed", "crashed"}]
      /\ left' \in [Procs -> SUBSET Line]
  BY DEF CallOK, End
<1> QED
  BY <1>1, <1>2, <1>3, <1>4 DEF CallOK

LEMMA FinishOK ==
  ASSUME CallOK, NEW p \in Procs, pc[p] # "idle", NEW l \in Labels, Finish(p, l)
  PROVE  CallOK'
<1>1. pc' \in [Procs -> Labels]
  BY DEF CallOK, Finish
<1>2. \A q \in Procs : pc'[q] # "idle" => stack[q] # <<>> /\ todo[q] # <<>>
  BY DEF CallOK, Finish
<1>3. outcome' \in [Procs -> {"none", "verified", "sampled", "built"}]
  BY DEF CallOK, Finish
<1> QED
  BY <1>1, <1>2, <1>3 DEF CallOK, Finish

LEMMA FaultOK == faults \in 0..MaxFaults /\ Fault => faults' \in 0..MaxFaults
BY HomeAssumption DEF Fault

LEMMA AbortOK ==
  ASSUME CallOK, left \in [Procs -> SUBSET Line], NEW p \in Procs, Abort(p)
  PROVE  CallOK' /\ left' \in [Procs -> SUBSET Line]
BY EndOK DEF Abort

LEMMA HomeSame == HomeOK /\ UNCHANGED home => HomeOK'
BY DEF HomeOK, home, prefixVars, scratchVars, distrVars

LEMMA DistrOK ==
  ASSUME HomeOK, NEW a \in Archives, NEW c \in Packages \cup {None, Garbage},
         UNCHANGED <<prefixVars, scratchVars>>,
         \/ distr' = [distr EXCEPT ![a] = c] /\ UNCHANGED tmp
         \/ tmp' = [tmp EXCEPT ![a] = c] /\ UNCHANGED distr
  PROVE  HomeOK'
BY DEF HomeOK, prefixVars, scratchVars

LEMMA TmpRemovedOK ==
  ASSUME HomeOK, CallOK, NEW p \in Procs, pc[p] # "idle", TmpRemoved(p)
  PROVE  tmp' \in [Archives -> Packages \cup {None, Garbage}]
BY Typing DEF HomeOK, TmpRemoved

LEMMA AcceptOK ==
  ASSUME CallOK, NEW p \in Procs, pc[p] # "idle", Accept(p)
  PROVE  CallOK'
BY GotoOK DEF Accept, Labels

LEMMA DownloadTypeOK ==
  ASSUME TypeOK, NEW p \in Procs, DownloadStep(p) \/ DownloadFault(p)
  PROVE  TypeOK'
<1> USE DEF TypeOK, At
<1>1. CASE CheckCache(p)
  <2>1. pc[p] # "idle" /\ Archive(p) \in Archives
    BY <1>1, Typing DEF CheckCache
  <2>2. CallOK'
    BY <1>1, <2>1, AcceptOK, GotoOK DEF CheckCache, Labels
  <2>3. HomeOK'
    <3>1. CASE UNCHANGED distr
      BY <1>1, <3>1, HomeSame DEF CheckCache, home, distrVars
    <3>2. CASE distr' = [distr EXCEPT ![Archive(p)] = None]
      BY <1>1, <2>1, <3>2, DistrOK DEF CheckCache
    <3> QED
      BY <1>1, <3>1, <3>2 DEF CheckCache
  <2> QED
    BY <1>1, <2>2, <2>3 DEF CheckCache
<1>2. CASE OpenArchive(p)
  <2>1. pc[p] # "idle" /\ Archive(p) \in Archives
    BY <1>2, Typing DEF OpenArchive
  <2>2. CallOK'
    BY <1>2, <2>1, GotoOK DEF OpenArchive, Labels
  <2>3. HomeOK'
    BY <1>2, <2>1, DistrOK DEF OpenArchive
  <2> QED
    BY <1>2, <2>2, <2>3 DEF OpenArchive
<1>3. CASE Fetch(p)
  <2>1. pc[p] # "idle" /\ Archive(p) \in Archives /\ Pkg(p) \in Packages
    BY <1>3, Typing DEF Fetch
  <2>2. CallOK'
    BY <1>3, <2>1, GotoOK DEF Fetch, Labels
  <2>3. HomeOK'
    BY <1>3, <2>1, DistrOK DEF Fetch
  <2> QED
    BY <1>3, <2>2, <2>3 DEF Fetch
<1>4. CASE FetchOther(p) \/ ResetFails(p)
  <2>1. pc[p] # "idle" /\ (Goto(p, "hash") \/ Goto(p, "log"))
    BY <1>4 DEF FetchOther, ResetFails, Unnoticed
  <2>2. CallOK'
    BY <2>1, GotoOK DEF Labels
  <2>3. HomeOK' /\ faults' \in 0..MaxFaults
    BY <1>4, HomeSame, FaultOK DEF FetchOther, ResetFails, Unnoticed
  <2> QED
    BY <1>4, <2>2, <2>3 DEF FetchOther, ResetFails
<1>5. CASE CheckHash(p)
  <2>1. pc[p] # "idle"
    BY <1>5 DEF CheckHash
  <2>2. CallOK' /\ left' \in [Procs -> SUBSET Line]
    BY <1>5, <2>1, AcceptOK, AbortOK DEF CheckHash
  <2>3. HomeOK'
    BY <1>5, HomeSame DEF CheckHash
  <2> QED
    BY <1>5, <2>2, <2>3 DEF CheckHash
<1>6. CASE Unzstd(p)
  <2>1. pc[p] # "idle" /\ Archive(p) \in Archives
    BY <1>6, Typing DEF Unzstd
  <2>2. CallOK' /\ left' \in [Procs -> SUBSET Line]
    BY <1>6, <2>1, GotoOK, AbortOK DEF Unzstd, Labels
  <2>3. HomeOK'
    BY <1>6, <2>1, DistrOK DEF Unzstd
  <2> QED
    BY <1>6, <2>2, <2>3 DEF Unzstd
<1>7. CASE Unzstded(p)
  <2>1. pc[p] # "idle" /\ Archive(p) \in Archives
    BY <1>7, Typing DEF Unzstded
  <2>2. CallOK' /\ left' \in [Procs -> SUBSET Line]
    BY <1>7, <2>1, GotoOK, AbortOK DEF Unzstded, Labels
  <2>3. HomeOK'
    BY <1>7, <2>1, DistrOK DEF Unzstded
  <2> QED
    BY <1>7, <2>2, <2>3 DEF Unzstded
<1>8. CASE UntarSource(p)
  <2>1. pc[p] # "idle"
    BY <1>8 DEF UntarSource
  <2>2. CallOK'
    BY <1>8, <2>1, GotoOK DEF UntarSource, Labels
  <2>3. srcDir \in SUBSET Tree /\ TarInput(p) \in Packages
    BY <1>8 DEF UntarSource, Unpackable, HomeOK
  <2>4. srcDir' \in SUBSET Tree
    BY <1>8, <2>3 DEF UntarSource, Tree, Revisions
  <2>5. HomeOK'
    BY <1>8, <2>1, <2>4, TmpRemovedOK DEF UntarSource, HomeOK, prefixVars
  <2> QED
    BY <1>8, <2>2, <2>5 DEF UntarSource
<1>9. CASE UntarBinary(p)
  <2>1. pc[p] # "idle"
    BY <1>9 DEF UntarBinary
  <2>2. CallOK'
    BY <1>9, <2>1, GotoOK DEF UntarBinary, Labels
  <2>3. TarInput(p) \in Packages
    BY <1>9 DEF UntarBinary, Unpackable
  <2>4. Wanted(TarInput(p), "any") \in Content
    BY <2>3 DEF Wanted, Content, Object, Revisions
  <2>5. FilesOf[TarInput(p)] \X {Wanted(TarInput(p), "any")} \subseteq Line
    BY <2>3, <2>4, HomeAssumption DEF Line
  <2>6. left' \in [Procs -> SUBSET Line]
    BY <1>9, <2>5 DEF UntarBinary
  <2>7. HomeOK'
    BY <1>9, HomeSame DEF UntarBinary
  <2> QED
    BY <1>9, <2>2, <2>6, <2>7 DEF UntarBinary
<1>10. CASE UntarFails(p)
  <2>1. pc[p] # "idle"
    BY <1>10 DEF UntarFails
  <2>2. CallOK' /\ left' \in [Procs -> SUBSET Line]
    BY <1>10, AbortOK DEF UntarFails
  <2>3. HomeOK'
    BY <1>10, <2>1, TmpRemovedOK DEF UntarFails, HomeOK, prefixVars, scratchVars
  <2> QED
    BY <1>10, <2>2, <2>3 DEF UntarFails
<1>11. CASE Clone(p)
  <2>1. pc[p] # "idle" /\ Pkg(p) \in Packages
    BY <1>11, Typing DEF Clone
  <2>2. CallOK' /\ left' \in [Procs -> SUBSET Line]
    BY <1>11, <2>1, GotoOK, AbortOK DEF Clone, Labels
  <2>3. srcDir' \in (SUBSET Tree) \cup {Absent}
    BY <1>11, <2>1 DEF Clone, Tree, Revisions, HomeOK
  <2>4. HomeOK'
    BY <1>11, <2>3 DEF Clone, HomeOK, prefixVars, distrVars
  <2> QED
    BY <1>11, <2>2, <2>4 DEF Clone
<1>12. CASE Reset(p)
  <2>1. pc[p] # "idle"
    BY <1>12 DEF Reset
  <2>2. CallOK'
    BY <1>12, <2>1, GotoOK DEF Reset, Labels
  <2>3. srcDir' \in (SUBSET Tree) \cup {Absent}
    BY <1>12 DEF Reset, Tree, Revisions, HomeOK
  <2>4. HomeOK'
    BY <1>12, <2>3 DEF Reset, HomeOK, prefixVars, distrVars
  <2> QED
    BY <1>12, <2>2, <2>4 DEF Reset
<1>13. CASE CloneBinary(p)
  <2>1. pc[p] # "idle" /\ Pkg(p) \in Packages
    BY <1>13, Typing DEF CloneBinary
  <2>2. CASE Abort(p)
    BY <1>13, <2>2, AbortOK, HomeSame DEF CloneBinary
  <2>3. CASE ~Abort(p)
    <3>1. CallOK'
      BY <1>13, <2>1, <2>3, GotoOK DEF CloneBinary, Labels
    <3>2. Wanted(Pkg(p), "any") \in Content
      BY <2>1 DEF Wanted, Content, Object, Revisions
    <3>3. FilesOf[Pkg(p)] \X {Wanted(Pkg(p), "any")} \subseteq Line
      BY <2>1, <3>2, HomeAssumption DEF Line
    <3>4. left' \in [Procs -> SUBSET Line]
      BY <1>13, <2>3, <3>3 DEF CloneBinary
    <3> QED
      BY <1>13, <3>1, <3>4, HomeSame DEF CloneBinary
  <2> QED
    BY <2>2, <2>3
<1> QED
  BY <1>1, <1>2, <1>3, <1>4, <1>5, <1>6, <1>7, <1>8, <1>9, <1>10, <1>11, <1>12, <1>13
     DEF DownloadStep, DownloadFault

LEMMA InvokeTypeOK ==
  ASSUME TypeOK, NEW p \in Procs, NEW pkg \in Requests[p], Invoke(p, pkg)
  PROVE  TypeOK'
<1> USE DEF TypeOK
<1>1. pkg \in Packages
  BY HomeAssumption
<1>2. <<[pkg |-> pkg, dep |-> 1]>> \in Seq(Frame) /\ <<[pkg |-> pkg, dep |-> 1]>> # <<>>
  BY <1>1 DEF Frame
<1>3. PICK bts \in BuildRequests : todo' = [todo EXCEPT ![p] = bts]
  BY DEF Invoke
<1>4. bts \in Seq(BuildTypes) /\ bts # <<>>
  BY <1>3, HomeAssumption
<1>5. stack' \in [Procs -> Seq(Frame)] /\ todo' \in [Procs -> Seq(BuildTypes)]
  BY <1>2, <1>3, <1>4 DEF Invoke, CallOK
<1>6. /\ pc' \in [Procs -> Labels]
      /\ exit' \in [Procs -> {"none", "ok", "failed", "crashed"}]
  BY DEF Invoke, CallOK, Labels
<1>7. \A q \in Procs : pc'[q] # "idle" => stack'[q] # <<>> /\ todo'[q] # <<>>
  BY <1>2, <1>3, <1>4 DEF Invoke, CallOK
<1>8. CallOK'
  BY <1>5, <1>6, <1>7 DEF Invoke, CallOK
<1>9. HomeOK'
  BY HomeSame DEF Invoke
<1> QED
  BY <1>8, <1>9 DEF Invoke

LEMMA VerifyTypeOK ==
  ASSUME TypeOK, NEW p \in Procs, AlreadyInstalled(p) \/ NeedInstall(p)
  PROVE  TypeOK'
<1> USE DEF TypeOK, At
<1>1. CASE AlreadyInstalled(p)
  <2>1. /\ pc' \in [Procs -> Labels]
        /\ outcome' \in [Procs -> {"none", "verified", "sampled", "built"}]
    BY <1>1 DEF AlreadyInstalled, CallOK, Labels
  <2>2. \A q \in Procs : pc'[q] # "idle" => stack[q] # <<>> /\ todo[q] # <<>>
    BY <1>1 DEF AlreadyInstalled, CallOK
  <2>3. CallOK'
    BY <1>1, <2>1, <2>2 DEF AlreadyInstalled, CallOK
  <2> QED
    BY <1>1, <2>3, HomeSame DEF AlreadyInstalled
<1>2. CASE NeedInstall(p)
  <2>1. CallOK'
    BY <1>2, GotoOK DEF NeedInstall, Labels
  <2> QED
    BY <1>2, <2>1, HomeSame DEF NeedInstall
<1> QED
  BY <1>1, <1>2

LEMMA AfterScratchLabel == \A p \in Procs : AfterScratch(p) \in Labels \ {"idle"}
BY DEF AfterScratch, Labels

LEMMA WipeTypeOK ==
  ASSUME TypeOK, NEW p \in Procs, RemoveEntry(p) \/ RemovePrefix(p)
  PROVE  TypeOK'
<1> USE DEF TypeOK, At
<1>0. pc[p] # "idle" /\ Own(p) \in Prefixes
  BY Typing DEF RemoveEntry, RemovePrefix
<1>1. CASE RemoveEntry(p)
  <2>1. files' \in [Prefixes -> [Files -> Content \cup {None}]]
    <3>1. CASE UNCHANGED files
      BY <3>1 DEF HomeOK
    <3>2. ASSUME NEW f \in Files, files' = [files EXCEPT ![Own(p)][f] = None]
          PROVE  files' \in [Prefixes -> [Files -> Content \cup {None}]]
      BY <1>0, <3>2 DEF HomeOK
    <3> QED
      BY <1>1, <3>1, <3>2 DEF RemoveEntry
  <2>2. manifest' \in [Prefixes -> (SUBSET Line) \cup {Absent}]
    BY <1>1, <1>0 DEF RemoveEntry, HomeOK
  <2>3. HomeOK'
    BY <1>1, <2>1, <2>2 DEF RemoveEntry, HomeOK, scratchVars, distrVars
  <2>4. CallOK'
    BY <1>1 DEF RemoveEntry, CallOK, call
  <2> QED
    BY <1>1, <2>3, <2>4 DEF RemoveEntry
<1>2. CASE RemovePrefix(p)
  <2>1. CallOK'
    BY <1>0, <1>2, GotoOK, AfterScratchLabel DEF RemovePrefix, Labels
  <2>2. HomeOK'
    BY <1>2 DEF RemovePrefix, HomeOK, scratchVars, distrVars
  <2> QED
    BY <1>2, <2>1, <2>2 DEF RemovePrefix
<1> QED
  BY <1>1, <1>2

LEMMA ScratchTypeOK ==
  ASSUME TypeOK, NEW p \in Procs,
         \/ RemoveSource(p) \/ CreateSource(p) \/ RemoveBuild(p) \/ CreateBuild(p)
         \/ CreateInstallDir(p) \/ CleanSource(p) \/ CleanBuild(p)
  PROVE  TypeOK'
<1> USE DEF TypeOK, At
<1>0. pc[p] # "idle" /\ Own(p) \in Prefixes
  BY Typing DEF RemoveSource, CreateSource, RemoveBuild, CreateBuild,
                CreateInstallDir, CleanSource, CleanBuild
<1>1. CASE RemoveSource(p) \/ CleanSource(p)
  <2>1. CallOK'
    BY <1>0, <1>1, GotoOK DEF RemoveSource, CleanSource, Labels
  <2>2. HomeOK'
    BY <1>1 DEF RemoveSource, CleanSource, HomeOK, prefixVars, distrVars
  <2> QED
    BY <1>1, <2>1, <2>2 DEF RemoveSource, CleanSource
<1>2. CASE CreateSource(p)
  <2>1. CallOK' /\ left' \in [Procs -> SUBSET Line]
    BY <1>0, <1>2, GotoOK, AbortOK DEF CreateSource, Labels
  <2>2. HomeOK'
    BY <1>2 DEF CreateSource, HomeOK, prefixVars, distrVars
  <2> QED
    BY <1>2, <2>1, <2>2 DEF CreateSource
<1>3. CASE RemoveBuild(p)
  <2>1. CallOK'
    BY <1>0, <1>3, GotoOK DEF RemoveBuild, Labels
  <2>2. HomeOK'
    BY <1>3 DEF RemoveBuild, HomeOK, prefixVars, distrVars
  <2> QED
    BY <1>3, <2>1, <2>2 DEF RemoveBuild
<1>4. CASE CreateBuild(p)
  <2>1. CallOK' /\ left' \in [Procs -> SUBSET Line]
    BY <1>0, <1>4, GotoOK, AbortOK, AfterScratchLabel DEF CreateBuild
  <2>2. HomeOK'
    BY <1>4 DEF CreateBuild, HomeOK, prefixVars, distrVars
  <2> QED
    BY <1>4, <2>1, <2>2 DEF CreateBuild
<1>5. CASE CreateInstallDir(p)
  <2>1. CallOK' /\ left' \in [Procs -> SUBSET Line]
    BY <1>0, <1>5, GotoOK, AbortOK DEF CreateInstallDir, Labels
  <2>2. HomeOK'
    BY <1>0, <1>5 DEF CreateInstallDir, HomeOK, scratchVars, distrVars
  <2> QED
    BY <1>5, <2>1, <2>2 DEF CreateInstallDir
<1>6. CASE CleanBuild(p)
  <2>1. CallOK'
    BY <1>0, <1>6, FinishOK DEF CleanBuild, Labels
  <2>2. HomeOK'
    BY <1>6 DEF CleanBuild, HomeOK, prefixVars, distrVars
  <2> QED
    BY <1>6, <2>1, <2>2 DEF CleanBuild
<1> QED
  BY <1>1, <1>2, <1>3, <1>4, <1>5, <1>6

LEMMA DependsTypeOK ==
  ASSUME TypeOK, NEW p \in Procs,
         \/ InstallDependency(p) \/ UnknownDependency(p)
         \/ DependenciesInstalled(p) \/ SkipDependencies(p)
  PROVE  TypeOK'
<1> USE DEF TypeOK, At
<1>0. pc[p] # "idle"
  BY DEF InstallDependency, UnknownDependency, DependenciesInstalled,
         SkipDependencies, Unnoticed
<1>1. CASE InstallDependency(p)
  <2> DEFINE s == stack[p]
             d == Dependencies(p)[Top(p).dep]
             t == NextDependency(s)
             new == [pkg |-> d, dep |-> 1]
  <2>1. s \in Seq(Frame) /\ Len(s) \in Nat \ {0}
    BY <1>0, Typing
  <2>2. t \in Seq(Frame)
    <3>1. s[Len(s)] \in Frame
      BY <2>1
    <3>2. [pkg |-> s[Len(s)].pkg, dep |-> s[Len(s)].dep + 1] \in Frame
      BY <3>1 DEF Frame
    <3> QED
      BY <2>1, <3>2 DEF NextDependency
  <2>3. new \in Frame
    BY <1>1 DEF InstallDependency, Frame
  <2>4. Append(t, new) \in Seq(Frame) /\ Append(t, new) # <<>>
    BY <2>2, <2>3
  <2>5. stack' = [stack EXCEPT ![p] = Append(t, new)]
    BY <1>1 DEF InstallDependency
  <2>6. pc' \in [Procs -> Labels] /\ stack' \in [Procs -> Seq(Frame)]
    BY <1>1, <2>4, <2>5 DEF InstallDependency, CallOK, Labels
  <2>7. \A q \in Procs : pc'[q] # "idle" => stack'[q] # <<>> /\ todo[q] # <<>>
    BY <1>1, <2>4, <2>5 DEF InstallDependency, CallOK
  <2>8. CallOK'
    BY <1>1, <2>6, <2>7 DEF InstallDependency, CallOK
  <2> QED
    BY <1>1, <2>8, HomeSame DEF InstallDependency
<1>2. CASE UnknownDependency(p)
  BY <1>2, AbortOK, HomeSame DEF UnknownDependency
<1>3. CASE DependenciesInstalled(p)
  <2>1. CallOK'
    BY <1>0, <1>3, GotoOK DEF DependenciesInstalled, Labels
  <2> QED
    BY <1>3, <2>1, HomeSame DEF DependenciesInstalled
<1>4. CASE SkipDependencies(p)
  <2>1. CallOK'
    BY <1>0, <1>4, GotoOK DEF SkipDependencies, Labels
  <2> QED
    BY <1>4, <2>1, HomeSame, FaultOK DEF SkipDependencies, Unnoticed
<1> QED
  BY <1>1, <1>2, <1>3, <1>4

(* What make makes is an object.                                           *)
LEMMA MakesObjects ==
  ASSUME HomeOK, NEW x \in Prefixes
  PROVE  Makes(x) \subseteq Object /\ (Makes(x) # {} => x[1] \in Packages)
<1>1. Objects(x) \subseteq Object
  BY DEF Objects, HomeOK
<1>2. ASSUME NEW t \in Sources(x[1])
      PROVE  [pkg |-> x[1], rev |-> t.rev, bt |-> x[2]] \in Object
  <2>1. t \in Tree
    BY <1>2 DEF Sources, HomeOK
  <2>2. x[1] \in Packages /\ x[2] \in BuildTypes \cup {"any"}
    BY DEF Prefixes
  <2> QED
    BY <2>1, <2>2 DEF Tree, Object
<1>3. x[1] \in Packages
  BY DEF Prefixes
<1> QED
  BY <1>1, <1>2, <1>3 DEF Makes

LEMMA BuildTypeOK ==
  ASSUME TypeOK, NEW p \in Procs,
         \/ OpenLog(p) \/ Configure(p) \/ Make(p) \/ MakeInstall(p) \/ MakeFails(p)
         \/ PlaceFile(p) \/ TargetGone(p) \/ FilesPlaced(p)
  PROVE  TypeOK'
<1> USE DEF TypeOK, At
<1>0. /\ pc[p] # "idle" /\ Own(p) \in Prefixes /\ Dest(p) \in Prefixes
      /\ Pkg(p) \in Packages /\ Head(todo[p]) \in BuildTypes
  BY Typing DEF OpenLog, Configure, Make, MakeInstall, MakeFails, PlaceFile, TargetGone,
                FilesPlaced
<1>1. CASE OpenLog(p)
  <2>1. CallOK' /\ left' \in [Procs -> SUBSET Line]
    BY <1>0, <1>1, GotoOK, AbortOK DEF OpenLog, Labels
  <2> QED
    BY <1>1, <2>1, HomeSame DEF OpenLog
<1>2. CASE Configure(p)
  <2>1. CallOK' /\ left' \in [Procs -> SUBSET Line]
    BY <1>0, <1>2, GotoOK, AbortOK DEF Configure, Labels
  <2>2. Own(p) # None
    BY <1>0, NotThere
  <2>3. HomeOK'
    BY <1>0, <1>2, <2>2 DEF Configure, HomeOK, prefixVars, distrVars
  <2> QED
    BY <1>2, <2>1, <2>3 DEF Configure
<1>3. CASE Make(p)
  <2>1. CallOK'
    BY <1>0, <1>3, GotoOK DEF Make, Labels
  <2>2. PICK o \in Makes(makefile) : bldDir' = bldDir \cup {o}
    BY <1>3 DEF Make
  <2>3. makefile \in Prefixes /\ bldDir \in SUBSET Object
    BY <1>3 DEF Make, HomeOK
  <2>4. bldDir' \in SUBSET Object
    BY <2>2, <2>3, MakesObjects DEF HomeOK
  <2>5. HomeOK'
    BY <1>3, <2>3, <2>4 DEF Make, HomeOK, prefixVars, distrVars
  <2> QED
    BY <1>3, <2>1, <2>5 DEF Make
<1>4. CASE MakeInstall(p)
  <2>1. CallOK'
    BY <1>0, <1>4, GotoOK DEF MakeInstall, Labels
  <2>2. PICK o \in Makes(makefile) :
          /\ bldDir' = bldDir \cup {o}
          /\ left' = [left EXCEPT ![p] = FilesOf[makefile[1]] \X {o}]
    BY <1>4 DEF MakeInstall
  <2>3. makefile \in Prefixes /\ bldDir \in SUBSET Object
    BY <1>4 DEF MakeInstall, HomeOK
  <2>4. o \in Content /\ makefile[1] \in Packages
    BY <2>2, <2>3, MakesObjects DEF Content
  <2>5. bldDir' \in SUBSET Object
    BY <2>2, <2>3, MakesObjects DEF HomeOK
  <2>6. FilesOf[makefile[1]] \X {o} \subseteq Line
    BY <2>4, HomeAssumption DEF Line
  <2>7. left' \in [Procs -> SUBSET Line]
    BY <2>2, <2>6
  <2>8. HomeOK'
    BY <1>4, <2>3, <2>5 DEF MakeInstall, HomeOK, distrVars
  <2> QED
    BY <1>4, <2>1, <2>7, <2>8 DEF MakeInstall
<1>5. CASE MakeFails(p) \/ TargetGone(p)
  BY <1>5, AbortOK, HomeSame DEF MakeFails, TargetGone
<1>6. CASE PlaceFile(p)
  <2>1. PICK l \in left[p] : /\ files' = [files EXCEPT ![Target(p, l)][l[1]] = l[2]]
                             /\ left' = [left EXCEPT ![p] = @ \ {l}]
                             /\ Target(p, l) \in dirs
    BY <1>6 DEF PlaceFile
  <2>2. l \in Line /\ Target(p, l) \in Prefixes
    BY <2>1 DEF HomeOK
  <2>3. files' \in [Prefixes -> [Files -> Content \cup {None}]]
    BY <2>1, <2>2 DEF HomeOK, Line
  <2>4. left' \in [Procs -> SUBSET Line]
    BY <2>1
  <2>5. HomeOK'
    BY <1>6, <2>3 DEF PlaceFile, HomeOK, scratchVars, distrVars
  <2>6. CallOK'
    BY <1>6 DEF PlaceFile, CallOK, call
  <2> QED
    BY <1>6, <2>4, <2>5, <2>6 DEF PlaceFile
<1>7. CASE FilesPlaced(p)
  <2>1. CallOK'
    BY <1>0, <1>7, GotoOK DEF FilesPlaced, Labels
  <2>2. HomeOK'
    BY <1>0, <1>7, TmpRemovedOK DEF FilesPlaced, HomeOK, prefixVars, scratchVars
  <2> QED
    BY <1>7, <2>1, <2>2 DEF FilesPlaced
<1> QED
  BY <1>1, <1>2, <1>3, <1>4, <1>5, <1>6, <1>7

LEMMA ManifestTypeOK ==
  ASSUME TypeOK, NEW p \in Procs,
         OpenManifest(p) \/ WriteLine(p) \/ CloseManifest(p) \/ LoseTail(p)
  PROVE  TypeOK'
<1> USE DEF TypeOK, At
<1>0. /\ pc[p] # "idle" /\ Own(p) \in Prefixes
      /\ AfterManifest(p) \in Labels
  BY Typing DEF OpenManifest, WriteLine, CloseManifest, LoseTail, Unnoticed,
                AfterManifest, Labels
<1>1. CASE OpenManifest(p)
  <2>1. CallOK'
    BY <1>0, <1>1, FinishOK, GotoOK, AbortOK DEF OpenManifest, Labels
  <2>2. left' \in [Procs -> SUBSET Line]
    <3>1. CASE UNCHANGED left
      BY <3>1
    <3>2. CASE Abort(p)
      BY <3>2, AbortOK
    <3>3. CASE left' = [left EXCEPT ![p] =
                 {<<f, files[Own(p)][f]>> :
                    f \in {g \in Files : files[Own(p)][g] # None}}]
      <4>1. \A f \in Files : files[Own(p)][f] # None =>
               <<f, files[Own(p)][f]>> \in Line
        BY <1>0 DEF HomeOK, Line
      <4> QED
        BY <3>3, <4>1
    <3> QED
      BY <1>1, <3>1, <3>2, <3>3 DEF OpenManifest
  <2>3. manifest' \in [Prefixes -> (SUBSET Line) \cup {Absent}]
    BY <1>0, <1>1 DEF OpenManifest, HomeOK
  <2>4. HomeOK'
    BY <1>1, <2>3 DEF OpenManifest, HomeOK, scratchVars, distrVars
  <2> QED
    BY <1>1, <2>1, <2>2, <2>4 DEF OpenManifest
<1>2. CASE WriteLine(p)
  <2>1. PICK l \in left[p] :
          /\ manifest' = [manifest EXCEPT ![Own(p)] =
                            IF @ = Absent THEN Absent ELSE @ \cup {l}]
          /\ left' = [left EXCEPT ![p] = @ \ {l}]
    BY <1>2 DEF WriteLine
  <2>2. l \in Line /\ left' \in [Procs -> SUBSET Line]
    BY <2>1
  <2>3. manifest' \in [Prefixes -> (SUBSET Line) \cup {Absent}]
    BY <1>0, <2>1, <2>2 DEF HomeOK
  <2>4. HomeOK'
    BY <1>2, <2>3 DEF WriteLine, HomeOK, scratchVars, distrVars
  <2>5. CallOK'
    BY <1>2 DEF WriteLine, CallOK, call
  <2> QED
    BY <1>2, <2>2, <2>4, <2>5 DEF WriteLine
<1>3. CASE CloseManifest(p)
  <2>1. CallOK'
    BY <1>0, <1>3, FinishOK DEF CloseManifest
  <2> QED
    BY <1>3, <2>1, HomeSame DEF CloseManifest
<1>4. CASE LoseTail(p)
  <2>1. CallOK'
    BY <1>0, <1>4, FinishOK DEF LoseTail
  <2>2. left' \in [Procs -> SUBSET Line]
    BY <1>4 DEF LoseTail
  <2> QED
    BY <1>4, <2>1, <2>2, HomeSame, FaultOK DEF LoseTail, Unnoticed
<1> QED
  BY <1>1, <1>2, <1>3, <1>4

LEMMA ReturnTypeOK ==
  ASSUME TypeOK, NEW p \in Procs, Return(p)
  PROVE  TypeOK'
<1> USE DEF TypeOK, At
<1>0. /\ pc[p] # "idle" /\ Root(p) \in Packages
      /\ stack[p] \in Seq(Frame) /\ todo[p] \in Seq(BuildTypes)
  BY Typing DEF Return
<1>1. CASE Nested(p) /\ pc' = [pc EXCEPT ![p] = "deps"]
           /\ stack' = [stack EXCEPT ![p] = SubSeq(@, 1, Len(@) - 1)]
           /\ outcome' = [outcome EXCEPT ![p] = "none"]
           /\ UNCHANGED <<todo, exit, left>>
  <2>1. SubSeq(stack[p], 1, Len(stack[p]) - 1) \in Seq(Frame) \ {<<>>}
    BY <1>0, <1>1, Shorter DEF Nested
  <2>2. stack' \in [Procs -> Seq(Frame)]
    BY <1>1, <2>1 DEF CallOK
  <2>3. \A q \in Procs : pc'[q] # "idle" => stack'[q] # <<>> /\ todo[q] # <<>>
    BY <1>0, <1>1, <2>1 DEF CallOK
  <2>4. CallOK'
    BY <1>1, <2>2, <2>3 DEF CallOK, Labels
  <2> QED
    BY <1>1, <2>4, HomeSame DEF Return
<1>2. CASE Len(todo[p]) > 1 /\ pc' = [pc EXCEPT ![p] = "verify"]
           /\ stack' = [stack EXCEPT ![p] = <<[pkg |-> Root(p), dep |-> 1]>>]
           /\ todo' = [todo EXCEPT ![p] = Tail(@)]
           /\ outcome' = [outcome EXCEPT ![p] = "none"]
           /\ UNCHANGED <<exit, left>>
  <2>1. <<[pkg |-> Root(p), dep |-> 1]>> \in Seq(Frame) \ {<<>>}
    BY <1>0 DEF Frame
  <2>2. Tail(todo[p]) \in Seq(BuildTypes) \ {<<>>}
    BY <1>0, <1>2, Shorter
  <2>3. stack' \in [Procs -> Seq(Frame)] /\ todo' \in [Procs -> Seq(BuildTypes)]
    BY <1>2, <2>1, <2>2 DEF CallOK
  <2>4. \A q \in Procs : pc'[q] # "idle" => stack'[q] # <<>> /\ todo'[q] # <<>>
    BY <1>2, <2>1, <2>2 DEF CallOK
  <2>5. CallOK'
    BY <1>2, <2>3, <2>4 DEF CallOK, Labels
  <2> QED
    BY <1>2, <2>5, HomeSame DEF Return
<1>3. CASE End(p, "ok")
  BY <1>3, EndOK, HomeSame DEF Return
<1> QED
  BY <1>1, <1>2, <1>3 DEF Return

LEMMA FaultTypeOK ==
  ASSUME TypeOK, NEW p \in Procs, Fails(p) \/ Crash(p)
  PROVE  TypeOK'
<1> USE DEF TypeOK, At
<1>0. pc[p] # "idle" /\ Own(p) \in Prefixes
  BY HomeAssumption, Typing DEF Fails, Crash, Fallible
<1>1. CASE Fails(p)
  <2>1. CallOK' /\ left' \in [Procs -> SUBSET Line] /\ faults' \in 0..MaxFaults
    BY <1>1, AbortOK, FaultOK DEF Fails
  <2>2. HomeOK'
    BY <1>0, <1>1, TmpRemovedOK DEF Fails, HomeOK, prefixVars, scratchVars
  <2> QED
    BY <2>1, <2>2
<1>2. CASE Crash(p)
  <2>1. CallOK' /\ left' \in [Procs -> SUBSET Line] /\ faults' \in 0..MaxFaults
    BY <1>2, EndOK, FaultOK DEF Crash
  <2>2. manifest' \in [Prefixes -> (SUBSET Line) \cup {Absent}]
    <3>1. CASE UNCHANGED manifest
      BY <3>1 DEF HomeOK
    <3>2. ASSUME manifest[Own(p)] # Absent, NEW l \in left[p],
                 manifest' = [manifest EXCEPT ![Own(p)] = @ \cup {<<l[1], Torn>>}]
          PROVE  manifest' \in [Prefixes -> (SUBSET Line) \cup {Absent}]
      <4>1. <<l[1], Torn>> \in Line
        BY DEF Line, Content
      <4> QED
        BY <1>0, <3>2, <4>1 DEF HomeOK
    <3> QED
      BY <1>2, <3>1, <3>2 DEF Crash
  <2>3. HomeOK'
    BY <1>2, <2>2 DEF Crash, HomeOK, scratchVars, distrVars
  <2> QED
    BY <2>1, <2>3
<1> QED
  BY <1>1, <1>2

LEMMA RotTypeOK ==
  ASSUME TypeOK, NEW x \in Prefixes, NEW f \in Rotting, Rot(x, f)
  PROVE  TypeOK'
<1> USE DEF TypeOK
<1>1. PICK c \in {None, Garbage} : files' = [files EXCEPT ![x][f] = c]
  BY DEF Rot
<1>2. files' \in [Prefixes -> [Files -> Content \cup {None}]]
  BY <1>1 DEF HomeOK, Content
<1>3. HomeOK'
  BY <1>2 DEF Rot, HomeOK, scratchVars, distrVars
<1>4. CallOK'
  BY DEF Rot, CallOK, call
<1> QED
  BY <1>3, <1>4, FaultOK DEF Rot

(* Every behaviour of Install is well typed, whatever the packages, their  *)
(* dependencies, the number of invocations and the faults.                 *)
THEOREM TypeCorrect == Spec => []TypeOK
<1>1. Init => TypeOK
  BY InitTypeOK
<1>2. TypeOK /\ [Next]_vars => TypeOK'
  <2> SUFFICES ASSUME TypeOK, [Next]_vars PROVE TypeOK'
    OBVIOUS
  <2>1. CASE UNCHANGED vars
    BY <2>1, HomeSame DEF vars, call, TypeOK, CallOK
  <2>2. ASSUME NEW p \in Procs,
               \/ \E pkg \in Requests[p] : Invoke(p, pkg)
               \/ Step(p) \/ DownloadFault(p) \/ InstallFault(p)
        PROVE  TypeOK'
    BY <2>2, InvokeTypeOK, DownloadTypeOK, VerifyTypeOK, WipeTypeOK, ScratchTypeOK,
       DependsTypeOK, BuildTypeOK, ManifestTypeOK, ReturnTypeOK, FaultTypeOK
       DEF Step, InstallStep, InstallFault
  <2>3. ASSUME NEW x \in Prefixes, NEW f \in Rotting, Rot(x, f)
        PROVE  TypeOK'
    BY <2>3, RotTypeOK
  <2> QED
    BY <2>1, <2>2, <2>3 DEF Next
<1> QED
  BY <1>1, <1>2, PTL DEF Spec

-----------------------------------------------------------------------------
(* The code takes no lock; the promises below need what it assumes.        *)
Solo == \A p, q \in Procs : p = q

(* From the hash check to tar: the archive is still the one that passed,   *)
(* and what unzstd has written was read from it.                           *)
Verified(p) ==
  /\ pc[p] \in {"unzstd", "unzstding"} => distr[Archive(p)] = Pkg(p)
  /\ pc[p] = "untar" => TarInput(p) = Pkg(p)

Unpacks == {"unzstd", "unzstding", "untar"}

(* A step of this invocation.                                              *)
Acts(p) ==
  \/ \E pkg \in Requests[p] : Invoke(p, pkg)
  \/ Step(p) \/ DownloadFault(p) \/ InstallFault(p)

LEMMA SamePackage ==
  ASSUME NEW p, UNCHANGED stack
  PROVE  Pkg(p)' = Pkg(p) /\ Archive(p)' = Archive(p)
BY DEF Pkg, Top, Archive

LEMMA AcceptVerified ==
  ASSUME TypeOK, NEW p \in Procs, Accept(p), UNCHANGED distr,
         distr[Archive(p)] = Pkg(p)
  PROVE  Verified(p)'
<1>1. UNCHANGED stack
  BY DEF Accept, Goto, call
<1>2. pc'[p] = IF Pkg(p) \in Zst THEN "unzstd" ELSE "untar"
  BY DEF Accept, Goto, TypeOK, CallOK
<1>3. CASE Pkg(p) \in Zst
  BY <1>1, <1>2, <1>3, SamePackage DEF Verified
<1>4. CASE Pkg(p) \notin Zst
  BY <1>1, <1>2, <1>4, SamePackage DEF Verified, TarInput
<1> QED
  BY <1>3, <1>4

(* The labels of the unpackers are entered by five steps only.             *)
LEMMA EntersUnpack ==
  ASSUME TypeOK, NEW p \in Procs, Acts(p), pc'[p] \in Unpacks
  PROVE  CheckCache(p) \/ CheckHash(p) \/ Unzstd(p) \/ Unzstded(p)
         \/ (UNCHANGED <<pc, call, distrVars>>)
<1> USE DEF TypeOK, CallOK, Unpacks
<1>1. ASSUME NEW pkg \in Requests[p], Invoke(p, pkg) PROVE FALSE
  BY <1>1 DEF Invoke
<1>2. ASSUME DownloadStep(p), ~CheckCache(p), ~CheckHash(p), ~Unzstd(p), ~Unzstded(p)
      PROVE  FALSE
  BY <1>2 DEF DownloadStep, OpenArchive, Fetch, UntarSource, UntarBinary,
              UntarFails, Clone, CloneBinary, Reset, Goto, Abort, End
<1>3. ASSUME InstallStep(p)
      PROVE  UNCHANGED <<pc, call, distrVars>>
  <2>1. CASE RemoveEntry(p) \/ PlaceFile(p) \/ WriteLine(p)
    BY <2>1 DEF RemoveEntry, PlaceFile, WriteLine
  <2>2. CASE AlreadyInstalled(p) \/ NeedInstall(p) \/ RemovePrefix(p)
    BY <2>2 DEF AlreadyInstalled, NeedInstall, RemovePrefix, Goto, AfterScratch
  <2>3. CASE \/ RemoveSource(p) \/ CreateSource(p) \/ RemoveBuild(p)
             \/ CreateBuild(p) \/ CreateInstallDir(p)
    BY <2>3 DEF RemoveSource, CreateSource, RemoveBuild, CreateBuild,
                CreateInstallDir, Goto, Abort, End, AfterScratch
  <2>4. CASE InstallDependency(p) \/ UnknownDependency(p) \/ DependenciesInstalled(p)
    BY <2>4 DEF InstallDependency, UnknownDependency, DependenciesInstalled,
                Goto, Abort, End
  <2>5. CASE \/ OpenLog(p) \/ Configure(p) \/ Make(p) \/ MakeInstall(p) \/ MakeFails(p)
             \/ TargetGone(p) \/ FilesPlaced(p)
    BY <2>5 DEF OpenLog, Configure, Make, MakeInstall, MakeFails, TargetGone, FilesPlaced,
                Goto, Abort, End
  <2>6. CASE OpenManifest(p) \/ CloseManifest(p)
    BY <2>6 DEF OpenManifest, CloseManifest, Goto, Abort, End, Finish, AfterManifest
  <2>7. CASE CleanSource(p) \/ CleanBuild(p) \/ Return(p)
    BY <2>7 DEF CleanSource, CleanBuild, Return, Goto, Finish, End
  <2> QED
    BY <1>3, <2>1, <2>2, <2>3, <2>4, <2>5, <2>6, <2>7 DEF InstallStep
<1>4. ASSUME DownloadFault(p) PROVE FALSE
  BY <1>4 DEF DownloadFault, FetchOther, ResetFails, Goto
<1>5. ASSUME InstallFault(p) PROVE FALSE
  BY <1>5 DEF InstallFault, SkipDependencies, LoseTail, Fails, Crash, Goto,
              Finish, AfterManifest, Abort, End
<1> QED
  BY <1>1, <1>2, <1>3, <1>4, <1>5 DEF Acts, Step

LEMMA VerifiedStep ==
  ASSUME TypeOK, NEW p \in Procs, Verified(p),
         Acts(p) \/ UNCHANGED <<pc, call, distrVars>>
  PROVE  Verified(p)'
<1>1. CASE pc'[p] \notin Unpacks
  BY <1>1 DEF Verified, Unpacks
<1>2. ASSUME UNCHANGED <<pc, call, distrVars>> PROVE Verified(p)'
  <2>1. UNCHANGED <<pc, stack, distr, tmp>>
    BY <1>2 DEF call, distrVars
  <2> QED
    BY <2>1, SamePackage DEF Verified, TarInput
<1>3. CASE Acts(p) /\ pc'[p] \in Unpacks
  <2>1. CASE CheckCache(p)
    <3>1. pc'[p] # "wget"
      BY <1>3 DEF Unpacks
    <3>2. Accept(p) /\ UNCHANGED distr /\ distr[Archive(p)] = Pkg(p)
      BY <2>1, <3>1 DEF CheckCache, Goto, TypeOK, CallOK
    <3> QED
      BY <3>2, AcceptVerified
  <2>2. CASE CheckHash(p)
    <3>1. pc'[p] # "idle"
      BY <1>3 DEF Unpacks
    <3>2. Accept(p) /\ UNCHANGED distr /\ distr[Archive(p)] = Pkg(p)
      BY <2>2, <3>1 DEF CheckHash, Abort, End, TypeOK, CallOK, home, distrVars
    <3> QED
      BY <3>2, AcceptVerified
  <2>3. CASE Unzstd(p)
    <3>1. Goto(p, "unzstding")
      BY <1>3, <2>3 DEF Unzstd, Abort, End, TypeOK, CallOK, Unpacks
    <3>2. pc'[p] = "unzstding" /\ UNCHANGED <<stack, distr>>
      BY <2>3, <3>1 DEF Unzstd, Goto, call, TypeOK, CallOK
    <3>3. distr[Archive(p)] = Pkg(p)
      BY <2>3 DEF Unzstd, At, Verified
    <3> QED
      BY <3>2, <3>3, SamePackage DEF Verified
  <2>4. CASE Unzstded(p)
    <3>1. /\ Goto(p, "untar") /\ UNCHANGED distr
          /\ tmp' = [tmp EXCEPT ![Archive(p)] = distr[Archive(p)]]
      BY <1>3, <2>4 DEF Unzstded, Abort, End, TypeOK, CallOK, Unpacks
    <3>2. pc'[p] = "untar" /\ UNCHANGED stack
      BY <3>1 DEF Goto, call, TypeOK, CallOK
    <3>3. distr[Archive(p)] = Pkg(p) /\ Archive(p) \in Archives
      BY <2>4, Typing DEF Unzstded, At, Verified, TypeOK
    <3>4. tmp'[Archive(p)] = Pkg(p)
      BY <3>1, <3>3 DEF TypeOK, HomeOK
    <3> QED
      BY <3>1, <3>2, <3>3, <3>4, SamePackage DEF Verified, TarInput
  <2> QED
    BY <1>2, <1>3, <2>1, <2>2, <2>3, <2>4, EntersUnpack
<1> QED
  BY <1>1, <1>2, <1>3

LEMMA SoloStep ==
  ASSUME Solo, NEW p \in Procs, [Next]_vars
  PROVE  \/ Acts(p) \/ UNCHANGED vars
         \/ \E x \in Prefixes, f \in Rotting : Rot(x, f)
BY DEF Next, Solo, Acts

(* tar is run on the archive of the very recipe being installed, even when *)
(* several recipes share an archive name, the cache holds damaged files or *)
(* a server delivers something else.                                       *)
THEOREM OnlyVerifiedUnpacked == Solo => (Spec => []UnpackVerified)
<1> SUFFICES ASSUME Solo PROVE Spec => []UnpackVerified
  OBVIOUS
<1> DEFINE IInv == \A p \in Procs : Verified(p)
<1>1. Init => IInv
  BY DEF Init, Verified
<1>2. TypeOK /\ IInv /\ [Next]_vars => IInv'
  BY SoloStep, VerifiedStep DEF vars, home, Rot
<1>3. IInv => UnpackVerified
  BY DEF Verified, UnpackVerified, At
<1> QED
  BY <1>1, <1>2, <1>3, TypeCorrect, PTL DEF Spec

-----------------------------------------------------------------------------
(* The scratch directories.  What the labels say about the activation on   *)
(* top: those of a source package, and those only the root call reaches.   *)
OfSource == {"wipeSrc", "mkSrc", "wipeBld", "mkBld", "reset", "log",
             "configure", "make", "install", "copying", "cleanSrc", "cleanBld"}
OfRoot   == {"mkdir", "configure", "make", "install", "copying", "lines", "cleanSrc",
             "cleanBld"}
BeforeUnpacking == {"mkdir", "deps", "download", "wget", "wgetting", "hash",
                    "unzstd", "unzstding", "untar"}

Placed(p) ==
  /\ pc[p] \in OfSource => Pkg(p) \notin Binary
  /\ pc[p] = "unpacking" => Pkg(p) \in Binary
  /\ pc[p] \in OfRoot => ~Nested(p)
  /\ pc[p] = "manifest" /\ Nested(p) => Pkg(p) \in Binary

(* A nested source package has wiped its prefix and nobody creates it      *)
(* again, so that its installation ends when the log is opened.            *)
Gone(p) ==
  \A k \in 2..Len(stack[p]) :
    /\ stack[p][k].pkg \notin Binary
    /\ k < Len(stack[p]) \/ pc[p] \notin {"verify", "wipe", "returned"}
    => PrefixOf(stack[p][k].pkg, Head(todo[p])) \notin dirs

(* Both directories are empty from their creation to the unpacking, also   *)
(* while a dependency is installed in between.                             *)
Empty == srcDir = {} /\ bldDir = {} /\ makefile = None
Untouched(p) ==
  Pkg(p) \in Binary \/ pc[p] \in {"verify", "wipe", "wipeSrc", "returned"}
SourceBelow(p) == \E k \in 1..(Len(stack[p]) - 1) : stack[p][k].pkg \notin Binary

Fresh(p) ==
  /\ pc[p] \in {"wipeBld", "mkBld"} => srcDir = {}
  /\ pc[p] \in BeforeUnpacking /\ Pkg(p) \notin Binary => Empty
  /\ pc[p] = "mkBld" => makefile = None
  /\ pc[p] \in {"reset", "log", "configure"} =>
       bldDir = {} /\ makefile = None /\ \E t \in Tree : srcDir = {t} /\ t.pkg = Pkg(p)
  /\ Untouched(p) /\ SourceBelow(p) => Empty

Isolated(p) == Placed(p) /\ Gone(p) /\ Fresh(p)

LEMMA EndIsolated ==
  ASSUME TypeOK, NEW p \in Procs, NEW s, End(p, s)
  PROVE  Isolated(p)'
<1>1. pc'[p] = "idle" /\ stack'[p] = <<>>
  BY DEF End, TypeOK, CallOK
<1>2. Len(stack'[p]) = 0
  BY <1>1
<1> QED
  BY <1>1, <1>2 DEF Isolated, Placed, Gone, Fresh, SourceBelow, OfSource, OfRoot,
                    BeforeUnpacking

(* What depends on the stack alone.                                        *)
LEMMA SameCall ==
  ASSUME NEW p, UNCHANGED <<stack, todo>>
  PROVE  /\ Pkg(p)' = Pkg(p) /\ Nested(p)' = Nested(p) /\ Own(p)' = Own(p)
         /\ SourceBelow(p)' = SourceBelow(p)
BY DEF Pkg, Top, Nested, Own, SourceBelow

(* The prefix of a nested source package stays away.                       *)
LEMMA GoneKept ==
  ASSUME TypeOK, NEW p \in Procs, pc[p] # "idle", Gone(p),
         UNCHANGED <<stack, todo>>, dirs' \subseteq dirs,
         \/ pc[p] \notin {"verify", "wipe", "returned"}
         \/ pc'[p] \in {"verify", "wipe", "returned"}
         \/ Own(p) \notin dirs' \/ Pkg(p) \in Binary
  PROVE  Gone(p)'
<1>1. Len(stack[p]) \in Nat
  BY Typing DEF TypeOK
<1> SUFFICES ASSUME NEW k \in 2..Len(stack[p]), stack[p][k].pkg \notin Binary,
                    k < Len(stack[p]) \/ pc'[p] \notin {"verify", "wipe", "returned"}
             PROVE  PrefixOf(stack[p][k].pkg, Head(todo[p])) \notin dirs'
  BY DEF Gone
<1>2. CASE k < Len(stack[p])
  BY <1>2 DEF Gone
<1>3. CASE ~(k < Len(stack[p]))
  <2>1. k = Len(stack[p])
    BY <1>1, <1>3
  <2>2. Pkg(p) = stack[p][k].pkg /\ Own(p) = PrefixOf(stack[p][k].pkg, Head(todo[p]))
    BY <2>1 DEF Own, Pkg, Top
  <2> QED
    BY <1>3, <2>2 DEF Gone
<1> QED
  BY <1>2, <1>3

LEMMA IsolatedDownload ==
  ASSUME TypeOK, NEW p \in Procs, Verified(p), Isolated(p),
         DownloadStep(p) \/ DownloadFault(p)
  PROVE  Isolated(p)'
<1> USE DEF At
<1>0. pc[p] # "idle" /\ pc[p] \in BeforeUnpacking \cup {"reset"}
  BY DEF DownloadStep, DownloadFault, CheckCache, OpenArchive, Fetch, FetchOther,
         CheckHash, Unzstd, Unzstded, UntarSource, UntarBinary, UntarFails, Clone,
         CloneBinary, Reset, ResetFails, Unnoticed, BeforeUnpacking
<1>1. ASSUME NEW s, End(p, s) PROVE Isolated(p)'
  BY <1>1, EndIsolated
<1>2. ASSUME NEW l, Goto(p, l) PROVE pc'[p] = l /\ UNCHANGED <<stack, todo>>
  BY <1>2 DEF Goto, call, TypeOK, CallOK
<1>3. ASSUME NEW l, Goto(p, l), UNCHANGED dirs PROVE Gone(p)'
  BY <1>0, <1>2, <1>3, GoneKept DEF Isolated, BeforeUnpacking
<1>4. ASSUME NEW l \in BeforeUnpacking \ {"mkdir"}, Goto(p, l), pc[p] # "reset",
             UNCHANGED <<prefixVars, scratchVars>>
      PROVE  Isolated(p)'
  <2>1. pc'[p] = l /\ UNCHANGED <<stack, todo, dirs, srcDir, bldDir, makefile>>
    BY <1>2, <1>4 DEF prefixVars, scratchVars
  <2>2. Placed(p)' /\ Gone(p)'
    BY <1>3, <1>4, <2>1 DEF Placed, BeforeUnpacking, OfSource, OfRoot
  <2>3. Fresh(p)'
    BY <1>0, <1>4, <2>1, SameCall DEF Isolated, Fresh, BeforeUnpacking, Empty, Untouched
  <2> QED
    BY <2>2, <2>3 DEF Isolated
<1>5. CASE CheckCache(p) \/ OpenArchive(p) \/ Fetch(p) \/ FetchOther(p)
  BY <1>4, <1>5 DEF CheckCache, Accept, OpenArchive, Fetch, FetchOther, Unnoticed,
                    BeforeUnpacking, home
<1>6. CASE CheckHash(p) \/ Unzstd(p) \/ Unzstded(p) \/ UntarFails(p)
  BY <1>1, <1>4, <1>6 DEF CheckHash, Accept, Abort, Unzstd, Unzstded, UntarFails,
                          BeforeUnpacking, home
<1>7. ASSUME NEW l \in {"reset", "log"}, Goto(p, l), UNCHANGED <<prefixVars, bldDir, makefile>>,
             Pkg(p) \notin Binary, bldDir = {}, makefile = None,
             NEW t \in Tree, srcDir' = {t}, t.pkg = Pkg(p)
      PROVE  Isolated(p)'
  <2>1. pc'[p] = l /\ UNCHANGED <<stack, todo, dirs, bldDir, makefile>>
    BY <1>2, <1>7 DEF prefixVars
  <2>2. Placed(p)' /\ Gone(p)'
    BY <1>3, <1>7, <2>1, SameCall DEF Placed, BeforeUnpacking, OfSource, OfRoot
  <2>3. Fresh(p)'
    BY <1>7, <2>1, SameCall DEF Fresh, BeforeUnpacking, Untouched
  <2> QED
    BY <2>2, <2>3 DEF Isolated
<1>8. CASE UntarSource(p)
  <2>1. Empty /\ Pkg(p) \in Packages
    BY <1>0, <1>8, Typing DEF UntarSource, Isolated, Fresh, BeforeUnpacking, TypeOK
  <2>2. srcDir' = {[pkg |-> Pkg(p), rev |-> "requested"]}
    BY <1>8, <2>1 DEF UntarSource, Verified, Empty
  <2>3. [pkg |-> Pkg(p), rev |-> "requested"] \in Tree
    BY <2>1 DEF Tree, Revisions
  <2> QED
    BY <1>7, <1>8, <2>1, <2>2, <2>3 DEF UntarSource, Empty
<1>9. CASE UntarBinary(p)
  <2>1. pc'[p] = "unpacking" /\ UNCHANGED <<stack, todo, dirs, srcDir, bldDir, makefile>>
    BY <1>2, <1>9 DEF UntarBinary, home, prefixVars, scratchVars
  <2>2. Placed(p)' /\ Gone(p)'
    BY <1>3, <1>9, <2>1, SameCall DEF UntarBinary, Placed, OfSource, OfRoot
  <2>3. Fresh(p)'
    BY <1>9, <2>1, SameCall DEF UntarBinary, Isolated, Fresh, BeforeUnpacking, Empty, Untouched
  <2> QED
    BY <2>2, <2>3 DEF Isolated
<1>10. CASE Clone(p)
  <2>1. Pkg(p) \notin Binary /\ Pkg(p) \in Packages
    BY <1>0, <1>10, Typing, HomeAssumption DEF Clone, TypeOK
  <2>2. bldDir = {} /\ makefile = None
    BY <1>10, <2>1 DEF Clone, Isolated, Fresh, BeforeUnpacking, Empty
  <2>3. CASE srcDir = {}
    <3> DEFINE t == [pkg |-> Pkg(p),
                     rev |-> IF Pkg(p) \in Pinned THEN "tip" ELSE "requested"]
    <3>1. t \in Tree
      BY <2>1 DEF Tree, Revisions
    <3> QED
      BY <1>7, <1>10, <2>1, <2>2, <2>3, <3>1 DEF Clone
  <2>4. CASE srcDir # {}
    BY <1>1, <1>10, <2>4 DEF Clone, Abort
  <2> QED
    BY <2>3, <2>4
<1>12. CASE CloneBinary(p)
  <2>1. CASE Abort(p)
    BY <1>1, <2>1 DEF Abort
  <2>2. CASE ~Abort(p)
    <3>1. pc'[p] = "unpacking" /\ UNCHANGED <<stack, todo, dirs, srcDir, bldDir, makefile>>
      BY <1>2, <1>12, <2>2 DEF CloneBinary, home, prefixVars, scratchVars
    <3>2. Placed(p)' /\ Gone(p)'
      BY <1>3, <1>12, <2>2, <3>1, SameCall DEF CloneBinary, Placed, OfSource, OfRoot
    <3>3. Fresh(p)'
      BY <1>12, <3>1, SameCall DEF CloneBinary, Isolated, Fresh, BeforeUnpacking, Empty,
                                   Untouched
    <3> QED
      BY <3>2, <3>3 DEF Isolated
  <2> QED
    BY <2>1, <2>2
<1>11. CASE Reset(p) \/ ResetFails(p)
  <2>1. Pkg(p) \notin Binary
    BY <1>11 DEF Reset, ResetFails, Unnoticed, Isolated, Placed, OfSource
  <2>2. PICK t \in Tree : srcDir = {t} /\ t.pkg = Pkg(p) /\ bldDir = {} /\ makefile = None
    BY <1>11 DEF Reset, ResetFails, Unnoticed, Isolated, Fresh
  <2>3. srcDir # Absent
    BY <2>2, NotThere
  <2>4. [t EXCEPT !.rev = "requested"] \in Tree
    BY DEF Tree, Revisions
  <2>5. CASE Reset(p)
    <3>1. srcDir' = {[t EXCEPT !.rev = "requested"]}
      BY <2>2, <2>3, <2>5 DEF Reset
    <3>2. [t EXCEPT !.rev = "requested"].pkg = Pkg(p)
      BY <2>2 DEF Tree
    <3> QED
      BY <1>7, <2>1, <2>2, <2>4, <2>5, <3>1, <3>2 DEF Reset
  <2>6. CASE ResetFails(p)
    BY <1>7, <2>1, <2>2, <2>6 DEF ResetFails, home, scratchVars
  <2> QED
    BY <1>11, <2>5, <2>6
<1> QED
  BY <1>5, <1>6, <1>8, <1>9, <1>10, <1>11, <1>12 DEF DownloadStep, DownloadFault

(* Steps that only move on, and steps on one of the two directories.       *)
LEMMA IsolatedScratch ==
  ASSUME TypeOK, NEW p \in Procs, Isolated(p),
         \/ RemovePrefix(p) \/ RemoveSource(p) \/ CreateSource(p) \/ RemoveBuild(p)
         \/ CreateBuild(p) \/ CreateInstallDir(p) \/ CleanSource(p) \/ CleanBuild(p)
  PROVE  Isolated(p)'
<1> USE DEF At
<1>0. pc[p] # "idle" /\ Len(stack[p]) \in Nat \ {0} /\ pc[p] \notin {"verify", "returned"}
  BY Typing DEF RemovePrefix, RemoveSource, CreateSource, RemoveBuild, CreateBuild,
                CreateInstallDir, CleanSource, CleanBuild, TypeOK
<1>1. ASSUME NEW l, Goto(p, l) PROVE pc'[p] = l /\ UNCHANGED <<stack, todo>>
  BY <1>1 DEF Goto, call, TypeOK, CallOK
<1>2. CASE RemovePrefix(p)
  <2> DEFINE l == IF Pkg(p) \in Binary THEN AfterScratch(p) ELSE "wipeSrc"
  <2>1. pc'[p] = l /\ UNCHANGED <<stack, todo, srcDir, bldDir, makefile>> /\ dirs' = dirs \ {Own(p)}
    BY <1>1, <1>2 DEF RemovePrefix, scratchVars
  <2>2. Gone(p)'
    BY <1>0, <2>1, GoneKept DEF Isolated
  <2>3. Placed(p)'
    BY <2>1, SameCall DEF Placed, AfterScratch, OfSource, OfRoot
  <2>4. Fresh(p)'
    BY <1>2, <2>1, SameCall DEF RemovePrefix, Isolated, Fresh, AfterScratch,
                                BeforeUnpacking, Empty, Untouched
  <2> QED
    BY <2>2, <2>3, <2>4 DEF Isolated
<1>3. CASE RemoveSource(p) \/ RemoveBuild(p)
  <2>1. /\ pc'[p] = IF pc[p] = "wipeSrc" THEN "mkSrc" ELSE "mkBld"
        /\ UNCHANGED <<stack, todo, dirs>>
        /\ pc[p] = "wipeSrc" \/ (pc[p] = "wipeBld" /\ UNCHANGED srcDir /\ makefile' = None)
    BY <1>1, <1>3 DEF RemoveSource, RemoveBuild, prefixVars
  <2>2. Gone(p)'
    BY <1>0, <2>1, GoneKept DEF Isolated
  <2>3. Placed(p)' /\ Pkg(p) \notin Binary
    BY <2>1, SameCall DEF Isolated, Placed, OfSource, OfRoot
  <2>4. Fresh(p)'
    BY <2>1, <2>3, SameCall DEF Isolated, Fresh, BeforeUnpacking, Untouched
  <2> QED
    BY <2>2, <2>3, <2>4 DEF Isolated
<1>4. CASE CreateSource(p) \/ CreateBuild(p)
  <2>1. CASE Abort(p)
    BY <2>1, EndIsolated DEF Abort
  <2>2. CASE ~Abort(p)
    <3>1. /\ UNCHANGED <<stack, todo, dirs>>
          /\ \/ pc[p] = "mkSrc" /\ pc'[p] = "wipeBld" /\ srcDir' = {}
             \/ /\ pc[p] = "mkBld" /\ pc'[p] = AfterScratch(p)
                /\ bldDir' = {} /\ UNCHANGED <<srcDir, makefile>>
      BY <1>1, <1>4, <2>2 DEF CreateSource, CreateBuild, prefixVars
    <3>2. Gone(p)'
      BY <1>0, <3>1, GoneKept DEF Isolated
    <3>3. Placed(p)' /\ Pkg(p) \notin Binary
      BY <3>1, SameCall DEF Isolated, Placed, OfSource, OfRoot, AfterScratch
    <3>4. Fresh(p)'
      BY <3>1, <3>3, SameCall DEF Isolated, Fresh, BeforeUnpacking, Untouched,
                                  AfterScratch, Empty
    <3> QED
      BY <3>2, <3>3, <3>4 DEF Isolated
  <2> QED
    BY <2>1, <2>2
<1>5. CASE CreateInstallDir(p)
  <2>1. CASE Abort(p)
    BY <2>1, EndIsolated DEF Abort
  <2>2. CASE ~Abort(p)
    <3>1. pc'[p] = "deps" /\ UNCHANGED <<stack, todo, srcDir, bldDir, makefile>>
      BY <1>1, <1>5, <2>2 DEF CreateInstallDir, scratchVars
    <3>2. pc[p] = "mkdir" /\ ~(Len(stack[p]) > 1)
      BY <1>5 DEF CreateInstallDir, Isolated, Placed, OfRoot, Nested
    <3>3. Gone(p)'
      BY <1>0, <3>1, <3>2 DEF Gone
    <3>4. Placed(p)' /\ Fresh(p)'
      BY <3>1, <3>2, SameCall DEF Isolated, Placed, Fresh, OfSource, OfRoot,
                                  BeforeUnpacking, Untouched, Empty
    <3> QED
      BY <3>3, <3>4 DEF Isolated
  <2> QED
    BY <2>1, <2>2
<1>6. CASE CleanSource(p) \/ CleanBuild(p)
  <2>1. /\ UNCHANGED <<stack, todo, dirs>> /\ pc[p] \in {"cleanSrc", "cleanBld"}
        /\ pc'[p] = IF pc[p] = "cleanSrc" THEN "cleanBld" ELSE "returned"
    BY <1>1, <1>6 DEF CleanSource, CleanBuild, Finish, prefixVars, TypeOK, CallOK
  <2>2. Pkg(p) \notin Binary /\ ~(Len(stack[p]) > 1)
    BY <2>1 DEF Isolated, Placed, OfSource, OfRoot, Nested
  <2>3. Gone(p)' /\ Placed(p)'
    BY <1>0, <2>1, <2>2, SameCall DEF Gone, Placed, OfSource, OfRoot, Nested
  <2>4. ~SourceBelow(p)'
    BY <1>0, <2>1, <2>2 DEF SourceBelow
  <2>5. Fresh(p)'
    BY <2>1, <2>4 DEF Fresh, BeforeUnpacking
  <2> QED
    BY <2>3, <2>5 DEF Isolated
<1> QED
  BY <1>2, <1>3, <1>4, <1>5, <1>6

(* The check, the entries of the prefix, the manifest.                     *)
LEMMA IsolatedManifest ==
  ASSUME TypeOK, NEW p \in Procs, Isolated(p),
         \/ AlreadyInstalled(p) \/ NeedInstall(p) \/ RemoveEntry(p)
         \/ PlaceFile(p) \/ FilesPlaced(p)
         \/ OpenManifest(p) \/ WriteLine(p) \/ CloseManifest(p) \/ LoseTail(p)
  PROVE  Isolated(p)'
<1> USE DEF At
<1>0. pc[p] # "idle" /\ Len(stack[p]) \in Nat \ {0}
  BY Typing DEF AlreadyInstalled, NeedInstall, RemoveEntry, PlaceFile, FilesPlaced,
                OpenManifest, WriteLine, CloseManifest, LoseTail, Unnoticed, TypeOK
<1>1. CASE RemoveEntry(p) \/ PlaceFile(p) \/ WriteLine(p)
  <2>1. UNCHANGED <<pc, stack, todo, dirs, srcDir, bldDir, makefile>>
    BY <1>1 DEF RemoveEntry, PlaceFile, WriteLine, call, scratchVars
  <2> QED
    BY <2>1, SameCall DEF Isolated, Placed, Gone, Fresh, Empty, Untouched
<1>2. CASE AlreadyInstalled(p) \/ NeedInstall(p)
  <2>1. /\ UNCHANGED <<stack, todo, dirs, srcDir, bldDir, makefile>> /\ pc[p] = "verify"
        /\ pc'[p] \in {"returned", "wipe"}
    BY <1>2 DEF AlreadyInstalled, NeedInstall, Goto, call, home, prefixVars,
                scratchVars, TypeOK, CallOK
  <2>2. Gone(p)'
    BY <1>0, <2>1, GoneKept DEF Isolated
  <2>3. Placed(p)' /\ Fresh(p)'
    BY <2>1, SameCall DEF Isolated, Placed, Fresh, OfSource, OfRoot,
                          BeforeUnpacking, Empty, Untouched
  <2> QED
    BY <2>2, <2>3 DEF Isolated
<1>3. CASE FilesPlaced(p)
  <2>1. /\ UNCHANGED <<stack, todo, dirs, srcDir, bldDir, makefile>>
        /\ pc[p] \in {"unpacking", "copying"} /\ pc'[p] = "manifest"
    BY <1>3 DEF FilesPlaced, Goto, call, prefixVars, scratchVars, TypeOK, CallOK
  <2>2. Gone(p)'
    BY <1>0, <2>1, GoneKept DEF Isolated
  <2>3. Placed(p)' /\ Fresh(p)'
    BY <2>1, SameCall DEF Isolated, Placed, Fresh, OfSource, OfRoot,
                          BeforeUnpacking, Empty, Untouched
  <2> QED
    BY <2>2, <2>3 DEF Isolated
<1>4. CASE OpenManifest(p) \/ CloseManifest(p) \/ LoseTail(p)
  <2>1. CASE Abort(p)
    BY <2>1, EndIsolated DEF Abort
  <2>2. CASE ~Abort(p)
    <3>1. /\ UNCHANGED <<stack, todo, dirs, srcDir, bldDir, makefile>>
          /\ pc[p] \in {"manifest", "lines"}
          /\ \/ pc'[p] = AfterManifest(p)
             \/ pc'[p] = "lines" /\ ~Nested(p)
      BY <1>4, <2>2 DEF OpenManifest, CloseManifest, LoseTail, Unnoticed, Goto, Finish,
                        call, home, prefixVars, scratchVars, TypeOK, CallOK
    <3>2. Nested(p) => Pkg(p) \in Binary
      BY <3>1 DEF Isolated, Placed, OfRoot
    <3>3. Gone(p)'
      <4>1. CASE Pkg(p) \in Binary
        BY <1>0, <3>1, <4>1, GoneKept DEF Isolated
      <4>2. CASE ~Nested(p)
        BY <1>0, <3>1, <4>2 DEF Gone, Nested
      <4> QED
        BY <3>2, <4>1, <4>2
    <3>4. Placed(p)'
      BY <3>1, <3>2, SameCall DEF Placed, OfSource, OfRoot, AfterManifest
    <3>5. Fresh(p)'
      <4>1. ~Nested(p) => ~SourceBelow(p)
        BY <1>0 DEF Nested, SourceBelow
      <4> QED
        BY <3>1, <3>2, <4>1, SameCall DEF Isolated, Fresh, BeforeUnpacking, Empty,
           Untouched, AfterManifest
    <3> QED
      BY <3>3, <3>4, <3>5 DEF Isolated
  <2> QED
    BY <2>1, <2>2
<1> QED
  BY <1>1, <1>2, <1>3, <1>4

(* The dependencies and the build.                                         *)
LEMMA IsolatedBuild ==
  ASSUME TypeOK, NEW p \in Procs, Isolated(p),
         \/ UnknownDependency(p) \/ DependenciesInstalled(p) \/ SkipDependencies(p)
         \/ OpenLog(p) \/ Configure(p) \/ Make(p) \/ MakeInstall(p)
         \/ MakeFails(p) \/ TargetGone(p)
  PROVE  Isolated(p)'
<1> USE DEF At
<1>0. pc[p] # "idle" /\ Len(stack[p]) \in Nat \ {0}
  BY Typing DEF UnknownDependency, DependenciesInstalled, SkipDependencies, OpenLog,
                Configure, Make, MakeInstall, MakeFails, TargetGone, Unnoticed, TypeOK
<1>1. CASE Abort(p)
  BY <1>1, EndIsolated DEF Abort
<1>2. CASE DependenciesInstalled(p) \/ SkipDependencies(p)
  <2>1. /\ UNCHANGED <<stack, todo, dirs, srcDir, bldDir, makefile>>
        /\ pc[p] = "deps" /\ pc'[p] = "download"
    BY <1>2 DEF DependenciesInstalled, SkipDependencies, Unnoticed, Goto, call, home,
                prefixVars, scratchVars, TypeOK, CallOK
  <2>2. Gone(p)'
    BY <1>0, <2>1, GoneKept DEF Isolated
  <2>3. Placed(p)' /\ Fresh(p)'
    BY <2>1, SameCall DEF Isolated, Placed, Fresh, OfSource, OfRoot,
                          BeforeUnpacking, Empty, Untouched
  <2> QED
    BY <2>2, <2>3 DEF Isolated
<1>3. CASE ~Abort(p) /\ (OpenLog(p) \/ Configure(p) \/ Make(p) \/ MakeInstall(p))
  <2>1. /\ UNCHANGED <<stack, todo, srcDir>>
        /\ pc[p] \in {"log", "configure", "make", "install"}
        /\ pc'[p] = CASE pc[p] = "log" -> "configure" [] pc[p] = "configure" -> "make"
                      [] pc[p] = "make" -> "install" [] pc[p] = "install" -> "copying"
        /\ pc[p] = "log" => Own(p) \in dirs /\ UNCHANGED <<bldDir, makefile>>
        /\ pc[p] # "install" => UNCHANGED dirs
    BY <1>3 DEF OpenLog, Configure, Make, MakeInstall, Goto, call, home, prefixVars,
                scratchVars, TypeOK, CallOK
  <2>2. Pkg(p) \notin Binary
    BY <2>1 DEF Isolated, Placed, OfSource
  <2>3. ~Nested(p)
    <3>1. CASE pc[p] # "log"
      BY <2>1, <3>1 DEF Isolated, Placed, OfRoot
    <3>2. CASE pc[p] = "log" /\ Nested(p)
      <4>1. Len(stack[p]) \in 2..Len(stack[p])
        BY <1>0, <3>2 DEF Nested
      <4>2. Own(p) \notin dirs
        BY <2>2, <3>2, <4>1 DEF Isolated, Gone, Own, Pkg, Top
      <4> QED
        BY <2>1, <3>2, <4>2
    <3> QED
      BY <3>1, <3>2
  <2>4. Gone(p)' /\ ~SourceBelow(p)'
    BY <1>0, <2>1, <2>3 DEF Gone, Nested, SourceBelow
  <2>5. Placed(p)'
    BY <2>1, <2>2, <2>3, SameCall DEF Placed, OfSource, OfRoot
  <2>6. Fresh(p)'
    BY <2>1, <2>4, SameCall DEF Isolated, Fresh, BeforeUnpacking
  <2> QED
    BY <2>4, <2>5, <2>6 DEF Isolated
<1> QED
  BY <1>1, <1>2, <1>3 DEF UnknownDependency, OpenLog, Configure, Make, MakeInstall,
                         MakeFails, TargetGone

(* Calls of install begin and end.                                         *)
LEMMA IsolatedCall ==
  ASSUME TypeOK, NEW p \in Procs, Isolated(p), InstallDependency(p)
  PROVE  Isolated(p)'
<1> USE DEF At
<1> DEFINE n == Len(stack[p])
           d == Dependencies(p)[Top(p).dep]
<1>0. /\ pc[p] = "deps" /\ n \in Nat \ {0} /\ stack[p] \in Seq(Frame)
      /\ d \in Packages
  BY Typing DEF InstallDependency, TypeOK
<1>1. /\ pc'[p] = "verify" /\ UNCHANGED <<todo, dirs, srcDir, bldDir, makefile>>
      /\ stack'[p] = Append(NextDependency(stack[p]), [pkg |-> d, dep |-> 1])
  BY DEF InstallDependency, home, prefixVars, scratchVars, TypeOK, CallOK
<1>2. Len(NextDependency(stack[p])) = n
  BY <1>0 DEF NextDependency
<1>3. \A k \in 1..n : NextDependency(stack[p])[k].pkg = stack[p][k].pkg
  BY <1>0 DEF NextDependency, Frame
<1>4. NextDependency(stack[p]) \in Seq(Frame) /\ [pkg |-> d, dep |-> 1] \in Frame
  <2>1. [pkg |-> stack[p][n].pkg, dep |-> stack[p][n].dep + 1] \in Frame
    <3>1. stack[p][n] \in Frame
      BY <1>0
    <3> HIDE DEF n
    <3> QED
      BY <3>1 DEF Frame
  <2> QED
    BY <1>0, <2>1 DEF NextDependency, Frame
<1>5. /\ Len(stack'[p]) = n + 1
      /\ \A k \in 1..n : stack'[p][k].pkg = stack[p][k].pkg
      /\ stack'[p][n + 1].pkg = d
  <2> DEFINE t == NextDependency(stack[p])
             new == [pkg |-> d, dep |-> 1]
  <2>1. /\ Len(Append(t, new)) = Len(t) + 1
        /\ \A k \in 1..Len(t) : Append(t, new)[k] = t[k]
        /\ Append(t, new)[Len(t) + 1] = new
    BY <1>4
  <2> HIDE DEF t, d, n
  <2> QED
    BY <1>1, <1>2, <1>3, <2>1 DEF t
<1> HIDE DEF n
<1>6. Placed(p)'
  BY <1>1 DEF Placed, OfSource, OfRoot
<1>7. Gone(p)'
  <2> SUFFICES ASSUME NEW k \in 2..(n + 1), stack'[p][k].pkg \notin Binary, k < n + 1
               PROVE  PrefixOf(stack'[p][k].pkg, Head(todo[p])) \notin dirs
    BY <1>1, <1>5 DEF Gone
  <2>1. k \in 2..n /\ k \in 1..n
    BY <1>0
  <2> QED
    BY <1>0, <1>5, <2>1 DEF Isolated, Gone, n
<1>8. SourceBelow(p)' => Empty
  <2> SUFFICES ASSUME SourceBelow(p)' PROVE Empty
    OBVIOUS
  <2>0. PICK k \in 1..n : stack[p][k].pkg \notin Binary
    <3>1. PICK k \in 1..(Len(stack'[p]) - 1) : stack'[p][k].pkg \notin Binary
      BY DEF SourceBelow
    <3>2. Len(stack'[p]) - 1 = n
      BY <1>0, <1>5
    <3> QED
      BY <1>5, <3>1, <3>2
  <2>1. CASE k = n
    BY <1>0, <2>0, <2>1 DEF Isolated, Fresh, BeforeUnpacking, Pkg, Top, n
  <2>2. CASE k # n
    <3>1. k \in 1..(n - 1)
      BY <1>0, <2>2
    <3>2. SourceBelow(p)
      BY <2>0, <3>1 DEF SourceBelow, n
    <3> QED
      BY <1>0, <3>2 DEF Isolated, Fresh, BeforeUnpacking, Untouched
  <2> QED
    BY <2>1, <2>2
<1>9. Fresh(p)'
  BY <1>1, <1>8 DEF Fresh, BeforeUnpacking, Empty
<1> QED
  BY <1>6, <1>7, <1>9 DEF Isolated

LEMMA IsolatedReturn ==
  ASSUME TypeOK, NEW p \in Procs, Isolated(p), Return(p)
  PROVE  Isolated(p)'
<1> USE DEF At
<1> DEFINE n == Len(stack[p])
<1>0. /\ pc[p] = "returned" /\ n \in Nat \ {0} /\ stack[p] \in Seq(Frame)
      /\ UNCHANGED <<dirs, srcDir, bldDir, makefile>>
  BY Typing DEF Return, TypeOK, home, prefixVars, scratchVars
<1>1. CASE Nested(p) /\ todo' = todo /\ pc'[p] = "deps"
           /\ stack'[p] = SubSeq(stack[p], 1, n - 1)
  <2>1. n - 1 \in Nat /\ n > 1
    BY <1>0, <1>1 DEF Nested
  <2>2. /\ Len(stack'[p]) = n - 1
        /\ \A k \in 1..(n - 1) : stack'[p][k] = stack[p][k]
    BY <1>0, <1>1, <2>1
  <2> HIDE DEF n
  <2>3. Pkg(p)' = stack[p][n - 1].pkg
    <3>1. Pkg(p)' = stack'[p][Len(stack'[p])].pkg
      BY DEF Pkg, Top
    <3>2. n - 1 \in 1..(n - 1)
      BY <1>0, <2>1
    <3> QED
      BY <2>2, <3>1, <3>2
  <2>4. Placed(p)'
    BY <1>1 DEF Placed, OfSource, OfRoot
  <2>5. Gone(p)'
    BY <1>0, <1>1, <2>1, <2>2 DEF Isolated, Gone, n
  <2>6. Pkg(p)' \notin Binary => Empty
    <3>1. Pkg(p)' \notin Binary => SourceBelow(p)
      BY <1>0, <2>1, <2>3 DEF SourceBelow, n
    <3> QED
      BY <1>0, <3>1 DEF Isolated, Fresh, Untouched
  <2>7. SourceBelow(p)' => Empty
    <3>1. SourceBelow(p)' => SourceBelow(p)
      BY <1>0, <2>1, <2>2 DEF SourceBelow, n
    <3> QED
      BY <1>0, <3>1 DEF Isolated, Fresh, Untouched
  <2>8. Fresh(p)'
    BY <1>0, <1>1, <2>6, <2>7 DEF Fresh, BeforeUnpacking, Empty
  <2> QED
    BY <2>4, <2>5, <2>8 DEF Isolated
<1>2. CASE pc'[p] = "verify" /\ Len(stack'[p]) = 1
  <2>1. Placed(p)' /\ Gone(p)' /\ ~SourceBelow(p)'
    BY <1>2 DEF Placed, OfSource, OfRoot, Gone, SourceBelow
  <2> QED
    BY <1>2, <2>1 DEF Isolated, Fresh, BeforeUnpacking
<1>3. CASE End(p, "ok")
  BY <1>3, EndIsolated
<1> QED
  BY <1>1, <1>2, <1>3 DEF Return, TypeOK, CallOK

LEMMA IsolatedInvoke ==
  ASSUME TypeOK, NEW p \in Procs, NEW pkg \in Requests[p], Invoke(p, pkg)
  PROVE  Isolated(p)'
<1>1. pc'[p] = "verify" /\ Len(stack'[p]) = 1
  BY DEF Invoke, TypeOK, CallOK
<1>2. Placed(p)' /\ Gone(p)' /\ ~SourceBelow(p)'
  BY <1>1 DEF Placed, OfSource, OfRoot, Gone, SourceBelow
<1> QED
  BY <1>1, <1>2 DEF Isolated, Fresh, BeforeUnpacking

LEMMA IsolatedStep ==
  ASSUME TypeOK, NEW p \in Procs, Verified(p), Isolated(p),
         \/ Acts(p) \/ UNCHANGED vars
         \/ \E x \in Prefixes, f \in Rotting : Rot(x, f)
  PROVE  Isolated(p)'
<1>1. CASE UNCHANGED vars \/ \E x \in Prefixes, f \in Rotting : Rot(x, f)
  <2>1. UNCHANGED <<pc, stack, todo, dirs, srcDir, bldDir, makefile>>
    BY <1>1 DEF vars, home, prefixVars, scratchVars, call, Rot
  <2> QED
    BY <2>1, SameCall DEF Isolated, Placed, Gone, Fresh, Empty, Untouched
<1>2. CASE Acts(p)
  <2>1. CASE Fails(p) \/ Crash(p)
    BY <2>1, EndIsolated DEF Fails, Crash, Abort
  <2> QED
    BY <1>2, <2>1, IsolatedInvoke, IsolatedDownload, IsolatedScratch, IsolatedManifest,
       IsolatedBuild, IsolatedCall, IsolatedReturn
       DEF Acts, Step, InstallStep, InstallFault
<1> QED
  BY <1>1, <1>2

(* A build starts from the sources of its own package and from nothing     *)
(* else, whatever was aborted or killed before and whatever dependencies   *)
(* are installed in the middle of it.                                      *)
THEOREM BuildsAreIsolated == Solo => (Spec => []BuildIsolated)
<1> SUFFICES ASSUME Solo PROVE Spec => []BuildIsolated
  OBVIOUS
<1> DEFINE IInv == \A p \in Procs : Verified(p) /\ Isolated(p)
<1>1. Init => IInv
  <2> SUFFICES ASSUME Init, NEW p \in Procs PROVE Verified(p) /\ Isolated(p)
    OBVIOUS
  <2>1. pc[p] = "idle" /\ stack[p] = <<>>
    BY DEF Init
  <2>2. Len(stack[p]) = 0
    BY <2>1
  <2> QED
    BY <2>1, <2>2 DEF Verified, Isolated, Placed, Gone, Fresh, SourceBelow, OfSource,
                      OfRoot, BeforeUnpacking
<1>2. TypeOK /\ IInv /\ [Next]_vars => IInv'
  BY SoloStep, VerifiedStep, IsolatedStep DEF vars, home, Rot
<1>3. IInv => BuildIsolated
  <2> SUFFICES ASSUME IInv, NEW p \in Procs, At(p, "configure")
               PROVE  /\ bldDir = {} /\ makefile = None
                      /\ srcDir # Absent /\ \A t \in srcDir : t.pkg = Pkg(p)
    BY DEF BuildIsolated
  <2>1. PICK t \in Tree : srcDir = {t} /\ t.pkg = Pkg(p) /\ bldDir = {} /\ makefile = None
    BY DEF At, Isolated, Fresh
  <2> QED
    BY <2>1, NotThere
<1> QED
  BY <1>1, <1>2, <1>3, TypeCorrect, PTL DEF Spec
=============================================================================
