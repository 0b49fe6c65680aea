------------------------------ MODULE Download ------------------------------
(***************************************************************************)
(* downloadPackageFiles of src/main.cpp: the archive cache in distr/,  *)
(* wget, the SHA3 check, the unpackers and git.  Archives are named by the *)
(* last component of the URL, so two packages may share a cache entry.     *)
(***************************************************************************)
EXTENDS Home

(* A download is accepted: on to the unpacker its suffix selects.          *)
Accept(p) == Goto(p, IF Pkg(p) \in Zst THEN "unzstd" ELSE "untar")

(* Mutated form of CheckCache: a file of the right name is good enough.    *)
CheckCacheByName(p) ==
  /\ At(p, "download") /\ Pkg(p) \notin Git
  /\ \/ distr[Archive(p)] # None /\ Accept(p)
     \/ distr[Archive(p)] = None /\ Goto(p, "wget")
  /\ UNCHANGED <<home, left, faults>>

(* Presence and hash of the cached archive; a mismatch is deleted.         *)
CheckCache(p) ==
  /\ At(p, "download") /\ Pkg(p) \notin Git
  /\ \/ /\ distr[Archive(p)] = Pkg(p)
        /\ Accept(p) /\ UNCHANGED distr
     \/ /\ distr[Archive(p)] # Pkg(p)
        /\ distr' = [distr EXCEPT ![Archive(p)] = None]
        /\ Goto(p, "wget")
  /\ UNCHANGED <<prefixVars, scratchVars, tmp, left, faults>>

(* wget -O creates or truncates the archive before it receives anything.   *)
OpenArchive(p) ==
  /\ At(p, "wget") /\ Goto(p, "wgetting")
  /\ distr' = [distr EXCEPT ![Archive(p)] = Garbage]
  /\ UNCHANGED <<prefixVars, scratchVars, tmp, left, faults>>

Fetch(p) ==
  /\ At(p, "wgetting") /\ Goto(p, "hash")
  /\ distr' = [distr EXCEPT ![Archive(p)] = Pkg(p)]
  /\ UNCHANGED <<prefixVars, scratchVars, tmp, left, faults>>

(* wget succeeds, but what it wrote is not what the recipe expects.        *)
FetchOther(p) ==
  /\ Unnoticed(p, "wgetting") /\ Goto(p, "hash")
  /\ UNCHANGED <<home, left>>

(* Mutated form of CheckHash: the downloaded file is not checked.          *)
CheckHashNever(p) ==
  At(p, "hash") /\ Accept(p) /\ UNCHANGED <<home, left, faults>>

(* The file that fails the check stays in distr/.                          *)
CheckHash(p) ==
  /\ At(p, "hash")
  /\ \/ distr[Archive(p)] = Pkg(p) /\ Accept(p) /\ UNCHANGED left
     \/ distr[Archive(p)] # Pkg(p) /\ Abort(p)
  /\ UNCHANGED <<home, faults>>

(* Mutated form of Unzstd: the file in the way is left there on failure.   *)
UnzstdKeepsTmp(p) ==
  /\ At(p, "unzstd")
  /\ \/ /\ tmp' = [tmp EXCEPT ![Archive(p)] = Garbage]
        /\ Goto(p, "unzstding") /\ UNCHANGED left
     \/ tmp[Archive(p)] # None /\ UNCHANGED tmp /\ Abort(p)
  /\ UNCHANGED <<prefixVars, scratchVars, distr, faults>>

(* unzstd -o tmp-...: it asks before it overwrites an existing file; if    *)
(* the answer is no, or there is nobody to answer, it fails, and the       *)
(* caller removes the file.                                                *)
Unzstd(p) ==
  /\ At(p, "unzstd")
  /\ \/ /\ tmp' = [tmp EXCEPT ![Archive(p)] = Garbage]
        /\ Goto(p, "unzstding") /\ UNCHANGED left
     \/ /\ tmp[Archive(p)] # None
        /\ tmp' = [tmp EXCEPT ![Archive(p)] = None]
        /\ Abort(p)
  /\ UNCHANGED <<prefixVars, scratchVars, distr, faults>>

Unzstded(p) ==
  /\ At(p, "unzstding")
  /\ \/ /\ distr[Archive(p)] \in Packages
        /\ tmp' = [tmp EXCEPT ![Archive(p)] = distr[Archive(p)]]
        /\ Goto(p, "untar") /\ UNCHANGED left
     \/ /\ distr[Archive(p)] \notin Packages
        /\ tmp' = [tmp EXCEPT ![Archive(p)] = None]
        /\ Abort(p)
  /\ UNCHANGED <<prefixVars, scratchVars, distr, faults>>

(* What tar reads, and tmp after the unpacker has returned: the code       *)
(* removes the decompressed file on success and on failure.                *)
TarInput(p) == IF Pkg(p) \in Zst THEN tmp[Archive(p)] ELSE distr[Archive(p)]
TmpRemoved(p) ==
  tmp' = IF Pkg(p) \in Zst THEN [tmp EXCEPT ![Archive(p)] = None] ELSE tmp

Unpackable(p) ==
  /\ TarInput(p) \in Packages
  /\ IF Pkg(p) \in Binary THEN Dest(p) \in dirs ELSE srcDir # Absent

(* Sources go to .s, read later as a whole; their unpacking is one step.   *)
UntarSource(p) ==
  /\ At(p, "untar") /\ Pkg(p) \notin Binary /\ Unpackable(p)
  /\ srcDir' = srcDir \cup {[pkg |-> TarInput(p), rev |-> "requested"]}
  /\ TmpRemoved(p) /\ Goto(p, "log")
  /\ UNCHANGED <<prefixVars, bldDir, makefile, inBld, distr, left, faults>>

(* Binaries go straight to the install directory of the root call, file by *)
(* file (PlaceFile).                                                       *)
UntarBinary(p) ==
  /\ At(p, "untar") /\ Pkg(p) \in Binary /\ Unpackable(p)
  /\ left' = [left EXCEPT ![p] =
                FilesOf[TarInput(p)] \X {Wanted(TarInput(p), "any")}]
  /\ Goto(p, "unpacking")
  /\ UNCHANGED <<home, faults>>

UntarFails(p) ==
  /\ At(p, "untar") /\ ~Unpackable(p)
  /\ TmpRemoved(p) /\ Abort(p)
  /\ UNCHANGED <<prefixVars, scratchVars, distr, faults>>

(* Mutated form of Clone: COMMIT is never reset to.                        *)
CloneOnly(p) ==
  /\ At(p, "download") /\ Pkg(p) \in Git \ Binary /\ srcDir = {}
  /\ srcDir' = {[pkg |-> Pkg(p),
                 rev |-> IF Pkg(p) \in Pinned THEN "tip" ELSE "requested"]}
  /\ Goto(p, "log")
  /\ UNCHANGED <<prefixVars, bldDir, makefile, inBld, distrVars, left, faults>>

(* git clone url . [-b tag] refuses a directory that is not empty.         *)
Clone(p) ==
  /\ At(p, "download") /\ Pkg(p) \in Git \ Binary
  /\ \/ /\ srcDir = {} /\ UNCHANGED left
        /\ srcDir' = {[pkg |-> Pkg(p),
                       rev |-> IF Pkg(p) \in Pinned THEN "tip" ELSE "requested"]}
        /\ Goto(p, IF Pkg(p) \in Pinned THEN "reset" ELSE "log")
     \/ srcDir # {} /\ Abort(p) /\ UNCHANGED srcDir
  /\ UNCHANGED <<prefixVars, bldDir, makefile, inBld, distrVars, faults>>

(* A binary package is cloned into the install directory of the root call; *)
(* neither TAG nor COMMIT is read for it.                                  *)
CloneBinary(p) ==
  /\ At(p, "download") /\ Pkg(p) \in Git \cap Binary
  /\ \/ /\ Dest(p) \in dirs /\ \A f \in Files : files[Dest(p)][f] = None
        /\ left' = [left EXCEPT ![p] = FilesOf[Pkg(p)] \X {Wanted(Pkg(p), "any")}]
        /\ Goto(p, "unpacking")
     \/ /\ Dest(p) \notin dirs \/ \E f \in Files : files[Dest(p)][f] # None
        /\ Abort(p)
  /\ UNCHANGED <<home, faults>>

(* git reset --hard commit.                                                *)
Reset(p) ==
  /\ At(p, "reset") /\ Goto(p, "log")
  /\ srcDir' = IF srcDir = Absent THEN Absent
               ELSE {IF t.pkg = Pkg(p) THEN [t EXCEPT !.rev = "requested"] ELSE t
                     : t \in srcDir}
  /\ UNCHANGED <<prefixVars, bldDir, makefile, inBld, distrVars, left, faults>>

(* Its failure is printed and the installation goes on.                    *)
ResetFails(p) ==
  /\ Unnoticed(p, "reset") /\ Goto(p, "log")
  /\ UNCHANGED <<home, left>>

DownloadStep(p) ==
  \/ CheckCache(p) \/ OpenArchive(p) \/ Fetch(p) \/ CheckHash(p)
  \/ Unzstd(p) \/ Unzstded(p)
  \/ UntarSource(p) \/ UntarBinary(p) \/ UntarFails(p)
  \/ Clone(p) \/ CloneBinary(p) \/ Reset(p)

DownloadFault(p) == FetchOther(p) \/ ResetFails(p)
=============================================================================
