----------------------------- MODULE PluginStore ----------------------------
(***************************************************************************)
(* The store of plugin artifacts and what is deployed from it:             *)
(* plugins/orchestrator/installer.ts, plugins/orchestrator/                *)
(* staging-runtime.ts and src/server/plugin-asset-routes.ts, for one       *)
(* plugin.                                                                 *)
(*                                                                         *)
(* Each version has a directory.  An install extracts the artifact there   *)
(* under a temporary name, removes what an earlier attempt has left, moves *)
(* the new tree into place and then writes verified.json, which is what    *)
(* makes the version count.  The name is of the process and the            *)
(* millisecond, so that installs in one process may work under one name.   *)
(* Nothing locks the directory: installs, in one process or in several,    *)
(* and requests for assets, which look the versions up one file after the  *)
(* other, take their steps in any order, and a process may end between any *)
(* two of them.  Staging and production are records in memory.             *)
(***************************************************************************)
EXTENDS Integers, Sequences, FiniteSets, FiniteSetsExt, SequencesExt

CONSTANTS
    Versions,      \* numbers, in the order of compareVersionsDescending
    Artifacts,     \* [version, build]; there may be two builds of a version
    Installers,
    Readers,       \* requests for an asset
    Starts,        \* [have, installs, acts]: what is installed, and bounds
    MaxRetained,   \* three, in the code
    MaxFaults,     \* bound on processes that end during an install
    None, Torn

Checks  == {"none", "passed", "failed"}
Records == [version : Versions, checks : Checks]

ASSUME StoreAssumption ==
    /\ Versions \subseteq Nat /\ IsFiniteSet(Versions)
    /\ \A a \in Artifacts : a.version \in Versions
    /\ \A s \in Starts : s.have \subseteq Artifacts /\ s.installs \in Nat /\ s.acts \in Nat
    /\ MaxRetained \in Nat \ {0} /\ MaxFaults \in Nat
    /\ None \notin Artifacts \cup Records /\ Torn \notin Artifacts

VARIABLES
    tree,         \* extracted/: [of, whole], what it was extracted from
    meta,         \* verified.json
    disabled,     \* versions with a disabled.json
    inst,         \* what each install is at, and what has been unpacked under its name
    req,          \* what each request is at
    staging, active, retained,
    left,         \* installs and acts that are left
    faults,
    overlapped,   \* versions that two installs were at once putting there
    asked,        \* artifacts that were to be installed
    past          \* what has been in production, before now

disk    == <<tree, meta, disabled>>
deploy  == <<staging, active, retained, past>>
history == <<overlapped, asked>>
vars    == <<tree, meta, disabled, inst, req, staging, active, retained, left, faults,
             overlapped, asked, past>>

NoTree == [of |-> None, whole |-> FALSE]

Init ==
    \E s \in Starts :
        /\ tree = [v \in Versions |->
                     IF \E a \in s.have : a.version = v
                     THEN [of |-> CHOOSE a \in s.have : a.version = v, whole |-> TRUE]
                     ELSE NoTree]
        /\ meta = [v \in Versions |-> tree[v].of]
        /\ disabled = {}
        /\ inst = [i \in Installers |-> [pc |-> "rest", artifact |-> None, shared |-> FALSE,
                                        from |-> {}]]
        /\ req = [r \in Readers |-> [pc |-> "rest"]]
        /\ staging = None /\ active = None /\ retained = <<>>
        /\ left = [installs |-> s.installs, acts |-> s.acts]
        /\ faults = 0
        /\ overlapped = {} /\ asked = s.have
        /\ past = <<>>

-----------------------------------------------------------------------------
(* An install.                                                             *)

Version(i)  == inst[i].artifact.version
At(i, step) == inst[i].pc = step
Go(i, step) == inst' = [inst EXCEPT ![i].pc = step]

Unpacking == {"extract", "remove", "rename"}
Putting   == Unpacking \cup {"verified", "write"}

\* Other installs of the version that i installs.
Others(i, steps) ==
    {j \in Installers \ {i} : inst[j].pc \in steps /\ Version(j) = Version(i)}

Start(i, a) ==
    /\ At(i, "rest") /\ left.installs > 0
    /\ inst' = [inst EXCEPT ![i] = [pc |-> "download", artifact |-> a, shared |-> FALSE,
                                    from |-> {a}]]
    /\ left' = [left EXCEPT !.installs = @ - 1]
    /\ asked' = asked \cup {a}
    /\ UNCHANGED <<disk, req, deploy, faults, overlapped>>

(* Any step may fail for a reason of its own: the download, its digest or  *)
(* signature, an unsafe path in it, a manifest that is not valid.          *)
Download(i) ==
    /\ At(i, "download")
    /\ Go(i, "look") \/ Go(i, "rest")
    /\ UNCHANGED <<disk, req, deploy, left, faults, history>>

(* The temporary name is that of others that have just taken theirs, in    *)
(* the same process, or a new one.                                         *)
Unpack(i) ==
    /\ \E with \in SUBSET Others(i, Unpacking) :
          LET from == UNION {inst[j].from : j \in with \cup {i}}
          IN  inst' = [j \in Installers |->
                         IF j = i
                         THEN [inst[i] EXCEPT !.pc = "extract", !.shared = with # {}, !.from = from]
                         ELSE IF j \in with THEN [inst[j] EXCEPT !.shared = TRUE, !.from = from]
                         ELSE inst[j]]
    /\ overlapped' = IF Others(i, Putting) = {} THEN overlapped
                     ELSE overlapped \cup {Version(i)}

(* Faulty Look: an install that is there already is done again.            *)
FaultyLook(i) ==
    /\ At(i, "look")
    /\ Unpack(i)
    /\ UNCHANGED <<disk, req, deploy, left, faults, asked>>

(* getExistingVerifiedInstall: what is verified is not replaced, a file    *)
(* that is not JSON stops the install.                                     *)
Look(i) ==
    /\ At(i, "look")
    /\ \/ meta[Version(i)] = None /\ Unpack(i)
       \/ /\ meta[Version(i)] # None
          /\ Go(i, IF meta[Version(i)] = inst[i].artifact THEN "manifest" ELSE "rest")
          /\ UNCHANGED overlapped
    /\ UNCHANGED <<disk, req, deploy, left, faults, asked>>

ReadManifest(i) ==
    /\ At(i, "manifest")
    /\ Go(i, "rest")
    /\ UNCHANGED <<disk, req, deploy, left, faults, history>>

Extract(i) ==
    /\ At(i, "extract")
    /\ Go(i, "remove") \/ Go(i, "rest")
    /\ UNCHANGED <<disk, req, deploy, left, faults, history>>

(* The old tree is removed file by file.                                   *)
RemoveSome(i) ==
    /\ At(i, "remove") /\ tree[Version(i)].whole
    /\ tree' = [tree EXCEPT ![Version(i)].whole = FALSE]
    /\ UNCHANGED <<meta, disabled, inst, req, deploy, left, faults, history>>

RemoveAll(i) ==
    /\ At(i, "remove")
    /\ tree' = [tree EXCEPT ![Version(i)] = NoTree]
    /\ Go(i, "rename")
    /\ UNCHANGED <<meta, disabled, req, deploy, left, faults, history>>

(* A directory into which another install moves its tree cannot be removed.*)
RemoveFails(i) ==
    /\ At(i, "remove")
    /\ Go(i, "rest")
    /\ UNCHANGED <<disk, req, deploy, left, faults, history>>

(* What several installs have unpacked under one name, removing each       *)
(* other's files, may be of any of them and may lack some.                 *)
Unpacked(i) ==
    IF inst[i].shared THEN [of : inst[i].from, whole : BOOLEAN]
    ELSE {[of |-> inst[i].artifact, whole |-> TRUE]}

(* A directory takes the place of another only if that one is empty.       *)
Rename(i) ==
    /\ At(i, "rename") /\ ~tree[Version(i)].whole
    /\ \E new \in Unpacked(i) : tree' = [tree EXCEPT ![Version(i)] = new]
    /\ Go(i, "verified")
    /\ UNCHANGED <<meta, disabled, req, deploy, left, faults, history>>

(* Or another has moved or removed what was unpacked under the name.       *)
RenameFails(i) ==
    /\ At(i, "rename") /\ (tree[Version(i)].of # None \/ inst[i].shared)
    /\ Go(i, "rest")
    /\ UNCHANGED <<disk, req, deploy, left, faults, history>>

(* writeFile: the file is there before its contents are.                   *)
OpenVerified(i) ==
    /\ At(i, "verified")
    /\ meta' = [meta EXCEPT ![Version(i)] = Torn]
    /\ Go(i, "write")
    /\ UNCHANGED <<tree, disabled, req, deploy, left, faults, history>>

WriteVerified(i) ==
    /\ At(i, "write")
    /\ meta' = [meta EXCEPT ![Version(i)] = inst[i].artifact]
    /\ Go(i, "rest")
    /\ UNCHANGED <<tree, disabled, req, deploy, left, faults, history>>

Crash(i) ==
    /\ ~At(i, "rest") /\ faults < MaxFaults
    /\ faults' = faults + 1
    /\ Go(i, "rest")
    /\ UNCHANGED <<disk, req, deploy, left, history>>

Install(i) ==
    \/ \E a \in Artifacts : Start(i, a)
    \/ Download(i) \/ Look(i) \/ ReadManifest(i) \/ Extract(i)
    \/ RemoveSome(i) \/ RemoveAll(i) \/ RemoveFails(i) \/ Rename(i) \/ RenameFails(i)
    \/ OpenVerified(i) \/ WriteVerified(i) \/ Crash(i)

-----------------------------------------------------------------------------
(* A request for an asset of a version: discoverInstalledPlugins, then the *)
(* file.                                                                   *)

Act == left.acts > 0 /\ left' = [left EXCEPT !.acts = @ - 1]

Verified == {v \in Versions : meta[v] \in Artifacts}

Request(r, v) ==
    /\ req[r].pc = "rest" /\ Act
    /\ req' = [req EXCEPT ![r] =
                 [pc |-> "verified", version |-> v, todo |-> Versions, found |-> {},
                  off |-> {}, known |-> Verified, always |-> disabled, sent |-> None]]
    /\ UNCHANGED <<disk, inst, deploy, faults, history>>

(* verified.json of the next version, in the order of their names.  Files  *)
(* that are missing or are not JSON are reported and passed over.          *)
ReadVerified(r) ==
    LET v == Min(req[r].todo)
    IN  /\ req[r].pc = "verified" /\ req[r].todo # {}
        /\ req' = IF meta[v] \in Artifacts THEN [req EXCEPT ![r].pc = "manifest"]
                  ELSE [req EXCEPT ![r].todo = @ \ {v}]
        /\ UNCHANGED <<disk, inst, deploy, left, faults, history>>

(* plugin.json, which a tree that is being removed may still have.         *)
ReadPlugin(r) ==
    LET v == Min(req[r].todo)
    IN  /\ req[r].pc = "manifest"
        /\ \E there \in BOOLEAN :
              /\ there => tree[v].of # None
              /\ tree[v].whole => there
              /\ req' = [req EXCEPT ![r].pc = "verified", ![r].todo = @ \ {v},
                            ![r].found = IF there THEN @ \cup {v} ELSE @,
                            ![r].off = IF v \in disabled THEN @ \cup {v} ELSE @]
        /\ UNCHANGED <<disk, inst, deploy, left, faults, history>>

(* Faulty Selected: the lowest version is selected.                        *)
LowestSelected(found) == IF found = {} THEN {} ELSE {Min(found)}

(* compareVersionsDescending, which is not the order of semantic versions: *)
(* it takes 1.0.0-rc.1 for newer than 1.0.0.                               *)
Newest(found) == Max(found)

Selected(found) == IF found = {} THEN {} ELSE {Newest(found)}

(* The file is sent if the version asked for is selected and not disabled. *)
Serve(r) ==
    LET v == req[r].version
    IN  /\ req[r].pc = "verified" /\ req[r].todo = {}
        /\ \E sent \in {tree[v].of} \cup (IF tree[v].whole THEN {} ELSE {None}) :
              req' = [req EXCEPT ![r].pc = "rest",
                         ![r].sent = IF v \in Selected(req[r].found) \ req[r].off
                                     THEN sent ELSE None]
        /\ UNCHANGED <<disk, inst, deploy, left, faults, history>>

(* disabled.json is put there and taken away by hand.                      *)
Disable(v) ==
    /\ v \notin disabled /\ Act
    /\ disabled' = disabled \cup {v}
    /\ UNCHANGED <<tree, meta, inst, req, deploy, faults, history>>

Enable(v) ==
    /\ v \in disabled /\ Act
    /\ disabled' = disabled \ {v}
    /\ req' = [r \in Readers |->
                 IF req[r].pc = "rest" THEN req[r] ELSE [req[r] EXCEPT !.always = @ \ {v}]]
    /\ UNCHANGED <<tree, meta, inst, deploy, faults, history>>

-----------------------------------------------------------------------------
(* Staging and production, in memory; each call is one step.               *)

(* What discovery has found is staged.                                     *)
installToStaging(v) ==
    /\ Act /\ v \in Verified /\ tree[v].whole
    /\ staging' = [version |-> v, disabled |-> v \in disabled, checks |-> "none"]
    /\ UNCHANGED <<disk, inst, req, active, retained, past, faults, history>>

runStagingChecks(checks) ==
    /\ Act /\ staging # None /\ ~staging.disabled
    /\ staging' = [staging EXCEPT !.checks = checks]
    /\ UNCHANGED <<disk, inst, req, active, retained, past, faults, history>>

Production(record) == [version |-> record.version, checks |-> record.checks]

(* Faulty Truncated: all records are retained.                             *)
Untruncated(records) == records

Truncated(records) == SubSeq(records, 1, Min({MaxRetained, Len(records)}))

(* The numbers of a finite set, in their order.                            *)
InOrder(S) ==
    CHOOSE seq \in [1..Cardinality(S) -> S] :
        \A i, j \in DOMAIN seq : i < j => seq[i] < seq[j]

(* The first record of each version.                                       *)
Firsts(records) ==
    {i \in DOMAIN records : \A j \in 1..(i - 1) : records[j].version # records[i].version}

WithoutOlder(records) ==
    LET kept == InOrder(Firsts(records))
    IN  [n \in DOMAIN kept |-> records[kept[n]]]

(* Faulty Retained: the older record of a version is kept.                 *)
OlderRetained(record, records) == Truncated(WithoutOlder(Append(records, record)))

(* retainProductionRecord: no version twice.                               *)
Retained(record, records) == Truncated(WithoutOlder(<<record>> \o records))

Deploy(record) ==
    /\ active' = record
    /\ past' = IF active = None THEN past ELSE Append(past, active)

(* An administrator has approved it.  Checks that failed may be overridden *)
(* and checks that were never run do not stand in the way.                 *)
promoteStaging(override) ==
    /\ Act /\ staging # None /\ ~staging.disabled
    /\ staging.checks = "failed" => override
    /\ Deploy(Production(staging))
    /\ staging' = None
    /\ retained' = IF active = None THEN retained ELSE Retained(active, retained)
    /\ UNCHANGED <<disk, inst, req, faults, history>>

rollbackProduction(v) ==
    LET targets == {i \in DOMAIN retained : retained[i].version = v}
        rest    == RemoveAt(retained, Min(targets))
    IN  /\ targets # {} /\ Act
        /\ Deploy(retained[Min(targets)])
        /\ retained' = Truncated(IF active = None THEN rest ELSE <<active>> \o rest)
        /\ UNCHANGED <<disk, inst, req, staging, faults, history>>

-----------------------------------------------------------------------------
Administration ==
    \/ \E v \in Versions :
          Disable(v) \/ Enable(v) \/ installToStaging(v) \/ rollbackProduction(v)
    \/ \E checks \in {"passed", "failed"} : runStagingChecks(checks)
    \/ \E override \in BOOLEAN : promoteStaging(override)

Next ==
    \/ \E i \in Installers : Install(i)
    \/ \E r \in Readers :
          (\E v \in Versions : Request(r, v)) \/ ReadVerified(r) \/ ReadPlugin(r) \/ Serve(r)
    \/ Administration

Spec == Init /\ [][Next]_vars

-----------------------------------------------------------------------------
(* Properties.                                                             *)

Installs == [pc : Putting \cup {"rest", "download", "look", "manifest"},
             artifact : Artifacts \cup {None}, shared : BOOLEAN, from : SUBSET Artifacts]

Requests ==
    [pc : {"verified", "manifest", "rest"}, version : Versions, todo : SUBSET Versions,
     found : SUBSET Versions, off : SUBSET Versions, known : SUBSET Versions,
     always : SUBSET Versions, sent : Artifacts \cup {None}]

(* Every variable has its type; production is kept for no more than so     *)
(* many rollbacks.                                                         *)
TypeOK ==
    /\ tree \in [Versions -> [of : Artifacts \cup {None}, whole : BOOLEAN]]
    /\ meta \in [Versions -> Artifacts \cup {None, Torn}]
    /\ disabled \subseteq Versions
    /\ inst \in [Installers -> Installs]
    /\ req \in [Readers -> [pc : {"rest"}] \cup Requests]
    /\ staging # None => staging \in [version : Versions, disabled : BOOLEAN, checks : Checks]
    /\ active # None => active \in Records
    /\ retained \in Seq(Records) /\ Len(retained) <= MaxRetained
    /\ left \in [installs : Nat, acts : Nat] /\ faults \in 0..MaxFaults
    /\ overlapped \subseteq Versions /\ asked \subseteq Artifacts
    /\ past \in Seq(Records)

(* A version that counts as verified has the whole tree of the artifact    *)
(* that was verified, whatever installs before have failed at any step or  *)
(* were cut off, and whatever others have looked at it meanwhile.  It does *)
(* not hold of a version that two installs were putting there at once.     *)
VerifiedIsWhole ==
    \A v \in Verified \ overlapped : tree[v] = [of |-> meta[v], whole |-> TRUE]

(* An asset that is sent is of the verified artifact of the version asked  *)
(* for, which was not disabled all the time, and there was no newer one    *)
(* when it was asked for.                                                  *)
ServedIsVerified ==
    \A r \in Readers :
        req[r].pc = "rest" /\ "sent" \in DOMAIN req[r] /\ overlapped = {} =>
            LET v == req[r].version
            IN  req[r].sent # None =>
                    /\ req[r].sent = meta[v]
                    /\ v \notin req[r].always
                    /\ \A newer \in req[r].known : newer <= v

(* Rolling back to another version than the one in production brings back  *)
(* what was last in production of it, and what was left last can always be *)
(* gone back to.                                                           *)
RollsBackToLast ==
    LET LastOf(v) == Max({i \in DOMAIN past : past[i].version = v})
    IN  /\ \A i \in Firsts(retained) :
              retained[i].version # active.version =>
                  retained[i] = past[LastOf(retained[i].version)]
        /\ past # <<>> => retained # <<>> /\ Head(retained) = Last(past)

(* docs/plugin-system/marketplace-architecture.md:172, "preserve immutable *)
(* artifact dirs": once verified, a version has the artifact it has.       *)
NeverOverwritten ==
    [][\A v \in Verified : meta'[v] = meta[v] /\ tree'[v] = tree[v]]_<<meta, tree>>

=============================================================================
