-------------------------- MODULE PluginStoreProofs -------------------------
(***************************************************************************)
(* Proofs about PluginStore, for any versions, artifacts, installs and     *)
(* requests.                                                               *)
(*                                                                         *)
(* Directory is the invariant of installs, Answers the one of requests,    *)
(* which needs the first, and Deployment the one of staging and            *)
(* production, which shares no state with them.                            *)
(***************************************************************************)
EXTENDS PluginStore, FiniteSetTheorems, SequenceTheorems, WellFoundedInduction, TLAPS

-----------------------------------------------------------------------------
(* Least and greatest numbers of a set.                                    *)

\* Every set of numbers has a least one.
LEMMA HasLeast ==
  ASSUME NEW S, S \subseteq Nat, S # {}
  PROVE  \E x \in S : \A y \in S : x <= y
<1> DEFINE R == {ss \in Nat \X Nat : ss[1] < ss[2]}
<1>1. IsWellFoundedOn(R, Nat)
  BY NatLessThanWellFounded, Zenon DEF OpToRel
<1>2. \A y, x \in Nat : y < x => <<y, x>> \in R
  OBVIOUS
<1> HIDE DEF R
<1>3. PICK x \in S : \A y \in S : ~ (<<y, x>> \in R)
  BY <1>1, WFMin
<1>4. ASSUME NEW y \in S PROVE x <= y
  <2>1. ~(y < x)
    BY <1>2, <1>3
  <2> QED BY <2>1
<1> QED BY <1>4

LEMMA MinIsLeast ==
  ASSUME NEW S, S \subseteq Nat, S # {}
  PROVE  Min(S) \in S /\ \A y \in S : Min(S) <= y
  BY HasLeast DEF Min

\* Every finite set of numbers has a greatest one: of those that have none,
\* there would be a smallest.
LEMMA MaxIsGreatest ==
  ASSUME NEW S, S \subseteq Nat, S # {}, IsFiniteSet(S)
  PROVE  Max(S) \in S /\ \A y \in S : y <= Max(S)
<1> DEFINE HasMax(U) == \E x \in U : \A y \in U : y <= x
           Sizes == {n \in Nat : \E U \in SUBSET S : U # {} /\ Cardinality(U) = n /\ ~HasMax(U)}
<1>1. ASSUME Sizes # {} PROVE FALSE
  <2>1. PICK n \in Sizes : \A m \in Sizes : n <= m
    BY <1>1, HasLeast
  <2>2. PICK U \in SUBSET S : U # {} /\ Cardinality(U) = n /\ ~HasMax(U)
    BY <2>1
  <2>3. PICK x \in U : TRUE
    BY <2>2
  <2>4. IsFiniteSet(U)
    BY FS_Subset
  <2>5. /\ IsFiniteSet(U \ {x})
        /\ Cardinality(U \ {x}) = n - 1
    BY <2>2, <2>4, FS_RemoveElement
  <2>6. Cardinality(U \ {x}) \in Nat
    BY <2>5, FS_CardinalityType
  <2>7. U \ {x} # {}
    BY <2>2
  <2>8. HasMax(U \ {x})
    <3> DEFINE V == U \ {x}
    <3>1. V \in SUBSET S /\ V # {} /\ Cardinality(V) = n - 1 /\ n - 1 \in Nat
      BY <2>5, <2>6, <2>7
    <3>2. n - 1 \notin Sizes
      BY <2>1
    <3> HIDE DEF V, HasMax
    <3>3. HasMax(V)
      BY <3>1, <3>2
    <3> QED BY <3>3 DEF V
  <2>9. PICK z \in U \ {x} : \A y \in U \ {x} : y <= z
    BY <2>8
  <2>10. x \in Nat /\ z \in Nat
    OBVIOUS
  <2>11. HasMax(U)
    <3>1. CASE x <= z
      BY <3>1, <2>9
    <3>2. CASE z <= x
      <4>1. \A y \in U : y <= x
        BY <3>2, <2>9, <2>10
      <4> QED BY <4>1
    <3> QED BY <2>10, <3>1, <3>2
  <2> QED BY <2>2, <2>11
<1>2. Cardinality(S) \in Nat
  BY FS_CardinalityType
<1>3. HasMax(S)
  BY <1>1, <1>2
<1> QED BY <1>3 DEF Max

-----------------------------------------------------------------------------
(* Installs.                                                               *)

\* Install i is at one of these steps, for version v.
Doing(i, v, steps) == inst[i].pc \in steps /\ inst[i].artifact.version = v

DirectoryTyped ==
    /\ tree \in [Versions -> [of : Artifacts \cup {None}, whole : BOOLEAN]]
    /\ meta \in [Versions -> Artifacts \cup {None, Torn}]
    /\ inst \in [Installers -> Installs]
    /\ \A i \in Installers : inst[i].pc # "rest" =>
          \A a \in inst[i].from \cup {inst[i].artifact} :
             a \in asked /\ a.version = Version(i)
    /\ left \in [installs : Nat, acts : Nat]
    /\ faults \in 0..MaxFaults
    /\ overlapped \subseteq Versions
    /\ asked \subseteq Artifacts

\* What is there was asked for, as the version it is.
OfItsVersion ==
    \A v \in Versions :
        /\ tree[v].of # None => tree[v].of \in asked /\ tree[v].of.version = v
        /\ meta[v] \in Artifacts => meta[v] \in asked /\ meta[v].version = v

\* An install that puts a version there alone has its name to itself and
\* finds what it has left.
Alone ==
    \A v \in Versions \ overlapped :
        /\ \A i, j \in Installers : Doing(i, v, Putting) /\ Doing(j, v, Putting) => i = j
        /\ meta[v] \in Artifacts => tree[v] = [of |-> meta[v], whole |-> TRUE]
        /\ \A i \in Installers :
              /\ Doing(i, v, Unpacking) => ~inst[i].shared
              /\ Doing(i, v, Unpacking \cup {"verified"}) => meta[v] = None
              /\ Doing(i, v, {"verified", "write"}) =>
                     tree[v] = [of |-> inst[i].artifact, whole |-> TRUE]
              /\ Doing(i, v, {"write"}) => meta[v] = Torn

Directory == DirectoryTyped /\ OfItsVersion /\ Alone

\* What is verified is whole.
LEMMA DirectoryIsWhole == Directory => VerifiedIsWhole
  BY DEF Directory, Alone, VerifiedIsWhole, Verified

LEMMA DirectoryAtFirst == Init => Directory
<1> SUFFICES ASSUME Init PROVE Directory
  OBVIOUS
<1>0. PICK s \in Starts :
        /\ tree = [v \in Versions |->
                     IF \E a \in s.have : a.version = v
                     THEN [of |-> CHOOSE a \in s.have : a.version = v, whole |-> TRUE]
                     ELSE NoTree]
        /\ left = [installs |-> s.installs, acts |-> s.acts]
        /\ asked = s.have
  BY DEF Init
<1>1. s.have \subseteq Artifacts /\ s.installs \in Nat /\ s.acts \in Nat
  BY StoreAssumption
<1>2. ASSUME NEW v \in Versions
      PROVE  /\ tree[v] \in [of : Artifacts \cup {None}, whole : BOOLEAN]
             /\ tree[v].of # None => tree[v].of \in asked /\ tree[v].of.version = v
             /\ tree[v].whole <=> tree[v].of # None
  <2>1. CASE \E a \in s.have : a.version = v
    <3> DEFINE c == CHOOSE a \in s.have : a.version = v
    <3>1. c \in s.have /\ c.version = v
      BY <2>1
    <3>2. tree[v] = [of |-> c, whole |-> TRUE]
      BY <1>0, <2>1
    <3> HIDE DEF c
    <3> QED BY <1>0, <1>1, <3>1, <3>2, StoreAssumption
  <2>2. CASE ~ \E a \in s.have : a.version = v
    BY <1>0, <2>2 DEF NoTree
  <2> QED BY <2>1, <2>2
<1>3. meta = [v \in Versions |-> tree[v].of] /\ faults = 0 /\ overlapped = {}
      /\ inst = [i \in Installers |-> [pc |-> "rest", artifact |-> None, shared |-> FALSE,
                                      from |-> {}]]
  BY DEF Init
<1>4. DirectoryTyped
  <2>1. tree \in [Versions -> [of : Artifacts \cup {None}, whole : BOOLEAN]]
    BY <1>0, <1>2
  <2>2. meta \in [Versions -> Artifacts \cup {None, Torn}]
    BY <1>2, <1>3
  <2> QED BY <1>0, <1>1, <1>3, <2>1, <2>2, StoreAssumption DEF DirectoryTyped, Installs
<1>5. OfItsVersion
  BY <1>2, <1>3, StoreAssumption DEF OfItsVersion
<1>6. Alone
  <2>1. \A v \in Versions : meta[v] \in Artifacts => tree[v] = [of |-> meta[v], whole |-> TRUE]
    BY <1>2, <1>3, StoreAssumption
  <2> QED BY <1>3, <2>1 DEF Alone, Doing, Putting, Unpacking
<1> QED BY <1>4, <1>5, <1>6 DEF Directory

\* An install goes on to another step.
LEMMA Goes ==
  ASSUME DirectoryTyped, NEW i \in Installers, ~At(i, "rest"), UNCHANGED asked,
         NEW step \in Putting \cup {"rest", "download", "look", "manifest"}, Go(i, step)
  PROVE  /\ inst' \in [Installers -> Installs]
         /\ inst'[i] = [inst[i] EXCEPT !.pc = step]
         /\ \A j \in Installers \ {i} : inst'[j] = inst[j]
         /\ \A j \in Installers : inst'[j].pc # "rest" =>
               \A a \in inst'[j].from \cup {inst'[j].artifact} :
                  a \in asked' /\ a.version = Version(j)'
<1>1. inst'[i] = [inst[i] EXCEPT !.pc = step] /\ \A j \in Installers \ {i} : inst'[j] = inst[j]
  BY DEF Go, DirectoryTyped
<1>2. inst'[i] \in Installs /\ inst'[i].from = inst[i].from /\ inst'[i].artifact = inst[i].artifact
  BY <1>1 DEF DirectoryTyped, Installs
<1>3. inst' \in [Installers -> Installs]
  BY <1>2 DEF Go, DirectoryTyped
<1>4. ASSUME NEW j \in Installers, inst'[j].pc # "rest", NEW a \in inst'[j].from \cup {inst'[j].artifact}
      PROVE  a \in asked' /\ a.version = Version(j)'
  <2>1. inst[j].pc # "rest" /\ inst'[j].from = inst[j].from /\ inst'[j].artifact = inst[j].artifact
    BY <1>1, <1>2, <1>4 DEF At
  <2> QED BY <1>4, <2>1 DEF DirectoryTyped, Version
<1> QED BY <1>1, <1>3, <1>4

\* An install takes its name: that of others, which then overlap with it, or
\* one of its own.
LEMMA Unpacks ==
  ASSUME DirectoryTyped, NEW i \in Installers, At(i, "look"), Unpack(i), UNCHANGED asked
  PROVE  /\ inst' \in [Installers -> Installs]
         /\ \A j \in Installers :
               /\ inst'[j].artifact = inst[j].artifact
               /\ inst'[j].pc = IF j = i THEN "extract" ELSE inst[j].pc
               /\ ~Doing(j, Version(i), Unpacking \cup {"look"}) => inst'[j] = inst[j]
         /\ \A j \in Installers : inst'[j].pc # "rest" =>
               \A a \in inst'[j].from \cup {inst'[j].artifact} :
                  a \in asked' /\ a.version = Version(j)'
         /\ overlapped' \subseteq Versions /\ overlapped \subseteq overlapped'
         /\ Version(i) \in Versions
         /\ Version(i) \notin overlapped' =>
               /\ \A j \in Installers \ {i} : ~Doing(j, Version(i), Putting) /\ inst'[j] = inst[j]
               /\ ~inst'[i].shared
<1> DEFINE v == Version(i)
<1>1. PICK with \in SUBSET Others(i, Unpacking) :
        LET from == UNION {inst[j].from : j \in with \cup {i}}
        IN  inst' = [j \in Installers |->
                       IF j = i
                       THEN [inst[i] EXCEPT !.pc = "extract", !.shared = with # {}, !.from = from]
                       ELSE IF j \in with THEN [inst[j] EXCEPT !.shared = TRUE, !.from = from]
                       ELSE inst[j]]
  BY DEF Unpack
<1> DEFINE from == UNION {inst[j].from : j \in with \cup {i}}
<1>2. ASSUME NEW j \in with \cup {i}
      PROVE  /\ j \in Installers /\ inst[j].pc \in Unpacking \cup {"look"} /\ inst[j].pc # "rest"
             /\ Version(j) = v /\ inst[j] \in Installs
  BY DEF Others, At, Unpacking, DirectoryTyped
<1>3. ASSUME NEW a \in from PROVE a \in asked /\ a \in Artifacts /\ a.version = v
  <2>1. PICK j \in with \cup {i} : a \in inst[j].from
    BY <1>3
  <2> QED BY <1>2, <2>1 DEF DirectoryTyped
<1>4. inst[i].artifact \in asked /\ asked \subseteq Artifacts /\ v \in Versions
  BY <1>2, StoreAssumption DEF DirectoryTyped, Version
<1> HIDE DEF from, v
<1>5. inst' = [j \in Installers |->
                 IF j = i
                 THEN [inst[i] EXCEPT !.pc = "extract", !.shared = with # {}, !.from = from]
                 ELSE IF j \in with THEN [inst[j] EXCEPT !.shared = TRUE, !.from = from]
                 ELSE inst[j]]
  BY <1>1 DEF from
<1>6. from \subseteq Artifacts
  BY <1>3
<1>7. ASSUME NEW j \in Installers
      PROVE  /\ inst'[j] \in Installs
             /\ inst'[j].artifact = inst[j].artifact
             /\ inst'[j].pc = IF j = i THEN "extract" ELSE inst[j].pc
             /\ inst'[j].from = IF j \in with \cup {i} THEN from ELSE inst[j].from
             /\ j \notin with \cup {i} => inst'[j] = inst[j]
  <2>1. inst[j] \in Installs
    BY DEF DirectoryTyped
  <2> QED BY <1>5, <1>6, <2>1 DEF Installs, Putting, Unpacking
<1>8. inst' \in [Installers -> Installs]
  BY <1>5, <1>7
<1>9. ASSUME NEW j \in Installers, inst'[j].pc # "rest", NEW a \in inst'[j].from \cup {inst'[j].artifact}
      PROVE  a \in asked' /\ a.version = Version(j)'
  <2>1. CASE j \in with \cup {i}
    BY <1>2, <1>3, <1>7, <1>9, <2>1 DEF DirectoryTyped, Version
  <2>2. CASE j \notin with \cup {i}
    BY <1>7, <1>9, <2>2 DEF DirectoryTyped, Version
  <2> QED BY <2>1, <2>2
<1>10. overlapped' = IF Others(i, Putting) = {} THEN overlapped ELSE overlapped \cup {v}
  BY DEF Unpack, v
<1>11. ASSUME v \notin overlapped'
       PROVE  /\ \A j \in Installers \ {i} : ~Doing(j, v, Putting) /\ inst'[j] = inst[j]
              /\ ~inst'[i].shared
  <2>1. Others(i, Putting) = {}
    BY <1>10, <1>11
  <2>2. with = {}
    BY <2>1 DEF Others, Putting
  <2>3. inst'[i] = [inst[i] EXCEPT !.pc = "extract", !.shared = FALSE, !.from = from]
    BY <1>5, <2>2
  <2>4. ~inst'[i].shared
    BY <1>2, <2>3 DEF Installs
  <2> QED BY <1>7, <2>1, <2>2, <2>4 DEF Others, Doing, Version, v
<1>12. ASSUME NEW j \in Installers, ~Doing(j, v, Unpacking \cup {"look"})
       PROVE  inst'[j] = inst[j]
  BY <1>2, <1>7, <1>12 DEF Doing, Version
<1> QED BY <1>4, <1>7, <1>8, <1>9, <1>10, <1>11, <1>12, StoreAssumption DEF DirectoryTyped, v

\* An install keeps the types.
LEMMA InstallTyped ==
  ASSUME Directory, NEW i \in Installers, Install(i)
  PROVE  DirectoryTyped'
<1> USE StoreAssumption DEF Directory, DirectoryTyped, Putting, Unpacking, NoTree, At, disk, deploy, history
<1>0. ASSUME ~At(i, "rest") PROVE Version(i) \in Versions /\ inst[i].artifact \in Artifacts
  BY <1>0 DEF Version
<1>1. ASSUME NEW a \in Artifacts, Start(i, a) PROVE DirectoryTyped'
  <2> DEFINE new == [pc |-> "download", artifact |-> a, shared |-> FALSE, from |-> {a}]
  <2>1. new \in Installs /\ inst' = [inst EXCEPT ![i] = new]
    BY <1>1 DEF Start, Installs
  <2>2. ASSUME NEW j \in Installers, inst'[j].pc # "rest",
               NEW b \in inst'[j].from \cup {inst'[j].artifact}
        PROVE  b \in asked' /\ b.version = Version(j)'
    BY <1>1, <2>1, <2>2 DEF Start, Version
  <2>3. /\ inst' \in [Installers -> Installs] /\ asked' \subseteq Artifacts
        /\ left' \in [installs : Nat, acts : Nat]
    BY <1>1, <2>1 DEF Start
  <2> QED BY <1>1, <2>2, <2>3 DEF Start
<1>2. CASE Download(i)
  <2>1. PICK step \in {"look", "rest"} : Go(i, step)
    BY <1>2 DEF Download
  <2> QED BY <1>2, <2>1, Goes DEF Download
<1>3. CASE Look(i)
  <2>1. CASE Unpack(i)
    BY <1>3, <2>1, Unpacks DEF Look
  <2>2. CASE ~Unpack(i)
    <3>1. PICK step \in {"manifest", "rest"} : Go(i, step)
      BY <1>3, <2>2 DEF Look
    <3> QED BY <1>3, <2>2, <3>1, Goes DEF Look
  <2> QED BY <2>1, <2>2
<1>4. CASE ReadManifest(i)
  BY <1>4, Goes DEF ReadManifest
<1>5. CASE Extract(i)
  <2>1. PICK step \in {"remove", "rest"} : Go(i, step)
    BY <1>5 DEF Extract
  <2> QED BY <1>5, <2>1, Goes DEF Extract
<1>6. CASE RemoveSome(i)
  <2> DEFINE Trees == [of : Artifacts \cup {None}, whole : BOOLEAN]
             v == Version(i)
  <2>1. v \in Versions /\ tree[v] \in Trees /\ tree \in [Versions -> Trees]
    BY <1>0, <1>6 DEF RemoveSome
  <2>2. [tree[v] EXCEPT !.whole = FALSE] \in Trees
    BY <2>1
  <2>3. tree' = [tree EXCEPT ![v] = [tree[v] EXCEPT !.whole = FALSE]]
    BY <1>6 DEF RemoveSome
  <2> HIDE DEF v, Trees
  <2>4. tree' \in [Versions -> Trees]
    BY <2>1, <2>2, <2>3, Zenon
  <2> QED BY <1>6, <2>4 DEF RemoveSome, Trees, Version
<1>7. CASE RemoveAll(i)
  <2>1. tree' \in [Versions -> [of : Artifacts \cup {None}, whole : BOOLEAN]]
    BY <1>7 DEF RemoveAll
  <2> QED BY <1>7, <2>1, Goes DEF RemoveAll
<1>8. CASE RemoveFails(i)
  BY <1>8, Goes DEF RemoveFails
<1>9. CASE Rename(i)
  <2>1. PICK new \in Unpacked(i) : tree' = [tree EXCEPT ![Version(i)] = new]
    BY <1>9 DEF Rename
  <2>2. new \in [of : Artifacts \cup {None}, whole : BOOLEAN]
    <3>1. inst[i].from \subseteq Artifacts /\ inst[i].artifact \in Artifacts
      BY <1>0, <1>9 DEF Rename, Installs
    <3>2. CASE inst[i].shared
      BY <2>1, <3>1, <3>2 DEF Unpacked
    <3>3. CASE ~inst[i].shared
      <4>1. new = [of |-> inst[i].artifact, whole |-> TRUE]
        BY <2>1, <3>3, Zenon DEF Unpacked
      <4> QED BY <3>1, <4>1
    <3> QED BY <3>2, <3>3
  <2>3. tree' \in [Versions -> [of : Artifacts \cup {None}, whole : BOOLEAN]]
    BY <2>1, <2>2
  <2> QED BY <1>9, <2>3, Goes DEF Rename
<1>10. CASE RenameFails(i)
  BY <1>10, Goes DEF RenameFails
<1>11. CASE OpenVerified(i)
  <2>1. meta' \in [Versions -> Artifacts \cup {None, Torn}]
    BY <1>11 DEF OpenVerified
  <2> QED BY <1>11, <2>1, Goes DEF OpenVerified
<1>12. CASE WriteVerified(i)
  <2>1. meta' \in [Versions -> Artifacts \cup {None, Torn}]
    BY <1>0, <1>12 DEF WriteVerified
  <2> QED BY <1>12, <2>1, Goes DEF WriteVerified
<1>13. CASE Crash(i)
  <2>1. faults' \in 0..MaxFaults
    BY <1>13 DEF Crash
  <2> QED BY <1>13, <2>1, Goes DEF Crash
<1> QED BY <1>1, <1>2, <1>3, <1>4, <1>5, <1>6, <1>7, <1>8, <1>9, <1>10, <1>11, <1>12, <1>13
        DEF Install

\* What an install puts there was asked for.
LEMMA InstallOfItsVersion ==
  ASSUME Directory, NEW i \in Installers, Install(i)
  PROVE  OfItsVersion'
<1> USE StoreAssumption DEF Directory, DirectoryTyped, OfItsVersion, NoTree, At, Version, disk, deploy, history
<1>1. CASE UNCHANGED <<tree, meta>> /\ asked \subseteq asked'
  BY <1>1
<1>2. CASE RemoveSome(i)
  BY <1>2 DEF RemoveSome
<1>3. CASE RemoveAll(i)
  BY <1>3 DEF RemoveAll
<1>4. CASE Rename(i)
  <2>1. PICK new \in Unpacked(i) : tree' = [tree EXCEPT ![Version(i)] = new]
    BY <1>4 DEF Rename
  <2>2. inst[i].pc # "rest" /\ UNCHANGED <<meta, asked>>
    BY <1>4 DEF Rename
  <2>3. new.of \in inst[i].from \cup {inst[i].artifact}
    BY <2>1 DEF Unpacked
  <2>4. new.of \in asked /\ new.of.version = Version(i)
    BY <2>2, <2>3
  <2> QED BY <2>1, <2>2, <2>4
<1>5. CASE OpenVerified(i)
  BY <1>5 DEF OpenVerified
<1>6. CASE WriteVerified(i)
  <2>1. inst[i].artifact \in asked
    BY <1>6 DEF WriteVerified
  <2> QED BY <1>6, <2>1 DEF WriteVerified
<1> QED BY <1>1, <1>2, <1>3, <1>4, <1>5, <1>6 DEF Install, Start, Download, Look, ReadManifest,
           Extract, RemoveFails, RenameFails, Crash

\* Alone, for one version.
AloneAt(v) ==
    /\ \A i, j \in Installers : Doing(i, v, Putting) /\ Doing(j, v, Putting) => i = j
    /\ meta[v] \in Artifacts => tree[v] = [of |-> meta[v], whole |-> TRUE]
    /\ \A i \in Installers :
          /\ Doing(i, v, Unpacking) => ~inst[i].shared
          /\ Doing(i, v, Unpacking \cup {"verified"}) => meta[v] = None
          /\ Doing(i, v, {"verified", "write"}) =>
                 tree[v] = [of |-> inst[i].artifact, whole |-> TRUE]
          /\ Doing(i, v, {"write"}) => meta[v] = Torn

\* An install that is alone leaves a version verified and whole, or not verified.
LEMMA InstallAlone ==
  ASSUME Directory, NEW i \in Installers, Install(i)
  PROVE  Alone'
<1> SUFFICES ASSUME NEW v \in Versions \ overlapped' PROVE AloneAt(v)'
  BY DEF Alone, AloneAt
<1> USE StoreAssumption DEF Putting, Unpacking, NoTree, At, Doing, disk, deploy, history
<1>0. DirectoryTyped
  BY DEF Directory
<1>a. tree \in [Versions -> [of : Artifacts \cup {None}, whole : BOOLEAN]]
      /\ meta \in [Versions -> Artifacts \cup {None, Torn}]
      /\ inst \in [Installers -> Installs]
  BY <1>0 DEF DirectoryTyped
<1>b. ASSUME UNCHANGED overlapped PROVE AloneAt(v)
  BY <1>b DEF Directory, Alone, AloneAt
<1>c. ASSUME NEW step \in {"rest", "look", "manifest", "remove", "rename", "verified", "write"},
             ~At(i, "rest"), Go(i, step)
      PROVE  inst'[i].pc = step /\ inst'[i].shared = inst[i].shared
             /\ inst'[i].artifact = inst[i].artifact
             /\ \A j \in Installers \ {i} : inst'[j] = inst[j]
  BY <1>a, <1>c DEF Go, Installs
<1>d. ASSUME NEW step \in {"rest", "look", "manifest"}, ~At(i, "rest"), Go(i, step),
             UNCHANGED <<tree, meta, overlapped>>
      PROVE  AloneAt(v)'
  BY <1>b, <1>c, <1>d DEF AloneAt
<1>1. ASSUME NEW a \in Artifacts, Start(i, a) PROVE AloneAt(v)'
  <2>1. /\ inst'[i] = [pc |-> "download", artifact |-> a, shared |-> FALSE, from |-> {a}]
        /\ \A j \in Installers \ {i} : inst'[j] = inst[j]
        /\ UNCHANGED <<tree, meta, overlapped>>
    BY <1>a, <1>1 DEF Start
  <2> QED BY <1>b, <2>1 DEF AloneAt
<1>2. CASE Download(i)
  BY <1>2, <1>d DEF Download
<1>3. CASE Look(i)
  <2>1. CASE meta[Version(i)] = None /\ Unpack(i)
    <3>1. /\ \A j \in Installers :
                /\ inst'[j].artifact = inst[j].artifact
                /\ inst'[j].pc = IF j = i THEN "extract" ELSE inst[j].pc
                /\ ~Doing(j, Version(i), Unpacking \cup {"look"}) => inst'[j] = inst[j]
          /\ overlapped \subseteq overlapped'
          /\ Version(i) \notin overlapped' =>
                /\ \A j \in Installers \ {i} : ~Doing(j, Version(i), Putting) /\ inst'[j] = inst[j]
                /\ ~inst'[i].shared
      BY <1>0, <1>3, <2>1, Unpacks DEF Look
    <3>2. AloneAt(v) /\ UNCHANGED <<tree, meta>>
      BY <1>3, <3>1 DEF Look, Directory, Alone, AloneAt
    <3>3. CASE v = Version(i)
      <4>1. \A j \in Installers : Doing(j, v, Putting)' => j = i
        BY <3>1, <3>3
      <4>2. ~inst'[i].shared /\ inst'[i].pc = "extract" /\ meta'[v] = None
        BY <2>1, <3>1, <3>2, <3>3
      <4>3. \A j \in Installers : /\ Doing(j, v, Unpacking)' => j = i
                                  /\ ~Doing(j, v, {"verified", "write"})'
        BY <4>1, <4>2
      <4> QED BY <3>2, <4>1, <4>2, <4>3 DEF AloneAt
    <3>4. CASE v # Version(i)
      <4>1. \A j \in Installers : Doing(j, v, Putting)' => inst'[j] = inst[j]
        BY <3>1, <3>4 DEF Version
      <4> QED BY <3>2, <4>1 DEF AloneAt
    <3> QED BY <3>3, <3>4
  <2>2. CASE UNCHANGED overlapped /\ Go(i, IF meta[Version(i)] = inst[i].artifact THEN "manifest" ELSE "rest")
    BY <1>3, <1>d, <2>2 DEF Look
  <2> QED BY <1>3, <2>1, <2>2 DEF Look
<1>4. CASE ReadManifest(i)
  BY <1>4, <1>d DEF ReadManifest
<1>5. CASE Extract(i)
  <2>1. CASE Go(i, "remove")
    BY <1>5, <1>b, <1>c, <2>1 DEF Extract, AloneAt
  <2>2. CASE Go(i, "rest")
    BY <1>5, <1>d, <2>2 DEF Extract
  <2> QED BY <1>5, <2>1, <2>2 DEF Extract
<1>6. CASE RemoveSome(i)
  <2>1. AloneAt(v) /\ UNCHANGED <<meta, inst>>
    BY <1>6, <1>b DEF RemoveSome
  <2>2. CASE v # inst[i].artifact.version
    <3>1. tree'[v] = tree[v]
      BY <1>6, <1>a, <2>2 DEF RemoveSome, Version
    <3> QED BY <2>1, <3>1 DEF AloneAt
  <2>3. CASE v = inst[i].artifact.version
    <3>1. meta[v] = None /\ \A j \in Installers : ~Doing(j, v, {"verified", "write"})
      BY <1>6, <2>1, <2>3 DEF RemoveSome, AloneAt
    <3> QED BY <2>1, <3>1 DEF AloneAt
  <2> QED BY <2>2, <2>3
<1>7. CASE RemoveAll(i)
  <2>1. /\ AloneAt(v) /\ UNCHANGED meta
        /\ inst'[i].pc = "rename" /\ inst'[i].shared = inst[i].shared
        /\ inst'[i].artifact = inst[i].artifact /\ inst[i].pc = "remove"
        /\ \A j \in Installers \ {i} : inst'[j] = inst[j]
    BY <1>7, <1>b, <1>c DEF RemoveAll
  <2>2. CASE v # inst[i].artifact.version
    <3>1. tree'[v] = tree[v]
      BY <1>7, <1>a, <2>2 DEF RemoveAll, Version
    <3> QED BY <2>1, <2>2, <3>1 DEF AloneAt
  <2>3. CASE v = inst[i].artifact.version
    <3>1. meta[v] = None /\ \A j \in Installers : Doing(j, v, Putting) => j = i
      BY <2>1, <2>3 DEF AloneAt
    <3> QED BY <2>1, <2>3, <3>1 DEF AloneAt
  <2> QED BY <2>2, <2>3
<1>8. CASE RemoveFails(i)
  BY <1>8, <1>d DEF RemoveFails
<1>9. CASE Rename(i)
  <2>1. /\ AloneAt(v) /\ UNCHANGED meta
        /\ inst'[i].pc = "verified"
        /\ inst'[i].artifact = inst[i].artifact /\ inst[i].pc = "rename"
        /\ \A j \in Installers \ {i} : inst'[j] = inst[j]
    BY <1>9, <1>b, <1>c DEF Rename
  <2>2. PICK new \in Unpacked(i) : tree' = [tree EXCEPT ![Version(i)] = new]
    BY <1>9 DEF Rename
  <2>3. CASE v # inst[i].artifact.version
    <3>1. tree'[v] = tree[v]
      BY <1>a, <2>2, <2>3 DEF Version
    <3> QED BY <2>1, <2>3, <3>1 DEF AloneAt
  <2>4. CASE v = inst[i].artifact.version
    <3> DEFINE art == inst[i].artifact
    <3>1. /\ meta[v] = None /\ ~inst[i].shared
          /\ \A j \in Installers : Doing(j, v, Putting) => j = i
      BY <2>1, <2>4 DEF AloneAt
    <3>2. new = [of |-> art, whole |-> TRUE]
      BY <2>2, <3>1 DEF Unpacked
    <3>3. tree'[v] = [of |-> art, whole |-> TRUE]
      BY <1>a, <2>2, <2>4, <3>2 DEF Version
    <3> HIDE DEF art
    <3>4. inst'[i].artifact = art
      BY <2>1 DEF art
    <3>5. \A j \in Installers : Doing(j, v, Putting)' => j = i
      BY <2>1, <3>1
    <3>6. ASSUME NEW j \in Installers
          PROVE  /\ ~Doing(j, v, Unpacking)'
                 /\ Doing(j, v, {"verified", "write"})' => tree'[v] = [of |-> inst'[j].artifact, whole |-> TRUE]
                 /\ ~Doing(j, v, {"write"})'
      <4>1. CASE j = i
        BY <2>1, <3>3, <3>4, <4>1
      <4>2. CASE j # i
        BY <3>5, <4>2
      <4> QED BY <4>1, <4>2
    <3> QED BY <2>1, <3>1, <3>5, <3>6 DEF AloneAt
  <2> QED BY <2>3, <2>4
<1>10. CASE RenameFails(i)
  BY <1>10, <1>d DEF RenameFails
<1>11. CASE OpenVerified(i)
  <2>1. /\ AloneAt(v) /\ UNCHANGED tree
        /\ inst'[i].pc = "write" /\ inst'[i].artifact = inst[i].artifact /\ inst[i].pc = "verified"
        /\ \A j \in Installers \ {i} : inst'[j] = inst[j]
    BY <1>11, <1>b, <1>c DEF OpenVerified
  <2>2. CASE v # inst[i].artifact.version
    <3>1. meta'[v] = meta[v]
      BY <1>11, <1>a, <2>2 DEF OpenVerified, Version
    <3> QED BY <2>1, <2>2, <3>1 DEF AloneAt
  <2>3. CASE v = inst[i].artifact.version
    <3>1. meta'[v] = Torn /\ \A j \in Installers : Doing(j, v, Putting) => j = i
      BY <1>11, <1>a, <2>1, <2>3 DEF OpenVerified, AloneAt, Version
    <3> QED BY <2>1, <2>3, <3>1 DEF AloneAt
  <2> QED BY <2>2, <2>3
<1>12. CASE WriteVerified(i)
  <2>1. /\ AloneAt(v) /\ UNCHANGED tree
        /\ inst'[i].pc = "rest" /\ inst[i].pc = "write"
        /\ \A j \in Installers \ {i} : inst'[j] = inst[j]
    BY <1>12, <1>b, <1>c DEF WriteVerified
  <2>2. CASE v # inst[i].artifact.version
    <3>1. meta'[v] = meta[v]
      BY <1>12, <1>a, <2>2 DEF WriteVerified, Version
    <3> QED BY <2>1, <2>2, <3>1 DEF AloneAt
  <2>3. CASE v = inst[i].artifact.version
    <3>1. /\ meta'[v] = inst[i].artifact /\ tree[v] = [of |-> inst[i].artifact, whole |-> TRUE]
          /\ \A j \in Installers : Doing(j, v, Putting) => j = i
      BY <1>12, <1>a, <2>1, <2>3 DEF WriteVerified, AloneAt, Version
    <3> QED BY <2>1, <2>3, <3>1 DEF AloneAt
  <2> QED BY <2>2, <2>3
<1>13. CASE Crash(i)
  BY <1>13, <1>d DEF Crash
<1> QED BY <1>1, <1>2, <1>3, <1>4, <1>5, <1>6, <1>7, <1>8, <1>9, <1>10, <1>11, <1>12, <1>13
        DEF Install

\* Nothing but an install changes the directory.
LEMMA DirectoryStays ==
  ASSUME Directory, UNCHANGED <<tree, meta, inst, faults, overlapped, asked>>,
         left' \in [installs : Nat, acts : Nat]
  PROVE  Directory'
  BY DEF Directory, DirectoryTyped, OfItsVersion, Alone, Doing, Version

LEMMA ActsTyped ==
  ASSUME left \in [installs : Nat, acts : Nat], Act
  PROVE  left' \in [installs : Nat, acts : Nat]
  BY DEF Act

LEMMA DirectoryInductive == Directory /\ [Next]_vars => Directory'
<1> SUFFICES ASSUME Directory, [Next]_vars PROVE Directory'
  OBVIOUS
<1>0. left \in [installs : Nat, acts : Nat]
  BY DEF Directory, DirectoryTyped
<1>1. ASSUME NEW i \in Installers, Install(i) PROVE Directory'
  BY <1>1, InstallTyped, InstallOfItsVersion, InstallAlone DEF Directory
<1>2. ASSUME NEW r \in Readers, NEW v \in Versions, Request(r, v) PROVE Directory'
  BY <1>0, <1>2, ActsTyped, DirectoryStays DEF Request, disk, history
<1>3. ASSUME NEW r \in Readers, ReadVerified(r) \/ ReadPlugin(r) \/ Serve(r) PROVE Directory'
  BY <1>0, <1>3, DirectoryStays DEF ReadVerified, ReadPlugin, Serve, disk, history
<1>4. CASE Administration
  <2>1. UNCHANGED <<tree, meta, inst, faults, overlapped, asked>> /\ Act
    BY <1>4 DEF Administration, Disable, Enable, installToStaging, rollbackProduction,
                runStagingChecks, promoteStaging, disk, history
  <2> QED BY <1>0, <2>1, ActsTyped, DirectoryStays
<1>5. CASE UNCHANGED vars
  BY <1>0, <1>5, DirectoryStays DEF vars
<1> QED BY <1>1, <1>2, <1>3, <1>4, <1>5 DEF Next

\* A version that counts as verified is whole, as long as two installs have
\* not been putting it there at once: its verified.json is written last, and
\* nothing is taken away once it is there, whatever installs fail or are cut
\* off at any step, or look at the version meanwhile (installer.ts).
THEOREM VerifiedVersionsAreWhole == Spec => []VerifiedIsWhole
<1>1. Spec => []Directory
  BY DirectoryAtFirst, DirectoryInductive, PTL DEF Spec
<1> QED BY <1>1, DirectoryIsWhole, PTL

-----------------------------------------------------------------------------
(* Requests for assets.                                                    *)

RequestsTyped ==
    /\ req \in [Readers -> [pc : {"rest"}] \cup Requests]
    /\ \A r \in Readers : req[r].pc = "manifest" => req[r].todo # {}
    /\ disabled \subseteq Versions

\* A request under way has found what was verified of the versions it has
\* looked at, and what was disabled all along.
UnderWay(r) ==
    req[r].pc # "rest" =>
        /\ req[r].known \subseteq Verified
        /\ req[r].found \subseteq Verified
        /\ req[r].known \ req[r].todo \subseteq req[r].found
        /\ req[r].always \subseteq disabled
        /\ req[r].found \cap req[r].always \subseteq req[r].off
        /\ req[r].pc = "manifest" => Min(req[r].todo) \in Verified

\* What has been sent is right.
Answered(r) ==
    req[r].pc = "rest" /\ req[r] \in Requests /\ req[r].sent # None =>
            /\ req[r].version \in Verified /\ req[r].sent = meta[req[r].version]
            /\ req[r].version \notin req[r].always
            /\ \A newer \in req[r].known : newer <= req[r].version

Answers ==
    /\ RequestsTyped
    /\ overlapped = {} => \A r \in Readers : UnderWay(r) /\ Answered(r)

LEMMA AnswersAreVerified == Answers => ServedIsVerified
<1> SUFFICES ASSUME Answers, NEW r \in Readers,
                    req[r].pc = "rest", "sent" \in DOMAIN req[r], overlapped = {},
                    req[r].sent # None
             PROVE  /\ req[r].sent = meta[req[r].version]
                    /\ req[r].version \notin req[r].always
                    /\ \A newer \in req[r].known : newer <= req[r].version
  BY DEF ServedIsVerified
<1>1. req[r] \notin [pc : {"rest"}]
  OBVIOUS
<1>2. req[r] \in Requests
  BY <1>1 DEF Answers, RequestsTyped
<1> QED BY <1>2 DEF Answers, Answered

LEMMA AnswersAtFirst == Init => Answers
<1> SUFFICES ASSUME Init PROVE Answers
  OBVIOUS
<1>1. req = [r \in Readers |-> [pc |-> "rest"]] /\ disabled = {}
  BY DEF Init
<1>2. ASSUME NEW r \in Readers PROVE req[r] \notin Requests
  BY <1>1 DEF Requests
<1> QED BY <1>1, <1>2 DEF Answers, RequestsTyped, UnderWay, Answered

\* A version that installs have been putting there at once stays one.
LEMMA OverlappedStay ==
  ASSUME NEW i \in Installers, Install(i)
  PROVE  overlapped \subseteq overlapped'
<1>1. CASE Look(i)
  BY <1>1 DEF Look, Unpack
<1>2. CASE UNCHANGED overlapped
  BY <1>2
<1> QED BY <1>1, <1>2 DEF Install, Start, Download, ReadManifest, Extract, RemoveSome, RemoveAll,
       RemoveFails, Rename, RenameFails, OpenVerified, WriteVerified, Crash, history

\* What counts as verified stays as it is, as long as installs do not overlap.
LEMMA VerifiedStays ==
  ASSUME Directory, NEW i \in Installers, Install(i), overlapped' = {}, NEW v \in Verified
  PROVE  overlapped = {} /\ v \in Verified' /\ meta'[v] = meta[v]
<1>1. overlapped = {}
  BY OverlappedStay
<1>2. v \in Versions /\ meta[v] \in Artifacts /\ None \notin Artifacts /\ Torn \notin Artifacts
  BY StoreAssumption DEF Verified
<1>3. \A j \in Installers : ~Doing(j, v, {"verified", "write"})
  BY <1>1, <1>2 DEF Directory, Alone, Doing
<1>4. meta'[v] = meta[v]
  BY <1>2, <1>3 DEF Directory, DirectoryTyped, Doing, At, Version, disk,
         Install, Start, Download, Look, ReadManifest, Extract, RemoveSome, RemoveAll, RemoveFails,
         Rename, RenameFails, OpenVerified, WriteVerified, Crash
<1> QED BY <1>1, <1>2, <1>4 DEF Verified

LEMMA InstallKeepsAnswers ==
  ASSUME Directory, Answers, NEW i \in Installers, Install(i)
  PROVE  Answers'
<1>1. UNCHANGED <<req, disabled>>
  BY DEF Install, Start, Download, Look, ReadManifest, Extract, RemoveSome, RemoveAll, RemoveFails,
         Rename, RenameFails, OpenVerified, WriteVerified, Crash, disk
<1>2. RequestsTyped'
  BY <1>1 DEF Answers, RequestsTyped, Requests
<1>3. ASSUME overlapped' = {}, NEW r \in Readers PROVE UnderWay(r)' /\ Answered(r)'
  <2>1. overlapped = {}
    BY <1>3, OverlappedStay
  <2>2. UnderWay(r) /\ Answered(r)
    BY <2>1 DEF Answers
  <2>3. \A v \in Verified : v \in Verified' /\ meta'[v] = meta[v]
    BY <1>3, VerifiedStays
  <2> QED BY <1>1, <2>2, <2>3 DEF UnderWay, Answered, Requests
<1> QED BY <1>2, <1>3 DEF Answers

\* A step of one request.
LEMMA RequestSteps ==
  ASSUME Answers, NEW r \in Readers, NEW new \in Requests,
         req' = [req EXCEPT ![r] = new],
         UNCHANGED <<tree, meta, disabled, overlapped>>,
         new.pc = "manifest" => new.todo # {},
         overlapped = {} => UnderWay(r)' /\ Answered(r)'
  PROVE  Answers'
<1>1. Verified' = Verified
  BY DEF Verified
<1>2. RequestsTyped'
  BY DEF Answers, RequestsTyped, Requests
<1>3. ASSUME overlapped = {}, NEW q \in Readers, q # r PROVE UnderWay(q)' /\ Answered(q)'
  <2>1. req'[q] = req[q]
    BY <1>3 DEF Answers, RequestsTyped
  <2> QED BY <1>1, <1>3, <2>1 DEF Answers, UnderWay, Answered, Requests
<1> QED BY <1>2, <1>3 DEF Answers

LEMMA RequestKeepsAnswers ==
  ASSUME Directory, Answers, NEW r \in Readers, NEW v \in Versions, Request(r, v)
  PROVE  Answers'
<1> DEFINE new == [pc |-> "verified", version |-> v, todo |-> Versions, found |-> {}, off |-> {},
                   known |-> Verified, always |-> disabled, sent |-> None]
<1>1. new \in Requests
  BY DEF Requests, Verified, Answers, RequestsTyped
<1>2. req' = [req EXCEPT ![r] = new] /\ UNCHANGED <<tree, meta, disabled, overlapped>>
  BY DEF Request, disk, history
<1>3. req'[r] = new /\ Verified' = Verified
  BY <1>2 DEF Answers, RequestsTyped, Verified
<1>4. UnderWay(r)' /\ Answered(r)'
  BY <1>2, <1>3 DEF UnderWay, Answered, Verified
<1> QED BY <1>1, <1>2, <1>4, RequestSteps

LEMMA ReadVerifiedKeepsAnswers ==
  ASSUME Directory, Answers, NEW r \in Readers, ReadVerified(r)
  PROVE  Answers'
<1> DEFINE old == req[r]
           v   == Min(old.todo)
           new == IF meta[v] \in Artifacts THEN [old EXCEPT !.pc = "manifest"]
                  ELSE [old EXCEPT !.todo = @ \ {v}]
<1>1. old \in Requests /\ old.pc = "verified" /\ old.todo # {}
  BY DEF ReadVerified, Answers, RequestsTyped
<1>2. v \in old.todo /\ v \in Versions
  BY <1>1, MinIsLeast, StoreAssumption DEF Requests
<1>3. req' = [req EXCEPT ![r] = new] /\ UNCHANGED <<tree, meta, disabled, overlapped>>
  BY DEF ReadVerified, disk, history
<1>4. req'[r] = new /\ Verified' = Verified
  BY <1>3 DEF Answers, RequestsTyped, Verified
<1>5. CASE meta[v] \in Artifacts
  <2>1. new = [old EXCEPT !.pc = "manifest"] /\ v \in Verified
    BY <1>2, <1>5 DEF Verified
  <2>2. new \in Requests /\ new.pc = "manifest" /\ new.todo # {}
    BY <1>1, <2>1 DEF Requests
  <2>3. ASSUME overlapped = {} PROVE UnderWay(r)' /\ Answered(r)'
    <3>1. UnderWay(r)
      BY <2>3 DEF Answers
    <3> QED BY <1>1, <1>3, <1>4, <2>1, <3>1 DEF UnderWay, Answered, Requests
  <2> QED BY <1>3, <2>2, <2>3, RequestSteps
<1>6. CASE meta[v] \notin Artifacts
  <2>1. new = [old EXCEPT !.todo = @ \ {v}] /\ v \notin Verified
    BY <1>6 DEF Verified
  <2>2. new \in Requests /\ new.pc = "verified"
    BY <1>1, <2>1 DEF Requests
  <2>3. ASSUME overlapped = {} PROVE UnderWay(r)' /\ Answered(r)'
    <3>1. UnderWay(r)
      BY <2>3 DEF Answers
    <3> QED BY <1>1, <1>3, <1>4, <2>1, <3>1 DEF UnderWay, Answered, Requests
  <2> QED BY <1>3, <2>2, <2>3, RequestSteps
<1> QED BY <1>5, <1>6

LEMMA ReadPluginKeepsAnswers ==
  ASSUME Directory, Answers, NEW r \in Readers, ReadPlugin(r)
  PROVE  Answers'
<1> DEFINE old == req[r]
           v   == Min(old.todo)
<1>1. old \in Requests /\ old.pc = "manifest" /\ old.todo # {}
  BY DEF ReadPlugin, Answers, RequestsTyped
<1>2. v \in old.todo /\ v \in Versions
  BY <1>1, MinIsLeast, StoreAssumption DEF Requests
<1>3. PICK there \in BOOLEAN :
        /\ tree[v].whole => there
        /\ req' = [req EXCEPT ![r].pc = "verified", ![r].todo = @ \ {v},
                     ![r].found = IF there THEN @ \cup {v} ELSE @,
                     ![r].off = IF v \in disabled THEN @ \cup {v} ELSE @]
  BY DEF ReadPlugin
<1> DEFINE found == IF there THEN old.found \cup {v} ELSE old.found
           off   == IF v \in disabled THEN old.off \cup {v} ELSE old.off
           new   == [old EXCEPT !.pc = "verified", !.todo = @ \ {v}, !.found = found,
                                !.off = off]
<1>4. UNCHANGED <<tree, meta, disabled, overlapped>>
  BY DEF ReadPlugin, disk, history
<1>5. req' = [req EXCEPT ![r] = new]
  BY <1>3 DEF Answers, RequestsTyped
<1>6. req'[r] = new /\ Verified' = Verified
  BY <1>4, <1>5 DEF Answers, RequestsTyped, Verified
<1>7. found \subseteq Versions /\ off \subseteq Versions
  BY <1>1, <1>2 DEF Requests
<1>8. /\ new.pc = "verified" /\ new.todo = old.todo \ {v} /\ new.found = found /\ new.off = off
      /\ new.known = old.known /\ new.always = old.always
  BY <1>1 DEF Requests
<1>9. new \in Requests
  BY <1>1, <1>7 DEF Requests
<1>10. ASSUME overlapped = {} PROVE UnderWay(r)' /\ Answered(r)'
  <2>1. UnderWay(r)
    BY <1>10 DEF Answers
  <2>2. v \in Verified
    BY <1>1, <2>1 DEF UnderWay
  <2>3. there
    <3>1. tree[v] = [of |-> meta[v], whole |-> TRUE]
      BY <1>2, <1>10, <2>2 DEF Directory, Alone, Verified
    <3>2. tree[v].whole
      BY <3>1
    <3> QED BY <1>3, <3>2, Zenon
  <2>4. found = old.found \cup {v}
    BY <2>3
  <2> HIDE DEF new, found, off, old, v
  <2>5. UnderWay(r)'
    <3>1. old.known \ (old.todo \ {v}) \subseteq found /\ found \subseteq Verified
      BY <1>1, <2>1, <2>2, <2>4 DEF UnderWay, old
    <3>2. found \cap old.always \subseteq off
      BY <1>1, <2>1, <2>4 DEF UnderWay, off, old
    <3> QED BY <1>1, <1>4, <1>6, <1>8, <2>1, <3>1, <3>2 DEF UnderWay, old
  <2>6. Answered(r)'
    BY <1>6, <1>8 DEF Answered
  <2> QED BY <2>5, <2>6
<1> QED BY <1>4, <1>5, <1>8, <1>9, <1>10, RequestSteps

\* The version that is asked for is sent if it is the newest one found.
LEMMA ServeKeepsAnswers ==
  ASSUME Directory, Answers, NEW r \in Readers, Serve(r)
  PROVE  Answers'
<1> DEFINE old == req[r]
           v   == old.version
<1>1. old \in Requests /\ old.pc = "verified" /\ old.todo = {} /\ v \in Versions
  BY DEF Serve, Answers, RequestsTyped, Requests
<1>2. PICK sent \in {tree[v].of} \cup (IF tree[v].whole THEN {} ELSE {None}) :
        req' = [req EXCEPT ![r].pc = "rest",
                   ![r].sent = IF v \in Selected(old.found) \ old.off THEN sent ELSE None]
  BY DEF Serve
<1> DEFINE answer == IF v \in Selected(old.found) \ old.off THEN sent ELSE None
           new    == [old EXCEPT !.pc = "rest", !.sent = answer]
<1>3. UNCHANGED <<tree, meta, disabled, overlapped>>
  BY DEF Serve, disk, history
<1>4. req' = [req EXCEPT ![r] = new]
  BY <1>2 DEF Answers, RequestsTyped
<1>5. req'[r] = new /\ Verified' = Verified
  BY <1>3, <1>4 DEF Answers, RequestsTyped, Verified
<1>6. tree[v].of \in Artifacts \cup {None}
  BY <1>1 DEF Directory, DirectoryTyped
<1>7. answer \in Artifacts \cup {None}
  BY <1>6
<1>8. new \in Requests /\ new.pc = "rest" /\ new.version = v /\ new.sent = answer
      /\ new.known = old.known /\ new.always = old.always
  BY <1>1, <1>7 DEF Requests
<1>9. ASSUME overlapped = {} PROVE UnderWay(r)' /\ Answered(r)'
  <2>1. UnderWay(r)
    BY <1>9 DEF Answers
  <2>2. ASSUME answer # None
        PROVE  /\ v \in Verified /\ answer = meta[v] /\ v \notin old.always
               /\ \A newer \in old.known : newer <= v
    <3>1. v \in Selected(old.found) /\ v \notin old.off /\ answer = sent
      BY <2>2
    <3>2. old.found # {} /\ v = Max(old.found)
      BY <3>1 DEF Selected, Newest
    <3>3. IsFiniteSet(old.found) /\ old.found \subseteq Nat
      BY <1>1, FS_Subset, StoreAssumption DEF Requests
    <3>4. v \in old.found /\ \A y \in old.found : y <= v
      BY <3>2, <3>3, MaxIsGreatest
    <3>5. v \in Verified /\ old.known \subseteq old.found
      BY <1>1, <2>1, <3>4 DEF UnderWay
    <3>6. tree[v] = [of |-> meta[v], whole |-> TRUE]
      BY <1>9, <3>5 DEF Directory, Alone, Verified
    <3>7. sent = meta[v]
      BY <1>2, <3>6
    <3>8. v \notin old.always
      BY <1>1, <2>1, <3>1, <3>4 DEF UnderWay
    <3> QED BY <3>1, <3>4, <3>5, <3>7, <3>8
  <2> HIDE DEF new, answer, old, v
  <2> QED BY <1>3, <1>5, <1>8, <2>2 DEF UnderWay, Answered
<1> QED BY <1>3, <1>4, <1>8, <1>9, RequestSteps

\* An administrator disables and enables versions.
LEMMA AdministrationKeepsAnswers ==
  ASSUME Answers, Administration
  PROVE  Answers'
<1>1. ASSUME NEW v \in Versions, Disable(v) PROVE Answers'
  <2>1. /\ disabled' = disabled \cup {v} /\ UNCHANGED <<meta, req, overlapped>>
    BY <1>1 DEF Disable, history
  <2> QED BY <2>1 DEF Answers, RequestsTyped, UnderWay, Answered, Verified, Requests
<1>2. ASSUME NEW v \in Versions, Enable(v) PROVE Answers'
  <2>1. /\ disabled' = disabled \ {v} /\ UNCHANGED <<meta, overlapped>>
        /\ req' = [r \in Readers |->
                     IF req[r].pc = "rest" THEN req[r] ELSE [req[r] EXCEPT !.always = @ \ {v}]]
    BY <1>2 DEF Enable, history
  <2>2. Verified' = Verified
    BY <2>1 DEF Verified
  <2>3. ASSUME NEW r \in Readers, req[r].pc = "rest" PROVE req'[r] = req[r]
    BY <2>1, <2>3
  <2>4. ASSUME NEW r \in Readers, req[r].pc # "rest"
        PROVE  /\ req[r] \in Requests /\ req'[r] \in Requests
               /\ req'[r] = [req[r] EXCEPT !.always = @ \ {v}]
    <3>1. req[r] \in Requests
      BY <2>4 DEF Answers, RequestsTyped
    <3>2. req'[r] = [req[r] EXCEPT !.always = @ \ {v}]
      BY <2>1, <2>4
    <3> QED BY <3>1, <3>2 DEF Requests
  <2>5. RequestsTyped'
    <3>1. req' = [r \in Readers |-> req'[r]]
      BY <2>1
    <3>2. \A r \in Readers : req'[r] \in [pc : {"rest"}] \cup Requests
      BY <2>3, <2>4 DEF Answers, RequestsTyped
    <3>3. \A r \in Readers : req'[r].pc = "manifest" => req'[r].todo # {}
      BY <2>3, <2>4 DEF Answers, RequestsTyped, Requests
    <3> QED BY <2>1, <3>1, <3>2, <3>3 DEF Answers, RequestsTyped, Requests
  <2>6. ASSUME overlapped = {}, NEW r \in Readers PROVE UnderWay(r)' /\ Answered(r)'
    <3>1. UnderWay(r) /\ Answered(r)
      BY <2>6 DEF Answers
    <3>2. CASE req[r].pc = "rest"
      BY <2>1, <2>2, <2>3, <3>1, <3>2 DEF UnderWay, Answered, Requests
    <3>3. CASE req[r].pc # "rest"
      BY <2>1, <2>2, <2>4, <3>1, <3>3 DEF UnderWay, Answered, Requests
    <3> QED BY <3>2, <3>3
  <2> QED BY <2>1, <2>5, <2>6 DEF Answers
<1>3. CASE UNCHANGED <<disk, req, history>>
  BY <1>3 DEF disk, history, Answers, RequestsTyped, UnderWay, Answered, Verified, Requests
<1> QED BY <1>1, <1>2, <1>3 DEF Administration, installToStaging, rollbackProduction,
           runStagingChecks, promoteStaging

LEMMA AnswersInductive == Directory /\ Answers /\ [Next]_vars => Answers'
<1> SUFFICES ASSUME Directory, Answers, [Next]_vars PROVE Answers'
  OBVIOUS
<1>1. CASE UNCHANGED vars
  BY <1>1 DEF vars, Answers, RequestsTyped, UnderWay, Answered, Verified, Requests
<1> QED BY <1>1, InstallKeepsAnswers, RequestKeepsAnswers, ReadVerifiedKeepsAnswers,
           ReadPluginKeepsAnswers, ServeKeepsAnswers, AdministrationKeepsAnswers DEF Next

\* As long as installs have not overlapped, an asset that is sent is of the
\* verified artifact of the newest version, which was not disabled all along
\* (plugin-asset-routes.ts).
THEOREM AnswersAreOfVerified == Spec => []ServedIsVerified
<1>1. Spec => []Directory
  BY DirectoryAtFirst, DirectoryInductive, PTL DEF Spec
<1>2. Spec => []Answers
  BY <1>1, AnswersAtFirst, AnswersInductive, PTL DEF Spec
<1> QED BY <1>2, AnswersAreVerified, PTL

-----------------------------------------------------------------------------
(* Sequences of records.                                                   *)

\* The numbers of a finite set can be put in their order: of the sets that
\* cannot, the smallest could, once the rest of it is.
LEMMA HasOrder ==
  ASSUME NEW S, S \subseteq Nat, IsFiniteSet(S)
  PROVE  \E seq \in [1..Cardinality(S) -> S] : \A i, j \in DOMAIN seq : i < j => seq[i] < seq[j]
<1> DEFINE Orders(U) == {seq \in [1..Cardinality(U) -> U] :
                           \A i, j \in 1..Cardinality(U) : i < j => seq[i] < seq[j]}
           Sizes == {n \in Nat : \E U \in SUBSET S : Cardinality(U) = n /\ Orders(U) = {}}
<1>1. ASSUME Sizes # {} PROVE FALSE
  <2>1. PICK n \in Sizes : \A m \in Sizes : n <= m
    BY <1>1, HasLeast
  <2>2. PICK U \in SUBSET S : Cardinality(U) = n /\ Orders(U) = {}
    BY <2>1
  <2>3. IsFiniteSet(U)
    BY FS_Subset
  <2>4. CASE n = 0
    <3>1. U = {}
      BY <2>2, <2>3, <2>4, FS_EmptySet
    <3>2. [i \in 1..0 |-> i] \in Orders(U)
      BY <2>2, <2>4, <3>1
    <3> QED BY <2>2, <3>2
  <2>5. CASE n # 0
    <3> DEFINE m == Max(U)
               T == U \ {m}
    <3>1. U # {}
      BY <2>2, <2>5, FS_EmptySet
    <3>2. m \in U /\ \A y \in U : y <= m
      BY <2>3, <3>1, MaxIsGreatest
    <3>3. IsFiniteSet(T) /\ Cardinality(T) = n - 1
      BY <2>2, <2>3, <3>2, FS_RemoveElement
    <3>4. n - 1 \in Nat
      BY <2>5
    <3>5. Orders(T) # {}
      <4>1. n - 1 \notin Sizes
        BY <2>1, <3>4
      <4>2. T \in SUBSET S
        OBVIOUS
      <4> QED BY <3>3, <3>4, <4>1, <4>2
    <3>6. PICK o \in [1..(n - 1) -> T] : \A i, j \in 1..(n - 1) : i < j => o[i] < o[j]
      BY <3>3, <3>5
    <3> DEFINE seq == [k \in 1..n |-> IF k = n THEN m ELSE o[k]]
    <3> HIDE DEF m
    <3>7. seq \in [1..n -> U]
      BY <3>2, <3>4, <3>6
    <3>8. ASSUME NEW i \in 1..n, NEW j \in 1..n, i < j PROVE seq[i] < seq[j]
      <4>1. i \in 1..(n - 1) /\ seq[i] = o[i] /\ o[i] \in T
        BY <3>4, <3>6, <3>8
      <4>2. CASE j = n
        <5>1. seq[j] = m /\ m \in Nat /\ o[i] \in Nat /\ o[i] # m /\ o[i] <= m
          BY <3>2, <4>1, <4>2
        <5> QED BY <4>1, <5>1
      <4>3. CASE j # n
        BY <3>4, <3>6, <3>8, <4>1, <4>3
      <4> QED BY <4>2, <4>3
    <3>9. seq \in Orders(U)
      BY <2>2, <3>7, <3>8
    <3> QED BY <2>2, <3>9
  <2> QED BY <2>4, <2>5
<1>2. Cardinality(S) \in Nat
  BY FS_CardinalityType
<1>3. Orders(S) # {}
  BY <1>1, <1>2
<1> QED BY <1>3

\* In order, every number of the set is there.
LEMMA InOrderIsOrdered ==
  ASSUME NEW S, S \subseteq Nat, IsFiniteSet(S)
  PROVE  /\ Cardinality(S) \in Nat
         /\ InOrder(S) \in [1..Cardinality(S) -> S]
         /\ \A i, j \in 1..Cardinality(S) : i < j => InOrder(S)[i] < InOrder(S)[j]
         /\ \A x \in S : \E i \in 1..Cardinality(S) : InOrder(S)[i] = x
<1> DEFINE n == Cardinality(S)
           o == InOrder(S)
<1>1. n \in Nat
  BY FS_CardinalityType
<1>2. o \in [1..n -> S] /\ \A i, j \in 1..n : i < j => o[i] < o[j]
  BY HasOrder DEF InOrder
<1> HIDE DEF o, n
<1>3. ASSUME NEW i \in 1..n, NEW j \in 1..n, o[i] = o[j] PROVE i = j
  <2>1. o[i] \in S /\ o[j] \in S /\ i \in Int /\ j \in Int
    BY <1>2
  <2>2. o[i] \in Nat
    BY <2>1
  <2>3. ~(i < j) /\ ~(j < i)
    BY <1>2, <1>3, <2>2
  <2> QED BY <2>1, <2>3
<1>4. o \in Injection(1..n, S)
  BY <1>2, <1>3 DEF Injection, IsInjective
<1>5. Cardinality(1..n) = n
  BY <1>1, FS_Interval
<1>6. o \in Surjection(1..n, S)
  BY <1>4, <1>5, FS_Injection DEF n
<1>7. \A x \in S : \E i \in 1..n : o[i] = x
  BY <1>6 DEF Surjection
<1> QED BY <1>1, <1>2, <1>7 DEF o, n

\* What is kept of some records: the first of a version, among them the first
\* of all.
LEMMA OlderAreLeftOut ==
  ASSUME NEW records \in Seq(Records)
  PROVE  LET kept == WithoutOlder(records)
         IN  /\ kept \in Seq(Records)
             /\ \A i \in DOMAIN kept : \E k \in Firsts(records) : kept[i] = records[k]
             /\ records # <<>> => kept # <<>> /\ kept[1] = records[1]
<1> DEFINE F    == Firsts(records)
           o    == InOrder(F)
           n    == Cardinality(F)
           kept == WithoutOlder(records)
<1>1. F \subseteq 1..Len(records)
  BY DEF Firsts
<1>2. IsFiniteSet(F) /\ F \subseteq Nat
  BY <1>1, FS_Interval, FS_Subset
<1>3. /\ n \in Nat /\ o \in [1..n -> F]
      /\ \A i, j \in 1..n : i < j => o[i] < o[j]
      /\ \A x \in F : \E i \in 1..n : o[i] = x
  BY <1>2, InOrderIsOrdered
<1>4. kept = [i \in 1..n |-> records[o[i]]]
  BY <1>3 DEF WithoutOlder
<1> HIDE DEF F, o, n, kept
<1>5. \A i \in 1..n : o[i] \in F /\ o[i] \in 1..Len(records)
  BY <1>1, <1>3
<1>6. kept \in Seq(Records) /\ Len(kept) = n
  BY <1>3, <1>4, <1>5
<1>7. ASSUME records # <<>> PROVE kept # <<>> /\ kept[1] = records[1]
  <2>1. 1 \in F
    BY <1>7 DEF F, Firsts
  <2>2. PICK i \in 1..n : o[i] = 1
    BY <1>3, <2>1
  <2>3. i = 1
    <3>1. SUFFICES ASSUME 1 < i PROVE FALSE
      BY <1>3
    <3>2. 1 \in 1..n /\ o[1] \in 1..Len(records) /\ o[1] < o[i]
      BY <1>3, <1>5, <3>1
    <3> QED BY <2>2, <3>2
  <2> QED BY <1>4, <1>6, <2>2, <2>3
<1> QED BY <1>4, <1>5, <1>6, <1>7 DEF kept, F

\* Truncated records are the first of them.
LEMMA TruncatedIsPrefix ==
  ASSUME NEW records \in Seq(Records)
  PROVE  LET short == Truncated(records)
         IN  /\ short \in Seq(Records) /\ Len(short) <= MaxRetained /\ Len(short) <= Len(records)
             /\ \A i \in 1..Len(short) : short[i] = records[i]
             /\ records # <<>> => short # <<>>
             /\ Firsts(short) \subseteq Firsts(records)
<1> DEFINE n == Min({MaxRetained, Len(records)})
           short == Truncated(records)
<1>1. MaxRetained \in Nat \ {0} /\ Len(records) \in Nat
  BY StoreAssumption
<1>2. n \in {MaxRetained, Len(records)} /\ n <= MaxRetained /\ n <= Len(records)
  BY <1>1, MinIsLeast
<1>3. short = SubSeq(records, 1, n)
  BY DEF Truncated
<1> HIDE DEF n, short
<1>4. short \in Seq(Records) /\ Len(short) = n /\ \A i \in 1..n : short[i] = records[i]
  BY <1>1, <1>2, <1>3
<1>5. records # <<>> => short # <<>>
  BY <1>1, <1>2, <1>4
<1>6. Firsts(short) \subseteq Firsts(records)
  <2> SUFFICES ASSUME NEW i \in Firsts(short) PROVE i \in Firsts(records)
    OBVIOUS
  <2>1. i \in 1..n /\ \A j \in 1..(i - 1) : short[j].version # short[i].version
    BY <1>4 DEF Firsts
  <2>2. i \in DOMAIN records /\ \A j \in 1..i : j \in 1..n
    BY <1>1, <1>2, <2>1
  <2> QED BY <1>1, <1>2, <1>4, <2>1, <2>2 DEF Firsts
<1> QED BY <1>1, <1>2, <1>4, <1>5, <1>6 DEF short

LEMMA RemovedElement ==
  ASSUME NEW records \in Seq(Records), NEW t \in 1..Len(records)
  PROVE  LET rest == RemoveAt(records, t)
         IN  /\ rest \in Seq(Records) /\ Len(rest) = Len(records) - 1
             /\ \A i \in 1..Len(rest) : rest[i] = IF i < t THEN records[i] ELSE records[i + 1]
<1> DEFINE front == SubSeq(records, 1, t - 1)
           back  == SubSeq(records, t + 1, Len(records))
<1>1. front \in Seq(Records) /\ Len(front) = t - 1 /\ \A i \in 1..(t - 1) : front[i] = records[i]
  OBVIOUS
<1>2. /\ back \in Seq(Records) /\ Len(back) = Len(records) - t
      /\ \A i \in 1..(Len(records) - t) : back[i] = records[i + t]
  OBVIOUS
<1>3. RemoveAt(records, t) = front \o back
  BY DEF RemoveAt
<1> HIDE DEF front, back
<1>4. /\ front \o back \in Seq(Records) /\ Len(front \o back) = Len(records) - 1
      /\ \A i \in 1..(t - 1) : (front \o back)[i] = front[i]
      /\ \A i \in t..(Len(records) - 1) : (front \o back)[i] = back[i - Len(front)]
  <2>1. \A i \in 1..(Len(front) + Len(back)) :
           (front \o back)[i] = IF i <= Len(front) THEN front[i] ELSE back[i - Len(front)]
    BY <1>1, <1>2, ConcatProperties
  <2>2. front \o back \in Seq(Records) /\ Len(front \o back) = Len(front) + Len(back)
    BY <1>1, <1>2, ConcatProperties
  <2>3. Len(front) = t - 1 /\ Len(front) + Len(back) = Len(records) - 1
    BY <1>1, <1>2
  <2>4. \A i \in 1..(t - 1) : (front \o back)[i] = front[i]
    BY <2>1, <2>3
  <2>5. \A i \in t..(Len(records) - 1) : (front \o back)[i] = back[i - Len(front)]
    BY <2>1, <2>3
  <2> QED BY <2>2, <2>3, <2>4, <2>5
<1>5. \A i \in t..(Len(records) - 1) :
        i - Len(front) \in 1..(Len(records) - t) /\ i - Len(front) + t = i + 1
  BY <1>1
<1> QED BY <1>1, <1>2, <1>3, <1>4, <1>5

-----------------------------------------------------------------------------
(* Staging and production.                                                 *)

DeploymentTyped ==
    /\ staging # None => staging \in [version : Versions, disabled : BOOLEAN, checks : Checks]
    /\ active # None => active \in Records
    /\ retained \in Seq(Records) /\ Len(retained) <= MaxRetained
    /\ past \in Seq(Records)

\* It is the last record of its version.
LastOfVersion(record, records) ==
    \E k \in DOMAIN records :
        /\ records[k] = record
        /\ \A j \in DOMAIN records : records[j].version = record.version => j <= k

\* Of every version but the one in production, the record that comes first is
\* the one production had last.
Deployment ==
    /\ DeploymentTyped
    /\ active = None => retained = <<>> /\ past = <<>>
    /\ past # <<>> => retained # <<>> /\ retained[1] = past[Len(past)]
    /\ \A i \in Firsts(retained) :
          retained[i].version # active.version => LastOfVersion(retained[i], past)

LEMMA DeploymentRollsBack == Deployment => RollsBackToLast
<1> SUFFICES ASSUME Deployment PROVE RollsBackToLast
  OBVIOUS
<1>1. retained \in Seq(Records) /\ past \in Seq(Records)
  BY DEF Deployment, DeploymentTyped
<1>2. past # <<>> => retained # <<>> /\ Head(retained) = Last(past)
  BY <1>1 DEF Deployment, Last
<1>3. ASSUME NEW i \in Firsts(retained), retained[i].version # active.version
      PROVE  retained[i] = past[Max({j \in DOMAIN past : past[j].version = retained[i].version})]
  <2> DEFINE S == {j \in DOMAIN past : past[j].version = retained[i].version}
  <2>1. PICK k \in DOMAIN past :
          past[k] = retained[i] /\ \A j \in DOMAIN past : past[j].version = retained[i].version => j <= k
    BY <1>3 DEF Deployment, LastOfVersion
  <2>2. S \subseteq 1..Len(past) /\ k \in S
    BY <1>1, <2>1
  <2>3. IsFiniteSet(S) /\ S \subseteq Nat
    <3>1. Len(past) \in Nat /\ IsFiniteSet(1..Len(past))
      BY <1>1, FS_Interval
    <3> QED BY <2>2, <3>1, FS_Subset
  <2>4. Max(S) \in S /\ \A y \in S : y <= Max(S)
    BY <2>2, <2>3, MaxIsGreatest
  <2>5. Max(S) <= k /\ k <= Max(S)
    BY <2>1, <2>2, <2>4
  <2>6. Max(S) = k
    BY <2>2, <2>3, <2>4, <2>5
  <2> QED BY <2>1, <2>6
<1> QED BY <1>2, <1>3 DEF RollsBackToLast

LEMMA DeploymentAtFirst == Init => Deployment
  BY StoreAssumption DEF Init, Deployment, DeploymentTyped, Firsts

\* A record that is appended is the last of its version, those of the others
\* stay.
LEMMA LastStays ==
  ASSUME NEW records \in Seq(Records), NEW new \in Records
  PROVE  /\ LastOfVersion(new, Append(records, new))
         /\ \A record \in Records :
               LastOfVersion(record, records) /\ record.version # new.version =>
                   LastOfVersion(record, Append(records, new))
<1>1. /\ Append(records, new) \in Seq(Records)
      /\ Len(Append(records, new)) = Len(records) + 1
      /\ Append(records, new)[Len(records) + 1] = new
      /\ \A i \in 1..Len(records) : Append(records, new)[i] = records[i]
  OBVIOUS
<1>2. LastOfVersion(new, Append(records, new))
  BY <1>1 DEF LastOfVersion
<1>3. ASSUME NEW record \in Records, LastOfVersion(record, records), record.version # new.version
      PROVE  LastOfVersion(record, Append(records, new))
  <2>1. PICK k \in DOMAIN records :
          /\ records[k] = record
          /\ \A j \in DOMAIN records : records[j].version = record.version => j <= k
    BY <1>3 DEF LastOfVersion
  <2>2. \A j \in 1..(Len(records) + 1) :
           Append(records, new)[j].version = record.version => j \in 1..Len(records)
    BY <1>1, <1>3
  <2> QED BY <1>1, <2>1, <2>2 DEF LastOfVersion
<1> QED BY <1>2, <1>3

\* Something else is in production now, and what was there is the first record
\* kept.
LEMMA Deployed ==
  ASSUME Deployment, active # None, NEW records \in Seq(Records),
         records # <<>>, records[1] = active,
         \A i \in Firsts(records) :
             /\ records[i].version # active.version
             /\ records[i].version # active'.version
             => LastOfVersion(records[i], past),
         active' \in Records, past' = Append(past, active), retained' = Truncated(records),
         staging' # None => staging' \in [version : Versions, disabled : BOOLEAN, checks : Checks]
  PROVE  Deployment'
<1>1. active \in Records /\ past \in Seq(Records)
  BY DEF Deployment, DeploymentTyped
<1>2. /\ retained' \in Seq(Records) /\ Len(retained') <= MaxRetained
      /\ \A i \in 1..Len(retained') : retained'[i] = records[i]
      /\ Len(retained') <= Len(records)
      /\ retained' # <<>> /\ Firsts(retained') \subseteq Firsts(records)
  BY TruncatedIsPrefix
<1>3. /\ past' \in Seq(Records) /\ Len(past') = Len(past) + 1 /\ past'[Len(past) + 1] = active
  BY <1>1
<1>4. retained'[1] = past'[Len(past')]
  <2>1. 1 \in 1..Len(retained')
    BY <1>2
  <2> QED BY <1>2, <1>3, <2>1
<1>5. ASSUME NEW i \in Firsts(retained'), retained'[i].version # active'.version
      PROVE  LastOfVersion(retained'[i], past')
  <2>1. i \in Firsts(records) /\ i \in 1..Len(retained') /\ retained'[i] = records[i]
    BY <1>2, <1>5 DEF Firsts
  <2>2. i \in 1..Len(records) /\ records[i] \in Records
    BY <1>2, <2>1
  <2>3. CASE i = 1
    BY <1>1, <2>1, <2>3, LastStays
  <2>4. CASE i # 1
    <3>1. 1 \in 1..(i - 1)
      BY <2>2, <2>4
    <3>2. records[i].version # active.version
      BY <2>1, <3>1 DEF Firsts
    <3>3. LastOfVersion(records[i], past)
      BY <1>5, <2>1, <3>2
    <3> QED BY <1>1, <2>1, <2>2, <3>2, <3>3, LastStays
  <2> QED BY <2>3, <2>4
<1>6. active' # None
  BY StoreAssumption
<1>7. DeploymentTyped'
  BY <1>2, <1>3 DEF DeploymentTyped
<1> QED BY <1>2, <1>4, <1>5, <1>6, <1>7 DEF Deployment, Firsts

LEMMA PromotionKeepsDeployment ==
  ASSUME Deployment, NEW override \in BOOLEAN, promoteStaging(override)
  PROVE  Deployment'
<1>1. /\ staging # None /\ staging' = None /\ active' = Production(staging)
      /\ past' = IF active = None THEN past ELSE Append(past, active)
      /\ retained' = IF active = None THEN retained ELSE Retained(active, retained)
  BY DEF promoteStaging, Deploy
<1>2. active' \in Records
  BY <1>1 DEF Deployment, DeploymentTyped, Production, Records
<1>3. CASE active = None
  BY <1>1, <1>2, <1>3, StoreAssumption DEF Deployment, DeploymentTyped, Firsts
<1>4. CASE active # None
  <2> DEFINE all  == <<active>> \o retained
             kept == WithoutOlder(all)
  <2>1. active \in Records /\ retained \in Seq(Records)
    BY <1>4 DEF Deployment, DeploymentTyped
  <2>2. /\ all \in Seq(Records) /\ all # <<>> /\ all[1] = active /\ Len(all) = Len(retained) + 1
        /\ \A i \in 2..(Len(retained) + 1) : all[i] = retained[i - 1]
    BY <2>1
  <2>3. /\ kept \in Seq(Records) /\ kept # <<>> /\ kept[1] = active
        /\ \A i \in DOMAIN kept : \E k \in Firsts(all) : kept[i] = all[k]
    BY <2>2, OlderAreLeftOut
  <2> HIDE DEF all, kept
  <2>4. ASSUME NEW i \in Firsts(kept), kept[i].version # active.version
        PROVE  LastOfVersion(kept[i], past)
    <3>1. PICK k \in Firsts(all) : kept[i] = all[k]
      BY <2>3 DEF Firsts
    <3>2. k \in 2..(Len(retained) + 1) /\ all[k] = retained[k - 1]
      BY <2>1, <2>2, <2>4, <3>1 DEF Firsts
    <3>3. k - 1 \in DOMAIN retained
      BY <2>1, <3>2
    <3>4. ASSUME NEW j \in 1..(k - 1 - 1) PROVE retained[j].version # retained[k - 1].version
      <4>1. j + 1 \in 1..(k - 1) /\ j + 1 \in 2..(Len(retained) + 1) /\ j + 1 - 1 = j
        BY <2>1, <3>2
      <4>2. all[j + 1] = retained[j]
        BY <2>2, <4>1
      <4> QED BY <3>1, <3>2, <4>1, <4>2 DEF Firsts
    <3>5. k - 1 \in Firsts(retained)
      BY <3>3, <3>4 DEF Firsts
    <3> QED BY <2>4, <3>1, <3>2, <3>5 DEF Deployment
  <2>5. retained' = Truncated(kept) /\ past' = Append(past, active)
    BY <1>1, <1>4 DEF Retained, all, kept
  <2> QED BY <1>1, <1>2, <1>4, <2>3, <2>4, <2>5, Deployed
<1> QED BY <1>3, <1>4

LEMMA RollbackKeepsDeployment ==
  ASSUME Deployment, NEW v \in Versions, rollbackProduction(v)
  PROVE  Deployment'
<1> DEFINE targets == {i \in DOMAIN retained : retained[i].version = v}
           t       == Min(targets)
           rest    == RemoveAt(retained, t)
<1>1. /\ targets # {} /\ staging' = staging /\ active' = retained[t]
      /\ past' = IF active = None THEN past ELSE Append(past, active)
      /\ retained' = Truncated(IF active = None THEN rest ELSE <<active>> \o rest)
  BY DEF rollbackProduction, Deploy
<1>2. retained \in Seq(Records)
  BY DEF Deployment, DeploymentTyped
<1>3. t \in targets
  <2>1. targets \subseteq Nat
    BY <1>2
  <2> QED BY <1>1, <2>1, MinIsLeast
<1>4. t \in 1..Len(retained) /\ retained[t].version = v /\ retained[t] \in Records
  BY <1>2, <1>3
<1>5. active # None
  BY <1>2, <1>4 DEF Deployment
<1>6. active \in Records
  BY <1>5 DEF Deployment, DeploymentTyped
<1>7. /\ rest \in Seq(Records) /\ Len(rest) = Len(retained) - 1
      /\ \A i \in 1..Len(rest) : rest[i] = IF i < t THEN retained[i] ELSE retained[i + 1]
  BY <1>2, <1>4, RemovedElement
<1> DEFINE all == <<active>> \o rest
<1> HIDE DEF targets, t, rest
<1>8. /\ all \in Seq(Records) /\ all # <<>> /\ all[1] = active /\ Len(all) = Len(retained)
      /\ \A i \in 2..Len(retained) : all[i] = rest[i - 1]
  BY <1>2, <1>4, <1>6, <1>7
<1> HIDE DEF all
<1>9. ASSUME NEW i \in Firsts(all), all[i].version # active.version, all[i].version # v
      PROVE  LastOfVersion(all[i], past)
  <2>1. i \in 2..Len(retained) /\ all[i] = rest[i - 1]
    BY <1>2, <1>8, <1>9 DEF Firsts
  <2> DEFINE k == IF i - 1 < t THEN i - 1 ELSE i
  <2>2. i - 1 \in 1..Len(rest) /\ k \in 1..Len(retained)
    BY <1>2, <1>7, <2>1
  <2>3. all[i] = retained[k]
    BY <1>2, <1>7, <2>1, <2>2
  <2>4. ASSUME NEW j \in 1..(k - 1), retained[j].version = retained[k].version PROVE FALSE
    <3>1. j # t
      BY <1>4, <1>9, <2>3, <2>4
    <3> DEFINE m == IF j < t THEN j + 1 ELSE j
    <3>2. m \in 2..Len(retained) /\ m \in 1..(i - 1)
      BY <1>2, <1>4, <2>1, <2>2, <3>1
    <3>3. all[m] = retained[j]
      <4>1. CASE j < t
        BY <1>2, <1>4, <1>7, <1>8, <3>2, <4>1
      <4>2. CASE j > t
        BY <1>2, <1>4, <1>7, <1>8, <3>2, <4>2
      <4> QED BY <1>2, <1>4, <2>2, <3>1, <4>1, <4>2
    <3> QED BY <2>3, <2>4, <3>2, <3>3 DEF Firsts
  <2>5. k \in Firsts(retained)
    BY <1>2, <2>2, <2>4 DEF Firsts
  <2> QED BY <1>9, <2>3, <2>5 DEF Deployment
<1>10. /\ active' \in Records /\ active'.version = v
       /\ past' = Append(past, active) /\ retained' = Truncated(all)
  BY <1>1, <1>4, <1>5 DEF all
<1>11. staging' # None => staging' \in [version : Versions, disabled : BOOLEAN, checks : Checks]
  BY <1>1 DEF Deployment, DeploymentTyped
<1> QED BY <1>5, <1>8, <1>9, <1>10, <1>11, Deployed

LEMMA DeploymentInductive == Deployment /\ [Next]_vars => Deployment'
<1> SUFFICES ASSUME Deployment, [Next]_vars PROVE Deployment'
  OBVIOUS
<1>1. CASE UNCHANGED deploy
  BY <1>1 DEF deploy, Deployment, DeploymentTyped, Firsts, LastOfVersion
<1>2. ASSUME NEW v \in Versions, installToStaging(v) PROVE Deployment'
  <2>1. /\ staging' = [version |-> v, disabled |-> v \in disabled, checks |-> "none"]
        /\ UNCHANGED <<active, retained, past>>
    BY <1>2 DEF installToStaging
  <2>2. staging' \in [version : Versions, disabled : BOOLEAN, checks : Checks]
    BY <2>1 DEF Checks
  <2> QED BY <2>1, <2>2 DEF Deployment, DeploymentTyped, Firsts, LastOfVersion
<1>3. ASSUME NEW checks \in {"passed", "failed"}, runStagingChecks(checks) PROVE Deployment'
  <2>1. /\ staging # None /\ staging' = [staging EXCEPT !.checks = checks]
        /\ UNCHANGED <<active, retained, past>>
    BY <1>3 DEF runStagingChecks
  <2>2. staging \in [version : Versions, disabled : BOOLEAN, checks : Checks]
    BY <2>1 DEF Deployment, DeploymentTyped
  <2>3. staging' \in [version : Versions, disabled : BOOLEAN, checks : Checks]
    BY <2>1, <2>2 DEF Checks
  <2> QED BY <2>1, <2>3 DEF Deployment, DeploymentTyped, Firsts, LastOfVersion
<1>4. UNCHANGED deploy
      \/ (\E v \in Versions : installToStaging(v) \/ rollbackProduction(v))
      \/ (\E checks \in {"passed", "failed"} : runStagingChecks(checks))
      \/ (\E override \in BOOLEAN : promoteStaging(override))
  BY ZenonT(60) DEF Next, vars, deploy, Install, Start, Download, Look, ReadManifest, Extract,
         RemoveSome, RemoveAll, RemoveFails, Rename, RenameFails, OpenVerified, WriteVerified, Crash, Request,
         ReadVerified, ReadPlugin, Serve, Administration, Disable, Enable
<1> QED BY <1>1, <1>2, <1>3, <1>4, PromotionKeepsDeployment, RollbackKeepsDeployment

\* Rolling back to a version brings back what production had of it last, and
\* what it had before can always be gone back to (staging-runtime.ts).
THEOREM RollbackIsToLast == Spec => []RollsBackToLast
<1>1. Spec => []Deployment
  BY DeploymentAtFirst, DeploymentInductive, PTL DEF Spec
<1> QED BY <1>1, DeploymentRollsBack, PTL

\* Every variable has its type, and no more records are kept than are to be.
THEOREM TypeCorrect == Spec => []TypeOK
<1>1. Spec => []Directory
  BY DirectoryAtFirst, DirectoryInductive, PTL DEF Spec
<1>2. Spec => []Answers
  BY <1>1, AnswersAtFirst, AnswersInductive, PTL DEF Spec
<1>3. Spec => []Deployment
  BY DeploymentAtFirst, DeploymentInductive, PTL DEF Spec
<1>4. Directory /\ Answers /\ Deployment => TypeOK
  BY DEF Directory, DirectoryTyped, Answers, RequestsTyped, Deployment, DeploymentTyped, TypeOK
<1> QED BY <1>1, <1>2, <1>3, <1>4, PTL

=============================================================================
