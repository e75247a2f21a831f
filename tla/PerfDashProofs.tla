--------------------------- MODULE PerfDashProofs ---------------------------
(***************************************************************************)
(* Proofs about PerfDash, for every set of jobs and configurations and any *)
(* number of builds and fetches: what is served is one whole fetch.        *)
(***************************************************************************)
EXTENDS PerfDash, FiniteSetTheorems, TLAPS

-----------------------------------------------------------------------------
(* The inductive invariant.                                                *)

(* Builds of a job a fetch has still to deal with: listed and not read, or *)
(* being parsed.                                                           *)
Unread(j)     == { todo[j][i] : i \in 1 .. Len(todo[j]) }
Parsed(j)     == IF parsing[j].at = "no" THEN {} ELSE {parsing[j].build}

(* Every listed build is unread, being parsed, shown or skipped; the newer *)
(* are dealt with first, so that none is dealt with twice.                 *)
FetchOf(j) ==
    /\ parsing[j].at = "no" => parsing[j] = NotParsing
    /\ loop \in {"fetch", "sleep"} \/ todo[j] = NotListed => parsing[j] = NotParsing
    /\ todo[j] = NotListed => listed[j] = {}
    /\ listed[j] \subseteq 1 .. Len(bucket[j])
    /\ todo[j] # NotListed =>
          /\ Unread(j) \subseteq listed[j]
          /\ \A i, k \in 1 .. Len(todo[j]) : i < k => todo[j][i] > todo[j][k]
    /\ parsing[j].at # "no" => /\ prefix[j] \in DOMAIN result
                               /\ parsing[j].build \in listed[j]
                               /\ \A c \in Unread(j) : parsing[j].build > c
    /\ \A b \in listed[j] :
          b \in Unread(j) \cup Parsed(j) \/ <<j, b>> \in skipped \cup Shown(result)

FetchInv == \A j \in Jobs : FetchOf(j)

(* Where a build is shown, it was listed, and is newer than what is left.  *)
ShownInv ==
    /\ skipped \cap Shown(result) = {}
    /\ \A x \in skipped \cup Shown(result) :
          /\ x \in Jobs \X Nat /\ x[2] \in listed[x[1]]
          /\ \A c \in Unread(x[1]) \cup Parsed(x[1]) : x[2] > c

(* One job writes to the BuildData of prefix p.                            *)
Sole(p) == \A j, k \in Jobs : prefix[j] = p /\ prefix[k] = p => j = k

(* A build is shown once, under the prefix of its job; the builds of a     *)
(* prefix of one job have its version.                                     *)
ItemsOf(p) ==
    /\ \A i \in 1 .. Len(result[p].items) : prefix[result[p].items[i][1]] = p
    /\ \A i, k \in 1 .. Len(result[p].items) : result[p].items[i] = result[p].items[k] => i = k
    /\ Sole(p) =>
          /\ \A i \in 1 .. Len(result[p].items) :
                VersionOf(result[p].items[i]) = result[p].Version
          /\ \A j \in Jobs : prefix[j] = p /\ parsing[j].at = "set" => result[p].Version = ""

ItemsInv == \A p \in DOMAIN result : ItemsOf(p)

(* What is served is a whole fetch, of builds that are in the bucket.      *)
ServedInv ==
    served.present => /\ Whole(served.data, expected)
                      /\ \A j \in Jobs : expected.listed[j] \subseteq 1 .. Len(bucket[j])

IndInv == DashTypeOK /\ FetchInv /\ ShownInv /\ ItemsInv /\ ServedInv

-----------------------------------------------------------------------------
LEMMA ShownMember ==
    ASSUME NEW data, NEW x
    PROVE  x \in Shown(data) <=> \E p \in DOMAIN data : \E i \in 1 .. Len(data[p].items) :
                                    x = data[p].items[i]
BY DEF Shown

(* Entries of a result.                                                    *)
LEMMA ResultType ==
    ASSUME DashTypeOK, NEW p \in DOMAIN result
    PROVE  /\ result[p] \in BuildDatas /\ result[p].items \in Seq(Jobs \X Nat)
           /\ Len(result[p].items) \in Nat
           /\ \A i \in 1 .. Len(result[p].items) : result[p].items[i] \in Jobs \X Nat
<1>1. result[p] \in BuildDatas
  BY DEF DashTypeOK
<1>2. result[p].items \in Seq(Jobs \X Nat)
  BY <1>1 DEF BuildDatas
<1> QED
  BY <1>1, <1>2

(* Unread and Parsed of a job whose todo and parser do not change.         *)
LEMMA SameWork ==
    ASSUME NEW j, todo'[j] = todo[j], parsing'[j] = parsing[j]
    PROVE  Unread(j)' = Unread(j) /\ Parsed(j)' = Parsed(j)
BY DEF Unread, Parsed

(* What is left after the first build was taken.                           *)
LEMMA TakeFirst ==
    ASSUME DashTypeOK, FetchInv, NEW j \in Jobs, Fetching(j)
    PROVE  LET b == Head(todo[j])
               rest == { Tail(todo[j])[i] : i \in 1 .. Len(Tail(todo[j])) }
           IN  /\ b \in Nat /\ b \in listed[j] /\ Unread(j) = rest \cup {b}
               /\ \A c \in rest : b > c
               /\ Tail(todo[j]) \in Seq(Nat) /\ Tail(todo[j]) # NotListed
               /\ \A i, k \in 1 .. Len(Tail(todo[j])) :
                     i < k => Tail(todo[j])[i] > Tail(todo[j])[k]
               /\ parsing[j] = NotParsing /\ Parsed(j) = {}
<1> DEFINE s == todo[j]
           b == Head(s)
           t == Tail(s)
           rest == { t[i] : i \in 1 .. Len(t) }
<1>1. /\ s \in Seq(Nat) /\ s # << >> /\ s # NotListed
      /\ Unread(j) \subseteq listed[j]
      /\ \A i, k \in 1 .. Len(s) : i < k => s[i] > s[k]
      /\ listed[j] \subseteq 1 .. Len(bucket[j]) /\ parsing[j] = NotParsing
  BY DEF Fetching, FetchInv, FetchOf, DashTypeOK
<1>2. /\ b = s[1] /\ t \in Seq(Nat) /\ Len(t) = Len(s) - 1 /\ Len(s) \in Nat \ {0}
      /\ \A i \in 1 .. Len(t) : t[i] = s[i + 1]
  BY <1>1
<1> HIDE DEF b, t
<1>3. Unread(j) = rest \cup {b}
  <2>1. \A i \in 1 .. Len(s) : i = 1 \/ (i - 1 \in 1 .. Len(t) /\ s[i] = t[i - 1])
    BY <1>2
  <2>2. \A i \in 1 .. Len(t) : i + 1 \in 1 .. Len(s)
    BY <1>2
  <2>3. ASSUME NEW c PROVE c \in Unread(j) <=> c \in rest \/ c = b
    <3>1. c \in Unread(j) <=> \E i \in 1 .. Len(s) : c = s[i]
      BY DEF Unread
    <3>2. c \in rest <=> \E i \in 1 .. Len(t) : c = t[i]
      OBVIOUS
    <3>3. 1 \in 1 .. Len(s)
      BY <1>2
    <3> QED
      BY <1>2, <2>1, <2>2, <3>1, <3>2, <3>3
  <2> HIDE DEF rest
  <2> QED
    BY <2>3
<1>4. \A i, k \in 1 .. Len(t) : i < k => t[i] > t[k]
  BY <1>1, <1>2
<1>5. \A c \in rest : b > c
  <2> TAKE c \in rest
  <2>1. PICK i \in 1 .. Len(t) : c = t[i]
    OBVIOUS
  <2>2. 1 \in 1 .. Len(s) /\ i + 1 \in 1 .. Len(s) /\ 1 < i + 1
    BY <1>2
  <2>3. s[1] > s[i + 1]
    BY <1>1, <2>2
  <2> QED
    BY <1>2, <2>1, <2>3
<1>6. t # NotListed
  <2>1. 0 \notin rest
    <3>1. rest \subseteq listed[j] /\ 0 \notin 1 .. Len(bucket[j])
      BY <1>1, <1>3
    <3> QED
      BY <1>1, <3>1
  <2> QED
    <3>1. SUFFICES ASSUME t = NotListed PROVE FALSE
      OBVIOUS
    <3>2. 1 \in 1 .. Len(t) /\ t[1] = 0
      BY <3>1 DEF NotListed
    <3> QED
      BY <2>1, <3>2
<1>7. Parsed(j) = {}
  BY <1>1 DEF Parsed, NotParsing
<1>8. b \in Nat /\ b \in listed[j]
  BY <1>1, <1>2, <1>3
<1> QED
  BY <1>1, <1>2, <1>3, <1>4, <1>5, <1>6, <1>7, <1>8 DEF b, t

-----------------------------------------------------------------------------
LEMMA TypeStep ==
    ASSUME DashTypeOK, FetchInv, [DashNext]_dashVars
    PROVE  DashTypeOK'
<1>1. ASSUME NEW j \in Jobs, NEW v \in Versions, NewBuild(j, v) PROVE DashTypeOK'
  <2>1. /\ bucket[j] \in Seq(Versions) /\ Len(bucket[j]) < MaxBuilds
        /\ bucket' = [bucket EXCEPT ![j] = Append(bucket[j], v)]
    BY <1>1 DEF NewBuild, DashTypeOK
  <2>2. Append(bucket[j], v) \in Seq(Versions) /\ Len(Append(bucket[j], v)) <= MaxBuilds
    BY <2>1, DashAssumption
  <2>3. bucket' \in [Jobs -> Seq(Versions)] /\ \A k \in Jobs : Len(bucket'[k]) <= MaxBuilds
    BY <2>1, <2>2 DEF DashTypeOK
  <2> QED
    BY <1>1, <2>3 DEF NewBuild, DashTypeOK
<1>2. ASSUME NEW f \in Configs, GetData(f) PROVE DashTypeOK'
  <2>1. result' \in [DOMAIN result' -> BuildDatas]
    BY <1>2 DEF GetData, Empty
  <2>2. todo' \in [Jobs -> Seq(Nat)] /\ fetches' \in 0 .. MaxFetches
    BY <1>2, DashAssumption DEF GetData, NotListed, DashTypeOK
  <2> QED
    BY <1>2, <2>1, <2>2 DEF GetData, DashTypeOK
<1>3. CASE ConfigFails
  <2>1. served'.data \in [DOMAIN served'.data -> BuildDatas] /\ served'.present \in BOOLEAN
    BY <1>3 DEF ConfigFails, Empty
  <2>2. fetches' \in 0 .. MaxFetches
    BY <1>3, DashAssumption DEF ConfigFails, DashTypeOK
  <2> QED
    BY <1>3, <2>1, <2>2 DEF ConfigFails, DashTypeOK
<1>4. CASE Publish
  <2>1. served'.data = result /\ served'.present = TRUE
    BY <1>4 DEF Publish
  <2> QED
    BY <1>4, <2>1 DEF Publish, DashTypeOK
<1>5. CASE Wake
  BY <1>5 DEF Wake, DashTypeOK
<1>6. ASSUME NEW j \in Jobs, GetBuildNumbers(j) PROVE DashTypeOK'
  <2> DEFINE n == Len(bucket[j])
             first == IF n > BuildsCount THEN n - BuildsCount + 1 ELSE 1
  <2>1. n \in Nat /\ first \in Nat /\ first <= n + 1 /\ first >= 1
    BY DashAssumption DEF DashTypeOK
  <2>2. /\ todo' = [todo EXCEPT ![j] = [i \in 1 .. n - first + 1 |-> n - i + 1]]
        /\ listed' = [listed EXCEPT ![j] = first .. n]
    BY <1>6 DEF GetBuildNumbers
  <2> HIDE DEF n, first
  <2>3. [i \in 1 .. n - first + 1 |-> n - i + 1] \in Seq(Nat)
    <3>1. n - first + 1 \in Nat /\ \A i \in 1 .. n - first + 1 : n - i + 1 \in Nat
      BY <2>1
    <3> QED
      BY <3>1
  <2>4. todo' \in [Jobs -> Seq(Nat)] /\ listed' \in [Jobs -> SUBSET Nat]
    BY <2>1, <2>2, <2>3 DEF DashTypeOK
  <2> QED
    BY <1>6, <2>4 DEF GetBuildNumbers, DashTypeOK
<1>7. ASSUME NEW j \in Jobs, ListingFails(j) PROVE DashTypeOK'
  BY <1>7 DEF ListingFails, DashTypeOK
<1>8. ASSUME NEW j \in Jobs, CheckVersion(j) PROVE DashTypeOK'
  <2>1. parsing' \in [Jobs -> [build : Nat, at : {"no", "check", "set", "compare"}]]
    BY <1>8 DEF CheckVersion, DashTypeOK
  <2> QED
    BY <1>8, <2>1 DEF CheckVersion, DashTypeOK
<1>9. ASSUME NEW j \in Jobs, SetVersion(j) PROVE DashTypeOK'
  <2>1. /\ prefix[j] \in DOMAIN result /\ parsing[j].build \in 1 .. Len(bucket[j])
    BY <1>9 DEF SetVersion, FetchInv, FetchOf
  <2>2. bucket[j][parsing[j].build] \in Versions
    BY <2>1 DEF DashTypeOK
  <2>3. result' \in [DOMAIN result' -> BuildDatas]
    <3>1. result' = [result EXCEPT ![prefix[j]].Version = bucket[j][parsing[j].build]]
      BY <1>9 DEF SetVersion
    <3>2. result \in [DOMAIN result -> BuildDatas]
      BY DEF DashTypeOK
    <3> QED
      BY <2>1, <2>2, <3>1, <3>2 DEF BuildDatas
  <2>4. parsing' \in [Jobs -> [build : Nat, at : {"no", "check", "set", "compare"}]]
    BY <1>9 DEF SetVersion, DashTypeOK
  <2> QED
    BY <1>9, <2>3, <2>4 DEF SetVersion, DashTypeOK
<1>10. ASSUME NEW j \in Jobs, AddBuildData(j) PROVE DashTypeOK'
  <2> DEFINE b == parsing[j].build
             p == prefix[j]
  <2>1. b \in Nat /\ p \in DOMAIN result
    BY <1>10 DEF AddBuildData, FetchInv, FetchOf, DashTypeOK
  <2>2. /\ \/ result' = [result EXCEPT ![p].items = Append(@, <<j, b>>)] /\ skipped' = skipped
           \/ result' = result /\ skipped' = skipped \cup {<<j, b>>}
        /\ parsing' = [parsing EXCEPT ![j] = NotParsing]
    BY <1>10 DEF AddBuildData
  <2>3. result' \in [DOMAIN result' -> BuildDatas]
    <3>1. Append(result[p].items, <<j, b>>) \in Seq(Jobs \X Nat)
      BY <2>1, ResultType
    <3>2. result \in [DOMAIN result -> BuildDatas]
      BY DEF DashTypeOK
    <3> QED
      BY <2>1, <2>2, <3>1, <3>2, ZenonT(40) DEF BuildDatas
  <2>4. skipped' \subseteq Jobs \X Nat
    BY <2>1, <2>2 DEF DashTypeOK
  <2>5. parsing' \in [Jobs -> [build : Nat, at : {"no", "check", "set", "compare"}]]
    BY <2>2 DEF NotParsing, DashTypeOK
  <2> QED
    BY <1>10, <2>3, <2>4, <2>5 DEF AddBuildData, DashTypeOK
<1>11. ASSUME NEW j \in Jobs, NoMatchingFiles(j) PROVE DashTypeOK'
  <2>1. Fetching(j)
    BY <1>11 DEF NoMatchingFiles
  <2>2. Head(todo[j]) \in Nat /\ Tail(todo[j]) \in Seq(Nat)
    BY <2>1, TakeFirst
  <2>3. todo' \in [Jobs -> Seq(Nat)] /\ skipped' \subseteq Jobs \X Nat
    BY <1>11, <2>2 DEF NoMatchingFiles, DashTypeOK
  <2> QED
    BY <1>11, <2>3 DEF NoMatchingFiles, DashTypeOK
<1>12. ASSUME NEW j \in Jobs, ReadFile(j) PROVE DashTypeOK'
  <2>1. Fetching(j)
    BY <1>12 DEF ReadFile
  <2>2. Head(todo[j]) \in Nat /\ Tail(todo[j]) \in Seq(Nat)
    BY <2>1, TakeFirst
  <2>3. /\ todo' \in [Jobs -> Seq(Nat)]
        /\ parsing' \in [Jobs -> [build : Nat, at : {"no", "check", "set", "compare"}]]
    BY <1>12, <2>2 DEF ReadFile, DashTypeOK
  <2>4. result' \in [DOMAIN result' -> BuildDatas]
    <3>1. [Version |-> "", items |-> << >>] \in BuildDatas
      BY DEF BuildDatas
    <3> QED
      BY <1>12, <3>1 DEF ReadFile, GetBuildData, DashTypeOK
  <2> QED
    BY <1>12, <2>3, <2>4 DEF ReadFile, DashTypeOK
<1>13. CASE UNCHANGED dashVars
  BY <1>13 DEF dashVars, DashTypeOK
<1> QED
  BY <1>1, <1>2, <1>3, <1>4, <1>5, <1>6, <1>7, <1>8, <1>9, <1>10, <1>11, <1>12, <1>13
     DEF DashNext

-----------------------------------------------------------------------------
(* Steps that touch neither bucket, what is served, nor what is shown.     *)
LEMMA ServedKept ==
    ASSUME ServedInv, UNCHANGED <<served, expected, bucket>>
    PROVE  ServedInv'
<1>1. Whole(served.data, expected)' <=> Whole(served.data, expected)
  <2>1. Shown(served.data)' = Shown(served.data)
    BY DEF Shown
  <2>2. \A p : Owners(expected, p)' = Owners(expected, p)
    BY DEF Owners
  <2> QED
    BY <2>1, <2>2 DEF Whole, VersionOf
<1> QED
  BY <1>1 DEF ServedInv

(* Steps that touch none of the fetch, and do not end it.                  *)
LEMMA WorkKept ==
    ASSUME FetchInv, ShownInv, ItemsInv,
           UNCHANGED <<prefix, bucket, todo, parsing, result, listed, skipped>>,
           \A j \in Jobs : loop' \in {"fetch", "sleep"} => parsing[j] = NotParsing
    PROVE  FetchInv' /\ ShownInv' /\ ItemsInv'
<1>1. \A k \in Jobs : Unread(k)' = Unread(k) /\ Parsed(k)' = Parsed(k)
  BY SameWork
<1>2. Shown(result)' = Shown(result)
  BY DEF Shown
<1>3. FetchInv'
  BY <1>1, <1>2 DEF FetchInv, FetchOf
<1>4. ShownInv'
  BY <1>1, <1>2 DEF ShownInv
<1>5. ItemsInv'
  <2>1. ASSUME NEW p PROVE Sole(p)' <=> Sole(p)
    BY DEF Sole
  <2> QED
    BY <2>1 DEF ItemsInv, ItemsOf, VersionOf
<1> QED
  BY <1>3, <1>4, <1>5

(* What is shown stays the same when the items of all prefixes do, and new *)
(* prefixes have none.                                                     *)
LEMMA ShownKept ==
    ASSUME DOMAIN result \subseteq DOMAIN result',
           \A p \in DOMAIN result : result'[p].items = result[p].items,
           \A p \in DOMAIN result' \ DOMAIN result : result'[p].items = << >>
    PROVE  Shown(result)' = Shown(result)
<1>1. \A p \in DOMAIN result' \ DOMAIN result : 1 .. Len(result'[p].items) = {}
  OBVIOUS
<1>2. ASSUME NEW x PROVE x \in Shown(result') <=> x \in Shown(result)
  BY <1>1, ShownMember
<1>3. Shown(result') = Shown(result)
  BY <1>2
<1> QED
  BY <1>3 DEF Shown

(* Builds that exist stay as they are.                                     *)
LEMMA BucketGrows ==
    ASSUME DashTypeOK, NEW j \in Jobs, NEW v \in Versions, NewBuild(j, v)
    PROVE  \A k \in Jobs : /\ Len(bucket[k]) \in Nat /\ Len(bucket'[k]) \in Nat
                           /\ Len(bucket[k]) <= Len(bucket'[k])
                           /\ \A b \in 1 .. Len(bucket[k]) : bucket'[k][b] = bucket[k][b]
<1>1. /\ bucket[j] \in Seq(Versions) /\ bucket'[j] = Append(bucket[j], v)
      /\ \A k \in Jobs \ {j} : bucket'[k] = bucket[k] /\ bucket[k] \in Seq(Versions)
  BY DEF NewBuild, DashTypeOK
<1> QED
  BY <1>1

LEMMA NewBuildStep ==
    ASSUME IndInv, NEW j \in Jobs, NEW v \in Versions, NewBuild(j, v)
    PROVE  FetchInv' /\ ShownInv' /\ ItemsInv' /\ ServedInv'
<1> USE DEF IndInv
<1>0. UNCHANGED <<prefix, loop, todo, parsing, result, served, listed, skipped, expected>>
  BY DEF NewBuild
<1>1. \A k \in Jobs : Unread(k)' = Unread(k) /\ Parsed(k)' = Parsed(k)
  BY <1>0, SameWork
<1>2. Shown(result)' = Shown(result) /\ Shown(served.data)' = Shown(served.data)
  BY <1>0 DEF Shown
<1>3. ASSUME NEW S, NEW k \in Jobs, S \subseteq 1 .. Len(bucket[k])
      PROVE  S \subseteq 1 .. Len(bucket'[k])
  BY <1>3, BucketGrows
<1>4. FetchInv'
  <2>1. \A k \in Jobs : listed[k] \subseteq 1 .. Len(bucket'[k])
    BY <1>3 DEF FetchInv, FetchOf
  <2> QED
    BY <1>0, <1>1, <1>2, <2>1 DEF FetchInv, FetchOf
<1>5. ShownInv'
  BY <1>0, <1>1, <1>2 DEF ShownInv
<1>6. ASSUME NEW x \in Jobs \X Nat, x[2] \in 1 .. Len(bucket[x[1]])
      PROVE  bucket'[x[1]][x[2]] = bucket[x[1]][x[2]]
  BY <1>6, BucketGrows
<1>7. ItemsInv'
  <2>1. ASSUME NEW p \in DOMAIN result, NEW i \in 1 .. Len(result[p].items)
        PROVE  bucket'[result[p].items[i][1]][result[p].items[i][2]]
                  = bucket[result[p].items[i][1]][result[p].items[i][2]]
    <3>1. result[p].items[i] \in Shown(result)
      BY ShownMember
    <3>2. result[p].items[i] \in Jobs \X Nat
      BY <2>1, ResultType
    <3>3. result[p].items[i][2] \in 1 .. Len(bucket[result[p].items[i][1]])
      BY <3>1, <3>2 DEF ShownInv, FetchInv, FetchOf
    <3> QED
      BY <1>6, <3>2, <3>3
  <2>2. ASSUME NEW p PROVE Sole(p)' <=> Sole(p)
    BY <1>0 DEF Sole
  <2>3. ASSUME NEW p \in DOMAIN result, Sole(p)
        PROVE  \A i \in 1 .. Len(result[p].items) :
                  bucket'[result[p].items[i][1]][result[p].items[i][2]] = result[p].Version
    <3> TAKE i \in 1 .. Len(result[p].items)
    <3>1. bucket[result[p].items[i][1]][result[p].items[i][2]] = result[p].Version
      BY <2>3 DEF ItemsInv, ItemsOf, VersionOf
    <3> QED
      BY <2>1, <3>1
  <2> QED
    BY <1>0, <2>2, <2>3 DEF ItemsInv, ItemsOf, VersionOf
<1>8. ServedInv'
  <2> SUFFICES ASSUME served.present PROVE ServedInv'
    BY <1>0 DEF ServedInv
  <2>1. \A k \in Jobs : expected.listed[k] \subseteq 1 .. Len(bucket'[k])
    BY <1>3 DEF ServedInv
  <2>2. ASSUME NEW p \in DOMAIN served.data, NEW i \in 1 .. Len(served.data[p].items)
        PROVE  bucket'[served.data[p].items[i][1]][served.data[p].items[i][2]]
                  = bucket[served.data[p].items[i][1]][served.data[p].items[i][2]]
    <3> DEFINE x == served.data[p].items[i]
    <3>1. x \in Shown(served.data)
      BY ShownMember
    <3>2. x \in Jobs \X (1 .. MaxBuilds) /\ x[2] \in expected.listed[x[1]]
      BY <3>1 DEF ServedInv, Whole
    <3>3. x[1] \in Jobs /\ x[2] \in 1 .. Len(bucket[x[1]])
      BY <3>2 DEF ServedInv
    <3> QED
      BY <3>3, BucketGrows
  <2>3. Whole(served.data, expected)'
    <3>0. Whole(served.data, expected)
      BY DEF ServedInv
    <3>1. ASSUME NEW p \in DOMAIN served.data,
                 Cardinality(Owners(expected, p)) = 1,
                 NEW i \in 1 .. Len(served.data[p].items), NEW k \in 1 .. Len(served.data[p].items)
          PROVE  bucket'[served.data[p].items[i][1]][served.data[p].items[i][2]]
                    = bucket'[served.data[p].items[k][1]][served.data[p].items[k][2]]
      <4>1. bucket[served.data[p].items[i][1]][served.data[p].items[i][2]]
               = bucket[served.data[p].items[k][1]][served.data[p].items[k][2]]
        BY <3>0, <3>1, SMTT(30) DEF Whole, VersionOf
      <4> QED
        BY <2>2, <4>1
    <3>2. \A p : Owners(expected, p)' = Owners(expected, p)
      BY <1>0 DEF Owners
    <3> QED
      BY <1>0, <1>2, <3>0, <3>1, <3>2, SMTT(30) DEF Whole, VersionOf
  <2> QED
    BY <1>0, <2>1, <2>3 DEF ServedInv
<1> QED
  BY <1>4, <1>5, <1>7, <1>8

LEMMA GetDataStep ==
    ASSUME IndInv, NEW f \in Configs, GetData(f)
    PROVE  FetchInv' /\ ShownInv' /\ ItemsInv' /\ ServedInv'
<1> USE DEF IndInv
<1>1. /\ loop = "fetch" /\ result' = Empty /\ DOMAIN result' = {} /\ skipped' = {}
      /\ UNCHANGED <<bucket, parsing, served, expected>>
      /\ \A j \in Jobs : todo'[j] = NotListed /\ listed'[j] = {}
  BY DEF GetData, Empty
<1>2. \A j \in Jobs : parsing'[j] = NotParsing
  BY <1>1 DEF FetchInv, FetchOf
<1>3. Shown(result)' = {}
  BY <1>1 DEF Shown
<1>4. FetchInv'
  BY <1>1, <1>2 DEF FetchInv, FetchOf, NotParsing
<1>5. ShownInv' /\ ItemsInv'
  BY <1>1, <1>3 DEF ShownInv, ItemsInv, ItemsOf
<1> QED
  BY <1>1, <1>4, <1>5, ServedKept

LEMMA LoopStep ==
    ASSUME IndInv, ConfigFails \/ Wake \/ \E j \in Jobs : ListingFails(j)
    PROVE  FetchInv' /\ ShownInv' /\ ItemsInv' /\ ServedInv'
<1> USE DEF IndInv
<1>1. UNCHANGED <<prefix, bucket, todo, parsing, result, listed, skipped, expected>>
  BY DEF ConfigFails, Wake, ListingFails
<1>2. loop' \in {"fetch", "sleep"} => loop \in {"fetch", "sleep"}
  BY DEF ConfigFails, Wake, ListingFails
<1>3. \A j \in Jobs : loop' \in {"fetch", "sleep"} => parsing[j] = NotParsing
  BY <1>2 DEF FetchInv, FetchOf
<1>5. FetchInv' /\ ShownInv' /\ ItemsInv'
  BY <1>1, <1>3, WorkKept
<1>6. ServedInv'
  <2>1. CASE UNCHANGED served
    BY <1>1, <2>1, ServedKept
  <2>2. CASE ConfigFails
    <3>1. served'.present = FALSE
      BY <2>2 DEF ConfigFails
    <3> QED
      BY <3>1 DEF ServedInv
  <2> QED
    BY <2>1, <2>2 DEF Wake, ListingFails
<1> QED
  BY <1>5, <1>6

LEMMA PublishStep ==
    ASSUME IndInv, Publish
    PROVE  FetchInv' /\ ShownInv' /\ ItemsInv' /\ ServedInv'
<1> USE DEF IndInv
<1>1. /\ UNCHANGED <<prefix, bucket, todo, parsing, result, listed, skipped>>
      /\ served'.data = result /\ expected'.listed = listed /\ expected'.skipped = skipped
      /\ expected'.prefix = prefix
  BY DEF Publish
<1>2. \A j \in Jobs : todo[j] = << >> /\ parsing[j] = NotParsing
  BY DEF Publish, Finished
<1>5. FetchInv' /\ ShownInv' /\ ItemsInv'
  BY <1>1, <1>2, WorkKept
<1>6. \A j \in Jobs : Unread(j) = {} /\ Parsed(j) = {}
  BY <1>2 DEF Unread, Parsed, NotParsing
<1>7. Shown(result) = { x \in Jobs \X (1 .. MaxBuilds) : x[2] \in listed[x[1]] } \ skipped
  <2>1. ASSUME NEW x \in Shown(result)
        PROVE  x \in Jobs \X (1 .. MaxBuilds) /\ x[2] \in listed[x[1]] /\ x \notin skipped
    <3>1. x \in Jobs \X Nat /\ x[2] \in listed[x[1]] /\ x \notin skipped
      BY DEF ShownInv
    <3>2. x[2] \in 1 .. Len(bucket[x[1]]) /\ Len(bucket[x[1]]) <= MaxBuilds
      BY <3>1 DEF FetchInv, FetchOf, DashTypeOK
    <3>3. Len(bucket[x[1]]) \in Nat
      BY <3>1 DEF DashTypeOK
    <3>4. x[2] \in 1 .. MaxBuilds
      BY <3>2, <3>3, DashAssumption
    <3> QED
      BY <3>1, <3>4
  <2>2. ASSUME NEW x \in Jobs \X (1 .. MaxBuilds), x[2] \in listed[x[1]], x \notin skipped
        PROVE  x \in Shown(result)
    <3>1. x = <<x[1], x[2]>> /\ x[1] \in Jobs
      OBVIOUS
    <3>2. <<x[1], x[2]>> \in skipped \cup Shown(result)
      BY <1>6, <2>2, <3>1 DEF FetchInv, FetchOf
    <3> QED
      BY <2>2, <3>1, <3>2
  <2> QED
    BY <2>1, <2>2
<1>8. ASSUME NEW p \in DOMAIN result, Cardinality(Owners([prefix |-> prefix], p)) = 1
      PROVE  Sole(p)
  <2>0. Owners([prefix |-> prefix], p) = { j \in Jobs : prefix[j] = p }
    BY DEF Owners
  <2>1. IsFiniteSet({ j \in Jobs : prefix[j] = p })
    BY DashAssumption, FS_Subset
  <2>2. \E k : { j \in Jobs : prefix[j] = p } = {k}
    BY <1>8, <2>0, <2>1, FS_Singleton
  <2> QED
    BY <2>2 DEF Sole
<1>9. Whole(served.data, expected)'
  <2>2. ASSUME NEW p \in DOMAIN result
        PROVE  /\ \A i, k \in 1 .. Len(result[p].items) :
                     result[p].items[i] = result[p].items[k] => i = k
               /\ Cardinality(Owners([prefix |-> prefix], p)) = 1 =>
                     \A i, k \in 1 .. Len(result[p].items) :
                        VersionOf(result[p].items[i]) = VersionOf(result[p].items[k])
    BY <1>8 DEF ItemsInv, ItemsOf
  <2>4. Shown(served.data)' = Shown(result)
    BY <1>1 DEF Shown
  <2>5. \A p : Owners(expected, p)' = Owners([prefix |-> prefix], p)
    BY <1>1 DEF Owners
  <2> QED
    BY <1>1, <1>7, <2>2, <2>4, <2>5 DEF Whole, VersionOf
<1>10. ServedInv'
  BY <1>1, <1>9 DEF ServedInv, FetchInv, FetchOf
<1> QED
  BY <1>5, <1>10

-----------------------------------------------------------------------------
(* Steps of a job.  The other jobs are where they were.                    *)
LEMMA OtherJob ==
    ASSUME NEW k \in Jobs, FetchOf(k), UNCHANGED <<prefix, bucket, loop>>,
           todo'[k] = todo[k], parsing'[k] = parsing[k], listed'[k] = listed[k],
           DOMAIN result \subseteq DOMAIN result',
           skipped \cup Shown(result) \subseteq skipped' \cup Shown(result)'
    PROVE  FetchOf(k)'
<1>1. Unread(k)' = Unread(k) /\ Parsed(k)' = Parsed(k)
  BY SameWork
<1> QED
  BY <1>1 DEF FetchOf

(* No build is dealt with that was not left, and the one that is dealt     *)
(* with is newer than what is left.                                        *)
LEMMA ShownSame ==
    ASSUME ShownInv, UNCHANGED <<listed, skipped>>, Shown(result)' = Shown(result),
           \A k \in Jobs : Unread(k)' \cup Parsed(k)' \subseteq Unread(k) \cup Parsed(k)
    PROVE  ShownInv'
BY DEF ShownInv

LEMMA ShownGrows ==
    ASSUME ShownInv, UNCHANGED listed,
           \A k \in Jobs : Unread(k)' \cup Parsed(k)' \subseteq Unread(k) \cup Parsed(k),
           NEW j \in Jobs, NEW b \in listed[j], b \in Nat,
           <<j, b>> \notin skipped \cup Shown(result),
           \A c \in Unread(j)' \cup Parsed(j)' : b > c,
           \/ Shown(result)' = Shown(result) \cup {<<j, b>>} /\ skipped' = skipped
           \/ Shown(result)' = Shown(result) /\ skipped' = skipped \cup {<<j, b>>}
    PROVE  ShownInv'
<1>1. skipped' \cup Shown(result)' = (skipped \cup Shown(result)) \cup {<<j, b>>}
  OBVIOUS
<1>2. skipped' \cap Shown(result)' = {}
  BY DEF ShownInv
<1>3. ASSUME NEW x \in skipped' \cup Shown(result)'
      PROVE  /\ x \in Jobs \X Nat /\ x[2] \in listed[x[1]]
             /\ \A c \in Unread(x[1])' \cup Parsed(x[1])' : x[2] > c
  <2>1. CASE x \in skipped \cup Shown(result)
    BY <2>1 DEF ShownInv
  <2>2. CASE x = <<j, b>>
    BY <2>2
  <2> QED
    BY <1>1, <2>1, <2>2
<1> QED
  BY <1>2, <1>3 DEF ShownInv

(* The versions of a prefix, where no parser goes on to set one.           *)
LEMMA ItemsKept ==
    ASSUME NEW p \in DOMAIN result, ItemsOf(p), UNCHANGED <<prefix, bucket>>,
           result'[p] = result[p],
           \A k \in Jobs : prefix[k] = p /\ parsing'[k].at = "set" => parsing[k].at = "set"
    PROVE  ItemsOf(p)'
<1>1. Sole(p)' <=> Sole(p)
  BY DEF Sole
<1> QED
  BY <1>1 DEF ItemsOf, VersionOf

LEMMA GetBuildNumbersStep ==
    ASSUME IndInv, NEW j \in Jobs, GetBuildNumbers(j)
    PROVE  FetchInv' /\ ShownInv' /\ ItemsInv' /\ ServedInv'
<1> USE DEF IndInv
<1> DEFINE n == Len(bucket[j])
           first == IF n > BuildsCount THEN n - BuildsCount + 1 ELSE 1
           s == [i \in 1 .. n - first + 1 |-> n - i + 1]
<1>0. /\ UNCHANGED <<prefix, bucket, loop, parsing, result, served, skipped, expected>>
      /\ loop = "jobs" /\ todo[j] = NotListed
      /\ todo' = [todo EXCEPT ![j] = s] /\ listed' = [listed EXCEPT ![j] = first .. n]
  BY DEF GetBuildNumbers
<1>1. n \in Nat /\ first \in Nat /\ first <= n + 1 /\ first >= 1
  BY DashAssumption DEF DashTypeOK
<1> HIDE DEF n, first
<1>2. /\ todo'[j] = s /\ listed'[j] = first .. n
      /\ \A k \in Jobs \ {j} : todo'[k] = todo[k] /\ listed'[k] = listed[k]
  BY <1>0 DEF DashTypeOK
<1>3. /\ s \in Seq(Nat) /\ Len(s) = n - first + 1
      /\ \A i \in 1 .. Len(s) : s[i] = n - i + 1
  <2>1. n - first + 1 \in Nat /\ \A i \in 1 .. n - first + 1 : n - i + 1 \in Nat
    BY <1>1
  <2> QED
    BY <2>1
<1> HIDE DEF s
<1>4. Unread(j)' = first .. n
  <2>1. Unread(j)' = { s[i] : i \in 1 .. Len(s) }
    BY <1>2 DEF Unread
  <2>2. ASSUME NEW c PROVE c \in { s[i] : i \in 1 .. Len(s) } <=> c \in first .. n
    <3>1. c \in first .. n => n - c + 1 \in 1 .. Len(s) /\ s[n - c + 1] = c
      BY <1>1, <1>3
    <3>2. \A i \in 1 .. Len(s) : s[i] \in first .. n
      BY <1>1, <1>3
    <3> QED
      BY <3>1, <3>2
  <2> QED
    BY <2>1, <2>2
<1>5. parsing[j] = NotParsing /\ parsing'[j] = NotParsing /\ listed[j] = {}
  BY <1>0 DEF FetchInv, FetchOf
<1>6. s # NotListed
  <2>1. SUFFICES ASSUME s = NotListed PROVE FALSE
    OBVIOUS
  <2>2. 1 \in 1 .. Len(s) /\ s[1] = 0
    BY <2>1 DEF NotListed
  <2> QED
    BY <1>1, <1>3, <2>2
<1>7. Shown(result)' = Shown(result)
  BY <1>0 DEF Shown
<1>8. FetchOf(j)'
  <2>1. \A i, k \in 1 .. Len(s) : i < k => s[i] > s[k]
    BY <1>1, <1>3
  <2>2. listed'[j] \subseteq 1 .. Len(bucket'[j])
    <3>1. first .. n \subseteq 1 .. n
      BY <1>1
    <3> QED
      BY <1>0, <1>2, <3>1 DEF n
  <2>3. todo'[j] # NotListed /\ parsing'[j].at = "no"
    BY <1>2, <1>5, <1>6 DEF NotParsing
  <2>4. \A i, k \in 1 .. Len(todo'[j]) : i < k => todo'[j][i] > todo'[j][k]
    BY <1>2, <2>1
  <2> QED
    BY <1>2, <1>4, <1>5, <2>2, <2>3, <2>4 DEF FetchOf
<1>9. ASSUME NEW k \in Jobs \ {j} PROVE FetchOf(k)'
  BY <1>0, <1>2, <1>7, OtherJob DEF FetchInv
<1>10. ShownInv'
  <2>1. ASSUME NEW x \in skipped \cup Shown(result) PROVE x[1] # j
    BY <1>5 DEF ShownInv
  <2>2. \A k \in Jobs \ {j} : Unread(k)' = Unread(k) /\ Parsed(k)' = Parsed(k)
    BY <1>0, <1>2, SameWork
  <2> QED
    BY <1>0, <1>2, <1>7, <2>1, <2>2 DEF ShownInv
<1>11. ItemsInv'
  BY <1>0, ItemsKept DEF ItemsInv
<1> QED
  BY <1>0, <1>8, <1>9, <1>10, <1>11, ServedKept DEF FetchInv

LEMMA NoMatchingFilesStep ==
    ASSUME IndInv, NEW j \in Jobs, NoMatchingFiles(j)
    PROVE  FetchInv' /\ ShownInv' /\ ItemsInv' /\ ServedInv'
<1> USE DEF IndInv
<1> DEFINE b == Head(todo[j])
           t == Tail(todo[j])
           rest == { t[i] : i \in 1 .. Len(t) }
<1>0. /\ UNCHANGED <<prefix, bucket, loop, parsing, result, served, listed, expected>>
      /\ todo' = [todo EXCEPT ![j] = t] /\ skipped' = skipped \cup {<<j, b>>} /\ Fetching(j)
  BY DEF NoMatchingFiles
<1>1. /\ b \in Nat /\ b \in listed[j] /\ Unread(j) = rest \cup {b} /\ \A c \in rest : b > c
      /\ t # NotListed /\ \A i, k \in 1 .. Len(t) : i < k => t[i] > t[k]
      /\ parsing[j] = NotParsing /\ Parsed(j) = {}
  BY <1>0, TakeFirst
<1>2. todo'[j] = t /\ \A k \in Jobs \ {j} : todo'[k] = todo[k]
  BY <1>0 DEF DashTypeOK
<1> HIDE DEF b, t
<1>3. Unread(j)' = rest /\ Parsed(j)' = Parsed(j)
  BY <1>0, <1>2 DEF Unread, Parsed
<1> HIDE DEF rest
<1>4. \A k \in Jobs \ {j} : Unread(k)' = Unread(k) /\ Parsed(k)' = Parsed(k)
  BY <1>0, <1>2, SameWork
<1>5. Shown(result)' = Shown(result)
  BY <1>0 DEF Shown
<1>6. FetchOf(j)'
  <2>1. FetchOf(j)
    BY DEF FetchInv
  <2>2. parsing'[j].at = "no" /\ parsing'[j] = NotParsing
    BY <1>0, <1>1 DEF NotParsing
  <2>3. \A i, k \in 1 .. Len(todo'[j]) : i < k => todo'[j][i] > todo'[j][k]
    BY <1>1, <1>2
  <2>4. todo'[j] # NotListed /\ todo[j] # NotListed
    BY <1>0, <1>1, <1>2 DEF Fetching
  <2>5. \A c \in listed[j] : c \in Unread(j)' \cup Parsed(j)' \/ <<j, c>> \in skipped' \cup Shown(result)'
    BY <1>0, <1>1, <1>3, <1>5, <2>1 DEF FetchOf
  <2>6. Unread(j)' \subseteq listed[j] /\ listed[j] \subseteq 1 .. Len(bucket[j])
    BY <1>1, <1>3, <2>1, <2>4 DEF FetchOf
  <2> QED
    BY <1>0, <2>2, <2>3, <2>4, <2>5, <2>6 DEF FetchOf
<1>7. ASSUME NEW k \in Jobs \ {j} PROVE FetchOf(k)'
  BY <1>0, <1>2, <1>5, OtherJob DEF FetchInv
<1>8. ShownInv'
  <2>1. <<j, b>> \notin skipped \cup Shown(result)
    <3>1. b \in Unread(j) \cup Parsed(j) /\ ~(b > b)
      BY <1>1
    <3> QED
      BY <3>1 DEF ShownInv
  <2>2. \A k \in Jobs : Unread(k)' \cup Parsed(k)' \subseteq Unread(k) \cup Parsed(k)
    BY <1>1, <1>3, <1>4
  <2>3. \A c \in Unread(j)' \cup Parsed(j)' : b > c
    BY <1>1, <1>3
  <2> QED
    BY <1>0, <1>1, <1>5, <2>1, <2>2, <2>3, ShownGrows
<1>9. ItemsInv'
  BY <1>0, ItemsKept DEF ItemsInv
<1> QED
  BY <1>0, <1>6, <1>7, <1>8, <1>9, ServedKept DEF FetchInv

(* A BuildData as getBuildData makes it.                                   *)
LEMMA NewBuildData ==
    ASSUME NEW d, d = [Version |-> "", items |-> << >>]
    PROVE  d.items = << >> /\ d.Version = ""
OBVIOUS

LEMMA NothingIn ==
    ASSUME NEW s, s = << >>
    PROVE  1 .. Len(s) = {}
OBVIOUS

LEMMA ReadFileStep ==
    ASSUME IndInv, NEW j \in Jobs, ReadFile(j)
    PROVE  FetchInv' /\ ShownInv' /\ ItemsInv' /\ ServedInv'
<1> USE DEF IndInv
<1> DEFINE b == Head(todo[j])
           t == Tail(todo[j])
           rest == { t[i] : i \in 1 .. Len(t) }
<1>0. /\ UNCHANGED <<prefix, bucket, loop, served, listed, skipped, expected>>
      /\ todo' = [todo EXCEPT ![j] = t] /\ Fetching(j)
      /\ parsing' = [parsing EXCEPT ![j] = [build |-> b, at |-> "check"]]
  BY DEF ReadFile
<1>1. /\ b \in Nat /\ b \in listed[j] /\ Unread(j) = rest \cup {b} /\ \A c \in rest : b > c
      /\ t # NotListed /\ \A i, k \in 1 .. Len(t) : i < k => t[i] > t[k]
      /\ parsing[j] = NotParsing /\ Parsed(j) = {}
  BY <1>0, TakeFirst
<1>2. /\ todo'[j] = t /\ parsing'[j] = [build |-> b, at |-> "check"]
      /\ \A k \in Jobs \ {j} : todo'[k] = todo[k] /\ parsing'[k] = parsing[k]
  BY <1>0 DEF DashTypeOK
<1> HIDE DEF b, t
<1>3. Unread(j)' = rest /\ Parsed(j)' = {b}
  BY <1>2 DEF Unread, Parsed
<1> HIDE DEF rest
<1>4. \A k \in Jobs \ {j} : Unread(k)' = Unread(k) /\ Parsed(k)' = Parsed(k)
  BY <1>2, SameWork
<1>5. /\ DOMAIN result' = DOMAIN result \cup {prefix[j]}
      /\ \A p \in DOMAIN result : result'[p] = result[p]
      /\ \A p \in DOMAIN result' \ DOMAIN result : result'[p] = [Version |-> "", items |-> << >>]
  BY DEF ReadFile, GetBuildData
<1>11. \A p \in DOMAIN result' \ DOMAIN result : result'[p].items = << >> /\ result'[p].Version = ""
  <2> TAKE p \in DOMAIN result' \ DOMAIN result
  <2>1. result'[p] = [Version |-> "", items |-> << >>]
    BY <1>5
  <2> QED
    BY <2>1, NewBuildData, Zenon
<1>6. Shown(result)' = Shown(result)
  <2>1. /\ DOMAIN result \subseteq DOMAIN result'
        /\ \A p \in DOMAIN result : result'[p].items = result[p].items
    BY <1>5
  <2> QED
    BY <1>11, <2>1, ShownKept
<1>7. FetchOf(j)'
  <2>1. FetchOf(j)
    BY DEF FetchInv
  <2>2. parsing'[j].at # "no" /\ parsing'[j].build = b /\ loop' = "jobs" /\ prefix'[j] \in DOMAIN result'
    <3>1. parsing'[j].at # "no" /\ parsing'[j].build = b
      BY <1>2
    <3>2. loop' = "jobs" /\ prefix'[j] \in DOMAIN result'
      BY <1>0, <1>5 DEF Fetching
    <3> QED
      BY <3>1, <3>2
  <2>3. \A i, k \in 1 .. Len(todo'[j]) : i < k => todo'[j][i] > todo'[j][k]
    BY <1>1, <1>2
  <2>4. todo'[j] # NotListed /\ todo[j] # NotListed
    BY <1>0, <1>1, <1>2 DEF Fetching
  <2>5. \A c \in listed[j] : c \in Unread(j)' \cup Parsed(j)' \/ <<j, c>> \in skipped' \cup Shown(result)'
    BY <1>0, <1>1, <1>3, <1>6, <2>1 DEF FetchOf
  <2>6. Unread(j)' \subseteq listed[j] /\ listed[j] \subseteq 1 .. Len(bucket[j])
    BY <1>1, <1>3, <2>1, <2>4 DEF FetchOf
  <2> QED
    BY <1>0, <1>1, <1>3, <2>2, <2>3, <2>4, <2>5, <2>6 DEF FetchOf
<1>8. ASSUME NEW k \in Jobs \ {j} PROVE FetchOf(k)'
  BY <1>0, <1>2, <1>5, <1>6, OtherJob DEF FetchInv
<1>9. ShownInv'
  <2>1. \A k \in Jobs : Unread(k)' \cup Parsed(k)' \subseteq Unread(k) \cup Parsed(k)
    BY <1>1, <1>3, <1>4
  <2> QED
    BY <1>0, <1>6, <2>1, ShownSame
<1>10. ItemsInv'
  <2>1. ASSUME NEW p \in DOMAIN result PROVE ItemsOf(p)'
    <3>1. \A k \in Jobs : parsing'[k].at = "set" => parsing[k].at = "set"
      BY <1>2
    <3> QED
      BY <1>0, <1>5, <3>1, ItemsKept DEF ItemsInv
  <2>2. ASSUME NEW p \in DOMAIN result' \ DOMAIN result PROVE ItemsOf(p)'
    <3>1. result'[p].Version = "" /\ 1 .. Len(result'[p].items) = {}
      BY <1>11, NothingIn, Zenon
    <3> QED
      BY <3>1 DEF ItemsOf
  <2> QED
    BY <2>1, <2>2 DEF ItemsInv
<1> QED
  BY <1>0, <1>7, <1>8, <1>9, <1>10, ServedKept DEF FetchInv

(* Steps of a parser that stays with its build.                            *)
LEMMA ParserMoves ==
    ASSUME IndInv, NEW j \in Jobs, UNCHANGED <<prefix, bucket, loop, todo, listed, skipped>>,
           NEW a \in {"check", "set", "compare"}, parsing[j].at # "no",
           parsing' = [parsing EXCEPT ![j].at = a],
           DOMAIN result' = DOMAIN result, Shown(result)' = Shown(result)
    PROVE  /\ FetchInv' /\ ShownInv'
           /\ \A k \in Jobs : k # j => parsing'[k] = parsing[k]
           /\ parsing'[j].at = a
<1> USE DEF IndInv
<1>1. /\ parsing'[j].at = a /\ parsing'[j].build = parsing[j].build
      /\ \A k \in Jobs : k # j => parsing'[k] = parsing[k]
  BY DEF DashTypeOK
<1>2. Unread(j)' = Unread(j) /\ Parsed(j)' = Parsed(j)
  BY <1>1 DEF Unread, Parsed
<1>3. FetchOf(j)'
  <2>1. FetchOf(j)
    BY DEF FetchInv
  <2>2. /\ loop \notin {"fetch", "sleep"} /\ todo[j] # NotListed
    BY <2>1 DEF FetchOf, NotParsing
  <2>3. parsing'[j].at # "no"
    BY <1>1
  <2> QED
    BY <1>1, <1>2, <2>1, <2>2, <2>3 DEF FetchOf
<1>4. ASSUME NEW k \in Jobs, k # j PROVE FetchOf(k)'
  BY <1>1, <1>4, OtherJob DEF FetchInv
<1>5. \A k \in Jobs : Unread(k)' \cup Parsed(k)' \subseteq Unread(k) \cup Parsed(k)
  BY <1>1, <1>2, SameWork
<1>6. ShownInv'
  BY <1>5, ShownSame
<1> QED
  BY <1>1, <1>3, <1>4, <1>6 DEF FetchInv

LEMMA CheckVersionStep ==
    ASSUME IndInv, NEW j \in Jobs, CheckVersion(j)
    PROVE  FetchInv' /\ ShownInv' /\ ItemsInv' /\ ServedInv'
<1> DEFINE a == IF result[prefix[j]].Version = "" THEN "set" ELSE "compare"
<1>1. /\ UNCHANGED <<prefix, bucket, loop, todo, result, served, listed, skipped, expected>>
      /\ parsing[j].at # "no" /\ parsing' = [parsing EXCEPT ![j].at = a]
  BY DEF CheckVersion
<1>2. a \in {"check", "set", "compare"} /\ (a = "set" => result[prefix[j]].Version = "")
  OBVIOUS
<1> HIDE DEF a
<1>3. Shown(result)' = Shown(result)
  BY <1>1 DEF Shown
<1>4. /\ FetchInv' /\ ShownInv' /\ parsing'[j].at = a
      /\ \A k \in Jobs : k # j => parsing'[k] = parsing[k]
  BY <1>1, <1>2, <1>3, ParserMoves
<1>5. ASSUME NEW p \in DOMAIN result PROVE ItemsOf(p)'
  <2>1. ItemsOf(p)
    BY DEF IndInv, ItemsInv
  <2>2. Sole(p)' <=> Sole(p)
    BY <1>1 DEF Sole
  <2>3. ASSUME Sole(p), NEW k \in Jobs, prefix[k] = p, parsing'[k].at = "set"
        PROVE  result[p].Version = ""
    BY <1>2, <1>4, <2>1, <2>3 DEF ItemsOf
  <2> QED
    BY <1>1, <2>1, <2>2, <2>3 DEF ItemsOf, VersionOf
<1>6. ItemsInv'
  BY <1>1, <1>5 DEF ItemsInv
<1> QED
  BY <1>1, <1>4, <1>6, ServedKept DEF IndInv

LEMMA SetVersionStep ==
    ASSUME IndInv, NEW j \in Jobs, SetVersion(j)
    PROVE  FetchInv' /\ ShownInv' /\ ItemsInv' /\ ServedInv'
<1> USE DEF IndInv
<1> DEFINE v == bucket[j][parsing[j].build]
<1>0. PICK q : q = prefix[j]
  OBVIOUS
<1>1. /\ UNCHANGED <<prefix, bucket, loop, todo, served, listed, skipped, expected>>
      /\ parsing[j].at = "set" /\ parsing' = [parsing EXCEPT ![j].at = "compare"]
      /\ result' = [result EXCEPT ![q].Version = v]
  BY <1>0 DEF SetVersion
<1>2. q \in DOMAIN result /\ result[q] \in BuildDatas
  BY <1>0, <1>1, ResultType DEF FetchInv, FetchOf
<1> HIDE DEF v
<1>3. /\ DOMAIN result' = DOMAIN result
      /\ \A p \in DOMAIN result : p # q => result'[p] = result[p]
      /\ result'[q].items = result[q].items
  BY <1>1, <1>2 DEF DashTypeOK, BuildDatas
<1>4. Shown(result)' = Shown(result)
  <2>1. \A p \in DOMAIN result : result'[p].items = result[p].items
    BY <1>3
  <2> QED
    BY <1>3, <2>1, ShownKept
<1>5. /\ FetchInv' /\ ShownInv' /\ parsing'[j].at = "compare"
      /\ \A k \in Jobs : k # j => parsing'[k] = parsing[k]
  BY <1>1, <1>3, <1>4, ParserMoves
<1>6. ASSUME NEW p \in DOMAIN result, p # q PROVE ItemsOf(p)'
  BY <1>1, <1>3, <1>5, <1>6, ItemsKept DEF ItemsInv
<1>7. ItemsOf(q)'
  <2>1. ItemsOf(q)
    BY <1>2 DEF ItemsInv
  <2>2. Sole(q)' <=> Sole(q)
    BY <1>1 DEF Sole
  <2>3. ASSUME Sole(q) PROVE 1 .. Len(result[q].items) = {}
    <3>1. result[q].Version = ""
      BY <1>0, <1>1, <2>1, <2>3 DEF ItemsOf
    <3>2. SUFFICES ASSUME NEW i \in 1 .. Len(result[q].items) PROVE FALSE
      OBVIOUS
    <3>3. VersionOf(result[q].items[i]) = ""
      BY <2>1, <2>3, <3>1 DEF ItemsOf
    <3>4. result[q].items[i] \in Jobs \X Nat /\ result[q].items[i] \in Shown(result)
      BY <1>2, ResultType, ShownMember
    <3>5. result[q].items[i][2] \in 1 .. Len(bucket[result[q].items[i][1]])
      BY <3>4 DEF ShownInv, FetchInv, FetchOf
    <3>6. VersionOf(result[q].items[i]) \in Versions
      BY <3>4, <3>5, SMTT(30) DEF VersionOf, DashTypeOK
    <3> QED
      BY <3>3, <3>6 DEF Versions
  <2>4. ASSUME Sole(q), NEW k \in Jobs, prefix[k] = q PROVE parsing'[k].at # "set"
    BY <1>0, <1>5, <2>4 DEF Sole
  <2> QED
    BY <1>1, <1>3, <2>1, <2>2, <2>3, <2>4 DEF ItemsOf
<1>8. ItemsInv'
  BY <1>3, <1>6, <1>7 DEF ItemsInv
<1> QED
  BY <1>1, <1>5, <1>8, ServedKept

LEMMA AddBuildDataStep ==
    ASSUME IndInv, NEW j \in Jobs, AddBuildData(j)
    PROVE  FetchInv' /\ ShownInv' /\ ItemsInv' /\ ServedInv'
<1> USE DEF IndInv
<1>0. PICK q, b : q = prefix[j] /\ b = parsing[j].build
  OBVIOUS
<1>1. /\ UNCHANGED <<prefix, bucket, loop, todo, served, listed, expected>>
      /\ parsing[j].at = "compare" /\ parsing' = [parsing EXCEPT ![j] = NotParsing]
      /\ \/ /\ result[q].Version = bucket[j][b] /\ skipped' = skipped
            /\ result' = [result EXCEPT ![q].items = Append(@, <<j, b>>)]
         \/ result' = result /\ skipped' = skipped \cup {<<j, b>>}
  BY <1>0 DEF AddBuildData
<1>2. /\ q \in DOMAIN result /\ b \in listed[j] /\ b \in Nat /\ \A c \in Unread(j) : b > c
  BY <1>0, <1>1 DEF FetchInv, FetchOf, DashTypeOK
<1>3. parsing'[j] = NotParsing /\ \A k \in Jobs : k # j => parsing'[k] = parsing[k]
  BY <1>1 DEF DashTypeOK
<1>4. Unread(j)' = Unread(j) /\ Parsed(j)' = {} /\ Parsed(j) = {b}
  BY <1>0, <1>1, <1>3 DEF Unread, Parsed, NotParsing
<1>5. <<j, b>> \notin skipped \cup Shown(result)
  <2>1. b \in Unread(j) \cup Parsed(j) /\ ~(b > b)
    BY <1>2, <1>4
  <2> QED
    BY <2>1 DEF ShownInv
<1>6. ASSUME DOMAIN result' = DOMAIN result,
             \/ Shown(result)' = Shown(result) \cup {<<j, b>>} /\ skipped' = skipped
             \/ Shown(result)' = Shown(result) /\ skipped' = skipped \cup {<<j, b>>}
      PROVE  FetchInv' /\ ShownInv'
  <2>1. FetchOf(j)'
    <3>1. FetchOf(j)
      BY DEF FetchInv
    <3>2. todo[j] # NotListed /\ parsing'[j].at = "no"
      BY <1>1, <1>3, <3>1 DEF FetchOf, NotParsing
    <3>3. \A c \in listed[j] :
             c \in Unread(j)' \cup Parsed(j)' \/ <<j, c>> \in skipped' \cup Shown(result)'
      BY <1>4, <1>6, <3>1 DEF FetchOf
    <3> QED
      BY <1>1, <1>3, <1>4, <3>1, <3>2, <3>3 DEF FetchOf
  <2>2. ASSUME NEW k \in Jobs, k # j PROVE FetchOf(k)'
    BY <1>1, <1>3, <1>6, <2>2, OtherJob DEF FetchInv
  <2>3. \A k \in Jobs : Unread(k)' \cup Parsed(k)' \subseteq Unread(k) \cup Parsed(k)
    BY <1>1, <1>3, <1>4, SameWork
  <2>4. ShownInv'
    BY <1>1, <1>2, <1>4, <1>5, <1>6, <2>3, ShownGrows
  <2> QED
    BY <2>1, <2>2, <2>4 DEF FetchInv
<1>7. \A k \in Jobs : parsing'[k].at = "set" => parsing[k].at = "set"
  BY <1>3 DEF NotParsing
<1>8. CASE result' = result /\ skipped' = skipped \cup {<<j, b>>}
  <2>1. Shown(result)' = Shown(result)
    BY <1>8 DEF Shown
  <2>2. ItemsInv'
    BY <1>1, <1>7, <1>8, ItemsKept DEF ItemsInv
  <2> QED
    BY <1>1, <1>6, <1>8, <2>1, <2>2, ServedKept
<1>9. CASE /\ result[q].Version = bucket[j][b] /\ skipped' = skipped
           /\ result' = [result EXCEPT ![q].items = Append(@, <<j, b>>)]
  <2>0. PICK s : s = result[q].items
    OBVIOUS
  <2>1. /\ s \in Seq(Jobs \X Nat) /\ Len(s) \in Nat
        /\ \A i \in 1 .. Len(s) : s[i] \in Jobs \X Nat /\ s[i] \in Shown(result)
    BY <1>2, <2>0, ResultType, ShownMember
  <2>2. /\ DOMAIN result' = DOMAIN result
        /\ \A p \in DOMAIN result : p # q => result'[p] = result[p]
        /\ result'[q].items = Append(s, <<j, b>>) /\ result'[q].Version = result[q].Version
    BY <1>2, <1>9, <2>0 DEF DashTypeOK, BuildDatas
  <2>3. PICK t : t = Append(s, <<j, b>>)
    OBVIOUS
  <2>4. /\ Len(t) = Len(s) + 1 /\ t[Len(s) + 1] = <<j, b>>
        /\ \A i \in 1 .. Len(s) : t[i] = s[i]
    BY <1>2, <2>1, <2>3
  <2>5. \A i \in 1 .. Len(t) : i = Len(s) + 1 \/ i \in 1 .. Len(s)
    BY <2>1, <2>4
  <2>6. Shown(result)' = Shown(result) \cup {<<j, b>>}
    <3>1. ASSUME NEW x PROVE x \in Shown(result') <=> x \in Shown(result) \/ x = <<j, b>>
      <4>1. (\E i \in 1 .. Len(t) : x = t[i]) <=> (\E i \in 1 .. Len(s) : x = s[i]) \/ x = <<j, b>>
        <5>1. Len(s) + 1 \in 1 .. Len(t) /\ 1 .. Len(s) \subseteq 1 .. Len(t)
          BY <2>1, <2>4
        <5> QED
          BY <2>4, <2>5, <5>1
      <4>2. (\E i \in 1 .. Len(result'[q].items) : x = result'[q].items[i])
               <=> (\E i \in 1 .. Len(result[q].items) : x = result[q].items[i]) \/ x = <<j, b>>
        BY <2>0, <2>2, <2>3, <4>1
      <4>3. x \in Shown(result') <=> \E p \in DOMAIN result' : \E i \in 1 .. Len(result'[p].items) :
                                         x = result'[p].items[i]
        BY ShownMember
      <4>4. x \in Shown(result) <=> \E p \in DOMAIN result : \E i \in 1 .. Len(result[p].items) :
                                        x = result[p].items[i]
        BY ShownMember
      <4>5. \A p \in DOMAIN result : p # q =>
               ((\E i \in 1 .. Len(result'[p].items) : x = result'[p].items[i])
                  <=> \E i \in 1 .. Len(result[p].items) : x = result[p].items[i])
        BY <2>2
      <4> QED
        BY <1>2, <2>2, <4>2, <4>3, <4>4, <4>5, Zenon
    <3>2. Shown(result') = Shown(result) \cup {<<j, b>>}
      BY <3>1
    <3> QED
      BY <3>2 DEF Shown
  <2>7. ItemsOf(q)'
    <3>1. ItemsOf(q)
      BY <1>2 DEF ItemsInv
    <3>2. \A i \in 1 .. Len(t) : prefix[t[i][1]] = q
      <4>1. \A i \in 1 .. Len(s) : prefix[s[i][1]] = q
        BY <2>0, <3>1 DEF ItemsOf
      <4>2. <<j, b>>[1] = j
        OBVIOUS
      <4> QED
        BY <1>0, <2>4, <2>5, <4>1, <4>2
    <3>3. \A i, k \in 1 .. Len(t) : t[i] = t[k] => i = k
      <4>1. \A i, k \in 1 .. Len(s) : s[i] = s[k] => i = k
        BY <2>0, <3>1 DEF ItemsOf
      <4>2. \A i \in 1 .. Len(s) : s[i] # <<j, b>>
        BY <1>5, <2>1
      <4> QED
        BY <2>4, <2>5, <4>1, <4>2
    <3>4. Sole(q)' <=> Sole(q)
      BY <1>1 DEF Sole
    <3>5. ASSUME Sole(q)
          PROVE  \A i \in 1 .. Len(t) : bucket[t[i][1]][t[i][2]] = result[q].Version
      <4>1. \A i \in 1 .. Len(s) : bucket[s[i][1]][s[i][2]] = result[q].Version
        BY <2>0, <3>1, <3>5 DEF ItemsOf, VersionOf
      <4>2. <<j, b>>[1] = j /\ <<j, b>>[2] = b
        OBVIOUS
      <4> QED
        BY <1>9, <2>4, <2>5, <4>1, <4>2
    <3>6. ASSUME Sole(q), NEW k \in Jobs, prefix[k] = q, parsing'[k].at = "set"
          PROVE  result[q].Version = ""
      BY <1>7, <3>1, <3>6 DEF ItemsOf
    <3>7. result'[q].items = t /\ result'[q].Version = result[q].Version
      BY <2>2, <2>3
    <3>8. /\ \A i \in 1 .. Len(result'[q].items) : prefix'[result'[q].items[i][1]] = q
          /\ \A i, k \in 1 .. Len(result'[q].items) :
                result'[q].items[i] = result'[q].items[k] => i = k
      BY <1>1, <3>2, <3>3, <3>7
    <3>9. ASSUME Sole(q)'
          PROVE  /\ \A i \in 1 .. Len(result'[q].items) :
                       bucket'[result'[q].items[i][1]][result'[q].items[i][2]] = result'[q].Version
                 /\ \A k \in Jobs : prefix'[k] = q /\ parsing'[k].at = "set" => result'[q].Version = ""
      BY <1>1, <3>4, <3>5, <3>6, <3>7, <3>9
    <3> QED
      BY <3>8, <3>9 DEF ItemsOf, VersionOf
  <2>8. ASSUME NEW p \in DOMAIN result, p # q PROVE ItemsOf(p)'
    BY <1>1, <1>7, <2>2, <2>8, ItemsKept DEF ItemsInv
  <2>9. ItemsInv'
    BY <2>2, <2>7, <2>8 DEF ItemsInv
  <2> QED
    BY <1>1, <1>6, <1>9, <2>2, <2>6, <2>9, ServedKept
<1> QED
  BY <1>1, <1>8, <1>9

-----------------------------------------------------------------------------
LEMMA InitInv == DashInit => IndInv
<1> SUFFICES ASSUME DashInit PROVE IndInv
  OBVIOUS
<1>1. /\ result = Empty /\ DOMAIN result = {} /\ skipped = {} /\ served.present = FALSE
      /\ served.data = Empty
      /\ \A j \in Jobs : /\ todo[j] = NotListed /\ parsing[j] = NotParsing /\ listed[j] = {}
                         /\ bucket[j] = << >> \/ \E v \in Versions : bucket[j] = <<v>>
  BY DEF DashInit, Empty
<1>2. Shown(result) = {}
  BY <1>1 DEF Shown
<1>3. DashTypeOK
  <2>1. \A j \in Jobs : bucket[j] \in Seq(Versions) /\ Len(bucket[j]) <= MaxBuilds
    <3> TAKE j \in Jobs
    <3>1. CASE bucket[j] = << >>
      BY <3>1, DashAssumption
    <3>2. ASSUME NEW v \in Versions, bucket[j] = <<v>>
          PROVE  bucket[j] \in Seq(Versions) /\ Len(bucket[j]) <= MaxBuilds
      <4>1. <<v>> \in Seq(Versions) /\ Len(<<v>>) = 1
        OBVIOUS
      <4> QED
        BY <3>2, <4>1, DashAssumption
    <3> QED
      BY <1>1, <3>1, <3>2
  <2>2. todo \in [Jobs -> Seq(Nat)] /\ listed \in [Jobs -> SUBSET Nat] /\ bucket \in [Jobs -> Seq(Versions)]
    BY <2>1 DEF DashInit, NotListed
  <2>3. parsing \in [Jobs -> [build : Nat, at : {"no", "check", "set", "compare"}]]
    BY DEF DashInit, NotParsing
  <2>4. Empty \in [{} -> BuildDatas] /\ DOMAIN Empty = {}
    BY DEF Empty
  <2> QED
    BY <1>1, <2>1, <2>2, <2>3, <2>4, DashAssumption DEF DashInit, DashTypeOK
<1>4. FetchInv
  BY <1>1 DEF FetchInv, FetchOf, NotParsing
<1>5. ShownInv /\ ItemsInv /\ ServedInv
  BY <1>1, <1>2 DEF ShownInv, ItemsInv, ServedInv
<1> QED
  BY <1>3, <1>4, <1>5 DEF IndInv

LEMMA StepInv == IndInv /\ [DashNext]_dashVars => IndInv'
<1> SUFFICES ASSUME IndInv, [DashNext]_dashVars PROVE IndInv'
  OBVIOUS
<1>1. DashTypeOK'
  BY TypeStep DEF IndInv
<1> DEFINE Goal == FetchInv' /\ ShownInv' /\ ItemsInv' /\ ServedInv'
<1>2. ASSUME NEW f \in Configs, GetData(f) PROVE Goal
  BY <1>2, GetDataStep
<1>3. ASSUME ConfigFails \/ Wake \/ \E j \in Jobs : ListingFails(j) PROVE Goal
  BY <1>3, LoopStep
<1>4. ASSUME Publish PROVE Goal
  BY <1>4, PublishStep
<1>5. ASSUME NEW j \in Jobs, GetBuildNumbers(j) PROVE Goal
  BY <1>5, GetBuildNumbersStep
<1>6. ASSUME NEW j \in Jobs, CheckVersion(j) PROVE Goal
  BY <1>6, CheckVersionStep
<1>7. ASSUME NEW j \in Jobs, SetVersion(j) PROVE Goal
  BY <1>7, SetVersionStep
<1>8. ASSUME NEW j \in Jobs, AddBuildData(j) PROVE Goal
  BY <1>8, AddBuildDataStep
<1>9. ASSUME NEW j \in Jobs, NoMatchingFiles(j) PROVE Goal
  BY <1>9, NoMatchingFilesStep
<1>10. ASSUME NEW j \in Jobs, ReadFile(j) PROVE Goal
  BY <1>10, ReadFileStep
<1>11. ASSUME NEW j \in Jobs, NEW v \in Versions, NewBuild(j, v) PROVE Goal
  BY <1>11, NewBuildStep
<1>12. ASSUME UNCHANGED dashVars PROVE Goal
  <2>1. UNCHANGED <<prefix, bucket, loop, todo, parsing, result, served, listed, skipped, expected>>
    BY <1>12 DEF dashVars
  <2>2. \A j \in Jobs : loop' \in {"fetch", "sleep"} => parsing[j] = NotParsing
    BY <2>1 DEF IndInv, FetchInv, FetchOf
  <2> QED
    BY <2>1, <2>2, WorkKept, ServedKept DEF IndInv
<1> HIDE DEF Goal
<1>13. Goal
  BY <1>2, <1>3, <1>4, <1>5, <1>6, <1>7, <1>8, <1>9, <1>10, <1>11, <1>12 DEF DashNext
<1> QED
  BY <1>1, <1>13 DEF IndInv, Goal

(* The inductive invariant: every listed build is unread, being parsed,    *)
(* shown or skipped, and what is served is a whole fetch (getJobData,      *)
(* parsePerfData and run in src/perfdash).                                 *)
THEOREM InductiveInvariant == DashSpec => []IndInv
BY InitInv, StepInv, PTL DEF DashSpec

(* The variables of the fetching goroutine, of the goroutines of the jobs  *)
(* and of the handlers keep their types; a job's builds stay below the     *)
(* bound of the model.                                                     *)
THEOREM DashTypeCorrect == DashSpec => []DashTypeOK
<1>1. IndInv => DashTypeOK
  BY DEF IndInv
<1> QED
  BY <1>1, InductiveInvariant, PTL

(* What the handlers serve after wg.Wait is one whole fetch: the builds    *)
(* every job listed, each once, but for those passed over, and one version *)
(* under a prefix of one job, although the goroutines share the result     *)
(* and set Version without the lock (getData, getBuildData, parsePerfData, *)
(* run).                                                                   *)
THEOREM ServedIsWhole == DashSpec => []ServedWhole
<1>1. IndInv => ServedWhole
  BY DEF IndInv, ServedInv, ServedWhole
<1> QED
  BY <1>1, InductiveInvariant, PTL
=============================================================================
