------------------------------- MODULE PerfDash -------------------------------
(***************************************************************************)
(* Perfdash (src/perfdash): every syncInterval getData starts a goroutine  *)
(* per job that reads the metrics of the newest builds from the bucket and *)
(* parses them into a result shared by all jobs; the web handlers serve    *)
(* the result of the last fetch.  Jobs may have one prefix in common, and  *)
(* then they write to the same BuildData.                                  *)
(***************************************************************************)
EXTENDS Integers, Sequences, FiniteSets

CONSTANTS
    Jobs,
    Configs,        \* set of functions job -> perfDashPrefix a configuration may give
    BuildsCount,    \* perfDashBuildsCount, or --builds
    MaxBuilds,      \* bound: builds of a job
    MaxFetches      \* bound: calls of getData

ASSUME DashAssumption ==
    /\ IsFiniteSet(Jobs) /\ \A f \in Configs : DOMAIN f = Jobs
    /\ BuildsCount \in Nat /\ MaxBuilds \in Nat \ {0} /\ MaxFetches \in Nat

Versions == {"v1", "v2"}

VARIABLES
    prefix,     \* job -> perfDashPrefix, of the configuration read last
    bucket,     \* job -> versions of its builds, the newest last
    loop,       \* the fetching goroutine: "fetch", "jobs" (in wg.Wait), "sleep",
                \* "crashed"
    todo,       \* job -> builds left, the newest first; "none" before the listing
    parsing,    \* job -> [build, at]: where its parser is
    result,     \* prefix -> [Version, items], as far as it was fetched
    served,     \* the variable the handlers read: [present, data]
    listed,     \* history: job -> the builds this fetch is about
    skipped,    \* history: <<job, build>> not read or of another version
    expected,   \* history: [listed, skipped, prefix] of the fetch that is served
    fetches     \* history

dashVars == <<prefix, bucket, loop, todo, parsing, result, served, listed, skipped, expected, fetches>>

NotParsing == [build |-> 0, at |-> "no"]
NotListed == <<0>>
Empty == [p \in {} |-> [Version |-> "", items |-> << >>]]
NoExpectation == [listed |-> [j \in Jobs |-> {}], skipped |-> {}, prefix |-> prefix]

DashInit ==
    /\ bucket \in [Jobs -> { << >> } \cup { <<v>> : v \in Versions }]
    /\ prefix \in Configs
    /\ loop = "fetch" /\ fetches = 0
    /\ todo = [j \in Jobs |-> NotListed] /\ parsing = [j \in Jobs |-> NotParsing]
    /\ result = Empty /\ served = [present |-> FALSE, data |-> Empty]
    /\ listed = [j \in Jobs |-> {}] /\ skipped = {} /\ expected = NoExpectation

-----------------------------------------------------------------------------
(* A job finishes a build (external).                                      *)
NewBuild(j, v) ==
    /\ Len(bucket[j]) < MaxBuilds
    /\ bucket' = [bucket EXCEPT ![j] = Append(@, v)]
    /\ UNCHANGED <<prefix, loop, todo, parsing, result, served, listed, skipped, expected, fetches>>

(* getData: the configuration names the jobs (getProwConfig,               *)
(* parsePeriodicConfig, checkIfConfigShouldBeUsed), one goroutine each.    *)
GetData(f) ==
    /\ loop = "fetch" /\ fetches < MaxFetches
    /\ fetches' = fetches + 1 /\ loop' = "jobs"
    /\ todo' = [j \in Jobs |-> NotListed] /\ result' = Empty
    /\ listed' = [j \in Jobs |-> {}] /\ skipped' = {}
    /\ prefix' = f
    /\ UNCHANGED <<bucket, parsing, served, expected>>

(* The configuration cannot be read: getData returns nil, and run assigns  *)
(* it to the served result before it looks at the error.                   *)
ConfigFails ==
    /\ loop = "fetch" /\ fetches < MaxFetches
    /\ fetches' = fetches + 1
    /\ served' = [present |-> FALSE, data |-> Empty]
    /\ UNCHANGED <<prefix, bucket, loop, todo, parsing, result, listed, skipped, expected>>

(* getJobData: the builds, the newest BuildsCount of them, newest first.   *)
GetBuildNumbers(j) ==
    /\ loop = "jobs" /\ todo[j] = NotListed
    /\ LET n == Len(bucket[j])
           first == IF n > BuildsCount THEN n - BuildsCount + 1 ELSE 1
       IN /\ todo' = [todo EXCEPT ![j] = [i \in 1 .. n - first + 1 |-> n - i + 1]]
          /\ listed' = [listed EXCEPT ![j] = first .. n]
    /\ UNCHANGED <<prefix, bucket, loop, parsing, result, served, skipped, expected, fetches>>

(* panic(err) in a goroutine ends the process.                             *)
ListingFails(j) ==
    /\ loop = "jobs" /\ todo[j] = NotListed
    /\ loop' = "crashed"
    /\ UNCHANGED <<prefix, bucket, todo, parsing, result, served, listed, skipped, expected, fetches>>

Fetching(j) == loop = "jobs" /\ todo[j] \notin {NotListed, << >>} /\ parsing[j] = NotParsing

(* getMatchingFiles finds none for the next build, or fails, or the file   *)
(* cannot be read: the build is passed over.                               *)
NoMatchingFiles(j) ==
    /\ Fetching(j)
    /\ todo' = [todo EXCEPT ![j] = Tail(@)]
    /\ skipped' = skipped \cup {<<j, Head(todo[j])>>}
    /\ UNCHANGED <<prefix, bucket, loop, parsing, result, served, listed, expected, fetches>>

(* getBuildData finds or makes the BuildData, under the lock.              *)
GetBuildData(p) ==
    result' = [q \in DOMAIN result \cup {p} |->
                 IF q \in DOMAIN result THEN result[q] ELSE [Version |-> "", items |-> << >>]]

(* A file is read, and the parser starts.                                  *)
ReadFile(j) ==
    /\ Fetching(j)
    /\ todo' = [todo EXCEPT ![j] = Tail(@)]
    /\ GetBuildData(prefix[j])
    /\ parsing' = [parsing EXCEPT ![j] = [build |-> Head(todo[j]), at |-> "check"]]
    /\ UNCHANGED <<prefix, bucket, loop, served, listed, skipped, expected, fetches>>

(* parsePerfData: Version is read, set and compared without a lock.        *)
CheckVersion(j) ==
    /\ parsing[j].at = "check"
    /\ parsing' = [parsing EXCEPT ![j].at =
                      IF result[prefix[j]].Version = "" THEN "set" ELSE "compare"]
    /\ UNCHANGED <<prefix, bucket, loop, todo, result, served, listed, skipped, expected, fetches>>

SetVersion(j) ==
    /\ parsing[j].at = "set"
    /\ result' = [result EXCEPT ![prefix[j]].Version = bucket[j][parsing[j].build]]
    /\ parsing' = [parsing EXCEPT ![j].at = "compare"]
    /\ UNCHANGED <<prefix, bucket, loop, todo, served, listed, skipped, expected, fetches>>

AddBuildData(j) ==
    /\ parsing[j].at = "compare"
    /\ LET b == parsing[j].build
       IN IF result[prefix[j]].Version = bucket[j][b]
          THEN /\ result' = [result EXCEPT ![prefix[j]].items = Append(@, <<j, b>>)]
               /\ UNCHANGED skipped
          ELSE skipped' = skipped \cup {<<j, b>>} /\ UNCHANGED result
    /\ parsing' = [parsing EXCEPT ![j] = NotParsing]
    /\ UNCHANGED <<prefix, bucket, loop, todo, served, listed, expected, fetches>>

(* Mutant: the goroutine of a job is done while its last file is parsed.   *)
FinishedReading(j) == todo[j] = << >>

(* wg.Wait returns, and run assigns the result.                            *)
Finished(j) == todo[j] = << >> /\ parsing[j] = NotParsing

Publish ==
    /\ loop = "jobs" /\ \A j \in Jobs : Finished(j)
    /\ served' = [present |-> TRUE, data |-> result]
    /\ expected' = [listed |-> listed, skipped |-> skipped, prefix |-> prefix]
    /\ loop' = "sleep"
    /\ UNCHANGED <<prefix, bucket, todo, parsing, result, listed, skipped, fetches>>

Wake ==
    /\ loop = "sleep"
    /\ loop' = "fetch"
    /\ UNCHANGED <<prefix, bucket, todo, parsing, result, served, listed, skipped, expected, fetches>>

DashNext ==
    \/ \E f \in Configs : GetData(f)
    \/ ConfigFails \/ Publish \/ Wake
    \/ \E j \in Jobs :
          \/ GetBuildNumbers(j) \/ ListingFails(j) \/ CheckVersion(j) \/ SetVersion(j)
          \/ AddBuildData(j) \/ NoMatchingFiles(j) \/ ReadFile(j)
          \/ \E v \in Versions : NewBuild(j, v)

DashSpec == DashInit /\ [][DashNext]_dashVars

-----------------------------------------------------------------------------
BuildDatas == [Version : Versions \cup {""}, items : Seq(Jobs \X Nat)]

DashTypeOK ==
    /\ loop \in {"fetch", "jobs", "sleep", "crashed"} /\ fetches \in 0 .. MaxFetches
    /\ prefix \in Configs
    /\ bucket \in [Jobs -> Seq(Versions)] /\ \A j \in Jobs : Len(bucket[j]) <= MaxBuilds
    /\ todo \in [Jobs -> Seq(Nat)]
    /\ parsing \in [Jobs -> [build : Nat, at : {"no", "check", "set", "compare"}]]
    /\ result \in [DOMAIN result -> BuildDatas]
    /\ served.data \in [DOMAIN served.data -> BuildDatas] /\ served.present \in BOOLEAN
    /\ listed \in [Jobs -> SUBSET Nat] /\ skipped \subseteq Jobs \X Nat

(* What a result shows is a finished fetch: the builds that were listed,   *)
(* each once, but for those that could not be read or were of another      *)
(* version; and a prefix of one job holds builds of one version only.      *)
Shown(data) ==
    UNION { { data[p].items[i] : i \in 1 .. Len(data[p].items) } : p \in DOMAIN data }

VersionOf(x) == bucket[x[1]][x[2]]

Owners(e, p) == { j \in Jobs : e.prefix[j] = p }

Whole(data, e) ==
    /\ Shown(data) =
          { x \in Jobs \X (1 .. MaxBuilds) : x[2] \in e.listed[x[1]] } \ e.skipped
    /\ \A p \in DOMAIN data :
          /\ \A i, k \in 1 .. Len(data[p].items) :
                data[p].items[i] = data[p].items[k] => i = k
          /\ Cardinality(Owners(e, p)) = 1 =>
                \A i, k \in 1 .. Len(data[p].items) :
                   VersionOf(data[p].items[i]) = VersionOf(data[p].items[k])

(* What is served is the newest builds of every job when it was listed,    *)
(* although the goroutines of the jobs share the result, builds are added  *)
(* meanwhile, and a fetch may fail.                                        *)
ServedWhole == served.present => Whole(served.data, expected)
=============================================================================
