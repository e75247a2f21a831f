------------------------ MODULE PhaseExecutionProofs ------------------------
(***************************************************************************)
(* Proofs about PhaseExecution for every set of namespaces, objects and    *)
(* phases, and every bound: type correctness, NoSilentDivergence, the      *)
(* order in which the objects of a replica are created and deleted, and    *)
(* that a step of phases implements the abstract ForkJoin.                 *)
(***************************************************************************)
EXTENDS PhaseExecution, FiniteSetTheorems, TLAPS

-----------------------------------------------------------------------------
(* The inductive invariant.  NoSilentDivergence speaks of keys no phase is *)
(* working on; to be preserved it needs to say where a phase stands with   *)
(* the keys it is working on.                                              *)

Excused(k, r) == \/ Blamed(k, r)
                 \/ k \in unlisted
                 \/ <<k[2], r>> \in EmptyTemplate

(* Phase p has planned key k and has not returned yet.                     *)
Owns(p, k) == Active(p) /\ k \in PlannedNs(p) \X Touched(p.bundle)

Works(t, p, k, r) == t.phase = p /\ t.ns = k[1] /\ t.r = r

(* Active phases are independent.                                          *)
PhasesInv == Independent({ p \in Phases : Active(p) })

(* A unit of work belongs to a phase that has planned its namespace, and   *)
(* deletes surplus replicas or establishes declared ones.                  *)
TasksInv ==
    \A t \in tasks :
        /\ pc[t.phase] \in {"planning", "executing"}
        /\ t.st = "busy" => pc[t.phase] = "executing"
        /\ t.ns \in PlannedNs(t.phase)
        /\ IF t.op = "delete" THEN t.phase.replicas <= t.r ELSE t.r < t.phase.replicas

(* A key a phase has planned is recorded with the phase's replica count.   *)
OwnedInv == \A p \in Phases : \A k \in Keys :
                Owns(p, k) => k \in known /\ desired[k] = p.replicas

(* Objects of a key that is not recorded are those the test found.         *)
UnknownInv ==
    \A k \in Keys \ known :
        \E n \in 0 .. MaxReplicas : /\ cluster[k] = 0 .. (n - 1)
                                    /\ k[2] \notin ListUnknown => n = 0

(* A recorded key nobody owns agrees with the cluster.                     *)
SettledInv ==
    \A k \in known, r \in Replicas :
        ~Excused(k, r) /\ (\A p \in Phases : ~Owns(p, k))
            => (r \in cluster[k] <=> r < current[k])

(* A replica of an owned key no unit is left for has reached its target.   *)
ReachedInv ==
    \A p \in Phases : \A k \in Keys, r \in Replicas :
        /\ Owns(p, k)
        /\ ~Excused(k, r)
        /\ \A t \in tasks : ~Works(t, p, k, r)
        => (r \in cluster[k] <=> r < p.replicas)

(* The objects a unit has passed have reached their target.                *)
PassedBy(t) ==
    \A j \in DOMAIN t.phase.bundle :
        LET k == <<t.ns, t.phase.bundle[j]>>
        IN  ~Excused(k, t.r) =>
              /\ t.op = "delete" /\ j > t.pos => t.r \notin cluster[k]
              /\ t.op # "delete" /\ j < t.pos => t.r \in cluster[k]

PassedInv == \A t \in tasks : PassedBy(t)

IndInv == /\ TypeOK /\ PhasesInv /\ TasksInv /\ OwnedInv /\ UnknownInv
          /\ SettledInv /\ ReachedInv /\ PassedInv

-----------------------------------------------------------------------------
(* Facts about the constants and the helpers.                              *)

(* A phase of the config has well-formed fields.                           *)
LEMMA PhaseFacts ==
    ASSUME NEW p \in Phases
    PROVE  /\ p.namespaces \in Seq(Namespaces)
           /\ p.bundle \in Seq(Objects)
           /\ Len(p.namespaces) \in Nat
           /\ Len(p.bundle) \in Nat
           /\ DOMAIN p.namespaces = 1 .. Len(p.namespaces)
           /\ DOMAIN p.bundle = 1 .. Len(p.bundle)
           /\ \A i \in 1 .. Len(p.namespaces) : p.namespaces[i] \in Namespaces
           /\ \A j \in 1 .. Len(p.bundle) : p.bundle[j] \in Objects
           /\ p.replicas \in 0 .. MaxReplicas
           /\ p.replicas \in Nat
<1>1. p \in PhaseType
  BY PhasesAssumption
<1>2. /\ p.namespaces \in Seq(Namespaces)
      /\ p.bundle \in Seq(Objects)
      /\ p.replicas \in 0 .. MaxReplicas
  BY <1>1 DEF PhaseType
<1> QED
  BY <1>2, ConstantsAssumption

(* A set of replica indices has at most MaxReplicas elements, and the set  *)
(* of the first n indices has n.                                           *)
LEMMA ReplicaCounts ==
    /\ \A S \in SUBSET Replicas : Cardinality(S) \in 0 .. MaxReplicas
    /\ \A n \in 0 .. MaxReplicas : Cardinality(0 .. (n - 1)) = n
<1>1. /\ MaxReplicas \in Nat
      /\ MaxReplicas - 1 \in Int /\ 0 \in Int
  BY ConstantsAssumption
<1>2. IsFiniteSet(Replicas) /\ Cardinality(Replicas) = MaxReplicas
  <2>1. /\ IsFiniteSet(0 .. (MaxReplicas - 1))
        /\ Cardinality(0 .. (MaxReplicas - 1)) =
              IF 0 > MaxReplicas - 1 THEN 0 ELSE (MaxReplicas - 1) - 0 + 1
    BY <1>1, FS_Interval
  <2> QED
    BY <1>1, <2>1 DEF Replicas
<1>3. ASSUME NEW S \in SUBSET Replicas
      PROVE  Cardinality(S) \in 0 .. MaxReplicas
  <2>1. Cardinality(S) <= Cardinality(Replicas) /\ IsFiniteSet(S)
    BY <1>2, FS_Subset
  <2>2. Cardinality(S) \in Nat
    BY <2>1, FS_CardinalityType
  <2> QED
    BY <1>1, <1>2, <2>1, <2>2
<1>4. ASSUME NEW n \in 0 .. MaxReplicas
      PROVE  Cardinality(0 .. (n - 1)) = n
  <2>1. n \in Nat /\ n - 1 \in Int
    BY <1>1
  <2>2. Cardinality(0 .. (n - 1)) = IF 0 > n - 1 THEN 0 ELSE (n - 1) - 0 + 1
    BY <1>1, <2>1, FS_Interval
  <2> QED
    BY <2>1, <2>2
<1> QED
  BY <1>3, <1>4

(* The keys of the namespace being planned are keys of the phase.          *)
LEMMA PlannedKeys ==
    ASSUME NEW p \in Phases, planned[p] \in Nat, planned[p] < Len(p.namespaces),
           NEW n \in 0 .. Len(p.bundle)
    PROVE  /\ NextNs(p) \in Namespaces
           /\ KeysUpTo(p, n) \subseteq Keys
           /\ KeysUpTo(p, n) \subseteq KeysOf(p)
           /\ \A k \in KeysUpTo(p, n) : k[1] = NextNs(p)
BY PhaseFacts DEF NextNs, KeysUpTo, Keys, KeysOf, Touched

(* New counts are counts.                                                  *)
LEMMA NewCountType ==
    ASSUME TypeOK, NEW k \in Keys, NEW failed
    PROVE  NewCount(k, failed) \in 0 .. MaxReplicas
<1>1. cluster[k] \in SUBSET Replicas
  BY DEF TypeOK
<1> QED
  BY <1>1, ReplicaCounts, ConstantsAssumption DEF NewCount

(* The bookkeeping of a bundle keeps the types.                            *)
LEMMA RecordType ==
    ASSUME TypeOK, NEW p \in Phases, planned[p] < Len(p.namespaces),
           NEW n \in 0 .. Len(p.bundle), NEW failed, Record(p, n, failed)
    PROVE  /\ known' \subseteq Keys
           /\ desired' \in [Keys -> 0 .. MaxReplicas]
           /\ current' \in [Keys -> 0 .. MaxReplicas]
           /\ unlisted' \subseteq Keys
<1>1. planned[p] \in Nat
  BY DEF TypeOK
<1>2. KeysUpTo(p, n) \subseteq Keys
  BY <1>1, PlannedKeys
<1>3. p.replicas \in 0 .. MaxReplicas
  BY PhaseFacts
<1>4. \A k \in Keys : NewCount(k, failed) \in 0 .. MaxReplicas
  BY NewCountType
<1> QED
  BY <1>2, <1>3, <1>4 DEF Record, TypeOK

-----------------------------------------------------------------------------
(* Type correctness.                                                       *)

(* The initial state is well typed.                                        *)
LEMMA TypeInit == Init => TypeOK
<1> SUFFICES ASSUME Init PROVE TypeOK
  OBVIOUS
<1>1. PICK n \in [Keys -> 0 .. MaxReplicas] : cluster = [k \in Keys |-> 0 .. (n[k] - 1)]
  BY DEF Init
<1>2. cluster \in [Keys -> SUBSET Replicas]
  BY <1>1, ConstantsAssumption DEF Replicas
<1>3. \A p \in Phases : Len(p.namespaces) \in Nat
  BY PhaseFacts
<1>4. 0 \in 0 .. MaxReplicas /\ 0 \in 0 .. MaxSteps
  BY ConstantsAssumption
<1> QED
  BY <1>2, <1>3, <1>4 DEF Init, TypeOK, PhaseStates

(* A unit of work stays well typed when it starts, retries or moves on.    *)
LEMMA TaskTypes ==
    ASSUME TypeOK, NEW t \in tasks
    PROVE  /\ t \in Task
           /\ t.phase \in Phases /\ t.ns \in Namespaces /\ t.r \in Replicas
           /\ t.op \in Ops /\ t.st \in {"todo", "busy"}
           /\ t.pos \in 1 .. Len(t.phase.bundle)
           /\ t.tries \in Nat /\ t.tries < RetrySteps
           /\ Len(t.phase.bundle) \in Nat
           /\ KeyAt(t) \in Keys
BY PhaseFacts DEF TypeOK, Task, KeyAt, Keys

(* Only the named fields of an updated unit of work change.                *)
LEMMA TaskUpdate ==
    ASSUME NEW t \in Task
    PROVE  /\ \A q \in Nat :
                 LET u == [t EXCEPT !.pos = q, !.tries = 0]
                 IN  /\ u \in Task /\ u.phase = t.phase /\ u.ns = t.ns /\ u.r = t.r
                     /\ u.op = t.op /\ u.st = t.st /\ u.pos = q /\ u.tries = 0
           /\ \A m \in Nat :
                 LET u == [t EXCEPT !.tries = m]
                 IN  /\ u \in Task /\ u.phase = t.phase /\ u.ns = t.ns /\ u.r = t.r
                     /\ u.op = t.op /\ u.st = t.st /\ u.pos = t.pos /\ u.tries = m
           /\ LET u == [t EXCEPT !.st = "busy"]
              IN  /\ u \in Task /\ u.phase = t.phase /\ u.ns = t.ns /\ u.r = t.r
                  /\ u.op = t.op /\ u.st = "busy" /\ u.pos = t.pos /\ u.tries = t.tries
<1>1. ASSUME NEW q \in Nat
      PROVE  LET u == [t EXCEPT !.pos = q, !.tries = 0]
             IN  /\ u \in Task /\ u.phase = t.phase /\ u.ns = t.ns /\ u.r = t.r
                 /\ u.op = t.op /\ u.st = t.st /\ u.pos = q /\ u.tries = 0
  BY DEF Task
<1>2. ASSUME NEW m \in Nat
      PROVE  LET u == [t EXCEPT !.tries = m]
             IN  /\ u \in Task /\ u.phase = t.phase /\ u.ns = t.ns /\ u.r = t.r
                 /\ u.op = t.op /\ u.st = t.st /\ u.pos = t.pos /\ u.tries = m
  BY DEF Task
<1>3. LET u == [t EXCEPT !.st = "busy"]
      IN  /\ u \in Task /\ u.phase = t.phase /\ u.ns = t.ns /\ u.r = t.r
          /\ u.op = t.op /\ u.st = "busy" /\ u.pos = t.pos /\ u.tries = t.tries
  BY DEF Task
<1> QED
  BY <1>1, <1>2, <1>3

(* Going on with the next object of the bundle keeps a unit inside it.     *)
LEMMA NextObjectType ==
    ASSUME TypeOK, NEW t \in tasks, NextObject(t) \/ tasks' = tasks \ {t}
    PROVE  /\ tasks' \subseteq Task
           /\ \A u \in tasks' : /\ u.pos \in 1 .. Len(u.phase.bundle)
                                /\ u.tries < RetrySteps
<1>1. CASE tasks' = tasks \ {t}
  BY <1>1 DEF TypeOK
<1>2. CASE ~LastObject(t) /\ tasks' = (tasks \ {t}) \cup
                                        {[t EXCEPT !.pos = NextPos(t), !.tries = 0]}
  <2> DEFINE u == [t EXCEPT !.pos = NextPos(t), !.tries = 0]
  <2>1. NextPos(t) \in 1 .. Len(t.phase.bundle) /\ NextPos(t) \in Nat /\ t \in Task
    BY <1>2, TaskTypes DEF LastObject, NextPos
  <2>2. u \in Task /\ u.pos = NextPos(t) /\ u.tries = 0 /\ u.phase = t.phase
    BY <2>1, TaskUpdate
  <2>3. 0 < RetrySteps
    BY ConstantsAssumption
  <2>4. tasks' = (tasks \ {t}) \cup {u}
    BY <1>2
  <2> HIDE DEF u
  <2> QED
    BY <2>1, <2>2, <2>3, <2>4 DEF TypeOK
<1> QED
  BY <1>1, <1>2 DEF NextObject

(* A call that is served only touches replica indices of its own key.      *)
LEMMA ServedType ==
    ASSUME TypeOK, NEW t \in tasks, Served(t) \/ UNCHANGED cluster
    PROVE  cluster' \in [Keys -> SUBSET Replicas]
<1>1. KeyAt(t) \in Keys /\ t.r \in Replicas
  BY TaskTypes
<1>2. cluster \in [Keys -> SUBSET Replicas]
  BY DEF TypeOK
<1> QED
  BY <1>1, <1>2 DEF Served

(* The units planned for a namespace are well-formed tasks.                *)
LEMMA PlannedType ==
    ASSUME TypeOK, NEW p \in Phases, planned[p] < Len(p.namespaces),
           p.bundle # << >>, NEW c \in 0 .. MaxReplicas
    PROVE  /\ Planned(p, c) \subseteq Task
           /\ \A u \in Planned(p, c) : /\ u.pos \in 1 .. Len(u.phase.bundle)
                                       /\ u.tries < RetrySteps
<1>1. NextNs(p) \in Namespaces
  BY PlannedKeys, PhaseFacts DEF TypeOK
<1>2. Len(p.bundle) \in Nat /\ Len(p.bundle) >= 1
  BY PhaseFacts
<1>3. 0 < RetrySteps
  BY ConstantsAssumption
<1>4. ASSUME NEW r \in Replicas, NEW op \in Ops
      PROVE  LET u == NewTask(p, r, op)
             IN  u \in Task /\ u.pos \in 1 .. Len(u.phase.bundle) /\ u.tries < RetrySteps
  BY <1>1, <1>2, <1>3 DEF NewTask, Task
<1> QED
  BY <1>4 DEF Planned, Ops

(* Every step keeps the types.                                             *)
LEMMA TypeStep == TypeOK /\ [Next]_vars => TypeOK'
<1> SUFFICES ASSUME TypeOK, [Next]_vars PROVE TypeOK'
  OBVIOUS
<1> USE DEF recVars, errVars
<1>1. ASSUME NEW ps \in SUBSET Phases, StartStep(ps)
      PROVE  TypeOK'
  BY <1>1, PhaseFacts, ConstantsAssumption DEF StartStep, TypeOK, PhaseStates
<1>2. CASE EndStep
  BY <1>2 DEF EndStep, TypeOK, PhaseStates
<1>3. ASSUME NEW p \in Phases, PlanNamespace(p)
      PROVE  TypeOK'
  <2>1. planned[p] < Len(p.namespaces) /\ p.bundle # << >>
    BY <1>3 DEF PlanNamespace
  <2>2. Len(p.bundle) \in 0 .. Len(p.bundle) /\ Len(p.bundle) >= 1 /\ 1 \in 1 .. Len(p.bundle)
    BY <2>1, PhaseFacts
  <2>3. PICK failed : Record(p, Len(p.bundle), failed)
    BY <1>3 DEF PlanNamespace
  <2>4. /\ known' \subseteq Keys
        /\ desired' \in [Keys -> 0 .. MaxReplicas]
        /\ current' \in [Keys -> 0 .. MaxReplicas]
        /\ unlisted' \subseteq Keys
    BY <2>1, <2>2, <2>3, RecordType
  <2>5. <<NextNs(p), p.bundle[1]>> \in Keys
    BY <2>1, <2>2, PhaseFacts, PlannedKeys DEF TypeOK, Keys
  <2>6. PICK c \in 0 .. MaxReplicas : tasks' = tasks \cup Planned(p, c)
    BY <1>3, <2>4, <2>5 DEF PlanNamespace
  <2>7. /\ Planned(p, c) \subseteq Task
        /\ \A u \in Planned(p, c) : u.pos \in 1 .. Len(u.phase.bundle) /\ u.tries < RetrySteps
    BY <2>1, PlannedType
  <2>8. /\ tasks' \subseteq Task
        /\ \A u \in tasks' : u.pos \in 1 .. Len(u.phase.bundle) /\ u.tries < RetrySteps
    BY <2>6, <2>7 DEF TypeOK
  <2>9. /\ planned' \in [Phases -> Nat]
        /\ \A q \in Phases : planned'[q] <= Len(q.namespaces)
    BY <1>3, <2>1, PhaseFacts DEF PlanNamespace, TypeOK
  <2> QED
    BY <1>3, <2>4, <2>8, <2>9 DEF PlanNamespace, TypeOK
<1>4. ASSUME NEW p \in Phases, PlanFailsAtObject(p) \/ PlanFailsAtBundle(p)
      PROVE  TypeOK'
  <2>1. planned[p] < Len(p.namespaces)
    BY <1>4 DEF PlanFailsAtObject, PlanFailsAtBundle
  <2>2. \E n \in 0 .. Len(p.bundle) : \E failed : Record(p, n, failed)
    <3>1. CASE PlanFailsAtObject(p)
      <4>1. PICK j \in 1 .. Len(p.bundle) : \E failed : Record(p, j - 1, failed)
        BY <3>1 DEF PlanFailsAtObject
      <4> QED
        BY <4>1, PhaseFacts
    <3>2. CASE PlanFailsAtBundle(p)
      BY <3>2, PhaseFacts DEF PlanFailsAtBundle
    <3> QED
      BY <1>4, <3>1, <3>2
  <2>3. /\ known' \subseteq Keys
        /\ desired' \in [Keys -> 0 .. MaxReplicas]
        /\ current' \in [Keys -> 0 .. MaxReplicas]
        /\ unlisted' \subseteq Keys
    BY <2>1, <2>2, RecordType
  <2>4. AbandonPlan(p)
    BY <1>4 DEF PlanFailsAtObject, PlanFailsAtBundle
  <2> QED
    BY <2>3, <2>4 DEF AbandonPlan, TypeOK, PhaseStates
<1>5. ASSUME NEW p \in Phases, EmptyBundle(p) \/ ExecuteActions(p) \/ AllDone(p)
      PROVE  TypeOK'
  BY <1>5 DEF EmptyBundle, ExecuteActions, AllDone, TypeOK, PhaseStates
<1>6. ASSUME NEW p \in Phases, Return(p)
      PROVE  TypeOK'
  <2>1. PlannedNs(p) \X Touched(p.bundle) \subseteq Keys
    BY PhaseFacts DEF PlannedNs, Touched, Keys, TypeOK
  <2> QED
    BY <1>6, <2>1 DEF Return, TypeOK, PhaseStates
<1>7. ASSUME NEW t \in tasks, StartTask(t)
      PROVE  TypeOK'
  <2> DEFINE u == [t EXCEPT !.st = "busy"]
  <2>1. u \in Task /\ u.phase = t.phase /\ u.pos = t.pos /\ u.tries = t.tries
    BY TaskTypes, TaskUpdate
  <2>2. tasks' = (tasks \ {t}) \cup {u}
    BY <1>7 DEF StartTask
  <2> HIDE DEF u
  <2>3. /\ tasks' \subseteq Task
        /\ \A v \in tasks' : v.pos \in 1 .. Len(v.phase.bundle) /\ v.tries < RetrySteps
    BY <2>1, <2>2 DEF TypeOK
  <2> QED
    BY <1>7, <2>3 DEF StartTask, TypeOK
<1>8. ASSUME NEW t \in tasks, SkipEmpty(t) \/ CallSucceeds(t)
      PROVE  TypeOK'
  <2>1. cluster' \in [Keys -> SUBSET Replicas]
    BY <1>8, ServedType DEF SkipEmpty, CallSucceeds
  <2>2. /\ tasks' \subseteq Task
        /\ \A u \in tasks' : u.pos \in 1 .. Len(u.phase.bundle) /\ u.tries < RetrySteps
    BY <1>8, NextObjectType DEF SkipEmpty, CallSucceeds
  <2> QED
    BY <1>8, <2>1, <2>2 DEF SkipEmpty, CallSucceeds, TypeOK
<1>9. ASSUME NEW t \in tasks, CallRetried(t)
      PROVE  TypeOK'
  <2>1. cluster' \in [Keys -> SUBSET Replicas]
    BY <1>9, ServedType DEF CallRetried
  <2> DEFINE m == t.tries + 1
             u == [t EXCEPT !.tries = m]
  <2>2. m \in Nat /\ m < RetrySteps /\ tasks' = (tasks \ {t}) \cup {u} /\ t \in Task
    BY <1>9, TaskTypes DEF CallRetried
  <2> HIDE DEF m
  <2>3. u \in Task /\ u.phase = t.phase /\ u.pos = t.pos /\ u.tries = m
    BY <2>2, TaskUpdate
  <2> HIDE DEF u
  <2>4. /\ tasks' \subseteq Task
        /\ \A v \in tasks' : v.pos \in 1 .. Len(v.phase.bundle) /\ v.tries < RetrySteps
    BY <2>2, <2>3 DEF TypeOK
  <2> QED
    BY <1>9, <2>1, <2>4 DEF CallRetried, TypeOK
<1>10. ASSUME NEW t \in tasks, CallFails(t)
       PROVE  TypeOK'
  <2>1. cluster' \in [Keys -> SUBSET Replicas]
    BY <1>10, ServedType DEF CallFails
  <2>2. /\ tasks' \subseteq Task
        /\ \A u \in tasks' : u.pos \in 1 .. Len(u.phase.bundle) /\ u.tries < RetrySteps
    BY <1>10, NextObjectType DEF CallFails, AfterError
  <2>3. UnitOf(t) \in Unit
    BY TaskTypes DEF UnitOf, Unit
  <2> QED
    BY <1>10, <2>1, <2>2, <2>3 DEF CallFails, TypeOK
<1>11. CASE Finished \/ UNCHANGED vars
  BY <1>11 DEF Finished, vars, TypeOK
<1> QED
  BY <1>1, <1>2, <1>3, <1>4, <1>5, <1>6, <1>7, <1>8, <1>9, <1>10, <1>11
     DEF Next, Progress, PhaseStep, TaskStep

(* The recorded counts, the units of work and the errors always have the   *)
(* shape the executor expects; in particular no unit points outside its    *)
(* bundle and no call is tried more than retryBackoffSteps times.          *)
THEOREM TypeCorrect == Spec => []TypeOK
<1>1. Init => TypeOK
  BY TypeInit
<1>2. TypeOK /\ [Next]_vars => TypeOK'
  BY TypeStep
<1> QED
  BY <1>1, <1>2, PTL DEF Spec

-----------------------------------------------------------------------------
(* Errors are never forgotten.                                             *)
LEMMA ExcusedStays ==
    ASSUME planErrs \subseteq planErrs', unitErrs \subseteq unitErrs',
           unlisted \subseteq unlisted'
    PROVE  \A k, r : Excused(k, r) => Excused(k, r)'
BY DEF Excused, Blamed

(* The key a running unit works on is owned by its phase and by no other.  *)
LEMMA TaskOwner ==
    ASSUME TypeOK, PhasesInv, TasksInv, OwnedInv, NEW t \in tasks, NEW j \in DOMAIN t.phase.bundle
    PROVE  LET k == <<t.ns, t.phase.bundle[j]>>
           IN  /\ k \in Keys /\ k \in known /\ Owns(t.phase, k)
               /\ \A p \in Phases : Owns(p, k) => p = t.phase
<1> DEFINE k == <<t.ns, t.phase.bundle[j]>>
<1>1. t.phase \in Phases /\ t.ns \in Namespaces
  BY TaskTypes
<1>2. k \in Keys
  BY <1>1, PhaseFacts DEF Keys
<1>3. Owns(t.phase, k)
  BY <1>1 DEF TasksInv, Owns, Active, Touched
<1>4. \A p \in Phases : Owns(p, k) => k \in KeysOf(p)
  BY PhaseFacts DEF Owns, PlannedNs, KeysOf, Touched, TypeOK
<1>5. \A p \in Phases : Owns(p, k) => p = t.phase
  <2> SUFFICES ASSUME NEW p \in Phases, Owns(p, k), p # t.phase PROVE FALSE
    OBVIOUS
  <2>1. Active(p) /\ Active(t.phase)
    BY <1>3 DEF Owns
  <2>2. KeysOf(p) \cap KeysOf(t.phase) = {}
    BY <1>1, <2>1 DEF PhasesInv, Independent
  <2> QED
    BY <1>1, <1>3, <1>4, <2>2
<1> QED
  BY <1>1, <1>2, <1>3, <1>5 DEF OwnedInv

(* A call that is served changes one replica of one key, in the direction  *)
(* of the unit's operation.                                                *)
LEMMA ServedEffect ==
    ASSUME TypeOK, NEW t \in tasks, Served(t) \/ UNCHANGED cluster
    PROVE  /\ \A k \in Keys, r \in Replicas :
                 k # KeyAt(t) \/ r # t.r => (r \in cluster'[k] <=> r \in cluster[k])
           /\ \A k \in Keys : k # KeyAt(t) => cluster'[k] = cluster[k]
           /\ t.op # "delete" => \A k \in Keys : cluster[k] \subseteq cluster'[k]
           /\ t.op = "delete" => \A k \in Keys : cluster'[k] \subseteq cluster[k]
<1>1. KeyAt(t) \in Keys /\ t.r \in Replicas
  BY TaskTypes
<1>2. cluster \in [Keys -> SUBSET Replicas]
  BY DEF TypeOK
<1> QED
  BY <1>1, <1>2 DEF Served

(* What an API call of unit t leaves intact, whatever becomes of t.        *)
LEMMA CallFrame ==
    ASSUME IndInv, NEW t \in tasks,
           UNCHANGED <<pc, planned, known, desired, current, planErrs, unlisted>>,
           unitErrs \subseteq unitErrs',
           Served(t) \/ UNCHANGED cluster
    PROVE  /\ PhasesInv' /\ OwnedInv' /\ UnknownInv' /\ SettledInv'
           /\ \A v \in tasks : PassedBy(v)'
           /\ \A p \in Phases : \A k \in Keys, r \in Replicas :
                 /\ Owns(p, k) /\ ~Excused(k, r)'
                 /\ \A v \in tasks : ~Works(v, p, k, r)
                 => (r \in cluster'[k] <=> r < p.replicas)
           /\ \A p, k : Owns(p, k)' <=> Owns(p, k)
<1>1. \A p, k : Owns(p, k)' <=> Owns(p, k)
  BY DEF Owns, Active, PlannedNs
<1>2. \A k, r : Excused(k, r) => Excused(k, r)'
  BY ExcusedStays
<1>3. /\ t.phase \in Phases /\ t.pos \in DOMAIN t.phase.bundle /\ t.r \in Replicas
      /\ KeyAt(t) \in Keys
  BY TaskTypes, PhaseFacts DEF IndInv
<1>4. /\ KeyAt(t) \in known /\ Owns(t.phase, KeyAt(t))
      /\ \A p \in Phases : Owns(p, KeyAt(t)) => p = t.phase
  BY <1>3, TaskOwner DEF IndInv, KeyAt
<1>5. PhasesInv'
  BY DEF IndInv, PhasesInv, Active
<1>6. OwnedInv'
  BY <1>1 DEF IndInv, OwnedInv
<1>7. UnknownInv'
  <2>1. \A k \in Keys \ known : cluster'[k] = cluster[k]
    BY <1>4, ServedEffect DEF IndInv
  <2> QED
    BY <2>1 DEF IndInv, UnknownInv
<1>8. SettledInv'
  <2> SUFFICES ASSUME NEW k \in known, NEW r \in Replicas, ~Excused(k, r)',
                      \A p \in Phases : ~Owns(p, k)
               PROVE  r \in cluster'[k] <=> r < current[k]
    BY <1>1 DEF SettledInv
  <2>1. k \in Keys /\ k # KeyAt(t)
    BY <1>3, <1>4 DEF IndInv, TypeOK
  <2>2. cluster'[k] = cluster[k]
    BY <2>1, ServedEffect DEF IndInv
  <2> QED
    BY <1>2, <2>2 DEF IndInv, SettledInv
<1>9. ASSUME NEW v \in tasks PROVE PassedBy(v)'
  <2> SUFFICES ASSUME NEW j \in DOMAIN v.phase.bundle,
                      ~Excused(<<v.ns, v.phase.bundle[j]>>, v.r)'
               PROVE  LET k == <<v.ns, v.phase.bundle[j]>>
                      IN  /\ v.op = "delete" /\ j > v.pos => v.r \notin cluster'[k]
                          /\ v.op # "delete" /\ j < v.pos => v.r \in cluster'[k]
    BY DEF PassedBy
  <2> DEFINE k == <<v.ns, v.phase.bundle[j]>>
  <2>1. /\ k \in Keys /\ v.r \in Replicas
        /\ \A p \in Phases : Owns(p, k) => p = v.phase
    BY TaskOwner, TaskTypes DEF IndInv
  <2>2. /\ v.op = "delete" /\ j > v.pos => v.r \notin cluster[k]
        /\ v.op # "delete" /\ j < v.pos => v.r \in cluster[k]
    BY <1>2 DEF IndInv, PassedInv, PassedBy
  <2>3. CASE k = KeyAt(t) /\ v.r = t.r
    <3>1. v.phase = t.phase
      BY <1>3, <1>4, <2>1, <2>3
    <3>2. v.op = "delete" <=> t.op = "delete"
      <4>1. v.phase.replicas \in Nat /\ v.r \in Nat
        BY <2>1, PhaseFacts, TaskTypes DEF IndInv, Replicas
      <4> QED
        BY <2>3, <3>1, <4>1 DEF IndInv, TasksInv
    <3> QED
      BY <2>1, <2>2, <3>2, ServedEffect DEF IndInv
  <2>4. CASE ~(k = KeyAt(t) /\ v.r = t.r)
    BY <2>1, <2>2, <2>4, ServedEffect DEF IndInv
  <2> QED
    BY <2>3, <2>4
<1>10. ASSUME NEW p \in Phases, NEW k \in Keys, NEW r \in Replicas,
              Owns(p, k), ~Excused(k, r)', \A v \in tasks : ~Works(v, p, k, r)
       PROVE  r \in cluster'[k] <=> r < p.replicas
  <2>1. ~(k = KeyAt(t) /\ r = t.r)
    <3> SUFFICES ASSUME k = KeyAt(t), r = t.r PROVE FALSE
      OBVIOUS
    <3>1. p = t.phase
      BY <1>4, <1>10
    <3>2. k[1] = t.ns
      BY DEF KeyAt
    <3> QED
      BY <1>10, <3>1, <3>2 DEF Works
  <2>2. r \in cluster'[k] <=> r \in cluster[k]
    BY <2>1, ServedEffect DEF IndInv
  <2> QED
    BY <1>2, <1>10, <2>2 DEF IndInv, ReachedInv
<1> QED
  BY <1>1, <1>5, <1>6, <1>7, <1>8, <1>9, <1>10

(* Unit t is replaced by u, the same unit further on.                      *)
LEMMA TaskReplaced ==
    ASSUME IndInv, NEW t \in tasks, NEW u,
           tasks' = (tasks \ {t}) \cup {u},
           u.phase = t.phase, u.ns = t.ns, u.r = t.r, u.op = t.op,
           pc[t.phase] = "executing",
           UNCHANGED <<pc, planned, known, desired, current, planErrs, unlisted>>,
           unitErrs \subseteq unitErrs',
           Served(t) \/ UNCHANGED cluster,
           PassedBy(u)'
    PROVE  /\ PhasesInv' /\ TasksInv' /\ OwnedInv' /\ UnknownInv' /\ SettledInv'
           /\ ReachedInv' /\ PassedInv'
<1>1. TasksInv'
  BY DEF IndInv, TasksInv, PlannedNs
<1>2. PassedInv'
  BY CallFrame DEF PassedInv
<1>3. ReachedInv'
  <2> SUFFICES ASSUME NEW p \in Phases, NEW k \in Keys, NEW r \in Replicas,
                      Owns(p, k)', ~Excused(k, r)', \A v \in tasks' : ~Works(v, p, k, r)
               PROVE  r \in cluster'[k] <=> r < p.replicas
    BY DEF ReachedInv, Works
  <2>1. ~Works(t, p, k, r)
    BY DEF Works
  <2>2. \A v \in tasks : ~Works(v, p, k, r)
    BY <2>1
  <2> QED
    BY <2>2, CallFrame
<1> QED
  BY <1>1, <1>2, <1>3, CallFrame

(* Unit t is finished: what it is responsible for has reached its target   *)
(* or is excused.                                                          *)
LEMMA TaskRemoved ==
    ASSUME IndInv, NEW t \in tasks,
           tasks' = tasks \ {t},
           UNCHANGED <<pc, planned, known, desired, current, planErrs, unlisted>>,
           unitErrs \subseteq unitErrs',
           Served(t) \/ UNCHANGED cluster,
           \A j \in DOMAIN t.phase.bundle :
               LET k == <<t.ns, t.phase.bundle[j]>>
               IN  ~Excused(k, t.r)' => (t.r \in cluster'[k] <=> t.op # "delete")
    PROVE  /\ PhasesInv' /\ TasksInv' /\ OwnedInv' /\ UnknownInv' /\ SettledInv'
           /\ ReachedInv' /\ PassedInv'
<1>1. TasksInv'
  BY DEF IndInv, TasksInv, PlannedNs
<1>2. PassedInv'
  BY CallFrame DEF PassedInv
<1>3. ReachedInv'
  <2> SUFFICES ASSUME NEW p \in Phases, NEW k \in Keys, NEW r \in Replicas,
                      Owns(p, k)', ~Excused(k, r)', \A v \in tasks' : ~Works(v, p, k, r)
               PROVE  r \in cluster'[k] <=> r < p.replicas
    BY DEF ReachedInv, Works
  <2>1. CASE ~Works(t, p, k, r)
    <3>1. \A v \in tasks : ~Works(v, p, k, r)
      BY <2>1
    <3> QED
      BY <3>1, CallFrame
  <2>2. CASE Works(t, p, k, r)
    <3>1. t.phase = p /\ t.ns = k[1] /\ t.r = r
      BY <2>2 DEF Works
    <3>2. k \in PlannedNs(p) \X Touched(p.bundle)
      BY CallFrame DEF Owns
    <3>3. PICK j \in DOMAIN p.bundle : k = <<t.ns, p.bundle[j]>>
      BY <3>1, <3>2 DEF Touched
    <3>4. r \in cluster'[k] <=> t.op # "delete"
      BY <3>1, <3>3
    <3>5. p.replicas \in Nat /\ r \in Nat
      BY PhaseFacts DEF Replicas
    <3> QED
      BY <3>1, <3>4, <3>5 DEF IndInv, TasksInv
  <2> QED
    BY <2>1, <2>2
<1> QED
  BY <1>1, <1>2, <1>3, CallFrame

(* The unit goes on after its current object has reached its target, or is *)
(* excused from now on.                                                    *)
LEMMA TaskAdvances ==
    ASSUME IndInv, NEW t \in tasks, t.st = "busy", NextObject(t),
           UNCHANGED <<pc, planned, known, desired, current, planErrs, unlisted>>,
           unitErrs \subseteq unitErrs',
           Served(t) \/ UNCHANGED cluster,
           ~Excused(KeyAt(t), t.r)' => (t.r \in cluster'[KeyAt(t)] <=> t.op # "delete")
    PROVE  /\ PhasesInv' /\ TasksInv' /\ OwnedInv' /\ UnknownInv' /\ SettledInv'
           /\ ReachedInv' /\ PassedInv'
<1>1. /\ t \in Task /\ t.phase \in Phases /\ t.pos \in 1 .. Len(t.phase.bundle)
      /\ t.op \in Ops /\ Len(t.phase.bundle) \in Nat
      /\ DOMAIN t.phase.bundle = 1 .. Len(t.phase.bundle)
  BY TaskTypes, PhaseFacts DEF IndInv
<1>2. PassedBy(t)'
  BY CallFrame
<1>3. CASE LastObject(t)
  <2>1. tasks' = tasks \ {t}
    BY <1>3 DEF NextObject
  <2>2. ASSUME NEW j \in DOMAIN t.phase.bundle,
               ~Excused(<<t.ns, t.phase.bundle[j]>>, t.r)'
        PROVE  t.r \in cluster'[<<t.ns, t.phase.bundle[j]>>] <=> t.op # "delete"
    <3>1. CASE j = t.pos
      BY <2>2, <3>1 DEF KeyAt
    <3>2. CASE j # t.pos
      <4>1. IF t.op = "delete" THEN j > t.pos ELSE j < t.pos
        BY <1>1, <1>3, <3>2 DEF LastObject
      <4> QED
        BY <1>2, <2>2, <4>1 DEF PassedBy
    <3> QED
      BY <3>1, <3>2
  <2> QED
    BY <2>1, <2>2, TaskRemoved
<1>4. CASE ~LastObject(t)
  <2> DEFINE q == NextPos(t)
             u == [t EXCEPT !.pos = q, !.tries = 0]
  <2>1. q \in Nat /\ t \in Task
    BY <1>1, <1>4 DEF LastObject, NextPos
  <2>2. tasks' = (tasks \ {t}) \cup {u}
    BY <1>4 DEF NextObject
  <2> HIDE DEF q
  <2>3. u.phase = t.phase /\ u.ns = t.ns /\ u.r = t.r /\ u.op = t.op /\ u.pos = q
    BY <2>1 DEF Task
  <2> HIDE DEF u
  <2>4. PassedBy(u)'
    <3> SUFFICES ASSUME NEW j \in DOMAIN t.phase.bundle,
                        ~Excused(<<t.ns, t.phase.bundle[j]>>, t.r)'
                 PROVE  LET k == <<t.ns, t.phase.bundle[j]>>
                        IN  /\ t.op = "delete" /\ j > q => t.r \notin cluster'[k]
                            /\ t.op # "delete" /\ j < q => t.r \in cluster'[k]
      BY <2>3 DEF PassedBy
    <3>1. CASE j = t.pos
      BY <3>1 DEF KeyAt
    <3>2. CASE j # t.pos
      <4>1. /\ t.op = "delete" /\ j > q => j > t.pos
            /\ t.op # "delete" /\ j < q => j < t.pos
        BY <1>1, <3>2 DEF q, NextPos
      <4> QED
        BY <1>2, <4>1 DEF PassedBy
    <3> QED
      BY <3>1, <3>2
  <2>5. pc[t.phase] = "executing"
    BY DEF IndInv, TasksInv
  <2> QED
    BY <2>2, <2>3, <2>4, <2>5, TaskReplaced
<1> QED
  BY <1>3, <1>4

(* Every step of a unit of work preserves the invariant.                   *)
LEMMA TaskStepInv ==
    ASSUME IndInv, NEW t \in tasks, TaskStep(t)
    PROVE  /\ PhasesInv' /\ TasksInv' /\ OwnedInv' /\ UnknownInv' /\ SettledInv'
           /\ ReachedInv' /\ PassedInv'
<1> USE DEF recVars, errVars
<1>1. t \in Task /\ KeyAt(t) \in Keys /\ t.r \in Replicas /\ t.op \in Ops
  BY TaskTypes DEF IndInv
<1>2. cluster \in [Keys -> SUBSET Replicas]
  BY DEF IndInv, TypeOK
<1>3. CASE StartTask(t)
  <2> DEFINE u == [t EXCEPT !.st = "busy"]
  <2>1. u.phase = t.phase /\ u.ns = t.ns /\ u.r = t.r /\ u.op = t.op /\ u.pos = t.pos
    BY <1>1, TaskUpdate
  <2>2. tasks' = (tasks \ {t}) \cup {u} /\ pc[t.phase] = "executing"
    BY <1>3 DEF StartTask
  <2> HIDE DEF u
  <2>3. PassedBy(t)'
    BY <1>3, CallFrame DEF StartTask
  <2>4. PassedBy(u)'
    BY <2>1, <2>3 DEF PassedBy
  <2> QED
    BY <1>3, <2>1, <2>2, <2>4, TaskReplaced DEF StartTask
<1>4. CASE SkipEmpty(t)
  <2>1. Excused(KeyAt(t), t.r)'
    BY <1>4 DEF SkipEmpty, Skips, Excused, KeyAt
  <2> QED
    BY <1>4, <2>1, TaskAdvances DEF SkipEmpty
<1>5. CASE CallSucceeds(t)
  <2>1. t.r \in cluster'[KeyAt(t)] <=> t.op # "delete"
    BY <1>1, <1>2, <1>5 DEF CallSucceeds, Served, Exists, Ops
  <2> QED
    BY <1>5, <2>1, TaskAdvances DEF CallSucceeds
<1>6. CASE CallRetried(t)
  <2> DEFINE m == t.tries + 1
             u == [t EXCEPT !.tries = m]
  <2>1. m \in Nat /\ tasks' = (tasks \ {t}) \cup {u}
    BY <1>6, TaskTypes DEF CallRetried, IndInv
  <2> HIDE DEF m
  <2>2. u.phase = t.phase /\ u.ns = t.ns /\ u.r = t.r /\ u.op = t.op /\ u.pos = t.pos
    BY <1>1, <2>1, TaskUpdate
  <2> HIDE DEF u
  <2>3. PassedBy(t)'
    BY <1>6, CallFrame DEF CallRetried
  <2>4. PassedBy(u)'
    BY <2>2, <2>3 DEF PassedBy
  <2>5. pc[t.phase] = "executing"
    BY <1>6 DEF CallRetried, IndInv, TasksInv
  <2> QED
    BY <1>6, <2>1, <2>2, <2>4, <2>5, TaskReplaced DEF CallRetried
<1>7. CASE CallFails(t)
  <2>1. \A j \in DOMAIN t.phase.bundle : Excused(<<t.ns, t.phase.bundle[j]>>, t.r)'
    <3>1. UnitOf(t) \in unitErrs'
      BY <1>7 DEF CallFails
    <3> QED
      BY <3>1 DEF Excused, Blamed, UnitOf, Touched
  <2>2. Excused(KeyAt(t), t.r)'
    <3>1. t.pos \in DOMAIN t.phase.bundle
      BY TaskTypes, PhaseFacts DEF IndInv
    <3> QED
      BY <2>1, <3>1 DEF KeyAt
  <2>3. CASE t.op = "delete"
    BY <1>7, <2>2, <2>3, TaskAdvances DEF CallFails, AfterError
  <2>4. CASE t.op # "delete"
    BY <1>7, <2>1, <2>4, TaskRemoved DEF CallFails, AfterError
  <2> QED
    BY <2>3, <2>4
<1> QED
  BY <1>3, <1>4, <1>5, <1>6, <1>7 DEF TaskStep

-----------------------------------------------------------------------------
(* Steps that only move a phase on.                                        *)
LEMMA ControlInv ==
    ASSUME IndInv, TasksInv',
           \A p \in Phases : Active(p)' <=> Active(p),
           UNCHANGED <<planned, known, desired, current, cluster, tasks, planErrs,
                       unitErrs, unlisted>>
    PROVE  /\ PhasesInv' /\ TasksInv' /\ OwnedInv' /\ UnknownInv' /\ SettledInv'
           /\ ReachedInv' /\ PassedInv'
<1>1. \A p \in Phases : \A k : Owns(p, k)' <=> Owns(p, k)
  BY DEF Owns, PlannedNs
<1>2. \A k, r : Excused(k, r)' <=> Excused(k, r)
  BY DEF Excused, Blamed
<1>3. PhasesInv'
  BY DEF IndInv, PhasesInv, Independent
<1>4. OwnedInv' /\ UnknownInv' /\ SettledInv'
  BY <1>1, <1>2 DEF IndInv, OwnedInv, UnknownInv, SettledInv
<1>5. ReachedInv'
  BY <1>1, <1>2 DEF IndInv, ReachedInv, Works
<1>6. PassedInv'
  BY <1>2 DEF IndInv, PassedInv, PassedBy
<1> QED
  BY <1>3, <1>4, <1>5, <1>6

(* Steps that only move control (no plan, no call, no return) keep IndInv. *)
LEMMA ControlStepInv ==
    ASSUME IndInv, NEW p \in Phases,
           EndStep \/ EmptyBundle(p) \/ ExecuteActions(p) \/ AllDone(p)
    PROVE  /\ PhasesInv' /\ TasksInv' /\ OwnedInv' /\ UnknownInv' /\ SettledInv'
           /\ ReachedInv' /\ PassedInv'
<1> USE DEF recVars, errVars
<1>1. \A t \in tasks : t.phase \in Phases /\ t.pos \in 1 .. Len(t.phase.bundle)
  BY TaskTypes DEF IndInv
<1>2. pc \in [Phases -> PhaseStates]
  BY DEF IndInv, TypeOK
<1>3. CASE EndStep
  <2>1. \A q \in Phases : Active(q)' <=> Active(q)
    BY <1>2, <1>3 DEF EndStep, Active
  <2>2. TasksInv'
    BY <1>1, <1>2, <1>3 DEF EndStep, IndInv, TasksInv
  <2> QED
    BY <1>3, <2>1, <2>2, ControlInv DEF EndStep
<1>4. CASE EmptyBundle(p)
  <2>1. \A q \in Phases : Active(q)' <=> Active(q)
    BY <1>2, <1>4 DEF EmptyBundle, Active
  <2>2. \A t \in tasks : t.phase # p
    <3> SUFFICES ASSUME NEW t \in tasks, t.phase = p PROVE FALSE
      OBVIOUS
    <3>1. p.bundle = << >> /\ Len(p.bundle) = 0
      BY <1>4 DEF EmptyBundle
    <3> QED
      BY <1>1, <3>1
  <2>3. TasksInv'
    BY <1>1, <1>2, <1>4, <2>2 DEF EmptyBundle, IndInv, TasksInv, PlannedNs
  <2> QED
    BY <1>4, <2>1, <2>3, ControlInv DEF EmptyBundle
<1>5. CASE ExecuteActions(p)
  <2>1. \A q \in Phases : Active(q)' <=> Active(q)
    BY <1>2, <1>5 DEF ExecuteActions, Active
  <2>2. TasksInv'
    BY <1>1, <1>2, <1>5 DEF ExecuteActions, IndInv, TasksInv, PlannedNs
  <2> QED
    BY <1>5, <2>1, <2>2, ControlInv DEF ExecuteActions
<1>6. CASE AllDone(p)
  <2>1. \A q \in Phases : Active(q)' <=> Active(q)
    BY <1>2, <1>6 DEF AllDone, Active
  <2>2. TasksInv'
    BY <1>1, <1>2, <1>6 DEF AllDone, TasksOf, IndInv, TasksInv, PlannedNs
  <2> QED
    BY <1>6, <2>1, <2>2, ControlInv DEF AllDone
<1> QED
  BY <1>3, <1>4, <1>5, <1>6

(* A new step: nobody owns a key, and no unit is left over.                *)
LEMMA StartStepInv ==
    ASSUME IndInv, NEW ps \in SUBSET Phases, StartStep(ps)
    PROVE  /\ PhasesInv' /\ TasksInv' /\ OwnedInv' /\ UnknownInv' /\ SettledInv'
           /\ ReachedInv' /\ PassedInv'
<1> USE DEF recVars, errVars
<1>1. \A p \in Phases : ~Active(p)
  BY DEF StartStep, Active
<1>2. tasks = {} /\ tasks' = {}
  <2>1. \A t \in tasks : FALSE
    BY TaskTypes DEF IndInv, TasksInv, StartStep
  <2> QED
    BY <2>1 DEF StartStep
<1>3. \A p \in Phases : PlannedNs(p)' = {}
  BY DEF StartStep, PlannedNs
<1>4. \A p \in Phases : \A k : ~Owns(p, k) /\ ~Owns(p, k)'
  BY <1>1, <1>3 DEF Owns
<1>5. \A k, r : Excused(k, r) => Excused(k, r)'
  BY ExcusedStays DEF StartStep
<1>6. PhasesInv'
  <2>1. { p \in Phases : Active(p)' } \subseteq ps
    BY DEF StartStep, Active
  <2> QED
    BY <2>1 DEF PhasesInv, Independent, StartStep
<1>7. SettledInv'
  BY <1>4, <1>5 DEF StartStep, IndInv, SettledInv
<1>8. TasksInv' /\ PassedInv'
  BY <1>2 DEF TasksInv, PassedInv
<1>9. OwnedInv' /\ ReachedInv'
  BY <1>4 DEF OwnedInv, ReachedInv
<1>10. UnknownInv'
  BY DEF StartStep, IndInv, UnknownInv
<1> QED
  BY <1>6, <1>7, <1>8, <1>9, <1>10

(* The deferred functions of phase p.                                      *)
LEMMA ReturnInv ==
    ASSUME IndInv, NEW p \in Phases, Return(p)
    PROVE  /\ PhasesInv' /\ TasksInv' /\ OwnedInv' /\ UnknownInv' /\ SettledInv'
           /\ ReachedInv' /\ PassedInv'
<1> USE DEF recVars, errVars
<1> DEFINE ks == PlannedNs(p) \X Touched(p.bundle)
<1>1. pc \in [Phases -> PhaseStates] /\ pc[p] = "returning" /\ Active(p)
  BY DEF IndInv, TypeOK, Return, Active
<1>2. \A k : Owns(p, k) <=> k \in ks
  BY <1>1 DEF Owns
<1>3. \A q \in Phases : \A k : Owns(q, k)' <=> q # p /\ Owns(q, k)
  BY <1>1 DEF Return, Owns, Active, PlannedNs
<1>4. \A k, r : Excused(k, r)' <=> Excused(k, r)
  BY DEF Return, Excused, Blamed
<1>5. ks \subseteq Keys /\ ks \subseteq known /\ known' = known
  <2>1. ks \subseteq Keys
    BY PhaseFacts DEF PlannedNs, Touched, Keys, IndInv, TypeOK
  <2> QED
    BY <1>2, <2>1 DEF IndInv, OwnedInv, Return
<1>6. \A t \in tasks : t.phase # p
  BY <1>1 DEF IndInv, TasksInv
<1>7. /\ cluster' = cluster /\ tasks' = tasks /\ desired' = desired
      /\ current' = [k \in Keys |-> IF k \in ks THEN desired[k] ELSE current[k]]
  BY DEF Return
<1> HIDE DEF ks
<1>8. PhasesInv'
  <2>1. \A q \in Phases : Active(q)' => Active(q)
    BY <1>1 DEF Return, Active
  <2> QED
    BY <2>1 DEF IndInv, PhasesInv, Independent
<1>9. TasksInv'
  BY <1>1, <1>6, TaskTypes DEF Return, IndInv, TasksInv, PlannedNs
<1>10. OwnedInv' /\ UnknownInv'
  BY <1>3, <1>5, <1>7 DEF IndInv, OwnedInv, UnknownInv
<1>11. SettledInv'
  <2> SUFFICES ASSUME NEW k \in known, NEW r \in Replicas, ~Excused(k, r),
                      \A q \in Phases : ~Owns(q, k)'
               PROVE  r \in cluster[k] <=> r < current'[k]
    BY <1>4, <1>5, <1>7 DEF SettledInv
  <2>1. k \in Keys
    BY DEF IndInv, TypeOK
  <2>2. CASE k \in ks
    <3>1. Owns(p, k) /\ desired[k] = p.replicas
      BY <1>2, <2>1, <2>2 DEF IndInv, OwnedInv
    <3>2. \A t \in tasks : ~Works(t, p, k, r)
      BY <1>6 DEF Works
    <3>3. r \in cluster[k] <=> r < p.replicas
      BY <2>1, <3>1, <3>2 DEF IndInv, ReachedInv
    <3> QED
      BY <1>7, <2>1, <2>2, <3>1, <3>3
  <2>3. CASE k \notin ks
    <3>1. \A q \in Phases : ~Owns(q, k)
      BY <1>2, <1>3, <2>3
    <3> QED
      BY <1>7, <2>1, <2>3, <3>1 DEF IndInv, SettledInv
  <2> QED
    BY <2>2, <2>3
<1>12. ReachedInv'
  BY <1>3, <1>4, <1>7 DEF IndInv, ReachedInv, Works
<1>13. PassedInv'
  BY <1>4, <1>7 DEF IndInv, PassedInv, PassedBy
<1> QED
  BY <1>8, <1>9, <1>10, <1>11, <1>12, <1>13

-----------------------------------------------------------------------------
(* Planning a namespace.                                                   *)

(* The keys about to be planned are not owned by anybody.                  *)
LEMMA NewKeysFree ==
    ASSUME IndInv, NEW p \in Phases, pc[p] = "planning",
           planned[p] < Len(p.namespaces), NEW n \in 0 .. Len(p.bundle)
    PROVE  \A k \in KeysUpTo(p, n) : \A q \in Phases : ~Owns(q, k)
<1> SUFFICES ASSUME NEW k \in KeysUpTo(p, n), NEW q \in Phases, Owns(q, k)
             PROVE  FALSE
  OBVIOUS
<1>1. planned[p] \in Nat /\ planned[q] \in Nat /\ planned[q] <= Len(q.namespaces)
  BY DEF IndInv, TypeOK
<1>2. k \in KeysOf(p) /\ k[1] = NextNs(p)
  BY <1>1, PlannedKeys
<1>3. k \in KeysOf(q) /\ k[1] \in PlannedNs(q)
  <2>1. PlannedNs(q) \subseteq Touched(q.namespaces)
    BY <1>1, PhaseFacts DEF PlannedNs, Touched
  <2> QED
    BY <2>1 DEF Owns, KeysOf
<1>4. Active(p) /\ Active(q)
  BY DEF Owns, Active
<1>5. CASE q # p
  BY <1>2, <1>3, <1>4, <1>5 DEF IndInv, PhasesInv, Independent
<1>6. CASE q = p
  <2>1. PICK i \in 1 .. planned[p] : p.namespaces[i] = p.namespaces[planned[p] + 1]
    BY <1>2, <1>3, <1>6 DEF PlannedNs, NextNs
  <2>2. i \in DOMAIN p.namespaces /\ planned[p] + 1 \in DOMAIN p.namespaces
        /\ i # planned[p] + 1
    BY <1>1, PhaseFacts
  <2> QED
    BY <2>1, <2>2, PhasesAssumption DEF IsDuplicateFree
<1> QED
  BY <1>5, <1>6

(* The bookkeeping of one bundle, before the namespace counts as planned.  *)
LEMMA RecordInv ==
    ASSUME IndInv, NEW p \in Phases, pc[p] = "planning",
           planned[p] < Len(p.namespaces), NEW n \in 0 .. Len(p.bundle),
           NEW failed, Record(p, n, failed),
           UNCHANGED <<cluster, unitErrs>>, planErrs \subseteq planErrs'
    PROVE  /\ UnknownInv'
           /\ \A k \in KeysUpTo(p, n) : k \in Keys /\ k \in known' /\ desired'[k] = p.replicas
           /\ \A q \in Phases : \A k \in Keys :
                 Owns(q, k) => k \in known' /\ desired'[k] = q.replicas
           /\ \A k \in known', r \in Replicas :
                 ~Excused(k, r)' /\ (\A q \in Phases : ~Owns(q, k))
                     => (r \in cluster[k] <=> r < current'[k])
           /\ \A k, r : Excused(k, r) => Excused(k, r)'
<1> DEFINE ks == KeysUpTo(p, n)
<1>1. planned[p] \in Nat
  BY DEF IndInv, TypeOK
<1>2. ks \subseteq Keys
  BY <1>1, PlannedKeys
<1>3. \A k \in ks : \A q \in Phases : ~Owns(q, k)
  BY NewKeysFree
<1>4. /\ known' = known \cup ks
      /\ desired' = [k \in Keys |-> IF k \in ks THEN p.replicas ELSE desired[k]]
      /\ current' = [k \in Keys |-> IF k \in ks \ known THEN NewCount(k, failed)
                                                        ELSE current[k]]
      /\ unlisted' = unlisted \cup failed
  BY DEF Record
<1> HIDE DEF ks
<1>5. UnknownInv'
  BY <1>4 DEF IndInv, UnknownInv
<1>6. \A k \in ks : k \in Keys /\ k \in known' /\ desired'[k] = p.replicas
  BY <1>2, <1>4
<1>7. \A q \in Phases : \A k \in Keys : Owns(q, k) => k \in known' /\ desired'[k] = q.replicas
  BY <1>3, <1>4 DEF IndInv, OwnedInv
<1>8. \A k, r : Excused(k, r) => Excused(k, r)'
  BY <1>4, ExcusedStays
<1>9. ASSUME NEW k \in known', NEW r \in Replicas, ~Excused(k, r)',
             \A q \in Phases : ~Owns(q, k)
      PROVE  r \in cluster[k] <=> r < current'[k]
  <2>1. k \in Keys
    BY <1>2, <1>4 DEF IndInv, TypeOK
  <2>2. CASE k \in known
    BY <1>4, <1>8, <1>9, <2>1, <2>2 DEF IndInv, SettledInv
  <2>3. CASE k \notin known
    <3>1. current'[k] = NewCount(k, failed)
      BY <1>4, <2>1, <2>3
    <3>2. PICK m \in 0 .. MaxReplicas : /\ cluster[k] = 0 .. (m - 1)
                                        /\ k[2] \notin ListUnknown => m = 0
      BY <2>1, <2>3 DEF IndInv, UnknownInv
    <3>3. k \notin failed
      BY <1>4, <1>9 DEF Excused
    <3>4. current'[k] = m
      BY <3>1, <3>2, <3>3, ReplicaCounts DEF NewCount
    <3>5. r \in Nat /\ m \in Nat
      BY ConstantsAssumption DEF Replicas
    <3> QED
      BY <3>2, <3>4, <3>5
  <2> QED
    BY <2>2, <2>3
<1> QED
  BY <1>5, <1>6, <1>7, <1>8, <1>9 DEF ks

(* Abandoning the plan excuses every key of the phase.                     *)
LEMMA AbandonInv ==
    ASSUME IndInv, NEW p \in Phases, PlanFailsAtObject(p) \/ PlanFailsAtBundle(p)
    PROVE  /\ PhasesInv' /\ TasksInv' /\ OwnedInv' /\ UnknownInv' /\ SettledInv'
           /\ ReachedInv' /\ PassedInv'
<1>1. AbandonPlan(p) /\ pc[p] = "planning" /\ planned[p] < Len(p.namespaces)
  BY DEF PlanFailsAtObject, PlanFailsAtBundle
<1>2. PICK n \in 0 .. Len(p.bundle) : \E failed : Record(p, n, failed)
  <2>1. CASE PlanFailsAtObject(p)
    <3>1. PICK j \in 1 .. Len(p.bundle) : \E failed : Record(p, j - 1, failed)
      BY <2>1 DEF PlanFailsAtObject
    <3> QED
      BY <3>1, PhaseFacts
  <2>2. CASE PlanFailsAtBundle(p)
    BY <2>2, PhaseFacts DEF PlanFailsAtBundle
  <2> QED
    BY <2>1, <2>2
<1>3. PICK failed : Record(p, n, failed)
  BY <1>2
<1>4. /\ UNCHANGED <<cluster, unitErrs, planned>>
      /\ planErrs' = planErrs \cup {p}
      /\ tasks' = tasks \ TasksOf(p)
      /\ pc' = [pc EXCEPT ![p] = "returning"]
  BY <1>1 DEF AbandonPlan
<1>5. /\ UnknownInv'
      /\ \A q \in Phases : \A k \in Keys :
            Owns(q, k) => k \in known' /\ desired'[k] = q.replicas
      /\ \A k \in known', r \in Replicas :
            ~Excused(k, r)' /\ (\A q \in Phases : ~Owns(q, k))
                => (r \in cluster[k] <=> r < current'[k])
      /\ \A k, r : Excused(k, r) => Excused(k, r)'
  BY <1>1, <1>3, <1>4, RecordInv
<1>6. pc \in [Phases -> PhaseStates]
  BY DEF IndInv, TypeOK
<1>7. \A q \in Phases : Active(q)' <=> Active(q)
  BY <1>1, <1>4, <1>6 DEF Active
<1>8. \A q \in Phases : \A k : Owns(q, k)' <=> Owns(q, k)
  BY <1>4, <1>7 DEF Owns, PlannedNs
<1>9. \A k \in KeysOf(p) : \A r : Excused(k, r)'
  BY <1>4 DEF Excused, Blamed
<1>10. \A k : Owns(p, k) => k \in KeysOf(p)
  BY PhaseFacts DEF Owns, PlannedNs, KeysOf, Touched, IndInv, TypeOK
<1>11. PhasesInv'
  BY <1>7 DEF IndInv, PhasesInv, Independent
<1>12. TasksInv'
  BY <1>4, <1>6, TaskTypes DEF IndInv, TasksInv, TasksOf, PlannedNs
<1>13. OwnedInv' /\ SettledInv'
  BY <1>4, <1>5, <1>8 DEF OwnedInv, SettledInv
<1>14. ReachedInv'
  <2> SUFFICES ASSUME NEW q \in Phases, NEW k \in Keys, NEW r \in Replicas,
                      Owns(q, k), ~Excused(k, r)', \A t \in tasks' : ~Works(t, q, k, r)
               PROVE  r \in cluster[k] <=> r < q.replicas
    BY <1>4, <1>8 DEF ReachedInv, Works
  <2>1. q # p
    BY <1>9, <1>10
  <2>2. \A t \in tasks : ~Works(t, q, k, r)
    BY <1>4, <2>1 DEF TasksOf, Works
  <2> QED
    BY <1>5, <2>2 DEF IndInv, ReachedInv
<1>15. PassedInv'
  <2>1. \A t \in tasks : PassedBy(t)'
    BY <1>4, <1>5 DEF IndInv, PassedInv, PassedBy
  <2> QED
    BY <1>4, <2>1 DEF PassedInv
<1> QED
  BY <1>5, <1>11, <1>12, <1>13, <1>14, <1>15

(* The replicas no new unit is planned for have their target already.      *)
LEMMA PlannedUnits ==
    ASSUME NEW p \in Phases, NEW c \in 0 .. MaxReplicas, NEW r \in Replicas,
           \A t \in Planned(p, c) : t.r # r
    PROVE  r < c <=> r < p.replicas
<1>1. r \in Nat /\ c \in Nat /\ p.replicas \in Nat
  BY PhaseFacts, ConstantsAssumption DEF Replicas
<1>2. \A op \in Ops : NewTask(p, r, op).r = r
  BY DEF NewTask
<1>3. ~(p.replicas <= r /\ r < c)
  BY <1>2 DEF Planned, Ops
<1>4. ~(c <= r /\ r < p.replicas)
  BY <1>2 DEF Planned, Ops
<1> QED
  BY <1>1, <1>3, <1>4

(* What a new unit looks like.                                             *)
LEMMA PlannedShape ==
    ASSUME NEW p \in Phases, NEW c \in 0 .. MaxReplicas, NEW t \in Planned(p, c)
    PROVE  /\ t.phase = p /\ t.ns = NextNs(p) /\ t.r \in Replicas /\ t.st = "todo"
           /\ IF t.op = "delete" THEN p.replicas <= t.r /\ t.pos = Len(p.bundle)
                                 ELSE t.r < p.replicas /\ t.pos = 1
<1>1. PICK r \in Replicas, op \in Ops :
          /\ t = NewTask(p, r, op)
          /\ IF op = "delete" THEN p.replicas <= r
             ELSE r < p.replicas
  BY PhaseFacts DEF Planned, Ops
<1> QED
  BY <1>1 DEF NewTask

(* Planning a namespace keeps IndInv: what it records matches the cluster. *)
LEMMA PlanInv ==
    ASSUME IndInv, NEW p \in Phases, PlanNamespace(p)
    PROVE  /\ PhasesInv' /\ TasksInv' /\ OwnedInv' /\ UnknownInv' /\ SettledInv'
           /\ ReachedInv' /\ PassedInv'
<1> USE DEF errVars
<1> DEFINE n  == Len(p.bundle)
           ks == KeysUpTo(p, n)
           k1 == <<NextNs(p), p.bundle[1]>>
           c  == current'[k1]
<1>1. pc[p] = "planning" /\ planned[p] < Len(p.namespaces) /\ planned[p] \in Nat
  BY DEF PlanNamespace, IndInv, TypeOK
<1>2. n \in 0 .. n /\ 1 \in 1 .. n /\ n \in Nat
  BY PhaseFacts DEF PlanNamespace
<1>3. PICK failed : Record(p, n, failed)
  BY DEF PlanNamespace
<1>4. /\ pc' = pc /\ cluster' = cluster /\ planErrs' = planErrs /\ unitErrs' = unitErrs
      /\ planned' = [planned EXCEPT ![p] = @ + 1]
      /\ tasks' = tasks \cup Planned(p, c)
      /\ \A k, l \in ks : current'[k] = current'[l]
  BY DEF PlanNamespace, BundleCorrect
<1>5. /\ UnknownInv'
      /\ \A k \in ks : k \in Keys /\ k \in known' /\ desired'[k] = p.replicas
      /\ \A q \in Phases : \A k \in Keys :
            Owns(q, k) => k \in known' /\ desired'[k] = q.replicas
      /\ \A k \in known', r \in Replicas :
            ~Excused(k, r)' /\ (\A q \in Phases : ~Owns(q, k))
                => (r \in cluster[k] <=> r < current'[k])
      /\ \A k, r : Excused(k, r) => Excused(k, r)'
  BY <1>1, <1>2, <1>3, <1>4, RecordInv
<1>6. \A k \in ks : \A q \in Phases : ~Owns(q, k)
  BY <1>1, <1>2, NewKeysFree
<1>7. k1 \in ks /\ c \in 0 .. MaxReplicas
  <2>1. k1 \in ks
    BY <1>2 DEF KeysUpTo
  <2>2. current' \in [Keys -> 0 .. MaxReplicas]
    BY <1>1, <1>2, <1>3, RecordType DEF IndInv
  <2> QED
    BY <1>5, <2>1, <2>2
<1>8. /\ PlannedNs(p)' = PlannedNs(p) \cup {NextNs(p)}
      /\ \A q \in Phases : q # p => PlannedNs(q)' = PlannedNs(q)
  <2>1. planned \in [Phases -> Nat] /\ planned'[p] = planned[p] + 1
    BY <1>4 DEF IndInv, TypeOK
  <2>2. 1 .. planned'[p] = (1 .. planned[p]) \cup {planned[p] + 1}
    BY <1>1, <2>1
  <2> QED
    BY <1>4, <2>1, <2>2 DEF PlannedNs, NextNs
<1>9. \A q \in Phases : \A k : Owns(q, k)' <=> Owns(q, k) \/ (q = p /\ k \in ks)
  <2>1. \A q \in Phases : Active(q)' <=> Active(q)
    BY <1>4 DEF Active
  <2>2. {NextNs(p)} \X Touched(p.bundle) = ks
    BY PhaseFacts DEF KeysUpTo, Touched
  <2>3. Active(p)
    BY <1>1 DEF Active
  <2>4. \A q \in Phases : q # p => \A k : Owns(q, k)' <=> Owns(q, k)
    BY <1>8, <2>1 DEF Owns
  <2>5. \A k : Owns(p, k)' <=> k \in (PlannedNs(p) \cup {NextNs(p)}) \X Touched(p.bundle)
    BY <1>8, <2>1, <2>3 DEF Owns
  <2>6. \A k : Owns(p, k)' <=> Owns(p, k) \/ k \in {NextNs(p)} \X Touched(p.bundle)
    BY <2>3, <2>5 DEF Owns
  <2> QED
    BY <2>2, <2>4, <2>6
<1> HIDE DEF n, ks, k1, c
<1>10. PhasesInv'
  BY <1>4 DEF IndInv, PhasesInv, Active
<1>11. TasksInv'
  <2> SUFFICES ASSUME NEW t \in tasks'
               PROVE  /\ pc[t.phase] \in {"planning", "executing"}
                      /\ t.st = "busy" => pc[t.phase] = "executing"
                      /\ t.ns \in PlannedNs(t.phase)'
                      /\ IF t.op = "delete" THEN t.phase.replicas <= t.r
                                            ELSE t.r < t.phase.replicas
    BY <1>4 DEF TasksInv
  <2>1. CASE t \in tasks
    <3>1. t.phase \in Phases
      BY <2>1, TaskTypes DEF IndInv
    <3> QED
      BY <1>8, <2>1, <3>1 DEF IndInv, TasksInv
  <2>2. CASE t \in Planned(p, c)
    BY <1>1, <1>7, <1>8, <2>2, PlannedShape
  <2> QED
    BY <1>4, <2>1, <2>2
<1>12. OwnedInv'
  BY <1>5, <1>9 DEF OwnedInv
<1>13. SettledInv'
  <2> SUFFICES ASSUME NEW k \in known', NEW r \in Replicas, ~Excused(k, r)',
                      \A q \in Phases : ~Owns(q, k)'
               PROVE  r \in cluster[k] <=> r < current'[k]
    BY <1>4 DEF SettledInv
  <2> QED
    BY <1>5, <1>9
<1>14. ReachedInv'
  <2> SUFFICES ASSUME NEW q \in Phases, NEW k \in Keys, NEW r \in Replicas,
                      Owns(q, k)', ~Excused(k, r)', \A t \in tasks' : ~Works(t, q, k, r)
               PROVE  r \in cluster[k] <=> r < q.replicas
    BY <1>4 DEF ReachedInv, Works
  <2>1. CASE Owns(q, k)
    BY <1>4, <1>5, <2>1 DEF IndInv, ReachedInv
  <2>2. CASE q = p /\ k \in ks
    <3>1. r \in cluster[k] <=> r < current'[k]
      BY <1>5, <1>6, <2>2
    <3>2. current'[k] = c
      BY <1>4, <1>7, <2>2 DEF c
    <3>3. k[1] = NextNs(p)
      BY <1>1, <1>2, <2>2, PlannedKeys DEF ks, n
    <3>4. \A t \in Planned(p, c) : t.r # r
      BY <1>4, <1>7, <2>2, <3>3, PlannedShape DEF Works
    <3>5. r < c <=> r < p.replicas
      BY <1>7, <3>4, PlannedUnits
    <3> QED
      BY <2>2, <3>1, <3>2, <3>5
  <2> QED
    BY <1>9, <2>1, <2>2
<1>15. PassedInv'
  <2>1. ASSUME NEW t \in tasks PROVE PassedBy(t)'
    BY <1>4, <1>5 DEF IndInv, PassedInv, PassedBy
  <2>2. ASSUME NEW t \in Planned(p, c) PROVE PassedBy(t)'
    <3>1. /\ t.phase = p
          /\ IF t.op = "delete" THEN t.pos = Len(p.bundle) ELSE t.pos = 1
      BY <1>7, <2>2, PlannedShape
    <3>2. \A j \in DOMAIN t.phase.bundle : ~(t.op = "delete" /\ j > t.pos)
                                            /\ ~(t.op # "delete" /\ j < t.pos)
      BY <3>1, PhaseFacts
    <3> QED
      BY <3>2 DEF PassedBy
  <2> QED
    BY <1>4, <2>1, <2>2 DEF PassedInv
<1> QED
  BY <1>5, <1>10, <1>11, <1>12, <1>13, <1>14, <1>15

-----------------------------------------------------------------------------
(* IndInv holds initially.                                                 *)
LEMMA IndInit == Init => IndInv
<1> SUFFICES ASSUME Init PROVE IndInv
  OBVIOUS
<1>1. TypeOK
  BY TypeInit
<1>2. \A p \in Phases : ~Active(p)
  BY DEF Init, Active
<1>3. \A p \in Phases : \A k : ~Owns(p, k)
  BY <1>2 DEF Owns
<1>4. PhasesInv
  BY <1>2 DEF PhasesInv, Independent
<1>5. UnknownInv
  BY DEF Init, UnknownInv
<1>6. TasksInv /\ PassedInv /\ SettledInv
  BY DEF Init, TasksInv, PassedInv, SettledInv
<1>7. OwnedInv /\ ReachedInv
  BY <1>3 DEF OwnedInv, ReachedInv
<1> QED
  BY <1>1, <1>4, <1>5, <1>6, <1>7 DEF IndInv

(* IndInv is inductive: one case per action of Next.                       *)
LEMMA IndStep == IndInv /\ [Next]_vars => IndInv'
<1> SUFFICES ASSUME IndInv, [Next]_vars PROVE IndInv'
  OBVIOUS
<1>1. TypeOK'
  BY TypeStep DEF IndInv
<1> DEFINE Rest == /\ PhasesInv' /\ TasksInv' /\ OwnedInv' /\ UnknownInv' /\ SettledInv'
                   /\ ReachedInv' /\ PassedInv'
<1>2. ASSUME NEW ps \in SUBSET Phases, StartStep(ps) PROVE Rest
  BY <1>2, StartStepInv
<1>3. ASSUME NEW p \in Phases, EndStep PROVE Rest
  BY <1>3, ControlStepInv
<1>4. ASSUME NEW p \in Phases, PhaseStep(p) PROVE Rest
  BY <1>4, PlanInv, AbandonInv, ControlStepInv, ReturnInv DEF PhaseStep
<1>5. ASSUME NEW t \in tasks, TaskStep(t) PROVE Rest
  BY <1>5, TaskStepInv
<1>6. ASSUME Finished \/ UNCHANGED vars PROVE Rest
  <2>1. UNCHANGED vars
    BY <1>6 DEF Finished
  <2>2. TasksInv'
    BY <2>1 DEF vars, recVars, errVars, IndInv, TasksInv, PlannedNs
  <2>3. \A p \in Phases : Active(p)' <=> Active(p)
    BY <2>1 DEF vars, Active
  <2> QED
    BY <2>1, <2>2, <2>3, ControlInv DEF vars, recVars, errVars
<1>7. EndStep => \E p \in Phases : TRUE
  BY DEF EndStep
<1>8. Rest
  BY <1>2, <1>3, <1>4, <1>5, <1>6, <1>7 DEF Next, Progress
<1> QED
  BY <1>1, <1>8 DEF IndInv

(* IndInv holds in every reachable state.                                  *)
LEMMA IndInvariant == Spec => []IndInv
BY IndInit, IndStep, PTL DEF Spec

(* Whenever the recorded replica counts disagree with the cluster about an *)
(* object nobody works on, the test's error list says so (or the LIST of   *)
(* unknown objects failed): for every config of independent phases, every  *)
(* number of replicas, and every pattern of API errors, lost answers and   *)
(* retries.                                                                *)
THEOREM DivergenceIsReported == Spec => []NoSilentDivergence
<1>1. IndInv => NoSilentDivergence
  <2> SUFFICES ASSUME IndInv, NEW k \in known, NEW r \in Replicas,
                      Settled(k), Diverges(k, r)
               PROVE  Blamed(k, r) \/ k \in unlisted
    BY DEF NoSilentDivergence
  <2>1. \A p \in Phases : ~Owns(p, k)
    <3> SUFFICES ASSUME NEW p \in Phases, Owns(p, k) PROVE FALSE
      OBVIOUS
    <3>1. k \in KeysOf(p)
      BY PhaseFacts DEF Owns, PlannedNs, KeysOf, Touched, IndInv, TypeOK
    <3> QED
      BY <3>1 DEF Owns, Settled
  <2> QED
    BY <2>1 DEF IndInv, SettledInv, Excused, Diverges
<1> QED
  BY <1>1, IndInvariant, PTL

-----------------------------------------------------------------------------
(* The objects a unit of work has passed: a creation or patch goes on only *)
(* after the object exists, a deletion after it is gone or its deletion    *)
(* was reported as failed.  PassedBy is too weak for the order of objects: *)
(* it excuses keys whose LIST failed, and every replica with an error.     *)
SerialBy(t) ==
    \A j \in DOMAIN t.phase.bundle :
        LET k == <<t.ns, t.phase.bundle[j]>>
        IN  /\ t.op = "delete" /\ j > t.pos => t.r \notin cluster[k] \/ Blamed(k, t.r)
            /\ t.op # "delete" /\ j < t.pos =>
                   t.r \in cluster[k] \/ <<k[2], t.r>> \in EmptyTemplate

SerialInv == \A t \in tasks : SerialBy(t)

-----------------------------------------------------------------------------
(* Two units at work on one replica of one key are of the same phase and   *)
(* pull in the same direction.                                             *)
LEMMA SameDirection ==
    ASSUME IndInv, NEW t \in tasks, NEW v \in tasks, NEW j \in DOMAIN v.phase.bundle,
           <<v.ns, v.phase.bundle[j]>> = KeyAt(t), v.r = t.r
    PROVE  v.op = "delete" <=> t.op = "delete"
<1>1. /\ t.phase \in Phases /\ t.pos \in DOMAIN t.phase.bundle /\ t.r \in Replicas
      /\ v.phase \in Phases
  BY TaskTypes, PhaseFacts DEF IndInv
<1>2. Owns(v.phase, KeyAt(t))
  BY TaskOwner DEF IndInv
<1>3. v.phase = t.phase
  BY <1>1, <1>2, TaskOwner DEF IndInv, KeyAt
<1>4. t.phase.replicas \in Nat /\ t.r \in Nat
  BY <1>1, PhaseFacts DEF Replicas
<1> QED
  BY <1>3, <1>4 DEF IndInv, TasksInv

(* No call of a unit undoes what another unit has passed.                  *)
LEMMA SerialFrame ==
    ASSUME IndInv, SerialInv, NEW t \in tasks,
           planErrs \subseteq planErrs', unitErrs \subseteq unitErrs',
           Served(t) \/ UNCHANGED cluster
    PROVE  \A v \in tasks : SerialBy(v)'
<1> SUFFICES ASSUME NEW v \in tasks, NEW j \in DOMAIN v.phase.bundle
             PROVE  LET k == <<v.ns, v.phase.bundle[j]>>
                    IN  /\ v.op = "delete" /\ j > v.pos =>
                               v.r \notin cluster'[k] \/ Blamed(k, v.r)'
                        /\ v.op # "delete" /\ j < v.pos =>
                               v.r \in cluster'[k] \/ <<k[2], v.r>> \in EmptyTemplate
  BY DEF SerialBy
<1> DEFINE k == <<v.ns, v.phase.bundle[j]>>
<1>1. k \in Keys /\ v.r \in Replicas
  BY TaskOwner, TaskTypes DEF IndInv
<1>2. /\ v.op = "delete" /\ j > v.pos => v.r \notin cluster[k] \/ Blamed(k, v.r)
      /\ v.op # "delete" /\ j < v.pos =>
             v.r \in cluster[k] \/ <<k[2], v.r>> \in EmptyTemplate
  BY DEF SerialInv, SerialBy
<1>3. Blamed(k, v.r) => Blamed(k, v.r)'
  BY DEF Blamed
<1>4. CASE k = KeyAt(t) /\ v.r = t.r
  <2>1. v.op = "delete" <=> t.op = "delete"
    BY <1>4, SameDirection
  <2>2. IF t.op = "delete" THEN cluster'[k] \subseteq cluster[k]
                           ELSE cluster[k] \subseteq cluster'[k]
    BY <1>1, ServedEffect DEF IndInv
  <2> QED
    BY <1>2, <1>3, <2>1, <2>2
<1>5. CASE ~(k = KeyAt(t) /\ v.r = t.r)
  <2>1. v.r \in cluster'[k] <=> v.r \in cluster[k]
    BY <1>1, <1>5, ServedEffect DEF IndInv
  <2> QED
    BY <1>2, <1>3, <2>1
<1> QED
  BY <1>4, <1>5

(* A unit goes on to the next object once it is done with the current one. *)
LEMMA SerialAdvance ==
    ASSUME IndInv, SerialInv, NEW t \in tasks, NextObject(t),
           planErrs \subseteq planErrs', unitErrs \subseteq unitErrs',
           Served(t) \/ UNCHANGED cluster,
           t.op = "delete" => t.r \notin cluster'[KeyAt(t)] \/ Blamed(KeyAt(t), t.r)',
           t.op # "delete" =>
               t.r \in cluster'[KeyAt(t)] \/ <<t.phase.bundle[t.pos], t.r>> \in EmptyTemplate
    PROVE  SerialInv'
<1>1. \A v \in tasks : SerialBy(v)'
  BY SerialFrame
<1>2. CASE LastObject(t)
  BY <1>1, <1>2 DEF NextObject, SerialInv
<1>3. CASE ~LastObject(t)
  <2> DEFINE q == NextPos(t)
             u == [t EXCEPT !.pos = q, !.tries = 0]
  <2>1. /\ t.phase \in Phases /\ t.pos \in 1 .. Len(t.phase.bundle)
        /\ Len(t.phase.bundle) \in Nat
        /\ DOMAIN t.phase.bundle = 1 .. Len(t.phase.bundle)
    BY TaskTypes, PhaseFacts DEF IndInv
  <2>2. q \in Nat /\ t \in Task
    BY <1>3, <2>1, TaskTypes DEF LastObject, NextPos, IndInv
  <2>3. tasks' = (tasks \ {t}) \cup {u}
    BY <1>3 DEF NextObject
  <2>4. \A j \in DOMAIN t.phase.bundle :
           j = t.pos \/ /\ t.op = "delete" /\ j > q => j > t.pos
                        /\ t.op # "delete" /\ j < q => j < t.pos
    BY <2>1 DEF NextPos
  <2> HIDE DEF q
  <2>5. u.phase = t.phase /\ u.ns = t.ns /\ u.r = t.r /\ u.op = t.op /\ u.pos = q
    BY <2>2, TaskUpdate
  <2> HIDE DEF u
  <2>6. SerialBy(u)'
    <3> SUFFICES ASSUME NEW j \in DOMAIN t.phase.bundle
                 PROVE  LET k == <<t.ns, t.phase.bundle[j]>>
                        IN  /\ t.op = "delete" /\ j > q =>
                                   t.r \notin cluster'[k] \/ Blamed(k, t.r)'
                            /\ t.op # "delete" /\ j < q =>
                                   t.r \in cluster'[k] \/ <<k[2], t.r>> \in EmptyTemplate
      BY <2>5 DEF SerialBy, Blamed
    <3>1. CASE j = t.pos
      BY <3>1 DEF KeyAt
    <3>2. CASE j # t.pos
      BY <1>1, <2>4, <3>2 DEF SerialBy
    <3> QED
      BY <3>1, <3>2
  <2> QED
    BY <1>1, <2>3, <2>6 DEF SerialInv
<1> QED
  BY <1>2, <1>3

(* A unit that stays at its object.                                        *)
LEMMA SerialStay ==
    ASSUME IndInv, SerialInv, NEW t \in tasks, NEW u,
           tasks' = (tasks \ {t}) \cup {u},
           u.phase = t.phase, u.ns = t.ns, u.r = t.r, u.op = t.op, u.pos = t.pos,
           planErrs \subseteq planErrs', unitErrs \subseteq unitErrs',
           Served(t) \/ UNCHANGED cluster
    PROVE  SerialInv'
<1>1. \A v \in tasks : SerialBy(v)'
  BY SerialFrame
<1>2. SerialBy(u)'
  BY <1>1 DEF SerialBy, Blamed
<1> QED
  BY <1>1, <1>2 DEF SerialInv

(* Every step of a unit of work keeps the order.                           *)
LEMMA SerialTask ==
    ASSUME IndInv, SerialInv, NEW t \in tasks, TaskStep(t)
    PROVE  SerialInv'
<1> USE DEF recVars, errVars
<1>1. /\ t \in Task /\ KeyAt(t) \in Keys /\ t.r \in Replicas /\ t.op \in Ops
      /\ t.pos \in DOMAIN t.phase.bundle
  BY TaskTypes, PhaseFacts DEF IndInv
<1>2. cluster \in [Keys -> SUBSET Replicas]
  BY DEF IndInv, TypeOK
<1>3. CASE StartTask(t)
  <2> DEFINE u == [t EXCEPT !.st = "busy"]
  <2>1. u.phase = t.phase /\ u.ns = t.ns /\ u.r = t.r /\ u.op = t.op /\ u.pos = t.pos
    BY <1>1, TaskUpdate
  <2>2. tasks' = (tasks \ {t}) \cup {u}
    BY <1>3 DEF StartTask
  <2> HIDE DEF u
  <2> QED
    BY <1>3, <2>1, <2>2, SerialStay DEF StartTask
<1>4. CASE SkipEmpty(t)
  BY <1>4, SerialAdvance DEF SkipEmpty, Skips
<1>5. CASE CallSucceeds(t)
  <2>1. t.r \in cluster'[KeyAt(t)] <=> t.op # "delete"
    BY <1>1, <1>2, <1>5 DEF CallSucceeds, Served, Exists, Ops
  <2> QED
    BY <1>5, <2>1, SerialAdvance DEF CallSucceeds
<1>6. CASE CallRetried(t)
  <2> DEFINE m == t.tries + 1
             u == [t EXCEPT !.tries = m]
  <2>1. m \in Nat /\ tasks' = (tasks \ {t}) \cup {u}
    BY <1>6, TaskTypes DEF CallRetried, IndInv
  <2> HIDE DEF m
  <2>2. u.phase = t.phase /\ u.ns = t.ns /\ u.r = t.r /\ u.op = t.op /\ u.pos = t.pos
    BY <1>1, <2>1, TaskUpdate
  <2> HIDE DEF u
  <2> QED
    BY <1>6, <2>1, <2>2, SerialStay DEF CallRetried
<1>7. CASE CallFails(t)
  <2>1. Served(t) \/ UNCHANGED cluster
    BY <1>7 DEF CallFails
  <2>2. CASE t.op = "delete"
    <3>1. UnitOf(t) \in unitErrs'
      BY <1>7 DEF CallFails
    <3>2. Blamed(KeyAt(t), t.r)'
      BY <1>1, <3>1 DEF Blamed, UnitOf, Touched, KeyAt
    <3> QED
      BY <1>7, <2>1, <2>2, <3>2, SerialAdvance DEF CallFails, AfterError
  <2>3. CASE t.op # "delete"
    <3>1. tasks' = tasks \ {t}
      BY <1>7, <2>3 DEF CallFails, AfterError
    <3>2. planErrs \subseteq planErrs' /\ unitErrs \subseteq unitErrs'
      BY <1>7 DEF CallFails
    <3> QED
      BY <2>1, <3>1, <3>2, SerialFrame DEF SerialInv
  <2> QED
    BY <2>2, <2>3
<1> QED
  BY <1>3, <1>4, <1>5, <1>6, <1>7 DEF TaskStep

(* Planning adds units that have passed nothing yet; it makes no call.     *)
LEMMA SerialPlan ==
    ASSUME IndInv, SerialInv, NEW p \in Phases, PlanNamespace(p)
    PROVE  SerialInv'
<1> USE DEF recVars, errVars
<1> DEFINE c == current'[<<NextNs(p), p.bundle[1]>>]
<1>1. /\ tasks' = tasks \cup Planned(p, c)
      /\ UNCHANGED <<cluster, planErrs, unitErrs>>
  BY DEF PlanNamespace
<1>2. c \in 0 .. MaxReplicas
  <2>1. current' \in [Keys -> 0 .. MaxReplicas]
    BY TypeStep DEF IndInv, TypeOK, Next, Progress, PhaseStep
  <2>2. p.bundle # << >> /\ planned[p] < Len(p.namespaces) /\ planned[p] \in Nat
    BY DEF PlanNamespace, IndInv, TypeOK
  <2>3. <<NextNs(p), p.bundle[1]>> \in Keys
    BY <2>2, PhaseFacts DEF NextNs, Keys
  <2> QED
    BY <2>1, <2>3
<1>3. \A t \in tasks : SerialBy(t)'
  BY <1>1 DEF SerialInv, SerialBy, Blamed
<1> HIDE DEF c
<1>4. ASSUME NEW t \in Planned(p, c) PROVE SerialBy(t)'
  <2>1. /\ t.phase = p
        /\ IF t.op = "delete" THEN t.pos = Len(p.bundle) ELSE t.pos = 1
    BY <1>2, PlannedShape
  <2>2. DOMAIN p.bundle = 1 .. Len(p.bundle) /\ Len(p.bundle) \in Nat
    BY PhaseFacts
  <2> QED
    BY <2>1, <2>2 DEF SerialBy
<1> QED
  BY <1>1, <1>3, <1>4 DEF SerialInv

(* The other steps make no call and start no unit.                         *)
LEMMA SerialOther ==
    ASSUME SerialInv, tasks' \subseteq tasks, UNCHANGED cluster,
           planErrs \subseteq planErrs', unitErrs \subseteq unitErrs'
    PROVE  SerialInv'
BY DEF SerialInv, SerialBy, Blamed

(* SerialInv is inductive relative to IndInv.                              *)
LEMMA SerialStep == IndInv /\ SerialInv /\ [Next]_vars => SerialInv'
<1> SUFFICES ASSUME IndInv, SerialInv, [Next]_vars PROVE SerialInv'
  OBVIOUS
<1> USE DEF recVars, errVars
<1>1. ASSUME NEW ps \in SUBSET Phases, StartStep(ps) PROVE SerialInv'
  BY <1>1, SerialOther DEF StartStep
<1>2. CASE EndStep
  BY <1>2, SerialOther DEF EndStep
<1>3. ASSUME NEW p \in Phases, PhaseStep(p) PROVE SerialInv'
  <2>1. CASE PlanNamespace(p)
    BY <2>1, SerialPlan
  <2>2. CASE PlanFailsAtObject(p) \/ PlanFailsAtBundle(p)
    BY <2>2, SerialOther DEF PlanFailsAtObject, PlanFailsAtBundle, AbandonPlan
  <2>3. CASE EmptyBundle(p) \/ ExecuteActions(p) \/ AllDone(p) \/ Return(p)
    BY <2>3, SerialOther DEF EmptyBundle, ExecuteActions, AllDone, Return
  <2> QED
    BY <1>3, <2>1, <2>2, <2>3 DEF PhaseStep
<1>4. ASSUME NEW t \in tasks, TaskStep(t) PROVE SerialInv'
  BY <1>4, SerialTask
<1>5. CASE Finished \/ UNCHANGED vars
  BY <1>5, SerialOther DEF Finished, vars
<1> QED
  BY <1>1, <1>2, <1>3, <1>4, <1>5 DEF Next, Progress

(* SerialInv holds in every reachable state.                               *)
LEMMA SerialInvariant == Spec => []SerialInv
<1>1. Init => SerialInv
  BY DEF Init, SerialInv
<1> QED
  BY <1>1, SerialStep, IndInvariant, PTL DEF Spec

-----------------------------------------------------------------------------
(* Objects change only by the calls of a unit of work that is under way.   *)
LEMMA OnlyCalls ==
    ASSUME TypeOK, [Next]_vars, cluster' # cluster
    PROVE  \E t \in tasks : t.st = "busy" /\ Served(t) /\ UNCHANGED pc
<1> USE DEF recVars, errVars
<1>1. ASSUME NEW ps \in SUBSET Phases, StartStep(ps) PROVE FALSE
  BY <1>1 DEF StartStep
<1>2. ~EndStep
  BY DEF EndStep
<1>3. ASSUME NEW p \in Phases, PhaseStep(p) PROVE FALSE
  BY <1>3 DEF PhaseStep, PlanNamespace, PlanFailsAtObject, PlanFailsAtBundle, AbandonPlan,
              EmptyBundle, ExecuteActions, AllDone, Return
<1>4. ~(Finished \/ UNCHANGED vars)
  BY DEF Finished, vars
<1>5. PICK t \in tasks : TaskStep(t)
  BY <1>1, <1>2, <1>3, <1>4 DEF Next, Progress
<1> QED
  BY <1>5 DEF TaskStep, StartTask, SkipEmpty, CallSucceeds, CallRetried, CallFails

(* A replica that appears or vanishes in a key of an active phase is the   *)
(* work of one of the phase's units, at the position of that key.          *)
LEMMA CallOfPhase ==
    ASSUME IndInv, NEW t \in tasks, Served(t), NEW p \in Phases, Active(p),
           NEW k \in KeysOf(p), NEW r, cluster'[k] # cluster[k],
           r \in cluster'[k] \ cluster[k] \/ r \in cluster[k] \ cluster'[k]
    PROVE  /\ t.phase = p /\ k = KeyAt(t) /\ r = t.r
           /\ r \in cluster'[k] \ cluster[k] => t.op = "create"
           /\ r \in cluster[k] \ cluster'[k] => t.op = "delete"
           /\ \A l \in DOMAIN p.bundle : p.bundle[l] = k[2] => l = t.pos
<1>1. /\ t.phase \in Phases /\ t.pos \in DOMAIN t.phase.bundle /\ t.ns \in Namespaces
      /\ KeyAt(t) \in Keys /\ t.r \in Replicas
  BY TaskTypes, PhaseFacts DEF IndInv
<1>2. cluster \in [Keys -> SUBSET Replicas]
  BY DEF IndInv, TypeOK
<1>3. k \in Keys
  BY PhaseFacts DEF KeysOf, Touched, Keys
<1>4. k = KeyAt(t)
  BY <1>1, <1>2, <1>3 DEF Served
<1>5. r = t.r
  BY <1>1, <1>2, <1>3, <1>4 DEF Served
<1>6. /\ r \in cluster'[k] \ cluster[k] => t.op = "create"
      /\ r \in cluster[k] \ cluster'[k] => t.op = "delete"
  BY <1>1, <1>2, <1>3, <1>4 DEF Served
<1>7. t.phase = p
  <2>1. Active(t.phase) /\ t.ns \in PlannedNs(t.phase)
    BY DEF IndInv, TasksInv, Active
  <2>2. KeyAt(t) \in KeysOf(t.phase)
    <3>1. planned[t.phase] \in Nat /\ planned[t.phase] <= Len(t.phase.namespaces)
      BY <1>1 DEF IndInv, TypeOK
    <3>2. t.ns \in Touched(t.phase.namespaces)
      BY <1>1, <2>1, <3>1, PhaseFacts DEF PlannedNs, Touched
    <3> QED
      BY <1>1, <3>2 DEF KeysOf, Touched, KeyAt
  <2> QED
    BY <1>1, <1>4, <2>1, <2>2 DEF IndInv, PhasesInv, Independent
<1>8. k[2] = p.bundle[t.pos]
  BY <1>4, <1>7 DEF KeyAt
<1>9. \A l \in DOMAIN p.bundle : p.bundle[l] = k[2] => l = t.pos
  BY <1>1, <1>7, <1>8, PhasesAssumption DEF IsDuplicateFree
<1> QED
  BY <1>4, <1>5, <1>6, <1>7, <1>9

(* An object of a replica appears only when all objects before it in the   *)
(* bundle exist, whatever the other units and phases do and however calls  *)
(* fail or are retried: the loop over the bundle in ExecutePhase.          *)
THEOREM CreatedInOrder == Spec => CreationOrder
<1>1. ASSUME IndInv, SerialInv, [Next]_vars, NEW p \in Phases, NEW k \in KeysOf(p),
             NEW r \in cluster'[k] \ cluster[k], Active(p), NEW l \in Before(p, k)
      PROVE  r \in cluster[l] \/ <<l[2], r>> \in EmptyTemplate
  <2>1. PICK t \in tasks : t.st = "busy" /\ Served(t)
    BY <1>1, OnlyCalls DEF IndInv
  <2>2. /\ t.phase = p /\ k = KeyAt(t) /\ r = t.r /\ t.op = "create"
        /\ \A i \in DOMAIN p.bundle : p.bundle[i] = k[2] => i = t.pos
    BY <1>1, <2>1, CallOfPhase
  <2>3. PICK j \in DOMAIN p.bundle : j < t.pos /\ l = <<k[1], p.bundle[j]>>
    BY <1>1, <2>2 DEF Before
  <2>4. k[1] = t.ns
    BY <2>2 DEF KeyAt
  <2> QED
    BY <1>1, <2>2, <2>3, <2>4 DEF SerialInv, SerialBy
<1> DEFINE Ordered == \A p \in Phases : \A k \in KeysOf(p) : \A r \in cluster'[k] \ cluster[k] :
                         Active(p) => \A l \in Before(p, k) :
                             r \in cluster[l] \/ <<l[2], r>> \in EmptyTemplate
<1>2. IndInv /\ SerialInv /\ [Next]_vars => Ordered
  BY <1>1
<1> QED
  BY <1>2, IndInvariant, SerialInvariant, PTL DEF Spec, CreationOrder

(* An object goes away only when the objects after it in the bundle are    *)
(* gone, or the error list blames them: its reversed loop for deletions.   *)
THEOREM DeletedInOrder == Spec => DeletionOrder
<1>1. ASSUME IndInv, SerialInv, [Next]_vars, NEW p \in Phases, NEW k \in KeysOf(p),
             NEW r \in cluster[k] \ cluster'[k], Active(p), NEW l \in After(p, k)
      PROVE  r \notin cluster[l] \/ Blamed(l, r)
  <2>1. PICK t \in tasks : t.st = "busy" /\ Served(t)
    BY <1>1, OnlyCalls DEF IndInv
  <2>2. /\ t.phase = p /\ k = KeyAt(t) /\ r = t.r /\ t.op = "delete"
        /\ \A i \in DOMAIN p.bundle : p.bundle[i] = k[2] => i = t.pos
    BY <1>1, <2>1, CallOfPhase
  <2>3. PICK j \in DOMAIN p.bundle : j > t.pos /\ l = <<k[1], p.bundle[j]>>
    BY <1>1, <2>2 DEF After
  <2>4. k[1] = t.ns
    BY <2>2 DEF KeyAt
  <2> QED
    BY <1>1, <2>2, <2>3, <2>4 DEF SerialInv, SerialBy
<1> DEFINE Ordered == \A p \in Phases : \A k \in KeysOf(p) : \A r \in cluster[k] \ cluster'[k] :
                         Active(p) => \A l \in After(p, k) : r \notin cluster[l] \/ Blamed(l, r)
<1>2. IndInv /\ SerialInv /\ [Next]_vars => Ordered
  BY <1>1
<1> QED
  BY <1>2, IndInvariant, SerialInvariant, PTL DEF Spec, DeletionOrder

-----------------------------------------------------------------------------
(* The refinement of ForkJoin, step by step.                               *)

(* The abstract state of every phase.                                      *)
Observed == [p \in Phases |-> Progression(p)]

(* A phase whose control does not leave the active states stands still for *)
(* an observer of the step.                                                *)
LEMMA SameProgression ==
    ASSUME pc \in [Phases -> PhaseStates],
           \/ UNCHANGED pc
           \/ \E p \in Phases : /\ pc[p] \in {"planning", "executing"}
                                /\ \E s \in {"executing", "returning"} :
                                      pc' = [pc EXCEPT ![p] = s]
    PROVE  UNCHANGED Observed
BY DEF Observed, Progression, Active

(* A call of a unit is work of its phase, towards its replica count, or    *)
(* changes nothing.                                                        *)
LEMMA CallIsWork ==
    ASSUME IndInv, NEW t \in tasks, Served(t), UNCHANGED pc
    PROVE  [Step!Next]_(Step!vars)
<1>1. /\ t.phase \in Phases /\ t.pos \in DOMAIN t.phase.bundle /\ t.r \in Replicas
      /\ KeyAt(t) \in Keys
  BY TaskTypes, PhaseFacts DEF IndInv
<1>2. cluster \in [Keys -> SUBSET Replicas]
  BY DEF IndInv, TypeOK
<1>3. Active(t.phase) /\ t.ns \in PlannedNs(t.phase)
  BY DEF IndInv, TasksInv, Active
<1>4. KeyAt(t) \in KeysOf(t.phase)
  <2>1. planned[t.phase] \in Nat /\ planned[t.phase] <= Len(t.phase.namespaces)
    BY <1>1 DEF IndInv, TypeOK
  <2>2. t.ns \in Touched(t.phase.namespaces)
    BY <1>1, <1>3, <2>1, PhaseFacts DEF PlannedNs, Touched
  <2> QED
    BY <1>1, <2>2 DEF KeysOf, Touched, KeyAt
<1>5. UNCHANGED Observed
  BY SameProgression DEF IndInv, TypeOK
<1>6. Observed[t.phase] = "running"
  BY <1>1, <1>3 DEF Observed, Progression
<1>7. t.phase.replicas \in Nat /\ t.r \in Nat
  BY <1>1, PhaseFacts DEF Replicas
<1>8. CASE cluster' = cluster
  BY <1>5, <1>8 DEF Step!vars, Observed
<1>9. CASE cluster' # cluster
  <2>1. t.op = "create" \/ t.op = "delete"
    BY <1>1, <1>2, <1>9 DEF Served
  <2>2. CASE t.op = "create"
    <3>1. cluster' = [cluster EXCEPT ![KeyAt(t)] = @ \cup {t.r}]
      BY <2>2 DEF Served
    <3>2. t.r \in cluster'[KeyAt(t)]
      BY <1>1, <1>2, <3>1
    <3>3. t.r < t.phase.replicas
      BY <2>2 DEF IndInv, TasksInv
    <3>4. Step!Create(t.phase, KeyAt(t), t.r)
      BY <3>1, <3>3 DEF Step!Create, ReplicasOf
    <3>5. Step!Work(t.phase)
      BY <1>4, <1>5, <1>6, <3>2, <3>4 DEF Step!Work, Observed
    <3> QED
      BY <1>1, <3>5 DEF Step!Next
  <2>3. CASE t.op = "delete"
    <3>1. cluster' = [cluster EXCEPT ![KeyAt(t)] = @ \ {t.r}]
      BY <2>3 DEF Served
    <3>2. t.r \in cluster[KeyAt(t)]
      BY <1>1, <1>2, <1>9, <3>1
    <3>3. t.r >= t.phase.replicas
      BY <1>7, <2>3 DEF IndInv, TasksInv
    <3>4. Step!Delete(t.phase, KeyAt(t), t.r)
      BY <3>1, <3>3 DEF Step!Delete, ReplicasOf
    <3>5. Step!Work(t.phase)
      BY <1>4, <1>5, <1>6, <3>2, <3>4 DEF Step!Work, Observed
    <3> QED
      BY <1>1, <3>5 DEF Step!Next
  <2> QED
    BY <2>1, <2>2, <2>3
<1> QED
  BY <1>8, <1>9

(* The start of a step forks, its end joins, the return of a phase is the  *)
(* end of its work; no other step that leaves the objects alone is seen.   *)
LEMMA ControlRefines ==
    ASSUME IndInv, [Next]_vars, UNCHANGED cluster
    PROVE  [Step!Next]_(Step!vars)
<1> USE DEF recVars, errVars
<1>1. pc \in [Phases -> PhaseStates] /\ pc' \in [Phases -> PhaseStates]
  BY TypeStep DEF IndInv, TypeOK
<1>2. UNCHANGED Observed => UNCHANGED Step!vars
  BY DEF Step!vars, Observed
<1>3. ASSUME NEW ps \in SUBSET Phases, StartStep(ps) PROVE [Step!Next]_(Step!vars)
  <2>1. \A p \in Phases : Observed[p] = "idle"
    BY <1>3 DEF StartStep, Observed, Progression, Active
  <2>2. \A p \in Phases : Observed'[p] = IF p \notin ps THEN "idle"
                                          ELSE IF p.tuned THEN "running" ELSE "done"
    BY <1>3 DEF StartStep, Observed, Progression, Active
  <2>3. Observed' \in [Phases -> {"idle", "running", "done"}]
    BY <2>2 DEF Observed
  <2>4. \A p, q \in ps : p # q => KeysOf(p) \cap KeysOf(q) = {}
    BY <1>3 DEF StartStep, Independent
  <2>5. Step!Fork(ps)
    BY <2>1, <2>2, <2>3, <2>4 DEF Step!Fork, Observed
  <2> QED
    BY <2>5 DEF Step!Next
<1>4. ASSUME EndStep PROVE [Step!Next]_(Step!vars)
  <2>1. \A p \in Phases : Observed[p] # "running"
    BY <1>4 DEF EndStep, Observed, Progression, Active
  <2>2. Observed' = [p \in Phases |-> "idle"]
    BY <1>4 DEF EndStep, Observed, Progression, Active
  <2>3. Step!Join
    BY <2>1, <2>2 DEF Step!Join, Observed
  <2> QED
    BY <2>3 DEF Step!Next
<1>5. ASSUME NEW p \in Phases, PhaseStep(p) PROVE [Step!Next]_(Step!vars)
  <2>1. CASE Return(p)
    <3>1. Observed[p] = "running"
      BY <2>1 DEF Return, Observed, Progression, Active
    <3>2. Observed' = [Observed EXCEPT ![p] = "done"]
      BY <1>1, <2>1 DEF Return, Observed, Progression, Active
    <3>3. Step!Finish(p)
      BY <3>1, <3>2 DEF Step!Finish, Observed
    <3> QED
      BY <3>3 DEF Step!Next
  <2>2. CASE ~Return(p)
    <3>1. \/ UNCHANGED pc
          \/ /\ pc[p] \in {"planning", "executing"}
             /\ \E s \in {"executing", "returning"} : pc' = [pc EXCEPT ![p] = s]
      BY <1>5, <2>2 DEF PhaseStep, PlanNamespace, PlanFailsAtObject, PlanFailsAtBundle,
                        AbandonPlan, EmptyBundle, ExecuteActions, AllDone
    <3> QED
      BY <1>1, <1>2, <3>1, SameProgression
  <2> QED
    BY <2>1, <2>2
<1>6. ASSUME (\E t \in tasks : TaskStep(t)) \/ Finished \/ UNCHANGED vars
      PROVE  [Step!Next]_(Step!vars)
  <2>1. UNCHANGED pc
    BY <1>6 DEF TaskStep, StartTask, SkipEmpty, CallSucceeds, CallRetried, CallFails,
                Finished, vars
  <2> QED
    BY <1>1, <1>2, <2>1, SameProgression
<1> QED
  BY <1>3, <1>4, <1>5, <1>6 DEF Next, Progress

(* ExecuteStep implements fork and join: whatever its phases plan, retry   *)
(* or give up, objects change only while a phase they belong to runs, in   *)
(* the direction of its replica count, and no call outlives its phase.     *)
THEOREM StepIsForkJoin == Spec => ImplementsForkJoin
<1>1. Init => Step!Init
  BY DEF Init, Step!Init, Progression, Active
<1>2. IndInv /\ [Next]_vars => [Step!Next]_(Step!vars)
  BY CallIsWork, ControlRefines, OnlyCalls DEF IndInv
<1> QED
  BY <1>1, <1>2, IndInvariant, PTL DEF Spec, Step!Spec, ImplementsForkJoin
=============================================================================
