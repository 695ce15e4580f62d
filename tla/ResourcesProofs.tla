--------------------------- MODULE ResourcesProofs ---------------------------
(***************************************************************************)
(* Proofs about Resources for any sets of resources, callers and deadlines.*)
(* IInv is the inductive invariant; the theorems at the end state what it  *)
(* gives.                                                                  *)
(***************************************************************************)
EXTENDS Resources, FiniteSetTheorems, TLAPS

Unregistered == {"new", "checked", "built", "refused"}

\* What uses and path record about the dialers below a resource.
Shape ==
  \A r \in Resource :
    /\ creation[r] \in {"new", "checked"} => uses[r] = None
    /\ uses[r] = None => path[r] = {r}
    /\ uses[r] # None => /\ r \notin EntryPoint
                         /\ path[r] = {r} \cup path[uses[r]]
                         /\ creation[uses[r]] \in {"registered", "created"}
    /\ \A x \in path[r] : path[x] \subseteq path[r]
    /\ \A x \in path[r] \ {r} : x \in Dialer /\ \E y \in path[r] : uses[y] = x

\* How far creation, registration and supervision of one resource may be apart.
Phase ==
  /\ accepting => ~rootClosed
  /\ \A r \in Resource :
    /\ creation[r] = "supervised" => r \in EntryPoint
    /\ creation[r] \in Unregistered =>
         r \notin entries /\ r \notin admission /\ r \notin released /\ supervisor[r] = "none"
    /\ creation[r] \in {"new", "checked", "built"} => r \notin cancelled
    /\ creation[r] = "registered" => r \in live /\ supervisor[r] = "none" /\ r \notin cancelled
    /\ r \in entries => creation[r] # "failed" \/ r \in EntryPoint
    /\ supervisor[r] \in {"open", "draining", "closing", "waiting"} => r \in live
    /\ supervisor[r] = "taken" => r \in entries /\ r \notin live
    /\ supervisor[r] \in {"removed", "done"} => r \notin entries
    /\ supervisor[r] \in {"waiting", "taken", "removed", "done"} => r \in cancelled
    /\ r \in released => supervisor[r] = "done"

\* A caller or a pool exists only on a resource whose path is settled.
Holders ==
  /\ \A c \in Caller : caller[c] # "idle" =>
       on[c] \in Resource /\ creation[on[c]] \notin {"new", "checked"}
  /\ \A p \in pooled : creation[p] \notin {"new", "checked"}
  /\ \A r \in Resource : runner[r] # "none" => creation[r] \notin {"new", "checked"}

\* Until the abort, what is below an open resource is open, what is reserved stays open while
\* entries may still appear, and only an ended resource is past its supervisor's first wait.
Openness ==
  /\ \A r \in entries : ~rootClosed /\ r \notin admission =>
       \A e \in path[r] : e \in live /\ e \notin admission /\ e \notin cancelled
  /\ \A r \in Resource : accepting /\ creation[r] = "built" /\ uses[r] # None =>
       uses[r] \in entries /\ uses[r] \notin admission
  /\ \A r \in Resource : ~rootClosed /\ supervisor[r] \notin {"none", "open"} => r \in admission

\* Work never returns to a scope that was closed and found empty.
Quiet ==
  \A r \in Resource : supervisor[r] \in {"taken", "removed", "done"} => ~Tracked(r)

IInv == TypeOK /\ Shape /\ Phase /\ Holders /\ Openness /\ Quiet /\ UseCount

-----------------------------------------------------------------------------
(* What a step that leaves part of the state alone preserves.               *)

\* A resource is in its own scope.
LEMMA OwnScope ==
  ASSUME Shape, NEW r \in Resource
  PROVE  r \in ScopeOf(r)
<1>1. r \in path[r]
  BY DEF Shape
<1> QED
  BY <1>1 DEF ScopeOf

\* The use graph changes only with creations, uses and paths.
LEMMA ShapeFrame ==
  ASSUME Shape, UNCHANGED <<creation, uses, path>>
  PROVE  Shape'
BY DEF Shape

\* A creation on which no other depends moves on.
LEMMA ShapeMove ==
  ASSUME Shape, TypeOK, NEW r \in Resource, NEW v,
         creation[r] \notin {"registered", "created"}, v \notin {"new", "checked"},
         creation' = [creation EXCEPT ![r] = v], UNCHANGED <<uses, path>>
  PROVE  Shape'
<1>1. \A x \in Resource : creation'[x] = IF x = r THEN v ELSE creation[x]
  BY DEF TypeOK
<1>2. \A x \in Resource : uses[x] # None => uses[x] # r /\ uses[x] \in Resource
  BY DEF Shape, TypeOK, Resource
<1> QED
  BY <1>1, <1>2 DEF Shape

\* A caller moves, on a resource whose path is settled or on none.
LEMMA HoldersMove ==
  ASSUME Holders, TypeOK, NEW c \in Caller, NEW to, NEW r,
         to = "idle" \/ (r \in Resource /\ creation[r] \notin {"new", "checked"}),
         caller' = [caller EXCEPT ![c] = to], on' = [on EXCEPT ![c] = r],
         UNCHANGED <<creation, runner, pooled>>
  PROVE  Holders'
<1>1. \A d \in Caller : /\ caller'[d] = IF d = c THEN to ELSE caller[d]
                        /\ on'[d] = IF d = c THEN r ELSE on[d]
  BY DEF TypeOK
<1> QED
  BY <1>1 DEF Holders

\* A closed scope stays empty while tasks, callers, pools and supervisors rest.
LEMMA QuietFrame ==
  ASSUME Quiet, UNCHANGED <<supervisor, runner, pooled, caller, on, path>>
  PROVE  Quiet'
BY DEF Quiet, Tracked, ScopeOf

\* Callers, pools and run tasks stay on settled resources while none of them moves.
LEMMA HoldersFrame ==
  ASSUME Holders, TypeOK, UNCHANGED <<runner, pooled, caller, on>>,
         \A r \in Resource : creation[r] \notin {"new", "checked"}
                               => creation'[r] \notin {"new", "checked"}
  PROVE  Holders'
BY DEF Holders, TypeOK, Resource

\* The users of e depend only on uses and on who holds its use.
LEMMA UsersFrame ==
  ASSUME NEW e, \A r \in Resource : (uses[r] = e /\ HoldsUse(r)) <=> (uses'[r] = e /\ HoldsUse(r)')
  PROVE  UsersOf(e)' = UsersOf(e)
BY DEF UsersOf

\* The counts stay exact when entries only go and nobody takes or gives up a use.
LEMMA UseFrame ==
  ASSUME UseCount, UNCHANGED <<creation, uses, users, admission>>, entries' \subseteq entries
  PROVE  UseCount'
<1>1. \A e \in entries' : UsersOf(e)' = UsersOf(e)
  BY UsersFrame DEF HoldsUse
<1> QED
  BY <1>1 DEF UseCount

\* Steps of run tasks, callers and pools.
LEMMA RegistryFrame ==
  ASSUME IInv, UNCHANGED <<registry, rootClosed, creation, lifetime, supervisor>>
  PROVE  Shape' /\ Phase' /\ Openness' /\ UseCount'
<1> USE DEF registry, lifetime
<1>1. Shape' /\ UseCount'
  BY ShapeFrame, UseFrame DEF IInv
<1>2. Phase' /\ Openness'
  BY DEF IInv, Phase, Openness
<1> QED
  BY <1>1, <1>2

\* The users of a resource are finitely many.
LEMMA UsersFinite ==
  ASSUME NEW e
  PROVE  IsFiniteSet(UsersOf(e)) /\ Cardinality(UsersOf(e)) \in Nat
<1>1. UsersOf(e) \subseteq Resource
  BY DEF UsersOf
<1> QED
  BY <1>1, ResourceAssumption, FS_Subset, FS_CardinalityType

\* A resource whose count is zero has no users.
LEMMA ZeroMeansUnused ==
  ASSUME UseCount, NEW e \in entries, users[e] = 0, NEW r \in Resource, uses[r] = e
  PROVE  ~HoldsUse(r)
<1>1. UsersOf(e) = {}
  BY UsersFinite, FS_EmptySet DEF UseCount
<1> QED
  BY <1>1 DEF UsersOf

\* Every dialer below a registered open resource has a user among the resources above it.
LEMMA BelowIsUsed ==
  ASSUME IInv, NEW r \in entries, r \notin admission, ~rootClosed, NEW x \in path[r], x # r
  PROVE  x \in entries /\ \E y \in Resource : uses[y] = x /\ HoldsUse(y)
<1>1. PICK y \in path[r] : uses[y] = x
  BY DEF IInv, Shape, TypeOK
<1>2. y \in Resource /\ y \in live /\ y \notin admission /\ x \in live
  BY <1>1 DEF IInv, Openness, TypeOK
<1>3. creation[y] \in {"registered", "supervised", "created"}
  BY <1>1, <1>2, ResourceAssumption DEF IInv, Phase, Shape, TypeOK, Creations, Unregistered, Resource
<1> QED
  BY <1>1, <1>2, <1>3 DEF HoldsUse, IInv, TypeOK

\* Ending resources takes them, and no others, out of the users of a resource.
LEMMA EndUses ==
  ASSUME IInv, NEW S \in SUBSET entries, NEW abort \in BOOLEAN, NEW at, End(S, abort, at),
         UNCHANGED <<creation, uses, entries>>
  PROVE  UseCount'
<1> SUFFICES ASSUME NEW e \in entries
             PROVE  users'[e] = Cardinality(UsersOf(e)')
  BY DEF UseCount
<1> DEFINE ended == {r \in S \ admission : uses[r] = e}
<1>1. ended \subseteq UsersOf(e)
  <2> SUFFICES ASSUME NEW r \in ended PROVE r \in UsersOf(e)
    OBVIOUS
  <2>1. r \in entries /\ r \in Resource /\ r \notin admission /\ uses[r] = e
    BY DEF IInv, TypeOK
  <2>2. e # None
    BY ResourceAssumption DEF IInv, TypeOK
  <2>3. creation[r] \in {"registered", "supervised", "created"}
    BY <2>1, <2>2 DEF IInv, Shape, Phase, Unregistered, TypeOK, Creations
  <2> QED
    BY <2>1, <2>3 DEF UsersOf, HoldsUse
<1>2. UsersOf(e)' = UsersOf(e) \ ended
  <2>1. ASSUME NEW r \in Resource
        PROVE  (uses'[r] = e /\ HoldsUse(r)') <=> (uses[r] = e /\ HoldsUse(r) /\ r \notin ended)
    <3>1. CASE r \in S
      <4>1. creation[r] \notin {"built", "refused"}
        BY <3>1 DEF IInv, Phase, Unregistered
      <4> QED
        BY <3>1, <4>1 DEF HoldsUse, End
    <3>2. CASE r \notin S
      BY <3>2 DEF HoldsUse, End
    <3> QED
      BY <3>1, <3>2
  <2> QED
    BY <2>1 DEF UsersOf
<1>3. IsFiniteSet(UsersOf(e)) /\ Cardinality(UsersOf(e)) \in Nat
  BY UsersFinite
<1>4. IsFiniteSet(ended) /\ Cardinality(ended) \in Nat /\ Cardinality(ended) <= Cardinality(UsersOf(e))
  BY <1>1, <1>3, FS_Subset, FS_CardinalityType
<1>5. Cardinality(UsersOf(e) \ ended) = Cardinality(UsersOf(e)) - Cardinality(ended)
  <2>1. UsersOf(e) \cap ended = ended
    BY <1>1
  <2>2. Cardinality(UsersOf(e) \ ended) = Cardinality(UsersOf(e)) - Cardinality(UsersOf(e) \cap ended)
    <3> HIDE DEF ended
    <3> QED
      BY <1>3, FS_Difference
  <2> QED
    BY <2>1, <2>2
<1>6. users'[e] = Minus(users[e], Cardinality(ended))
  BY DEF End, IInv, TypeOK
<1>7. users[e] = Cardinality(UsersOf(e))
  BY DEF IInv, UseCount
<1> QED
  BY <1>2, <1>3, <1>4, <1>5, <1>6, <1>7 DEF Minus

\* The part of the type invariant that End changes.
LEMMA EndType ==
  ASSUME IInv, NEW S \in SUBSET entries, NEW abort \in BOOLEAN, NEW at \in Deadlines \cup {0},
         End(S, abort, at)
  PROVE  /\ deadline' \in [Resource -> Deadlines \cup {0}]
         /\ admission' \subseteq Resource /\ aborted' \subseteq admission'
         /\ users' \in [Resource -> Nat]
<1>1. deadline' \in [Resource -> Deadlines \cup {0}] /\ admission' \subseteq Resource
  BY DEF End, IInv, TypeOK
<1>2. aborted' \subseteq admission'
  BY DEF End, IInv, TypeOK
<1>3. ASSUME NEW e \in Resource PROVE Cardinality({r \in S \ admission : uses[r] = e}) \in Nat
  <2>1. {r \in S \ admission : uses[r] = e} \subseteq Resource
    BY DEF IInv, TypeOK
  <2> QED
    BY <2>1, ResourceAssumption, FS_Subset, FS_CardinalityType
<1>4. users' \in [Resource -> Nat]
  BY <1>3 DEF End, IInv, TypeOK, Minus
<1> QED
  BY <1>1, <1>2, <1>4

-----------------------------------------------------------------------------
(* Every step preserves the invariant.                                      *)

\* Manager::create finds the registry accepting.
LEMMA CreateCheckedStep ==
  ASSUME IInv, NEW r \in Resource, CreateChecked(r)
  PROVE  IInv'
<1> USE ResourceAssumption DEF IInv, CreateChecked, registry, lifetime, tasks, daemon
<1>1. TypeOK'
  BY DEF TypeOK, Creations, Supervisors, Runners, Callers, Resource
<1>2. Shape'
  BY DEF TypeOK, Shape, Phase, Unregistered, Resource
<1>3. Phase'
  BY DEF TypeOK, Phase, Unregistered, Creations
<1>4. Holders'
  BY HoldersFrame DEF TypeOK
<1>5. Openness'
  BY DEF TypeOK, Openness, Phase, Shape, Unregistered
<1>6. Quiet'
  BY QuietFrame
<1>7. UseCount'
  <2>1. \A e \in entries' : UsersOf(e)' = UsersOf(e)
    BY UsersFrame DEF HoldsUse, TypeOK, Shape, Phase, Unregistered, Creations
  <2> QED
    BY <2>1 DEF UseCount
<1> QED
  BY <1>1, <1>2, <1>3, <1>4, <1>5, <1>6, <1>7

\* Building the native state fails before or after its reservation.
LEMMA BuildFailsStep ==
  ASSUME IInv, NEW r \in Resource, BuildFails(r)
  PROVE  IInv'
<1> USE ResourceAssumption DEF IInv, BuildFails, registry, lifetime, tasks, daemon
<1>1. TypeOK'
  BY DEF TypeOK, Creations, Supervisors, Runners, Callers, Resource
<1>2. Shape'
  BY DEF TypeOK, Shape, Phase, Unregistered, Resource
<1>3. Phase'
  BY DEF TypeOK, Phase, Unregistered, Creations
<1>4. Holders'
  BY HoldersFrame DEF TypeOK
<1>5. Openness'
  BY DEF TypeOK, Openness, Phase, Shape, Unregistered
<1>6. Quiet'
  BY QuietFrame
<1>7. UseCount'
  <2>1. \A e \in entries' : UsersOf(e)' = UsersOf(e)
    BY UsersFrame DEF HoldsUse, TypeOK, Shape, Phase, Unregistered, Creations
  <2> QED
    BY <2>1 DEF UseCount
<1> QED
  BY <1>1, <1>2, <1>3, <1>4, <1>5, <1>6, <1>7

\* The native state is built on no other resource.
LEMMA BuildStep ==
  ASSUME IInv, NEW r \in Resource, Build(r)
  PROVE  IInv'
<1> USE ResourceAssumption DEF IInv, Build, registry, lifetime, tasks, daemon
<1>1. TypeOK'
  BY DEF TypeOK, Creations, Supervisors, Runners, Callers, Resource
<1>2. Shape'
  BY DEF TypeOK, Shape, Phase, Unregistered, Resource
<1>3. Phase'
  BY DEF TypeOK, Phase, Unregistered, Creations
<1>4. Holders'
  BY HoldersFrame DEF TypeOK
<1>5. Openness'
  BY DEF TypeOK, Openness, Phase, Shape, Unregistered
<1>6. Quiet'
  BY QuietFrame
<1>7. UseCount'
  <2>1. \A e \in entries' : UsersOf(e)' = UsersOf(e)
    BY UsersFrame DEF HoldsUse, TypeOK, Shape, Phase, Unregistered, Creations
  <2> QED
    BY <2>1 DEF UseCount
<1> QED
  BY <1>1, <1>2, <1>3, <1>4, <1>5, <1>6, <1>7

\* Manager::reserve counts a use of an open carrier: the count grows by exactly one.
LEMMA BuildOnStep ==
  ASSUME IInv, NEW r \in Resource, NEW e \in Dialer \ {r}, BuildOn(r, e)
  PROVE  IInv'
<1> USE ResourceAssumption DEF IInv, BuildOn, Usable, IsOpen, registry, lifetime, tasks, daemon
<1>1. TypeOK'
  BY DEF TypeOK, Creations, Supervisors, Runners, Callers, Resource
<1>2. Shape'
  <2>0. e \in Resource /\ e \in path[e] /\ creation[e] \in {"registered", "created"} /\ uses[r] = None
    BY DEF TypeOK, Shape, Phase, Unregistered, Creations, Resource
  <2>1. ASSUME NEW q \in Resource, q # r PROVE r \notin path[q]
    BY <2>1 DEF TypeOK, Shape
  <2>2. ASSUME NEW q \in Resource, q # r
        PROVE  path'[q] = path[q] /\ uses'[q] = uses[q] /\ \A x \in path[q] : x # r /\ x \in Resource
    BY <2>1, <2>2 DEF TypeOK
  <2>3. path'[r] = {r} \cup path[e] /\ uses'[r] = e /\ e # None
    BY <2>0 DEF TypeOK
  <2>a. /\ creation'[r] \in {"built", "refused"}
        /\ \A q \in Resource \ {r} : creation'[q] = creation[q]
    BY DEF TypeOK
  <2>b. ASSUME NEW q \in Resource, q # r, uses[q] # None
        PROVE  uses[q] \in Resource \ {r} /\ path'[uses[q]] = path[uses[q]]
    BY <2>b DEF TypeOK, Shape, Resource
  <2>4. ASSUME NEW q \in Resource
        PROVE  /\ creation'[q] \in {"new", "checked"} => uses'[q] = None
               /\ uses'[q] = None => path'[q] = {q}
               /\ uses'[q] # None => /\ q \notin EntryPoint
                                     /\ path'[q] = {q} \cup path'[uses'[q]]
                                     /\ creation'[uses'[q]] \in {"registered", "created"}
    <3>1. CASE q = r
      BY <3>1, <2>0, <2>2, <2>3, <2>a
    <3>2. CASE q # r
      BY <3>2, <2>2, <2>a, <2>b DEF Shape
    <3> QED
      BY <3>1, <3>2
  <2>5. ASSUME NEW q \in Resource, NEW x \in path'[q]
        PROVE  path'[x] \subseteq path'[q]
    BY <2>0, <2>2, <2>3 DEF Shape
  <2>6. ASSUME NEW q \in Resource, NEW x \in path'[q] \ {q}
        PROVE  x \in Dialer /\ \E y \in path'[q] : uses'[y] = x
    <3>1. CASE q = r
      <4>1. CASE x = e
        BY <3>1, <4>1, <2>3
      <4>2. CASE x # e
        <5>1. x \in path[e] \ {e}
          BY <3>1, <4>2, <2>3
        <5>2. PICK y \in path[e] : uses[y] = x
          BY <5>1, <2>0 DEF Shape
        <5> QED
          BY <3>1, <5>1, <5>2, <2>0, <2>2, <2>3 DEF Shape
      <4> QED
        BY <4>1, <4>2
    <3>2. CASE q # r
      BY <3>2, <2>2 DEF Shape
    <3> QED
      BY <3>1, <3>2
  <2> QED
    BY <2>4, <2>5, <2>6 DEF Shape
<1>3. Phase'
  BY DEF TypeOK, Phase, Unregistered, Creations
<1>4. Holders'
  <2>1. creation'[r] \in {"built", "refused"} /\ \A q \in Resource \ {r} : creation'[q] = creation[q]
    BY DEF TypeOK
  <2> QED
    BY <2>1, HoldersFrame DEF TypeOK
<1>5. Openness'
  <2>1. UNCHANGED <<entries, live, admission, cancelled, accepting, rootClosed, supervisor>>
    OBVIOUS
  <2>2. \A q \in entries : path'[q] = path[q]
    BY DEF Phase, Unregistered, TypeOK
  <2>3. \A q \in Resource \ {r} : uses'[q] = uses[q] /\ creation'[q] = creation[q]
    BY DEF TypeOK
  <2>4. uses'[r] = e /\ e \in entries /\ e \notin admission
    BY DEF TypeOK
  <2> QED
    BY <2>1, <2>2, <2>3, <2>4 DEF TypeOK, Openness
<1>6. Quiet'
  <2>1. \A q \in Resource : creation[q] \notin {"new", "checked"} => path'[q] = path[q]
    BY DEF TypeOK
  <2> QED
    BY <2>1 DEF TypeOK, Quiet, Tracked, ScopeOf, Holders, Resource
<1>7. UseCount'
  <2>1. uses[r] = None /\ ~HoldsUse(r) /\ HoldsUse(r)' /\ uses'[r] = e
    BY DEF TypeOK, Shape, HoldsUse
  <2>2. \A q \in Resource \ {r} : uses'[q] = uses[q] /\ (HoldsUse(q)' <=> HoldsUse(q))
    BY DEF TypeOK, HoldsUse
  <2>3. UsersOf(e)' = UsersOf(e) \cup {r} /\ r \notin UsersOf(e)
    BY <2>1, <2>2 DEF UsersOf
  <2>4. users'[e] = Cardinality(UsersOf(e)')
    <3>1. Cardinality(UsersOf(e) \cup {r}) = Cardinality(UsersOf(e)) + 1
      BY <2>3, UsersFinite, FS_AddElement
    <3> QED
      BY <2>3, <3>1 DEF UseCount, TypeOK
  <2>5. ASSUME NEW d \in entries, d # e PROVE users'[d] = Cardinality(UsersOf(d)')
    <3>1. UsersOf(d)' = UsersOf(d)
      BY <2>1, <2>2, <2>5, UsersFrame
    <3> QED
      BY <3>1, <2>5 DEF UseCount, TypeOK
  <2> QED
    BY <2>4, <2>5 DEF UseCount
<1> QED
  BY <1>1, <1>2, <1>3, <1>4, <1>5, <1>6, <1>7

\* Manager::create enters the resource; the reservation becomes its use.
LEMMA RegisterStep ==
  ASSUME IInv, NEW r \in Resource, Register(r)
  PROVE  IInv'
<1> USE ResourceAssumption DEF IInv, Register, registry, lifetime, tasks, daemon
<1>1. TypeOK'
  BY DEF TypeOK, Creations, Supervisors, Runners, Callers, Resource
<1>2. Shape'
  BY DEF TypeOK, Shape, Phase, Unregistered, Resource
<1>3. Phase'
  BY DEF TypeOK, Phase, Unregistered, Creations
<1>4. Holders'
  BY HoldersFrame DEF TypeOK
<1>5. Openness'
  <2>1. UNCHANGED <<admission, cancelled, path, uses, rootClosed, accepting, supervisor>>
    OBVIOUS
  <2>2. ASSUME NEW q \in entries', ~rootClosed, q \notin admission
        PROVE  \A e \in path[q] : e \in live' /\ e \notin admission /\ e \notin cancelled
    <3>1. CASE q \in entries
      BY <3>1, <2>2 DEF Openness
    <3>2. CASE q = r /\ uses[r] = None
      BY <3>2, <2>2 DEF Shape, Phase
    <3>3. CASE q = r /\ uses[r] # None
      <4>1. path[r] = {r} \cup path[uses[r]] /\ uses[r] \in entries /\ uses[r] \notin admission
        BY <3>3 DEF Shape, Openness
      <4> QED
        BY <3>3, <4>1, <2>2 DEF Openness, Phase
    <3> QED
      BY <3>1, <3>2, <3>3
  <2> QED
    BY <2>1, <2>2 DEF Openness, TypeOK
<1>6. Quiet'
  BY QuietFrame
<1>7. UseCount'
  <2>1. \A e \in Resource : UsersOf(e)' = UsersOf(e)
    BY UsersFrame DEF HoldsUse, TypeOK, Phase, Unregistered
  <2>2. UsersOf(r) = {}
    BY DEF UsersOf, TypeOK, Shape
  <2> QED
    <3>1. Cardinality(UsersOf(r)') = 0
      BY <2>1, <2>2, FS_EmptySet
    <3>2. users' = [users EXCEPT ![r] = 0] /\ entries' = entries \cup {r}
      OBVIOUS
    <3> QED
      BY <2>1, <3>1, <3>2 DEF UseCount, TypeOK
<1> QED
  BY <1>1, <1>2, <1>3, <1>4, <1>5, <1>6, <1>7

\* Manager::create finds that shutdown has stopped creation.
LEMMA RefuseStep ==
  ASSUME IInv, NEW r \in Resource, Refuse(r)
  PROVE  IInv'
<1> USE ResourceAssumption DEF IInv, Refuse, registry, lifetime, tasks, daemon
<1>1. TypeOK'
  BY DEF TypeOK, Creations, Supervisors, Runners, Callers, Resource
<1>2. Shape'
  BY ShapeMove
<1>3. Phase'
  BY DEF TypeOK, Phase, Unregistered, Creations
<1>4. Holders'
  BY HoldersFrame DEF TypeOK
<1>5. Openness'
  BY DEF TypeOK, Openness, Phase, Unregistered
<1>6. Quiet'
  BY QuietFrame
<1>7. UseCount'
  <2>1. \A e \in entries' : UsersOf(e)' = UsersOf(e)
    BY UsersFrame DEF HoldsUse, TypeOK, Shape, Phase, Unregistered, Creations
  <2> QED
    BY <2>1 DEF UseCount
<1> QED
  BY <1>1, <1>2, <1>3, <1>4, <1>5, <1>6, <1>7

\* Reservation::drop gives back the use of a creation that failed.
LEMMA DropReservationStep ==
  ASSUME IInv, NEW r \in Resource, DropReservation(r)
  PROVE  IInv'
<1> USE ResourceAssumption DEF IInv, DropReservation, registry, lifetime, tasks, daemon
<1>1. TypeOK'
  BY DEF TypeOK, Creations, Supervisors, Runners, Callers, Resource, Minus
<1>2. Shape'
  BY ShapeMove
<1>3. Phase'
  BY DEF TypeOK, Phase, Unregistered, Creations
<1>4. Holders'
  BY HoldersFrame DEF TypeOK
<1>5. Openness'
  BY DEF TypeOK, Openness, Phase, Unregistered
<1>6. Quiet'
  BY QuietFrame
<1>7. UseCount'
  <2>1. HoldsUse(r) /\ ~HoldsUse(r)' /\ \A q \in Resource \ {r} : HoldsUse(q)' <=> HoldsUse(q)
    BY DEF HoldsUse, TypeOK
  <2>2. ASSUME NEW e \in entries, e = uses[r] PROVE users'[e] = Cardinality(UsersOf(e)')
    <3>1. UsersOf(e)' = UsersOf(e) \ {r} /\ r \in UsersOf(e)
      BY <2>1, <2>2 DEF UsersOf
    <3>2. users'[e] = Minus(users[e], 1) /\ users[e] = Cardinality(UsersOf(e))
      BY <2>2 DEF UseCount, TypeOK
    <3>3. Cardinality(UsersOf(e)) \in Nat \ {0}
      BY <3>1, UsersFinite, FS_EmptySet
    <3> QED
      <4>1. Cardinality(UsersOf(e) \ {r}) = Cardinality(UsersOf(e)) - 1
        BY <3>1, UsersFinite, FS_RemoveElement
      <4> QED
        BY <3>1, <3>2, <3>3, <4>1 DEF Minus
  <2>3. ASSUME NEW e \in entries, e # uses[r] PROVE users'[e] = Cardinality(UsersOf(e)')
    <3>1. UsersOf(e)' = UsersOf(e)
      BY <2>1, <2>3, UsersFrame
    <3> QED
      BY <3>1, <2>3 DEF UseCount, TypeOK
  <2> QED
    BY <2>2, <2>3 DEF UseCount
<1> QED
  BY <1>1, <1>2, <1>3, <1>4, <1>5, <1>6, <1>7

\* Manager::create starts the supervisor, or closes what it cannot supervise.
LEMMA SpawnSupervisorStep ==
  ASSUME IInv, NEW r \in Resource, SpawnSupervisor(r)
  PROVE  IInv'
<1> USE ResourceAssumption DEF IInv, SpawnSupervisor, registry, lifetime, tasks, daemon
<1>1. TypeOK'
  BY DEF TypeOK, Creations, Supervisors, Runners, Callers, Resource
<1>2. Shape'
  <2>1. creation'[r] = (IF r \in EntryPoint THEN "supervised" ELSE "created")
        /\ \A q \in Resource \ {r} : creation'[q] = creation[q]
    BY DEF TypeOK
  <2>2. \A q \in Resource : uses[q] # None => uses[q] \in Resource \ EntryPoint
    BY DEF TypeOK, Resource
  <2> QED
    BY <2>1, <2>2 DEF Shape
<1>3. Phase'
  BY DEF TypeOK, Phase, Unregistered, Creations
<1>4. Holders'
  BY HoldersFrame DEF TypeOK
<1>5. Openness'
  BY DEF TypeOK, Openness, Phase, Unregistered
<1>6. Quiet'
  BY DEF TypeOK, Quiet, Tracked, ScopeOf
<1>7. UseCount'
  <2>1. \A e \in entries' : UsersOf(e)' = UsersOf(e)
    BY UsersFrame DEF HoldsUse, TypeOK, Shape, Phase, Unregistered, Creations
  <2> QED
    BY <2>1 DEF UseCount
<1> QED
  BY <1>1, <1>2, <1>3, <1>4, <1>5, <1>6, <1>7

\* Manager::create starts the accept loop of an entry point.
LEMMA StartRunStep ==
  ASSUME IInv, NEW r \in Resource, StartRun(r)
  PROVE  IInv'
<1> USE ResourceAssumption DEF IInv, StartRun, registry, lifetime, tasks, daemon
<1>1. TypeOK'
  BY DEF TypeOK, Creations, Supervisors, Runners, Callers, Resource
<1>2. Shape'
  <2>1. PICK v \in {"failed", "created"} : creation' = [creation EXCEPT ![r] = v]
    OBVIOUS
  <2> QED
    BY <2>1, ShapeMove
<1>3. Phase'
  BY DEF TypeOK, Phase, Unregistered, Creations
<1>4. Holders'
  BY DEF Holders, TypeOK
<1>5. Openness'
  BY DEF TypeOK, Openness, Phase, Unregistered
<1>6. Quiet'
  BY DEF TypeOK, Quiet, Tracked, ScopeOf, Closed, Shape, Phase, Resource
<1>7. UseCount'
  <2>1. \A e \in entries' : UsersOf(e)' = UsersOf(e)
    BY UsersFrame DEF HoldsUse, TypeOK, Shape, Phase, Unregistered, Creations
  <2> QED
    BY <2>1 DEF UseCount
<1> QED
  BY <1>1, <1>2, <1>3, <1>4, <1>5, <1>6, <1>7

\* Manager::run stops, fails or ends with the daemon.
LEMMA RunStep ==
  ASSUME IInv, NEW r \in EntryPoint, Run(r)
  PROVE  IInv'
<1> USE ResourceAssumption DEF IInv, Run, RunStops, RunFails, RunShutsDown, registry, lifetime, tasks, daemon
<1>1. TypeOK'
  <2> r \in Resource
    BY DEF Resource
  <2>4. PICK v \in Runners : runner' = [runner EXCEPT ![r] = v]
    BY DEF Runners
  <2>1. runner' \in [Resource -> Runners]
    BY <2>4 DEF TypeOK
  <2>2. failure' \in EntryPoint \cup {None} /\ shutdown' \in BOOLEAN
    BY DEF TypeOK
  <2>3. UNCHANGED <<registry, rootClosed, creation, lifetime, supervisor, pooled, caller, on>>
    OBVIOUS
  <2> QED
    BY <2>1, <2>2, <2>3 DEF TypeOK
<1>2. Shape' /\ Phase' /\ Openness' /\ UseCount'
  BY RegistryFrame
<1>3. Holders'
  BY DEF TypeOK, Holders, Resource
<1>4. Quiet'
  <2>1. \A q \in Resource : runner'[q] \in {"running", "failing"} => runner[q] \in {"running", "failing"}
    BY DEF TypeOK, Resource
  <2>2. UNCHANGED <<supervisor, pooled, caller, on, path>>
    OBVIOUS
  <2> QED
    BY <2>1, <2>2 DEF Quiet, Tracked, ScopeOf
<1> QED
  BY <1>1, <1>2, <1>3, <1>4

\* Manager::supervise sees the end of admission or of the scope.
LEMMA SuperviseEndStep ==
  ASSUME IInv, NEW r \in Resource, SuperviseEnd(r)
  PROVE  IInv'
<1> USE ResourceAssumption DEF IInv, SuperviseEnd, SupervisorTo, registry, lifetime, tasks, daemon
<1>1. TypeOK'
  BY DEF TypeOK, Creations, Supervisors, Runners, Callers, Resource
<1>2. Shape'
  BY ShapeFrame
<1>3. Phase'
  BY DEF TypeOK, Phase, Unregistered, Creations
<1>4. Holders'
  BY HoldersFrame DEF TypeOK
<1>5. Openness'
  BY DEF TypeOK, Openness, Phase, Closed, ScopeOf, Shape
<1>6. Quiet'
  BY DEF TypeOK, Quiet, Tracked, ScopeOf
<1>7. UseCount'
  BY UseFrame
<1> QED
  BY <1>1, <1>2, <1>3, <1>4, <1>5, <1>6, <1>7

\* Manager::supervise sees the resource idle, late or aborted.
LEMMA SuperviseDrainedStep ==
  ASSUME IInv, NEW r \in Resource, SuperviseDrained(r)
  PROVE  IInv'
<1> USE ResourceAssumption DEF IInv, SuperviseDrained, SupervisorTo, registry, lifetime, tasks, daemon
<1>1. TypeOK'
  BY DEF TypeOK, Creations, Supervisors, Runners, Callers, Resource
<1>2. Shape'
  BY ShapeFrame
<1>3. Phase'
  BY DEF TypeOK, Phase, Unregistered, Creations
<1>4. Holders'
  BY HoldersFrame DEF TypeOK
<1>5. Openness'
  BY DEF TypeOK, Openness, Phase, Unregistered
<1>6. Quiet'
  BY DEF TypeOK, Quiet, Tracked, ScopeOf
<1>7. UseCount'
  BY UseFrame
<1> QED
  BY <1>1, <1>2, <1>3, <1>4, <1>5, <1>6, <1>7

\* Manager::supervise closes the scope.
LEMMA SuperviseCloseStep ==
  ASSUME IInv, NEW r \in Resource, SuperviseClose(r)
  PROVE  IInv'
<1> USE ResourceAssumption DEF IInv, SuperviseClose, SupervisorTo, registry, lifetime, tasks, daemon
<1>1. TypeOK'
  BY DEF TypeOK, Creations, Supervisors, Runners, Callers, Resource
<1>2. Shape'
  BY ShapeFrame
<1>3. Phase'
  BY DEF TypeOK, Phase, Unregistered, Creations
<1>4. Holders'
  BY HoldersFrame DEF TypeOK
<1>5. Openness'
  BY DEF TypeOK, Openness, Phase, Unregistered
<1>6. Quiet'
  BY DEF TypeOK, Quiet, Tracked, ScopeOf
<1>7. UseCount'
  BY UseFrame
<1> QED
  BY <1>1, <1>2, <1>3, <1>4, <1>5, <1>6, <1>7

\* Manager::supervise finds the closed scope empty and takes the native state.
LEMMA SuperviseTakeStep ==
  ASSUME IInv, NEW r \in Resource, SuperviseTake(r)
  PROVE  IInv'
<1> USE ResourceAssumption DEF IInv, SuperviseTake, SupervisorTo, registry, lifetime, tasks, daemon
<1>1. TypeOK'
  BY DEF TypeOK, Creations, Supervisors, Runners, Callers, Resource
<1>2. Shape'
  BY ShapeFrame
<1>3. Phase'
  BY DEF TypeOK, Phase, Unregistered, Creations
<1>4. Holders'
  BY HoldersFrame DEF TypeOK
<1>5. Openness'
  BY DEF TypeOK, Openness, Phase, Unregistered
<1>6. Quiet'
  BY DEF TypeOK, Quiet, Tracked, ScopeOf
<1>7. UseCount'
  BY UseFrame
<1> QED
  BY <1>1, <1>2, <1>3, <1>4, <1>5, <1>6, <1>7

\* Manager::supervise removes the entry.
LEMMA SuperviseRemoveStep ==
  ASSUME IInv, NEW r \in Resource, SuperviseRemove(r)
  PROVE  IInv'
<1> USE ResourceAssumption DEF IInv, SuperviseRemove, SupervisorTo, registry, lifetime, tasks, daemon
<1>1. TypeOK'
  <2>1. r \notin live
    BY DEF Phase
  <2> QED
    BY <2>1 DEF TypeOK, Supervisors
<1>2. Shape'
  BY ShapeFrame
<1>3. Phase'
  BY DEF TypeOK, Phase, Unregistered, Creations
<1>4. Holders'
  BY HoldersFrame DEF TypeOK
<1>5. Openness'
  BY DEF TypeOK, Openness, Phase, Unregistered
<1>6. Quiet'
  BY DEF TypeOK, Quiet, Tracked, ScopeOf
<1>7. UseCount'
  BY UseFrame
<1> QED
  BY <1>1, <1>2, <1>3, <1>4, <1>5, <1>6, <1>7

\* Manager::supervise lets the waiters resume.
LEMMA SuperviseReleaseStep ==
  ASSUME IInv, NEW r \in Resource, SuperviseRelease(r)
  PROVE  IInv'
<1> USE ResourceAssumption DEF IInv, SuperviseRelease, SupervisorTo, registry, lifetime, tasks, daemon
<1>1. TypeOK'
  BY DEF TypeOK, Creations, Supervisors, Runners, Callers, Resource
<1>2. Shape'
  BY ShapeFrame
<1>3. Phase'
  BY DEF TypeOK, Phase, Unregistered, Creations
<1>4. Holders'
  BY HoldersFrame DEF TypeOK
<1>5. Openness'
  BY DEF TypeOK, Openness, Phase, Unregistered
<1>6. Quiet'
  BY DEF TypeOK, Quiet, Tracked, ScopeOf
<1>7. UseCount'
  BY UseFrame
<1> QED
  BY <1>1, <1>2, <1>3, <1>4, <1>5, <1>6, <1>7

\* Manager::terminate ends one resource that nobody uses.
LEMMA TerminateStep ==
  ASSUME IInv, NEW r \in Resource, NEW abort \in BOOLEAN, NEW at \in Deadlines \cup {0}, Terminate(r, abort, at)
  PROVE  IInv'
<1> USE ResourceAssumption DEF IInv, Terminate, registry, lifetime, tasks, daemon
<1>1. TypeOK'
  <2>1. PICK S \in SUBSET entries, ab \in BOOLEAN, d \in Deadlines \cup {0} : End(S, ab, d)
    OBVIOUS
  <2>2. /\ deadline' \in [Resource -> Deadlines \cup {0}] /\ admission' \subseteq Resource
        /\ aborted' \subseteq admission' /\ users' \in [Resource -> Nat]
    BY <2>1, EndType
  <2> QED
    BY <2>2 DEF TypeOK
<1>2. Shape'
  BY ShapeFrame
<1>3. Phase'
  BY DEF TypeOK, Phase, Unregistered, End
<1>4. Holders'
  BY HoldersFrame DEF TypeOK
<1>5. Openness'
  <2>1. admission' = admission \cup {r}
    BY DEF End
  <2>2. ASSUME NEW q \in entries, ~rootClosed, q \notin admission'
        PROVE  \A e \in path[q] : e \in live /\ e \notin admission' /\ e \notin cancelled
    <3>1. r \notin path[q]
      <4>1. ASSUME r \in path[q] PROVE FALSE
        BY <2>1, <2>2, <4>1, BelowIsUsed, ZeroMeansUnused
      <4> QED
        BY <4>1
    <3> QED
      BY <2>1, <2>2, <3>1 DEF Openness
  <2>3. ASSUME NEW q \in Resource, accepting, creation[q] = "built", uses[q] # None
        PROVE  uses[q] \in entries /\ uses[q] \notin admission'
    <3>1. uses[q] # r
      BY <2>3, ZeroMeansUnused DEF HoldsUse
    <3> QED
      BY <2>1, <2>3, <3>1 DEF Openness
  <2> QED
    BY <2>1, <2>2, <2>3 DEF Openness, TypeOK
<1>6. Quiet'
  BY QuietFrame
<1>7. UseCount'
  BY EndUses
<1> QED
  BY <1>1, <1>2, <1>3, <1>4, <1>5, <1>6, <1>7

\* Manager::drain_tier ends a whole tier and stops creation.
LEMMA DrainTierStep ==
  ASSUME IInv, NEW t \in Tiers, DrainTier(t)
  PROVE  IInv'
<1> USE ResourceAssumption DEF IInv, DrainTier, IsOpen, registry, lifetime, tasks, daemon
<1>1. TypeOK'
  <2>1. PICK S \in SUBSET entries, ab \in BOOLEAN, d \in Deadlines \cup {0} : End(S, ab, d)
    OBVIOUS
  <2>2. /\ deadline' \in [Resource -> Deadlines \cup {0}] /\ admission' \subseteq Resource
        /\ aborted' \subseteq admission' /\ users' \in [Resource -> Nat]
    BY <2>1, EndType
  <2> QED
    BY <2>2 DEF TypeOK
<1>2. Shape'
  BY ShapeFrame
<1>3. Phase'
  BY DEF TypeOK, Phase, Unregistered, End
<1>4. Holders'
  BY HoldersFrame DEF TypeOK
<1>5. Openness'
  <2>1. admission' = admission \cup {r \in entries : Tier(r) = t /\ IsOpen(r)}
    BY DEF End
  <2>2. ASSUME NEW q \in entries, ~rootClosed, q \notin admission', NEW e \in path[q]
        PROVE  e \in live /\ e \notin admission' /\ e \notin cancelled
    <3>1. e \in live /\ e \notin admission /\ e \notin cancelled /\ Tier(q) # t
      BY <2>1, <2>2 DEF Openness
    <3>2. Tier(e) = Tier(q)
      <4>1. q \in Resource
        BY DEF TypeOK
      <4>2. e # q => e \in Dialer /\ uses[q] # None
        BY <4>1 DEF Shape
      <4>3. e # q => e \notin EntryPoint /\ q \notin EntryPoint
        BY <4>1, <4>2 DEF Shape
      <4> QED
        BY <4>3 DEF Tier
    <3> QED
      BY <2>1, <3>1, <3>2
  <2> QED
    BY <2>1, <2>2 DEF Openness, TypeOK
<1>6. Quiet'
  BY QuietFrame
<1>7. UseCount'
  BY EndUses
<1> QED
  BY <1>1, <1>2, <1>3, <1>4, <1>5, <1>6, <1>7

\* Manager::abort closes the root scope.
LEMMA AbortStep ==
  ASSUME IInv, Abort
  PROVE  IInv'
<1> USE ResourceAssumption DEF IInv, Abort, registry, lifetime, tasks, daemon
<1>1. TypeOK'
  BY DEF TypeOK, Creations, Supervisors, Runners, Callers, Resource
<1>2. Shape'
  BY ShapeFrame
<1>3. Phase'
  BY DEF TypeOK, Phase, Unregistered, Creations
<1>4. Holders'
  BY HoldersFrame DEF TypeOK
<1>5. Openness'
  BY DEF TypeOK, Openness, Phase, Unregistered
<1>6. Quiet'
  BY QuietFrame
<1>7. UseCount'
  BY UseFrame
<1> QED
  BY <1>1, <1>2, <1>3, <1>4, <1>5, <1>6, <1>7

\* An entry point accepts a session.
LEMMA AcceptStep ==
  ASSUME IInv, NEW c \in Caller, NEW r \in EntryPoint, Accept(c, r)
  PROVE  IInv'
<1> USE ResourceAssumption DEF IInv, Accept, CallerTo, registry, lifetime, tasks, daemon
<1>1. TypeOK'
  BY DEF TypeOK, Creations, Supervisors, Runners, Callers, Resource, Holders
<1>2. Shape' /\ Phase' /\ Openness' /\ UseCount'
  BY RegistryFrame
<1>3. Holders'
  BY DEF TypeOK, Holders, Resource
<1>4. Quiet'
  <2>1. ASSUME NEW q \in Resource, supervisor[q] \in {"taken", "removed", "done"} PROVE ~Tracked(q)'
    <3>3. ~Tracked(q)
      BY <2>1 DEF Quiet
    <3>4. q \in cancelled
      BY <2>1 DEF Phase
    <3>5. q \in ScopeOf(q)
      BY OwnScope
    <3>1. ~Tracked(q) /\ q \in cancelled /\ q \in ScopeOf(q)
      BY <3>3, <3>4, <3>5
    <3>2. q \notin ScopeOf(r)
      BY <3>1 DEF Closed
    <3> QED
      BY <3>1, <3>2 DEF Tracked, ScopeOf, TypeOK, Resource
  <2> QED
    BY <2>1 DEF Quiet
<1> QED
  BY <1>1, <1>2, <1>3, <1>4

\* A query or probe looks an open resource up.
LEMMA LookupStep ==
  ASSUME IInv, NEW c \in Caller, NEW r \in Resource, Lookup(c, r)
  PROVE  IInv'
<1> USE ResourceAssumption DEF IInv, Lookup, CallerTo, Usable, IsOpen, registry, lifetime, tasks, daemon
<1>1. TypeOK'
  BY DEF TypeOK, Creations, Supervisors, Runners, Callers, Resource, Holders
<1>2. Shape' /\ Phase' /\ Openness' /\ UseCount'
  BY RegistryFrame
<1>3. Holders'
  <2>1. r \in Resource /\ creation[r] \notin {"new", "checked"}
    BY DEF TypeOK, Phase, Unregistered
  <2> QED
    BY <2>1, HoldersMove
<1>4. Quiet'
  <2>1. ASSUME NEW q \in Resource, ~Tracked(q) PROVE ~Tracked(q)'
    BY <2>1 DEF Tracked, ScopeOf, TypeOK
  <2> QED
    BY <2>1 DEF Quiet
<1> QED
  BY <1>1, <1>2, <1>3, <1>4

\* A query or probe starts tracked work, unless the scope has closed since the lookup.
LEMMA TrackStep ==
  ASSUME IInv, NEW c \in Caller, Track(c)
  PROVE  IInv'
<1> USE ResourceAssumption DEF IInv, Track, CallerTo, registry, lifetime, tasks, daemon
<1>1. TypeOK'
  BY DEF TypeOK, Creations, Supervisors, Runners, Callers, Resource, Holders
<1>2. Shape' /\ Phase' /\ Openness' /\ UseCount'
  BY RegistryFrame
<1>3. Holders'
  <2>1. on[c] \in Resource /\ creation[on[c]] \notin {"new", "checked"}
    BY DEF Holders
  <2> QED
    BY <2>1, HoldersMove
<1>4. Quiet'
  <2>1. ASSUME NEW q \in Resource, supervisor[q] \in {"taken", "removed", "done"} PROVE ~Tracked(q)'
    <3>1. ~Tracked(q) /\ q \in cancelled
      BY <2>1 DEF Quiet, Phase
    <3>2. caller'[c] = "tracked" => q \notin ScopeOf(on[c])
      BY <3>1 DEF Closed, TypeOK
    <3>3. caller'[c] # "connected"
      BY DEF TypeOK
    <3>4. on' = on /\ \A d \in Caller \ {c} : caller'[d] = caller[d]
      BY DEF TypeOK
    <3> QED
      BY <3>1, <3>2, <3>3, <3>4 DEF Tracked, ScopeOf
  <2> QED
    BY <2>1 DEF Quiet
<1> QED
  BY <1>1, <1>2, <1>3, <1>4

\* A caller opens a connection through the carriers of its resource.
LEMMA ConnectStep ==
  ASSUME IInv, NEW c \in Caller, Connect(c)
  PROVE  IInv'
<1> USE ResourceAssumption DEF IInv, Connect, CallerTo, registry, lifetime, tasks, daemon
<1>1. TypeOK'
  BY DEF TypeOK, Creations, Supervisors, Runners, Callers, Resource, Holders
<1>2. Shape' /\ Phase' /\ Openness' /\ UseCount'
  BY RegistryFrame
<1>3. Holders'
  BY DEF TypeOK, Holders, Phase, Unregistered
<1>4. Quiet'
  <2>1. ASSUME NEW q \in Resource, supervisor[q] \in {"taken", "removed", "done"} PROVE ~Tracked(q)'
    <3>3. ~Tracked(q)
      BY <2>1 DEF Quiet
    <3>4. q \in cancelled
      BY <2>1 DEF Phase
    <3>5. q \in ScopeOf(q)
      BY OwnScope
    <3>1. ~Tracked(q) /\ q \in cancelled /\ q \in ScopeOf(q)
      BY <3>3, <3>4, <3>5
    <3>2. q \notin path[on[c]]
      BY <3>1 DEF Closed, Holders
    <3> QED
      BY <3>1, <3>2 DEF Tracked, ScopeOf, TypeOK
  <2> QED
    BY <2>1 DEF Quiet
<1> QED
  BY <1>1, <1>2, <1>3, <1>4

\* A connection of a caller ends.
LEMMA DisconnectStep ==
  ASSUME IInv, NEW c \in Caller, Disconnect(c)
  PROVE  IInv'
<1> USE ResourceAssumption DEF IInv, Disconnect, CallerTo, registry, lifetime, tasks, daemon
<1>1. TypeOK'
  BY DEF TypeOK, Creations, Supervisors, Runners, Callers, Resource, Holders
<1>2. Shape' /\ Phase' /\ Openness' /\ UseCount'
  BY RegistryFrame
<1>3. Holders'
  <2>1. on[c] \in Resource /\ creation[on[c]] \notin {"new", "checked"}
    BY DEF Holders
  <2> QED
    BY <2>1, HoldersMove
<1>4. Quiet'
  <2>1. ASSUME NEW q \in Resource, ~Tracked(q) PROVE ~Tracked(q)'
    BY <2>1 DEF Tracked, ScopeOf, TypeOK
  <2> QED
    BY <2>1 DEF Quiet
<1> QED
  BY <1>1, <1>2, <1>3, <1>4

\* The work of a caller is over.
LEMMA FinishStep ==
  ASSUME IInv, NEW c \in Caller, Finish(c)
  PROVE  IInv'
<1> USE ResourceAssumption DEF IInv, Finish, CallerTo, registry, lifetime, tasks, daemon
<1>1. TypeOK'
  BY DEF TypeOK, Creations, Supervisors, Runners, Callers, Resource, Holders
<1>2. Shape' /\ Phase' /\ Openness' /\ UseCount'
  BY RegistryFrame
<1>3. Holders'
  <2>1. on[c] \in Resource /\ creation[on[c]] \notin {"new", "checked"}
    BY DEF Holders
  <2> QED
    BY <2>1, HoldersMove
<1>4. Quiet'
  <2>1. ASSUME NEW q \in Resource, ~Tracked(q) PROVE ~Tracked(q)'
    BY <2>1 DEF Tracked, ScopeOf, TypeOK
  <2> QED
    BY <2>1 DEF Quiet
<1> QED
  BY <1>1, <1>2, <1>3, <1>4

\* A caller gives up what it tracked.
LEMMA UnwindStep ==
  ASSUME IInv, NEW c \in Caller, Unwind(c)
  PROVE  IInv'
<1> USE ResourceAssumption DEF IInv, Unwind, CallerTo, registry, lifetime, tasks, daemon
<1>1. TypeOK'
  BY DEF TypeOK, Creations, Supervisors, Runners, Callers, Resource, Holders
<1>2. Shape' /\ Phase' /\ Openness' /\ UseCount'
  BY RegistryFrame
<1>3. Holders'
  BY HoldersMove
<1>4. Quiet'
  <2>1. ASSUME NEW q \in Resource, ~Tracked(q) PROVE ~Tracked(q)'
    BY <2>1 DEF Tracked, ScopeOf, TypeOK
  <2> QED
    BY <2>1 DEF Quiet
<1> QED
  BY <1>1, <1>2, <1>3, <1>4

\* A pooled connection of a carrier closes.
LEMMA PoolClosesStep ==
  ASSUME IInv, NEW p \in pooled, PoolCloses(p)
  PROVE  IInv'
<1> USE ResourceAssumption DEF IInv, PoolCloses, registry, lifetime, tasks, daemon
<1>1. TypeOK'
  BY DEF TypeOK, Creations, Supervisors, Runners, Callers, Resource, Holders
<1>2. Shape' /\ Phase' /\ Openness' /\ UseCount'
  BY RegistryFrame
<1>3. Holders'
  BY DEF TypeOK, Holders, Phase, Unregistered
<1>4. Quiet'
  <2>1. ASSUME NEW q \in Resource, ~Tracked(q) PROVE ~Tracked(q)'
    BY <2>1 DEF Tracked, ScopeOf, TypeOK
  <2> QED
    BY <2>1 DEF Quiet
<1> QED
  BY <1>1, <1>2, <1>3, <1>4

-----------------------------------------------------------------------------
\* The inductive invariant holds in the empty registry of Manager::new.
LEMMA InitInv == Init => IInv
<1> SUFFICES ASSUME Init PROVE IInv
  OBVIOUS
<1> USE ResourceAssumption DEF Init
<1>1. TypeOK /\ Shape /\ Phase /\ Holders
  BY DEF TypeOK, Creations, Supervisors, Runners, Callers, Shape, Phase, Unregistered, Holders,
         Resource
<1>2. Openness /\ Quiet /\ UseCount
  BY DEF Openness, Quiet, UseCount
<1> QED
  BY <1>1, <1>2 DEF IInv

\* Every step of the manager, its tasks and its callers preserves the inductive invariant.
LEMMA StepInv == IInv /\ [Next]_rvars => IInv'
<1> SUFFICES ASSUME IInv, [Next]_rvars PROVE IInv'
  OBVIOUS
<1>1. ASSUME NEW r \in Resource, Create(r) PROVE IInv'
  BY <1>1, CreateCheckedStep, BuildFailsStep, BuildStep, BuildOnStep, RegisterStep, RefuseStep,
     DropReservationStep, SpawnSupervisorStep, StartRunStep DEF Create
<1>2. ASSUME NEW r \in EntryPoint, Run(r) PROVE IInv'
  BY <1>2, RunStep
<1>3. ASSUME NEW r \in Resource, Supervise(r) PROVE IInv'
  BY <1>3, SuperviseEndStep, SuperviseDrainedStep, SuperviseCloseStep, SuperviseTakeStep,
     SuperviseRemoveStep, SuperviseReleaseStep DEF Supervise
<1>4. ASSUME NEW r \in Resource, Close(r) PROVE IInv'
  BY <1>4, TerminateStep DEF Close
<1>5. ASSUME NEW r \in Resource, NEW at \in Deadlines, Drain(r, at) PROVE IInv'
  BY <1>5, TerminateStep DEF Drain
<1>6. ASSUME NEW t \in Tiers, DrainTier(t) PROVE IInv'
  BY <1>6, DrainTierStep
<1>7. CASE Abort
  BY <1>7, AbortStep
<1>8. ASSUME NEW c \in Caller, Call(c) PROVE IInv'
  BY <1>8, AcceptStep, LookupStep, TrackStep, ConnectStep, DisconnectStep, FinishStep, UnwindStep
     DEF Call
<1>9. ASSUME NEW p \in pooled, PoolCloses(p) PROVE IInv'
  BY <1>9, PoolClosesStep
<1>10. CASE UNCHANGED rvars
  <2> USE <1>10 DEF rvars, registry, lifetime, tasks, daemon, IInv
  <2>1. TypeOK' /\ Holders'
    BY DEF TypeOK, Holders
  <2>2. Quiet'
    BY QuietFrame
  <2> QED
    BY <2>1, <2>2, RegistryFrame
<1> QED
  BY <1>1, <1>2, <1>3, <1>4, <1>5, <1>6, <1>7, <1>8, <1>9, <1>10 DEF Next

\* The inductive invariant holds in every behaviour of the resource manager.
THEOREM Invariance == Spec => []IInv
BY InitInv, StepInv, PTL DEF Spec

\* The registry, the lifetimes and the tasks keep their types.
THEOREM TypeCorrect == Spec => []TypeOK
<1>1. IInv => TypeOK
  BY DEF IInv
<1> QED
  BY <1>1, Invariance, PTL

\* Entry.users counts exactly the reservations and open resources on the entry.
THEOREM UseCountExact == Spec => []UseCount
<1>1. IInv => UseCount
  BY DEF IInv
<1> QED
  BY <1>1, Invariance, PTL

\* The invariant keeps the path of an open resource open.
LEMMA CarriersFromInv == IInv => CarriersStayOpen
<1> SUFFICES ASSUME IInv, NEW r \in entries, ~rootClosed, r \notin admission, NEW e \in path[r]
             PROVE  Usable(e) /\ ~Closed(e)
  BY DEF CarriersStayOpen, IsOpen
<1>1. e \in Resource /\ e \in live /\ e \in entries /\ e \notin admission
  BY DEF IInv, Openness, TypeOK
<1>2. path[e] \cap cancelled = {}
  BY DEF IInv, Openness, Shape, TypeOK
<1>3. ScopeOf(e) \cap cancelled = {}
  BY <1>1, <1>2 DEF ScopeOf, IInv, Shape
<1> QED
  BY <1>1, <1>3 DEF Usable, IsOpen, Closed

\* No close, drain or tier drain leaves an open resource on a dialer that has ended.
THEOREM CarriersOpen == Spec => []CarriersStayOpen
BY CarriersFromInv, Invariance, PTL

\* The invariant keeps work out of released scopes.
LEMMA QuietFromInv == IInv => ReleasedIsQuiet
<1> SUFFICES ASSUME IInv, NEW r \in released
             PROVE  r \notin entries /\ Closed(r) /\ ~Tracked(r)
  BY DEF ReleasedIsQuiet
<1>1. r \in Resource /\ supervisor[r] = "done" /\ r \in cancelled /\ r \notin entries
  BY DEF IInv, TypeOK, Phase
<1>2. r \in ScopeOf(r)
  BY <1>1, OwnScope DEF IInv
<1> QED
  BY <1>1, <1>2 DEF IInv, Quiet, Closed

\* A released resource has left the registry, and nothing runs in its closed scope.
THEOREM ReleaseIsQuiet == Spec => []ReleasedIsQuiet
BY QuietFromInv, Invariance, PTL

\* Once accepting is false no create call inserts an entry.
LEMMA EntriesStep ==
  ASSUME [Next]_rvars, ~accepting
  PROVE  entries' \subseteq entries
<1> USE DEF registry
<1>1. ASSUME NEW r \in Resource, Create(r) PROVE entries' \subseteq entries
  BY <1>1 DEF Create, CreateChecked, BuildFails, Build, BuildOn, Register, Refuse,
              DropReservation, SpawnSupervisor, StartRun
<1>2. ASSUME NEW r \in EntryPoint, Run(r) PROVE entries' \subseteq entries
  BY <1>2 DEF Run, RunStops, RunFails, RunShutsDown
<1>3. ASSUME NEW r \in Resource, Supervise(r) PROVE entries' \subseteq entries
  BY <1>3 DEF Supervise, SuperviseEnd, SuperviseDrained, SuperviseClose, SuperviseTake,
              SuperviseRemove, SuperviseRelease
<1>4. ASSUME NEW c \in Caller, Call(c) PROVE entries' \subseteq entries
  BY <1>4 DEF Call, Accept, Lookup, Track, Connect, Disconnect, Finish, Unwind, CallerTo
<1> QED
  BY <1>1, <1>2, <1>3, <1>4 DEF Next, Close, Drain, Terminate, DrainTier, Abort, PoolCloses, rvars

\* After drain_tier or abort no create call registers another entry.
THEOREM EntriesEnd == Spec => NoLateEntry
<1>1. [Next]_rvars => [~accepting => entries' \subseteq entries]_rvars
  BY EntriesStep
<1> QED
  BY <1>1, PTL DEF Spec, NoLateEntry

\* Once admission has stopped no request moves the drain deadline.
THEOREM DeadlinesFixed == Spec => DeadlineFixed
<1>1. TypeOK /\ [Next]_rvars => [\A r \in admission : deadline'[r] = deadline[r]]_rvars
  <2> SUFFICES ASSUME TypeOK, [Next]_rvars, NEW r \in admission PROVE deadline'[r] = deadline[r]
    OBVIOUS
  <2> USE DEF lifetime
  <2>1. ASSUME NEW q \in Resource, Create(q) PROVE deadline' = deadline
    BY <2>1 DEF Create, CreateChecked, BuildFails, Build, BuildOn, Register, Refuse,
                DropReservation, SpawnSupervisor, StartRun
  <2>2. ASSUME NEW q \in EntryPoint, Run(q) PROVE deadline' = deadline
    BY <2>2 DEF Run, RunStops, RunFails, RunShutsDown
  <2>3. ASSUME NEW q \in Resource, Supervise(q) PROVE deadline' = deadline
    BY <2>3 DEF Supervise, SuperviseEnd, SuperviseDrained, SuperviseClose, SuperviseTake,
                SuperviseRemove, SuperviseRelease, SupervisorTo
  <2>4. ASSUME NEW c \in Caller, Call(c) PROVE deadline' = deadline
    BY <2>4 DEF Call, Accept, Lookup, Track, Connect, Disconnect, Finish, Unwind, CallerTo
  <2>5. ASSUME NEW S, NEW abort, NEW at, End(S, abort, at) PROVE deadline'[r] = deadline[r]
    BY <2>5 DEF End, TypeOK
  <2> QED
    BY <2>1, <2>2, <2>3, <2>4, <2>5 DEF Next, Close, Drain, Terminate, DrainTier, Abort,
                                         PoolCloses, rvars
<1> QED
  BY <1>1, TypeCorrect, PTL DEF Spec, DeadlineFixed
=============================================================================
