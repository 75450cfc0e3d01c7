--------------------------- MODULE ReferencesProofs ---------------------------
(***************************************************************************)
(* The safety of References for every set of fields, lists of references   *)
(* and resources: what a sync goes on with is one identifier for each      *)
(* reference, none older than the sync, and of a spec that is valid.       *)
(***************************************************************************)
EXTENDS References, FiniteSetTheorems, TLAPS

\* An identifier is the user's or that of a resource.
Id == {<<OwnId, 0>>} \cup (Targets \X Nat)

SpecOK ==
    /\ spec.refs \in [RefFields -> Seq(Targets \cup {Bare})]
    /\ spec.ids \in [RefFields -> Seq(Id)]
    /\ \A f \in RefFields \ ListFields : Len(spec.refs[f]) <= 1

\* A resource that is made again has a higher number.
TargetOK ==
    /\ target \in [Targets -> [state : TargetStates, num : Nat]]
    /\ began \in [Targets -> Nat]
    /\ \A t \in Targets : began[t] <= target[t].num

\* The references that are read already come before the others.
Done(f) == Reads[f] \ todo[f]

Progress ==
    /\ todo \in [RefFields -> SUBSET Nat]
    /\ \A f \in RefFields : /\ todo[f] \subseteq Reads[f]
                            /\ \A i \in Done(f), j \in todo[f] : i < j
    /\ pc = "resolved" => todo = NothingToRead /\ ~invalid

\* Of a valid spec, a field without references has its own identifiers, and one with
\* references an identifier for each that has been read, at its place.
FilledField(f) ==
    IF spec.refs[f] = <<>> THEN ko[f] = spec.ids[f]
    ELSE /\ Len(ko[f]) = Cardinality(Done(f))
         /\ \A j \in Done(f) : ko[f][Place(f, j)][1] = spec.refs[f][j]
         /\ \A i \in DOMAIN ko[f] : ko[f][i] \in Targets \X Nat /\ ko[f][i][2] >= began[ko[f][i][1]]

Filled ==
    /\ pc \in {"idle", "resolve", "resolved"}
    /\ ko \in [RefFields -> Seq(Id)]
    /\ pc # "idle" /\ ~invalid =>
           /\ ~Invalid(spec.ids)
           /\ \A f \in RefFields : FilledField(f)

RInv == SpecOK /\ TargetOK /\ Progress /\ Filled

------------------------------------------------------------------------------
\* A reference that is read names a resource, and a field has finitely many.
LEMMA ReadsNameTargets ==
    ASSUME SpecOK, NEW f \in RefFields
    PROVE  /\ Reads[f] \subseteq 1 .. Len(spec.refs[f])
           /\ IsFiniteSet(Reads[f])
           /\ \A j \in Reads[f] : spec.refs[f][j] \in Targets
<1>1. Reads[f] = {j \in DOMAIN spec.refs[f] : spec.refs[f][j] # Bare}
  BY DEF Reads
<1>2. spec.refs[f] \in Seq(Targets \cup {Bare})
  BY DEF SpecOK
<1>3. Reads[f] \subseteq 1 .. Len(spec.refs[f]) /\ Len(spec.refs[f]) \in Nat
  BY <1>1, <1>2
<1>4. \A j \in Reads[f] : spec.refs[f][j] \in Targets
  BY <1>1, <1>2
<1>5. IsFiniteSet(1 .. Len(spec.refs[f]))
  BY <1>3, FS_Interval
<1>6. QED
  BY <1>3, <1>4, <1>5, FS_Subset

\* The places of the references that are read are those of the identifiers that are
\* set, and the next one's comes after them.
LEMMA NextPlace ==
    ASSUME SpecOK, Progress, NEW f \in RefFields, NEW j \in todo[f],
           \A k \in todo[f] : j <= k
    PROVE  /\ Cardinality(Done(f)) \in Nat
           /\ Place(f, j) = Cardinality(Done(f)) + 1
           /\ Cardinality(Done(f) \cup {j}) = Cardinality(Done(f)) + 1
           /\ \A i \in Done(f) : Place(f, i) \in 1 .. Cardinality(Done(f))
<1>1. /\ Reads[f] \subseteq Nat /\ IsFiniteSet(Reads[f]) /\ j \in Reads[f]
      /\ \A i \in Done(f) : i < j
  BY ReadsNameTargets DEF Progress
<1>2. IsFiniteSet(Done(f)) /\ Cardinality(Done(f)) \in Nat
  BY <1>1, FS_Subset, FS_CardinalityType DEF Done
<1>3. {i \in Reads[f] : i <= j} = Done(f) \cup {j}
  <2>1. \A i \in Reads[f] : i <= j => i \in Done(f) \/ i = j
    BY <1>1 DEF Done
  <2>2. Done(f) \subseteq Reads[f]
    BY DEF Done
  <2>3. QED
    BY <1>1, <2>1, <2>2
<1>4. Cardinality(Done(f) \cup {j}) = Cardinality(Done(f)) + 1
  BY <1>2, FS_AddElement DEF Done
<1>5. ASSUME NEW i \in Done(f)
      PROVE  Place(f, i) \in 1 .. Cardinality(Done(f))
  <2> DEFINE P == {k \in Reads[f] : k <= i}
  <2>1. P \subseteq Done(f) /\ i \in P
    BY <1>1 DEF Progress, Done
  <2>2. IsFiniteSet(P) /\ Cardinality(P) <= Cardinality(Done(f)) /\ Cardinality(P) \in Nat
    BY <1>2, <2>1, FS_Subset, FS_CardinalityType
  <2>3. Cardinality(P) # 0
    BY <2>1, <2>2, FS_EmptySet
  <2>4. QED
    BY <1>2, <2>2, <2>3 DEF Place
<1>6. QED
  BY <1>2, <1>3, <1>4, <1>5 DEF Place

------------------------------------------------------------------------------
LEMMA InitRefs == Init => RInv
<1> SUFFICES ASSUME Init
             PROVE  RInv
  OBVIOUS
<1>1. SpecOK
  <2>1. /\ spec.refs \in [RefFields -> UNION {Refs[f] : f \in RefFields}]
        /\ spec.ids \in [RefFields -> UNION {Ids[f] : f \in RefFields}]
        /\ \A f \in RefFields : spec.refs[f] \in Refs[f] /\ spec.ids[f] \in Ids[f]
    BY DEF Init
  <2>2. \A f \in RefFields : spec.refs[f] \in Seq(Targets \cup {Bare})
    BY <2>1, ReferenceConstants
  <2>3. \A f \in RefFields : spec.ids[f] \in Seq({<<OwnId, 0>>})
    BY <2>1, ReferenceConstants
  <2>4. \A s \in Seq({<<OwnId, 0>>}) : s \in Seq(Id)
    BY DEF Id
  <2>5. \A f \in RefFields \ ListFields : Len(spec.refs[f]) <= 1
    BY <2>1, ReferenceConstants
  <2>6. QED
    BY <2>1, <2>2, <2>3, <2>4, <2>5 DEF SpecOK
<1>2. TargetOK
  BY DEF Init, TargetOK, TargetStates
<1>3. Progress
  BY DEF Init, Progress, NothingToRead
<1>4. Filled
  BY <1>1 DEF Init, Filled, SpecOK
<1>5. QED
  BY <1>1, <1>2, <1>3, <1>4 DEF RInv

\* Resolution begins with nothing in the place of what is read: a field that has
\* identifiers beside its references makes the spec invalid, and those of an earlier
\* resolution are cleared.
LEMMA ResolveBegins ==
    ASSUME SpecOK, spec' = spec, NEW ids \in [RefFields -> Seq(Id)], Resolve(ids),
           ~Invalid(ids) => /\ ~Invalid(spec.ids)
                            /\ \A f \in RefFields : spec.refs[f] = <<>> => ids[f] = spec.ids[f]
    PROVE  Progress' /\ Filled'
<1>1. /\ ko' = ids /\ todo' = Reads /\ pc' = "resolve" /\ (invalid' <=> Invalid(ids))
      /\ Reads' = Reads
  BY DEF Resolve, Reads
<1>2. \A f \in RefFields : todo'[f] \subseteq Nat /\ Done(f)' = {}
  BY <1>1, ReadsNameTargets DEF Done
<1>3. Progress'
  <2>1. DOMAIN Reads = RefFields /\ Reads = [f \in RefFields |-> Reads[f]]
    BY DEF Reads
  <2>2. todo' \in [RefFields -> SUBSET Nat]
    BY <1>1, <1>2, <2>1
  <2>3. QED
    BY <1>1, <1>2, <2>2 DEF Progress
<1>4. Filled'
  <2>1. ~Invalid(spec.ids)' <=> ~Invalid(spec.ids)
    BY DEF Invalid
  <2>2. ASSUME ~Invalid(ids), NEW f \in RefFields
        PROVE  FilledField(f)'
    <3>1. CASE spec.refs[f] = <<>>
      BY <1>1, <2>2, <3>1 DEF FilledField
    <3>2. CASE spec.refs[f] # <<>>
      <4>1. ids[f] = <<>>
        BY <2>2, <3>2 DEF Invalid
      <4>2. ko'[f] = <<>> /\ Len(ko'[f]) = Cardinality(Done(f)')
        BY <1>1, <1>2, <4>1, FS_EmptySet
      <4>3. QED
        BY <1>2, <3>2, <4>2 DEF FilledField
    <3>3. QED
      BY <3>1, <3>2
  <2>3. QED
    BY <1>1, <2>1, <2>2 DEF Filled
<1>5. QED
  BY <1>3, <1>4

\* At rest there is nothing to say.
LEMMA IdleKeeps ==
    ASSUME SpecOK, spec' = spec, Idle
    PROVE  Progress' /\ Filled'
BY DEF SpecOK, Idle, Progress, Filled, NothingToRead

\* A resolution that is left alone stays as it is, and one that is over is passed on
\* when the spec was valid.
LEMMA ResolutionStays ==
    ASSUME Progress, Filled, UNCHANGED <<spec, ko, todo, invalid, began>>,
           \/ pc' = pc
           \/ pc = "resolve" /\ pc' = "resolved" /\ todo = NothingToRead /\ ~invalid
    PROVE  Progress' /\ Filled'
<1>1. Reads' = Reads /\ (Invalid(spec.ids)' <=> Invalid(spec.ids)) /\ NothingToRead' = NothingToRead
  BY DEF Reads, Invalid, NothingToRead
<1>2. \A f : Done(f)' = Done(f)
  BY <1>1 DEF Done
<1>3. \A f, j : Place(f, j)' = Place(f, j)
  BY <1>1 DEF Place
<1>4. \A f : FilledField(f)' <=> FilledField(f)
  BY <1>2, <1>3 DEF FilledField
<1>5. Progress'
  BY <1>1, <1>2 DEF Progress
<1>6. Filled'
  BY <1>1, <1>4 DEF Filled
<1>7. QED
  BY <1>5, <1>6

LEMMA StartKeeps == ASSUME RInv, Start PROVE RInv'
<1>1. SpecOK' /\ TargetOK'
  BY DEF RInv, SpecOK, TargetOK, Start
<1>2. Progress' /\ Filled'
  BY ResolveBegins DEF RInv, SpecOK, Start
<1>3. QED
  BY <1>1, <1>2 DEF RInv

LEMMA SetManagedKeeps == ASSUME RInv, SetManaged PROVE RInv'
<1>1. SpecOK' /\ TargetOK' /\ spec' = spec /\ UNCHANGED began
  BY DEF RInv, SpecOK, TargetOK, SetManaged
<1>2. Progress' /\ Filled'
  <2>1. CASE Resolve(ClearResolvedReferences(ko))
    <3> DEFINE ids == ClearResolvedReferences(ko)
    <3>1. ids \in [RefFields -> Seq(Id)]
      BY DEF RInv, Filled, ClearResolvedReferences
    <3>2. /\ ~Invalid(spec.ids)
          /\ \A f \in RefFields : spec.refs[f] = <<>> => ids[f] = spec.ids[f]
      BY DEF RInv, Progress, Filled, FilledField, SetManaged, ClearResolvedReferences
    <3>3. QED
      BY <1>1, <2>1, <3>1, <3>2, ResolveBegins DEF RInv
  <2>2. CASE UNCHANGED <<pc, ko, todo, invalid>>
    BY <1>1, <2>2, ResolutionStays DEF RInv
  <2>3. QED
    BY <2>1, <2>2 DEF SetManaged
<1>3. QED
  BY <1>1, <1>2 DEF RInv

LEMMA ResolvedKeeps == ASSUME RInv, Resolved PROVE RInv'
<1>1. SpecOK' /\ TargetOK' /\ spec' = spec
  BY DEF RInv, SpecOK, TargetOK, Resolved
<1>2. Progress' /\ Filled'
  <2>1. CASE Idle
    BY <1>1, <2>1, IdleKeeps DEF RInv
  <2>2. CASE ~invalid /\ pc' = "resolved" /\ UNCHANGED <<ko, todo, invalid>>
    BY <1>1, <2>2, ResolutionStays DEF Resolved, RInv
  <2>3. QED
    BY <2>1, <2>2 DEF Resolved, Passes
<1>3. QED
  BY <1>1, <1>2 DEF RInv

LEMMA UseKeeps == ASSUME RInv, Use PROVE RInv'
<1>1. SpecOK' /\ TargetOK' /\ spec' = spec /\ Idle
  BY DEF RInv, SpecOK, TargetOK, Use
<1>2. QED
  BY <1>1, IdleKeeps DEF RInv

\* The resources change beside the sync, and their numbers do not go back.
LEMMA ChangeTargetKeeps ==
    ASSUME RInv, NEW t \in Targets, NEW s \in TargetStates, ChangeTarget(t, s)
    PROVE  RInv'
<1>1. UNCHANGED <<spec, pc, ko, todo, invalid, began>>
  BY DEF ChangeTarget
<1>2. TargetOK'
  BY <1>1 DEF RInv, TargetOK, ChangeTarget
<1>3. Progress' /\ Filled'
  BY <1>1, ResolutionStays DEF RInv
<1>4. QED
  BY <1>1, <1>2, <1>3 DEF RInv, SpecOK

\* A pointer is empty when it is set, so that its identifier is the first as well.
LEMMA SetIdAdds ==
    ASSUME RInv, NEW f \in RefFields, NEW j \in todo[f], \A k \in todo[f] : j <= k,
           NEW t \in Targets, pc = "resolve", ~invalid,
           ko' = SetId(ko, f, t)
    PROVE  /\ \A g \in RefFields \ {f} : ko'[g] = ko[g]
           /\ Len(ko'[f]) = Len(ko[f]) + 1
           /\ \A i \in 1 .. Len(ko[f]) : ko'[f][i] = ko[f][i]
           /\ ko'[f][Len(ko[f]) + 1] = <<t, target[t].num>>
<1> DEFINE id == <<t, target[t].num>>
<1>1. ko \in [RefFields -> Seq(Id)] /\ ko[f] \in Seq(Id) /\ FilledField(f)
  BY DEF RInv, Filled
<1>2. \A g \in RefFields \ {f} : ko'[g] = ko[g]
  BY <1>1 DEF SetId
<1>3. CASE f \in ListFields
  <2>1. ko'[f] = Append(ko[f], id)
    BY <1>1, <1>3 DEF SetId
  <2>2. QED
    BY <1>1, <1>2, <2>1
<1>4. CASE f \notin ListFields
  <2>1. ko'[f] = <<id>>
    BY <1>1, <1>4 DEF SetId
  <2>2. /\ Reads[f] \subseteq 1 .. Len(spec.refs[f]) /\ Len(spec.refs[f]) \in Nat
        /\ Len(spec.refs[f]) <= 1 /\ j \in Reads[f]
        /\ \A i \in Done(f) : i < j
    BY <1>4, ReadsNameTargets DEF RInv, SpecOK, Progress
  <2>3. Done(f) = {} /\ spec.refs[f] # <<>>
    BY <2>2 DEF Done
  <2>4. Len(ko[f]) = 0
    BY <1>1, <2>3, FS_EmptySet DEF FilledField
  <2>5. QED
    BY <1>2, <2>1, <2>4
<1>5. QED
  BY <1>3, <1>4

\* One more reference is read: its identifier is put behind those of the references
\* before it, and is as new as the resource is.
LEMMA ReadFills ==
    ASSUME RInv, NEW f \in RefFields, NEW j \in todo[f], \A k \in todo[f] : j <= k,
           pc = "resolve", ~invalid, UNCHANGED <<spec, began>>,
           ko' = SetId(ko, f, spec.refs[f][j]),
           todo' = [todo EXCEPT ![f] = @ \ {j}]
    PROVE  \A g \in RefFields : FilledField(g)'
<1> DEFINE t == spec.refs[f][j]
           n == Cardinality(Done(f))
<1>1. /\ todo \in [RefFields -> SUBSET Nat] /\ j \in Reads[f] /\ t \in Targets
      /\ spec.refs[f] # <<>>
  BY ReadsNameTargets DEF RInv, Progress, SpecOK
<1>2. Reads' = Reads /\ \A g, i : Place(g, i)' = Place(g, i)
  BY DEF Reads, Place
<1>3. Done(f)' = Done(f) \cup {j} /\ \A g \in RefFields \ {f} : Done(g)' = Done(g)
  BY <1>1, <1>2 DEF Done
<1>4. /\ \A g \in RefFields \ {f} : ko'[g] = ko[g]
      /\ Len(ko'[f]) = Len(ko[f]) + 1
      /\ \A i \in 1 .. Len(ko[f]) : ko'[f][i] = ko[f][i]
      /\ ko'[f][Len(ko[f]) + 1] = <<t, target[t].num>>
  BY <1>1, SetIdAdds
<1>5. \A g \in RefFields : FilledField(g)
  BY DEF RInv, Filled
<1>6. ASSUME NEW g \in RefFields \ {f}
      PROVE  FilledField(g)'
  <2>1. /\ FilledField(g) /\ spec' = spec /\ began' = began
        /\ ko'[g] = ko[g] /\ Done(g)' = Done(g) /\ \A i : Place(g, i)' = Place(g, i)
    BY <1>2, <1>3, <1>4, <1>5
  <2>2. QED
    BY <2>1 DEF FilledField
<1>7. FilledField(f)'
  <2>1. /\ n \in Nat /\ Place(f, j) = n + 1 /\ Cardinality(Done(f) \cup {j}) = n + 1
        /\ \A i \in Done(f) : Place(f, i) \in 1 .. n
    BY NextPlace DEF RInv
  <2>2. Len(ko[f]) = n /\ Len(ko'[f]) = n + 1 /\ Len(ko'[f]) = Cardinality(Done(f)')
    BY <1>1, <1>3, <1>4, <1>5, <2>1 DEF FilledField
  <2>3. \A i \in Done(f)' : ko'[f][Place(f, i)'][1] = spec'.refs[f][i]
    <3>1. ASSUME NEW i \in Done(f)
          PROVE  ko'[f][Place(f, i)][1] = spec.refs[f][i]
      BY <1>1, <1>4, <1>5, <2>1, <2>2 DEF FilledField
    <3>2. ko'[f][Place(f, j)][1] = spec.refs[f][j]
      BY <1>4, <2>1, <2>2
    <3>3. QED
      BY <1>2, <1>3, <3>1, <3>2
  <2>4. ko[f] \in Seq(Id) /\ ko'[f] \in Seq(Id)
    <3>1. ko \in [RefFields -> Seq(Id)] /\ target[t].num \in Nat
      BY <1>1 DEF RInv, Filled, TargetOK
    <3>2. <<t, target[t].num>> \in Id
      BY <1>1, <3>1 DEF Id
    <3>3. QED
      BY <3>1, <3>2 DEF SetId
  <2>5. \A i \in DOMAIN ko'[f] :
            ko'[f][i] \in Targets \X Nat /\ ko'[f][i][2] >= began'[ko'[f][i][1]]
    <3>1. <<t, target[t].num>> \in Targets \X Nat /\ target[t].num >= began[t]
      BY <1>1 DEF RInv, TargetOK
    <3>2. ASSUME NEW i \in 1 .. n
          PROVE  ko'[f][i] \in Targets \X Nat /\ ko'[f][i][2] >= began[ko'[f][i][1]]
      <4>1. i \in DOMAIN ko[f] /\ ko'[f][i] = ko[f][i]
        BY <1>4, <2>2, <2>4
      <4>2. QED
        BY <1>1, <1>5, <4>1 DEF FilledField
    <3>3. DOMAIN ko'[f] = 1 .. (n + 1)
      BY <2>2, <2>4
    <3>4. ko'[f][n + 1] = <<t, target[t].num>>
      BY <1>4, <2>2
    <3>5. ASSUME NEW i \in DOMAIN ko'[f]
          PROVE  ko'[f][i] \in Targets \X Nat /\ ko'[f][i][2] >= began[ko'[f][i][1]]
      <4>1. i \in 1 .. n \/ i = n + 1
        BY <2>1, <3>3
      <4>2. CASE i = n + 1
        <5>1. ko'[f][i] = <<t, target[t].num>> /\ ko'[f][i][1] = t /\ ko'[f][i][2] = target[t].num
          BY <3>4, <4>2
        <5>2. QED
          BY <3>1, <5>1
      <4>3. QED
        BY <3>2, <4>1, <4>2
    <3>6. QED
      BY <3>5
  <2>6. QED
    BY <1>1, <2>2, <2>3, <2>5 DEF FilledField
<1>8. QED
  BY <1>6, <1>7

LEMMA ReadTargetKeeps == ASSUME RInv, ReadTarget PROVE RInv'
<1>1. SpecOK' /\ TargetOK' /\ UNCHANGED <<spec, began>> /\ pc = "resolve"
  BY DEF RInv, SpecOK, TargetOK, ReadTarget
<1>2. PICK f \in RefFields : \E j \in todo[f] :
          /\ \A k \in todo[f] : j <= k
          /\ \/ /\ ko' = SetId(ko, f, spec.refs[f][j])
                /\ todo' = [todo EXCEPT ![f] = @ \ {j}]
                /\ UNCHANGED <<pc, invalid>>
             \/ Idle
  BY DEF ReadTarget, IsNext
<1>3. PICK j \in todo[f] :
          /\ \A k \in todo[f] : j <= k
          /\ \/ /\ ko' = SetId(ko, f, spec.refs[f][j])
                /\ todo' = [todo EXCEPT ![f] = @ \ {j}]
                /\ UNCHANGED <<pc, invalid>>
             \/ Idle
  BY <1>2
<1>4. CASE Idle
  BY <1>1, <1>4, IdleKeeps DEF RInv
<1>5. CASE /\ ko' = SetId(ko, f, spec.refs[f][j])
           /\ todo' = [todo EXCEPT ![f] = @ \ {j}]
           /\ UNCHANGED <<pc, invalid>>
  <2>1. /\ todo \in [RefFields -> SUBSET Nat] /\ spec.refs[f][j] \in Targets
        /\ ko \in [RefFields -> Seq(Id)]
    BY ReadsNameTargets DEF RInv, Progress, Filled
  <2>2. Reads' = Reads /\ (Invalid(spec.ids)' <=> Invalid(spec.ids))
    BY <1>1 DEF Reads, Invalid
  <2>3. Progress'
    <3>1. /\ todo'[f] = todo[f] \ {j}
          /\ \A g \in RefFields \ {f} : todo'[g] = todo[g]
          /\ todo' \in [RefFields -> SUBSET Nat]
      BY <1>5, <2>1
    <3>2. \A i \in Done(f)', k \in todo'[f] : i < k
      BY <1>3, <2>1, <2>2, <3>1 DEF RInv, Progress, Done
    <3>3. \A g \in RefFields \ {f} : Done(g)' = Done(g)
      BY <2>2, <3>1 DEF Done
    <3>4. QED
      BY <1>1, <1>5, <2>2, <3>1, <3>2, <3>3 DEF RInv, Progress
  <2>4. ko' \in [RefFields -> Seq(Id)]
    <3>1. <<spec.refs[f][j], target[spec.refs[f][j]].num>> \in Id
      BY <2>1 DEF RInv, TargetOK, Id
    <3>2. \A q \in Id, s \in Seq(Id) : Append(s, q) \in Seq(Id) /\ <<q>> \in Seq(Id)
      OBVIOUS
    <3>3. QED
      BY <1>5, <2>1, <3>1, <3>2 DEF SetId
  <2>5. ~invalid => \A g \in RefFields : FilledField(g)'
    BY <1>1, <1>3, <1>5, ReadFills
  <2>6. QED
    BY <1>1, <1>5, <2>2, <2>3, <2>4, <2>5 DEF RInv, Filled
<1>6. QED
  BY <1>3, <1>4, <1>5

LEMMA RInvHolds == Spec => []RInv
<1>1. RInv /\ [Next]_vars => RInv'
  <2> SUFFICES ASSUME RInv, [Next]_vars
               PROVE  RInv'
    OBVIOUS
  <2>1. CASE Next
    BY <2>1, StartKeeps, ReadTargetKeeps, ResolvedKeeps, SetManagedKeeps, UseKeeps,
       ChangeTargetKeeps DEF Next, Sync
  <2>2. CASE UNCHANGED vars
    <3>1. UNCHANGED <<spec, target, pc, ko, todo, invalid, began>>
      BY <2>2 DEF vars
    <3>2. Progress' /\ Filled'
      BY <3>1, ResolutionStays DEF RInv
    <3>3. QED
      BY <3>1, <3>2 DEF RInv, SpecOK, TargetOK
  <2>3. QED
    BY <2>1, <2>2
<1>2. QED
  BY <1>1, InitRefs, PTL DEF Spec

------------------------------------------------------------------------------
\* What is used has been read to its end.
LEMMA AllDone ==
    ASSUME RInv, InUse, NEW f \in RefFields
    PROVE  Done(f) = Reads[f] /\ FilledField(f) /\ ~Invalid(spec.ids)
BY DEF RInv, InUse, Progress, Filled, NothingToRead, Done

\* A sync goes on with one identifier for each reference, in their order, and the
\* user's own ones for the other fields, also when it has resolved twice.
THEOREM OneIdPerReferenceTheorem == Spec => []OneIdPerReference
<1>1. RInv => OneIdPerReference
  BY AllDone DEF OneIdPerReference, FilledField
<1>2. QED
  BY <1>1, RInvHolds, PTL

\* It goes on with none that is older than itself, whichever resources are made again
\* while it reads them.
THEOREM IdsAreFreshTheorem == Spec => []IdsAreFresh
<1>1. RInv => IdsAreFresh
  BY AllDone DEF IdsAreFresh, FilledField
<1>2. QED
  BY <1>1, RInvHolds, PTL

\* It goes on with no spec that validateReferenceFields has refused, although the
\* error is returned only when everything has been read.
THEOREM InvalidNeverUsedTheorem == Spec => []InvalidNeverUsed
<1>1. RInv => InvalidNeverUsed
  BY DEF RInv, Progress, Filled, InvalidNeverUsed, InUse
<1>2. QED
  BY <1>1, RInvHolds, PTL
===============================================================================
