-------------------------- MODULE InstanceStore_proofs -------------------------
(***************************************************************************)
(* Theorems about InstanceStore, for any number of instances, attributes,  *)
(* GlobalIds and names.                                                    *)
(***************************************************************************)
EXTENDS InstanceStore, SequenceTheorems, FiniteSetTheorems, TLAPS

Entries == Ids \X Attrs \X Ids
CallType == [inst : Objects, id : Ids \cup {NoId}, todo : SUBSET Objects]

(* How many instances of a list have a name is a number.                   *)
LEMMA NamedIsNat ==
  ASSUME NEW list, list \subseteq Objects, NEW k
  PROVE  Named(list, k) \in Nat
BY ObjectsAssumption, FS_Subset, FS_CardinalityType DEF Named

LEMMA ReregisteredIsNat ==
  ASSUME TypeOK, NEW e \in Entries, NEW old, old \subseteq Objects,
         NEW list, list \subseteq Objects
  PROVE  Reregistered(e, old, list) \in Nat
<1>1. byref_excl_[e] \in Nat /\ Named(old, e[1]) \in Nat /\ Named(list, e[1]) \in Nat
  BY NamedIsNat DEF TypeOK, Entries
<1>2. QED
  BY <1>1 DEF Reregistered

LEMMA RefsAreObjects ==
  ASSUME TypeOK, NEW o \in Objects
  PROVE  Refs(o) \subseteq Objects /\ \A n \in Attrs : attr[o][n] \subseteq Objects
<1>1. \A n \in Attrs : attr[o][n] \subseteq Objects
  BY DEF TypeOK
<1>2. QED
  BY <1>1 DEF Refs

(* The innermost call of addEntity().                                      *)
LEMMA TopFacts ==
  ASSUME TypeOK, adding # <<>>
  PROVE  /\ Len(adding) \in Nat \ {0} /\ Len(adding) \in 1..Len(adding)
         /\ adding \in Seq(CallType)
         /\ \A n \in 1..Len(adding) : adding[n] \in CallType
         /\ Top \in CallType /\ Top.inst \in Objects /\ Top.todo \subseteq Objects
         /\ Top.id \in Ids \cup {NoId}
<1>1. adding \in Seq(CallType)
  BY DEF TypeOK, CallType
<1>2. Len(adding) \in Nat \ {0} /\ Len(adding) \in 1..Len(adding)
  BY <1>1, EmptySeq
<1>3. \A n \in 1..Len(adding) : adding[n] \in CallType
  BY <1>1, ElementOfSeq
<1>4. Top \in CallType
  BY <1>2, <1>3 DEF Top
<1>5. QED
  BY <1>1, <1>2, <1>3, <1>4 DEF CallType

(* When the innermost call has returned, the others are as before.          *)
LEMMA PopFacts ==
  ASSUME TypeOK, adding # <<>>, adding' = SubSeq(adding, 1, Len(adding) - 1)
  PROVE  /\ adding' \in Seq(CallType)
         /\ Len(adding') = Len(adding) - 1
         /\ \A n \in 1..Len(adding') : n \in 1..Len(adding) /\ adding'[n] = adding[n]
<1>1. Len(adding) \in Nat \ {0} /\ \A n \in 1..Len(adding)-1 : adding[n] \in CallType
  BY TopFacts
<1> DEFINE last == Len(adding) - 1
<1>2. 1 \in Int /\ last \in Nat /\ \A i \in 1..last : adding[i] \in CallType
  BY <1>1
<1> HIDE DEF last
<1>3. /\ SubSeq(adding, 1, last) \in Seq(CallType)
      /\ Len(SubSeq(adding, 1, last)) = IF 1 <= last THEN last - 1 + 1 ELSE 0
      /\ \A i \in 1..last - 1 + 1 : SubSeq(adding, 1, last)[i] = adding[1 + i - 1]
  BY <1>2, SubSeqProperties
<1>4. /\ SubSeq(adding, 1, last) \in Seq(CallType)
      /\ Len(SubSeq(adding, 1, last)) = last
      /\ \A i \in 1..last : SubSeq(adding, 1, last)[i] = adding[i]
  BY <1>2, <1>3
<1>5. QED
  BY <1>1, <1>4 DEF last

(* A call that looks at the instance x: the ones below are as before, and   *)
(* either x is marked or a call for x is on top.                           *)
LEMMA ReferenceFacts ==
  ASSUME TypeOK, NEW x \in Objects, AddReference(x)
  PROVE  /\ adding' \in Seq(CallType)
         /\ IF entity_file_map_[x] = Nobody
              THEN Len(adding') = Len(adding) + 1 /\ adding'[Len(adding)+1] = Call(x, NoId)
              ELSE Len(adding') = Len(adding)
         /\ \A n \in 1..Len(adding) :
              /\ adding'[n].inst = adding[n].inst
              /\ adding'[n].id = adding[n].id
              /\ adding'[n].todo = IF n = Len(adding) THEN adding[n].todo \ {x} ELSE adding[n].todo
<1> DEFINE marked == [Top EXCEPT !.todo = @ \ {x}]
           calls == [adding EXCEPT ![Len(adding)] = marked]
<1>1. adding # <<>>
  BY DEF AddReference
<1>2. /\ Len(adding) \in Nat \ {0} /\ Len(adding) \in 1..Len(adding)
      /\ adding \in Seq(CallType) /\ Top \in CallType
      /\ \A n \in 1..Len(adding) : adding[n] \in CallType
  BY <1>1, TopFacts
<1>3. /\ marked \in CallType
      /\ marked.inst = Top.inst /\ marked.id = Top.id /\ marked.todo = Top.todo \ {x}
  BY <1>2 DEF CallType
<1> HIDE DEF marked
<1>4. /\ calls \in Seq(CallType) /\ Len(calls) = Len(adding)
      /\ \A n \in 1..Len(adding) : calls[n] = IF n = Len(adding) THEN marked ELSE adding[n]
  BY <1>2, <1>3, ExceptSeq
<1>5. adding' = IF entity_file_map_[x] = Nobody THEN Append(calls, Call(x, NoId)) ELSE calls
  BY DEF AddReference, marked, Top
<1> HIDE DEF calls
<1>6. \A n \in 1..Len(adding) :
        /\ calls[n].inst = adding[n].inst
        /\ calls[n].id = adding[n].id
        /\ calls[n].todo = IF n = Len(adding) THEN adding[n].todo \ {x} ELSE adding[n].todo
  BY <1>3, <1>4 DEF Top
<1>7. Call(x, NoId) \in CallType
  BY RefsAreObjects DEF Call, CallType
<1>8. CASE entity_file_map_[x] = Nobody
  <2>1. /\ adding' \in Seq(CallType) /\ Len(adding') = Len(calls) + 1
        /\ \A n \in 1..Len(calls) : adding'[n] = calls[n]
        /\ adding'[Len(calls) + 1] = Call(x, NoId)
    BY <1>4, <1>5, <1>7, <1>8, AppendProperties
  <2>2. QED
    BY <1>4, <1>6, <1>8, <2>1
<1>9. CASE entity_file_map_[x] # Nobody
  BY <1>4, <1>5, <1>6, <1>9
<1>10. QED
  BY <1>8, <1>9
------------------------------------------------------------------------------
(* Every name that addEntity() gives is in use from then on, and MaxId is   *)
(* at least as large.                                                      *)
LEMMA ObtainFacts ==
  ASSUME TypeOK, NEW y \in Objects, NEW k \in Ids \cup {NoId}, ObtainId(y, k)
  PROVE  /\ id' \in [Objects -> Ids \cup {NoId}] /\ id'[y] \in Ids
         /\ \A o \in Objects \ {y} : id'[o] = id[o]
         /\ MaxId' \in 0..IdBound /\ MaxId <= MaxId' /\ id'[y] <= MaxId'
         /\ id'[y] = IF k = NoId THEN MaxId + 1 ELSE k
<1>1. id'[y] = (IF k = NoId THEN MaxId + 1 ELSE k) /\ \A o \in Objects \ {y} : id'[o] = id[o]
  BY DEF ObtainId, TypeOK
<1>2. MaxId \in 0..IdBound /\ (k = NoId => MaxId < IdBound)
  BY DEF ObtainId, TypeOK
<1>3. id'[y] \in Ids
  BY <1>1, <1>2, IdAssumption DEF Ids, NoId
<1>4. id' \in [Objects -> Ids \cup {NoId}]
  BY <1>1, <1>3 DEF ObtainId, TypeOK
<1>5. MaxId' \in 0..IdBound /\ MaxId <= MaxId' /\ id'[y] <= MaxId'
  BY <1>1, <1>2, IdAssumption DEF ObtainId, Ids, NoId
<1>6. QED
  BY <1>1, <1>3, <1>4, <1>5

LEMMA EnterType ==
  ASSUME TypeOK, NEW y \in Objects, id'[y] \in Ids, guid'[y] \in Guids \cup {NoGuid},
         \A n \in Attrs : attr'[y][n] \subseteq Objects, Enter(y)
  PROVE  /\ byid_' \in [Ids -> Objects \cup {Nobody}]
         /\ byref_excl_' \in [Ids \X Attrs \X Ids -> Nat]
         /\ bytype_excl_' \subseteq Objects
         /\ byguid_' \in [Guids -> Objects \cup {Nobody}]
<1>1. byid_' \in [Ids -> Objects \cup {Nobody}]
  BY DEF Enter, TypeOK
<1>2. bytype_excl_' \subseteq Objects
  BY DEF Enter, TypeOK
<1>3. byguid_' \in [Guids -> Objects \cup {Nobody}]
  BY DEF Enter, TypeOK
<1>4. \A e \in Ids \X Attrs \X Ids :
        byref_excl_[e] \in Nat /\ Named(attr'[y][e[2]], e[1]) \in Nat
  BY NamedIsNat DEF TypeOK
<1>5. byref_excl_' \in [Ids \X Attrs \X Ids -> Nat]
  BY <1>4 DEF Enter
<1>6. QED
  BY <1>1, <1>2, <1>3, <1>5

LEMMA ReturnType ==
  ASSUME TypeOK, adding # <<>>, NEW y \in Objects,
         NEW map \in [Objects -> Objects \cup {Nobody}], Return(y, map)
  PROVE  /\ adding' \in Seq(CallType)
         /\ entity_file_map_' \in [Objects -> Objects \cup {Nobody}]
<1>1. adding' \in Seq(CallType)
  BY PopFacts DEF Return
<1>2. entity_file_map_' \in [Objects -> Objects \cup {Nobody}]
  BY TopFacts DEF Return
<1>3. QED
  BY <1>1, <1>2

(* When all references of the instance of the innermost call were added,    *)
(* each has its copy.                                                      *)
LEMMA CopiesExist ==
  ASSUME IInv, adding # <<>>, Top.todo = {}
  PROVE  \A n \in Attrs : \A x \in attr[Top.inst][n] :
           /\ x \in Objects
           /\ entity_file_map_[x] \in Objects
           /\ file[entity_file_map_[x]] = "this"
<1>1. /\ TypeOK /\ Len(adding) \in 1..Len(adding) /\ Len(adding) \in Nat
      /\ Top.inst \in Objects
  BY TopFacts DEF IInv
<1>2. \A x \in Refs(Top.inst) : entity_file_map_[x] # Nobody
  BY <1>1 DEF IInv, AddingInv, Top
<1>3. \A n \in Attrs : \A x \in attr[Top.inst][n] : x \in Objects /\ x \in Refs(Top.inst)
  BY <1>1, RefsAreObjects DEF Refs
<1>4. \A x \in Objects : entity_file_map_[x] # Nobody =>
        entity_file_map_[x] \in Objects /\ file[entity_file_map_[x]] = "this"
  BY DEF IInv, TypeOK, LiveInv
<1>5. QED
  BY <1>2, <1>3, <1>4

LEMMA TypeInvariant == IInv /\ [Next]_vars => TypeOK'
<1> SUFFICES ASSUME IInv, [Next]_vars PROVE TypeOK'
  OBVIOUS
<1>1. TypeOK
  BY DEF IInv
<1>2. /\ client' = client
      /\ client \in ClientType
  <2>1. client' = client
    BY DEF Next, Client, Adding, Deleting, UnsetAttribute, SetAttribute, SetGuid, AddEntity,
           RemoveEntity, Batch, Unbatch, RecalculateIdCounter, AddReference, AddOwn, AddNew,
           AddCopy, DeleteOne, DeleteThrows, DeleteDone, vars
  <2>2. QED
    BY <1>1, <2>1, ClientsAssumption DEF TypeOK
<1>3. ASSUME NEW o \in Objects, NEW n \in Attrs, UnsetAttribute(o, n)
      PROVE  TypeOK'
  BY <1>1, <1>3 DEF UnsetAttribute, TypeOK, mapVars, deletionVars
<1>4. ASSUME NEW o \in Objects, NEW n \in Attrs, NEW list \in SUBSET Referable(o),
             SetAttribute(o, n, list)
      PROVE  TypeOK'
  <2>1. list \subseteq Objects
    BY DEF Referable
  <2>2. attr' \in [Objects -> [Attrs -> SUBSET Objects]]
    BY <1>1, <1>4, <2>1 DEF SetAttribute, TypeOK
  <2>3. \A e \in Ids \X Attrs \X Ids :
          byref_excl_[e] \in Nat /\ Reregistered(e, attr[o][n], list) \in Nat
    BY <1>1, <2>1, RefsAreObjects, ReregisteredIsNat DEF TypeOK, Entries
  <2>4. byref_excl_' \in [Ids \X Attrs \X Ids -> Nat]
    BY <1>4, <2>3 DEF SetAttribute
  <2>5. QED
    BY <1>1, <1>4, <2>2, <2>4 DEF SetAttribute, TypeOK, deletionVars
<1>5. ASSUME NEW o \in Objects, NEW g \in Guids, SetGuid(o, g)
      PROVE  TypeOK'
  <2>1. guid' \in [Objects -> Guids \cup {NoGuid}]
    BY <1>1, <1>5 DEF SetGuid, TypeOK
  <2>2. file[o] = "this" => id[o] \in Ids
    BY DEF IInv, NamesInv, InFile
  <2>3. byguid_' \in [Guids -> Objects \cup {Nobody}]
    BY <1>1, <1>5, <2>2 DEF SetGuid, Reguided, TypeOK
  <2>4. QED
    BY <1>1, <1>5, <2>1, <2>3 DEF SetGuid, TypeOK, deletionVars
<1>6. ASSUME NEW o \in Objects, NEW k \in client.explicit \cup {NoId}, AddEntity(o, k)
      PROVE  TypeOK'
  <2>1. Call(o, k) \in CallType
    BY <1>1, <1>2, RefsAreObjects DEF Call, CallType, ClientType
  <2>2. adding' \in Seq(CallType)
    <3>1. \A c \in CallType : <<c>> \in Seq(CallType)
      OBVIOUS
    <3>2. QED
      BY <1>6, <2>1, <3>1 DEF AddEntity
  <2>3. QED
    BY <1>1, <1>6, <2>2 DEF AddEntity, TypeOK, CallType, instanceVars, mapVars, deletionVars
<1>7. ASSUME NEW o \in Objects, RemoveEntity(o)
      PROVE  TypeOK'
  <2>1. id[o] \in Ids
    BY <1>7 DEF RemoveEntity, IInv, NamesInv, InFile
  <2>2. batch_deletion_ids_' \in Seq(Ids) /\ Len(batch_deletion_ids_') \in Nat
    BY <1>1, <1>7, <2>1, AppendProperties, LenProperties DEF RemoveEntity, TypeOK
  <2>3. deleting' \in 0..Len(batch_deletion_ids_')+1
    <3>1. deleting' = 0 \/ deleting' = 1
      BY <1>7 DEF RemoveEntity
    <3>2. QED
      BY <2>2, <3>1
  <2>4. QED
    BY <1>1, <1>7, <2>2, <2>3 DEF RemoveEntity, TypeOK, instanceVars, mapVars
<1>8. CASE Batch \/ Unbatch
  <2>1. Len(batch_deletion_ids_) \in Nat
    BY <1>1, LenProperties DEF TypeOK
  <2>2. CASE Batch
    BY <1>1, <2>2 DEF Batch, TypeOK, instanceVars, mapVars
  <2>3. CASE Unbatch
    BY <1>1, <2>1, <2>3 DEF Unbatch, TypeOK, instanceVars, mapVars
  <2>4. QED
    BY <1>8, <2>2, <2>3
<1>9. CASE RecalculateIdCounter
  BY <1>1, <1>9 DEF RecalculateIdCounter, TypeOK, instanceVars, deletionVars
<1>10. ASSUME NEW x \in Objects, AddReference(x)
       PROVE  TypeOK'
  <2>1. adding' \in Seq(CallType)
    BY <1>1, <1>10, ReferenceFacts
  <2>2. QED
    BY <1>1, <1>10, <2>1
       DEF AddReference, TypeOK, CallType, instanceVars, mapVars, deletionVars
<1>11. CASE AddOwn
  <2>1. Top.inst \in Objects /\ adding # <<>>
    BY <1>1, <1>11, TopFacts DEF AddOwn
  <2>2. /\ adding' \in Seq(CallType)
        /\ entity_file_map_' \in [Objects -> Objects \cup {Nobody}]
    BY <1>1, <1>11, <2>1, ReturnType DEF AddOwn, TypeOK
  <2>3. QED
    BY <1>1, <1>11, <2>2 DEF AddOwn, TypeOK, CallType, instanceVars, deletionVars
<1>12. CASE AddNew
  <2>1. Top.inst \in Objects /\ adding # <<>> /\ Top.id \in Ids \cup {NoId}
    BY <1>1, <1>12, TopFacts DEF AddNew
  <2>2. /\ adding' \in Seq(CallType)
        /\ entity_file_map_' \in [Objects -> Objects \cup {Nobody}]
    BY <1>1, <1>12, <2>1, ReturnType DEF AddNew, TypeOK
  <2>3. id' \in [Objects -> Ids \cup {NoId}] /\ id'[Top.inst] \in Ids /\ MaxId' \in 0..IdBound
    BY <1>1, <1>12, <2>1, ObtainFacts DEF AddNew
  <2>4. /\ \A n \in Attrs : attr'[Top.inst][n] \subseteq Objects
        /\ guid'[Top.inst] \in Guids \cup {NoGuid}
    BY <1>1, <1>12, <2>1 DEF AddNew, TypeOK
  <2>5. /\ byid_' \in [Ids -> Objects \cup {Nobody}]
        /\ byref_excl_' \in [Ids \X Attrs \X Ids -> Nat]
        /\ bytype_excl_' \subseteq Objects
        /\ byguid_' \in [Guids -> Objects \cup {Nobody}]
    BY <1>1, <1>12, <2>1, <2>3, <2>4, EnterType DEF AddNew
  <2>6. file' \in Types
    BY <1>1, <1>12, <2>1 DEF AddNew, TypeOK, Types
  <2>7. QED
    BY <1>1, <1>12, <2>2, <2>3, <2>5, <2>6 DEF AddNew, TypeOK, CallType, deletionVars
<1>13. ASSUME NEW y \in Objects, AddCopy(y)
       PROVE  TypeOK'
  <2>1. Top.inst \in Objects /\ adding # <<>> /\ Top.id \in Ids \cup {NoId} /\ Top.todo = {}
    BY <1>1, <1>13, TopFacts DEF AddCopy
  <2>2. [entity_file_map_ EXCEPT ![Top.inst] = y] \in [Objects -> Objects \cup {Nobody}]
    BY <1>1, <2>1 DEF TypeOK
  <2>3. /\ adding' \in Seq(CallType)
        /\ entity_file_map_' \in [Objects -> Objects \cup {Nobody}]
    BY <1>1, <1>13, <2>1, <2>2, ReturnType DEF AddCopy
  <2>4. id' \in [Objects -> Ids \cup {NoId}] /\ id'[y] \in Ids /\ MaxId' \in 0..IdBound
    BY <1>1, <1>13, <2>1, ObtainFacts DEF AddCopy
  <2>5. \A n \in Attrs : {entity_file_map_[x] : x \in attr[Top.inst][n]} \subseteq Objects
    BY <2>1, CopiesExist
  <2>6. attr' \in [Objects -> [Attrs -> SUBSET Objects]]
    BY <1>1, <1>13, <2>5 DEF AddCopy, TypeOK
  <2>7. guid' \in [Objects -> Guids \cup {NoGuid}]
    BY <1>1, <1>13, <2>1 DEF AddCopy, TypeOK
  <2>8. /\ byid_' \in [Ids -> Objects \cup {Nobody}]
        /\ byref_excl_' \in [Ids \X Attrs \X Ids -> Nat]
        /\ bytype_excl_' \subseteq Objects
        /\ byguid_' \in [Guids -> Objects \cup {Nobody}]
    <3>1. \A n \in Attrs : attr'[y][n] \subseteq Objects
      BY <2>6
    <3>2. guid'[y] \in Guids \cup {NoGuid}
      BY <2>7
    <3>3. Enter(y)
      BY <1>13 DEF AddCopy
    <3>4. QED
      BY <1>1, <2>4, <3>1, <3>2, <3>3, EnterType
  <2>9. file' \in Types
    BY <1>1, <1>13 DEF AddCopy, TypeOK, Types
  <2>10. QED
    BY <1>1, <1>13, <2>3, <2>4, <2>6, <2>7, <2>8, <2>9 DEF AddCopy, TypeOK, CallType, deletionVars
<1>14. CASE DeleteOne
  <2> DEFINE k == batch_deletion_ids_[deleting]
             e == byid_[k]
             related == {byid_[r] : r \in Referring(k) \ Pending}
  <2>1. /\ deleting \in 1..Len(batch_deletion_ids_) /\ Len(batch_deletion_ids_) \in Nat
        /\ k \in Ids /\ e \in Objects
    BY <1>1, <1>14, ElementOfSeq, LenProperties DEF DeleteOne, Deletable, TypeOK
  <2>2. /\ DropReferencesTo(e, related)
        /\ byguid_' = Unguided(e) /\ byid_' = [byid_ EXCEPT ![k] = Nobody] /\ Free(e)
        /\ deleting' = deleting + 1
        /\ UNCHANGED <<client, MaxId, batch_mode_, batch_deletion_ids_, adding>>
    BY <1>14 DEF DeleteOne
  <2> HIDE DEF k, e, related
  <2>3. attr' \in [Objects -> [Attrs -> SUBSET Objects]]
    BY <1>1, <2>2 DEF DropReferencesTo, TypeOK
  <2>4. byref_excl_' \in [Ids \X Attrs \X Ids -> Nat]
    <3> DEFINE rewired ==
                 [t \in Ids \X Attrs \X Ids |->
                    LET o == byid_[t[3]]
                    IN IF o \in related /\ e \in attr[o][t[2]]
                       THEN Reregistered(t, attr[o][t[2]] \ {e}, attr[o][t[2]] \ {e})
                       ELSE byref_excl_[t]]
    <3>1. rewired \in [Ids \X Attrs \X Ids -> Nat]
      <4>1. ASSUME NEW t \in Ids \X Attrs \X Ids
            PROVE  rewired[t] \in Nat
        <5>1. byref_excl_[t] \in Nat
          BY <1>1 DEF TypeOK
        <5>2. byid_[t[3]] # Nobody =>
                Reregistered(t, attr[byid_[t[3]]][t[2]] \ {e}, attr[byid_[t[3]]][t[2]] \ {e}) \in Nat
          <6>1. byid_[t[3]] # Nobody => attr[byid_[t[3]]][t[2]] \ {e} \subseteq Objects
            BY <1>1 DEF TypeOK
          <6>2. QED
            BY <1>1, <6>1, ReregisteredIsNat DEF Entries
        <5>3. Nobody \notin related
          BY <1>14 DEF DeleteOne, Deletable, related, k
        <5>4. QED
          BY <5>1, <5>2, <5>3
      <4>2. QED
        BY <4>1
    <3>2. byref_excl_' = IF batch_mode_ THEN rewired ELSE Forget(e, id[e], rewired)
      BY <2>2 DEF DropReferencesTo
    <3> HIDE DEF rewired
    <3>3. Forget(e, id[e], rewired) \in [Ids \X Attrs \X Ids -> Nat]
      BY <3>1 DEF Forget
    <3>4. QED
      BY <3>1, <3>2, <3>3
  <2>5. byguid_' \in [Guids -> Objects \cup {Nobody}] /\ byid_' \in [Ids -> Objects \cup {Nobody}]
    BY <1>1, <2>1, <2>2 DEF Unguided, TypeOK
  <2>6. /\ file' \in Types /\ id' \in [Objects -> Ids \cup {NoId}]
        /\ guid' \in [Objects -> Guids \cup {NoGuid}]
        /\ bytype_excl_' \subseteq Objects
        /\ entity_file_map_' \in [Objects -> Objects \cup {Nobody}]
    BY <1>1, <2>1, <2>2 DEF Free, TypeOK, Types
  <2>7. deleting' \in 0..Len(batch_deletion_ids_)+1
    BY <2>1, <2>2
  <2>8. QED
    BY <1>1, <2>2, <2>3, <2>4, <2>5, <2>6, <2>7 DEF TypeOK
<1>15. CASE DeleteThrows
  <2>1. Len(batch_deletion_ids_) \in Nat
    BY <1>1, LenProperties DEF TypeOK
  <2>2. QED
    BY <1>1, <1>15, <2>1 DEF DeleteThrows, TypeOK, instanceVars, mapVars
<1>16. CASE DeleteDone
  <2>1. byref_excl_' \in [Ids \X Attrs \X Ids -> Nat]
    BY <1>1, <1>16 DEF DeleteDone, TypeOK
  <2>2. batch_deletion_ids_' \in Seq(Ids) /\ deleting' \in 0..Len(batch_deletion_ids_')+1
    BY <1>16, EmptySeq DEF DeleteDone
  <2>3. QED
    BY <1>1, <1>16, <2>1, <2>2 DEF DeleteDone, TypeOK, instanceVars
<1>17. CASE UNCHANGED vars
  BY <1>1, <1>17 DEF TypeOK, vars, instanceVars, mapVars, deletionVars
<1>18. QED
  BY <1>3, <1>4, <1>5, <1>6, <1>7, <1>8, <1>9, <1>10, <1>11, <1>12, <1>13, <1>14, <1>15,
     <1>16, <1>17 DEF Next, Client, Adding, Deleting
------------------------------------------------------------------------------
(* What remains of the calls when the innermost one returned y.            *)
LEMMA ReturnKeepsCalls ==
  ASSUME IInv, adding # <<>>, NEW y \in Objects,
         NEW map \in [Objects -> Objects \cup {Nobody}],
         \A o \in Objects : entity_file_map_[o] # Nobody => map[o] # Nobody,
         Return(y, map),
         \A o \in Objects : file'[o] = "unborn" => file[o] = "unborn",
         \A o \in Objects : file[o] # "unborn" => attr'[o] = attr[o],
         deleting' = deleting
  PROVE  AddingInv'
<1>1. /\ TypeOK /\ AddingInv /\ Len(adding) \in Nat \ {0}
      /\ \A n \in 1..Len(adding) : adding[n] \in CallType /\ adding[n].inst \in Objects
      /\ Top.inst \in Objects /\ Top = adding[Len(adding)]
  BY TopFacts DEF IInv, CallType, Top
<1>2. /\ adding' \in Seq(CallType) /\ Len(adding') = Len(adding) - 1
      /\ \A n \in 1..Len(adding') : n \in 1..Len(adding) /\ adding'[n] = adding[n]
  BY <1>1, PopFacts DEF Return
<1>3. adding' # <<>> => Len(adding) > 1
  BY <1>1, <1>2, EmptySeq
<1>4. \A x \in Objects : entity_file_map_[x] # Nobody => entity_file_map_'[x] # Nobody
  BY <1>1, NobodyAssumption DEF Return
<1>5. Len(adding) > 1 => entity_file_map_'[Top.inst] # Nobody
  BY <1>1, NobodyAssumption DEF Return
<1>6. ASSUME NEW n \in 1..Len(adding')
      PROVE  /\ file'[adding'[n].inst] # "unborn"
             /\ adding'[n].todo \subseteq Refs(adding[n].inst)'
             /\ n > 1 => adding'[n].id = NoId
             /\ \A x \in Refs(adding[n].inst)' \ adding'[n].todo :
                  entity_file_map_'[x] # Nobody \/ (n < Len(adding') /\ adding'[n+1].inst = x)
  <2>1. /\ n \in 1..Len(adding) /\ adding'[n] = adding[n] /\ n < Len(adding)
        /\ adding[n].inst \in Objects /\ file[adding[n].inst] # "unborn"
        /\ adding[n].todo \subseteq Refs(adding[n].inst)
        /\ n > 1 => adding[n].id = NoId
    BY <1>1, <1>2 DEF AddingInv
  <2>2. Refs(adding[n].inst)' = Refs(adding[n].inst)
    BY <2>1 DEF Refs
  <2>3. ASSUME NEW x \in Refs(adding[n].inst) \ adding[n].todo
        PROVE  entity_file_map_'[x] # Nobody \/ (n < Len(adding') /\ adding'[n+1].inst = x)
    <3>1. x \in Objects
      BY <1>1, <2>1, RefsAreObjects
    <3>2. CASE entity_file_map_[x] # Nobody
      BY <1>4, <3>1, <3>2
    <3>3. CASE entity_file_map_[x] = Nobody
      <4>1. adding[n+1].inst = x
        BY <1>1, <2>1, <3>3 DEF AddingInv
      <4>2. CASE n + 1 = Len(adding)
        BY <1>1, <1>5, <2>1, <4>1, <4>2
      <4>3. CASE n + 1 # Len(adding)
        <5>1. n < Len(adding') /\ n + 1 \in 1..Len(adding')
          BY <1>1, <1>2, <2>1, <4>3
        <5>2. QED
          BY <1>2, <4>1, <5>1
      <4>4. QED
        BY <4>2, <4>3
    <3>4. QED
      BY <3>2, <3>3
  <2>4. QED
    BY <2>1, <2>2, <2>3
<1>7. adding' # <<>> => deleting' = 0
  BY <1>1 DEF AddingInv
<1>8. QED
  BY <1>6, <1>7 DEF AddingInv

LEMMA AddingInvariant == IInv /\ [Next]_vars => AddingInv'
<1> SUFFICES ASSUME IInv, [Next]_vars PROVE AddingInv'
  OBVIOUS
<1>1. TypeOK /\ AddingInv /\ LiveInv
  BY DEF IInv
<1>2. CASE adding' = <<>>
  BY <1>2, EmptySeq DEF AddingInv
<1>3. ASSUME NEW o \in Objects, NEW k \in client.explicit \cup {NoId}, AddEntity(o, k)
      PROVE  AddingInv'
  <2>1. /\ adding' = <<Call(o, k)>> /\ deleting' = 0 /\ file'[o] # "unborn"
        /\ attr' = attr
    BY <1>3 DEF AddEntity, AtRest, deletionVars, instanceVars
  <2>2. Len(adding') = 1 /\ adding'[1] = Call(o, k)
    BY <2>1
  <2>3. Call(o, k).inst = o /\ Call(o, k).todo = Refs(o) /\ Refs(o)' = Refs(o)
    BY <2>1 DEF Call, Refs
  <2>4. QED
    BY <2>1, <2>2, <2>3 DEF AddingInv
<1>4. ASSUME NEW x \in Objects, AddReference(x)
      PROVE  AddingInv'
  <2>1. /\ adding # <<>> /\ x \in Top.todo
        /\ UNCHANGED <<file, attr, entity_file_map_, deleting>>
    BY <1>4 DEF AddReference, instanceVars, mapVars, deletionVars
  <2>2. /\ Len(adding) \in Nat \ {0} /\ Len(adding) \in 1..Len(adding)
        /\ Top = adding[Len(adding)] /\ Top.inst \in Objects
        /\ \A n \in 1..Len(adding) : adding[n].inst \in Objects
    BY <1>1, <2>1, TopFacts DEF Top, CallType
  <2>3. /\ IF entity_file_map_[x] = Nobody
             THEN Len(adding') = Len(adding) + 1 /\ adding'[Len(adding)+1] = Call(x, NoId)
             ELSE Len(adding') = Len(adding)
        /\ \A n \in 1..Len(adding) :
             /\ adding'[n].inst = adding[n].inst
             /\ adding'[n].id = adding[n].id
             /\ adding'[n].todo = IF n = Len(adding) THEN adding[n].todo \ {x} ELSE adding[n].todo
    BY <1>1, <1>4, ReferenceFacts
  <2>4. ASSUME NEW n \in 1..Len(adding)
        PROVE  /\ file'[adding'[n].inst] # "unborn"
               /\ adding'[n].todo \subseteq Refs(adding[n].inst)'
               /\ n > 1 => adding'[n].id = NoId
               /\ \A q \in Refs(adding[n].inst)' \ adding'[n].todo :
                    entity_file_map_'[q] # Nobody \/ (n < Len(adding') /\ adding'[n+1].inst = q)
    <3>1. /\ file[adding[n].inst] # "unborn" /\ adding[n].todo \subseteq Refs(adding[n].inst)
          /\ n > 1 => adding[n].id = NoId
          /\ \A q \in Refs(adding[n].inst) \ adding[n].todo :
               entity_file_map_[q] # Nobody \/ (n < Len(adding) /\ adding[n+1].inst = q)
      BY <1>1 DEF AddingInv
    <3>2. Refs(adding[n].inst)' = Refs(adding[n].inst)
      <4>1. adding'[n].inst = adding[n].inst /\ attr' = attr
        BY <2>1, <2>3
      <4>2. QED
        BY <4>1 DEF Refs
    <3>3. /\ adding'[n].inst = adding[n].inst /\ adding'[n].id = adding[n].id
          /\ adding'[n].todo = IF n = Len(adding) THEN adding[n].todo \ {x} ELSE adding[n].todo
      BY <2>3
    <3>4. /\ file'[adding'[n].inst] # "unborn"
          /\ adding'[n].todo \subseteq Refs(adding[n].inst)'
          /\ n > 1 => adding'[n].id = NoId
      BY <2>1, <3>1, <3>2, <3>3
    <3>5. ASSUME NEW q \in Refs(adding[n].inst), q \notin adding'[n].todo
          PROVE  entity_file_map_'[q] # Nobody \/ (n < Len(adding') /\ adding'[n+1].inst = q)
      <4>1. CASE q \notin adding[n].todo /\ entity_file_map_[q] # Nobody
        BY <2>1, <4>1
      <4>2. CASE q \notin adding[n].todo /\ entity_file_map_[q] = Nobody
        <5>1. n < Len(adding) /\ adding[n+1].inst = q
          BY <3>1, <4>2
        <5>2. n + 1 \in 1..Len(adding) /\ Len(adding) <= Len(adding')
          BY <2>2, <2>3, <5>1
        <5>3. adding'[n+1].inst = q
          BY <2>3, <5>1, <5>2
        <5>4. n < Len(adding')
          BY <2>2, <2>3, <5>1
        <5>5. QED
          BY <5>3, <5>4
      <4>3. CASE q \in adding[n].todo /\ entity_file_map_[q] # Nobody
        BY <2>1, <4>3
      <4>4. CASE q \in adding[n].todo /\ entity_file_map_[q] = Nobody
        <5>1. n = Len(adding) /\ q = x
          BY <3>3, <3>5, <4>4
        <5>2. Len(adding') = n + 1 /\ adding'[n+1] = Call(x, NoId)
          BY <2>3, <4>4, <5>1
        <5>3. QED
          BY <2>2, <5>1, <5>2 DEF Call
      <4>5. QED
        BY <4>1, <4>2, <4>3, <4>4
    <3>6. QED
      BY <3>2, <3>4, <3>5
  <2>5. CASE entity_file_map_[x] = Nobody
    <3>1. Call(x, NoId).inst = x /\ Call(x, NoId).id = NoId /\ Call(x, NoId).todo = Refs(x)
      BY DEF Call
    <3>2. file[x] # "unborn"
      <4>1. x \in Refs(Top.inst)
        BY <1>1, <2>1, <2>2 DEF AddingInv
      <4>2. QED
        BY <1>1, <2>2, <4>1 DEF LiveInv, Refs
    <3>3. ASSUME NEW n \in 1..Len(adding'), n \notin 1..Len(adding)
          PROVE  /\ file'[adding'[n].inst] # "unborn"
                 /\ adding'[n].todo = Refs(adding[n].inst)'
                 /\ adding'[n].id = NoId
      <4>1. adding'[n] = Call(x, NoId)
        BY <2>2, <2>3, <2>5, <3>3
      <4>2. Refs(adding[n].inst)' = Refs(x)
        BY <2>1, <3>1, <4>1 DEF Refs
      <4>3. QED
        BY <2>1, <3>1, <3>2, <4>1, <4>2
    <3>4. deleting' = 0
      BY <1>1, <2>1 DEF AddingInv
    <3>5. QED
      BY <2>4, <3>3, <3>4 DEF AddingInv
  <2>6. CASE entity_file_map_[x] # Nobody
    <3>1. deleting' = 0
      BY <1>1, <2>1 DEF AddingInv
    <3>2. QED
      BY <2>3, <2>4, <2>6, <3>1 DEF AddingInv
  <2>7. QED
    BY <2>5, <2>6
<1>5. CASE AddOwn
  <2>1. adding # <<>> /\ Top.inst \in Objects
    BY <1>1, <1>5, TopFacts DEF AddOwn
  <2>2. Return(Top.inst, entity_file_map_) /\ UNCHANGED <<file, attr, deleting>>
    BY <1>5 DEF AddOwn, instanceVars, deletionVars
  <2>3. QED
    BY <1>1, <2>1, <2>2, ReturnKeepsCalls DEF TypeOK
<1>6. CASE AddNew
  <2>1. adding # <<>> /\ Top.inst \in Objects
    BY <1>1, <1>6, TopFacts DEF AddNew
  <2>2. /\ Return(Top.inst, entity_file_map_) /\ UNCHANGED <<attr, deleting>>
        /\ file' = [file EXCEPT ![Top.inst] = "this"]
    BY <1>6 DEF AddNew, deletionVars
  <2>3. \A o \in Objects : file'[o] = "unborn" => file[o] = "unborn"
    BY <1>1, <2>1, <2>2 DEF TypeOK, Types
  <2>4. QED
    BY <1>1, <2>1, <2>2, <2>3, ReturnKeepsCalls DEF TypeOK
<1>7. ASSUME NEW y \in Objects, AddCopy(y)
      PROVE  AddingInv'
  <2>1. adding # <<>> /\ Top.inst \in Objects /\ file[y] = "unborn"
    BY <1>1, <1>7, TopFacts DEF AddCopy
  <2> DEFINE map == [entity_file_map_ EXCEPT ![Top.inst] = y]
  <2>2. /\ Return(y, map) /\ deleting' = deleting
        /\ file' = [file EXCEPT ![y] = "this"]
        /\ \A o \in Objects \ {y} : attr'[o] = attr[o]
    BY <1>1, <1>7 DEF AddCopy, deletionVars, TypeOK
  <2>3. /\ map \in [Objects -> Objects \cup {Nobody}]
        /\ \A o \in Objects : entity_file_map_[o] # Nobody => map[o] # Nobody
    BY <1>1, <2>1, NobodyAssumption DEF TypeOK
  <2>4. \A o \in Objects : file'[o] = "unborn" => file[o] = "unborn"
    BY <1>1, <2>1, <2>2 DEF TypeOK, Types
  <2>5. \A o \in Objects : file[o] # "unborn" => attr'[o] = attr[o]
    BY <2>1, <2>2
  <2> HIDE DEF map
  <2>6. QED
    BY <2>1, <2>2, <2>3, <2>4, <2>5, ReturnKeepsCalls
<1>8. CASE Deleting
  <2>1. deleting # 0 /\ adding' = adding
    <3>1. Len(batch_deletion_ids_) \in Nat
      BY <1>1, LenProperties DEF TypeOK
    <3>2. QED
      BY <1>8, <3>1 DEF Deleting, DeleteOne, DeleteThrows, DeleteDone
  <2>2. adding' = <<>>
    BY <1>1, <2>1 DEF AddingInv
  <2>3. QED
    BY <1>2, <2>2
<1>9. ASSUME NEW o \in Objects,
             \/ \E n \in Attrs :
                  UnsetAttribute(o, n) \/ \E list \in SUBSET Referable(o) : SetAttribute(o, n, list)
             \/ \E g \in Guids : SetGuid(o, g)
             \/ RemoveEntity(o)
      PROVE  AddingInv'
  BY <1>2, <1>9 DEF UnsetAttribute, SetAttribute, SetGuid, RemoveEntity, AtRest
<1>10. CASE Batch \/ Unbatch \/ RecalculateIdCounter
  BY <1>2, <1>10 DEF Batch, Unbatch, RecalculateIdCounter, AtRest
<1>11. CASE UNCHANGED vars
  BY <1>1, <1>11 DEF AddingInv, Refs, vars, instanceVars, mapVars, deletionVars
<1>12. QED
  BY <1>3, <1>4, <1>5, <1>6, <1>7, <1>8, <1>9, <1>10, <1>11 DEF Next, Client, Adding
------------------------------------------------------------------------------
(* What one turn of the deletion loop does to the instance it deletes.      *)
LEMMA DeleteFacts ==
  ASSUME IInv, DeleteOne
  PROVE  \E k \in Ids : \E e \in Objects :
           /\ e = byid_[k] /\ file[e] = "this" /\ id[e] = k
           /\ byid_' = [byid_ EXCEPT ![k] = Nobody]
           /\ byguid_' = Unguided(e) /\ Free(e)
           /\ \A o \in Objects, n \in Attrs : attr'[o][n] \subseteq attr[o][n]
           /\ UNCHANGED <<client, MaxId, adding>>
<1> DEFINE k == batch_deletion_ids_[deleting]
           e == byid_[k]
<1>1. TypeOK /\ NamesInv
  BY DEF IInv
<1>2. k \in Ids /\ e \in Objects
  BY <1>1, ElementOfSeq DEF DeleteOne, Deletable, TypeOK
<1>3. e # Nobody
  BY <1>2, NobodyAssumption
<1>4. file[e] = "this" /\ id[e] = k
  BY <1>1, <1>2, <1>3 DEF NamesInv
<1>5. \A o \in Objects, n \in Attrs : attr'[o][n] \subseteq attr[o][n]
  BY DEF DeleteOne, DropReferencesTo
<1>6. /\ byid_' = [byid_ EXCEPT ![k] = Nobody] /\ byguid_' = Unguided(e) /\ Free(e)
      /\ UNCHANGED <<client, MaxId, adding>>
  BY DEF DeleteOne
<1> HIDE DEF k
<1>7. QED
  BY <1>2, <1>4, <1>5, <1>6

(* Steps that leave files, references and the maps by type and by copy.     *)
LEMMA LiveRests ==
  LiveInv /\ UNCHANGED <<file, attr, bytype_excl_, entity_file_map_>> => LiveInv'
BY DEF LiveInv, InFile

(* An instance y joins the file.                                           *)
LEMMA LiveJoins ==
  ASSUME IInv, NEW y \in Objects, file[y] # "this",
         file' = [file EXCEPT ![y] = "this"],
         bytype_excl_' = bytype_excl_ \cup {y},
         \A o \in Objects : \/ entity_file_map_'[o] = entity_file_map_[o]
                           \/ entity_file_map_'[o] = y,
         \A o \in Objects, n \in Attrs : \A x \in attr'[o][n] :
            x \in Objects /\ file[x] # "unborn"
  PROVE  LiveInv'
<1>1. TypeOK /\ LiveInv
  BY DEF IInv
<1>2. \A o \in Objects : file'[o] = IF o = y THEN "this" ELSE file[o]
  BY <1>1 DEF TypeOK, Types
<1>3. bytype_excl_' = InFile'
  BY <1>1, <1>2 DEF LiveInv, InFile
<1>4. \A o \in Objects : entity_file_map_'[o] # Nobody => file'[entity_file_map_'[o]] = "this"
  BY <1>1, <1>2 DEF LiveInv, TypeOK
<1>5. \A o \in Objects, n \in Attrs : \A x \in attr'[o][n] : file'[x] # "unborn"
  BY <1>2
<1>6. QED
  BY <1>3, <1>4, <1>5 DEF LiveInv

LEMMA LiveInvariant == IInv /\ [Next]_vars => LiveInv'
<1> SUFFICES ASSUME IInv, [Next]_vars PROVE LiveInv'
  OBVIOUS
<1>1. /\ TypeOK /\ LiveInv
      /\ \A o \in Objects, n \in Attrs : \A x \in attr[o][n] : x \in Objects /\ file[x] # "unborn"
  BY DEF IInv, LiveInv, TypeOK
<1>2. ASSUME NEW o \in Objects, NEW n \in Attrs, UnsetAttribute(o, n)
      PROVE  LiveInv'
  <2>1. /\ attr' = [attr EXCEPT ![o][n] = {}]
        /\ UNCHANGED <<file, bytype_excl_, entity_file_map_>>
    BY <1>2 DEF UnsetAttribute, mapVars
  <2>2. \A p \in Objects, i \in Attrs : attr'[p][i] \subseteq attr[p][i]
    BY <1>1, <2>1 DEF TypeOK
  <2>3. QED
    BY <1>1, <2>1, <2>2 DEF LiveInv, InFile
<1>3. ASSUME NEW o \in Objects, NEW n \in Attrs, NEW list \in SUBSET Referable(o),
             SetAttribute(o, n, list)
      PROVE  LiveInv'
  <2>1. /\ attr' = [attr EXCEPT ![o][n] = list]
        /\ UNCHANGED <<file, bytype_excl_, entity_file_map_>>
    BY <1>3 DEF SetAttribute
  <2>2. \A x \in list : file[x] # "unborn"
    BY DEF Referable
  <2>3. \A p \in Objects, i \in Attrs : attr'[p][i] = list \/ attr'[p][i] = attr[p][i]
    BY <1>1, <2>1 DEF TypeOK
  <2>4. QED
    BY <1>1, <2>1, <2>2, <2>3 DEF LiveInv, InFile
<1>4. CASE AddOwn
  <2>1. /\ adding # <<>> /\ Top.inst \in Objects /\ file[Top.inst] = "this"
        /\ UNCHANGED <<file, attr, bytype_excl_>>
    BY <1>1, <1>4, TopFacts DEF AddOwn, instanceVars
  <2>2. \A o \in Objects : \/ entity_file_map_'[o] = entity_file_map_[o]
                          \/ entity_file_map_'[o] = Top.inst
    BY <1>1, <1>4, <2>1 DEF AddOwn, Return, TypeOK
  <2>3. QED
    BY <1>1, <2>1, <2>2 DEF LiveInv, InFile
<1>5. CASE AddNew
  <2>1. /\ adding # <<>> /\ Top.inst \in Objects /\ file[Top.inst] # "this"
        /\ file' = [file EXCEPT ![Top.inst] = "this"] /\ attr' = attr
        /\ bytype_excl_' = bytype_excl_ \cup {Top.inst}
    BY <1>1, <1>5, TopFacts DEF AddNew, Enter
  <2>2. \A o \in Objects : \/ entity_file_map_'[o] = entity_file_map_[o]
                          \/ entity_file_map_'[o] = Top.inst
    BY <1>1, <1>5, <2>1 DEF AddNew, Return, TypeOK
  <2>3. QED
    BY <1>1, <2>1, <2>2, LiveJoins
<1>6. ASSUME NEW y \in Objects, AddCopy(y)
      PROVE  LiveInv'
  <2>1. /\ adding # <<>> /\ Top.inst \in Objects /\ Top.todo = {} /\ file[y] # "this"
        /\ file' = [file EXCEPT ![y] = "this"]
        /\ bytype_excl_' = bytype_excl_ \cup {y}
    BY <1>1, <1>6, TopFacts DEF AddCopy, Enter
  <2>2. \A o \in Objects : entity_file_map_'[o] = entity_file_map_[o] \/ entity_file_map_'[o] = y
    BY <1>1, <1>6, <2>1 DEF AddCopy, Return, TypeOK
  <2>3. ASSUME NEW o \in Objects, NEW n \in Attrs
        PROVE  \A x \in attr'[o][n] : x \in Objects /\ file[x] # "unborn"
    <3>1. CASE o = y
      <4>1. attr'[o][n] = {entity_file_map_[x] : x \in attr[Top.inst][n]}
        BY <1>1, <1>6, <3>1 DEF AddCopy, TypeOK
      <4>2. QED
        BY <2>1, <4>1, CopiesExist
    <3>2. CASE o # y
      BY <1>1, <1>6, <3>2 DEF AddCopy, TypeOK
    <3>3. QED
      BY <3>1, <3>2
  <2>4. QED
    BY <2>1, <2>2, <2>3, LiveJoins
<1>7. CASE DeleteOne
  <2>1. PICK k \in Ids, e \in Objects :
          /\ file[e] = "this" /\ Free(e)
          /\ \A o \in Objects, n \in Attrs : attr'[o][n] \subseteq attr[o][n]
    BY <1>7, DeleteFacts
  <2>2. \A o \in Objects : file'[o] = IF o = e THEN "freed" ELSE file[o]
    BY <1>1, <2>1 DEF Free, TypeOK, Types
  <2>3. bytype_excl_' = InFile'
    BY <1>1, <2>1, <2>2 DEF Free, LiveInv, InFile
  <2>4. \A o \in Objects : entity_file_map_'[o] # Nobody =>
          entity_file_map_'[o] = entity_file_map_[o] /\ entity_file_map_[o] # e
    BY <2>1 DEF Free
  <2>5. \A o \in Objects : entity_file_map_'[o] # Nobody => file'[entity_file_map_'[o]] = "this"
    <3>1. \A o \in Objects : entity_file_map_[o] # Nobody =>
            entity_file_map_[o] \in Objects /\ file[entity_file_map_[o]] = "this"
      BY <1>1 DEF LiveInv, TypeOK
    <3>2. QED
      BY <2>2, <2>4, <3>1
  <2>6. \A o \in Objects, n \in Attrs : \A x \in attr'[o][n] : file'[x] # "unborn"
    BY <1>1, <2>1, <2>2
  <2>7. QED
    BY <2>3, <2>5, <2>6 DEF LiveInv
<1>8. CASE UNCHANGED <<file, attr, bytype_excl_, entity_file_map_>>
  BY <1>1, <1>8, LiveRests
<1>9. QED
  BY <1>2, <1>3, <1>4, <1>5, <1>6, <1>7, <1>8
     DEF Next, Client, Adding, Deleting, SetGuid, AddEntity, RemoveEntity, Batch, Unbatch,
         RecalculateIdCounter, AddReference, DeleteThrows, DeleteDone, vars, instanceVars, mapVars
------------------------------------------------------------------------------
(* The client is the same all along.                                       *)
LEMMA SameClient ==
  client' = client => (GraphsUnnamed' <=> GraphsUnnamed)
BY DEF GraphsUnnamed

(* Steps that leave all that NamesInv is about.                             *)
LEMMA NamesRest ==
  NamesInv /\ UNCHANGED <<client, file, id, byid_, MaxId, adding>> => NamesInv'
BY SameClient DEF NamesInv, InFile

(* The client's call of addEntity() is the only one when it asks for a      *)
(* name; when an inner one returns, it did not.                            *)
LEMMA PopNames ==
  ASSUME IInv, adding # <<>>, GraphsUnnamed,
         adding' = SubSeq(adding, 1, Len(adding) - 1), adding' # <<>>
  PROVE  adding'[1].id = NoId
<1>1. TypeOK
  BY DEF IInv
<1>2. /\ adding' \in Seq(CallType) /\ Len(adding') = Len(adding) - 1
      /\ \A n \in 1..Len(adding') : adding'[n] = adding[n]
  BY <1>1, PopFacts
<1>3. Len(adding') \in Nat \ {0} /\ 1 \in 1..Len(adding')
  BY <1>2, EmptySeq
<1>4. Len(adding) \in Nat
  BY <1>1, TopFacts
<1>5. Len(adding) # 1 /\ adding'[1] = adding[1]
  BY <1>2, <1>3, <1>4
<1>6. QED
  BY <1>5 DEF IInv, NamesInv

(* The name that an instance is about to be given is not in use.            *)
LEMMA NameIsFree ==
  ASSUME IInv, adding # <<>>, GraphsUnnamed,
         NEW y \in Objects, ObtainId(y, Top.id)
  PROVE  byid_[id'[y]] = Nobody
<1>1. /\ TypeOK /\ NamesInv /\ AddingInv
      /\ Top.id \in Ids \cup {NoId}
      /\ Len(adding) \in Nat \ {0} /\ Top = adding[Len(adding)]
  BY TopFacts DEF IInv, Top
<1>2. id'[y] \in Ids /\ id'[y] = IF Top.id = NoId THEN MaxId + 1 ELSE Top.id
  BY <1>1, ObtainFacts
<1>3. CASE Top.id = NoId
  <2>1. ~(MaxId + 1 <= MaxId)
    <3>1. MaxId \in Int
      BY <1>1 DEF TypeOK
    <3>2. QED
      BY <3>1
  <2>2. QED
    BY <1>1, <1>2, <1>3, <2>1 DEF NamesInv
<1>4. CASE Top.id # NoId
  <2>1. Len(adding) = 1
    <3>1. Len(adding) > 1 => adding[Len(adding)].id = NoId
      BY <1>1 DEF AddingInv
    <3>2. ~(Len(adding) > 1)
      BY <1>1, <1>4, <3>1
    <3>3. QED
      BY <1>1, <3>2
  <2>2. QED
    BY <1>1, <1>2, <1>4, <2>1 DEF NamesInv
<1>5. QED
  BY <1>3, <1>4

(* An instance y joins the file under the name it is given.                 *)
LEMMA NamesJoin ==
  ASSUME IInv, adding # <<>>, client' = client,
         NEW y \in Objects, file[y] # "this", file' = [file EXCEPT ![y] = "this"],
         ObtainId(y, Top.id), byid_' = [byid_ EXCEPT ![id'[y]] = y],
         adding' = SubSeq(adding, 1, Len(adding) - 1)
  PROVE  NamesInv'
<1>1. TypeOK /\ NamesInv /\ Top.id \in Ids \cup {NoId}
  BY TopFacts DEF IInv
<1>2. /\ id'[y] \in Ids /\ \A o \in Objects \ {y} : id'[o] = id[o]
      /\ MaxId \in Int /\ MaxId' \in Int /\ MaxId <= MaxId' /\ id'[y] <= MaxId'
  BY <1>1, ObtainFacts DEF TypeOK
<1>3. /\ \A o \in Objects : file'[o] = IF o = y THEN "this" ELSE file[o]
      /\ InFile' = InFile \cup {y}
      /\ \A k \in Ids : byid_'[k] = IF k = id'[y] THEN y ELSE byid_[k]
  BY <1>1, <1>2 DEF TypeOK, Types, InFile
<1>4. \A o \in InFile' : id'[o] \in Ids
  BY <1>1, <1>2, <1>3 DEF NamesInv, InFile
<1>5. ASSUME NEW k \in Ids, byid_'[k] # Nobody
      PROVE  file'[byid_'[k]] = "this" /\ id'[byid_'[k]] = k /\ k <= MaxId'
  <2>1. CASE k = id'[y]
    BY <1>2, <1>3, <2>1
  <2>2. CASE k # id'[y]
    <3>1. byid_'[k] = byid_[k] /\ byid_[k] \in Objects
      BY <1>1, <1>3, <1>5, <2>2 DEF TypeOK
    <3>2. file[byid_[k]] = "this" /\ id[byid_[k]] = k /\ k <= MaxId
      BY <1>1, <1>5, <3>1 DEF NamesInv
    <3>3. QED
      BY <1>2, <1>3, <3>1, <3>2 DEF Ids
  <2>3. QED
    BY <2>1, <2>2
<1>6. ASSUME GraphsUnnamed
      PROVE  /\ \A o \in InFile' : byid_'[id'[o]] = o
             /\ adding' # <<>> => adding'[1].id = NoId
  <2>1. byid_[id'[y]] = Nobody
    BY <1>6, NameIsFree
  <2>2. ASSUME NEW o \in InFile', o # y
        PROVE  byid_'[id'[o]] = o
    <3>1. o \in InFile /\ id'[o] = id[o] /\ id[o] \in Ids
      BY <1>1, <1>2, <1>3, <2>2 DEF NamesInv, InFile
    <3>2. byid_[id[o]] = o /\ o # Nobody
      BY <1>1, <1>6, <3>1, NobodyAssumption DEF NamesInv, InFile
    <3>3. QED
      BY <1>3, <2>1, <3>1, <3>2
  <2>3. byid_'[id'[y]] = y
    BY <1>2, <1>3
  <2>4. adding' # <<>> => adding'[1].id = NoId
    BY <1>6, PopNames
  <2>5. QED
    BY <2>2, <2>3, <2>4
<1>7. QED
  BY <1>4, <1>5, <1>6, SameClient DEF NamesInv

LEMMA NamesInvariant == IInv /\ [Next]_vars => NamesInv'
<1> SUFFICES ASSUME IInv, [Next]_vars PROVE NamesInv'
  OBVIOUS
<1>1. TypeOK /\ NamesInv /\ AddingInv
  BY DEF IInv
<1>2. ASSUME NEW o \in Objects, NEW k \in client.explicit \cup {NoId}, AddEntity(o, k)
      PROVE  NamesInv'
  <2>1. /\ adding' = <<Call(o, k)>> /\ UNCHANGED <<client, file, id, byid_, MaxId>>
        /\ k # NoId => byid_[k] = Nobody /\ ("explicit id" \in client.calls \/ Refs(o) = {})
    BY <1>2 DEF AddEntity, instanceVars, mapVars
  <2>2. Len(adding') = 1 /\ adding'[1] = Call(o, k)
    BY <2>1
  <2>3. Call(o, k).id = k /\ Call(o, k).todo = Refs(o)
    BY DEF Call
  <2>4. QED
    BY <1>1, <2>1, <2>2, <2>3, SameClient DEF NamesInv, InFile, GraphsUnnamed
<1>3. ASSUME NEW x \in Objects, AddReference(x)
      PROVE  NamesInv'
  <2>1. adding # <<>> /\ x \in Top.todo /\ UNCHANGED <<client, file, id, byid_, MaxId>>
    BY <1>3 DEF AddReference, instanceVars, mapVars
  <2>2. Len(adding) \in Nat \ {0} /\ Top = adding[Len(adding)]
    BY <1>1, <2>1, TopFacts DEF Top
  <2>3. adding'[1].id = adding[1].id
    <3>1. 1 \in 1..Len(adding)
      BY <2>2
    <3>2. QED
      BY <1>1, <1>3, <3>1, ReferenceFacts
  <2>4. GraphsUnnamed => adding[1].id = NoId
    BY <1>1, <2>1, <2>2 DEF NamesInv
  <2>5. QED
    BY <1>1, <2>1, <2>3, <2>4, SameClient DEF NamesInv, InFile
<1>4. CASE AddOwn
  <2>1. /\ adding # <<>> /\ adding' = SubSeq(adding, 1, Len(adding) - 1)
        /\ UNCHANGED <<client, file, id, byid_, MaxId>>
    BY <1>4 DEF AddOwn, Return, instanceVars
  <2>2. GraphsUnnamed /\ adding' # <<>> => adding'[1].id = NoId
    BY <2>1, PopNames
  <2>3. QED
    BY <1>1, <2>1, <2>2, SameClient DEF NamesInv, InFile
<1>5. CASE AddNew
  <2>1. /\ adding # <<>> /\ Top.inst \in Objects /\ file[Top.inst] # "this" /\ client' = client
        /\ file' = [file EXCEPT ![Top.inst] = "this"] /\ ObtainId(Top.inst, Top.id)
        /\ byid_' = [byid_ EXCEPT ![id'[Top.inst]] = Top.inst]
        /\ adding' = SubSeq(adding, 1, Len(adding) - 1)
    BY <1>1, <1>5, TopFacts DEF AddNew, Enter, Return
  <2>2. QED
    BY <2>1, NamesJoin
<1>6. ASSUME NEW y \in Objects, AddCopy(y)
      PROVE  NamesInv'
  <2>1. /\ adding # <<>> /\ file[y] # "this" /\ client' = client
        /\ file' = [file EXCEPT ![y] = "this"] /\ ObtainId(y, Top.id)
        /\ byid_' = [byid_ EXCEPT ![id'[y]] = y]
        /\ adding' = SubSeq(adding, 1, Len(adding) - 1)
    BY <1>6 DEF AddCopy, Enter, Return
  <2>2. QED
    BY <2>1, NamesJoin
<1>7. CASE DeleteOne
  <2>1. PICK k \in Ids, e \in Objects :
          /\ e = byid_[k] /\ file[e] = "this" /\ id[e] = k
          /\ byid_' = [byid_ EXCEPT ![k] = Nobody] /\ Free(e)
          /\ UNCHANGED <<client, MaxId, adding>>
    BY <1>7, DeleteFacts
  <2>2. /\ \A o \in Objects : file'[o] = IF o = e THEN "freed" ELSE file[o]
        /\ \A o \in Objects \ {e} : id'[o] = id[o]
        /\ InFile' = InFile \ {e}
        /\ \A j \in Ids : byid_'[j] = IF j = k THEN Nobody ELSE byid_[j]
    BY <1>1, <2>1 DEF Free, TypeOK, Types, InFile
  <2>3. \A o \in InFile' : o \in InFile /\ id'[o] = id[o] /\ id'[o] \in Ids
    BY <1>1, <2>2 DEF NamesInv, InFile
  <2>4. ASSUME NEW j \in Ids, byid_'[j] # Nobody
        PROVE  file'[byid_'[j]] = "this" /\ id'[byid_'[j]] = j /\ j <= MaxId'
    <3>1. j # k /\ byid_'[j] = byid_[j] /\ byid_[j] \in Objects
      BY <1>1, <2>2, <2>4 DEF TypeOK
    <3>2. file[byid_[j]] = "this" /\ id[byid_[j]] = j /\ j <= MaxId /\ byid_[j] # e
      BY <1>1, <2>1, <2>4, <3>1 DEF NamesInv
    <3>3. QED
      BY <2>1, <2>2, <3>1, <3>2
  <2>5. ASSUME GraphsUnnamed
        PROVE  \A o \in InFile' : byid_'[id'[o]] = o
    <3>1. ASSUME NEW o \in InFile'
          PROVE  byid_'[id'[o]] = o
      <4>1. byid_[id[o]] = o /\ o # e
        BY <1>1, <2>2, <2>3, <2>5 DEF NamesInv, InFile
      <4>2. QED
        BY <2>1, <2>2, <2>3, <4>1
    <3>2. QED
      BY <3>1
  <2>6. GraphsUnnamed => 
          (adding # <<>> /\ adding[1].id # NoId =>
             Len(adding) = 1 /\ adding[1].todo = {} /\ byid_'[adding[1].id] = Nobody)
    <3>1. deleting # 0
      BY <1>1, <1>7 DEF DeleteOne
    <3>2. QED
      BY <1>1, <3>1 DEF AddingInv
  <2>7. QED
    BY <2>1, <2>3, <2>4, <2>5, <2>6, SameClient DEF NamesInv
<1>8. CASE RecalculateIdCounter
  <2>1. /\ UNCHANGED <<client, file, id, byid_, adding>>
        /\ \A k \in Ids : byid_[k] # Nobody => k <= MaxId'
    BY <1>8 DEF RecalculateIdCounter, instanceVars
  <2>2. QED
    BY <1>1, <2>1, SameClient DEF NamesInv, InFile
<1>9. CASE UNCHANGED <<client, file, id, byid_, MaxId, adding>>
  BY <1>1, <1>9, NamesRest
<1>10. QED
  BY <1>2, <1>3, <1>4, <1>5, <1>6, <1>7, <1>8, <1>9
     DEF Next, Client, Adding, Deleting, UnsetAttribute, SetAttribute, SetGuid, RemoveEntity,
         Batch, Unbatch, DeleteThrows, DeleteDone, vars, instanceVars, mapVars
------------------------------------------------------------------------------
(* Steps that leave all that GuidInv is about.                              *)
LEMMA GuidRests ==
  GuidInv /\ UNCHANGED <<client, file, guid, byguid_>> => GuidInv'
BY SameClient DEF GuidInv

(* An instance y joins the file with its GlobalId.                         *)
LEMMA GuidJoins ==
  ASSUME IInv, client' = client, NEW y \in Objects, file[y] # "this",
         file' = [file EXCEPT ![y] = "this"],
         guid'[y] \in Guids \cup {NoGuid}, \A o \in Objects \ {y} : guid'[o] = guid[o],
         byguid_' = IF guid'[y] = NoGuid THEN byguid_ ELSE [byguid_ EXCEPT ![guid'[y]] = y]
  PROVE  GuidInv'
<1>1. TypeOK /\ GuidInv
  BY DEF IInv
<1>2. \A o \in Objects : file'[o] = IF o = y THEN "this" ELSE file[o]
  BY <1>1 DEF TypeOK, Types
<1>3. ASSUME GraphsUnnamed, NEW g \in Guids, byguid_'[g] # Nobody
      PROVE  file'[byguid_'[g]] = "this" /\ guid'[byguid_'[g]] = g
  <2>1. CASE guid'[y] = g
    <3>1. guid'[y] # NoGuid
      BY <2>1, NobodyAssumption
    <3>2. byguid_'[g] = y
      BY <1>1, <2>1, <3>1 DEF TypeOK
    <3>3. QED
      BY <1>2, <2>1, <3>2
  <2>2. CASE guid'[y] # g
    <3>1. byguid_'[g] = byguid_[g] /\ byguid_[g] \in Objects
      BY <1>1, <1>3, <2>2 DEF TypeOK
    <3>2. file[byguid_[g]] = "this" /\ guid[byguid_[g]] = g
      BY <1>1, <1>3, <3>1 DEF GuidInv
    <3>3. QED
      BY <1>2, <3>1, <3>2
  <2>3. QED
    BY <2>1, <2>2
<1>4. QED
  BY <1>3, SameClient DEF GuidInv

LEMMA GuidInvariant == IInv /\ [Next]_vars => GuidInv'
<1> SUFFICES ASSUME IInv, [Next]_vars PROVE GuidInv'
  OBVIOUS
<1>1. TypeOK /\ NamesInv /\ GuidInv
  BY DEF IInv
<1>2. ASSUME GraphsUnnamed, NEW g \in Guids, byguid_[g] # Nobody
      PROVE  byguid_[g] \in Objects /\ file[byguid_[g]] = "this" /\ guid[byguid_[g]] = g
  BY <1>1, <1>2 DEF GuidInv, TypeOK
<1>3. ASSUME NEW o \in Objects, NEW g \in Guids, SetGuid(o, g)
      PROVE  GuidInv'
  <2>1. /\ client' = client /\ file' = file
        /\ guid' = [guid EXCEPT ![o] = g]
        /\ byguid_' = IF file[o] = "this" THEN Reguided(o, g) ELSE byguid_
    BY <1>3 DEF SetGuid
  <2>2. guid'[o] = g /\ \A p \in Objects \ {o} : guid'[p] = guid[p]
    BY <1>1, <2>1 DEF TypeOK
  <2>3. ASSUME GraphsUnnamed, NEW h \in Guids, byguid_'[h] # Nobody
        PROVE  file'[byguid_'[h]] = "this" /\ guid'[byguid_'[h]] = h
    <3>1. CASE file[o] = "this"
      <4>1. byid_[id[o]] = o /\ o # Nobody
        BY <1>1, <2>3, <3>1, NobodyAssumption DEF NamesInv, InFile
      <4>2. byguid_'[h] = IF h = g THEN o
                          ELSE IF h = guid[o] /\ byguid_[h] = o THEN Nobody ELSE byguid_[h]
        BY <2>1, <3>1, <4>1 DEF Reguided
      <4>3. CASE h = g
        BY <2>1, <2>2, <3>1, <4>2, <4>3
      <4>4. CASE h # g
        <5>1. byguid_'[h] = byguid_[h] /\ ~(h = guid[o] /\ byguid_[h] = o)
          BY <2>3, <4>2, <4>4
        <5>2. byguid_[h] \in Objects /\ file[byguid_[h]] = "this" /\ guid[byguid_[h]] = h
          BY <1>2, <2>3, <5>1
        <5>3. QED
          BY <2>1, <2>2, <5>1, <5>2
      <4>5. QED
        BY <4>3, <4>4
    <3>2. CASE file[o] # "this"
      <4>1. byguid_'[h] = byguid_[h]
        BY <2>1, <3>2
      <4>2. byguid_[h] \in Objects /\ file[byguid_[h]] = "this" /\ guid[byguid_[h]] = h
        BY <1>2, <2>3, <4>1
      <4>3. QED
        BY <2>1, <2>2, <3>2, <4>1, <4>2
    <3>3. QED
      BY <3>1, <3>2
  <2>4. QED
    BY <2>1, <2>3, SameClient DEF GuidInv
<1>4. CASE AddNew
  <2>1. adding # <<>> /\ Top.inst \in Objects
    BY <1>1, <1>4, TopFacts DEF AddNew
  <2>2. guid' = guid /\ guid[Top.inst] \in Guids \cup {NoGuid}
    BY <1>1, <1>4, <2>1 DEF AddNew, TypeOK
  <2>3. /\ client' = client /\ file[Top.inst] # "this"
        /\ file' = [file EXCEPT ![Top.inst] = "this"]
        /\ byguid_' = IF guid'[Top.inst] = NoGuid THEN byguid_
                      ELSE [byguid_ EXCEPT ![guid'[Top.inst]] = Top.inst]
    BY <1>4 DEF AddNew, Enter
  <2>4. QED
    BY <2>1, <2>2, <2>3, GuidJoins
<1>5. ASSUME NEW y \in Objects, AddCopy(y)
      PROVE  GuidInv'
  <2>1. adding # <<>> /\ Top.inst \in Objects
    BY <1>1, <1>5, TopFacts DEF AddCopy
  <2>2. guid'[y] \in Guids \cup {NoGuid} /\ \A o \in Objects \ {y} : guid'[o] = guid[o]
    BY <1>1, <1>5, <2>1 DEF AddCopy, TypeOK
  <2>3. /\ client' = client /\ file[y] # "this"
        /\ file' = [file EXCEPT ![y] = "this"]
        /\ byguid_' = IF guid'[y] = NoGuid THEN byguid_ ELSE [byguid_ EXCEPT ![guid'[y]] = y]
    BY <1>5 DEF AddCopy, Enter
  <2>4. QED
    BY <2>1, <2>2, <2>3, GuidJoins
<1>6. CASE DeleteOne
  <2>1. PICK e \in Objects : byguid_' = Unguided(e) /\ Free(e) /\ client' = client
    BY <1>6, DeleteFacts
  <2>2. \A o \in Objects \ {e} : file'[o] = file[o] /\ guid'[o] = guid[o]
    BY <1>1, <2>1 DEF Free, TypeOK, Types
  <2>3. ASSUME GraphsUnnamed, NEW g \in Guids, byguid_'[g] # Nobody
        PROVE  file'[byguid_'[g]] = "this" /\ guid'[byguid_'[g]] = g
    <3>1. byguid_'[g] = byguid_[g] /\ guid[e] # g
      <4>1. CASE guid[e] = NoGuid
        BY <2>1, <4>1, NobodyAssumption DEF Unguided
      <4>2. CASE guid[e] # NoGuid
        BY <1>1, <2>1, <2>3, <4>2 DEF Unguided, TypeOK
      <4>3. QED
        BY <4>1, <4>2
    <3>2. byguid_[g] \in Objects \ {e} /\ file[byguid_[g]] = "this" /\ guid[byguid_[g]] = g
      BY <1>2, <2>3, <3>1
    <3>3. QED
      BY <2>2, <3>1, <3>2
  <2>4. QED
    BY <2>1, <2>3, SameClient DEF GuidInv
<1>7. CASE UNCHANGED <<client, file, guid, byguid_>>
  BY <1>1, <1>7, GuidRests
<1>8. QED
  BY <1>3, <1>4, <1>5, <1>6, <1>7
     DEF Next, Client, Adding, Deleting, UnsetAttribute, SetAttribute, AddEntity, RemoveEntity,
         Batch, Unbatch, RecalculateIdCounter, AddReference, AddOwn, DeleteThrows, DeleteDone,
         vars, instanceVars, mapVars
------------------------------------------------------------------------------
LEMMA InitInvariant == Init => IInv
<1> SUFFICES ASSUME Init PROVE IInv
  OBVIOUS
<1>1. client \in Clients /\ client \in ClientType
  BY ClientsAssumption DEF Init
<1>2. /\ file = client.origin
      /\ client.origin \in [Objects -> {"none", "other", "unborn", "freed"}]
  BY <1>1 DEF Init, ClientType
<1>3. file \in Types /\ InFile = {}
  BY <1>2 DEF Types, InFile
<1>4. adding = <<>> /\ Len(adding) = 0
  BY EmptySeq DEF Init
<1>5. /\ attr \in [Objects -> [Attrs -> SUBSET {x \in Objects : file[x] = "other"}]]
      /\ batch_deletion_ids_ = <<>> /\ deleting = 0 /\ MaxId = 0
      /\ entity_file_map_ = [o \in Objects |-> Nobody] /\ bytype_excl_ = {}
      /\ id = [o \in Objects |-> NoId]
  BY DEF Init
<1>6. TypeOK
  <2>1. attr \in [Objects -> [Attrs -> SUBSET Objects]]
    BY <1>5
  <2>2. MaxId \in 0..IdBound /\ id \in [Objects -> Ids \cup {NoId}]
    BY <1>5, IdAssumption
  <2>3. /\ byid_ \in [Ids -> Objects \cup {Nobody}]
        /\ byguid_ \in [Guids -> Objects \cup {Nobody}]
        /\ entity_file_map_ \in [Objects -> Objects \cup {Nobody}]
        /\ guid \in [Objects -> Guids \cup {NoGuid}]
        /\ bytype_excl_ \subseteq Objects /\ batch_mode_ \in BOOLEAN
    BY DEF Init
  <2>4. byref_excl_ \in [Ids \X Attrs \X Ids -> Nat]
    BY DEF Init
  <2>5. /\ batch_deletion_ids_ \in Seq(Ids)
        /\ deleting \in 0..Len(batch_deletion_ids_) + 1
        /\ adding \in Seq([inst : Objects, id : Ids \cup {NoId}, todo : SUBSET Objects])
    BY <1>4, <1>5, EmptySeq
  <2>6. QED
    BY <1>1, <1>3, <2>1, <2>2, <2>3, <2>4, <2>5 DEF TypeOK
<1>7. AddingInv
  BY <1>4 DEF AddingInv
<1>8. LiveInv
  BY <1>3, <1>5 DEF LiveInv
<1>9. NamesInv
  BY <1>3, <1>4 DEF Init, NamesInv
<1>10. GuidInv
  BY DEF Init, GuidInv
<1>11. QED
  BY <1>6, <1>7, <1>8, <1>9, <1>10 DEF IInv

LEMMA InvariantHolds == Spec => []IInv
<1>1. IInv /\ [Next]_vars => IInv'
  BY TypeInvariant, AddingInvariant, LiveInvariant, NamesInvariant, GuidInvariant DEF IInv
<1>2. QED
  BY InitInvariant, <1>1, PTL DEF Spec

(* The maps, names and calls of IfcFile hold what they should throughout,   *)
(* also between the recursive calls of addEntity() and between two          *)
(* deletions of process_deletion_().                                       *)
THEOREM TypeCorrect == Spec => []TypeOK
<1>1. IInv => TypeOK
  BY DEF IInv
<1>2. QED
  BY InvariantHolds, <1>1, PTL

(* A name is never given twice to clients that do not ask for one for a     *)
(* whole graph: with names freed by removeEntity(), asked for, and counted  *)
(* anew by recalculate_id_counter() at any time, whichever instance is in   *)
(* the file is the one that is found by its name.                          *)
THEOREM NamesUnique == Spec => []NamesAreUnique
<1>1. IInv => NamesAreUnique
  BY DEF IInv, NamesInv, NamesAreUnique, NamesLeadBack
<1>2. QED
  BY InvariantHolds, <1>1, PTL

(* No map hands out a deleted instance, with the same clients: those of     *)
(* removeEntity() that throw half way, that unset attributes, that remove   *)
(* in any order in a batch or share GlobalIds are among them.               *)
THEOREM MapsLive ==
  ASSUME \A c \in Clients : "explicit id" \notin c.calls
  PROVE  Spec => []MapsAreLive
<1>1. IInv => MapsAreLive
  <2> SUFFICES ASSUME IInv PROVE MapsAreLive
    OBVIOUS
  <2>1. GraphsUnnamed
    BY DEF IInv, TypeOK, GraphsUnnamed
  <2>2. QED
    BY <2>1 DEF IInv, LiveInv, NamesInv, GuidInv, MapsAreLive
<1>2. QED
  BY InvariantHolds, <1>1, PTL

(***************************************************************************)
(* Careful clients: inverses, references, removals and GlobalIds.          *)
(***************************************************************************)
(* The invariant of the store, and what holds of a careful client.          *)
CInv ==
  IInv /\ Careful /\ QueueInv /\ RefsInv /\ InversesInv /\ CopiesInv /\ GuidsInv

LEMMA CarefulNames == Careful => GraphsUnnamed
BY DEF Careful, GraphsUnnamed

(* What instances and names have to do with each other.                     *)
LEMMA NameFacts ==
  ASSUME CInv
  PROVE  /\ \A o \in Objects : file[o] = "this" => id[o] \in Ids /\ byid_[id[o]] = o
         /\ \A k \in Ids : byid_[k] # Nobody =>
              byid_[k] \in Objects /\ file[byid_[k]] = "this" /\ id[byid_[k]] = k
         /\ \A o \in Objects : o # Nobody
         /\ \A o \in Objects : file[o] # "this" => id[o] = NoId
         /\ NoId \notin Ids
<1>1. TypeOK /\ NamesInv /\ GraphsUnnamed /\ InversesInv
  BY CarefulNames DEF CInv, IInv
<1>2. \A o \in Objects : file[o] = "this" => id[o] \in Ids /\ byid_[id[o]] = o
  BY <1>1 DEF NamesInv, InFile
<1>3. \A k \in Ids : byid_[k] # Nobody =>
        byid_[k] \in Objects /\ file[byid_[k]] = "this" /\ id[byid_[k]] = k
  BY <1>1 DEF TypeOK, NamesInv
<1>4. \A o \in Objects : o # Nobody
  BY NobodyAssumption
<1>5. NoId \notin Ids
  BY DEF NoId, Ids
<1>6. QED
  BY <1>1, <1>2, <1>3, <1>4, <1>5 DEF InversesInv

(* The names that are scheduled.                                           *)
LEMMA QueueFacts ==
  ASSUME CInv
  PROVE  /\ Len(batch_deletion_ids_) \in Nat
         /\ deleting \in 0..Len(batch_deletion_ids_)+1
         /\ \A n \in 1..Len(batch_deletion_ids_) :
              batch_deletion_ids_[n] \in Ids /\ batch_deletion_ids_[n] \in Pending
         /\ Pending \subseteq Ids
         /\ \A k \in Pending : \E n \in 1..Len(batch_deletion_ids_) : k = batch_deletion_ids_[n]
         /\ \A k \in Deleted : \E n \in 1..Len(batch_deletion_ids_) :
              k = batch_deletion_ids_[n] /\ n < deleting
         /\ \A n \in 1..Len(batch_deletion_ids_) :
              n < deleting => batch_deletion_ids_[n] \in Deleted
         /\ deleting = 0 => Deleted = {}
<1>1. batch_deletion_ids_ \in Seq(Ids) /\ deleting \in 0..Len(batch_deletion_ids_)+1
  BY DEF CInv, IInv, TypeOK
<1>2. /\ Len(batch_deletion_ids_) \in Nat
      /\ \A n \in 1..Len(batch_deletion_ids_) : batch_deletion_ids_[n] \in Ids
  BY <1>1, ElementOfSeq, LenProperties
<1>3. \A n \in 1..deleting-1 : n \in 1..Len(batch_deletion_ids_) /\ n < deleting
  BY <1>1, <1>2
<1>4. \A n \in 1..Len(batch_deletion_ids_) : n < deleting => n \in 1..deleting-1
  BY <1>1, <1>2
<1>5. deleting = 0 => 1..deleting-1 = {}
  OBVIOUS
<1>6. QED
  BY <1>1, <1>2, <1>3, <1>4, <1>5 DEF Pending, Deleted

(* A list of instances has one with a name that is in use, or none.         *)
LEMMA NamedFacts ==
  ASSUME CInv, NEW list, list \subseteq Objects, NEW k \in Ids
  PROVE  Named(list, k) = IF byid_[k] # Nobody /\ byid_[k] \in list THEN 1 ELSE 0
<1>1. \A x \in list : id[x] = k => byid_[k] = x /\ byid_[k] # Nobody
  BY NameFacts
<1>2. CASE byid_[k] # Nobody /\ byid_[k] \in list
  <2>1. {x \in list : id[x] = k} = {byid_[k]}
    BY <1>1, <1>2, NameFacts
  <2>2. QED
    BY <1>2, <2>1, FS_Singleton DEF Named
<1>3. CASE ~(byid_[k] # Nobody /\ byid_[k] \in list)
  <2>1. {x \in list : id[x] = k} = {}
    BY <1>1, <1>3
  <2>2. QED
    BY <1>3, <2>1, FS_EmptySet DEF Named
<1>4. QED
  BY <1>2, <1>3

(* As long as nothing is being deleted, what an instance in the file        *)
(* refers to is in the file, and the inverses are exact.                    *)
LEMMA RestFacts ==
  ASSUME CInv, deleting = 0
  PROVE  /\ \A o \in InFile : Refs(o) \subseteq InFile
         /\ \A o \in InFile, n \in Attrs : attr[o][n] \subseteq InFile
         /\ \A k, r \in Ids, n \in Attrs : Exact(k, n, r)
         /\ \A n \in 1..Len(batch_deletion_ids_) : byid_[batch_deletion_ids_[n]] # Nobody
<1>1. /\ TypeOK /\ RefsInv /\ InversesInv /\ QueueInv
      /\ \A o \in Objects : Refs(o) \subseteq Objects
      /\ \A o \in Objects, n \in Attrs : attr[o][n] \subseteq Refs(o)
  BY RefsAreObjects DEF CInv, IInv, Refs
<1>2. \A o \in InFile : Refs(o) \subseteq InFile
  BY <1>1 DEF RefsInv, InFile
<1>3. \A o \in InFile, n \in Attrs : attr[o][n] \subseteq InFile
  BY <1>1, <1>2 DEF InFile
<1>4. \A k, r \in Ids, n \in Attrs : Exact(k, n, r)
  BY <1>1, QueueFacts DEF InversesInv, Stale
<1>5. \A n \in 1..Len(batch_deletion_ids_) : byid_[batch_deletion_ids_[n]] # Nobody
  <2>1. \A n \in 1..Len(batch_deletion_ids_) : ~(n < deleting)
    BY QueueFacts
  <2>2. QED
    BY <1>1, <2>1 DEF QueueInv
<1>6. QED
  BY <1>2, <1>3, <1>4, <1>5

(* A deletion never throws: what refers to the instance is alive.           *)
LEMMA NeverThrows ==
  ASSUME CInv, deleting \in 1..Len(batch_deletion_ids_)
  PROVE  Deletable(batch_deletion_ids_[deleting])
<1> DEFINE k == batch_deletion_ids_[deleting]
<1>1. /\ k \in Ids /\ k \in Pending
      /\ QueueInv /\ InversesInv
      /\ deleting \in Int
  BY QueueFacts DEF CInv
<1>2. byid_[k] # Nobody
  BY <1>1 DEF QueueInv
<1>3. k \notin Deleted
  <2>1. SUFFICES ASSUME NEW n \in 1..Len(batch_deletion_ids_),
                        k = batch_deletion_ids_[n], n < deleting
                 PROVE  FALSE
    BY QueueFacts
  <2>2. n = deleting
    BY <1>1, <2>1 DEF QueueInv
  <2>3. QED
    BY <1>1, <2>1, <2>2
<1> HIDE DEF k
<1>4. \A r \in Ids, n \in Attrs : byref_excl_[<<k, n, r>>] > 0 => Implied(k, n, r)
  <2>1. \A r \in Ids : ~Stale(k, r)
    BY <1>1, <1>3 DEF Stale
  <2>2. \A r \in Ids, n \in Attrs : Exact(k, n, r)
    BY <1>1, <2>1 DEF InversesInv
  <2>3. ASSUME NEW r \in Ids, NEW n \in Attrs, ~Implied(k, n, r)
        PROVE  byref_excl_[<<k, n, r>>] = 0
    <3>1. Exact(k, n, r)
      BY <2>2
    <3>2. QED
      BY <2>3, <3>1 DEF Exact
  <2>4. QED
    BY <2>3
<1>5. \A r \in Referring(k) : byid_[r] # Nobody
  <2>1. \A r \in Ids, n \in Attrs : Implied(k, n, r) => byid_[r] # Nobody
    BY DEF Implied
  <2>2. QED
    BY <1>4, <2>1 DEF Referring
<1>6. QED
  BY <1>2, <1>5 DEF Deletable, k

------------------------------------------------------------------------------
(* What is left of the calls of a careful client.                           *)
LEMMA CarefulCalls ==
  ASSUME CInv
  PROVE  /\ \A o \in Objects, n \in Attrs : ~UnsetAttribute(o, n)
         /\ ~DeleteThrows
         /\ \A o \in Objects, g \in Guids : SetGuid(o, g) => \A p \in Objects \ {o} : guid[p] # g
         /\ \A o \in Objects, n \in Attrs : \A list : SetAttribute(o, n, list) => id[o] \notin Pending
         /\ \A o \in Objects : RemoveEntity(o) =>
              \A r \in Objects : o \in Refs(r) => id[r] \notin Pending
<1>1. client.calls = {}
  BY DEF CInv, Careful
<1>2. \A o \in Objects, n \in Attrs : ~UnsetAttribute(o, n)
  BY <1>1 DEF UnsetAttribute
<1>3. \A o \in Objects, g \in Guids : SetGuid(o, g) => \A p \in Objects \ {o} : guid[p] # g
  BY <1>1 DEF SetGuid, GuidIsFree
<1>4. \A o \in Objects, n \in Attrs : \A list : SetAttribute(o, n, list) => id[o] \notin Pending
  BY <1>1 DEF SetAttribute
<1>5. \A o \in Objects : RemoveEntity(o) =>
        \A r \in Objects : o \in Refs(r) => id[r] \notin Pending
  BY <1>1 DEF RemoveEntity
<1>6. ~DeleteThrows
  BY NeverThrows DEF DeleteThrows
<1>7. QED
  BY <1>2, <1>3, <1>4, <1>5, <1>6

(* What SetAttribute changes.                                               *)
LEMMA SetFacts ==
  ASSUME CInv, NEW o \in Objects, NEW n \in Attrs, NEW list \in SUBSET Referable(o),
         SetAttribute(o, n, list)
  PROVE  /\ deleting = 0 /\ id[o] \notin Pending /\ file[o] \in {"none", "this"}
         /\ \A p \in Objects, m \in Attrs :
              attr'[p][m] = IF p = o /\ m = n THEN list ELSE attr[p][m]
         /\ \A p \in Objects : \A x \in Refs(p)' : x \in Refs(p) \/ (p = o /\ x \in list)
         /\ list \subseteq Objects
         /\ \A x \in list : Rank[x] < Rank[o]
         /\ \A x \in list : file[o] = "this" => file[x] = "this"
         /\ \A x \in list : file[o] = "none" =>
              file[x] \in {"this", "none"} /\ id[x] \notin Pending
         /\ \A p \in Objects : p # o => Refs(p)' = Refs(p)
<1>1. /\ TypeOK /\ deleting = 0 /\ id[o] \notin Pending /\ file[o] \in {"none", "this"}
      /\ attr' = [attr EXCEPT ![o][n] = list]
  BY CarefulCalls DEF CInv, IInv, SetAttribute, AtRest
<1>2. list \subseteq Objects /\ \A x \in list : Rank[x] < Rank[o]
  BY DEF Referable
<1>3. \A p \in Objects, m \in Attrs :
        attr'[p][m] = IF p = o /\ m = n THEN list ELSE attr[p][m]
  BY <1>1 DEF TypeOK
<1>4. \A x \in list : file[o] = "this" => file[x] = "this"
  BY DEF Referable
<1>5. ASSUME NEW x \in list, file[o] = "none"
      PROVE  file[x] \in {"this", "none"} /\ id[x] \notin Pending
  <2>1. x \in Objects /\ ((file[x] = "this" /\ id[x] \notin Pending) \/ file[x] = "none")
    BY <1>5 DEF Referable
  <2>2. file[x] = "none" => id[x] \notin Pending
    BY <2>1, NameFacts, QueueFacts
  <2>3. QED
    BY <2>1, <2>2
<1>6. \A p \in Objects : p # o => Refs(p)' = Refs(p)
  BY <1>3 DEF Refs
<1>7. \A p \in Objects : \A x \in Refs(p)' : x \in Refs(p) \/ (p = o /\ x \in list)
  BY <1>3 DEF Refs
<1>8. QED
  BY <1>1, <1>2, <1>3, <1>4, <1>5, <1>6, <1>7

(* An instance y joins the file: its name was not in use, and it refers to  *)
(* instances in the file.                                                   *)
Joins(y) ==
  /\ file[y] # "this" /\ deleting = 0
  /\ \A o \in Objects : file'[o] = IF o = y THEN "this" ELSE file[o]
  /\ id'[y] \in Ids /\ byid_[id'[y]] = Nobody
  /\ \A o \in Objects \ {y} : id'[o] = id[o]
  /\ \A k \in Ids : byid_'[k] = IF k = id'[y] THEN y ELSE byid_[k]
  /\ \A o \in Objects \ {y} : Refs(o)' = Refs(o) /\ \A n \in Attrs : attr'[o][n] = attr[o][n]
  /\ Refs(y)' \subseteq InFile /\ \A n \in Attrs : attr'[y][n] \subseteq InFile
  /\ \A k, r \in Ids, n \in Attrs :
       byref_excl_'[<<k, n, r>>] =
         IF r = id'[y] THEN byref_excl_[<<k, n, r>>] + Named(attr'[y][n], k)
         ELSE byref_excl_[<<k, n, r>>]
  /\ UNCHANGED <<client, deletionVars>>

LEMMA EnterFacts ==
  ASSUME CInv, adding # <<>>, NEW y \in Objects, file[y] # "this",
         file' = [file EXCEPT ![y] = "this"], ObtainId(y, Top.id), Enter(y),
         \A o \in Objects \ {y} : attr'[o] = attr[o],
         \A n \in Attrs : attr'[y][n] \subseteq InFile,
         UNCHANGED <<client, deletionVars>>
  PROVE  Joins(y)
<1>1. /\ IInv /\ TypeOK /\ GraphsUnnamed /\ deleting = 0
      /\ Top.id \in Ids \cup {NoId}
  BY CarefulNames, TopFacts DEF CInv, IInv, AddingInv
<1>2. \A o \in Objects : file'[o] = IF o = y THEN "this" ELSE file[o]
  BY <1>1 DEF TypeOK, Types
<1>3. /\ id'[y] \in Ids /\ byid_[id'[y]] = Nobody
      /\ \A o \in Objects \ {y} : id'[o] = id[o]
  BY <1>1, ObtainFacts, NameIsFree
<1>4. \A k \in Ids : byid_'[k] = IF k = id'[y] THEN y ELSE byid_[k]
  BY <1>1, <1>3 DEF Enter, TypeOK
<1>5. \A o \in Objects \ {y} : Refs(o)' = Refs(o)
  BY DEF Refs
<1>6. Refs(y)' \subseteq InFile
  BY DEF Refs
<1>7. ASSUME NEW k \in Ids, NEW r \in Ids, NEW n \in Attrs
      PROVE  byref_excl_'[<<k, n, r>>] =
               IF r = id'[y] THEN byref_excl_[<<k, n, r>>] + Named(attr'[y][n], k)
               ELSE byref_excl_[<<k, n, r>>]
  <2>1. <<k, n, r>> \in Ids \X Attrs \X Ids
    OBVIOUS
  <2>2. QED
    BY <2>1 DEF Enter
<1>8. QED
  BY <1>1, <1>2, <1>3, <1>4, <1>5, <1>6, <1>7 DEF Joins

LEMMA JoinFacts ==
  ASSUME CInv, AddNew \/ \E y \in Objects : AddCopy(y)
  PROVE  \E y \in Objects : Joins(y)
<1>1. IInv /\ TypeOK /\ CopiesInv /\ RefsInv
  BY DEF CInv, IInv
<1>2. adding # <<>> /\ Top.todo = {} /\ Top.inst \in Objects
  BY <1>1, TopFacts DEF AddNew, AddCopy
<1>3. \A n \in Attrs : \A x \in attr[Top.inst][n] :
        /\ x \in Objects /\ entity_file_map_[x] \in Objects
        /\ file[entity_file_map_[x]] = "this" /\ entity_file_map_[x] # Nobody
  BY <1>1, <1>2, CopiesExist, NobodyAssumption
<1>4. CASE AddNew
  <2>1. /\ file[Top.inst] # "this" /\ file' = [file EXCEPT ![Top.inst] = "this"]
        /\ ObtainId(Top.inst, Top.id) /\ Enter(Top.inst)
        /\ file[Top.inst] = "none" /\ attr' = attr /\ UNCHANGED <<client, deletionVars>>
    BY <1>4 DEF AddNew
  <2>2. \A n \in Attrs : \A x \in attr[Top.inst][n] : x \in Refs(Top.inst)
    BY DEF Refs
  <2>3. \A x \in Refs(Top.inst) : file[x] # "other"
    BY <1>1, <1>2, <2>1 DEF RefsInv
  <2>4. \A n \in Attrs : attr'[Top.inst][n] \subseteq InFile
    <3>1. ASSUME NEW n \in Attrs, NEW x \in attr[Top.inst][n]
          PROVE  x \in InFile
      <4>1. entity_file_map_[x] = x
        BY <1>1, <1>3, <2>2, <2>3 DEF CopiesInv
      <4>2. QED
        BY <1>3, <4>1 DEF InFile
    <3>2. QED
      BY <2>1, <3>1
  <2>5. QED
    BY <1>2, <2>1, <2>4, EnterFacts
<1>5. ASSUME NEW y \in Objects, AddCopy(y)
      PROVE  Joins(y)
  <2>1. /\ file[y] # "this" /\ file' = [file EXCEPT ![y] = "this"]
        /\ ObtainId(y, Top.id) /\ Enter(y)
        /\ UNCHANGED <<client, deletionVars>>
    BY <1>5 DEF AddCopy
  <2>2. /\ \A o \in Objects \ {y} : attr'[o] = attr[o]
        /\ \A n \in Attrs : attr'[y][n] = {entity_file_map_[x] : x \in attr[Top.inst][n]}
    BY <1>1, <1>5 DEF AddCopy, TypeOK
  <2>3. \A n \in Attrs : attr'[y][n] \subseteq InFile
    BY <1>3, <2>2 DEF InFile
  <2>4. QED
    BY <1>2, <2>1, <2>2, <2>3, EnterFacts
<1>6. QED
  BY <1>2, <1>4, <1>5
------------------------------------------------------------------------------
(* One turn of the loop deletes e, whose name is k: what stays in the file   *)
(* does not refer to e any more, and where the inverses were exact they are *)
(* the same for all other names.                                            *)
Deletes(k, e) ==
  /\ deleting \in 1..Len(batch_deletion_ids_) /\ k = batch_deletion_ids_[deleting]
  /\ e = byid_[k] /\ e # Nobody /\ file[e] = "this" /\ id[e] = k
  /\ \A o \in Objects : file'[o] = IF o = e THEN "freed" ELSE file[o]
  /\ \A o \in Objects : id'[o] = IF o = e THEN NoId ELSE id[o]
  /\ \A o \in Objects : guid'[o] = IF o = e THEN NoGuid ELSE guid[o]
  /\ \A o \in Objects :
       entity_file_map_'[o] = IF entity_file_map_[o] = e THEN Nobody ELSE entity_file_map_[o]
  /\ \A j \in Ids : byid_'[j] = IF j = k THEN Nobody ELSE byid_[j]
  /\ byguid_' = Unguided(e)
  /\ deleting' = deleting + 1
  /\ UNCHANGED <<client, MaxId, batch_mode_, batch_deletion_ids_, adding>>

LEMMA DeleteOneFacts ==
  ASSUME CInv, DeleteOne
  PROVE  \E k \in Ids : \E e \in Objects :
           /\ Deletes(k, e)
           /\ DropReferencesTo(e, {byid_[r] : r \in Referring(k) \ Pending})
<1> DEFINE k == batch_deletion_ids_[deleting]
           e == byid_[k]
<1>1. TypeOK
  BY DEF CInv, IInv
<1>2. deleting \in 1..Len(batch_deletion_ids_) /\ k \in Ids /\ e # Nobody
  BY QueueFacts DEF DeleteOne, Deletable
<1>3. e \in Objects /\ file[e] = "this" /\ id[e] = k
  BY <1>2, NameFacts
<1>4. /\ DropReferencesTo(e, {byid_[r] : r \in Referring(k) \ Pending})
      /\ byguid_' = Unguided(e) /\ byid_' = [byid_ EXCEPT ![k] = Nobody] /\ Free(e)
      /\ deleting' = deleting + 1
      /\ UNCHANGED <<client, MaxId, batch_mode_, batch_deletion_ids_, adding>>
  BY DEF DeleteOne
<1> HIDE DEF e
<1>5. /\ \A o \in Objects : file'[o] = IF o = e THEN "freed" ELSE file[o]
      /\ \A o \in Objects : id'[o] = IF o = e THEN NoId ELSE id[o]
      /\ \A o \in Objects : guid'[o] = IF o = e THEN NoGuid ELSE guid[o]
      /\ \A o \in Objects :
           entity_file_map_'[o] = IF entity_file_map_[o] = e THEN Nobody ELSE entity_file_map_[o]
  BY <1>1, <1>3, <1>4 DEF Free, TypeOK, Types
<1>6. \A j \in Ids : byid_'[j] = IF j = k THEN Nobody ELSE byid_[j]
  BY <1>1, <1>4 DEF TypeOK
<1>7. Deletes(k, e)
  BY <1>2, <1>3, <1>4, <1>5, <1>6 DEF Deletes, e
<1> HIDE DEF k
<1>8. QED
  BY <1>2, <1>3, <1>4, <1>7

(* Removals are in order: the name that is deleted was not deleted before.  *)
LEMMA DeletedFacts ==
  ASSUME CInv, NEW k \in Ids, NEW e \in Objects, Deletes(k, e)
  PROVE  /\ k \in Pending /\ k \notin Deleted /\ Pending' = Pending
         /\ Deleted' = Deleted \cup {k}
         /\ Deleted \subseteq Ids /\ \A j \in Deleted : byid_[j] = Nobody /\ j \in Pending
         /\ \A j \in Pending \ Deleted' :
              /\ byid_[j] # Nobody
              /\ byid_[j] \notin Refs(e)
<1>1. /\ QueueInv /\ deleting \in 1..Len(batch_deletion_ids_)
      /\ Len(batch_deletion_ids_) \in Nat
      /\ k = batch_deletion_ids_[deleting] /\ e = byid_[k]
      /\ deleting' = deleting + 1 /\ batch_deletion_ids_' = batch_deletion_ids_
  BY QueueFacts DEF CInv, Deletes
<1>2. k \in Pending /\ Pending' = Pending
  BY <1>1, QueueFacts DEF Pending
<1>3. \A j \in Deleted : byid_[j] = Nobody /\ j \in Pending /\ j \in Ids
  BY <1>1, QueueFacts DEF QueueInv
<1>4. k \notin Deleted
  BY <1>1, <1>3 DEF Deletes
<1>5. Deleted' = Deleted \cup {k}
  <2>1. 1..deleting'-1 = (1..deleting-1) \cup {deleting}
    BY <1>1
  <2>2. Deleted' = {batch_deletion_ids_[n] : n \in 1..deleting'-1}
    BY <1>1 DEF Deleted
  <2>3. QED
    BY <1>1, <2>1, <2>2 DEF Deleted
<1>6. ASSUME NEW j \in Pending \ Deleted'
      PROVE  byid_[j] # Nobody /\ byid_[j] \notin Refs(e)
  <2>1. PICK n \in 1..Len(batch_deletion_ids_) : j = batch_deletion_ids_[n]
    BY QueueFacts
  <2>2. ~(n < deleting) /\ n # deleting
    BY <1>1, <1>5, <1>6, <2>1, QueueFacts
  <2>3. deleting <= n /\ ~(n <= deleting)
    BY <1>1, <2>2
  <2>4. deleting <= deleting
    BY <1>1
  <2>5. byid_[j] # Nobody
    BY <1>1, <2>1, <2>2 DEF QueueInv
  <2>6. byid_[j] \notin Refs(e)
    BY <1>1, <2>1, <2>3, <2>4 DEF QueueInv
  <2>7. QED
    BY <2>5, <2>6
<1>7. QED
  BY <1>2, <1>3, <1>4, <1>5, <1>6

(* What refers to e and stays is related to it.                             *)
LEMMA RelatedFacts ==
  ASSUME CInv, NEW k \in Ids, NEW e \in Objects, Deletes(k, e),
         NEW related, related = {byid_[r] : r \in Referring(k) \ Pending}
  PROVE  /\ \A o \in related : o \in Objects /\ file[o] = "this" /\ id[o] \notin Pending
         /\ \A o \in Objects : file[o] = "this" /\ id[o] \notin Pending /\ e \in Refs(o)
              => o \in related
         /\ e \notin related
<1>1. /\ QueueInv /\ InversesInv /\ e = byid_[k] /\ e # Nobody
      /\ id[e] = k /\ k \in Pending /\ k \notin Deleted
      /\ Deletable(k)
  BY DeletedFacts, NeverThrows DEF CInv, Deletes
<1>2. \A r \in Referring(k) : r \in Ids /\ byid_[r] # Nobody
  BY <1>1 DEF Deletable, Referring
<1>3. ASSUME NEW o \in related
      PROVE  o \in Objects /\ file[o] = "this" /\ id[o] \notin Pending
  <2>1. PICK r \in Referring(k) \ Pending : o = byid_[r]
    OBVIOUS
  <2>2. r \in Ids /\ byid_[r] # Nobody
    BY <1>2, <2>1
  <2> QED BY <2>1, <2>2, NameFacts
<1>4. ASSUME NEW o \in Objects, file[o] = "this", id[o] \notin Pending, e \in Refs(o)
      PROVE  o \in related
  <2>1. id[o] \in Ids /\ byid_[id[o]] = o /\ o # Nobody
    BY <1>4, NameFacts
  <2>2. PICK n \in Attrs : e \in attr[o][n]
    BY <1>4 DEF Refs
  <2>3. Implied(k, n, id[o])
    BY <1>1, <2>1, <2>2 DEF Implied
  <2>4. \A j \in Deleted : j \in Pending
    BY DeletedFacts
  <2>5. ~Stale(k, id[o])
    BY <1>1, <1>4, <2>4 DEF Stale
  <2>6. Exact(k, n, id[o])
    BY <1>1, <2>1, <2>5 DEF InversesInv
  <2>7. byref_excl_[<<k, n, id[o]>>] = 1
    BY <2>3, <2>6 DEF Exact
  <2>8. id[o] \in Referring(k)
    BY <2>1, <2>7 DEF Referring
  <2>9. QED
    BY <1>4, <2>1, <2>8
<1>5. QED
  BY <1>1, <1>3, <1>4

(* The references that are left.                                           *)
LEMMA DroppedFacts ==
  ASSUME CInv, NEW k \in Ids, NEW e \in Objects, Deletes(k, e),
         DropReferencesTo(e, {byid_[r] : r \in Referring(k) \ Pending})
  PROVE  /\ \A o \in Objects, n \in Attrs : attr'[o][n] \subseteq attr[o][n]
         /\ \A o \in Objects : Refs(o)' \subseteq Refs(o)
         /\ \A o \in Objects \ {e}, n \in Attrs : attr[o][n] \ {e} \subseteq attr'[o][n]
         /\ \A o \in Objects : file[o] = "this" /\ id[o] \notin Pending => e \notin Refs(o)'
<1> DEFINE related == {byid_[r] : r \in Referring(k) \ Pending}
<1>1. \A o \in Objects : file[o] = "this" /\ id[o] \notin Pending /\ e \in Refs(o) => o \in related
  BY RelatedFacts
<1>2. \A o \in Objects, n \in Attrs :
        attr'[o][n] = IF o \in related THEN attr[o][n] \ {e} ELSE IF o = e THEN {} ELSE attr[o][n]
  BY DEF DropReferencesTo
<1> HIDE DEF related
<1>3. \A o \in Objects : Refs(o)' \subseteq Refs(o)
  <2>1. \A o \in Objects, n \in Attrs : attr'[o][n] \subseteq attr[o][n]
    BY <1>2
  <2>2. QED
    BY <2>1 DEF Refs
<1>4. ASSUME NEW o \in Objects, file[o] = "this", id[o] \notin Pending
      PROVE  e \notin Refs(o)'
  <2>1. CASE o \in related
    BY <1>2, <2>1 DEF Refs
  <2>2. CASE o \notin related
    BY <1>1, <1>3, <1>4, <2>2
  <2>3. QED
    BY <2>1, <2>2
<1>5. QED
  BY <1>2, <1>3, <1>4

(* The inverses that are left: where they were exact, giving a changed list *)
(* to an attribute a second time makes no difference.                       *)
LEMMA RewiredFacts ==
  ASSUME CInv, NEW k \in Ids, NEW e \in Objects, Deletes(k, e),
         DropReferencesTo(e, {byid_[r] : r \in Referring(k) \ Pending}),
         NEW j \in Ids, NEW n \in Attrs, NEW r \in Ids
  PROVE  /\ ~batch_mode_ /\ j = k => byref_excl_'[<<j, n, r>>] = 0
         /\ j # k /\ Exact(j, n, r) =>
              byref_excl_'[<<j, n, r>>] =
                IF ~batch_mode_ /\ r = k /\ (\E x \in Refs(e) : id[x] = j)
                THEN 0 ELSE byref_excl_[<<j, n, r>>]
<1> DEFINE related == {byid_[q] : q \in Referring(k) \ Pending}
           Rewired(t) ==
             LET o == byid_[t[3]]
             IN IF o \in related /\ e \in attr[o][t[2]]
                THEN Reregistered(t, attr[o][t[2]] \ {e}, attr[o][t[2]] \ {e})
                ELSE byref_excl_[t]
           rewired == [t \in Ids \X Attrs \X Ids |-> Rewired(t)]
           list == attr[byid_[r]][n] \ {e}
<1>1. /\ TypeOK /\ <<j, n, r>> \in Ids \X Attrs \X Ids
      /\ e = byid_[k] /\ id[e] = k
  BY DEF CInv, IInv, Deletes
<1>2. byref_excl_' = IF batch_mode_ THEN rewired ELSE Forget(e, id[e], rewired)
  BY DEF DropReferencesTo
<1>3. rewired[<<j, n, r>>] =
        IF byid_[r] \in related /\ e \in attr[byid_[r]][n]
        THEN Reregistered(<<j, n, r>>, list, list) ELSE byref_excl_[<<j, n, r>>]
  <2>1. Rewired(<<j, n, r>>) =
          IF byid_[r] \in related /\ e \in attr[byid_[r]][n]
          THEN Reregistered(<<j, n, r>>, list, list) ELSE byref_excl_[<<j, n, r>>]
    <3>1. <<j, n, r>>[2] = n /\ <<j, n, r>>[3] = r
      OBVIOUS
    <3> HIDE DEF related
    <3> QED BY <3>1, Zenon
  <2> HIDE DEF Rewired
  <2>2. <<j, n, r>> \in Ids \X Attrs \X Ids
    BY <1>1
  <2>3. \A t \in Ids \X Attrs \X Ids : rewired[t] = Rewired(t)
    BY Zenon
  <2> QED BY <2>1, <2>2, <2>3, Zenon
<1> HIDE DEF Rewired, rewired
<1>4. \A o \in related : o \in Objects /\ file[o] = "this"
  <2>1. related = {byid_[q] : q \in Referring(k) \ Pending}
    OBVIOUS
  <2> HIDE DEF related
  <2> QED BY <2>1, RelatedFacts
<1> HIDE DEF related
<1>5. byref_excl_'[<<j, n, r>>] =
        IF ~batch_mode_ /\ (j = k \/ (r = k /\ \E x \in Refs(e) : id[x] = j))
        THEN 0 ELSE rewired[<<j, n, r>>]
  BY <1>1, <1>2 DEF Forget
<1>6. ASSUME j # k, Exact(j, n, r), byid_[r] \in related
      PROVE  Reregistered(<<j, n, r>>, list, list) = byref_excl_[<<j, n, r>>]
  <2>1. byid_[r] \in Objects /\ byid_[r] # Nobody
    BY <1>4, <1>6, NobodyAssumption
  <2>2. list \subseteq Objects
    BY <1>1, <2>1 DEF TypeOK
  <2>3. Named(list, j) = IF byid_[j] # Nobody /\ byid_[j] \in list THEN 1 ELSE 0
    BY <2>2, NamedFacts
  <2>4. byid_[j] # Nobody => byid_[j] # e
    BY <1>1, <1>6, NameFacts
  <2>5. byref_excl_[<<j, n, r>>] = Named(list, j)
    BY <1>6, <2>1, <2>3, <2>4 DEF Exact, Implied
  <2>6. Named(list, j) \in Nat
    BY <2>3
  <2>7. Reregistered(<<j, n, r>>, list, list) =
          (IF byref_excl_[<<j, n, r>>] - Named(list, j) < 0 THEN 0
           ELSE byref_excl_[<<j, n, r>>] - Named(list, j)) + Named(list, j)
    BY DEF Reregistered
  <2>8. QED
    BY <2>5, <2>6, <2>7
<1>7. QED
  BY <1>3, <1>5, <1>6
------------------------------------------------------------------------------
(* Steps that leave what a conjunct of the invariant is about.              *)
LEMMA RefsRest ==
  attr' = attr => \A o \in Objects : Refs(o)' = Refs(o)
BY DEF Refs

LEMMA QueueInvariant == CInv /\ [Next]_vars => QueueInv'
<1> SUFFICES ASSUME CInv, [Next]_vars PROVE QueueInv'
  OBVIOUS
<1>1. /\ TypeOK /\ QueueInv /\ AddingInv
      /\ Len(batch_deletion_ids_) \in Nat /\ deleting \in 0..Len(batch_deletion_ids_)+1
      /\ \A n \in 1..Len(batch_deletion_ids_) :
           batch_deletion_ids_[n] \in Ids /\ batch_deletion_ids_[n] \in Pending
  BY QueueFacts DEF CInv, IInv
<1>2. \A n \in 1..Len(batch_deletion_ids_) : ~(n < deleting) =>
        /\ byid_[batch_deletion_ids_[n]] # Nobody
        /\ byid_[batch_deletion_ids_[n]] \in Objects
        /\ id[byid_[batch_deletion_ids_[n]]] = batch_deletion_ids_[n]
        /\ file[byid_[batch_deletion_ids_[n]]] = "this"
  BY <1>1, NameFacts DEF QueueInv
<1>3. ASSUME UNCHANGED <<attr, byid_, deletionVars>>
      PROVE  QueueInv'
  BY <1>1, <1>3, RefsRest DEF QueueInv, deletionVars, Refs
<1>4. ASSUME NEW o \in Objects, NEW n \in Attrs, NEW list \in SUBSET Referable(o),
             SetAttribute(o, n, list)
      PROVE  QueueInv'
  <2>1. /\ \A p \in Objects : p # o => Refs(p)' = Refs(p)
        /\ id[o] \notin Pending /\ deleting = 0
    BY <1>4, SetFacts
  <2>2. UNCHANGED <<byid_, batch_mode_, batch_deletion_ids_, deleting>>
    BY <1>4 DEF SetAttribute, deletionVars
  <2>3. \A m \in 1..Len(batch_deletion_ids_) :
          Refs(byid_[batch_deletion_ids_[m]])' = Refs(byid_[batch_deletion_ids_[m]])
    BY <1>1, <1>2, <2>1, <2>2
  <2>4. QED
    BY <1>1, <2>2, <2>3 DEF QueueInv
<1>5. CASE AddNew \/ \E y \in Objects : AddCopy(y)
  <2>1. PICK y \in Objects : Joins(y)
    BY <1>5, JoinFacts
  <2>2. /\ deleting = 0 /\ UNCHANGED <<batch_mode_, batch_deletion_ids_, deleting>>
        /\ file[y] # "this" /\ id'[y] \in Ids /\ byid_[id'[y]] = Nobody
        /\ \A k \in Ids : byid_'[k] = IF k = id'[y] THEN y ELSE byid_[k]
        /\ \A o \in Objects \ {y} : Refs(o)' = Refs(o)
    BY <2>1 DEF Joins, deletionVars
  <2>3. \A n \in 1..Len(batch_deletion_ids_) :
          byid_'[batch_deletion_ids_[n]] = byid_[batch_deletion_ids_[n]]
    BY <1>1, <1>2, <2>2
  <2>4. \A m \in 1..Len(batch_deletion_ids_) :
          Refs(byid_[batch_deletion_ids_[m]])' = Refs(byid_[batch_deletion_ids_[m]])
    BY <1>1, <1>2, <2>2, <2>3
  <2>5. QED
    BY <1>1, <2>2, <2>3, <2>4 DEF QueueInv
<1>6. ASSUME NEW o \in Objects, RemoveEntity(o)
      PROVE  QueueInv'
  <2>1. /\ deleting = 0 /\ byid_[id[o]] = o /\ file[o] = "this"
        /\ batch_deletion_ids_' = IF id[o] \in Pending THEN batch_deletion_ids_
                                  ELSE Append(batch_deletion_ids_, id[o])
        /\ deleting' = IF batch_mode_ THEN 0 ELSE 1
        /\ UNCHANGED <<attr, byid_, batch_mode_>>
    BY <1>6 DEF RemoveEntity, AtRest, instanceVars, mapVars
  <2>2. \A r \in Objects : o \in Refs(r) => id[r] \notin Pending
    BY <1>6, CarefulCalls
  <2>3. \A p \in Objects : Refs(p)' = Refs(p)
    BY <2>1, RefsRest
  <2>4. ~batch_mode_ => Len(batch_deletion_ids_) = 0 /\ id[o] \notin Pending
    BY <1>1, <2>1, QueueFacts DEF QueueInv
  <2>5. \A n \in 1..Len(batch_deletion_ids_) : ~(n < deleting)
    BY <1>1, <2>1
  <2>6. CASE id[o] \in Pending
    <3>1. batch_mode_ /\ UNCHANGED <<batch_deletion_ids_, deleting>>
      BY <2>1, <2>4, <2>6
    <3>2. QED
      BY <1>3, <2>1, <3>1 DEF deletionVars
  <2>7. CASE id[o] \notin Pending
    <3>1. /\ Len(batch_deletion_ids_') = Len(batch_deletion_ids_) + 1
          /\ batch_deletion_ids_'[Len(batch_deletion_ids_) + 1] = id[o]
          /\ \A n \in 1..Len(batch_deletion_ids_) :
               batch_deletion_ids_'[n] = batch_deletion_ids_[n]
      <4>1. id[o] \in Ids /\ batch_deletion_ids_ \in Seq(Ids)
        BY <1>1, <2>1, NameFacts DEF TypeOK
      <4>2. QED
        BY <2>1, <2>7, <4>1, AppendProperties
    <3> DEFINE last == Len(batch_deletion_ids_) + 1
    <3>2. \A n \in 1..Len(batch_deletion_ids_') : n = last \/ n \in 1..Len(batch_deletion_ids_)
      BY <1>1, <3>1
    <3>3. \A n \in 1..Len(batch_deletion_ids_) : batch_deletion_ids_[n] # id[o]
      BY <1>1, <2>7
    <3>4. \A m, n \in 1..Len(batch_deletion_ids_') :
            batch_deletion_ids_'[m] = batch_deletion_ids_'[n] => m = n
      BY <1>1, <3>1, <3>2, <3>3 DEF QueueInv
    <3>5. \A n \in 1..Len(batch_deletion_ids_') :
            byid_'[batch_deletion_ids_'[n]] # Nobody /\ ~(n < deleting')
      <4>1. o # Nobody /\ deleting' \in {0, 1}
        BY <2>1, NobodyAssumption
      <4>2. \A n \in 1..Len(batch_deletion_ids_') : ~(n < deleting')
        BY <1>1, <3>1, <4>1
      <4>3. QED
        BY <1>2, <2>1, <2>5, <3>1, <3>2, <4>1, <4>2
    <3>6. ASSUME NEW m \in 1..Len(batch_deletion_ids_'), NEW n \in 1..Len(batch_deletion_ids_'),
                 byid_[batch_deletion_ids_'[m]] \in Refs(byid_[batch_deletion_ids_'[n]])
          PROVE  m <= n
      <4>1. CASE n = last
        BY <1>1, <3>1, <4>1
      <4>2. CASE n \in 1..Len(batch_deletion_ids_) /\ m = last
        <5>1. o \in Refs(byid_[batch_deletion_ids_[n]])
          BY <2>1, <3>1, <3>6, <4>2
        <5>2. QED
          BY <1>1, <1>2, <2>2, <2>5, <4>2, <5>1
      <4>3. CASE n \in 1..Len(batch_deletion_ids_) /\ m \in 1..Len(batch_deletion_ids_)
        <5>1. byid_[batch_deletion_ids_[m]] \in Refs(byid_[batch_deletion_ids_[n]])
          BY <3>1, <3>6, <4>3
        <5>2. deleting <= m /\ deleting <= n
          BY <2>1, <4>3
        <5>3. QED
          BY <1>1, <4>3, <5>1, <5>2 DEF QueueInv
      <4>4. QED
        BY <3>2, <4>1, <4>2, <4>3
    <3>7. \A m, n \in 1..Len(batch_deletion_ids_') :
            byid_'[batch_deletion_ids_'[m]] \in Refs(byid_[batch_deletion_ids_[n]])' => m <= n
      <4>1. ASSUME NEW m \in 1..Len(batch_deletion_ids_'), NEW n \in 1..Len(batch_deletion_ids_')
            PROVE  /\ byid_[batch_deletion_ids_'[n]] \in Objects
                   /\ byid_'[batch_deletion_ids_'[m]] = byid_[batch_deletion_ids_'[m]]
                   /\ byid_'[batch_deletion_ids_'[n]] = byid_[batch_deletion_ids_'[n]]
        BY <1>2, <2>1, <2>5, <3>1, <3>2
      <4>2. QED
        BY <2>3, <3>6, <4>1
    <3>8. ~batch_mode_' => Len(batch_deletion_ids_') = IF deleting' = 0 THEN 0 ELSE 1
      BY <2>1, <2>4, <3>1
    <3>9. QED
      BY <3>4, <3>5, <3>7, <3>8 DEF QueueInv
  <2>8. QED
    BY <2>6, <2>7
<1>7. CASE Batch \/ Unbatch
  <2>1. /\ deleting = 0 /\ deleting' \in {0, 1} /\ batch_mode_' = TRUE
        /\ UNCHANGED <<attr, byid_, batch_deletion_ids_>>
    BY <1>7 DEF Batch, Unbatch, AtRest, instanceVars, mapVars
  <2>2. \A n \in 1..Len(batch_deletion_ids_) : ~(n < deleting) /\ ~(n < deleting')
    BY <1>1, <2>1
  <2>3. \A m, n \in 1..Len(batch_deletion_ids_) :
          byid_[batch_deletion_ids_[m]] \in Refs(byid_[batch_deletion_ids_[n]]) => m <= n
    BY <1>1, <2>1 DEF QueueInv
  <2>4. \A m, n \in 1..Len(batch_deletion_ids_) :
          byid_[batch_deletion_ids_[m]] \in Refs(byid_[batch_deletion_ids_[n]])' => m <= n
    BY <1>2, <2>1, <2>2, <2>3, RefsRest
  <2>5. QED
    BY <1>1, <2>1, <2>2, <2>4 DEF QueueInv
<1>8. CASE DeleteOne
  <2>1. PICK k \in Ids, e \in Objects :
          /\ Deletes(k, e)
          /\ DropReferencesTo(e, {byid_[r] : r \in Referring(k) \ Pending})
    BY <1>8, DeleteOneFacts
  <2>2. \A o \in Objects : Refs(o)' \subseteq Refs(o)
    BY <2>1, DroppedFacts
  <2>3. /\ deleting \in 1..Len(batch_deletion_ids_) /\ k = batch_deletion_ids_[deleting]
        /\ \A j \in Ids : byid_'[j] = IF j = k THEN Nobody ELSE byid_[j]
        /\ deleting' = deleting + 1 /\ UNCHANGED <<batch_mode_, batch_deletion_ids_>>
    BY <2>1 DEF Deletes
  <2>4. \A n \in 1..Len(batch_deletion_ids_) :
          /\ batch_deletion_ids_[n] = k <=> n = deleting
          /\ n < deleting' <=> n < deleting \/ n = deleting
          /\ deleting' <= n => ~(n < deleting) /\ n # deleting /\ deleting <= n
    BY <1>1, <2>3 DEF QueueInv
  <2>5. \A n \in 1..Len(batch_deletion_ids_) :
          byid_'[batch_deletion_ids_[n]] = Nobody <=> n < deleting'
    BY <1>1, <2>3, <2>4 DEF QueueInv
  <2>6. ASSUME NEW m \in 1..Len(batch_deletion_ids_), NEW n \in 1..Len(batch_deletion_ids_),
               deleting' <= m, deleting' <= n,
               byid_'[batch_deletion_ids_[m]] \in Refs(byid_[batch_deletion_ids_[n]])'
        PROVE  m <= n
    <3>1. /\ byid_'[batch_deletion_ids_[m]] = byid_[batch_deletion_ids_[m]]
          /\ byid_'[batch_deletion_ids_[n]] = byid_[batch_deletion_ids_[n]]
          /\ byid_[batch_deletion_ids_[n]] \in Objects
          /\ deleting <= m /\ deleting <= n
      BY <1>1, <1>2, <2>3, <2>4, <2>6
    <3>2. byid_[batch_deletion_ids_[m]] \in Refs(byid_[batch_deletion_ids_[n]])
      BY <2>2, <2>3, <2>6, <3>1
    <3>3. QED
      BY <1>1, <3>1, <3>2 DEF QueueInv
  <2>7. deleting # 0 /\ deleting' # 0
    BY <1>1, <2>3
  <2>8. QED
    BY <1>1, <2>3, <2>5, <2>6, <2>7 DEF QueueInv
<1>9. CASE DeleteDone
  <2>1. batch_deletion_ids_' = <<>> /\ deleting' = 0
    BY <1>9 DEF DeleteDone
  <2>2. Len(batch_deletion_ids_') = 0
    BY <2>1
  <2>3. QED
    BY <2>1, <2>2 DEF QueueInv
<1>10. QED
  BY <1>3, <1>4, <1>5, <1>6, <1>7, <1>8, <1>9, CarefulCalls
     DEF Next, Client, Adding, Deleting, SetGuid, AddEntity, RecalculateIdCounter, AddReference,
         AddOwn, vars, instanceVars, mapVars
------------------------------------------------------------------------------
LEMMA RefsInvariant == CInv /\ [Next]_vars => RefsInv'
<1> SUFFICES ASSUME CInv, [Next]_vars PROVE RefsInv'
  OBVIOUS
<1>1. /\ TypeOK /\ RefsInv /\ LiveInv /\ Pending \subseteq Ids
      /\ \A o \in Objects : Refs(o) \subseteq Objects
  BY QueueFacts, RefsAreObjects DEF CInv, IInv
<1>2. ASSUME deleting = 0 \/ deleting' # 0, UNCHANGED <<file, id, attr, batch_deletion_ids_>>
      PROVE  RefsInv'
  BY <1>1, <1>2, RefsRest DEF RefsInv, Pending, Refs
<1>3. ASSUME NEW o \in Objects, NEW n \in Attrs, NEW list \in SUBSET Referable(o),
             SetAttribute(o, n, list)
      PROVE  RefsInv'
  <2>1. /\ deleting = 0
        /\ \A p \in Objects : \A x \in Refs(p)' : x \in Refs(p) \/ (p = o /\ x \in list)
        /\ \A x \in list : file[o] = "this" => file[x] = "this"
        /\ \A x \in list : file[o] = "none" =>
             file[x] \in {"this", "none"} /\ id[x] \notin Pending
    BY <1>3, SetFacts
  <2>2. UNCHANGED <<file, id, batch_deletion_ids_, deleting>>
    BY <1>3 DEF SetAttribute, deletionVars
  <2>3. QED
    BY <1>1, <2>1, <2>2 DEF RefsInv, Pending
<1>4. CASE AddNew \/ \E y \in Objects : AddCopy(y)
  <2>1. PICK y \in Objects : Joins(y)
    BY <1>4, JoinFacts
  <2>2. /\ deleting = 0 /\ UNCHANGED <<batch_deletion_ids_, deleting>>
        /\ file[y] # "this" /\ id'[y] \in Ids /\ byid_[id'[y]] = Nobody
        /\ \A o \in Objects : file'[o] = IF o = y THEN "this" ELSE file[o]
        /\ \A o \in Objects \ {y} : Refs(o)' = Refs(o) /\ id'[o] = id[o]
        /\ Refs(y)' \subseteq InFile
    BY <2>1 DEF Joins, deletionVars
  <2>3. Pending' = Pending
    BY <2>2 DEF Pending
  <2>4. id'[y] \notin Pending
    <3>1. \A n \in 1..Len(batch_deletion_ids_) : byid_[batch_deletion_ids_[n]] # Nobody
      BY <2>2, RestFacts
    <3>2. QED
      BY <2>2, <3>1, QueueFacts
  <2>5. ASSUME NEW o \in Objects, NEW x \in Refs(o)', file'[o] = "this"
        PROVE  file'[x] = "this"
    <3>1. CASE o = y
      BY <2>2, <3>1 DEF InFile
    <3>2. CASE o # y
      BY <1>1, <2>2, <2>5, <3>2 DEF RefsInv
    <3>3. QED
      BY <3>1, <3>2
  <2>6. ASSUME NEW o \in Objects, NEW x \in Refs(o)', file'[o] = "none"
        PROVE  file'[x] \in {"this", "none"} /\ id'[x] \notin Pending
    <3>1. o # y /\ x \in Refs(o) /\ x \in Objects /\ file[o] = "none"
      BY <1>1, <2>2, <2>6
    <3>2. QED
      BY <1>1, <2>2, <2>4, <3>1 DEF RefsInv
  <2>7. QED
    BY <2>3, <2>5, <2>6 DEF RefsInv
<1>5. ASSUME NEW o \in Objects, RemoveEntity(o)
      PROVE  RefsInv'
  <2>1. /\ deleting = 0 /\ byid_[id[o]] = o /\ file[o] = "this"
        /\ batch_deletion_ids_' = IF id[o] \in Pending THEN batch_deletion_ids_
                                  ELSE Append(batch_deletion_ids_, id[o])
        /\ \A r \in Objects : file[r] = "none" => o \notin Refs(r)
        /\ UNCHANGED <<attr, file, id>>
    BY <1>5 DEF RemoveEntity, AtRest, instanceVars
  <2>2. \A k \in Pending' : k = id[o] \/ k \in Pending
    <3>1. CASE id[o] \in Pending
      BY <2>1, <3>1 DEF Pending
    <3>2. CASE id[o] \notin Pending
      <4>1. id[o] \in Ids /\ batch_deletion_ids_ \in Seq(Ids)
        BY <1>1, <2>1, NameFacts DEF TypeOK
      <4>2. /\ Len(batch_deletion_ids_') = Len(batch_deletion_ids_) + 1
            /\ batch_deletion_ids_'[Len(batch_deletion_ids_) + 1] = id[o]
            /\ \A n \in 1..Len(batch_deletion_ids_) :
                 batch_deletion_ids_'[n] = batch_deletion_ids_[n]
        BY <2>1, <3>2, <4>1, AppendProperties
      <4>3. \A n \in 1..Len(batch_deletion_ids_') :
              n = Len(batch_deletion_ids_) + 1 \/ n \in 1..Len(batch_deletion_ids_)
        BY <4>2, QueueFacts
      <4>4. QED
        BY <4>2, <4>3 DEF Pending
    <3>3. QED
      BY <3>1, <3>2
  <2>3. \A p \in Objects : Refs(p)' = Refs(p)
    BY <2>1, RefsRest
  <2>4. ASSUME NEW p \in Objects, NEW x \in Refs(p), file[p] = "none"
        PROVE  file[x] \in {"this", "none"} /\ id[x] \notin Pending'
    <3>1. x \in Objects /\ file[x] \in {"this", "none"} /\ id[x] \notin Pending /\ x # o
      BY <1>1, <2>1, <2>4 DEF RefsInv
    <3>2. id[x] # id[o]
      BY <2>1, <3>1, NameFacts
    <3>3. QED
      BY <2>2, <3>1, <3>2
  <2>5. QED
    BY <1>1, <2>1, <2>3, <2>4 DEF RefsInv
<1>6. CASE DeleteOne
  <2>1. PICK k \in Ids, e \in Objects :
          /\ Deletes(k, e)
          /\ DropReferencesTo(e, {byid_[r] : r \in Referring(k) \ Pending})
    BY <1>6, DeleteOneFacts
  <2>2. /\ deleting # 0 /\ deleting' # 0 /\ id[e] = k /\ file[e] = "this"
        /\ \A o \in Objects : file'[o] = IF o = e THEN "freed" ELSE file[o]
        /\ \A o \in Objects : id'[o] = IF o = e THEN NoId ELSE id[o]
    BY <2>1, QueueFacts DEF Deletes
  <2>3. k \in Pending /\ Pending' = Pending
    BY <2>1, DeletedFacts
  <2>4. /\ \A o \in Objects : Refs(o)' \subseteq Refs(o)
        /\ \A o \in Objects : file[o] = "this" /\ id[o] \notin Pending => e \notin Refs(o)'
    BY <2>1, DroppedFacts
  <2>5. ASSUME NEW o \in Objects, NEW x \in Refs(o)', file'[o] = "this"
        PROVE  file'[x] = "this" \/ (file'[x] = "freed" /\ id'[o] \in Pending)
    <3>1. o # e /\ file[o] = "this" /\ x \in Refs(o) /\ x \in Objects /\ id'[o] = id[o]
      BY <1>1, <2>2, <2>4, <2>5
    <3>2. CASE x = e
      BY <2>2, <2>4, <2>5, <3>1, <3>2
    <3>3. CASE x # e
      BY <1>1, <2>2, <3>1, <3>3 DEF RefsInv
    <3>4. QED
      BY <3>2, <3>3
  <2>6. ASSUME NEW o \in Objects, NEW x \in Refs(o)', file'[o] = "none"
        PROVE  file'[x] \in {"this", "none"} /\ id'[x] \notin Pending
    <3>1. file[o] = "none" /\ x \in Refs(o) /\ x \in Objects
      BY <1>1, <2>2, <2>4, <2>6
    <3>2. file[x] \in {"this", "none"} /\ id[x] \notin Pending
      BY <1>1, <3>1 DEF RefsInv
    <3>3. QED
      BY <2>2, <2>3, <3>1, <3>2
  <2>7. QED
    BY <2>2, <2>3, <2>5, <2>6 DEF RefsInv
<1>7. CASE DeleteDone
  <2>1. /\ deleting > Len(batch_deletion_ids_)
        /\ batch_deletion_ids_' = <<>> /\ UNCHANGED <<file, id, attr>>
    BY <1>7 DEF DeleteDone, instanceVars
  <2>2. Pending' = {}
    <3>1. Len(batch_deletion_ids_') = 0
      BY <2>1
    <3>2. QED
      BY <3>1 DEF Pending
  <2>3. \A o \in Objects : file[o] = "this" => id[o] \notin Pending
    <3>1. \A n \in 1..Len(batch_deletion_ids_) : n < deleting
      BY <2>1, QueueFacts
    <3>2. \A n \in Pending : byid_[n] = Nobody
      BY <3>1, QueueFacts DEF CInv, QueueInv
    <3>3. QED
      BY <3>2, NameFacts
  <2>4. \A o \in Objects : Refs(o)' = Refs(o)
    BY <2>1, RefsRest
  <2>5. QED
    BY <1>1, <2>1, <2>2, <2>3, <2>4 DEF RefsInv
<1>8. CASE Unbatch
  <2>1. deleting = 0 /\ UNCHANGED <<file, id, attr, batch_deletion_ids_>>
    BY <1>8 DEF Unbatch, AtRest, instanceVars
  <2>2. QED
    BY <1>2, <2>1
<1>9. CASE UNCHANGED <<file, id, attr, batch_deletion_ids_, deleting>>
  BY <1>2, <1>9
<1>10. QED
  BY <1>3, <1>4, <1>5, <1>6, <1>7, <1>8, <1>9, CarefulCalls
     DEF Next, Client, Adding, Deleting, SetGuid, AddEntity, RecalculateIdCounter, AddReference,
         AddOwn, Batch, vars, instanceVars, mapVars, deletionVars
------------------------------------------------------------------------------
(* An entry is exact if it is so for what it is about.                      *)
LEMMA ExactRests ==
  ASSUME UNCHANGED <<attr, byid_, byref_excl_>>
  PROVE  \A k, r \in Ids, n \in Attrs : Exact(k, n, r)' <=> Exact(k, n, r)
BY DEF Exact, Implied

(* An instance that joins the file brings its inverses.                     *)
LEMMA InversesJoin ==
  ASSUME CInv, NEW y \in Objects, Joins(y)
  PROVE  InversesInv'
<1>1. /\ deleting = 0 /\ file[y] # "this" /\ id'[y] \in Ids /\ byid_[id'[y]] = Nobody
      /\ y # Nobody
      /\ \A o \in Objects : file'[o] = IF o = y THEN "this" ELSE file[o]
      /\ \A o \in Objects \ {y} : id'[o] = id[o]
      /\ \A k \in Ids : byid_'[k] = IF k = id'[y] THEN y ELSE byid_[k]
      /\ \A o \in Objects \ {y} : \A n \in Attrs : attr'[o][n] = attr[o][n]
      /\ \A n \in Attrs : attr'[y][n] \subseteq InFile
      /\ \A k, r \in Ids, n \in Attrs :
           byref_excl_'[<<k, n, r>>] =
             IF r = id'[y] THEN byref_excl_[<<k, n, r>>] + Named(attr'[y][n], k)
             ELSE byref_excl_[<<k, n, r>>]
  BY NobodyAssumption DEF Joins
<1>2. y \notin InFile /\ InFile \subseteq Objects
  BY <1>1 DEF InFile
<1>3. \A o \in Objects : file'[o] # "this" => id'[o] = NoId
  BY <1>1, NameFacts
<1>4. ASSUME NEW k \in Ids, NEW r \in Ids, NEW n \in Attrs
      PROVE  Exact(k, n, r)'
  <2>1. Exact(k, n, r)
    BY <1>1, RestFacts
  <2>2. CASE r = id'[y]
    <3>1. byref_excl_[<<k, n, r>>] = 0
      BY <1>1, <2>1, <2>2 DEF Exact, Implied
    <3>2. attr'[y][n] \subseteq Objects
      BY <1>1, <1>2
    <3>3. Named(attr'[y][n], k) = IF byid_[k] # Nobody /\ byid_[k] \in attr'[y][n] THEN 1 ELSE 0
      BY <3>2, NamedFacts
    <3>4. byref_excl_'[<<k, n, r>>] =
            IF byid_[k] # Nobody /\ byid_[k] \in attr'[y][n] THEN 1 ELSE 0
      BY <1>1, <2>2, <3>1, <3>3
    <3>5. Implied(k, n, r)' <=> byid_[k] # Nobody /\ byid_[k] \in attr'[y][n]
      <4>1. byid_'[r] = y /\ y \notin attr'[y][n]
        BY <1>1, <1>2, <2>2
      <4>2. CASE k = id'[y]
        BY <1>1, <4>1, <4>2 DEF Implied
      <4>3. CASE k # id'[y]
        BY <1>1, <4>1, <4>3 DEF Implied
      <4>4. QED
        BY <4>2, <4>3
    <3>6. QED
      BY <3>4, <3>5 DEF Exact
  <2>3. CASE r # id'[y]
    <3>1. byid_'[r] = byid_[r] /\ byref_excl_'[<<k, n, r>>] = byref_excl_[<<k, n, r>>]
      BY <1>1, <2>3
    <3>2. byid_[r] # Nobody =>
            /\ byid_[r] \in Objects \ {y} /\ byid_[r] \in InFile
            /\ attr'[byid_[r]][n] = attr[byid_[r]][n]
            /\ y \notin attr[byid_[r]][n]
      <4>1. byid_[r] # Nobody => byid_[r] \in Objects \ {y} /\ byid_[r] \in InFile
        BY <1>1, NameFacts DEF InFile
      <4>2. byid_[r] # Nobody => attr[byid_[r]][n] \subseteq InFile
        BY <1>1, <4>1, RestFacts
      <4>3. QED
        BY <1>1, <1>2, <4>1, <4>2
    <3>3. Implied(k, n, r)' <=> Implied(k, n, r)
      <4>1. CASE k = id'[y]
        BY <1>1, <3>1, <3>2, <4>1 DEF Implied
      <4>2. CASE k # id'[y]
        BY <1>1, <3>1, <3>2, <4>2 DEF Implied
      <4>3. QED
        BY <4>1, <4>2
    <3>4. QED
      BY <2>1, <3>1, <3>3 DEF Exact
  <2>4. QED
    BY <2>2, <2>3
<1>5. QED
  BY <1>3, <1>4 DEF InversesInv

(* An attribute that is set has its inverses registered anew.               *)
LEMMA InversesSet ==
  ASSUME CInv, NEW o \in Objects, NEW n \in Attrs, NEW list \in SUBSET Referable(o),
         SetAttribute(o, n, list)
  PROVE  InversesInv'
<1>1. /\ deleting = 0 /\ list \subseteq Objects /\ TypeOK /\ o # Nobody
      /\ \A p \in Objects, m \in Attrs :
           attr'[p][m] = IF p = o /\ m = n THEN list ELSE attr[p][m]
  BY SetFacts, NobodyAssumption DEF CInv, IInv
<1>2. UNCHANGED <<file, id, byid_>>
  BY DEF SetAttribute
<1>3. \A k, r \in Ids, m \in Attrs :
        byref_excl_'[<<k, m, r>>] =
          IF file[o] = "this" /\ m = n /\ r = id[o]
          THEN Reregistered(<<k, m, r>>, attr[o][n], list) ELSE byref_excl_[<<k, m, r>>]
  <2>1. byref_excl_' =
          [e \in Ids \X Attrs \X Ids |->
             IF file[o] = "this" /\ e[2] = n /\ e[3] = id[o]
             THEN Reregistered(e, attr[o][n], list) ELSE byref_excl_[e]]
    BY DEF SetAttribute
  <2>2. ASSUME NEW k \in Ids, NEW r \in Ids, NEW m \in Attrs
        PROVE  <<k, m, r>> \in Ids \X Attrs \X Ids
    OBVIOUS
  <2>3. QED
    BY <2>1, <2>2
<1>4. ASSUME NEW k \in Ids, NEW r \in Ids, NEW m \in Attrs
      PROVE  Exact(k, m, r)'
  <2>1. Exact(k, m, r)
    BY <1>1, RestFacts
  <2>2. CASE file[o] = "this" /\ m = n /\ r = id[o]
    <3>1. byid_[r] = o
      BY <2>2, NameFacts
    <3>2. attr[o][n] \subseteq Objects
      BY <1>1 DEF TypeOK
    <3>3. /\ Named(attr[o][n], k) = IF byid_[k] # Nobody /\ byid_[k] \in attr[o][n] THEN 1 ELSE 0
          /\ Named(list, k) = IF byid_[k] # Nobody /\ byid_[k] \in list THEN 1 ELSE 0
      BY <1>1, <3>2, NamedFacts
    <3>4. byref_excl_[<<k, m, r>>] = Named(attr[o][n], k)
      BY <1>1, <2>1, <2>2, <3>1, <3>3 DEF Exact, Implied
    <3>5. Reregistered(<<k, m, r>>, attr[o][n], list) =
            (IF byref_excl_[<<k, m, r>>] - Named(attr[o][n], k) < 0 THEN 0
             ELSE byref_excl_[<<k, m, r>>] - Named(attr[o][n], k)) + Named(list, k)
      BY DEF Reregistered
    <3>6. Reregistered(<<k, m, r>>, attr[o][n], list) = Named(list, k)
      <4>1. Named(list, k) \in Nat /\ Named(attr[o][n], k) \in Nat
        BY <3>3
      <4>2. QED
        BY <3>4, <3>5, <4>1
    <3>7. byref_excl_'[<<k, m, r>>] = Named(list, k)
      BY <1>3, <2>2, <3>6
    <3>8. Implied(k, m, r)' <=> byid_[k] # Nobody /\ byid_[k] \in list
      BY <1>1, <1>2, <2>2, <3>1 DEF Implied
    <3>9. QED
      BY <3>3, <3>7, <3>8 DEF Exact
  <2>3. CASE ~(file[o] = "this" /\ m = n /\ r = id[o])
    <3>1. byref_excl_'[<<k, m, r>>] = byref_excl_[<<k, m, r>>]
      BY <1>3, <2>3
    <3>2. byid_[r] # Nobody => byid_[r] \in Objects /\ (byid_[r] = o => m # n)
      BY <2>3, NameFacts
    <3>3. Implied(k, m, r)' <=> Implied(k, m, r)
      BY <1>1, <1>2, <3>2 DEF Implied
    <3>4. QED
      BY <2>1, <3>1, <3>3 DEF Exact
  <2>4. QED
    BY <2>2, <2>3
<1>5. \A p \in Objects : file'[p] # "this" => id'[p] = NoId
  BY <1>2, NameFacts
<1>6. QED
  BY <1>4, <1>5 DEF InversesInv

(* A turn of the loop leaves the inverses of what is not stale exact.       *)
LEMMA InversesDelete ==
  ASSUME CInv, DeleteOne
  PROVE  InversesInv'
<1>1. PICK k \in Ids, e \in Objects :
        /\ Deletes(k, e)
        /\ DropReferencesTo(e, {byid_[r] : r \in Referring(k) \ Pending})
  BY DeleteOneFacts
<1>2. /\ e = byid_[k] /\ e # Nobody /\ id[e] = k
      /\ \A o \in Objects : file'[o] = IF o = e THEN "freed" ELSE file[o]
      /\ \A o \in Objects : id'[o] = IF o = e THEN NoId ELSE id[o]
      /\ \A j \in Ids : byid_'[j] = IF j = k THEN Nobody ELSE byid_[j]
      /\ batch_mode_' = batch_mode_
      /\ InversesInv
  BY <1>1 DEF Deletes, CInv
<1>3. /\ k \in Pending /\ k \notin Deleted /\ Pending' = Pending
      /\ Deleted' = Deleted \cup {k}
      /\ \A j \in Pending \ Deleted' : byid_[j] # Nobody /\ byid_[j] \notin Refs(e)
  BY <1>1, DeletedFacts
<1>4. /\ \A o \in Objects, n \in Attrs : attr'[o][n] \subseteq attr[o][n]
      /\ \A o \in Objects \ {e}, n \in Attrs : attr[o][n] \ {e} \subseteq attr'[o][n]
  BY <1>1, DroppedFacts
<1>5. \A o \in Objects : file'[o] # "this" => id'[o] = NoId
  BY <1>2, NameFacts
<1>6. ASSUME NEW j \in Ids, NEW r \in Ids, NEW n \in Attrs, ~Stale(j, r)'
      PROVE  Exact(j, n, r)'
  <2>1. ~Stale(j, r)
    BY <1>2, <1>3, <1>6 DEF Stale
  <2>2. Exact(j, n, r)
    BY <1>2, <2>1 DEF InversesInv
  <2>3. CASE j = k
    <3>1. ~batch_mode_
      BY <1>2, <1>3, <1>6, <2>3 DEF Stale
    <3>2. byref_excl_'[<<j, n, r>>] = 0
      BY <1>1, <2>3, <3>1, RewiredFacts
    <3>3. ~Implied(j, n, r)'
      BY <1>2, <2>3 DEF Implied
    <3>4. QED
      BY <3>2, <3>3 DEF Exact
  <2>4. CASE j # k
    <3>1. byref_excl_'[<<j, n, r>>] =
            IF ~batch_mode_ /\ r = k /\ (\E x \in Refs(e) : id[x] = j)
            THEN 0 ELSE byref_excl_[<<j, n, r>>]
      BY <1>1, <2>2, <2>4, RewiredFacts
    <3>2. CASE r = k
      <4>1. ~Implied(j, n, r)'
        BY <1>2, <3>2 DEF Implied
      <4>2. attr[e][n] \subseteq Refs(e)
        BY DEF Refs
      <4>3. CASE ~batch_mode_
        <5>1. Implied(j, n, r) => \E x \in Refs(e) : id[x] = j
          BY <1>2, <3>2, <4>2, NameFacts DEF Implied
        <5>2. byref_excl_'[<<j, n, r>>] = 0
          <6>1. CASE Implied(j, n, r)
            BY <3>1, <3>2, <4>3, <5>1, <6>1
          <6>2. CASE ~Implied(j, n, r)
            BY <2>2, <3>1, <6>2 DEF Exact
          <6>3. QED
            BY <6>1, <6>2
        <5>3. QED
          BY <4>1, <5>2 DEF Exact
      <4>4. CASE batch_mode_
        <5>1. j \in Pending \ Deleted'
          BY <1>2, <1>3, <1>6, <3>2, <4>4 DEF Stale
        <5>2. ~Implied(j, n, r)
          BY <1>2, <1>3, <3>2, <4>2, <5>1 DEF Implied
        <5>3. byref_excl_'[<<j, n, r>>] = 0
          BY <2>2, <3>1, <4>4, <5>2 DEF Exact
        <5>4. QED
          BY <4>1, <5>3 DEF Exact
      <4>5. QED
        BY <4>3, <4>4
    <3>3. CASE r # k
      <4>1. byref_excl_'[<<j, n, r>>] = byref_excl_[<<j, n, r>>]
        BY <3>1, <3>3
      <4>2. byid_'[j] = byid_[j] /\ byid_'[r] = byid_[r]
        BY <1>2, <2>4, <3>3
      <4>3. byid_[j] # Nobody => byid_[j] # e
        BY <1>2, <2>4, NameFacts
      <4>4. byid_[r] # Nobody => byid_[r] \in Objects \ {e}
        BY <1>2, <3>3, NameFacts
      <4>5. Implied(j, n, r)' <=> Implied(j, n, r)
        BY <1>4, <4>2, <4>3, <4>4 DEF Implied
      <4>6. QED
        BY <2>2, <4>1, <4>5 DEF Exact
    <3>4. QED
      BY <3>2, <3>3
  <2>5. QED
    BY <2>3, <2>4
<1>7. QED
  BY <1>5, <1>6 DEF InversesInv

(* The end of a batch erases what is stale.                                 *)
LEMMA InversesDone ==
  ASSUME CInv, DeleteDone
  PROVE  InversesInv'
<1>1. /\ deleting > Len(batch_deletion_ids_) /\ batch_mode_' = FALSE
      /\ UNCHANGED <<file, id, attr, byid_>>
      /\ InversesInv /\ QueueInv
  BY DEF DeleteDone, instanceVars, CInv
<1>2. \A n \in 1..Len(batch_deletion_ids_) : n < deleting
  BY <1>1, QueueFacts
<1>3. /\ \A j \in Pending : byid_[j] = Nobody
      /\ \A j \in Deleted : j \in Pending
  BY <1>1, <1>2, QueueFacts DEF QueueInv
<1>4. ASSUME NEW j \in Ids, NEW r \in Ids, NEW n \in Attrs
      PROVE  Exact(j, n, r)'
  <2>1. Implied(j, n, r)' <=> Implied(j, n, r)
    BY <1>1 DEF Implied
  <2>2. byref_excl_'[<<j, n, r>>] =
          IF batch_mode_ /\ (j \in Pending \/ r \in Pending) THEN 0 ELSE byref_excl_[<<j, n, r>>]
    <3>1. <<j, n, r>> \in Ids \X Attrs \X Ids
      OBVIOUS
    <3>2. CASE batch_mode_
      BY <3>1, <3>2 DEF DeleteDone
    <3>3. CASE ~batch_mode_
      BY <3>3 DEF DeleteDone
    <3>4. QED
      BY <3>2, <3>3
  <2>3. CASE batch_mode_ /\ (j \in Pending \/ r \in Pending)
    <3>1. ~Implied(j, n, r)'
      BY <1>3, <2>1, <2>3 DEF Implied
    <3>2. QED
      BY <2>2, <2>3, <3>1 DEF Exact
  <2>4. CASE ~(batch_mode_ /\ (j \in Pending \/ r \in Pending))
    <3>1. Exact(j, n, r)
      BY <1>1, <1>3, <2>4 DEF InversesInv, Stale
    <3>2. QED
      BY <2>1, <2>2, <2>4, <3>1 DEF Exact
  <2>5. QED
    BY <2>3, <2>4
<1>5. QED
  BY <1>1, <1>4 DEF InversesInv

LEMMA InversesInvariant == CInv /\ [Next]_vars => InversesInv'
<1> SUFFICES ASSUME CInv, [Next]_vars PROVE InversesInv'
  OBVIOUS
<1>1. ASSUME deleting = 0 \/ UNCHANGED deletionVars, UNCHANGED <<file, id, attr, byid_, byref_excl_>>
      PROVE  InversesInv'
  <2>1. \A k, r \in Ids, n \in Attrs : Exact(k, n, r)' <=> Exact(k, n, r)
    BY <1>1, ExactRests
  <2>2. \A o \in Objects : file'[o] # "this" => id'[o] = NoId
    BY <1>1, NameFacts
  <2>3. CASE deleting = 0
    BY <2>1, <2>2, <2>3, RestFacts DEF InversesInv
  <2>4. CASE UNCHANGED deletionVars
    <3>1. \A k, r \in Ids : Stale(k, r)' <=> Stale(k, r)
      BY <2>4 DEF Stale, Deleted, Pending, deletionVars
    <3>2. QED
      BY <2>1, <2>2, <3>1 DEF CInv, InversesInv
  <2>5. QED
    BY <1>1, <2>3, <2>4
<1>2. CASE AddNew \/ \E y \in Objects : AddCopy(y)
  BY <1>2, JoinFacts, InversesJoin
<1>3. CASE (\E o \in Objects : RemoveEntity(o)) \/ Batch \/ Unbatch
  <2>1. deleting = 0 /\ UNCHANGED <<file, id, attr, byid_, byref_excl_>>
    BY <1>3 DEF RemoveEntity, Batch, Unbatch, AtRest, instanceVars, mapVars
  <2>2. QED
    BY <1>1, <2>1
<1>4. CASE UNCHANGED <<file, id, attr, byid_, byref_excl_, deletionVars>>
  BY <1>1, <1>4
<1>5. QED
  BY <1>2, <1>3, <1>4, CarefulCalls, InversesSet, InversesDelete, InversesDone
     DEF Next, Client, Adding, Deleting, SetGuid, AddEntity, RecalculateIdCounter, AddReference,
         AddOwn, vars, instanceVars, mapVars
------------------------------------------------------------------------------
(* The innermost call is for an instance of the lowest rank, and for none   *)
(* that another call in progress is for.                                    *)
LEMMA CallFacts ==
  ASSUME CInv, adding # <<>>
  PROVE  /\ Len(adding) \in Nat \ {0} /\ Top.inst \in Objects
         /\ entity_file_map_[Top.inst] = Nobody
         /\ \A n \in 1..Len(adding) :
              /\ adding[n].inst \in Objects /\ Rank[adding[n].inst] \in Nat
              /\ n # Len(adding) => Rank[Top.inst] < Rank[adding[n].inst]
              /\ n # Len(adding) => adding[n].inst # Top.inst
<1>1. /\ TypeOK /\ CopiesInv /\ Len(adding) \in Nat \ {0} /\ Len(adding) \in 1..Len(adding)
      /\ Top.inst \in Objects /\ Top = adding[Len(adding)]
      /\ \A n \in 1..Len(adding) : adding[n].inst \in Objects
  BY TopFacts DEF CInv, IInv, CallType, Top
<1>2. \A o \in Objects : Rank[o] \in Nat
  BY RankAssumption
<1>3. \A n \in 1..Len(adding) : n # Len(adding) => Rank[Top.inst] < Rank[adding[n].inst]
  <2>1. \A n \in 1..Len(adding) : n # Len(adding) => n < Len(adding)
    BY <1>1
  <2>2. QED
    BY <1>1, <2>1 DEF CopiesInv
<1>4. \A n \in 1..Len(adding) : n # Len(adding) => adding[n].inst # Top.inst
  <2>1. ~(Rank[Top.inst] < Rank[Top.inst])
    BY <1>1, <1>2
  <2>2. QED
    BY <1>3, <2>1
<1>5. entity_file_map_[Top.inst] = Nobody
  BY <1>1 DEF CopiesInv
<1>6. QED
  BY <1>1, <1>2, <1>3, <1>4, <1>5

(* The innermost call returns; the instance it was for may have a copy now. *)
LEMMA CopiesReturn ==
  ASSUME CInv, adding # <<>>, adding' = SubSeq(adding, 1, Len(adding) - 1),
         \A o \in Objects \ {Top.inst} : entity_file_map_'[o] = entity_file_map_[o],
         entity_file_map_'[Top.inst] # Nobody =>
           /\ file'[Top.inst] # "other" => entity_file_map_'[Top.inst] = Top.inst
           /\ Rank[entity_file_map_'[Top.inst]] = Rank[Top.inst],
         \A o \in Objects : file'[o] # "other" => file[o] # "other",
         \A o \in Objects : \A x \in Refs(o)' : Rank[x] < Rank[o]
  PROVE  CopiesInv'
<1>1. TypeOK /\ CopiesInv
  BY DEF CInv, IInv
<1>2. /\ Len(adding) \in Nat \ {0} /\ Len(adding') = Len(adding) - 1
      /\ \A n \in 1..Len(adding') : n \in 1..Len(adding) /\ adding'[n] = adding[n]
  BY <1>1, TopFacts, PopFacts
<1>3. \A n \in 1..Len(adding') : n # Len(adding)
  BY <1>2
<1>4. \A n \in 1..Len(adding') : adding[n].inst \in Objects \ {Top.inst}
  BY <1>2, <1>3, CallFacts
<1>5. \A n \in 1..Len(adding') : entity_file_map_'[adding'[n].inst] = Nobody
  BY <1>1, <1>2, <1>4 DEF CopiesInv
<1>6. \A n \in 1..Len(adding') : \A m \in 1..Len(adding') :
        m < n => Rank[adding'[n].inst] < Rank[adding'[m].inst]
  BY <1>1, <1>2 DEF CopiesInv
<1>7. \A o \in Objects : entity_file_map_'[o] # Nobody =>
        /\ file'[o] # "other" => entity_file_map_'[o] = o
        /\ Rank[entity_file_map_'[o]] = Rank[o]
  BY <1>1 DEF CopiesInv
<1>8. QED
  BY <1>5, <1>6, <1>7 DEF CopiesInv

LEMMA CopiesInvariant == CInv /\ [Next]_vars => CopiesInv'
<1> SUFFICES ASSUME CInv, [Next]_vars PROVE CopiesInv'
  OBVIOUS
<1>1. /\ TypeOK /\ CopiesInv /\ AddingInv /\ LiveInv
      /\ \A o \in Objects : Refs(o) \subseteq Objects
  BY RefsAreObjects DEF CInv, IInv
<1>2. ASSUME NEW o \in Objects, NEW n \in Attrs, NEW list \in SUBSET Referable(o),
             SetAttribute(o, n, list)
      PROVE  CopiesInv'
  <2>1. /\ \A p \in Objects : \A x \in Refs(p)' : x \in Refs(p) \/ (p = o /\ x \in list)
        /\ \A x \in list : Rank[x] < Rank[o]
    BY <1>2, SetFacts
  <2>2. UNCHANGED <<file, entity_file_map_, adding>>
    BY <1>2 DEF SetAttribute
  <2>3. QED
    BY <1>1, <2>1, <2>2 DEF CopiesInv
<1>3. ASSUME NEW o \in Objects, NEW k \in client.explicit \cup {NoId}, AddEntity(o, k)
      PROVE  CopiesInv'
  <2>1. /\ adding' = <<Call(o, k)>> /\ entity_file_map_[o] = Nobody
        /\ UNCHANGED <<file, attr, entity_file_map_>>
    BY <1>3 DEF AddEntity, instanceVars, mapVars
  <2>2. Len(adding') = 1 /\ adding'[1].inst = o
    BY <2>1 DEF Call
  <2>3. \A p \in Objects : Refs(p)' = Refs(p)
    BY <2>1, RefsRest
  <2>4. QED
    BY <1>1, <2>1, <2>2, <2>3 DEF CopiesInv
<1>4. ASSUME NEW x \in Objects, AddReference(x)
      PROVE  CopiesInv'
  <2>1. adding # <<>> /\ x \in Top.todo /\ UNCHANGED <<file, attr, entity_file_map_>>
    BY <1>4 DEF AddReference, instanceVars, mapVars
  <2>2. /\ Len(adding) \in Nat \ {0} /\ Len(adding) \in 1..Len(adding) /\ Top.inst \in Objects
        /\ \A n \in 1..Len(adding) :
             /\ adding[n].inst \in Objects /\ Rank[adding[n].inst] \in Nat
             /\ n # Len(adding) => Rank[Top.inst] < Rank[adding[n].inst]
    BY <2>1, CallFacts
  <2>3. Rank[x] < Rank[Top.inst] /\ Rank[x] \in Nat /\ Rank[Top.inst] \in Nat
    BY <1>1, <2>1, <2>2, RankAssumption DEF AddingInv, CopiesInv, Top
  <2>4. \A n \in 1..Len(adding) : Rank[x] < Rank[adding[n].inst]
    BY <2>2, <2>3 DEF Top
  <2>5. /\ \A n \in 1..Len(adding) : adding'[n].inst = adding[n].inst
        /\ IF entity_file_map_[x] = Nobody
             THEN Len(adding') = Len(adding) + 1 /\ adding'[Len(adding)+1].inst = x
             ELSE Len(adding') = Len(adding)
    <3>1. Call(x, NoId).inst = x
      BY DEF Call
    <3>2. QED
      BY <1>1, <1>4, <3>1, ReferenceFacts
  <2>6. \A p \in Objects : Refs(p)' = Refs(p)
    BY <2>1, RefsRest
  <2>7. CASE entity_file_map_[x] = Nobody
    <3>1. \A n \in 1..Len(adding') : n = Len(adding) + 1 \/ n \in 1..Len(adding)
      BY <2>2, <2>5, <2>7
    <3>2. \A n \in 1..Len(adding') : entity_file_map_[adding'[n].inst] = Nobody
      BY <1>1, <2>5, <2>7, <3>1 DEF CopiesInv
    <3>3. ASSUME NEW n \in 1..Len(adding'), NEW m \in 1..Len(adding'), m < n
          PROVE  Rank[adding'[n].inst] < Rank[adding'[m].inst]
      <4>1. m \in 1..Len(adding)
        BY <2>2, <3>1, <3>3
      <4>2. CASE n = Len(adding) + 1
        BY <2>4, <2>5, <2>7, <4>1, <4>2
      <4>3. CASE n \in 1..Len(adding)
        BY <1>1, <2>5, <3>3, <4>1, <4>3 DEF CopiesInv
      <4>4. QED
        BY <3>1, <4>2, <4>3
    <3>4. QED
      BY <1>1, <2>1, <2>6, <3>2, <3>3 DEF CopiesInv
  <2>8. CASE entity_file_map_[x] # Nobody
    BY <1>1, <2>1, <2>5, <2>6, <2>8 DEF CopiesInv
  <2>9. QED
    BY <2>7, <2>8
<1>5. CASE AddOwn
  <2>1. /\ adding # <<>> /\ adding' = SubSeq(adding, 1, Len(adding) - 1)
        /\ entity_file_map_' = IF Len(adding) > 1
                               THEN [entity_file_map_ EXCEPT ![Top.inst] = Top.inst]
                               ELSE entity_file_map_
        /\ UNCHANGED <<file, attr>>
    BY <1>5 DEF AddOwn, Return, instanceVars
  <2>2. /\ \A o \in Objects \ {Top.inst} : entity_file_map_'[o] = entity_file_map_[o]
        /\ entity_file_map_'[Top.inst] # Nobody => entity_file_map_'[Top.inst] = Top.inst
    BY <1>1, <2>1, CallFacts DEF TypeOK
  <2>3. \A o \in Objects : \A x \in Refs(o)' : Rank[x] < Rank[o]
    BY <1>1, <2>1, RefsRest DEF CopiesInv
  <2>4. QED
    BY <2>1, <2>2, <2>3, CopiesReturn
<1>6. CASE AddNew
  <2>1. /\ adding # <<>> /\ adding' = SubSeq(adding, 1, Len(adding) - 1)
        /\ entity_file_map_' = IF Len(adding) > 1
                               THEN [entity_file_map_ EXCEPT ![Top.inst] = Top.inst]
                               ELSE entity_file_map_
        /\ file[Top.inst] = "none" /\ file' = [file EXCEPT ![Top.inst] = "this"]
        /\ attr' = attr
    BY <1>6 DEF AddNew, Return
  <2>2. /\ \A o \in Objects \ {Top.inst} : entity_file_map_'[o] = entity_file_map_[o]
        /\ entity_file_map_'[Top.inst] # Nobody => entity_file_map_'[Top.inst] = Top.inst
        /\ \A o \in Objects : file'[o] # "other" => file[o] # "other"
    BY <1>1, <2>1, CallFacts DEF TypeOK, Types
  <2>3. \A o \in Objects : \A x \in Refs(o)' : Rank[x] < Rank[o]
    BY <1>1, <2>1, RefsRest DEF CopiesInv
  <2>4. QED
    BY <2>1, <2>2, <2>3, CopiesReturn
<1>7. ASSUME NEW y \in Objects, AddCopy(y)
      PROVE  CopiesInv'
  <2>1. /\ adding # <<>> /\ Top.todo = {} /\ adding' = SubSeq(adding, 1, Len(adding) - 1)
        /\ file[Top.inst] = "other" /\ file[y] = "unborn" /\ Rank[y] = Rank[Top.inst]
        /\ file' = [file EXCEPT ![y] = "this"]
        /\ attr' = [attr EXCEPT ![y] =
                      [n \in Attrs |-> {entity_file_map_[x] : x \in attr[Top.inst][n]}]]
    BY <1>7 DEF AddCopy, Return
  <2>2. entity_file_map_' = [entity_file_map_ EXCEPT ![Top.inst] = y]
    <3>1. entity_file_map_ \in [Objects -> Objects \cup {Nobody}] /\ Top.inst \in Objects
      BY <1>1, <2>1, CallFacts DEF TypeOK
    <3>2. [[entity_file_map_ EXCEPT ![Top.inst] = y] EXCEPT ![Top.inst] = y]
            = [entity_file_map_ EXCEPT ![Top.inst] = y]
      BY <3>1
    <3>3. QED
      BY <1>7, <3>2 DEF AddCopy, Return
  <2>3. /\ \A o \in Objects \ {Top.inst} : entity_file_map_'[o] = entity_file_map_[o]
        /\ entity_file_map_'[Top.inst] = y
        /\ file'[Top.inst] = "other"
        /\ \A o \in Objects : file'[o] # "other" => file[o] # "other"
    BY <1>1, <2>1, <2>2, CallFacts DEF TypeOK, Types
  <2>4. \A o \in Objects : \A x \in Refs(o)' : Rank[x] < Rank[o]
    <3>1. \A n \in Attrs : attr'[y][n] = {entity_file_map_[x] : x \in attr[Top.inst][n]}
      BY <1>1, <2>1 DEF TypeOK
    <3>2. \A n \in Attrs : \A x \in attr[Top.inst][n] :
            /\ x \in Objects /\ entity_file_map_[x] # Nobody
            /\ Rank[x] < Rank[Top.inst] /\ Rank[entity_file_map_[x]] = Rank[x]
      <4>1. Top.inst \in Objects /\ IInv
        BY <2>1, CallFacts DEF CInv
      <4>2. \A n \in Attrs : \A x \in attr[Top.inst][n] :
              /\ x \in Objects /\ x \in Refs(Top.inst) /\ entity_file_map_[x] # Nobody
        BY <2>1, <4>1, CopiesExist, NobodyAssumption DEF Refs
      <4>3. QED
        BY <1>1, <4>1, <4>2 DEF CopiesInv
    <3>3. \A x \in Refs(y)' : Rank[x] < Rank[y]
      BY <2>1, <3>1, <3>2 DEF Refs
    <3>4. \A o \in Objects \ {y} : Refs(o)' = Refs(o)
      BY <1>1, <2>1 DEF Refs, TypeOK
    <3>5. QED
      BY <1>1, <3>3, <3>4 DEF CopiesInv
  <2>5. QED
    BY <2>1, <2>3, <2>4, CopiesReturn
<1>8. CASE DeleteOne
  <2>1. PICK k \in Ids, e \in Objects :
          /\ Deletes(k, e)
          /\ DropReferencesTo(e, {byid_[r] : r \in Referring(k) \ Pending})
    BY <1>8, DeleteOneFacts
  <2>2. \A o \in Objects : Refs(o)' \subseteq Refs(o)
    BY <2>1, DroppedFacts
  <2>3. /\ deleting # 0 /\ file[e] = "this"
        /\ \A o \in Objects : file'[o] = IF o = e THEN "freed" ELSE file[o]
        /\ \A o \in Objects :
             entity_file_map_'[o] = IF entity_file_map_[o] = e THEN Nobody ELSE entity_file_map_[o]
        /\ adding' = adding
    BY <2>1, QueueFacts DEF Deletes
  <2>4. adding = <<>> /\ Len(adding') = 0
    BY <1>1, <2>3 DEF AddingInv
  <2>5. \A o \in Objects : file'[o] # "other" => file[o] # "other"
    BY <2>3
  <2>6. QED
    BY <1>1, <2>2, <2>3, <2>4, <2>5 DEF CopiesInv
<1>9. CASE UNCHANGED <<file, attr, entity_file_map_, adding>>
  BY <1>1, <1>9, RefsRest DEF CopiesInv
<1>10. QED
  BY <1>2, <1>3, <1>4, <1>5, <1>6, <1>7, <1>8, <1>9, CarefulCalls
     DEF Next, Client, Adding, Deleting, SetGuid, RemoveEntity, Batch, Unbatch,
         RecalculateIdCounter, DeleteDone, vars, instanceVars, mapVars
------------------------------------------------------------------------------
(* Two instances in the file have different GlobalIds.                      *)
LEMMA GuidsDiffer ==
  ASSUME CInv, NEW o \in Objects, NEW p \in Objects, o # p,
         guid[o] # NoGuid, guid[o] = guid[p], file[p] # "other"
  PROVE  file[o] = "other" /\ entity_file_map_[o] = p
BY DEF CInv, GuidsInv

(* An instance that joins the file is found by its GlobalId, which no other *)
(* instance in the file has.                                                *)
LEMMA GuidsJoin ==
  ASSUME CInv, NEW y \in Objects, file' = [file EXCEPT ![y] = "this"],
         guid'[y] \in Guids \cup {NoGuid}, \A o \in Objects \ {y} : guid'[o] = guid[o],
         byguid_' = IF guid'[y] = NoGuid THEN byguid_ ELSE [byguid_ EXCEPT ![guid'[y]] = y],
         \A o \in InFile \ {y} : guid[o] # NoGuid => guid[o] # guid'[y]
  PROVE  \A o \in InFile' : guid'[o] # NoGuid => byguid_'[guid'[o]] = o
<1>1. TypeOK /\ GuidsInv
  BY DEF CInv, IInv
<1>2. \A o \in Objects : file'[o] = IF o = y THEN "this" ELSE file[o]
  BY <1>1 DEF TypeOK, Types
<1>3. \A g \in Guids : byguid_'[g] = IF g = guid'[y] /\ g # NoGuid THEN y ELSE byguid_[g]
  BY <1>1 DEF TypeOK
<1>4. ASSUME NEW o \in InFile', guid'[o] # NoGuid
      PROVE  byguid_'[guid'[o]] = o
  <2>1. o \in Objects
    BY DEF InFile
  <2>2. CASE o = y
    BY <1>3, <1>4, <2>2
  <2>3. CASE o # y
    <3>1. o \in InFile /\ guid'[o] = guid[o] /\ guid[o] \in Guids
      BY <1>1, <1>2, <1>4, <2>1, <2>3 DEF InFile, TypeOK
    <3>2. byguid_[guid[o]] = o /\ guid[o] # guid'[y]
      BY <1>1, <1>4, <2>3, <3>1 DEF GuidsInv
    <3>3. QED
      BY <1>3, <3>1, <3>2
  <2>4. QED
    BY <2>2, <2>3
<1>5. QED
  BY <1>4

LEMMA GuidsInvariant == CInv /\ [Next]_vars => GuidsInv'
<1> SUFFICES ASSUME CInv, [Next]_vars PROVE GuidsInv'
  OBVIOUS
<1>1. /\ TypeOK /\ GuidsInv /\ LiveInv
      /\ \A o \in Objects : entity_file_map_[o] # Nobody =>
           file[entity_file_map_[o]] = "this"
      /\ \A o \in Objects : o # Nobody
  BY NobodyAssumption DEF CInv, IInv, LiveInv
<1>2. ASSUME NEW o \in Objects, NEW g \in Guids, SetGuid(o, g)
      PROVE  GuidsInv'
  <2>1. /\ \A p \in Objects \ {o} : guid[p] # g
        /\ guid' = [guid EXCEPT ![o] = g] /\ g # NoGuid
        /\ byguid_' = IF file[o] = "this" THEN Reguided(o, g) ELSE byguid_
        /\ UNCHANGED <<file, entity_file_map_>>
    BY <1>2, CarefulCalls, NobodyAssumption DEF SetGuid
  <2>2. \A p \in Objects : guid'[p] = IF p = o THEN g ELSE guid[p]
    BY <1>1, <2>1 DEF TypeOK
  <2>3. \A p, q \in Objects : guid'[p] = guid'[q] /\ guid'[p] # NoGuid /\ p # q =>
          \/ file'[p] = "other" /\ entity_file_map_'[p] = q
          \/ file'[q] = "other" /\ entity_file_map_'[q] = p
    BY <1>1, <2>1, <2>2 DEF GuidsInv
  <2>4. ASSUME NEW p \in InFile', guid'[p] # NoGuid
        PROVE  byguid_'[guid'[p]] = p
    <3>1. p \in InFile /\ p \in Objects /\ file[p] = "this" /\ guid'[p] \in Guids
      BY <1>1, <2>1, <2>2, <2>4 DEF InFile, TypeOK
    <3>2. CASE file[o] = "this"
      <4>1. byid_[id[o]] = o
        BY <3>2, NameFacts
      <4>2. byguid_'[guid'[p]] =
              IF guid'[p] = g THEN o
              ELSE IF guid'[p] = guid[o] /\ byguid_[guid'[p]] = o THEN Nobody
              ELSE byguid_[guid'[p]]
        BY <1>1, <2>1, <3>1, <3>2, <4>1 DEF Reguided
      <4>3. CASE p = o
        BY <2>2, <4>2, <4>3
      <4>4. CASE p # o
        <5>1. guid'[p] = guid[p] /\ guid[p] # g /\ byguid_[guid[p]] = p
          BY <1>1, <2>1, <2>2, <2>4, <3>1, <4>4 DEF GuidsInv
        <5>2. QED
          BY <4>2, <4>4, <5>1
      <4>5. QED
        BY <4>3, <4>4
    <3>3. CASE file[o] # "this"
      BY <1>1, <2>1, <2>2, <2>4, <3>1, <3>3 DEF GuidsInv
    <3>4. QED
      BY <3>2, <3>3
  <2>5. QED
    BY <2>3, <2>4 DEF GuidsInv
<1>3. CASE AddOwn
  <2>1. /\ adding # <<>> /\ file[Top.inst] = "this"
        /\ entity_file_map_' = IF Len(adding) > 1
                               THEN [entity_file_map_ EXCEPT ![Top.inst] = Top.inst]
                               ELSE entity_file_map_
        /\ UNCHANGED <<file, guid, byguid_>>
    BY <1>3 DEF AddOwn, Return, instanceVars
  <2>2. \A o \in Objects : file[o] = "other" => entity_file_map_'[o] = entity_file_map_[o]
    BY <1>1, <2>1, CallFacts DEF TypeOK
  <2>3. QED
    BY <1>1, <2>1, <2>2 DEF GuidsInv, InFile
<1>4. CASE AddNew
  <2>1. /\ adding # <<>> /\ file[Top.inst] = "none"
        /\ entity_file_map_' = IF Len(adding) > 1
                               THEN [entity_file_map_ EXCEPT ![Top.inst] = Top.inst]
                               ELSE entity_file_map_
        /\ file' = [file EXCEPT ![Top.inst] = "this"] /\ guid' = guid
        /\ byguid_' = IF guid'[Top.inst] = NoGuid THEN byguid_
                      ELSE [byguid_ EXCEPT ![guid'[Top.inst]] = Top.inst]
    BY <1>4 DEF AddNew, Return, Enter
  <2>2. Top.inst \in Objects /\ guid[Top.inst] \in Guids \cup {NoGuid}
    BY <1>1, <2>1, CallFacts DEF TypeOK
  <2>3. \A o \in Objects : file[o] = "other" =>
          file'[o] = "other" /\ entity_file_map_'[o] = entity_file_map_[o]
    BY <1>1, <2>1, <2>2 DEF TypeOK, Types
  <2>4. \A o, p \in Objects : guid'[o] = guid'[p] /\ guid'[o] # NoGuid /\ o # p =>
          \/ file'[o] = "other" /\ entity_file_map_'[o] = p
          \/ file'[p] = "other" /\ entity_file_map_'[p] = o
    BY <1>1, <2>1, <2>3 DEF GuidsInv
  <2>5. \A o \in InFile \ {Top.inst} : guid[o] # NoGuid => guid[o] # guid'[Top.inst]
    BY <2>1, <2>2, GuidsDiffer DEF InFile
  <2>6. \A o \in InFile' : guid'[o] # NoGuid => byguid_'[guid'[o]] = o
    BY <2>1, <2>2, <2>5, GuidsJoin
  <2>7. QED
    BY <2>4, <2>6 DEF GuidsInv
<1>5. ASSUME NEW y \in Objects, AddCopy(y)
      PROVE  GuidsInv'
  <2>1. /\ adding # <<>> /\ file[Top.inst] = "other" /\ file[y] = "unborn"
        /\ file' = [file EXCEPT ![y] = "this"] /\ guid' = [guid EXCEPT ![y] = guid[Top.inst]]
        /\ byguid_' = IF guid'[y] = NoGuid THEN byguid_ ELSE [byguid_ EXCEPT ![guid'[y]] = y]
    BY <1>5 DEF AddCopy, Return, Enter
  <2>2. /\ Top.inst \in Objects /\ Top.inst # y /\ guid[Top.inst] \in Guids \cup {NoGuid}
        /\ entity_file_map_[Top.inst] = Nobody
    BY <1>1, <2>1, CallFacts DEF TypeOK
  <2>3. \A o \in Objects :
          entity_file_map_'[o] = IF o = Top.inst THEN y ELSE entity_file_map_[o]
    <3>1. entity_file_map_ \in [Objects -> Objects \cup {Nobody}]
      BY <1>1 DEF TypeOK
    <3>2. [[entity_file_map_ EXCEPT ![Top.inst] = y] EXCEPT ![Top.inst] = y]
            = [entity_file_map_ EXCEPT ![Top.inst] = y]
      BY <2>2, <3>1
    <3>3. entity_file_map_' = [entity_file_map_ EXCEPT ![Top.inst] = y]
      BY <1>5, <3>2 DEF AddCopy, Return
    <3>4. QED
      BY <3>1, <3>3
  <2>4. /\ \A o \in Objects : guid'[o] = IF o = y THEN guid[Top.inst] ELSE guid[o]
        /\ \A o \in Objects : file'[o] = IF o = y THEN "this" ELSE file[o]
    BY <1>1, <2>1 DEF TypeOK, Types
  <2>5. ASSUME NEW o \in Objects, guid[o] # NoGuid, guid[o] = guid[Top.inst], o # Top.inst
        PROVE  FALSE
    <3>1. entity_file_map_[Top.inst] # o /\ entity_file_map_[o] # Top.inst
      BY <1>1, <2>1, <2>2
    <3>2. QED
      BY <1>1, <2>2, <2>5, <3>1 DEF GuidsInv
  <2>6. ASSUME NEW o \in Objects, NEW p \in Objects,
               guid'[o] = guid'[p], guid'[o] # NoGuid, o # p
        PROVE  \/ file'[o] = "other" /\ entity_file_map_'[o] = p
               \/ file'[p] = "other" /\ entity_file_map_'[p] = o
    <3>1. CASE o = y
      <4>1. p = Top.inst
        BY <2>4, <2>5, <2>6, <3>1
      <4>2. QED
        BY <2>1, <2>2, <2>3, <2>4, <3>1, <4>1
    <3>2. CASE p = y
      <4>1. o = Top.inst
        BY <2>4, <2>5, <2>6, <3>2
      <4>2. QED
        BY <2>1, <2>2, <2>3, <2>4, <3>2, <4>1
    <3>3. CASE o # y /\ p # y
      <4>1. \/ file[o] = "other" /\ entity_file_map_[o] = p
            \/ file[p] = "other" /\ entity_file_map_[p] = o
        BY <1>1, <2>4, <2>6, <3>3 DEF GuidsInv
      <4>2. QED
        BY <1>1, <2>2, <2>3, <2>4, <3>3, <4>1
    <3>4. QED
      BY <3>1, <3>2, <3>3
  <2>7. \A o \in InFile \ {y} : guid[o] # NoGuid => guid[o] # guid'[y]
    <3>1. guid'[y] = guid[Top.inst] /\ \A o \in InFile : o \in Objects /\ o # Top.inst
      BY <2>1, <2>4 DEF InFile
    <3>2. QED
      BY <2>5, <3>1
  <2>8. guid'[y] \in Guids \cup {NoGuid} /\ \A o \in Objects \ {y} : guid'[o] = guid[o]
    BY <2>2, <2>4
  <2>9. \A o \in InFile' : guid'[o] # NoGuid => byguid_'[guid'[o]] = o
    BY <2>1, <2>7, <2>8, GuidsJoin
  <2>10. QED
    BY <2>6, <2>9 DEF GuidsInv
<1>6. CASE DeleteOne
  <2>1. PICK k \in Ids, e \in Objects : Deletes(k, e)
    BY <1>6, DeleteOneFacts
  <2>2. /\ file[e] = "this" /\ byguid_' = Unguided(e)
        /\ \A o \in Objects : file'[o] = IF o = e THEN "freed" ELSE file[o]
        /\ \A o \in Objects : guid'[o] = IF o = e THEN NoGuid ELSE guid[o]
        /\ \A o \in Objects :
             entity_file_map_'[o] = IF entity_file_map_[o] = e THEN Nobody ELSE entity_file_map_[o]
    BY <2>1 DEF Deletes
  <2>3. ASSUME NEW o \in Objects, NEW p \in Objects,
               guid'[o] = guid'[p], guid'[o] # NoGuid, o # p
        PROVE  \/ file'[o] = "other" /\ entity_file_map_'[o] = p
               \/ file'[p] = "other" /\ entity_file_map_'[p] = o
    <3>1. o # e /\ p # e
      BY <2>2, <2>3
    <3>2. \/ file[o] = "other" /\ entity_file_map_[o] = p
          \/ file[p] = "other" /\ entity_file_map_[p] = o
      BY <1>1, <2>2, <2>3, <3>1 DEF GuidsInv
    <3>3. QED
      BY <2>2, <3>1, <3>2
  <2>4. ASSUME NEW o \in InFile', guid'[o] # NoGuid
        PROVE  byguid_'[guid'[o]] = o
    <3>1. /\ o \in Objects /\ o # e /\ file[o] = "this" /\ guid'[o] = guid[o]
          /\ guid[o] # NoGuid /\ guid[o] \in Guids
      BY <1>1, <2>2, <2>4 DEF InFile, TypeOK
    <3>2. byguid_[guid[o]] = o
      BY <1>1, <3>1 DEF GuidsInv, InFile
    <3>3. guid[e] # guid[o]
      BY <2>2, <3>1, GuidsDiffer
    <3>4. byguid_'[guid[o]] = byguid_[guid[o]]
      BY <1>1, <2>2, <3>1, <3>3 DEF Unguided, TypeOK
    <3>5. QED
      BY <3>1, <3>2, <3>4
  <2>5. QED
    BY <2>3, <2>4 DEF GuidsInv
<1>7. CASE UNCHANGED <<file, guid, byguid_, entity_file_map_>>
  BY <1>1, <1>7 DEF GuidsInv, InFile
<1>8. QED
  BY <1>2, <1>3, <1>4, <1>5, <1>6, <1>7, CarefulCalls
     DEF Next, Client, Adding, Deleting, SetAttribute, AddEntity, AddReference, RemoveEntity,
         Batch, Unbatch, RecalculateIdCounter, DeleteDone, vars, instanceVars, mapVars
------------------------------------------------------------------------------
LEMMA CarefulInit == Init => CarefulInv
<1> SUFFICES ASSUME Init, Careful
             PROVE  QueueInv /\ RefsInv /\ InversesInv /\ CopiesInv /\ GuidsInv
  BY DEF CarefulInv
<1>1. IInv /\ TypeOK
  BY InitInvariant DEF IInv
<1>2. client \in ClientType
  BY ClientsAssumption DEF Init
<1>3. \A o \in Objects : file[o] \in {"none", "other", "unborn", "freed"}
  BY <1>2 DEF Init, ClientType
<1>4. /\ Len(batch_deletion_ids_) = 0 /\ Len(adding) = 0 /\ deleting = 0
      /\ id = [o \in Objects |-> NoId] /\ byid_ = [k \in Ids |-> Nobody]
      /\ entity_file_map_ = [o \in Objects |-> Nobody]
  BY DEF Init
<1>5. QueueInv
  BY <1>4 DEF QueueInv
<1>6. \A o \in Objects : \A x \in Refs(o) :
        x \in Objects /\ file[o] = "other" /\ Rank[x] < Rank[o]
  <2>1. \A o, x \in Objects, n \in Attrs :
          x \in attr[o][n] => file[o] = "other" /\ Rank[x] < Rank[o]
    BY DEF Init
  <2>2. QED
    BY <1>1, <2>1 DEF TypeOK, Refs
<1>7. RefsInv
  BY <1>6 DEF RefsInv
<1>8. InversesInv
  <2>1. ASSUME NEW k \in Ids, NEW r \in Ids, NEW n \in Attrs
        PROVE  Exact(k, n, r)
    <3>1. byref_excl_[<<k, n, r>>] = 0
      <4>1. byref_excl_ = [e \in Ids \X Attrs \X Ids |-> 0]
        BY DEF Init
      <4>2. <<k, n, r>> \in Ids \X Attrs \X Ids
        OBVIOUS
      <4>3. QED
        BY <4>1, <4>2
    <3>2. ~Implied(k, n, r)
      BY <1>4 DEF Implied
    <3>3. QED
      BY <3>1, <3>2 DEF Exact
  <2>2. QED
    BY <1>4, <2>1 DEF InversesInv
<1>9. CopiesInv
  BY <1>4, <1>6 DEF CopiesInv
<1>10. GuidsInv
  <2>1. "shared guid" \notin client.calls
    BY DEF Careful
  <2>2. \A o, p \in Objects : guid[o] = guid[p] => guid[o] = NoGuid \/ o = p
    BY <2>1 DEF Init
  <2>3. InFile = {}
    BY <1>3 DEF InFile
  <2>4. QED
    BY <2>2, <2>3 DEF GuidsInv
<1>11. QED
  BY <1>5, <1>7, <1>8, <1>9, <1>10

LEMMA CarefulHolds == Spec => [](IInv /\ CarefulInv)
<1>1. IInv /\ CarefulInv /\ [Next]_vars => CarefulInv'
  <2> SUFFICES ASSUME IInv, CarefulInv, [Next]_vars, Careful'
               PROVE  (QueueInv /\ RefsInv /\ InversesInv /\ CopiesInv /\ GuidsInv)'
    BY DEF CarefulInv
  <2>1. client' = client
    BY DEF Next, Client, Adding, Deleting, UnsetAttribute, SetAttribute, SetGuid, AddEntity,
           RemoveEntity, Batch, Unbatch, RecalculateIdCounter, AddReference, AddOwn, AddNew,
           AddCopy, DeleteOne, DeleteThrows, DeleteDone, vars
  <2>2. CInv
    BY <2>1 DEF CInv, CarefulInv, Careful
  <2>3. QED
    BY <2>2, QueueInvariant, RefsInvariant, InversesInvariant, CopiesInvariant, GuidsInvariant
<1>2. IInv /\ CarefulInv => CarefulInv
  OBVIOUS
<1>3. QED
  BY InvariantHolds, CarefulInit, <1>1, PTL DEF Spec

(* The inverses are exactly what the attributes imply whenever the file is  *)
(* at rest, although set_attribute_value() takes a list that was changed in *)
(* place for the old one, and a batch erases its entries only at the end.   *)
THEOREM InversesAreExact == Spec => []InversesExact
<1>1. IInv /\ CarefulInv => InversesExact
  BY RestFacts DEF CarefulInv, CInv, InversesExact, InversesAgree, AtRest
<1>2. QED
  BY CarefulHolds, <1>1, PTL

(* No instance in the file refers to one that was deleted, and so a walk    *)
(* over the references never meets one.                                     *)
THEOREM NothingDangles == Spec => []NoDangling
<1>1. IInv /\ CarefulInv => NoDangling
  BY RestFacts DEF CarefulInv, CInv, NoDangling, NoneDangling, AtRest
<1>2. QED
  BY CarefulHolds, <1>1, PTL

(* process_deletion_() never throws half way: every removal is completed by *)
(* the time removeEntity() or unbatch() returns.                            *)
THEOREM RemovalsAreCompleted == Spec => []RemovalsComplete
<1>1. IInv /\ CarefulInv => RemovalsComplete
  <2> SUFFICES ASSUME IInv, CarefulInv, Careful, AtRest
               PROVE  /\ batch_mode_ \/ batch_deletion_ids_ = <<>>
                      /\ \A k \in Pending : byid_[k] # Nobody
    BY DEF RemovalsComplete
  <2>1. CInv /\ deleting = 0
    BY DEF CarefulInv, CInv, AtRest
  <2>2. \A k \in Pending : byid_[k] # Nobody
    BY <2>1, RestFacts, QueueFacts
  <2>3. ~batch_mode_ => batch_deletion_ids_ = <<>>
    <3>1. batch_deletion_ids_ \in Seq(Ids)
      BY DEF IInv, TypeOK
    <3>2. ~batch_mode_ => Len(batch_deletion_ids_) = 0
      BY <2>1 DEF CInv, QueueInv
    <3>3. QED
      BY <3>1, <3>2, EmptySeq
  <2>4. QED
    BY <2>2, <2>3
<1>2. QED
  BY CarefulHolds, <1>1, PTL

(* instance_by_guid() finds the instance, also when GlobalIds were changed, *)
(* and copied from another file together with the instance.                 *)
THEOREM GuidsAreFound == Spec => []GuidIsFound
<1>1. IInv /\ CarefulInv => GuidIsFound
  <2> SUFFICES ASSUME IInv, CarefulInv, Careful, NEW o \in InFile, guid[o] # NoGuid
               PROVE  byguid_[guid[o]] # Nobody /\ guid[byguid_[guid[o]]] = guid[o]
    BY DEF GuidIsFound, GuidsLeadBack
  <2>1. byguid_[guid[o]] = o /\ o # Nobody
    BY NobodyAssumption DEF CarefulInv, GuidsInv, InFile
  <2>2. QED
    BY <2>1
<1>2. QED
  BY CarefulHolds, <1>1, PTL
================================================================================
