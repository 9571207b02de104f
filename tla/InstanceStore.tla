---------------------------- MODULE InstanceStore ----------------------------
(***************************************************************************)
(* IfcParse::IfcFile as a store of instances (src/IFC/src/ifcparse/        *)
(* IfcFile.h, IfcParse.cpp): how addEntity(), removeEntity(), the batch    *)
(* mode and the setters of an instance keep the maps up to date.           *)
(*                                                                         *)
(* There is one thread. addEntity() is recursive and process_deletion_()   *)
(* may be left by an exception half way, so each is a sequence of steps;   *)
(* the client acts between them only when both are at rest.                *)
(*                                                                         *)
(* Instances are entities of one schema with no other values than their    *)
(* GlobalId and references; an attribute is the set of instances it lists. *)
(***************************************************************************)
EXTENDS FileMaps, Sequences, FiniteSets

CONSTANTS
  Rank,         \* Rank[o]: instances refer to instances of a lower rank
  MaxListed,    \* bound: how often a stale inverse is listed
  Clients       \* the programs that use the file, see ClientType

NoId == 0

ASSUME ObjectsAssumption == IsFiniteSet(Objects)
ASSUME RankAssumption == Rank \in [Objects -> Nat]
ASSUME IdAssumption == IdBound \in Nat /\ MaxListed \in Nat
ASSUME NobodyAssumption == Nobody \notin Objects /\ NoGuid \notin Guids

(* What a client does beyond the careful use of the API: call               *)
(* unset_attribute_value(), add a graph under a given name, remove          *)
(* instances in any order in a batch, give a GlobalId to two instances.     *)
CallKinds == {"unset", "explicit id", "batch order", "shared guid"}

(* A client, the names it asks for, and where its instances are at first:   *)
(* in no file, in another one, or yet to be made by copying.                *)
ClientType ==
  [calls : SUBSET CallKinds, explicit : SUBSET Ids,
   origin : [Objects -> {"none", "other", "unborn", "freed"}]]

ASSUME ClientsAssumption == Clients \subseteq ClientType

VARIABLES
  client,               \* the one that uses the file; an instance that is not in
                        \* it is where client.origin has it, or "freed"
  MaxId, batch_mode_,
  batch_deletion_ids_,  \* the names scheduled for removal, in order
  deleting,             \* index of the next one to delete; 0: not deleting
  adding                \* the calls of addEntity() in progress, innermost last

instanceVars == <<file, id, attr, guid>>
mapVars == <<byid_, byref_excl_, bytype_excl_, byguid_, entity_file_map_, MaxId>>
deletionVars == <<batch_mode_, batch_deletion_ids_, deleting>>
vars == <<client, instanceVars, mapVars, deletionVars, adding>>

AtRest == deleting = 0 /\ adding = <<>>

(* How many instances of a list have name k. *)
Named(list, k) == Cardinality({x \in list : id[x] = k})

Pending == {batch_deletion_ids_[n] : n \in 1..Len(batch_deletion_ids_)}

(* A client refers to instances of the same file only: an instance that is  *)
(* added refers to added ones, and one that is in no file to none that will *)
(* be deleted. (An inverse registered under the name 0 of an instance that  *)
(* is added later is out of scope.)                                        *)
Referable(o) ==
  {x \in Objects :
     /\ Rank[x] < Rank[o]
     /\ \/ file[x] = "this" /\ (file[o] = "none" => id[x] \notin Pending)
        \/ file[x] = "none" /\ file[o] = "none"}

GuidIsFree(o, g) == "shared guid" \in client.calls \/ \A p \in Objects \ {o} : guid[p] # g

Init ==
  /\ client \in Clients
  /\ file = client.origin
  /\ id = [o \in Objects |-> NoId]
  /\ attr \in [Objects -> [Attrs -> SUBSET {x \in Objects : file[x] = "other"}]]
  /\ \A o, x \in Objects, n \in Attrs :
       x \in attr[o][n] => file[o] = "other" /\ Rank[x] < Rank[o]
  /\ guid \in [Objects -> Guids \cup {NoGuid}]
  /\ \A o \in Objects : file[o] \in {"unborn", "freed"} => guid[o] = NoGuid
  /\ "shared guid" \in client.calls \/
       \A o, p \in Objects : guid[o] = guid[p] => guid[o] = NoGuid \/ o = p
  /\ byid_ = [k \in Ids |-> Nobody]
  /\ byref_excl_ = [e \in Ids \X Attrs \X Ids |-> 0]
  /\ bytype_excl_ = {}
  /\ byguid_ = [g \in Guids |-> Nobody]
  /\ entity_file_map_ = [o \in Objects |-> Nobody]
  /\ MaxId = 0
  /\ batch_mode_ = FALSE /\ batch_deletion_ids_ = <<>> /\ deleting = 0
  /\ adding = <<>>
------------------------------------------------------------------------------
(* How often entry e is listed once an attribute that held the instances    *)
(* old holds those of list: unregister_inverse() drops one entry for each   *)
(* of old, if there is one, and register_inverse() appends one for each.   *)
Reregistered(e, old, list) ==
  LET rest == byref_excl_[e] - Named(old, e[1])
  IN (IF rest < 0 THEN 0 ELSE rest) + Named(list, e[1])

(* set_attribute_value() of an attribute that holds references; list is     *)
(* one of instances that o may refer to.                                    *)
SetAttribute(o, n, list) ==
  /\ AtRest /\ file[o] \in {"none", "this"}
  /\ "batch order" \in client.calls \/ id[o] \notin Pending
  /\ attr' = [attr EXCEPT ![o][n] = list]
  /\ byref_excl_' =
       [e \in Ids \X Attrs \X Ids |->
          IF file[o] = "this" /\ e[2] = n /\ e[3] = id[o]
          THEN Reregistered(e, attr[o][n], list) ELSE byref_excl_[e]]
  /\ UNCHANGED <<client, file, id, guid, byid_, bytype_excl_, byguid_, entity_file_map_, MaxId,
                 deletionVars, adding>>

(* unset_attribute_value() *)
UnsetAttribute(o, n) ==
  /\ AtRest /\ "unset" \in client.calls
  /\ file[o] \in {"none", "this"} /\ attr[o][n] # {}
  /\ \A k \in Ids : file[o] = "this" => byref_excl_[<<k, n, id[o]>>] < MaxListed
  /\ attr' = [attr EXCEPT ![o][n] = {}]
  /\ UNCHANGED <<client, file, id, guid, mapVars, deletionVars, adding>>

(* Mutant: the new GlobalId is not entered. *)
ReguidedNot(o, g) ==
  [h \in Guids |-> IF h = guid[o] /\ byguid_[h] = o THEN Nobody ELSE byguid_[h]]

(* byguid_ once o, which is in the file, has the GlobalId g: its old entry  *)
(* goes if it is for o, the new one is for the instance with o's name.     *)
Reguided(o, g) ==
  [h \in Guids |->
     IF h = g /\ byid_[id[o]] # Nobody THEN byid_[id[o]]
     ELSE IF h = guid[o] /\ byguid_[h] = o THEN Nobody ELSE byguid_[h]]

(* set_attribute_value() of the GlobalId *)
SetGuid(o, g) ==
  /\ AtRest /\ file[o] \in {"none", "this"}
  /\ guid[o] # NoGuid /\ GuidIsFree(o, g)
  /\ guid' = [guid EXCEPT ![o] = g]
  /\ byguid_' = IF file[o] = "this" THEN Reguided(o, g) ELSE byguid_
  /\ UNCHANGED <<client, file, id, attr, byid_, byref_excl_, bytype_excl_, entity_file_map_, MaxId,
                 deletionVars, adding>>
------------------------------------------------------------------------------
Call(o, k) == [inst |-> o, id |-> k, todo |-> Refs(o)]
Top == adding[Len(adding)]

(* Bound: there are instances left to become the copies that may be needed. *)
SparesSuffice ==
  \A o \in Objects :
    Cardinality({x \in Objects : file[x] = "other" /\ Rank[x] = Rank[o] /\ entity_file_map_[x] = Nobody})
      <= Cardinality({y \in Objects : file[y] = "unborn" /\ Rank[y] = Rank[o]})

(* addEntity() by the client. When the name is taken it throws, and when    *)
(* the instance was added before it returns the copy: nothing changes.     *)
AddEntity(o, k) ==
  /\ AtRest
  /\ file[o] \in {"none", "this", "other"}
  /\ entity_file_map_[o] = Nobody
  /\ file[o] = "other" => SparesSuffice
  /\ k # NoId => /\ byid_[k] = Nobody
                 /\ "explicit id" \in client.calls \/ Refs(o) = {}
  /\ adding' = <<Call(o, k)>>
  /\ UNCHANGED <<client, instanceVars, mapVars, deletionVars>>

(* addEntity() calls itself for a referenced instance it has not seen. *)
AddReference(x) ==
  /\ adding # <<>> /\ x \in Top.todo
  /\ LET calls == [adding EXCEPT ![Len(adding)].todo = @ \ {x}]
     IN adding' = IF entity_file_map_[x] = Nobody
                  THEN Append(calls, Call(x, NoId)) ELSE calls
  /\ UNCHANGED <<client, instanceVars, mapVars, deletionVars>>

(* The innermost call returns y; its caller remembers y for the instance.   *)
Return(y, map) ==
  /\ adding' = SubSeq(adding, 1, Len(adding) - 1)
  /\ entity_file_map_' =
       IF Len(adding) > 1 THEN [map EXCEPT ![Top.inst] = y] ELSE map

(* The instance is part of this file already. *)
AddOwn ==
  /\ adding # <<>> /\ Top.todo = {} /\ file[Top.inst] = "this"
  /\ Return(Top.inst, entity_file_map_)
  /\ UNCHANGED <<client, instanceVars, byid_, byref_excl_, bytype_excl_, byguid_, MaxId, deletionVars>>

(* Mutant: an explicit name does not raise MaxId. *)
ObtainIdLow(y, k) ==
  /\ k = NoId => MaxId < IdBound
  /\ id' = [id EXCEPT ![y] = IF k = NoId THEN MaxId + 1 ELSE k]
  /\ MaxId' = IF k = NoId THEN MaxId + 1 ELSE MaxId

(* FreshId(), or the name asked for *)
ObtainId(y, k) ==
  /\ k = NoId => MaxId < IdBound
  /\ id' = [id EXCEPT ![y] = IF k = NoId THEN MaxId + 1 ELSE k]
  /\ MaxId' = IF k = NoId THEN MaxId + 1 ELSE IF k > MaxId THEN k ELSE MaxId

(* Mutant: the inverses of an added instance are not built. *)
EnterWithoutInverses(y) ==
  /\ byguid_' = IF guid'[y] = NoGuid THEN byguid_ ELSE [byguid_ EXCEPT ![guid'[y]] = y]
  /\ bytype_excl_' = bytype_excl_ \cup {y}
  /\ byid_' = [byid_ EXCEPT ![id'[y]] = y]
  /\ byref_excl_' = byref_excl_

(* The second half of addEntity(): enter y, which has its name, attributes  *)
(* and GlobalId, into the maps by GlobalId, type, name and reference.      *)
Enter(y) ==
  /\ byguid_' = IF guid'[y] = NoGuid THEN byguid_ ELSE [byguid_ EXCEPT ![guid'[y]] = y]
  /\ bytype_excl_' = bytype_excl_ \cup {y}
  /\ byid_' = [byid_ EXCEPT ![id'[y]] = y]
  /\ byref_excl_' =
       [e \in Ids \X Attrs \X Ids |->
          IF e[3] = id'[y] THEN byref_excl_[e] + Named(attr'[y][e[2]], e[1])
          ELSE byref_excl_[e]]

(* An instance that is in no file joins this one. *)
AddNew ==
  /\ adding # <<>> /\ Top.todo = {} /\ file[Top.inst] = "none"
  /\ file' = [file EXCEPT ![Top.inst] = "this"]
  /\ UNCHANGED <<attr, guid>>
  /\ ObtainId(Top.inst, Top.id)
  /\ Enter(Top.inst)
  /\ Return(Top.inst, entity_file_map_)
  /\ UNCHANGED <<client, deletionVars>>

(* An instance of another file is copied; the copy y refers to copies. *)
AddCopy(y) ==
  /\ adding # <<>> /\ Top.todo = {} /\ file[Top.inst] = "other"
  /\ file[y] = "unborn" /\ Rank[y] = Rank[Top.inst]
  /\ file' = [file EXCEPT ![y] = "this"]
  /\ attr' = [attr EXCEPT ![y] =
                [n \in Attrs |-> {entity_file_map_[x] : x \in attr[Top.inst][n]}]]
  /\ guid' = [guid EXCEPT ![y] = guid[Top.inst]]
  /\ ObtainId(y, Top.id)
  /\ Enter(y)
  /\ Return(y, [entity_file_map_ EXCEPT ![Top.inst] = y])
  /\ UNCHANGED <<client, deletionVars>>
------------------------------------------------------------------------------
(* removeEntity(): the name is scheduled, and outside a batch deleted at    *)
(* once. It throws for an instance that is not the one with its name. The   *)
(* client does not remove what one of its own instances still refers to.   *)
RemoveEntity(o) ==
  /\ AtRest
  /\ file[o] = "this" /\ byid_[id[o]] = o
  /\ \A r \in Objects : file[r] = "none" => o \notin Refs(r)
  /\ "batch order" \in client.calls \/ \A r \in Objects : o \in Refs(r) => id[r] \notin Pending
  /\ batch_deletion_ids_' =
       IF id[o] \in Pending THEN batch_deletion_ids_ ELSE Append(batch_deletion_ids_, id[o])
  /\ deleting' = IF batch_mode_ THEN 0 ELSE 1
  /\ UNCHANGED <<client, instanceVars, mapVars, batch_mode_, adding>>

Batch ==
  /\ AtRest /\ ~batch_mode_
  /\ batch_mode_' = TRUE
  /\ UNCHANGED <<client, instanceVars, mapVars, batch_deletion_ids_, deleting, adding>>

Unbatch ==
  /\ AtRest /\ batch_mode_
  /\ deleting' = 1
  /\ UNCHANGED <<client, instanceVars, mapVars, batch_mode_, batch_deletion_ids_, adding>>

(* instances_by_reference(), as names *)
Referring(k) == {r \in Ids : \E n \in Attrs : byref_excl_[<<k, n, r>>] > 0}

Deletable(k) == byid_[k] # Nobody /\ \A r \in Referring(k) : byid_[r] # Nobody

(* Outside a batch the entries on k and by k are erased from byref at once. *)
Forget(e, k, byref) ==
  [t \in Ids \X Attrs \X Ids |->
     IF t[1] = k \/ (t[3] = k /\ \E x \in Refs(e) : id[x] = t[1]) THEN 0 ELSE byref[t]]

(* Mutant: entity_file_map_ keeps the copy that is deleted. *)
FreeKeepsCopies(e) ==
  /\ file' = [file EXCEPT ![e] = "freed"]
  /\ id' = [id EXCEPT ![e] = NoId]
  /\ guid' = [guid EXCEPT ![e] = NoGuid]
  /\ bytype_excl_' = bytype_excl_ \ {e}
  /\ UNCHANGED entity_file_map_

(* The instance leaves its type's list and entity_file_map_, and is deleted. *)
Free(e) ==
  /\ file' = [file EXCEPT ![e] = "freed"]
  /\ id' = [id EXCEPT ![e] = NoId]
  /\ guid' = [guid EXCEPT ![e] = NoGuid]
  /\ bytype_excl_' = bytype_excl_ \ {e}
  /\ entity_file_map_' =
       [o \in Objects |-> IF entity_file_map_[o] = e THEN Nobody ELSE entity_file_map_[o]]

(* The entry for the GlobalId of e is erased, whichever instance it is for. *)
Unguided(e) ==
  IF guid[e] = NoGuid THEN byguid_ ELSE [byguid_ EXCEPT ![guid[e]] = Nobody]

(* Mutant: the attributes of referring instances are left alone. *)
DropReferencesToNone(e, related) ==
  /\ attr' = [attr EXCEPT ![e] = [n \in Attrs |-> {}]]
  /\ byref_excl_' = IF batch_mode_ THEN byref_excl_ ELSE Forget(e, id[e], byref_excl_)

(* Related instances stop referring to e. A list is changed in place before *)
(* it is given to set_attribute_value(), which therefore takes the new one  *)
(* for the old one too: what lists e is left to Forget, or to the end of    *)
(* the batch.                                                              *)
DropReferencesTo(e, related) ==
  /\ attr' = [o \in Objects |-> [n \in Attrs |->
                IF o \in related THEN attr[o][n] \ {e} ELSE IF o = e THEN {} ELSE attr[o][n]]]
  /\ LET rewired ==
           [t \in Ids \X Attrs \X Ids |->
              LET o == byid_[t[3]]
              IN IF o \in related /\ e \in attr[o][t[2]]
                 THEN Reregistered(t, attr[o][t[2]] \ {e}, attr[o][t[2]] \ {e})
                 ELSE byref_excl_[t]]
     IN byref_excl_' = IF batch_mode_ THEN rewired ELSE Forget(e, id[e], rewired)

(* One turn of the loop in process_deletion_(). Instances that are to be    *)
(* removed as well are not changed any more.                               *)
DeleteOne ==
  /\ deleting \in 1..Len(batch_deletion_ids_)
  /\ LET k == batch_deletion_ids_[deleting]
         e == byid_[k]
     IN /\ Deletable(k)
        /\ DropReferencesTo(e, {byid_[r] : r \in Referring(k) \ Pending})
        /\ byguid_' = Unguided(e)
        /\ byid_' = [byid_ EXCEPT ![k] = Nobody]
        /\ Free(e)
  /\ deleting' = deleting + 1
  /\ UNCHANGED <<client, MaxId, batch_mode_, batch_deletion_ids_, adding>>

(* instance_by_id() throws, for k or for one that refers to k: the rest of  *)
(* process_deletion_() and of unbatch() is skipped.                        *)
DeleteThrows ==
  /\ deleting \in 1..Len(batch_deletion_ids_)
  /\ ~Deletable(batch_deletion_ids_[deleting])
  /\ deleting' = 0
  /\ UNCHANGED <<client, instanceVars, mapVars, batch_mode_, batch_deletion_ids_, adding>>

(* Mutant: batch_deletion_ids_ is not cleared. *)
DeleteDoneKeepsIds ==
  /\ deleting > Len(batch_deletion_ids_)
  /\ deleting' = 0 /\ batch_mode_' = FALSE
  /\ byref_excl_' = IF batch_mode_
                    THEN [t \in Ids \X Attrs \X Ids |->
                            IF t[1] \in Pending \/ t[3] \in Pending THEN 0 ELSE byref_excl_[t]]
                    ELSE byref_excl_
  /\ UNCHANGED <<client, instanceVars, byid_, bytype_excl_, byguid_, entity_file_map_, MaxId,
                 batch_deletion_ids_, adding>>

(* Mutant: the index is not set back when the names are cleared. *)
DeleteDoneKeepsIndex ==
  /\ deleting > Len(batch_deletion_ids_)
  /\ batch_mode_' = FALSE
  /\ batch_deletion_ids_' = <<>>
  /\ byref_excl_' = IF batch_mode_
                    THEN [t \in Ids \X Attrs \X Ids |->
                            IF t[1] \in Pending \/ t[3] \in Pending THEN 0 ELSE byref_excl_[t]]
                    ELSE byref_excl_
  /\ UNCHANGED <<client, instanceVars, byid_, bytype_excl_, byguid_, entity_file_map_, MaxId,
                 deleting, adding>>

(* After the loop: a batch erases its entries from byref_excl_ now. *)
DeleteDone ==
  /\ deleting > Len(batch_deletion_ids_)
  /\ deleting' = 0 /\ batch_mode_' = FALSE
  /\ batch_deletion_ids_' = <<>>
  /\ byref_excl_' = IF batch_mode_
                    THEN [t \in Ids \X Attrs \X Ids |->
                            IF t[1] \in Pending \/ t[3] \in Pending THEN 0 ELSE byref_excl_[t]]
                    ELSE byref_excl_
  /\ UNCHANGED <<client, instanceVars, byid_, bytype_excl_, byguid_, entity_file_map_, MaxId, adding>>

(* recalculate_id_counter(): MaxId becomes the largest name in use. *)
RecalculateIdCounter ==
  /\ AtRest
  /\ MaxId' \in {k \in 0..IdBound : k # NoId => byid_[k] # Nobody}
  /\ \A k \in Ids : byid_[k] # Nobody => k <= MaxId'
  /\ UNCHANGED <<client, instanceVars, byid_, byref_excl_, bytype_excl_, byguid_, entity_file_map_,
                 deletionVars, adding>>

Client ==
  \/ \E o \in Objects, n \in Attrs :
       UnsetAttribute(o, n) \/ \E list \in SUBSET Referable(o) : SetAttribute(o, n, list)
  \/ \E o \in Objects, g \in Guids : SetGuid(o, g)
  \/ \E o \in Objects, k \in client.explicit \cup {NoId} : AddEntity(o, k)
  \/ \E o \in Objects : RemoveEntity(o)
  \/ Batch \/ Unbatch \/ RecalculateIdCounter

Adding ==
  (\E x \in Objects : AddReference(x)) \/ AddOwn \/ AddNew \/ (\E y \in Objects : AddCopy(y))

Deleting == DeleteOne \/ DeleteThrows \/ DeleteDone

Next == Client \/ Adding \/ Deleting

Spec == Init /\ [][Next]_vars
------------------------------------------------------------------------------
Types == [Objects -> {"none", "this", "other", "unborn", "freed"}]

(* What the variables hold, also in the middle of a deletion or an addition. *)
TypeOK ==
  /\ client \in Clients
  /\ file \in Types
  /\ id \in [Objects -> Ids \cup {NoId}]
  /\ attr \in [Objects -> [Attrs -> SUBSET Objects]]
  /\ guid \in [Objects -> Guids \cup {NoGuid}]
  /\ byid_ \in [Ids -> Objects \cup {Nobody}]
  /\ byref_excl_ \in [Ids \X Attrs \X Ids -> Nat]
  /\ bytype_excl_ \subseteq Objects
  /\ byguid_ \in [Guids -> Objects \cup {Nobody}]
  /\ entity_file_map_ \in [Objects -> Objects \cup {Nobody}]
  /\ MaxId \in 0..IdBound
  /\ batch_mode_ \in BOOLEAN
  /\ batch_deletion_ids_ \in Seq(Ids)
  /\ deleting \in 0..(Len(batch_deletion_ids_) + 1)
  /\ adding \in Seq([inst : Objects, id : Ids \cup {NoId}, todo : SUBSET Objects])

(* A client that keeps to the careful use of the API. *)
Careful == client.calls = {}

(* One that adds no graph under a given name. *)
GraphsUnnamed == "explicit id" \notin client.calls

(* "This should not happen", says addEntity() of a name given twice: not    *)
(* even when a name is freed, asked for, or counted anew by                 *)
(* recalculate_id_counter(), in any order.                                  *)
NamesAreUnique == GraphsUnnamed => NamesLeadBack

(* The inverses that instances_by_reference() answers from are those that   *)
(* the attributes of the instances in the file imply, each listed once.    *)
InversesExact == Careful /\ AtRest => InversesAgree

(* removeEntity() "removes entity instance from file and unsets references": *)
(* no instance in the file refers to one that was deleted.                 *)
NoDangling == Careful /\ AtRest => NoneDangling

(* When removeEntity() has returned or thrown, the removal is not pending:  *)
(* names only wait for their deletion in a batch (IfcFile.h:314).           *)
NothingPending == AtRest /\ ~batch_mode_ => batch_deletion_ids_ = <<>>

(* The same of careful clients, and in a batch the names that wait for      *)
(* their deletion are still in use.                                         *)
RemovalsComplete ==
  Careful /\ AtRest =>
    /\ batch_mode_ \/ batch_deletion_ids_ = <<>>
    /\ \A k \in Pending : byid_[k] # Nobody

(* instance_by_guid() finds an instance with the GlobalId, if there is one. *)
GuidIsFound == Careful => GuidsLeadBack
------------------------------------------------------------------------------
(* The calls of addEntity(): only the client's asks for a name, and what an *)
(* instance refers to has been added, is being added, or is yet to be.     *)
AddingInv ==
  /\ adding # <<>> => deleting = 0
  /\ \A n \in 1..Len(adding) :
       /\ file[adding[n].inst] # "unborn"
       /\ adding[n].todo \subseteq Refs(adding[n].inst)
       /\ n > 1 => adding[n].id = NoId
       /\ \A x \in Refs(adding[n].inst) \ adding[n].todo :
            entity_file_map_[x] # Nobody \/ (n < Len(adding) /\ adding[n+1].inst = x)

(* An instance that is to become a copy is not in use before.               *)
LiveInv ==
  /\ bytype_excl_ = InFile
  /\ \A o \in Objects : entity_file_map_[o] # Nobody => file[entity_file_map_[o]] = "this"
  /\ \A o \in Objects, n \in Attrs : \A x \in attr[o][n] : file[x] # "unborn"

(* Why a name is not given twice: MaxId is at least every name in use, and  *)
(* a name that the client asks for is used before any other is taken.      *)
NamesInv ==
  /\ \A o \in InFile : id[o] \in Ids
  /\ \A k \in Ids : byid_[k] # Nobody =>
       file[byid_[k]] = "this" /\ id[byid_[k]] = k /\ k <= MaxId
  /\ GraphsUnnamed =>
       /\ \A o \in InFile : byid_[id[o]] = o
       /\ adding # <<>> /\ adding[1].id # NoId =>
            Len(adding) = 1 /\ adding[1].todo = {} /\ byid_[adding[1].id] = Nobody

(* An entry by GlobalId is for an instance that has it. *)
GuidInv ==
  GraphsUnnamed =>
    \A g \in Guids : byguid_[g] # Nobody => file[byguid_[g]] = "this" /\ guid[byguid_[g]] = g

------------------------------------------------------------------------------
(* What holds of careful clients on top of that.                            *)

(* The removals in progress: each name once; the names whose turn is still  *)
(* to come are in use, and what refers to another comes after it.          *)
QueueInv ==
  /\ \A m, n \in 1..Len(batch_deletion_ids_) :
       batch_deletion_ids_[m] = batch_deletion_ids_[n] => m = n
  /\ \A n \in 1..Len(batch_deletion_ids_) :
       byid_[batch_deletion_ids_[n]] = Nobody <=> n < deleting
  /\ \A m, n \in 1..Len(batch_deletion_ids_) :
       deleting <= m /\ deleting <= n
         /\ byid_[batch_deletion_ids_[m]] \in Refs(byid_[batch_deletion_ids_[n]]) => m <= n
  /\ ~batch_mode_ => Len(batch_deletion_ids_) = IF deleting = 0 THEN 0 ELSE 1

(* What an instance refers to is alive, unless the instance is waiting for  *)
(* its own deletion in the loop.                                            *)
RefsInv ==
  \A o \in Objects : \A x \in Refs(o) :
    /\ file[o] = "this" => file[x] = "this" \/ (file[x] = "freed" /\ deleting # 0 /\ id[o] \in Pending)
    /\ file[o] = "none" => file[x] \in {"this", "none"} /\ id[x] \notin Pending

Deleted == {batch_deletion_ids_[n] : n \in 1..deleting-1}

(* In a batch, entries on what was deleted, or by it on what will stay,     *)
(* wait for the end of the loop.                                            *)
Stale(k, r) == batch_mode_ /\ (k \in Deleted \/ (r \in Deleted /\ k \notin Pending))

InversesInv ==
  /\ \A o \in Objects : file[o] # "this" => id[o] = NoId
  /\ \A k, r \in Ids, n \in Attrs : Stale(k, r) \/ Exact(k, n, r)

(* Only instances of other files have copies, each its own; the calls of    *)
(* addEntity() go down the ranks, so that none is for an instance of an     *)
(* outer one.                                                               *)
CopiesInv ==
  /\ \A o \in Objects : entity_file_map_[o] # Nobody =>
       /\ file[o] # "other" => entity_file_map_[o] = o
       /\ Rank[entity_file_map_[o]] = Rank[o]
  /\ \A o \in Objects : \A x \in Refs(o) : Rank[x] < Rank[o]
  /\ \A n \in 1..Len(adding) :
       /\ entity_file_map_[adding[n].inst] = Nobody
       /\ \A m \in 1..Len(adding) : m < n => Rank[adding[n].inst] < Rank[adding[m].inst]

(* Only an instance of another file and its copy share a GlobalId.          *)
GuidsInv ==
  /\ \A o, p \in Objects : guid[o] = guid[p] /\ guid[o] # NoGuid /\ o # p =>
       \/ file[o] = "other" /\ entity_file_map_[o] = p
       \/ file[p] = "other" /\ entity_file_map_[p] = o
  /\ \A o \in InFile : guid[o] # NoGuid => byguid_[guid[o]] = o

CarefulInv ==
  Careful => QueueInv /\ RefsInv /\ InversesInv /\ CopiesInv /\ GuidsInv

(* The inductive invariant *)
IInv == TypeOK /\ AddingInv /\ LiveInv /\ NamesInv /\ GuidInv
==============================================================================
