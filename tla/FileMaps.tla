------------------------------ MODULE FileMaps ------------------------------
(***************************************************************************)
(* The instances of an IfcParse::IfcFile and the maps by id, by type, by   *)
(* GlobalId and by reference (src/IFC/src/ifcparse/IfcFile.h): what the    *)
(* maps say of the instances. SpfLoader makes the maps from a file, and    *)
(* InstanceStore keeps them when instances are added, changed and removed. *)
(***************************************************************************)
EXTENDS Integers

CONSTANTS
  Objects,      \* the instances, also those that copying will create
  Attrs,        \* the attributes that hold references
  Guids,        \* GlobalIds
  IdBound,      \* bound: the largest instance name
  Nobody,       \* no entry in a map
  NoGuid        \* the GlobalId of what is not a subtype of IfcRoot

Ids == 1..IdBound

VARIABLES
  file,                 \* file[o]: "this" when o is in the file
  id,                   \* id[o]: its instance name in this file
  attr,                 \* attr[o][n]: the instances attribute n refers to
  guid,                 \* guid[o]: its GlobalId
  byid_,                \* byid_[k]: the instance with name k
  byref_excl_,          \* byref_excl_[k, n, r]: how often r is listed as one
                        \* that refers to k with attribute n
  bytype_excl_,         \* the instances listed under their type
  byguid_,              \* byguid_[g]: the instance with GlobalId g
  entity_file_map_      \* entity_file_map_[o]: o or its copy in this file

InFile == {o \in Objects : file[o] = "this"}

Refs(o) == UNION {attr[o][n] : n \in Attrs}

(* The maps never hand out a deleted instance: what is found by name, by    *)
(* type, by GlobalId or as an earlier copy is alive, also after exceptions  *)
(* in the middle of a deletion, names that were reused and GlobalIds that   *)
(* were shared.                                                            *)
MapsAreLive ==
  /\ \A k \in Ids : byid_[k] # Nobody => file[byid_[k]] = "this" /\ id[byid_[k]] = k
  /\ bytype_excl_ = InFile
  /\ \A g \in Guids : byguid_[g] # Nobody => file[byguid_[g]] = "this"
  /\ \A o \in Objects : entity_file_map_[o] # Nobody => file[entity_file_map_[o]] = "this"

(* The name of an instance leads to it. *)
NamesLeadBack == \A o \in InFile : byid_[id[o]] = o

(* The attributes imply that k is referred to by attribute n of r. *)
Implied(k, n, r) ==
  byid_[k] # Nobody /\ byid_[r] # Nobody /\ byid_[k] \in attr[byid_[r]][n]

Exact(k, n, r) == byref_excl_[<<k, n, r>>] = IF Implied(k, n, r) THEN 1 ELSE 0

(* The inverses that instances_by_reference() answers from are those that   *)
(* the attributes of the instances in the file imply, each listed once.    *)
InversesAgree == \A k, r \in Ids, n \in Attrs : Exact(k, n, r)

(* No instance in the file refers to one that is not. *)
NoneDangling == \A o \in InFile : Refs(o) \subseteq InFile

(* A GlobalId leads to an instance that has it. *)
GuidsLeadBack ==
  \A o \in InFile : guid[o] # NoGuid =>
    byguid_[guid[o]] # Nobody /\ guid[byguid_[guid[o]]] = guid[o]
=============================================================================
