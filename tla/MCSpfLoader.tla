---------------------------- MODULE MCSpfLoader ----------------------------
(* Small instances of SpfLoader for TLC. *)
EXTENDS SpfLoader

MCArity == [WALL |-> 2, LIST |-> 1, ROOT |-> 1]

S(k, w, args) == [name |-> k, keyword |-> w, args |-> args]
Str(g) == [kind |-> "string", guid |-> g]
Ref(k) == [kind |-> "ref", refs |-> {k}]
List(ks) == [kind |-> "list", refs |-> ks]
Typed(w, a) == [kind |-> "typed", keyword |-> w, arg |-> a]
Invalid == [kind |-> "bad"]
Unset == [kind |-> "$"]

MCSound == {
  S(1, "WALL", <<Str("g1"), Ref(2)>>),
  S(3, "WALL", <<Str("g2"), Typed("LABEL", Ref(2))>>),
  S(2, "LIST", <<List({1, 3})>>)}

MCUnknown == {
  S(2, "FOO", <<Unset, List({1, 3})>>),
  S(3, "LABEL", <<Ref(1)>>)}

(* A GlobalId and names given twice, missing and excess attributes, an      *)
(* abstract entity, an unknown type, and invalid tokens in several places. *)
MCFlawed == {
  S(3, "WALL", <<Str("g1"), Typed("FOO", Ref(1))>>),
  S(1, "LIST", <<Ref(3), Ref(2)>>),
  S(2, "WALL", <<Unset>>),
  S(3, "ROOT", <<Ref(1)>>),
  S(2, "WALL", <<Typed("LABEL", Invalid), Ref(1)>>),
  S(3, "LIST", <<Invalid>>),
  S(3, "FOO", <<Invalid>>)}

MCStatements == MCSound \cup MCUnknown \cup MCFlawed
=============================================================================
