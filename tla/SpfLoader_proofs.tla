--------------------------- MODULE SpfLoader_proofs ---------------------------
(***************************************************************************)
(* Theorems about SpfLoader for any file, schema and number of statements: *)
(* types, that the loader stays in step with the statements of the file,   *)
(* that references are registered where they are set, and that a file      *)
(* without a flaw is loaded as it says.                                    *)
(***************************************************************************)
EXTENDS SpfLoader, FiniteSetTheorems, SequenceTheorems, TLAPS

(***************************************************************************)
(* Why the loader stays in step. The window moves over whole statements    *)
(* but for the arguments of instances, so that "=" is in its middle only   *)
(* when it shows the beginning of a statement; and load() returns before   *)
(* the statement ends, because the lists that it is in are closed by what  *)
(* is left of the argument.                                                *)
(***************************************************************************)
FileTokens ==
  {Equals, LeftParen, RightParen, Comma, Semicolon, Dollar, Bad, EndSection, EndExchange}
  \cup ({"keyword"} \X STRING) \cup ({"ident"} \X Names) \cup ({"string"} \X Guids)
PlainTokens == FileTokens \ {Equals}

IsInstance(o) ==
  /\ o \in [name : Names, type : Entities \ Abstract, guid : Guids \cup {""}, attr : {o.attr}]
  /\ o.attr \in [DOMAIN o.attr -> SUBSET Nat]
Frames ==
  [attribute : Nat \cup {-1}, index : Nat, typed : BOOLEAN, registers : BOOLEAN, items : Seq(Items)]
Unresolveds == [name : Names, index : Nat, kind : {"ref", "list"}, refs : SUBSET Names]

FileTypes ==
  /\ statements \in Seq(Statements \cup {End}) /\ part \in Nat /\ input \in Seq(FileTokens)
  /\ eof \in BOOLEAN

WindowTypes == token_stream \in Seq(FileTokens \cup {None}) /\ Len(token_stream) = 3

ControlTypes ==
  /\ pc \in {"scan", "advance", "open", "load", "resolve", "done", "thrown"}
  /\ good_ \in {"SUCCESS", "INVALID_SYNTAX"}
  /\ current_id \in Names \cup {0}
  /\ paren_stack_depth \in Int /\ attribute_index \in Int

CallTypes == frames \in Seq(Frames) /\ ((pc \in {"open", "load"}) = (frames # <<>>))

InstanceTypes ==
  /\ instances \in Seq({instances[n] : n \in 1..Len(instances)})
  /\ \A n \in 1..Len(instances) :
       /\ IsInstance(instances[n])
       /\ \A i \in DOMAIN instances[n].attr :
            i < Arity[instances[n].type] /\ instances[n].attr[i] \subseteq 1..Len(instances)
  /\ instance \in 0..Len(instances)
  /\ byid_ \in [Names -> 0..Len(instances)]
  /\ byguid_ \in [Guids -> 0..Len(instances)]
  /\ MaxId \in Names \cup {0}

ReferenceTypes == references_to_resolve \in Seq(Unresolveds) /\ IsABag(byref_excl_)

Types ==
  FileTypes /\ WindowTypes /\ ControlTypes /\ CallTypes /\ InstanceTypes /\ ReferenceTypes

Loading == pc \in {"open", "load"}
Current == Last(statements)
Begun ==
  /\ token_stream[1] = Ident(Current.name)
  /\ token_stream[2] = Equals /\ token_stream[3] = Keyword(Current.keyword)
InBeginning == statements # <<>> /\ Current # End /\ part = 0 /\ input # <<>>

(* Where the lexer is in the file *)
FileInv ==
  /\ statements = <<>> => part = 0 /\ input = <<>>
  /\ statements # <<>> => part <= LastPart(Current)
  /\ InBeginning => \/ input = <<Equals, Keyword(Current.keyword), LeftParen>>
                    \/ input = <<Keyword(Current.keyword), LeftParen>>
                    \/ input = <<LeftParen>>
  /\ ~InBeginning => input \in Seq(PlainTokens)
  /\ \A n \in 1..Len(statements)-1 : statements[n] # End

(* The window and the beginning of a statement *)
WindowInv ==
  /\ pc \in {"scan", "advance"} /\ ~eof =>
       /\ InBeginning /\ Len(input) = 3 =>
            token_stream[3] = Ident(Current.name) /\ (pc = "scan" => token_stream[2] # Equals)
       /\ InBeginning /\ Len(input) = 2 =>
            token_stream[2] = Ident(Current.name) /\ token_stream[3] = Equals
       /\ InBeginning /\ Len(input) = 1 => Begun
       /\ ~InBeginning => token_stream[3] # Equals /\ (pc = "scan" => token_stream[2] # Equals)
  /\ pc = "advance" /\ eof => token_stream[3] # Equals

(* What is left of an argument while load() is in it, i its number of items *)
Inner == {Comma, Bad} \cup {Ident(k) : k \in Names}

Closing(tokens) ==
  tokens # <<>> /\ Last(tokens) = RightParen /\ \A n \in 1..Len(tokens)-1 : tokens[n] \in Inner
Wrapped(tokens) == \E t \in Inner : tokens = <<LeftParen, t, RightParen>>

InArguments ==
  LET items == frames[1].items
      index == frames[1].index
      n == part
  IN /\ n <= Len(Current.args)
     /\ \/ /\ Len(frames) = 1 /\ pc = "open"
           /\ n = 0 /\ input = <<LeftParen>> /\ Len(items) = 0 /\ index = 0
        \/ /\ Len(frames) = 1 /\ pc = "load"
           /\ input = <<>> /\ Len(items) = n /\ index = IF n = 0 THEN 0 ELSE n - 1
        \/ /\ n > 0 /\ Len(items) = n - 1 /\ index = n - 1
           /\ \/ /\ Len(frames) = 1 /\ pc = "load"
                 /\ \/ input = ArgumentTokens(Current.args[n])
                    \/ Wrapped(input) \/ input = <<RightParen>>
              \/ /\ Len(frames) = 2 /\ pc = "open" /\ frames[2].typed /\ Wrapped(input)
              \/ /\ Len(frames) = 2 /\ pc = "load"
                 /\ Closing(input) /\ (frames[2].typed => Len(input) <= 2)

(* The statement and the calls that load() is in *)
InStatement ==
  /\ statements # <<>> /\ Current.keyword \in Entities /\ (InBeginning => Len(input) = 1)
  /\ Begun /\ current_id = Current.name

InCalls ==
  /\ Len(frames) \in {1, 2}
  /\ frames[1].attribute = -1 /\ ~frames[1].typed /\ frames[1].registers
  /\ Len(frames) = 2 =>
       /\ frames[2].registers = ~frames[2].typed
       /\ ~frames[2].typed => frames[2].attribute = Len(frames[1].items)

LoadInv == Loading => InStatement /\ InCalls /\ (~eof => InArguments)

(* A known statement whose beginning was read, and which is no instance yet *)
Pending ==
  /\ statements # <<>> /\ Current.keyword \in Entities
  /\ \/ Loading
     \/ InBeginning /\ Len(input) >= 2
     \/ InBeginning /\ pc # "advance" /\ token_stream[2] = Equals

CountInv ==
  /\ pc \in {"scan", "advance"} \/ Loading => good_ = "SUCCESS"
  /\ Len(instances) \in {Cardinality(KnownStatements), Cardinality(KnownStatements) - 1}
  /\ pc # "thrown" /\ good_ = "SUCCESS" =>
       Len(instances) = Cardinality(KnownStatements) - IF Pending THEN 1 ELSE 0
  /\ \A n \in KnownStatements : Ordinal(n) <= Len(instances) =>
       /\ instances[Ordinal(n)].name = statements[n].name
       /\ instances[Ordinal(n)].type = statements[n].keyword

(* Names lead to instances that have them, those of references to resolve   *)
(* too: the loop over them dereferences no null pointer.                   *)
NamesInv ==
  /\ \A k \in Names : byid_[k] # 0 => instances[byid_[k]].name = k
  /\ \A n \in 1..Len(instances) : byid_[instances[n].name] # 0
  /\ \A n \in 1..Len(references_to_resolve) : byid_[references_to_resolve[n].name] # 0

(* The references in items, those that are only names, and those resolved  *)
(* were all registered.                                                    *)
Registered(item, attribute) ==
  item.kind \in {"ref", "list"} =>
    \A k \in item.refs : BagIn(<<k, token_stream[3][2], attribute, current_id>>, byref_excl_)

ItemsRegistered ==
  /\ \A n \in 1..Len(frames[1].items) : Registered(frames[1].items[n], n - 1)
  /\ Len(frames) = 2 /\ ~frames[2].typed =>
       \A n \in 1..Len(frames[2].items) : Registered(frames[2].items[n], frames[2].attribute)

NamesRegistered ==
  \A n \in 1..Len(references_to_resolve) :
    LET p == references_to_resolve[n]
    IN \A k \in p.refs : BagIn(<<k, instances[byid_[p.name]].type, p.index, p.name>>, byref_excl_)

AttributesRegistered ==
  \A n \in 1..Len(instances) : \A i \in DOMAIN instances[n].attr : \A x \in instances[n].attr[i] :
    BagIn(<<instances[x].name, instances[n].type, i, instances[n].name>>, byref_excl_)

ReferencesInv ==
  /\ Loading => ItemsRegistered
  /\ Unambiguous => NamesRegistered /\ AttributesRegistered

IInv ==
  Types /\ FileInv /\ WindowInv /\ LoadInv /\ CountInv /\ NamesInv /\ ReferencesInv

(***************************************************************************)
(* Why a file without a flaw is loaded as it says. As long as what was     *)
(* read has no flaw, no token passes through the window but those between  *)
(* the arguments of two statements, the items in a call are what the       *)
(* arguments read so far say, and every name in an attribute is once among *)
(* the inverses, and among the references to resolve or in the attribute.  *)
(***************************************************************************)
Reading == pc \in {"scan", "advance", "open", "load"}

(* The file may still be one without a flaw. *)
FlawlessSoFar ==
  /\ \A n \in 1..Len(statements) : statements[n] # End => Regular(statements[n])
  /\ \A m, n \in 1..Len(statements) :
       m # n /\ statements[m] # End /\ statements[n] # End => Distinct(statements[m], statements[n])

Promising == IF Reading THEN FlawlessSoFar /\ (eof => Complete) ELSE Sound

(* No statement is being read. *)
Between ==
  pc \in {"scan", "advance"} /\ (statements = <<>> \/ (Current # End /\ part = LastPart(Current)))

NoBad(tokens) == \A n \in 1..Len(tokens) : tokens[n] # Bad

(* The rest of what follows the last argument, and of the end of the file *)
Remainders ==
  {<<>>, <<Semicolon>>, <<EndExchange, Semicolon>>, <<Semicolon, EndExchange, Semicolon>>}

PlaceInv ==
  /\ Len(statements) = Len(instances) + IF Between THEN 0 ELSE 1
  /\ pc \in {"scan", "advance"} =>
       \/ InBeginning /\ (pc = "advance" => Len(input) # 1)
       \/ Between \/ Current = End
  /\ pc \in {"scan", "advance"} /\ ~InBeginning => input \in Remainders
  /\ NoBad(input)

(* A name in the window is that of a statement whose beginning it shows. *)
WindowNames ==
  pc \in {"scan", "advance"} /\ ~eof =>
    /\ token_stream[1][1] = "ident" /\ pc = "scan" => InBeginning /\ Len(input) = 1
    /\ token_stream[2][1] = "ident" => InBeginning /\ Len(input) = 2
    /\ token_stream[3][1] = "ident" => InBeginning /\ Len(input) = 3

(* What load() makes of an argument *)
ItemOf(a) ==
  CASE a.kind = "string" -> [kind |-> "string", guid |-> a.guid]
    [] a.kind = "ref" -> [kind |-> "ref", refs |-> a.refs]
    [] a.kind = "list" /\ a.refs # {} -> [kind |-> "list", refs |-> a.refs]
    [] OTHER -> [kind |-> "other"]

(* How far an inner call is in a list: the items are the names before the   *)
(* cursor, in their order.                                                 *)
InList(refs, items, rest) ==
  LET names == SetToSeq(refs)
      tokens == ListTokens(refs)
  IN \E read \in 1..Len(tokens) :
       /\ Len(rest) = Len(tokens) - read /\ 2 * Len(items) \in {read, read - 1}
       /\ \A n \in 1..Len(rest) : rest[n] = tokens[read + n]
       /\ Len(items) <= Cardinality(refs)
       /\ \A n \in 1..Len(items) : items[n] = [kind |-> "ref", refs |-> {names[n]}]

ArgumentsInv ==
  /\ \A n \in 1..Len(frames[1].items) : frames[1].items[n] = ItemOf(Current.args[n])
  /\ Len(frames) = 1 /\ part > 0 /\ Len(frames[1].items) = part - 1 =>
       input = ArgumentTokens(Current.args[part])
  /\ Len(frames) = 2 /\ frames[2].typed => Current.args[part].kind = "typed"
  /\ Len(frames) = 2 /\ ~frames[2].typed =>
       /\ Current.args[part].kind = "list"
       /\ InList(Current.args[part].refs, frames[2].items, input)

(* The n-th instance is the n-th statement, and the maps lead to it.       *)
EnteredInv ==
  \A n \in 1..Len(instances) :
    LET s == statements[n]
        o == instances[n]
    IN /\ n <= Len(statements) /\ s # End
       /\ o.name = s.name /\ o.type = s.keyword
       /\ DOMAIN o.attr = 0..Len(s.args)-1
       /\ o.guid = IF s.keyword \in Rooted /\ s.args # <<>> THEN s.args[1].guid ELSE ""
       /\ byid_[o.name] = n /\ o.name <= MaxId
       /\ o.guid # "" => byguid_[o.guid] = n

(* Attribute i of the n-th statement refers to k. *)
Refers(n, i, k) ==
  /\ statements[n] # End /\ i \in 0..Len(statements[n].args)-1
  /\ k \in RefersTo(statements[n].args[i + 1])

(* load() has come to it in the statement that it is reading. *)
ReadSoFar(i, k) ==
  /\ Loading
  /\ \/ i < Len(frames[1].items)
     \/ /\ i = Len(frames[1].items) /\ Len(frames) = 2 /\ ~frames[2].typed
        /\ \E d \in 1..Len(frames[2].items) : frames[2].items[d].refs = {k}

InversesInv ==
  \A e \in DOMAIN byref_excl_ :
    /\ byref_excl_[e] = 1
    /\ \E n \in 1..Len(statements) : \E i \in 0..Len(statements[n].args)-1 : \E k \in Names :
         /\ e = <<k, statements[n].keyword, i, statements[n].name>>
         /\ Refers(n, i, k) /\ (n > Len(instances) => ReadSoFar(i, k))

(* A reference to resolve is that of an attribute, and each attribute has   *)
(* one or has been resolved.                                               *)
OutstandingInv ==
  /\ \A q \in 1..Len(references_to_resolve) :
       LET p == references_to_resolve[q]
       IN \E n \in 1..Len(instances) :
            /\ p.name = instances[n].name /\ p.index \in DOMAIN instances[n].attr
            /\ LET a == statements[n].args[p.index + 1] IN p.kind = a.kind /\ p.refs = a.refs
  /\ \A n \in 1..Len(instances) : \A i \in DOMAIN instances[n].attr :
       /\ \/ instances[n].attr[i] = {byid_[k] : k \in RefersTo(statements[n].args[i + 1])}
          \/ \E q \in 1..Len(references_to_resolve) :
               /\ references_to_resolve[q].name = instances[n].name
               /\ references_to_resolve[q].index = i
       /\ Reading => instances[n].attr[i] = {}

(* Of what was read, all is in the instances and the maps. *)
LoadedSoFar ==
  /\ good_ = "SUCCESS" /\ pc # "thrown"
  /\ Reading => PlaceInv /\ WindowNames
  /\ ~Reading => Len(statements) = Len(instances) + 1
  /\ Loading => ArgumentsInv
  /\ EnteredInv /\ InversesInv /\ OutstandingInv
  /\ pc = "done" => references_to_resolve = <<>>

LengthInv ==
  Len(statements) <= MaxStatements + IF statements # <<>> /\ Current = End THEN 1 ELSE 0

SoundInv == LengthInv /\ (Promising => LoadedSoFar)
------------------------------------------------------------------------------
(***************************************************************************)
(* The tokens of a file.                                                   *)
(***************************************************************************)
LEMMA SequenceOfSet ==
  ASSUME NEW S, IsFiniteSet(S)
  PROVE  SetToSeq(S) \in [1..Cardinality(S) -> S]
<1>1. PICK f : f \in Bijection(1..Cardinality(S), S)
  BY FS_CardinalityType DEF ExistsBijection
<1>2. f \in [1..Cardinality(S) -> S] /\ IsInjective(f)
  BY <1>1 DEF Bijection, Injection, Surjection, IsInjective
<1> QED BY <1>2 DEF SetToSeq

LEMMA TokenKinds ==
  /\ None[1] = "none" /\ Bad[1] = "bad" /\ Equals[1] = "op" /\ LeftParen[1] = "op"
  /\ RightParen[1] = "op" /\ Comma[1] = "op" /\ Semicolon[1] = "op" /\ Dollar[1] = "op"
  /\ EndSection[1] = "keyword" /\ EndExchange[1] = "keyword"
  /\ \A w : Keyword(w)[1] = "keyword" /\ Keyword(w)[2] = w
  /\ \A k : Ident(k)[1] = "ident" /\ Ident(k)[2] = k
  /\ \A g : Text(g)[1] = "string" /\ Text(g)[2] = g
BY DEF None, Bad, Equals, LeftParen, RightParen, Comma, Semicolon, Dollar, EndSection,
       EndExchange, Keyword, Ident, Text

LEMMA TokensDiffer ==
  /\ None # Bad /\ None # Equals /\ None # LeftParen /\ None # RightParen /\ None # Comma
  /\ None # Dollar /\ Bad # Equals /\ Bad # LeftParen /\ Bad # RightParen /\ Bad # Comma
  /\ Bad # Dollar /\ LeftParen # Equals /\ RightParen # Equals /\ Comma # Equals
  /\ Semicolon # Equals /\ Dollar # Equals /\ EndSection # Equals /\ EndExchange # Equals
  /\ LeftParen # RightParen /\ LeftParen # Comma /\ LeftParen # Dollar
  /\ RightParen # Comma /\ RightParen # Dollar /\ Comma # Dollar
BY DEF None, Bad, Equals, LeftParen, RightParen, Comma, Semicolon, Dollar, EndSection,
       EndExchange, Keyword

LEMMA TokenFacts ==
  /\ Equals \in FileTokens /\ LeftParen \in FileTokens /\ RightParen \in FileTokens
  /\ Comma \in FileTokens /\ Semicolon \in FileTokens /\ Dollar \in FileTokens
  /\ Bad \in FileTokens /\ EndSection \in FileTokens /\ EndExchange \in FileTokens
  /\ \A w \in STRING : Keyword(w) \in FileTokens
  /\ \A k \in Names : Ident(k) \in FileTokens
  /\ \A g \in Guids : Text(g) \in FileTokens
  /\ None \notin FileTokens
  /\ Inner \subseteq FileTokens
  /\ Equals \notin Inner /\ RightParen \notin Inner /\ LeftParen \notin Inner
  /\ \A w : Keyword(w) \notin Inner
<1>1. /\ Equals \in FileTokens /\ LeftParen \in FileTokens /\ RightParen \in FileTokens
      /\ Comma \in FileTokens /\ Semicolon \in FileTokens /\ Dollar \in FileTokens
      /\ Bad \in FileTokens /\ EndSection \in FileTokens /\ EndExchange \in FileTokens
  BY DEF FileTokens
<1>2. \A w \in STRING : Keyword(w) \in FileTokens
  BY DEF FileTokens, Keyword
<1>3. \A k \in Names : Ident(k) \in FileTokens
  BY DEF FileTokens, Ident
<1>4. \A g \in Guids : Text(g) \in FileTokens
  BY DEF FileTokens, Text
<1>5. None \notin FileTokens
  <2>1. \A t \in FileTokens : t[1] \in {"op", "bad", "keyword", "ident", "string"}
    BY TokenKinds DEF FileTokens
  <2> QED BY <2>1, TokenKinds
<1>6. Inner \subseteq FileTokens
  BY <1>1, <1>3 DEF Inner
<1>7. /\ Equals \notin Inner /\ RightParen \notin Inner /\ LeftParen \notin Inner
      /\ \A w : Keyword(w) \notin Inner
  BY TokenKinds, TokensDiffer DEF Inner
<1> QED BY <1>1, <1>2, <1>3, <1>4, <1>5, <1>6, <1>7

LEMMA PlainFacts ==
  /\ LeftParen \in PlainTokens /\ RightParen \in PlainTokens
  /\ Comma \in PlainTokens /\ Semicolon \in PlainTokens /\ Dollar \in PlainTokens
  /\ Bad \in PlainTokens /\ EndSection \in PlainTokens /\ EndExchange \in PlainTokens
  /\ \A w \in STRING : Keyword(w) \in PlainTokens
  /\ \A k \in Names : Ident(k) \in PlainTokens
  /\ \A g \in Guids : Text(g) \in PlainTokens
  /\ Inner \subseteq PlainTokens
  /\ Seq(PlainTokens) \subseteq Seq(FileTokens)
<1>1. \A w : Keyword(w) # Equals
  BY TokenKinds
<1>2. \A k : Ident(k) # Equals
  BY TokenKinds
<1>3. \A g : Text(g) # Equals
  BY TokenKinds
<1>4. Seq(PlainTokens) \subseteq Seq(FileTokens)
  BY SeqMonotonic DEF PlainTokens
<1> QED BY <1>1, <1>2, <1>3, <1>4, TokenFacts, TokensDiffer DEF PlainTokens

(* The forms that an argument takes *)
Simple(t) == t \in {Dollar, Bad} \cup {Ident(k) : k \in Names}
                  \cup {Text(g) : g \in Guids}

IsArgument(tokens) ==
  /\ tokens \in Seq(PlainTokens) /\ tokens # <<>>
  /\ \/ \E t : Simple(t) /\ tokens = <<t>>
     \/ Head(tokens) = LeftParen /\ Closing(Tail(tokens))
     \/ \E w \in STRING \ Entities : Head(tokens) = Keyword(w) /\ Wrapped(Tail(tokens))

LEMMA FirstAndRest ==
  ASSUME NEW S, NEW x \in S, NEW a \in Seq(S)
  PROVE  /\ <<x>> \o a \in Seq(S) /\ <<x>> \o a # <<>> /\ Len(<<x>> \o a) = Len(a) + 1
         /\ Head(<<x>> \o a) = x /\ Tail(<<x>> \o a) = a
         /\ \A i \in 1..Len(<<x>> \o a) : (<<x>> \o a)[i] = IF i = 1 THEN x ELSE a[i - 1]
OBVIOUS

LEMMA NamesAreFinite == \A refs \in SUBSET Names : IsFiniteSet(refs)
BY NamesAssumption, FS_Subset

LEMMA ListForm ==
  ASSUME NEW refs \in SUBSET Names
  PROVE  IsArgument(ListTokens(refs))
<1> DEFINE c == Cardinality(refs)
           names == SetToSeq(refs)
           inner == [n \in 1..2 * c - 1 |->
                      IF n % 2 = 1 THEN Ident(names[(n + 1) \div 2]) ELSE Comma]
<1>1. c \in Nat /\ names \in [1..c -> refs]
  BY NamesAreFinite, FS_CardinalityType, SequenceOfSet
<1>2. \A n \in 1..2 * c - 1 : inner[n] \in Inner
  <2> TAKE n \in 1..2 * c - 1
  <2>1. CASE n % 2 = 1
    <3>1. (n + 1) \div 2 \in 1..c
      BY <1>1
    <3>2. names[(n + 1) \div 2] \in Names
      BY <1>1, <3>1
    <3> QED BY <2>1, <3>2 DEF Inner
  <2>2. CASE n % 2 # 1
    BY <2>2 DEF Inner
  <2> QED BY <2>1, <2>2
<1>3. inner \in Seq(Inner)
  <2>1. CASE c = 0
    BY <2>1
  <2>2. CASE c # 0
    <3>1. 2 * c - 1 \in Nat
      BY <1>1, <2>2
    <3>2. inner \in [1..2 * c - 1 -> Inner]
      BY <1>2
    <3> HIDE DEF inner
    <3> QED BY <3>1, <3>2, SeqDef
  <2> QED BY <2>1, <2>2
<1> HIDE DEF inner
<1> DEFINE rest == inner \o <<RightParen>>
<1>4. ListTokens(refs) = <<LeftParen>> \o inner \o <<RightParen>>
  BY DEF ListTokens, inner
<1>5. inner \in Seq(PlainTokens)
  BY <1>3, PlainFacts, SeqMonotonic
<1>6. ListTokens(refs) = <<LeftParen>> \o rest
  BY <1>4, <1>5, PlainFacts, ConcatAssociative
<1>7. /\ rest \in Seq(PlainTokens) /\ Len(rest) = Len(inner) + 1 /\ rest[Len(rest)] = RightParen
      /\ \A n \in 1..Len(rest)-1 : rest[n] = inner[n]
  BY <1>5, PlainFacts
<1>8. Closing(rest)
  BY <1>3, <1>7 DEF Closing, Last
<1> HIDE DEF rest
<1>9. /\ <<LeftParen>> \o rest \in Seq(PlainTokens) /\ <<LeftParen>> \o rest # <<>>
      /\ Head(<<LeftParen>> \o rest) = LeftParen /\ Tail(<<LeftParen>> \o rest) = rest
  <2>1. LeftParen \in PlainTokens /\ rest \in Seq(PlainTokens)
    BY <1>7, PlainFacts
  <2> QED BY <2>1, FirstAndRest
<1> QED BY <1>6, <1>8, <1>9 DEF IsArgument

LEMMA SimpleForm ==
  ASSUME NEW t, Simple(t)
  PROVE  IsArgument(<<t>>)
<1>1. t \in PlainTokens
  BY PlainFacts DEF Simple
<1>2. <<t>> \in Seq(PlainTokens) /\ <<t>> # <<>>
  BY <1>1
<1> QED BY <1>2 DEF IsArgument

LEMMA Tuples ==
  ASSUME NEW S, NEW a \in S, NEW b \in S, NEW c \in S, NEW d \in S
  PROVE  /\ <<a>> \in Seq(S) /\ <<a, b>> \in Seq(S)
         /\ <<a, b, c>> \in Seq(S) /\ <<a, b, c, d>> \in Seq(S)
         /\ <<a>> # <<>> /\ <<a, b>> # <<>> /\ <<a, b, c>> # <<>> /\ <<a, b, c, d>> # <<>>
         /\ Head(<<a>>) = a /\ Head(<<a, b>>) = a /\ Head(<<a, b, c>>) = a
         /\ Head(<<a, b, c, d>>) = a
         /\ Tail(<<a>>) = <<>> /\ Tail(<<a, b>>) = <<b>> /\ Tail(<<a, b, c>>) = <<b, c>>
         /\ Tail(<<a, b, c, d>>) = <<b, c, d>>
         /\ Len(<<a>>) = 1 /\ Len(<<a, b>>) = 2 /\ Len(<<a, b, c>>) = 3
         /\ Len(<<a, b, c, d>>) = 4
OBVIOUS

LEMMA FourTokens ==
  ASSUME NEW a, NEW b, NEW c, NEW d
  PROVE  <<a, b>> \o <<c>> \o <<d>> = <<a, b, c, d>>
<1> DEFINE S == {a, b, c, d}
<1>1. /\ <<a, b>> \in Seq(S) /\ <<c>> \in Seq(S) /\ <<d>> \in Seq(S)
      /\ <<a, b, c>> \in Seq(S) /\ <<a, b, c, d>> \in Seq(S)
  OBVIOUS
<1> HIDE DEF S
<1>2. <<a, b>> \o <<c>> = <<a, b, c>>
  <2> DEFINE s == <<a, b>> \o <<c>>
             t == <<a, b, c>>
  <2>1. s \in Seq(S) /\ t \in Seq(S) /\ Len(s) = 3 /\ Len(t) = 3
    BY <1>1
  <2>2. s[1] = t[1] /\ s[2] = t[2] /\ s[3] = t[3]
    BY <1>1
  <2> HIDE DEF s, t
  <2>3. s = t
    <3>1. \A i \in 1..Len(s) : s[i] = t[i]
      BY <2>1, <2>2
    <3> QED BY <2>1, <3>1, SeqEqual
  <2> QED BY <2>3 DEF s, t
<1>3. <<a, b, c>> \o <<d>> = <<a, b, c, d>>
  <2> DEFINE s == <<a, b, c>> \o <<d>>
             t == <<a, b, c, d>>
  <2>1. s \in Seq(S) /\ t \in Seq(S) /\ Len(s) = 4 /\ Len(t) = 4
    BY <1>1
  <2>2. s[1] = t[1] /\ s[2] = t[2] /\ s[3] = t[3] /\ s[4] = t[4]
    BY <1>1
  <2> HIDE DEF s, t
  <2>3. s = t
    <3>1. \A i \in 1..Len(s) : s[i] = t[i]
      BY <2>1, <2>2
    <3> QED BY <2>1, <3>1, SeqEqual
  <2> QED BY <2>3 DEF s, t
<1> QED BY <1>2, <1>3

LEMMA Tails ==
  ASSUME NEW a, NEW b, NEW c
  PROVE  /\ Head(<<a, b, c>>) = a /\ Head(<<a, b>>) = a /\ Head(<<a>>) = a
         /\ Tail(<<a, b, c>>) = <<b, c>> /\ Tail(<<a, b>>) = <<b>> /\ Tail(<<a>>) = <<>>
         /\ <<a, b, c>> # <<>> /\ <<a, b>> # <<>> /\ <<a>> # <<>>
         /\ Len(<<a, b, c>>) = 3 /\ Len(<<a, b>>) = 2 /\ Len(<<a>>) = 1
OBVIOUS

LEMMA TypedForm ==
  ASSUME NEW w \in STRING \ Entities, NEW t \in Inner
  PROVE  IsArgument(<<Keyword(w), LeftParen>> \o <<t>> \o <<RightParen>>)
<1> DEFINE k == Keyword(w)
           tokens == <<k, LeftParen, t, RightParen>>
<1>1. <<Keyword(w), LeftParen>> \o <<t>> \o <<RightParen>> = tokens
  BY FourTokens
<1>2. /\ k \in PlainTokens /\ LeftParen \in PlainTokens
      /\ t \in PlainTokens /\ RightParen \in PlainTokens
  BY PlainFacts
<1> HIDE DEF k
<1>3. /\ tokens \in Seq(PlainTokens) /\ tokens # <<>>
      /\ Head(tokens) = k /\ Tail(tokens) = <<LeftParen, t, RightParen>>
  BY <1>2
<1>4. Wrapped(Tail(tokens))
  BY <1>3 DEF Wrapped
<1> HIDE DEF tokens
<1> USE DEF k
<1>5. \E v \in STRING \ Entities : Head(tokens) = Keyword(v) /\ Wrapped(Tail(tokens))
  BY <1>3, <1>4
<1> QED BY <1>1, <1>3, <1>5 DEF IsArgument

LEMMA ArgumentForm ==
  ASSUME NEW a \in Arguments
  PROVE  IsArgument(ArgumentTokens(a))
<1>1. CASE a.kind = "$"
  BY <1>1, SimpleForm DEF ArgumentTokens, SimpleTokens, Simple
<1>2. CASE a.kind = "bad"
  BY <1>2, SimpleForm DEF ArgumentTokens, SimpleTokens, Simple
<1>3. CASE a.kind = "string"
  <2>1. a.guid \in Guids
    BY <1>3 DEF Arguments
  <2> QED BY <1>3, <2>1, SimpleForm DEF ArgumentTokens, SimpleTokens, Simple
<1>4. CASE a.kind = "ref"
  <2>1. PICK k \in Names : a.refs = {k}
    BY <1>4 DEF Arguments
  <2>2. (CHOOSE j \in a.refs : TRUE) = k
    BY <2>1
  <2> QED BY <1>4, <2>2, SimpleForm DEF ArgumentTokens, SimpleTokens, Simple
<1>5. CASE a.kind = "list"
  <2>1. a.refs \in SUBSET Names
    BY <1>5 DEF Arguments
  <2> QED BY <1>5, <2>1, ListForm DEF ArgumentTokens, SimpleTokens
<1>6. CASE a.kind = "typed"
  <2>1. a.keyword \in STRING \ Entities
    BY <1>6 DEF Arguments
  <2>2. \/ a.arg.kind = "bad"
        \/ a.arg.kind = "ref" /\ \E k \in Names : a.arg.refs = {k}
    <3>1. a.arg \in [kind : {"ref"}, refs : {{k} : k \in Names}] \cup [kind : {"bad"}]
      BY <1>6 DEF Arguments
    <3>2. CASE a.arg \in [kind : {"ref"}, refs : {{k} : k \in Names}]
      <4>1. a.arg.kind = "ref" /\ a.arg.refs \in {{k} : k \in Names}
        BY <3>2
      <4> QED BY <4>1
    <3>3. CASE a.arg \in [kind : {"bad"}]
      <4>1. a.arg.kind = "bad"
        BY <3>3
      <4> QED BY <4>1
    <3> QED BY <3>1, <3>2, <3>3
  <2>3. \E t \in Inner : SimpleTokens(a.arg) = <<t>>
    <3>1. CASE a.arg.kind = "bad"
      BY <3>1 DEF SimpleTokens, Inner
    <3>2. ASSUME a.arg.kind = "ref", NEW k \in Names, a.arg.refs = {k}
          PROVE  SimpleTokens(a.arg) = <<Ident(k)>>
      <4>1. (CHOOSE j \in a.arg.refs : TRUE) = k
        BY <3>2
      <4> QED BY <3>2, <4>1 DEF SimpleTokens
    <3> QED BY <2>2, <3>1, <3>2 DEF Inner
  <2> QED BY <1>6, <2>1, <2>3, TypedForm DEF ArgumentTokens
<1>7. a.kind \in {"$", "bad", "string", "ref", "list", "typed"}
  BY DEF Arguments
<1> QED BY <1>1, <1>2, <1>3, <1>4, <1>5, <1>6, <1>7
(* Statements and their parts *)
LEMMA StatementFacts ==
  ASSUME NEW s \in Statements
  PROVE  /\ s # End /\ s.name \in Names /\ s.keyword \in STRING
         /\ s.args \in Seq(Arguments) /\ Len(s.args) \in Nat
<1>1. s.name \in Names /\ s.keyword \in STRING /\ s.args \in Seq(Arguments)
  BY StatementsAssumption
<1>2. End.name = 0
  BY DEF End
<1>3. 0 \notin Names
  BY NamesAssumption, FS_CardinalityType
<1> QED BY <1>1, <1>2, <1>3

LEMMA EndFacts == End.keyword \notin Entities
BY SchemaAssumption DEF End

LEMMA TrailerFacts ==
  /\ Trailer \in Seq(PlainTokens) /\ Trailer # <<>> /\ Head(Trailer) = EndSection
<1>1. EndSection \in PlainTokens /\ Semicolon \in PlainTokens /\ EndExchange \in PlainTokens
  BY PlainFacts
<1> QED BY <1>1 DEF Trailer

LEMMA BeginningForm ==
  ASSUME NEW s \in Statements
  PROVE  /\ Tokens(s, 0) = <<Ident(s.name), Equals, Keyword(s.keyword), LeftParen>>
         /\ Tokens(s, 0) \in Seq(FileTokens) /\ Tokens(s, 0) # <<>>
         /\ Head(Tokens(s, 0)) = Ident(s.name)
         /\ Tail(Tokens(s, 0)) = <<Equals, Keyword(s.keyword), LeftParen>>
<1> DEFINE i == Ident(s.name)
           k == Keyword(s.keyword)
           tokens == Tokens(s, 0)
<1>1. i \in FileTokens /\ Equals \in FileTokens /\ k \in FileTokens /\ LeftParen \in FileTokens
  BY StatementFacts, TokenFacts
<1>2. tokens = <<i, Equals, k, LeftParen>>
  BY StatementFacts DEF Tokens
<1> HIDE DEF i, k, tokens
<1>3. /\ tokens \in Seq(FileTokens) /\ tokens # <<>> /\ Head(tokens) = i
      /\ Tail(tokens) = <<Equals, k, LeftParen>>
  BY <1>1, <1>2
<1> QED BY <1>2, <1>3 DEF i, k, tokens

LEMMA PartForm ==
  ASSUME NEW s \in Statements, NEW n \in 1..Len(s.args)
  PROVE  /\ Tokens(s, n) \in Seq(PlainTokens) /\ Tokens(s, n) # <<>>
         /\ n = 1 => Tokens(s, n) = ArgumentTokens(s.args[1])
         /\ n # 1 => Head(Tokens(s, n)) = Comma /\ Tail(Tokens(s, n)) = ArgumentTokens(s.args[n])
<1> DEFINE a == ArgumentTokens(s.args[n])
<1>1. s # End /\ s.args[n] \in Arguments /\ n # 0
  BY StatementFacts
<1>2. a \in Seq(PlainTokens) /\ a # <<>>
  BY <1>1, ArgumentForm DEF IsArgument
<1>3. Tokens(s, n) = (IF n = 1 THEN <<>> ELSE <<Comma>>) \o a
  BY <1>1 DEF Tokens
<1>4. n = 1 => a = ArgumentTokens(s.args[1])
  OBVIOUS
<1> HIDE DEF a
<1>5. CASE n = 1
  BY <1>2, <1>3, <1>4, <1>5
<1>6. CASE n # 1
  <2>1. Tokens(s, n) = <<Comma>> \o a
    BY <1>3, <1>6
  <2>2. /\ <<Comma>> \o a \in Seq(PlainTokens) /\ <<Comma>> \o a # <<>>
        /\ Head(<<Comma>> \o a) = Comma /\ Tail(<<Comma>> \o a) = a
    <3>1. a \in Seq(PlainTokens) /\ Comma \in PlainTokens
      BY <1>2, PlainFacts
    <3> QED BY <3>1, FirstAndRest
  <2>3. Tokens(s, n) \in Seq(PlainTokens) /\ Tokens(s, n) # <<>>
        /\ Head(Tokens(s, n)) = Comma /\ Tail(Tokens(s, n)) = a
    BY <2>1, <2>2, Zenon
  <2> QED BY <1>6, <2>3 DEF a
<1> QED BY <1>5, <1>6

LEMMA LastForm ==
  ASSUME NEW s \in Statements
  PROVE  /\ Tokens(s, Len(s.args) + 1) \in Seq(PlainTokens) /\ Tokens(s, Len(s.args) + 1) # <<>>
         /\ Head(Tokens(s, Len(s.args) + 1)) = RightParen
<1> DEFINE tokens == Tokens(s, Len(s.args) + 1)
<1>1. s # End /\ Len(s.args) + 1 # 0 /\ Len(s.args) + 1 \notin 1..Len(s.args)
  BY StatementFacts
<1>2. tokens = <<RightParen, Semicolon>>
  BY <1>1 DEF Tokens
<1>3. RightParen \in PlainTokens /\ Semicolon \in PlainTokens
  BY PlainFacts
<1> HIDE DEF tokens
<1>4. tokens \in Seq(PlainTokens) /\ tokens # <<>> /\ Head(tokens) = RightParen
  BY <1>2, <1>3
<1> QED BY <1>4 DEF tokens

(* What holds of every part *)
LEMMA TokensFacts ==
  ASSUME NEW s \in Statements \cup {End}, NEW n \in 0..LastPart(s)
  PROVE  /\ Tokens(s, n) \in Seq(FileTokens) /\ Tokens(s, n) # <<>>
         /\ (s # End /\ n = 0) \/ Tokens(s, n) \in Seq(PlainTokens)
<1>1. CASE s = End
  <2>1. End.args = <<>> /\ Len(<<>>) = 0
    BY DEF End
  <2>2. Tokens(s, n) = Trailer
    BY <1>1, <2>1 DEF Tokens
  <2> QED BY <1>1, <2>2, TrailerFacts, PlainFacts
<1>2. CASE s \in Statements /\ n = 0
  BY <1>2, BeginningForm, StatementFacts
<1>3. CASE s \in Statements /\ n \in 1..Len(s.args)
  BY <1>3, PartForm, PlainFacts
<1>4. CASE s \in Statements /\ n = Len(s.args) + 1
  BY <1>4, LastForm, PlainFacts
<1> QED BY <1>1, <1>2, <1>3, <1>4, StatementFacts DEF LastPart

(***************************************************************************)
(* What the lexer hands out next.                                          *)
(***************************************************************************)
Continues(t) ==
  /\ input # <<>> /\ t = Head(input) /\ input' = Tail(input)
  /\ UNCHANGED <<statements, part>>

BeginsPart(t) ==
  /\ input = <<>> /\ statements # <<>> /\ Current \in Statements /\ part < LastPart(Current)
  /\ part' = part + 1 /\ UNCHANGED statements
  /\ t = Head(Tokens(Current, part')) /\ input' = Tail(Tokens(Current, part'))

BeginsStatement(t, s) ==
  /\ input = <<>>
  /\ statements # <<>> => Current # End /\ part = LastPart(Current)
  /\ part' = 0 /\ statements' = Append(statements, s)
  /\ t = Head(Tokens(s, 0)) /\ input' = Tail(Tokens(s, 0))

LEMMA CurrentStatement ==
  ASSUME FileTypes, FileInv, statements # <<>>
  PROVE  /\ Len(statements) \in Nat \ {0} /\ Current = statements[Len(statements)]
         /\ Current \in Statements \cup {End} /\ part \in 0..LastPart(Current)
<1>1. Len(statements) \in Nat \ {0} /\ statements[Len(statements)] \in Statements \cup {End}
  BY DEF FileTypes
<1>2. LastPart(End) = 0
  BY DEF LastPart
<1>3. \A s \in Statements : LastPart(s) \in Nat
  BY StatementFacts DEF LastPart
<1> QED BY <1>1, <1>2, <1>3 DEF FileTypes, FileInv, Current, Last

LEMMA LexSteps ==
  ASSUME FileTypes, FileInv, NEW t, Lex(t)
  PROVE  \/ t = None /\ eof' = TRUE /\ UNCHANGED <<statements, part, input>>
         \/ /\ ~eof /\ eof' \in BOOLEAN
            /\ \/ Continues(t)
               \/ BeginsPart(t)
               \/ \E s \in Statements \cup {End} : BeginsStatement(t, s)
<1>1. CASE eof /\ t = None /\ UNCHANGED fileVars
  BY <1>1 DEF fileVars, FileTypes
<1>2. CASE ~eof /\ t = None /\ eof' = TRUE /\ UNCHANGED <<statements, part, input>>
  BY <1>2
<1>3. CASE ~eof /\ Continues(t) /\ eof' \in BOOLEAN
  BY <1>3
<1>4. ASSUME ~eof, input = <<>>, MoreParts, part' = part + 1, UNCHANGED statements,
             t = Head(Tokens(Last(statements'), part')),
             input' = Tail(Tokens(Last(statements'), part'))
      PROVE  BeginsPart(t)
  <2>1. statements # <<>> /\ part < LastPart(Current)
    BY <1>4 DEF MoreParts, Current
  <2>2. Current \in Statements
    <3>1. LastPart(End) = 0
      BY DEF LastPart
    <3> QED BY <2>1, <3>1, CurrentStatement DEF FileTypes
  <2>3. Last(statements') = Current
    BY <1>4 DEF Current
  <2> QED BY <1>4, <2>1, <2>2, <2>3 DEF BeginsPart
<1>5. ASSUME ~eof, input = <<>>, ~MoreParts, part' = 0,
             statements # <<>> => Last(statements) # End,
             NEW s \in Statements \cup {End}, statements' = Append(statements, s),
             t = Head(Tokens(Last(statements'), part')),
             input' = Tail(Tokens(Last(statements'), part'))
      PROVE  BeginsStatement(t, s)
  <2>1. Last(statements') = s
    BY <1>5 DEF Last, FileTypes
  <2>2. statements # <<>> => Current # End /\ part = LastPart(Current)
    <3> SUFFICES ASSUME statements # <<>>
                 PROVE  Current # End /\ part = LastPart(Current)
      OBVIOUS
    <3>1. part \in 0..LastPart(Current) /\ part \in Nat /\ ~(part < LastPart(Current))
      BY <1>5, CurrentStatement DEF MoreParts, Current, FileTypes
    <3>2. LastPart(Current) \in Nat
      <4>1. LastPart(End) = 0 /\ \A r \in Statements : LastPart(r) \in Nat
        BY StatementFacts DEF LastPart
      <4> QED BY <4>1, CurrentStatement
    <3> QED BY <1>5, <3>1, <3>2 DEF Current
  <2> QED BY <1>5, <2>1, <2>2 DEF BeginsStatement
<1> QED BY <1>1, <1>2, <1>3, <1>4, <1>5 DEF Lex, Continues

LEMMA ContinuesKeepsFile ==
  ASSUME FileTypes, FileInv, NEW t, Continues(t), eof' \in BOOLEAN
  PROVE  FileTypes' /\ FileInv' /\ t \in FileTokens
<1> DEFINE k == Keyword(Current.keyword)
<1>1. t \in FileTokens /\ input' \in Seq(FileTokens) /\ Len(input') = Len(input) - 1
  BY DEF Continues, FileTypes
<1>2. FileTypes'
  BY <1>1 DEF FileTypes, Continues
<1>3. statements # <<>> /\ Current' = Current /\ LastPart(Current)' = LastPart(Current)
  BY DEF Continues, FileInv, Current
<1>4. CASE ~InBeginning
  <2>1. input' \in Seq(PlainTokens)
    BY <1>4 DEF FileInv, Continues
  <2>2. ~InBeginning'
    BY <1>3, <1>4 DEF InBeginning, Continues
  <2> QED BY <1>1, <1>2, <1>3, <2>1, <2>2 DEF FileInv, Continues
<1>5. CASE InBeginning
  <2>1. \/ input = <<Equals, k, LeftParen>>
        \/ input = <<k, LeftParen>>
        \/ input = <<LeftParen>>
    BY <1>5 DEF FileInv
  <2> HIDE DEF k
  <2>2. \/ input' = <<k, LeftParen>> /\ input' # <<>>
        \/ input' = <<LeftParen>> /\ input' # <<>>
        \/ input' = <<>>
    <3>1. CASE input = <<Equals, k, LeftParen>>
      BY <3>1, Tails DEF Continues
    <3>2. CASE input = <<k, LeftParen>>
      BY <3>2, Tails DEF Continues
    <3>3. CASE input = <<LeftParen>>
      BY <3>3, Tails DEF Continues
    <3> QED BY <2>1, <3>1, <3>2, <3>3
  <2>3. k' = k
    BY <1>3 DEF k
  <2>4. <<>> \in Seq(PlainTokens)
    OBVIOUS
  <2>5. ~InBeginning' => input' = <<>>
    BY <1>3, <1>5 DEF InBeginning, Continues
  <2>6. InBeginning' => \/ input' = <<k, LeftParen>>'
                        \/ input' = <<LeftParen>>'
    BY <2>2, <2>3 DEF InBeginning
  <2> QED BY <1>1, <1>2, <1>3, <2>4, <2>5, <2>6 DEF FileInv, Continues, k
<1> QED BY <1>4, <1>5

LEMMA BeginsPartKeepsFile ==
  ASSUME FileTypes, FileInv, NEW t, BeginsPart(t), eof' \in BOOLEAN
  PROVE  FileTypes' /\ FileInv' /\ t \in PlainTokens /\ ~InBeginning' /\ part' > 0
<1>1. Current \in Statements /\ Current' = Current /\ statements # <<>>
  BY DEF BeginsPart, Current
<1>2. part \in Nat /\ part' = part + 1 /\ part' \in 0..LastPart(Current) /\ part' # 0
  <2>1. LastPart(Current) \in Nat
    BY <1>1, StatementFacts DEF LastPart
  <2> QED BY <2>1 DEF BeginsPart, FileTypes
<1>3. Tokens(Current, part') \in Seq(PlainTokens) /\ Tokens(Current, part') # <<>>
  BY <1>1, <1>2, TokensFacts, Zenon
<1>4. t \in PlainTokens /\ input' \in Seq(PlainTokens) /\ input' \in Seq(FileTokens)
  <2>1. t \in PlainTokens /\ input' \in Seq(PlainTokens)
    BY <1>3 DEF BeginsPart
  <2> QED BY <2>1, PlainFacts
<1>5. ~InBeginning'
  BY <1>2 DEF InBeginning
<1>6. FileTypes'
  BY <1>2, <1>4 DEF FileTypes, BeginsPart
<1>7. FileInv'
  <2>1. LastPart(Current') = LastPart(Current)
    BY <1>1
  <2> QED BY <1>1, <1>2, <1>4, <1>5, <2>1 DEF FileInv, BeginsPart
<1> QED BY <1>2, <1>4, <1>5, <1>6, <1>7

LEMMA BeginsStatementKeepsFile ==
  ASSUME FileTypes, FileInv, NEW t, NEW s \in Statements \cup {End}, BeginsStatement(t, s),
         eof' \in BOOLEAN
  PROVE  /\ FileTypes' /\ FileInv' /\ t \in PlainTokens /\ Current' = s
         /\ Len(statements') = Len(statements) + 1 /\ Len(statements) \in Nat
         /\ \A n \in 1..Len(statements) : statements'[n] = statements[n]
         /\ statements'[Len(statements) + 1] = s
         /\ s # End => /\ InBeginning' /\ Len(input') = 3 /\ t = Ident(s.name)
         /\ s = End => ~InBeginning' /\ t = EndSection
<1>1. /\ statements' \in Seq(Statements \cup {End}) /\ statements' # <<>>
      /\ Len(statements') = Len(statements) + 1 /\ Len(statements) \in Nat
      /\ \A n \in 1..Len(statements) : statements'[n] = statements[n]
      /\ statements'[Len(statements) + 1] = s
  BY DEF BeginsStatement, FileTypes
<1>2. Current' = s
  BY <1>1 DEF Current, Last
<1>3. part' = 0 /\ 0 \in Nat /\ part' <= LastPart(s)
  BY StatementFacts DEF BeginsStatement, LastPart
<1>4. \A n \in 1..Len(statements')-1 : statements'[n] # End
  <2> SUFFICES ASSUME NEW n \in 1..Len(statements')-1
               PROVE  statements[n] # End
    BY <1>1
  <2>1. CASE n = Len(statements)
    <3>1. statements # <<>>
      BY <1>1, <2>1
    <3> QED BY <2>1, <3>1 DEF BeginsStatement, Current, Last
  <2>2. CASE n # Len(statements)
    BY <1>1, <2>2 DEF FileInv
  <2> QED BY <2>1, <2>2
<1>5. CASE s = End
  <2>1. End.args = <<>> /\ Len(<<>>) = 0
    BY DEF End
  <2>2. Tokens(s, 0) = Trailer
    BY <1>5, <2>1 DEF Tokens
  <2>3. Trailer \in Seq(PlainTokens) /\ Trailer # <<>>
    BY TrailerFacts
  <2>4. t = EndSection /\ t \in PlainTokens /\ input' \in Seq(PlainTokens)
    BY <2>2, <2>3, TrailerFacts DEF BeginsStatement
  <2>5. ~InBeginning'
    BY <1>2, <1>5 DEF InBeginning
  <2>6. FileTypes'
    BY <1>1, <1>3, <2>4, PlainFacts DEF FileTypes
  <2>7. FileInv'
    BY <1>1, <1>2, <1>3, <1>4, <2>4, <2>5 DEF FileInv
  <2> QED BY <1>1, <1>2, <1>5, <2>4, <2>5, <2>6, <2>7
<1>6. CASE s # End
  <2> DEFINE k == Keyword(s.keyword)
  <2>1. s \in Statements
    BY <1>6
  <2>2. /\ t = Ident(s.name) /\ input' = <<Equals, k, LeftParen>>
        /\ Tokens(s, 0) \in Seq(FileTokens) /\ Tokens(s, 0) # <<>>
    BY <2>1, BeginningForm DEF BeginsStatement
  <2>3. input' \in Seq(FileTokens)
    BY <2>2 DEF BeginsStatement
  <2>4. t \in PlainTokens
    BY <2>1, <2>2, StatementFacts, PlainFacts
  <2> HIDE DEF k
  <2>5. input' # <<>> /\ Len(input') = 3
    BY <2>2
  <2>6. InBeginning'
    BY <1>1, <1>2, <1>3, <1>6, <2>5 DEF InBeginning
  <2>7. FileTypes'
    BY <1>1, <1>3, <2>3 DEF FileTypes
  <2>8. FileInv'
    <3>1. input' = <<Equals, Keyword(Current.keyword), LeftParen>>'
      BY <1>2, <2>2 DEF k
    <3> QED BY <1>1, <1>2, <1>3, <1>4, <2>6, <3>1 DEF FileInv
  <2> QED BY <1>1, <1>2, <1>6, <2>2, <2>4, <2>5, <2>6, <2>7, <2>8
<1> QED BY <1>5, <1>6

LEMMA LexKeepsFile ==
  ASSUME FileTypes, FileInv, NEW t, Lex(t)
  PROVE  FileTypes' /\ FileInv' /\ t \in FileTokens \cup {None}
<1>1. CASE eof' = TRUE /\ t = None /\ UNCHANGED <<statements, part, input>>
  BY <1>1 DEF FileTypes, FileInv, InBeginning, Current
<1>2. PlainTokens \subseteq FileTokens
  BY DEF PlainTokens
<1> QED BY <1>1, <1>2, LexSteps, ContinuesKeepsFile, BeginsPartKeepsFile,
           BeginsStatementKeepsFile

LEMMA LexEnds ==
  ASSUME FileTypes, FileInv, Lex(None)
  PROVE  eof' = TRUE /\ UNCHANGED <<statements, part, input>>
<1>1. None \notin FileTokens /\ None \notin PlainTokens
  BY TokenFacts DEF PlainTokens
<1>2. eof' \in BOOLEAN
  BY LexKeepsFile DEF FileTypes
<1>3. ~Continues(None)
  BY <1>1, <1>2, ContinuesKeepsFile
<1>4. ~BeginsPart(None)
  BY <1>1, <1>2, BeginsPartKeepsFile
<1>5. \A s \in Statements \cup {End} : ~BeginsStatement(None, s)
  BY <1>1, <1>2, BeginsStatementKeepsFile
<1> QED BY <1>3, <1>4, <1>5, LexSteps

LEMMA FileKept ==
  ASSUME FileTypes, FileInv, [Next]_vars
  PROVE  FileTypes' /\ FileInv'
<1>1. ASSUME UNCHANGED fileVars
      PROVE  FileTypes' /\ FileInv'
  BY <1>1 DEF fileVars, FileTypes, FileInv, InBeginning, Current
<1>2. UNCHANGED fileVars \/ \E t : Lex(t)
  <2>1. CASE Scan
    BY <2>1 DEF Scan, ScanInstance, ScanUnknown, ScanReference, ScanOther, Advance, ScanEnd
  <2>2. CASE LoadBegin
    BY <2>2 DEF LoadBegin
  <2>3. CASE LoadComma
    BY <2>3 DEF LoadComma
  <2>4. CASE LoadOpen
    BY <2>4 DEF LoadOpen
  <2>5. CASE LoadReference
    BY <2>5 DEF LoadReference
  <2>6. CASE LoadValue
    BY <2>6 DEF LoadValue
  <2>7. CASE LoadTyped
    BY <2>7 DEF LoadTyped
  <2>8. CASE LoadThrows
    BY <2>8 DEF LoadThrows
  <2>9. CASE LoadReturn
    BY <2>9 DEF LoadReturn
  <2>10. CASE LoadInstance
    BY <2>10 DEF LoadInstance
  <2>11. CASE LoadAbstract
    BY <2>11 DEF LoadAbstract
  <2>12. CASE ResolveReference \/ ResolveEnd
    BY <2>12 DEF ResolveReference, ResolveEnd
  <2>13. CASE Terminated \/ UNCHANGED vars
    BY <2>13 DEF Terminated, vars
  <2> QED BY <2>1, <2>2, <2>3, <2>4, <2>5, <2>6, <2>7, <2>8, <2>9, <2>10, <2>11, <2>12, <2>13
          DEF Next, Load
<1> QED BY <1>1, <1>2, LexKeepsFile

(***************************************************************************)
(* The window over the beginning of a statement.                           *)
(***************************************************************************)
LEMMA BeginningFacts ==
  ASSUME FileInv, InBeginning
  PROVE  /\ Len(input) \in {1, 2, 3} /\ Len(Tail(input)) = Len(input) - 1
         /\ Len(input) = 3 => Head(input) = Equals
         /\ Len(input) = 2 => Head(input) = Keyword(Current.keyword)
         /\ Len(input) = 1 => Head(input) = LeftParen /\ Tail(input) = <<>>
<1> DEFINE k == Keyword(Current.keyword)
<1>1. \/ input = <<Equals, k, LeftParen>>
      \/ input = <<k, LeftParen>>
      \/ input = <<LeftParen>>
  BY DEF FileInv
<1> HIDE DEF k
<1>2. CASE input = <<Equals, k, LeftParen>>
  BY <1>2, Tails
<1>3. CASE input = <<k, LeftParen>>
  BY <1>3, Tails DEF k
<1>4. CASE input = <<LeftParen>>
  BY <1>4, Tails
<1> QED BY <1>1, <1>2, <1>3, <1>4

LEMMA Appended ==
  ASSUME NEW S, NEW v \in Seq(S), NEW x \in S
  PROVE  /\ Append(v, x) \in Seq(S) /\ Len(Append(v, x)) = Len(v) + 1 /\ Append(v, x) # <<>>
         /\ \A i \in 1..Len(v) : Append(v, x)[i] = v[i]
         /\ Append(v, x)[Len(v) + 1] = x
OBVIOUS

LEMMA TailOf ==
  ASSUME NEW S, NEW w \in Seq(S), w # <<>>
  PROVE  /\ Tail(w) \in Seq(S) /\ Len(Tail(w)) = Len(w) - 1 /\ Len(w) \in Nat /\ Len(w) > 0
         /\ \A i \in 1..Len(w) - 1 : Tail(w)[i] = w[i + 1]
         /\ Head(w) = w[1] /\ w[1] \in S
OBVIOUS

LEMMA Shifted ==
  ASSUME NEW S, NEW w \in Seq(S), w # <<>>, NEW x \in S
  PROVE  /\ Append(Tail(w), x) \in Seq(S) /\ Len(Append(Tail(w), x)) = Len(w)
         /\ \A i \in 1..Len(w)-1 : Append(Tail(w), x)[i] = w[i + 1]
         /\ Append(Tail(w), x)[Len(w)] = x
<1> DEFINE v == Tail(w)
<1>1. v \in Seq(S) /\ Len(v) = Len(w) - 1 /\ \A i \in 1..Len(w)-1 : v[i] = w[i + 1]
  BY TailOf
<1>2. Len(w) \in Nat
  OBVIOUS
<1> HIDE DEF v
<1>3. /\ Append(v, x) \in Seq(S) /\ Len(Append(v, x)) = Len(v) + 1
      /\ \A i \in 1..Len(v) : Append(v, x)[i] = v[i]
      /\ Append(v, x)[Len(v) + 1] = x
  BY <1>1, Appended
<1> QED BY <1>1, <1>2, <1>3 DEF v

LEMMA WindowMoves ==
  ASSUME NEW S, NEW w \in Seq(S), NEW x \in S
  PROVE  Len(w) = 3 =>
           /\ Append(Tail(w), x) \in Seq(S) /\ Len(Append(Tail(w), x)) = 3
           /\ Append(Tail(w), x)[1] = w[2] /\ Append(Tail(w), x)[2] = w[3]
           /\ Append(Tail(w), x)[3] = x
<1> DEFINE a == Append(Tail(w), x)
<1>1. w # <<>> => /\ a \in Seq(S) /\ Len(a) = Len(w) /\ a[Len(w)] = x
                  /\ \A i \in 1..Len(w)-1 : a[i] = w[i + 1]
  BY Shifted
<1> HIDE DEF a
<1>2. SUFFICES ASSUME Len(w) = 3
               PROVE  Len(a) = 3 /\ a[1] = w[2] /\ a[2] = w[3] /\ a[3] = x /\ a \in Seq(S)
  BY DEF a
<1>3. w # <<>> /\ 1 \in 1..Len(w)-1 /\ 2 \in 1..Len(w)-1 /\ 1 + 1 = 2 /\ 2 + 1 = 3
  BY <1>2
<1>4. a[1] = w[1 + 1] /\ a[2] = w[2 + 1] /\ a[Len(w)] = x
  BY <1>1, <1>3, Zenon
<1> QED BY <1>1, <1>2, <1>3, <1>4, Zenon

LEMMA AdvanceKeepsWindow ==
  ASSUME FileTypes, FileInv, WindowInv, Advance,
         token_stream \in Seq(FileTokens \cup {None}), Len(token_stream) = 3
  PROVE  WindowInv'
<1>1. PICK t : Lex(t) /\ IF t[1] = "bad" /\ ~eof'
                         THEN pc' = "resolve"
                         ELSE /\ token_stream' =
                                   Append(Tail(token_stream), IF t[1] = "bad" THEN None ELSE t)
                              /\ pc' = "scan"
  BY DEF Advance
<1>2. pc = "advance" /\ pc' # "advance"
  BY <1>1 DEF Advance
<1>3. SUFFICES ASSUME pc' = "scan", ~eof'
               PROVE  WindowInv'
  BY <1>1, <1>2 DEF WindowInv
<1>4. t \in FileTokens \cup {None} /\ t[1] # "bad"
  BY <1>1, <1>3, LexKeepsFile
<1>5. /\ token_stream'[1] = token_stream[2] /\ token_stream'[2] = token_stream[3]
      /\ token_stream'[3] = t
  <2>1. token_stream' = Append(Tail(token_stream), t)
    BY <1>1, <1>3, <1>4
  <2> QED BY <1>4, <2>1, WindowMoves
<1>6. /\ ~eof
      /\ \/ Continues(t)
         \/ BeginsPart(t)
         \/ \E s \in Statements \cup {End} : BeginsStatement(t, s)
  BY <1>1, <1>3, LexSteps
<1>7. ~InBeginning => token_stream[3] # Equals
  BY <1>2, <1>6 DEF WindowInv
<1>8. CASE Continues(t)
  <2>1. Current' = Current
    BY <1>8 DEF Continues, Current
  <2>2. CASE InBeginning
    <3>1. /\ Len(input') = Len(input) - 1 /\ Len(input) \in {1, 2, 3}
          /\ input' = Tail(input) /\ t = Head(input)
      BY <1>8, <2>2, BeginningFacts DEF Continues
    <3>2. CASE Len(input) = 3
      <4>1. t = Equals /\ Len(input') = 2 /\ token_stream[3] = Ident(Current.name)
        BY <1>2, <1>6, <2>2, <3>1, <3>2, BeginningFacts DEF WindowInv
      <4>2. InBeginning'
        <5>1. input' \in Seq(FileTokens)
          BY <1>1, LexKeepsFile DEF FileTypes
        <5>2. input' # <<>>
          BY <4>1, <5>1
        <5> QED BY <1>8, <2>1, <2>2, <5>2 DEF InBeginning, Continues
      <4> QED BY <1>2, <1>5, <2>1, <4>1, <4>2 DEF WindowInv
    <3>3. CASE Len(input) = 2
      <4>1. /\ t = Keyword(Current.keyword) /\ Len(input') = 1
            /\ token_stream[2] = Ident(Current.name) /\ token_stream[3] = Equals
        BY <1>2, <1>6, <2>2, <3>1, <3>3, BeginningFacts DEF WindowInv
      <4>2. InBeginning'
        <5>1. input' \in Seq(FileTokens)
          BY <1>1, LexKeepsFile DEF FileTypes
        <5>2. input' # <<>>
          BY <4>1, <5>1
        <5> QED BY <1>8, <2>1, <2>2, <5>2 DEF InBeginning, Continues
      <4>3. Begun'
        BY <1>5, <2>1, <4>1 DEF Begun
      <4> QED BY <1>2, <4>1, <4>2, <4>3 DEF WindowInv
    <3>4. CASE Len(input) = 1
      <4>1. t = LeftParen /\ input' = <<>> /\ token_stream[3] = Keyword(Current.keyword)
        BY <1>2, <1>6, <2>2, <3>1, <3>4, BeginningFacts DEF WindowInv, Begun
      <4>2. ~InBeginning' /\ t # Equals /\ token_stream[3] # Equals
        BY <4>1, TokensDiffer, TokenKinds DEF InBeginning
      <4> QED BY <1>2, <1>5, <4>2 DEF WindowInv
    <3> QED BY <3>1, <3>2, <3>3, <3>4
  <2>3. CASE ~InBeginning
    <3>1. t # Equals
      BY <1>8, <2>3 DEF FileInv, Continues, PlainTokens
    <3>2. ~InBeginning'
      BY <1>8, <2>1, <2>3 DEF InBeginning, Continues
    <3> QED BY <1>2, <1>5, <1>7, <2>3, <3>1, <3>2 DEF WindowInv
  <2> QED BY <2>2, <2>3
<1>9. CASE BeginsPart(t)
  <2>1. ~InBeginning /\ ~InBeginning' /\ t # Equals
    <3>1. ~InBeginning /\ eof' \in BOOLEAN
      BY <1>3, <1>9, LexKeepsFile, <1>1 DEF InBeginning, BeginsPart, FileTypes
    <3> QED BY <1>9, <3>1, BeginsPartKeepsFile DEF PlainTokens
  <2> QED BY <1>2, <1>5, <1>7, <2>1 DEF WindowInv
<1>10. ASSUME NEW s \in Statements \cup {End}, BeginsStatement(t, s)
       PROVE  WindowInv'
  <2>1. ~InBeginning /\ eof' \in BOOLEAN
    BY <1>1, <1>10, LexKeepsFile DEF InBeginning, BeginsStatement, FileTypes
  <2>2. /\ t # Equals /\ Current' = s
        /\ s # End => InBeginning' /\ Len(input') = 3 /\ t = Ident(s.name)
        /\ s = End => ~InBeginning'
    BY <1>10, <2>1, BeginsStatementKeepsFile DEF PlainTokens
  <2> QED BY <1>2, <1>5, <1>7, <2>1, <2>2 DEF WindowInv
<1> QED BY <1>6, <1>8, <1>9, <1>10

LEMMA ScanKeepsWindow ==
  ASSUME WindowInv, Scanning, UNCHANGED <<fileVars, token_stream>>, pc' \in {"advance", "open"}
  PROVE  WindowInv'
BY DEF WindowInv, Scanning, fileVars, InBeginning, Begun, Current

(* What stands at the top of the loop when it shows an instance *)
LEMMA InstanceShown ==
  ASSUME FileInv, WindowInv, Scanning, AtInstance
  PROVE  InBeginning /\ Len(input) = 1 /\ Begun
<1>1. pc = "scan" /\ ~eof /\ token_stream[2] = Equals /\ token_stream[3][1] = "keyword"
  BY DEF Scanning, AtInstance
<1>2. InBeginning
  BY <1>1 DEF WindowInv
<1>3. Len(input) # 3
  BY <1>1, <1>2 DEF WindowInv
<1>4. Len(input) # 2
  BY <1>1, <1>2, TokenKinds DEF WindowInv
<1> QED BY <1>1, <1>2, <1>3, <1>4, BeginningFacts DEF WindowInv

(***************************************************************************)
(* What the lexer hands out to load().                                     *)
(***************************************************************************)
LEMMA ClosingFacts ==
  ASSUME NEW q \in Seq(FileTokens), Closing(q)
  PROVE  \/ Head(q) = RightParen /\ Tail(q) = <<>> /\ Len(q) = 1
         \/ Head(q) \in Inner /\ Closing(Tail(q)) /\ Len(Tail(q)) = Len(q) - 1 /\ Len(q) # 1
<1>1. /\ q # <<>> /\ Len(q) \in Nat /\ q[Len(q)] = RightParen
      /\ \A n \in 1..Len(q)-1 : q[n] \in Inner
  BY DEF Closing, Last
<1>2. /\ Tail(q) \in Seq(FileTokens) /\ Len(Tail(q)) = Len(q) - 1 /\ Len(q) > 0
      /\ \A i \in 1..Len(q) - 1 : Tail(q)[i] = q[i + 1]
      /\ Head(q) = q[1]
  BY <1>1, TailOf
<1> DEFINE r == Tail(q)
<1> HIDE DEF r
<1>3. CASE Len(q) = 1
  <2>1. Len(r) = 0 /\ r \in Seq(FileTokens)
    BY <1>2, <1>3 DEF r
  <2>2. r = <<>>
    BY <2>1
  <2> QED BY <1>1, <1>2, <1>3, <2>2 DEF r
<1>4. CASE Len(q) # 1
  <2>1. Head(q) \in Inner
    BY <1>1, <1>2, <1>4
  <2>2. r \in Seq(FileTokens) /\ Len(r) = Len(q) - 1 /\ Len(r) \in Nat /\ Len(r) > 0
    BY <1>1, <1>2, <1>4 DEF r
  <2>3. r # <<>>
    BY <2>2
  <2>4. r[Len(r)] = RightParen
    <3>1. r[Len(r)] = q[Len(r) + 1]
      BY <1>2, <2>2 DEF r
    <3> QED BY <1>1, <2>2, <3>1
  <2>5. ASSUME NEW n \in 1..Len(r)-1
        PROVE  r[n] \in Inner
    <3>1. r[n] = q[n + 1]
      BY <1>2, <2>2 DEF r
    <3>2. n + 1 \in 1..Len(q) - 1
      BY <2>2
    <3> QED BY <1>1, <3>1, <3>2
  <2>6. Closing(r)
    BY <2>3, <2>4, <2>5 DEF Closing, Last
  <2> QED BY <1>4, <2>1, <2>2, <2>6 DEF r
<1> QED BY <1>3, <1>4

LEMMA WrappedFacts ==
  ASSUME NEW q, Wrapped(q)
  PROVE  /\ Head(q) = LeftParen /\ Closing(Tail(q)) /\ Len(Tail(q)) = 2 /\ q # <<>>
<1>1. PICK t \in Inner : q = <<LeftParen, t, RightParen>>
  BY DEF Wrapped
<1>2. /\ Head(q) = LeftParen /\ Tail(q) = <<t, RightParen>> /\ q # <<>>
  BY <1>1, Tails
<1>3. Len(<<t, RightParen>>) = 2 /\ <<t, RightParen>>[1] = t /\ <<t, RightParen>>[2] = RightParen
      /\ <<t, RightParen>> # <<>>
  OBVIOUS
<1>4. Closing(<<t, RightParen>>)
  <2> DEFINE p == <<t, RightParen>>
  <2>1. p # <<>> /\ p[Len(p)] = RightParen
    BY <1>3
  <2>2. \A n \in 1..Len(p)-1 : n = 1
    BY <1>3
  <2>3. p[1] \in Inner
    BY <1>3
  <2> HIDE DEF p
  <2>4. \A n \in 1..Len(p)-1 : p[n] \in Inner
    BY <2>2, <2>3
  <2>5. Closing(p)
    BY <2>1, <2>4 DEF Closing, Last
  <2> QED BY <2>5 DEF p
<1> QED BY <1>2, <1>3, <1>4

(* A token of an argument, and what is left of the argument after it *)
InArgument(t, rest) ==
  \/ Simple(t) /\ rest = <<>>
  \/ t = LeftParen /\ Closing(rest)
  \/ (\E w \in STRING \ Entities : t = Keyword(w)) /\ Wrapped(rest)

LEMMA ArgumentBegins ==
  ASSUME NEW a \in Arguments
  PROVE  InArgument(Head(ArgumentTokens(a)), Tail(ArgumentTokens(a)))
<1> DEFINE tokens == ArgumentTokens(a)
<1>1. \/ \E t : Simple(t) /\ tokens = <<t>>
      \/ Head(tokens) = LeftParen /\ Closing(Tail(tokens))
      \/ \E w \in STRING \ Entities : Head(tokens) = Keyword(w) /\ Wrapped(Tail(tokens))
  BY ArgumentForm DEF IsArgument
<1>2. ASSUME NEW t, Simple(t), tokens = <<t>>
      PROVE  InArgument(Head(tokens), Tail(tokens))
  BY <1>2, Tails DEF InArgument
<1> HIDE DEF tokens
<1>3. InArgument(Head(tokens), Tail(tokens))
  BY <1>1, <1>2 DEF InArgument
<1> QED BY <1>3 DEF tokens

LEMMA LoadingFacts ==
  ASSUME FileTypes, FileInv, LoadInv, Loading
  PROVE  /\ statements # <<>> /\ Current \in Statements /\ Current.args \in Seq(Arguments)
         /\ Len(Current.args) \in Nat /\ LastPart(Current) = Len(Current.args) + 1
         /\ Current.name \in Names /\ Current.keyword \in Entities
<1>1. statements # <<>> /\ Current \in Statements
  BY EndFacts, CurrentStatement DEF LoadInv, InStatement, InCalls
<1> QED BY <1>1, StatementFacts DEF LastPart, LoadInv, InStatement

LEMMA OpenLex ==
  ASSUME FileTypes, FileInv, LoadInv, pc = "open", NEW t, Lex(t), t # None
  PROVE  /\ ~eof /\ UNCHANGED <<statements, part>>
         /\ Len(frames) = 1 => /\ part = 0 /\ input' = <<>>
                               /\ Len(frames[1].items) = 0 /\ frames[1].index = 0
         /\ Len(frames) = 2 => /\ Closing(input') /\ Len(input') = 2
                               /\ part > 0 /\ part <= Len(Current.args)
                               /\ Len(frames[1].items) = part - 1 /\ frames[1].index = part - 1
<1>1. ~eof /\ Loading
  BY LexSteps DEF Loading
<1>2. InArguments /\ (InBeginning => Len(input) = 1) /\ Len(frames) \in {1, 2}
  BY <1>1 DEF LoadInv, InStatement, InCalls
<1>3. input # <<>>
  <2>1. <<LeftParen>> # <<>>
    OBVIOUS
  <2> QED BY <1>2, <2>1, WrappedFacts DEF InArguments
<1>4. Continues(t)
  BY <1>3, LexSteps DEF BeginsPart, BeginsStatement
<1>5. CASE Len(frames) = 1
  <2>1. /\ part = 0 /\ input = <<LeftParen>> /\ Len(frames[1].items) = 0 /\ frames[1].index = 0
    BY <1>2, <1>5 DEF InArguments
  <2> QED BY <1>1, <1>4, <1>5, <2>1, Tails DEF Continues
<1>6. CASE Len(frames) = 2
  <2>1. Wrapped(input) /\ part > 0 /\ part <= Len(Current.args)
        /\ Len(frames[1].items) = part - 1 /\ frames[1].index = part - 1
    BY <1>2, <1>6 DEF InArguments
  <2> QED BY <1>1, <1>4, <1>6, <2>1, WrappedFacts DEF Continues
<1> QED BY <1>2, <1>5, <1>6

LEMMA OuterLex ==
  ASSUME FileTypes, FileInv, LoadInv, pc = "load", Len(frames) = 1, NEW t, Lex(t), t # None
  PROVE  /\ ~eof /\ UNCHANGED statements /\ part' \in Nat /\ part' > 0
         /\ \/ t = RightParen
            \/ /\ t = Comma /\ part' \in 1..Len(Current.args)
               /\ input' = ArgumentTokens(Current.args[part'])
               /\ Len(frames[1].items) = part' - 1 /\ frames[1].index = part' - 2
            \/ /\ InArgument(t, input') /\ part' \in 1..Len(Current.args)
               /\ Len(frames[1].items) = part' - 1 /\ frames[1].index = part' - 1
<1> DEFINE items == frames[1].items
           index == frames[1].index
<1>1. ~eof /\ Loading
  BY LexSteps DEF Loading
<1>2. InArguments
  BY <1>1 DEF LoadInv, InStatement, InCalls
<1>3. /\ statements # <<>> /\ Current \in Statements /\ Current.args \in Seq(Arguments)
      /\ Len(Current.args) \in Nat /\ LastPart(Current) = Len(Current.args) + 1
  BY <1>1, LoadingFacts
<1>4. \/ Continues(t)
      \/ BeginsPart(t)
      \/ \E s \in Statements \cup {End} : BeginsStatement(t, s)
  BY LexSteps
<1>5. part \in Nat
  BY DEF FileTypes
<1>6. CASE /\ input = <<>> /\ Len(items) = part /\ index = (IF part = 0 THEN 0 ELSE part - 1)
           /\ part <= Len(Current.args)
  <2>1. BeginsPart(t)
    BY <1>3, <1>4, <1>5, <1>6 DEF Continues, BeginsStatement
  <2>2. UNCHANGED statements /\ part' = part + 1 /\ part' \in Nat /\ part' > 0
        /\ t = Head(Tokens(Current, part')) /\ input' = Tail(Tokens(Current, part'))
    BY <1>5, <2>1 DEF BeginsPart
  <2>3. CASE part = Len(Current.args)
    <3>1. part' = Len(Current.args) + 1
      BY <2>2, <2>3
    <3>2. t = RightParen
      BY <1>3, <2>2, <3>1, LastForm
    <3> QED BY <1>1, <2>2, <3>2
  <2>4. CASE part # Len(Current.args)
    <3>1. part' \in 1..Len(Current.args)
      BY <1>3, <1>5, <1>6, <2>2, <2>4
    <3>2. CASE part' = 1
      <4>1. Current.args[1] \in Arguments
        BY <1>3, <3>1, <3>2
      <4>2. Tokens(Current, part') = ArgumentTokens(Current.args[1])
        BY <1>3, <3>1, <3>2, PartForm
      <4>3. InArgument(t, input')
        BY <2>2, <4>1, <4>2, ArgumentBegins
      <4>4. part = 0
        BY <1>5, <2>2, <3>2
      <4> QED BY <1>1, <1>6, <2>2, <3>1, <3>2, <4>3, <4>4
    <3>3. CASE part' # 1
      <4>1. t = Comma /\ input' = ArgumentTokens(Current.args[part'])
        BY <1>3, <2>2, <3>1, <3>3, PartForm
      <4> QED BY <1>1, <1>5, <1>6, <2>2, <3>1, <3>3, <4>1
    <3> QED BY <3>2, <3>3
  <2> QED BY <2>3, <2>4
<1>7. CASE /\ part > 0 /\ Len(items) = part - 1 /\ index = part - 1 /\ part <= Len(Current.args)
           /\ \/ input = ArgumentTokens(Current.args[part])
              \/ Wrapped(input) \/ input = <<RightParen>>
  <2>1. part \in 1..Len(Current.args) /\ Current.args[part] \in Arguments
    BY <1>3, <1>5, <1>7
  <2>2. input # <<>>
    <3>1. <<RightParen>> # <<>>
      OBVIOUS
    <3> QED BY <1>7, <2>1, <3>1, WrappedFacts, ArgumentForm DEF IsArgument
  <2>3. t = Head(input) /\ input' = Tail(input) /\ UNCHANGED <<statements, part>>
    BY <1>4, <2>2 DEF Continues, BeginsPart, BeginsStatement
  <2>4. CASE input = <<RightParen>>
    <3>1. t = RightParen
      BY <2>3, <2>4, Tails
    <3> QED BY <1>1, <2>1, <2>3, <3>1
  <2>5. CASE input # <<RightParen>>
    <3>1. InArgument(t, input')
      BY <1>7, <2>1, <2>3, <2>5, WrappedFacts, ArgumentBegins DEF InArgument
    <3> QED BY <1>1, <1>7, <2>1, <2>3, <3>1
  <2> QED BY <2>4, <2>5
<1> QED BY <1>2, <1>6, <1>7 DEF InArguments

LEMMA InnerLex ==
  ASSUME FileTypes, FileInv, LoadInv, pc = "load", Len(frames) = 2, NEW t, Lex(t), t # None
  PROVE  /\ ~eof /\ UNCHANGED <<statements, part>>
         /\ part > 0 /\ part <= Len(Current.args)
         /\ Len(frames[1].items) = part - 1 /\ frames[1].index = part - 1
         /\ \/ t = RightParen /\ input' = <<>>
            \/ t \in Inner /\ Closing(input') /\ (frames[2].typed => Len(input') = 1)
<1>1. ~eof /\ Loading
  BY LexSteps DEF Loading
<1>2. InArguments
  BY <1>1 DEF LoadInv, InStatement, InCalls
<1>3. /\ part > 0 /\ part <= Len(Current.args) /\ Closing(input)
      /\ frames[2].typed => Len(input) <= 2
      /\ Len(frames[1].items) = part - 1 /\ frames[1].index = part - 1
  BY <1>2 DEF InArguments
<1>4. input # <<>>
  BY <1>3 DEF Closing
<1>5. t = Head(input) /\ input' = Tail(input) /\ UNCHANGED <<statements, part>>
  BY <1>4, LexSteps DEF Continues, BeginsPart, BeginsStatement
<1>6. input \in Seq(FileTokens) /\ Len(input) \in Nat \ {0}
  BY <1>4 DEF FileTypes
<1>7. CASE Head(input) = RightParen /\ Tail(input) = <<>>
  BY <1>1, <1>3, <1>5, <1>7
<1>8. CASE Head(input) \in Inner /\ Closing(Tail(input)) /\ Len(Tail(input)) = Len(input) - 1
           /\ Len(input) # 1
  <2>1. frames[2].typed => Len(input') = 1
    BY <1>3, <1>5, <1>6, <1>8
  <2> QED BY <1>1, <1>3, <1>5, <1>8, <2>1
<1> QED BY <1>3, <1>6, <1>7, <1>8, ClosingFacts

(***************************************************************************)
(* The calls of load().                                                    *)
(***************************************************************************)
LEMMA TopFacts ==
  ASSUME frames \in Seq(Frames), InCalls
  PROVE  /\ frames # <<>> /\ Top \in Frames
         /\ frames[1] \in Frames /\ (Len(frames) = 2 => frames[2] \in Frames)
         /\ Len(frames) = 1 => Top = frames[1]
         /\ Len(frames) = 2 => Top = frames[2]
<1>1. Len(frames) \in {1, 2}
  BY DEF InCalls
<1>2. frames # <<>> /\ 1 \in 1..Len(frames) /\ Len(frames) \in 1..Len(frames)
  BY <1>1
<1>3. \A n \in 1..Len(frames) : frames[n] \in Frames
  OBVIOUS
<1> QED BY <1>1, <1>2, <1>3 DEF Top, Last

LEMMA TopReplaced ==
  ASSUME frames \in Seq(Frames), InCalls, NEW f \in Frames
  PROVE  /\ WithTop(f) \in Seq(Frames) /\ Len(WithTop(f)) = Len(frames)
         /\ Len(frames) = 1 => WithTop(f)[1] = f
         /\ Len(frames) = 2 => WithTop(f)[1] = frames[1] /\ WithTop(f)[2] = f
<1>1. Len(frames) \in {1, 2} /\ Len(frames) \in 1..Len(frames)
  BY DEF InCalls
<1>2. WithTop(f) = [frames EXCEPT ![Len(frames)] = f]
  BY DEF WithTop, ReplaceAt
<1>3. /\ WithTop(f) \in Seq(Frames) /\ Len(WithTop(f)) = Len(frames)
      /\ \A n \in 1..Len(frames) : WithTop(f)[n] = IF n = Len(frames) THEN f ELSE frames[n]
  BY <1>1, <1>2
<1> QED BY <1>1, <1>3

LEMMA FramePushed ==
  ASSUME frames \in Seq(Frames), InCalls, NEW f \in Frames
  PROVE  /\ Append(frames, f) \in Seq(Frames)
         /\ Len(frames) = 1 => /\ Len(Append(frames, f)) = 2 /\ Append(frames, f)[1] = frames[1]
                               /\ Append(frames, f)[2] = f
<1> DEFINE g == Append(frames, f)
<1>1. /\ g \in Seq(Frames) /\ Len(g) = Len(frames) + 1 /\ g[Len(frames) + 1] = f
      /\ \A n \in 1..Len(frames) : g[n] = frames[n]
  OBVIOUS
<1> HIDE DEF g
<1>2. SUFFICES ASSUME Len(frames) = 1
               PROVE  Len(g) = 2 /\ g[1] = frames[1] /\ g[2] = f
  BY <1>1 DEF g
<1> QED BY <1>1, <1>2

LEMMA FramePopped ==
  ASSUME frames \in Seq(Frames), InCalls, NEW f \in Frames
  PROVE  Len(frames) = 2 =>
           /\ Append(SubSeq(frames, 1, Len(frames) - 2), f) = <<f>>
           /\ SubSeq(frames, 1, Len(frames) - 1) = <<frames[1]>>
<1>1. SubSeq(frames, 1, 0) = <<>>
  OBVIOUS
<1>2. Append(<<>>, f) = <<f>>
  OBVIOUS
<1>3. SubSeq(frames, 1, 1) = <<frames[1]>>
  <2> DEFINE s == SubSeq(frames, 1, 1)
             u == <<frames[1]>>
  <2>1. frames[1] \in Frames /\ Len(frames) \in Nat /\ Len(frames) >= 1
    BY TopFacts DEF InCalls
  <2>2. s \in Seq(Frames) /\ Len(s) = 1 /\ s[1] = frames[1]
    BY <2>1
  <2>3. u \in Seq(Frames) /\ Len(u) = 1 /\ u[1] = frames[1]
    BY <2>1
  <2> HIDE DEF s, u
  <2>4. s = u
    <3>1. \A i \in 1..Len(s) : s[i] = u[i]
      BY <2>2, <2>3
    <3> QED BY <2>2, <2>3, <3>1, SeqEqual
  <2> QED BY <2>4 DEF s, u
<1>4. Len(frames) = 2 => Len(frames) - 2 = 0 /\ Len(frames) - 1 = 1
  OBVIOUS
<1> QED BY <1>1, <1>2, <1>3, <1>4, Zenon

LEMMA OneFrame ==
  ASSUME NEW f \in Frames
  PROVE  <<f>> \in Seq(Frames) /\ Len(<<f>>) = 1 /\ <<f>>[1] = f /\ <<f>> # <<>>
OBVIOUS

LEMMA FrameFacts ==
  ASSUME NEW f \in Frames
  PROVE  /\ f.attribute \in Nat \cup {-1} /\ f.index \in Nat /\ f.typed \in BOOLEAN
         /\ f.registers \in BOOLEAN /\ f.items \in Seq(Items) /\ Len(f.items) \in Nat
         /\ \A item \in Items :
              LET g == [f EXCEPT !.items = Append(@, item)]
              IN /\ g \in Frames /\ g.attribute = f.attribute /\ g.index = f.index
                 /\ g.typed = f.typed /\ g.registers = f.registers
                 /\ g.items = Append(f.items, item) /\ Len(g.items) = Len(f.items) + 1
         /\ \A i \in Nat :
              LET g == [f EXCEPT !.index = i]
              IN /\ g \in Frames /\ g.attribute = f.attribute /\ g.index = i
                 /\ g.typed = f.typed /\ g.registers = f.registers /\ g.items = f.items
<1>1. /\ f.attribute \in Nat \cup {-1} /\ f.index \in Nat /\ f.typed \in BOOLEAN
      /\ f.registers \in BOOLEAN /\ f.items \in Seq(Items)
  BY DEF Frames
<1>2. ASSUME NEW item \in Items
      PROVE  LET g == [f EXCEPT !.items = Append(@, item)]
             IN /\ g \in Frames /\ g.attribute = f.attribute /\ g.index = f.index
                /\ g.typed = f.typed /\ g.registers = f.registers
                /\ g.items = Append(f.items, item) /\ Len(g.items) = Len(f.items) + 1
  <2>1. Append(f.items, item) \in Seq(Items) /\ Len(Append(f.items, item)) = Len(f.items) + 1
    BY <1>1
  <2> QED BY <2>1 DEF Frames
<1>3. ASSUME NEW i \in Nat
      PROVE  LET g == [f EXCEPT !.index = i]
             IN /\ g \in Frames /\ g.attribute = f.attribute /\ g.index = i
                /\ g.typed = f.typed /\ g.registers = f.registers /\ g.items = f.items
  BY DEF Frames
<1> QED BY <1>1, <1>2, <1>3

LEMMA NewFrame ==
  ASSUME NEW a \in Nat \cup {-1}, NEW t \in BOOLEAN, NEW r \in BOOLEAN
  PROVE  /\ Frame(a, t, r) \in Frames
         /\ Frame(a, t, r).attribute = a /\ Frame(a, t, r).typed = t /\ Frame(a, t, r).registers = r
         /\ Frame(a, t, r).items = <<>> /\ Len(Frame(a, t, r).items) = 0
         /\ Frame(a, t, r).index = 0
<1>1. <<>> \in Seq(Items) /\ Len(<<>>) = 0
  OBVIOUS
<1> QED BY <1>1 DEF Frame, Frames

LEMMA AttributeOfCall ==
  ASSUME frames \in Seq(Frames), InCalls
  PROVE  /\ Attribute \in Nat
         /\ Len(frames) = 1 => Attribute = frames[1].index
         /\ Len(frames) = 2 /\ ~frames[2].typed => Attribute = frames[2].attribute
<1>1. Top \in Frames /\ frames[1] \in Frames /\ (Len(frames) = 2 => frames[2] \in Frames)
      /\ (Len(frames) = 1 => Top = frames[1]) /\ (Len(frames) = 2 => Top = frames[2])
  BY TopFacts
<1>2. /\ Top.attribute \in Nat \cup {-1} /\ Top.index \in Nat
      /\ Len(frames[1].items) \in Nat /\ Len(frames[1].items) # -1
  BY <1>1, FrameFacts
<1>3. frames[1].attribute = -1 /\ (Len(frames) = 2 /\ ~frames[2].typed => frames[2].attribute # -1)
  BY <1>2 DEF InCalls
<1> QED BY <1>1, <1>2, <1>3 DEF Attribute

LEMMA StatementKept ==
  ASSUME FileTypes, FileInv, LoadInv, Loading, UNCHANGED <<token_stream, current_id>>,
         NEW t, Lex(t)
  PROVE  InStatement' /\ UNCHANGED statements
<1>1. InStatement /\ Len(frames) \in {1, 2}
  BY DEF LoadInv, InCalls
<1>2. /\ UNCHANGED statements
      /\ UNCHANGED <<part, input>> \/ part' > 0 \/ input' = <<>>
  <2>1. CASE t = None
    BY <2>1, LexEnds
  <2>2. CASE t # None /\ pc = "open"
    BY <1>1, <2>2, OpenLex
  <2>3. CASE t # None /\ pc = "load" /\ Len(frames) = 1
    BY <2>3, OuterLex
  <2>4. CASE t # None /\ pc = "load" /\ Len(frames) = 2
    BY <2>4, InnerLex
  <2> QED BY <1>1, <2>1, <2>2, <2>3, <2>4 DEF Loading
<1>3. Current' = Current
  BY <1>2 DEF Current
<1>4. InBeginning' => Len(input') = 1
  BY <1>1, <1>2, <1>3 DEF InStatement, InBeginning
<1> QED BY <1>1, <1>2, <1>3, <1>4 DEF InStatement, Begun

LEMMA ItemFacts ==
  ASSUME NEW item \in Items
  PROVE  /\ item.kind \in {"ref", "list"} => item.refs \in SUBSET Names
         /\ item.kind = "string" => item.guid \in Guids
         /\ item.kind \in {"other", "string", "ref", "list"}
<1>1. CASE item \in [kind : {"other"}]
  BY <1>1
<1>2. CASE item \in [kind : {"string"}, guid : Guids]
  BY <1>2
<1>3. CASE item \in [kind : {"ref", "list"}, refs : SUBSET Names]
  BY <1>3
<1> QED BY <1>1, <1>2, <1>3 DEF Items

LEMMA NewItems ==
  /\ [kind |-> "other"] \in Items
  /\ \A g \in Guids : [kind |-> "string", guid |-> g] \in Items
  /\ \A refs \in SUBSET Names : [kind |-> "ref", refs |-> refs] \in Items
  /\ \A refs \in SUBSET Names : [kind |-> "list", refs |-> refs] \in Items
BY DEF Items

LEMMA CollectedFacts ==
  ASSUME frames \in Seq(Frames), InCalls
  PROVE  Collected \in Items
<1> DEFINE refs == UNION {Top.items[n].refs : n \in {m \in DOMAIN Top.items :
                                                      Top.items[m].kind \in {"ref", "list"}}}
<1>1. Top.items \in Seq(Items)
  BY TopFacts, FrameFacts
<1>2. \A n \in DOMAIN Top.items : Top.items[n] \in Items
  BY <1>1
<1>3. refs \in SUBSET Names
  BY <1>2, ItemFacts
<1> HIDE DEF refs
<1>4. Collected = IF Top.typed \/ refs = {} THEN [kind |-> "other"]
                  ELSE [kind |-> "list", refs |-> refs]
  BY DEF Collected, refs
<1> QED BY <1>3, <1>4, NewItems

LEMMA SimpleKinds ==
  ASSUME NEW t, Simple(t)
  PROVE  /\ t[1] \in {"op", "bad", "ident", "string"}
         /\ t # LeftParen /\ t # RightParen /\ t # Comma /\ t # None
<1>1. CASE t \in {Dollar, Bad}
  BY <1>1, TokenKinds, TokensDiffer
<1>2. CASE t \in {Ident(k) : k \in Names}
  BY <1>2, TokenKinds
<1>3. CASE t \in {Text(g) : g \in Guids}
  BY <1>3, TokenKinds
<1> QED BY <1>1, <1>2, <1>3 DEF Simple

LEMMA InnerKinds ==
  ASSUME NEW t \in Inner
  PROVE  /\ t[1] \in {"op", "bad", "ident"} /\ (t[1] = "op" => t = Comma)
         /\ t # LeftParen /\ t # RightParen /\ t # Dollar /\ t # None
<1>1. CASE t \in {Comma, Bad}
  BY <1>1, TokenKinds, TokensDiffer
<1>2. CASE t \in {Ident(k) : k \in Names}
  BY <1>2, TokenKinds
<1> QED BY <1>1, <1>2 DEF Inner

LEMMA TextFacts ==
  ASSUME NEW t \in FileTokens, t[1] = "string"
  PROVE  t[2] \in Guids
<1>1. CASE t \in {"string"} \X Guids
  BY <1>1
<1>2. CASE t \in {"keyword"} \X STRING \/ t \in {"ident"} \X Names
  BY <1>2
<1>3. CASE t \in {Equals, LeftParen, RightParen, Comma, Semicolon, Dollar, Bad, EndSection,
                  EndExchange}
  BY <1>3, TokenKinds
<1> QED BY <1>1, <1>2, <1>3 DEF FileTokens

LEMMA CallsOfBegin ==
  ASSUME FileTypes, FileInv, LoadInv, frames \in Seq(Frames), LoadBegin
  PROVE  frames' \in Seq(Frames) /\ LoadInv'
<1>1. PICK t : Lex(t)
  BY DEF LoadBegin
<1>2. pc = "open" /\ pc' = "load" /\ UNCHANGED <<frames, token_stream, current_id>> /\ Loading
  BY DEF LoadBegin, loadUnchanged, scanVars, Loading
<1>3. InStatement' /\ UNCHANGED statements
  BY <1>1, <1>2, StatementKept
<1>4. InCalls' /\ Len(frames) \in {1, 2}
  BY <1>2 DEF LoadInv, InCalls
<1>5. ASSUME ~eof'
      PROVE  InArguments'
  <2>1. t # None
    BY <1>1, <1>5, LexEnds
  <2>2. Current' = Current
    BY <1>3 DEF Current
  <2>3. CASE Len(frames) = 1
    <3>1. part' = 0 /\ input' = <<>> /\ Len(frames[1].items) = 0 /\ frames[1].index = 0
      BY <1>1, <1>2, <2>1, <2>3, OpenLex
    <3>2. part' <= Len(Current.args)
      BY <1>2, <3>1, LoadingFacts
    <3> QED BY <1>2, <2>2, <2>3, <3>1, <3>2 DEF InArguments
  <2>4. CASE Len(frames) = 2
    <3>1. /\ part' = part /\ Closing(input') /\ Len(input') = 2 /\ part > 0
          /\ part <= Len(Current.args)
          /\ Len(frames[1].items) = part - 1 /\ frames[1].index = part - 1
      BY <1>1, <1>2, <2>1, <2>4, OpenLex
    <3>2. Closing(input)' /\ Len(input') <= 2
      BY <3>1 DEF Closing
    <3> QED BY <1>2, <2>2, <2>4, <3>1, <3>2 DEF InArguments
  <2> QED BY <1>4, <2>3, <2>4
<1> QED BY <1>2, <1>3, <1>4, <1>5 DEF LoadInv

LEMMA CallsOfComma ==
  ASSUME FileTypes, FileInv, LoadInv, frames \in Seq(Frames), LoadComma
  PROVE  frames' \in Seq(Frames) /\ LoadInv'
<1>1. pc = "load" /\ pc' = "load" /\ UNCHANGED <<token_stream, current_id>> /\ Loading /\ Lex(Comma)
  BY DEF LoadComma, loadUnchanged, scanVars, Loading
<1>2. InStatement' /\ UNCHANGED statements /\ InCalls /\ Len(frames) \in {1, 2} /\ Comma # None
  BY <1>1, StatementKept, TokensDiffer DEF LoadInv, InCalls
<1>3. Current' = Current
  BY <1>2 DEF Current
<1>4. Top \in Frames /\ Top.index \in Nat /\ Top.index + 1 \in Nat /\ frames[1] \in Frames
  BY <1>2, TopFacts, FrameFacts
<1> DEFINE i == IF Top.attribute = -1 THEN Top.index + 1 ELSE Top.index
           f == [Top EXCEPT !.index = i]
<1>5. i \in Nat
  BY <1>4
<1>6. frames' = WithTop(f)
  BY DEF LoadComma
<1> HIDE DEF i
<1>7. /\ f \in Frames /\ f.attribute = Top.attribute /\ f.index = i
      /\ f.typed = Top.typed /\ f.registers = Top.registers /\ f.items = Top.items
  BY <1>4, <1>5, FrameFacts
<1> HIDE DEF f
<1>8. /\ frames' \in Seq(Frames) /\ Len(frames') = Len(frames)
      /\ Len(frames) = 1 => frames'[1] = f /\ Top = frames[1]
      /\ Len(frames) = 2 => frames'[1] = frames[1] /\ frames'[2] = f /\ Top = frames[2]
  BY <1>2, <1>6, <1>7, TopReplaced, TopFacts
<1>9. CASE Len(frames) = 1
  <2>1. InCalls'
    BY <1>2, <1>7, <1>8, <1>9 DEF InCalls
  <2>2. /\ part' \in 1..Len(Current.args) /\ input' = ArgumentTokens(Current.args[part'])
        /\ Len(frames[1].items) = part' - 1 /\ frames[1].index = part' - 2
    <3>1. ~InArgument(Comma, input')
      BY SimpleKinds, TokensDiffer, TokenKinds DEF InArgument
    <3> QED BY <1>1, <1>2, <1>9, <3>1, OuterLex, TokensDiffer
  <2>3. i = part' - 1
    BY <1>2, <1>8, <1>9, <2>2 DEF i, InCalls
  <2>4. InArguments'
    BY <1>1, <1>3, <1>7, <1>8, <1>9, <2>2, <2>3 DEF InArguments
  <2> QED BY <1>2, <1>8, <2>1, <2>4 DEF LoadInv
<1>10. CASE Len(frames) = 2
  <2>1. InCalls'
    BY <1>2, <1>7, <1>8, <1>10 DEF InCalls
  <2>2. /\ UNCHANGED part /\ part > 0 /\ part <= Len(Current.args)
        /\ Len(frames[1].items) = part - 1 /\ frames[1].index = part - 1
        /\ Closing(input') /\ (frames[2].typed => Len(input') = 1)
    BY <1>1, <1>2, <1>10, InnerLex, TokensDiffer
  <2>3. Closing(input)'
    BY <2>2 DEF Closing
  <2>4. frames'[2].typed => Len(input') <= 2
    <3>1. frames'[2].typed = frames[2].typed
      BY <1>7, <1>8, <1>10, Zenon
    <3>2. Len(input') = 1 => Len(input') <= 2
      OBVIOUS
    <3> QED BY <2>2, <3>1, <3>2, Zenon
  <2>5. InArguments'
    BY <1>1, <1>3, <1>8, <1>10, <2>2, <2>3, <2>4 DEF InArguments
  <2> QED BY <1>2, <1>8, <2>1, <2>5 DEF LoadInv
<1> QED BY <1>2, <1>9, <1>10

LEMMA CallsOfOpen ==
  ASSUME FileTypes, FileInv, LoadInv, frames \in Seq(Frames), LoadOpen
  PROVE  frames' \in Seq(Frames) /\ LoadInv' /\ Len(frames) = 1
<1>1. /\ pc = "load" /\ pc' = "load" /\ UNCHANGED <<token_stream, current_id>> /\ Loading
      /\ Lex(LeftParen)
  BY DEF LoadOpen, loadUnchanged, scanVars, Loading
<1>2. /\ InStatement' /\ UNCHANGED statements /\ InCalls /\ Len(frames) \in {1, 2}
      /\ LeftParen # None
  BY <1>1, StatementKept, TokensDiffer DEF LoadInv, InCalls
<1>3. Current' = Current
  BY <1>2 DEF Current
<1>4. Len(frames) = 1
  <2>1. Len(frames) # 2
    BY <1>1, <1>2, InnerLex, InnerKinds, TokensDiffer
  <2> QED BY <1>2, <2>1
<1>5. Top.registers = TRUE /\ Attribute = frames[1].index /\ Attribute \in Nat
  BY <1>2, <1>4, TopFacts, AttributeOfCall, FrameFacts DEF InCalls
<1> DEFINE f == Frame(Attribute, FALSE, TRUE)
<1>6. /\ f \in Frames /\ f.attribute = Attribute /\ f.typed = FALSE /\ f.registers = TRUE
  BY <1>5, NewFrame
<1>7. frames' = Append(frames, f)
  BY <1>5 DEF LoadOpen
<1> HIDE DEF f
<1>8. frames' \in Seq(Frames) /\ Len(frames') = 2 /\ frames'[1] = frames[1] /\ frames'[2] = f
  BY <1>2, <1>4, <1>6, <1>7, FramePushed
<1>9. /\ part' \in 1..Len(Current.args) /\ Closing(input')
      /\ Len(frames[1].items) = part' - 1 /\ frames[1].index = part' - 1
  <2>1. InArgument(LeftParen, input') => Closing(input')
    BY SimpleKinds, TokensDiffer, TokenKinds DEF InArgument
  <2> QED BY <1>1, <1>2, <1>4, <2>1, OuterLex, TokensDiffer
<1>10. InCalls'
  BY <1>2, <1>5, <1>6, <1>8, <1>9 DEF InCalls
<1>11. Closing(input)'
  BY <1>9 DEF Closing
<1>12. InArguments'
  BY <1>1, <1>3, <1>6, <1>8, <1>9, <1>11 DEF InArguments
<1> QED BY <1>2, <1>4, <1>8, <1>10, <1>12 DEF LoadInv

(* The effect of an item on the innermost call *)
LEMMA ItemAdded ==
  ASSUME frames \in Seq(Frames), InCalls, NEW item \in Items, frames' = WithItem(item)
  PROVE  /\ frames' \in Seq(Frames) /\ Len(frames') = Len(frames) /\ InCalls'
         /\ Len(frames) = 1 =>
              /\ frames'[1].items = Append(frames[1].items, item)
              /\ Len(frames'[1].items) = Len(frames[1].items) + 1
              /\ frames'[1].index = frames[1].index
         /\ Len(frames) = 2 =>
              /\ frames'[1] = frames[1] /\ frames'[2].typed = frames[2].typed
              /\ frames'[2].attribute = frames[2].attribute
              /\ frames'[2].items = Append(frames[2].items, item)
<1> DEFINE f == [Top EXCEPT !.items = Append(@, item)]
<1>1. Top \in Frames /\ Len(frames) \in {1, 2}
  BY TopFacts DEF InCalls
<1>2. /\ f \in Frames /\ f.attribute = Top.attribute /\ f.index = Top.index
      /\ f.typed = Top.typed /\ f.registers = Top.registers
      /\ f.items = Append(Top.items, item) /\ Len(f.items) = Len(Top.items) + 1
  BY <1>1, FrameFacts
<1>3. frames' = WithTop(f)
  BY DEF WithItem
<1> HIDE DEF f
<1>4. /\ frames' \in Seq(Frames) /\ Len(frames') = Len(frames)
      /\ Len(frames) = 1 => frames'[1] = f /\ Top = frames[1]
      /\ Len(frames) = 2 => frames'[1] = frames[1] /\ frames'[2] = f /\ Top = frames[2]
  BY <1>2, <1>3, TopReplaced, TopFacts
<1>5. InCalls'
  BY <1>1, <1>2, <1>4 DEF InCalls
<1> QED BY <1>1, <1>2, <1>4, <1>5

LEMMA CallsOfItem ==
  ASSUME FileTypes, FileInv, LoadInv, frames \in Seq(Frames), pc = "load", pc' = "load",
         UNCHANGED <<token_stream, current_id>>, NEW t, Lex(t), t # None,
         NEW item \in Items, frames' = WithItem(item),
         Simple(t), Len(frames) = 2 => t \in Inner
  PROVE  frames' \in Seq(Frames) /\ LoadInv'
<1>1. Loading
  BY DEF Loading
<1>2. InStatement' /\ UNCHANGED statements /\ InCalls /\ Len(frames) \in {1, 2}
  BY <1>1, StatementKept DEF LoadInv, InCalls
<1>3. Current' = Current
  BY <1>2 DEF Current
<1>4. /\ frames' \in Seq(Frames) /\ Len(frames') = Len(frames) /\ InCalls'
      /\ Len(frames) = 1 =>
           /\ Len(frames'[1].items) = Len(frames[1].items) + 1
           /\ frames'[1].index = frames[1].index
      /\ Len(frames) = 2 => frames'[1] = frames[1] /\ frames'[2].typed = frames[2].typed
  BY <1>2, ItemAdded
<1>5. CASE Len(frames) = 1
  <2>1. /\ t # LeftParen /\ t # RightParen /\ t # Comma
        /\ \A w : t # Keyword(w)
    BY SimpleKinds, TokenKinds
  <2>2. /\ part' \in 1..Len(Current.args) /\ part' > 0 /\ part' \in Nat /\ input' = <<>>
        /\ Len(frames[1].items) = part' - 1 /\ frames[1].index = part' - 1
    BY <1>5, <2>1, OuterLex DEF InArgument
  <2>3. Len(frames'[1].items) = part' /\ frames'[1].index = part' - 1 /\ part' # 0
        /\ part' <= Len(Current.args)
    <3>1. Len(Current.args) \in Nat
      BY <1>1, LoadingFacts
    <3> QED BY <1>4, <1>5, <2>2, <3>1
  <2>4. InArguments'
    BY <1>3, <1>4, <1>5, <2>2, <2>3 DEF InArguments
  <2> QED BY <1>2, <1>4, <2>4 DEF LoadInv
<1>6. CASE Len(frames) = 2
  <2>1. t # RightParen
    BY SimpleKinds
  <2>2. /\ UNCHANGED part /\ part > 0 /\ part <= Len(Current.args)
        /\ Len(frames[1].items) = part - 1 /\ frames[1].index = part - 1
        /\ Closing(input') /\ (frames[2].typed => Len(input') = 1)
    BY <1>6, <2>1, InnerLex
  <2>3. Closing(input)'
    BY <2>2 DEF Closing
  <2>4. frames'[2].typed => Len(input') <= 2
    <3>1. frames'[2].typed = frames[2].typed
      BY <1>4, <1>6, Zenon
    <3>2. Len(input') = 1 => Len(input') <= 2
      OBVIOUS
    <3> QED BY <2>2, <3>1, <3>2, Zenon
  <2>5. InArguments'
    BY <1>3, <1>4, <1>6, <2>2, <2>3, <2>4 DEF InArguments
  <2> QED BY <1>2, <1>4, <2>5 DEF LoadInv
<1> QED BY <1>2, <1>5, <1>6

LEMMA CallsOfReference ==
  ASSUME FileTypes, FileInv, LoadInv, frames \in Seq(Frames), LoadReference
  PROVE  frames' \in Seq(Frames) /\ LoadInv'
<1>1. PICK k \in Names : Lex(Ident(k)) /\ frames' = WithItem([kind |-> "ref", refs |-> {k}])
  BY DEF LoadReference
<1>2. Simple(Ident(k)) /\ Ident(k) \in Inner /\ Ident(k) # None
  BY TokenKinds DEF Simple, Inner
<1>3. [kind |-> "ref", refs |-> {k}] \in Items
  BY NewItems
<1>4. pc = "load" /\ pc' = "load" /\ UNCHANGED <<token_stream, current_id>>
  BY DEF LoadReference, loadUnchanged, scanVars
<1> QED BY <1>1, <1>2, <1>3, <1>4, CallsOfItem

LEMMA CallsOfValue ==
  ASSUME FileTypes, FileInv, LoadInv, frames \in Seq(Frames), LoadValue
  PROVE  frames' \in Seq(Frames) /\ LoadInv' /\ Len(frames) = 1
<1>1. PICK t : /\ t[1] = "string" \/ t = Dollar
               /\ Lex(t)
               /\ frames' = WithItem(IF t = Dollar THEN [kind |-> "other"]
                                     ELSE [kind |-> "string", guid |-> t[2]])
  BY DEF LoadValue
<1>2. pc = "load" /\ pc' = "load" /\ UNCHANGED <<token_stream, current_id>> /\ Loading
  BY DEF LoadValue, loadUnchanged, scanVars, Loading
<1>3. t # None /\ t \in FileTokens
  BY <1>1, LexKeepsFile, TokenKinds, TokensDiffer
<1>4. Len(frames) = 1
  <2>1. t \notin Inner /\ t # RightParen
    BY <1>1, InnerKinds, TokenKinds, TokensDiffer
  <2>2. Len(frames) # 2
    BY <1>1, <1>2, <1>3, <2>1, InnerLex
  <2> QED BY <1>2, <2>2 DEF LoadInv, InCalls
<1>5. Simple(t)
  <2>1. t # RightParen /\ t # LeftParen /\ t # Comma /\ \A w : t # Keyword(w)
    BY <1>1, TokenKinds, TokensDiffer
  <2> QED BY <1>1, <1>2, <1>3, <1>4, <2>1, OuterLex DEF InArgument
<1> DEFINE item == IF t = Dollar THEN [kind |-> "other"] ELSE [kind |-> "string", guid |-> t[2]]
<1>6. item \in Items
  BY <1>1, <1>3, TextFacts, NewItems
<1> HIDE DEF item
<1>7. frames' = WithItem(item)
  BY <1>1 DEF item
<1>8. Len(frames) = 2 => t \in Inner
  BY <1>4
<1>9. frames' \in Seq(Frames) /\ LoadInv'
  BY <1>1, <1>2, <1>3, <1>5, <1>6, <1>7, <1>8, CallsOfItem
<1> QED BY <1>4, <1>9

LEMMA CallsOfTyped ==
  ASSUME FileTypes, FileInv, LoadInv, frames \in Seq(Frames), LoadTyped
  PROVE  frames' \in Seq(Frames) /\ LoadInv' /\ Len(frames) = 1
<1>1. PICK t : /\ t[1] = "keyword"
               /\ Lex(t)
               /\ IF t[2] \in DefinedTypes
                  THEN pc' = "open" /\ frames' = Append(frames, Frame(-1, TRUE, FALSE))
                  ELSE UNCHANGED <<pc, frames>>
  BY DEF LoadTyped
<1>2. pc = "load" /\ UNCHANGED <<token_stream, current_id>> /\ Loading
  BY DEF LoadTyped, loadUnchanged, scanVars, Loading
<1>3. t # None /\ t # RightParen /\ t # LeftParen /\ t # Comma /\ t \notin Inner /\ ~Simple(t)
  BY <1>1, TokenKinds, InnerKinds, SimpleKinds
<1>4. InStatement' /\ UNCHANGED statements /\ InCalls /\ Len(frames) \in {1, 2}
  BY <1>1, <1>2, StatementKept DEF LoadInv, InCalls
<1>5. Len(frames) = 1
  <2>1. Len(frames) # 2
    BY <1>1, <1>2, <1>3, InnerLex
  <2> QED BY <1>4, <2>1
<1>6. Current' = Current
  BY <1>4 DEF Current
<1>7. /\ part' \in 1..Len(Current.args) /\ Wrapped(input')
      /\ Len(frames[1].items) = part' - 1 /\ frames[1].index = part' - 1
  BY <1>1, <1>2, <1>3, <1>5, OuterLex DEF InArgument
<1>8. Wrapped(input)'
  BY <1>7 DEF Wrapped
<1>9. part' > 0 /\ part' <= Len(Current.args)
  <2>1. Len(Current.args) \in Nat
    BY <1>2, LoadingFacts
  <2> QED BY <1>7, <2>1
<1>10. CASE pc' = "open" /\ frames' = Append(frames, Frame(-1, TRUE, FALSE))
  <2> DEFINE f == Frame(-1, TRUE, FALSE)
  <2>1. f \in Frames /\ f.typed = TRUE /\ f.registers = FALSE
    BY NewFrame
  <2> HIDE DEF f
  <2>2. frames' \in Seq(Frames) /\ Len(frames') = 2 /\ frames'[1] = frames[1] /\ frames'[2] = f
    BY <1>4, <1>5, <1>10, <2>1, FramePushed DEF f
  <2>3. InCalls'
    BY <1>4, <2>1, <2>2 DEF InCalls
  <2>4. InArguments'
    BY <1>6, <1>7, <1>8, <1>9, <1>10, <2>1, <2>2 DEF InArguments
  <2> QED BY <1>4, <1>5, <2>2, <2>3, <2>4 DEF LoadInv
<1>11. CASE UNCHANGED <<pc, frames>>
  <2>1. InCalls'
    BY <1>4, <1>11 DEF InCalls
  <2>2. InArguments'
    BY <1>2, <1>5, <1>6, <1>7, <1>8, <1>9, <1>11 DEF InArguments
  <2> QED BY <1>4, <1>5, <1>11, <2>1, <2>2 DEF LoadInv
<1> QED BY <1>1, <1>10, <1>11

LEMMA OneToken ==
  ASSUME NEW q \in Seq(FileTokens), Closing(q), Len(q) = 1
  PROVE  q = <<RightParen>>
<1>1. Head(q) = RightParen
  BY ClosingFacts
<1> QED BY <1>1

LEMMA CallsOfThrow ==
  ASSUME FileTypes, FileInv, LoadInv, frames \in Seq(Frames), LoadThrows
  PROVE  /\ frames' \in Seq(Frames) /\ LoadInv'
         /\ \/ frames' = <<>> /\ good_' = "INVALID_SYNTAX" /\ pc' = "resolve"
            \/ /\ Len(frames) = 2 /\ frames[2].typed /\ Len(frames') = 1 /\ frames'[1] = frames[1]
               /\ UNCHANGED <<good_, pc>>
<1> DEFINE typed == {n \in 1..Len(frames) : frames[n].typed}
<1>1. pc = "load" /\ UNCHANGED <<token_stream, current_id>> /\ Loading /\ Lex(Bad)
  BY DEF LoadThrows, loadUnchanged, scanVars, Loading
<1>2. InStatement' /\ UNCHANGED statements /\ InCalls /\ Len(frames) \in {1, 2}
  BY <1>1, StatementKept DEF LoadInv, InCalls
<1>3. IF typed = {}
      THEN good_' = "INVALID_SYNTAX" /\ pc' = "resolve" /\ frames' = <<>>
      ELSE frames' = SubSeq(frames, 1, Max(typed) - 1) /\ UNCHANGED <<good_, pc>>
  BY DEF LoadThrows
<1>4. CASE typed = {}
  <2>1. <<>> \in Seq(Frames)
    OBVIOUS
  <2>2. LoadInv'
    BY <1>3, <1>4 DEF LoadInv, Loading
  <2> QED BY <1>3, <1>4, <2>1, <2>2
<1>5. CASE typed # {}
  <2>1. Len(frames) = 2 /\ frames[2].typed /\ typed = {2}
    <3>1. ~frames[1].typed
      BY <1>2 DEF InCalls
    <3> QED BY <1>2, <1>5, <3>1
  <2>2. Max(typed) = 2
    <3>1. Max({2}) = 2
      BY DEF Max
    <3> QED BY <2>1, <3>1
  <2> HIDE DEF typed
  <2>3. frames' = <<frames[1]>> /\ UNCHANGED <<good_, pc>> /\ frames[1] \in Frames
    <3>1. frames' = SubSeq(frames, 1, Len(frames) - 1) /\ UNCHANGED <<good_, pc>>
      BY <1>3, <1>5, <2>1, <2>2
    <3>2. frames[1] \in Frames
      BY <1>2, TopFacts
    <3>3. SubSeq(frames, 1, Len(frames) - 1) = <<frames[1]>>
      BY <1>2, <2>1, <3>2, FramePopped
    <3> QED BY <3>1, <3>2, <3>3, Zenon
  <2>4. frames' \in Seq(Frames) /\ Len(frames') = 1 /\ frames'[1] = frames[1]
    BY <2>3, OneFrame
  <2>5. InCalls'
    BY <1>2, <2>4 DEF InCalls
  <2>6. /\ UNCHANGED part /\ part > 0 /\ part <= Len(Current.args)
        /\ Len(frames[1].items) = part - 1 /\ frames[1].index = part - 1
        /\ Closing(input') /\ Len(input') = 1
    BY <1>1, <1>2, <2>1, InnerLex, TokensDiffer
  <2>7. input' = <<RightParen>>
    <3>1. input' \in Seq(FileTokens)
      BY <1>1, LexKeepsFile DEF FileTypes
    <3> QED BY <2>6, <3>1, OneToken
  <2>8. InArguments'
    <3>1. Current' = Current
      BY <1>2 DEF Current
    <3> QED BY <1>1, <2>3, <2>4, <2>6, <2>7, <3>1 DEF InArguments
  <2> QED BY <1>2, <2>1, <2>3, <2>4, <2>5, <2>8 DEF LoadInv
<1> QED BY <1>4, <1>5

LEMMA CallsOfReturn ==
  ASSUME FileTypes, FileInv, LoadInv, frames \in Seq(Frames), LoadReturn
  PROVE  /\ frames' \in Seq(Frames) /\ LoadInv' /\ Len(frames) = 2 /\ Len(frames') = 1
         /\ frames'[1].items = Append(frames[1].items, Collected)
<1>1. PICK t : Closes(t) /\ Lex(t)
  BY DEF LoadReturn
<1>2. /\ pc = "load" /\ pc' = "load" /\ UNCHANGED <<token_stream, current_id>> /\ Loading
      /\ Len(frames) > 1
  BY DEF LoadReturn, loadUnchanged, scanVars, Loading
<1>3. InStatement' /\ UNCHANGED statements /\ InCalls /\ Len(frames) = 2
  <2>1. InStatement' /\ UNCHANGED statements
    BY <1>1, <1>2, StatementKept
  <2>2. InCalls /\ Len(frames) \in {1, 2}
    BY <1>2 DEF LoadInv, InCalls
  <2>3. \A n \in {1, 2} : n > 1 => n = 2
    OBVIOUS
  <2>4. Len(frames) = 2
    BY <1>2, <2>2, <2>3, Zenon
  <2> QED BY <2>1, <2>2, <2>4
<1>4. frames[1] \in Frames /\ Collected \in Items
  BY <1>3, TopFacts, CollectedFacts
<1> DEFINE f == [frames[1] EXCEPT !.items = Append(@, Collected)]
<1>5. /\ f \in Frames /\ f.attribute = frames[1].attribute /\ f.index = frames[1].index
      /\ f.typed = frames[1].typed /\ f.registers = frames[1].registers
      /\ f.items = Append(frames[1].items, Collected)
      /\ Len(f.items) = Len(frames[1].items) + 1 /\ Len(frames[1].items) \in Nat
  <2>1. frames[1].items \in Seq(Items) /\ Len(frames[1].items) \in Nat
    BY <1>4, FrameFacts, Zenon
  <2>2. \A g \in Frames : \A item \in Items :
          LET h == [g EXCEPT !.items = Append(@, item)]
          IN /\ h \in Frames /\ h.attribute = g.attribute /\ h.index = g.index
             /\ h.typed = g.typed /\ h.registers = g.registers
             /\ h.items = Append(g.items, item) /\ Len(h.items) = Len(g.items) + 1
    BY FrameFacts, Zenon
  <2> QED BY <1>4, <2>1, <2>2, Zenon
<1>6. frames' = <<f>>
  <2>1. frames' = Append(SubSeq(frames, 1, Len(frames) - 2),
                         [frames[Len(frames) - 1] EXCEPT !.items = Append(@, Collected)])
    BY DEF LoadReturn
  <2>2. frames[Len(frames) - 1] = frames[1]
    BY <1>3
  <2> HIDE DEF f
  <2>3. Append(SubSeq(frames, 1, Len(frames) - 2), f) = <<f>>
    BY <1>3, <1>5, FramePopped
  <2> QED BY <2>1, <2>2, <2>3, Zenon DEF f
<1> HIDE DEF f
<1>7. frames' \in Seq(Frames) /\ Len(frames') = 1 /\ frames'[1] = f
  BY <1>5, <1>6, OneFrame
<1>8. InCalls'
  <2>1. frames'[1].attribute = -1 /\ ~frames'[1].typed /\ frames'[1].registers
    BY <1>3, <1>5, <1>7, Zenon DEF InCalls
  <2>2. 1 # 2
    OBVIOUS
  <2> QED BY <1>7, <2>1, <2>2, Zenon DEF InCalls
<1>9. ASSUME ~eof'
      PROVE  InArguments'
  <2>1. t # None
    BY <1>1, <1>9, LexEnds
  <2>2. t = RightParen /\ t \notin Inner
    BY <1>1, <2>1, InnerKinds DEF Closes
  <2>3. /\ UNCHANGED part /\ part > 0 /\ part <= Len(Current.args) /\ input' = <<>>
        /\ Len(frames[1].items) = part - 1 /\ frames[1].index = part - 1 /\ part \in Nat
    BY <1>1, <1>2, <1>3, <2>1, <2>2, InnerLex DEF FileTypes
  <2>4. Current' = Current
    BY <1>3 DEF Current
  <2>5. Len(f.items) = part /\ f.index = part - 1 /\ part # 0
    BY <1>5, <2>3
  <2> QED BY <1>2, <1>7, <2>3, <2>4, <2>5 DEF InArguments
<1> QED BY <1>3, <1>5, <1>7, <1>8, <1>9 DEF LoadInv

LEMMA CallsOfInstance ==
  ASSUME FileTypes, FileInv, WindowInv, ScanInstance
  PROVE  /\ frames' \in Seq(Frames) /\ LoadInv'
         /\ Current \in Statements /\ Current.keyword = token_stream[3][2] /\ InBeginning
         /\ frames' # <<>> /\ current_id' = Current.name /\ Len(frames') = 1
         /\ Len(frames'[1].items) = 0
<1> DEFINE f == Frame(-1, FALSE, TRUE)
<1>1. InBeginning /\ Len(input) = 1 /\ Begun /\ token_stream[3][2] \in Entities
  BY InstanceShown DEF ScanInstance
<1>2. /\ current_id' = token_stream[1][2] /\ frames' = <<f>> /\ pc' = "open"
      /\ UNCHANGED <<statements, part, input, eof, token_stream>>
  BY DEF ScanInstance, fileVars
<1>3. f \in Frames /\ f.attribute = -1 /\ f.typed = FALSE /\ f.registers = TRUE
      /\ Len(f.items) = 0 /\ f.index = 0
  BY NewFrame
<1> HIDE DEF f
<1>4. frames' \in Seq(Frames) /\ Len(frames') = 1 /\ frames'[1] = f /\ frames' # <<>>
  BY <1>2, <1>3, OneFrame
<1>5. Current.keyword = token_stream[3][2] /\ Current.name = token_stream[1][2]
  BY <1>1, TokenKinds DEF Begun
<1>6. statements # <<>> /\ Current \in Statements /\ part = 0 /\ Current' = Current
  BY <1>1, <1>2, CurrentStatement DEF InBeginning, Current
<1>7. InStatement'
  BY <1>1, <1>2, <1>5, <1>6 DEF InStatement, InBeginning, Begun
<1>8. InCalls'
  BY <1>3, <1>4 DEF InCalls
<1>9. input = <<LeftParen>>
  <2> DEFINE k == Keyword(Current.keyword)
  <2>1. \/ input = <<Equals, k, LeftParen>>
        \/ input = <<k, LeftParen>>
        \/ input = <<LeftParen>>
    BY <1>1 DEF FileInv
  <2> HIDE DEF k
  <2>2. Len(<<Equals, k, LeftParen>>) # 1 /\ Len(<<k, LeftParen>>) # 1
    OBVIOUS
  <2> QED BY <1>1, <2>1, <2>2
<1>10. 0 <= Len(Current.args)
  BY <1>6, StatementFacts
<1>11. InArguments'
  BY <1>2, <1>3, <1>4, <1>6, <1>9, <1>10 DEF InArguments
<1> QED BY <1>1, <1>2, <1>4, <1>3, <1>5, <1>6, <1>7, <1>8, <1>11 DEF LoadInv

LEMMA CallsKept ==
  ASSUME FileTypes, FileInv, WindowInv, LoadInv, frames \in Seq(Frames), [Next]_vars
  PROVE  frames' \in Seq(Frames) /\ LoadInv'
<1>1. CASE ScanInstance
  BY <1>1, CallsOfInstance
<1>2. ASSUME UNCHANGED frames, pc' \notin {"open", "load"}
      PROVE  frames' \in Seq(Frames) /\ LoadInv'
  BY <1>2 DEF LoadInv, Loading
<1>3. CASE ScanUnknown
  BY <1>2, <1>3 DEF ScanUnknown
<1>4. CASE ScanReference
  BY <1>2, <1>4 DEF ScanReference
<1>5. CASE ScanOther
  BY <1>2, <1>5 DEF ScanOther
<1>6. CASE Advance
  BY <1>2, <1>6 DEF Advance
<1>7. CASE ScanEnd
  BY <1>2, <1>7 DEF ScanEnd
<1>8. CASE LoadBegin
  BY <1>8, CallsOfBegin
<1>9. CASE LoadComma
  BY <1>9, CallsOfComma
<1>10. CASE LoadOpen
  BY <1>10, CallsOfOpen
<1>11. CASE LoadReference
  BY <1>11, CallsOfReference
<1>12. CASE LoadValue
  BY <1>12, CallsOfValue
<1>13. CASE LoadTyped
  BY <1>13, CallsOfTyped
<1>14. CASE LoadThrows
  BY <1>14, CallsOfThrow
<1>15. CASE LoadReturn
  BY <1>15, CallsOfReturn
<1>16. CASE LoadInstance \/ LoadAbstract
  <2>1. frames' = <<>> /\ pc' \notin {"open", "load"}
    BY <1>16 DEF LoadInstance, LoadAbstract
  <2>2. <<>> \in Seq(Frames)
    OBVIOUS
  <2> QED BY <2>1, <2>2 DEF LoadInv, Loading
<1>17. CASE ResolveReference
  BY <1>2, <1>17 DEF ResolveReference
<1>18. CASE ResolveEnd
  BY <1>2, <1>18 DEF ResolveEnd
<1>19. CASE Terminated \/ UNCHANGED vars
  <2>1. UNCHANGED vars
    BY <1>19 DEF Terminated
  <2> QED BY <2>1 DEF vars, fileVars, scanVars, LoadInv, Loading, InStatement, InCalls,
             InArguments, Begun, Current, InBeginning, Closing, Wrapped
<1> QED BY <1>1, <1>3, <1>4, <1>5, <1>6, <1>7, <1>8, <1>9, <1>10, <1>11, <1>12, <1>13, <1>14,
           <1>15, <1>16, <1>17, <1>18, <1>19 DEF Next, Scan, Load

LEMMA InstanceLex ==
  ASSUME FileTypes, FileInv, LoadInv, pc = "load", Len(frames) = 1, NEW t, Closes(t), Lex(t)
  PROVE  UNCHANGED statements /\ (~eof' => ~InBeginning')
<1>1. CASE t = None
  BY <1>1, LexEnds
<1>2. CASE t = RightParen
  BY <1>2, OuterLex, TokensDiffer DEF InBeginning
<1> QED BY <1>1, <1>2 DEF Closes

LEMMA WindowKept ==
  ASSUME FileTypes, FileInv, WindowInv, LoadInv,
         token_stream \in Seq(FileTokens \cup {None}), Len(token_stream) = 3, [Next]_vars
  PROVE  WindowInv'
<1>1. ASSUME pc' \notin {"scan", "advance"}
      PROVE  WindowInv'
  BY <1>1 DEF WindowInv
<1>2. CASE ScanInstance \/ ScanUnknown \/ ScanReference \/ ScanOther
  <2>1. Scanning /\ UNCHANGED <<fileVars, token_stream>> /\ pc' \in {"advance", "open"}
    BY <1>2 DEF ScanInstance, ScanUnknown, ScanReference, ScanOther
  <2> QED BY <2>1, ScanKeepsWindow
<1>3. CASE Advance
  BY <1>3, AdvanceKeepsWindow
<1>4. CASE ScanEnd
  BY <1>1, <1>4 DEF ScanEnd
<1>5. CASE LoadBegin
  BY <1>1, <1>5 DEF LoadBegin
<1>6. CASE LoadComma
  BY <1>1, <1>6 DEF LoadComma
<1>7. CASE LoadOpen
  BY <1>1, <1>7 DEF LoadOpen
<1>8. CASE LoadReference
  BY <1>1, <1>8 DEF LoadReference
<1>9. CASE LoadValue
  BY <1>1, <1>9 DEF LoadValue
<1>10. CASE LoadTyped
  BY <1>1, <1>10 DEF LoadTyped
<1>11. CASE LoadThrows
  BY <1>1, <1>11 DEF LoadThrows
<1>12. CASE LoadReturn
  BY <1>1, <1>12 DEF LoadReturn
<1>13. CASE LoadAbstract
  BY <1>1, <1>13 DEF LoadAbstract
<1>14. CASE LoadInstance
  <2>1. PICK t : Closes(t) /\ Lex(t)
    BY <1>14 DEF LoadInstance
  <2>2. pc = "load" /\ Len(frames) = 1 /\ UNCHANGED token_stream /\ pc' = "advance" /\ Loading
    BY <1>14 DEF LoadInstance, Loading
  <2>3. ~eof' => ~InBeginning'
    BY <2>1, <2>2, InstanceLex
  <2>4. token_stream[3] # Equals
    BY <2>2, TokenKinds DEF LoadInv, InStatement, Begun
  <2> QED BY <2>2, <2>3, <2>4 DEF WindowInv
<1>15. CASE ResolveReference
  BY <1>1, <1>15 DEF ResolveReference
<1>16. CASE ResolveEnd
  BY <1>1, <1>16 DEF ResolveEnd
<1>17. CASE Terminated \/ UNCHANGED vars
  <2>1. UNCHANGED vars
    BY <1>17 DEF Terminated
  <2> QED BY <2>1 DEF vars, fileVars, WindowInv, InBeginning, Begun, Current
<1> QED BY <1>2, <1>3, <1>4, <1>5, <1>6, <1>7, <1>8, <1>9, <1>10, <1>11, <1>12, <1>13, <1>14,
           <1>15, <1>16, <1>17 DEF Next, Scan, Load

(***************************************************************************)
(* Instances and statements.                                               *)
(***************************************************************************)
LEMMA KnownFacts ==
  ASSUME FileTypes
  PROVE  /\ Len(statements) \in Nat /\ KnownStatements \subseteq 1..Len(statements)
         /\ IsFiniteSet(KnownStatements) /\ Cardinality(KnownStatements) \in Nat
         /\ \A n : /\ Ordinal(n) \in Nat /\ Ordinal(n) <= Cardinality(KnownStatements)
                   /\ IsFiniteSet({m \in KnownStatements : m <= n})
         /\ \A n : Ordinal(n) = Cardinality(KnownStatements) =>
                     \A m \in KnownStatements : m <= n
<1>1. Len(statements) \in Nat /\ KnownStatements \subseteq 1..Len(statements)
  BY DEF FileTypes, KnownStatements
<1>2. IsFiniteSet(KnownStatements)
  <2>1. IsFiniteSet(1..Len(statements))
    BY <1>1, FS_Interval
  <2> QED BY <1>1, <2>1, FS_Subset
<1>3. Cardinality(KnownStatements) \in Nat
  BY <1>2, FS_CardinalityType
<1>4. ASSUME NEW n
      PROVE  /\ Ordinal(n) \in Nat /\ Ordinal(n) <= Cardinality(KnownStatements)
             /\ IsFiniteSet({m \in KnownStatements : m <= n})
             /\ Ordinal(n) = Cardinality(KnownStatements) =>
                     \A m \in KnownStatements : m <= n
  <2> DEFINE T == {m \in KnownStatements : m <= n}
  <2>1. T \in SUBSET KnownStatements
    OBVIOUS
  <2>2. \A m \in T : m <= n
    OBVIOUS
  <2>3. Ordinal(n) = Cardinality(T)
    BY DEF Ordinal
  <2> HIDE DEF T
  <2>4. /\ IsFiniteSet(T) /\ Cardinality(T) <= Cardinality(KnownStatements)
        /\ Cardinality(KnownStatements) = Cardinality(T) => KnownStatements = T
    BY <1>2, <2>1, FS_Subset
  <2>5. Cardinality(T) \in Nat
    BY <2>4, FS_CardinalityType
  <2> QED BY <2>2, <2>3, <2>4, <2>5 DEF T
<1> QED BY <1>1, <1>2, <1>3, <1>4

LEMMA StatementAdded ==
  ASSUME FileTypes, FileInv, NEW t, NEW s \in Statements \cup {End}, BeginsStatement(t, s),
         eof' \in BOOLEAN, NEW last \in Nat, last = Len(statements) + 1
  PROVE  /\ s.keyword \notin Entities =>
              /\ KnownStatements' = KnownStatements
              /\ \A n \in KnownStatements : statements'[n] = statements[n]
         /\ s.keyword \in Entities =>
              /\ KnownStatements' = KnownStatements \cup {last} /\ last \notin KnownStatements
              /\ Cardinality(KnownStatements') = Cardinality(KnownStatements) + 1
              /\ \A n \in KnownStatements :
                   (Ordinal(n))' = Ordinal(n) /\ statements'[n] = statements[n]
              /\ (Ordinal(last))' = Cardinality(KnownStatements) + 1
         /\ s.keyword \notin Entities => \A n \in KnownStatements : (Ordinal(n))' = Ordinal(n)
<1>1. /\ FileTypes' /\ Len(statements') = last /\ Len(statements) \in Nat
      /\ \A n \in 1..Len(statements) : statements'[n] = statements[n]
      /\ statements'[last] = s
  BY BeginsStatementKeepsFile
<1>2. KnownStatements \subseteq 1..Len(statements)
  BY KnownFacts
<1>3. last \notin KnownStatements /\ \A n \in KnownStatements : n < last /\ n \in Nat
  BY <1>1, <1>2
<1>4. 1..last = 1..Len(statements) \cup {last}
  BY <1>1
<1>5. KnownStatements' = KnownStatements \cup (IF s.keyword \in Entities THEN {last} ELSE {})
  <2>1. KnownStatements' = {n \in 1..last : statements'[n].keyword \in Entities}
    BY <1>1 DEF KnownStatements
  <2>2. \A n \in 1..Len(statements) :
          n \in KnownStatements <=> statements'[n].keyword \in Entities
    BY <1>1 DEF KnownStatements
  <2>3. last \notin 1..Len(statements)
    BY <1>1
  <2>4. \A n : n \in KnownStatements' <=>
               n \in KnownStatements \cup (IF s.keyword \in Entities THEN {last} ELSE {})
    BY <1>1, <1>2, <1>4, <2>1, <2>2, <2>3
  <2> QED BY <2>4
<1>6. ASSUME NEW n \in KnownStatements
      PROVE  {m \in KnownStatements' : m <= n} = {m \in KnownStatements : m <= n}
  <2>1. n < last /\ n \in Nat /\ last \in Nat
    BY <1>1, <1>3
  <2>2. ~(last <= n)
    BY <2>1
  <2> QED BY <1>5, <2>2
<1>7. \A n \in KnownStatements : (Ordinal(n))' = Ordinal(n) /\ statements'[n] = statements[n]
  BY <1>1, <1>2, <1>6 DEF Ordinal
<1>8. CASE s.keyword \notin Entities
  BY <1>5, <1>7, <1>8
<1>9. CASE s.keyword \in Entities
  <2>1. KnownStatements' = KnownStatements \cup {last}
    BY <1>5, <1>9
  <2>2. Cardinality(KnownStatements') = Cardinality(KnownStatements) + 1
    BY <1>3, <2>1, KnownFacts, FS_AddElement
  <2>3. {m \in KnownStatements' : m <= last} = KnownStatements'
    <3>1. \A m \in KnownStatements : m <= last
      BY <1>1, <1>3
    <3>2. last <= last
      BY <1>1
    <3> QED BY <2>1, <3>1, <3>2
  <2>4. (Ordinal(last))' = Cardinality(KnownStatements')
    BY <2>3 DEF Ordinal
  <2> QED BY <1>3, <1>7, <1>9, <2>1, <2>2, <2>4
<1> QED BY <1>8, <1>9

(* A step that leaves the statements alone, and the instances but for their *)
(* attributes                                                              *)
LEMMA CountSame ==
  ASSUME CountInv, UNCHANGED statements, Len(instances') = Len(instances),
         \A n \in 1..Len(instances) : instances'[n].name = instances[n].name
                                      /\ instances'[n].type = instances[n].type,
         FileTypes, Len(instances) \in Nat,
         pc' \in {"scan", "advance", "open", "load"} => good_' = "SUCCESS",
         good_' = "SUCCESS" /\ pc' # "thrown" =>
           good_ = "SUCCESS" /\ pc # "thrown" /\ (Pending' <=> Pending)
  PROVE  CountInv'
<1>1. KnownStatements' = KnownStatements
  BY DEF KnownStatements
<1>2. \A n : (Ordinal(n))' = Ordinal(n)
  BY <1>1 DEF Ordinal
<1>3. Len(instances') \in {Cardinality(KnownStatements'), Cardinality(KnownStatements') - 1}
  BY <1>1 DEF CountInv
<1>4. pc' # "thrown" /\ good_' = "SUCCESS" =>
        Len(instances') = Cardinality(KnownStatements') - IF Pending' THEN 1 ELSE 0
  BY <1>1 DEF CountInv
<1>5. ASSUME NEW n \in KnownStatements, Ordinal(n) <= Len(instances')
      PROVE  /\ instances'[Ordinal(n)].name = statements'[n].name
             /\ instances'[Ordinal(n)].type = statements'[n].keyword
  <2>1. Ordinal(n) \in 1..Len(instances)
    <3>1. Ordinal(n) \in Nat
      BY KnownFacts
    <3>2. Ordinal(n) # 0
      <4> DEFINE T == {m \in KnownStatements : m <= n}
      <4>1. n <= n
        BY KnownFacts
      <4>2. n \in T /\ IsFiniteSet(T)
        BY <4>1, KnownFacts
      <4>3. T # {} /\ Ordinal(n) = Cardinality(T)
        BY <4>2 DEF Ordinal
      <4> HIDE DEF T
      <4> QED BY <4>2, <4>3, FS_EmptySet
    <3> QED BY <1>5, <3>1, <3>2
  <2> QED BY <1>5, <2>1 DEF CountInv
<1> QED BY <1>1, <1>2, <1>3, <1>4, <1>5 DEF CountInv, Loading

LEMMA CountOfScan ==
  ASSUME FileTypes, FileInv, WindowInv, CountInv, Len(instances) \in Nat,
         ScanInstance \/ ScanUnknown \/ ScanReference \/ ScanOther
  PROVE  CountInv'
<1>1. /\ Scanning /\ pc = "scan" /\ ~eof /\ UNCHANGED <<statements, part, input, token_stream>>
      /\ UNCHANGED <<instances, good_>> /\ pc' \in {"open", "advance"}
  BY DEF ScanInstance, ScanUnknown, ScanReference, ScanOther, Scanning, fileVars, mapVars
<1>2. Current' = Current /\ InBeginning' = InBeginning
  BY <1>1 DEF Current, InBeginning
<1>3. (Pending' <=> Pending)
  <2>1. CASE ScanInstance
    <3>1. InBeginning /\ Current.keyword = token_stream[3][2] /\ token_stream[3][2] \in Entities
      BY <2>1, CallsOfInstance DEF ScanInstance
    <3>2. Pending
      BY <1>1, <2>1, <3>1 DEF Pending, InBeginning, ScanInstance, AtInstance
    <3>3. Pending'
      BY <1>1, <1>2, <2>1, <3>1 DEF Pending, InBeginning, Loading, ScanInstance
    <3> QED BY <3>2, <3>3
  <2>2. CASE ScanUnknown
    <3>1. /\ InBeginning /\ Begun /\ AtInstance /\ token_stream[3][2] \notin Entities
      BY <1>1, <2>2, InstanceShown DEF ScanUnknown
    <3>2. Current.keyword \notin Entities
      BY <3>1, TokenKinds DEF Begun
    <3> QED BY <1>2, <3>2 DEF Pending
  <2>3. CASE ScanReference \/ ScanOther
    <3>1. ~AtInstance /\ pc' = "advance"
      BY <2>3 DEF ScanReference, ScanOther
    <3>2. InBeginning /\ token_stream[2] = Equals => Len(input) >= 2
      <4> SUFFICES ASSUME InBeginning, token_stream[2] = Equals
                   PROVE  Len(input) >= 2
        OBVIOUS
      <4>1. Len(input) # 1
        BY <1>1, <3>1, TokenKinds DEF WindowInv, Begun, AtInstance
      <4>2. Len(input) \in {1, 2, 3}
        BY BeginningFacts
      <4>3. \A n \in {1, 2, 3} : n # 1 => n >= 2
        OBVIOUS
      <4> QED BY <4>1, <4>2, <4>3, Zenon
    <3> QED BY <1>1, <1>2, <3>1, <3>2 DEF Pending, Loading
  <2> QED BY <2>1, <2>2, <2>3
          DEF ScanInstance, ScanUnknown, ScanReference, ScanOther
<1>4. good_ = "SUCCESS"
  BY <1>1 DEF CountInv
<1> QED BY <1>1, <1>3, <1>4, CountSame

LEMMA CountOfScanEnd ==
  ASSUME FileTypes, CountInv, Len(instances) \in Nat, ScanEnd
  PROVE  CountInv'
<1>1. /\ pc = "scan" /\ pc' = "resolve" /\ UNCHANGED <<statements, part, input, token_stream>>
      /\ UNCHANGED <<instances, good_>>
  BY DEF ScanEnd, fileVars, mapVars
<1>2. (Pending' <=> Pending)
  BY <1>1 DEF Pending, Loading, InBeginning, Current
<1> QED BY <1>1, <1>2, CountSame

LEMMA CountOfResolve ==
  ASSUME FileTypes, CountInv, Len(instances) \in Nat, Len(instances') = Len(instances),
         \A n \in 1..Len(instances) : instances'[n].name = instances[n].name
                                      /\ instances'[n].type = instances[n].type,
         pc = "resolve", pc' \in {"resolve", "done", "thrown"},
         UNCHANGED <<fileVars, token_stream, good_>>
  PROVE  CountInv'
<1>1. (Pending' <=> Pending)
  BY DEF Pending, Loading, InBeginning, Current, fileVars
<1> QED BY <1>1, CountSame DEF fileVars

LEMMA CountOfLoad ==
  ASSUME FileTypes, FileInv, LoadInv, CountInv, Len(instances) \in Nat, Loading, Loading',
         UNCHANGED <<token_stream, current_id, instances, good_>>, NEW t, Lex(t)
  PROVE  CountInv'
<1>1. InStatement /\ InStatement' /\ UNCHANGED statements
  BY StatementKept DEF LoadInv
<1>2. Pending /\ Pending'
  BY <1>1 DEF Pending, InStatement
<1>3. good_ = "SUCCESS" /\ pc # "thrown"
  BY DEF CountInv, Loading
<1> QED BY <1>1, <1>2, <1>3, CountSame DEF Loading

LEMMA CountOfFailure ==
  ASSUME FileTypes, FileInv, LoadInv, CountInv, Len(instances) \in Nat, Loading,
         UNCHANGED <<token_stream, current_id, instances>>, NEW t, Lex(t),
         \/ pc' = "resolve" /\ good_' = "INVALID_SYNTAX"
         \/ pc' = "thrown"
  PROVE  CountInv'
<1>1. UNCHANGED statements
  BY StatementKept
<1> QED BY <1>1, CountSame

LEMMA CountOfLoadInstance ==
  ASSUME FileTypes, FileInv, LoadInv, CountInv, Len(instances) \in Nat, LoadInstance,
         instances \in Seq({instances[n] : n \in 1..Len(instances)})
  PROVE  CountInv'
<1> DEFINE c == Cardinality(KnownStatements)
<1>1. PICK t : Closes(t) /\ Lex(t)
  BY DEF LoadInstance
<1>2. /\ pc = "load" /\ Len(frames) = 1 /\ Loading /\ pc' = "advance"
      /\ UNCHANGED <<token_stream, current_id, good_>>
  BY DEF LoadInstance, Loading
<1>3. UNCHANGED statements /\ (~eof' => ~InBeginning') /\ InStatement
  BY <1>1, <1>2, InstanceLex DEF LoadInv
<1>4. PICK made : /\ made.name = current_id /\ made.type = token_stream[3][2]
                  /\ instances' = Append(instances, made)
  <2> DEFINE made == [name |-> current_id, type |-> token_stream[3][2],
                      guid |-> GuidOf(token_stream[3][2]), attr |-> [i \in 0..Size-1 |-> {}]]
  <2>1. instances' = Append(instances, made)
    BY DEF LoadInstance, EnterInstance
  <2>2. made.name = current_id /\ made.type = token_stream[3][2]
    OBVIOUS
  <2> HIDE DEF made
  <2> QED BY <2>1, <2>2
<1>5. /\ made.name = Current.name /\ made.type = Current.keyword
      /\ Current.keyword \in Entities /\ statements # <<>>
  BY <1>3, <1>4, TokenKinds DEF InStatement, Begun
<1>6. /\ Len(instances') = Len(instances) + 1
      /\ \A n \in 1..Len(instances) : instances'[n] = instances[n]
      /\ instances'[Len(instances) + 1] = made
  BY <1>4
<1>7. good_ = "SUCCESS" /\ pc # "thrown"
  BY <1>2 DEF CountInv
<1>8. Pending
  BY <1>2, <1>5 DEF Pending
<1>9. Len(instances) = c - 1 /\ c \in Nat
  BY <1>7, <1>8, KnownFacts DEF CountInv
<1>10. ~Pending'
  <2>1. ~InBeginning' \/ (InBeginning' /\ eof')
    BY <1>3, LexKeepsFile, <1>1 DEF FileTypes
  <2>2. UNCHANGED <<part, input>> \/ ~InBeginning'
    <3>1. CASE t = None
      BY <1>1, <3>1, LexEnds
    <3>2. CASE t = RightParen
      BY <1>1, <1>2, <3>2, OuterLex, TokensDiffer DEF InBeginning
    <3> QED BY <1>1, <3>1, <3>2 DEF Closes
  <2>3. InBeginning' => Len(input') < 2
    <3>1. Current' = Current
      BY <1>3 DEF Current
    <3>2. InBeginning' => InBeginning /\ input' = input
      BY <1>3, <2>2, <3>1 DEF InBeginning
    <3>3. InBeginning' => Len(input') = 1
      BY <1>3, <3>2, Zenon DEF InStatement
    <3>4. 1 < 2
      OBVIOUS
    <3> QED BY <3>3, <3>4, Zenon
  <2>4. ~Loading'
    BY <1>2 DEF Loading
  <2>5. InBeginning' => ~(Len(input') >= 2)
    <3>1. input' \in Seq(FileTokens)
      BY <1>1, LexKeepsFile DEF FileTypes
    <3> QED BY <2>3, <3>1
  <2> QED BY <1>2, <2>4, <2>5 DEF Pending
<1>11. KnownStatements' = KnownStatements /\ \A n : (Ordinal(n))' = Ordinal(n)
  BY <1>3 DEF KnownStatements, Ordinal
<1>12. ASSUME NEW n \in KnownStatements, Ordinal(n) <= Len(instances')
       PROVE  /\ instances'[Ordinal(n)].name = statements'[n].name
              /\ instances'[Ordinal(n)].type = statements'[n].keyword
  <2>1. Ordinal(n) \in 1..Len(instances')
    <3> DEFINE T == {m \in KnownStatements : m <= n}
    <3>1. n <= n
      BY KnownFacts
    <3>2. n \in T /\ IsFiniteSet(T)
      BY <3>1, KnownFacts
    <3>3. T # {} /\ Ordinal(n) = Cardinality(T)
      BY <3>2 DEF Ordinal
    <3> HIDE DEF T
    <3>4. Ordinal(n) # 0 /\ Ordinal(n) \in Nat
      BY <3>2, <3>3, FS_EmptySet, KnownFacts
    <3> QED BY <1>6, <1>12, <3>4
  <2>2. CASE Ordinal(n) <= Len(instances)
    <3>1. instances'[Ordinal(n)] = instances[Ordinal(n)]
      BY <1>6, <2>1, <2>2
    <3> QED BY <1>3, <2>2, <3>1 DEF CountInv
  <2>3. CASE ~(Ordinal(n) <= Len(instances))
    <3>1. Ordinal(n) = c /\ Ordinal(n) = Len(instances) + 1
      BY <1>6, <1>9, <2>1, <2>3
    <3>2. Len(statements) \in KnownStatements /\ n \in 1..Len(statements)
      BY <1>5, CurrentStatement, KnownFacts DEF KnownStatements
    <3>3. Len(statements) <= n
      BY <3>1, <3>2, KnownFacts
    <3>4. n = Len(statements)
      BY <3>2, <3>3, KnownFacts
    <3>5. statements'[n] = Current
      BY <1>3, <1>5, <3>4, CurrentStatement
    <3> QED BY <1>5, <1>6, <3>1, <3>5
  <2> QED BY <2>2, <2>3
<1>13. Len(instances') = c
  BY <1>6, <1>9
<1> QED BY <1>2, <1>7, <1>9, <1>10, <1>11, <1>12, <1>13 DEF CountInv

LEMMA CountOfAdvance ==
  ASSUME FileTypes, FileInv, WindowInv, CountInv, Len(instances) \in Nat, Advance,
         token_stream \in Seq(FileTokens \cup {None}), Len(token_stream) = 3
  PROVE  CountInv'
<1> DEFINE c == Cardinality(KnownStatements)
<1>1. PICK t : /\ Lex(t)
               /\ IF t[1] = "bad" /\ ~eof'
                  THEN good_' = "INVALID_SYNTAX" /\ pc' = "resolve"
                  ELSE /\ token_stream' =
                            Append(Tail(token_stream), IF t[1] = "bad" THEN None ELSE t)
                       /\ pc' = "scan" /\ UNCHANGED good_
  BY DEF Advance
<1>2. pc = "advance" /\ UNCHANGED instances /\ good_ = "SUCCESS" /\ ~Loading
  BY DEF Advance, mapVars, CountInv, Loading
<1>3. pc' = "scan" => token_stream'[2] = token_stream[3]
  <2>1. (IF t[1] = "bad" THEN None ELSE t) \in FileTokens \cup {None}
    BY <1>1, LexKeepsFile
  <2> QED BY <1>1, <2>1, WindowMoves
<1>4. pc' # "scan" => pc' = "resolve" /\ good_' = "INVALID_SYNTAX"
  BY <1>1
<1>5. pc' = "scan" => good_' = "SUCCESS"
  BY <1>1, <1>2
<1>6. ~Loading'
  BY <1>4 DEF Loading
<1>7. CASE UNCHANGED statements /\ (pc' = "scan" => (Pending' <=> Pending))
  BY <1>2, <1>4, <1>5, <1>7, CountSame
<1>8. CASE UNCHANGED <<statements, part, input>> /\ (eof \/ ~InBeginning \/ Len(input) # 2)
  <2>1. Current' = Current /\ InBeginning' = InBeginning
    BY <1>8 DEF Current, InBeginning
  <2>2. InBeginning => token_stream[3] # Equals
    BY <1>2, <1>8, BeginningFacts, TokenKinds DEF WindowInv, Begun
  <2>3. pc' = "scan" => (Pending' <=> Pending)
    BY <1>2, <1>3, <1>6, <1>8, <2>1, <2>2 DEF Pending
  <2> QED BY <1>7, <1>8, <2>3
<1>9. CASE UNCHANGED <<statements, part, input>> /\ ~eof /\ InBeginning /\ Len(input) = 2
  <2>1. Current' = Current /\ InBeginning' = InBeginning
    BY <1>9 DEF Current, InBeginning
  <2>2. Len(input') >= 2 /\ Len(input) >= 2
    BY <1>9
  <2>3. (Pending' <=> Pending)
    BY <1>9, <2>1, <2>2 DEF Pending
  <2> QED BY <1>7, <1>9, <2>3
<1>10. CASE ~eof /\ Continues(t)
  <2>1. Current' = Current /\ UNCHANGED <<statements, part>>
    BY <1>10 DEF Current, Continues
  <2>2. CASE InBeginning
    <3>1. input' = Tail(input) /\ Len(input') = Len(input) - 1 /\ Len(input) \in {1, 2, 3}
      BY <1>10, <2>2, BeginningFacts DEF Continues
    <3>2. input' \in Seq(FileTokens)
      BY <1>1, LexKeepsFile DEF FileTypes
    <3>3. CASE Len(input) = 3
      <4>1. Len(input') >= 2 /\ Len(input) >= 2 /\ input' # <<>>
        <5>1. Len(input') = 2
          BY <3>1, <3>3
        <5>2. 2 >= 2 /\ 3 >= 2 /\ Len(<<>>) # 2
          OBVIOUS
        <5> QED BY <3>3, <5>1, <5>2, Zenon
      <4>2. InBeginning'
        BY <2>1, <2>2, <4>1 DEF InBeginning
      <4>3. (Pending' <=> Pending)
        BY <2>1, <2>2, <4>1, <4>2 DEF Pending
      <4> QED BY <1>7, <2>1, <4>3
    <3>4. CASE Len(input) = 2
      <4>1. Len(input) >= 2 /\ input' # <<>>
        <5>1. Len(input') = 1
          BY <3>1, <3>4
        <5>2. 2 >= 2 /\ Len(<<>>) # 1
          OBVIOUS
        <5> QED BY <3>4, <5>1, <5>2, Zenon
      <4>2. InBeginning'
        BY <2>1, <2>2, <4>1 DEF InBeginning
      <4>3. token_stream[3] = Equals
        BY <1>2, <1>10, <2>2, <3>4 DEF WindowInv
      <4>4. pc' = "scan" => (Pending' <=> Pending)
        BY <1>3, <2>1, <2>2, <4>1, <4>2, <4>3 DEF Pending
      <4> QED BY <1>7, <2>1, <4>4
    <3>5. CASE Len(input) = 1
      <4>1. ~(Len(input) >= 2) /\ input' = <<>>
        BY <2>2, <3>1, <3>5, BeginningFacts
      <4>2. ~InBeginning'
        BY <4>1 DEF InBeginning
      <4>3. ~Pending /\ ~Pending'
        BY <1>2, <1>6, <4>1, <4>2 DEF Pending
      <4> QED BY <1>7, <2>1, <4>3
    <3> QED BY <3>1, <3>3, <3>4, <3>5
  <2>3. CASE ~InBeginning
    <3>1. ~InBeginning'
      BY <1>10, <2>1, <2>3 DEF InBeginning, Continues
    <3>2. ~Pending /\ ~Pending'
      BY <1>2, <1>6, <2>3, <3>1 DEF Pending
    <3> QED BY <1>7, <2>1, <3>2
  <2> QED BY <2>2, <2>3
<1>11. CASE BeginsPart(t)
  <2>1. ~InBeginning /\ ~InBeginning' /\ UNCHANGED statements
    <3>1. eof' \in BOOLEAN
      BY <1>1, LexKeepsFile DEF FileTypes
    <3>2. ~InBeginning /\ UNCHANGED statements
      BY <1>11 DEF BeginsPart, InBeginning
    <3> QED BY <1>11, <3>1, <3>2, BeginsPartKeepsFile
  <2>2. ~Pending /\ ~Pending'
    BY <1>2, <1>6, <2>1 DEF Pending
  <2> QED BY <1>7, <2>1, <2>2
<1>12. ASSUME NEW s \in Statements \cup {End}, BeginsStatement(t, s)
       PROVE  CountInv'
  <2>1. eof' \in BOOLEAN
    BY <1>1, LexKeepsFile DEF FileTypes
  <2>2. ~InBeginning /\ ~Pending
    <3>1. ~InBeginning
      BY <1>12 DEF BeginsStatement, InBeginning
    <3> QED BY <1>2, <3>1 DEF Pending
  <2>3. Len(instances) = c /\ c \in Nat /\ pc # "thrown"
    BY <1>2, <2>2, KnownFacts DEF CountInv
  <2>4. PICK last \in Nat : last = Len(statements) + 1
    BY KnownFacts
  <2>5. Current' = s /\ statements' # <<>>
        /\ (s # End => InBeginning' /\ Len(input') = 3)
        /\ (s = End => ~InBeginning')
    <3>1. statements' # <<>>
      BY <1>12 DEF BeginsStatement, FileTypes
    <3> QED BY <1>12, <2>1, <3>1, BeginsStatementKeepsFile
  <2>6. CASE s.keyword \notin Entities
    <3>1. /\ KnownStatements' = KnownStatements
          /\ \A n \in KnownStatements : (Ordinal(n))' = Ordinal(n) /\ statements'[n] = statements[n]
      BY <1>12, <2>1, <2>4, <2>6, StatementAdded
    <3>2. ~Pending'
      BY <2>5, <2>6 DEF Pending
    <3>3. \A n \in KnownStatements' : (Ordinal(n))' <= Len(instances') =>
             /\ instances'[(Ordinal(n))'].name = statements'[n].name
             /\ instances'[(Ordinal(n))'].type = statements'[n].keyword
      BY <1>2, <3>1 DEF CountInv
    <3>4. Len(instances') = Cardinality(KnownStatements')
      BY <1>2, <2>3, <3>1
    <3> QED BY <1>4, <1>5, <1>6, <2>3, <3>1, <3>2, <3>3, <3>4 DEF CountInv
  <2>7. CASE s.keyword \in Entities
    <3>1. /\ KnownStatements' = KnownStatements \cup {last} /\ last \notin KnownStatements
          /\ Cardinality(KnownStatements') = c + 1
          /\ \A n \in KnownStatements : (Ordinal(n))' = Ordinal(n) /\ statements'[n] = statements[n]
          /\ (Ordinal(last))' = c + 1
      BY <1>12, <2>1, <2>4, <2>7, StatementAdded
    <3>2. Pending'
      <4>1. s # End
        BY <2>7, EndFacts
      <4>2. InBeginning' /\ Len(input') >= 2
        BY <2>5, <4>1
      <4> QED BY <2>5, <2>7, <4>2 DEF Pending
    <3>3. \A n \in KnownStatements' : (Ordinal(n))' <= Len(instances') =>
             /\ instances'[(Ordinal(n))'].name = statements'[n].name
             /\ instances'[(Ordinal(n))'].type = statements'[n].keyword
      <4>1. ~((Ordinal(last))' <= Len(instances'))
        BY <1>2, <2>3, <3>1
      <4> QED BY <1>2, <3>1, <4>1 DEF CountInv
    <3>4. Len(instances') = Cardinality(KnownStatements') - 1
      BY <1>2, <2>3, <3>1
    <3> QED BY <1>4, <1>5, <1>6, <2>3, <3>1, <3>2, <3>3, <3>4 DEF CountInv
  <2> QED BY <2>6, <2>7
<1> QED BY <1>1, <1>8, <1>9, <1>10, <1>11, <1>12, LexSteps

(***************************************************************************)
(* A new instance.                                                         *)
(***************************************************************************)
LEMMA MinOfTwo ==
  ASSUME NEW a \in Int, NEW b \in Int
  PROVE  Min({a, b}) \in {a, b} /\ Min({a, b}) <= a /\ Min({a, b}) <= b
<1>1. \E x \in {a, b} : \A y \in {a, b} : x =< y
  <2>1. CASE a <= b
    BY <2>1
  <2>2. CASE ~(a <= b)
    BY <2>2
  <2> QED BY <2>1, <2>2
<1>2. Min({a, b}) \in {a, b} /\ \A y \in {a, b} : Min({a, b}) =< y
  BY <1>1 DEF Min
<1> QED BY <1>2

LEMMA MaxOfTwo ==
  ASSUME NEW a \in Int, NEW b \in Int
  PROVE  Max({a, b}) \in {a, b} /\ a <= Max({a, b}) /\ b <= Max({a, b})
<1>1. \E x \in {a, b} : \A y \in {a, b} : x >= y
  <2>1. CASE a >= b
    BY <2>1
  <2>2. CASE ~(a >= b)
    BY <2>2
  <2> QED BY <2>1, <2>2
<1> QED BY <1>1 DEF Max

LEMMA InOrderFacts ==
  ASSUME NEW S \in SUBSET Nat, IsFiniteSet(S)
  PROVE  /\ \A k \in 1..Cardinality(S) : InOrder(S)[k] \in S
         /\ \A n \in S : \E k \in 1..Cardinality(S) : InOrder(S)[k] = n
<1> DEFINE upto(n) == {m \in S : m <= n}
           c == Cardinality(S)
           R == {Cardinality(upto(n)) : n \in S}
           f == [n \in S |-> Cardinality(upto(n))]
<1>1. c \in Nat
  BY FS_CardinalityType
<1>2. ASSUME NEW n \in S
      PROVE  /\ IsFiniteSet(upto(n)) /\ Cardinality(upto(n)) \in Nat
             /\ Cardinality(upto(n)) <= c /\ Cardinality(upto(n)) # 0 /\ n \in upto(n)
  <2>1. upto(n) \in SUBSET S /\ n \in upto(n)
    OBVIOUS
  <2> HIDE DEF upto
  <2>2. IsFiniteSet(upto(n)) /\ Cardinality(upto(n)) <= c
    BY <2>1, FS_Subset
  <2>3. Cardinality(upto(n)) \in Nat /\ Cardinality(upto(n)) # 0
    BY <2>1, <2>2, FS_CardinalityType, FS_EmptySet
  <2> QED BY <2>1, <2>2, <2>3
<1>3. ASSUME NEW n \in S, NEW m \in S, n < m
      PROVE  Cardinality(upto(n)) # Cardinality(upto(m))
  <2>1. upto(n) \in SUBSET upto(m) /\ m \notin upto(n)
    <3>1. n \in Nat /\ m \in Nat /\ \A i \in S : i \in Nat
      OBVIOUS
    <3>2. \A i \in Nat : i <= n => i <= m
      BY <1>3, <3>1
    <3>3. \A i \in upto(n) : i \in upto(m)
      BY <3>1, <3>2
    <3>4. ~(m <= n)
      BY <1>3, <3>1
    <3> QED BY <3>3, <3>4
  <2>2. m \in upto(m) /\ IsFiniteSet(upto(m))
    BY <1>2
  <2> HIDE DEF upto
  <2> QED BY <2>1, <2>2, FS_Subset
<1>4. \A n, m \in S : Cardinality(upto(n)) = Cardinality(upto(m)) => n = m
  <2> SUFFICES ASSUME NEW n \in S, NEW m \in S, n # m
               PROVE  Cardinality(upto(n)) # Cardinality(upto(m))
    OBVIOUS
  <2>1. n < m \/ m < n
    OBVIOUS
  <2> HIDE DEF upto
  <2> QED BY <1>3, <2>1
<1> HIDE DEF upto
<1>5. f \in Bijection(S, R)
  <2>1. f \in [S -> R] /\ \A n \in S : f[n] = Cardinality(upto(n))
    OBVIOUS
  <2>2. \A n, m \in S : f[n] = f[m] => n = m
    BY <1>4, <2>1
  <2>3. \A r \in R : \E n \in S : f[n] = r
    BY <2>1
  <2> HIDE DEF f, R
  <2> QED BY <2>1, <2>2, <2>3 DEF Bijection, Injection, Surjection, IsInjective
<1>6. Cardinality(R) = c
  <2> HIDE DEF f, R
  <2> QED BY <1>5, FS_Bijection DEF ExistsBijection
<1>7. R \in SUBSET (1..c)
  BY <1>1, <1>2
<1>8. IsFiniteSet(1..c) /\ Cardinality(1..c) = c
  BY <1>1, FS_Interval
<1>9. R = 1..c
  <2> HIDE DEF R
  <2> QED BY <1>6, <1>7, <1>8, FS_Subset
<1>10. ASSUME NEW k \in 1..c
       PROVE  InOrder(S)[k] \in S
  <2>1. \E n \in S : Cardinality(upto(n)) = k
    BY <1>9
  <2>2. InOrder(S)[k] = CHOOSE n \in S : Cardinality(upto(n)) = k
    BY DEF InOrder, upto
  <2> QED BY <2>1, <2>2
<1>11. ASSUME NEW n \in S
       PROVE  \E k \in 1..c : InOrder(S)[k] = n
  <2> DEFINE k == Cardinality(upto(n))
  <2>1. k \in 1..c /\ k = Cardinality(upto(n))
    BY <1>7
  <2> HIDE DEF k
  <2>2. InOrder(S)[k] = CHOOSE m \in S : Cardinality(upto(m)) = k
    BY <2>1 DEF InOrder, upto
  <2>3. \E m \in S : Cardinality(upto(m)) = k
    BY <2>1
  <2> DEFINE m == CHOOSE i \in S : Cardinality(upto(i)) = k
  <2>4. m \in S /\ Cardinality(upto(m)) = k
    BY <2>3
  <2>5. InOrder(S)[k] = m
    BY <2>2
  <2> HIDE DEF m
  <2>6. m = n
    BY <1>4, <2>1, <2>4
  <2> QED BY <2>1, <2>5, <2>6
<1> QED BY <1>10, <1>11

LEMMA SizeFacts ==
  ASSUME NEW e \in Entities, token_stream[3][2] = e, Top.items \in Seq(Items)
  PROVE  /\ Size \in Nat /\ Size <= Arity[e] /\ Size <= Len(Top.items)
         /\ \A n \in 1..Size : n \in 1..Len(Top.items) /\ Top.items[n] \in Items
<1>1. Arity[e] \in Nat /\ Len(Top.items) \in Nat
  <2>1. Arity[e] \in Nat
    BY SchemaAssumption
  <2> QED BY <2>1
<1> DEFINE a == Arity[e]
           l == Len(Top.items)
<1>2. Size \in {a, l} /\ Size <= a /\ Size <= l
  <2>1. Size = Min({a, l})
    BY DEF Size
  <2>2. a \in Int /\ l \in Int
    BY <1>1
  <2> HIDE DEF a, l
  <2> QED BY <2>1, <2>2, MinOfTwo
<1>3. Size \in Nat
  BY <1>1, <1>2
<1> HIDE DEF Size
<1>4. \A n \in 1..Size : n \in 1..Len(Top.items)
  BY <1>1, <1>2, <1>3
<1> QED BY <1>2, <1>3, <1>4

LEMMA UnresolvedItems ==
  ASSUME NEW e \in Entities, token_stream[3][2] = e, Top.items \in Seq(Items), current_id \in Names
  PROVE  /\ Unresolved \in Seq(Unresolveds)
         /\ \A k \in 1..Len(Unresolved) : \E n \in 1..Size :
              /\ n \in 1..Len(Top.items) /\ Top.items[n].kind \in {"ref", "list"}
              /\ Unresolved[k].name = current_id /\ Unresolved[k].index = n - 1
              /\ Unresolved[k].kind = Top.items[n].kind /\ Unresolved[k].refs = Top.items[n].refs
         /\ \A n \in 1..Size : Top.items[n].kind \in {"ref", "list"} =>
              \E k \in 1..Len(Unresolved) :
                Unresolved[k].name = current_id /\ Unresolved[k].index = n - 1
<1> DEFINE S == {n \in 1..Size : Top.items[n].kind \in {"ref", "list"}}
           c == Cardinality(S)
           p(n) == [name |-> current_id, index |-> n - 1, kind |-> Top.items[n].kind,
                    refs |-> Top.items[n].refs]
<1>1. S \in SUBSET (1..Size) /\ IsFiniteSet(1..Size) /\ Size \in Nat
  BY SizeFacts, FS_Interval
<1>2. \A n \in S : Top.items[n].kind \in {"ref", "list"}
  OBVIOUS
<1>3. ItemsOf({"ref", "list"}) = InOrder(S)
  BY DEF ItemsOf
<1>4. \A n \in 1..Size : Top.items[n].kind \in {"ref", "list"} => n \in S
  OBVIOUS
<1> HIDE DEF S
<1>5. S \in SUBSET Nat /\ IsFiniteSet(S)
  <2>1. \A n \in 1..Size : n \in Nat
    BY <1>1
  <2> QED BY <1>1, <2>1, FS_Subset
<1>6. c \in Nat /\ (\A k \in 1..c : InOrder(S)[k] \in S)
      /\ \A n \in S : \E k \in 1..c : InOrder(S)[k] = n
  BY <1>5, FS_CardinalityType, InOrderFacts
<1>7. DOMAIN InOrder(S) = 1..c
  BY DEF InOrder
<1>8. Unresolved = [k \in 1..c |-> p(InOrder(S)[k])]
  BY <1>3, <1>7 DEF Unresolved
<1>9. ASSUME NEW n \in S
      PROVE  /\ p(n) \in Unresolveds /\ n \in 1..Len(Top.items) /\ n \in 1..Size
             /\ p(n).name = current_id /\ p(n).index = n - 1 /\ p(n).kind = Top.items[n].kind
             /\ p(n).refs = Top.items[n].refs /\ Top.items[n].kind \in {"ref", "list"}
  <2>1. n \in 1..Len(Top.items) /\ Top.items[n] \in Items /\ Top.items[n].kind \in {"ref", "list"}
    BY <1>1, <1>2, SizeFacts
  <2>2. Top.items[n].refs \in SUBSET Names /\ n - 1 \in Nat
    BY <2>1, ItemFacts
  <2> QED BY <1>1, <2>1, <2>2 DEF Unresolveds
<1> HIDE DEF p, c
<1>10. Unresolved \in [1..c -> Unresolveds]
  BY <1>6, <1>8, <1>9
<1>11. Unresolved \in Seq(Unresolveds) /\ Len(Unresolved) = c
  BY <1>6, <1>10
<1>12. ASSUME NEW k \in 1..Len(Unresolved)
       PROVE  \E n \in 1..Size :
                /\ n \in 1..Len(Top.items) /\ Top.items[n].kind \in {"ref", "list"}
                /\ Unresolved[k].name = current_id /\ Unresolved[k].index = n - 1
                /\ Unresolved[k].kind = Top.items[n].kind /\ Unresolved[k].refs = Top.items[n].refs
  <2>1. PICK n \in S : Unresolved[k] = p(n)
    BY <1>6, <1>8, <1>11
  <2> QED BY <1>9, <2>1
<1>13. ASSUME NEW n \in 1..Size, Top.items[n].kind \in {"ref", "list"}
       PROVE  \E k \in 1..Len(Unresolved) :
                Unresolved[k].name = current_id /\ Unresolved[k].index = n - 1
  <2>1. n \in S
    BY <1>4, <1>13
  <2>2. PICK k \in 1..c : InOrder(S)[k] = n
    BY <1>6, <2>1
  <2>3. Unresolved[k] = p(n)
    BY <1>8, <2>2
  <2> QED BY <1>9, <1>11, <2>1, <2>2, <2>3
<1> QED BY <1>11, <1>12, <1>13

LEMMA UnresolvedFacts ==
  ASSUME NEW e \in Entities, token_stream[3][2] = e, Top.items \in Seq(Items), current_id \in Names
  PROVE  /\ Unresolved \in Seq(Unresolveds)
         /\ \A k \in 1..Len(Unresolved) :
              /\ Unresolved[k].name = current_id
              /\ \E n \in 1..Len(Top.items) :
                   /\ Top.items[n].kind \in {"ref", "list"}
                   /\ Unresolved[k].index = n - 1 /\ Unresolved[k].refs = Top.items[n].refs
BY UnresolvedItems

LEMMA OwnElements ==
  ASSUME NEW S, NEW s \in Seq(S)
  PROVE  s \in Seq({s[n] : n \in 1..Len(s)})
<1> DEFINE R == {s[n] : n \in 1..Len(s)}
<1>1. Len(s) \in Nat /\ s \in [1..Len(s) -> R]
  OBVIOUS
<1> HIDE DEF R
<1>2. s \in Seq(R)
  BY <1>1
<1> QED BY <1>2 DEF R

LEMMA MadeFacts ==
  ASSUME FileTypes, FileInv, LoadInv, CallTypes, LoadInstance
  PROVE  \E made :
           /\ instances' = Append(instances, made)
           /\ made.name = current_id /\ made.type = token_stream[3][2] /\ current_id \in Names
           /\ IsInstance(made) /\ made.guid \in Guids \cup {""}
           /\ \A i \in DOMAIN made.attr : i < Arity[made.type] /\ made.attr[i] = {}
           /\ instance' = Len(instances) + 1
           /\ byguid_' = IF made.guid = "" THEN byguid_
                         ELSE [byguid_ EXCEPT ![made.guid] = Len(instances) + 1]
           /\ byid_' = [byid_ EXCEPT ![made.name] = Len(instances) + 1]
           /\ MaxId' = Max({MaxId, made.name})
           /\ Top.items \in Seq(Items) /\ token_stream[3][2] \in Entities \ Abstract
<1> DEFINE e == token_stream[3][2]
           made == [name |-> current_id, type |-> e, guid |-> GuidOf(e),
                    attr |-> [i \in 0..Size-1 |-> {}]]
<1>1. pc = "load" /\ Loading /\ e \notin Abstract /\ EnterInstance(made)
  BY DEF LoadInstance, Loading
<1>2. e = Current.keyword /\ e \in Entities /\ current_id \in Names
  BY <1>1, LoadingFacts, TokenKinds DEF LoadInv, InStatement, Begun
<1>3. Top \in Frames /\ Top.items \in Seq(Items)
  BY <1>1, TopFacts, FrameFacts DEF LoadInv, CallTypes
<1>4. /\ Size \in Nat /\ Size <= Arity[e] /\ Arity[e] \in Nat
      /\ \A n \in 1..Size : Top.items[n] \in Items
  BY <1>2, <1>3, SizeFacts, SchemaAssumption
<1>5. GuidOf(e) \in Guids \cup {""}
  <2>1. Size > 0 => 1 \in 1..Size
    BY <1>4
  <2>2. Size > 0 /\ Top.items[1].kind = "string" => Top.items[1].guid \in Guids
    BY <1>4, <2>1, ItemFacts
  <2> QED BY <2>2 DEF GuidOf
<1>6. /\ DOMAIN made.attr = 0..Size-1 /\ \A i \in 0..Size-1 : i < Arity[e] /\ made.attr[i] = {}
  BY <1>4
<1>7. made.attr \in [DOMAIN made.attr -> SUBSET Nat]
  BY <1>6
<1>8. IsInstance(made)
  <2> DEFINE a == made.attr
  <2>1. made = [name |-> current_id, type |-> e, guid |-> GuidOf(e), attr |-> a]
    OBVIOUS
  <2>2. a \in [DOMAIN a -> SUBSET Nat]
    BY <1>7
  <2> HIDE DEF a
  <2> DEFINE o == [name |-> current_id, type |-> e, guid |-> GuidOf(e), attr |-> a]
  <2>3. o \in [name : Names, type : Entities \ Abstract, guid : Guids \cup {""}, attr : {a}]
    BY <1>1, <1>2, <1>5
  <2>4. o.attr = a
    OBVIOUS
  <2> HIDE DEF o, made, e
  <2>5. IsInstance(o)
    BY <2>2, <2>3, <2>4, Zenon DEF IsInstance
  <2> QED BY <2>1, <2>5, Zenon DEF o
<1>9. made.name = current_id /\ made.type = e /\ made.guid = GuidOf(e)
  OBVIOUS
<1> HIDE DEF made
<1> QED BY <1>1, <1>2, <1>3, <1>5, <1>6, <1>8, <1>9 DEF EnterInstance

(***************************************************************************)
(* The instances.                                                          *)
(***************************************************************************)
LEMMA InstancesKept ==
  ASSUME [Next]_vars
  PROVE  \/ UNCHANGED <<instance, mapVars>>
         \/ LoadInstance
         \/ ResolveReference /\ UNCHANGED <<instance, byid_, byguid_, MaxId>>
BY DEF Next, Scan, ScanInstance, ScanUnknown, ScanReference, ScanOther, Advance, ScanEnd,
       Load, LoadBegin, LoadComma, LoadOpen, LoadReference, LoadValue, LoadTyped, LoadThrows,
       LoadReturn, LoadAbstract, ResolveReference, ResolveEnd, Terminated, loadUnchanged,
       scanVars, mapVars, vars

LEMMA SequenceOf ==
  ASSUME NEW S, NEW n \in Nat, NEW s \in [1..n -> S]
  PROVE  s \in Seq(S) /\ Len(s) = n
OBVIOUS

(* What is set in the attribute of an instance *)
WithAttribute(m, i, found) == [instances EXCEPT ![m].attr[i] = found]

(* The instances are then the same but for that attribute. *)
OnlyAttribute(m, i, found) ==
  /\ Len(instances') = Len(instances)
  /\ instances' \in Seq({instances'[n] : n \in 1..Len(instances')})
  /\ \A n \in 1..Len(instances) :
       /\ instances'[n].name = instances[n].name /\ instances'[n].type = instances[n].type
       /\ instances'[n].guid = instances[n].guid
       /\ DOMAIN instances'[n].attr = DOMAIN instances[n].attr
       /\ \A j \in DOMAIN instances[n].attr :
            instances'[n].attr[j] = IF n = m /\ j = i THEN found ELSE instances[n].attr[j]
       /\ IsInstance(instances'[n])

LEMMA AttributeSet ==
  ASSUME InstanceTypes, NEW m \in 1..Len(instances), NEW i \in DOMAIN instances[m].attr,
         NEW found \in SUBSET (1..Len(instances)), instances' = WithAttribute(m, i, found)
  PROVE  OnlyAttribute(m, i, found)
<1> DEFINE a == [instances[m].attr EXCEPT ![i] = found]
           o == [instances[m] EXCEPT !.attr = a]
           S == {instances[n] : n \in 1..Len(instances)}
<1>1. instances \in Seq(S) /\ \A n \in 1..Len(instances) : IsInstance(instances[n])
  BY DEF InstanceTypes
<1>2. instances' = [instances EXCEPT ![m] = o]
  BY DEF WithAttribute
<1>3. /\ DOMAIN a = DOMAIN instances[m].attr
      /\ \A j \in DOMAIN a : a[j] = IF j = i THEN found ELSE instances[m].attr[j]
      /\ a \in [DOMAIN a -> SUBSET Nat]
  <2>1. instances[m].attr \in [DOMAIN instances[m].attr -> SUBSET Nat]
    BY <1>1 DEF IsInstance
  <2>2. found \in SUBSET Nat
    <3>1. \A x \in 1..Len(instances) : x \in Nat
      OBVIOUS
    <3> QED BY <3>1
  <2> QED BY <2>1, <2>2
<1>4. /\ o.name = instances[m].name /\ o.type = instances[m].type
      /\ o.guid = instances[m].guid /\ o.attr = a
      /\ IsInstance(o)
  <2>1. instances[m] \in [name : Names, type : Entities \ Abstract, guid : Guids \cup {""},
                          attr : {instances[m].attr}]
    BY <1>1 DEF IsInstance
  <2> HIDE DEF a
  <2>2. o \in [name : Names, type : Entities \ Abstract, guid : Guids \cup {""}, attr : {a}]
    BY <2>1
  <2>3. /\ o.name = instances[m].name /\ o.type = instances[m].type
        /\ o.guid = instances[m].guid /\ o.attr = a
    BY <2>1
  <2> HIDE DEF o
  <2> QED BY <1>3, <2>2, <2>3 DEF IsInstance
<1> HIDE DEF a, o, S
<1>5. /\ instances' \in Seq({instances'[n] : n \in 1..Len(instances')})
      /\ Len(instances') = Len(instances)
      /\ \A n \in 1..Len(instances) : instances'[n] = IF n = m THEN o ELSE instances[n]
  <2>1. instances \in [1..Len(instances) -> S] /\ Len(instances) \in Nat
    BY <1>1
  <2>2. instances' \in [1..Len(instances) -> S \cup {o}]
    BY <1>2, <2>1
  <2>3. \A n \in 1..Len(instances) : instances'[n] = IF n = m THEN o ELSE instances[n]
    BY <1>2, <2>1
  <2>4. /\ instances' \in Seq({instances'[n] : n \in 1..Len(instances')})
        /\ Len(instances') = Len(instances)
    <3> DEFINE T == S \cup {o}
    <3>1. instances' \in [1..Len(instances) -> T]
      BY <2>2
    <3> HIDE DEF T
    <3>2. instances' \in Seq(T) /\ Len(instances') = Len(instances)
      BY <2>1, <3>1, SequenceOf, Zenon
    <3> DEFINE R == {instances'[n] : n \in 1..Len(instances)}
    <3>3. \A n \in 1..Len(instances) : instances'[n] \in R
      OBVIOUS
    <3> HIDE DEF R
    <3>4. instances' \in [1..Len(instances) -> R]
      BY <3>1, <3>3
    <3>5. instances' \in Seq(R)
      BY <2>1, <3>4, SequenceOf, Zenon
    <3> QED BY <3>2, <3>5, Zenon DEF R
  <2> QED BY <2>3, <2>4
<1>7. ASSUME NEW n \in 1..Len(instances)
      PROVE  /\ instances'[n].name = instances[n].name /\ instances'[n].type = instances[n].type
             /\ instances'[n].guid = instances[n].guid
             /\ DOMAIN instances'[n].attr = DOMAIN instances[n].attr
             /\ \A j \in DOMAIN instances[n].attr :
                  instances'[n].attr[j] = IF n = m /\ j = i THEN found ELSE instances[n].attr[j]
             /\ IsInstance(instances'[n])
  <2>1. CASE n = m
    <3>1. instances'[n] = o
      BY <1>5, <2>1
    <3> QED BY <1>3, <1>4, <2>1, <3>1
  <2>2. CASE n # m
    <3>1. instances'[n] = instances[n]
      BY <1>5, <2>2
    <3> QED BY <1>1, <2>2, <3>1
  <2> QED BY <2>1, <2>2
<1> QED BY <1>5, <1>7 DEF OnlyAttribute

LEMMA InstanceFacts ==
  ASSUME InstanceTypes
  PROVE  /\ Len(instances) \in Nat
         /\ \A n \in 1..Len(instances) :
              instances[n].name \in Names /\ instances[n].type \in Entities \ Abstract
         /\ \A k \in Names : byid_[k] \in 0..Len(instances)
         /\ \A k \in Names : byid_[k] # 0 => byid_[k] \in 1..Len(instances)
<1>1. Len(instances) \in Nat
  BY DEF InstanceTypes
<1>2. \A n \in 1..Len(instances) :
        instances[n].name \in Names /\ instances[n].type \in Entities \ Abstract
  BY DEF InstanceTypes, IsInstance
<1>3. \A k \in Names : byid_[k] \in 0..Len(instances)
  BY DEF InstanceTypes
<1>4. \A x \in 0..Len(instances) : x # 0 => x \in 1..Len(instances)
  BY <1>1
<1> QED BY <1>1, <1>2, <1>3, <1>4

(* What the loop over the references does *)
LEMMA Resolved ==
  ASSUME InstanceTypes, ReferenceTypes, NamesInv, ResolveReference
  PROVE  /\ \E m \in 1..Len(instances), p \in Unresolveds, found \in SUBSET (1..Len(instances)) :
              /\ p = references_to_resolve[1] /\ m = byid_[p.name]
              /\ \A x \in found : \E r \in p.refs : x = byid_[r]
              /\ \/ instances' = instances
                 \/ /\ p.index \in DOMAIN instances[m].attr
                    /\ instances' = WithAttribute(m, p.index, found)
         /\ Len(references_to_resolve) \in Nat /\ 1 \in 1..Len(references_to_resolve)
         /\ references_to_resolve' = Tail(references_to_resolve)
         /\ pc = "resolve" /\ pc' \in {"resolve", "thrown"}
         /\ UNCHANGED <<instance, byid_, byguid_, MaxId>>
<1> DEFINE p == Head(references_to_resolve)
           found == {byid_[r] : r \in p.refs} \ {0}
           m == byid_[p.name]
<1>1. /\ p = references_to_resolve[1] /\ p \in Unresolveds
      /\ Len(references_to_resolve) \in Nat /\ Len(references_to_resolve) > 0
  BY TailOf DEF ReferenceTypes, ResolveReference
<1>2. 1 \in 1..Len(references_to_resolve)
  BY <1>1
<1>3. p.name \in Names /\ p.refs \in SUBSET Names
  BY <1>1 DEF Unresolveds
<1>4. m \in 1..Len(instances)
  BY <1>1, <1>2, <1>3, InstanceFacts DEF NamesInv
<1>5. found \in SUBSET (1..Len(instances)) /\ \A x \in found : \E r \in p.refs : x = byid_[r]
  BY <1>3, InstanceFacts
<1>6. \/ instances' = instances
      \/ /\ p.index \in DOMAIN instances[m].attr
         /\ instances' = WithAttribute(m, p.index, found)
  BY DEF ResolveReference, WithAttribute
<1>7. /\ references_to_resolve' = Tail(references_to_resolve)
      /\ pc = "resolve" /\ pc' \in {"resolve", "thrown"}
      /\ UNCHANGED <<instance, byid_, byguid_, MaxId>>
  BY DEF ResolveReference, scanVars
<1> DEFINE Sets(mm, pp, ff) ==
             /\ pp = references_to_resolve[1] /\ mm = byid_[pp.name]
             /\ \A x \in ff : \E r \in pp.refs : x = byid_[r]
             /\ \/ instances' = instances
                \/ /\ pp.index \in DOMAIN instances[mm].attr
                   /\ instances' = WithAttribute(mm, pp.index, ff)
<1>8. Sets(m, p, found)
  BY <1>1, <1>5, <1>6
<1> HIDE DEF p, found, m, Sets
<1>9. \E mm \in 1..Len(instances), pp \in Unresolveds, ff \in SUBSET (1..Len(instances)) :
        Sets(mm, pp, ff)
  BY <1>1, <1>4, <1>5, <1>8, Zenon
<1> QED BY <1>1, <1>2, <1>7, <1>9, Zenon DEF Sets

LEMMA InstanceAdded ==
  ASSUME InstanceTypes, NEW made, instances' = Append(instances, made)
  PROVE  /\ instances' \in Seq({instances'[n] : n \in 1..Len(instances')})
         /\ Len(instances') = Len(instances) + 1
         /\ \A n \in 1..Len(instances) : instances'[n] = instances[n]
         /\ instances'[Len(instances) + 1] = made
<1> DEFINE S == {instances[n] : n \in 1..Len(instances)}
           T == S \cup {made}
<1>1. instances \in Seq(S)
  BY DEF InstanceTypes
<1> HIDE DEF S
<1>2. instances \in Seq(T) /\ made \in T
  BY <1>1
<1> HIDE DEF T
<1>3. /\ instances' \in Seq(T) /\ Len(instances') = Len(instances) + 1
      /\ \A n \in 1..Len(instances) : instances'[n] = instances[n]
      /\ instances'[Len(instances) + 1] = made
  BY <1>2, Appended
<1>4. instances' \in Seq({instances'[n] : n \in 1..Len(instances')})
  BY <1>3, OwnElements
<1> QED BY <1>3, <1>4

(* The maps with a new instance *)
LEMMA TypesOfMade ==
  ASSUME FileTypes, FileInv, LoadInv, CallTypes, InstanceTypes, LoadInstance
  PROVE  InstanceTypes'
<1> DEFINE last == Len(instances) + 1
<1>1. PICK made :
        /\ instances' = Append(instances, made)
        /\ made.name = current_id /\ made.type = token_stream[3][2] /\ current_id \in Names
        /\ IsInstance(made) /\ made.guid \in Guids \cup {""}
        /\ \A i \in DOMAIN made.attr : i < Arity[made.type] /\ made.attr[i] = {}
        /\ instance' = last
        /\ byguid_' = IF made.guid = "" THEN byguid_ ELSE [byguid_ EXCEPT ![made.guid] = last]
        /\ byid_' = [byid_ EXCEPT ![made.name] = last]
        /\ MaxId' = Max({MaxId, made.name})
  BY MadeFacts, Zenon
<1>2. /\ Len(instances) \in Nat
      /\ instances' \in Seq({instances'[n] : n \in 1..Len(instances')})
      /\ Len(instances') = last
      /\ \A n \in 1..Len(instances) : instances'[n] = instances[n]
      /\ instances'[last] = made
  <2>1. Len(instances) \in Nat
    BY InstanceFacts
  <2> QED BY <1>1, <2>1, InstanceAdded, Zenon
<1>3. /\ \A n \in 1..last : n \in 1..Len(instances) \/ n = last
      /\ 1..Len(instances) \subseteq 1..last /\ 0..Len(instances) \subseteq 0..last
      /\ last \in 0..last
  BY <1>2
<1>4. ASSUME NEW n \in 1..last
      PROVE  /\ IsInstance(instances'[n])
             /\ \A i \in DOMAIN instances'[n].attr :
                  i < Arity[instances'[n].type] /\ instances'[n].attr[i] \subseteq 1..last
  <2>1. CASE n \in 1..Len(instances)
    <3>1. instances'[n] = instances[n]
      BY <1>2, <2>1
    <3>2. /\ IsInstance(instances[n])
          /\ \A i \in DOMAIN instances[n].attr :
               i < Arity[instances[n].type] /\ instances[n].attr[i] \subseteq 1..Len(instances)
      BY <2>1 DEF InstanceTypes
    <3> HIDE DEF last
    <3> QED BY <1>3, <3>1, <3>2
  <2>2. CASE n = last
    <3>1. instances'[n] = made
      BY <1>2, <2>2
    <3> HIDE DEF last
    <3> QED BY <1>1, <3>1
  <2> QED BY <1>3, <2>1, <2>2
<1>5. byid_' \in [Names -> 0..last]
  <2>1. byid_ \in [Names -> 0..last]
    BY <1>3 DEF InstanceTypes
  <2> HIDE DEF last
  <2> QED BY <1>1, <1>3, <2>1
<1>6. byguid_' \in [Guids -> 0..last]
  <2>1. byguid_ \in [Guids -> 0..last]
    BY <1>3 DEF InstanceTypes
  <2> HIDE DEF last
  <2> QED BY <1>1, <1>3, <2>1
<1>7. MaxId' \in Names \cup {0}
  <2> DEFINE c == Cardinality(Names)
  <2>1. MaxId \in Names \cup {0} /\ Names \subseteq Int
    <3>1. c \in Nat /\ Names = 1..c
      BY NamesAssumption, FS_CardinalityType
    <3> HIDE DEF c
    <3>2. Names \subseteq Int
      BY <3>1
    <3> QED BY <3>2 DEF InstanceTypes
  <2>2. MaxId \in Int /\ made.name \in Int /\ made.name \in Names
    <3>1. made.name \in Names
      BY <1>1, Zenon
    <3>2. 0 \in Int /\ \A k \in Names : k \in Int
      BY <2>1
    <3> QED BY <2>1, <3>1, <3>2, Zenon
  <2>3. MaxId' \in {MaxId, made.name}
    BY <1>1, <2>2, MaxOfTwo
  <2> QED BY <2>1, <2>2, <2>3
<1> HIDE DEF last
<1>8. instance' \in 0..last
  BY <1>1, <1>3
<1> QED BY <1>2, <1>4, <1>5, <1>6, <1>7, <1>8 DEF InstanceTypes

LEMMA TypesOfResolved ==
  ASSUME InstanceTypes, ReferenceTypes, NamesInv, ResolveReference
  PROVE  InstanceTypes'
<1>1. PICK m \in 1..Len(instances), p \in Unresolveds, found \in SUBSET (1..Len(instances)) :
           \/ instances' = instances
           \/ /\ p.index \in DOMAIN instances[m].attr
              /\ instances' = WithAttribute(m, p.index, found)
  BY Resolved, Zenon
<1>2. UNCHANGED <<instance, byid_, byguid_, MaxId>>
  BY Resolved
<1>3. CASE instances' = instances
  BY <1>2, <1>3 DEF InstanceTypes
<1>4. CASE /\ p.index \in DOMAIN instances[m].attr
           /\ instances' = WithAttribute(m, p.index, found)
  <2> DEFINE i == p.index
  <2>1. /\ Len(instances') = Len(instances)
        /\ instances' \in Seq({instances'[n] : n \in 1..Len(instances')})
        /\ \A n \in 1..Len(instances) :
             /\ instances'[n].type = instances[n].type
             /\ DOMAIN instances'[n].attr = DOMAIN instances[n].attr
             /\ \A j \in DOMAIN instances[n].attr :
                  instances'[n].attr[j] = IF n = m /\ j = i THEN found ELSE instances[n].attr[j]
             /\ IsInstance(instances'[n])
    <3>1. /\ i \in DOMAIN instances[m].attr /\ instances' = WithAttribute(m, i, found)
          /\ m \in 1..Len(instances) /\ found \in SUBSET (1..Len(instances))
      BY <1>1, <1>4
    <3> HIDE DEF i
    <3>2. OnlyAttribute(m, i, found)
      BY <3>1, AttributeSet, Zenon
    <3> QED BY <3>2 DEF OnlyAttribute
  <2>2. ASSUME NEW n \in 1..Len(instances), NEW j \in DOMAIN instances[n].attr
        PROVE  j < Arity[instances[n].type] /\ instances[n].attr[j] \subseteq 1..Len(instances)
    BY DEF InstanceTypes
  <2>3. Len(instances') = Len(instances)
    BY <2>1
  <2>4. \A n \in 1..Len(instances') : \A j \in DOMAIN instances'[n].attr :
          /\ j < Arity[instances'[n].type]
          /\ instances'[n].attr[j] \subseteq 1..Len(instances')
    <3>1. TAKE n \in 1..Len(instances')
    <3>2. TAKE j \in DOMAIN instances'[n].attr
    <3>3. n \in 1..Len(instances) /\ j \in DOMAIN instances[n].attr
      BY <2>1, <3>1, <3>2
    <3>4. j < Arity[instances'[n].type]
      BY <2>1, <2>2, <3>3
    <3>5. instances'[n].attr[j] \subseteq 1..Len(instances)
      <4>1. instances'[n].attr[j] = IF n = m /\ j = i THEN found ELSE instances[n].attr[j]
        BY <2>1, <3>3, Zenon
      <4>2. found \subseteq 1..Len(instances)
        OBVIOUS
      <4>3. instances[n].attr[j] \subseteq 1..Len(instances)
        BY <2>2, <3>3, Zenon
      <4> QED BY <4>1, <4>2, <4>3, Zenon
    <3>6. instances'[n].attr[j] \subseteq 1..Len(instances')
      BY <2>3, <3>5, Zenon
    <3> QED BY <3>4, <3>6, Zenon
  <2> QED BY <1>2, <2>1, <2>4 DEF InstanceTypes
<1> QED BY <1>1, <1>3, <1>4

LEMMA InstanceTypesKept ==
  ASSUME FileTypes, FileInv, LoadInv, CallTypes, ReferenceTypes, NamesInv, InstanceTypes,
         [Next]_vars
  PROVE  InstanceTypes'
<1>1. CASE UNCHANGED <<instance, mapVars>>
  <2>1. UNCHANGED <<instance, instances, byid_, byguid_, MaxId>>
    BY <1>1 DEF mapVars
  <2> QED BY <2>1 DEF InstanceTypes
<1> QED BY <1>1, InstancesKept, TypesOfMade, TypesOfResolved

(***************************************************************************)
(* The references.                                                         *)
(***************************************************************************)
LEMMA Listed ==
  ASSUME NEW b, IsABag(b), NEW x
  PROVE  /\ IsABag(BE!BagAdd(b, x)) /\ BagIn(x, BE!BagAdd(b, x))
         /\ \A e : BagIn(e, b) => BagIn(e, BE!BagAdd(b, x))
<1> DEFINE c == BE!BagAdd(b, x)
<1>1. DOMAIN c = DOMAIN b \cup {x} /\ \A e \in DOMAIN c : c[e] \in {n \in Nat : n > 0}
  BY DEF IsABag, BE!BagAdd
<1>2. c = [e \in DOMAIN c |-> c[e]]
  BY DEF BE!BagAdd
<1> HIDE DEF c
<1>3. IsABag(c)
  BY <1>1, <1>2 DEF IsABag
<1>4. BagIn(x, c) /\ \A e : BagIn(e, b) => BagIn(e, c)
  BY <1>1 DEF BagIn, BagToSet
<1> QED BY <1>3, <1>4 DEF c

(* References are only ever added. *)
LEMMA BagKept ==
  ASSUME IsABag(byref_excl_), [Next]_vars
  PROVE  IsABag(byref_excl_') /\ \A e : BagIn(e, byref_excl_) => BagIn(e, byref_excl_')
<1>1. \/ UNCHANGED byref_excl_
      \/ \E x : byref_excl_' = BE!BagAdd(byref_excl_, x)
  <2>1. CASE ScanReference
    BY <2>1 DEF ScanReference
  <2>2. CASE LoadReference
    BY <2>2 DEF LoadReference
  <2>3. ASSUME ~ScanReference, ~LoadReference
        PROVE  UNCHANGED byref_excl_
    BY <2>3 DEF Next, Scan, ScanInstance, ScanUnknown, ScanOther, Advance, ScanEnd,
         Load, LoadBegin, LoadComma, LoadOpen, LoadValue, LoadTyped, LoadThrows,
         LoadReturn, LoadInstance, LoadAbstract, ResolveReference, ResolveEnd, Terminated, vars
  <2> QED BY <2>1, <2>2, <2>3
<1> QED BY <1>1, Listed

LEMMA ReferenceTypesKept ==
  ASSUME FileTypes, FileInv, LoadInv, CallTypes, ReferenceTypes, InstanceTypes, NamesInv,
         [Next]_vars
  PROVE  ReferenceTypes'
<1>1. IsABag(byref_excl_')
  BY BagKept DEF ReferenceTypes
<1>2. references_to_resolve \in Seq(Unresolveds)
  BY DEF ReferenceTypes
<1>3. CASE LoadInstance
  <2>1. /\ current_id \in Names /\ Top.items \in Seq(Items)
        /\ token_stream[3][2] \in Entities \ Abstract
    BY <1>3, MadeFacts, Zenon
  <2>2. Unresolved \in Seq(Unresolveds)
    BY <2>1, UnresolvedFacts, Zenon
  <2>3. references_to_resolve' = references_to_resolve \o Unresolved
    BY <1>3 DEF LoadInstance
  <2> QED BY <1>1, <1>2, <2>2, <2>3 DEF ReferenceTypes
<1>4. CASE ResolveReference
  <2>1. references_to_resolve # <<>> /\ references_to_resolve' = Tail(references_to_resolve)
    BY <1>4 DEF ResolveReference
  <2> QED BY <1>1, <1>2, <2>1, TailOf DEF ReferenceTypes
<1>5. CASE ResolveEnd
  BY <1>1, <1>5 DEF ResolveEnd, ReferenceTypes
<1>6. ASSUME ~LoadInstance, ~ResolveReference, ~ResolveEnd
      PROVE  UNCHANGED references_to_resolve
  BY <1>6 DEF Next, Scan, ScanInstance, ScanUnknown, ScanReference, ScanOther, Advance, ScanEnd,
       Load, LoadBegin, LoadComma, LoadOpen, LoadReference, LoadValue, LoadTyped, LoadThrows,
       LoadReturn, LoadAbstract, Terminated, loadUnchanged, vars
<1> QED BY <1>1, <1>2, <1>3, <1>4, <1>5, <1>6 DEF ReferenceTypes

(***************************************************************************)
(* The types.                                                              *)
(***************************************************************************)
LEMMA WindowTypesKept ==
  ASSUME FileTypes, FileInv, WindowTypes, [Next]_vars
  PROVE  WindowTypes'
<1>1. CASE Advance
  <2>1. PICK t \in Upcoming :
          /\ Lex(t)
          /\ \/ UNCHANGED token_stream
             \/ token_stream' = Append(Tail(token_stream), IF t[1] = "bad" THEN None ELSE t)
    BY <1>1 DEF Advance
  <2> DEFINE x == IF t[1] = "bad" THEN None ELSE t
  <2>2. x \in FileTokens \cup {None}
    BY <2>1, LexKeepsFile
  <2> HIDE DEF x
  <2>3. Append(Tail(token_stream), x) \in Seq(FileTokens \cup {None})
        /\ Len(Append(Tail(token_stream), x)) = 3
    <3>1. token_stream \in Seq(FileTokens \cup {None}) /\ Len(token_stream) = 3
      BY DEF WindowTypes
    <3> QED BY <2>2, <3>1, WindowMoves
  <2> QED BY <2>1, <2>3 DEF x, WindowTypes
<1>2. ASSUME ~Advance
      PROVE  UNCHANGED token_stream
  BY <1>2 DEF Next, Scan, ScanInstance, ScanUnknown, ScanReference, ScanOther, ScanEnd,
       Load, LoadBegin, LoadComma, LoadOpen, LoadReference, LoadValue, LoadTyped, LoadThrows,
       LoadReturn, LoadInstance, LoadAbstract, ResolveReference, ResolveEnd, Terminated,
       loadUnchanged, vars
<1> QED BY <1>1, <1>2 DEF WindowTypes

LEMMA ControlTypesKept ==
  ASSUME FileTypes, FileInv, WindowInv, ControlTypes, [Next]_vars
  PROVE  ControlTypes'
<1>1. CASE ScanInstance \/ ScanUnknown
  <2>1. /\ Scanning /\ AtInstance /\ current_id' = token_stream[1][2] /\ attribute_index' = 0
        /\ pc' \in {"open", "advance"} /\ UNCHANGED <<good_, paren_stack_depth>>
    BY <1>1 DEF ScanInstance, ScanUnknown
  <2>2. InBeginning /\ token_stream[1] = Ident(Current.name)
    BY <2>1, InstanceShown DEF Begun
  <2>3. Current \in Statements
    BY <2>2, CurrentStatement DEF InBeginning
  <2>4. current_id' \in Names
    BY <2>1, <2>2, <2>3, StatementFacts, TokenKinds
  <2> QED BY <2>1, <2>4 DEF ControlTypes
<1>2. CASE ScanReference
  BY <1>2 DEF ScanReference, ControlTypes, scanVars
<1>3. CASE ScanOther
  <2>1. /\ pc' = "advance" /\ UNCHANGED <<good_, current_id>>
        /\ \E d \in {-1, 0, 1} : paren_stack_depth' = paren_stack_depth + d
        /\ attribute_index' \in {-1, attribute_index, attribute_index + 1}
    BY <1>3 DEF ScanOther
  <2> QED BY <2>1 DEF ControlTypes
<1>4. CASE Advance \/ ScanEnd
  BY <1>4 DEF Advance, ScanEnd, ControlTypes, scanVars
<1>5. CASE LoadInstance
  <2>1. /\ pc' = "advance" /\ UNCHANGED <<good_, current_id>>
        /\ paren_stack_depth' \in {0, paren_stack_depth}
        /\ attribute_index' \in {-1, attribute_index}
    BY <1>5 DEF LoadInstance
  <2> QED BY <2>1 DEF ControlTypes
<1>6. CASE Load /\ ~LoadInstance
  <2>1. UNCHANGED <<current_id, paren_stack_depth, attribute_index>>
    BY <1>6 DEF Load, LoadBegin, LoadComma, LoadOpen, LoadReference, LoadValue, LoadTyped,
         LoadThrows, LoadReturn, LoadAbstract, loadUnchanged, scanVars
  <2>2. /\ pc' \in {pc, "open", "load", "resolve", "thrown"}
        /\ good_' \in {good_, "INVALID_SYNTAX"}
    BY <1>6 DEF Load, LoadBegin, LoadComma, LoadOpen, LoadReference, LoadValue, LoadTyped,
         LoadThrows, LoadReturn, LoadAbstract
  <2> QED BY <2>1, <2>2 DEF ControlTypes
<1>7. CASE ResolveReference \/ ResolveEnd
  BY <1>7 DEF ResolveReference, ResolveEnd, ControlTypes, scanVars
<1>8. CASE Terminated \/ UNCHANGED vars
  BY <1>8 DEF Terminated, vars, scanVars, ControlTypes
<1> QED BY <1>1, <1>2, <1>3, <1>4, <1>5, <1>6, <1>7, <1>8 DEF Next, Scan

LEMMA CallTypesKept ==
  ASSUME FileTypes, FileInv, WindowInv, LoadInv, CallTypes, [Next]_vars
  PROVE  CallTypes'
<1>1. frames' \in Seq(Frames) /\ LoadInv'
  BY CallsKept DEF CallTypes
<1>2. Loading' => frames' # <<>>
  <2>1. Loading' => Len(frames') \in {1, 2}
    BY <1>1 DEF LoadInv, InCalls
  <2> QED BY <1>1, <2>1
<1>3. ~Loading => frames = <<>>
  BY DEF CallTypes, Loading
<1>4. ~Loading' => frames' = <<>>
  <2>1. CASE ScanInstance \/ LoadBegin
    BY <2>1 DEF ScanInstance, LoadBegin, Loading
  <2>2. CASE LoadComma \/ LoadOpen \/ LoadReference \/ LoadValue \/ LoadTyped \/ LoadReturn
    BY <2>2 DEF LoadComma, LoadOpen, LoadReference, LoadValue, LoadTyped, LoadReturn, Loading
  <2>3. CASE LoadThrows
    BY <2>3 DEF LoadThrows, Loading
  <2>4. CASE LoadInstance \/ LoadAbstract
    BY <2>4 DEF LoadInstance, LoadAbstract
  <2>5. CASE ScanUnknown \/ ScanReference \/ ScanOther \/ Advance \/ ScanEnd \/ ResolveReference
             \/ ResolveEnd
    BY <1>3, <2>5 DEF ScanUnknown, ScanReference, ScanOther, Advance, ScanEnd, ResolveReference,
         ResolveEnd, Loading, Scanning
  <2>6. CASE Terminated \/ UNCHANGED vars
    BY <1>3, <2>6 DEF Terminated, vars, Loading
  <2> QED BY <2>1, <2>2, <2>3, <2>4, <2>5, <2>6 DEF Next, Scan, Load
<1> QED BY <1>1, <1>2, <1>4 DEF CallTypes, Loading

LEMMA TypesKept ==
  ASSUME IInv, [Next]_vars
  PROVE  Types' /\ FileInv'
<1>1. /\ FileTypes /\ WindowTypes /\ ControlTypes /\ CallTypes /\ InstanceTypes /\ ReferenceTypes
      /\ FileInv /\ WindowInv /\ LoadInv /\ NamesInv
  BY DEF IInv, Types
<1> QED BY <1>1, FileKept, WindowTypesKept, ControlTypesKept, CallTypesKept, InstanceTypesKept,
           ReferenceTypesKept DEF Types

(***************************************************************************)
(* The number of instances.                                                *)
(***************************************************************************)
LEMMA CountOfResolving ==
  ASSUME FileTypes, CountInv, InstanceTypes, ReferenceTypes, NamesInv,
         ResolveReference \/ ResolveEnd
  PROVE  CountInv'
<1>1. Len(instances) \in Nat
  BY InstanceFacts
<1>2. pc = "resolve" /\ pc' \in {"resolve", "done", "thrown"}
      /\ UNCHANGED <<fileVars, token_stream, good_>>
  BY DEF ResolveReference, ResolveEnd
<1>3. CASE instances' = instances
  BY <1>1, <1>2, <1>3, CountOfResolve
<1>4. CASE instances' # instances
  <2>1. ResolveReference
    BY <1>4 DEF ResolveEnd, mapVars
  <2>2. PICK m \in 1..Len(instances), p \in Unresolveds, found \in SUBSET (1..Len(instances)) :
             /\ p.index \in DOMAIN instances[m].attr
             /\ instances' = WithAttribute(m, p.index, found)
    BY <1>4, <2>1, Resolved, Zenon
  <2>3. OnlyAttribute(m, p.index, found)
    BY <2>2, AttributeSet, Zenon
  <2>4. /\ Len(instances') = Len(instances)
        /\ \A n \in 1..Len(instances) : instances'[n].name = instances[n].name
                                        /\ instances'[n].type = instances[n].type
    BY <2>3 DEF OnlyAttribute
  <2> QED BY <1>1, <1>2, <2>4, CountOfResolve
<1> QED BY <1>3, <1>4

LEMMA CountKept ==
  ASSUME FileTypes, FileInv, WindowTypes, WindowInv, LoadInv, CallTypes, CountInv, InstanceTypes,
         ReferenceTypes, NamesInv, [Next]_vars
  PROVE  CountInv'
<1>1. /\ Len(instances) \in Nat /\ instances \in Seq({instances[n] : n \in 1..Len(instances)})
  BY InstanceFacts DEF InstanceTypes
<1>2. CASE ScanInstance \/ ScanUnknown \/ ScanReference \/ ScanOther
  BY <1>1, <1>2, CountOfScan
<1>3. CASE Advance
  BY <1>1, <1>3, CountOfAdvance DEF WindowTypes
<1>4. CASE ScanEnd
  BY <1>1, <1>4, CountOfScanEnd
<1>5. CASE LoadBegin \/ LoadComma \/ LoadOpen \/ LoadReference \/ LoadValue \/ LoadTyped
           \/ LoadReturn
  <2>1. Loading /\ Loading' /\ UNCHANGED good_
    BY <1>5 DEF LoadBegin, LoadComma, LoadOpen, LoadReference, LoadValue, LoadTyped, LoadReturn,
         Loading
  <2>2. UNCHANGED <<token_stream, current_id, instances>>
    BY <1>5 DEF LoadBegin, LoadComma, LoadOpen, LoadReference, LoadValue, LoadTyped, LoadReturn,
         loadUnchanged, scanVars, mapVars
  <2>3. \E t : Lex(t)
    BY <1>5 DEF LoadBegin, LoadComma, LoadOpen, LoadReference, LoadValue, LoadTyped, LoadReturn
  <2> QED BY <1>1, <2>1, <2>2, <2>3, CountOfLoad
<1>6. CASE LoadThrows
  <2>1. Loading /\ UNCHANGED <<token_stream, current_id, instances>> /\ \E t : Lex(t)
    BY <1>6 DEF LoadThrows, Loading, loadUnchanged, scanVars, mapVars
  <2>2. \/ good_' = "INVALID_SYNTAX" /\ pc' = "resolve"
        \/ UNCHANGED <<good_, pc>>
    BY <1>6, CallsOfThrow DEF CallTypes
  <2>3. CASE UNCHANGED <<good_, pc>>
    <3>1. Loading'
      BY <2>1, <2>3 DEF Loading
    <3> QED BY <1>1, <2>1, <2>3, <3>1, CountOfLoad
  <2> QED BY <1>1, <2>1, <2>2, <2>3, CountOfFailure
<1>7. CASE LoadAbstract
  <2>1. /\ Loading /\ UNCHANGED <<token_stream, current_id, instances>> /\ \E t : Lex(t)
        /\ pc' = "thrown"
    BY <1>7 DEF LoadAbstract, Loading, loadUnchanged, scanVars, mapVars
  <2> QED BY <1>1, <2>1, CountOfFailure
<1>8. CASE LoadInstance
  BY <1>1, <1>8, CountOfLoadInstance
<1>9. CASE ResolveReference \/ ResolveEnd
  BY <1>9, CountOfResolving
<1>10. CASE Terminated \/ UNCHANGED vars
  <2>1. UNCHANGED <<statements, part, input, token_stream, pc, good_, instances, frames>>
    BY <1>10 DEF Terminated, vars, fileVars, mapVars
  <2>2. Pending' <=> Pending
    BY <2>1 DEF Pending, InBeginning, Current, Loading
  <2>3. pc \in {"scan", "advance", "open", "load"} => good_ = "SUCCESS"
    BY DEF CountInv, Loading
  <2> QED BY <1>1, <2>1, <2>2, <2>3, CountSame
<1> QED BY <1>2, <1>3, <1>4, <1>5, <1>6, <1>7, <1>8, <1>9, <1>10 DEF Next, Scan, Load

(***************************************************************************)
(* The names.                                                              *)
(***************************************************************************)
LEMMA Concatenated ==
  ASSUME NEW S, NEW a \in Seq(S), NEW b \in Seq(S), NEW c, c = a \o b, NEW n \in 1..Len(c)
  PROVE  \/ n \in 1..Len(a) /\ c[n] = a[n]
         \/ \E k \in 1..Len(b) : c[n] = b[k]
<1>1. CASE n \in 1..Len(a)
  BY <1>1
<1>2. CASE n \notin 1..Len(a)
  <2>1. n - Len(a) \in 1..Len(b) /\ c[n] = b[n - Len(a)]
    BY <1>2
  <2> QED BY <2>1
<1> QED BY <1>1, <1>2

(* The instance that is made, and what is kept of the references in it *)
MadeOf(made, last) ==
  /\ last = Len(instances) + 1 /\ Len(instances') = last /\ Len(instances) \in Nat
  /\ \A n \in 1..Len(instances) : instances'[n] = instances[n]
  /\ instances'[last] = made
  /\ made.name = current_id /\ made.type = token_stream[3][2] /\ current_id \in Names
  /\ \A i \in DOMAIN made.attr : made.attr[i] = {}
  /\ byid_' = [byid_ EXCEPT ![current_id] = last] /\ last # 0
  /\ \A n \in 1..Len(references_to_resolve') :
       \/ /\ n \in 1..Len(references_to_resolve)
          /\ references_to_resolve'[n] = references_to_resolve[n]
       \/ /\ references_to_resolve'[n].name = current_id
          /\ \E i \in 1..Len(frames[1].items) :
               /\ frames[1].items[i].kind \in {"ref", "list"}
               /\ references_to_resolve'[n].index = i - 1
               /\ references_to_resolve'[n].refs = frames[1].items[i].refs

LEMMA InstanceMade ==
  ASSUME FileTypes, FileInv, LoadInv, CallTypes, InstanceTypes, ReferenceTypes, LoadInstance
  PROVE  \E made, last : MadeOf(made, last)
<1> DEFINE last == Len(instances) + 1
<1>1. PICK made :
        /\ instances' = Append(instances, made)
        /\ made.name = current_id /\ made.type = token_stream[3][2] /\ current_id \in Names
        /\ \A i \in DOMAIN made.attr : made.attr[i] = {}
        /\ byid_' = [byid_ EXCEPT ![made.name] = last]
        /\ Top.items \in Seq(Items) /\ token_stream[3][2] \in Entities \ Abstract
  BY MadeFacts, Zenon
<1>2. Len(instances) \in Nat
  BY InstanceFacts
<1>3. /\ Len(instances') = last
      /\ \A n \in 1..Len(instances) : instances'[n] = instances[n]
      /\ instances'[last] = made
  BY <1>1, InstanceAdded, Zenon
<1>4. last # 0
  BY <1>2
<1>5. byid_' = [byid_ EXCEPT ![current_id] = last]
  BY <1>1
<1>6. Top = frames[1]
  BY TopFacts DEF LoadInstance, LoadInv, Loading, CallTypes
<1>7. /\ Unresolved \in Seq(Unresolveds)
      /\ \A k \in 1..Len(Unresolved) :
           /\ Unresolved[k].name = current_id
           /\ \E n \in 1..Len(Top.items) :
                /\ Top.items[n].kind \in {"ref", "list"}
                /\ Unresolved[k].index = n - 1 /\ Unresolved[k].refs = Top.items[n].refs
  BY <1>1, UnresolvedFacts, Zenon
<1>8. references_to_resolve \in Seq(Unresolveds)
      /\ references_to_resolve' = references_to_resolve \o Unresolved
  BY DEF LoadInstance, ReferenceTypes
<1>9. ASSUME NEW n \in 1..Len(references_to_resolve')
      PROVE  \/ /\ n \in 1..Len(references_to_resolve)
                /\ references_to_resolve'[n] = references_to_resolve[n]
             \/ /\ references_to_resolve'[n].name = current_id
                /\ \E i \in 1..Len(frames[1].items) :
                     /\ frames[1].items[i].kind \in {"ref", "list"}
                     /\ references_to_resolve'[n].index = i - 1
                     /\ references_to_resolve'[n].refs = frames[1].items[i].refs
  <2>1. \/ n \in 1..Len(references_to_resolve)
           /\ references_to_resolve'[n] = references_to_resolve[n]
        \/ \E k \in 1..Len(Unresolved) : references_to_resolve'[n] = Unresolved[k]
    <3>1. /\ references_to_resolve \in Seq(Unresolveds) /\ Unresolved \in Seq(Unresolveds)
          /\ references_to_resolve' = references_to_resolve \o Unresolved
      BY <1>7, <1>8
    <3> QED BY <3>1, Concatenated
  <2>2. ASSUME NEW k \in 1..Len(Unresolved), references_to_resolve'[n] = Unresolved[k]
        PROVE  /\ references_to_resolve'[n].name = current_id
               /\ \E i \in 1..Len(frames[1].items) :
                    /\ frames[1].items[i].kind \in {"ref", "list"}
                    /\ references_to_resolve'[n].index = i - 1
                    /\ references_to_resolve'[n].refs = frames[1].items[i].refs
    <3>1. Unresolved[k].name = current_id
      BY <1>7, Zenon
    <3>2. PICK i \in 1..Len(frames[1].items) :
            /\ frames[1].items[i].kind \in {"ref", "list"}
            /\ Unresolved[k].index = i - 1 /\ Unresolved[k].refs = frames[1].items[i].refs
      BY <1>6, <1>7, Zenon
    <3> QED BY <2>2, <3>1, <3>2, Zenon
  <2> QED BY <2>1, <2>2, Zenon
<1> HIDE DEF last
<1>10. MadeOf(made, last)
  BY <1>1, <1>2, <1>3, <1>4, <1>5, <1>9, Zenon DEF MadeOf, last
<1> QED BY <1>10

LEMMA NamesToResolve ==
  ASSUME ReferenceTypes, NEW n \in 1..Len(references_to_resolve)
  PROVE  /\ references_to_resolve[n] \in Unresolveds
         /\ references_to_resolve[n].name \in Names
         /\ references_to_resolve[n].refs \in SUBSET Names
<1>1. references_to_resolve[n] \in Unresolveds
  BY DEF ReferenceTypes
<1> QED BY <1>1 DEF Unresolveds

LEMMA NamesOfMade ==
  ASSUME InstanceTypes, ReferenceTypes, NamesInv, NEW made, NEW last, MadeOf(made, last)
  PROVE  NamesInv'
<1>1. /\ byid_' = [byid_ EXCEPT ![current_id] = last] /\ byid_ \in [Names -> 0..Len(instances)]
      /\ current_id \in Names /\ last # 0
  BY DEF MadeOf, InstanceTypes
<1>2. \A k \in Names : byid_'[k] = IF k = current_id THEN last ELSE byid_[k]
  BY <1>1
<1>3. ASSUME NEW k \in Names, byid_'[k] # 0
      PROVE  instances'[byid_'[k]].name = k
  <2>1. CASE k = current_id
    BY <1>2, <2>1 DEF MadeOf
  <2>2. CASE k # current_id
    <3>1. byid_[k] # 0 /\ byid_'[k] = byid_[k] /\ byid_[k] \in 1..Len(instances)
      BY <1>2, <1>3, <2>2, InstanceFacts
    <3>2. instances'[byid_[k]] = instances[byid_[k]] /\ instances[byid_[k]].name = k
      BY <3>1 DEF MadeOf, NamesInv
    <3> QED BY <3>1, <3>2
  <2> QED BY <2>1, <2>2
<1>4. ASSUME NEW n \in 1..Len(instances')
      PROVE  byid_'[instances'[n].name] # 0
  <2>1. n \in 1..Len(instances) \/ n = last
    BY DEF MadeOf
  <2>2. CASE n \in 1..Len(instances)
    <3>1. instances'[n] = instances[n] /\ instances[n].name \in Names
      BY <2>2, InstanceFacts DEF MadeOf
    <3>2. byid_[instances[n].name] # 0
      BY <2>2 DEF NamesInv
    <3> QED BY <1>1, <1>2, <3>1, <3>2
  <2>3. CASE n = last
    <3>1. instances'[n].name = current_id
      BY <2>3 DEF MadeOf
    <3> QED BY <1>1, <1>2, <3>1
  <2> QED BY <2>1, <2>2, <2>3
<1>5. ASSUME NEW n \in 1..Len(references_to_resolve')
      PROVE  byid_'[references_to_resolve'[n].name] # 0
  <2>1. \/ /\ n \in 1..Len(references_to_resolve)
           /\ references_to_resolve'[n] = references_to_resolve[n]
        \/ references_to_resolve'[n].name = current_id
    BY DEF MadeOf
  <2>2. CASE /\ n \in 1..Len(references_to_resolve)
             /\ references_to_resolve'[n] = references_to_resolve[n]
    <3>1. /\ references_to_resolve[n].name \in Names
          /\ byid_[references_to_resolve[n].name] # 0
      BY <2>2, NamesToResolve DEF NamesInv
    <3> QED BY <1>1, <1>2, <2>2, <3>1
  <2>3. CASE references_to_resolve'[n].name = current_id
    BY <1>1, <1>2, <2>3
  <2> QED BY <2>1, <2>2, <2>3
<1> QED BY <1>3, <1>4, <1>5 DEF NamesInv

(* What the loop over the references keeps and changes *)
ResolvedOf(m, p, found) ==
  /\ m \in 1..Len(instances) /\ p \in Unresolveds /\ found \in SUBSET (1..Len(instances))
  /\ p = references_to_resolve[1] /\ m = byid_[p.name] /\ instances[m].name = p.name
  /\ 1 \in 1..Len(references_to_resolve)
  /\ \A x \in found : \E r \in p.refs : x = byid_[r] /\ instances[x].name = r
  /\ Len(instances') = Len(instances)
  /\ \A n \in 1..Len(instances) :
       /\ instances'[n].name = instances[n].name /\ instances'[n].type = instances[n].type
       /\ DOMAIN instances'[n].attr = DOMAIN instances[n].attr
       /\ \A j \in DOMAIN instances[n].attr :
            \/ instances'[n].attr[j] = instances[n].attr[j]
            \/ n = m /\ j = p.index /\ instances'[n].attr[j] = found
  /\ \A n \in 1..Len(references_to_resolve') :
       \E k \in 1..Len(references_to_resolve) : references_to_resolve'[n] = references_to_resolve[k]
  /\ UNCHANGED byid_

LEMMA InstanceResolved ==
  ASSUME InstanceTypes, ReferenceTypes, NamesInv, ResolveReference
  PROVE  \E m, p, found : ResolvedOf(m, p, found)
<1>1. PICK m \in 1..Len(instances), p \in Unresolveds, found \in SUBSET (1..Len(instances)) :
        /\ p = references_to_resolve[1] /\ m = byid_[p.name]
        /\ \A x \in found : \E r \in p.refs : x = byid_[r]
        /\ \/ instances' = instances
           \/ /\ p.index \in DOMAIN instances[m].attr
              /\ instances' = WithAttribute(m, p.index, found)
  BY Resolved, Zenon
<1>2. /\ 1 \in 1..Len(references_to_resolve) /\ UNCHANGED byid_
      /\ references_to_resolve' = Tail(references_to_resolve)
  BY Resolved
<1>3. p.name \in Names /\ p.refs \in SUBSET Names
  BY <1>1, <1>2, NamesToResolve
<1>4. \A k \in Names : byid_[k] \in 1..Len(instances) => instances[byid_[k]].name = k
  <2>1. \A x \in 1..Len(instances) : x # 0
    BY InstanceFacts
  <2> QED BY <2>1 DEF NamesInv
<1>5. instances[m].name = p.name
  BY <1>1, <1>3, <1>4
<1>6. ASSUME NEW x \in found
      PROVE  \E r \in p.refs : x = byid_[r] /\ instances[x].name = r
  <2>1. PICK r \in p.refs : x = byid_[r]
    BY <1>1
  <2>2. x \in 1..Len(instances) /\ r \in Names
    BY <1>1, <1>3, <2>1
  <2> QED BY <1>4, <2>1, <2>2
<1>7. /\ Len(instances') = Len(instances)
      /\ \A n \in 1..Len(instances) :
           /\ instances'[n].name = instances[n].name /\ instances'[n].type = instances[n].type
           /\ DOMAIN instances'[n].attr = DOMAIN instances[n].attr
           /\ \A j \in DOMAIN instances[n].attr :
                \/ instances'[n].attr[j] = instances[n].attr[j]
                \/ n = m /\ j = p.index /\ instances'[n].attr[j] = found
  <2>1. CASE instances' = instances
    BY <2>1
  <2>2. CASE /\ p.index \in DOMAIN instances[m].attr
             /\ instances' = WithAttribute(m, p.index, found)
    <3>1. OnlyAttribute(m, p.index, found)
      BY <1>1, <2>2, AttributeSet, Zenon
    <3> QED BY <3>1 DEF OnlyAttribute
  <2> QED BY <1>1, <2>1, <2>2
<1>8. ASSUME NEW n \in 1..Len(references_to_resolve')
      PROVE  \E k \in 1..Len(references_to_resolve) :
               references_to_resolve'[n] = references_to_resolve[k]
  <2>1. /\ references_to_resolve \in Seq(Unresolveds) /\ references_to_resolve # <<>>
    BY DEF ReferenceTypes, ResolveReference
  <2>2. /\ Len(references_to_resolve') = Len(references_to_resolve) - 1
        /\ Len(references_to_resolve) \in Nat
        /\ \A i \in 1..Len(references_to_resolve) - 1 :
             references_to_resolve'[i] = references_to_resolve[i + 1]
    BY <1>2, <2>1, TailOf
  <2>3. n + 1 \in 1..Len(references_to_resolve) /\ n \in 1..Len(references_to_resolve) - 1
    BY <2>2
  <2> QED BY <2>2, <2>3
<1>9. ResolvedOf(m, p, found)
  BY <1>1, <1>2, <1>5, <1>6, <1>7, <1>8, Zenon DEF ResolvedOf
<1> QED BY <1>9

LEMMA OthersKeep ==
  ASSUME [Next]_vars, ~LoadInstance, ~ResolveReference, ~ResolveEnd
  PROVE  UNCHANGED <<instances, byid_, references_to_resolve>>
BY DEF Next, Scan, ScanInstance, ScanUnknown, ScanReference, ScanOther, Advance, ScanEnd,
       Load, LoadBegin, LoadComma, LoadOpen, LoadReference, LoadValue, LoadTyped, LoadThrows,
       LoadReturn, LoadAbstract, Terminated, loadUnchanged, mapVars, vars

LEMMA NamesKept ==
  ASSUME FileTypes, FileInv, LoadInv, CallTypes, InstanceTypes, ReferenceTypes, NamesInv,
         [Next]_vars
  PROVE  NamesInv'
<1>1. CASE LoadInstance
  BY <1>1, InstanceMade, NamesOfMade, Zenon
<1>2. CASE ResolveReference
  <2>1. PICK m, p, found : ResolvedOf(m, p, found)
    BY <1>2, InstanceResolved, Zenon
  <2>2. \A k \in Names : byid_[k] # 0 => byid_[k] \in 1..Len(instances)
    BY InstanceFacts
  <2>3. /\ UNCHANGED byid_ /\ Len(instances') = Len(instances)
        /\ \A n \in 1..Len(instances) : instances'[n].name = instances[n].name
        /\ \A n \in 1..Len(references_to_resolve') :
             \E k \in 1..Len(references_to_resolve) :
               references_to_resolve'[n] = references_to_resolve[k]
    BY <2>1 DEF ResolvedOf
  <2> QED BY <2>2, <2>3 DEF NamesInv
<1>3. CASE UNCHANGED <<instances, byid_, references_to_resolve>>
  BY <1>3 DEF NamesInv
<1>4. CASE ResolveEnd
  <2>1. UNCHANGED <<instances, byid_>> /\ references_to_resolve' = <<>>
    BY <1>4 DEF ResolveEnd, mapVars
  <2> QED BY <2>1 DEF NamesInv
<1>5. ASSUME ~LoadInstance, ~ResolveReference, ~ResolveEnd
      PROVE  UNCHANGED <<instances, byid_, references_to_resolve>>
  BY <1>5, OthersKeep
<1> QED BY <1>1, <1>2, <1>3, <1>4, <1>5

(***************************************************************************)
(* The references are registered. As an operator of values, for the       *)
(* states before and after a step:                                         *)
(***************************************************************************)
RegisteredIn(item, a, e, k, bag) ==
  item.kind \in {"ref", "list"} => \A r \in item.refs : BagIn(<<r, e, a, k>>, bag)

ItemsIn(calls, e, k, bag) ==
  /\ \A n \in 1..Len(calls[1].items) : RegisteredIn(calls[1].items[n], n - 1, e, k, bag)
  /\ Len(calls) = 2 /\ ~calls[2].typed =>
       \A n \in 1..Len(calls[2].items) :
         RegisteredIn(calls[2].items[n], calls[2].attribute, e, k, bag)

LEMMA ItemsAreIn ==
  /\ ItemsRegistered <=> ItemsIn(frames, token_stream[3][2], current_id, byref_excl_)
  /\ ItemsRegistered' <=> ItemsIn(frames', token_stream'[3][2], current_id', byref_excl_')
<1>1. ItemsRegistered <=> ItemsIn(frames, token_stream[3][2], current_id, byref_excl_)
  BY DEF ItemsRegistered, ItemsIn, Registered, RegisteredIn
<1>2. ItemsRegistered' <=> ItemsIn(frames', token_stream'[3][2], current_id', byref_excl_')
  BY DEF ItemsRegistered, ItemsIn, Registered, RegisteredIn
<1> QED BY <1>1, <1>2

(* Calls of load() whose items stay, and one that begins *)
LEMMA ItemsKept ==
  ASSUME NEW e, NEW k, NEW b, NEW c, \A x : BagIn(x, b) => BagIn(x, c),
         NEW f, NEW g, ItemsIn(f, e, k, b), g[1].items = f[1].items,
         \/ Len(g) # 2 \/ g[2].typed \/ Len(g[2].items) = 0
         \/ /\ Len(f) = 2 /\ ~f[2].typed
            /\ g[2].items = f[2].items /\ g[2].attribute = f[2].attribute
  PROVE  ItemsIn(g, e, k, c)
<1>1. \A item, a : RegisteredIn(item, a, e, k, b) => RegisteredIn(item, a, e, k, c)
  BY DEF RegisteredIn
<1>2. \A n \in 1..Len(g[1].items) : RegisteredIn(g[1].items[n], n - 1, e, k, c)
  BY <1>1 DEF ItemsIn
<1>3. ASSUME Len(g) = 2, ~g[2].typed
      PROVE  \A n \in 1..Len(g[2].items) : RegisteredIn(g[2].items[n], g[2].attribute, e, k, c)
  BY <1>1, <1>3 DEF ItemsIn
<1> QED BY <1>2, <1>3 DEF ItemsIn

(* A call of load() with one more item, the call that it returned to too *)
LEMMA ItemAppended ==
  ASSUME NEW e, NEW k, NEW b, NEW c, \A x : BagIn(x, b) => BagIn(x, c),
         NEW f, NEW g, ItemsIn(f, e, k, b), f[1].items \in Seq(Items),
         NEW item \in Items, g[1].items = Append(f[1].items, item),
         RegisteredIn(item, Len(f[1].items), e, k, c), Len(g) # 2
  PROVE  ItemsIn(g, e, k, c)
<1>1. \A i, a : RegisteredIn(i, a, e, k, b) => RegisteredIn(i, a, e, k, c)
  BY DEF RegisteredIn
<1> DEFINE l == Len(f[1].items)
           items == Append(f[1].items, item)
<1>2. /\ Len(items) = l + 1 /\ l \in Nat /\ items[l + 1] = item
      /\ \A n \in 1..l : items[n] = f[1].items[n]
  BY Appended
<1>3. \A n \in 1..l : RegisteredIn(f[1].items[n], n - 1, e, k, b)
  BY DEF ItemsIn
<1> HIDE DEF l, items
<1>4. ASSUME NEW n \in 1..Len(items)
      PROVE  RegisteredIn(items[n], n - 1, e, k, c)
  <2>1. CASE n \in 1..l
    <3>1. items[n] = f[1].items[n]
      BY <1>2, <2>1
    <3> QED BY <1>1, <1>3, <2>1, <3>1
  <2>2. CASE n \notin 1..l
    <3>1. n = l + 1 /\ n - 1 = l
      BY <1>2, <2>2
    <3> QED BY <1>2, <3>1 DEF l
  <2> QED BY <2>1, <2>2
<1>5. g[1].items = items
  BY DEF items
<1> QED BY <1>4, <1>5 DEF ItemsIn

LEMMA InnerItemAppended ==
  ASSUME NEW e, NEW k, NEW b, NEW c, \A x : BagIn(x, b) => BagIn(x, c),
         NEW f, NEW g, ItemsIn(f, e, k, b), f[2].items \in Seq(Items),
         NEW item \in Items, g[1] = f[1], Len(f) = 2, ~f[2].typed,
         g[2].items = Append(f[2].items, item), g[2].attribute = f[2].attribute,
         RegisteredIn(item, f[2].attribute, e, k, c)
  PROVE  ItemsIn(g, e, k, c)
<1>1. \A i, a : RegisteredIn(i, a, e, k, b) => RegisteredIn(i, a, e, k, c)
  BY DEF RegisteredIn
<1> DEFINE l == Len(f[2].items)
           items == Append(f[2].items, item)
           a == f[2].attribute
<1>2. /\ Len(items) = l + 1 /\ l \in Nat /\ items[l + 1] = item
      /\ \A n \in 1..l : items[n] = f[2].items[n]
  BY Appended
<1>3. /\ \A n \in 1..l : RegisteredIn(f[2].items[n], a, e, k, b)
      /\ \A n \in 1..Len(f[1].items) : RegisteredIn(f[1].items[n], n - 1, e, k, b)
  BY DEF ItemsIn
<1>4. RegisteredIn(item, a, e, k, c) /\ g[2].items = items /\ g[2].attribute = a
  OBVIOUS
<1> HIDE DEF l, items, a
<1>5. ASSUME NEW n \in 1..Len(items)
      PROVE  RegisteredIn(items[n], a, e, k, c)
  <2>1. CASE n \in 1..l
    <3>1. items[n] = f[2].items[n]
      BY <1>2, <2>1
    <3> QED BY <1>1, <1>3, <2>1, <3>1
  <2>2. CASE n \notin 1..l
    <3>1. n = l + 1
      BY <1>2, <2>2
    <3> QED BY <1>2, <1>4, <3>1
  <2> QED BY <2>1, <2>2
<1> QED BY <1>1, <1>3, <1>4, <1>5 DEF ItemsIn

LEMMA ItemsOfReference ==
  ASSUME FileTypes, FileInv, LoadInv, CallTypes, IsABag(byref_excl_), ItemsRegistered, LoadReference
  PROVE  ItemsRegistered'
<1>1. PICK k \in Names :
        /\ Lex(Ident(k))
        /\ byref_excl_' =
             IF Top.registers
             THEN BE!BagAdd(byref_excl_, <<k, token_stream[3][2], Attribute, current_id>>)
             ELSE byref_excl_
        /\ frames' = WithItem([kind |-> "ref", refs |-> {k}])
  BY DEF LoadReference
<1> DEFINE item == [kind |-> "ref", refs |-> {k}]
           e == token_stream[3][2]
<1>2. pc = "load" /\ Loading /\ frames \in Seq(Frames) /\ InCalls
  BY DEF LoadReference, Loading, LoadInv, CallTypes
<1>3. item \in Items /\ item.refs = {k}
  BY NewItems
<1>4. frames' = WithItem(item)
  BY <1>1
<1>5. /\ Len(frames') = Len(frames) /\ InCalls'
      /\ Len(frames) = 1 => /\ frames'[1].items = Append(frames[1].items, item)
      /\ Len(frames) = 2 =>
           /\ frames'[1] = frames[1] /\ frames'[2].typed = frames[2].typed
           /\ frames'[2].attribute = frames[2].attribute
           /\ frames'[2].items = Append(frames[2].items, item)
  <2> HIDE DEF item
  <2> QED BY <1>2, <1>3, <1>4, ItemAdded
<1>6. UNCHANGED <<token_stream, current_id>>
  BY DEF LoadReference, loadUnchanged, scanVars
<1>7. \A x : BagIn(x, byref_excl_) => BagIn(x, byref_excl_')
  BY <1>1, Listed
<1>8. Top.registers => BagIn(<<k, e, Attribute, current_id>>, byref_excl_')
  BY <1>1, Listed
<1>9. ItemsIn(frames, e, current_id, byref_excl_)
  BY ItemsAreIn
<1>10. Ident(k) # None /\ Ident(k) # RightParen /\ Ident(k) # Comma
  BY TokenKinds
<1>11. /\ Top \in Frames /\ frames[1] \in Frames /\ (Len(frames) = 2 => frames[2] \in Frames)
       /\ Len(frames) = 1 => Top = frames[1]
       /\ Len(frames) = 2 => Top = frames[2]
  BY <1>2, TopFacts
<1>12. ASSUME NEW a, Top.registers, a = Attribute
       PROVE  RegisteredIn(item, a, e, current_id, byref_excl_')
  BY <1>3, <1>8, <1>12 DEF RegisteredIn
<1> HIDE DEF item
<1>13. ItemsIn(frames', e, current_id, byref_excl_')
  <2>1. CASE Len(frames) = 1
    <3>1. Attribute = frames[1].index /\ Top.registers
      BY <1>2, <1>11, <2>1, AttributeOfCall DEF InCalls
    <3>2. Attribute = Len(frames[1].items)
      <4>1. part' \in Nat /\ Len(frames[1].items) = part' - 1 /\ frames[1].index = part' - 1
        BY <1>1, <1>2, <1>10, <2>1, OuterLex
      <4> QED BY <3>1, <4>1
    <3>3. frames[1].items \in Seq(Items)
      BY <1>11, FrameFacts
    <3>4. RegisteredIn(item, Len(frames[1].items), e, current_id, byref_excl_')
      BY <1>12, <3>1, <3>2
    <3>5. Len(frames') # 2 /\ frames'[1].items = Append(frames[1].items, item)
      BY <1>5, <2>1
    <3> HIDE DEF e
    <3> QED BY <1>3, <1>7, <1>9, <3>3, <3>4, <3>5, ItemAppended
  <2>2. CASE Len(frames) = 2 /\ frames[2].typed
    <3> HIDE DEF e
    <3> QED BY <1>5, <1>7, <1>9, <2>2, ItemsKept
  <2>3. CASE Len(frames) = 2 /\ ~frames[2].typed
    <3>1. Attribute = frames[2].attribute /\ Top.registers
      BY <1>2, <1>11, <2>3, AttributeOfCall DEF InCalls
    <3>2. frames[2].items \in Seq(Items)
      BY <1>11, <2>3, FrameFacts
    <3>3. RegisteredIn(item, frames[2].attribute, e, current_id, byref_excl_')
      BY <1>12, <3>1
    <3>4. /\ frames'[1] = frames[1] /\ frames'[2].attribute = frames[2].attribute
          /\ frames'[2].items = Append(frames[2].items, item)
      BY <1>5, <2>3
    <3> HIDE DEF e
    <3> QED BY <1>3, <1>7, <1>9, <2>3, <3>2, <3>3, <3>4, InnerItemAppended
  <2> QED BY <1>2, <2>1, <2>2, <2>3 DEF InCalls
<1> QED BY <1>6, <1>13, ItemsAreIn

LEMMA ItemsOfValue ==
  ASSUME FileTypes, FileInv, LoadInv, CallTypes, ItemsRegistered, LoadValue
  PROVE  ItemsRegistered'
<1>1. PICK t :
        /\ Lex(t) /\ (t[1] = "string" \/ t = Dollar)
        /\ frames' = WithItem(IF t = Dollar THEN [kind |-> "other"]
                              ELSE [kind |-> "string", guid |-> t[2]])
  BY DEF LoadValue
<1> DEFINE item == IF t = Dollar THEN [kind |-> "other"] ELSE [kind |-> "string", guid |-> t[2]]
           e == token_stream[3][2]
<1>2. Loading /\ frames \in Seq(Frames) /\ InCalls /\ Len(frames) = 1
  BY CallsOfValue DEF LoadValue, Loading, LoadInv, CallTypes
<1>3. item \in Items /\ item.kind \notin {"ref", "list"}
  <2>1. t \in FileTokens \cup {None}
    BY <1>1, LexKeepsFile
  <2>2. t # Dollar => t[2] \in Guids
    BY <1>1, <2>1, TextFacts, TokenKinds
  <2> QED BY <2>2, NewItems
<1>4. frames' = WithItem(item)
  BY <1>1
<1>5. UNCHANGED <<token_stream, current_id, byref_excl_>>
  BY DEF LoadValue, loadUnchanged, scanVars
<1>6. ItemsIn(frames, e, current_id, byref_excl_)
  BY ItemsAreIn
<1> HIDE DEF item
<1>7. RegisteredIn(item, Len(frames[1].items), e, current_id, byref_excl_)
  BY <1>3 DEF RegisteredIn
<1>8. /\ frames'[1].items = Append(frames[1].items, item) /\ Len(frames') # 2
  <2>1. /\ Len(frames') = Len(frames)
        /\ Len(frames) = 1 => frames'[1].items = Append(frames[1].items, item)
    BY <1>2, <1>3, <1>4, ItemAdded
  <2> QED BY <1>2, <2>1
<1>9. frames[1].items \in Seq(Items)
  BY <1>2, TopFacts, FrameFacts
<1> HIDE DEF e
<1>10. ItemsIn(frames', e, current_id, byref_excl_)
  BY <1>3, <1>6, <1>7, <1>8, <1>9, ItemAppended
<1> QED BY <1>5, <1>10, ItemsAreIn DEF e

LEMMA ItemsOfReturn ==
  ASSUME FileTypes, FileInv, LoadInv, CallTypes, ItemsRegistered, LoadReturn
  PROVE  ItemsRegistered'
<1> DEFINE e == token_stream[3][2]
<1>1. /\ Len(frames) = 2 /\ Len(frames') = 1
      /\ frames'[1].items = Append(frames[1].items, Collected)
  BY CallsOfReturn DEF CallTypes
<1>2. Loading /\ frames \in Seq(Frames) /\ InCalls
  BY DEF LoadReturn, Loading, LoadInv, CallTypes
<1>3. UNCHANGED <<token_stream, current_id, byref_excl_>>
  BY DEF LoadReturn, loadUnchanged, scanVars
<1>4. ItemsIn(frames, e, current_id, byref_excl_)
  BY ItemsAreIn
<1>5. /\ frames[1] \in Frames /\ Top = frames[2] /\ Top \in Frames
      /\ frames[1].items \in Seq(Items) /\ Top.items \in Seq(Items)
  BY <1>1, <1>2, TopFacts, FrameFacts
<1>6. RegisteredIn(Collected, Len(frames[1].items), e, current_id, byref_excl_)
  <2> DEFINE refs == UNION {Top.items[n].refs : n \in {m \in DOMAIN Top.items :
                                                   Top.items[m].kind \in {"ref", "list"}}}
             a == Len(frames[1].items)
  <2>1. \/ Collected.kind = "other"
        \/ ~Top.typed /\ Collected.refs = refs
    BY DEF Collected
  <2>2. ASSUME ~Top.typed, NEW r \in refs
        PROVE  BagIn(<<r, e, a, current_id>>, byref_excl_)
    <3>1. PICK n \in DOMAIN Top.items :
            Top.items[n].kind \in {"ref", "list"} /\ r \in Top.items[n].refs
      OBVIOUS
    <3>2. n \in 1..Len(Top.items)
      BY <1>5
    <3>3. frames[2].attribute = a /\ ~frames[2].typed
      BY <1>1, <1>2, <1>5, <2>2 DEF InCalls
    <3>4. RegisteredIn(frames[2].items[n], a, e, current_id, byref_excl_)
      BY <1>1, <1>4, <1>5, <3>2, <3>3 DEF ItemsIn
    <3> QED BY <1>5, <3>1, <3>4 DEF RegisteredIn
  <2> HIDE DEF refs, a
  <2>3. RegisteredIn(Collected, a, e, current_id, byref_excl_)
    BY <2>1, <2>2 DEF RegisteredIn
  <2> QED BY <2>3 DEF a
<1>7. Collected \in Items
  BY <1>2, CollectedFacts
<1>8. Len(frames') # 2
  BY <1>1
<1> HIDE DEF e
<1>9. ItemsIn(frames', e, current_id, byref_excl_)
  BY <1>1, <1>4, <1>5, <1>6, <1>7, <1>8, ItemAppended
<1> QED BY <1>3, <1>9, ItemsAreIn DEF e

LEMMA ItemsOfComma ==
  ASSUME FileTypes, FileInv, LoadInv, CallTypes, ItemsRegistered, LoadComma
  PROVE  ItemsRegistered'
<1> DEFINE i == IF Top.attribute = -1 THEN Top.index + 1 ELSE Top.index
           f == [Top EXCEPT !.index = i]
           e == token_stream[3][2]
<1>1. Loading /\ frames \in Seq(Frames) /\ InCalls
  BY DEF LoadComma, Loading, LoadInv, CallTypes
<1>2. Top \in Frames /\ Top.index \in Nat /\ Top.index + 1 \in Nat
  BY <1>1, TopFacts, FrameFacts
<1>3. i \in Nat
  BY <1>2
<1>4. frames' = WithTop(f)
  BY DEF LoadComma
<1> HIDE DEF i
<1>5. /\ f \in Frames /\ f.attribute = Top.attribute /\ f.typed = Top.typed /\ f.items = Top.items
  BY <1>2, <1>3, FrameFacts
<1> HIDE DEF f
<1>6. /\ Len(frames') = Len(frames) /\ Len(frames) \in {1, 2}
      /\ Len(frames) = 1 => frames'[1] = f /\ Top = frames[1]
      /\ Len(frames) = 2 => frames'[1] = frames[1] /\ frames'[2] = f /\ Top = frames[2]
  BY <1>1, <1>4, <1>5, TopReplaced, TopFacts DEF InCalls
<1>7. UNCHANGED <<token_stream, current_id, byref_excl_>>
  BY DEF LoadComma, loadUnchanged, scanVars
<1>8. ItemsIn(frames, e, current_id, byref_excl_)
  BY ItemsAreIn
<1>9. /\ frames'[1].items = frames[1].items
      /\ \/ Len(frames') # 2 \/ frames'[2].typed
         \/ /\ Len(frames) = 2 /\ ~frames[2].typed
            /\ frames'[2].items = frames[2].items /\ frames'[2].attribute = frames[2].attribute
  BY <1>5, <1>6
<1> HIDE DEF e
<1>10. ItemsIn(frames', e, current_id, byref_excl_)
  BY <1>8, <1>9, ItemsKept
<1> QED BY <1>7, <1>10, ItemsAreIn DEF e

(* The steps that begin, end or leave calls, but for the end of a list *)
LEMMA ItemsOfCalls ==
  ASSUME FileTypes, FileInv, LoadInv, CallTypes, ItemsRegistered,
         LoadBegin \/ LoadOpen \/ LoadTyped \/ LoadThrows, Loading'
  PROVE  ItemsRegistered'
<1> DEFINE e == token_stream[3][2]
<1>1. Loading /\ frames \in Seq(Frames) /\ InCalls
  BY DEF LoadBegin, LoadOpen, LoadTyped, LoadThrows, Loading, LoadInv, CallTypes
<1>2. UNCHANGED <<token_stream, current_id, byref_excl_>>
  BY DEF LoadBegin, LoadOpen, LoadTyped, LoadThrows, loadUnchanged, scanVars
<1>3. \/ UNCHANGED frames
      \/ frames'[1].items = frames[1].items
         /\ (Len(frames') # 2 \/ frames'[2].typed \/ Len(frames'[2].items) = 0)
  <2>1. CASE LoadBegin
    BY <2>1 DEF LoadBegin
  <2>2. CASE LoadOpen
    <3> DEFINE f == Frame(Attribute, FALSE, Top.registers)
    <3>1. Len(frames) = 1 /\ frames' = Append(frames, f)
      BY <2>2, CallsOfOpen DEF LoadOpen, CallTypes
    <3>2. Attribute \in Nat \cup {-1} /\ Top.registers \in BOOLEAN
      BY <1>1, AttributeOfCall, TopFacts, FrameFacts
    <3>3. f \in Frames /\ Len(f.items) = 0
      BY <3>2, NewFrame
    <3> HIDE DEF f
    <3>4. frames'[1] = frames[1] /\ frames'[2] = f
      BY <1>1, <3>1, <3>3, FramePushed
    <3> QED BY <3>3, <3>4
  <2>3. CASE LoadTyped
    <3> DEFINE f == Frame(-1, TRUE, FALSE)
    <3>1. Len(frames) = 1 /\ (UNCHANGED frames \/ frames' = Append(frames, f))
      BY <2>3, CallsOfTyped DEF LoadTyped, CallTypes
    <3>2. f \in Frames /\ Len(f.items) = 0
      BY NewFrame
    <3> HIDE DEF f
    <3>3. CASE frames' = Append(frames, f)
      <4>1. frames'[1] = frames[1] /\ frames'[2] = f
        BY <1>1, <3>1, <3>2, <3>3, FramePushed
      <4> QED BY <3>2, <4>1
    <3> QED BY <3>1, <3>3
  <2>4. CASE LoadThrows
    <3>1. pc' # "resolve"
      BY DEF Loading
    <3>2. Len(frames') = 1 /\ frames'[1] = frames[1]
      BY <2>4, <3>1, CallsOfThrow DEF CallTypes
    <3> QED BY <3>2
  <2> QED BY <2>1, <2>2, <2>3, <2>4
<1>4. ItemsIn(frames, e, current_id, byref_excl_)
  BY ItemsAreIn
<1> HIDE DEF e
<1>5. ItemsIn(frames', e, current_id, byref_excl_)
  <2>1. CASE UNCHANGED frames
    BY <1>4, <2>1
  <2>2. CASE ~UNCHANGED frames
    BY <1>3, <1>4, <2>2, ItemsKept
  <2> QED BY <2>1, <2>2
<1> QED BY <1>2, <1>5, ItemsAreIn DEF e

LEMMA ItemsRegisteredKept ==
  ASSUME FileTypes, FileInv, WindowInv, LoadInv, CallTypes, IsABag(byref_excl_),
         Loading => ItemsRegistered, Loading', [Next]_vars
  PROVE  ItemsRegistered'
<1>1. CASE ScanInstance
  <2>1. Len(frames') = 1 /\ Len(frames'[1].items) = 0
    BY <1>1, CallsOfInstance
  <2>2. ItemsIn(frames', token_stream'[3][2], current_id', byref_excl_')
    BY <2>1 DEF ItemsIn
  <2> QED BY <2>2, ItemsAreIn
<1>2. CASE LoadBegin \/ LoadOpen \/ LoadTyped \/ LoadThrows
  <2>1. Loading
    BY <1>2 DEF LoadBegin, LoadOpen, LoadTyped, LoadThrows, Loading
  <2> QED BY <1>2, <2>1, ItemsOfCalls
<1>3. CASE LoadComma \/ LoadReference \/ LoadValue \/ LoadReturn
  <2>1. Loading
    BY <1>3 DEF LoadComma, LoadReference, LoadValue, LoadReturn, Loading
  <2> QED BY <1>3, <2>1, ItemsOfComma, ItemsOfReference, ItemsOfValue, ItemsOfReturn
<1>4. ~LoadInstance /\ ~LoadAbstract /\ ~ScanUnknown /\ ~ScanReference /\ ~ScanOther
      /\ ~Advance /\ ~ScanEnd /\ ~ResolveReference /\ ~ResolveEnd
  BY DEF LoadInstance, LoadAbstract, ScanUnknown, ScanReference, ScanOther, Advance, ScanEnd,
         ResolveReference, ResolveEnd, Loading
<1>5. CASE Terminated \/ UNCHANGED vars
  <2>1. UNCHANGED <<pc, frames, token_stream, current_id, byref_excl_>>
    BY <1>5 DEF Terminated, vars, scanVars
  <2>2. ItemsRegistered
    BY <2>1 DEF Loading
  <2> QED BY <2>1, <2>2, ItemsAreIn
<1> QED BY <1>1, <1>2, <1>3, <1>4, <1>5 DEF Next, Scan, Load

(***************************************************************************)
(* The references that are names and those that are resolved.              *)
(***************************************************************************)
LEMMA ReferencesOfMade ==
  ASSUME InstanceTypes, ReferenceTypes, NamesInv, ItemsRegistered,
         Unambiguous => NamesRegistered /\ AttributesRegistered,
         NEW made, NEW last, MadeOf(made, last), UNCHANGED byref_excl_, Unambiguous'
  PROVE  NamesRegistered' /\ AttributesRegistered'
<1>1. /\ last = Len(instances) + 1 /\ Len(instances') = last /\ Len(instances) \in Nat
      /\ \A n \in 1..Len(instances) : instances'[n] = instances[n]
      /\ instances'[last] = made
      /\ made.name = current_id /\ made.type = token_stream[3][2] /\ current_id \in Names
      /\ \A i \in DOMAIN made.attr : made.attr[i] = {}
      /\ byid_' = [byid_ EXCEPT ![current_id] = last]
  BY DEF MadeOf
<1>2. /\ \A n \in 1..last : n \in 1..Len(instances) \/ n = last
      /\ 1..Len(instances) \subseteq 1..last /\ last \in 1..last /\ last \notin 1..Len(instances)
  BY <1>1
<1>3. Unambiguous
  BY <1>1, <1>2 DEF Unambiguous
<1>4. \A k \in Names : byid_'[k] = IF k = current_id THEN last ELSE byid_[k]
  BY <1>1 DEF InstanceTypes
<1>5. \A n \in 1..Len(instances) : instances[n].name # current_id
  <2> SUFFICES ASSUME NEW n \in 1..Len(instances), instances[n].name = current_id
               PROVE  FALSE
    OBVIOUS
  <2>1. instances'[n].name = instances'[last].name /\ n \in 1..last /\ last \in 1..last
    BY <1>1, <1>2
  <2>2. n = last
    BY <1>1, <2>1 DEF Unambiguous
  <2> QED BY <1>2, <2>2
<1>6. ASSUME NEW n \in 1..Len(references_to_resolve'),
             NEW r \in references_to_resolve'[n].refs
      PROVE  BagIn(<<r, instances'[byid_'[references_to_resolve'[n].name]].type,
                     references_to_resolve'[n].index, references_to_resolve'[n].name>>,
                   byref_excl_')
  <2> DEFINE p == references_to_resolve'[n]
  <2>1. CASE n \in 1..Len(references_to_resolve) /\ p = references_to_resolve[n]
    <3>1. p.name \in Names /\ byid_[p.name] # 0
      BY <2>1, NamesToResolve DEF NamesInv
    <3>2. byid_[p.name] \in 1..Len(instances) /\ instances[byid_[p.name]].name = p.name
      BY <3>1, InstanceFacts DEF NamesInv
    <3>3. p.name # current_id
      BY <1>5, <3>2
    <3>4. byid_'[p.name] = byid_[p.name] /\ instances'[byid_[p.name]] = instances[byid_[p.name]]
      BY <1>1, <1>4, <3>1, <3>2, <3>3
    <3>5. BagIn(<<r, instances[byid_[p.name]].type, p.index, p.name>>, byref_excl_)
      BY <1>3, <2>1 DEF NamesRegistered
    <3> QED BY <3>4, <3>5
  <2>2. CASE /\ p.name = current_id
             /\ \E i \in 1..Len(frames[1].items) :
                  /\ frames[1].items[i].kind \in {"ref", "list"}
                  /\ p.index = i - 1 /\ p.refs = frames[1].items[i].refs
    <3>1. PICK i \in 1..Len(frames[1].items) :
            /\ frames[1].items[i].kind \in {"ref", "list"}
            /\ p.index = i - 1 /\ p.refs = frames[1].items[i].refs
      BY <2>2
    <3>2. byid_'[p.name] = last /\ instances'[last].type = token_stream[3][2]
      BY <1>1, <1>4, <2>2
    <3>3. BagIn(<<r, token_stream[3][2], i - 1, current_id>>, byref_excl_)
      BY <3>1 DEF ItemsRegistered, Registered
    <3> QED BY <2>2, <3>1, <3>2, <3>3
  <2>3. \/ n \in 1..Len(references_to_resolve) /\ p = references_to_resolve[n]
        \/ /\ p.name = current_id
           /\ \E i \in 1..Len(frames[1].items) :
                /\ frames[1].items[i].kind \in {"ref", "list"}
                /\ p.index = i - 1 /\ p.refs = frames[1].items[i].refs
    BY DEF MadeOf
  <2> QED BY <2>1, <2>2, <2>3
<1>7. NamesRegistered'
  BY <1>6 DEF NamesRegistered
<1>8. ASSUME NEW n \in 1..Len(instances'), NEW i \in DOMAIN instances'[n].attr,
             NEW x \in instances'[n].attr[i]
      PROVE  BagIn(<<instances'[x].name, instances'[n].type, i, instances'[n].name>>, byref_excl_')
  <2>1. n \in 1..Len(instances)
    BY <1>1, <1>2
  <2>2. instances'[n] = instances[n]
    BY <1>1, <2>1
  <2>3. x \in 1..Len(instances)
    BY <2>1, <2>2 DEF InstanceTypes
  <2>4. instances'[x] = instances[x]
    BY <1>1, <2>3
  <2> QED BY <1>3, <2>1, <2>2, <2>4 DEF AttributesRegistered
<1>9. AttributesRegistered'
  BY <1>8 DEF AttributesRegistered
<1> QED BY <1>7, <1>9

LEMMA ReferencesOfResolved ==
  ASSUME InstanceTypes, ReferenceTypes, NamesInv,
         Unambiguous => NamesRegistered /\ AttributesRegistered,
         NEW m, NEW p, NEW found, ResolvedOf(m, p, found), UNCHANGED byref_excl_, Unambiguous'
  PROVE  NamesRegistered' /\ AttributesRegistered'
<1>1. /\ Len(instances') = Len(instances) /\ UNCHANGED byid_
      /\ \A n \in 1..Len(instances) :
           instances'[n].name = instances[n].name /\ instances'[n].type = instances[n].type
  BY DEF ResolvedOf
<1>2. Unambiguous
  BY <1>1 DEF Unambiguous
<1>3. ASSUME NEW n \in 1..Len(references_to_resolve'),
             NEW r \in references_to_resolve'[n].refs
      PROVE  BagIn(<<r, instances'[byid_'[references_to_resolve'[n].name]].type,
                     references_to_resolve'[n].index, references_to_resolve'[n].name>>,
                   byref_excl_')
  <2>1. PICK k \in 1..Len(references_to_resolve) :
          references_to_resolve'[n] = references_to_resolve[k]
    BY DEF ResolvedOf
  <2> DEFINE q == references_to_resolve[k]
  <2>2. q.name \in Names /\ byid_[q.name] # 0
    BY NamesToResolve DEF NamesInv
  <2>3. byid_[q.name] \in 1..Len(instances)
    BY <2>2, InstanceFacts
  <2>4. BagIn(<<r, instances[byid_[q.name]].type, q.index, q.name>>, byref_excl_)
    BY <1>2, <2>1 DEF NamesRegistered
  <2>5. instances'[byid_'[q.name]].type = instances[byid_[q.name]].type
    BY <1>1, <2>3
  <2> QED BY <2>1, <2>4, <2>5
<1>4. NamesRegistered'
  BY <1>3 DEF NamesRegistered
<1>5. ASSUME NEW n \in 1..Len(instances'), NEW i \in DOMAIN instances'[n].attr,
             NEW x \in instances'[n].attr[i]
      PROVE  BagIn(<<instances'[x].name, instances'[n].type, i, instances'[n].name>>, byref_excl_')
  <2>1. n \in 1..Len(instances) /\ i \in DOMAIN instances[n].attr
    BY <1>1 DEF ResolvedOf
  <2>2. CASE instances'[n].attr[i] = instances[n].attr[i]
    <3>1. x \in instances[n].attr[i] /\ x \in 1..Len(instances)
      BY <2>1, <2>2 DEF InstanceTypes
    <3>2. BagIn(<<instances[x].name, instances[n].type, i, instances[n].name>>, byref_excl_)
      BY <1>2, <2>1, <3>1 DEF AttributesRegistered
    <3> QED BY <1>1, <2>1, <3>1, <3>2
  <2>3. CASE n = m /\ i = p.index /\ instances'[n].attr[i] = found
    <3>1. /\ p = references_to_resolve[1] /\ m = byid_[p.name] /\ instances[m].name = p.name
          /\ 1 \in 1..Len(references_to_resolve) /\ x \in 1..Len(instances)
          /\ \E r \in p.refs : instances[x].name = r
      <4>1. /\ p = references_to_resolve[1] /\ m = byid_[p.name] /\ instances[m].name = p.name
            /\ 1 \in 1..Len(references_to_resolve) /\ found \in SUBSET (1..Len(instances))
            /\ \A y \in found : \E r \in p.refs : instances[y].name = r
        BY DEF ResolvedOf
      <4> QED BY <2>3, <4>1
    <3>2. PICK r \in p.refs : instances[x].name = r
      BY <3>1
    <3>3. BagIn(<<r, instances[m].type, p.index, p.name>>, byref_excl_)
      BY <1>2, <3>1 DEF NamesRegistered
    <3> QED BY <1>1, <2>1, <2>3, <3>1, <3>2, <3>3
  <2> QED BY <2>1, <2>2, <2>3 DEF ResolvedOf
<1>6. AttributesRegistered'
  BY <1>5 DEF AttributesRegistered
<1> QED BY <1>4, <1>6

LEMMA ReferencesKept ==
  ASSUME FileTypes, FileInv, WindowInv, LoadInv, CallTypes, InstanceTypes, ReferenceTypes,
         NamesInv, ReferencesInv, [Next]_vars
  PROVE  ReferencesInv'
<1>1. Loading' => ItemsRegistered'
  BY ItemsRegisteredKept DEF ReferencesInv, ReferenceTypes
<1>2. Unambiguous => NamesRegistered /\ AttributesRegistered
  BY DEF ReferencesInv
<1>3. CASE LoadInstance
  <2>1. ItemsRegistered /\ UNCHANGED byref_excl_
    BY <1>3 DEF LoadInstance, Loading, ReferencesInv
  <2>2. PICK made, last : MadeOf(made, last)
    BY <1>3, InstanceMade, Zenon
  <2>3. Unambiguous' => NamesRegistered' /\ AttributesRegistered'
    BY <1>2, <2>1, <2>2, ReferencesOfMade
  <2> QED BY <1>1, <2>3 DEF ReferencesInv
<1>4. CASE ResolveReference
  <2>1. UNCHANGED byref_excl_
    BY <1>4 DEF ResolveReference
  <2>2. PICK m, p, found : ResolvedOf(m, p, found)
    BY <1>4, InstanceResolved, Zenon
  <2>3. Unambiguous' => NamesRegistered' /\ AttributesRegistered'
    BY <1>2, <2>1, <2>2, ReferencesOfResolved
  <2> QED BY <1>1, <2>3 DEF ReferencesInv
<1>5. CASE UNCHANGED <<instances, byid_>> /\ (UNCHANGED references_to_resolve
                                              \/ references_to_resolve' = <<>>)
  <2>1. \A e : BagIn(e, byref_excl_) => BagIn(e, byref_excl_')
    BY BagKept DEF ReferenceTypes
  <2>2. Unambiguous' => Unambiguous
    BY <1>5 DEF Unambiguous
  <2>3. NamesRegistered => NamesRegistered'
    BY <1>5, <2>1 DEF NamesRegistered
  <2>4. AttributesRegistered => AttributesRegistered'
    BY <1>5, <2>1 DEF AttributesRegistered
  <2> QED BY <1>1, <1>2, <2>2, <2>3, <2>4 DEF ReferencesInv
<1>6. CASE ResolveEnd
  <2>1. UNCHANGED <<instances, byid_>> /\ references_to_resolve' = <<>>
    BY <1>6 DEF ResolveEnd, mapVars
  <2> QED BY <1>5, <2>1
<1>7. CASE ~LoadInstance /\ ~ResolveReference /\ ~ResolveEnd
  BY <1>5, <1>7, OthersKeep
<1> QED BY <1>3, <1>4, <1>6, <1>7

(***************************************************************************)
(* The invariant.                                                          *)
(***************************************************************************)
LEMMA InitialTypes ==
  ASSUME Init
  PROVE  Types
<1>1. FileTypes /\ WindowTypes /\ ControlTypes
  <2>1. FileTypes
    <3>1. <<>> \in Seq(Statements \cup {End}) /\ <<>> \in Seq(FileTokens) /\ 0 \in Nat
      OBVIOUS
    <3>2. statements = <<>> /\ part = 0 /\ input = <<>> /\ eof = FALSE
      BY DEF Init
    <3> QED BY <3>1, <3>2 DEF FileTypes
  <2>2. WindowTypes
    <3>1. None \in FileTokens \cup {None}
      OBVIOUS
    <3> QED BY <3>1, Tuples DEF Init, WindowTypes
  <2>3. ControlTypes
    BY DEF Init, ControlTypes
  <2> QED BY <2>1, <2>2, <2>3
<1>2. CallTypes
  BY DEF Init, CallTypes
<1>3. InstanceTypes
  BY DEF Init, InstanceTypes
<1>4. ReferenceTypes
  <2>1. IsABag(EmptyBag)
    BY DEF EmptyBag, SetToBag, IsABag
  <2> QED BY <2>1 DEF Init, ReferenceTypes
<1> QED BY <1>1, <1>2, <1>3, <1>4 DEF Types

LEMMA InitialInvariant == Init => IInv
<1> SUFFICES ASSUME Init
             PROVE  IInv
  OBVIOUS
<1>1. /\ statements = <<>> /\ part = 0 /\ input = <<>> /\ eof = FALSE
      /\ token_stream = <<None, None, None>> /\ pc = "scan" /\ good_ = "SUCCESS"
      /\ instances = <<>> /\ frames = <<>> /\ references_to_resolve = <<>>
      /\ byid_ = [k \in Names |-> 0]
  BY DEF Init
<1>2. Types
  BY InitialTypes
<1>3. ~InBeginning /\ ~Loading
  BY <1>1 DEF InBeginning, Loading
<1>4. FileInv
  BY <1>1, <1>3 DEF FileInv
<1>5. WindowInv
  BY <1>1, <1>3, TokensDiffer DEF WindowInv
<1>6. LoadInv
  BY <1>3 DEF LoadInv
<1>7. CountInv
  <2>1. KnownStatements = {}
    BY <1>1 DEF KnownStatements
  <2>2. Cardinality(KnownStatements) = 0
    BY <2>1, FS_EmptySet
  <2>3. ~Pending
    BY <1>1 DEF Pending
  <2>4. Len(instances) = 0
    BY <1>1
  <2> QED BY <1>1, <2>1, <2>2, <2>3, <2>4 DEF CountInv
<1>8. NamesInv
  BY <1>1 DEF NamesInv
<1>9. ReferencesInv
  BY <1>1, <1>3 DEF ReferencesInv, NamesRegistered, AttributesRegistered
<1> QED BY <1>2, <1>4, <1>5, <1>6, <1>7, <1>8, <1>9 DEF IInv

LEMMA InvariantKept == IInv /\ [Next]_vars => IInv'
<1> SUFFICES ASSUME IInv, [Next]_vars
             PROVE  IInv'
  OBVIOUS
<1>1. /\ FileTypes /\ WindowTypes /\ ControlTypes /\ CallTypes /\ InstanceTypes /\ ReferenceTypes
      /\ FileInv /\ WindowInv /\ LoadInv /\ CountInv /\ NamesInv /\ ReferencesInv
  BY DEF IInv, Types
<1>2. Types' /\ FileInv'
  BY TypesKept
<1>3. WindowInv'
  BY <1>1, WindowKept DEF WindowTypes
<1>4. LoadInv'
  BY <1>1, CallsKept DEF CallTypes
<1>5. CountInv'
  BY <1>1, CountKept
<1>6. NamesInv'
  BY <1>1, NamesKept
<1>7. ReferencesInv'
  BY <1>1, ReferencesKept
<1> QED BY <1>2, <1>3, <1>4, <1>5, <1>6, <1>7 DEF IInv

(* Every state of a run satisfies the invariant: its steps, one by one, keep *)
(* the types, the place in the file, the window, the calls of load(), the   *)
(* number of instances, the names and the registered references.           *)
THEOREM Invariance == Spec => []IInv
BY InitialInvariant, InvariantKept, PTL DEF Spec

LEMMA TypesAreOK ==
  ASSUME Types
  PROVE  TypeOK
<1>1. /\ eof \in BOOLEAN /\ Len(token_stream) = 3
      /\ pc \in {"scan", "advance", "open", "load", "resolve", "done", "thrown"}
      /\ good_ \in {"SUCCESS", "INVALID_SYNTAX"}
      /\ current_id \in Names \cup {0}
      /\ paren_stack_depth \in Int /\ attribute_index \in Int
      /\ (pc \in {"open", "load"}) = (frames # <<>>)
  BY DEF Types, FileTypes, WindowTypes, ControlTypes, CallTypes
<1>2. ASSUME NEW n \in 1..Len(instances)
      PROVE  /\ instances[n].name \in Names /\ instances[n].type \in Entities \ Abstract
             /\ \A i \in DOMAIN instances[n].attr :
                  i < Arity[instances[n].type] /\ instances[n].attr[i] \subseteq 1..Len(instances)
  BY InstanceFacts DEF Types, InstanceTypes
<1>3. /\ instance \in 0..Len(instances)
      /\ byid_ \in [Names -> 0..Len(instances)] /\ byguid_ \in [Guids -> 0..Len(instances)]
      /\ IsABag(byref_excl_) /\ MaxId \in Names \cup {0}
  BY DEF Types, InstanceTypes, ReferenceTypes
<1>4. ASSUME NEW n \in 1..Len(frames)
      PROVE  /\ frames[n].attribute \in Nat \cup {-1} /\ frames[n].index \in Nat
             /\ frames[n].typed \in BOOLEAN /\ frames[n].registers \in BOOLEAN
             /\ frames[n].items \in Seq(Items)
  <2>1. frames[n] \in Frames
    BY DEF Types, CallTypes
  <2> QED BY <2>1, FrameFacts
<1> QED BY <1>1, <1>2, <1>3, <1>4 DEF TypeOK

(* The types: the indices in the maps are those of instances that were made, *)
(* no instance is of an abstract entity, no attribute is past the last one.  *)
THEOREM TypeCorrect == Spec => []TypeOK
<1>1. IInv => TypeOK
  BY TypesAreOK DEF IInv
<1> QED BY <1>1, Invariance, PTL

(* The instances are those of the statements of entities, in their order,   *)
(* whatever stands between them, and a file read to its end lost none.      *)
THEOREM StaysInStep == Spec => []InStep
<1>1. ASSUME IInv
      PROVE  InStep
  <2>1. /\ Len(instances) \in {Cardinality(KnownStatements), Cardinality(KnownStatements) - 1}
        /\ pc # "thrown" /\ good_ = "SUCCESS" =>
             Len(instances) = Cardinality(KnownStatements) - IF Pending THEN 1 ELSE 0
        /\ \A n \in KnownStatements : Ordinal(n) <= Len(instances) =>
             /\ instances[Ordinal(n)].name = statements[n].name
             /\ instances[Ordinal(n)].type = statements[n].keyword
    BY <1>1 DEF IInv, CountInv
  <2>2. Cardinality(KnownStatements) \in Nat
    BY <1>1, KnownFacts DEF IInv, Types
  <2>3. Len(instances) <= Cardinality(KnownStatements)
    BY <2>1, <2>2
  <2>4. ASSUME Loaded, Complete
        PROVE  Len(instances) = Cardinality(KnownStatements)
    <3>1. ~Pending
      BY <2>4, EndFacts DEF Complete, Pending, Current
    <3> QED BY <2>1, <2>2, <2>4, <3>1 DEF Loaded
  <2> QED BY <2>1, <2>3, <2>4 DEF InStep
<1> QED BY <1>1, Invariance, PTL

(* When names are unique, every reference that was set in an attribute is   *)
(* found in byref_excl_ under the type and the position it was set at.      *)
THEOREM ReferencesListed == Spec => []ReferencesAreListed
<1>1. IInv => ReferencesAreListed
  BY DEF IInv, ReferencesInv, AttributesRegistered, ReferencesAreListed
<1> QED BY <1>1, Invariance, PTL

(* byid_[k] is an instance with the name k, every name that was read is in  *)
(* byid_, and so is that of every reference to resolve: the loop over them  *)
(* writes to an instance that is there.                                     *)
THEOREM NamesLead == Spec => []NamesInv
<1>1. IInv => NamesInv
  BY DEF IInv
<1> QED BY <1>1, Invariance, PTL

(***************************************************************************)
(* The tokens of a statement without a flaw.                               *)
(***************************************************************************)
(* The sequence of a set lists each of its elements once. *)
LEMMA SetListed ==
  ASSUME NEW S, IsFiniteSet(S)
  PROVE  /\ Cardinality(S) \in Nat
         /\ SetToSeq(S) \in [1..Cardinality(S) -> S]
         /\ \A i, j \in 1..Cardinality(S) : SetToSeq(S)[i] = SetToSeq(S)[j] => i = j
         /\ \A x \in S : \E i \in 1..Cardinality(S) : SetToSeq(S)[i] = x
<1> DEFINE c == Cardinality(S)
           f == SetToSeq(S)
<1>1. c \in Nat
  BY FS_CardinalityType
<1>2. PICK g : g \in Bijection(1..c, S)
  BY FS_CardinalityType DEF ExistsBijection
<1>3. g \in [1..c -> S] /\ IsInjective(g)
  BY <1>2 DEF Bijection, Injection, Surjection, IsInjective
<1>4. f \in [1..c -> S] /\ IsInjective(f)
  BY <1>3 DEF SetToSeq
<1> HIDE DEF f, c
<1>5. \A i, j \in 1..c : f[i] = f[j] => i = j
  BY <1>4 DEF IsInjective
<1>6. f \in Injection(1..c, S)
  BY <1>4, <1>5 DEF Injection
<1>7. Cardinality(1..c) = c
  BY <1>1, FS_Interval
<1>8. f \in Surjection(1..c, S)
  BY <1>6, <1>7, FS_Injection DEF c
<1>9. \A x \in S : \E i \in 1..c : f[i] = x
  BY <1>8 DEF Surjection
<1> QED BY <1>1, <1>4, <1>5, <1>9 DEF f, c

(* A list is a parenthesis, its names with commas between them, and a       *)
(* parenthesis.                                                            *)
LEMMA ListIs ==
  ASSUME NEW refs \in SUBSET Names
  PROVE  LET c == Cardinality(refs)
             names == SetToSeq(refs)
             tokens == ListTokens(refs)
         IN /\ c \in Nat /\ tokens \in Seq(FileTokens)
            /\ Len(tokens) = IF c = 0 THEN 2 ELSE 2 * c + 1
            /\ tokens[1] = LeftParen /\ tokens[Len(tokens)] = RightParen
            /\ \A k \in 1..c : tokens[2 * k] = Ident(names[k])
            /\ \A k \in 1..c-1 : tokens[2 * k + 1] = Comma
<1> DEFINE c == Cardinality(refs)
           names == SetToSeq(refs)
           inner == [n \in 1..2 * c - 1 |->
                      IF n % 2 = 1 THEN Ident(names[(n + 1) \div 2]) ELSE Comma]
           l == IF c = 0 THEN 0 ELSE 2 * c - 1
<1>1. c \in Nat /\ names \in [1..c -> refs]
  BY NamesAreFinite, FS_CardinalityType, SequenceOfSet
<1>2. l \in Nat /\ 1..2 * c - 1 = 1..l
  BY <1>1
<1>3. \A n \in 1..l : inner[n] \in FileTokens
  <2> TAKE n \in 1..l
  <2>1. n \in 1..2 * c - 1
    BY <1>2
  <2>2. CASE n % 2 = 1
    <3>1. (n + 1) \div 2 \in 1..c
      BY <1>1, <2>1
    <3>2. names[(n + 1) \div 2] \in Names
      BY <1>1, <3>1
    <3>3. inner[n] = Ident(names[(n + 1) \div 2])
      BY <2>1, <2>2
    <3> QED BY <3>2, <3>3, TokenFacts
  <2>3. CASE n % 2 # 1
    BY <2>1, <2>3, TokenFacts
  <2> QED BY <2>2, <2>3
<1>4. inner \in [1..l -> FileTokens]
  <2>1. inner = [n \in 1..l |-> inner[n]]
    BY <1>2
  <2> HIDE DEF inner
  <2> QED BY <1>3, <2>1
<1>5. \A k \in 1..c : 2 * k - 1 \in 1..l /\ inner[2 * k - 1] = Ident(names[k])
  <2> TAKE k \in 1..c
  <2>1. 2 * k - 1 \in 1..2 * c - 1 /\ (2 * k - 1) % 2 = 1 /\ (2 * k - 1 + 1) \div 2 = k
    BY <1>1
  <2> QED BY <1>2, <2>1
<1>6. \A k \in 1..c-1 : 2 * k \in 1..l /\ inner[2 * k] = Comma
  <2> TAKE k \in 1..c-1
  <2>1. 2 * k \in 1..2 * c - 1 /\ (2 * k) % 2 # 1
    BY <1>1
  <2> QED BY <1>2, <2>1
<1>7. ListTokens(refs) = <<LeftParen>> \o inner \o <<RightParen>>
  BY DEF ListTokens
<1> HIDE DEF inner, names
<1>8. inner \in Seq(FileTokens) /\ Len(inner) = l
  BY <1>2, <1>4, SequenceOf
<1> HIDE DEF l
<1>9. /\ <<LeftParen>> \o inner \in Seq(FileTokens) /\ Len(<<LeftParen>> \o inner) = l + 1
      /\ (<<LeftParen>> \o inner)[1] = LeftParen
      /\ \A n \in 1..l : (<<LeftParen>> \o inner)[n + 1] = inner[n]
  BY <1>2, <1>8, TokenFacts
<1> DEFINE head == <<LeftParen>> \o inner
<1> HIDE DEF head
<1>10. /\ head \o <<RightParen>> \in Seq(FileTokens) /\ Len(head \o <<RightParen>>) = l + 2
       /\ (head \o <<RightParen>>)[l + 2] = RightParen
       /\ \A n \in 1..l + 1 : (head \o <<RightParen>>)[n] = head[n]
  BY <1>2, <1>9, TokenFacts DEF head
<1> DEFINE tokens == ListTokens(refs)
<1>11. tokens = head \o <<RightParen>>
  BY <1>7 DEF head
<1> HIDE DEF tokens
<1>12. /\ tokens \in Seq(FileTokens) /\ Len(tokens) = l + 2
       /\ tokens[1] = LeftParen /\ tokens[l + 2] = RightParen
       /\ \A n \in 1..l : tokens[n + 1] = inner[n]
  <2>1. /\ tokens \in Seq(FileTokens) /\ Len(tokens) = l + 2 /\ tokens[l + 2] = RightParen
        /\ \A n \in 1..l + 1 : tokens[n] = head[n]
    BY <1>10, <1>11
  <2>2. \A n \in 1..l : n + 1 \in 1..l + 1
    BY <1>2
  <2>3. 1 \in 1..l + 1
    BY <1>2
  <2> QED BY <1>9, <2>1, <2>2, <2>3 DEF head
<1>13. \A k \in 1..c : tokens[2 * k] = Ident(names[k])
  <2> TAKE k \in 1..c
  <2>1. 2 * k - 1 \in 1..l /\ 2 * k - 1 + 1 = 2 * k
    BY <1>1, <1>5
  <2>2. tokens[2 * k - 1 + 1] = inner[2 * k - 1]
    BY <1>12, <2>1
  <2> QED BY <1>5, <2>1, <2>2
<1>14. \A k \in 1..c-1 : tokens[2 * k + 1] = Comma
  BY <1>6, <1>12
<1>15. Len(tokens) = IF c = 0 THEN 2 ELSE 2 * c + 1
  BY <1>1, <1>12 DEF l
<1> QED BY <1>1, <1>12, <1>13, <1>14, <1>15 DEF tokens, names

(* Each step of an inner call through a list goes to the next of its        *)
(* tokens: a name that was not read yet, a comma, or, when all were read,   *)
(* the parenthesis that ends it.                                           *)
LEMMA ListBegins ==
  ASSUME NEW refs \in SUBSET Names
  PROVE  /\ Head(ListTokens(refs)) = LeftParen
         /\ InList(refs, <<>>, Tail(ListTokens(refs)))
<1> DEFINE c == Cardinality(refs)
           tokens == ListTokens(refs)
           rest == Tail(tokens)
<1>1. /\ c \in Nat /\ tokens \in Seq(FileTokens) /\ Len(tokens) >= 2
      /\ tokens[1] = LeftParen
  <2>1. /\ c \in Nat /\ tokens \in Seq(FileTokens) /\ tokens[1] = LeftParen
        /\ Len(tokens) = IF c = 0 THEN 2 ELSE 2 * c + 1
    BY ListIs, Zenon
  <2> HIDE DEF c, tokens
  <2> QED BY <2>1
<1> HIDE DEF tokens
<1>2. tokens # <<>>
  BY <1>1
<1>3. /\ Head(tokens) = LeftParen /\ Len(rest) = Len(tokens) - 1 /\ Len(tokens) \in Nat
      /\ \A n \in 1..Len(tokens) - 1 : rest[n] = tokens[n + 1]
  BY <1>1, <1>2, TailOf
<1> HIDE DEF rest
<1>4. Len(<<>>) = 0 /\ 1 \in 1..Len(tokens)
  BY <1>1, <1>3
<1>5. \A n \in 1..Len(rest) : rest[n] = tokens[1 + n]
  BY <1>3
<1>6. InList(refs, <<>>, rest)
  BY <1>1, <1>3, <1>4, <1>5 DEF InList, tokens
<1> QED BY <1>3, <1>6 DEF tokens, rest

LEMMA ListGoesOn ==
  ASSUME NEW refs \in SUBSET Names, NEW items \in Seq(Items), NEW rest \in Seq(FileTokens),
         rest # <<>>, InList(refs, items, rest)
  PROVE  LET c == Cardinality(refs)
             names == SetToSeq(refs)
         IN \/ /\ Len(items) < c /\ Head(rest) = Ident(names[Len(items) + 1])
               /\ InList(refs, Append(items, [kind |-> "ref", refs |-> {names[Len(items) + 1]}]),
                         Tail(rest))
            \/ Head(rest) = Comma /\ InList(refs, items, Tail(rest))
            \/ Head(rest) = RightParen /\ Len(items) = c
<1> DEFINE names == SetToSeq(refs)
           tokens == ListTokens(refs)
<1>1. /\ Cardinality(refs) \in Nat /\ tokens \in Seq(FileTokens)
      /\ Len(tokens) = IF Cardinality(refs) = 0 THEN 2 ELSE 2 * Cardinality(refs) + 1
      /\ tokens[Len(tokens)] = RightParen
      /\ \A k \in 1..Cardinality(refs) : tokens[2 * k] = Ident(names[k])
      /\ \A k \in 1..Cardinality(refs)-1 : tokens[2 * k + 1] = Comma
  BY ListIs
<1>2. PICK c \in Nat, l \in Nat, d \in Nat :
        c = Cardinality(refs) /\ l = Len(tokens) /\ d = Len(items)
  BY <1>1
<1>3. PICK read \in 1..l :
        /\ Len(rest) = l - read /\ 2 * d \in {read, read - 1} /\ d <= c
        /\ \A n \in 1..Len(rest) : rest[n] = tokens[read + n]
        /\ \A n \in 1..d : items[n] = [kind |-> "ref", refs |-> {names[n]}]
  BY <1>2 DEF InList
<1>4. /\ names \in [1..c -> refs]
      /\ l = IF c = 0 THEN 2 ELSE 2 * c + 1
      /\ tokens[l] = RightParen
      /\ \A k \in 1..c : tokens[2 * k] = Ident(names[k])
      /\ \A k \in 1..c-1 : tokens[2 * k + 1] = Comma
  BY <1>1, <1>2, SetListed, NamesAreFinite
<1>5. /\ Len(rest) \in Nat /\ Len(rest) > 0 /\ Head(rest) = rest[1]
      /\ Len(Tail(rest)) = Len(rest) - 1
      /\ \A n \in 1..Len(rest) - 1 : Tail(rest)[n] = rest[n + 1]
  BY TailOf
<1> HIDE DEF tokens, names
<1>6. /\ read + 1 \in 1..l /\ Head(rest) = tokens[read + 1]
      /\ Len(Tail(rest)) = l - (read + 1)
  BY <1>3, <1>5
<1>7. \A n \in 1..Len(Tail(rest)) : Tail(rest)[n] = tokens[(read + 1) + n]
  <2> TAKE n \in 1..Len(Tail(rest))
  <2>1. Len(rest) \in Nat /\ Len(Tail(rest)) = Len(rest) - 1
    BY <1>5
  <2>2. n \in 1..Len(rest) - 1 /\ n + 1 \in 1..Len(rest) /\ read + (n + 1) = (read + 1) + n
    BY <2>1
  <2>3. Tail(rest)[n] = rest[n + 1]
    BY <1>5, <2>2
  <2>4. rest[n + 1] = tokens[read + (n + 1)]
    BY <1>3, <2>2
  <2> QED BY <2>2, <2>3, <2>4
<1>8. CASE read + 1 = l
  <2>1. d = c
    BY <1>3, <1>4, <1>8
  <2>2. Head(rest) = RightParen
    BY <1>4, <1>6, <1>8
  <2> QED BY <1>2, <2>1, <2>2
<1>9. CASE read + 1 # l /\ 2 * d = read
  <2>1. d \in 1..c-1 /\ read + 1 = 2 * d + 1
    BY <1>3, <1>4, <1>6, <1>9
  <2>2. Head(rest) = Comma
    BY <1>4, <1>6, <2>1
  <2>3. 2 * d = (read + 1) - 1
    BY <1>9
  <2>4. InList(refs, items, Tail(rest))
    BY <1>2, <1>3, <1>6, <1>7, <2>3 DEF InList, tokens, names
  <2> QED BY <2>2, <2>4
<1>10. CASE read + 1 # l /\ 2 * d = read - 1
  <2> DEFINE more == Append(items, [kind |-> "ref", refs |-> {names[d + 1]}])
  <2>1. d + 1 \in 1..c /\ read + 1 = 2 * (d + 1) /\ d < c
    BY <1>3, <1>4, <1>6, <1>10
  <2>2. Head(rest) = Ident(names[d + 1])
    BY <1>4, <1>6, <2>1
  <2>3. names[d + 1] \in Names
    BY <1>4, <2>1
  <2>4. [kind |-> "ref", refs |-> {names[d + 1]}] \in Items
    BY <2>3, NewItems
  <2>5. /\ Len(more) = d + 1
        /\ \A n \in 1..d : more[n] = items[n]
        /\ more[d + 1] = [kind |-> "ref", refs |-> {names[d + 1]}]
    BY <1>2, <2>4, Appended
  <2> HIDE DEF more
  <2>6. 2 * Len(more) = read + 1 /\ Len(more) <= c
    BY <2>1, <2>5
  <2>7. \A n \in 1..Len(more) : more[n] = [kind |-> "ref", refs |-> {names[n]}]
    <3> TAKE n \in 1..Len(more)
    <3>1. n \in 1..d \/ n = d + 1
      BY <2>5
    <3> QED BY <1>3, <2>5, <3>1
  <2>8. InList(refs, more, Tail(rest))
    BY <1>2, <1>6, <1>7, <2>6, <2>7 DEF InList, tokens, names
  <2> QED BY <1>2, <2>1, <2>2, <2>8 DEF more, names
<1> QED BY <1>3, <1>8, <1>9, <1>10

(* The names that were read are those of the list when it ends, and the     *)
(* next is none of them.                                                   *)
LEMMA ListNames ==
  ASSUME NEW refs \in SUBSET Names, NEW items \in Seq(Items), NEW rest, InList(refs, items, rest)
  PROVE  LET c == Cardinality(refs)
             names == SetToSeq(refs)
         IN /\ c \in Nat /\ \A n \in 1..Len(items) : items[n].kind = "ref"
            /\ Len(items) < c => /\ names[Len(items) + 1] \in refs
                                 /\ \A n \in 1..Len(items) : items[n].refs # {names[Len(items) + 1]}
            /\ \A n \in 1..Len(items) : items[n].refs \subseteq refs
            /\ Len(items) = c => \A k \in refs : \E n \in 1..Len(items) : items[n].refs = {k}
<1> DEFINE c == Cardinality(refs)
           names == SetToSeq(refs)
           d == Len(items)
<1>1. /\ c \in Nat /\ names \in [1..c -> refs]
      /\ \A i, j \in 1..c : names[i] = names[j] => i = j
      /\ \A x \in refs : \E i \in 1..c : names[i] = x
  BY SetListed, NamesAreFinite
<1>2. /\ d <= c
      /\ \A n \in 1..d : items[n] = [kind |-> "ref", refs |-> {names[n]}]
  BY DEF InList
<1>11. d \in Nat
  OBVIOUS
<1> HIDE DEF c, names, d
<1>12. \A n \in 1..d : n \in 1..c
  BY <1>1, <1>2, <1>11
<1>3. \A n \in 1..d : items[n].kind = "ref" /\ items[n].refs = {names[n]} /\ n \in 1..c
  <2> TAKE n \in 1..d
  <2>1. items[n] = [kind |-> "ref", refs |-> {names[n]}]
    BY <1>2
  <2> DEFINE item == [kind |-> "ref", refs |-> {names[n]}]
  <2>2. item.kind = "ref" /\ item.refs = {names[n]}
    OBVIOUS
  <2> HIDE DEF item
  <2> QED BY <1>12, <2>1, <2>2, Zenon DEF item
<1>4. ASSUME d < c
      PROVE  names[d + 1] \in refs /\ \A n \in 1..d : items[n].refs # {names[d + 1]}
  <2>1. d + 1 \in 1..c
    BY <1>1, <1>2, <1>11, <1>4
  <2>2. names[d + 1] \in refs
    BY <1>1, <2>1
  <2>3. ASSUME NEW n \in 1..d
        PROVE  names[n] # names[d + 1]
    BY <1>1, <1>2, <1>11, <1>3, <2>1
  <2> QED BY <1>3, <2>2, <2>3
<1>5. \A n \in 1..d : items[n].refs \subseteq refs
  BY <1>1, <1>3
<1>6. ASSUME d = c, NEW k \in refs
      PROVE  \E n \in 1..d : items[n].refs = {k}
  BY <1>1, <1>3, <1>6
<1> QED BY <1>1, <1>3, <1>4, <1>5, <1>6 DEF c, names, d

(* The tokens of each kind of argument                                     *)
LEMMA ArgumentKinds ==
  ASSUME NEW a \in Arguments, a.kind # "bad"
  PROVE  \/ a.kind = "$" /\ ArgumentTokens(a) = <<Dollar>>
         \/ a.kind = "string" /\ a.guid \in Guids /\ ArgumentTokens(a) = <<Text(a.guid)>>
         \/ /\ a.kind = "ref"
            /\ \E k \in Names : a.refs = {k} /\ ArgumentTokens(a) = <<Ident(k)>>
         \/ a.kind = "list" /\ a.refs \in SUBSET Names /\ ArgumentTokens(a) = ListTokens(a.refs)
         \/ /\ a.kind = "typed" /\ a.keyword \in STRING \ Entities
            /\ a.arg.kind # "bad" =>
                 \E k \in Names :
                   ArgumentTokens(a) = <<Keyword(a.keyword), LeftParen, Ident(k), RightParen>>
<1>1. CASE a \in [kind : {"$", "bad"}]
  BY <1>1 DEF ArgumentTokens, SimpleTokens
<1>2. CASE a \in [kind : {"string"}, guid : Guids]
  BY <1>2 DEF ArgumentTokens, SimpleTokens
<1>3. CASE a \in [kind : {"ref"}, refs : {{k} : k \in Names}]
  <2>1. PICK k \in Names : a.refs = {k}
    BY <1>3
  <2>2. a.kind = "ref" /\ (CHOOSE j \in a.refs : TRUE) = k
    BY <1>3, <2>1
  <2>3. ArgumentTokens(a) = <<Ident(k)>>
    BY <2>2 DEF ArgumentTokens, SimpleTokens
  <2> QED BY <2>1, <2>2, <2>3
<1>4. CASE a \in [kind : {"list"}, refs : SUBSET Names]
  BY <1>4 DEF ArgumentTokens, SimpleTokens
<1>5. CASE a \in [kind : {"typed"}, keyword : STRING \ Entities,
                  arg : [kind : {"ref"}, refs : {{k} : k \in Names}] \cup [kind : {"bad"}]]
  <2>1. a.kind = "typed" /\ a.keyword \in STRING \ Entities
    BY <1>5
  <2>2. ASSUME a.arg.kind # "bad"
        PROVE  \E k \in Names :
                 ArgumentTokens(a) = <<Keyword(a.keyword), LeftParen, Ident(k), RightParen>>
    <3>1. a.arg \in [kind : {"ref"}, refs : {{k} : k \in Names}]
      BY <1>5, <2>2
    <3>2. PICK k \in Names : a.arg.refs = {k}
      BY <3>1
    <3>3. a.arg.kind = "ref" /\ (CHOOSE j \in a.arg.refs : TRUE) = k
      BY <3>1, <3>2
    <3>4. SimpleTokens(a.arg) = <<Ident(k)>>
      BY <3>3 DEF SimpleTokens
    <3>5. ArgumentTokens(a) = <<Keyword(a.keyword), LeftParen>> \o <<Ident(k)>> \o <<RightParen>>
      BY <2>1, <3>4 DEF ArgumentTokens
    <3> QED BY <3>5, FourTokens
  <2> QED BY <2>1, <2>2
<1> QED BY <1>1, <1>2, <1>3, <1>4, <1>5 DEF Arguments

(* No token of a statement without a flaw is invalid.                      *)
LEMMA NoBadIn ==
  ASSUME NEW a, NEW b, NEW c, NEW d, a # Bad, b # Bad, c # Bad, d # Bad
  PROVE  NoBad(<<a>>) /\ NoBad(<<a, b>>) /\ NoBad(<<a, b, c>>) /\ NoBad(<<a, b, c, d>>)
BY DEF NoBad

LEMMA NoBadRest ==
  ASSUME NEW tokens \in Seq(FileTokens), tokens # <<>>, NoBad(tokens)
  PROVE  Head(tokens) # Bad /\ NoBad(Tail(tokens))
<1>1. /\ Len(Tail(tokens)) = Len(tokens) - 1 /\ Len(tokens) \in Nat /\ Len(tokens) > 0
      /\ \A i \in 1..Len(tokens) - 1 : Tail(tokens)[i] = tokens[i + 1]
      /\ Head(tokens) = tokens[1]
  BY TailOf
<1>2. Head(tokens) # Bad
  BY <1>1 DEF NoBad
<1>3. ASSUME NEW n \in 1..Len(Tail(tokens))
      PROVE  Tail(tokens)[n] # Bad
  <2>1. n \in 1..Len(tokens) - 1 /\ n + 1 \in 1..Len(tokens)
    BY <1>1
  <2> QED BY <1>1, <2>1 DEF NoBad
<1> QED BY <1>2, <1>3 DEF NoBad

LEMMA BadDiffers ==
  /\ Dollar # Bad /\ Comma # Bad /\ LeftParen # Bad /\ RightParen # Bad /\ Semicolon # Bad
  /\ Equals # Bad /\ EndSection # Bad /\ EndExchange # Bad
  /\ \A w : Keyword(w) # Bad
  /\ \A k : Ident(k) # Bad
  /\ \A g : Text(g) # Bad
BY TokenKinds

LEMMA ListNoBad ==
  ASSUME NEW refs \in SUBSET Names
  PROVE  NoBad(ListTokens(refs))
<1>1. PICK c \in Nat : c = Cardinality(refs)
  BY ListIs
<1> DEFINE names == SetToSeq(refs)
           tokens == ListTokens(refs)
<1>2. /\ Len(tokens) = IF c = 0 THEN 2 ELSE 2 * c + 1
      /\ tokens[1] = LeftParen /\ tokens[Len(tokens)] = RightParen
      /\ \A k \in 1..c : tokens[2 * k] = Ident(names[k])
      /\ \A k \in 1..c-1 : tokens[2 * k + 1] = Comma
  BY <1>1, ListIs
<1> HIDE DEF tokens, names
<1>3. ASSUME NEW n \in 1..Len(tokens)
      PROVE  \/ n = 1 \/ n = Len(tokens)
             \/ \E k \in 1..c : n = 2 * k
             \/ \E k \in 1..c-1 : n = 2 * k + 1
  <2>1. CASE c = 0
    BY <1>2, <1>3, <2>1
  <2>2. CASE c # 0
    <3>1. n \in 1..2 * c + 1 /\ Len(tokens) = 2 * c + 1
      BY <1>2, <2>2
    <3>2. n = 2 * (n \div 2) \/ n = 2 * (n \div 2) + 1
      BY <3>1
    <3>3. n \div 2 \in Int
      BY <3>1
    <3>4. PICK h \in Int : h = n \div 2
      BY <3>3
    <3>5. n = 2 * h \/ n = 2 * h + 1
      BY <3>2, <3>4
    <3>6. n = 2 * h => h \in 1..c
      BY <3>1
    <3>7. n = 2 * h + 1 => n = 1 \/ n = 2 * c + 1 \/ h \in 1..c-1
      BY <3>1
    <3> QED BY <3>1, <3>5, <3>6, <3>7
  <2> QED BY <2>1, <2>2
<1>4. ASSUME NEW n \in 1..Len(tokens)
      PROVE  tokens[n] # Bad
  BY <1>2, <1>3, BadDiffers
<1> QED BY <1>4 DEF NoBad, tokens

LEMMA ArgumentNoBad ==
  ASSUME NEW a \in Arguments, a.kind # "bad", a.kind = "typed" => a.arg.kind # "bad"
  PROVE  NoBad(ArgumentTokens(a))
<1>1. \/ \E t \in {Dollar} \cup {Text(g) : g \in Guids} \cup {Ident(k) : k \in Names} :
           ArgumentTokens(a) = <<t>>
      \/ \E refs \in SUBSET Names : ArgumentTokens(a) = ListTokens(refs)
      \/ \E w, k : ArgumentTokens(a) = <<Keyword(w), LeftParen, Ident(k), RightParen>>
  BY ArgumentKinds
<1>2. ASSUME NEW t \in {Dollar} \cup {Text(g) : g \in Guids} \cup {Ident(k) : k \in Names}
      PROVE  NoBad(<<t>>)
  BY BadDiffers, NoBadIn
<1>3. ASSUME NEW w, NEW k
      PROVE  NoBad(<<Keyword(w), LeftParen, Ident(k), RightParen>>)
  BY BadDiffers, NoBadIn
<1> QED BY <1>1, <1>2, <1>3, ListNoBad

LEMMA SoundTokens ==
  ASSUME NEW s \in Statements, Regular(s), NEW n \in 0..LastPart(s)
  PROVE  NoBad(Tokens(s, n))
<1>1. s # End /\ s.args \in Seq(Arguments) /\ Len(s.args) \in Nat /\ LastPart(s) = Len(s.args) + 1
  BY StatementFacts DEF LastPart
<1>2. CASE n = 0
  <2>1. Tokens(s, 0) = <<Ident(s.name), Equals, Keyword(s.keyword), LeftParen>>
    BY BeginningForm
  <2>2. NoBad(<<Ident(s.name), Equals, Keyword(s.keyword), LeftParen>>)
    BY BadDiffers, NoBadIn
  <2> QED BY <1>2, <2>1, <2>2
<1>3. CASE n \in 1..Len(s.args)
  <2>1. s.args[n] \in Arguments
    BY <1>1, <1>3
  <2>2. NoBad(ArgumentTokens(s.args[n]))
    BY <1>3, <2>1, ArgumentNoBad DEF Regular
  <2>3. CASE n = 1
    BY <1>3, <2>2, <2>3, PartForm
  <2>4. CASE n # 1
    <3> DEFINE tokens == Tokens(s, n)
    <3>1. /\ tokens \in Seq(PlainTokens) /\ tokens # <<>>
          /\ Head(tokens) = Comma /\ Tail(tokens) = ArgumentTokens(s.args[n])
      BY <1>3, <2>4, PartForm
    <3> HIDE DEF tokens
    <3>2. /\ Len(Tail(tokens)) = Len(tokens) - 1 /\ Len(tokens) \in Nat /\ Head(tokens) = tokens[1]
          /\ \A i \in 1..Len(tokens) - 1 : Tail(tokens)[i] = tokens[i + 1]
      BY <3>1, TailOf
    <3>3. NoBad(Tail(tokens))
      BY <2>2, <3>1
    <3>4. ASSUME NEW i \in 1..Len(tokens)
          PROVE  tokens[i] # Bad
      <4>1. CASE i = 1
        BY <3>1, <3>2, <4>1, BadDiffers
      <4>2. CASE i # 1
        <5>1. i - 1 \in 1..Len(tokens) - 1 /\ (i - 1) + 1 = i
          BY <3>2, <4>2
        <5>2. Tail(tokens)[i - 1] # Bad
          BY <3>2, <3>3, <5>1 DEF NoBad
        <5> QED BY <3>2, <5>1, <5>2
      <4> QED BY <4>1, <4>2
    <3> QED BY <3>4 DEF NoBad, tokens
  <2> QED BY <2>3, <2>4
<1>4. CASE n = Len(s.args) + 1
  <2>1. Tokens(s, n) = <<RightParen, Semicolon>>
    BY <1>1, <1>4 DEF Tokens
  <2>2. NoBad(<<RightParen, Semicolon>>)
    BY BadDiffers, NoBadIn
  <2> QED BY <2>1, <2>2
<1> QED BY <1>1, <1>2, <1>3, <1>4

(* The lexer returns no invalid token as long as the file has no flaw.     *)
LEMMA SoundLex ==
  ASSUME FileTypes, FileInv, NoBad(input), FlawlessSoFar', NEW t, Lex(t)
  PROVE  t # Bad /\ NoBad(input')
<1>1. CASE t = None /\ input' = input
  BY <1>1, TokensDiffer DEF NoBad
<1>2. CASE Continues(t)
  BY <1>2, NoBadRest DEF Continues, FileTypes
<1>3. CASE BeginsPart(t)
  <2>1. /\ statements # <<>> /\ Current \in Statements /\ part < LastPart(Current)
        /\ part' = part + 1 /\ UNCHANGED statements
        /\ t = Head(Tokens(Current, part')) /\ input' = Tail(Tokens(Current, part'))
    BY <1>3 DEF BeginsPart
  <2>2. Len(statements) \in Nat \ {0} /\ Current = statements[Len(statements)] /\ Current # End
    BY <2>1, CurrentStatement, StatementFacts
  <2>3. Regular(Current)
    <3>1. \A n \in 1..Len(statements) : statements[n] # End => Regular(statements[n])
      BY <2>1 DEF FlawlessSoFar, Regular
    <3>2. Len(statements) \in 1..Len(statements)
      BY <2>2
    <3> QED BY <2>2, <3>1, <3>2
  <2>4. part' \in 0..LastPart(Current)
    BY <2>1, <2>2, StatementFacts DEF FileTypes, LastPart
  <2>5. Tokens(Current, part') \in Seq(FileTokens) /\ Tokens(Current, part') # <<>>
    BY <2>1, <2>4, TokensFacts
  <2>6. NoBad(Tokens(Current, part'))
    BY <2>1, <2>3, <2>4, SoundTokens
  <2> QED BY <2>1, <2>5, <2>6, NoBadRest
<1>4. ASSUME NEW s \in Statements \cup {End}, BeginsStatement(t, s)
      PROVE  t # Bad /\ NoBad(input')
  <2>1. t = Head(Tokens(s, 0)) /\ input' = Tail(Tokens(s, 0))
    BY <1>4 DEF BeginsStatement
  <2>2. CASE s = End
    <3>1. Tokens(s, 0) = <<EndSection, Semicolon, EndExchange, Semicolon>>
      BY <2>2 DEF Tokens, Trailer
    <3>2. NoBad(<<EndSection, Semicolon, EndExchange, Semicolon>>)
      BY BadDiffers, NoBadIn
    <3>3. <<EndSection, Semicolon, EndExchange, Semicolon>> \in Seq(FileTokens)
          /\ <<EndSection, Semicolon, EndExchange, Semicolon>> # <<>>
      BY TokenFacts, Tuples
    <3> QED BY <2>1, <3>1, <3>2, <3>3, NoBadRest
  <2>3. CASE s # End
    <3>1. s \in Statements /\ t = Ident(s.name)
          /\ input' = <<Equals, Keyword(s.keyword), LeftParen>>
      BY <2>1, <2>3, BeginningForm
    <3> QED BY <3>1, BadDiffers, NoBadIn
  <2> QED BY <2>2, <2>3
<1> QED BY <1>1, <1>2, <1>3, <1>4, LexSteps

(* A token that is not invalid is none of an invalid kind.                 *)
LEMMA SoundToken ==
  ASSUME NEW t \in FileTokens \cup {None}, t # Bad
  PROVE  t[1] # "bad"
<1>1. CASE t \in {Equals, LeftParen, RightParen, Comma, Semicolon, Dollar, EndSection,
                  EndExchange, None}
  BY <1>1, TokenKinds
<1>2. CASE t \in ({"keyword"} \X STRING) \cup ({"ident"} \X Names) \cup ({"string"} \X Guids)
  BY <1>2
<1> QED BY <1>1, <1>2 DEF FileTokens

(***************************************************************************)
(* A file without a flaw had none before.                                  *)
(***************************************************************************)
LEMMA LexOrStay ==
  ASSUME [Next]_vars
  PROVE  UNCHANGED fileVars \/ \E t : Lex(t)
<1>1. CASE Scan
  BY <1>1 DEF Scan, ScanInstance, ScanUnknown, ScanReference, ScanOther, Advance, ScanEnd
<1>2. CASE LoadBegin
  BY <1>2 DEF LoadBegin
<1>3. CASE LoadComma
  BY <1>3 DEF LoadComma
<1>4. CASE LoadOpen
  BY <1>4 DEF LoadOpen
<1>5. CASE LoadReference
  BY <1>5 DEF LoadReference
<1>6. CASE LoadValue
  BY <1>6 DEF LoadValue
<1>7. CASE LoadTyped
  BY <1>7 DEF LoadTyped
<1>8. CASE LoadThrows
  BY <1>8 DEF LoadThrows
<1>9. CASE LoadReturn
  BY <1>9 DEF LoadReturn
<1>10. CASE LoadInstance
  BY <1>10 DEF LoadInstance
<1>11. CASE LoadAbstract
  BY <1>11 DEF LoadAbstract
<1>12. CASE ResolveReference \/ ResolveEnd
  BY <1>12 DEF ResolveReference, ResolveEnd
<1>13. CASE Terminated \/ UNCHANGED vars
  BY <1>13 DEF Terminated, vars
<1> QED BY <1>1, <1>2, <1>3, <1>4, <1>5, <1>6, <1>7, <1>8, <1>9, <1>10, <1>11, <1>12, <1>13
        DEF Next, Load

(* What was read stays, and nothing is read after the end.                 *)
LEMMA FileGrows ==
  ASSUME FileTypes, FileInv, UNCHANGED fileVars \/ \E t : Lex(t)
  PROVE  /\ Len(statements) \in Nat /\ Len(statements') \in Nat
         /\ Len(statements) <= Len(statements')
         /\ \A n \in 1..Len(statements) : statements'[n] = statements[n]
         /\ eof => UNCHANGED fileVars
<1>1. Len(statements) \in Nat
  BY DEF FileTypes
<1>2. CASE UNCHANGED fileVars
  BY <1>1, <1>2 DEF fileVars
<1>3. ASSUME NEW t, Lex(t)
      PROVE  /\ Len(statements') \in Nat /\ Len(statements) <= Len(statements')
             /\ \A n \in 1..Len(statements) : statements'[n] = statements[n]
             /\ eof => UNCHANGED fileVars
  <2>1. eof => UNCHANGED fileVars
    BY <1>3 DEF Lex, fileVars
  <2>2. CASE UNCHANGED statements
    BY <1>1, <2>1, <2>2
  <2>3. ASSUME NEW s \in Statements \cup {End}, BeginsStatement(t, s), eof' \in BOOLEAN
        PROVE  /\ Len(statements') = Len(statements) + 1
               /\ \A n \in 1..Len(statements) : statements'[n] = statements[n]
    BY <2>3, BeginsStatementKeepsFile
  <2>4. UNCHANGED statements
        \/ \E s \in Statements \cup {End} : BeginsStatement(t, s) /\ eof' \in BOOLEAN
    BY <1>3, LexSteps DEF Continues, BeginsPart
  <2>5. ASSUME NEW s \in Statements \cup {End}, BeginsStatement(t, s), eof' \in BOOLEAN
        PROVE  /\ Len(statements') \in Nat /\ Len(statements) <= Len(statements')
               /\ \A n \in 1..Len(statements) : statements'[n] = statements[n]
    BY <1>1, <2>3, <2>5
  <2> QED BY <2>1, <2>2, <2>4, <2>5
<1> QED BY <1>1, <1>2, <1>3

LEMMA SoundIsFlawless ==
  ASSUME FileTypes, Sound
  PROVE  /\ FlawlessSoFar /\ Complete
         /\ Len(statements) \in Nat \ {0} /\ statements[Len(statements)] = End
<1>1. Complete /\ statements # <<>> /\ Last(statements) = End
  BY DEF Sound, Complete
<1>2. Len(statements) \in Nat \ {0} /\ statements[Len(statements)] = End
  BY <1>1 DEF FileTypes, Last
<1>3. ASSUME NEW n \in 1..Len(statements), statements[n] # End
      PROVE  n \in 1..Len(statements)-1
  BY <1>2, <1>3
<1>4. \A n \in 1..Len(statements)-1 : Regular(statements[n])
  BY DEF Sound, WellFormed
<1> QED BY <1>1, <1>2, <1>3, <1>4 DEF Sound, FlawlessSoFar

LEMMA FlawlessBefore ==
  ASSUME FileTypes, FileInv, UNCHANGED fileVars \/ \E t : Lex(t), FlawlessSoFar', eof' => Complete'
  PROVE  FlawlessSoFar /\ (eof => Complete)
<1>1. /\ Len(statements) \in Nat /\ Len(statements') \in Nat
      /\ Len(statements) <= Len(statements')
      /\ \A n \in 1..Len(statements) : statements'[n] = statements[n]
      /\ eof => UNCHANGED fileVars
  BY FileGrows
<1>2. \A n \in 1..Len(statements) : n \in 1..Len(statements')
  BY <1>1
<1>3. ASSUME NEW n \in 1..Len(statements), statements[n] # End
      PROVE  Regular(statements[n])
  <2>1. Regular(statements'[n])
    BY <1>1, <1>2, <1>3 DEF FlawlessSoFar, Regular
  <2> QED BY <1>1, <2>1
<1>4. ASSUME NEW m \in 1..Len(statements), NEW n \in 1..Len(statements),
             m # n, statements[m] # End, statements[n] # End
      PROVE  Distinct(statements[m], statements[n])
  <2>1. Distinct(statements'[m], statements'[n])
    BY <1>1, <1>2, <1>4 DEF FlawlessSoFar, Distinct
  <2> QED BY <1>1, <2>1
<1>5. eof => Complete
  BY <1>1 DEF Complete, fileVars
<1> QED BY <1>3, <1>4, <1>5 DEF FlawlessSoFar

LEMMA ReadingBefore ==
  ASSUME [Next]_vars
  PROVE  /\ Reading' => Reading
         /\ ~Reading => UNCHANGED <<fileVars, Reading>>
<1>1. CASE Scan
  BY <1>1 DEF Scan, ScanInstance, ScanUnknown, ScanReference, ScanOther, Advance, ScanEnd,
              Scanning, Reading
<1>2. CASE LoadBegin \/ LoadComma \/ LoadOpen \/ LoadReference \/ LoadValue
  BY <1>2 DEF LoadBegin, LoadComma, LoadOpen, LoadReference, LoadValue, Reading
<1>3. CASE LoadTyped \/ LoadReturn
  BY <1>3 DEF LoadTyped, LoadReturn, Reading
<1>6. CASE LoadInstance \/ LoadAbstract
  BY <1>6 DEF LoadInstance, LoadAbstract, Reading
<1>7. CASE LoadThrows
  <2>1. pc = "load"
    BY <1>7 DEF LoadThrows
  <2> QED BY <2>1 DEF Reading
<1>4. CASE ResolveReference
  <2>1. pc = "resolve" /\ pc' \in {"resolve", "thrown"} /\ UNCHANGED fileVars
    BY <1>4 DEF ResolveReference
  <2> QED BY <2>1 DEF Reading
<1>8. CASE ResolveEnd
  BY <1>8 DEF ResolveEnd, Reading
<1>5. CASE Terminated \/ UNCHANGED vars
  BY <1>5 DEF Terminated, vars, Reading
<1> QED BY <1>1, <1>2, <1>3, <1>4, <1>5, <1>6, <1>7, <1>8 DEF Next, Load

LEMMA PromisingBefore ==
  ASSUME FileTypes, FileInv, [Next]_vars, Promising'
  PROVE  /\ Promising
         /\ Reading => FlawlessSoFar' /\ (eof' => Complete')
<1>1. FileTypes' /\ FileInv'
  BY FileKept
<1>2. CASE ~Reading
  <2>1. UNCHANGED <<fileVars, Reading>>
    BY <1>2, ReadingBefore
  <2>2. Sound'
    BY <1>2, <2>1 DEF Promising
  <2>4. statements' = statements /\ input' = input /\ eof' = eof
    BY <2>1 DEF fileVars
  <2>5. Complete
    BY <2>2, <2>4 DEF Sound, Complete
  <2>6. KnownStatements' = KnownStatements
    BY <2>4 DEF KnownStatements
  <2>7. \A n \in 1..Len(statements)-1 : WellFormed(statements[n])
    BY <2>2, <2>4, <2>6 DEF Sound, WellFormed, Regular, RefersTo
  <2>3. Sound
    BY <2>2, <2>4, <2>5, <2>7 DEF Sound, Distinct
  <2> QED BY <1>2, <2>3 DEF Promising
<1>3. CASE Reading
  <2>1. FlawlessSoFar' /\ (eof' => Complete')
    <3>1. CASE Reading'
      BY <3>1 DEF Promising
    <3>2. CASE ~Reading'
      <4>1. Sound'
        BY <3>2 DEF Promising
      <4> QED BY <1>1, <4>1, SoundIsFlawless, PTL
    <3> QED BY <3>1, <3>2
  <2>2. UNCHANGED fileVars \/ \E t : Lex(t)
    BY LexOrStay
  <2>3. FlawlessSoFar /\ (eof => Complete)
    BY <2>1, <2>2, FlawlessBefore
  <2> QED BY <1>3, <2>1, <2>3 DEF Promising
<1> QED BY <1>2, <1>3

(***************************************************************************)
(* What load() meets in a statement without a flaw.                        *)
(***************************************************************************)
(* The file does not end in the statement.                                 *)
LEMMA NotAtEnd ==
  ASSUME FileTypes, FileInv, LoadInv, Loading, NEW t, Lex(t), eof' => Complete'
  PROVE  /\ t # None /\ ~eof /\ ~eof' /\ UNCHANGED statements /\ Current' = Current
         /\ InArguments /\ InStatement /\ InCalls
         /\ Continues(t) \/ BeginsPart(t)
<1>1. InStatement /\ InCalls
  BY DEF LoadInv
<1>2. Len(frames) \in {1, 2} /\ (pc = "open" \/ pc = "load")
  BY <1>1 DEF InCalls, Loading
<1>3. CASE t = None
  <2>1. eof' /\ UNCHANGED statements /\ statements # <<>>
    BY <1>1, <1>3, LexEnds DEF InStatement
  <2>2. Last(statements) = End
    BY <2>1 DEF Complete
  <2> QED BY <1>1, <2>2, EndFacts DEF InStatement, Current
<1>4. CASE t # None
  <2>1. ~eof /\ UNCHANGED statements
    BY <1>2, <1>4, OpenLex, OuterLex, InnerLex
  <2>2. Current' = Current
    BY <2>1 DEF Current
  <2>3. ~eof'
    <3>1. Complete' => Last(statements) = End
      BY <2>1 DEF Complete
    <3> QED BY <1>1, <3>1, EndFacts DEF InStatement, Current
  <2>4. eof' \in BOOLEAN
    BY <1>4, LexSteps
  <2>5. Continues(t) \/ BeginsPart(t)
    <3>1. ASSUME NEW s \in Statements \cup {End}, BeginsStatement(t, s)
          PROVE  FALSE
      <4>1. Len(statements') = Len(statements) + 1 /\ Len(statements) \in Nat
        BY <2>4, <3>1, BeginsStatementKeepsFile
      <4> QED BY <2>1, <4>1
    <3> QED BY <1>4, <3>1, LexSteps
  <2> QED BY <1>1, <1>4, <2>1, <2>2, <2>3, <2>5 DEF LoadInv
<1> QED BY <1>3, <1>4

LEMMA LastTokens ==
  ASSUME NEW s \in Statements
  PROVE  Tokens(s, Len(s.args) + 1) = <<RightParen, Semicolon>>
<1>1. s # End /\ Len(s.args) + 1 # 0 /\ Len(s.args) + 1 \notin 1..Len(s.args)
  BY StatementFacts
<1> QED BY <1>1 DEF Tokens

(* Where the outer call is: between two arguments, or before one.          *)
LEMMA OuterLexSound ==
  ASSUME FileTypes, FileInv, LoadInv, pc = "load", Len(frames) = 1, ArgumentsInv,
         NEW t, Lex(t), eof' => Complete'
  PROVE  LET a == Current.args[part']
         IN /\ part' \in Nat \ {0} /\ Len(frames[1].items) \in Nat
            /\ \/ /\ t = RightParen /\ part' = LastPart(Current) /\ input' = <<Semicolon>>
                  /\ Len(frames[1].items) = Len(Current.args)
               \/ /\ t = Comma /\ part' \in 1..Len(Current.args) /\ input' = ArgumentTokens(a)
                  /\ Len(frames[1].items) = part' - 1
               \/ /\ part' \in 1..Len(Current.args) /\ Len(frames[1].items) = part' - 1
                  /\ frames[1].index = part' - 1
                  /\ t = Head(ArgumentTokens(a)) /\ input' = Tail(ArgumentTokens(a))
<1> DEFINE items == frames[1].items
           index == frames[1].index
<1>1. InArguments /\ (Continues(t) \/ BeginsPart(t)) /\ Loading
  BY NotAtEnd DEF Loading
<1>2. /\ statements # <<>> /\ Current \in Statements /\ Current.args \in Seq(Arguments)
      /\ Len(Current.args) \in Nat /\ LastPart(Current) = Len(Current.args) + 1
  BY <1>1, LoadingFacts
<1>3. part \in Nat
  BY DEF FileTypes
<1>4. CASE /\ input = <<>> /\ Len(items) = part /\ index = (IF part = 0 THEN 0 ELSE part - 1)
           /\ part <= Len(Current.args)
  <2>1. UNCHANGED statements /\ part' = part + 1 /\ part' \in Nat /\ part' > 0
        /\ t = Head(Tokens(Current, part')) /\ input' = Tail(Tokens(Current, part'))
    BY <1>1, <1>3, <1>4 DEF Continues, BeginsPart
  <2>2. CASE part = Len(Current.args)
    <3>1. part' = Len(Current.args) + 1
      BY <1>2, <2>1, <2>2
    <3>2. Tokens(Current, part') = <<RightParen, Semicolon>>
      BY <1>2, <3>1, LastTokens
    <3>3. Head(<<RightParen, Semicolon>>) = RightParen
          /\ Tail(<<RightParen, Semicolon>>) = <<Semicolon>>
      BY Tails
    <3>4. t = RightParen /\ input' = <<Semicolon>>
      BY <2>1, <3>2, <3>3, Zenon
    <3>5. part' = LastPart(Current) /\ Len(items) = Len(Current.args) /\ Len(items) \in Nat
          /\ part' \in Nat \ {0}
      BY <1>2, <1>4, <2>1, <2>2
    <3> QED BY <3>4, <3>5, Zenon
  <2>3. CASE part # Len(Current.args)
    <3>1. part' \in 1..Len(Current.args)
      BY <1>2, <1>3, <1>4, <2>1, <2>3
    <3>2. CASE part' = 1
      <4>1. Tokens(Current, part') = ArgumentTokens(Current.args[1])
        BY <1>2, <3>1, <3>2, PartForm
      <4>2. part = 0
        BY <1>3, <2>1, <3>2
      <4> QED BY <1>4, <2>1, <3>1, <3>2, <4>1, <4>2
    <3>3. CASE part' # 1
      <4>1. t = Comma /\ input' = ArgumentTokens(Current.args[part'])
        BY <1>2, <2>1, <3>1, <3>3, PartForm
      <4> QED BY <1>3, <1>4, <2>1, <3>1, <4>1
    <3> QED BY <3>2, <3>3
  <2> QED BY <2>2, <2>3
<1>5. CASE part > 0 /\ Len(items) = part - 1 /\ index = part - 1 /\ part <= Len(Current.args)
  <2>1. part \in 1..Len(Current.args) /\ Current.args[part] \in Arguments
    BY <1>2, <1>3, <1>5
  <2>2. input = ArgumentTokens(Current.args[part])
    BY <1>5 DEF ArgumentsInv
  <2>3. input # <<>>
    BY <2>1, <2>2, ArgumentForm DEF IsArgument
  <2>4. t = Head(input) /\ input' = Tail(input) /\ part' = part
    BY <1>1, <2>3 DEF Continues, BeginsPart
  <2> QED BY <1>5, <2>1, <2>2, <2>4
<1> QED BY <1>1, <1>4, <1>5 DEF InArguments

(* The inner call is in the argument before which the outer one was.       *)
LEMMA InnerLexSound ==
  ASSUME FileTypes, FileInv, LoadInv, Loading, Len(frames) = 2, NEW t, Lex(t), eof' => Complete'
  PROVE  /\ UNCHANGED part /\ part \in 1..Len(Current.args) /\ input \in Seq(FileTokens)
         /\ Len(frames[1].items) = part - 1 /\ input # <<>>
         /\ t = Head(input) /\ input' = Tail(input)
         /\ pc = "open" => frames[2].typed
<1>1. InArguments /\ (Continues(t) \/ BeginsPart(t))
  BY NotAtEnd
<1>2. Len(Current.args) \in Nat
  BY LoadingFacts
<1>3. part \in Nat /\ input \in Seq(FileTokens)
  BY DEF FileTypes
<1>4. /\ part > 0 /\ Len(frames[1].items) = part - 1 /\ part <= Len(Current.args)
      /\ \/ pc = "open" /\ frames[2].typed /\ Wrapped(input)
         \/ pc = "load" /\ Closing(input)
  BY <1>1 DEF InArguments
<1>5. input # <<>>
  BY <1>4, WrappedFacts DEF Closing
<1>6. Continues(t)
  BY <1>1, <1>5 DEF BeginsPart
<1> QED BY <1>2, <1>3, <1>4, <1>5, <1>6 DEF Continues

LEMMA RegularNow ==
  ASSUME FileTypes, FileInv, LoadInv, Loading, FlawlessSoFar
  PROVE  /\ Regular(Current) /\ Current.args \in Seq(Arguments) /\ Len(Current.args) \in Nat
         /\ \A n \in 1..Len(Current.args) :
              /\ Current.args[n] \in Arguments /\ Current.args[n].kind # "bad"
              /\ Current.args[n].kind = "typed" =>
                   /\ Current.args[n].keyword \in DefinedTypes
                   /\ Current.args[n].arg.kind # "bad"
<1>1. /\ statements # <<>> /\ Current \in Statements /\ Current.args \in Seq(Arguments)
      /\ Len(Current.args) \in Nat
  BY LoadingFacts
<1>2. Len(statements) \in Nat \ {0} /\ Current = statements[Len(statements)] /\ Current # End
  BY <1>1, CurrentStatement, StatementFacts
<1>3. Len(statements) \in 1..Len(statements)
  BY <1>2
<1>4. Regular(Current)
  BY <1>2, <1>3 DEF FlawlessSoFar
<1>5. \A n \in 1..Len(Current.args) : Current.args[n] \in Arguments
  BY <1>1
<1> QED BY <1>1, <1>4, <1>5 DEF Regular

(* The first token of an argument, and what is left of it                  *)
LEMMA ArgumentShown ==
  ASSUME NEW a \in Arguments, a.kind # "bad", a.kind = "typed" => a.arg.kind # "bad"
  PROVE  LET t == Head(ArgumentTokens(a))
             rest == Tail(ArgumentTokens(a))
         IN \/ a.kind = "$" /\ t = Dollar
            \/ a.kind = "string" /\ a.guid \in Guids /\ t = Text(a.guid)
            \/ a.kind = "ref" /\ \E k \in Names : a.refs = {k} /\ t = Ident(k)
            \/ /\ a.kind = "list" /\ t = LeftParen /\ a.refs \in SUBSET Names
               /\ InList(a.refs, <<>>, rest)
            \/ a.kind = "typed" /\ t = Keyword(a.keyword)
<1>1. CASE a.kind = "$" /\ ArgumentTokens(a) = <<Dollar>>
  BY <1>1, Tails
<1>2. CASE a.kind = "string" /\ a.guid \in Guids /\ ArgumentTokens(a) = <<Text(a.guid)>>
  BY <1>2, Tails
<1>3. CASE a.kind = "ref" /\ \E k \in Names : a.refs = {k} /\ ArgumentTokens(a) = <<Ident(k)>>
  <2>1. PICK k \in Names : a.refs = {k} /\ ArgumentTokens(a) = <<Ident(k)>>
    BY <1>3
  <2>2. Head(ArgumentTokens(a)) = Ident(k)
    BY <2>1, Tails
  <2> QED BY <1>3, <2>1, <2>2
<1>4. CASE a.kind = "list" /\ a.refs \in SUBSET Names /\ ArgumentTokens(a) = ListTokens(a.refs)
  BY <1>4, ListBegins
<1>5. CASE /\ a.kind = "typed"
           /\ \E k \in Names :
                ArgumentTokens(a) = <<Keyword(a.keyword), LeftParen, Ident(k), RightParen>>
  <2>1. PICK k \in Names :
          ArgumentTokens(a) = <<Keyword(a.keyword), LeftParen, Ident(k), RightParen>>
    BY <1>5
  <2>2. Head(<<Keyword(a.keyword), LeftParen, Ident(k), RightParen>>) = Keyword(a.keyword)
    OBVIOUS
  <2> QED BY <1>5, <2>1, <2>2
<1> QED BY <1>1, <1>2, <1>3, <1>4, <1>5, ArgumentKinds

(* load() has made an item of an argument.                                 *)
LEMMA ArgumentMade ==
  ASSUME frames[1].items \in Seq(Items), ArgumentsInv, Current' = Current, NEW item \in Items,
         Len(frames') = 1, frames'[1].items = Append(frames[1].items, item),
         part' \in Nat, Len(frames[1].items) = part' - 1, item = ItemOf(Current.args[part'])
  PROVE  ArgumentsInv'
<1> DEFINE items == frames[1].items
           made == frames'[1].items
<1>1. /\ Len(made) = Len(items) + 1 /\ \A n \in 1..Len(items) : made[n] = items[n]
      /\ made[Len(items) + 1] = item /\ Len(items) \in Nat
  BY Appended
<1>2. \A n \in 1..Len(items) : items[n] = ItemOf(Current.args[n])
  BY DEF ArgumentsInv
<1> HIDE DEF items, made
<1>3. Len(items) = part' - 1
  BY DEF items
<1>4. \A n \in 1..Len(made) : made[n] = ItemOf(Current.args[n])
  <2> TAKE n \in 1..Len(made)
  <2>1. n \in 1..Len(items) \/ n = Len(items) + 1
    BY <1>1
  <2>2. CASE n \in 1..Len(items)
    BY <1>1, <1>2, <2>2
  <2>3. CASE n = Len(items) + 1
    <3>1. PICK p \in Nat : p = part'
      OBVIOUS
    <3>2. n = (p - 1) + 1
      BY <1>3, <2>3, <3>1
    <3>4. (p - 1) + 1 = p
      OBVIOUS
    <3>3. n = part'
      BY <3>1, <3>2, <3>4, Zenon
    <3> QED BY <1>1, <2>3, <3>3
  <2> QED BY <2>1, <2>2, <2>3
<1>5. Len(made) # part' - 1
  BY <1>1, <1>3
<1>6. \A n \in 1..Len(frames'[1].items) : frames'[1].items[n] = ItemOf(Current'.args[n])
  BY <1>4 DEF made
<1>7. Len(frames'[1].items) # part' - 1 /\ Len(frames') # 2
  BY <1>5 DEF made
<1> QED BY <1>6, <1>7 DEF ArgumentsInv, ItemOf

LEMMA ArgumentsOfBegin ==
  ASSUME FileTypes, FileInv, LoadInv, CallTypes, ArgumentsInv, eof' => Complete', LoadBegin
  PROVE  ArgumentsInv'
<1>1. PICK t : Lex(t)
  BY DEF LoadBegin
<1>2. pc = "open" /\ Loading /\ UNCHANGED frames
  BY DEF LoadBegin, Loading
<1>3. /\ t # None /\ Current' = Current /\ Len(frames) \in {1, 2}
  BY <1>1, <1>2, NotAtEnd DEF InCalls
<1>4. CASE Len(frames) = 1
  <2>1. part' = 0 /\ Len(frames[1].items) = 0
    BY <1>1, <1>2, <1>3, <1>4, OpenLex
  <2> QED BY <1>2, <1>3, <1>4, <2>1 DEF ArgumentsInv
<1>5. CASE Len(frames) = 2
  <2>1. UNCHANGED part /\ frames[2].typed
    BY <1>1, <1>2, <1>5, InnerLexSound
  <2> QED BY <1>2, <1>3, <1>5, <2>1 DEF ArgumentsInv, ItemOf
<1> QED BY <1>3, <1>4, <1>5

LEMMA ArgumentsOfInstance ==
  ASSUME FileTypes, FileInv, WindowInv, ScanInstance
  PROVE  ArgumentsInv'
<1>1. Len(frames') = 1 /\ Len(frames'[1].items) = 0
  BY CallsOfInstance
<1>2. InBeginning
  BY InstanceShown DEF ScanInstance
<1>3. part' = 0
  BY <1>2 DEF InBeginning, ScanInstance, fileVars
<1> QED BY <1>1, <1>3 DEF ArgumentsInv

(* The kind of argument that the outer call meets with a token             *)
LEMMA ArgumentMet ==
  ASSUME FileTypes, FileInv, LoadInv, FlawlessSoFar, pc = "load", Len(frames) = 1, ArgumentsInv,
         NEW t, Lex(t), eof' => Complete', t # RightParen, t # Comma
  PROVE  LET a == Current.args[part']
         IN /\ part' \in 1..Len(Current.args) /\ a \in Arguments
            /\ Len(frames[1].items) = part' - 1 /\ frames[1].index = part' - 1
            /\ \/ a.kind = "$" /\ t = Dollar
               \/ a.kind = "string" /\ a.guid \in Guids /\ t = Text(a.guid)
               \/ a.kind = "ref" /\ \E k \in Names : a.refs = {k} /\ t = Ident(k)
               \/ /\ a.kind = "list" /\ t = LeftParen /\ a.refs \in SUBSET Names
                  /\ InList(a.refs, <<>>, input')
               \/ a.kind = "typed" /\ t = Keyword(a.keyword) /\ a.keyword \in DefinedTypes
<1>1. /\ part' \in 1..Len(Current.args) /\ Len(frames[1].items) = part' - 1
      /\ frames[1].index = part' - 1 /\ t = Head(ArgumentTokens(Current.args[part']))
      /\ input' = Tail(ArgumentTokens(Current.args[part']))
  BY OuterLexSound
<1>2. PICK n \in 1..Len(Current.args) : n = part'
  BY <1>1
<1> DEFINE a == Current.args[n]
<1>3. /\ a \in Arguments /\ a.kind # "bad"
      /\ a.kind = "typed" => a.keyword \in DefinedTypes /\ a.arg.kind # "bad"
  BY RegularNow DEF Loading
<1>4. t = Head(ArgumentTokens(a)) /\ input' = Tail(ArgumentTokens(a))
  BY <1>1, <1>2
<1>5. a = Current.args[part']
  BY <1>2
<1> HIDE DEF a
<1>6. \/ a.kind = "$" /\ t = Dollar
      \/ a.kind = "string" /\ a.guid \in Guids /\ t = Text(a.guid)
      \/ a.kind = "ref" /\ \E k \in Names : a.refs = {k} /\ t = Ident(k)
      \/ /\ a.kind = "list" /\ t = LeftParen /\ a.refs \in SUBSET Names
         /\ InList(a.refs, <<>>, input')
      \/ a.kind = "typed" /\ t = Keyword(a.keyword)
  BY <1>3, <1>4, ArgumentShown
<1> QED BY <1>1, <1>3, <1>5, <1>6, Zenon

(* The tokens with which arguments of a kind begin                         *)
LEMMA FirstTokens ==
  /\ Dollar[1] = "op" /\ LeftParen[1] = "op" /\ \A w : Keyword(w)[1] = "keyword"
  /\ \A k : Ident(k)[1] = "ident" /\ Ident(k) # Dollar /\ Ident(k) # LeftParen
            /\ Ident(k) # Comma /\ Ident(k) # RightParen
  /\ \A g : Text(g)[1] = "string" /\ Text(g) # Dollar /\ Text(g) # LeftParen
            /\ Text(g) # Comma /\ Text(g) # RightParen
  /\ \A w : Keyword(w) # Dollar /\ Keyword(w) # LeftParen
            /\ Keyword(w) # Comma /\ Keyword(w) # RightParen
  /\ \A j, k : Ident(j) = Ident(k) => j = k
  /\ \A g, h : Text(g) = Text(h) => g = h
  /\ \A k, g, w : Ident(k) # Text(g) /\ Ident(k) # Keyword(w) /\ Text(g) # Keyword(w)
<1>1. \A k : Ident(k)[1] = "ident" /\ Ident(k)[2] = k
  BY TokenKinds
<1>2. \A k : Text(k)[1] = "string" /\ Text(k)[2] = k
  BY TokenKinds
<1>3. \A k : Keyword(k)[1] = "keyword" /\ Keyword(k)[2] = k
  BY TokenKinds
<1>4. Dollar[1] = "op" /\ LeftParen[1] = "op" /\ Comma[1] = "op" /\ RightParen[1] = "op"
  BY TokenKinds
<1> HIDE DEF Dollar, LeftParen, Comma, RightParen, Ident, Text, Keyword
<1> QED BY <1>1, <1>2, <1>3, <1>4

LEMMA ArgumentsOfOpen ==
  ASSUME FileTypes, FileInv, LoadInv, CallTypes, FlawlessSoFar, ArgumentsInv, eof' => Complete',
         LoadOpen
  PROVE  ArgumentsInv'
<1>1. /\ pc = "load" /\ Lex(LeftParen) /\ Loading
      /\ frames' = Append(frames, Frame(Attribute, FALSE, Top.registers))
  BY DEF LoadOpen, Loading
<1>2. Len(frames) = 1 /\ InCalls /\ Current' = Current
  BY <1>1, CallsOfOpen, NotAtEnd DEF CallTypes
<1>3. LeftParen # RightParen /\ LeftParen # Comma
  BY TokensDiffer
<1>4. /\ Len(frames[1].items) = part' - 1
      /\ Current.args[part'].kind = "list"
      /\ InList(Current.args[part'].refs, <<>>, input')
  BY <1>1, <1>2, <1>3, ArgumentMet, FirstTokens, TokensDiffer
<1>5. Attribute \in Nat /\ Top.registers \in BOOLEAN
  BY <1>2, AttributeOfCall, TopFacts, FrameFacts DEF CallTypes
<1>6. /\ Frame(Attribute, FALSE, Top.registers) \in Frames
      /\ ~Frame(Attribute, FALSE, Top.registers).typed
      /\ Frame(Attribute, FALSE, Top.registers).items = <<>>
  BY <1>5, NewFrame
<1>7. /\ Len(frames') = 2 /\ frames'[1] = frames[1] /\ ~frames'[2].typed
      /\ frames'[2].items = <<>>
  BY <1>1, <1>2, <1>6, FramePushed DEF CallTypes
<1> QED BY <1>2, <1>4, <1>7 DEF ArgumentsInv, ItemOf

LEMMA ArgumentsOfTyped ==
  ASSUME FileTypes, FileInv, LoadInv, CallTypes, FlawlessSoFar, ArgumentsInv, eof' => Complete',
         LoadTyped
  PROVE  ArgumentsInv'
<1>1. PICK t : /\ t[1] = "keyword" /\ Lex(t)
               /\ IF t[2] \in DefinedTypes
                  THEN pc' = "open" /\ frames' = Append(frames, Frame(-1, TRUE, FALSE))
                  ELSE UNCHANGED <<pc, frames>>
  BY DEF LoadTyped
<1>2. pc = "load" /\ Loading /\ Len(frames) = 1
  BY CallsOfTyped DEF LoadTyped, Loading, CallTypes
<1>3. InCalls /\ Current' = Current
  BY <1>1, <1>2, NotAtEnd
<1>4. t # RightParen /\ t # Comma /\ t # LeftParen /\ t # Dollar
  BY <1>1, TokenKinds
<1>5. /\ Len(frames[1].items) = part' - 1
      /\ Current.args[part'].kind = "typed" /\ t = Keyword(Current.args[part'].keyword)
      /\ Current.args[part'].keyword \in DefinedTypes
  BY <1>1, <1>2, <1>4, ArgumentMet, TokenKinds
<1>6. frames' = Append(frames, Frame(-1, TRUE, FALSE))
  BY <1>1, <1>5, TokenKinds
<1>7. Frame(-1, TRUE, FALSE) \in Frames /\ Frame(-1, TRUE, FALSE).typed
  BY NewFrame
<1>8. Len(frames') = 2 /\ frames'[1] = frames[1] /\ frames'[2].typed
  BY <1>2, <1>3, <1>6, <1>7, FramePushed DEF CallTypes
<1> QED BY <1>3, <1>5, <1>8 DEF ArgumentsInv, ItemOf

LEMMA ArgumentsOfValue ==
  ASSUME FileTypes, FileInv, LoadInv, CallTypes, FlawlessSoFar, ArgumentsInv, eof' => Complete',
         LoadValue
  PROVE  ArgumentsInv'
<1>1. PICK t : /\ t[1] = "string" \/ t = Dollar
               /\ Lex(t)
               /\ frames' = WithItem(IF t = Dollar THEN [kind |-> "other"]
                                     ELSE [kind |-> "string", guid |-> t[2]])
  BY DEF LoadValue
<1>2. pc = "load" /\ Loading /\ Len(frames) = 1
  BY CallsOfValue DEF LoadValue, Loading, CallTypes
<1>3. InCalls /\ Current' = Current /\ frames[1].items \in Seq(Items)
  BY <1>1, <1>2, NotAtEnd, TopFacts, FrameFacts DEF CallTypes
<1>4. t # RightParen /\ t # Comma /\ t # LeftParen
  BY <1>1, TokenKinds, TokensDiffer
<1> DEFINE a == Current.args[part']
<1>5. /\ part' \in 1..Len(Current.args) /\ Len(frames[1].items) = part' - 1
      /\ \/ a.kind = "$" /\ t = Dollar
         \/ a.kind = "string" /\ a.guid \in Guids /\ t = Text(a.guid)
  <2>1. \A k : t # Ident(k)
    BY <1>1, FirstTokens
  <2>2. \A w : t # Keyword(w)
    BY <1>1, FirstTokens
  <2> QED BY <1>1, <1>2, <1>4, <2>1, <2>2, ArgumentMet
<1> HIDE DEF a
<1>6. PICK item \in Items : frames' = WithItem(item) /\ item = ItemOf(a)
  <2>1. CASE a.kind = "$" /\ t = Dollar
    <3>1. ItemOf(a) = [kind |-> "other"]
      BY <2>1 DEF ItemOf
    <3>2. frames' = WithItem([kind |-> "other"])
      BY <1>1, <2>1
    <3> QED BY <3>1, <3>2, NewItems
  <2>2. CASE a.kind = "string" /\ a.guid \in Guids /\ t = Text(a.guid)
    <3>1. ItemOf(a) = [kind |-> "string", guid |-> a.guid]
      BY <2>2 DEF ItemOf
    <3>2. t # Dollar /\ t[2] = a.guid
      BY <2>2, FirstTokens, TokenKinds
    <3>3. frames' = WithItem([kind |-> "string", guid |-> a.guid])
      BY <1>1, <3>2
    <3> QED BY <2>2, <3>1, <3>3, NewItems
  <2> QED BY <1>5, <2>1, <2>2
<1>7. Len(frames') = 1 /\ frames'[1].items = Append(frames[1].items, item)
  BY <1>2, <1>3, <1>6, ItemAdded DEF CallTypes
<1>8. part' \in Nat /\ Len(frames[1].items) = part' - 1 /\ item = ItemOf(Current.args[part'])
  BY <1>5, <1>6 DEF a
<1> QED BY <1>3, <1>7, <1>8, ArgumentMade, Zenon

(* Where the names in the calls come from: a reference, a typed value, or  *)
(* a list whose names were read up to this one.                            *)
ReferenceOf(k) ==
  LET a == Current.args[part']
      ref == [kind |-> "ref", refs |-> {k}]
  IN /\ part' \in 1..Len(Current.args) /\ a \in Arguments
     /\ Len(frames[1].items) = part' - 1
     /\ \/ /\ Len(frames) = 1 /\ frames[1].index = part' - 1
           /\ a.kind = "ref" /\ a.refs = {k}
        \/ Len(frames) = 2 /\ frames[2].typed /\ a.kind = "typed"
        \/ /\ Len(frames) = 2 /\ ~frames[2].typed /\ a.kind = "list" /\ a.refs \in SUBSET Names
           /\ InList(a.refs, frames[2].items, input)
           /\ Len(frames[2].items) < Cardinality(a.refs)
           /\ k = SetToSeq(a.refs)[Len(frames[2].items) + 1]
           /\ InList(a.refs, Append(frames[2].items, ref), input')

LEMMA ListRefs ==
  ASSUME NEW a \in Arguments, a.kind = "list"
  PROVE  a.refs \in SUBSET Names
BY ArgumentKinds

LEMMA ReferenceMet ==
  ASSUME FileTypes, FileInv, LoadInv, CallTypes, FlawlessSoFar, ArgumentsInv, eof' => Complete',
         pc = "load", NEW k \in Names, Lex(Ident(k))
  PROVE  ReferenceOf(k)
<1>1. InCalls /\ Len(frames) \in {1, 2} /\ Loading
  BY NotAtEnd DEF InCalls, Loading
<1>2. CASE Len(frames) = 1
  <2>1. Ident(k) # RightParen /\ Ident(k) # Comma
    BY FirstTokens
  <2> DEFINE a == Current.args[part']
  <2>2. /\ part' \in 1..Len(Current.args) /\ a \in Arguments
        /\ Len(frames[1].items) = part' - 1 /\ frames[1].index = part' - 1
        /\ \/ a.kind = "$" /\ Ident(k) = Dollar
           \/ a.kind = "string" /\ a.guid \in Guids /\ Ident(k) = Text(a.guid)
           \/ a.kind = "ref" /\ \E j \in Names : a.refs = {j} /\ Ident(k) = Ident(j)
           \/ a.kind = "list" /\ Ident(k) = LeftParen
           \/ a.kind = "typed" /\ Ident(k) = Keyword(a.keyword)
    BY <1>2, <2>1, ArgumentMet
  <2> HIDE DEF a
  <2>3. a.kind = "ref" /\ a.refs = {k}
    BY <2>2, FirstTokens
  <2> QED BY <1>2, <2>2, <2>3 DEF ReferenceOf, a
<1>3. CASE Len(frames) = 2
  <2>1. /\ UNCHANGED part /\ part \in 1..Len(Current.args) /\ input \in Seq(FileTokens)
        /\ Len(frames[1].items) = part - 1 /\ input # <<>>
        /\ Ident(k) = Head(input) /\ input' = Tail(input)
    BY <1>1, <1>3, InnerLexSound
  <2>2. PICK n \in 1..Len(Current.args) : n = part /\ n = part'
    BY <2>1
  <2>3. Current.args[n] \in Arguments
    BY <1>1, RegularNow
  <2>4. CASE frames[2].typed
    BY <1>3, <2>1, <2>2, <2>3, <2>4 DEF ReferenceOf, ArgumentsInv
  <2>5. CASE ~frames[2].typed
    <3> DEFINE refs == Current.args[n].refs
               items == frames[2].items
               d == Len(items)
    <3>1. Current.args[n].kind = "list" /\ InList(refs, items, input)
      BY <1>3, <2>2, <2>5 DEF ArgumentsInv
    <3>2. refs \in SUBSET Names
      BY <2>3, <3>1, ListRefs
    <3>3. items \in Seq(Items)
      BY <1>1, <1>3, TopFacts, FrameFacts DEF CallTypes
    <3> HIDE DEF items
    <3>4. Ident(k) # Comma /\ Ident(k) # RightParen
      BY FirstTokens
    <3>5. /\ d < Cardinality(refs) /\ Ident(k) = Ident(SetToSeq(refs)[d + 1])
          /\ InList(refs, Append(items, [kind |-> "ref", refs |-> {SetToSeq(refs)[d + 1]}]), input')
      BY <2>1, <3>1, <3>2, <3>3, <3>4, ListGoesOn
    <3>6. k = SetToSeq(refs)[d + 1]
      BY <3>5, FirstTokens
    <3>7. InList(refs, Append(items, [kind |-> "ref", refs |-> {k}]), input')
      BY <3>5, <3>6
    <3> HIDE DEF refs
    <3>8. refs = Current.args[part'].refs /\ Current.args[part'].kind = "list"
          /\ Current.args[part'] \in Arguments /\ part' \in 1..Len(Current.args)
          /\ Len(frames[1].items) = part' - 1
      BY <2>1, <2>2, <2>3, <3>1 DEF refs
    <3> QED BY <1>3, <2>5, <3>1, <3>2, <3>5, <3>6, <3>7, <3>8, Zenon DEF ReferenceOf, items
  <2> QED BY <2>4, <2>5
<1> QED BY <1>1, <1>2, <1>3

LEMMA ArgumentsOfReference ==
  ASSUME FileTypes, FileInv, LoadInv, CallTypes, FlawlessSoFar, ArgumentsInv, eof' => Complete',
         LoadReference
  PROVE  ArgumentsInv'
<1>1. PICK k \in Names : Lex(Ident(k)) /\ frames' = WithItem([kind |-> "ref", refs |-> {k}])
  BY DEF LoadReference
<1> DEFINE item == [kind |-> "ref", refs |-> {k}]
<1>2. pc = "load" /\ Loading
  BY DEF LoadReference, Loading
<1>3. ReferenceOf(k) /\ InCalls /\ Current' = Current
  BY <1>1, <1>2, ReferenceMet, NotAtEnd
<1>4. item \in Items /\ frames' = WithItem(item)
  BY <1>1, NewItems
<1>5. /\ Len(frames') = Len(frames)
      /\ Len(frames) = 1 => frames'[1].items = Append(frames[1].items, item)
      /\ Len(frames) = 2 =>
           /\ frames'[1] = frames[1] /\ frames'[2].typed = frames[2].typed
           /\ frames'[2].items = Append(frames[2].items, item)
  BY <1>3, <1>4, ItemAdded DEF CallTypes
<1>6. frames[1].items \in Seq(Items)
  BY <1>3, TopFacts, FrameFacts DEF CallTypes
<1>7. CASE Len(frames) = 1
  <2>1. /\ part' \in Nat /\ Len(frames[1].items) = part' - 1
        /\ Current.args[part'].kind = "ref" /\ Current.args[part'].refs = {k}
    BY <1>3, <1>7 DEF ReferenceOf
  <2>2. ItemOf(Current.args[part']) = item
    BY <2>1 DEF ItemOf
  <2> QED BY <1>3, <1>4, <1>5, <1>6, <1>7, <2>1, <2>2, ArgumentMade
<1>8. CASE Len(frames) = 2
  <2>1. /\ frames[2].typed => Current.args[part'].kind = "typed"
        /\ ~frames[2].typed =>
             /\ Current.args[part'].kind = "list"
             /\ InList(Current.args[part'].refs, Append(frames[2].items, item), input')
    BY <1>3, <1>8 DEF ReferenceOf
  <2> HIDE DEF item
  <2>2. Len(frames') = 2 /\ frames'[1] = frames[1] /\ frames'[2].typed = frames[2].typed
        /\ frames'[2].items = Append(frames[2].items, item)
    BY <1>5, <1>8
  <2>3. ~frames[2].typed => InList(Current.args[part'].refs, frames'[2].items, input')
    BY <2>1, <2>2
  <2>4. \A n \in 1..Len(frames'[1].items) : frames'[1].items[n] = ItemOf(Current'.args[n])
    BY <1>3, <2>2 DEF ArgumentsInv
  <2> QED BY <1>3, <2>1, <2>2, <2>3, <2>4 DEF ArgumentsInv, ItemOf
<1> QED BY <1>3, <1>7, <1>8 DEF InCalls

LEMMA ArgumentsOfComma ==
  ASSUME FileTypes, FileInv, LoadInv, CallTypes, FlawlessSoFar, ArgumentsInv, eof' => Complete',
         LoadComma
  PROVE  ArgumentsInv'
<1>1. pc = "load" /\ Lex(Comma) /\ Loading
  BY DEF LoadComma, Loading
<1>2. InCalls /\ Current' = Current /\ Len(frames) \in {1, 2}
  BY <1>1, NotAtEnd DEF InCalls
<1>3. frames \in Seq(Frames) /\ Top \in Frames
  BY <1>2, TopFacts DEF CallTypes
<1>4. PICK i \in Nat : frames' = WithTop([Top EXCEPT !.index = i])
  <2>1. Top.index \in Nat
    BY <1>3, FrameFacts
  <2>2. frames' = WithTop([Top EXCEPT !.index = IF Top.attribute = -1 THEN @ + 1 ELSE @])
    BY DEF LoadComma
  <2>3. CASE Top.attribute = -1
    <3>1. frames' = WithTop([Top EXCEPT !.index = Top.index + 1])
      BY <2>2, <2>3
    <3>2. Top.index + 1 \in Nat
      BY <2>1
    <3> QED BY <3>1, <3>2, Zenon
  <2>4. CASE Top.attribute # -1
    <3>1. frames' = WithTop([Top EXCEPT !.index = Top.index])
      BY <2>2, <2>4
    <3> QED BY <2>1, <3>1, Zenon
  <2> QED BY <2>3, <2>4
<1> DEFINE f == [Top EXCEPT !.index = i]
<1>5. f \in Frames /\ f.typed = Top.typed /\ f.items = Top.items
  BY <1>3, FrameFacts
<1> HIDE DEF f
<1>6. /\ Len(frames') = Len(frames)
      /\ Len(frames) = 1 => frames'[1].items = frames[1].items
      /\ Len(frames) = 2 => /\ frames'[1] = frames[1] /\ frames'[2].typed = frames[2].typed
                            /\ frames'[2].items = frames[2].items
  BY <1>2, <1>3, <1>4, <1>5, TopFacts, TopReplaced DEF f
<1>7. CASE Len(frames) = 1
  <2>1. input' = ArgumentTokens(Current.args[part'])
    <3>1. CASE input' = ArgumentTokens(Current.args[part'])
      BY <3>1
    <3>2. CASE part' \in 1..Len(Current.args) /\ Comma = Head(ArgumentTokens(Current.args[part']))
      <4>1. PICK n \in 1..Len(Current.args) : n = part'
        BY <3>2
      <4>2. /\ Current.args[n] \in Arguments /\ Current.args[n].kind # "bad"
            /\ Current.args[n].kind = "typed" => Current.args[n].arg.kind # "bad"
        BY <1>1, RegularNow
      <4>3. Comma = Head(ArgumentTokens(Current.args[n]))
        BY <3>2, <4>1
      <4> QED BY <4>2, <4>3, ArgumentShown, FirstTokens, TokensDiffer
    <3> QED BY <1>1, <1>7, <3>1, <3>2, OuterLexSound, TokensDiffer
  <2> QED BY <1>2, <1>6, <1>7, <2>1 DEF ArgumentsInv, ItemOf
<1>8. CASE Len(frames) = 2
  <2>1. /\ UNCHANGED part /\ part \in 1..Len(Current.args) /\ input \in Seq(FileTokens)
        /\ input # <<>> /\ Comma = Head(input) /\ input' = Tail(input)
    BY <1>1, <1>8, InnerLexSound
  <2>2. ASSUME ~frames[2].typed
        PROVE  /\ Current.args[part].kind = "list"
               /\ InList(Current.args[part].refs, frames[2].items, input')
    <3>1. /\ Current.args[part].kind = "list"
          /\ InList(Current.args[part].refs, frames[2].items, input)
      BY <1>8, <2>2 DEF ArgumentsInv
    <3>2. Current.args[part] \in Arguments
      BY <1>1, <2>1, RegularNow
    <3>3. Current.args[part].refs \in SUBSET Names
      BY <3>1, <3>2, ListRefs
    <3>4. frames[2].items \in Seq(Items)
      BY <1>2, <1>3, <1>8, TopFacts, FrameFacts
    <3>5. Comma # RightParen /\ \A k : Ident(k) # Comma
      BY TokensDiffer, FirstTokens
    <3> QED BY <2>1, <3>1, <3>3, <3>4, <3>5, ListGoesOn
  <2> QED BY <1>2, <1>6, <1>8, <2>1, <2>2 DEF ArgumentsInv, ItemOf
<1> QED BY <1>2, <1>7, <1>8

(* A list is what its names are.                                           *)
LEMMA ArgumentsOfReturn ==
  ASSUME FileTypes, FileInv, LoadInv, CallTypes, FlawlessSoFar, ArgumentsInv, eof' => Complete',
         LoadReturn
  PROVE  ArgumentsInv'
<1>1. PICK t : Closes(t) /\ Lex(t)
  BY DEF LoadReturn
<1>2. pc = "load" /\ Loading /\ frames \in Seq(Frames)
  BY DEF LoadReturn, Loading, CallTypes
<1>3. /\ Len(frames) = 2 /\ Len(frames') = 1
      /\ frames'[1].items = Append(frames[1].items, Collected)
  BY <1>2, CallsOfReturn
<1>4. InCalls /\ Current' = Current /\ t = RightParen
  BY <1>1, <1>2, NotAtEnd DEF Closes
<1>5. /\ UNCHANGED part /\ part \in 1..Len(Current.args) /\ input \in Seq(FileTokens)
      /\ Len(frames[1].items) = part - 1 /\ input # <<>>
      /\ RightParen = Head(input) /\ input' = Tail(input)
  BY <1>1, <1>2, <1>3, <1>4, InnerLexSound
<1>6. /\ Top = frames[2] /\ frames[1].items \in Seq(Items) /\ frames[2].items \in Seq(Items)
      /\ Collected \in Items
  BY <1>2, <1>3, <1>4, TopFacts, FrameFacts, CollectedFacts
<1> DEFINE a == Current.args[part]
           items == frames[2].items
<1>7. a \in Arguments
  BY <1>2, <1>5, RegularNow
<1>8. Collected = ItemOf(a)
  <2>1. CASE frames[2].typed
    <3>1. a.kind = "typed"
      BY <1>3, <2>1 DEF ArgumentsInv
    <3>2. Collected = [kind |-> "other"]
      BY <1>6, <2>1 DEF Collected
    <3> QED BY <3>1, <3>2 DEF ItemOf
  <2>2. CASE ~frames[2].typed
    <3>1. a.kind = "list" /\ InList(a.refs, items, input)
      BY <1>3, <2>2 DEF ArgumentsInv
    <3>2. a.refs \in SUBSET Names
      BY <1>7, <3>1, ListRefs
    <3>3. RightParen # Comma /\ \A k : Ident(k) # RightParen
      BY TokensDiffer, FirstTokens
    <3> HIDE DEF items, a
    <3>4. Len(items) = Cardinality(a.refs)
      BY <1>5, <1>6, <3>1, <3>2, <3>3, ListGoesOn DEF items
    <3>5. /\ \A n \in 1..Len(items) : items[n].kind = "ref" /\ items[n].refs \subseteq a.refs
          /\ \A k \in a.refs : \E n \in 1..Len(items) : items[n].refs = {k}
      BY <1>6, <3>1, <3>2, <3>4, ListNames DEF items
    <3>6. DOMAIN items = 1..Len(items)
      BY <1>6 DEF items
    <3> DEFINE all == UNION {items[n].refs : n \in {m \in DOMAIN items :
                                                      items[m].kind \in {"ref", "list"}}}
    <3>7. all = a.refs
      <4>1. ASSUME NEW k \in all
            PROVE  k \in a.refs
        BY <3>5, <3>6
      <4>2. ASSUME NEW k \in a.refs
            PROVE  k \in all
        <5>1. PICK n \in 1..Len(items) : items[n].refs = {k}
          BY <3>5
        <5>2. n \in DOMAIN items /\ items[n].kind \in {"ref", "list"}
          BY <3>5, <3>6
        <5> QED BY <5>1, <5>2
      <4> HIDE DEF all
      <4> QED BY <4>1, <4>2
    <3>8. Collected = IF all = {} THEN [kind |-> "other"] ELSE [kind |-> "list", refs |-> all]
      BY <1>6, <2>2 DEF Collected, items
    <3> HIDE DEF all
    <3>9. Collected = IF a.refs = {} THEN [kind |-> "other"] ELSE [kind |-> "list", refs |-> a.refs]
      BY <3>7, <3>8
    <3> QED BY <3>1, <3>9 DEF ItemOf
  <2> QED BY <2>1, <2>2
<1> HIDE DEF items
<1>9. part' \in Nat /\ Len(frames[1].items) = part' - 1 /\ a = Current.args[part']
  BY <1>5, LoadingFacts
<1> HIDE DEF a
<1> QED BY <1>3, <1>4, <1>6, <1>8, <1>9, ArgumentMade

(* As long as load() is in a statement, its items are what the arguments   *)
(* read so far say.                                                        *)
LEMMA ArgumentsKept ==
  ASSUME FileTypes, FileInv, WindowInv, LoadInv, CallTypes, FlawlessSoFar, FlawlessSoFar',
         NoBad(input), Loading => ArgumentsInv, eof' => Complete', [Next]_vars, Loading'
  PROVE  ArgumentsInv'
<1>1. CASE ScanInstance
  BY <1>1, ArgumentsOfInstance
<1>2. CASE LoadBegin \/ LoadComma \/ LoadOpen \/ LoadReference
  <2>1. Loading
    BY <1>2 DEF LoadBegin, LoadComma, LoadOpen, LoadReference, Loading
  <2> QED BY <1>2, <2>1, ArgumentsOfBegin, ArgumentsOfComma, ArgumentsOfOpen, ArgumentsOfReference
<1>3. CASE LoadValue \/ LoadTyped \/ LoadReturn
  <2>1. Loading
    BY <1>3 DEF LoadValue, LoadTyped, LoadReturn, Loading
  <2> QED BY <1>3, <2>1, ArgumentsOfValue, ArgumentsOfTyped, ArgumentsOfReturn
<1>4. ~LoadInstance /\ ~LoadAbstract /\ ~ScanUnknown /\ ~ScanReference /\ ~ScanOther
      /\ ~Advance /\ ~ScanEnd /\ ~ResolveReference /\ ~ResolveEnd
  BY DEF LoadInstance, LoadAbstract, ScanUnknown, ScanReference, ScanOther, Advance, ScanEnd,
         ResolveReference, ResolveEnd, Loading
<1>5. ~LoadThrows
  <2> SUFFICES ASSUME LoadThrows
               PROVE  FALSE
    OBVIOUS
  <2>1. Lex(Bad)
    BY DEF LoadThrows
  <2> QED BY <2>1, SoundLex
<1>6. CASE Terminated \/ UNCHANGED vars
  <2>1. UNCHANGED <<pc, frames, fileVars>>
    BY <1>6 DEF Terminated, vars
  <2>2. ArgumentsInv
    BY <2>1 DEF Loading
  <2> QED BY <2>1, <2>2 DEF ArgumentsInv, ItemOf, Current, fileVars
<1> QED BY <1>1, <1>2, <1>3, <1>4, <1>5, <1>6 DEF Next, Scan, Load

(***************************************************************************)
(* What load() has read of the arguments.                                  *)
(***************************************************************************)
LoadStep ==
  LoadBegin \/ LoadComma \/ LoadOpen \/ LoadReference \/ LoadValue \/ LoadTyped \/ LoadReturn

CallsGrow ==
  /\ Len(frames[1].items) <= Len(frames'[1].items)
  /\ Len(frames) = 2 /\ ~frames[2].typed =>
       \/ Len(frames[1].items) < Len(frames'[1].items)
       \/ /\ Len(frames') = 2 /\ ~frames'[2].typed
          /\ Len(frames'[1].items) = Len(frames[1].items)
          /\ \A d \in 1..Len(frames[2].items) :
               d \in 1..Len(frames'[2].items) /\ frames'[2].items[d] = frames[2].items[d]

LEMMA ItemAddedGrows ==
  ASSUME frames \in Seq(Frames), InCalls, NEW item \in Items, frames' = WithItem(item)
  PROVE  CallsGrow
<1>1. /\ Len(frames') = Len(frames)
      /\ Len(frames) = 1 => Len(frames'[1].items) = Len(frames[1].items) + 1
      /\ Len(frames) = 2 =>
           /\ frames'[1] = frames[1] /\ frames'[2].typed = frames[2].typed
           /\ frames'[2].items = Append(frames[2].items, item)
  BY ItemAdded
<1>2. Len(frames) \in {1, 2}
  BY DEF InCalls
<1>3. frames[1].items \in Seq(Items) /\ Len(frames[1].items) \in Nat
      /\ (Len(frames) = 2 => frames[2].items \in Seq(Items))
  BY TopFacts, FrameFacts
<1>4. CASE Len(frames) = 1
  BY <1>1, <1>3, <1>4 DEF CallsGrow
<1>5. CASE Len(frames) = 2
  <2>1. \A d \in 1..Len(frames[2].items) :
          d \in 1..Len(frames'[2].items) /\ frames'[2].items[d] = frames[2].items[d]
    <3> DEFINE v == frames[2].items
               w == frames'[2].items
    <3>1. v \in Seq(Items) /\ w = Append(v, item)
      BY <1>1, <1>3, <1>5
    <3> HIDE DEF v, w
    <3>2. Len(v) \in Nat /\ Len(w) = Len(v) + 1 /\ \A d \in 1..Len(v) : w[d] = v[d]
      BY <3>1, Appended
    <3>3. \A d \in 1..Len(v) : d \in 1..Len(w) /\ w[d] = v[d]
      BY <3>2
    <3> QED BY <3>3 DEF v, w
  <2> QED BY <1>1, <1>3, <1>5, <2>1 DEF CallsGrow
<1> QED BY <1>2, <1>4, <1>5

LEMMA CallsDoGrow ==
  ASSUME FileTypes, FileInv, LoadInv, CallTypes, LoadStep
  PROVE  CallsGrow
<1>1. Loading /\ frames \in Seq(Frames)
  BY DEF LoadStep, LoadBegin, LoadComma, LoadOpen, LoadReference, LoadValue, LoadTyped, LoadReturn,
         Loading, CallTypes
<1>2. InCalls /\ Len(frames) \in {1, 2}
  BY <1>1 DEF LoadInv, InCalls
<1>3. /\ frames[1].items \in Seq(Items) /\ Len(frames[1].items) \in Nat /\ Top \in Frames
      /\ Len(frames) = 1 => Top = frames[1]
      /\ Len(frames) = 2 => Top = frames[2]
  BY <1>1, <1>2, TopFacts, FrameFacts
<1>4. CASE LoadBegin
  BY <1>3, <1>4 DEF LoadBegin, CallsGrow
<1>5. CASE LoadComma
  <2>1. PICK i : frames' = WithTop([Top EXCEPT !.index = i]) /\ i \in Nat
    <3>1. Top.index \in Nat
      BY <1>3, FrameFacts
    <3>2. frames' = WithTop([Top EXCEPT !.index = IF Top.attribute = -1 THEN @ + 1 ELSE @])
      BY <1>5 DEF LoadComma
    <3> DEFINE j == IF Top.attribute = -1 THEN Top.index + 1 ELSE Top.index
    <3>3. j \in Nat
      BY <3>1
    <3>4. frames' = WithTop([Top EXCEPT !.index = j])
      BY <3>2
    <3> HIDE DEF j
    <3> QED BY <3>3, <3>4
  <2> DEFINE f == [Top EXCEPT !.index = i]
  <2>2. f \in Frames /\ f.typed = Top.typed /\ f.items = Top.items
    BY <1>3, <2>1, FrameFacts
  <2> HIDE DEF f
  <2>3. /\ Len(frames') = Len(frames)
        /\ Len(frames) = 1 => frames'[1].items = frames[1].items
        /\ Len(frames) = 2 => /\ frames'[1] = frames[1] /\ frames'[2].typed = frames[2].typed
                              /\ frames'[2].items = frames[2].items
    BY <1>1, <1>2, <1>3, <2>1, <2>2, TopReplaced DEF f
  <2> QED BY <1>2, <1>3, <2>3 DEF CallsGrow
<1>6. CASE LoadOpen \/ LoadTyped
  <2>1. Len(frames) = 1
    BY <1>1, <1>6, CallsOfOpen, CallsOfTyped
  <2>2. frames' = frames \/ \E f \in Frames : frames' = Append(frames, f)
    <3>1. Attribute \in Nat /\ Top.registers \in BOOLEAN
      BY <1>1, <1>2, <1>3, AttributeOfCall, FrameFacts
    <3>2. Frame(Attribute, FALSE, Top.registers) \in Frames /\ Frame(-1, TRUE, FALSE) \in Frames
      BY <3>1, NewFrame
    <3> QED BY <1>6, <3>2 DEF LoadOpen, LoadTyped
  <2>3. frames'[1] = frames[1]
    BY <1>1, <1>2, <2>1, <2>2, FramePushed
  <2> QED BY <1>3, <2>1, <2>3 DEF CallsGrow
<1>7. CASE LoadReference
  <2>1. PICK k \in Names : frames' = WithItem([kind |-> "ref", refs |-> {k}])
    BY <1>7 DEF LoadReference
  <2>2. [kind |-> "ref", refs |-> {k}] \in Items
    BY NewItems
  <2> QED BY <1>1, <1>2, <2>1, <2>2, ItemAddedGrows
<1>8. CASE LoadValue
  <2>1. PICK t \in Upcoming :
          /\ t[1] = "string" \/ t = Dollar
          /\ Lex(t)
          /\ frames' = WithItem(IF t = Dollar THEN [kind |-> "other"]
                                ELSE [kind |-> "string", guid |-> t[2]])
    BY <1>8 DEF LoadValue
  <2>2. t \in FileTokens \cup {None}
    BY <2>1, LexKeepsFile
  <2> DEFINE item == IF t = Dollar THEN [kind |-> "other"] ELSE [kind |-> "string", guid |-> t[2]]
  <2>3. item \in Items
    <3>1. t # Dollar => t[2] \in Guids
      BY <2>1, <2>2, TextFacts, TokenKinds
    <3> QED BY <3>1, NewItems
  <2>4. frames' = WithItem(item)
    BY <2>1
  <2> HIDE DEF item
  <2> QED BY <1>1, <1>2, <2>3, <2>4, ItemAddedGrows
<1>9. CASE LoadReturn
  <2>1. frames'[1].items = Append(frames[1].items, Collected) /\ Collected \in Items
    BY <1>1, <1>2, <1>9, CallsOfReturn, CollectedFacts
  <2>2. Len(frames'[1].items) = Len(frames[1].items) + 1
    BY <1>3, <2>1, Appended
  <2> QED BY <1>3, <2>2 DEF CallsGrow
<1> QED BY <1>4, <1>5, <1>6, <1>7, <1>8, <1>9 DEF LoadStep

LEMMA ReadGrows ==
  ASSUME CallTypes, LoadInv, CallsGrow, Loading', NEW i \in Nat, NEW k, ReadSoFar(i, k),
         Len(frames'[1].items) \in Nat
  PROVE  ReadSoFar(i, k)'
<1>1. Len(frames[1].items) \in Nat
  BY TopFacts, FrameFacts DEF ReadSoFar, LoadInv, CallTypes
<1>2. CASE i < Len(frames[1].items)
  BY <1>1, <1>2 DEF CallsGrow, ReadSoFar
<1>3. CASE /\ i = Len(frames[1].items) /\ Len(frames) = 2 /\ ~frames[2].typed
           /\ \E d \in 1..Len(frames[2].items) : frames[2].items[d].refs = {k}
  BY <1>1, <1>3 DEF CallsGrow, ReadSoFar
<1> QED BY <1>2, <1>3 DEF ReadSoFar

(***************************************************************************)
(* The steps over a file that is without a flaw so far.                    *)
(***************************************************************************)
SoundAdvance ==
  /\ pc = "advance" /\ pc' = "scan" /\ UNCHANGED good_
  /\ \E t : /\ Lex(t) /\ t # Bad
            /\ token_stream' = Append(Tail(token_stream), t)
  /\ UNCHANGED <<scanVars, frames, mapVars, byref_excl_, references_to_resolve>>

LEMMA AdvanceIsSound ==
  ASSUME FileTypes, FileInv, FlawlessSoFar', NoBad(input), Advance
  PROVE  SoundAdvance
<1>1. PICK t \in Upcoming :
        /\ Lex(t)
        /\ IF t[1] = "bad" /\ ~eof'
           THEN /\ good_' = "INVALID_SYNTAX" /\ pc' = "resolve"
                /\ UNCHANGED token_stream
           ELSE /\ token_stream' =
                     Append(Tail(token_stream), IF t[1] = "bad" THEN None ELSE t)
                /\ pc' = "scan"
                /\ UNCHANGED good_
  BY DEF Advance
<1>2. t # Bad /\ t \in FileTokens \cup {None}
  BY <1>1, SoundLex, LexKeepsFile
<1>3. t[1] # "bad"
  BY <1>2, SoundToken
<1>4. token_stream' = Append(Tail(token_stream), t) /\ pc' = "scan" /\ UNCHANGED good_
  BY <1>1, <1>3
<1> QED BY <1>1, <1>2, <1>4 DEF SoundAdvance, Advance

LEMMA ShownIsRegular ==
  ASSUME FileTypes, FileInv, WindowInv, FlawlessSoFar, Scanning, AtInstance
  PROVE  Begun /\ Regular(Current) /\ token_stream[3][2] = Current.keyword
<1>1. InBeginning /\ Begun
  BY InstanceShown
<1>2. Len(statements) \in Nat \ {0} /\ Current = statements[Len(statements)] /\ Current # End
  BY <1>1, CurrentStatement DEF InBeginning
<1>3. Len(statements) \in 1..Len(statements)
  BY <1>2
<1>4. Regular(Current)
  BY <1>2, <1>3 DEF FlawlessSoFar
<1> QED BY <1>1, <1>4, TokenKinds DEF Begun

LEMMA SoundSteps ==
  ASSUME FileTypes, FileInv, WindowInv, LoadInv, FlawlessSoFar, FlawlessSoFar', eof' => Complete',
         Reading, NoBad(input), WindowNames, [Next]_vars
  PROVE  \/ ScanInstance \/ ScanOther \/ SoundAdvance \/ ScanEnd
         \/ LoadStep \/ LoadInstance \/ UNCHANGED vars
<1>1. ~ScanUnknown
  <2> SUFFICES ASSUME ScanUnknown
               PROVE  FALSE
    OBVIOUS
  <2>1. token_stream[3][2] \notin Entities /\ Scanning /\ AtInstance
    BY DEF ScanUnknown
  <2> QED BY <2>1, ShownIsRegular DEF Regular
<1>2. ~ScanReference
  <2> SUFFICES ASSUME ScanReference
               PROVE  FALSE
    OBVIOUS
  <2>1. Scanning /\ ~AtInstance /\ token_stream[1][1] = "ident"
    BY DEF ScanReference
  <2>2. InBeginning /\ Len(input) = 1
    BY <2>1 DEF WindowNames, Scanning
  <2>3. Begun
    BY <2>1, <2>2 DEF WindowInv, Scanning
  <2>4. AtInstance
    BY <2>3, TokenKinds DEF Begun, AtInstance
  <2> QED BY <2>1, <2>4
<1>3. ~LoadThrows
  <2> SUFFICES ASSUME LoadThrows
               PROVE  FALSE
    OBVIOUS
  <2>1. Lex(Bad)
    BY DEF LoadThrows
  <2> QED BY <2>1, SoundLex
<1>4. ~LoadAbstract
  <2> SUFFICES ASSUME LoadAbstract
               PROVE  FALSE
    OBVIOUS
  <2>1. Loading /\ token_stream[3][2] \in Abstract
    BY DEF LoadAbstract, Loading
  <2>2. token_stream[3] = Keyword(Current.keyword)
    BY <2>1 DEF LoadInv, InStatement, Begun
  <2>3. Regular(Current)
    BY <2>1, RegularNow
  <2> QED BY <2>1, <2>2, <2>3, TokenKinds DEF Regular
<1>5. ~ResolveReference /\ ~ResolveEnd /\ ~Terminated
  BY DEF ResolveReference, ResolveEnd, Terminated, Reading
<1>6. Advance => SoundAdvance
  BY AdvanceIsSound
<1> QED BY <1>1, <1>2, <1>3, <1>4, <1>5, <1>6 DEF Next, Scan, Load, LoadStep

(***************************************************************************)
(* The inverses.                                                           *)
(***************************************************************************)
LEMMA AddedToBag ==
  ASSUME NEW b, NEW x, x \notin DOMAIN b
  PROVE  /\ DOMAIN BE!BagAdd(b, x) = DOMAIN b \cup {x}
         /\ BE!BagAdd(b, x)[x] = 1
         /\ \A e \in DOMAIN b : BE!BagAdd(b, x)[e] = b[e]
BY DEF BE!BagAdd

(* The statement that is being read is the only one with its name.         *)
LEMMA OnlyCurrent ==
  ASSUME FileTypes, FileInv, LoadInv, FlawlessSoFar, Loading, NEW n \in 1..Len(statements),
         statements[n].name = Current.name
  PROVE  n = Len(statements)
<1>1. Len(statements) \in Nat \ {0} /\ Current = statements[Len(statements)] /\ Current # End
  BY LoadingFacts, CurrentStatement, StatementFacts
<1>2. n # Len(statements) => statements[n] # End
  BY <1>1 DEF FileInv
<1>3. Len(statements) \in 1..Len(statements)
  BY <1>1
<1> QED BY <1>1, <1>2, <1>3 DEF FlawlessSoFar, Distinct

(* A name in an argument is new to the inverses.                           *)
LEMMA InverseIsNew ==
  ASSUME FileTypes, FileInv, LoadInv, CallTypes, FlawlessSoFar, ArgumentsInv, eof' => Complete',
         Len(statements) = Len(instances) + 1, Len(instances) \in Nat, InversesInv,
         pc = "load", NEW k \in Names, Lex(Ident(k)), Top.registers
  PROVE  LET i == Attribute
             e == <<k, Current.keyword, i, Current.name>>
         IN /\ i \in 0..Len(Current.args)-1 /\ k \in RefersTo(Current.args[i + 1])
            /\ Len(frames[1].items) = i /\ (Len(frames) = 2 => ~frames[2].typed)
            /\ e \notin DOMAIN byref_excl_
<1>1. ReferenceOf(k) /\ Loading
  BY ReferenceMet DEF Loading
<1>2. InCalls /\ frames \in Seq(Frames)
  BY <1>1 DEF LoadInv, CallTypes
<1> DEFINE i == Attribute
           e == <<k, Current.keyword, i, Current.name>>
<1>3. /\ Len(frames) \in {1, 2}
      /\ Len(frames) = 1 => i = frames[1].index
      /\ Len(frames) = 2 => ~frames[2].typed /\ i = Len(frames[1].items)
  BY <1>2, TopFacts, AttributeOfCall DEF InCalls
<1>4. /\ part' \in 1..Len(Current.args) /\ Len(frames[1].items) = part' - 1 /\ i = part' - 1
      /\ k \in RefersTo(Current.args[part'])
  <2>1. CASE Len(frames) = 1
    BY <1>1, <1>3, <2>1 DEF ReferenceOf, RefersTo
  <2>2. CASE Len(frames) = 2
    <3> DEFINE a == Current.args[part']
               items == frames[2].items
    <3>1. /\ part' \in 1..Len(Current.args) /\ Len(frames[1].items) = part' - 1
          /\ a.kind = "list" /\ a.refs \in SUBSET Names
          /\ InList(a.refs, items, input) /\ Len(items) < Cardinality(a.refs)
          /\ k = SetToSeq(a.refs)[Len(items) + 1]
      BY <1>1, <1>3, <2>2 DEF ReferenceOf
    <3>2. items \in Seq(Items)
      BY <1>2, <2>2, TopFacts, FrameFacts
    <3> HIDE DEF a, items
    <3>3. k \in a.refs
      BY <3>1, <3>2, ListNames
    <3> QED BY <1>3, <2>2, <3>1, <3>3 DEF RefersTo, a
  <2> QED BY <1>3, <2>1, <2>2
<1>5. /\ i \in 0..Len(Current.args)-1 /\ Current.args[i + 1] = Current.args[part']
      /\ Len(frames[1].items) = i
  <2>1. Len(Current.args) \in Nat
    BY <1>1, LoadingFacts
  <2>2. PICK p \in 1..Len(Current.args) : p = part'
    BY <1>4
  <2>3. p - 1 \in 0..Len(Current.args)-1 /\ (p - 1) + 1 = p
    BY <2>1
  <2>4. i = p - 1
    BY <1>4, <2>2
  <2> QED BY <1>4, <2>2, <2>3, <2>4
<1>6. ~ReadSoFar(i, k)
  <2>1. CASE Len(frames) = 1
    BY <1>5, <2>1 DEF ReadSoFar
  <2>2. CASE Len(frames) = 2
    <3> DEFINE a == Current.args[part']
               items == frames[2].items
    <3>1. /\ a.refs \in SUBSET Names
          /\ InList(a.refs, items, input) /\ Len(items) < Cardinality(a.refs)
          /\ k = SetToSeq(a.refs)[Len(items) + 1]
      BY <1>1, <1>3, <2>2 DEF ReferenceOf
    <3>2. items \in Seq(Items)
      BY <1>2, <2>2, TopFacts, FrameFacts
    <3> HIDE DEF a, items
    <3>3. \A n \in 1..Len(items) : items[n].refs # {k}
      BY <3>1, <3>2, ListNames
    <3> QED BY <1>5, <3>3 DEF ReadSoFar, items
  <2> QED BY <1>3, <2>1, <2>2
<1>7. e \notin DOMAIN byref_excl_
  <2> SUFFICES ASSUME e \in DOMAIN byref_excl_
               PROVE  FALSE
    OBVIOUS
  <2>1. PICK n \in 1..Len(statements) : \E j \in 0..Len(statements[n].args)-1 : \E r \in Names :
          /\ e = <<r, statements[n].keyword, j, statements[n].name>>
          /\ n > Len(instances) => ReadSoFar(j, r)
    BY DEF InversesInv
  <2>2. PICK j, r :
          /\ e = <<r, statements[n].keyword, j, statements[n].name>>
          /\ n > Len(instances) => ReadSoFar(j, r)
    BY <2>1
  <2>3. r = k /\ j = i /\ statements[n].name = Current.name
    BY <2>2
  <2>4. n = Len(statements)
    BY <1>1, <2>3, OnlyCurrent
  <2>5. n > Len(instances)
    BY <2>4
  <2> QED BY <1>6, <2>2, <2>3, <2>5
<1> QED BY <1>3, <1>4, <1>5, <1>7

LEMMA InverseStays ==
  ASSUME InversesInv, NEW e \in DOMAIN byref_excl_,
         Len(statements) \in Nat, Len(statements') \in Nat, Len(statements) <= Len(statements'),
         \A n \in 1..Len(statements) : statements'[n] = statements[n],
         Len(instances) \in Nat, Len(instances') \in Nat, Len(instances) <= Len(instances'),
         \A n \in 1..Len(statements) : \A i \in Nat : \A k :
           n > Len(instances') /\ ReadSoFar(i, k) => ReadSoFar(i, k)'
  PROVE  \E n \in 1..Len(statements') : \E i \in 0..Len(statements'[n].args)-1 : \E k \in Names :
           /\ e = <<k, statements'[n].keyword, i, statements'[n].name>>
           /\ Refers(n, i, k)' /\ (n > Len(instances') => ReadSoFar(i, k)')
<1>1. PICK n \in 1..Len(statements) : \E i \in 0..Len(statements[n].args)-1 : \E k \in Names :
        /\ e = <<k, statements[n].keyword, i, statements[n].name>>
        /\ Refers(n, i, k) /\ (n > Len(instances) => ReadSoFar(i, k))
  BY DEF InversesInv
<1>2. PICK i \in 0..Len(statements[n].args)-1, k \in Names :
        /\ e = <<k, statements[n].keyword, i, statements[n].name>>
        /\ Refers(n, i, k) /\ (n > Len(instances) => ReadSoFar(i, k))
  BY <1>1
<1>3. n \in 1..Len(statements') /\ statements'[n] = statements[n] /\ i \in Nat
  OBVIOUS
<1>4. Refers(n, i, k)'
  BY <1>2, <1>3 DEF Refers, RefersTo
<1>5. n > Len(instances') => ReadSoFar(i, k)'
  BY <1>2, <1>3
<1> QED BY <1>2, <1>3, <1>4, <1>5

LEMMA InversesSame ==
  ASSUME FileTypes, FileInv, InversesInv, UNCHANGED byref_excl_,
         UNCHANGED fileVars \/ \E t : Lex(t),
         Len(instances) \in Nat, Len(instances') \in Nat, Len(instances) <= Len(instances'),
         \A n \in 1..Len(statements) : \A i \in Nat : \A k :
           n > Len(instances') /\ ReadSoFar(i, k) => ReadSoFar(i, k)'
  PROVE  InversesInv'
<1>1. /\ Len(statements) \in Nat /\ Len(statements') \in Nat
      /\ Len(statements) <= Len(statements')
      /\ \A n \in 1..Len(statements) : statements'[n] = statements[n]
  BY FileGrows
<1>2. SUFFICES ASSUME NEW e \in DOMAIN byref_excl_
               PROVE  /\ byref_excl_[e] = 1
                      /\ \E n \in 1..Len(statements') : \E i \in 0..Len(statements'[n].args)-1 :
                           \E k \in Names :
                             /\ e = <<k, statements'[n].keyword, i, statements'[n].name>>
                             /\ Refers(n, i, k)' /\ (n > Len(instances') => ReadSoFar(i, k)')
  BY DEF InversesInv
<1>3. byref_excl_[e] = 1
  BY DEF InversesInv
<1> QED BY <1>1, <1>3, InverseStays

LEMMA FirstCall ==
  ASSUME NEW f \in Seq(Frames), Len(f) \in {1, 2}
  PROVE  f[1].items \in Seq(Items) /\ Len(f[1].items) \in Nat
<1>1. f[1] \in Frames
  OBVIOUS
<1> QED BY <1>1, FrameFacts

(* The inverse of a name that load() comes to                              *)
LEMMA InversesOfReference ==
  ASSUME FileTypes, FileInv, LoadInv, CallTypes, FlawlessSoFar, ArgumentsInv, eof' => Complete',
         Len(statements) = Len(instances) + 1, Len(instances) \in Nat, InversesInv,
         LoadReference, Loading => LoadInv', CallTypes'
  PROVE  InversesInv'
<1>1. PICK k \in Names :
        /\ Lex(Ident(k))
        /\ byref_excl_' =
             IF Top.registers
             THEN BE!BagAdd(byref_excl_, <<k, token_stream[3][2], Attribute, current_id>>)
             ELSE byref_excl_
        /\ frames' = WithItem([kind |-> "ref", refs |-> {k}])
  BY DEF LoadReference
<1>2. pc = "load" /\ Loading /\ Loading' /\ UNCHANGED <<instances, statements, token_stream>>
      /\ Current' = Current
  BY <1>1, NotAtEnd DEF LoadReference, Loading, loadUnchanged, mapVars
<1>3. InCalls /\ InCalls' /\ frames \in Seq(Frames) /\ frames' \in Seq(Frames)
  BY <1>2 DEF LoadInv, CallTypes
<1>4. Len(frames'[1].items) \in Nat
  BY <1>3, FirstCall DEF InCalls
<1>5. CallsGrow
  BY CallsDoGrow DEF LoadStep
<1>6. \A i \in Nat : \A j : ReadSoFar(i, j) => ReadSoFar(i, j)'
  BY <1>2, <1>4, <1>5, ReadGrows
<1>7. CASE ~Top.registers
  BY <1>1, <1>2, <1>6, <1>7, InversesSame
<1>8. CASE Top.registers
  <2>0. PICK i, n, e : /\ i = Attribute /\ n = Len(statements)
                       /\ e = <<k, Current.keyword, i, Current.name>>
    OBVIOUS
  <2>1. /\ i \in 0..Len(Current.args)-1 /\ k \in RefersTo(Current.args[i + 1])
        /\ Len(frames[1].items) = i /\ (Len(frames) = 2 => ~frames[2].typed)
        /\ e \notin DOMAIN byref_excl_
    BY <1>1, <1>2, <1>8, <2>0, InverseIsNew
  <2>2. token_stream[3][2] = Current.keyword /\ current_id = Current.name
    BY <1>2, TokenKinds DEF LoadInv, InStatement, Begun
  <2>3. byref_excl_' = BE!BagAdd(byref_excl_, e)
    BY <1>1, <1>8, <2>0, <2>2
  <2>4. /\ DOMAIN byref_excl_' = DOMAIN byref_excl_ \cup {e}
        /\ byref_excl_'[e] = 1
        /\ \A d \in DOMAIN byref_excl_ : byref_excl_'[d] = byref_excl_[d]
    <3>1. e \notin DOMAIN byref_excl_
      BY <2>0, <2>1, Zenon
    <3>2. /\ DOMAIN BE!BagAdd(byref_excl_, e) = DOMAIN byref_excl_ \cup {e}
          /\ BE!BagAdd(byref_excl_, e)[e] = 1
          /\ \A d \in DOMAIN byref_excl_ : BE!BagAdd(byref_excl_, e)[d] = byref_excl_[d]
      BY <3>1, AddedToBag
    <3> QED BY <2>3, <3>2
  <2>5. /\ Len(statements) \in Nat \ {0} /\ n \in 1..Len(statements) /\ Current = statements[n]
        /\ Current # End
    BY <1>2, <2>0, LoadingFacts, CurrentStatement, StatementFacts
  <2>6. Refers(n, i, k)'
    BY <1>2, <2>1, <2>5 DEF Refers, RefersTo
  <2>7. ReadSoFar(i, k)'
    <3> DEFINE item == [kind |-> "ref", refs |-> {k}]
    <3>1. item \in Items /\ frames' = WithItem(item) /\ item.refs = {k}
      BY <1>1, NewItems
    <3> HIDE DEF item
    <3>2. /\ Len(frames') = Len(frames)
          /\ Len(frames) = 1 => Len(frames'[1].items) = Len(frames[1].items) + 1
          /\ Len(frames) = 2 =>
               /\ frames'[1] = frames[1] /\ frames'[2].typed = frames[2].typed
               /\ frames'[2].items = Append(frames[2].items, item)
      BY <1>3, <3>1, ItemAdded
    <3>3. CASE Len(frames) = 1
      <4>1. i < Len(frames'[1].items)
        BY <2>1, <3>2, <3>3
      <4> QED BY <1>2, <4>1 DEF ReadSoFar
    <3>4. CASE Len(frames) = 2
      <4> DEFINE v == frames[2].items
                 w == frames'[2].items
      <4>1. v \in Seq(Items)
        BY <1>3, <3>4, TopFacts, FrameFacts
      <4>2. w = Append(v, item)
        BY <3>2, <3>4
      <4> HIDE DEF v, w
      <4>3. Len(w) = Len(v) + 1 /\ w[Len(v) + 1] = item /\ Len(v) \in Nat
        BY <3>1, <4>1, <4>2, Appended
      <4>4. \E d \in 1..Len(w) : w[d].refs = {k}
        <5>1. Len(v) + 1 \in 1..Len(w)
          BY <4>3
        <5> QED BY <3>1, <4>3, <5>1
      <4>5. Len(frames'[1].items) = i /\ Len(frames') = 2 /\ ~frames'[2].typed
        BY <2>1, <3>2, <3>4
      <4> QED BY <1>2, <4>4, <4>5 DEF ReadSoFar, w
    <3> QED BY <1>3, <3>3, <3>4 DEF InCalls
  <2>9. ASSUME NEW d \in DOMAIN byref_excl_
        PROVE  /\ byref_excl_'[d] = 1
               /\ \E m \in 1..Len(statements') : \E j \in 0..Len(statements'[m].args)-1 :
                    \E r \in Names :
                      /\ d = <<r, statements'[m].keyword, j, statements'[m].name>>
                      /\ Refers(m, j, r)' /\ (m > Len(instances') => ReadSoFar(j, r)')
    <3>1. byref_excl_'[d] = 1
      BY <2>4 DEF InversesInv
    <3> QED BY <1>2, <1>6, <2>5, <3>1, InverseStays
  <2>10. \E m \in 1..Len(statements') : \E j \in 0..Len(statements'[m].args)-1 : \E r \in Names :
           /\ e = <<r, statements'[m].keyword, j, statements'[m].name>>
           /\ Refers(m, j, r)' /\ (m > Len(instances') => ReadSoFar(j, r)')
    <3>1. n \in 1..Len(statements') /\ statements'[n] = Current
      BY <1>2, <2>5
    <3>2. i \in 0..Len(statements'[n].args)-1
      BY <2>1, <3>1
    <3>3. e = <<k, statements'[n].keyword, i, statements'[n].name>>
      BY <2>0, <3>1
    <3> QED BY <2>6, <2>7, <3>1, <3>2, <3>3
  <2> QED BY <2>4, <2>9, <2>10 DEF InversesInv
<1> QED BY <1>7, <1>8

LEMMA InversesRead ==
  ASSUME FileTypes, FileInv, WindowInv, LoadInv, CallTypes, FlawlessSoFar, FlawlessSoFar',
         eof' => Complete', Reading, NoBad(input), WindowNames, Loading => ArgumentsInv,
         Len(instances) \in Nat, Loading => Len(statements) = Len(instances) + 1,
         LoadInstance => Len(instances') = Len(instances) + 1,
         InversesInv, [Next]_vars, LoadInv', CallTypes'
  PROVE  InversesInv'
<1>1. UNCHANGED fileVars \/ \E t : Lex(t)
  BY LexOrStay
<1>2. CASE ScanInstance \/ ScanOther \/ SoundAdvance \/ ScanEnd
  <2>1. UNCHANGED <<instances, byref_excl_>> /\ ~Loading
    BY <1>2 DEF ScanInstance, ScanOther, SoundAdvance, ScanEnd, Scanning, Loading, mapVars
  <2>2. \A i, k : ~ReadSoFar(i, k)
    BY <2>1 DEF ReadSoFar
  <2> QED BY <1>1, <2>1, <2>2, InversesSame
<1>3. CASE LoadInstance
  <2>1. UNCHANGED byref_excl_ /\ Loading /\ Len(instances') = Len(instances) + 1
    BY <1>3 DEF LoadInstance, Loading
  <2>2. \A n \in 1..Len(statements) : ~(n > Len(instances'))
    BY <2>1
  <2> QED BY <1>1, <2>1, <2>2, InversesSame
<1>4. CASE LoadReference
  <2>1. Loading
    BY <1>4 DEF LoadReference, Loading
  <2> QED BY <1>4, <2>1, InversesOfReference
<1>5. CASE LoadStep /\ ~LoadReference
  <2>1. UNCHANGED <<instances, byref_excl_>> /\ Loading /\ Loading'
    BY <1>5 DEF LoadStep, LoadBegin, LoadComma, LoadOpen, LoadValue, LoadTyped, LoadReturn, Loading,
                loadUnchanged, mapVars
  <2>2. CallsGrow
    BY <1>5, CallsDoGrow
  <2>3. Len(frames'[1].items) \in Nat
    <3>1. InCalls' /\ frames' \in Seq(Frames)
      BY <2>1 DEF LoadInv, CallTypes
    <3> QED BY <3>1, FirstCall DEF InCalls
  <2>4. \A i \in Nat : \A k : ReadSoFar(i, k) => ReadSoFar(i, k)'
    BY <2>1, <2>2, <2>3, ReadGrows
  <2> QED BY <1>1, <2>1, <2>4, InversesSame
<1>6. CASE UNCHANGED vars
  <2>1. UNCHANGED <<instances, byref_excl_, pc, frames>>
    BY <1>6 DEF vars, mapVars
  <2>2. \A i, k : ReadSoFar(i, k) => ReadSoFar(i, k)'
    BY <2>1 DEF ReadSoFar, Loading
  <2> QED BY <1>1, <2>1, <2>2, InversesSame
<1> QED BY <1>2, <1>3, <1>4, <1>5, <1>6, SoundSteps

(***************************************************************************)
(* The instances, the maps and the references to resolve.                  *)
(***************************************************************************)
LEMMA EnteredSame ==
  ASSUME FileTypes, FileInv, EnteredInv, UNCHANGED fileVars \/ \E t : Lex(t),
         Len(instances) \in Nat, UNCHANGED <<instances, byid_, byguid_, MaxId>>
  PROVE  EnteredInv'
<1>1. /\ Len(statements) \in Nat /\ Len(statements') \in Nat
      /\ Len(statements) <= Len(statements')
      /\ \A n \in 1..Len(statements) : statements'[n] = statements[n]
  BY FileGrows
<1>2. ASSUME NEW n \in 1..Len(instances)
      PROVE  n <= Len(statements') /\ statements'[n] = statements[n]
  <2>1. n <= Len(statements)
    BY DEF EnteredInv
  <2>2. n \in 1..Len(statements)
    BY <1>1, <2>1
  <2> QED BY <1>1, <2>1, <2>2
<1>3. ASSUME NEW n \in 1..Len(instances)
      PROVE  LET s == statements'[n]
                 o == instances[n]
             IN /\ n <= Len(statements') /\ s # End
                /\ o.name = s.name /\ o.type = s.keyword
                /\ DOMAIN o.attr = 0..Len(s.args)-1
                /\ o.guid = IF s.keyword \in Rooted /\ s.args # <<>> THEN s.args[1].guid ELSE ""
                /\ byid_[o.name] = n /\ o.name <= MaxId
                /\ o.guid # "" => byguid_[o.guid] = n
  <2>1. statements'[n] = statements[n] /\ n <= Len(statements')
    BY <1>2
  <2> DEFINE s == statements[n]
             o == instances[n]
  <2>2. /\ s # End
        /\ o.name = s.name /\ o.type = s.keyword
        /\ DOMAIN o.attr = 0..Len(s.args)-1
        /\ o.guid = IF s.keyword \in Rooted /\ s.args # <<>> THEN s.args[1].guid ELSE ""
        /\ byid_[o.name] = n /\ o.name <= MaxId
        /\ o.guid # "" => byguid_[o.guid] = n
    BY DEF EnteredInv
  <2> HIDE DEF s, o
  <2> QED BY <2>1, <2>2 DEF s, o
<1> QED BY <1>3 DEF EnteredInv, End

LEMMA OutstandingSame ==
  ASSUME FileTypes, FileInv, EnteredInv, OutstandingInv, UNCHANGED fileVars \/ \E t : Lex(t),
         Len(instances) \in Nat, UNCHANGED <<instances, byid_, references_to_resolve>>,
         Reading' => Reading
  PROVE  OutstandingInv'
<1>1. /\ Len(statements) \in Nat
      /\ \A n \in 1..Len(statements) : statements'[n] = statements[n]
  BY FileGrows
<1>2. ASSUME NEW n \in 1..Len(instances)
      PROVE  statements'[n] = statements[n]
  <2>1. n <= Len(statements)
    BY DEF EnteredInv
  <2>2. n \in 1..Len(statements)
    BY <1>1, <2>1
  <2> QED BY <1>1, <2>2
<1>3. ASSUME NEW q \in 1..Len(references_to_resolve)
      PROVE  LET p == references_to_resolve[q]
             IN \E n \in 1..Len(instances) :
                  /\ p.name = instances[n].name /\ p.index \in DOMAIN instances[n].attr
                  /\ LET a == statements'[n].args[p.index + 1] IN p.kind = a.kind /\ p.refs = a.refs
  <2> DEFINE p == references_to_resolve[q]
  <2>1. PICK n \in 1..Len(instances) :
          /\ p.name = instances[n].name /\ p.index \in DOMAIN instances[n].attr
          /\ LET a == statements[n].args[p.index + 1] IN p.kind = a.kind /\ p.refs = a.refs
    BY DEF OutstandingInv
  <2> HIDE DEF p
  <2>2. LET a == statements'[n].args[p.index + 1] IN p.kind = a.kind /\ p.refs = a.refs
    BY <1>2, <2>1
  <2>3. \E m \in 1..Len(instances) :
          /\ p.name = instances[m].name /\ p.index \in DOMAIN instances[m].attr
          /\ LET a == statements'[m].args[p.index + 1] IN p.kind = a.kind /\ p.refs = a.refs
    BY <2>1, <2>2
  <2> QED BY <2>3 DEF p
<1>4. ASSUME NEW n \in 1..Len(instances), NEW i \in DOMAIN instances[n].attr
      PROVE  /\ \/ instances[n].attr[i] = {byid_[k] : k \in RefersTo(statements'[n].args[i + 1])}
                \/ \E q \in 1..Len(references_to_resolve) :
                     /\ references_to_resolve[q].name = instances[n].name
                     /\ references_to_resolve[q].index = i
             /\ Reading' => instances[n].attr[i] = {}
  <2>1. statements'[n].args[i + 1] = statements[n].args[i + 1]
    BY <1>2
  <2>2. /\ \/ instances[n].attr[i] = {byid_[k] : k \in RefersTo(statements[n].args[i + 1])}
           \/ \E q \in 1..Len(references_to_resolve) :
                /\ references_to_resolve[q].name = instances[n].name
                /\ references_to_resolve[q].index = i
        /\ Reading => instances[n].attr[i] = {}
    BY DEF OutstandingInv
  <2> QED BY <2>1, <2>2
<1> QED BY <1>3, <1>4 DEF OutstandingInv, RefersTo

(***************************************************************************)
(* The place in the file and the names in the window.                      *)
(***************************************************************************)
LEMMA NotBetween ==
  ASSUME FileTypes, FileInv, InBeginning \/ Current = End, statements # <<>>
  PROVE  ~Between
<1>1. Current \in Statements \cup {End}
  BY CurrentStatement
<1>2. Current # End => LastPart(Current) > 0
  BY <1>1, StatementFacts DEF LastPart
<1>3. CASE InBeginning
  <2>1. part = 0 /\ LastPart(Current) # 0
    BY <1>2, <1>3 DEF InBeginning
  <2> QED BY <2>1 DEF Between
<1> QED BY <1>3 DEF Between

LEMMA RemaindersGoOn ==
  ASSUME input \in Remainders, input # <<>>
  PROVE  /\ Tail(input) \in Remainders
         /\ Head(input) \in {Semicolon, EndExchange} /\ Head(input)[1] # "ident"
<1>1. input = <<Semicolon>> \/ input = <<EndExchange, Semicolon>>
      \/ input = <<Semicolon, EndExchange, Semicolon>>
  BY DEF Remainders
<1>2. Tail(input) \in Remainders /\ Head(input) \in {Semicolon, EndExchange}
  <2>1. CASE input = <<Semicolon>>
    BY <2>1, Tails DEF Remainders
  <2>2. CASE input = <<EndExchange, Semicolon>>
    BY <2>2, Tails DEF Remainders
  <2>3. CASE input = <<Semicolon, EndExchange, Semicolon>>
    BY <2>3, Tails DEF Remainders
  <2> QED BY <1>1, <2>1, <2>2, <2>3
<1> QED BY <1>2, TokenKinds

LEMMA AfterEnd ==
  ASSUME NEW t, BeginsStatement(t, End)
  PROVE  input' \in Remainders
<1>1. input' = Tail(<<EndSection, Semicolon, EndExchange, Semicolon>>)
  BY DEF BeginsStatement, Tokens, Trailer
<1>2. Tail(<<EndSection, Semicolon, EndExchange, Semicolon>>)
        = <<Semicolon, EndExchange, Semicolon>>
  OBVIOUS
<1> QED BY <1>1, <1>2 DEF Remainders

LEMMA PlaceOfAdvance ==
  ASSUME FileTypes, FileInv, WindowTypes, PlaceInv, WindowNames, Len(instances) \in Nat,
         FlawlessSoFar', SoundAdvance
  PROVE  PlaceInv' /\ WindowNames'
<1>1. PICK t : Lex(t) /\ t # Bad /\ token_stream' = Append(Tail(token_stream), t)
  BY DEF SoundAdvance
<1>2. pc = "advance" /\ pc' = "scan" /\ UNCHANGED instances
  BY DEF SoundAdvance, mapVars
<1>3. NoBad(input')
  BY <1>1, SoundLex DEF PlaceInv
<1>4. t \in FileTokens \cup {None}
  BY <1>1, LexKeepsFile
<1>5. /\ token_stream'[1] = token_stream[2] /\ token_stream'[2] = token_stream[3]
      /\ token_stream'[3] = t
  BY <1>1, <1>4, WindowMoves DEF WindowTypes
<1>6. /\ Len(statements) = Len(instances) + IF Between THEN 0 ELSE 1
      /\ \/ InBeginning /\ Len(input) # 1
         \/ Between \/ Current = End
      /\ ~InBeginning => input \in Remainders
  BY <1>2 DEF PlaceInv
<1>7. ~eof => /\ token_stream[2][1] = "ident" => InBeginning /\ Len(input) = 2
              /\ token_stream[3][1] = "ident" => InBeginning /\ Len(input) = 3
  BY <1>2 DEF WindowNames
<1>8. CASE eof' = TRUE /\ UNCHANGED <<statements, part, input>>
  <2>1. Between' = Between /\ InBeginning' = InBeginning /\ Current' = Current
    BY <1>2, <1>8 DEF Between, InBeginning, Current, LastPart
  <2> QED BY <1>2, <1>3, <1>6, <1>8, <2>1 DEF PlaceInv, WindowNames, Remainders
<1>9. CASE Continues(t) /\ ~eof
  <2>1. input # <<>> /\ t = Head(input) /\ input' = Tail(input) /\ UNCHANGED <<statements, part>>
    BY <1>9 DEF Continues
  <2>2. Between' = Between /\ Current' = Current
    BY <1>2, <2>1 DEF Between, Current, LastPart
  <2>3. CASE InBeginning
    <3>1. /\ Len(input) \in {2, 3} /\ Len(Tail(input)) = Len(input) - 1
          /\ t = Equals \/ t = Keyword(Current.keyword)
      BY <1>6, <2>1, <2>3, BeginningFacts, NotBetween DEF InBeginning
    <3>2. InBeginning' /\ Len(input') = Len(input) - 1
      BY <2>1, <2>3, <3>1 DEF InBeginning, Current
    <3>3. t[1] # "ident"
      BY <3>1, TokenKinds
    <3>4. ~Between
      BY <2>3, NotBetween DEF InBeginning
    <3>5. PlaceInv'
      BY <1>2, <1>3, <1>6, <2>1, <2>2, <3>2, <3>4 DEF PlaceInv, Remainders
    <3>6. /\ token_stream'[1][1] = "ident" => Len(input') = 1
          /\ token_stream'[2][1] = "ident" => Len(input') = 2
          /\ token_stream'[3][1] # "ident"
      BY <1>5, <1>7, <1>9, <3>1, <3>2, <3>3
    <3> QED BY <3>2, <3>5, <3>6 DEF WindowNames
  <2>4. CASE ~InBeginning
    <3>1. input' \in Remainders /\ t[1] # "ident"
      BY <1>6, <2>1, <2>4, RemaindersGoOn
    <3>2. ~InBeginning'
      BY <2>1, <2>4 DEF InBeginning, Current
    <3>3. PlaceInv'
      BY <1>2, <1>3, <1>6, <2>1, <2>2, <2>4, <3>1, <3>2 DEF PlaceInv, Remainders
    <3>4. /\ token_stream'[1][1] # "ident" /\ token_stream'[2][1] # "ident"
          /\ token_stream'[3][1] # "ident"
      BY <1>5, <1>7, <1>9, <2>4, <3>1
    <3> QED BY <3>3, <3>4 DEF WindowNames
  <2> QED BY <2>3, <2>4
<1>10. CASE BeginsPart(t)
  <2>1. input = <<>> /\ statements # <<>> /\ Current \in Statements /\ part < LastPart(Current)
    BY <1>10 DEF BeginsPart
  <2>2. Current # End /\ ~InBeginning /\ part \in Nat
    BY <2>1, StatementFacts DEF InBeginning, FileTypes
  <2>3. ~Between
    BY <2>1, <2>2 DEF Between, LastPart
  <2> QED BY <1>6, <2>2, <2>3
<1>11. ASSUME NEW s \in Statements \cup {End}, BeginsStatement(t, s), ~eof, eof' \in BOOLEAN
       PROVE  PlaceInv' /\ WindowNames'
  <2>1. /\ input = <<>> /\ (statements # <<>> => Current # End /\ part = LastPart(Current))
    BY <1>11 DEF BeginsStatement
  <2>2. Between /\ ~InBeginning
    BY <1>2, <2>1 DEF Between, InBeginning
  <2>3. /\ FileTypes' /\ FileInv' /\ Current' = s
        /\ Len(statements') = Len(statements) + 1
        /\ s # End => InBeginning' /\ Len(input') = 3
        /\ s = End => ~InBeginning' /\ t = EndSection
    BY <1>11, BeginsStatementKeepsFile
  <2>4. statements' # <<>>
    BY <2>3 DEF FileTypes
  <2>5. ~Between'
    <3>1. (InBeginning \/ Current = End)'
      BY <2>3
    <3>2. (statements # <<>>)'
      BY <2>4
    <3> QED BY <2>3, <3>1, <3>2, NotBetween, PTL
  <2>6. Len(statements') = Len(instances') + 1
    BY <1>2, <1>6, <2>2, <2>3
  <2>7. ~InBeginning' => input' \in Remainders
    BY <1>11, <2>3, AfterEnd
  <2>8. PlaceInv'
    BY <1>2, <1>3, <2>3, <2>5, <2>6, <2>7 DEF PlaceInv, Remainders
  <2>9. token_stream'[1][1] # "ident" /\ token_stream'[2][1] # "ident"
    BY <1>5, <1>7, <1>11, <2>2
  <2>10. token_stream'[3][1] = "ident" => InBeginning' /\ Len(input') = 3
    BY <1>5, <2>3, TokenKinds
  <2> QED BY <2>8, <2>9, <2>10 DEF WindowNames
<1> QED BY <1>1, <1>8, <1>9, <1>10, <1>11, LexSteps

(* load() returns at the end of the arguments.                             *)
LEMMA ReturnsAtEnd ==
  ASSUME FileTypes, FileInv, LoadInv, FlawlessSoFar, ArgumentsInv, eof' => Complete', LoadInstance
  PROVE  /\ ~eof' /\ UNCHANGED statements /\ Current' = Current
         /\ part' = LastPart(Current) /\ part' > 0 /\ input' = <<Semicolon>>
         /\ Len(frames[1].items) = Len(Current.args)
         /\ \E t : Lex(t)
<1>1. PICK t : Closes(t) /\ Lex(t)
  BY DEF LoadInstance
<1>2. pc = "load" /\ Loading /\ Len(frames) = 1
  BY DEF LoadInstance, Loading
<1>3. t = RightParen /\ ~eof' /\ UNCHANGED statements /\ Current' = Current
  BY <1>1, <1>2, NotAtEnd DEF Closes
<1>4. CASE /\ part' = LastPart(Current) /\ input' = <<Semicolon>>
           /\ Len(frames[1].items) = Len(Current.args) /\ part' \in Nat \ {0}
  BY <1>1, <1>3, <1>4
<1>5. CASE part' \in 1..Len(Current.args) /\ RightParen = Head(ArgumentTokens(Current.args[part']))
  <2>1. PICK n \in 1..Len(Current.args) : n = part'
    BY <1>5
  <2>2. /\ Current.args[n] \in Arguments /\ Current.args[n].kind # "bad"
        /\ Current.args[n].kind = "typed" => Current.args[n].arg.kind # "bad"
    BY <1>2, RegularNow
  <2>3. RightParen = Head(ArgumentTokens(Current.args[n]))
    BY <1>5, <2>1
  <2> QED BY <2>2, <2>3, ArgumentShown, FirstTokens, TokensDiffer
<1> QED BY <1>1, <1>2, <1>3, <1>4, <1>5, OuterLexSound, TokensDiffer

LEMMA PlaceOfScan ==
  ASSUME FileTypes, FileInv, WindowInv, PlaceInv, WindowNames, ScanInstance \/ ScanOther
  PROVE  PlaceInv' /\ WindowNames'
<1>1. pc = "scan" /\ ~eof /\ UNCHANGED <<instances, statements, part, input, eof, token_stream>>
  BY DEF ScanInstance, ScanOther, Scanning, fileVars, mapVars
<1>2. Current' = Current /\ InBeginning' = InBeginning /\ NoBad(input')
  BY <1>1 DEF Current, InBeginning, PlaceInv
<1>3. /\ Len(statements) = Len(instances) + IF Between THEN 0 ELSE 1
      /\ InBeginning \/ Between \/ Current = End
      /\ ~InBeginning => input \in Remainders
  BY <1>1 DEF PlaceInv
<1>4. CASE ScanInstance
  <2>1. InBeginning /\ pc' = "open"
    BY <1>4, InstanceShown DEF ScanInstance
  <2>2. ~Between /\ ~Between'
    BY <2>1, NotBetween DEF InBeginning, Between
  <2> QED BY <1>1, <1>2, <1>3, <2>1, <2>2 DEF PlaceInv, WindowNames
<1>5. CASE ScanOther
  <2>1. pc' = "advance" /\ ~AtInstance
    BY <1>5 DEF ScanOther
  <2>2. Between' = Between
    BY <1>1, <2>1 DEF Between, Current, LastPart
  <2>3. ~(InBeginning /\ Len(input) = 1)
    <3> SUFFICES ASSUME InBeginning, Len(input) = 1
                 PROVE  FALSE
      OBVIOUS
    <3>1. Begun
      BY <1>1 DEF WindowInv
    <3>2. AtInstance
      BY <3>1, TokenKinds DEF Begun, AtInstance
    <3> QED BY <2>1, <3>2
  <2>4. PlaceInv'
    BY <1>1, <1>2, <1>3, <2>1, <2>2, <2>3 DEF PlaceInv, Remainders
  <2>5. WindowNames'
    BY <1>1, <1>2, <2>1 DEF WindowNames
  <2> QED BY <2>4, <2>5
<1> QED BY <1>4, <1>5

LEMMA PlaceOfLoad ==
  ASSUME FileTypes, FileInv, LoadInv, FlawlessSoFar', eof' => Complete', PlaceInv, LoadStep
  PROVE  PlaceInv' /\ WindowNames'
<1>1. Loading /\ Loading' /\ UNCHANGED instances /\ \E t : Lex(t)
  BY DEF LoadStep, LoadBegin, LoadComma, LoadOpen, LoadReference, LoadValue, LoadTyped, LoadReturn,
         Loading, loadUnchanged, mapVars
<1>2. ~Between /\ ~Between' /\ pc' \notin {"scan", "advance"}
  BY <1>1 DEF Between, Loading
<1>3. UNCHANGED statements
  BY <1>1, NotAtEnd
<1>4. NoBad(input')
  BY <1>1, SoundLex DEF PlaceInv
<1> QED BY <1>1, <1>2, <1>3, <1>4 DEF PlaceInv, WindowNames

LEMMA PlaceOfReturn ==
  ASSUME FileTypes, FileInv, WindowInv, LoadInv, FlawlessSoFar, FlawlessSoFar', ArgumentsInv,
         eof' => Complete', PlaceInv, Len(instances) \in Nat, Len(instances') = Len(instances) + 1,
         LoadInstance
  PROVE  PlaceInv' /\ WindowNames'
<1>1. /\ ~eof' /\ UNCHANGED statements /\ Current' = Current
      /\ part' = LastPart(Current) /\ part' > 0 /\ input' = <<Semicolon>> /\ \E t : Lex(t)
  BY ReturnsAtEnd
<1>2. Loading /\ ~Between /\ pc' = "advance" /\ UNCHANGED token_stream
  BY DEF LoadInstance, Loading, Between
<1>3. Current \in Statements /\ Current # End /\ statements # <<>>
  BY <1>2, LoadingFacts, StatementFacts
<1>4. Between' /\ ~InBeginning'
  BY <1>1, <1>2, <1>3 DEF Between, InBeginning, LastPart
<1>5. NoBad(input')
  BY <1>1, SoundLex DEF PlaceInv
<1>6. Len(statements') = Len(instances')
  BY <1>1, <1>2 DEF PlaceInv
<1>7. PlaceInv'
  BY <1>1, <1>2, <1>4, <1>5, <1>6 DEF PlaceInv, Remainders
<1>8. token_stream[2][1] # "ident" /\ token_stream[3][1] # "ident"
  BY <1>2, TokenKinds DEF LoadInv, InStatement, Begun
<1> QED BY <1>2, <1>7, <1>8 DEF WindowNames

(* Where a step over a file without a flaw so far leads                     *)
LEMMA PlaceKept ==
  ASSUME FileTypes, FileInv, WindowTypes, WindowInv, LoadInv, FlawlessSoFar, FlawlessSoFar',
         eof' => Complete', Reading, PlaceInv, WindowNames, Loading => ArgumentsInv,
         Len(instances) \in Nat, LoadInstance => Len(instances') = Len(instances) + 1, [Next]_vars
  PROVE  /\ Reading' => PlaceInv' /\ WindowNames'
         /\ ~Reading' => Len(statements') = Len(instances') + 1
         /\ UNCHANGED good_ /\ pc' \notin {"done", "thrown"}
<1>1. NoBad(input)
  BY DEF PlaceInv
<1>2. CASE ScanInstance \/ ScanOther
  <2>1. UNCHANGED good_ /\ pc' \in {"open", "advance"}
    BY <1>2 DEF ScanInstance, ScanOther
  <2> QED BY <1>2, <2>1, PlaceOfScan DEF Reading
<1>3. CASE SoundAdvance
  <2>1. UNCHANGED good_ /\ pc' = "scan"
    BY <1>3 DEF SoundAdvance
  <2> QED BY <1>3, <2>1, PlaceOfAdvance DEF Reading
<1>4. CASE ScanEnd
  <2>1. /\ UNCHANGED <<good_, statements, instances, eof, input>> /\ pc' = "resolve" /\ eof
        /\ Complete'
    BY <1>4 DEF ScanEnd, fileVars, mapVars
  <2>2. Current = End /\ statements # <<>>
    BY <2>1 DEF Complete, Current
  <2>3. ~Between
    BY <2>2, NotBetween
  <2> QED BY <2>1, <2>3 DEF PlaceInv, Reading
<1>5. CASE LoadStep
  <2>1. UNCHANGED good_ /\ pc' \in {"open", "load"}
    BY <1>5 DEF LoadStep, LoadBegin, LoadComma, LoadOpen, LoadReference, LoadValue, LoadTyped,
                LoadReturn
  <2> QED BY <1>5, <2>1, PlaceOfLoad DEF Reading
<1>6. CASE LoadInstance
  <2>1. UNCHANGED good_ /\ pc' = "advance" /\ Loading
    BY <1>6 DEF LoadInstance, Loading
  <2> QED BY <1>6, <2>1, PlaceOfReturn DEF Reading
<1>7. CASE UNCHANGED vars
  <2>1. UNCHANGED <<statements, part, input, eof, token_stream, pc, good_, instances>>
    BY <1>7 DEF vars, fileVars, mapVars
  <2>2. Between' = Between /\ InBeginning' = InBeginning /\ Current' = Current
    BY <2>1 DEF Between, InBeginning, Current, LastPart
  <2>3. PlaceInv' /\ WindowNames'
    BY <2>1, <2>2 DEF PlaceInv, WindowNames, NoBad, Remainders
  <2> QED BY <2>1, <2>3 DEF Reading
<1> QED BY <1>1, <1>2, <1>3, <1>4, <1>5, <1>6, <1>7, SoundSteps

(***************************************************************************)
(* A new instance is that of the statement that was read.                  *)
(***************************************************************************)
LEMMA StringArguments ==
  ASSUME NEW a \in Arguments, NEW b \in Arguments, a.kind = "string", b.kind = "string"
  PROVE  a.guid \in Guids /\ (a.guid = b.guid => a = b)
<1>1. a \in [kind : {"string"}, guid : Guids] /\ b \in [kind : {"string"}, guid : Guids]
  BY DEF Arguments
<1> QED BY <1>1

(* The statement s is loaded as the instance o.                            *)
InstanceOf(o, s) ==
  /\ o.name = s.name /\ o.type = s.keyword
  /\ DOMAIN o.attr = 0..Len(s.args)-1
  /\ o.guid = IF s.keyword \in Rooted /\ s.args # <<>> THEN s.args[1].guid ELSE ""

MadeSound(made, last) ==
  /\ last = Len(instances) + 1 /\ last = Len(statements) /\ Len(instances') = last
  /\ Len(instances) \in Nat
  /\ \A n \in 1..Len(instances) : instances'[n] = instances[n]
  /\ instances'[last] = made /\ InstanceOf(made, Current)
  /\ \A i \in DOMAIN made.attr : made.attr[i] = {}
  /\ made.guid \in Guids \cup {""} /\ made.name \in Names
  /\ byguid_' = IF made.guid = "" THEN byguid_ ELSE [byguid_ EXCEPT ![made.guid] = last]
  /\ byid_' = [byid_ EXCEPT ![made.name] = last]
  /\ made.name <= MaxId' /\ MaxId <= MaxId'

LEMMA SoundItems ==
  ASSUME FileTypes, FileInv, LoadInv, CallTypes, FlawlessSoFar, ArgumentsInv, eof' => Complete',
         LoadInstance
  PROVE  /\ Top = frames[1] /\ Top.items \in Seq(Items) /\ token_stream[3][2] = Current.keyword
         /\ Current.keyword \in Entities /\ current_id = Current.name /\ current_id \in Names
         /\ Size = Len(Current.args) /\ Len(Top.items) = Size /\ Size \in Nat
         /\ \A n \in 1..Size : Top.items[n] = ItemOf(Current.args[n])
         /\ GuidOf(Current.keyword) =
              IF Current.keyword \in Rooted /\ Current.args # <<>> THEN Current.args[1].guid ELSE ""
<1>1. Loading /\ pc = "load" /\ Len(frames) = 1 /\ frames \in Seq(Frames)
  BY DEF LoadInstance, Loading, CallTypes
<1>2. InCalls /\ InStatement
  BY <1>1 DEF LoadInv
<1>3. Top = frames[1] /\ Top.items \in Seq(Items) /\ Len(Top.items) \in Nat
  BY <1>1, <1>2, TopFacts, FrameFacts
<1>4. token_stream[3][2] = Current.keyword /\ current_id = Current.name
  BY <1>2, TokenKinds DEF InStatement, Begun
<1>5. /\ Current.name \in Names /\ Current.keyword \in Entities
      /\ Current.args \in Seq(Arguments)
  BY <1>1, LoadingFacts
<1>6. Regular(Current)
  BY <1>1, RegularNow
<1>7. Len(Top.items) = Len(Current.args)
  BY <1>3, ReturnsAtEnd
<1>8. Size = Len(Current.args) /\ Size \in Nat
  <2>1. Size = Min({Arity[Current.keyword], Len(Top.items)})
    BY <1>4 DEF Size
  <2>2. Arity[Current.keyword] = Len(Top.items)
    BY <1>6, <1>7 DEF Regular
  <2> DEFINE l == Len(Top.items)
  <2>3. l \in Int /\ Size = Min({l, l}) /\ l = Len(Current.args) /\ l \in Nat
    BY <1>3, <1>7, <2>1, <2>2
  <2> HIDE DEF l
  <2> QED BY <2>3, MinOfTwo
<1>9. \A n \in 1..Size : Top.items[n] = ItemOf(Current.args[n])
  BY <1>3, <1>7, <1>8 DEF ArgumentsInv
<1>10. GuidOf(Current.keyword) =
         IF Current.keyword \in Rooted /\ Current.args # <<>> THEN Current.args[1].guid ELSE ""
  <2>1. Current.args # <<>> <=> Size > 0
    BY <1>5, <1>8
  <2>2. ASSUME Current.keyword \in Rooted, Current.args # <<>>
        PROVE  Top.items[1].kind = "string" /\ Top.items[1].guid = Current.args[1].guid
    <3>1. Current.args[1].kind = "string"
      BY <1>6, <2>2 DEF Regular
    <3>2. 1 \in 1..Size
      BY <1>8, <2>1, <2>2
    <3>3. Top.items[1] = ItemOf(Current.args[1])
      BY <1>9, <3>2
    <3>4. ItemOf(Current.args[1]) = [kind |-> "string", guid |-> Current.args[1].guid]
      BY <3>1 DEF ItemOf
    <3> QED BY <3>3, <3>4
  <2> QED BY <2>1, <2>2, Zenon DEF GuidOf
<1> QED BY <1>3, <1>4, <1>5, <1>7, <1>8, <1>9, <1>10

LEMMA InstanceIsSound ==
  ASSUME FileTypes, FileInv, LoadInv, CallTypes, InstanceTypes, FlawlessSoFar, ArgumentsInv,
         eof' => Complete', Len(statements) = Len(instances) + 1, LoadInstance
  PROVE  \E made, last : MadeSound(made, last)
<1> DEFINE e == Current.keyword
           made == [name |-> current_id, type |-> e, guid |-> GuidOf(e),
                    attr |-> [i \in 0..Size-1 |-> {}]]
           last == Len(instances) + 1
<1>1. /\ token_stream[3][2] = e /\ current_id = Current.name /\ current_id \in Names
      /\ Size = Len(Current.args)
      /\ GuidOf(e) = IF e \in Rooted /\ Current.args # <<>> THEN Current.args[1].guid ELSE ""
  BY SoundItems
<1>2. /\ instances' = Append(instances, made)
      /\ byguid_' = IF made.guid = "" THEN byguid_ ELSE [byguid_ EXCEPT ![made.guid] = last]
      /\ byid_' = [byid_ EXCEPT ![made.name] = last]
      /\ MaxId' = Max({MaxId, made.name})
  BY <1>1 DEF LoadInstance, EnterInstance
<1>3. /\ made.name = current_id /\ made.type = e /\ made.guid = GuidOf(e)
      /\ DOMAIN made.attr = 0..Size-1
      /\ \A i \in DOMAIN made.attr : made.attr[i] = {}
  OBVIOUS
<1>4. made.guid \in Guids \cup {""}
  <2>1. PICK m : instances' = Append(instances, m) /\ m.guid \in Guids \cup {""}
    BY MadeFacts
  <2> HIDE DEF made
  <2>2. m = made
    <3>1. Append(instances, m)[last] = m /\ Append(instances, made)[last] = made
      BY InstanceTypes DEF InstanceTypes
    <3> QED BY <1>2, <2>1, <3>1
  <2> QED BY <2>1, <2>2
<1> HIDE DEF made
<1>5. /\ Len(instances') = last /\ Len(instances) \in Nat
      /\ \A n \in 1..Len(instances) : instances'[n] = instances[n]
      /\ instances'[last] = made
  BY <1>2, InstanceAdded, InstanceFacts
<1>6. made.name <= MaxId' /\ MaxId <= MaxId'
  <2>1. Names \subseteq Int
    BY NamesAssumption, FS_CardinalityType
  <2>2. MaxId \in Int /\ made.name \in Int
    <3>1. MaxId \in Names \cup {0}
      BY DEF InstanceTypes
    <3>2. made.name \in Names
      BY <1>1, <1>3, Zenon
    <3>3. 0 \in Int /\ \A k \in Names : k \in Int
      BY <2>1
    <3> QED BY <3>1, <3>2, <3>3, Zenon
  <2> QED BY <1>2, <2>2, MaxOfTwo
<1>7. InstanceOf(made, Current)
  BY <1>1, <1>3 DEF InstanceOf
<1> QED BY <1>1, <1>2, <1>3, <1>4, <1>5, <1>6, <1>7 DEF MadeSound

(* The statements before the one being read have another name and GlobalId. *)
LEMMA OthersDiffer ==
  ASSUME FileTypes, FileInv, LoadInv, Loading, FlawlessSoFar, NEW n \in 1..Len(statements),
         n # Len(statements)
  PROVE  /\ statements[n].name # Current.name
         /\ LET s == statements[n]
            IN s.keyword \in Rooted /\ s.args # <<>>
               /\ Current.keyword \in Rooted /\ Current.args # <<>> =>
                 s.args[1].guid # Current.args[1].guid
<1>1. Len(statements) \in Nat \ {0} /\ Current = statements[Len(statements)]
      /\ Current \in Statements /\ Current # End
  BY LoadingFacts, CurrentStatement, StatementFacts
<1>2. n \in 1..Len(statements)-1 /\ Len(statements) \in 1..Len(statements)
  BY <1>1
<1>3. statements[n] # End /\ statements[n] \in Statements
  BY <1>1, <1>2 DEF FileInv, FileTypes
<1>4. Regular(statements[n]) /\ Regular(Current) /\ Distinct(statements[n], Current)
  BY <1>1, <1>2, <1>3 DEF FlawlessSoFar
<1> DEFINE s == statements[n]
<1>5. ASSUME s.keyword \in Rooted, s.args # <<>>, Current.keyword \in Rooted, Current.args # <<>>
      PROVE  s.args[1].guid # Current.args[1].guid
  <2>1. s.args \in Seq(Arguments) /\ Current.args \in Seq(Arguments)
    BY <1>1, <1>3, StatementFacts
  <2>2. s.args[1] \in Arguments /\ Current.args[1] \in Arguments
    BY <1>5, <2>1
  <2>3. s.args[1].kind = "string" /\ Current.args[1].kind = "string"
    BY <1>4, <1>5 DEF Regular
  <2>4. s.args[1] # Current.args[1]
    BY <1>4, <1>5 DEF Distinct
  <2> QED BY <2>2, <2>3, <2>4, StringArguments
<1> QED BY <1>4, <1>5 DEF Distinct

LEMMA EnteredOfInstance ==
  ASSUME FileTypes, FileInv, LoadInv, CallTypes, InstanceTypes, FlawlessSoFar, ArgumentsInv,
         eof' => Complete', Len(statements) = Len(instances) + 1, EnteredInv, LoadInstance
  PROVE  EnteredInv'
<1>1. PICK made, last : MadeSound(made, last)
  BY InstanceIsSound
<1>2. /\ last = Len(instances) + 1 /\ last = Len(statements) /\ Len(instances') = last
      /\ Len(instances) \in Nat
      /\ \A n \in 1..Len(instances) : instances'[n] = instances[n]
      /\ instances'[last] = made
      /\ made.name <= MaxId' /\ MaxId <= MaxId' /\ made.name \in Names
  BY <1>1 DEF MadeSound
<1>3. /\ InstanceOf(made, Current) /\ made.guid \in Guids \cup {""}
      /\ byguid_' = IF made.guid = "" THEN byguid_ ELSE [byguid_ EXCEPT ![made.guid] = last]
      /\ byid_' = [byid_ EXCEPT ![made.name] = last]
  BY <1>1 DEF MadeSound
<1>4. /\ UNCHANGED statements /\ Loading
      /\ Current = statements[last] /\ Current # End
  BY <1>2, ReturnsAtEnd, LoadingFacts, CurrentStatement, StatementFacts DEF LoadInstance, Loading
<1>5. /\ made.name = Current.name
      /\ made.guid = IF Current.keyword \in Rooted /\ Current.args # <<>>
                     THEN Current.args[1].guid ELSE ""
  BY <1>3 DEF InstanceOf
<1>6. byid_ \in [Names -> 0..Len(instances)] /\ byguid_ \in [Guids -> 0..Len(instances)]
      /\ MaxId \in Int /\ \A k \in Names : k \in Int
  <2>1. Names \subseteq Int
    BY NamesAssumption, FS_CardinalityType
  <2>2. 0 \in Int /\ \A k \in Names : k \in Int
    BY <2>1
  <2>3. MaxId \in Names \cup {0}
    BY DEF InstanceTypes
  <2>4. MaxId \in Int
    BY <2>2, <2>3, Zenon
  <2> QED BY <2>2, <2>4 DEF InstanceTypes
<1>7. ASSUME NEW n \in 1..Len(instances)
      PROVE  LET s == statements'[n]
                 o == instances'[n]
             IN /\ n <= Len(statements') /\ s # End
                /\ InstanceOf(o, s)
                /\ byid_'[o.name] = n /\ o.name <= MaxId'
                /\ o.guid # "" => byguid_'[o.guid] = n
  <2> DEFINE s == statements[n]
             o == instances[n]
  <2>1. /\ n <= Len(statements) /\ s # End
        /\ InstanceOf(o, s)
        /\ byid_[o.name] = n /\ o.name <= MaxId
        /\ o.guid # "" => byguid_[o.guid] = n
    BY DEF EnteredInv, InstanceOf
  <2>2. o = instances'[n] /\ s = statements'[n] /\ n <= Len(statements')
    BY <1>2, <1>4, <2>1
  <2>3. o.name \in Names /\ o.guid \in Guids \cup {""}
    BY DEF InstanceTypes, IsInstance
  <2>4. n \in 1..Len(statements) /\ n # Len(statements)
    BY <1>2
  <2>5. /\ s.name # Current.name
        /\ s.keyword \in Rooted /\ s.args # <<>>
           /\ Current.keyword \in Rooted /\ Current.args # <<>> =>
             s.args[1].guid # Current.args[1].guid
    BY <1>4, <2>4, OthersDiffer
  <2>6. /\ o.name = s.name
        /\ o.guid = IF s.keyword \in Rooted /\ s.args # <<>> THEN s.args[1].guid ELSE ""
    BY <2>1 DEF InstanceOf
  <2> HIDE DEF s, o
  <2>7. byid_'[o.name] = n
    BY <1>3, <1>5, <1>6, <2>1, <2>3, <2>5, <2>6
  <2>8. o.guid # "" => o.guid # made.guid
    BY <1>5, <2>5, <2>6, Zenon
  <2>9. ASSUME o.guid # ""
        PROVE  byguid_'[o.guid] = n
    <3>1. o.guid \in Guids /\ o.guid # made.guid /\ byguid_[o.guid] = n
      BY <2>1, <2>3, <2>8, <2>9, Zenon
    <3>2. byguid_' = byguid_ \/ byguid_' = [byguid_ EXCEPT ![made.guid] = last]
      BY <1>3, Zenon
    <3> QED BY <1>6, <3>1, <3>2
  <2>10. o.name <= MaxId'
    <3>1. o.name \in Int /\ MaxId' \in Int
      <4>1. MaxId' \in Names \cup {0}
        <5>1. InstanceTypes'
          BY TypesOfMade
        <5> QED BY <5>1 DEF InstanceTypes
      <4>2. 0 \in Int
        OBVIOUS
      <4> QED BY <1>6, <2>3, <4>1, <4>2, Zenon
    <3>2. o.name <= MaxId /\ MaxId <= MaxId' /\ MaxId \in Int
      BY <1>2, <1>6, <2>1, Zenon
    <3> QED BY <3>1, <3>2
  <2> QED BY <2>1, <2>2, <2>7, <2>9, <2>10, Zenon
<1>8. LET s == statements'[last]
          o == instances'[last]
      IN /\ last <= Len(statements') /\ s # End
         /\ InstanceOf(o, s)
         /\ byid_'[o.name] = last /\ o.name <= MaxId'
         /\ o.guid # "" => byguid_'[o.guid] = last
  <2>1. last <= Len(statements') /\ statements'[last] = Current /\ instances'[last] = made
    BY <1>2, <1>4
  <2>2. byid_'[made.name] = last
    BY <1>2, <1>3, <1>6
  <2>3. ASSUME made.guid # ""
        PROVE  byguid_'[made.guid] = last
    <3>1. made.guid \in Guids /\ byguid_' = [byguid_ EXCEPT ![made.guid] = last]
      BY <1>3, <2>3, Zenon
    <3> QED BY <1>6, <3>1
  <2> QED BY <1>2, <1>3, <1>4, <2>1, <2>2, <2>3, Zenon
<1>9. \A n \in 1..Len(instances') : n \in 1..Len(instances) \/ n = last
  BY <1>2
<1>10. \A n \in 1..Len(instances') :
         LET s == statements'[n]
             o == instances'[n]
         IN /\ n <= Len(statements') /\ s # End
            /\ InstanceOf(o, s)
            /\ byid_'[o.name] = n /\ o.name <= MaxId'
            /\ o.guid # "" => byguid_'[o.guid] = n
  BY <1>7, <1>8, <1>9, Zenon
<1> QED BY <1>10, Zenon DEF EnteredInv, InstanceOf, End

(***************************************************************************)
(* The references of a new instance are to resolve.                        *)
(***************************************************************************)
LEMMA JoinedFirst ==
  ASSUME NEW S, NEW a \in Seq(S), NEW b \in Seq(S), NEW n \in 1..Len(a)
  PROVE  n \in 1..Len(a \o b) /\ (a \o b)[n] = a[n]
  OBVIOUS

LEMMA JoinedSecond ==
  ASSUME NEW S, NEW a \in Seq(S), NEW b \in Seq(S), NEW k \in 1..Len(b)
  PROVE  Len(a) + k \in 1..Len(a \o b) /\ (a \o b)[Len(a) + k] = b[k]
  OBVIOUS

LEMMA JoinedFrom ==
  ASSUME NEW S, NEW a \in Seq(S), NEW b \in Seq(S), NEW n \in 1..Len(a \o b)
  PROVE  n \in 1..Len(a) \/ \E k \in 1..Len(b) : (a \o b)[n] = b[k]
<1>1. n \notin 1..Len(a) => n - Len(a) \in 1..Len(b) /\ (a \o b)[n] = b[n - Len(a)]
  OBVIOUS
<1> QED BY <1>1

LEMMA JoinedReferences ==
  ASSUME references_to_resolve \in Seq(Unresolveds), Unresolved \in Seq(Unresolveds),
         references_to_resolve' = references_to_resolve \o Unresolved,
         NEW q \in 1..Len(references_to_resolve')
  PROVE  \/ q \in 1..Len(references_to_resolve)
         \/ \E k \in 1..Len(Unresolved) : references_to_resolve'[q] = Unresolved[k]
BY JoinedFrom

LEMMA ItemKinds ==
  ASSUME NEW a, ItemOf(a).kind \in {"ref", "list"}
  PROVE  a.kind = ItemOf(a).kind /\ a.refs = ItemOf(a).refs
<1>1. CASE a.kind = "string"
  BY <1>1 DEF ItemOf
<1>2. CASE a.kind = "ref"
  BY <1>2 DEF ItemOf
<1>3. CASE a.kind = "list"
  BY <1>3 DEF ItemOf
<1>4. CASE a.kind \notin {"string", "ref", "list"}
  BY <1>4 DEF ItemOf
<1> QED BY <1>1, <1>2, <1>3, <1>4

LEMMA ReferringItems ==
  ASSUME NEW a, RefersTo(a) # {}
  PROVE  ItemOf(a).kind \in {"ref", "list"}
<1>1. CASE a.kind = "ref"
  BY <1>1 DEF ItemOf
<1>2. CASE a.kind = "list" /\ a.refs # {}
  BY <1>2 DEF ItemOf
<1> QED BY <1>1, <1>2 DEF RefersTo

(* The references that a new instance adds                                 *)
LEMMA AddedReferences ==
  ASSUME FileTypes, FileInv, LoadInv, CallTypes, ReferenceTypes, FlawlessSoFar, ArgumentsInv,
         eof' => Complete', LoadInstance
  PROVE  LET old == references_to_resolve
             new == references_to_resolve'
             all == 0..Len(Current.args)-1
         IN /\ \A q \in 1..Len(old) : q \in 1..Len(new) /\ new[q] = old[q]
            /\ \A q \in 1..Len(new) :
                 \/ q \in 1..Len(old) /\ new[q] = old[q]
                 \/ /\ new[q].name = Current.name /\ new[q].index \in all
                    /\ new[q].kind = Current.args[new[q].index + 1].kind
                    /\ new[q].refs = Current.args[new[q].index + 1].refs
            /\ \A i \in all : RefersTo(Current.args[i + 1]) # {} =>
                 \E q \in 1..Len(new) : new[q].name = Current.name /\ new[q].index = i
<1> DEFINE items == Top.items
           size == Len(Current.args)
           old == references_to_resolve
           new == references_to_resolve'
<1>1. /\ items \in Seq(Items) /\ Current.keyword \in Entities
      /\ token_stream[3][2] = Current.keyword
      /\ current_id = Current.name /\ current_id \in Names
      /\ Size = size /\ size \in Nat /\ Len(items) = size
      /\ \A n \in 1..size : items[n] = ItemOf(Current.args[n])
  BY SoundItems
<1>2. /\ Unresolved \in Seq(Unresolveds)
      /\ \A k \in 1..Len(Unresolved) : \E n \in 1..Size :
           /\ n \in 1..Len(items) /\ items[n].kind \in {"ref", "list"}
           /\ Unresolved[k].name = current_id /\ Unresolved[k].index = n - 1
           /\ Unresolved[k].kind = items[n].kind /\ Unresolved[k].refs = items[n].refs
      /\ \A n \in 1..Size : items[n].kind \in {"ref", "list"} =>
           \E k \in 1..Len(Unresolved) :
             Unresolved[k].name = current_id /\ Unresolved[k].index = n - 1
  BY <1>1, UnresolvedItems
<1>3. old \in Seq(Unresolveds) /\ new = old \o Unresolved
  BY DEF LoadInstance, ReferenceTypes
<1>4. /\ \A q \in 1..Len(old) : q \in 1..Len(new) /\ new[q] = old[q]
      /\ \A k \in 1..Len(Unresolved) : \E q \in 1..Len(new) : new[q] = Unresolved[k]
      /\ \A q \in 1..Len(new) :
           \/ q \in 1..Len(old) /\ new[q] = old[q]
           \/ \E k \in 1..Len(Unresolved) : new[q] = Unresolved[k]
  <2>0. /\ references_to_resolve \in Seq(Unresolveds) /\ Unresolved \in Seq(Unresolveds)
        /\ references_to_resolve' = references_to_resolve \o Unresolved
    BY <1>2, <1>3
  <2>1. ASSUME NEW q \in 1..Len(old)
        PROVE  q \in 1..Len(new) /\ new[q] = old[q]
    BY <2>0, JoinedFirst
  <2>3. ASSUME NEW k \in 1..Len(Unresolved)
        PROVE  \E q \in 1..Len(new) : new[q] = Unresolved[k]
    BY <2>0, JoinedSecond
  <2>2. ASSUME NEW q \in 1..Len(new)
        PROVE  \/ q \in 1..Len(old) /\ new[q] = old[q]
               \/ \E k \in 1..Len(Unresolved) : new[q] = Unresolved[k]
    <3>1. q \in 1..Len(old) \/ \E k \in 1..Len(Unresolved) : new[q] = Unresolved[k]
      BY <2>0, JoinedReferences
    <3> QED BY <2>1, <3>1
  <2> QED BY <2>1, <2>2, <2>3, Zenon
<1> HIDE DEF items, old, new
<1>5. ASSUME NEW k \in 1..Len(Unresolved)
      PROVE  LET r == Unresolved[k]
             IN /\ r.name = Current.name /\ r.index \in 0..size-1
                /\ r.kind = Current.args[r.index + 1].kind
                /\ r.refs = Current.args[r.index + 1].refs
  <2> DEFINE r == Unresolved[k]
  <2>1. PICK n \in 1..size : /\ items[n].kind \in {"ref", "list"}
                             /\ r.name = current_id /\ r.index = n - 1
                             /\ r.kind = items[n].kind /\ r.refs = items[n].refs
    BY <1>1, <1>2
  <2> HIDE DEF r
  <2>2. r.index \in 0..size-1 /\ r.index + 1 = n
    BY <1>1, <2>1
  <2>3. items[n] = ItemOf(Current.args[n])
    BY <1>1
  <2>4. Current.args[n].kind = items[n].kind /\ Current.args[n].refs = items[n].refs
    BY <2>1, <2>3, ItemKinds
  <2> QED BY <1>1, <2>1, <2>2, <2>4 DEF r
<1>6. ASSUME NEW i \in 0..size-1, RefersTo(Current.args[i + 1]) # {}
      PROVE  \E q \in 1..Len(new) : new[q].name = Current.name /\ new[q].index = i
  <2>1. PICK n \in 1..size : n = i + 1
    BY <1>1
  <2>2. items[n].kind \in {"ref", "list"}
    BY <1>1, <1>6, <2>1, ReferringItems
  <2>3. PICK k \in 1..Len(Unresolved) :
          Unresolved[k].name = current_id /\ Unresolved[k].index = n - 1
    BY <1>1, <1>2, <2>2
  <2>4. n - 1 = i
    BY <2>1
  <2> QED BY <1>1, <1>4, <2>3, <2>4
<1>7. ASSUME NEW q \in 1..Len(new)
      PROVE  \/ q \in 1..Len(old) /\ new[q] = old[q]
             \/ /\ new[q].name = Current.name /\ new[q].index \in 0..size-1
                /\ new[q].kind = Current.args[new[q].index + 1].kind
                /\ new[q].refs = Current.args[new[q].index + 1].refs
  <2>1. CASE q \in 1..Len(old) /\ new[q] = old[q]
    BY <2>1
  <2>2. ASSUME NEW k \in 1..Len(Unresolved), new[q] = Unresolved[k]
        PROVE  /\ new[q].name = Current.name /\ new[q].index \in 0..size-1
               /\ new[q].kind = Current.args[new[q].index + 1].kind
               /\ new[q].refs = Current.args[new[q].index + 1].refs
    BY <1>5, <2>2, Zenon
  <2> QED BY <1>4, <2>1, <2>2
<1>8. \A q \in 1..Len(old) : q \in 1..Len(new) /\ new[q] = old[q]
  BY <1>4
<1> QED BY <1>6, <1>7, <1>8, Zenon DEF old, new

LEMMA OutstandingOfInstance ==
  ASSUME FileTypes, FileInv, LoadInv, CallTypes, InstanceTypes, ReferenceTypes, FlawlessSoFar,
         ArgumentsInv, eof' => Complete', Len(statements) = Len(instances) + 1, EnteredInv,
         OutstandingInv, LoadInstance
  PROVE  OutstandingInv'
<1>1. PICK made, last : MadeSound(made, last)
  BY InstanceIsSound
<1>2. /\ last = Len(instances) + 1 /\ last = Len(statements) /\ Len(instances') = last
      /\ Len(instances) \in Nat
      /\ \A n \in 1..Len(instances) : instances'[n] = instances[n]
      /\ instances'[last] = made /\ InstanceOf(made, Current)
      /\ \A i \in DOMAIN made.attr : made.attr[i] = {}
  BY <1>1 DEF MadeSound
<1>3. made.name = Current.name /\ DOMAIN made.attr = 0..Len(Current.args)-1
  BY <1>2 DEF InstanceOf
<1>4. /\ UNCHANGED statements /\ Reading
      /\ Current = statements[last] /\ Loading
  BY <1>2, ReturnsAtEnd, LoadingFacts, CurrentStatement DEF LoadInstance, Loading, Reading
<1> DEFINE old == references_to_resolve
           new == references_to_resolve'
           all == 0..Len(Current.args)-1
<1>5. /\ \A q \in 1..Len(old) : q \in 1..Len(new) /\ new[q] = old[q]
      /\ \A q \in 1..Len(new) :
           \/ q \in 1..Len(old) /\ new[q] = old[q]
           \/ /\ new[q].name = Current.name /\ new[q].index \in all
              /\ new[q].kind = Current.args[new[q].index + 1].kind
              /\ new[q].refs = Current.args[new[q].index + 1].refs
      /\ \A i \in all : RefersTo(Current.args[i + 1]) # {} =>
           \E q \in 1..Len(new) : new[q].name = Current.name /\ new[q].index = i
  BY AddedReferences
<1>6. /\ \A n \in 1..Len(instances') : n \in 1..Len(instances) \/ n = last
      /\ \A n \in 1..Len(instances) : n \in 1..Len(instances')
      /\ last \in 1..Len(instances')
  BY <1>2
<1>7. ASSUME NEW q \in 1..Len(old)
      PROVE  \E n \in 1..Len(instances) :
               /\ old[q].name = instances[n].name /\ old[q].index \in DOMAIN instances[n].attr
               /\ old[q].kind = statements[n].args[old[q].index + 1].kind
               /\ old[q].refs = statements[n].args[old[q].index + 1].refs
  BY DEF OutstandingInv
<1>8. ASSUME NEW n \in 1..Len(instances), NEW i \in DOMAIN instances[n].attr
      PROVE  /\ instances[n].attr[i] = {}
             /\ \/ RefersTo(statements[n].args[i + 1]) = {}
                \/ \E q \in 1..Len(old) : old[q].name = instances[n].name /\ old[q].index = i
  <2>1. /\ \/ instances[n].attr[i] = {byid_[k] : k \in RefersTo(statements[n].args[i + 1])}
           \/ \E q \in 1..Len(old) : old[q].name = instances[n].name /\ old[q].index = i
        /\ instances[n].attr[i] = {}
    BY <1>4 DEF OutstandingInv
  <2> QED BY <2>1
<1> HIDE DEF old, new, all
<1>9. ASSUME NEW q \in 1..Len(new)
      PROVE  \E n \in 1..Len(instances') :
               /\ new[q].name = instances'[n].name /\ new[q].index \in DOMAIN instances'[n].attr
               /\ new[q].kind = statements'[n].args[new[q].index + 1].kind
               /\ new[q].refs = statements'[n].args[new[q].index + 1].refs
  <2>1. CASE q \in 1..Len(old) /\ new[q] = old[q]
    <3>1. PICK n \in 1..Len(instances) :
            /\ old[q].name = instances[n].name /\ old[q].index \in DOMAIN instances[n].attr
            /\ old[q].kind = statements[n].args[old[q].index + 1].kind
            /\ old[q].refs = statements[n].args[old[q].index + 1].refs
      BY <1>7, <2>1
    <3>2. n \in 1..Len(instances') /\ instances'[n] = instances[n]
      BY <1>2, <1>6
    <3> QED BY <1>4, <2>1, <3>1, <3>2, Zenon
  <2>2. CASE /\ new[q].name = Current.name /\ new[q].index \in all
             /\ new[q].kind = Current.args[new[q].index + 1].kind
             /\ new[q].refs = Current.args[new[q].index + 1].refs
    BY <1>2, <1>3, <1>4, <1>6, <2>2, Zenon DEF all
  <2> QED BY <1>5, <2>1, <2>2
<1>10. ASSUME NEW n \in 1..Len(instances'), NEW i \in DOMAIN instances'[n].attr
       PROVE  /\ instances'[n].attr[i] = {}
              /\ \/ RefersTo(statements'[n].args[i + 1]) = {}
                 \/ \E q \in 1..Len(new) : new[q].name = instances'[n].name /\ new[q].index = i
  <2>1. CASE n \in 1..Len(instances)
    <3>1. instances'[n] = instances[n]
      BY <1>2, <2>1
    <3>2. i \in DOMAIN instances[n].attr
      BY <3>1, Zenon
    <3>3. /\ instances[n].attr[i] = {}
          /\ \/ RefersTo(statements[n].args[i + 1]) = {}
             \/ \E q \in 1..Len(old) : old[q].name = instances[n].name /\ old[q].index = i
      BY <1>8, <2>1, <3>2, Zenon
    <3> QED BY <1>4, <1>5, <3>1, <3>3, Zenon
  <2>2. CASE n = last
    <3>1. instances'[n] = made /\ statements'[n] = Current /\ i \in all
      BY <1>2, <1>3, <1>4, <2>2, Zenon DEF all
    <3>2. made.attr[i] = {}
      BY <1>2, <3>1
    <3>3. \/ RefersTo(Current.args[i + 1]) = {}
          \/ \E q \in 1..Len(new) : new[q].name = Current.name /\ new[q].index = i
      BY <1>5, <3>1, Zenon
    <3> QED BY <1>3, <3>1, <3>2, <3>3, Zenon
  <2> QED BY <1>6, <2>1, <2>2
<1>11. ASSUME NEW n \in 1..Len(instances'), NEW i \in DOMAIN instances'[n].attr
       PROVE  /\ instances'[n].attr[i] = {}
              /\ \/ instances'[n].attr[i] = {byid_'[k] : k \in RefersTo(statements'[n].args[i + 1])}
                 \/ \E q \in 1..Len(new) : new[q].name = instances'[n].name /\ new[q].index = i
  <2> DEFINE refs == RefersTo(statements'[n].args[i + 1])
  <2>1. CASE refs = {}
    <3>1. {byid_'[k] : k \in refs} = {}
      BY <2>1
    <3> QED BY <1>10, <3>1, Zenon
  <2>2. CASE refs # {}
    BY <1>10, <2>2
  <2> QED BY <2>1, <2>2
<1> QED BY <1>9, <1>11 DEF OutstandingInv, new, RefersTo

(***************************************************************************)
(* The references of a file without a flaw are resolved.                   *)
(***************************************************************************)
LEMMA EnteredFacts ==
  ASSUME EnteredInv, NEW n \in 1..Len(instances)
  PROVE  /\ n <= Len(statements) /\ statements[n] # End
         /\ instances[n].name = statements[n].name /\ instances[n].type = statements[n].keyword
         /\ DOMAIN instances[n].attr = 0..Len(statements[n].args)-1
         /\ byid_[instances[n].name] = n
BY DEF EnteredInv

LEMMA SoundStatement ==
  ASSUME FileTypes, Sound, NEW n \in 1..Len(statements)-1
  PROVE  /\ WellFormed(statements[n]) /\ statements[n] # End /\ statements[n] \in Statements
         /\ statements[n].args \in Seq(Arguments) /\ Len(statements[n].args) \in Nat
<1>1. WellFormed(statements[n])
  BY DEF Sound
<1>2. statements[n].keyword \in Entities
  BY <1>1 DEF WellFormed, Regular
<1>3. n \in 1..Len(statements) /\ statements[n] \in Statements \cup {End}
  BY DEF FileTypes
<1>4. statements[n] # End /\ statements[n] \in Statements
  BY <1>2, <1>3, EndFacts
<1> QED BY <1>1, <1>4, StatementFacts

(* A name in a file without a flaw leads to an instance.                   *)
LEMMA SoundName ==
  ASSUME FileTypes, Sound, Len(statements) = Len(instances) + 1, Len(instances) \in Nat,
         EnteredInv, NEW n \in 1..Len(instances), NEW i \in 0..Len(statements[n].args)-1,
         NEW k \in RefersTo(statements[n].args[i + 1])
  PROVE  byid_[k] \in 1..Len(instances) /\ instances[byid_[k]].name = k
<1>1. n \in 1..Len(statements)-1
  OBVIOUS
<1>2. WellFormed(statements[n]) /\ Len(statements[n].args) \in Nat
  BY <1>1, SoundStatement
<1>3. PICK j \in 1..Len(statements[n].args) : j = i + 1
  BY <1>2
<1>4. PICK m \in KnownStatements : statements[m].name = k
  BY <1>2, <1>3 DEF WellFormed
<1>5. statements[Len(statements)] = End
  BY SoundIsFlawless
<1>6. m \in 1..Len(statements) /\ m # Len(statements)
  BY <1>5, EndFacts DEF KnownStatements
<1>7. m \in 1..Len(instances)
  BY <1>6
<1> QED BY <1>4, <1>7, EnteredFacts

LEMMA ReferringArgument ==
  ASSUME NEW a \in Arguments, a.kind \in {"ref", "list"}
  PROVE  RefersTo(a) = a.refs /\ (a.kind = "ref" => \E k \in Names : a.refs = {k})
<1>1. CASE a \in [kind : {"ref"}, refs : {{k} : k \in Names}]
  BY <1>1 DEF RefersTo
<1>2. CASE a.kind = "list"
  BY <1>2 DEF RefersTo
<1>3. a.kind = "ref" => a \in [kind : {"ref"}, refs : {{k} : k \in Names}]
  BY DEF Arguments
<1> QED BY <1>1, <1>2, <1>3

(* The first reference is resolved in the attribute i of the n-th instance. *)
ResolvedIn(n, i) ==
  /\ n \in 1..Len(instances) /\ i \in DOMAIN instances[n].attr
  /\ references_to_resolve[1].name = instances[n].name /\ references_to_resolve[1].index = i
  /\ OnlyAttribute(n, i, {byid_[k] : k \in RefersTo(statements[n].args[i + 1])})
  /\ pc' = "resolve"

LEMMA SoundReference ==
  ASSUME FileTypes, InstanceTypes, ReferenceTypes, Sound,
         Len(statements) = Len(instances) + 1, EnteredInv, OutstandingInv, ResolveReference
  PROVE  \E n, i : ResolvedIn(n, i)
<1> DEFINE p == references_to_resolve[1]
<1>1. /\ Head(references_to_resolve) = p /\ p \in Unresolveds
      /\ 1 \in 1..Len(references_to_resolve)
  <2>1. references_to_resolve # <<>> /\ references_to_resolve \in Seq(Unresolveds)
    BY DEF ReferenceTypes, ResolveReference
  <2> QED BY <2>1, TailOf
<1>2. Len(instances) \in Nat
  BY InstanceFacts
<1>3. PICK n \in 1..Len(instances) :
        /\ p.name = instances[n].name /\ p.index \in DOMAIN instances[n].attr
        /\ p.kind = statements[n].args[p.index + 1].kind
        /\ p.refs = statements[n].args[p.index + 1].refs
  BY <1>1 DEF OutstandingInv
<1> HIDE DEF p
<1>4. PICK i : i = p.index
  OBVIOUS
<1>5. /\ n <= Len(statements) /\ DOMAIN instances[n].attr = 0..Len(statements[n].args)-1
      /\ byid_[instances[n].name] = n
  BY EnteredFacts
<1>6. statements[n].args \in Seq(Arguments) /\ Len(statements[n].args) \in Nat
  <2>1. n \in 1..Len(statements)-1
    BY <1>2
  <2> QED BY <2>1, SoundStatement
<1>7. i \in 0..Len(statements[n].args)-1
  BY <1>3, <1>4, <1>5
<1>8. PICK a \in Arguments : a = statements[n].args[i + 1]
  <2>1. i + 1 \in 1..Len(statements[n].args)
    BY <1>6, <1>7
  <2> QED BY <1>6, <2>1
<1>9. p.kind \in {"ref", "list"} /\ p.kind = a.kind /\ p.refs = a.refs
  <2>1. p.kind \in {"ref", "list"}
    BY <1>1 DEF Unresolveds
  <2> QED BY <1>3, <1>4, <1>8, <2>1
<1>10. RefersTo(a) = p.refs /\ (p.kind = "ref" => \E k \in Names : p.refs = {k})
  BY <1>9, ReferringArgument
<1>11. \A k \in p.refs : byid_[k] \in 1..Len(instances) /\ byid_[k] # 0
  <2>1. \A k \in RefersTo(statements[n].args[i + 1]) : byid_[k] \in 1..Len(instances)
    BY <1>2, <1>7, SoundName
  <2> QED BY <1>2, <1>8, <1>10, <2>1
<1> DEFINE found == {byid_[k] : k \in p.refs}
<1>12. found \ {0} = found /\ found \in SUBSET (1..Len(instances))
  BY <1>11
<1>13. ~(p.kind = "ref" /\ found = {})
  BY <1>10
<1>14. byid_[p.name] = n /\ p.index \in DOMAIN instances[byid_[p.name]].attr
  BY <1>3, <1>5
<1>15. /\ instances' = IF p.kind = "ref" /\ found = {} THEN instances
                      ELSE [instances EXCEPT ![n].attr[i] = found]
       /\ pc' = "resolve"
  <2> HIDE DEF found
  <2>1. LET ff == {byid_[r] : r \in p.refs} \ {0}
            fits == p.index \in DOMAIN instances[byid_[p.name]].attr
            missing == p.kind = "ref" /\ ff = {}
        IN /\ instances' = IF missing \/ ~fits THEN instances
                           ELSE [instances EXCEPT ![byid_[p.name]].attr[p.index] = ff]
           /\ pc' = IF missing \/ fits THEN "resolve" ELSE "thrown"
    BY <1>1 DEF ResolveReference
  <2>2. {byid_[r] : r \in p.refs} \ {0} = found
    BY <1>12 DEF found
  <2> QED BY <1>4, <1>14, <2>1, <2>2, Zenon
<1>16. instances' = WithAttribute(n, i, found) /\ i \in DOMAIN instances[n].attr
  BY <1>3, <1>4, <1>13, <1>15 DEF WithAttribute
<1>17. found = {byid_[k] : k \in RefersTo(statements[n].args[i + 1])}
  BY <1>8, <1>10
<1> HIDE DEF found
<1>18. OnlyAttribute(n, i, found)
  BY <1>12, <1>16, AttributeSet
<1>19. ResolvedIn(n, i)
  BY <1>3, <1>4, <1>15, <1>16, <1>17, <1>18, Zenon DEF ResolvedIn, p
<1> QED BY <1>19

LEMMA EnteredOfResolved ==
  ASSUME EnteredInv, ResolveReference, NEW n, NEW i, ResolvedIn(n, i)
  PROVE  EnteredInv'
<1>1. /\ UNCHANGED <<statements, byid_, byguid_, MaxId>>
      /\ Len(instances') = Len(instances)
      /\ \A m \in 1..Len(instances) :
           /\ instances'[m].name = instances[m].name /\ instances'[m].type = instances[m].type
           /\ instances'[m].guid = instances[m].guid
           /\ DOMAIN instances'[m].attr = DOMAIN instances[m].attr
  BY DEF ResolveReference, fileVars, ResolvedIn, OnlyAttribute
<1>2. ASSUME NEW m \in 1..Len(instances')
      PROVE  LET s == statements[m]
                 o == instances'[m]
             IN /\ m <= Len(statements) /\ s # End
                /\ o.name = s.name /\ o.type = s.keyword
                /\ DOMAIN o.attr = 0..Len(s.args)-1
                /\ o.guid = IF s.keyword \in Rooted /\ s.args # <<>> THEN s.args[1].guid ELSE ""
                /\ byid_[o.name] = m /\ o.name <= MaxId
                /\ o.guid # "" => byguid_[o.guid] = m
  <2> DEFINE s == statements[m]
             o == instances[m]
  <2>1. /\ m <= Len(statements) /\ s # End
        /\ o.name = s.name /\ o.type = s.keyword
        /\ DOMAIN o.attr = 0..Len(s.args)-1
        /\ o.guid = IF s.keyword \in Rooted /\ s.args # <<>> THEN s.args[1].guid ELSE ""
        /\ byid_[o.name] = m /\ o.name <= MaxId
        /\ o.guid # "" => byguid_[o.guid] = m
    BY <1>1 DEF EnteredInv
  <2>2. /\ instances'[m].name = o.name /\ instances'[m].type = o.type
        /\ instances'[m].guid = o.guid /\ DOMAIN instances'[m].attr = DOMAIN o.attr
    BY <1>1
  <2> HIDE DEF s, o
  <2>3. /\ m <= Len(statements) /\ s # End
        /\ instances'[m].name = s.name /\ instances'[m].type = s.keyword
        /\ DOMAIN instances'[m].attr = 0..Len(s.args)-1
        /\ instances'[m].guid = IF s.keyword \in Rooted /\ s.args # <<>> THEN s.args[1].guid ELSE ""
        /\ byid_[instances'[m].name] = m /\ instances'[m].name <= MaxId
        /\ instances'[m].guid # "" => byguid_[instances'[m].guid] = m
    BY <2>1, <2>2, Zenon
  <2> QED BY <2>3, Zenon DEF s
<1> QED BY <1>1, <1>2 DEF EnteredInv, End

LEMMA OutstandingOfResolved ==
  ASSUME InstanceTypes, ReferenceTypes, EnteredInv, OutstandingInv, ResolveReference,
         NEW n, NEW i, ResolvedIn(n, i)
  PROVE  OutstandingInv'
<1> DEFINE old == references_to_resolve
           new == references_to_resolve'
<1>1. /\ UNCHANGED <<statements, byid_>> /\ ~Reading'
      /\ Len(instances') = Len(instances) /\ n \in 1..Len(instances)
      /\ \A m \in 1..Len(instances) :
           /\ instances'[m].name = instances[m].name
           /\ DOMAIN instances'[m].attr = DOMAIN instances[m].attr
           /\ \A j \in DOMAIN instances[m].attr :
                instances'[m].attr[j] =
                  IF m = n /\ j = i THEN {byid_[k] : k \in RefersTo(statements[n].args[i + 1])}
                  ELSE instances[m].attr[j]
      /\ old[1].name = instances[n].name /\ old[1].index = i
  BY DEF ResolveReference, fileVars, ResolvedIn, OnlyAttribute, Reading
<1>2. /\ Len(new) = Len(old) - 1 /\ Len(old) \in Nat /\ Len(old) > 0
      /\ \A q \in 1..Len(old) - 1 : new[q] = old[q + 1]
  <2>1. old # <<>> /\ old \in Seq(Unresolveds) /\ new = Tail(old)
    BY DEF ReferenceTypes, ResolveReference
  <2> QED BY <2>1, TailOf
<1>3. /\ \A q \in 1..Len(new) : q + 1 \in 1..Len(old) /\ new[q] = old[q + 1]
      /\ \A q \in 1..Len(old) : q # 1 => q - 1 \in 1..Len(new) /\ new[q - 1] = old[q]
  BY <1>2
<1>4. ASSUME NEW q \in 1..Len(old)
      PROVE  \E m \in 1..Len(instances) :
               /\ old[q].name = instances[m].name /\ old[q].index \in DOMAIN instances[m].attr
               /\ old[q].kind = statements[m].args[old[q].index + 1].kind
               /\ old[q].refs = statements[m].args[old[q].index + 1].refs
  BY DEF OutstandingInv
<1>5. ASSUME NEW m \in 1..Len(instances), NEW j \in DOMAIN instances[m].attr
      PROVE  \/ instances[m].attr[j] = {byid_[k] : k \in RefersTo(statements[m].args[j + 1])}
             \/ \E q \in 1..Len(old) : old[q].name = instances[m].name /\ old[q].index = j
  BY DEF OutstandingInv
<1>6. \A m \in 1..Len(instances) : instances[m].name = instances[n].name => m = n
  BY <1>1, EnteredFacts
<1> HIDE DEF old, new
<1>7. ASSUME NEW q \in 1..Len(new)
      PROVE  \E m \in 1..Len(instances') :
               /\ new[q].name = instances'[m].name /\ new[q].index \in DOMAIN instances'[m].attr
               /\ new[q].kind = statements'[m].args[new[q].index + 1].kind
               /\ new[q].refs = statements'[m].args[new[q].index + 1].refs
  <2>1. PICK r \in 1..Len(old) : new[q] = old[r]
    BY <1>3
  <2>2. PICK m \in 1..Len(instances) :
          /\ old[r].name = instances[m].name /\ old[r].index \in DOMAIN instances[m].attr
          /\ old[r].kind = statements[m].args[old[r].index + 1].kind
          /\ old[r].refs = statements[m].args[old[r].index + 1].refs
    BY <1>4
  <2> QED BY <1>1, <2>1, <2>2, Zenon
<1>8. ASSUME NEW m \in 1..Len(instances'), NEW j \in DOMAIN instances'[m].attr
      PROVE  \/ instances'[m].attr[j] = {byid_'[k] : k \in RefersTo(statements'[m].args[j + 1])}
             \/ \E q \in 1..Len(new) : new[q].name = instances'[m].name /\ new[q].index = j
  <2> DEFINE refs == RefersTo(statements[m].args[j + 1])
  <2>1. /\ m \in 1..Len(instances) /\ j \in DOMAIN instances[m].attr
        /\ instances'[m].name = instances[m].name
    BY <1>1
  <2>2. CASE m = n /\ j = i
    <3>1. instances'[m].attr[j] = {byid_[k] : k \in refs}
      BY <1>1, <2>1, <2>2
    <3> QED BY <1>1, <3>1
  <2>3. CASE ~(m = n /\ j = i)
    <3>1. instances'[m].attr[j] = instances[m].attr[j]
      BY <1>1, <2>1, <2>3
    <3>2. CASE instances[m].attr[j] = {byid_[k] : k \in refs}
      BY <1>1, <3>1, <3>2
    <3>3. ASSUME NEW q \in 1..Len(old), old[q].name = instances[m].name, old[q].index = j
          PROVE  \E r \in 1..Len(new) : new[r].name = instances'[m].name /\ new[r].index = j
      <4>1. q # 1
        BY <1>1, <1>6, <2>1, <2>3, <3>3
      <4>2. q - 1 \in 1..Len(new) /\ new[q - 1] = old[q]
        BY <1>3, <4>1
      <4> QED BY <2>1, <3>3, <4>2
    <3> QED BY <1>5, <2>1, <3>2, <3>3
  <2> QED BY <2>2, <2>3
<1> QED BY <1>1, <1>7, <1>8 DEF OutstandingInv, new, RefersTo

(* What a step after the last one that reads does                          *)
LEMMA LoadedAfterwards ==
  ASSUME FileTypes, FileInv, InstanceTypes, ReferenceTypes, Promising, LoadedSoFar, ~Reading,
         [Next]_vars
  PROVE  LoadedSoFar'
<1>1. /\ Sound /\ Len(statements) = Len(instances) + 1 /\ good_ = "SUCCESS" /\ pc # "thrown"
      /\ EnteredInv /\ InversesInv /\ OutstandingInv
      /\ pc = "done" => references_to_resolve = <<>>
  BY DEF Promising, LoadedSoFar
<1>2. Len(instances) \in Nat
  BY InstanceFacts
<1>3. ResolveReference \/ ResolveEnd \/ Terminated \/ UNCHANGED vars
  BY DEF Next, Scan, ScanInstance, ScanUnknown, ScanReference, ScanOther, Advance, ScanEnd,
         Scanning, Load, LoadBegin, LoadComma, LoadOpen, LoadReference, LoadValue, LoadTyped,
         LoadThrows, LoadReturn, LoadInstance, LoadAbstract, Reading
<1>4. UNCHANGED fileVars /\ ~Reading' /\ ~Loading'
  BY <1>3, ReadingBefore DEF Reading, Loading
<1>5. UNCHANGED <<statements, good_, byref_excl_>>
  <2>1. UNCHANGED <<good_, byref_excl_>>
    BY <1>3 DEF ResolveReference, ResolveEnd, Terminated, vars
  <2> QED BY <1>4, <2>1 DEF fileVars
<1>6. CASE ResolveReference
  <2>1. PICK n, i : ResolvedIn(n, i)
    BY <1>1, <1>6, SoundReference
  <2>2. EnteredInv' /\ OutstandingInv'
    BY <1>1, <1>6, <2>1, EnteredOfResolved, OutstandingOfResolved
  <2>3. Len(instances') = Len(instances) /\ pc' = "resolve"
    BY <2>1 DEF ResolvedIn, OnlyAttribute
  <2>4. InversesInv'
    <3>1. ~Loading
      BY DEF Reading, Loading
    <3>2. UNCHANGED byref_excl_ /\ Len(instances') \in Nat /\ Len(instances) <= Len(instances')
      BY <1>2, <1>5, <2>3
    <3>3. \A n1 \in 1..Len(statements) : \A i1 \in Nat : \A k :
            n1 > Len(instances') /\ ReadSoFar(i1, k) => ReadSoFar(i1, k)'
      BY <3>1 DEF ReadSoFar
    <3> QED BY <1>1, <1>2, <1>4, <3>2, <3>3, InversesSame
  <2> QED BY <1>1, <1>4, <1>5, <2>2, <2>3, <2>4 DEF LoadedSoFar
<1>7. CASE ResolveEnd \/ Terminated \/ UNCHANGED vars
  <2>1. UNCHANGED <<mapVars, instances, byid_, byguid_, MaxId>>
    BY <1>7 DEF ResolveEnd, Terminated, vars, mapVars
  <2>2. UNCHANGED references_to_resolve /\ (pc' = "done" => references_to_resolve' = <<>>)
    BY <1>1, <1>7 DEF ResolveEnd, Terminated, vars
  <2>3. pc' # "thrown"
    BY <1>1, <1>7 DEF ResolveEnd, Terminated, vars
  <2>4. EnteredInv'
    BY <1>1, <1>2, <1>4, <2>1, EnteredSame
  <2>5. OutstandingInv'
    BY <1>1, <1>2, <1>4, <2>1, <2>2, OutstandingSame
  <2>6. InversesInv'
    <3>1. ~Loading
      BY DEF Reading, Loading
    <3>2. UNCHANGED byref_excl_ /\ Len(instances') \in Nat /\ Len(instances) <= Len(instances')
      BY <1>2, <1>5, <2>1
    <3>3. \A n1 \in 1..Len(statements) : \A i1 \in Nat : \A k :
            n1 > Len(instances') /\ ReadSoFar(i1, k) => ReadSoFar(i1, k)'
      BY <3>1 DEF ReadSoFar
    <3> QED BY <1>1, <1>2, <1>4, <3>2, <3>3, InversesSame
  <2> QED BY <1>1, <1>4, <1>5, <2>1, <2>2, <2>3, <2>4, <2>5, <2>6 DEF LoadedSoFar
<1> QED BY <1>3, <1>6, <1>7

(* What a step that reads does                                             *)
LEMMA LoadedByReading ==
  ASSUME FileTypes, FileInv, WindowTypes, WindowInv, LoadInv, CallTypes, InstanceTypes,
         ReferenceTypes, Promising, LoadedSoFar, Promising', Reading, LoadInv', CallTypes',
         [Next]_vars
  PROVE  LoadedSoFar'
<1>1. /\ FlawlessSoFar /\ PlaceInv /\ WindowNames /\ (Loading => ArgumentsInv)
      /\ EnteredInv /\ InversesInv /\ OutstandingInv /\ good_ = "SUCCESS"
  BY DEF Promising, LoadedSoFar
<1>2. FlawlessSoFar' /\ (eof' => Complete')
  BY PromisingBefore
<1>3. Loading => Len(statements) = Len(instances) + 1
  BY <1>1 DEF PlaceInv, Between, Loading
<1>4. LoadInstance => Loading
  BY DEF LoadInstance, Loading
<1>5. Len(instances) \in Nat
  BY InstanceFacts
<1>6. LoadInstance => Len(instances') = Len(instances) + 1
  <2>1. SUFFICES ASSUME LoadInstance
                 PROVE  Len(instances') = Len(instances) + 1
    OBVIOUS
  <2>2. PICK made, last : MadeSound(made, last)
    BY <1>1, <1>2, <1>3, <1>4, <2>1, InstanceIsSound
  <2> QED BY <2>2 DEF MadeSound
<1>7. /\ Reading' => PlaceInv' /\ WindowNames'
      /\ ~Reading' => Len(statements') = Len(instances') + 1
      /\ UNCHANGED good_ /\ pc' \notin {"done", "thrown"}
  BY <1>1, <1>2, <1>5, <1>6, PlaceKept
<1>8. NoBad(input)
  BY <1>1 DEF PlaceInv
<1>9. Loading' => ArgumentsInv'
  BY <1>1, <1>2, <1>8, ArgumentsKept
<1>10. InversesInv'
  BY <1>1, <1>2, <1>3, <1>5, <1>6, <1>8, InversesRead
<1>11. EnteredInv' /\ OutstandingInv'
  <2>1. CASE LoadInstance
    BY <1>1, <1>2, <1>3, <1>4, <2>1, EnteredOfInstance, OutstandingOfInstance
  <2>2. CASE ~LoadInstance
    <3>1. ~ResolveReference /\ ~ResolveEnd
      BY DEF Reading, ResolveReference, ResolveEnd
    <3>2. UNCHANGED <<instances, byid_, byguid_, MaxId>> /\ UNCHANGED references_to_resolve
      BY <2>2, <3>1, InstancesKept, OthersKeep DEF mapVars
    <3>3. UNCHANGED fileVars \/ \E t : Lex(t)
      BY LexOrStay
    <3>4. EnteredInv'
      BY <1>1, <1>5, <3>2, <3>3, EnteredSame
    <3>5. OutstandingInv'
      BY <1>1, <1>5, <3>2, <3>3, OutstandingSame
    <3> QED BY <3>4, <3>5
  <2> QED BY <2>1, <2>2
<1> QED BY <1>1, <1>7, <1>9, <1>10, <1>11 DEF LoadedSoFar

(* No file is longer than its bound, but for its end.                      *)
LEMMA LengthKept ==
  ASSUME FileTypes, FileInv, LengthInv, [Next]_vars
  PROVE  LengthInv'
<1>1. MaxStatements \in Nat /\ Len(statements) \in Nat
  BY StatementsAssumption DEF FileTypes
<1>2. CASE UNCHANGED statements
  BY <1>2 DEF LengthInv, Current
<1>3. ASSUME NEW s \in Statements \cup {End}, Len(statements) < MaxStatements \/ s = End,
             statements # <<>> => Current # End, statements' = Append(statements, s)
      PROVE  LengthInv'
  <2>1. /\ Len(statements') = Len(statements) + 1 /\ statements' # <<>>
        /\ statements'[Len(statements) + 1] = s
    BY <1>3 DEF FileTypes
  <2>2. Current' = s
    BY <1>1, <2>1 DEF Current, Last
  <2>3. Len(statements) <= MaxStatements
    BY <1>1, <1>3 DEF LengthInv
  <2> QED BY <1>1, <1>3, <2>1, <2>2, <2>3 DEF LengthInv
<1>4. ASSUME NEW t, Lex(t), statements' # statements
      PROVE  /\ statements # <<>> => Current # End
             /\ \E s \in Statements \cup {End} :
                  /\ Len(statements) < MaxStatements \/ s = End
                  /\ statements' = Append(statements, s)
  BY <1>4 DEF Lex, fileVars, Current
<1>5. UNCHANGED statements \/ \E t : Lex(t)
  BY LexOrStay DEF fileVars
<1> QED BY <1>2, <1>3, <1>4, <1>5

LEMMA InitiallySound == Init => SoundInv
<1> SUFFICES ASSUME Init
             PROVE  SoundInv
  OBVIOUS
<1>1. /\ Len(statements) = 0 /\ Len(instances) = 0 /\ Len(references_to_resolve) = 0
      /\ statements = <<>> /\ input = <<>> /\ ~eof /\ pc = "scan" /\ good_ = "SUCCESS"
      /\ token_stream = <<None, None, None>> /\ byref_excl_ = EmptyBag
  BY DEF Init
<1>2. LengthInv
  BY <1>1, StatementsAssumption DEF LengthInv
<1>3. PlaceInv
  BY <1>1 DEF PlaceInv, Between, InBeginning, Remainders, NoBad
<1>4. WindowNames
  BY <1>1, TokenKinds DEF WindowNames
<1>5. ~Loading /\ Reading
  BY <1>1 DEF Loading, Reading
<1>6. EnteredInv /\ OutstandingInv
  BY <1>1 DEF EnteredInv, OutstandingInv
<1>7. InversesInv
  BY <1>1 DEF InversesInv, EmptyBag, SetToBag
<1> QED BY <1>1, <1>2, <1>3, <1>4, <1>5, <1>6, <1>7 DEF SoundInv, LoadedSoFar

LEMMA SoundKept == IInv /\ SoundInv /\ IInv' /\ [Next]_vars => SoundInv'
<1> SUFFICES ASSUME IInv, SoundInv, IInv', [Next]_vars
             PROVE  SoundInv'
  OBVIOUS
<1>1. /\ FileTypes /\ WindowTypes /\ CallTypes /\ InstanceTypes /\ ReferenceTypes
      /\ FileInv /\ WindowInv /\ LoadInv
  BY DEF IInv, Types
<1>2. LoadInv' /\ CallTypes'
  BY DEF IInv, Types
<1>3. LengthInv'
  BY <1>1, LengthKept DEF SoundInv
<1>4. ASSUME Promising'
      PROVE  LoadedSoFar'
  <2>1. Promising
    BY <1>1, <1>4, PromisingBefore
  <2>2. LoadedSoFar
    BY <2>1 DEF SoundInv
  <2>3. CASE Reading
    BY <1>1, <1>2, <1>4, <2>1, <2>2, <2>3, LoadedByReading
  <2>4. CASE ~Reading
    BY <1>1, <2>1, <2>2, <2>4, LoadedAfterwards
  <2> QED BY <2>3, <2>4
<1> QED BY <1>3, <1>4 DEF SoundInv

(* Of a file that has no flaw so far, all that was read is in the instances *)
(* and in the maps, at every step of initialize_() and load().             *)
THEOREM SoundInvariance == Spec => []SoundInv
<1>1. Init => SoundInv
  BY InitiallySound
<1>2. IInv /\ SoundInv /\ IInv' /\ [Next]_vars => SoundInv'
  BY SoundKept
<1>3. Spec => []IInv
  BY Invariance
<1> QED BY <1>1, <1>2, <1>3, PTL DEF Spec

(***************************************************************************)
(* What was loaded of a file without a flaw, in the end.                   *)
(***************************************************************************)
AllLoaded ==
  /\ Len(statements) = Len(instances) + 1 /\ Len(instances) \in 0..MaxStatements
  /\ EnteredInv
  /\ \A n \in 1..Len(instances) : \A i \in DOMAIN instances[n].attr :
       instances[n].attr[i] = {byid_[k] : k \in RefersTo(statements[n].args[i + 1])}

(* The inverse of a reference from an attribute of the n-th instance       *)
InverseOf(n, i, x) == <<instances[x].name, instances[n].type, i, instances[n].name>>

LEMMA FinallyLoaded ==
  ASSUME IInv, SoundInv, Final, Sound
  PROVE  Loaded /\ AllLoaded /\ InversesInv
<1>1. FileTypes /\ InstanceTypes
  BY DEF IInv, Types
<1>2. ~Reading /\ ~Loading
  BY DEF Final, Reading, Loading
<1>3. /\ good_ = "SUCCESS" /\ pc # "thrown" /\ Len(statements) = Len(instances) + 1
      /\ EnteredInv /\ InversesInv /\ OutstandingInv
      /\ pc = "done" => references_to_resolve = <<>>
  BY <1>2 DEF SoundInv, Promising, LoadedSoFar
<1>4. Loaded /\ Len(references_to_resolve) = 0
  BY <1>3 DEF Final, Loaded
<1>5. Len(instances) \in 0..MaxStatements
  <2>1. statements # <<>> /\ Current = End
    BY DEF Sound, Complete, Current
  <2>2. Len(statements) <= MaxStatements + 1 /\ MaxStatements \in Nat
    BY <2>1, StatementsAssumption DEF SoundInv, LengthInv
  <2>3. Len(instances) \in Nat
    BY <1>1, InstanceFacts
  <2> QED BY <1>3, <2>2, <2>3
<1>6. ASSUME NEW n \in 1..Len(instances), NEW i \in DOMAIN instances[n].attr
      PROVE  instances[n].attr[i] = {byid_[k] : k \in RefersTo(statements[n].args[i + 1])}
  BY <1>3, <1>4 DEF OutstandingInv
<1> QED BY <1>3, <1>4, <1>5, <1>6 DEF AllLoaded

LEMMA LoadedFacts ==
  ASSUME FileTypes, InstanceTypes, NamesInv, AllLoaded
  PROVE  /\ Len(instances) \in Nat
         /\ \A n \in 1..Len(instances) :
              /\ n \in 1..Len(statements) /\ statements[n] # End
              /\ instances[n].name \in Names /\ instances[n].type = statements[n].keyword
              /\ instances[n].name = statements[n].name /\ instances[n].name <= MaxId
              /\ byid_[instances[n].name] = n
              /\ DOMAIN instances[n].attr = 0..Len(statements[n].args)-1
         /\ \A k \in Names : byid_[k] # 0 =>
              byid_[k] \in 1..Len(instances) /\ instances[byid_[k]].name = k
<1>1. Len(instances) \in Nat
  BY InstanceFacts
<1>2. ASSUME NEW n \in 1..Len(instances)
      PROVE  /\ n \in 1..Len(statements) /\ statements[n] # End
             /\ instances[n].name \in Names /\ instances[n].type = statements[n].keyword
             /\ instances[n].name = statements[n].name /\ instances[n].name <= MaxId
             /\ byid_[instances[n].name] = n
             /\ DOMAIN instances[n].attr = 0..Len(statements[n].args)-1
  <2>1. n \in 1..Len(statements)
    BY <1>1 DEF AllLoaded
  <2>2. instances[n].name <= MaxId
    BY DEF AllLoaded, EnteredInv
  <2>3. instances[n].name \in Names
    BY InstanceFacts
  <2> QED BY <2>1, <2>2, <2>3, EnteredFacts DEF AllLoaded
<1>3. \A k \in Names : byid_[k] # 0 =>
        byid_[k] \in 1..Len(instances) /\ instances[byid_[k]].name = k
  BY InstanceFacts DEF NamesInv
<1> QED BY <1>1, <1>2, <1>3

(* What the attributes refer to is what the statements say.                *)
LEMMA AttributesLoaded ==
  ASSUME FileTypes, InstanceTypes, NamesInv, Sound, AllLoaded,
         NEW n \in 1..Len(instances), NEW i \in DOMAIN instances[n].attr
  PROVE  /\ {instances[x].name : x \in instances[n].attr[i]} = RefersTo(statements[n].args[i + 1])
         /\ instances[n].attr[i] \subseteq 1..Len(instances)
<1> DEFINE refs == RefersTo(statements[n].args[i + 1])
<1>1. instances[n].attr[i] = {byid_[k] : k \in refs}
  BY DEF AllLoaded
<1>2. i \in 0..Len(statements[n].args)-1
  BY LoadedFacts
<1>3. Len(instances) \in Nat
  BY LoadedFacts
<1>4. \A k \in refs : byid_[k] \in 1..Len(instances) /\ instances[byid_[k]].name = k
  BY <1>2, <1>3, SoundName DEF AllLoaded
<1> HIDE DEF refs
<1>5. {instances[x].name : x \in instances[n].attr[i]} = refs
  BY <1>1, <1>4
<1> QED BY <1>1, <1>4, <1>5 DEF refs

(* The inverses are those of the attributes.                               *)
LEMMA InversesLoaded ==
  ASSUME FileTypes, InstanceTypes, NamesInv, ReferencesInv, ~Loading, Sound, AllLoaded, InversesInv
  PROVE  /\ \A e \in DOMAIN byref_excl_ : byref_excl_[e] = 1
         /\ \A e \in DOMAIN byref_excl_ : \E n \in 1..Len(instances) :
              \E i \in DOMAIN instances[n].attr :
                \E x \in instances[n].attr[i] : e = InverseOf(n, i, x)
         /\ \A n \in 1..Len(instances) : \A i \in DOMAIN instances[n].attr :
              \A x \in instances[n].attr[i] : InverseOf(n, i, x) \in DOMAIN byref_excl_
<1>1. Len(instances) \in Nat /\ Len(statements) = Len(instances) + 1
  BY LoadedFacts DEF AllLoaded
<1>2. \A e \in DOMAIN byref_excl_ : byref_excl_[e] = 1
  BY DEF InversesInv
<1>3. ASSUME NEW e \in DOMAIN byref_excl_
      PROVE  \E n \in 1..Len(instances) : \E i \in DOMAIN instances[n].attr :
               \E x \in instances[n].attr[i] : e = InverseOf(n, i, x)
  <2>1. PICK n \in 1..Len(statements) : \E i \in 0..Len(statements[n].args)-1 : \E k \in Names :
          /\ e = <<k, statements[n].keyword, i, statements[n].name>>
          /\ Refers(n, i, k) /\ (n > Len(instances) => ReadSoFar(i, k))
    BY DEF InversesInv
  <2>2. PICK i \in 0..Len(statements[n].args)-1 : \E k \in Names :
          /\ e = <<k, statements[n].keyword, i, statements[n].name>>
          /\ Refers(n, i, k) /\ (n > Len(instances) => ReadSoFar(i, k))
    BY <2>1
  <2>3. PICK k \in Names :
          /\ e = <<k, statements[n].keyword, i, statements[n].name>>
          /\ Refers(n, i, k) /\ (n > Len(instances) => ReadSoFar(i, k))
    BY <2>2
  <2>4. ~ReadSoFar(i, k)
    BY DEF ReadSoFar
  <2>5. n \in 1..Len(instances)
    BY <1>1, <2>3, <2>4
  <2>6. /\ i \in DOMAIN instances[n].attr /\ k \in RefersTo(statements[n].args[i + 1])
        /\ instances[n].type = statements[n].keyword /\ instances[n].name = statements[n].name
    BY <2>3, <2>5, LoadedFacts DEF Refers
  <2>7. k \in {instances[x].name : x \in instances[n].attr[i]}
    BY <2>5, <2>6, AttributesLoaded
  <2>8. PICK x \in instances[n].attr[i] : instances[x].name = k
    BY <2>7
  <2> QED BY <2>3, <2>5, <2>6, <2>8 DEF InverseOf
<1>4. Unambiguous
  BY LoadedFacts DEF Unambiguous
<1>5. \A n \in 1..Len(instances) : \A i \in DOMAIN instances[n].attr :
        \A x \in instances[n].attr[i] : InverseOf(n, i, x) \in DOMAIN byref_excl_
  BY <1>4 DEF ReferencesInv, AttributesRegistered, InverseOf, BagIn, BagToSet
<1> QED BY <1>2, <1>3, <1>5

(***************************************************************************)
(* The maps are as those of FileMaps.                                      *)
(***************************************************************************)
LEMMA NamesOfMaps == Maps!Ids = Names
BY NamesAssumption DEF Maps!Ids

LEMMA InstancesOfMaps ==
  ASSUME Len(instances) \in 0..MaxStatements
  PROVE  /\ Maps!InFile = 1..Len(instances) /\ Len(instances) \in Nat
         /\ \A o \in 1..Len(instances) : o \in 1..MaxStatements /\ o <= Len(instances)
<1>1. MaxStatements \in Nat
  BY StatementsAssumption
<1>2. \A o \in 1..Len(instances) : o \in 1..MaxStatements /\ o <= Len(instances)
  BY <1>1
<1>3. Maps!InFile = {o \in 1..MaxStatements : o <= Len(instances)}
  BY DEF Maps!InFile
<1> QED BY <1>1, <1>2, <1>3

LEMMA LoadedMaps ==
  ASSUME FileTypes, InstanceTypes, NamesInv, AllLoaded
  PROVE  Maps!MapsAreLive
<1>1. Maps!InFile = 1..Len(instances)
      /\ \A o \in 1..Len(instances) : o \in 1..MaxStatements /\ o <= Len(instances)
  BY InstancesOfMaps DEF AllLoaded
<1>2. ASSUME NEW k \in Names, byid_[k] # 0
      PROVE  /\ byid_[k] \in 1..MaxStatements /\ byid_[k] <= Len(instances)
             /\ instances[byid_[k]].name = k
  BY <1>1, <1>2, LoadedFacts
<1>3. ASSUME NEW g \in Guids, byguid_[g] # 0
      PROVE  byguid_[g] \in 1..MaxStatements /\ byguid_[g] <= Len(instances)
  <2>1. byguid_[g] \in 0..Len(instances) /\ Len(instances) \in Nat
    BY LoadedFacts DEF InstanceTypes
  <2>2. byguid_[g] \in 1..Len(instances)
    BY <1>3, <2>1
  <2> QED BY <1>1, <2>2
<1> QED BY <1>1, <1>2, <1>3, NamesOfMaps DEF Maps!MapsAreLive

LEMMA LoadedNames ==
  ASSUME FileTypes, InstanceTypes, NamesInv, AllLoaded
  PROVE  Maps!NamesLeadBack
<1>1. Maps!InFile = 1..Len(instances)
      /\ \A o \in 1..Len(instances) : o \in 1..MaxStatements /\ o <= Len(instances)
  BY InstancesOfMaps DEF AllLoaded
<1>2. \A o \in 1..Len(instances) : byid_[instances[o].name] = o
  BY LoadedFacts
<1> QED BY <1>1, <1>2 DEF Maps!NamesLeadBack

LEMMA LoadedGuids ==
  ASSUME AllLoaded
  PROVE  Maps!GuidsLeadBack
<1>1. Maps!InFile = 1..Len(instances) /\ Len(instances) \in Nat
      /\ \A o \in 1..Len(instances) : o \in 1..MaxStatements /\ o <= Len(instances)
  BY InstancesOfMaps DEF AllLoaded
<1>2. ASSUME NEW o \in 1..Len(instances), instances[o].guid # ""
      PROVE  byguid_[instances[o].guid] = o
  BY <1>2 DEF AllLoaded, EnteredInv
<1>3. \A o \in 1..Len(instances) : o # 0
  BY <1>1
<1> QED BY <1>1, <1>2, <1>3 DEF Maps!GuidsLeadBack

LEMMA LoadedReferences ==
  ASSUME FileTypes, InstanceTypes, NamesInv, Sound, AllLoaded
  PROVE  Maps!NoneDangling
<1>1. Maps!InFile = 1..Len(instances)
      /\ \A o \in 1..Len(instances) : o \in 1..MaxStatements /\ o <= Len(instances)
  BY InstancesOfMaps DEF AllLoaded
<1>2. ASSUME NEW o \in 1..Len(instances), NEW n \in DOMAIN instances[o].attr
      PROVE  instances[o].attr[n] \subseteq 1..Len(instances)
  BY AttributesLoaded
<1>3. ASSUME NEW o \in 1..Len(instances)
      PROVE  Maps!Refs(o) \subseteq 1..Len(instances)
  BY <1>1, <1>2 DEF Maps!Refs
<1> QED BY <1>1, <1>3 DEF Maps!NoneDangling

(* The inverses of the store, in the map of the loader                      *)
LEMMA LoadedInverses ==
  ASSUME FileTypes, InstanceTypes, NamesInv, ReferencesInv, ~Loading, Sound, AllLoaded, InversesInv
  PROVE  Maps!InversesAgree
<1>1. /\ \A e \in DOMAIN byref_excl_ : byref_excl_[e] = 1
      /\ \A e \in DOMAIN byref_excl_ : \E n \in 1..Len(instances) :
           \E i \in DOMAIN instances[n].attr :
             \E x \in instances[n].attr[i] : e = InverseOf(n, i, x)
      /\ \A n \in 1..Len(instances) : \A i \in DOMAIN instances[n].attr :
           \A x \in instances[n].attr[i] : InverseOf(n, i, x) \in DOMAIN byref_excl_
  BY InversesLoaded
<1>2. \A o \in 1..Len(instances) : o \in 1..MaxStatements /\ o <= Len(instances) /\ o # 0
  BY InstancesOfMaps DEF AllLoaded
<1>3. ASSUME NEW k \in Names, NEW r \in Names, NEW i \in Attrs
      PROVE  Maps!Exact(k, i, r)
  <2> DEFINE n == byid_[r]
             x == byid_[k]
             e == <<k, instances[n].type, i, r>>
  <2>1. n # 0 => n \in 1..Len(instances) /\ instances[n].name = r
    BY LoadedFacts
  <2>2. x # 0 => x \in 1..Len(instances) /\ instances[x].name = k
    BY LoadedFacts
  <2>3. \A m \in 1..Len(instances) : byid_[instances[m].name] = m
    BY LoadedFacts
  <2>4. Maps!Implied(k, i, r) <=>
          n # 0 /\ x # 0 /\ i \in DOMAIN instances[n].attr /\ x \in instances[n].attr[i]
    <3>1. n # 0 => n \in 1..MaxStatements /\ n <= Len(instances)
      BY <1>2, <2>1
    <3> QED BY <3>1 DEF Maps!Implied
  <2>5. ASSUME n # 0, x # 0, i \in DOMAIN instances[n].attr, x \in instances[n].attr[i]
        PROVE  e \in DOMAIN byref_excl_
    BY <1>1, <2>1, <2>2, <2>5 DEF InverseOf
  <2>6. ASSUME n # 0, e \in DOMAIN byref_excl_
        PROVE  x # 0 /\ i \in DOMAIN instances[n].attr /\ x \in instances[n].attr[i]
    <3>1. PICK m \in 1..Len(instances) :
            \E j \in DOMAIN instances[m].attr :
              \E y \in instances[m].attr[j] : e = InverseOf(m, j, y)
      BY <1>1, <2>6
    <3>2. PICK j \in DOMAIN instances[m].attr :
            \E y \in instances[m].attr[j] : e = InverseOf(m, j, y)
      BY <3>1
    <3>3. PICK y \in instances[m].attr[j] : e = InverseOf(m, j, y)
      BY <3>2
    <3>4. instances[y].name = k /\ j = i /\ instances[m].name = r
      BY <3>3 DEF InverseOf
    <3>5. y \in 1..Len(instances)
      BY AttributesLoaded
    <3>6. m = n /\ y = x
      BY <2>3, <3>4, <3>5
    <3> QED BY <1>2, <3>2, <3>3, <3>4, <3>5, <3>6
  <2> HIDE DEF e, n, x
  <2>7. Copies(e) = IF e \in DOMAIN byref_excl_ THEN 1 ELSE 0
    BY <1>1 DEF Copies, BagIn, BagToSet
  <2>8. (IF n = 0 THEN 0 ELSE Copies(e)) = IF Maps!Implied(k, i, r) THEN 1 ELSE 0
    BY <2>4, <2>5, <2>6, <2>7
  <2>9. <<k, i, r>> \in Names \X Attrs \X Names
    OBVIOUS
  <2> QED BY <2>8, <2>9 DEF Maps!Exact, e, n, x
<1> QED BY <1>3, NamesOfMaps DEF Maps!InversesAgree

(* A file without a flaw is loaded as it says, for every schema, set of     *)
(* names and length of the file: all statements are instances, their        *)
(* attributes lead to what the statements refer to, and the maps agree with *)
(* the instances as those of InstanceStore do for careful clients.         *)
THEOREM SoundFilesAreLoaded == Spec => []SoundIsLoaded
<1>1. ASSUME IInv, SoundInv
      PROVE  SoundIsLoaded
  <2> SUFFICES ASSUME Final, Sound
               PROVE  SoundIsLoaded
    BY DEF SoundIsLoaded
  <2>1. FileTypes /\ InstanceTypes /\ NamesInv /\ ReferencesInv
    BY <1>1 DEF IInv, Types
  <2>2. Loaded /\ AllLoaded /\ InversesInv
    BY <1>1, FinallyLoaded
  <2>3. ~Loading
    BY DEF Final, Loading
  <2>4. Len(instances) = Len(statements) - 1
    BY <2>2, InstancesOfMaps DEF AllLoaded
  <2>5. \A n \in 1..Len(instances) : \A i \in DOMAIN instances[n].attr :
          {instances[x].name : x \in instances[n].attr[i]} = RefersTo(statements[n].args[i + 1])
    BY <2>1, <2>2, AttributesLoaded
  <2>6. Maps!MapsAreLive /\ Maps!NamesLeadBack /\ Maps!NoneDangling /\ Maps!GuidsLeadBack
    BY <2>1, <2>2, LoadedMaps, LoadedNames, LoadedReferences, LoadedGuids
  <2>7. Maps!InversesAgree
    BY <2>1, <2>2, <2>3, LoadedInverses
  <2>8. \A e \in DOMAIN byref_excl_ : \E n \in 1..Len(instances) :
          \E i \in DOMAIN instances[n].attr : \E x \in instances[n].attr[i] :
            e = <<instances[x].name, instances[n].type, i, instances[n].name>>
    BY <2>1, <2>2, <2>3, InversesLoaded DEF InverseOf
  <2>9. \A k \in Names : byid_[k] # 0 => k <= MaxId
    <3>1. ASSUME NEW k \in Names, byid_[k] # 0
          PROVE  k <= MaxId
      <4>1. byid_[k] \in 1..Len(instances) /\ instances[byid_[k]].name = k
        BY <2>1, <2>2, <3>1, LoadedFacts
      <4> QED BY <2>1, <2>2, <4>1, LoadedFacts
    <3> QED BY <3>1
  <2> QED BY <2>2, <2>4, <2>5, <2>6, <2>7, <2>8, <2>9, Zenon DEF SoundIsLoaded
<1> QED BY <1>1, Invariance, SoundInvariance, PTL
==============================================================================
