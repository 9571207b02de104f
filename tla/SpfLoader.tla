------------------------------ MODULE SpfLoader ------------------------------
(***************************************************************************)
(* IfcParse::IfcFile::initialize_() and load() (src/IFC/src/ifcparse/      *)
(* IfcParse.cpp): reading the statements of a STEP file into the maps by   *)
(* id, by GlobalId and by reference, and resolving the references.         *)
(*                                                                         *)
(* The scanner keeps a window of three tokens. When it shows the start of  *)
(* an instance, load() consumes the arguments straight from the lexer; all *)
(* other tokens pass through the window one by one. Files may hold unknown *)
(* keywords, names given twice, invalid tokens; one may end after a token. *)
(*                                                                         *)
(* A character, a number and a comment are left out: a token is its kind   *)
(* and what the loader looks at. A list holds references only.             *)
(***************************************************************************)
EXTENDS Integers, FiniteSets, SequencesExt

CONSTANTS
  Names,          \* bound: the instance names 1..n
  Guids,          \* the GlobalIds
  Arity,          \* Arity[e]: the number of attributes of entity e
  Rooted,         \* the entities that are subtypes of IfcRoot
  Abstract,       \* the entities that cannot be instantiated
  DefinedTypes,   \* the keywords of the schema that are no entities
  Statements,     \* the statements that files are made of
  MaxStatements   \* bound: the statements of a file

BE == INSTANCE BagsExt

Entities == DOMAIN Arity

(* A statement is a name, a keyword and arguments: $, a string, a           *)
(* reference, a list of references, and a typed or an invalid value.       *)
Arguments ==
  [kind : {"$", "bad"}] \cup [kind : {"string"}, guid : Guids] \cup
  [kind : {"ref"}, refs : {{k} : k \in Names}] \cup
  [kind : {"list"}, refs : SUBSET Names] \cup
  [kind : {"typed"}, keyword : STRING \ Entities,
   arg : [kind : {"ref"}, refs : {{k} : k \in Names}] \cup [kind : {"bad"}]]

ASSUME NamesAssumption == IsFiniteSet(Names) /\ Names = 1..Cardinality(Names)
ASSUME SchemaAssumption ==
  /\ Entities \subseteq STRING \ {""} /\ \A e \in Entities : Arity[e] \in Nat
  /\ Rooted \subseteq Entities /\ Abstract \subseteq Entities
  /\ DefinedTypes \cap Entities = {}
ASSUME StatementsAssumption ==
  /\ MaxStatements \in Nat
  /\ Statements \subseteq [name : Names, keyword : STRING, args : Seq(Arguments)]

VARIABLES
  statements,             \* the statements of the file up to the cursor
  part, input,            \* what is left of the last of them: of this part, and the parts after
  eof,                    \* stream->eof
  token_stream,           \* the window of three tokens
  pc,                     \* where initialize_() is
  good_,
  instances,              \* all instances made, in the order of bytype_excl_
  instance,               \* the last one, an index in instances, or 0
  current_id, paren_stack_depth, attribute_index,
  frames,                 \* the calls of load() in progress, innermost last
  byid_, byguid_,         \* an index in instances, or 0
  byref_excl_,            \* a bag of <<to, type, attribute, from>>
  references_to_resolve,
  MaxId

scanVars == <<instance, current_id, paren_stack_depth, attribute_index>>
mapVars == <<instances, byid_, byguid_, MaxId>>
fileVars == <<statements, part, input, eof>>
vars == <<fileVars, token_stream, pc, good_, scanVars, frames, mapVars,
          byref_excl_, references_to_resolve>>

None == <<"none", 0>>
Bad == <<"bad", 0>>
Equals == <<"op", "=">>
LeftParen == <<"op", "(">>
RightParen == <<"op", ")">>
Comma == <<"op", ",">>
Semicolon == <<"op", ";">>
Dollar == <<"op", "$">>
Keyword(w) == <<"keyword", w>>
Ident(k) == <<"ident", k>>
Text(g) == <<"string", g>>
EndSection == Keyword("ENDSEC")
EndExchange == Keyword("END")

(* The tokens of an argument *)
ListTokens(refs) ==
  LET names == SetToSeq(refs)
  IN <<LeftParen>>
     \o [n \in 1..2 * Cardinality(refs) - 1 |->
           IF n % 2 = 1 THEN Ident(names[(n + 1) \div 2]) ELSE Comma]
     \o <<RightParen>>

SimpleTokens(a) ==
  CASE a.kind = "$" -> <<Dollar>>
    [] a.kind = "bad" -> <<Bad>>
    [] a.kind = "string" -> <<Text(a.guid)>>
    [] a.kind = "ref" -> <<Ident(CHOOSE k \in a.refs : TRUE)>>
    [] a.kind = "list" -> ListTokens(a.refs)

ArgumentTokens(a) ==
  IF a.kind = "typed"
  THEN <<Keyword(a.keyword), LeftParen>> \o SimpleTokens(a.arg) \o <<RightParen>>
  ELSE SimpleTokens(a)

(* The end of a file *)
End == [name |-> 0, keyword |-> "", args |-> <<>>]
Trailer == <<EndSection, Semicolon, EndExchange, Semicolon>>

(* The parts of a statement: its beginning, each of its arguments, its end. *)
LastPart(s) == IF s = End THEN 0 ELSE Len(s.args) + 1

Tokens(s, n) ==
  CASE s = End -> Trailer
    [] s # End /\ n = 0 -> <<Ident(s.name), Equals, Keyword(s.keyword), LeftParen>>
    [] n \in 1..Len(s.args) -> (IF n = 1 THEN <<>> ELSE <<Comma>>) \o ArgumentTokens(s.args[n])
    [] OTHER -> <<RightParen, Semicolon>>

Init ==
  /\ statements = <<>> /\ part = 0 /\ input = <<>> /\ eof = FALSE
  /\ token_stream = <<None, None, None>>
  /\ pc = "scan" /\ good_ = "SUCCESS"
  /\ instances = <<>> /\ instance = 0
  /\ current_id = 0 /\ paren_stack_depth = 0 /\ attribute_index = -1
  /\ frames = <<>>
  /\ byid_ = [k \in Names |-> 0] /\ byguid_ = [g \in Guids |-> 0]
  /\ byref_excl_ = EmptyBag
  /\ references_to_resolve = <<>>
  /\ MaxId = 0
------------------------------------------------------------------------------
(* The last statement has parts that were not begun. *)
MoreParts == statements # <<>> /\ part < LastPart(Last(statements))

(* IfcSpfLexer::Next(): the next token of the file, or none at its end. The *)
(* end shows with the last token, or after it when white space follows.    *)
Lex(t) ==
  \/ /\ eof /\ t = None /\ UNCHANGED fileVars
  \/ /\ ~eof /\ t = None /\ eof' = TRUE
     /\ UNCHANGED <<statements, part, input>>
  \/ /\ ~eof /\ input # <<>>
     /\ t = Head(input) /\ input' = Tail(input)
     /\ eof' \in BOOLEAN
     /\ UNCHANGED <<statements, part>>
  \/ /\ ~eof /\ input = <<>>
     /\ \/ MoreParts /\ part' = part + 1 /\ UNCHANGED statements
        \/ /\ ~MoreParts /\ part' = 0
           /\ statements # <<>> => Last(statements) # End
           /\ \E s \in Statements \cup {End} :
                /\ Len(statements) < MaxStatements \/ s = End
                /\ statements' = Append(statements, s)
     /\ LET tokens == Tokens(Last(statements'), part')
        IN t = Head(tokens) /\ input' = Tail(tokens)
     /\ eof' \in BOOLEAN

(* The tokens that the file may go on with *)
Upcoming ==
  {None} \cup IF input # <<>> THEN {Head(input)}
             ELSE IF MoreParts THEN {Head(Tokens(Last(statements), part + 1))}
             ELSE {Head(Trailer)} \cup {Ident(k) : k \in Names}

(* The top of the loop over the window *)
Scanning == pc = "scan" /\ ~eof

AtInstance ==
  /\ token_stream[1][1] = "ident"
  /\ token_stream[2] = Equals
  /\ token_stream[3][1] = "keyword"

Frame(attr, typed, registers) ==
  [attribute |-> attr, index |-> 0, typed |-> typed, registers |-> registers, items |-> <<>>]

(* The window shows an instance of an entity: the token after the keyword   *)
(* is passed over and load() is called.                                    *)
ScanInstance ==
  /\ Scanning /\ AtInstance /\ token_stream[3][2] \in Entities
  /\ attribute_index' = 0
  /\ current_id' = token_stream[1][2]
  /\ frames' = <<Frame(-1, FALSE, TRUE)>>
  /\ pc' = "open"
  /\ UNCHANGED <<fileVars, token_stream, good_, instance, paren_stack_depth,
                 mapVars, byref_excl_, references_to_resolve>>

(* The keyword is unknown, or one of no entity: its arguments will pass     *)
(* through the window.                                                     *)
ScanUnknown ==
  /\ Scanning /\ AtInstance /\ token_stream[3][2] \notin Entities
  /\ attribute_index' = 0
  /\ current_id' = token_stream[1][2]
  /\ pc' = "advance"
  /\ UNCHANGED <<fileVars, token_stream, good_, instance, paren_stack_depth,
                 frames, mapVars, byref_excl_, references_to_resolve>>

(* A reference in the window belongs to arguments that load() did not read. *)
ScanReference ==
  /\ Scanning /\ ~AtInstance
  /\ token_stream[1][1] = "ident" /\ instance # 0
  /\ byref_excl_' = BE!BagAdd(byref_excl_,
       <<token_stream[1][2], instances[instance].type, attribute_index, current_id>>)
  /\ pc' = "advance"
  /\ UNCHANGED <<fileVars, token_stream, good_, scanVars, frames, mapVars,
                 references_to_resolve>>

(* Parentheses and commas keep track of the attribute. *)
ScanOther ==
  /\ Scanning /\ ~AtInstance
  /\ token_stream[1][1] # "ident" \/ instance = 0
  /\ LET depth == paren_stack_depth + CASE token_stream[1] = LeftParen -> 1
                                        [] token_stream[1] = RightParen -> -1
                                        [] OTHER -> 0
     IN /\ paren_stack_depth' = depth
        /\ attribute_index' =
             CASE token_stream[1] = RightParen /\ depth = 0 -> -1
               [] token_stream[1] = Comma /\ depth = 1 -> attribute_index + 1
               [] OTHER -> attribute_index
  /\ pc' = "advance"
  /\ UNCHANGED <<fileVars, token_stream, good_, instance, current_id, frames,
                 mapVars, byref_excl_, references_to_resolve>>

(* The window moves on. An invalid token ends the loop, unless it is the    *)
(* last one.                                                               *)
Advance ==
  /\ pc = "advance"
  /\ \E t \in Upcoming :
       /\ Lex(t)
       /\ IF t[1] = "bad" /\ ~eof'
          THEN /\ good_' = "INVALID_SYNTAX" /\ pc' = "resolve"
               /\ UNCHANGED token_stream
          ELSE /\ token_stream' =
                    Append(Tail(token_stream), IF t[1] = "bad" THEN None ELSE t)
               /\ pc' = "scan"
               /\ UNCHANGED good_
  /\ UNCHANGED <<scanVars, frames, mapVars, byref_excl_, references_to_resolve>>

ScanEnd ==
  /\ pc = "scan" /\ eof
  /\ pc' = "resolve"
  /\ UNCHANGED <<fileVars, token_stream, good_, scanVars, frames, mapVars,
                 byref_excl_, references_to_resolve>>
------------------------------------------------------------------------------
Top == Last(frames)
WithTop(frame) == ReplaceAt(frames, Len(frames), frame)
WithItem(item) == WithTop([Top EXCEPT !.items = Append(@, item)])

(* Mutant: the position in a nested list. *)
AttributeOfList == Top.index

(* The attribute that a token in the innermost list belongs to *)
Attribute == IF Top.attribute = -1 THEN Top.index ELSE Top.attribute

loadUnchanged == <<token_stream, scanVars, mapVars, references_to_resolve>>

(* The parenthesis after a keyword is passed over without a look at it. *)
LoadBegin ==
  /\ pc = "open"
  /\ \E t \in Upcoming : Lex(t)
  /\ pc' = "load"
  /\ UNCHANGED <<loadUnchanged, good_, frames, byref_excl_>>

LoadComma ==
  /\ pc = "load" /\ Lex(Comma)
  /\ frames' = WithTop([Top EXCEPT !.index = IF Top.attribute = -1 THEN @ + 1 ELSE @])
  /\ UNCHANGED <<loadUnchanged, pc, good_, byref_excl_>>

LoadOpen ==
  /\ pc = "load" /\ Lex(LeftParen)
  /\ frames' = Append(frames, Frame(Attribute, FALSE, Top.registers))
  /\ UNCHANGED <<loadUnchanged, pc, good_, byref_excl_>>

LoadReference ==
  /\ pc = "load"
  /\ \E k \in Names :
       /\ Lex(Ident(k))
       /\ byref_excl_' =
            IF Top.registers
            THEN BE!BagAdd(byref_excl_, <<k, token_stream[3][2], Attribute, current_id>>)
            ELSE byref_excl_
       /\ frames' = WithItem([kind |-> "ref", refs |-> {k}])
  /\ UNCHANGED <<loadUnchanged, pc, good_>>

LoadValue ==
  /\ pc = "load"
  /\ \E t \in Upcoming :
       /\ t[1] = "string" \/ t = Dollar
       /\ Lex(t)
       /\ frames' = WithItem(IF t = Dollar THEN [kind |-> "other"]
                             ELSE [kind |-> "string", guid |-> t[2]])
  /\ UNCHANGED <<loadUnchanged, pc, good_, byref_excl_>>

(* A typed value calls load() once more, for nobody. An unknown type is     *)
(* reported, and what follows is read as a list.                           *)
LoadTyped ==
  /\ pc = "load"
  /\ \E t \in Upcoming :
       /\ t[1] = "keyword"
       /\ Lex(t)
       /\ IF t[2] \in DefinedTypes
          THEN pc' = "open" /\ frames' = Append(frames, Frame(-1, TRUE, FALSE))
          ELSE UNCHANGED <<pc, frames>>
  /\ UNCHANGED <<loadUnchanged, good_, byref_excl_>>

(* An invalid token: an exception that the call for a typed value is        *)
(* wrapped to catch, or that ends the loop.                                *)
LoadThrows ==
  /\ pc = "load" /\ Lex(Bad)
  /\ LET typed == {n \in 1..Len(frames) : frames[n].typed}
     IN IF typed = {}
        THEN good_' = "INVALID_SYNTAX" /\ pc' = "resolve" /\ frames' = <<>>
        ELSE /\ frames' = SubSeq(frames, 1, Max(typed) - 1)
             /\ UNCHANGED <<good_, pc>>
  /\ UNCHANGED <<loadUnchanged, byref_excl_>>

(* The item that a list or a typed value becomes. *)
Collected ==
  LET refs == UNION {Top.items[n].refs : n \in {m \in DOMAIN Top.items :
                                                 Top.items[m].kind \in {"ref", "list"}}}
  IN IF Top.typed \/ refs = {} THEN [kind |-> "other"] ELSE [kind |-> "list", refs |-> refs]

Closes(t) == t \in {RightParen, None}

(* Mutant: at the end of the file, the call goes on waiting. *)
LoadReturnWaits ==
  /\ pc = "load" /\ Len(frames) > 1
  /\ \E t \in Upcoming :
       /\ Closes(t) /\ Lex(t)
       /\ LET outer == frames[Len(frames) - 1]
          IN frames' = IF t = None THEN frames
                       ELSE Append(SubSeq(frames, 1, Len(frames) - 2),
                                   [outer EXCEPT !.items = Append(@, Collected)])
  /\ UNCHANGED <<loadUnchanged, pc, good_, byref_excl_>>

(* The end of a list or a typed value: load() returns to load(). *)
LoadReturn ==
  /\ pc = "load" /\ Len(frames) > 1
  /\ \E t \in Upcoming : Closes(t) /\ Lex(t)
  /\ LET outer == frames[Len(frames) - 1]
     IN frames' = Append(SubSeq(frames, 1, Len(frames) - 2),
                         [outer EXCEPT !.items = Append(@, Collected)])
  /\ UNCHANGED <<loadUnchanged, pc, good_, byref_excl_>>

(* Mutant: the storage takes all the values there are. *)
SizeOfItems == Len(Top.items)

(* parse_context::construct(): the storage of a new instance, and the       *)
(* references that are still names.                                        *)
Size == Min({Arity[token_stream[3][2]], Len(Top.items)})

(* A set of numbers in their order *)
InOrder(S) ==
  [k \in 1..Cardinality(S) |-> CHOOSE n \in S : Cardinality({m \in S : m <= n}) = k]

ItemsOf(kinds) == InOrder({n \in 1..Size : Top.items[n].kind \in kinds})

(* Mutant: references in lists are forgotten. *)
UnresolvedNoLists ==
  [k \in DOMAIN ItemsOf({"ref"}) |->
     LET n == ItemsOf({"ref"})[k]
     IN [name |-> current_id, index |-> n - 1, kind |-> "ref", refs |-> Top.items[n].refs]]

Unresolved ==
  [k \in DOMAIN ItemsOf({"ref", "list"}) |->
     LET n == ItemsOf({"ref", "list"})[k]
     IN [name |-> current_id, index |-> n - 1, kind |-> Top.items[n].kind,
         refs |-> Top.items[n].refs]]

GuidOf(e) ==
  IF e \in Rooted /\ Size > 0 /\ Top.items[1].kind = "string" THEN Top.items[1].guid ELSE ""

(* Mutant: of two instances with a name, the second is dropped. *)
EnterFirst(made) ==
  IF byid_[made.name] # 0 THEN UNCHANGED <<instances, instance, byguid_, byid_, MaxId>>
  ELSE /\ instances' = Append(instances, made)
       /\ instance' = Len(instances) + 1
       /\ byguid_' = IF made.guid = "" THEN byguid_
                     ELSE [byguid_ EXCEPT ![made.guid] = Len(instances) + 1]
       /\ byid_' = [byid_ EXCEPT ![made.name] = Len(instances) + 1]
       /\ MaxId' = Max({MaxId, made.name})

(* A new instance goes into the maps, over one with its name or GlobalId. *)
EnterInstance(made) ==
  /\ instances' = Append(instances, made)
  /\ instance' = Len(instances) + 1
  /\ byguid_' = IF made.guid = "" THEN byguid_
                ELSE [byguid_ EXCEPT ![made.guid] = Len(instances) + 1]
  /\ byid_' = [byid_ EXCEPT ![made.name] = Len(instances) + 1]
  /\ MaxId' = Max({MaxId, made.name})

(* load() returns to initialize_(), which instantiates the entity. *)
LoadInstance ==
  /\ pc = "load" /\ Len(frames) = 1
  /\ \E t \in Upcoming : Closes(t) /\ Lex(t)
  /\ references_to_resolve' = references_to_resolve \o Unresolved
  /\ LET e == token_stream[3][2]
     IN /\ e \notin Abstract
        /\ EnterInstance([name |-> current_id, type |-> e, guid |-> GuidOf(e),
                          attr |-> [i \in 0..Size-1 |-> {}]])
        /\ IF e \in Rooted THEN paren_stack_depth' = 0 /\ attribute_index' = -1
                           ELSE UNCHANGED <<paren_stack_depth, attribute_index>>
  /\ frames' = <<>>
  /\ pc' = "advance"
  /\ UNCHANGED <<token_stream, good_, current_id, byref_excl_>>

(* An abstract entity cannot be instantiated: the constructor throws. *)
LoadAbstract ==
  /\ pc = "load" /\ Len(frames) = 1
  /\ \E t \in Upcoming : Closes(t) /\ Lex(t)
  /\ token_stream[3][2] \in Abstract
  /\ frames' = <<>>
  /\ pc' = "thrown"
  /\ UNCHANGED <<loadUnchanged, good_, byref_excl_>>
------------------------------------------------------------------------------
(* The loop over references_to_resolve. The attribute is set in what has    *)
(* the name by now, and VariantArray::set() throws past the last one.      *)
ResolveReference ==
  /\ pc = "resolve" /\ good_ = "SUCCESS" /\ references_to_resolve # <<>>
  /\ references_to_resolve' = Tail(references_to_resolve)
  /\ LET p == Head(references_to_resolve)
         found == {byid_[r] : r \in p.refs} \ {0}
         fits == p.index \in DOMAIN instances[byid_[p.name]].attr
         missing == p.kind = "ref" /\ found = {}
     IN /\ instances' = IF missing \/ ~fits THEN instances
                        ELSE [instances EXCEPT ![byid_[p.name]].attr[p.index] = found]
        /\ pc' = IF missing \/ fits THEN "resolve" ELSE "thrown"
  /\ UNCHANGED <<fileVars, token_stream, good_, scanVars, frames, byid_, byguid_,
                 MaxId, byref_excl_>>

ResolveEnd ==
  /\ pc = "resolve"
  /\ good_ = "SUCCESS" => references_to_resolve = <<>>
  /\ references_to_resolve' = <<>>
  /\ pc' = "done"
  /\ UNCHANGED <<fileVars, token_stream, good_, scanVars, frames, mapVars,
                 byref_excl_>>

Terminated == pc \in {"done", "thrown"} /\ UNCHANGED vars

Scan == ScanInstance \/ ScanUnknown \/ ScanReference \/ ScanOther \/ Advance \/ ScanEnd

Load ==
  \/ LoadBegin \/ LoadComma \/ LoadOpen \/ LoadReference \/ LoadValue \/ LoadTyped
  \/ LoadThrows \/ LoadReturn \/ LoadInstance \/ LoadAbstract

Next == Scan \/ Load \/ ResolveReference \/ ResolveEnd \/ Terminated

Spec == Init /\ [][Next]_vars

FairSpec == Spec /\ WF_vars(Next)
------------------------------------------------------------------------------
Items == [kind : {"other"}] \cup [kind : {"string"}, guid : Guids]
         \cup [kind : {"ref", "list"}, refs : SUBSET Names]

TypeOK ==
  /\ eof \in BOOLEAN /\ Len(token_stream) = 3
  /\ pc \in {"scan", "advance", "open", "load", "resolve", "done", "thrown"}
  /\ good_ \in {"SUCCESS", "INVALID_SYNTAX"}
  /\ \A n \in 1..Len(instances) :
       /\ instances[n].name \in Names /\ instances[n].type \in Entities \ Abstract
       /\ \A i \in DOMAIN instances[n].attr :
            i < Arity[instances[n].type] /\ instances[n].attr[i] \subseteq 1..Len(instances)
  /\ instance \in 0..Len(instances)
  /\ current_id \in Names \cup {0}
  /\ paren_stack_depth \in Int /\ attribute_index \in Int
  /\ \A n \in 1..Len(frames) :
       /\ frames[n].attribute \in Nat \cup {-1} /\ frames[n].index \in Nat
       /\ frames[n].typed \in BOOLEAN /\ frames[n].registers \in BOOLEAN
       /\ frames[n].items \in Seq(Items)
  /\ (pc \in {"open", "load"}) = (frames # <<>>)
  /\ byid_ \in [Names -> 0..Len(instances)]
  /\ byguid_ \in [Guids -> 0..Len(instances)]
  /\ IsABag(byref_excl_)
  /\ MaxId \in Names \cup {0}

Final == pc \in {"done", "thrown"}
Loaded == pc = "done" /\ good_ = "SUCCESS"

(* The file went on to its end. *)
Complete == eof /\ input = <<>> /\ statements # <<>> /\ Last(statements) = End

(* The statements of the file that are instances of an entity, and the      *)
(* place of one among them                                                 *)
KnownStatements == {n \in 1..Len(statements) : statements[n].keyword \in Entities}
Ordinal(n) == Cardinality({m \in KnownStatements : m <= n})

(* However its neighbours are malformed, unknown or invalid, a statement is *)
(* read as itself: the instances are those of the known statements, in     *)
(* their order, and none of a file that was read to its end is missing.    *)
InStep ==
  /\ Len(instances) <= Cardinality(KnownStatements)
  /\ \A n \in KnownStatements : Ordinal(n) <= Len(instances) =>
       /\ instances[Ordinal(n)].name = statements[n].name
       /\ instances[Ordinal(n)].type = statements[n].keyword
  /\ Loaded /\ Complete => Len(instances) = Cardinality(KnownStatements)

Unambiguous == \A m, n \in 1..Len(instances) : instances[m].name = instances[n].name => m = n

(* An attribute that refers to an instance is found from that instance,     *)
(* through the name, the type and the position of the attribute.           *)
ReferencesAreListed ==
  Loaded /\ Unambiguous =>
    \A n \in 1..Len(instances) : \A i \in DOMAIN instances[n].attr : \A x \in instances[n].attr[i] :
      BagIn(<<instances[x].name, instances[n].type, i, instances[n].name>>, byref_excl_)

(* The parser comes to an end, also in a file that is cut after any token. *)
Terminates == <>Final

(* A file without a flaw: all names and GlobalIds are unique, all keywords  *)
(* are known, all references lead somewhere and all attributes are there.  *)
Regular(s) ==
  /\ s.keyword \in Entities \ Abstract
  /\ Len(s.args) = Arity[s.keyword]
  /\ s.keyword \in Rooted /\ s.args # <<>> => s.args[1].kind = "string"
  /\ \A n \in 1..Len(s.args) :
       /\ s.args[n].kind # "bad"
       /\ s.args[n].kind = "typed" =>
            s.args[n].keyword \in DefinedTypes /\ s.args[n].arg.kind # "bad"

RefersTo(a) == IF a.kind \in {"ref", "list"} THEN a.refs ELSE {}

WellFormed(s) ==
  /\ Regular(s)
  /\ \A n \in 1..Len(s.args) : \A k \in RefersTo(s.args[n]) :
       \E m \in KnownStatements : statements[m].name = k

Distinct(s, t) ==
  /\ s.name # t.name
  /\ s.keyword \in Rooted /\ t.keyword \in Rooted /\ s.args # <<>> /\ t.args # <<>> =>
       s.args[1] # t.args[1]

Sound ==
  /\ Complete
  /\ \A n \in 1..Len(statements)-1 : WellFormed(statements[n])
  /\ \A m, n \in 1..Len(statements)-1 : m # n => Distinct(statements[m], statements[n])

(* The maps as FileMaps has them *)
Attrs == UNION {0..Arity[e]-1 : e \in Entities}

Copies(e) == IF BagIn(e, byref_excl_) THEN byref_excl_[e] ELSE 0

Maps == INSTANCE FileMaps WITH
  Objects <- 1..MaxStatements, IdBound <- Cardinality(Names), Nobody <- 0, NoGuid <- "",
  file <- [o \in 1..MaxStatements |-> IF o <= Len(instances) THEN "this" ELSE "unborn"],
  id <- [o \in 1..MaxStatements |-> IF o <= Len(instances) THEN instances[o].name ELSE 0],
  attr <- [o \in 1..MaxStatements |-> [i \in Attrs |->
             IF o <= Len(instances) /\ i \in DOMAIN instances[o].attr
             THEN instances[o].attr[i] ELSE {}]],
  guid <- [o \in 1..MaxStatements |-> IF o <= Len(instances) THEN instances[o].guid ELSE ""],
  byref_excl_ <- [e \in Names \X Attrs \X Names |->
    IF byid_[e[3]] = 0 THEN 0
    ELSE Copies(<<e[1], instances[byid_[e[3]]].type, e[2], e[3]>>)],
  bytype_excl_ <- 1..Len(instances),
  entity_file_map_ <- [o \in 1..MaxStatements |-> 0]

(* A file without a flaw is loaded as it says, and the maps then agree with *)
(* the instances as InstanceStore keeps them: what it shows of the          *)
(* operations on a file goes on from here. No other inverse is registered   *)
(* than those of attributes, under the type of the instance that has it.   *)
SoundIsLoaded ==
  Final /\ Sound =>
    /\ Loaded
    /\ Len(instances) = Len(statements) - 1
    /\ \A n \in 1..Len(instances) : \A i \in DOMAIN instances[n].attr :
         {instances[x].name : x \in instances[n].attr[i]} = RefersTo(statements[n].args[i + 1])
    /\ Maps!MapsAreLive /\ Maps!NamesLeadBack /\ Maps!GuidsLeadBack
    /\ Maps!InversesAgree /\ Maps!NoneDangling
    /\ \A e \in DOMAIN byref_excl_ : \E n \in 1..Len(instances) :
         \E i \in DOMAIN instances[n].attr : \E x \in instances[n].attr[i] :
           e = <<instances[x].name, instances[n].type, i, instances[n].name>>
    /\ \A k \in Names : byid_[k] # 0 => k <= MaxId
==============================================================================
