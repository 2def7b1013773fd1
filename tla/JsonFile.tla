------------------------------ MODULE JsonFile ------------------------------
(***************************************************************************)
(* A file object turns a parsed JSON document into variables: the walk of  *)
(* file_parse_json() in src/src/vmod_cfg_file.c.  One step handles one     *)
(* item; the recursion of the code is a stack of what is left of each      *)
(* object.  What cJSON_ParseWithOpts() returns is an input.                *)
(*                                                                         *)
(* A document is a record of a "kind"; an object has "items", a sequence   *)
(* of pairs of a key and a document; a number without a fraction has a     *)
(* "number"; a literal or a string has the "value" it is printed as.  A    *)
(* number with a fraction is printed with three decimals, a string as far  *)
(* as this model goes.                                                     *)
(***************************************************************************)
EXTENDS Integers, Sequences, SequencesExt

CONSTANTS
    JsonDocuments, \* what the parser of JSON may return
    MaxInt,        \* INT_MAX
    JsonDelimiter, \* name_delimiter of the object
    MaxItems,      \* BOUND: items of one object of a document
    MaxDepth       \* BOUND: objects within each other

Unparsed == [kind |-> "error"]

\* What is in an object at a position; a path leads from object to object.
ItemOf(d, i) ==
    IF d.kind = "object" /\ i \in DOMAIN d.items THEN d.items[i][2] ELSE Unparsed
Within(d, path) ==
    LET item[k \in 0 .. Len(path)] == IF k = 0 THEN d ELSE ItemOf(item[k - 1], path[k])
    IN  item[Len(path)]
Paths == SeqOf(1 .. MaxItems, MaxDepth)

\* The bounds hold every document.
ASSUME JsonAssumption ==
    /\ MaxItems \in Nat /\ MaxDepth \in Nat
    /\ \A d \in JsonDocuments : \A path \in Paths :
           LET item == Within(d, path)
           IN  item.kind = "object" =>
                   /\ Len(path) < MaxDepth
                   /\ item.items \in Seq(Range(item.items)) /\ Len(item.items) <= MaxItems

VARIABLES
    root,   \* the document
    stack,  \* the objects being walked: what is left of each, and its prefix
    found,  \* the variables, from name to value
    jsonEnd \* "walking", "parsed", "rejected" or "aborted"

jsonVars == <<root, stack, found, jsonEnd>>

ScalarKinds == {"literal", "number", "string"}

\* The prefix of the names of an object within another.
Prefix(prefix, key) == prefix \o key \o JsonDelimiter

\* valueint of cJSON: a number is cut to what an int takes.
Printed(item) ==
    IF item.kind # "number" THEN item.value
    ELSE IF item.number > MaxInt THEN MaxInt
    ELSE IF item.number < -MaxInt - 1 THEN -MaxInt - 1
    ELSE item.number

Top == Head(stack)
Key == Head(Top.items)[1]
Item == Head(Top.items)[2]
Rest == [Top EXCEPT !.items = Tail(@)]

Walking == jsonEnd = "walking" /\ stack # <<>> /\ Top.items # <<>>

\* file_parse_json_walk() calls itself on an object.
Descend ==
    /\ Walking /\ Item.kind = "object"
    /\ stack' = <<[items |-> Item.items, prefix |-> Prefix(Top.prefix, Key)], Rest>> \o Tail(stack)
    /\ UNCHANGED <<root, found, jsonEnd>>

\* Bug: a name that is there already keeps its first value.
BugEmit ==
    /\ Walking /\ Item.kind \in ScalarKinds
    /\ LET name == Top.prefix \o Key
       IN  /\ found' = [n \in DOMAIN found \cup {name} |->
                            IF n \in DOMAIN found THEN found[n] ELSE Printed(Item)]
           /\ UNCHANGED jsonEnd
    /\ stack' = <<Rest>> \o Tail(stack)
    /\ UNCHANGED root

\* file_parse_json_emit(): it asserts that the name is neither empty nor there
\* already.
Emit ==
    /\ Walking /\ Item.kind \in ScalarKinds
    /\ LET name == Top.prefix \o Key
       IN  IF name = <<>> \/ name \in DOMAIN found
           THEN jsonEnd' = "aborted" /\ UNCHANGED found
           ELSE /\ found' = [n \in DOMAIN found \cup {name} |->
                                 IF n = name THEN Printed(Item) ELSE found[n]]
                /\ UNCHANGED jsonEnd
    /\ stack' = <<Rest>> \o Tail(stack)
    /\ UNCHANGED root

\* Neither an array nor a null is a variable.
Ignore ==
    /\ Walking /\ Item.kind \in {"array", "null"}
    /\ stack' = <<Rest>> \o Tail(stack)
    /\ UNCHANGED <<root, found, jsonEnd>>

\* The walk of an object ends; that of the outermost ends the parsing.
Ascend ==
    /\ jsonEnd = "walking" /\ stack # <<>> /\ Top.items = <<>>
    /\ stack' = Tail(stack)
    /\ jsonEnd' = IF Len(stack) = 1 THEN "parsed" ELSE jsonEnd
    /\ UNCHANGED <<root, found>>

\* file_parse_json() of what is no object or no JSON.
Reject ==
    /\ jsonEnd = "walking" /\ root.kind # "object"
    /\ jsonEnd' = "rejected"
    /\ UNCHANGED <<root, stack, found>>

JsonStart(document) ==
    /\ root = document
    /\ stack = IF root.kind = "object" THEN <<[items |-> root.items, prefix |-> <<>>]>> ELSE <<>>
    /\ found = <<>>
    /\ jsonEnd = "walking"

JsonInit == \E document \in JsonDocuments : JsonStart(document)

JsonNext == Descend \/ Emit \/ Ignore \/ Ascend \/ Reject

JsonSpec == JsonInit /\ [][JsonNext]_jsonVars

----------------------------------------------------------------------------
(* What a document says: a variable for every path to a scalar.            *)

KeyIn(d, path, k) == Within(d, SubSeq(path, 1, k - 1)).items[path[k]][1]

ScalarPaths(d) == {path \in Paths : path # <<>> /\ Within(d, path).kind \in ScalarKinds}
NameIn(d, path) ==
    LET name[k \in 0 .. Len(path)] ==
            IF k = 0 THEN <<>>
            ELSE (IF k = 1 THEN <<>> ELSE name[k - 1] \o JsonDelimiter) \o KeyIn(d, path, k)
    IN  name[Len(path)]

NamesClash(d) ==
    \E p, q \in ScalarPaths(d) : NameIn(d, p) = <<>> \/ (p # q /\ NameIn(d, p) = NameIn(d, q))

\* A document that is parsed gives one variable per scalar, named by the keys on
\* the path to it, and it is not parsed when two paths have one name or a name is
\* empty: the process stops on the assertions of file_parse_json_emit().
VariablePerScalar ==
    CASE jsonEnd = "parsed" ->
             /\ ~NamesClash(root)
             /\ DOMAIN found = {NameIn(root, p) : p \in ScalarPaths(root)}
             /\ \A p \in ScalarPaths(root) : found[NameIn(root, p)] = Printed(Within(root, p))
      [] jsonEnd = "aborted" -> NamesClash(root)
      [] jsonEnd = "rejected" -> root.kind # "object"
      [] jsonEnd = "walking" -> TRUE

=============================================================================
