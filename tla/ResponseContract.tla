-------------------------- MODULE ResponseContract --------------------------
(***************************************************************************)
(* scripts/contract.py: the signature of a JSON response, and the ways one *)
(* signature is held against another.                                      *)
(*                                                                         *)
(* A response is a function from the paths of its nodes to their values.   *)
(* A path is a sequence of steps: a field name, or "#1", "#2" ... for the  *)
(* elements of an array.  A value is [token, id]: the class its type and   *)
(* form fall in ("null", "object", "digits:9", "date", "text" ...) and     *)
(* which of the values of that class it is.  Ids are free but for a few:   *)
(* "" is the empty string among the blank ones, "float" a number written   *)
(* with a fraction or an exponent, "whole" a text int() takes (a sign,     *)
(* blanks or underscores around its digits).  A signature forgets the ids  *)
(* and writes every element of an array as "[]"; its tokens are sets where *)
(* the code joins them, sorted, with "|".                                  *)
(***************************************************************************)
EXTENDS Naturals, Sequences, FiniteSets, TLC

CONSTANTS
    OneGroup,      \* the tokens "digits:N" of strings that are N digits
    SeveralGroups  \* those of digits in groups: "digits:5-4" ...

Element == <<"#1", "#2", "#3">>

Of(token, id) == [token |-> token, id |-> id]
Null == Of("null", "")
IsNull(value) == value = Null

Shape(path) ==
    [i \in DOMAIN path |->
        IF \E k \in DOMAIN Element : path[i] = Element[k] THEN "[]" ELSE path[i]]

SignatureOf(response) ==
    [path \in {Shape(node) : node \in DOMAIN response} |->
        {response[node].token : node \in {n \in DOMAIN response : Shape(n) = path}}]

(***************************************************************************)
(* The differences                                                         *)
(***************************************************************************)

\* The enclosing paths of a path: data.organization_types[].x is under
\* data.organization_types[], data.organization_types and data.
AncestorsOf(path) == {SubSeq(path, 1, n) : n \in 1 .. Len(path) - 1}

\* Mutant: an array without elements excuses nothing.
UnreachableUnderNull(path, observed) ==
    \E ancestor \in AncestorsOf(path) \cap DOMAIN observed : observed[ancestor] = {"null"}

UnreachableIn(path, observed) ==
    \E ancestor \in AncestorsOf(path) \cap DOMAIN observed :
        \/ observed[ancestor] = {"null"}
        \/ /\ "array" \in observed[ancestor]
           /\ Append(ancestor, "[]") \notin DOMAIN observed

SchemaDiff(baseline, current) ==
    [removed |-> DOMAIN baseline \ DOMAIN current,
     added |-> DOMAIN current \ DOMAIN baseline]

TypeDiff(baseline, current) ==
    {path \in DOMAIN baseline \cap DOMAIN current : baseline[path] # current[path]}

WithoutNull(tokens) == tokens \ {"null"}

NullabilityOnly(before, after) ==
    \/ WithoutNull(before) = {}
    \/ WithoutNull(after) = {}
    \/ WithoutNull(before) = WithoutNull(after)

BaselineDiff(before, current) ==
    LET moved == TypeDiff(before, current)
        schema == SchemaDiff(before, current)
        nullable == {path \in moved : NullabilityOnly(before[path], current[path])}
        nowhere == {path \in schema.removed : UnreachableIn(path, current)}
                   \cup {path \in schema.added : UnreachableIn(path, before)}
    IN  [removed |-> schema.removed \ nowhere,
         changed |-> moved \ nullable,
         added |-> schema.added \ nowhere,
         nullable |-> nullable,
         unreachable |-> nowhere]

Quiet(diff) == diff.removed = {} /\ diff.changed = {} /\ diff.added = {}

(***************************************************************************)
(* What the package predicts                                               *)
(***************************************************************************)

StringTokens == {"text", "date", "date:iso", "url", "ofac-sentence", "empty"}
DigitTokens == OneGroup \cup SeveralGroups
OtherTokens == {"null", "boolean", "number", "array", "object"}
JsonTokens == StringTokens \cup DigitTokens \cup OtherTokens

\* A token that starts with "digits:" is none of the others, nor a contract's
\* "string", and one that names a group is not one that names several.
ASSUME DigitsAssumption ==
    /\ OneGroup \cap SeveralGroups = {}
    /\ DigitTokens \cap (StringTokens \cup OtherTokens \cup {"string"}) = {}
    /\ "digits:9" \in OneGroup

Permits(allowed, token) ==
    \/ token \in allowed
    \/ "string" \in allowed /\ token \in StringTokens \cup DigitTokens

Under(prefix, fields) ==
    [path \in {Append(prefix, field) : field \in DOMAIN fields} |-> fields[path[Len(path)]]]

RecordPath(kind) == IF kind = "single" THEN <<"data">> ELSE <<"data", "[]">>
TypesPath(kind) == RecordPath(kind) \o <<"organization_types", "[]">>

ComposeExpected(contract, kind) ==
       Under(<<>>, contract.envelope)
    @@ Under(<<"errors", "[]">>, contract.errorDetail)
    @@ Under(RecordPath(kind), contract.nonprofit)
    @@ Under(TypesPath(kind), contract.organizationType)
    @@ (<<"data">> :> IF kind = "single" THEN {"null", "object"} ELSE {"array", "null"})
    @@ (<<"errors", "[]">> :> {"object"})
    @@ (<<"errors", "[]", "eins", "[]">> :> {"string"})
    @@ (TypesPath(kind) :> {"null", "object"})
    @@ (IF kind = "single" THEN <<>> ELSE <<"data", "[]">> :> {"object"})

Required(prefix, fields) == {Append(prefix, field) : field \in fields}

RequiredPathsOf(contract, kind) ==
    {<<"data">>, <<"errors", "[]">>, <<"errors", "[]", "eins", "[]">>, TypesPath(kind)}
    \cup (IF kind = "single" THEN {} ELSE {<<"data", "[]">>})
    \cup Required(<<>>, contract.required.envelope)
    \cup Required(<<"errors", "[]">>, contract.required.errorDetail)
    \cup Required(RecordPath(kind), contract.required.nonprofit)
    \cup Required(TypesPath(kind), contract.required.organizationType)

\* Mutant: one permitted form is enough, whatever else was sent.
ContractDiffLenient(expected, observed) ==
    {path \in DOMAIN observed \cap DOMAIN expected :
        \A token \in observed[path] : ~Permits(expected[path], token)}

ContractDiff(expected, observed) ==
    {path \in DOMAIN observed \cap DOMAIN expected :
        \E token \in observed[path] : ~Permits(expected[path], token)}

CoverageDiff(expected, observed, required) ==
    LET absent == DOMAIN expected \ DOMAIN observed
        reachable == {path \in absent : ~UnreachableIn(path, observed)}
        topmost == {path \in reachable : AncestorsOf(path) \cap absent = {}}
    IN  [added |-> DOMAIN observed \ DOMAIN expected,
         removed |-> topmost \cap required,
         optional_absent |-> topmost \ required,
         unreachable |-> absent \ reachable]

=============================================================================
