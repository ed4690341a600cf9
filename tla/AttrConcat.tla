----------------------------- MODULE AttrConcat -----------------------------
(***************************************************************************)
(* Attribute values and their concatenation:                               *)
(*   - ConfiguredAttr::concat (buck2_node/src/attrs/configured_attr.rs),   *)
(*     which joins the configured branches of `select(...) + ...`;         *)
(*   - to_literal (buck2_interpreter_for_build/.../attr_type/any.rs),      *)
(*     which coerces a Starlark value for an attrs.any() attribute.        *)
(* Both are pure. The code's loops are RECURSIVE operators; ReferenceConcat *)
(* states the intended result declaratively, and the properties compare   *)
(* the two over every input of a small universe, which the specification  *)
(* picks once in Init and keeps.                                          *)
(*                                                                         *)
(* Literals are records tagged by `kind`. A list carries its item_type (an *)
(* AttrType, here a name); a dict is a sequence of key/value pairs in      *)
(* insertion order; strings are TLA+ strings; an Arg (StringWithMacros) is *)
(* a sequence of parts. Starlark values are records tagged by `t`.         *)
(***************************************************************************)
EXTENDS Naturals, Sequences, SequencesExt

CONSTANTS
  ConcatInputs,  \* [self, items] pairs to concat
  CoerceInputs,  \* pairs of Starlark values whose `+` is defined
  DictInputs     \* pairs of Starlark dicts given to select(x) + select(y)

VARIABLE input

(***************************************************************************)
(* Literals (AttrLiteral) and results.                                     *)
(***************************************************************************)
StrLit(s) == [kind |-> "String", s |-> s]
IntLit(n) == [kind |-> "Int", n |-> n]
ListLit(t, xs) == [kind |-> "List", itype |-> t, items |-> xs]
DictLit(es) == [kind |-> "Dict", entries |-> es]
ArgLit(ps) == [kind |-> "Arg", parts |-> ps]
Ok(v) == [ok |-> TRUE, val |-> v]
Err(e) == [ok |-> FALSE, err |-> e]

\* ConfiguredAttrError values (their display strings abstracted).
NotSupported(v) == [e |-> "ConcatNotSupported", v |-> v]
NotSupportedValues(ty, v) == [e |-> "ConcatNotSupportedValues", ty |-> ty, v |-> v]
DuplicateKeys(k) == [e |-> "DictConcatDuplicateKeys", key |-> k]
ListDifferentTypes(t1, t2) == [e |-> "ConcatListDifferentTypes", left |-> t1, right |-> t2]

Keys(es) == {es[i][1] : i \in 1..Len(es)}

(***************************************************************************)
(* The implementation, loop by loop.                                       *)
(***************************************************************************)

\* The List arm: `x?`, then a list of the same item_type is appended, a list
\* of another item_type or any other literal ends the loop with an error.
RECURSIVE ListLoop(_, _, _)
ListLoop(t, res, items) ==
  IF items = <<>> THEN Ok(ListLit(t, res))
  ELSE LET x == Head(items) IN
       CASE ~x.ok -> x
         [] x.val.kind # "List" -> Err(NotSupportedValues("list", x.val))
         [] x.val.itype # t -> Err(ListDifferentTypes(t, x.val.itype))
         [] OTHER -> ListLoop(t, res \o x.val.items, Tail(items))

\* OrderedMap::insert: a new key goes last, an existing key keeps its
\* place and takes the new value.
MapInsert(res, k, v) ==
  IF k \in Keys(res)
    THEN [i \in 1..Len(res) |-> IF res[i][1] = k THEN <<k, v>> ELSE res[i]]
    ELSE Append(res, <<k, v>>)

RECURSIVE InsertAll(_, _)
InsertAll(res, es) ==
  IF es = <<>> THEN res ELSE InsertAll(MapInsert(res, Head(es)[1], Head(es)[2]), Tail(es))

\* Mutant: a key already present is overwritten (insert) instead of being
\* rejected through the entry API.
InsertVacantOverwrites(res, es) ==
  Ok(InsertAll(res, es))

\* The inner loop of the Dict arm: each key of the right dict must be
\* vacant in the result so far, or the concat fails on that key.
RECURSIVE InsertVacant(_, _)
InsertVacant(res, es) ==
  IF es = <<>> THEN Ok(res)
  ELSE LET k == Head(es)[1] IN
       IF k \in Keys(res) THEN Err(DuplicateKeys(k))
       ELSE InsertVacant(Append(res, Head(es)), Tail(es))

\* The Dict arm after the left dict has been inserted into `res`.
RECURSIVE DictLoop(_, _)
DictLoop(res, items) ==
  IF items = <<>> THEN Ok(DictLit(res))
  ELSE LET x == Head(items) IN
       CASE ~x.ok -> x
         [] x.val.kind # "Dict" -> Err(NotSupportedValues("dict", x.val))
         [] OTHER -> LET r == InsertVacant(res, x.val.entries) IN
                     IF r.ok THEN DictLoop(r.val, Tail(items)) ELSE r

\* The String arm: push_str of every right string.
RECURSIVE StringLoop(_, _)
StringLoop(res, items) ==
  IF items = <<>> THEN Ok(StrLit(res))
  ELSE LET x == Head(items) IN
       CASE ~x.ok -> x
         [] x.val.kind # "String" -> Err(NotSupportedValues("string", x.val))
         [] OTHER -> StringLoop(res \o x.val.s, Tail(items))

\* The Arg arm: the items are mapped lazily (a non-Arg literal becomes
\* ConcatNotSupportedValues("arg")) and handed to the left arg's concat,
\* which lives outside this repository; it is taken to stop at the first
\* error and otherwise join the parts in order.
RECURSIVE ArgLoop(_, _)
ArgLoop(res, items) ==
  IF items = <<>> THEN Ok(ArgLit(res))
  ELSE LET x == Head(items) IN
       CASE ~x.ok -> x
         [] x.val.kind # "Arg" -> Err(NotSupportedValues("arg", x.val))
         [] OTHER -> ArgLoop(res \o x.val.parts, Tail(items))

\* ConfiguredAttr::concat(self, items).
Concat(self, items) ==
  CASE self.kind = "List" -> ListLoop(self.itype, self.items, items)
    [] self.kind = "Dict" -> DictLoop(InsertAll(<<>>, self.entries), items)
    [] self.kind = "String" -> StringLoop(self.s, items)
    [] self.kind = "Arg" -> ArgLoop(self.parts, items)
    [] OTHER -> Err(NotSupported(self))

(***************************************************************************)
(* The reference: what `a + b + ...` of configured selects means.          *)
(***************************************************************************)

\* The literals each item contributes, and the keys before item i.
Part(v) == CASE v.kind = "List" -> v.items [] v.kind = "Dict" -> v.entries
             [] v.kind = "String" -> v.s [] v.kind = "Arg" -> v.parts
KindName(k) == CASE k = "List" -> "list" [] k = "Dict" -> "dict"
                 [] k = "String" -> "string" [] k = "Arg" -> "arg"

ReferenceConcat(self, items) ==
  LET Earlier(i) == Keys(self.entries) \cup
                    UNION {Keys(items[j].val.entries) :
                             j \in {j \in 1..(i - 1) : items[j].ok /\ items[j].val.kind = "Dict"}}
      Clash(i) == Keys(items[i].val.entries) \cap Earlier(i)
      bad(i) == \/ ~items[i].ok
                \/ items[i].val.kind # self.kind
                \/ self.kind = "List" /\ items[i].val.itype # self.itype
                \/ self.kind = "Dict" /\ Clash(i) # {}
      first == SelectInSeq([i \in 1..Len(items) |-> i], bad)
      x == items[first]
      es == items[first].val.entries
  IN CASE self.kind \notin {"List", "Dict", "String", "Arg"} -> Err(NotSupported(self))
       [] first = 0 ->
            LET joined == IF items = <<>> THEN Part(self)
                          ELSE Part(self) \o FlattenSeq([i \in 1..Len(items) |-> Part(items[i].val)])
            IN (CASE self.kind = "List" -> Ok(ListLit(self.itype, joined))
                  [] self.kind = "Dict" -> Ok(DictLit(InsertAll(<<>>, joined)))
                  [] self.kind = "String" -> Ok(StrLit(joined))
                  [] self.kind = "Arg" -> Ok(ArgLit(joined)))
       [] ~x.ok -> x
       [] x.val.kind # self.kind -> Err(NotSupportedValues(KindName(self.kind), x.val))
       [] self.kind = "List" -> Err(ListDifferentTypes(self.itype, x.val.itype))
       [] OTHER -> Err(DuplicateKeys(es[SelectInSeq(es, LAMBDA e : e[1] \in Earlier(first))][1]))

(***************************************************************************)
(* Starlark values and to_literal (any.rs).                                *)
(***************************************************************************)
SStr(s) == [t |-> "str", s |-> s]
SList(xs) == [t |-> "list", items |-> xs]

\* Value::to_str: a string is itself; anything else is its repr.
ToStr(v) == IF v.t = "str" THEN v.s ELSE v.repr

\* Mutant: a list's item_type taken from its first element.
RECURSIVE ToLiteralListTyped(_)
ToLiteralListTyped(v) ==
  CASE v.t = "list" ->
         ListLit(IF v.items = <<>> THEN "any" ELSE v.items[1].t,
                 [i \in 1..Len(v.items) |-> ToLiteralListTyped(v.items[i])])
    [] v.t = "none" -> [kind |-> "None"]
    [] v.t = "bool" -> [kind |-> "Bool", b |-> v.b]
    [] v.t = "int" -> IntLit(v.n)
    [] OTHER -> StrLit(ToStr(v))

\* to_literal: None, bool, int, dict, tuple and list by structure (each
\* element through to_coerced_literal), lists typed AttrType::any(), and
\* every other value as the string of its to_str.
RECURSIVE ToLiteral(_)
ToLiteral(v) ==
  LET Lit(xs) == [i \in 1..Len(xs) |-> ToLiteral(xs[i])] IN
  CASE v.t = "none" -> [kind |-> "None"]
    [] v.t = "bool" -> [kind |-> "Bool", b |-> v.b]
    [] v.t = "int" -> IntLit(v.n)
    [] v.t = "dict" ->
         DictLit([i \in 1..Len(v.entries) |->
                    <<ToLiteral(v.entries[i][1]), ToLiteral(v.entries[i][2])>>])
    [] v.t = "tuple" -> [kind |-> "Tuple", items |-> Lit(v.items)]
    [] v.t = "list" -> ListLit("any", Lit(v.items))
    [] OTHER -> StrLit(ToStr(v))

\* Starlark `+` on two lists or two strings.
StarlarkAdd(x, y) ==
  IF x.t = "list" THEN SList(x.items \o y.items) ELSE SStr(x.s \o y.s)

(***************************************************************************)
(* The specification: one input, chosen in Init.                           *)
(***************************************************************************)
Init == input \in ConcatInputs \cup CoerceInputs \cup DictInputs
Next == UNCHANGED input
Spec == Init /\ [][Next]_input

\* ConfiguredAttr::concat gives what ReferenceConcat says: the joined value
\* when every item is an Ok literal of self's kind (lists of self's
\* item_type, dicts with keys new to the result), otherwise the error of the
\* first offending item, in the order the code reports it.
ConcatMatchesReference ==
  input.case = "concat" =>
    Concat(input.self, input.items) = ReferenceConcat(input.self, input.items)

\* For an attrs.any() attribute, coercing two lists (or two strings) with
\* to_literal and concatenating them gives the coercion of their Starlark
\* sum: select(x) + select(y) means x + y.
CoerceCommutesWithConcat ==
  input.case = "coerce" =>
    Concat(ToLiteral(input.x), <<Ok(ToLiteral(input.y))>>)
      = Ok(ToLiteral(StarlarkAdd(input.x, input.y)))

\* DictConcatDuplicateKeys exists so that select(x) + select(y) of two
\* attrs.any() dicts never picks one value silently: the concat fails, or
\* it holds an entry for every entry of x and every entry of y (a Starlark
\* dict's keys are distinct).
DictConcatKeepsEntries ==
  input.case = "dicts" =>
    LET r == Concat(ToLiteral(input.x), <<Ok(ToLiteral(input.y))>>)
    IN ~r.ok \/ Len(r.val.entries) = Len(input.x.entries) + Len(input.y.entries)
=============================================================================
