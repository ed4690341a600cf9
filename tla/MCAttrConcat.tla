---------------------------- MODULE MCAttrConcat ----------------------------
(* The input universe. Literals: lists of two item types, dicts over two   *)
(* keys, strings, args and one literal of another kind. Items: up to two   *)
(* results, each an Ok literal or an error. Starlark values: lists of at   *)
(* most one element of every kind to_literal distinguishes, strings, and  *)
(* dicts whose keys may share a to_str.                                   *)
EXTENDS AttrConcat

A == StrLit("a")
B == StrLit("b")
One == IntLit(1)

MCLiterals ==
  {ListLit(t, xs) : t \in {"string", "int"}, xs \in {<<>>, <<A>>}}
  \cup {DictLit(es) : es \in {<<>>, <<<<A, One>>>>, <<<<B, One>>>>, <<<<A, One>>, <<B, One>>>>}}
  \cup {StrLit(s) : s \in {"", "a"}}
  \cup {ArgLit(ps) : ps \in {<<>>, <<"p">>}}
  \cup {One}

MCResults == {Ok(l) : l \in MCLiterals} \cup {Err("e")}

MCItems == {<<>>} \cup {<<r>> : r \in MCResults} \cup {<<r1, r2>> : r1, r2 \in MCResults}

MCConcatInputs == [case : {"concat"}, self : MCLiterals, items : MCItems]

MCStarlarkElems ==
  {SStr("a"), [t |-> "int", n |-> 1], [t |-> "other", repr |-> "o"], [t |-> "none"],
   [t |-> "bool", b |-> TRUE], SList(<<SStr("a")>>), [t |-> "tuple", items |-> <<SStr("a")>>],
   [t |-> "dict", entries |-> <<<<SStr("a"), [t |-> "int", n |-> 1]>>>>]}

MCStarlarkLists == {SList(<<>>)} \cup {SList(<<e>>) : e \in MCStarlarkElems}
MCStarlarkStrs == {SStr(s) : s \in {"", "a", "b"}}

MCCoerceInputs ==
  [case : {"coerce"}, x : MCStarlarkLists, y : MCStarlarkLists]
  \cup [case : {"coerce"}, x : MCStarlarkStrs, y : MCStarlarkStrs]

\* Starlark dict keys: two strings and the float 1.5, whose to_str is the
\* first string's text. The dicts are those over at most two distinct keys.
MCDictKeys == {SStr("1.5"), SStr("b"), [t |-> "float", repr |-> "1.5"]}
MCStarlarkDicts ==
  {[t |-> "dict", entries |-> es] :
     es \in {<<>>}
             \cup {<<<<k, [t |-> "int", n |-> 1]>>>> : k \in MCDictKeys}
             \cup {<<<<k1, [t |-> "int", n |-> 1]>>, <<k2, [t |-> "int", n |-> 1]>>>> :
                     <<k1, k2>> \in {p \in MCDictKeys \X MCDictKeys : p[1] # p[2]}}}

MCDictInputs == [case : {"dicts"}, x : MCStarlarkDicts, y : MCStarlarkDicts]
=============================================================================
