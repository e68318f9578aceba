------------------------------ MODULE NodeStore ------------------------------
(***************************************************************************)
(* The node kernel implements the store of immutable values (module Store): *)
(* every address stands for the tree of what it and its descendants hold.   *)
(***************************************************************************)
EXTENDS NodeTable

\* Every descendant of these nodes is in the table: all nodes but those dead ones that
\* a collection has passed over.
Intact == Table \ stale

\* Contents with the values of the children in place of their addresses.
Built(key, val) == [level |-> key.level, lab |-> key.lab,
                    kid |-> [i \in DOMAIN key.kid |-> val[key.kid[i]]]]

\* The terminal has level 0 and is otherwise like no node; so has what is no value.
NoValue == [level |-> 0, kid |-> <<>>, lab |-> 1]
Value[n \in Node \cup {None}] ==
    IF n = Term THEN Blank ELSE IF n \in Intact THEN Built(node[n], Value) ELSE NoValue

\* The references that clients and frames hold to a value, at whatever addresses.
Owned == {n \in Addr : hold[n] > 0}
References(v) == UNION {{n} \X (1..hold[n]) : n \in {m \in Owned : Value[m] = v}}

\* What clients see.  A value is as good as made once its children are referenced: the
\* collection that may come before its address is found does not show.
Handles == [v \in {Value[n] : n \in Owned} |-> Cardinality(References(v))]
Result  == IF req # NoReq THEN Built(req.key, Value) ELSE Value[ret]
Memo    == [s \in Slot |-> [args |-> {Value[n] : n \in cache[s].args}, res |-> Value[cache[s].res]]]

Values == INSTANCE Store WITH
    Term <- Blank, None <- NoValue, Arities <- {Arity[m] : m \in Man},
    handles <- Handles, result <- Result, memo <- Memo

\* cdd.h:50-58 and 130-140: behind handles, counters, collections, reclaimed nodes
\* and caches, clients see values that never change, and every call of
\* cdd_make_*_node returns the value it was asked for.
ImplementsStore == Values!Spec

\* Arguments of cached results have all their descendants in the table: the flush before a
\* collection drops the entries of those the collection passes over.
ArgsIntact == \A s \in Slot : cache[s].args \cap stale = {}
=============================================================================
