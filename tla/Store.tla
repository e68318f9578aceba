-------------------------------- MODULE Store --------------------------------
(***************************************************************************)
(* What the node kernel promises its clients, without addresses, counters   *)
(* or collections: nodes are immutable values.  A client holds references   *)
(* to values, makes new values from the values it can name, and the         *)
(* operator caches remember results until they choose to forget them.       *)
(* Module NodeStore shows that module NodeTable implements this.            *)
(***************************************************************************)
EXTENDS Integers

CONSTANTS
    Term,    \* the terminal
    None,    \* no value
    Level,   \* levels of the variable order
    Label,   \* what distinguishes values with the same children
    Arities, \* sizes of nodes
    Slot     \* slots of the operator caches

VARIABLES
    handles, \* how many references the client owns, for every value it owns
    result,  \* the value on its way back to the client, or None
    memo     \* the operator caches: arguments and result, by value
svars == <<handles, result, memo>>

Forgotten == [args |-> {}, res |-> None]

Kids(v)   == IF v = Term THEN {} ELSE {v.kid[i] : i \in DOMAIN v.kid}
Held      == DOMAIN handles
Reachable == Held \cup UNION {Kids(v) : v \in Held}

\* The client owns one reference to v more, one less.
More(v) == [w \in Held \cup {v} |-> (IF w \in Held THEN handles[w] ELSE 0) + (IF w = v THEN 1 ELSE 0)]
Less(v) == [w \in {w \in Held : w # v \/ handles[w] > 1} |-> handles[w] - (IF w = v THEN 1 ELSE 0)]

-----------------------------------------------------------------------------
\* A value is made of values the client holds or has just been given.
Make == /\ \E l \in Level, lab \in Label, n \in Arities :
            \E kid \in [1..n -> (Held \cup {Term, result}) \ {None}] :
                /\ \A i \in 1..n : kid[i] # Term => kid[i].level > l
                /\ result' = [level |-> l, kid |-> kid, lab |-> lab]
        /\ UNCHANGED <<handles, memo>>

Take == result # None /\ handles' = More(result) /\ result' = None /\ UNCHANGED memo
Share == \E v \in Reachable \ {Term} : handles' = More(v) /\ UNCHANGED <<result, memo>>
Drop == \E v \in Held : handles' = Less(v) /\ UNCHANGED <<result, memo>>
HandBack == \E v \in Held : handles' = Less(v) /\ result' = v /\ UNCHANGED memo
Discard == result' = None /\ UNCHANGED <<handles, memo>>

\* A result is remembered under its arguments, and recalled by a client that can
\* name these.
Remember == \E s \in Slot : \E a, b \in Reachable \ {Term} :
    memo' = [memo EXCEPT ![s] = [args |-> {a, b}, res |-> result]] /\ UNCHANGED <<handles, result>>
Recall == \E s \in Slot :
    /\ memo[s] # Forgotten /\ memo[s].args \subseteq Reachable
    /\ result' = memo[s].res /\ UNCHANGED <<handles, memo>>
Forget == /\ \E S \in SUBSET Slot : memo' = [s \in Slot |-> IF s \in S THEN Forgotten ELSE memo[s]]
          /\ UNCHANGED <<handles, result>>

Init == handles = [v \in {} |-> 0] /\ result = None /\ memo = [s \in Slot |-> Forgotten]
Next == Make \/ Take \/ Share \/ Drop \/ HandBack \/ Discard \/ Remember \/ Recall \/ Forget
Spec == Init /\ [][Next]_svars
=============================================================================
