------------------------------ MODULE KVStore ------------------------------
(***************************************************************************)
(* What lsmlite promises its callers: a value per key.  A get may take     *)
(* time; it returns a value its key had between the call and the answer.   *)
(***************************************************************************)
CONSTANTS
    Key, Value,
    Reader,     \* tasks that call get
    Absent      \* no value, no call

VARIABLES
    store,      \* the value of each key
    asked,      \* the key of each reader's get, if it is in one
    may,        \* what the get may return
    answer      \* << v >> once it is known

vars == << store, asked, may, answer >>

Init ==
    /\ store = [k \in Key |-> Absent]
    /\ asked = [c \in Reader |-> Absent]
    /\ may = [c \in Reader |-> {}]
    /\ answer = [c \in Reader |-> << >>]

\* A write takes effect at one moment; gets that have no answer yet may see it.
Set(k, v) ==
    /\ store' = [store EXCEPT ![k] = v]
    /\ may' = [c \in Reader |-> IF asked[c] = k /\ answer[c] = << >>
                              THEN may[c] \cup {v} ELSE may[c]]
    /\ UNCHANGED << asked, answer >>

\* A get begins; its answer may be known at once.
Ask(c, k) ==
    /\ asked[c] = Absent
    /\ asked' = [asked EXCEPT ![c] = k]
    /\ may' = [may EXCEPT ![c] = {store[k]}]
    /\ \E a \in {<< >>, << store[k] >>} : answer' = [answer EXCEPT ![c] = a]
    /\ UNCHANGED store

Answer(c) ==
    /\ asked[c] # Absent /\ answer[c] = << >>
    /\ \E v \in may[c] : answer' = [answer EXCEPT ![c] = << v >>]
    /\ UNCHANGED << store, asked, may >>

Return(c) ==
    /\ answer[c] # << >>
    /\ asked' = [asked EXCEPT ![c] = Absent]
    /\ may' = [may EXCEPT ![c] = {}]
    /\ answer' = [answer EXCEPT ![c] = << >>]
    /\ UNCHANGED store

Next ==
    \/ \E k \in Key, v \in Value : Set(k, v)
    \/ \E c \in Reader : (\E k \in Key : Ask(c, k)) \/ Answer(c) \/ Return(c)

Spec == Init /\ [][Next]_vars
=============================================================================
