------------------------------ MODULE TtlMemo ------------------------------
(***************************************************************************)
(* What a caller of a @cached function is promised, with no locks, queues  *)
(* or timeouts: a memo that every answer comes from or goes into.          *)
(*                                                                         *)
(* - A value enters the memo only as the answer of a call, and no more     *)
(*   than MaxLag ticks after it was read at the source.                    *)
(* - It is served until it has been in the memo for Lifetime ticks.        *)
(* - A failed call leaves the memo as it is.                               *)
(* - A clear empties the memo; a value read before the clear may still     *)
(*   enter it afterwards (see RefetchedAfterClear in ResponseCache).       *)
(***************************************************************************)
EXTENDS Naturals

CONSTANTS Callers, Keys, Lifetime, MaxLag, MaxClears

VARIABLES
    memo,    \* partial function: keys to [age, val]
    clears,
    open,    \* callers waiting for an answer
    out      \* the outcome of each caller's last call

vars == <<memo, clears, open, out>>

Value == [era : 0 .. MaxClears, old : 0 .. MaxLag + Lifetime]
Nothing == [era |-> 0, old |-> 0]
Returned(v) == [how |-> "returned", val |-> v]

Init ==
    /\ memo = <<>>
    /\ clears = 0
    /\ open = {}
    /\ out = [c \in Callers |-> [how |-> "none", val |-> Nothing]]

Live(k) == k \in DOMAIN memo /\ memo[k].age < Lifetime

Ask(c) ==
    /\ c \notin open
    /\ open' = open \cup {c}
    /\ out' = [out EXCEPT ![c] = [how |-> "none", val |-> Nothing]]
    /\ UNCHANGED <<memo, clears>>

(* Answered from the memo, at once or after a wait. *)
Serve(c, k) ==
    /\ Live(k)
    /\ open' = open \ {c}
    /\ out' = [out EXCEPT ![c] = Returned(memo[k].val)]
    /\ UNCHANGED <<memo, clears>>

(* Answered with a value that has just been fetched. *)
Publish(c, k) ==
    /\ c \in open
    /\ \E v \in Value :
        /\ v.era <= clears /\ v.old <= MaxLag
        /\ memo' = [j \in DOMAIN memo \cup {k} |->
                        IF j = k THEN [age |-> 0, val |-> v] ELSE memo[j]]
        /\ out' = [out EXCEPT ![c] = Returned(v)]
    /\ open' = open \ {c}
    /\ UNCHANGED clears

Fail(c) ==
    /\ c \in open
    /\ open' = open \ {c}
    /\ out' = [out EXCEPT ![c] = [how |-> "raised", val |-> Nothing]]
    /\ UNCHANGED <<memo, clears>>

Clear ==
    /\ clears < MaxClears
    /\ memo' = <<>>
    /\ clears' = clears + 1
    /\ UNCHANGED <<open, out>>

Tick ==
    /\ memo' = [k \in DOMAIN memo |->
                    IF Live(k)
                    THEN [age |-> memo[k].age + 1,
                          val |-> [memo[k].val EXCEPT !.old = @ + 1]]
                    ELSE memo[k]]
    /\ UNCHANGED <<clears, open, out>>

Next ==
    \/ \E c \in Callers :
        \/ Ask(c) \/ Fail(c)
        \/ \E k \in Keys : Serve(c, k) \/ Publish(c, k)
    \/ Clear
    \/ Tick

Spec == Init /\ [][Next]_vars
=============================================================================
