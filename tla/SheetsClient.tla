---------------------------- MODULE SheetsClient ----------------------------
(***************************************************************************)
(* services/sheets_service.py: the process-wide gspread client.            *)
(*                                                                         *)
(* Reads and writes run in worker threads, each of which asks _get_client  *)
(* for the client; the admin's reload calls invalidate_client on the event *)
(* loop.  Nothing guards the global _client, so every access to it is a    *)
(* step of its own.                                                        *)
(*                                                                         *)
(* Clients are numbered in the order gspread.authorize made them; 0 is     *)
(* None.                                                                   *)
(***************************************************************************)
EXTENDS Naturals, FiniteSets

CONSTANTS
    Threads,        \* worker threads that use the Sheets API
    MaxClients,     \* bound: clients made in a behaviour
    MaxReloads      \* bound: calls of invalidate_client

ASSUME SheetsClientConstants ==
    IsFiniteSet(Threads) /\ MaxClients \in Nat /\ MaxReloads \in Nat

VARIABLES
    client,     \* _client
    made,       \* clients made so far
    bounded,    \* clients whose http_client.timeout has been set
    pc,         \* the line of _get_client each thread is at
    got,        \* the client it returned to the thread
    reloads,
    crossed,    \* threads whose call of _get_client saw a reload
    maker       \* the thread that published the latest client

vars == <<client, made, bounded, pc, got, reloads, crossed, maker>>

Clients == 1 .. MaxClients

Init ==
    /\ client = 0
    /\ made = 0
    /\ bounded = {}
    /\ pc = [t \in Threads |-> "idle"]
    /\ got = [t \in Threads |-> 0]
    /\ reloads = 0
    /\ crossed = {}
    /\ maker = {}

(* Line 34: is there a client? *)
Check(t) ==
    /\ pc[t] = "idle"
    /\ pc' = [pc EXCEPT ![t] = IF client = 0 THEN "create" ELSE "return"]
    /\ crossed' = crossed \ {t}
    /\ UNCHANGED <<client, made, bounded, got, reloads, maker>>

(* Lines 35-37: credentials, authorize, and the new client is published. *)
CreateUnbounded(t) ==
    /\ pc[t] = "create"
    /\ made < MaxClients
    /\ made' = made + 1
    /\ client' = made + 1
    /\ maker' = {t}
    /\ pc' = [pc EXCEPT ![t] = "return"]
    /\ UNCHANGED <<bounded, got, reloads, crossed>>
Create(t) ==
    /\ pc[t] = "create"
    /\ made < MaxClients
    /\ made' = made + 1
    /\ client' = made + 1
    /\ maker' = {t}
    /\ pc' = [pc EXCEPT ![t] = "bound"]
    /\ UNCHANGED <<bounded, got, reloads, crossed>>

(* Line 38 reads the global again: the timeout goes to whatever client is  *)
(* there by now, and raises AttributeError when there is none.             *)
BoundUnchecked(t) ==
    /\ pc[t] = "bound"
    /\ pc' = [pc EXCEPT ![t] = "return"]
    /\ bounded' = bounded \cup {client}
    /\ UNCHANGED <<client, made, got, reloads, crossed, maker>>
Bound(t) ==
    /\ pc[t] = "bound"
    /\ IF client = 0
       THEN /\ pc' = [pc EXCEPT ![t] = "raised"]
            /\ UNCHANGED bounded
       ELSE /\ pc' = [pc EXCEPT ![t] = "return"]
            /\ bounded' = bounded \cup {client}
    /\ UNCHANGED <<client, made, got, reloads, crossed, maker>>

(* Line 40 reads the global once more. *)
Return(t) ==
    /\ pc[t] = "return"
    /\ got' = [got EXCEPT ![t] = client]
    /\ pc' = [pc EXCEPT ![t] = IF client = 0 THEN "raised" ELSE "using"]
    /\ UNCHANGED <<client, made, bounded, reloads, crossed, maker>>

(* The thread is done with the API, or its read or save fails because      *)
(* there was no client (AttributeError on None).                           *)
DoneDroppingClient(t) ==
    /\ pc[t] \in {"using", "raised"}
    /\ pc' = [pc EXCEPT ![t] = "idle"]
    /\ got' = [got EXCEPT ![t] = 0]
    /\ client' = 0
    /\ UNCHANGED <<made, bounded, reloads, crossed, maker>>
Done(t) ==
    /\ pc[t] \in {"using", "raised"}
    /\ pc' = [pc EXCEPT ![t] = "idle"]
    /\ got' = [got EXCEPT ![t] = 0]
    /\ UNCHANGED <<client, made, bounded, reloads, crossed, maker>>

(* Lines 43-46. *)
Invalidate ==
    /\ reloads < MaxReloads
    /\ reloads' = reloads + 1
    /\ client' = 0
    /\ crossed' = Threads
    /\ UNCHANGED <<made, bounded, pc, got, maker>>

Next ==
    \/ \E t \in Threads :
        Check(t) \/ Create(t) \/ Bound(t) \/ Return(t) \/ Done(t)
    \/ Invalidate

Spec == Init /\ [][Next]_vars

----------------------------------------------------------------------------
TypeOK ==
    /\ client \in 0 .. made
    /\ made \in 0 .. MaxClients
    /\ bounded \subseteq 1 .. made
    /\ pc \in [Threads -> {"idle", "create", "bound", "return", "using", "raised"}]
    /\ got \in [Threads -> 0 .. made]
    /\ reloads \in 0 .. MaxReloads
    /\ crossed \subseteq Threads
    /\ maker \subseteq Threads

(* The client that threads find is one whose requests are bounded, except  *)
(* while the very thread that made it is still between lines 37 and 38: no *)
(* race and no reload lets that thread go on with its client unbounded.    *)
PublishedClientBounded ==
    client # 0 => client \in bounded \/ \E t \in maker : pc[t] = "bound"

(* _get_client fails for want of a client only when a reload came between  *)
(* its accesses to the global.                                             *)
FailsOnlyAcrossReload ==
    \A t \in Threads : pc[t] = "raised" => t \in crossed

(* Threads that race to make the first client make one each at most, and   *)
(* again after each reload: clients do not pile up.                        *)
ClientsPerReload == made <= (reloads + 1) * Cardinality(Threads)

----------------------------------------------------------------------------
(* sheets_service.py:26-27: "gspread's HTTPClient passes `timeout=None`    *)
(* (wait forever) to requests by default; this bounds every call."         *)
EveryRequestBounded ==
    \A t \in Threads : pc[t] = "using" => got[t] \in bounded
=============================================================================
