----------------------------- MODULE ToolPromise -----------------------------
(***************************************************************************)
(* What the bridge and the ledger promise the worker: tool_executions is   *)
(* one register for each idempotency key, and a tool call reads it.        *)
(*                                                                         *)
(* A result, once recorded, never disappears.  A call that comes back with *)
(* a result comes back with one that its register held at some time while  *)
(* the call was under way, whatever was lost, repeated or late; otherwise  *)
(* it comes back with a timeout.                                           *)
(***************************************************************************)
CONSTANTS Keys, Calls, Results, None

VARIABLES
  recorded,   \* the result recorded for a key
  under,      \* the key of a call under way
  held,       \* what the register of a call has held since the call began
  reply       \* what a call comes back with

vars == <<recorded, under, held, reply>>

Init ==
  /\ recorded = [k \in Keys |-> None]
  /\ under = [c \in Calls |-> None]
  /\ held = [c \in Calls |-> {}]
  /\ reply = [c \in Calls |-> None]

Invoke(c, k) ==
  /\ under[c] = None
  /\ under' = [under EXCEPT ![c] = k]
  /\ held' = [held EXCEPT ![c] = {recorded[k]} \ {None}]
  /\ UNCHANGED <<recorded, reply>>

Record(k, r) ==
  /\ recorded' = [recorded EXCEPT ![k] = r]
  /\ held' = [c \in Calls |-> IF under[c] = k THEN held[c] \cup {r} ELSE held[c]]
  /\ UNCHANGED <<under, reply>>

Reply(c, r) ==
  /\ under[c] # None /\ reply[c] = None
  /\ r \in held[c] \cup {"timeout"}
  /\ reply' = [reply EXCEPT ![c] = r]
  /\ UNCHANGED <<recorded, under, held>>

\* The worker goes on; or the calls C are dropped with the stream.
Forget(C) ==
  /\ under' = [c \in Calls |-> IF c \in C THEN None ELSE under[c]]
  /\ held'  = [c \in Calls |-> IF c \in C THEN {} ELSE held[c]]
  /\ reply' = [c \in Calls |-> IF c \in C THEN None ELSE reply[c]]
  /\ UNCHANGED recorded

Next ==
  \/ \E c \in Calls, k \in Keys : Invoke(c, k)
  \/ \E k \in Keys, r \in Results : Record(k, r)
  \/ \E c \in Calls, r \in Results \cup {"timeout"} : Reply(c, r)
  \/ \E C \in SUBSET Calls : Forget(C)

Spec == Init /\ [][Next]_vars
=============================================================================
