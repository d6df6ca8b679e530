------------------------------- MODULE Outbox -------------------------------
(***************************************************************************)
(* What the device client promises about the payloads it is given (log     *)
(* batches and results), without requests, files, drains, instants or      *)
(* goroutines: a payload is kept durably at most once, it leaves the       *)
(* agent's hands in the step in which the server's answer for it is final  *)
(* or at a loss that has a reason, and what has left never comes back.     *)
(* Spool implements it.                                                    *)
(***************************************************************************)
CONSTANT Items      \* the payloads

VARIABLES
    place,      \* where the agent has each payload
    answered,   \* payloads with a final answer of the server
    lost        \* payloads whose loss has a reason

vars == <<place, answered, lost>>

Init ==
    /\ place = [i \in Items |-> "pending"]
    /\ answered = {}
    /\ lost = {}

\* The payloads of S leave the agent's hands, the others stay where they are.
Leave(S) == place' = [i \in Items |-> IF i \in S THEN "gone" ELSE place[i]]

Keep(i) ==
    /\ place[i] = "pending"
    /\ place' = [place EXCEPT ![i] = "kept"]
    /\ UNCHANGED <<answered, lost>>

\* A verdict on a whole job can answer several payloads at once.  Two goroutines
\* can replay one record: an answer may also come for what has left already.
Answer(S) ==
    /\ S # {}
    /\ Leave(S)
    /\ answered' = answered \cup S
    /\ UNCHANGED lost

\* Payloads with a reason to be lost need not be lost (G leaves at once): a
\* record taken for corrupt while it is written can survive.
Lose(S) ==
    /\ S # {}
    /\ \E G \in SUBSET S : Leave(G)
    /\ lost' = lost \cup S
    /\ UNCHANGED answered

Next == \/ \E i \in Items : Keep(i)
        \/ \E S \in SUBSET Items : Answer(S) \/ Lose(S)

Spec == Init /\ [][Next]_vars
=============================================================================
