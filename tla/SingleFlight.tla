---------------------------- MODULE SingleFlight ----------------------------
(***************************************************************************)
(* What an idempotency cache promises to its callers, without its map,     *)
(* queue, clock and notifications: the operation of a key never runs twice *)
(* at once, a run whose outcome is unknown is never repeated or forgotten, *)
(* and a call is answered with an outcome that a run of its own key had.   *)
(***************************************************************************)
CONSTANTS Keys, Calls, Determinate

VARIABLES
  key,       \* the key of each call
  status,    \* the operation of each key
  outcomes,  \* the outcomes the runs of each key have had so far
  answer     \* what each call has been answered, or "none"

vars == <<key, status, outcomes, answer>>

Outcome == Determinate \cup {"indeterminate"}

Init ==
  /\ key \in [Calls -> Keys]
  /\ status = [k \in Keys |-> "absent"]
  /\ outcomes = [k \in Keys |-> {}]
  /\ answer = [c \in Calls |-> "none"]

\* The operation of k starts, and the cache may let go of settled keys F.
Begin(k, F) ==
  /\ status[k] \in {"absent"} \cup Determinate
  /\ \A f \in F : status[f] \in Determinate
  /\ status' = [q \in Keys |-> IF q = k THEN "running"
                               ELSE IF q \in F THEN "absent" ELSE status[q]]
  /\ UNCHANGED <<key, outcomes, answer>>

\* The run of k ends.
Settle(k, r) ==
  /\ status[k] = "running"
  /\ status' = [status EXCEPT ![k] = r]
  /\ outcomes' = [outcomes EXCEPT ![k] = @ \cup {r}]
  /\ UNCHANGED <<key, answer>>

\* Call c is answered.
Answer(c, r) ==
  /\ answer[c] = "none"
  /\ r \in outcomes[key[c]]
  /\ answer' = [answer EXCEPT ![c] = r]
  /\ UNCHANGED <<key, status, outcomes>>

Next ==
  \/ \E k \in Keys : \E F \in SUBSET Keys : Begin(k, F)
  \/ \E k \in Keys, r \in Outcome : Settle(k, r)
  \/ \E c \in Calls, r \in Outcome : Answer(c, r)

Spec == Init /\ [][Next]_vars
=============================================================================
