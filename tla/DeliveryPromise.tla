--------------------------- MODULE DeliveryPromise ---------------------------
(***************************************************************************)
(* What an outbox promises, without tables, workers or leases: a message   *)
(* it has taken over stays promised until the broker holds a copy of it or *)
(* it is withdrawn by name.  Copies may reach the broker more than once.   *)
(* MdOutbox and BundleRelay are shown to implement this specification.     *)
(***************************************************************************)
EXTENDS FiniteSets

CONSTANT Messages

VARIABLES
    promised,   \* messages the outbox answers for
    delivered,  \* messages of which the broker holds a copy
    withdrawn   \* messages given up or taken back since they were promised

vars == <<promised, delivered, withdrawn>>

TypeOK ==
    /\ promised \in SUBSET Messages
    /\ delivered \in SUBSET Messages
    /\ withdrawn \in SUBSET Messages

Init ==
    /\ promised = {}
    /\ delivered = {}
    /\ withdrawn = {}

(* Taking over S ends an earlier withdrawal of its messages. *)
Promise(S) ==
    /\ promised' = promised \cup S
    /\ withdrawn' = withdrawn \ S
    /\ UNCHANGED delivered

(* Attempts to send: some reach the broker, some are given up on. *)
Attempt(S, T) ==
    /\ delivered' = delivered \cup S
    /\ withdrawn' = withdrawn \cup T
    /\ UNCHANGED promised

(* Taken back and removed at once. *)
Withdraw(S) ==
    /\ withdrawn' = withdrawn \cup S
    /\ promised' = promised \ S
    /\ UNCHANGED delivered

(* The only way to forget a promise that was not withdrawn. *)
Forget(S) ==
    /\ S \subseteq promised \cap (delivered \cup withdrawn)
    /\ promised' = promised \ S
    /\ UNCHANGED <<delivered, withdrawn>>

Next ==
    \/ \E S \in SUBSET Messages : Promise(S) \/ Withdraw(S) \/ Forget(S)
    \/ \E S, T \in SUBSET Messages : Attempt(S, T)

Spec == Init /\ [][Next]_vars

=============================================================================
