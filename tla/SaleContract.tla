---------------------------- MODULE SaleContract ----------------------------
(***************************************************************************)
(* What a sale promises its customer and its shop: it is paid once, by the *)
(* QR or in cash, or cancelled, for good; and its articles leave the shelf *)
(* only once it is paid.  (sales.service.ts, payCash, cancelSale and       *)
(* markPaidByPaymentRequest.)                                              *)
(***************************************************************************)
CONSTANT Sales

VARIABLES
  phase,  \* phase[s]: where the promise stands
  left    \* left[s]: some of its articles left the shelf

contractVars == <<phase, left>>

Phases == {"open", "paid by QR", "paid in cash", "cancelled"}

ContractInit ==
  /\ phase = [s \in Sales |-> "open"]
  /\ left = [s \in Sales |-> FALSE]

Close(s) ==
  /\ phase[s] = "open"
  /\ \E p \in Phases \ {"open"} : phase' = [phase EXCEPT ![s] = p]
  /\ UNCHANGED left

Leave(s) ==
  /\ phase[s] \in {"paid by QR", "paid in cash"}
  /\ left' = [left EXCEPT ![s] = TRUE]
  /\ UNCHANGED phase

ContractNext == \E s \in Sales : Close(s) \/ Leave(s)

ContractSpec == ContractInit /\ [][ContractNext]_contractVars
=============================================================================
