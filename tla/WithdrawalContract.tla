------------------------- MODULE WithdrawalContract -------------------------
(***************************************************************************)
(* What a withdrawal promises its owner, whatever happens behind it: the   *)
(* money is taken once, when the withdrawal is requested, and from there   *)
(* the withdrawal ends in exactly one of two ways -- the money was sent,   *)
(* or it was given back, once.  (042_withdrawal_payouts.sql, header;       *)
(* withdrawal-payout.service.ts, class comment.)                           *)
(***************************************************************************)
EXTENDS Naturals

CONSTANT Withdrawals

VARIABLES
  phase,    \* phase[w]: where the promise stands
  taken,    \* taken[w]: how many times the wallet was debited for w
  given     \* given[w]: how many times the wallet was credited back for w

contractVars == <<phase, taken, given>>

Phases == {"none", "reserved", "sent", "returned"}

ContractInit ==
  /\ phase = [w \in Withdrawals |-> "none"]
  /\ taken = [w \in Withdrawals |-> 0]
  /\ given = [w \in Withdrawals |-> 0]

Reserve(w) ==
  /\ phase[w] = "none"
  /\ phase' = [phase EXCEPT ![w] = "reserved"]
  /\ taken' = [taken EXCEPT ![w] = 1]
  /\ UNCHANGED given

Send(w) ==
  /\ phase[w] = "reserved"
  /\ phase' = [phase EXCEPT ![w] = "sent"]
  /\ UNCHANGED <<taken, given>>

GiveBack(w) ==
  /\ phase[w] = "reserved"
  /\ phase' = [phase EXCEPT ![w] = "returned"]
  /\ given' = [given EXCEPT ![w] = 1]
  /\ UNCHANGED taken

ContractNext == \E w \in Withdrawals : Reserve(w) \/ Send(w) \/ GiveBack(w)

ContractSpec == ContractInit /\ [][ContractNext]_contractVars

=============================================================================
