-------------------------- MODULE PaymentContract --------------------------
(***************************************************************************)
(* What a payment request promises, whatever happens behind it: money a    *)
(* payer put in is held until it is either given back or recorded for the  *)
(* merchant; one attempt at most is ever recorded, and the merchant's      *)
(* wallet is credited once, for it.  Only where the payer's own call could *)
(* not see that its payment was recorded is that money at both places.     *)
(* (payments.service.ts, payWithWallet and handleSuccessfulPayment;        *)
(* 041_merchant_wallet_credit.sql.)                                        *)
(***************************************************************************)
CONSTANT Attempts

VARIABLES
  place,     \* place[a]: where the money of attempt a is
  credited,  \* the merchant's wallet received the net amount
  unseen     \* the attempts whose caller could not see that they are recorded

contractVars == <<place, credited, unseen>>

Places == {"payer", "held", "merchant", "both"}

Recorded == {a \in Attempts : place[a] \in {"merchant", "both"}}

ContractInit ==
  /\ place = [a \in Attempts |-> "payer"]
  /\ credited = FALSE
  /\ unseen = {}

Move(a, from, to) ==
  /\ place[a] = from
  /\ place' = [place EXCEPT ![a] = to]
  /\ UNCHANGED <<credited, unseen>>

Take(a)     == Move(a, "payer", "held")
GiveBack(a) == Move(a, "held", "payer")
Record(a)   == Recorded = {} /\ Move(a, "held", "merchant")

LookFails(a) ==
  /\ place[a] = "merchant"
  /\ unseen' = unseen \cup {a}
  /\ UNCHANGED <<place, credited>>
PayTwice(a) == a \in unseen /\ Move(a, "merchant", "both")

Credit ==
  /\ ~credited /\ Recorded # {}
  /\ credited' = TRUE
  /\ UNCHANGED <<place, unseen>>

ContractNext ==
  \/ Credit
  \/ \E a \in Attempts : \/ Take(a) \/ GiveBack(a) \/ Record(a)
                          \/ LookFails(a) \/ PayTwice(a)

ContractSpec == ContractInit /\ [][ContractNext]_contractVars
=============================================================================
