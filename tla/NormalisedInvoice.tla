------------------------- MODULE NormalisedInvoice -------------------------
(***************************************************************************)
(* The normalised invoice of a paid sale.  The tax office (DGI) makes an   *)
(* invoice in two calls of its e-MCF: a demand, answered with a uid and    *)
(* its own amounts, then a confirmation, answered with the code to print.  *)
(* Any answer may be lost; a demand left alone expires.  A cashier, the    *)
(* net that gathers the sales without invoice and the job that resumes     *)
(* invoices may all be trying the same one.                                *)
(*                                                                         *)
(* The row records the issue of a try only at its end; what saves a try    *)
(* that was cut short is the journal of the exchanges.                     *)
(*                                                                         *)
(* Sources: facture-normalisee/facture-normalisee.service.ts (FN),         *)
(* normalisation.ts, emcf.client.ts, reprise-factures.service.ts,          *)
(* gestion-fiscale.service.ts, migration 090; test-utils/faux-emcf.ts for  *)
(* the e-MCF.                                                              *)
(***************************************************************************)
EXTENDS Naturals

CONSTANTS
  MaxDemands, \* bound: demands the e-MCF accepts for the invoice
  Workers,    \* requests and job passes under way
  None,       \* no uid
  Lossy,      \* calls that may fail
  Fatal       \* steps before which the process may stop

Demands == 1..MaxDemands
Calls   == {"insert", "items", "details", "ask", "search", "cancel", "confirm",
            "broken", "journal", "adopt", "write"}
Steps   == {"idle", "seek", "insert", "items", "claim", "read", "journal", "adopt", "details",
            "ask", "search", "doublon", "compare", "cancel", "confirm", "again", "log", "write"}

ASSUME InvoiceAssumption ==
  /\ MaxDemands \in Nat /\ None \notin Demands
  /\ Lossy \subseteq Calls /\ Fatal \subseteq Steps

VARIABLES
  status,  \* normalized_invoices.status; "unsure" is failed with A_VERIFIER
  uid,     \* emcf_uid
  journal, \* emcf_exchanges: the demands whose confirmation was answered
  demands, \* at the e-MCF
  pc,      \* the step a worker is about to take
  doc,     \* the demand it has in hand
  issue,   \* the issue of its try
  fresh,   \* the row is as the job read it (updated_at)
  doubt    \* history: one of the ways a finalised invoice is forgotten happened

row   == <<status, uid>>
hands == <<pc, doc, issue, fresh>>
vars  == <<row, journal, demands, hands, doubt>>

Statuses     == {"NONE", "pending", "provisional", "confirmed", "failed", "unsure"}
DemandStates == {"none", "pending", "final", "gone"}
Issues       == {"none", "confirmed", "unreachable", "gap", "unsure", "refused"}

-----------------------------------------------------------------------------
(* How a worker moves.                                                     *)

At(k, step)      == pc[k] = step
Goto(k, step)    == pc' = [pc EXCEPT ![k] = step] /\ UNCHANGED <<doc, issue>>
Take(k, u, step) == /\ pc' = [pc EXCEPT ![k] = step] /\ doc' = [doc EXCEPT ![k] = u]
                    /\ UNCHANGED issue
Begin(k, step)   == At(k, "idle") /\ Goto(k, step)
EndsAs(k, what)  == /\ pc' = [pc EXCEPT ![k] = "write"] /\ issue' = [issue EXCEPT ![k] = what]
                    /\ UNCHANGED doc
Finish(k)        == /\ pc' = [pc EXCEPT ![k] = "idle"] /\ doc' = [doc EXCEPT ![k] = None]
                    /\ issue' = [issue EXCEPT ![k] = "none"]

\* An update of the row touches updated_at.
SetRow(s, u) ==
  /\ status' = s /\ uid' = u
  /\ fresh' = [k \in Workers |-> FALSE]

\* A confirmed invoice is frozen (normalized_invoice_frozen).
Update(s, u) ==
  IF status = "confirmed" THEN UNCHANGED <<row, fresh>> ELSE SetRow(s, u)

\* Nothing but the e-MCF knows that the demand in hand became an invoice.
Forgets(k) == doc[k] \in Demands /\ demands[doc[k]] = "final" /\ doc[k] \notin journal

Trying == Steps \ {"idle", "seek", "insert", "items", "claim", "read"}

-----------------------------------------------------------------------------
Init ==
  /\ status = "NONE" /\ uid = None
  /\ journal = {}
  /\ demands = [u \in Demands |-> "none"]
  /\ pc = [k \in Workers |-> "idle"]
  /\ doc = [k \in Workers |-> None]
  /\ issue = [k \in Workers |-> "none"]
  /\ fresh = [k \in Workers |-> FALSE]
  /\ doubt = FALSE

-----------------------------------------------------------------------------
(* Issuing the invoice of a sale (FN emettre).                             *)

\* The cashier's button.
emettre(k) ==
  /\ Begin(k, "seek")
  /\ UNCHANGED <<row, journal, demands, fresh, doubt>>

\* Each minute, a paid sale without invoice: one of the 20 that are read.
ramasser(k) ==
  /\ status = "NONE"
  /\ Begin(k, "seek")
  /\ UNCHANGED <<row, journal, demands, fresh, doubt>>

\* An invoice that is there and not confirmed is tried again.
parSource(k) ==
  /\ At(k, "seek")
  /\ IF status = "confirmed" THEN Finish(k)
     ELSE Goto(k, IF status = "NONE" THEN "insert" ELSE "read")
  /\ UNCHANGED <<row, journal, demands, fresh, doubt>>

\* Mutant: the row is written without looking.
InsertRow_Again(k) ==
  /\ At(k, "insert")
  /\ SetRow("pending", None) /\ Goto(k, "items")
  /\ UNCHANGED <<journal, demands, doubt>>

\* One row per sale: the call that comes second returns what it finds.  A sale
\* that does not pass (validerFacture, no rate of the dollar) gets none.
InsertRow(k) ==
  /\ At(k, "insert")
  /\ \/ status = "NONE" /\ SetRow("pending", None) /\ Goto(k, "items")
     \/ Finish(k) /\ UNCHANGED <<row, fresh>>
  /\ UNCHANGED <<journal, demands, doubt>>

InsertFailed(k) ==
  /\ At(k, "insert") /\ "insert" \in Lossy
  /\ \/ status = "NONE" /\ SetRow("pending", None)
     \/ UNCHANGED <<row, fresh>>
  /\ Finish(k)
  /\ UNCHANGED <<journal, demands, doubt>>

InsertItems(k) ==
  /\ At(k, "items")
  /\ \/ Goto(k, "read")
     \/ "items" \in Lossy /\ Finish(k)
  /\ UNCHANGED <<row, journal, demands, fresh, doubt>>

-----------------------------------------------------------------------------
(* Trying again: a person, or the job that resumes invoices.               *)

reessayer(k) ==
  /\ status # "NONE"
  /\ Begin(k, "read")
  /\ UNCHANGED <<row, journal, demands, fresh, doubt>>

\* Mutant: only the sales made without network are resumed.
reprendre_Provisional(k) ==
  /\ status = "provisional"
  /\ Begin(k, "claim")
  /\ fresh' = [fresh EXCEPT ![k] = TRUE]
  /\ UNCHANGED <<row, journal, demands, doubt>>

\* FN reprendre: invoices sold without network, and pending ones without news.
\* How long ago the row was touched is left open.
reprendre(k) ==
  /\ status \in {"provisional", "pending"}
  /\ Begin(k, "claim")
  /\ fresh' = [fresh EXCEPT ![k] = TRUE]
  /\ UNCHANGED <<row, journal, demands, doubt>>

\* The job takes the row only as it read it.
ClaimRow(k) ==
  /\ At(k, "claim")
  /\ IF fresh[k] THEN SetRow("pending", uid) /\ Goto(k, "read")
     ELSE Finish(k) /\ UNCHANGED <<row, fresh>>
  /\ UNCHANGED <<journal, demands, doubt>>

-----------------------------------------------------------------------------
(* One try (FN tenter, normaliser).                                        *)

\* Confirmed, or perhaps confirmed: never sent again.
MayTry == status \notin {"confirmed", "unsure"}

\* Two that have read the row before either has recorded its issue do not know
\* of each other.
ReadRow(k) ==
  /\ At(k, "read")
  /\ IF MayTry THEN Take(k, uid, "journal") ELSE Finish(k)
  /\ doubt' = (doubt \/ (MayTry /\ \E j \in Workers \ {k} : pc[j] \in Trying))
  /\ UNCHANGED <<row, journal, demands, fresh>>

Send(k) == Goto(k, IF doc[k] = None THEN "ask" ELSE "details")

\* Mutant: the journal is asked, and what it answers is left.
confirmationDuJournal_No(k) ==
  /\ At(k, "journal")
  /\ IF journal # {} THEN Finish(k) ELSE Send(k)
  /\ UNCHANGED <<row, journal, demands, fresh, doubt>>

\* A confirmation that the journal holds is not asked again.
confirmationDuJournal(k) ==
  /\ At(k, "journal")
  /\ IF journal # {} THEN Goto(k, "adopt") ELSE Send(k)
  /\ UNCHANGED <<row, journal, demands, fresh, doubt>>

\* A failed reading is taken for an empty journal.
JournalUnread(k) ==
  /\ At(k, "journal") /\ "journal" \in Lossy
  /\ doubt' = (doubt \/ journal # {})
  /\ Send(k)
  /\ UNCHANGED <<row, journal, demands, fresh>>

Adopt(k) ==
  /\ At(k, "adopt")
  /\ status # "confirmed"
  /\ \E u \in journal : SetRow("confirmed", u)
  /\ Finish(k)
  /\ UNCHANGED <<journal, demands, doubt>>

\* An update that fails is not the end of the try.
AdoptFailed(k) ==
  /\ At(k, "adopt")
  /\ \/ "adopt" \in Lossy
     \/ status = "confirmed" /\ uid \notin journal
  /\ doubt' = TRUE
  /\ Send(k)
  /\ UNCHANGED <<row, journal, demands, fresh>>

\* The row is confirmed already, with the same code.
AdoptedAlready(k) ==
  /\ At(k, "adopt") /\ status = "confirmed" /\ uid \in journal
  /\ Finish(k)
  /\ UNCHANGED <<row, journal, demands, fresh, doubt>>

\* The demand of an earlier try, if it still waits.
relireDemande(k) ==
  /\ At(k, "details")
  /\ \/ demands[doc[k]] = "pending" /\ Goto(k, "compare")
     \/ /\ demands[doc[k]] # "pending" \/ "details" \in Lossy
        /\ Take(k, None, "ask")
  /\ UNCHANGED <<row, journal, demands, fresh, doubt>>

Waiting(u) == demands[u] = "pending"

\* The e-MCF accepts a demand of this number while none waits.
Accept(u) ==
  /\ \A v \in Demands : ~ Waiting(v)
  /\ demands[u] = "none" /\ \A v \in 1..(u - 1) : demands[v] # "none"
  /\ demands' = [demands EXCEPT ![u] = "pending"]

demanderFacture(k) ==
  /\ At(k, "ask")
  /\ \/ \E u \in Demands : Accept(u) /\ Take(k, u, "compare")
     \/ (\E u \in Demands : Waiting(u)) /\ Goto(k, "doublon") /\ UNCHANGED demands
     \/ (\A u \in Demands : ~ Waiting(u)) /\ EndsAs(k, "refused") /\ UNCHANGED demands
  /\ UNCHANGED <<row, journal, fresh, doubt>>

AskUnanswered(k) ==
  /\ At(k, "ask") /\ "ask" \in Lossy
  /\ UNCHANGED demands \/ \E u \in Demands : Accept(u)
  /\ Goto(k, "search") \/ EndsAs(k, "refused")
  /\ UNCHANGED <<row, journal, fresh, doubt>>

\* After a lost answer, or a refusal because one waits: it is looked for by its number.
retrouverDemandeEnAttente(k) ==
  /\ pc[k] \in {"search", "doublon"}
  /\ \/ \E u \in Demands : Waiting(u) /\ Take(k, u, "compare")
     \/ /\ "search" \in Lossy \/ \A u \in Demands : ~ Waiting(u)
        /\ EndsAs(k, IF pc[k] = "search" THEN "unreachable" ELSE "refused")
  /\ UNCHANGED <<row, journal, demands, fresh, doubt>>

\* Our amounts against theirs.
comparerMontants(k) ==
  /\ At(k, "compare")
  /\ Goto(k, "confirm") \/ Goto(k, "cancel")
  /\ UNCHANGED <<row, journal, demands, fresh, doubt>>

annuler(k) ==
  /\ At(k, "cancel")
  /\ \/ Waiting(doc[k]) /\ demands' = [demands EXCEPT ![doc[k]] = "gone"]
     \/ ("cancel" \in Lossy \/ ~ Waiting(doc[k])) /\ UNCHANGED demands
  /\ EndsAs(k, "gap")
  /\ UNCHANGED <<row, journal, fresh, doubt>>

Finalise(k) == Waiting(doc[k]) /\ demands' = [demands EXCEPT ![doc[k]] = "final"]

\* Answered: with the code, or without it, or a refusal, which the second call
\* takes for a doubt.
confirmer(k) ==
  /\ pc[k] \in {"confirm", "again"}
  /\ \/ Finalise(k) /\ (Goto(k, "log") \/ EndsAs(k, "unsure"))
     \/ /\ ~ Waiting(doc[k]) /\ UNCHANGED demands
        /\ EndsAs(k, IF At(k, "confirm") THEN "refused" ELSE "unsure")
  /\ UNCHANGED <<row, journal, fresh, doubt>>

\* Mutant: no answer to the confirmation is taken for no network.
ConfirmUnanswered_NoNetwork(k) ==
  /\ pc[k] \in {"confirm", "again"} /\ "confirm" \in Lossy
  /\ UNCHANGED demands \/ Finalise(k)
  /\ IF At(k, "confirm") THEN Goto(k, "again") ELSE EndsAs(k, "unreachable")
  /\ UNCHANGED <<row, journal, fresh, doubt>>

ConfirmUnanswered(k) ==
  /\ pc[k] \in {"confirm", "again"} /\ "confirm" \in Lossy
  /\ UNCHANGED demands \/ Finalise(k)
  /\ IF At(k, "confirm") THEN Goto(k, "again") ELSE EndsAs(k, "unsure")
  /\ UNCHANGED <<row, journal, fresh, doubt>>

\* An HTTP error of the first call (a gateway that gave up, say) is a refusal.
ConfirmBroken(k) ==
  /\ At(k, "confirm") /\ "broken" \in Lossy
  /\ \/ Finalise(k) /\ doubt' = TRUE
     \/ UNCHANGED <<demands, doubt>>
  /\ EndsAs(k, "refused")
  /\ UNCHANGED <<row, journal, fresh>>

\* A journal that cannot be written does not stop the try.
journaliser(k) ==
  /\ At(k, "log")
  /\ \/ journal' = journal \cup {doc[k]}
     \/ "journal" \in Lossy /\ UNCHANGED journal
  /\ EndsAs(k, "confirmed")
  /\ UNCHANGED <<row, demands, fresh, doubt>>

miseAJour(k) ==
  CASE issue[k] = "confirmed"   -> <<"confirmed", doc[k]>>
    [] issue[k] = "unsure"      -> <<"unsure", doc[k]>>
    [] issue[k] = "unreachable" -> <<"provisional", None>>
    [] issue[k] = "gap"         -> <<"failed", None>>
    [] OTHER                    -> <<"failed", doc[k]>>

WriteIssue(k) ==
  /\ At(k, "write")
  /\ Update(miseAJour(k)[1], miseAJour(k)[2])
  /\ Finish(k)
  /\ UNCHANGED <<journal, demands, doubt>>

WriteFailed(k) ==
  /\ At(k, "write") /\ "write" \in Lossy
  /\ doubt' = (doubt \/ Forgets(k))
  /\ Finish(k)
  /\ UNCHANGED <<row, journal, demands, fresh>>

-----------------------------------------------------------------------------
\* A demand that is not confirmed expires after two minutes.
Expire(u) ==
  /\ Waiting(u)
  /\ demands' = [demands EXCEPT ![u] = "gone"]
  /\ UNCHANGED <<row, journal, hands, doubt>>

\* The process stops.
Interrupt(k) ==
  /\ pc[k] \in Fatal
  /\ doubt' = (doubt \/ Forgets(k))
  /\ Finish(k)
  /\ UNCHANGED <<row, journal, demands, fresh>>

Work(k) ==
  \/ parSource(k) \/ InsertRow(k) \/ InsertItems(k) \/ ClaimRow(k)
  \/ ReadRow(k) \/ confirmationDuJournal(k) \/ Adopt(k) \/ AdoptedAlready(k)
  \/ relireDemande(k) \/ demanderFacture(k) \/ retrouverDemandeEnAttente(k)
  \/ comparerMontants(k) \/ annuler(k) \/ confirmer(k) \/ journaliser(k) \/ WriteIssue(k)

Mishap(k) ==
  \/ InsertFailed(k) \/ JournalUnread(k) \/ AdoptFailed(k) \/ AskUnanswered(k)
  \/ ConfirmUnanswered(k) \/ ConfirmBroken(k) \/ WriteFailed(k) \/ Interrupt(k)

Start(k) == emettre(k) \/ ramasser(k) \/ reessayer(k) \/ reprendre(k)

\* A step while calls are answered and the process runs.
Calm == (\E k \in Workers : Start(k) \/ Work(k)) \/ \E u \in Demands : Expire(u)

Next == Calm \/ \E k \in Workers : Mishap(k)

Spec == Init /\ [][Next]_vars

\* A call goes on; at last calls are answered.
FairSpec ==
  /\ Spec
  /\ \A k \in Workers : WF_vars(Work(k))
  /\ <>[][Calm]_vars

-----------------------------------------------------------------------------
(* Properties.                                                             *)

TypeOK ==
  /\ status \in Statuses
  /\ uid \in Demands \cup {None}
  /\ journal \subseteq Demands
  /\ demands \in [Demands -> DemandStates]
  /\ pc \in [Workers -> Steps]
  /\ doc \in [Workers -> Demands \cup {None}]
  /\ issue \in [Workers -> Issues]
  /\ fresh \in [Workers -> BOOLEAN]
  /\ doubt \in BOOLEAN

\* What is printed as a normalised invoice is one at the tax office, under the
\* uid that the row holds (090: confirmed only with its code).
ConfirmedIsFinal == status = "confirmed" => uid \in Demands /\ demands[uid] = "final"

\* One call makes the row of a sale: two tills that send it at once do not both
\* write its articles (uq_normalized_invoices_source).
OneRow == \A k, j \in Workers : pc[k] = "items" /\ pc[j] = "items" => k = j

\* The row: both, and everything has its type.
RowIsTrue == TypeOK /\ ConfirmedIsFinal /\ OneRow

\* "sending again would make a duplicate" (FN tenter): lost answers, a stop and a
\* resumption make no second invoice at the tax office, but for the cases that
\* doubt records: two tries at once, an HTTP error after the confirmation, a stop
\* before the journal, an adoption that fails.
FinalisedOnce ==
  ~ doubt => \A u, v \in Demands : demands[u] = "final" /\ demands[v] = "final" => u = v

\* Nor is an invoice of the tax office forgotten: the row or the journal tells, or
\* the one who confirmed it is still there to write it down.
FinalisedIsKnown ==
  ~ doubt => \A u \in Demands : demands[u] = "final" =>
    \/ status = "confirmed" /\ uid = u
    \/ status = "unsure"
    \/ u \in journal
    \/ \E k \in Workers : doc[k] = u /\ pc[k] \in Trying

\* One invoice, and known.
OneInvoice == FinalisedOnce /\ FinalisedIsKnown

\* The passes of the job get to this row as long as it is one that they resume: it is
\* among the 20 oldest that wait, and none before it ends the pass ("injoignable").
ResumedForEver == SF_vars(\E k \in Workers : reprendre(k))

\* A sale that has its row gets its invoice, or a refusal that a person has to look
\* at; it does not stay pending or provisional.
RowIsAnswered == status # "NONE" ~> status \in {"confirmed", "failed", "unsure"}

\* What the journal knows ends in the row, whoever wrote it and stopped (a failed
\* one waits for a person).
JournalIsAdopted ==
  journal # {} /\ ~ doubt /\ status \in {"pending", "provisional"} ~> status = "confirmed" \/ doubt

\* No row that the job comes back to waits for ever, for an invoice or with one that
\* exists.
AnsweredAtLast == ResumedForEver => RowIsAnswered /\ JournalIsAdopted
=============================================================================
