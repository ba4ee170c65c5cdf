---------------------- MODULE NormalisedInvoice_proofs ----------------------
(***************************************************************************)
(* Proofs about NormalisedInvoice, for any number of tries at once, of     *)
(* demands at the e-MCF, any lost answers and any stops.                   *)
(***************************************************************************)
EXTENDS NormalisedInvoice, TLAPS

USE DEF row, hands

-----------------------------------------------------------------------------
(* The invariant.                                                          *)

RowTypes ==
  /\ status \in Statuses
  /\ uid \in Demands \cup {None}
  /\ journal \subseteq Demands
  /\ demands \in [Demands -> DemandStates]
  /\ fresh \in [Workers -> BOOLEAN]
  /\ doubt \in BOOLEAN

TryTypes ==
  /\ pc \in [Workers -> Steps]
  /\ doc \in [Workers -> Demands \cup {None}]
  /\ issue \in [Workers -> Issues]

\* A try has a demand in hand where it speaks of one, and an issue at its end.
HasItsDemand(k) ==
  /\ pc[k] \in {"details", "compare", "cancel", "confirm", "again", "log"} => doc[k] \in Demands
  /\ pc[k] # "write" => issue[k] = "none"

IsFinal(u) == u \in Demands /\ demands[u] = "final"

\* Whoever says that a demand is an invoice says so of a finalised one.
SaysFinal ==
  /\ \A u \in journal : IsFinal(u)
  /\ status = "confirmed" => IsFinal(uid)
  /\ \A k \in Workers : pc[k] = "log" \/ issue[k] = "confirmed" => IsFinal(doc[k])

\* Articles are written for a row that is there.
RowFirst == \A k \in Workers : pc[k] = "items" => status # "NONE"

InvoiceInv ==
  /\ RowTypes /\ TryTypes /\ (\A k \in Workers : HasItsDemand(k))
  /\ SaysFinal /\ RowFirst /\ OneRow

-----------------------------------------------------------------------------
(* Steps.                                                                  *)

LEMMA StepsAre ==
  /\ Steps = {"idle", "seek", "insert", "items", "claim", "read", "journal", "adopt", "details",
              "ask", "search", "doublon", "compare", "cancel", "confirm", "again", "log", "write"}
  /\ Issues = {"none", "confirmed", "unreachable", "gap", "unsure", "refused"}
BY DEF Steps, Issues

\* What any step of worker k does to the hands of the others.
Alone(k) ==
  \A l \in Workers \ {k} : pc'[l] = pc[l] /\ doc'[l] = doc[l] /\ issue'[l] = issue[l]

Acts(k) == Start(k) \/ Work(k) \/ Mishap(k)

LEMMA OthersWait ==
  ASSUME RowTypes, TryTypes, NEW k \in Workers, Acts(k)
  PROVE  TryTypes' /\ Alone(k)
<1> USE StepsAre DEF TryTypes, Alone
<1>1. ASSUME NEW step \in Steps, Goto(k, step)  PROVE TryTypes' /\ Alone(k)
  BY <1>1 DEF Goto
<1>2. ASSUME NEW u \in Demands \cup {None}, NEW step \in Steps, Take(k, u, step)
      PROVE  TryTypes' /\ Alone(k)
  BY <1>2 DEF Take
<1>3. ASSUME NEW what \in Issues, EndsAs(k, what)  PROVE TryTypes' /\ Alone(k)
  BY <1>3 DEF EndsAs
<1>4. ASSUME Finish(k)  PROVE TryTypes' /\ Alone(k)
  BY <1>4 DEF Finish
<1>5. CASE Start(k)
  BY <1>1, <1>5 DEF Start, emettre, ramasser, reessayer, reprendre, Begin
<1>6. CASE Work(k)
  <2>1. \/ \E step \in Steps : Goto(k, step)
        \/ \E u \in Demands \cup {None}, step \in Steps : Take(k, u, step)
        \/ \E what \in Issues : EndsAs(k, what)
        \/ Finish(k)
    <3>1. CASE \/ parSource(k) \/ InsertRow(k) \/ InsertItems(k) \/ ClaimRow(k)
               \/ ReadRow(k) \/ confirmationDuJournal(k) \/ Adopt(k) \/ AdoptedAlready(k)
      BY <3>1 DEF parSource, InsertRow, InsertItems, ClaimRow, ReadRow,
         confirmationDuJournal, Send, Adopt, AdoptedAlready, RowTypes
    <3>2. CASE \/ relireDemande(k) \/ demanderFacture(k) \/ retrouverDemandeEnAttente(k)
      BY <3>2 DEF relireDemande, demanderFacture, retrouverDemandeEnAttente
    <3>3. CASE \/ comparerMontants(k) \/ annuler(k) \/ confirmer(k) \/ journaliser(k) \/ WriteIssue(k)
      BY <3>3 DEF comparerMontants, annuler, confirmer, journaliser, WriteIssue
    <3> QED BY <1>6, <3>1, <3>2, <3>3 DEF Work
  <2> QED BY <1>1, <1>2, <1>3, <1>4, <2>1
<1>7. CASE Mishap(k)
  <2>1. \/ \E step \in Steps : Goto(k, step)
        \/ \E what \in Issues : EndsAs(k, what)
        \/ Finish(k)
    BY <1>7 DEF Mishap, InsertFailed, JournalUnread, Send, AdoptFailed, AskUnanswered,
       ConfirmUnanswered, ConfirmBroken, WriteFailed, Interrupt
  <2> QED BY <1>1, <1>3, <1>4, <2>1
<1> QED BY <1>5, <1>6, <1>7 DEF Acts
LEMMA HasItsDemandStep ==
  ASSUME TryTypes, RowTypes, NEW k \in Workers, Acts(k), \A l \in Workers : HasItsDemand(l)
  PROVE  \A l \in Workers : HasItsDemand(l)'
<1>1. \A l \in Workers \ {k} : HasItsDemand(l)'
  BY OthersWait DEF Alone, HasItsDemand
<1>2. HasItsDemand(k)'
  <2> USE DEF HasItsDemand, TryTypes, RowTypes, At, Goto, Take, Finish, EndsAs
  <2>1. CASE Start(k)
    BY <2>1 DEF Start, emettre, ramasser, reessayer, reprendre, Begin
  <2>2. CASE \/ parSource(k) \/ InsertRow(k) \/ InsertItems(k) \/ ClaimRow(k)
             \/ ReadRow(k) \/ confirmationDuJournal(k) \/ Adopt(k) \/ AdoptedAlready(k)
    BY <2>2 DEF parSource, InsertRow, InsertItems, ClaimRow, ReadRow,
       confirmationDuJournal, Send, Adopt, AdoptedAlready
  <2>3. CASE relireDemande(k) \/ demanderFacture(k) \/ retrouverDemandeEnAttente(k)
    BY <2>3 DEF relireDemande, demanderFacture, retrouverDemandeEnAttente
  <2>4. CASE \/ comparerMontants(k) \/ annuler(k) \/ confirmer(k) \/ journaliser(k) \/ WriteIssue(k)
    BY <2>4 DEF comparerMontants, annuler, confirmer, journaliser, WriteIssue
  <2>5. CASE Mishap(k)
    BY <2>5 DEF Mishap, InsertFailed, JournalUnread, Send, AdoptFailed, AskUnanswered,
       ConfirmUnanswered, ConfirmBroken, WriteFailed, Interrupt
  <2> QED BY <2>1, <2>2, <2>3, <2>4, <2>5 DEF Acts, Work
<1> QED BY <1>1, <1>2

\* At the tax office an invoice stays one, and what waits may become one.
LEMMA FinalStays ==
  ASSUME InvoiceInv, [Next]_vars
  PROVE  /\ demands' \in [Demands -> DemandStates]
         /\ \A u \in Demands : demands[u] = "final" => demands'[u] = "final"
<1> USE DEF InvoiceInv, RowTypes, DemandStates
<1>1. ASSUME NEW u \in Demands, demands' = [demands EXCEPT ![u] = "pending"], demands[u] = "none"
      PROVE  /\ demands' \in [Demands -> DemandStates]
             /\ \A v \in Demands : demands[v] = "final" => demands'[v] = "final"
  BY <1>1
<1>2. ASSUME NEW u \in Demands, NEW s \in {"final", "gone"}, demands[u] = "pending",
             demands' = [demands EXCEPT ![u] = s]
      PROVE  /\ demands' \in [Demands -> DemandStates]
             /\ \A v \in Demands : demands[v] = "final" => demands'[v] = "final"
  BY <1>2
<1>3. \/ UNCHANGED demands
      \/ \E u \in Demands : Accept(u)
      \/ \E k \in Workers : Finalise(k) /\ doc[k] \in Demands
      \/ \E u \in Demands : Waiting(u) /\ demands' = [demands EXCEPT ![u] = "gone"]
  <2>1. ASSUME NEW k \in Workers, Start(k)  PROVE UNCHANGED demands
    BY <2>1 DEF Start, emettre, ramasser, reessayer, reprendre
  <2>2. ASSUME NEW k \in Workers, Work(k), ~ annuler(k), ~ confirmer(k)
        PROVE  UNCHANGED demands \/ \E u \in Demands : Accept(u)
    BY <2>2 DEF Work, parSource, InsertRow, InsertItems, ClaimRow, ReadRow,
       confirmationDuJournal, Adopt, AdoptedAlready, relireDemande, demanderFacture,
       retrouverDemandeEnAttente, comparerMontants, journaliser, WriteIssue
  <2>3. ASSUME NEW k \in Workers, annuler(k)
        PROVE  UNCHANGED demands \/ \E u \in Demands : Waiting(u) /\ demands' = [demands EXCEPT ![u] = "gone"]
    <3>1. doc[k] \in Demands
      BY <2>3 DEF annuler, At, HasItsDemand
    <3> QED BY <2>3, <3>1 DEF annuler
  <2>4. ASSUME NEW k \in Workers, confirmer(k) \/ ConfirmUnanswered(k) \/ ConfirmBroken(k)
        PROVE  UNCHANGED demands \/ (Finalise(k) /\ doc[k] \in Demands)
    <3>1. doc[k] \in Demands
      BY <2>4 DEF confirmer, ConfirmUnanswered, ConfirmBroken, At, HasItsDemand
    <3> QED BY <2>4, <3>1 DEF confirmer, ConfirmUnanswered, ConfirmBroken
  <2>5. ASSUME NEW k \in Workers, Mishap(k), ~ ConfirmUnanswered(k), ~ ConfirmBroken(k)
        PROVE  UNCHANGED demands \/ \E u \in Demands : Accept(u)
    BY <2>5 DEF Mishap, InsertFailed, JournalUnread, AdoptFailed, AskUnanswered, WriteFailed, Interrupt
  <2>6. CASE (\E u \in Demands : Expire(u)) \/ UNCHANGED vars
    BY <2>6 DEF Expire, vars
  <2> QED BY <2>1, <2>2, <2>3, <2>4, <2>5, <2>6 DEF Next, Calm
<1> QED BY <1>1, <1>2, <1>3 DEF Accept, Finalise, Waiting
\* What a step may write in the row.
LEMMA RowWrites ==
  ASSUME InvoiceInv, NEW k \in Workers, Acts(k)
  PROVE  /\ status' \in Statuses /\ uid' \in Demands \cup {None}
         /\ fresh' \in [Workers -> BOOLEAN]
         /\ status # "NONE" => status' # "NONE"
         /\ status' = "confirmed" =>
              \/ status = "confirmed" /\ uid' = uid
              \/ uid' \in journal
              \/ issue[k] = "confirmed" /\ uid' = doc[k]
<1> USE DEF InvoiceInv, RowTypes, TryTypes, Statuses
<1>1. ASSUME \/ UNCHANGED <<row, fresh>>
             \/ UNCHANGED row /\ fresh' \in [Workers -> BOOLEAN]
             \/ SetRow("pending", None) \/ SetRow("pending", uid)
             \/ \E u \in journal : SetRow("confirmed", u)
             \/ Update(miseAJour(k)[1], miseAJour(k)[2])
      PROVE  /\ status' \in Statuses /\ uid' \in Demands \cup {None}
             /\ fresh' \in [Workers -> BOOLEAN]
             /\ status # "NONE" => status' # "NONE"
             /\ status' = "confirmed" =>
                  \/ status = "confirmed" /\ uid' = uid
                  \/ uid' \in journal
                  \/ issue[k] = "confirmed" /\ uid' = doc[k]
  <2>1. miseAJour(k) \in ({"confirmed", "unsure", "provisional", "failed"} \X (Demands \cup {None}))
    BY DEF miseAJour
  <2>2. miseAJour(k)[1] = "confirmed" => issue[k] = "confirmed" /\ miseAJour(k)[2] = doc[k]
    BY DEF miseAJour
  <2> QED BY <1>1, <2>1, <2>2 DEF SetRow, Update
<1>2. CASE Start(k)
  BY <1>1, <1>2 DEF Start, emettre, ramasser, reessayer, reprendre
<1>3. CASE Work(k)
  BY <1>1, <1>3 DEF Work, parSource, InsertRow, InsertItems, ClaimRow, ReadRow,
     confirmationDuJournal, Adopt, AdoptedAlready, relireDemande, demanderFacture,
     retrouverDemandeEnAttente, comparerMontants, annuler, confirmer, journaliser, WriteIssue
<1>4. CASE Mishap(k)
  BY <1>1, <1>4 DEF Mishap, InsertFailed, JournalUnread, AdoptFailed, AskUnanswered,
     ConfirmUnanswered, ConfirmBroken, WriteFailed, Interrupt
<1> QED BY <1>2, <1>3, <1>4 DEF Acts

LEMMA JournalWrites ==
  ASSUME InvoiceInv, NEW k \in Workers, Acts(k)
  PROVE  journal' = journal \/ (pc[k] = "log" /\ journal' = journal \cup {doc[k]})
BY DEF Acts, Start, emettre, ramasser, reessayer, reprendre, Work, parSource, InsertRow,
   InsertItems, ClaimRow, ReadRow, confirmationDuJournal, Adopt, AdoptedAlready, relireDemande,
   demanderFacture, retrouverDemandeEnAttente, comparerMontants, annuler, confirmer, journaliser,
   WriteIssue, Mishap, InsertFailed, JournalUnread, AdoptFailed, AskUnanswered,
   ConfirmUnanswered, ConfirmBroken, WriteFailed, Interrupt, At

LEMMA RowTypesStep == InvoiceInv /\ [Next]_vars => RowTypes'
<1> SUFFICES ASSUME InvoiceInv, [Next]_vars  PROVE RowTypes'
  OBVIOUS
<1>1. demands' \in [Demands -> DemandStates]
  BY FinalStays
<1>2. ASSUME NEW k \in Workers, Acts(k)  PROVE RowTypes'
  <2>1. journal' \subseteq Demands
    <3>1. pc[k] = "log" => doc[k] \in Demands
      BY DEF InvoiceInv, HasItsDemand
    <3> QED BY <1>2, <3>1, JournalWrites DEF InvoiceInv, RowTypes
  <2>2. doubt' \in BOOLEAN
    BY <1>2 DEF InvoiceInv, RowTypes, Acts, Start, emettre, ramasser, reessayer, reprendre,
       Work, parSource, InsertRow, InsertItems, ClaimRow, ReadRow, confirmationDuJournal,
       Adopt, AdoptedAlready, relireDemande, demanderFacture, retrouverDemandeEnAttente,
       comparerMontants, annuler, confirmer, journaliser, WriteIssue, Mishap, InsertFailed,
       JournalUnread, AdoptFailed, AskUnanswered, ConfirmUnanswered, ConfirmBroken,
       WriteFailed, Interrupt, Forgets
  <2> QED BY <1>1, <1>2, <2>1, <2>2, RowWrites DEF RowTypes
<1>3. CASE (\E u \in Demands : Expire(u)) \/ UNCHANGED vars
  BY <1>1, <1>3 DEF InvoiceInv, RowTypes, Expire, vars
<1> QED BY <1>2, <1>3 DEF Next, Calm, Acts

\* How a worker comes to say that its demand is final.
LEMMA ActorSaysFinal ==
  ASSUME InvoiceInv, [Next]_vars, NEW k \in Workers, Acts(k),
         pc'[k] = "log" \/ issue'[k] = "confirmed"
  PROVE  IsFinal(doc[k])' /\ doc'[k] = doc[k]
<1> USE DEF InvoiceInv, TryTypes, RowTypes
<1>0. HasItsDemand(k) /\ FALSE \in BOOLEAN
  OBVIOUS
<1>1. (confirmer(k) /\ Finalise(k) /\ pc'[k] = "log") \/ journaliser(k)
  <2> USE DEF At, Goto, Take, EndsAs, Finish, HasItsDemand
  <2>1. ~ Start(k)
    BY <1>0 DEF Start, emettre, ramasser, reessayer, reprendre, Begin
  <2>2. \/ pc'[k] # "log" /\ issue'[k] # "confirmed"
        \/ confirmer(k) \/ journaliser(k) \/ ~ Work(k)
    <3>1. CASE \/ parSource(k) \/ InsertRow(k) \/ InsertItems(k) \/ ClaimRow(k)
               \/ ReadRow(k) \/ confirmationDuJournal(k) \/ Adopt(k) \/ AdoptedAlready(k)
      BY <1>0, <3>1 DEF parSource, InsertRow, InsertItems, ClaimRow, ReadRow,
         confirmationDuJournal, Send, Adopt, AdoptedAlready
    <3>2. CASE relireDemande(k) \/ demanderFacture(k) \/ retrouverDemandeEnAttente(k)
      BY <1>0, <3>2 DEF relireDemande, demanderFacture, retrouverDemandeEnAttente
    <3>3. CASE comparerMontants(k) \/ annuler(k) \/ WriteIssue(k)
      BY <1>0, <3>3 DEF comparerMontants, annuler, WriteIssue
    <3> QED BY <3>1, <3>2, <3>3 DEF Work
  <2>3. confirmer(k) => Finalise(k) /\ pc'[k] = "log"
    BY <1>0 DEF confirmer
  <2>4. ~ Mishap(k)
    BY <1>0 DEF Mishap, InsertFailed, JournalUnread, Send, AdoptFailed, AskUnanswered,
       ConfirmUnanswered, ConfirmBroken, WriteFailed, Interrupt
  <2> QED BY <2>1, <2>2, <2>3, <2>4 DEF Acts
<1>2. CASE confirmer(k) /\ Finalise(k) /\ pc'[k] = "log"
  <2>1. doc[k] \in Demands
    BY <1>0, <1>2 DEF confirmer, HasItsDemand
  <2>2. doc' = doc
    BY <1>2 DEF confirmer, Goto, EndsAs
  <2> QED BY <1>2, <2>1, <2>2 DEF Finalise, IsFinal
<1>3. CASE journaliser(k)
  BY <1>3, FinalStays DEF journaliser, EndsAs, At, SaysFinal, IsFinal
<1> QED BY <1>1, <1>2, <1>3
LEMMA SaysFinalStep == InvoiceInv /\ [Next]_vars => SaysFinal'
<1> SUFFICES ASSUME InvoiceInv, [Next]_vars  PROVE SaysFinal'
  OBVIOUS
<1>0. SaysFinal /\ TryTypes /\ RowTypes
  BY DEF InvoiceInv
<1>1. \A u : IsFinal(u) => IsFinal(u)'
  BY FinalStays DEF IsFinal
<1>2. ASSUME NEW k \in Workers, Acts(k)  PROVE SaysFinal'
  <2>1. \A u \in journal' : IsFinal(u)'
    BY <1>0, <1>1, <1>2, JournalWrites DEF SaysFinal
  <2>2. status' = "confirmed" => IsFinal(uid)'
    BY <1>0, <1>1, <1>2, RowWrites DEF SaysFinal
  <2>3. ASSUME NEW l \in Workers, pc'[l] = "log" \/ issue'[l] = "confirmed"
        PROVE  IsFinal(doc[l])'
    <3>1. CASE l = k
      BY <1>2, <2>3, <3>1, ActorSaysFinal
    <3>2. CASE l # k
      BY <1>0, <1>1, <1>2, <2>3, <3>2, OthersWait DEF Alone, SaysFinal
    <3> QED BY <3>1, <3>2
  <2> QED BY <2>1, <2>2, <2>3 DEF SaysFinal
<1>3. CASE (\E u \in Demands : Expire(u)) \/ UNCHANGED vars
  <2>1. UNCHANGED <<row, journal, pc, doc, issue>>
    BY <1>3 DEF Expire, vars
  <2> QED BY <1>0, <1>1, <2>1 DEF SaysFinal
<1> QED BY <1>2, <1>3 DEF Next, Calm, Acts

\* The second one to come finds the row (uq_normalized_invoices_source).
LEMMA OneRowStep == InvoiceInv /\ [Next]_vars => RowFirst' /\ OneRow'
<1> SUFFICES ASSUME InvoiceInv, [Next]_vars  PROVE RowFirst' /\ OneRow'
  OBVIOUS
<1>0. RowFirst /\ OneRow /\ TryTypes /\ RowTypes
  BY DEF InvoiceInv
<1>1. ASSUME NEW k \in Workers, Acts(k)  PROVE RowFirst' /\ OneRow'
  <2>1. pc'[k] = "items" => status = "NONE" /\ status' # "NONE"
    <3> USE <1>0 DEF TryTypes, At, Goto, Take, EndsAs, Finish
    <3>1. CASE Start(k)
      BY <3>1 DEF Start, emettre, ramasser, reessayer, reprendre, Begin
    <3>2. CASE InsertRow(k)
      BY <3>2 DEF InsertRow, SetRow
    <3>3. CASE \/ parSource(k) \/ InsertItems(k) \/ ClaimRow(k)
               \/ ReadRow(k) \/ confirmationDuJournal(k) \/ Adopt(k) \/ AdoptedAlready(k)
      BY <3>3 DEF parSource, InsertItems, ClaimRow, ReadRow,
         confirmationDuJournal, Send, Adopt, AdoptedAlready
    <3>4. CASE \/ relireDemande(k) \/ demanderFacture(k) \/ retrouverDemandeEnAttente(k)
               \/ comparerMontants(k) \/ annuler(k) \/ confirmer(k) \/ journaliser(k)
               \/ WriteIssue(k)
      BY <3>4 DEF relireDemande, demanderFacture, retrouverDemandeEnAttente,
         comparerMontants, annuler, confirmer, journaliser, WriteIssue
    <3>5. CASE Mishap(k)
      BY <3>5 DEF Mishap, InsertFailed, JournalUnread, Send, AdoptFailed, AskUnanswered,
         ConfirmUnanswered, ConfirmBroken, WriteFailed, Interrupt
    <3> QED BY <1>1, <3>1, <3>2, <3>3, <3>4, <3>5 DEF Acts, Work
  <2>2. \A l \in Workers \ {k} : pc'[l] = pc[l]
    BY <1>0, <1>1, OthersWait DEF Alone
  <2>3. status # "NONE" => status' # "NONE"
    BY <1>1, RowWrites
  <2> QED BY <1>0, <2>1, <2>2, <2>3 DEF RowFirst, OneRow
<1>2. CASE (\E u \in Demands : Expire(u)) \/ UNCHANGED vars
  BY <1>0, <1>2 DEF Expire, vars, RowFirst, OneRow
<1> QED BY <1>1, <1>2 DEF Next, Calm, Acts

LEMMA InvoiceInvInit == Init => InvoiceInv
<1> SUFFICES ASSUME Init  PROVE InvoiceInv
  OBVIOUS
<1> USE StepsAre DEF Init
<1>1. RowTypes /\ TryTypes
  BY DEF RowTypes, TryTypes, Statuses, DemandStates
<1>2. (\A k \in Workers : HasItsDemand(k)) /\ SaysFinal /\ RowFirst /\ OneRow
  BY DEF HasItsDemand, SaysFinal, RowFirst, OneRow
<1> QED BY <1>1, <1>2 DEF InvoiceInv

LEMMA InvoiceInvStep == InvoiceInv /\ [Next]_vars => InvoiceInv'
<1> SUFFICES ASSUME InvoiceInv, [Next]_vars  PROVE InvoiceInv'
  OBVIOUS
<1>1. TryTypes' /\ \A l \in Workers : HasItsDemand(l)'
  <2>1. ASSUME NEW k \in Workers, Acts(k)  PROVE TryTypes' /\ \A l \in Workers : HasItsDemand(l)'
    BY <2>1, OthersWait, HasItsDemandStep DEF InvoiceInv
  <2>2. CASE (\E u \in Demands : Expire(u)) \/ UNCHANGED vars
    BY <2>2 DEF Expire, vars, InvoiceInv, TryTypes, HasItsDemand
  <2> QED BY <2>1, <2>2 DEF Next, Calm, Acts
<1>2. RowTypes' /\ SaysFinal' /\ RowFirst' /\ OneRow'
  BY RowTypesStep, SaysFinalStep, OneRowStep
<1> QED BY <1>1, <1>2 DEF InvoiceInv

-----------------------------------------------------------------------------
(* What the row says exists.                                               *)

\* RowIsTrue: for any tills, jobs, lost answers and stops, what the row calls a
\* normalised invoice is one at the tax office under its uid (FN tenter, 090), and
\* the row of a sale is written by one call.
THEOREM WhatIsPrintedExists == Spec => []RowIsTrue
<1>1. InvoiceInv => RowIsTrue
  BY DEF InvoiceInv, RowIsTrue, TypeOK, RowTypes, TryTypes, SaysFinal, IsFinal, ConfirmedIsFinal
<1> QED BY <1>1, InvoiceInvInit, InvoiceInvStep, PTL DEF Spec
-----------------------------------------------------------------------------
(* One invoice.  As long as none of the cases that doubt records happened,     *)
(* one worker at a time is in a try, and where it stands tells what the        *)
(* e-MCF has finalised: nothing before it confirms, its own demand after.      *)

\* A row that the job still finds as it read it is one it may resume.
FreshRow == \A k \in Workers : fresh[k] => status \in {"provisional", "pending"}

OneTry == \A k, j \in Workers : pc[k] \in Trying /\ pc[j] \in Trying => k = j

\* The try has confirmed, and goes to write it down.
Tells(k) ==
  \/ pc[k] \in {"again", "log"}
  \/ pc[k] = "write" /\ issue[k] \in {"confirmed", "unsure"}

ToConfirm == {"details", "ask", "search", "doublon", "compare", "cancel", "confirm"}

Sees(k) ==
  /\ pc[k] \in Trying => status \notin {"confirmed", "unsure"}
  /\ pc[k] \in {"journal", "adopt"} => \A u \in Demands : IsFinal(u) => u \in journal
  /\ pc[k] \in ToConfirm \/ (pc[k] = "write" /\ ~ Tells(k)) => \A u \in Demands : ~ IsFinal(u)
  /\ Tells(k) => \A u \in Demands : IsFinal(u) => u = doc[k]

KnownFinal ==
  \A u \in Demands : IsFinal(u) =>
    \/ u \in journal
    \/ status = "confirmed" /\ uid = u
    \/ status = "unsure"
    \/ \E k \in Workers : doc[k] = u /\ Tells(k)

OneFinal == \A u, v \in Demands : IsFinal(u) /\ IsFinal(v) => u = v

Sure == OneTry /\ (\A k \in Workers : Sees(k)) /\ KnownFinal /\ OneFinal

OneInv == FreshRow /\ (~ doubt => Sure)

LEMMA OneInvInit == Init => OneInv
BY StepsAre DEF Init, OneInv, FreshRow, Sure, OneTry, Trying, Sees, Tells, ToConfirm, KnownFinal,
   OneFinal, IsFinal

LEMMA FreshRowStep == InvoiceInv /\ FreshRow /\ [Next]_vars => FreshRow'
<1> SUFFICES ASSUME InvoiceInv, FreshRow, [Next]_vars  PROVE FreshRow'
  OBVIOUS
<1>1. ASSUME \/ UNCHANGED <<row, fresh>>
             \/ \E s \in Statuses, u \in Demands \cup {None} : SetRow(s, u)
             \/ \E k \in Workers : /\ status \in {"provisional", "pending"} /\ UNCHANGED row
                                   /\ fresh' = [fresh EXCEPT ![k] = TRUE]
      PROVE  FreshRow'
  BY <1>1 DEF FreshRow, SetRow, InvoiceInv, RowTypes
<1>2. ASSUME NEW k \in Workers, Acts(k)  PROVE FreshRow'
  <2>0. RowTypes /\ TryTypes
    BY DEF InvoiceInv
  <2>1. CASE Start(k)
    BY <1>1, <2>1 DEF Start, emettre, ramasser, reessayer, reprendre
  <2>2. CASE InsertRow(k) \/ ClaimRow(k) \/ Adopt(k) \/ InsertFailed(k) \/ AdoptFailed(k)
    BY <1>1, <2>0, <2>2 DEF InsertRow, ClaimRow, Adopt, InsertFailed, AdoptFailed, RowTypes, Statuses
  <2>3. CASE WriteIssue(k)
    <3>1. miseAJour(k)[1] \in Statuses /\ miseAJour(k)[2] \in Demands \cup {None}
      BY <2>0 DEF miseAJour, Statuses, TryTypes
    <3> QED BY <1>1, <2>3, <3>1 DEF WriteIssue, Update
  <2>4. CASE Acts(k) /\ ~ Start(k) /\ ~ InsertRow(k) /\ ~ ClaimRow(k) /\ ~ Adopt(k)
             /\ ~ InsertFailed(k) /\ ~ AdoptFailed(k) /\ ~ WriteIssue(k)
    <3>1. UNCHANGED <<row, fresh>>
      BY <2>4 DEF Acts, Work, parSource, InsertItems, ReadRow, confirmationDuJournal,
         AdoptedAlready, relireDemande, demanderFacture, retrouverDemandeEnAttente,
         comparerMontants, annuler, confirmer, journaliser, Mishap, JournalUnread, AskUnanswered,
         ConfirmUnanswered, ConfirmBroken, WriteFailed, Interrupt
    <3> QED BY <1>1, <3>1
  <2> QED BY <1>2, <2>1, <2>2, <2>3, <2>4
<1>3. CASE (\E u \in Demands : Expire(u)) \/ UNCHANGED vars
  BY <1>1, <1>3 DEF Expire, vars
<1> QED BY <1>2, <1>3 DEF Next, Calm, Acts

\* A demand that comes, is withdrawn or expires is no invoice before nor after.
LEMMA SameFinals ==
  ASSUME InvoiceInv,
         \/ UNCHANGED demands
         \/ \E u \in Demands : Accept(u)
         \/ \E u \in Demands : Waiting(u) /\ demands' = [demands EXCEPT ![u] = "gone"]
  PROVE  \A u : IsFinal(u)' <=> IsFinal(u)
BY DEF InvoiceInv, RowTypes, IsFinal, Accept, Waiting

\* A confirmation makes one of the demand in hand.
LEMMA NewFinal ==
  ASSUME InvoiceInv, NEW k \in Workers, doc[k] \in Demands, Finalise(k)
  PROVE  \A u : IsFinal(u)' <=> IsFinal(u) \/ u = doc[k]
BY DEF InvoiceInv, RowTypes, IsFinal, Finalise, Waiting

\* Around a try: what a call that is not in one changes.
LEMMA OutsideATry ==
  ASSUME InvoiceInv, FreshRow, NEW k \in Workers, Acts(k), pc[k] \notin Trying, ~ ReadRow(k)
  PROVE  /\ pc'[k] \notin Trying /\ UNCHANGED <<journal, demands>>
         /\ (status' \in {"confirmed", "unsure"} \/ status \in {"confirmed", "unsure"}) => UNCHANGED row
<1>0. TryTypes /\ RowTypes /\ pc[k] \in {"idle", "seek", "insert", "items", "claim", "read"}
  BY StepsAre DEF InvoiceInv, TryTypes, Trying
<1> USE StepsAre DEF Trying, At, Goto, Take, Finish, EndsAs, TryTypes
<1>1. CASE Start(k)
  BY <1>0, <1>1 DEF Start, emettre, ramasser, reessayer, reprendre, Begin
<1>2. CASE parSource(k) \/ InsertItems(k) \/ Interrupt(k)
  BY <1>0, <1>2 DEF parSource, InsertItems, Interrupt
<1>3. CASE InsertRow(k) \/ InsertFailed(k)
  BY <1>0, <1>3 DEF InsertRow, InsertFailed, SetRow
<1>4. CASE ClaimRow(k)
  BY <1>0, <1>4 DEF ClaimRow, SetRow, FreshRow
<1> QED BY <1>0, <1>1, <1>2, <1>3, <1>4 DEF Acts, Work, confirmationDuJournal, Adopt, AdoptedAlready,
           relireDemande, demanderFacture, retrouverDemandeEnAttente, comparerMontants, annuler,
           confirmer, journaliser, WriteIssue, Mishap, JournalUnread, AdoptFailed, AskUnanswered,
           ConfirmUnanswered, ConfirmBroken, WriteFailed

\* In a try: whoever is in one is alone in it, so that its own view is what counts.
LEMMA InATry ==
  ASSUME InvoiceInv, OneInv, [Next]_vars, ~ doubt', ~ doubt, NEW k \in Workers, Acts(k), pc[k] \in Trying
  PROVE  Sees(k)' /\ KnownFinal' /\ OneFinal'
<1>0. /\ TryTypes /\ RowTypes /\ HasItsDemand(k) /\ Sees(k) /\ KnownFinal /\ OneFinal
      /\ status \notin {"confirmed", "unsure"}
      /\ \A l \in Workers \ {k} : ~ Tells(l)
      /\ FALSE \in BOOLEAN
  BY DEF InvoiceInv, OneInv, Sure, Sees, OneTry, Tells, Trying, Steps
<1>1. \A l \in Workers \ {k} : pc'[l] = pc[l] /\ doc'[l] = doc[l] /\ issue'[l] = issue[l]
  BY <1>0, OthersWait DEF Alone
<1> USE DEF At, TryTypes
\* Before it confirms.
<1>2. ASSUME pc'[k] \in ToConfirm \/ (pc'[k] = "write" /\ ~ Tells(k)'), UNCHANGED status,
             \A u : ~ IsFinal(u)'
      PROVE  Sees(k)' /\ KnownFinal' /\ OneFinal'
  BY <1>0, <1>2 DEF Sees, KnownFinal, OneFinal, Tells, ToConfirm
\* It has confirmed.
<1>3. ASSUME Tells(k)', UNCHANGED status, \A u \in Demands : IsFinal(u)' => u = doc'[k]
      PROVE  Sees(k)' /\ KnownFinal' /\ OneFinal'
  BY <1>0, <1>3 DEF Sees, KnownFinal, OneFinal, Tells, ToConfirm
\* It is over.
<1>4. ASSUME pc'[k] = "idle", UNCHANGED <<journal, demands>>,
             \A u \in Demands : IsFinal(u) =>
               \/ u \in journal \/ (status' = "confirmed" /\ uid' = u) \/ status' = "unsure"
      PROVE  Sees(k)' /\ KnownFinal' /\ OneFinal'
  BY <1>0, <1>4 DEF Sees, KnownFinal, OneFinal, Tells, ToConfirm, IsFinal, Trying
<1>5. CASE confirmationDuJournal(k)
  <2>1. /\ UNCHANGED <<status, journal, demands>> /\ \A u \in Demands : IsFinal(u) => u \in journal
        /\ pc'[k] = "adopt" \/ (journal = {} /\ pc'[k] \in ToConfirm)
    BY <1>0, <1>5 DEF confirmationDuJournal, Send, Goto, Sees, ToConfirm
  <2> QED BY <1>0, <1>2, <2>1 DEF Sees, KnownFinal, OneFinal, IsFinal, Tells, ToConfirm
<1>6. CASE JournalUnread(k)
  <2>1. /\ UNCHANGED <<status, journal, demands>> /\ journal = {} /\ pc'[k] \in ToConfirm
        /\ \A u \in Demands : IsFinal(u) => u \in journal
    BY <1>0, <1>6 DEF JournalUnread, Send, Goto, Sees, ToConfirm
  <2> QED BY <1>2, <2>1 DEF IsFinal
<1>7. CASE Adopt(k) \/ AdoptFailed(k) \/ AdoptedAlready(k)
  <2>1. Adopt(k)
    BY <1>0, <1>7 DEF AdoptFailed, AdoptedAlready
  <2> QED BY <1>0, <1>4, <2>1 DEF Adopt, Finish, Sees
<1>8. CASE \/ relireDemande(k) \/ demanderFacture(k) \/ AskUnanswered(k)
           \/ retrouverDemandeEnAttente(k) \/ comparerMontants(k) \/ annuler(k)
  <2>1. pc[k] \in ToConfirm /\ UNCHANGED status
    BY <1>8 DEF relireDemande, demanderFacture, AskUnanswered, retrouverDemandeEnAttente,
       comparerMontants, annuler, ToConfirm
  <2>2. \/ UNCHANGED demands
        \/ \E u \in Demands : Accept(u)
        \/ \E u \in Demands : Waiting(u) /\ demands' = [demands EXCEPT ![u] = "gone"]
    BY <1>0, <1>8 DEF relireDemande, demanderFacture, AskUnanswered, retrouverDemandeEnAttente,
       comparerMontants, annuler, HasItsDemand
  <2>3. \A u : ~ IsFinal(u)'
    <3>1. \A u \in Demands : ~ IsFinal(u)
      BY <1>0, <2>1 DEF Sees
    <3>2. \A u : ~ IsFinal(u)
      BY <3>1 DEF IsFinal
    <3> QED BY <2>2, <3>2, SameFinals
  <2>4. pc'[k] \in ToConfirm \/ (pc'[k] = "write" /\ issue'[k] \in {"refused", "unreachable", "gap"})
    BY <1>0, <1>8 DEF relireDemande, demanderFacture, AskUnanswered, retrouverDemandeEnAttente,
       comparerMontants, annuler, ToConfirm, Goto, Take, EndsAs
  <2> QED BY <1>2, <2>1, <2>3, <2>4 DEF Tells
<1>9. CASE confirmer(k) \/ ConfirmUnanswered(k) \/ ConfirmBroken(k)
  <2>1. /\ pc[k] \in {"confirm", "again"} /\ doc[k] \in Demands /\ UNCHANGED status /\ doc' = doc
    BY <1>0, <1>9 DEF confirmer, ConfirmUnanswered, ConfirmBroken, Goto, EndsAs, HasItsDemand
  <2>2. \A u \in Demands : IsFinal(u) => u = doc[k] /\ pc[k] = "again"
    BY <1>0, <2>1 DEF Sees, Tells, ToConfirm
  <2>3. CASE Finalise(k)
    <3>1. Tells(k)'
      <4>1. demands' # demands
        BY <1>0, <2>1, <2>3 DEF Finalise, Waiting, RowTypes
      <4>2. ~ ConfirmBroken(k)
        BY <4>1 DEF ConfirmBroken
      <4>3. Waiting(doc[k])
        BY <2>3 DEF Finalise
      <4> QED BY <1>0, <1>9, <2>1, <4>2, <4>3 DEF confirmer, ConfirmUnanswered, Goto, EndsAs, Tells
    <3> QED BY <1>3, <2>1, <2>2, <2>3, <3>1, NewFinal
  <2>4. CASE ~ Finalise(k)
    <3>1. UNCHANGED demands
      BY <1>9, <2>4 DEF confirmer, ConfirmUnanswered, ConfirmBroken
    <3>2. \A u : IsFinal(u)' <=> IsFinal(u)
      BY <3>1 DEF IsFinal
    <3>3. CASE Tells(k)'
      BY <1>3, <2>1, <2>2, <3>2, <3>3
    <3>4. CASE ~ Tells(k)'
      <4>1. pc[k] = "confirm" /\ pc'[k] = "write"
        BY <1>0, <1>9, <2>1, <2>4, <3>4 DEF confirmer, ConfirmUnanswered, ConfirmBroken, Goto, EndsAs, Tells
      <4>2. \A u : ~ IsFinal(u)'
        BY <2>2, <3>2, <4>1 DEF IsFinal
      <4> QED BY <1>2, <2>1, <3>4, <4>1, <4>2
    <3> QED BY <3>3, <3>4
  <2> QED BY <2>3, <2>4
<1>10. CASE journaliser(k)
  <2>1. Tells(k)' /\ UNCHANGED <<status, demands, doc>> /\ Tells(k)
    BY <1>0, <1>10 DEF journaliser, EndsAs, Tells
  <2> QED BY <1>0, <1>3, <2>1 DEF Sees, IsFinal
<1>11. CASE WriteIssue(k)
  <2>1. /\ pc'[k] = "idle" /\ UNCHANGED <<journal, demands>>
        /\ status' = miseAJour(k)[1] /\ uid' = miseAJour(k)[2]
    BY <1>0, <1>11 DEF WriteIssue, Update, SetRow, Finish
  <2>2. ASSUME NEW u \in Demands, IsFinal(u)
        PROVE  (status' = "confirmed" /\ uid' = u) \/ status' = "unsure"
    <3>1. issue[k] \in {"confirmed", "unsure"} /\ u = doc[k]
      BY <1>0, <1>11, <2>2 DEF WriteIssue, Sees, Tells
    <3> QED BY <2>1, <3>1 DEF miseAJour
  <2> QED BY <1>4, <2>1, <2>2
<1>12. CASE WriteFailed(k) \/ Interrupt(k)
  <2>1. pc'[k] = "idle" /\ UNCHANGED <<journal, demands, status, uid>> /\ ~ Forgets(k)
    BY <1>0, <1>12 DEF WriteFailed, Interrupt, Finish
  <2>2. ASSUME NEW u \in Demands, IsFinal(u)  PROVE u \in journal
    BY <1>0, <2>1, <2>2 DEF KnownFinal, Forgets, IsFinal
  <2> QED BY <1>4, <2>1, <2>2
<1>13. ~ Start(k) /\ ~ parSource(k) /\ ~ InsertRow(k) /\ ~ InsertItems(k) /\ ~ ClaimRow(k)
       /\ ~ ReadRow(k) /\ ~ InsertFailed(k)
  BY DEF Trying, Start, emettre, ramasser, reessayer, reprendre, Begin, parSource, InsertRow,
     InsertItems, ClaimRow, ReadRow, InsertFailed
<1> QED BY <1>5, <1>6, <1>7, <1>8, <1>9, <1>10, <1>11, <1>12, <1>13 DEF Acts, Work, Mishap

LEMMA SureStep ==
  ASSUME InvoiceInv, OneInv, [Next]_vars, ~ doubt'
  PROVE  Sure'
<1>0. ~ doubt
  <2>1. doubt' = doubt \/ doubt' = TRUE \/ doubt' \in {doubt \/ TRUE, doubt \/ FALSE}
    BY DEF Next, Calm, Start, emettre, ramasser, reessayer, reprendre, Work, parSource, InsertRow,
       InsertItems, ClaimRow, ReadRow, confirmationDuJournal, Adopt, AdoptedAlready, relireDemande,
       demanderFacture, retrouverDemandeEnAttente, comparerMontants, annuler, confirmer, journaliser,
       WriteIssue, Mishap, InsertFailed, JournalUnread, AdoptFailed, AskUnanswered,
       ConfirmUnanswered, ConfirmBroken, WriteFailed, Interrupt, Expire, vars, InvoiceInv, RowTypes
  <2> QED BY <2>1 DEF InvoiceInv, RowTypes
<1>1. Sure /\ FreshRow /\ TryTypes /\ RowTypes
  BY <1>0 DEF OneInv, InvoiceInv
<1>2. ASSUME NEW k \in Workers, Acts(k)  PROVE Sure'
  <2>0. \A l \in Workers \ {k} : pc'[l] = pc[l] /\ doc'[l] = doc[l] /\ issue'[l] = issue[l]
    BY <1>1, <1>2, OthersWait DEF Alone
  <2>1. CASE pc[k] \in Trying
    <3>1. Sees(k)' /\ KnownFinal' /\ OneFinal'
      BY <1>0, <1>2, <2>1, InATry
    <3>2. \A l \in Workers \ {k} : pc'[l] \notin Trying
      BY <1>1, <2>0, <2>1 DEF Sure, OneTry
    <3>3. \A l \in Workers \ {k} : Sees(l)'
      BY <3>2 DEF Sees, Tells, ToConfirm, Trying, Steps
    <3> QED BY <3>1, <3>2, <3>3 DEF Sure, OneTry
  <2>2. CASE ReadRow(k)
    <3>1. UNCHANGED <<row, journal, demands>>
      BY <2>2 DEF ReadRow
    <3>2. pc[k] = "read" /\ (pc'[k] = "idle" \/ (MayTry /\ pc'[k] = "journal"))
      BY <1>1, <2>2 DEF ReadRow, At, Take, Finish, TryTypes
    <3>3. pc'[k] = "journal" => \A l \in Workers \ {k} : pc[l] \notin Trying
      BY <1>1, <2>2, <3>2 DEF ReadRow, Take, Finish, TryTypes
    <3>4. Sees(k)'
      <4>1. CASE pc'[k] = "idle"
        BY <4>1 DEF Sees, Tells, ToConfirm, Trying
      <4>2. CASE pc'[k] = "journal"
        <5>1. \A l \in Workers : ~ Tells(l)
          BY <3>2, <3>3, <4>2 DEF Tells, Trying, Steps
        <5>2. \A u \in Demands : IsFinal(u) => u \in journal
          BY <1>1, <3>2, <4>2, <5>1 DEF Sure, KnownFinal, MayTry
        <5> QED BY <3>1, <3>2, <4>2, <5>2 DEF Sees, Tells, ToConfirm, MayTry, IsFinal
      <4> QED BY <3>2, <4>1, <4>2
    <3>5. \A l \in Workers \ {k} : Sees(l)'
      BY <1>1, <2>0, <3>1 DEF Sure, Sees, Tells, IsFinal
    <3>6. OneTry'
      BY <1>1, <2>0, <3>2, <3>3 DEF Sure, OneTry, Trying
    <3>7. KnownFinal' /\ OneFinal'
      BY <1>1, <2>0, <3>1, <3>2 DEF Sure, KnownFinal, OneFinal, IsFinal, Tells
    <3> QED BY <3>4, <3>5, <3>6, <3>7 DEF Sure
  <2>3. CASE pc[k] \notin Trying /\ ~ ReadRow(k)
    <3>1. /\ pc'[k] \notin Trying /\ UNCHANGED <<journal, demands>>
          /\ (status' \in {"confirmed", "unsure"} \/ status \in {"confirmed", "unsure"}) => UNCHANGED row
      BY <1>1, <1>2, <2>3, OutsideATry
    <3>2. \A u : IsFinal(u)' <=> IsFinal(u)
      BY <3>1 DEF IsFinal
    <3>3. ~ Tells(k) /\ ~ Tells(k)'
      BY <2>3, <3>1 DEF Tells, Trying, Steps
    <3>4. \A l \in Workers : Sees(l)'
      <4>1. Sees(k)'
        BY <3>1, <3>3 DEF Sees, ToConfirm, Trying, Steps
      <4>2. ASSUME NEW l \in Workers \ {k}  PROVE Sees(l)'
        BY <1>1, <2>0, <3>1, <3>2 DEF Sure, Sees, Tells
      <4> QED BY <4>1, <4>2
    <3>5. OneTry'
      BY <1>1, <2>0, <3>1 DEF Sure, OneTry
    <3>6. KnownFinal' /\ OneFinal'
      BY <1>1, <2>0, <3>1, <3>2, <3>3 DEF Sure, KnownFinal, OneFinal, Tells
    <3> QED BY <3>4, <3>5, <3>6 DEF Sure
  <2> QED BY <2>1, <2>2, <2>3
<1>3. CASE (\E u \in Demands : Expire(u)) \/ UNCHANGED vars
  <2>1. UNCHANGED <<status, uid, journal, pc, doc, issue>>
    BY <1>3 DEF Expire, vars
  <2>2. \A u : IsFinal(u)' <=> IsFinal(u)
    <3>1. UNCHANGED demands \/ \E u \in Demands : Waiting(u) /\ demands' = [demands EXCEPT ![u] = "gone"]
      BY <1>3 DEF Expire, vars
    <3> QED BY <3>1, SameFinals
  <2> QED BY <1>1, <2>1, <2>2 DEF Sure, OneTry, Sees, Tells, KnownFinal, OneFinal
<1> QED BY <1>2, <1>3 DEF Next, Calm, Acts

\* OneInvoice ("sending again would make a duplicate", FN tenter): lost answers,
\* stops and resumptions make one invoice at the tax office, and it is not
\* forgotten, but for the cases that doubt records.
THEOREM OneInvoiceAndKnown == Spec => []OneInvoice
<1>1. InvoiceInv /\ OneInv /\ [Next]_vars => OneInv'
  BY FreshRowStep, SureStep DEF OneInv
<1>2. InvoiceInv /\ OneInv => OneInvoice
  BY DEF OneInv, Sure, KnownFinal, OneFinal, IsFinal, Tells, OneInvoice, FinalisedOnce,
         FinalisedIsKnown, Trying, Steps
<1> QED BY <1>1, <1>2, OneInvInit, InvoiceInvInit, InvoiceInvStep, PTL DEF Spec
=============================================================================
