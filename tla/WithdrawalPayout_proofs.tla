----------------------- MODULE WithdrawalPayout_proofs -----------------------
(***************************************************************************)
(* Proofs about WithdrawalPayout, for any number of withdrawals and        *)
(* workers, both settings of AtomicRequest, Switches and Patience, and any *)
(* bound on the attempts: types, one order, what the statuses say, and     *)
(* then the money, where nothing is given back twice or out of nothing     *)
(* and, when the request is one transaction (migration 057), the whole     *)
(* system implements WithdrawalContract.                                   *)
(***************************************************************************)
EXTENDS WithdrawalPayout, TLAPS

USE DEF account, journal, provider

-----------------------------------------------------------------------------
(* Types.                                                                  *)

\* What a worker holds: the part of TypeOK its moves can disturb.
WorkerTypes ==
  /\ pc \in [Workers -> Steps]
  /\ on \in [Workers -> Withdrawals \cup {None}]
  /\ seen \in [Workers -> View]
  /\ \A k \in Workers : pc[k] # "idle" => on[k] \in Withdrawals

\* Each group of rows: the rest of it.
AccountTypes ==
  /\ status \in [Withdrawals -> Statuses]
  /\ ref \in [Withdrawals -> BOOLEAN]
  /\ debits \in [Withdrawals -> Nat]
  /\ credits \in [Withdrawals -> Nat]

JournalTypes ==
  /\ jstate \in [Withdrawals -> RowStates]
  /\ order \in [Withdrawals -> BOOLEAN]
  /\ attempts \in [Withdrawals -> Nat]

ProviderTypes ==
  /\ stray \in [Withdrawals -> Nat]
  /\ orders \in [Withdrawals -> Nat]
  /\ verdict \in [Withdrawals -> {"none", "in progress", "paid", "failed"}]

SwitchTypes == auto \in BOOLEAN /\ vouched \in [Withdrawals -> BOOLEAN]

RowTypes == AccountTypes /\ JournalTypes /\ ProviderTypes /\ SwitchTypes

LEMMA TypeParts == TypeOK <=> WorkerTypes /\ RowTypes
BY DEF TypeOK, WorkerTypes, RowTypes, AccountTypes, JournalTypes, ProviderTypes,
       SwitchTypes

LEMMA BlankIsAView == Blank \in View
BY DEF Blank, View, OpenStatus, RowStates

LEMMA TypeInit == Init => TypeOK
BY PayoutAssumption, BlankIsAView
   DEF Init, TypeOK, Statuses, OpenStatus, RowStates, Steps, Sending

LEMMA RowSeenIsAView ==
  ASSUME RowTypes, NEW w \in Withdrawals
  PROVE  RowSeen(w) \in View /\ RowSeen(w).state = jstate[w] /\ RowSeen(w).ref = FALSE
<1>1. RowSeen(w) \in View
  BY BlankIsAView DEF RowTypes, JournalTypes, RowSeen, View
<1>2. RowSeen(w).state = jstate[w] /\ RowSeen(w).ref = FALSE
  BY DEF RowSeen, Blank
<1> QED BY <1>1, <1>2

LEMMA WithdrawalSeenIsAView ==
  ASSUME RowTypes, NEW w \in Withdrawals, Open(w)
  PROVE  WithdrawalSeen(w) \in View /\ WithdrawalSeen(w).ref = ref[w]
<1>1. WithdrawalSeen(w) \in View
  BY BlankIsAView DEF RowTypes, AccountTypes, WithdrawalSeen, View, Open
<1>2. WithdrawalSeen(w).ref = ref[w]
  BY DEF WithdrawalSeen, Blank
<1> QED BY <1>1, <1>2

LEMMA BeginTypes ==
  ASSUME WorkerTypes, NEW k \in Workers, NEW w \in Withdrawals,
         NEW s \in Steps, NEW v \in View, Begin(k, w, s, v)
  PROVE  WorkerTypes'
BY DEF WorkerTypes, Begin, Goto

LEMMA FinishTypes ==
  ASSUME WorkerTypes, NEW k \in Workers, Finish(k)
  PROVE  WorkerTypes'
BY BlankIsAView DEF WorkerTypes, Finish, Goto, Steps

LEMMA ContinueTypes ==
  ASSUME WorkerTypes, NEW k \in Workers, NEW s \in Steps,
         pc[k] # "idle", Continue(k, s)
  PROVE  WorkerTypes'
BY BlankIsAView DEF WorkerTypes, Continue, Goto

LEMMA GotoTypes ==
  ASSUME WorkerTypes, NEW k \in Workers, NEW s \in Steps, NEW v \in View,
         pc[k] # "idle", Goto(k, s), UNCHANGED on,
         seen' = seen \/ seen' = [seen EXCEPT ![k] = v]
  PROVE  WorkerTypes'
BY DEF WorkerTypes, Goto

\* A step that leaves a group alone keeps its types.
LEMMA UntouchedTypes ==
  /\ AccountTypes /\ UNCHANGED account => AccountTypes'
  /\ JournalTypes /\ UNCHANGED journal => JournalTypes'
  /\ ProviderTypes /\ UNCHANGED provider => ProviderTypes'
  /\ SwitchTypes /\ UNCHANGED <<auto, vouched>> => SwitchTypes'
BY DEF AccountTypes, JournalTypes, ProviderTypes, SwitchTypes

\* Counters stay natural numbers.
LEMMA CountUp ==
  ASSUME NEW f \in [Withdrawals -> Nat], NEW w \in Withdrawals
  PROVE  [f EXCEPT ![w] = @ + 1] \in [Withdrawals -> Nat]
OBVIOUS

LEMMA CountDown ==
  ASSUME NEW f \in [Withdrawals -> Nat], NEW w \in Withdrawals, f[w] > 0
  PROVE  [f EXCEPT ![w] = @ - 1] \in [Withdrawals -> Nat]
<1>1. f[w] - 1 \in Nat  OBVIOUS
<1> QED BY <1>1

\* So do the ways the provider's side moves keep its types.
LEMMA StrayTypes ==
  ASSUME ProviderTypes, NEW w \in Withdrawals, UNCHANGED <<orders, verdict>>,
         \/ stray' = stray
         \/ stray' = [stray EXCEPT ![w] = @ + 1]
         \/ stray[w] > 0 /\ stray' = [stray EXCEPT ![w] = @ - 1]
  PROVE  ProviderTypes'
<1>1. stray \in [Withdrawals -> Nat]  BY DEF ProviderTypes
<1>2. [stray EXCEPT ![w] = @ + 1] \in [Withdrawals -> Nat]  BY <1>1, CountUp
<1>3. CASE stray[w] > 0 /\ stray' = [stray EXCEPT ![w] = @ - 1]
  <2>1. [stray EXCEPT ![w] = @ - 1] \in [Withdrawals -> Nat]  BY <1>1, <1>3, CountDown
  <2> QED BY <1>3, <2>1 DEF ProviderTypes
<1> QED BY <1>2, <1>3 DEF ProviderTypes

LEMMA OrderTypes ==
  ASSUME ProviderTypes, NEW w \in Withdrawals,
         orders' = [orders EXCEPT ![w] = @ + 1],
         verdict' = [verdict EXCEPT ![w] = "in progress"]
  PROVE  /\ orders' \in [Withdrawals -> Nat]
         /\ verdict' \in [Withdrawals -> {"none", "in progress", "paid", "failed"}]
<1>1. orders' \in [Withdrawals -> Nat]
  BY CountUp, Zenon DEF ProviderTypes
<1>2. verdict' \in [Withdrawals -> {"none", "in progress", "paid", "failed"}]
  BY DEF ProviderTypes
<1> QED BY <1>1, <1>2

\* The database functions keep the types of the rows they write.
LEMMA DatabaseTypes ==
  ASSUME AccountTypes, NEW w \in Withdrawals,
         request_withdrawal(w) \/ mark_withdrawal_processing(w)
           \/ finish_withdrawal(w) \/ fail_withdrawal(w)
  PROVE  AccountTypes'
<1> USE DEF AccountTypes, Statuses
<1>1. CASE request_withdrawal(w)
  BY <1>1 DEF request_withdrawal, OpenStatus
<1>2. CASE mark_withdrawal_processing(w)
  BY <1>2 DEF mark_withdrawal_processing, OpenStatus
<1>3. CASE finish_withdrawal(w)
  BY <1>3 DEF finish_withdrawal
<1>4. CASE fail_withdrawal(w)
  BY <1>4 DEF fail_withdrawal
<1> QED BY <1>1, <1>2, <1>3, <1>4

LEMMA MarkPayoutTypes ==
  ASSUME JournalTypes, NEW w \in Withdrawals, NEW s \in RowStates, NEW b \in BOOLEAN,
         MarkPayout(w, s, b), UNCHANGED attempts
  PROVE  JournalTypes'
<1>1. jstate' \in [Withdrawals -> RowStates]
  BY DEF MarkPayout, JournalTypes
<1>2. order' \in [Withdrawals -> BOOLEAN]
  BY Zenon DEF MarkPayout, JournalTypes
<1> QED BY <1>1, <1>2 DEF JournalTypes

\* Whatever a worker does, its step and what it works on stay well typed.
LEMMA WorkerTypesStep ==
  ASSUME WorkerTypes, RowTypes, NEW k \in Workers, WorkerStep(k)
  PROVE  WorkerTypes'
<1> USE DEF At
<1> DEFINE w == on[k]
<1>1. ASSUME NEW v \in Withdrawals, StartStep(k, v)  PROVE WorkerTypes'
  <2>1. CASE RequestWithdrawal(k, v)
    BY <2>1, BeginTypes, BlankIsAView DEF RequestWithdrawal, Steps
  <2>2. CASE InsertRequest(k, v)
    BY <2>2, BeginTypes, BlankIsAView DEF InsertRequest, Steps
  <2>3. CASE JobPick(k, v)
    BY <2>3, BeginTypes, WithdrawalSeenIsAView DEF JobPick, Steps
  <2>4. CASE Callback(k, v)
    BY <2>4, BeginTypes, BlankIsAView, RowSeenIsAView DEF Callback, Steps
  <2>5. CASE MarkSent(k, v)
    BY <2>5, BeginTypes, BlankIsAView DEF MarkSent, Steps, Sending
  <2>6. CASE Reject(k, v)
    BY <2>6, BeginTypes, BlankIsAView DEF Reject, Steps, Sending
  <2> QED BY <1>1, <2>1, <2>2, <2>3, <2>4, <2>5, <2>6 DEF StartStep
<1>2. CASE DebitRequest(k)
  BY <1>2, ContinueTypes DEF DebitRequest, Steps
<1>3. CASE DebitRefused(k)
  BY <1>3, FinishTypes DEF DebitRefused
<1>4. CASE SendStep(k)
  <2>1. CASE Dispatch(k)
    <3>1. pc[k] # "idle" /\ w \in Withdrawals
      BY <2>1 DEF Dispatch, WorkerTypes
    <3>2. CASE Finish(k)  BY <3>2, FinishTypes
    <3>3. CASE Continue(k, "pending")
      BY <3>1, <3>3, ContinueTypes DEF Steps
    <3>4. CASE Goto(k, "login") /\ seen' = [seen EXCEPT ![k] = RowSeen(w)] /\ UNCHANGED on
      BY <3>1, <3>4, GotoTypes, RowSeenIsAView DEF Steps
    <3> QED BY <2>1, <3>2, <3>3, <3>4 DEF Dispatch
  <2>2. CASE LoginOk(k)
    BY <2>2, GotoTypes, BlankIsAView DEF LoginOk, Steps
  <2>3. CASE AnswerBusy(k) \/ AnswerRefused(k) \/ AnswerAccepted(k)
    BY <2>3, GotoTypes, BlankIsAView
       DEF AnswerBusy, AnswerRefused, AnswerAccepted, Steps, Sending
  <2>4. CASE LoginError(k) \/ ClaimLost(k) \/ AnswerLost(k) \/ MarkBusy(k)
    BY <2>4, FinishTypes DEF LoginError, ClaimLost, AnswerLost, MarkBusy
  <2>5. CASE LoginRefused(k) \/ ClaimPayout(k) \/ ClaimError(k)
               \/ MarkRefused(k) \/ MarkAccepted(k)
    BY <2>5, ContinueTypes
       DEF LoginRefused, ClaimPayout, ClaimError, MarkRefused, MarkAccepted,
           Steps, Sending
  <2> QED BY <1>4, <2>1, <2>2, <2>3, <2>4, <2>5 DEF SendStep
<1>5. CASE SettleStep(k)
  BY <1>5, FinishTypes DEF SettleStep, ApplyPending, ApplySuccess, ApplyFailed
<1>6. CASE AskStep(k)
  <2>1. ASSUME NEW late \in BOOLEAN, Status(k, late)  PROVE WorkerTypes'
    <3>1. pc[k] # "idle" /\ w \in Withdrawals
      BY <2>1 DEF Status, WorkerTypes
    <3>2. CASE Finish(k)  BY <3>2, FinishTypes
    <3>3. CASE \E s \in {"dispatch", "fail", "check", "abandon"} : Continue(k, s)
      BY <3>1, <3>3, ContinueTypes DEF Steps
    <3>4. CASE Goto(k, "adopt") /\ seen' = [seen EXCEPT ![k] = RowSeen(w)] /\ UNCHANGED on
      BY <3>1, <3>4, GotoTypes, RowSeenIsAView DEF Steps
    <3> QED BY <2>1, <3>2, <3>3, <3>4 DEF Status
  <2>2. CASE MarkAbandoned(k) \/ AdoptOrder(k) \/ RecordOrder(k)
    BY <2>2, ContinueTypes DEF MarkAbandoned, AdoptOrder, RecordOrder, Steps
  <2>3. CASE CheckPayout(k)
    BY <2>3, ContinueTypes, FinishTypes DEF CheckPayout, Steps
  <2>4. CASE LoadWithdrawal(k)
    <3>1. pc[k] # "idle" /\ w \in Withdrawals
      BY <2>4 DEF LoadWithdrawal, WorkerTypes
    <3>2. CASE Finish(k)  BY <3>2, FinishTypes
    <3>3. CASE Open(w) /\ Goto(k, "status")
                 /\ seen' = [seen EXCEPT ![k] = WithdrawalSeen(w)] /\ UNCHANGED on
      BY <3>1, <3>3, GotoTypes, WithdrawalSeenIsAView DEF Steps
    <3> QED BY <2>4, <3>2, <3>3 DEF LoadWithdrawal
  <2> QED BY <1>6, <2>1, <2>2, <2>3, <2>4 DEF AskStep
<1>7. CASE Interrupt(k)
  BY <1>7, FinishTypes DEF Interrupt
<1> QED
  BY <1>1, <1>2, <1>3, <1>4, <1>5, <1>6, <1>7 DEF WorkerStep

\* The rows stay well typed too.
LEMMA RowTypesStep ==
  ASSUME WorkerTypes, RowTypes, NEW k \in Workers, WorkerStep(k)
  PROVE  RowTypes'
<1> USE UntouchedTypes DEF RowTypes
<1> DEFINE w == on[k]
<1>0. At(k, "idle") \/ w \in Withdrawals
  BY DEF WorkerTypes, At
<1>1. ASSUME NEW v \in Withdrawals, StartStep(k, v)  PROVE RowTypes'
  <2>1. CASE RequestWithdrawal(k, v)
    BY <2>1, DatabaseTypes DEF RequestWithdrawal, SwitchTypes
  <2>2. CASE InsertRequest(k, v)
    BY <2>2 DEF InsertRequest, AccountTypes, Statuses, OpenStatus, SwitchTypes
  <2>3. CASE JobPick(k, v) \/ Callback(k, v) \/ Reject(k, v)
    BY <2>3 DEF JobPick, Callback, Reject, SwitchTypes
  <2>4. CASE MarkSent(k, v)
    BY <2>4 DEF MarkSent, SwitchTypes
  <2> QED BY <1>1, <2>1, <2>2, <2>3, <2>4 DEF StartStep
<1>2. CASE DebitRequest(k)
  BY <1>0, <1>2 DEF DebitRequest, At, AccountTypes, SwitchTypes
<1>3. CASE DebitRefused(k)
  <2>1. debits' \in [Withdrawals -> Nat]
    BY <1>0, <1>3 DEF DebitRefused, At, AccountTypes
  <2> QED BY <1>0, <1>3, <2>1 DEF DebitRefused, At, AccountTypes, Statuses, SwitchTypes
<1>4. CASE SendStep(k)
  <2>1. CASE Dispatch(k) \/ LoginOk(k) \/ LoginRefused(k) \/ LoginError(k)
               \/ ClaimLost(k) \/ AnswerBusy(k) \/ AnswerRefused(k) \/ AnswerAccepted(k)
    BY <2>1 DEF Dispatch, LoginOk, LoginRefused, LoginError, ClaimLost,
                AnswerBusy, AnswerRefused, AnswerAccepted, SwitchTypes
  <2>2. CASE ClaimPayout(k)
    <3>1. w \in Withdrawals /\ seen[k].attempts \in Nat
      BY <1>0, <2>2 DEF ClaimPayout, At, WorkerTypes, View
    <3>2. JournalTypes'
      BY <2>2, <3>1 DEF ClaimPayout, JournalTypes, RowStates
    <3> QED BY <2>2, <3>2 DEF ClaimPayout, SwitchTypes
  <2>3. CASE ClaimError(k)
    <3>1. JournalTypes'
      BY <1>0, <2>3 DEF ClaimError, At, JournalTypes, RowStates
    <3> QED BY <2>3, <3>1 DEF ClaimError, SwitchTypes
  <2>4. CASE AnswerLost(k)
    <3>1. ProviderTypes'
      BY <1>0, <2>4, StrayTypes DEF AnswerLost, At
    <3> QED BY <2>4, <3>1 DEF AnswerLost, SwitchTypes
  <2>5. CASE MarkBusy(k) \/ MarkRefused(k) \/ MarkAccepted(k)
    <3>1. w \in Withdrawals
      BY <2>5, <1>0 DEF MarkBusy, MarkRefused, MarkAccepted, At
    <3>2. order[w] \in BOOLEAN
      BY <3>1 DEF JournalTypes
    <3>3. JournalTypes'
      BY <2>5, <3>1, <3>2, MarkPayoutTypes
         DEF MarkBusy, MarkRefused, MarkAccepted, RowStates
    <3> QED BY <2>5, <3>3 DEF MarkBusy, MarkRefused, MarkAccepted, SwitchTypes
  <2> QED BY <1>4, <2>1, <2>2, <2>3, <2>4, <2>5 DEF SendStep
<1>5. CASE SettleStep(k)
  <2>1. w \in Withdrawals
    BY <1>5, <1>0 DEF SettleStep, ApplyPending, ApplySuccess, ApplyFailed, At
  <2> QED BY <1>5, <2>1, DatabaseTypes
    DEF SettleStep, ApplyPending, ApplySuccess, ApplyFailed, SwitchTypes
<1>6. CASE AskStep(k)
  <2>1. CASE (\E late \in BOOLEAN : Status(k, late)) \/ CheckPayout(k) \/ LoadWithdrawal(k)
    BY <2>1 DEF Status, CheckPayout, LoadWithdrawal, SwitchTypes
  <2>2. CASE MarkAbandoned(k) \/ AdoptOrder(k) \/ RecordOrder(k)
    <3>1. w \in Withdrawals
      BY <2>2, <1>0 DEF MarkAbandoned, AdoptOrder, RecordOrder, At
    <3>2. order[w] \in BOOLEAN /\ jstate[w] \in RowStates
      BY <3>1 DEF JournalTypes
    <3>3. JournalTypes'
      BY <2>2, <3>1, <3>2, MarkPayoutTypes
         DEF MarkAbandoned, AdoptOrder, RecordOrder, RowStates
    <3> QED BY <2>2, <3>3 DEF MarkAbandoned, AdoptOrder, RecordOrder, SwitchTypes
  <2> QED BY <1>6, <2>1, <2>2 DEF AskStep
<1>7. CASE Interrupt(k)
  <2>1. ProviderTypes'
    BY <1>0, <1>7, StrayTypes DEF Interrupt, At
  <2> QED BY <1>7, <2>1 DEF Interrupt, SwitchTypes
<1> QED
  BY <1>1, <1>2, <1>3, <1>4, <1>5, <1>6, <1>7 DEF WorkerStep

LEMMA TypeStep == TypeOK /\ [Next]_vars => TypeOK'
<1> SUFFICES ASSUME WorkerTypes, RowTypes, [Next]_vars
             PROVE  WorkerTypes' /\ RowTypes'
  BY TypeParts DEF TypeOK, WorkerTypes, RowTypes, AccountTypes, JournalTypes,
                   ProviderTypes, SwitchTypes
<1> USE UntouchedTypes DEF RowTypes
<1>1. ASSUME NEW k \in Workers, WorkerStep(k)
      PROVE  WorkerTypes' /\ RowTypes'
  BY <1>1, WorkerTypesStep, RowTypesStep
<1>2. CASE ProviderStep
  <2>1. ASSUME NEW k \in Workers, ProviderAccepts(k)
        PROVE  WorkerTypes' /\ RowTypes'
    <3>1. on[k] \in Withdrawals
      BY <2>1 DEF ProviderAccepts, At, WorkerTypes
    <3>2. WorkerTypes'
      BY <2>1, GotoTypes, BlankIsAView DEF ProviderAccepts, At, Steps, Sending
    <3>3. ProviderTypes'
      BY <2>1, <3>1, OrderTypes DEF ProviderAccepts, ProviderTypes
    <3> QED BY <2>1, <3>2, <3>3 DEF ProviderAccepts, SwitchTypes
  <2>2. ASSUME NEW w \in Withdrawals,
               StrayAccepted(w) \/ StrayLost(w) \/ ProviderSettles(w)
        PROVE  WorkerTypes' /\ RowTypes'
    <3>1. CASE StrayAccepted(w)
      <4>1. ProviderTypes'
        <5>1. stray' \in [Withdrawals -> Nat]
          BY <3>1, CountDown, Zenon DEF StrayAccepted, ProviderTypes
        <5> QED BY <3>1, <5>1, OrderTypes DEF StrayAccepted, ProviderTypes
      <4> QED BY <3>1, <4>1 DEF StrayAccepted, WorkerTypes, SwitchTypes
    <3>2. CASE StrayLost(w)
      <4>1. ProviderTypes'
        BY <3>2, StrayTypes DEF StrayLost
      <4> QED BY <3>2, <4>1 DEF StrayLost, WorkerTypes, SwitchTypes
    <3>3. CASE ProviderSettles(w)
      <4>1. ProviderTypes'
        BY <3>3 DEF ProviderSettles, ProviderTypes
      <4> QED BY <3>3, <4>1 DEF ProviderSettles, WorkerTypes, SwitchTypes
    <3> QED BY <2>2, <3>1, <3>2, <3>3
  <2> QED BY <1>2, <2>1, <2>2 DEF ProviderStep
<1>3. CASE TogglePayouts
  BY <1>3 DEF TogglePayouts, SwitchTypes, WorkerTypes
<1>4. CASE UNCHANGED vars
  BY <1>4 DEF vars, WorkerTypes
<1> QED BY <1>1, <1>2, <1>3, <1>4 DEF Next

\* Rows, journal, provider and workers only ever hold values of their types,
\* for any number of withdrawals and of activities at once.
THEOREM TypesHold == Spec => []TypeOK
BY TypeInit, TypeStep, PTL DEF Spec

-----------------------------------------------------------------------------
(* At most one payout.  What makes it true is not in the rows alone: the   *)
(* worker between its claim and the end of its call is the only one, its   *)
(* row stays held meanwhile, and nothing of the withdrawal is out there    *)
(* before the provider took that request.                                  *)

HeldStates == {"SENDING", "ACCEPTED", "ABANDONED"}

\* Nobody can claim a row while a sender has it.
SenderHoldsTheRow ==
  \A k \in Workers : pc[k] \in Sending => jstate[on[k]] \in HeldStates

OneSender ==
  \A k, l \in Workers :
    pc[k] \in Sending /\ pc[l] \in Sending /\ on[k] = on[l] => k = l

\* What is out there, by the step of the sender.
SenderKnows ==
  \A k \in Workers :
    /\ pc[k] \in {"posting", "busy", "refused"} =>
         orders[on[k]] = 0 /\ stray[on[k]] = 0
    /\ pc[k] \in {"taken", "mark"} => orders[on[k]] = 1 /\ stray[on[k]] = 0

\* A row about to be abandoned is held, has no sender, and will not get one.
AbandonsAlone ==
  \A k \in Workers : pc[k] = "abandon" =>
    jstate[on[k]] \in HeldStates /\ Quiet(on[k])

\* A claim only ever aims at a row that was read as not held.
ClaimsTheUnsent ==
  \A k \in Workers :
    pc[k] \in {"login", "claim"} => seen[k].state \notin HeldStates

SendInv ==
  /\ AtMostOnePayout /\ UnknownFateIsHeld /\ ClaimsTheUnsent
  /\ SenderHoldsTheRow /\ OneSender /\ SenderKnows /\ AbandonsAlone

\* Worker k moves, the others stay where they are.
Moves(k) ==
  \A l \in Workers \ {k} : pc'[l] = pc[l] /\ on'[l] = on[l] /\ seen'[l] = seen[l]

LEMMA MoveFrame ==
  ASSUME WorkerTypes, NEW k \in Workers
  PROVE  /\ \A w \in Withdrawals, s \in Steps, v \in View : Begin(k, w, s, v) =>
              Moves(k) /\ pc[k] = "idle" /\ pc'[k] = s /\ on'[k] = w /\ seen'[k] = v
         /\ Finish(k) => Moves(k) /\ pc'[k] = "idle" /\ seen'[k] = Blank
         /\ \A s \in Steps : Continue(k, s) =>
              Moves(k) /\ pc'[k] = s /\ on'[k] = on[k] /\ seen'[k] = Blank
         /\ \A s \in Steps : Goto(k, s) /\ UNCHANGED <<on, seen>> =>
              Moves(k) /\ pc'[k] = s /\ on'[k] = on[k] /\ seen'[k] = seen[k]
<1> USE DEF WorkerTypes, Moves, Goto
<1>1. \A w \in Withdrawals, s \in Steps, v \in View : Begin(k, w, s, v) =>
        Moves(k) /\ pc[k] = "idle" /\ pc'[k] = s /\ on'[k] = w /\ seen'[k] = v
  BY DEF Begin, At
<1>2. Finish(k) => Moves(k) /\ pc'[k] = "idle" /\ seen'[k] = Blank
  BY DEF Finish
<1>3. \A s \in Steps : Continue(k, s) =>
        Moves(k) /\ pc'[k] = s /\ on'[k] = on[k] /\ seen'[k] = Blank
  BY DEF Continue
<1>4. \A s \in Steps : Goto(k, s) /\ UNCHANGED <<on, seen>> =>
        Moves(k) /\ pc'[k] = s /\ on'[k] = on[k] /\ seen'[k] = seen[k]
  OBVIOUS
<1> QED BY <1>1, <1>2, <1>3, <1>4

LEMMA ReadFrame ==
  ASSUME WorkerTypes, NEW k \in Workers, NEW s \in Steps, NEW v \in View,
         Goto(k, s), UNCHANGED on, seen' = [seen EXCEPT ![k] = v]
  PROVE  Moves(k) /\ pc'[k] = s /\ on'[k] = on[k] /\ seen'[k] = v
BY DEF WorkerTypes, Moves, Goto

\* A move to a step outside the sending disturbs nothing when it leaves the
\* provider alone and releases no row.
LEMMA OffStage ==
  ASSUME TypeOK, SendInv, NEW k \in Workers, Moves(k),
         pc'[k] \notin Sending,
         pc'[k] = "abandon" => jstate'[on'[k]] \in HeldStates /\ Quiet(on'[k]),
         pc'[k] \in {"login", "claim"} => seen'[k].state \notin HeldStates,
         \A w \in Withdrawals : jstate'[w] = jstate[w] \/ jstate'[w] \in HeldStates,
         UNCHANGED <<stray, orders>>
  PROVE  SendInv'
<1> USE DEF SendInv, Moves
<1>0. \A l \in Workers : pc[l] # "idle" => on[l] \in Withdrawals
  BY DEF TypeOK
<1>1. AtMostOnePayout' /\ UnknownFateIsHeld'
  BY DEF AtMostOnePayout, UnknownFateIsHeld, HeldStates
<1>2. SenderHoldsTheRow'
  BY <1>0 DEF SenderHoldsTheRow, Sending
<1>3. OneSender'
  BY DEF OneSender
<1>4. SenderKnows'
  BY DEF SenderKnows, Sending
<1>5. AbandonsAlone'
  BY <1>0 DEF AbandonsAlone, Quiet
<1>6. ClaimsTheUnsent'
  BY DEF ClaimsTheUnsent
<1> QED BY <1>1, <1>2, <1>3, <1>4, <1>5, <1>6

\* What the sender itself may do to its row and to the provider.
LEMMA OnStage ==
  ASSUME TypeOK, SendInv, NEW k \in Workers, Moves(k), NEW w \in Withdrawals,
         pc[k] \in Sending, on[k] = w,
         pc'[k] \notin {"abandon", "login", "claim"},
         pc'[k] \in Sending => on'[k] = w /\ jstate'[w] \in HeldStates,
         \A v \in Withdrawals \ {w} :
           jstate'[v] = jstate[v] /\ stray'[v] = stray[v] /\ orders'[v] = orders[v],
         orders'[w] + stray'[w] <= 1,
         orders'[w] + stray'[w] > 0 => jstate'[w] \in HeldStates,
         pc'[k] \in {"posting", "busy", "refused"} => orders'[w] = 0 /\ stray'[w] = 0,
         pc'[k] \in {"taken", "mark"} => orders'[w] = 1 /\ stray'[w] = 0
  PROVE  SendInv'
<1> USE DEF SendInv, Moves
<1>0. \A l \in Workers : pc[l] # "idle" => on[l] \in Withdrawals
  BY DEF TypeOK
<1>1. AtMostOnePayout' /\ UnknownFateIsHeld'
  BY DEF AtMostOnePayout, UnknownFateIsHeld, HeldStates
<1>2. \A l \in Workers \ {k} : pc[l] \in Sending => on[l] # w
  BY DEF OneSender
<1>3. SenderHoldsTheRow'
  BY <1>0, <1>2 DEF SenderHoldsTheRow, Sending
<1>4. OneSender'
  BY <1>2 DEF OneSender
<1>5. SenderKnows'
  BY <1>0, <1>2 DEF SenderKnows, Sending
<1>6. AbandonsAlone'
  <2>1. \A l \in Workers \ {k} : pc[l] = "abandon" => on[l] # w
    BY DEF AbandonsAlone, Quiet
  <2> QED BY <1>0, <2>1 DEF AbandonsAlone, Quiet
<1>7. ClaimsTheUnsent'
  BY DEF ClaimsTheUnsent
<1> QED BY <1>1, <1>3, <1>4, <1>5, <1>6, <1>7

\* A claim finds the row free, hence nothing out there and no other sender.
LEMMA ClaimKeepsSendInv ==
  ASSUME TypeOK, SendInv, NEW k \in Workers, ClaimPayout(k)
  PROVE  SendInv'
<1> DEFINE w == on[k]
<1> USE DEF SendInv
<1>1. w \in Withdrawals /\ pc[k] = "claim" /\ jstate[w] \notin HeldStates
  BY DEF ClaimPayout, At, TypeOK, ClaimsTheUnsent
<1>2. Moves(k) /\ pc'[k] = "posting" /\ on'[k] = w
  BY MoveFrame, TypeParts DEF ClaimPayout, Steps, Sending
<1>3. /\ jstate'[w] = "SENDING"
      /\ \A v \in Withdrawals \ {w} : jstate'[v] = jstate[v]
      /\ UNCHANGED <<stray, orders>>
  BY <1>1 DEF ClaimPayout, TypeOK
<1>4. orders[w] = 0 /\ stray[w] = 0
  <2>1. orders[w] \in Nat /\ stray[w] \in Nat
    BY <1>1 DEF TypeOK
  <2>2. ~(orders[w] + stray[w] > 0)
    BY <1>1 DEF UnknownFateIsHeld, HeldStates
  <2> QED BY <2>1, <2>2
<1>5. \A l \in Workers : on[l] = w => pc[l] \notin Sending /\ pc[l] # "abandon"
  BY <1>1 DEF SenderHoldsTheRow, AbandonsAlone
<1>6. \A l \in Workers : pc[l] # "idle" => on[l] \in Withdrawals
  BY DEF TypeOK
<1> HIDE DEF w
<1> USE DEF Moves
<1>7. AtMostOnePayout' /\ UnknownFateIsHeld'
  BY <1>3 DEF AtMostOnePayout, UnknownFateIsHeld, HeldStates
<1>8. SenderHoldsTheRow'
  BY <1>2, <1>3, <1>6 DEF SenderHoldsTheRow, HeldStates, Sending
<1>9. OneSender'
  BY <1>2, <1>5 DEF OneSender
<1>10. SenderKnows'
  BY <1>2, <1>3, <1>4 DEF SenderKnows, Sending
<1>11. AbandonsAlone'
  BY <1>2, <1>3, <1>5, <1>6 DEF AbandonsAlone, Quiet
<1>12. ClaimsTheUnsent'
  BY <1>2 DEF ClaimsTheUnsent
<1> QED BY <1>7, <1>8, <1>9, <1>10, <1>11, <1>12

\* Dispatch gives up, finds the order, or reads a row it may claim.
LEMMA DispatchMoves ==
  ASSUME WorkerTypes, RowTypes, NEW k \in Workers, Dispatch(k)
  PROVE  /\ Moves(k)
         /\ \/ pc'[k] = "idle"
            \/ pc'[k] = "pending" /\ on'[k] = on[k] /\ order[on[k]]
            \/ /\ pc'[k] = "login" /\ on'[k] = on[k] /\ seen'[k].state = jstate[on[k]]
               /\ jstate[on[k]] \in {"NONE", "NOT_SENT"}
<1> DEFINE w == on[k]
<1>1. w \in Withdrawals
  BY DEF Dispatch, At, WorkerTypes
<1>2. RowSeen(w) \in View /\ RowSeen(w).state = jstate[w]
  BY <1>1, RowSeenIsAView
<1>3. {"login", "pending"} \subseteq Steps
  BY DEF Steps
<1>4. CASE Finish(k)
  BY <1>4, MoveFrame
<1>5. CASE order[w] /\ Continue(k, "pending")
  BY <1>3, <1>5, MoveFrame
<1>6. CASE /\ jstate[w] \in {"NONE", "NOT_SENT"}
           /\ Goto(k, "login")
           /\ seen' = [seen EXCEPT ![k] = RowSeen(w)] /\ UNCHANGED on
  <2>1. Moves(k) /\ pc'[k] = "login" /\ on'[k] = w /\ seen'[k] = RowSeen(w)
    BY <1>2, <1>3, <1>6, ReadFrame
  <2> QED BY <1>2, <1>6, <2>1
<1> QED BY <1>4, <1>5, <1>6 DEF Dispatch

LEMMA SendStepKeepsSendInv ==
  ASSUME TypeOK, SendInv, NEW k \in Workers, SendStep(k)
  PROVE  SendInv'
<1> DEFINE w == on[k]
<1> USE MoveFrame, TypeParts DEF At
<1>0. w \in Withdrawals
  BY DEF SendStep, Dispatch, LoginOk, LoginRefused, LoginError, ClaimPayout,
         ClaimLost, ClaimError, AnswerBusy, AnswerRefused, AnswerAccepted,
         AnswerLost, MarkBusy, MarkRefused, MarkAccepted, TypeOK
<1>1. CASE Dispatch(k)
  <2>1. UNCHANGED <<jstate, stray, orders>>
    BY <1>1 DEF Dispatch
  <2>2. /\ Moves(k)
        /\ \/ pc'[k] \in {"idle", "pending"}
           \/ pc'[k] = "login" /\ seen'[k].state \in {"NONE", "NOT_SENT"}
    BY <1>1, DispatchMoves
  <2> QED BY <2>1, <2>2, OffStage DEF Sending, HeldStates
<1>2. CASE LoginOk(k)
  <2>1. Moves(k) /\ pc'[k] = "claim" /\ seen'[k] = seen[k] /\ pc[k] = "login"
           /\ UNCHANGED <<jstate, stray, orders>>
    BY <1>2 DEF LoginOk, Steps
  <2>2. seen[k].state \notin HeldStates
    BY <2>1 DEF SendInv, ClaimsTheUnsent
  <2> QED BY <2>1, <2>2, OffStage DEF Sending
<1>3. CASE LoginRefused(k) \/ LoginError(k) \/ ClaimLost(k) \/ ClaimError(k)
  <2>1. Moves(k) /\ pc'[k] \in {"idle", "fail"} /\ UNCHANGED <<stray, orders>>
    BY <1>3 DEF LoginRefused, LoginError, ClaimLost, ClaimError, Steps
  <2>2. \A v \in Withdrawals : jstate'[v] = jstate[v] \/ jstate'[v] \in HeldStates
    <3>1. CASE ClaimError(k)
      <4>1. jstate \in [Withdrawals -> RowStates]  BY DEF TypeOK
      <4>2. UNCHANGED jstate \/ jstate' = [jstate EXCEPT ![w] = "SENDING"]
        BY <3>1 DEF ClaimError
      <4> QED BY <1>0, <4>1, <4>2 DEF HeldStates
    <3>2. CASE LoginRefused(k) \/ LoginError(k) \/ ClaimLost(k)
      BY <3>2 DEF LoginRefused, LoginError, ClaimLost
    <3> QED BY <1>3, <3>1, <3>2
  <2> QED BY <2>1, <2>2, OffStage DEF Sending
<1>4. CASE ClaimPayout(k)
  BY <1>4, ClaimKeepsSendInv
<1>5. CASE AnswerBusy(k) \/ AnswerRefused(k) \/ AnswerAccepted(k)
  <2>1. /\ Moves(k) /\ on'[k] = w /\ UNCHANGED <<jstate, stray, orders>>
        /\ \/ pc[k] = "posting" /\ pc'[k] \in {"busy", "refused"}
           \/ pc[k] = "taken" /\ pc'[k] = "mark"
    BY <1>5 DEF AnswerBusy, AnswerRefused, AnswerAccepted, Steps, Sending
  <2>2. /\ orders[w] + stray[w] <= 1 /\ jstate[w] \in HeldStates
        /\ pc[k] = "posting" => orders[w] = 0 /\ stray[w] = 0
        /\ pc[k] = "taken" => orders[w] = 1 /\ stray[w] = 0
    BY <1>0, <2>1 DEF SendInv, AtMostOnePayout, SenderKnows, SenderHoldsTheRow, Sending
  <2> QED BY <1>0, <2>1, <2>2, OnStage DEF Sending
<1>6. CASE AnswerLost(k)
  <2>1. /\ Moves(k) /\ pc'[k] = "idle" /\ UNCHANGED <<jstate, orders>>
        /\ pc[k] \in {"posting", "taken"}
        /\ \A v \in Withdrawals \ {w} : stray'[v] = stray[v]
        /\ stray'[w] = IF pc[k] = "posting" THEN stray[w] + 1 ELSE stray[w]
    BY <1>0, <1>6 DEF AnswerLost, TypeOK
  <2>2. /\ jstate[w] \in HeldStates
        /\ pc[k] = "posting" => orders[w] = 0 /\ stray[w] = 0
        /\ pc[k] = "taken" => orders[w] = 1 /\ stray[w] = 0
    BY <1>0, <2>1 DEF SendInv, SenderKnows, SenderHoldsTheRow, Sending
  <2>3. orders'[w] + stray'[w] <= 1
    BY <2>1, <2>2
  <2> QED BY <1>0, <2>1, <2>2, <2>3, OnStage DEF Sending
<1>7. CASE MarkBusy(k) \/ MarkRefused(k)
  <2>1. /\ Moves(k) /\ pc'[k] \in {"idle", "fail"} /\ UNCHANGED <<stray, orders>>
        /\ pc[k] \in {"busy", "refused"}
    BY <1>7 DEF MarkBusy, MarkRefused, Steps
  <2>2. \A v \in Withdrawals \ {w} : jstate'[v] = jstate[v]
    BY <1>0, <1>7 DEF MarkBusy, MarkRefused, MarkPayout, TypeOK
  <2>3. orders[w] = 0 /\ stray[w] = 0
    BY <2>1 DEF SendInv, SenderKnows
  <2> QED BY <1>0, <2>1, <2>2, <2>3, OnStage DEF Sending
<1>8. CASE MarkAccepted(k)
  <2>1. /\ Moves(k) /\ pc'[k] = "pending" /\ UNCHANGED <<stray, orders>>
        /\ pc[k] = "mark"
    BY <1>8 DEF MarkAccepted, Steps
  <2>2. /\ \A v \in Withdrawals \ {w} : jstate'[v] = jstate[v]
        /\ jstate'[w] \in {jstate[w], "ACCEPTED"}
    BY <1>0, <1>8 DEF MarkAccepted, MarkPayout, TypeOK
  <2>3. orders[w] = 1 /\ stray[w] = 0 /\ jstate[w] \in HeldStates
    BY <2>1 DEF SendInv, SenderKnows, SenderHoldsTheRow, Sending
  <2> QED BY <1>0, <2>1, <2>2, <2>3, OnStage DEF Sending, HeldStates
<1> QED
  BY <1>1, <1>2, <1>3, <1>4, <1>5, <1>6, <1>7, <1>8 DEF SendStep

\* reconcileOne decides, and only lets go of a row nobody is sending.
LEMMA StatusMoves ==
  ASSUME WorkerTypes, RowTypes, NEW k \in Workers, NEW late \in BOOLEAN, Status(k, late)
  PROVE  /\ Moves(k)
         /\ pc[k] = "status"
         /\ \/ pc'[k] \in {"idle", "dispatch", "fail"} /\ seen'[k] = Blank
            \/ pc'[k] = "check" /\ on'[k] = on[k] /\ order[on[k]] /\ seen'[k] = Blank
            \/ pc'[k] = "adopt" /\ on'[k] = on[k] /\ seen[k].ref /\ seen'[k].ref = FALSE
            \/ pc'[k] = "abandon" /\ on'[k] = on[k] /\ jstate[on[k]] = "SENDING"
               /\ Quiet(on[k]) /\ seen'[k] = Blank
         /\ pc'[k] = "dispatch" => on'[k] = on[k]
         /\ pc'[k] = "fail" => on'[k] = on[k]
<1> DEFINE w == on[k]
<1>1. pc[k] = "status" /\ w \in Withdrawals
  BY DEF Status, At, WorkerTypes
<1>2. RowSeen(w) \in View /\ RowSeen(w).ref = FALSE
  BY <1>1, RowSeenIsAView
<1>3. {"dispatch", "fail", "check", "adopt", "abandon"} \subseteq Steps
  BY DEF Steps
<1>4. CASE Finish(k)
  BY <1>1, <1>4, MoveFrame
<1>5. CASE Continue(k, "dispatch") \/ Continue(k, "fail")
  BY <1>1, <1>3, <1>5, MoveFrame
<1>6. CASE order[w] /\ Continue(k, "check")
  BY <1>1, <1>3, <1>6, MoveFrame
<1>7. CASE jstate[w] = "SENDING" /\ Quiet(w) /\ Continue(k, "abandon")
  BY <1>1, <1>3, <1>7, MoveFrame
<1>8. CASE /\ seen[k].ref
           /\ Goto(k, "adopt")
           /\ seen' = [seen EXCEPT ![k] = RowSeen(w)] /\ UNCHANGED on
  <2>1. Moves(k) /\ pc'[k] = "adopt" /\ on'[k] = w /\ seen'[k] = RowSeen(w)
    BY <1>2, <1>3, <1>8, ReadFrame
  <2> QED BY <1>1, <1>2, <1>8, <2>1
<1> QED BY <1>4, <1>5, <1>6, <1>7, <1>8 DEF Status

\* Starting, settling and asking never release a row.
LEMMA StartKeepsSendInv ==
  ASSUME TypeOK, SendInv, NEW k \in Workers, NEW w \in Withdrawals, StartStep(k, w)
  PROVE  SendInv'
<1>1. WorkerTypes /\ RowTypes
  BY TypeParts
<1>2. UNCHANGED <<jstate, stray, orders>>
  BY DEF StartStep, RequestWithdrawal, InsertRequest, JobPick, Callback, MarkSent, Reject
<1>3. /\ Blank \in View /\ RowSeen(w) \in View
      /\ Open(w) => WithdrawalSeen(w) \in View
      /\ {"dispatch", "debit", "status", "load", "record", "success", "fail"} \subseteq Steps
  BY <1>1, BlankIsAView, RowSeenIsAView, WithdrawalSeenIsAView DEF Steps
<1>4. \E s \in {"dispatch", "debit", "status", "load", "record", "success", "fail"},
         v \in View : Begin(k, w, s, v)
  BY <1>3
     DEF StartStep, RequestWithdrawal, InsertRequest, JobPick, Callback, MarkSent, Reject
<1>5. /\ Moves(k)
      /\ pc'[k] \in {"dispatch", "debit", "status", "load", "record", "success", "fail"}
  BY <1>1, <1>3, <1>4, MoveFrame
<1> QED BY <1>2, <1>5, OffStage DEF Sending

LEMMA SettleKeepsSendInv ==
  ASSUME TypeOK, SendInv, NEW k \in Workers,
         SettleStep(k) \/ DebitRequest(k) \/ DebitRefused(k)
  PROVE  SendInv'
<1>1. WorkerTypes /\ "dispatch" \in Steps
  BY TypeParts DEF Steps
<1>2. UNCHANGED <<jstate, stray, orders>>
  BY DEF SettleStep, ApplyPending, ApplySuccess, ApplyFailed, DebitRequest, DebitRefused
<1>3. Moves(k) /\ pc'[k] \in {"idle", "dispatch"}
  BY <1>1, MoveFrame
     DEF SettleStep, ApplyPending, ApplySuccess, ApplyFailed, DebitRequest, DebitRefused
<1> QED BY <1>2, <1>3, OffStage DEF Sending

LEMMA AskKeepsSendInv ==
  ASSUME TypeOK, SendInv, NEW k \in Workers, AskStep(k)
  PROVE  SendInv'
<1> DEFINE w == on[k]
<1>1. WorkerTypes /\ RowTypes
  BY TypeParts
<1>2. {"fail", "success", "check", "load", "status"} \subseteq Steps
  BY DEF Steps
<1>3. ASSUME NEW late \in BOOLEAN, Status(k, late)  PROVE SendInv'
  <2>1. UNCHANGED <<jstate, stray, orders>>
    BY <1>3 DEF Status
  <2>2. /\ Moves(k)
        /\ pc'[k] \in {"idle", "dispatch", "fail", "check", "adopt", "abandon"}
        /\ pc'[k] = "abandon" => on'[k] = w /\ jstate[w] = "SENDING" /\ Quiet(w)
    BY <1>1, <1>3, StatusMoves
  <2> QED BY <2>1, <2>2, OffStage DEF Sending, HeldStates, Quiet
<1>4. CASE CheckPayout(k)
  BY <1>1, <1>2, <1>4, MoveFrame, OffStage DEF CheckPayout, Sending
<1>5. CASE LoadWithdrawal(k)
  <2>1. UNCHANGED <<jstate, stray, orders>>
    BY <1>5 DEF LoadWithdrawal
  <2>2. Moves(k) /\ pc'[k] \in {"idle", "status"}
    <3>1. CASE Finish(k)
      BY <1>1, <3>1, MoveFrame
    <3>2. CASE /\ Open(w) /\ Goto(k, "status")
               /\ seen' = [seen EXCEPT ![k] = WithdrawalSeen(w)] /\ UNCHANGED on
      <4>1. w \in Withdrawals
        BY <1>1, <1>5 DEF LoadWithdrawal, At, WorkerTypes
      <4>2. WithdrawalSeen(w) \in View
        BY <1>1, <3>2, <4>1, WithdrawalSeenIsAView
      <4> QED BY <1>1, <1>2, <3>2, <4>2, ReadFrame
    <3> QED BY <1>5, <3>1, <3>2 DEF LoadWithdrawal
  <2> QED BY <2>1, <2>2, OffStage DEF Sending
<1>6. CASE MarkAbandoned(k)
  <2>1. Moves(k) /\ pc'[k] = "fail" /\ UNCHANGED <<stray, orders>>
    BY <1>1, <1>2, <1>6, MoveFrame DEF MarkAbandoned
  <2>2. \A v \in Withdrawals : jstate'[v] = jstate[v] \/ jstate'[v] \in HeldStates
    BY <1>6 DEF MarkAbandoned, MarkPayout, HeldStates, TypeOK
  <2> QED BY <2>1, <2>2, OffStage DEF Sending
<1>7. CASE AdoptOrder(k) \/ RecordOrder(k)
  <2>1. Moves(k) /\ pc'[k] \in {"check", "load"} /\ UNCHANGED <<stray, orders>>
    BY <1>1, <1>2, <1>7, MoveFrame DEF AdoptOrder, RecordOrder
  <2>2. w \in Withdrawals
    BY <1>1, <1>7 DEF AdoptOrder, RecordOrder, At, WorkerTypes
  <2>3. UNCHANGED jstate \/ \E s \in {jstate[w], "ACCEPTED"} : jstate' = [jstate EXCEPT ![w] = s]
    BY <1>7 DEF AdoptOrder, RecordOrder, MarkPayout
  <2>4. \A v \in Withdrawals : jstate'[v] = jstate[v] \/ jstate'[v] \in HeldStates
    BY <2>2, <2>3 DEF HeldStates, TypeOK
  <2> QED BY <2>1, <2>4, OffStage DEF Sending
<1> QED BY <1>3, <1>4, <1>5, <1>6, <1>7 DEF AskStep

\* An interrupted sender leaves at most its own request behind.
LEMMA InterruptKeepsSendInv ==
  ASSUME TypeOK, SendInv, NEW k \in Workers, Interrupt(k)
  PROVE  SendInv'
<1> DEFINE w == on[k]
<1>1. WorkerTypes /\ w \in Withdrawals
  BY TypeParts DEF Interrupt, WorkerTypes
<1>2. Moves(k) /\ pc'[k] = "idle" /\ UNCHANGED <<jstate, orders>>
  BY <1>1, MoveFrame DEF Interrupt
<1>3. CASE pc[k] = "posting" /\ stray' = [stray EXCEPT ![w] = @ + 1]
  <2>1. orders[w] = 0 /\ stray[w] = 0 /\ jstate[w] \in HeldStates
    BY <1>3 DEF SendInv, SenderKnows, SenderHoldsTheRow, Sending
  <2>2. stray'[w] = stray[w] + 1 /\ \A v \in Withdrawals \ {w} : stray'[v] = stray[v]
    BY <1>1, <1>3 DEF TypeOK
  <2>3. orders'[w] + stray'[w] <= 1
    BY <1>2, <2>1, <2>2
  <2> QED BY <1>1, <1>2, <1>3, <2>1, <2>2, <2>3, OnStage DEF Sending
<1>4. CASE UNCHANGED stray
  BY <1>2, <1>4, OffStage DEF Sending
<1> QED BY <1>3, <1>4 DEF Interrupt, At

\* The provider takes the one request there is.
LEMMA ProviderKeepsSendInv ==
  ASSUME TypeOK, SendInv, ProviderStep
  PROVE  SendInv'
<1>0. WorkerTypes /\ RowTypes
  BY TypeParts
<1>1. ASSUME NEW k \in Workers, ProviderAccepts(k)  PROVE SendInv'
  <2> DEFINE w == on[k]
  <2>1. pc[k] = "posting" /\ w \in Withdrawals
    BY <1>0, <1>1 DEF ProviderAccepts, At, WorkerTypes
  <2>2. /\ Moves(k) /\ pc'[k] = "taken" /\ on'[k] = w
        /\ UNCHANGED <<jstate, stray>>
    BY <1>0, <1>1, MoveFrame DEF ProviderAccepts, Steps, Sending
  <2>3. orders'[w] = orders[w] + 1 /\ \A v \in Withdrawals \ {w} : orders'[v] = orders[v]
    BY <1>1, <2>1 DEF ProviderAccepts, TypeOK
  <2>4. orders[w] = 0 /\ stray[w] = 0 /\ jstate[w] \in HeldStates
    BY <2>1 DEF SendInv, SenderKnows, SenderHoldsTheRow, Sending
  <2>5. orders'[w] = 1 /\ stray'[w] = 0 /\ orders'[w] + stray'[w] <= 1
    BY <2>2, <2>3, <2>4
  <2> QED BY <2>1, <2>2, <2>3, <2>4, <2>5, OnStage DEF Sending
<1>2. ASSUME NEW w \in Withdrawals,
             StrayAccepted(w) \/ StrayLost(w) \/ ProviderSettles(w)
      PROVE  SendInv'
  <2>1. UNCHANGED <<jstate, pc, on, seen>>
    BY <1>2 DEF StrayAccepted, StrayLost, ProviderSettles
  <2>2. \A v \in Withdrawals : orders[v] \in Nat /\ stray[v] \in Nat
    BY DEF TypeOK
  <2>3. \A v \in Withdrawals : orders[v] + stray[v] <= 1
    BY DEF SendInv, AtMostOnePayout
  <2>4. CASE ProviderSettles(w)
    BY <2>1, <2>4
       DEF ProviderSettles, SendInv, AtMostOnePayout, UnknownFateIsHeld, SenderHoldsTheRow,
           OneSender, SenderKnows, AbandonsAlone, ClaimsTheUnsent, Quiet
  <2>5. CASE StrayAccepted(w) \/ StrayLost(w)
    <3>1. /\ stray[w] > 0 /\ stray'[w] = stray[w] - 1
          /\ orders'[w] = orders[w] \/ orders'[w] = orders[w] + 1
          /\ \A v \in Withdrawals \ {w} : stray'[v] = stray[v] /\ orders'[v] = orders[v]
      BY <2>5 DEF StrayAccepted, StrayLost, TypeOK
    <3>2. stray[w] = 1 /\ orders[w] = 0
      BY <2>2, <2>3, <3>1
    <3>3. stray'[w] = 0 /\ orders'[w] \in {0, 1}
      BY <3>1, <3>2
    <3>4. \A k \in Workers : on[k] = w =>
            pc[k] \notin {"posting", "busy", "refused", "taken", "mark"}
      BY <3>2 DEF SendInv, SenderKnows
    <3>5. AtMostOnePayout' /\ UnknownFateIsHeld'
      <4>1. jstate[w] \in HeldStates
        BY <3>2 DEF SendInv, UnknownFateIsHeld, HeldStates
      <4> QED BY <2>1, <3>1, <3>3, <4>1
              DEF SendInv, AtMostOnePayout, UnknownFateIsHeld, HeldStates
    <3>6. SenderKnows'
      <4>1. \A k \in Workers : pc[k] # "idle" => on[k] \in Withdrawals
        BY DEF TypeOK
      <4> QED BY <2>1, <3>1, <3>4, <4>1 DEF SendInv, SenderKnows
    <3> QED BY <2>1, <3>5, <3>6
            DEF SendInv, SenderHoldsTheRow, OneSender, AbandonsAlone, ClaimsTheUnsent, Quiet
  <2> QED BY <1>2, <2>4, <2>5
<1> QED BY <1>1, <1>2 DEF ProviderStep

LEMMA SendInvInit == Init => SendInv
BY DEF Init, SendInv, AtMostOnePayout, UnknownFateIsHeld, SenderHoldsTheRow,
       OneSender, SenderKnows, AbandonsAlone, ClaimsTheUnsent, Sending

LEMMA SendInvStep == TypeOK /\ SendInv /\ [Next]_vars => SendInv'
<1> SUFFICES ASSUME TypeOK, SendInv, [Next]_vars  PROVE SendInv'
  OBVIOUS
<1>1. ASSUME NEW k \in Workers, WorkerStep(k)  PROVE SendInv'
  BY <1>1, StartKeepsSendInv, SettleKeepsSendInv, SendStepKeepsSendInv,
     AskKeepsSendInv, InterruptKeepsSendInv DEF WorkerStep
<1>2. CASE ProviderStep
  BY <1>2, ProviderKeepsSendInv
<1>3. CASE TogglePayouts \/ UNCHANGED vars
  BY <1>3
     DEF TogglePayouts, vars, SendInv, AtMostOnePayout, UnknownFateIsHeld, SenderHoldsTheRow,
         OneSender, SenderKnows, AbandonsAlone, ClaimsTheUnsent, Quiet
<1> QED BY <1>1, <1>2, <1>3 DEF Next

LEMMA SendInvHolds == Spec => [](TypeOK /\ SendInv)
BY TypeInit, TypeStep, SendInvInit, SendInvStep, PTL DEF Spec

\* "Jamais deux envois pour un retrait": however many requests, job passes,
\* callbacks and crashes there are at once.
THEOREM NeverTwoPayouts == Spec => []AtMostOnePayout
<1>1. SendInv => AtMostOnePayout
  BY DEF SendInv
<1> QED BY <1>1, SendInvHolds, PTL

\* A withdrawal the provider has, or may still get, is never sendable again.
THEOREM UnknownFateStaysHeld == Spec => []UnknownFateIsHeld
<1>1. SendInv => UnknownFateIsHeld
  BY DEF SendInv
<1> QED BY <1>1, SendInvHolds, PTL

-----------------------------------------------------------------------------
(* What the rows say of the provider is true: an order number, a reference *)
(* or a verdict speaks of an order that exists, and whoever is about to    *)
(* record a success was told so.                                           *)

Confirmed(w) == verdict[w] = "paid" \/ vouched[w]

NumbersAreReal ==
  /\ \A w \in Withdrawals : order[w] \/ ref[w] => orders[w] > 0
  /\ \A k \in Workers :
       /\ pc[k] \in {"pending", "check", "adopt", "record"} => orders[on[k]] > 0
       /\ pc[k] = "status" /\ seen[k].ref => orders[on[k]] > 0

VerdictsAreReal == \A w \in Withdrawals : verdict[w] # "none" => orders[w] > 0

SuccessInHand ==
  \A k \in Workers, w \in Withdrawals : pc[k] = "success" /\ on[k] = w => Confirmed(w)

AnswerInv ==
  /\ VerdictsAreReal /\ NumbersAreReal /\ SuccessInHand
  /\ ProcessingHasAnOrder /\ SuccessIsConfirmed

LEMMA OneMore ==
  ASSUME NEW f \in [Withdrawals -> Nat], NEW w \in Withdrawals
  PROVE  /\ [f EXCEPT ![w] = @ + 1][w] = f[w] + 1
         /\ \A v \in Withdrawals \ {w} : [f EXCEPT ![w] = @ + 1][v] = f[v]
OBVIOUS

\* Orders, verdicts of payment and declarations are never taken back: an order
\* is only created where there was none, so no verdict is overwritten.
Lasting ==
  \A w \in Withdrawals :
    /\ orders[w] > 0 => orders'[w] > 0
    /\ Confirmed(w) => Confirmed(w)'

\* A step of a worker leaves the provider's orders and verdicts alone.
LEMMA WorkersDoNotJudge ==
  ASSUME NEW k \in Workers, WorkerStep(k)
  PROVE  /\ UNCHANGED <<orders, verdict>>
         /\ UNCHANGED vouched \/ \E w \in Withdrawals : vouched' = [vouched EXCEPT ![w] = TRUE]
<1>1. CASE \E w \in Withdrawals : StartStep(k, w)
  BY <1>1 DEF StartStep, RequestWithdrawal, InsertRequest, JobPick, Callback, MarkSent, Reject
<1>2. CASE DebitRequest(k) \/ DebitRefused(k) \/ Interrupt(k) \/ SettleStep(k)
  BY <1>2 DEF DebitRequest, DebitRefused, Interrupt, SettleStep, ApplyPending,
              ApplySuccess, ApplyFailed
<1>3. CASE SendStep(k)
  BY <1>3 DEF SendStep, Dispatch, LoginOk, LoginRefused, LoginError, ClaimPayout,
              ClaimLost, ClaimError, AnswerBusy, AnswerRefused, AnswerAccepted,
              AnswerLost, MarkBusy, MarkRefused, MarkAccepted
<1>4. CASE AskStep(k)
  BY <1>4 DEF AskStep, Status, MarkAbandoned, AdoptOrder, CheckPayout,
              RecordOrder, LoadWithdrawal
<1> QED BY <1>1, <1>2, <1>3, <1>4 DEF WorkerStep

LEMMA TheProviderKeepsItsWord ==
  ASSUME TypeOK, SendInv, VerdictsAreReal, [Next]_vars
  PROVE  Lasting /\ VerdictsAreReal'
<1> USE DEF Confirmed, Lasting, VerdictsAreReal
<1>0. \A w \in Withdrawals : orders[w] \in Nat /\ stray[w] \in Nat
  BY DEF TypeOK
<1>1. ASSUME NEW k \in Workers, WorkerStep(k)  PROVE Lasting /\ VerdictsAreReal'
  <2>1. \A w \in Withdrawals : vouched[w] => vouched'[w]
    <3>1. vouched \in [Withdrawals -> BOOLEAN]
      BY DEF TypeOK
    <3> QED BY <1>1, <3>1, WorkersDoNotJudge
  <2> QED BY <1>1, <2>1, WorkersDoNotJudge
<1>2. ASSUME NEW k \in Workers, ProviderAccepts(k)  PROVE Lasting /\ VerdictsAreReal'
  <2>1. on[k] \in Withdrawals /\ orders[on[k]] = 0
    BY <1>2 DEF ProviderAccepts, At, TypeOK, SendInv, SenderKnows
  <2>2. verdict[on[k]] = "none"
    BY <2>1
  <2>3. /\ orders'[on[k]] = 1
        /\ \A v \in Withdrawals \ {on[k]} : orders'[v] = orders[v] /\ verdict'[v] = verdict[v]
        /\ UNCHANGED vouched
    <3>1. orders \in [Withdrawals -> Nat]
            /\ verdict \in [Withdrawals -> {"none", "in progress", "paid", "failed"}]
      BY DEF TypeOK
    <3>2. orders' = [orders EXCEPT ![on[k]] = @ + 1] /\ UNCHANGED vouched
      BY <1>2, <2>1 DEF ProviderAccepts
    <3>3. verdict' = [verdict EXCEPT ![on[k]] = "in progress"]
      BY <1>2, <2>1 DEF ProviderAccepts
    <3>4. orders'[on[k]] = 1 /\ \A v \in Withdrawals \ {on[k]} : orders'[v] = orders[v]
      <4>1. orders'[on[k]] = orders[on[k]] + 1
              /\ \A v \in Withdrawals \ {on[k]} : orders'[v] = orders[v]
        BY <2>1, <3>1, <3>2, OneMore, Zenon
      <4> QED BY <2>1, <4>1
    <3>5. \A v \in Withdrawals \ {on[k]} : verdict'[v] = verdict[v]
      BY <1>2, <2>1, <3>1, <3>3
    <3> QED BY <3>2, <3>4, <3>5
  <2> QED BY <2>1, <2>2, <2>3
<1>3. ASSUME NEW w \in Withdrawals, StrayAccepted(w)  PROVE Lasting /\ VerdictsAreReal'
  <2>1. stray[w] > 0 /\ orders[w] + stray[w] <= 1
    BY <1>3 DEF StrayAccepted, SendInv, AtMostOnePayout
  <2>2. orders[w] = 0 /\ verdict[w] = "none"
    BY <1>0, <2>1
  <2>3. /\ orders'[w] = 1
        /\ \A v \in Withdrawals \ {w} : orders'[v] = orders[v] /\ verdict'[v] = verdict[v]
        /\ UNCHANGED vouched
    <3>1. orders \in [Withdrawals -> Nat]
            /\ verdict \in [Withdrawals -> {"none", "in progress", "paid", "failed"}]
      BY DEF TypeOK
    <3>2. orders' = [orders EXCEPT ![w] = @ + 1] /\ UNCHANGED vouched
      BY <1>3, <2>2 DEF StrayAccepted
    <3>3. verdict' = [verdict EXCEPT ![w] = "in progress"]
      BY <1>3, <2>2 DEF StrayAccepted
    <3>4. orders'[w] = 1 /\ \A v \in Withdrawals \ {w} : orders'[v] = orders[v]
      <4>1. orders'[w] = orders[w] + 1
              /\ \A v \in Withdrawals \ {w} : orders'[v] = orders[v]
        BY <3>1, <3>2, OneMore, Zenon
      <4> QED BY <2>2, <4>1
    <3>5. \A v \in Withdrawals \ {w} : verdict'[v] = verdict[v]
      BY <1>3, <2>2, <3>1, <3>3
    <3> QED BY <3>2, <3>4, <3>5
  <2> QED BY <2>2, <2>3
<1>4. ASSUME NEW w \in Withdrawals, StrayLost(w)  PROVE Lasting /\ VerdictsAreReal'
  BY <1>4 DEF StrayLost
<1>5. ASSUME NEW w \in Withdrawals, ProviderSettles(w)  PROVE Lasting /\ VerdictsAreReal'
  BY <1>5 DEF ProviderSettles, TypeOK
<1>6. CASE TogglePayouts \/ UNCHANGED vars
  BY <1>6 DEF TogglePayouts, vars
<1> QED BY <1>1, <1>2, <1>3, <1>4, <1>5, <1>6 DEF Next, ProviderStep

\* What a step of worker k has to bring for AnswerInv to survive it.
LEMMA AnswerFrame ==
  ASSUME TypeOK, AnswerInv, Lasting, VerdictsAreReal', NEW k \in Workers, Moves(k),
         \A w \in Withdrawals : order'[w] \/ ref'[w] => order[w] \/ ref[w] \/ orders[w] > 0,
         \A w \in Withdrawals : status'[w] = "PROCESSING" =>
           orders[w] > 0 /\ ref'[w],
         \A w \in Withdrawals : status'[w] = "SUCCESS" => Confirmed(w)',
         pc'[k] \in {"pending", "check", "adopt", "record"} =>
           on'[k] \in Withdrawals /\ orders[on'[k]] > 0,
         pc'[k] = "status" /\ seen'[k].ref => on'[k] \in Withdrawals /\ orders[on'[k]] > 0,
         \A w \in Withdrawals : pc'[k] = "success" /\ on'[k] = w => Confirmed(w)'
  PROVE  AnswerInv'
<1> USE DEF AnswerInv, Lasting, Moves
<1>0. \A l \in Workers : pc[l] # "idle" => on[l] \in Withdrawals
  BY DEF TypeOK
<1>1. NumbersAreReal'
  BY <1>0 DEF NumbersAreReal
<1>2. SuccessInHand'
  BY <1>0 DEF SuccessInHand
<1>3. ProcessingHasAnOrder' /\ SuccessIsConfirmed'
  BY DEF ProcessingHasAnOrder, SuccessIsConfirmed, Confirmed
<1> QED BY <1>1, <1>2, <1>3

\* A move that leaves the rows alone, or only gives up on a withdrawal.
LEMMA RowsAlone ==
  ASSUME TypeOK, AnswerInv, Lasting, VerdictsAreReal', NEW k \in Workers, Moves(k),
         UNCHANGED <<order, ref>>,
         \A w \in Withdrawals :
           status'[w] = status[w] \/ status'[w] \notin {"PROCESSING", "SUCCESS"},
         pc'[k] \in {"pending", "check", "adopt", "record"} =>
           on'[k] \in Withdrawals /\ orders[on'[k]] > 0,
         pc'[k] = "status" /\ seen'[k].ref => on'[k] \in Withdrawals /\ orders[on'[k]] > 0,
         \A w \in Withdrawals : pc'[k] = "success" /\ on'[k] = w => Confirmed(w)'
  PROVE  AnswerInv'
<1>1. \A w \in Withdrawals : status'[w] = "PROCESSING" => orders[w] > 0 /\ ref'[w]
  BY DEF AnswerInv, ProcessingHasAnOrder
<1>2. \A w \in Withdrawals : status'[w] = "SUCCESS" => Confirmed(w)'
  <2>1. \A w \in Withdrawals : status[w] = "SUCCESS" => Confirmed(w)
    BY DEF AnswerInv, SuccessIsConfirmed, Confirmed
  <2> QED BY <2>1 DEF Lasting
<1>3. \A w \in Withdrawals : order'[w] \/ ref'[w] => order[w] \/ ref[w] \/ orders[w] > 0
  OBVIOUS
<1> QED BY <1>1, <1>2, <1>3, AnswerFrame

LEMMA StartKeepsAnswerInv ==
  ASSUME TypeOK, AnswerInv, Lasting, VerdictsAreReal',
         NEW k \in Workers, NEW w \in Withdrawals, StartStep(k, w)
  PROVE  AnswerInv'
<1>1. WorkerTypes /\ RowTypes
  BY TypeParts
<1>2. UNCHANGED <<order, ref>>
  BY DEF StartStep, RequestWithdrawal, request_withdrawal, InsertRequest, JobPick, Callback,
         MarkSent, Reject
<1>3. \A v \in Withdrawals :
        status'[v] = status[v] \/ status'[v] \notin {"PROCESSING", "SUCCESS"}
  BY DEF StartStep, RequestWithdrawal, request_withdrawal, InsertRequest, JobPick, Callback,
         MarkSent, Reject, TypeOK
<1> USE MoveFrame
<1>4. CASE RequestWithdrawal(k, w) \/ InsertRequest(k, w) \/ Reject(k, w)
  <2>1. Moves(k) /\ pc'[k] \in {"dispatch", "debit", "fail"}
    BY <1>1, <1>4, BlankIsAView DEF RequestWithdrawal, InsertRequest, Reject, Steps
  <2> QED BY <1>2, <1>3, <2>1, RowsAlone
<1>5. CASE JobPick(k, w)
  <2>1. Open(w) /\ Begin(k, w, "status", WithdrawalSeen(w))
    BY <1>5 DEF JobPick
  <2>2. "status" \in Steps /\ WithdrawalSeen(w) \in View /\ WithdrawalSeen(w).ref = ref[w]
    BY <1>1, <2>1, WithdrawalSeenIsAView DEF Steps
  <2>3. Moves(k) /\ pc'[k] = "status" /\ on'[k] = w /\ seen'[k] = WithdrawalSeen(w)
    BY <1>1, <2>1, <2>2
  <2>4. ref[w] => orders[w] > 0
    BY DEF AnswerInv, NumbersAreReal
  <2> QED BY <1>2, <1>3, <2>2, <2>3, <2>4, RowsAlone
<1>6. CASE Callback(k, w)
  <2>1. CASE Begin(k, w, "load", Blank)
    <3>1. Moves(k) /\ pc'[k] = "load"
      BY <1>1, <2>1, BlankIsAView DEF Steps
    <3> QED BY <1>2, <1>3, <3>1, RowsAlone
  <2>2. CASE orders[w] > 0 /\ Begin(k, w, "record", RowSeen(w))
    <3>1. "record" \in Steps /\ RowSeen(w) \in View
      BY <1>1, RowSeenIsAView DEF Steps
    <3>2. Moves(k) /\ pc'[k] = "record" /\ on'[k] = w
      BY <1>1, <2>2, <3>1
    <3> QED BY <1>2, <1>3, <2>2, <3>2, RowsAlone
  <2> QED BY <1>6, <2>1, <2>2 DEF Callback
<1>7. CASE MarkSent(k, w)
  <2>1. Moves(k) /\ pc'[k] = "success" /\ on'[k] = w
    BY <1>1, <1>7, BlankIsAView DEF MarkSent, Steps, Sending
  <2>2. Confirmed(w)'
    <3>1. vouched'[w] = TRUE
      BY <1>7 DEF MarkSent, TypeOK
    <3> QED BY <3>1 DEF Confirmed
  <2> QED BY <1>2, <1>3, <2>1, <2>2, RowsAlone
<1> QED BY <1>4, <1>5, <1>6, <1>7 DEF StartStep

LEMMA SendKeepsAnswerInv ==
  ASSUME TypeOK, SendInv, AnswerInv, Lasting, VerdictsAreReal',
         NEW k \in Workers, SendStep(k)
  PROVE  AnswerInv'
<1> DEFINE w == on[k]
<1>1. WorkerTypes /\ RowTypes
  BY TypeParts
<1>2. UNCHANGED <<status, ref>>
  BY DEF SendStep, Dispatch, LoginOk, LoginRefused, LoginError, ClaimPayout,
         ClaimLost, ClaimError, AnswerBusy, AnswerRefused, AnswerAccepted,
         AnswerLost, MarkBusy, MarkRefused, MarkAccepted
<1>3. CASE Dispatch(k)
  <2>1. UNCHANGED order /\ w \in Withdrawals
    BY <1>1, <1>3 DEF Dispatch, At, WorkerTypes
  <2>2. order[w] => orders[w] > 0
    BY <2>1 DEF AnswerInv, NumbersAreReal
  <2> QED BY <1>1, <1>2, <1>3, <2>1, <2>2, DispatchMoves, RowsAlone
<1>4. CASE \/ LoginOk(k) \/ LoginRefused(k) \/ LoginError(k) \/ ClaimPayout(k) \/ ClaimLost(k)
           \/ ClaimError(k) \/ AnswerBusy(k) \/ AnswerRefused(k) \/ AnswerAccepted(k)
           \/ AnswerLost(k)
  <2>1. UNCHANGED order
    BY <1>4 DEF LoginOk, LoginRefused, LoginError, ClaimPayout, ClaimLost, ClaimError,
                AnswerBusy, AnswerRefused, AnswerAccepted, AnswerLost
  <2>2. Moves(k) /\ pc'[k] \in {"idle", "claim", "fail", "posting", "busy", "refused", "mark"}
    BY <1>1, <1>4, MoveFrame
       DEF LoginOk, LoginRefused, LoginError, ClaimPayout, ClaimLost, ClaimError, AnswerBusy,
           AnswerRefused, AnswerAccepted, AnswerLost, Steps, Sending
  <2> QED BY <1>2, <2>1, <2>2, RowsAlone
<1>5. CASE MarkBusy(k) \/ MarkRefused(k)
  <2>1. w \in Withdrawals /\ order \in [Withdrawals -> BOOLEAN]
    BY <1>1, <1>5 DEF MarkBusy, MarkRefused, At, WorkerTypes, RowTypes, JournalTypes
  <2>2. UNCHANGED order
    BY <1>5, <2>1 DEF MarkBusy, MarkRefused, MarkPayout
  <2>3. Moves(k) /\ pc'[k] \in {"idle", "fail"}
    BY <1>1, <1>5, MoveFrame DEF MarkBusy, MarkRefused, Steps
  <2> QED BY <1>2, <2>2, <2>3, RowsAlone
<1>6. CASE MarkAccepted(k)
  <2>1. w \in Withdrawals /\ orders[w] > 0
    BY <1>1, <1>6 DEF MarkAccepted, At, WorkerTypes, SendInv, SenderKnows
  <2>2. \A v \in Withdrawals : order'[v] => order[v] \/ orders[v] > 0
    <3>1. order \in [Withdrawals -> BOOLEAN]
      BY DEF TypeOK
    <3>2. UNCHANGED order \/ order' = [order EXCEPT ![w] = TRUE]
      BY <1>6 DEF MarkAccepted, MarkPayout
    <3> QED BY <2>1, <3>1, <3>2
  <2>3. Moves(k) /\ pc'[k] = "pending" /\ on'[k] = w
    BY <1>1, <1>6, MoveFrame DEF MarkAccepted, Steps
  <2>4. \A v \in Withdrawals : status[v] = "SUCCESS" => Confirmed(v)
    BY DEF AnswerInv, SuccessIsConfirmed, Confirmed
  <2>5. \A v \in Withdrawals : status'[v] = "SUCCESS" => Confirmed(v)'
    BY <1>2, <2>4 DEF Lasting
  <2>6. \A v \in Withdrawals : status'[v] = "PROCESSING" => orders[v] > 0 /\ ref'[v]
    BY <1>2 DEF AnswerInv, ProcessingHasAnOrder
  <2> QED BY <1>2, <2>1, <2>2, <2>3, <2>5, <2>6, AnswerFrame
<1> QED BY <1>3, <1>4, <1>5, <1>6 DEF SendStep

LEMMA SettleKeepsAnswerInv ==
  ASSUME TypeOK, AnswerInv, Lasting, VerdictsAreReal', NEW k \in Workers,
         SettleStep(k) \/ DebitRequest(k) \/ DebitRefused(k) \/ Interrupt(k)
  PROVE  AnswerInv'
<1> DEFINE w == on[k]
<1>0. WorkerTypes
  BY TypeParts
<1>1. Moves(k) /\ pc'[k] \in {"idle", "dispatch"} /\ w \in Withdrawals /\ UNCHANGED order
  BY <1>0, MoveFrame
     DEF SettleStep, ApplyPending, ApplySuccess, ApplyFailed, DebitRequest, DebitRefused,
         Interrupt, Steps, At, WorkerTypes
<1>2. /\ status \in [Withdrawals -> Statuses]
      /\ \A v \in Withdrawals : status[v] = "SUCCESS" => Confirmed(v)
      /\ \A v \in Withdrawals : status[v] = "PROCESSING" => orders[v] > 0 /\ ref[v]
  BY DEF TypeOK, AnswerInv, SuccessIsConfirmed, Confirmed, ProcessingHasAnOrder
<1>3. CASE ApplyPending(k)
  <2>1. orders[w] > 0
    BY <1>3 DEF ApplyPending, At, AnswerInv, NumbersAreReal
  <2>2. \/ UNCHANGED <<status, ref>>
        \/ /\ status' = [status EXCEPT ![w] = "PROCESSING"]
           /\ ref' = [ref EXCEPT ![w] = TRUE]
    BY <1>3 DEF ApplyPending, mark_withdrawal_processing
  <2>3. CASE UNCHANGED <<status, ref>>
    BY <1>1, <2>3, RowsAlone
  <2>4. CASE status' = [status EXCEPT ![w] = "PROCESSING"] /\ ref' = [ref EXCEPT ![w] = TRUE]
    <3>1. /\ ref'[w] = TRUE
          /\ \A v \in Withdrawals \ {w} : ref'[v] = ref[v]
      BY <1>1, <2>4 DEF TypeOK
    <3>2. /\ status'[w] = "PROCESSING"
          /\ \A v \in Withdrawals \ {w} : status'[v] = status[v]
      BY <1>1, <1>2, <2>4
    <3>3. \A v \in Withdrawals : order'[v] \/ ref'[v] => order[v] \/ ref[v] \/ orders[v] > 0
      BY <1>1, <2>1, <3>1
    <3>4. \A v \in Withdrawals : status'[v] = "PROCESSING" => orders[v] > 0 /\ ref'[v]
      BY <1>2, <2>1, <3>1, <3>2
    <3>5. \A v \in Withdrawals : status'[v] = "SUCCESS" => Confirmed(v)'
      BY <1>2, <3>2 DEF Lasting
    <3> QED BY <1>1, <3>3, <3>4, <3>5, AnswerFrame
  <2> QED BY <2>2, <2>3, <2>4
<1>4. CASE ApplySuccess(k)
  <2>1. Confirmed(w) /\ UNCHANGED ref
    BY <1>1, <1>4 DEF ApplySuccess, finish_withdrawal, At, AnswerInv, SuccessInHand
  <2>2. \A v \in Withdrawals : status'[v] = status[v] \/ (v = w /\ status'[v] = "SUCCESS")
    BY <1>1, <1>2, <1>4 DEF ApplySuccess, finish_withdrawal
  <2>3. \A v \in Withdrawals : order'[v] \/ ref'[v] => order[v] \/ ref[v] \/ orders[v] > 0
    BY <1>1, <2>1
  <2>4. \A v \in Withdrawals : status'[v] = "PROCESSING" => orders[v] > 0 /\ ref'[v]
    BY <1>2, <2>1, <2>2
  <2>5. \A v \in Withdrawals : status'[v] = "SUCCESS" => Confirmed(v)'
    BY <1>2, <2>1, <2>2 DEF Lasting
  <2> QED BY <1>1, <2>3, <2>4, <2>5, AnswerFrame
<1>5. CASE ApplyFailed(k) \/ DebitRequest(k) \/ DebitRefused(k) \/ Interrupt(k)
  <2>1. UNCHANGED ref
    BY <1>5 DEF ApplyFailed, fail_withdrawal, DebitRequest, DebitRefused, Interrupt
  <2>2. \A v \in Withdrawals :
          status'[v] = status[v] \/ status'[v] \notin {"PROCESSING", "SUCCESS"}
    <3>1. \/ UNCHANGED status
          \/ \E s \in {"REVERSED", "FAILED"} : status' = [status EXCEPT ![w] = s]
      BY <1>5 DEF ApplyFailed, fail_withdrawal, DebitRequest, DebitRefused, Interrupt
    <3> QED BY <1>1, <1>2, <3>1
  <2> QED BY <1>1, <2>1, <2>2, RowsAlone
<1> QED BY <1>3, <1>4, <1>5 DEF SettleStep

LEMMA AskKeepsAnswerInv ==
  ASSUME TypeOK, AnswerInv, Lasting, VerdictsAreReal', NEW k \in Workers, AskStep(k)
  PROVE  AnswerInv'
<1> DEFINE w == on[k]
<1>1. WorkerTypes /\ RowTypes
  BY TypeParts
<1>2. UNCHANGED <<status, ref>> /\ w \in Withdrawals
  BY <1>1 DEF AskStep, Status, MarkAbandoned, AdoptOrder, CheckPayout, RecordOrder,
              LoadWithdrawal, At, WorkerTypes
<1>3. order[w] \/ ref[w] => orders[w] > 0
  BY <1>2 DEF AnswerInv, NumbersAreReal
<1>4. ASSUME NEW late \in BOOLEAN, Status(k, late)  PROVE AnswerInv'
  <2>1. UNCHANGED order
    BY <1>4 DEF Status
  <2>2. pc[k] = "status" /\ seen[k].ref => orders[w] > 0
    BY DEF AnswerInv, NumbersAreReal
  <2>3. /\ Moves(k)
        /\ pc'[k] \in {"idle", "dispatch", "fail", "check", "adopt", "abandon"}
        /\ pc'[k] \in {"check", "adopt"} => on'[k] = w /\ orders[w] > 0
    BY <1>1, <1>3, <1>4, <2>2, StatusMoves
  <2> QED BY <1>2, <2>1, <2>3, RowsAlone
<1>5. CASE CheckPayout(k)
  <2>1. UNCHANGED <<order, verdict>>
    BY <1>5 DEF CheckPayout
  <2>2. /\ Moves(k) /\ pc'[k] \in {"idle", "fail", "success"}
        /\ pc'[k] = "success" => on'[k] = w /\ verdict[w] = "paid"
    BY <1>1, <1>5, MoveFrame DEF CheckPayout, Steps
  <2>3. \A v \in Withdrawals : pc'[k] = "success" /\ on'[k] = v => Confirmed(v)'
    BY <2>1, <2>2 DEF Confirmed
  <2> QED BY <1>2, <2>1, <2>2, <2>3, RowsAlone
<1>6. CASE LoadWithdrawal(k)
  <2>1. UNCHANGED order
    BY <1>6 DEF LoadWithdrawal
  <2>2. CASE Finish(k)
    BY <1>1, <1>2, <2>1, <2>2, MoveFrame, RowsAlone
  <2>3. CASE /\ Open(w) /\ Goto(k, "status")
             /\ seen' = [seen EXCEPT ![k] = WithdrawalSeen(w)] /\ UNCHANGED on
    <3>1. "status" \in Steps /\ WithdrawalSeen(w) \in View /\ WithdrawalSeen(w).ref = ref[w]
      BY <1>1, <1>2, <2>3, WithdrawalSeenIsAView DEF Steps
    <3>2. Moves(k) /\ pc'[k] = "status" /\ on'[k] = w /\ seen'[k] = WithdrawalSeen(w)
      BY <1>1, <2>3, <3>1, ReadFrame
    <3> QED BY <1>2, <1>3, <2>1, <3>1, <3>2, RowsAlone
  <2> QED BY <1>6, <2>2, <2>3 DEF LoadWithdrawal
<1>7. CASE MarkAbandoned(k)
  <2>1. UNCHANGED order
    <3>1. order \in [Withdrawals -> BOOLEAN]
      BY DEF TypeOK
    <3> QED BY <1>2, <1>7, <3>1 DEF MarkAbandoned, MarkPayout
  <2>2. Moves(k) /\ pc'[k] = "fail"
    BY <1>1, <1>7, MoveFrame DEF MarkAbandoned, Steps
  <2> QED BY <1>2, <2>1, <2>2, RowsAlone
<1>8. CASE AdoptOrder(k) \/ RecordOrder(k)
  <2>1. orders[w] > 0
    BY <1>8 DEF AdoptOrder, RecordOrder, At, AnswerInv, NumbersAreReal
  <2>2. \A v \in Withdrawals : order'[v] => order[v] \/ orders[v] > 0
    <3>1. order \in [Withdrawals -> BOOLEAN]
      BY DEF TypeOK
    <3>2. UNCHANGED order \/ order' = [order EXCEPT ![w] = TRUE]
      BY <1>8 DEF AdoptOrder, RecordOrder, MarkPayout
    <3> QED BY <1>2, <2>1, <3>1, <3>2
  <2>3. Moves(k) /\ pc'[k] \in {"check", "load"} /\ on'[k] = w
    BY <1>1, <1>8, MoveFrame DEF AdoptOrder, RecordOrder, Steps
  <2>4. \A v \in Withdrawals : status'[v] = "SUCCESS" => Confirmed(v)'
    <3>1. \A v \in Withdrawals : status[v] = "SUCCESS" => Confirmed(v)
      BY DEF AnswerInv, SuccessIsConfirmed, Confirmed
    <3> QED BY <1>2, <3>1 DEF Lasting
  <2>5. \A v \in Withdrawals : status'[v] = "PROCESSING" => orders[v] > 0 /\ ref'[v]
    BY <1>2 DEF AnswerInv, ProcessingHasAnOrder
  <2> QED BY <1>2, <2>1, <2>2, <2>3, <2>4, <2>5, AnswerFrame
<1> QED BY <1>4, <1>5, <1>6, <1>7, <1>8 DEF AskStep

LEMMA AnswerInvStep == TypeOK /\ SendInv /\ AnswerInv /\ [Next]_vars => AnswerInv'
<1> SUFFICES ASSUME TypeOK, SendInv, AnswerInv, [Next]_vars  PROVE AnswerInv'
  OBVIOUS
<1>1. Lasting /\ VerdictsAreReal'
  BY TheProviderKeepsItsWord DEF AnswerInv
<1>2. ASSUME NEW k \in Workers, WorkerStep(k)  PROVE AnswerInv'
  BY <1>1, <1>2, StartKeepsAnswerInv, SettleKeepsAnswerInv, SendKeepsAnswerInv,
     AskKeepsAnswerInv DEF WorkerStep
<1>3. ASSUME NEW k \in Workers, ProviderAccepts(k)  PROVE AnswerInv'
  <2>1. Moves(k) /\ pc'[k] = "taken" /\ UNCHANGED <<order, ref, status>>
    BY <1>3, TypeParts, MoveFrame DEF ProviderAccepts, Steps, Sending
  <2> QED BY <1>1, <2>1, RowsAlone
<1>4. CASE \/ \E w \in Withdrawals : StrayAccepted(w) \/ StrayLost(w) \/ ProviderSettles(w)
           \/ TogglePayouts \/ UNCHANGED vars
  <2>1. UNCHANGED <<status, ref, order, pc, on, seen>>
    BY <1>4 DEF StrayAccepted, StrayLost, ProviderSettles, TogglePayouts, vars
  <2>2. NumbersAreReal' /\ ProcessingHasAnOrder'
    <3>1. \A k \in Workers : pc[k] # "idle" => on[k] \in Withdrawals
      BY DEF TypeOK
    <3> QED BY <1>1, <2>1, <3>1 DEF AnswerInv, Lasting, NumbersAreReal, ProcessingHasAnOrder
  <2>3. SuccessInHand'
    BY <1>1, <2>1 DEF AnswerInv, Lasting, SuccessInHand
  <2>4. SuccessIsConfirmed'
    <3>1. \A w \in Withdrawals : status[w] = "SUCCESS" => Confirmed(w)
      BY DEF AnswerInv, SuccessIsConfirmed, Confirmed
    <3>2. \A w \in Withdrawals : status'[w] = "SUCCESS" => Confirmed(w)'
      BY <1>1, <2>1, <3>1 DEF Lasting
    <3> QED BY <3>2 DEF SuccessIsConfirmed, Confirmed
  <2> QED BY <1>1, <2>2, <2>3, <2>4 DEF AnswerInv
<1> QED BY <1>2, <1>3, <1>4 DEF Next, ProviderStep

LEMMA AnswerInvInit == Init => AnswerInv
BY DEF Init, AnswerInv, VerdictsAreReal, NumbersAreReal, SuccessInHand,
       ProcessingHasAnOrder, SuccessIsConfirmed

\* StatusIsTrue: PROCESSING always speaks of an order the provider holds, which the
\* reconciliation can settle and never sends again; a withdrawal reported as sent was
\* declared paid by the provider or an administrator, through whichever path.
THEOREM StatusIsNeverInvented == Spec => []StatusIsTrue
<1>1. AnswerInv => StatusIsTrue
  BY DEF AnswerInv, StatusIsTrue
<1> QED BY <1>1, AnswerInvInit, AnswerInvStep, SendInvHolds, PTL DEF Spec

-----------------------------------------------------------------------------
(* The ways a step of the system can touch a withdrawal's account.         *)

InsertOnly(w) ==
  /\ status[w] = "NONE"
  /\ status' = [status EXCEPT ![w] = "PENDING"]
  /\ UNCHANGED <<debits, credits>>

DebitOnly(w) ==
  /\ UNCHANGED <<status, credits>>
  /\ debits' = [debits EXCEPT ![w] = @ + 1]

DebitAndFail(w) ==
  /\ status' = [status EXCEPT ![w] = "FAILED"]
  /\ \E c \in {0, 1} : debits' = [debits EXCEPT ![w] = @ + c]
  /\ UNCHANGED credits

OneTransaction(w) ==
  \/ request_withdrawal(w) \/ mark_withdrawal_processing(w)
  \/ finish_withdrawal(w) \/ fail_withdrawal(w)

TwoSteps(w) == InsertOnly(w) \/ DebitOnly(w) \/ DebitAndFail(w)

\* With one transaction, no worker ever stands between the row and its debit.
NeverHalfway == AtomicRequest => \A k \in Workers : pc[k] # "debit"

LEMMA NeverHalfwayStep == TypeOK /\ NeverHalfway /\ [Next]_vars => NeverHalfway'
<1> SUFFICES ASSUME TypeOK, NeverHalfway, [Next]_vars, AtomicRequest
             PROVE  \A k \in Workers : pc'[k] # "debit"
  BY DEF NeverHalfway
<1> USE TypeParts, MoveFrame
<1>0. \A k \in Workers : pc[k] # "debit"
  BY DEF NeverHalfway
<1>1. ASSUME NEW k \in Workers, WorkerStep(k)  PROVE \A l \in Workers : pc'[l] # "debit"
  <2>1. pc \in [Workers -> Steps]
    BY DEF TypeOK
  <2>2. ASSUME NEW s \in Steps, s # "debit", pc' = [pc EXCEPT ![k] = s]
        PROVE  \A l \in Workers : pc'[l] # "debit"
    BY <1>0, <2>1, <2>2
  <2>3. \E s \in Steps : s # "debit" /\ pc' = [pc EXCEPT ![k] = s]
    <3> USE DEF Begin, Finish, Continue, Goto, Steps, Sending
    <3>1. CASE \E w \in Withdrawals : StartStep(k, w)
      BY <3>1 DEF StartStep, RequestWithdrawal, InsertRequest, JobPick, Callback,
                  MarkSent, Reject
    <3>2. CASE DebitRequest(k) \/ DebitRefused(k) \/ Interrupt(k) \/ SettleStep(k)
      BY <3>2 DEF DebitRequest, DebitRefused, Interrupt, SettleStep, ApplyPending,
                  ApplySuccess, ApplyFailed
    <3>3. CASE SendStep(k)
      BY <3>3 DEF SendStep, Dispatch, LoginOk, LoginRefused, LoginError, ClaimPayout,
                  ClaimLost, ClaimError, AnswerBusy, AnswerRefused, AnswerAccepted,
                  AnswerLost, MarkBusy, MarkRefused, MarkAccepted
    <3>4. CASE AskStep(k)
      BY <3>4 DEF AskStep, Status, MarkAbandoned, AdoptOrder, CheckPayout,
                  RecordOrder, LoadWithdrawal
    <3> QED BY <1>1, <3>1, <3>2, <3>3, <3>4 DEF WorkerStep
  <2> QED BY <2>2, <2>3
<1>2. CASE ProviderStep
  <2>1. ASSUME NEW k \in Workers, ProviderAccepts(k)
        PROVE  \A l \in Workers : pc'[l] # "debit"
    BY <1>0, <2>1 DEF ProviderAccepts, Goto, TypeOK
  <2>2. ASSUME NEW w \in Withdrawals,
               StrayAccepted(w) \/ StrayLost(w) \/ ProviderSettles(w)
        PROVE  \A l \in Workers : pc'[l] # "debit"
    BY <1>0, <2>2 DEF StrayAccepted, StrayLost, ProviderSettles
  <2> QED BY <1>2, <2>1, <2>2 DEF ProviderStep
<1>3. CASE TogglePayouts \/ UNCHANGED vars
  BY <1>0, <1>3 DEF TogglePayouts, vars
<1> QED BY <1>1, <1>2, <1>3 DEF Next

LEMMA AccountMoves ==
  ASSUME TypeOK, NeverHalfway, [Next]_vars
  PROVE  \/ UNCHANGED account
         \/ \E w \in Withdrawals : OneTransaction(w)
         \/ ~AtomicRequest /\ \E w \in Withdrawals : TwoSteps(w)
<1> DEFINE Goal == \/ UNCHANGED account
                   \/ \E w \in Withdrawals : OneTransaction(w)
                   \/ ~AtomicRequest /\ \E w \in Withdrawals : TwoSteps(w)
<1>1. ASSUME NEW k \in Workers, NEW w \in Withdrawals, StartStep(k, w)  PROVE Goal
  <2>1. CASE RequestWithdrawal(k, w)
    BY <2>1 DEF RequestWithdrawal, OneTransaction
  <2>2. CASE InsertRequest(k, w)
    BY <2>2 DEF InsertRequest, TwoSteps, InsertOnly
  <2>3. CASE JobPick(k, w) \/ Callback(k, w) \/ MarkSent(k, w) \/ Reject(k, w)
    BY <2>3 DEF JobPick, Callback, MarkSent, Reject
  <2> QED BY <1>1, <2>1, <2>2, <2>3 DEF StartStep
<1>2. ASSUME NEW k \in Workers, DebitRequest(k) \/ DebitRefused(k)  PROVE Goal
  <2>1. on[k] \in Withdrawals /\ ~AtomicRequest
    BY <1>2 DEF DebitRequest, DebitRefused, At, TypeOK, NeverHalfway
  <2>2. TwoSteps(on[k])
    BY <1>2 DEF DebitRequest, DebitRefused, TwoSteps, DebitOnly, DebitAndFail
  <2> QED BY <2>1, <2>2
<1>3. ASSUME NEW k \in Workers, SettleStep(k)  PROVE Goal
  <2>1. on[k] \in Withdrawals
    BY <1>3 DEF SettleStep, ApplyPending, ApplySuccess, ApplyFailed, At, TypeOK
  <2> QED BY <1>3, <2>1
          DEF SettleStep, ApplyPending, ApplySuccess, ApplyFailed, OneTransaction
<1>4. ASSUME NEW k \in Workers, SendStep(k) \/ AskStep(k) \/ Interrupt(k)  PROVE Goal
  BY <1>4 DEF SendStep, Dispatch, LoginOk, LoginRefused, LoginError, ClaimPayout,
              ClaimLost, ClaimError, AnswerBusy, AnswerRefused, AnswerAccepted,
              AnswerLost, MarkBusy, MarkRefused, MarkAccepted, AskStep, Status,
              MarkAbandoned, AdoptOrder, CheckPayout, RecordOrder, LoadWithdrawal, Interrupt
<1>5. CASE ProviderStep \/ TogglePayouts \/ UNCHANGED vars
  BY <1>5 DEF ProviderStep, ProviderAccepts, StrayAccepted, StrayLost, ProviderSettles,
              TogglePayouts, vars
<1> QED BY <1>1, <1>2, <1>3, <1>4, <1>5 DEF Next, WorkerStep

-----------------------------------------------------------------------------
(* No money from nothing, with or without migration 057.                   *)

\* Nothing is given back while the withdrawal can still be paid.
NotYetGivenBack ==
  \A w \in Withdrawals :
    status[w] \in {"NONE", "PENDING", "PROCESSING"} => credits[w] = 0

MoneyInv == NoMoneyFromNothing /\ NotYetGivenBack

LEMMA MoneyInvStep == TypeOK /\ MoneyInv /\ NeverHalfway /\ [Next]_vars => MoneyInv'
<1> SUFFICES ASSUME TypeOK, MoneyInv, NeverHalfway, [Next]_vars  PROVE MoneyInv'
  OBVIOUS
<1> USE DEF MoneyInv, NoMoneyFromNothing, NotYetGivenBack
<1>0. /\ debits \in [Withdrawals -> Nat] /\ credits \in [Withdrawals -> Nat]
      /\ status \in [Withdrawals -> Statuses]
  BY DEF TypeOK
<1>1. CASE UNCHANGED account
  BY <1>1
<1>2. ASSUME NEW w \in Withdrawals, request_withdrawal(w) \/ InsertOnly(w) \/ DebitOnly(w)
                                      \/ DebitAndFail(w)
      PROVE  MoneyInv'
  <2>1. UNCHANGED credits /\ \A v \in Withdrawals : debits'[v] >= debits[v]
    BY <1>0, <1>2 DEF request_withdrawal, InsertOnly, DebitOnly, DebitAndFail
  <2>2. \A v \in Withdrawals : status'[v] \in {"NONE", "PENDING", "PROCESSING"} =>
           status[v] \in {"NONE", "PENDING", "PROCESSING"}
    BY <1>0, <1>2 DEF request_withdrawal, InsertOnly, DebitOnly, DebitAndFail
  <2>3. debits' \in [Withdrawals -> Nat]
    BY TypeStep DEF TypeOK
  <2> QED BY <1>0, <2>1, <2>2, <2>3
<1>3. ASSUME NEW w \in Withdrawals, mark_withdrawal_processing(w) \/ finish_withdrawal(w)
      PROVE  MoneyInv'
  BY <1>0, <1>3 DEF mark_withdrawal_processing, finish_withdrawal, Open, OpenStatus
<1>4. ASSUME NEW w \in Withdrawals, fail_withdrawal(w)  PROVE MoneyInv'
  <2>1. CASE UNCHANGED <<status, credits>>
    BY <1>4, <2>1 DEF fail_withdrawal
  <2>2. CASE /\ Open(w) /\ debits[w] > 0
             /\ status' = [status EXCEPT ![w] = "REVERSED"]
             /\ credits' = [credits EXCEPT ![w] = @ + 1]
    <3>1. credits[w] = 0
      BY <2>2 DEF Open, OpenStatus
    <3>2. credits'[w] = 1 /\ \A v \in Withdrawals \ {w} : credits'[v] = credits[v]
      BY <1>0, <2>2, <3>1
    <3>3. status'[w] = "REVERSED" /\ \A v \in Withdrawals \ {w} : status'[v] = status[v]
      BY <1>0, <2>2
    <3> QED BY <1>0, <1>4, <2>2, <3>2, <3>3 DEF fail_withdrawal
  <2>3. CASE status' = [status EXCEPT ![w] = "FAILED"] /\ UNCHANGED credits
    BY <1>0, <1>4, <2>3 DEF fail_withdrawal
  <2> QED BY <1>4, <2>1, <2>2, <2>3 DEF fail_withdrawal
<1> QED BY <1>1, <1>2, <1>3, <1>4, AccountMoves DEF OneTransaction, TwoSteps

LEMMA MoneyInvInit == Init => MoneyInv /\ NeverHalfway
BY DEF Init, MoneyInv, NoMoneyFromNothing, NotYetGivenBack, NeverHalfway

LEMMA MoneyInvHolds == Spec => [](TypeOK /\ NeverHalfway /\ MoneyInv)
BY TypeInit, TypeStep, MoneyInvInit, MoneyInvStep, NeverHalfwayStep, PTL DEF Spec

\* Whatever is lost, late, interrupted or done twice, a withdrawal never gives
\* back more than it took, nor twice (057: "no debit in the ledger, no refund").
THEOREM NoMoneyIsCreated == Spec => []NoMoneyFromNothing
<1>1. MoneyInv => NoMoneyFromNothing
  BY DEF MoneyInv
<1> QED BY <1>1, MoneyInvHolds, PTL

-----------------------------------------------------------------------------
(* The promise kept, when the request is one transaction.                  *)

\* The account of a withdrawal, read off its status.
AccountByStatus ==
  \A w \in Withdrawals :
    /\ status[w] # "FAILED"
    /\ debits[w] = (IF status[w] = "NONE" THEN 0 ELSE 1)
    /\ credits[w] = (IF status[w] = "REVERSED" THEN 1 ELSE 0)

\* The steps of the promise, as seen from the account.
Promise(w) ==
  \/ /\ status[w] = "NONE"
     /\ status' = [status EXCEPT ![w] = "PENDING"]
     /\ debits' = [debits EXCEPT ![w] = 1] /\ UNCHANGED credits
  \/ /\ status[w] = "PENDING"
     /\ status' = [status EXCEPT ![w] = "PROCESSING"] /\ UNCHANGED <<debits, credits>>
  \/ /\ Open(w)
     /\ status' = [status EXCEPT ![w] = "SUCCESS"] /\ UNCHANGED <<debits, credits>>
  \/ /\ Open(w)
     /\ status' = [status EXCEPT ![w] = "REVERSED"]
     /\ credits' = [credits EXCEPT ![w] = 1] /\ UNCHANGED debits

LEMMA TransactionsKeepThePromise ==
  ASSUME TypeOK, AccountByStatus, NEW w \in Withdrawals, OneTransaction(w)
  PROVE  UNCHANGED <<status, debits, credits>> \/ Promise(w)
<1>1. CASE request_withdrawal(w)
  <2>1. debits[w] + 1 = 1
    BY <1>1 DEF request_withdrawal, AccountByStatus
  <2> QED BY <1>1, <2>1 DEF request_withdrawal, Promise
<1>2. CASE mark_withdrawal_processing(w)
  BY <1>2 DEF mark_withdrawal_processing, Promise
<1>3. CASE finish_withdrawal(w)
  BY <1>3 DEF finish_withdrawal, Promise
<1>4. CASE fail_withdrawal(w)
  <2>1. Open(w) => debits[w] > 0 /\ credits[w] + 1 = 1
    BY DEF AccountByStatus, Open, OpenStatus
  <2> QED BY <1>4, <2>1 DEF fail_withdrawal, Promise
<1> QED BY <1>1, <1>2, <1>3, <1>4 DEF OneTransaction

\* Under migration 057 the system only ever makes steps of the promise.
LEMMA StepsKeepThePromise ==
  ASSUME AtomicRequest, TypeOK, NeverHalfway, AccountByStatus, [Next]_vars
  PROVE  UNCHANGED <<status, debits, credits>> \/ \E w \in Withdrawals : Promise(w)
<1>1. UNCHANGED account \/ \E w \in Withdrawals : OneTransaction(w)
  BY AccountMoves
<1> QED BY <1>1, TransactionsKeepThePromise

LEMMA PromiseFrame ==
  ASSUME TypeOK, AccountByStatus, NEW w \in Withdrawals, Promise(w)
  PROVE  /\ \A v \in Withdrawals \ {w} :
              status'[v] = status[v] /\ debits'[v] = debits[v] /\ credits'[v] = credits[v]
         /\ \/ status[w] = "NONE" /\ status'[w] = "PENDING" /\ debits'[w] = 1
                 /\ credits'[w] = credits[w]
            \/ status[w] = "PENDING" /\ status'[w] = "PROCESSING" /\ debits'[w] = debits[w]
                 /\ credits'[w] = credits[w]
            \/ Open(w) /\ status'[w] = "SUCCESS" /\ debits'[w] = debits[w]
                 /\ credits'[w] = credits[w]
            \/ Open(w) /\ status'[w] = "REVERSED" /\ debits'[w] = debits[w]
                 /\ credits'[w] = 1
<1>1. /\ debits \in [Withdrawals -> Nat] /\ credits \in [Withdrawals -> Nat]
      /\ status \in [Withdrawals -> Statuses]
  BY DEF TypeOK
<1> QED BY <1>1 DEF Promise

LEMMA AccountByStatusStep ==
  AtomicRequest /\ TypeOK /\ NeverHalfway /\ AccountByStatus /\ [Next]_vars => AccountByStatus'
<1> SUFFICES ASSUME AtomicRequest, TypeOK, NeverHalfway, AccountByStatus, [Next]_vars
             PROVE  AccountByStatus'
  OBVIOUS
<1>1. CASE UNCHANGED <<status, debits, credits>>
  BY <1>1 DEF AccountByStatus
<1>2. ASSUME NEW w \in Withdrawals, Promise(w)  PROVE AccountByStatus'
  BY <1>2, PromiseFrame DEF AccountByStatus, Open, OpenStatus
<1> QED BY <1>1, <1>2, StepsKeepThePromise

LEMMA AccountByStatusInit == Init => AccountByStatus /\ NeverHalfway
BY DEF Init, AccountByStatus, NeverHalfway

LEMMA PromiseInv ==
  ASSUME AtomicRequest
  PROVE  Spec => [](TypeOK /\ NeverHalfway /\ AccountByStatus)
<1>1. TypeOK /\ NeverHalfway /\ AccountByStatus /\ [Next]_vars => AccountByStatus'
  BY AccountByStatusStep
<1> QED BY <1>1, TypeInit, TypeStep, AccountByStatusInit, NeverHalfwayStep, PTL DEF Spec

\* A settled withdrawal never changes again, when the request is one transaction:
\* late callbacks, second administrators and overlapping passes find it closed.
THEOREM SettledStaysSettled ==
  ASSUME AtomicRequest
  PROVE  Spec => SettledIsFinal
<1>1. TypeOK /\ NeverHalfway /\ AccountByStatus /\ [Next]_vars =>
        [\A w \in Withdrawals :
           status[w] \in {"SUCCESS", "REVERSED", "FAILED"} => status'[w] = status[w]]_vars
  <2> SUFFICES ASSUME TypeOK, NeverHalfway, AccountByStatus, [Next]_vars
               PROVE  \A w \in Withdrawals :
                        status[w] \in {"SUCCESS", "REVERSED", "FAILED"} => status'[w] = status[w]
    OBVIOUS
  <2>1. CASE UNCHANGED <<status, debits, credits>>
    BY <2>1
  <2>2. ASSUME NEW w \in Withdrawals, Promise(w)
        PROVE  \A v \in Withdrawals :
                 status[v] \in {"SUCCESS", "REVERSED", "FAILED"} => status'[v] = status[v]
    BY <2>2, PromiseFrame DEF Open, OpenStatus
  <2> QED BY <2>1, <2>2, StepsKeepThePromise
<1> QED BY <1>1, PromiseInv, PTL DEF Spec, SettledIsFinal

LEMMA PhaseInit == Init => Contract!ContractInit
<1> SUFFICES ASSUME Init  PROVE Contract!ContractInit
  OBVIOUS
<1>1. \A w \in Withdrawals : status[w] = "NONE"
  BY DEF Init
<1>2. Phase = [w \in Withdrawals |-> "none"]
  BY <1>1 DEF Phase, Open, OpenStatus
<1> QED BY <1>2 DEF Init, Contract!ContractInit

LEMMA PhaseStep ==
  ASSUME TypeOK, AccountByStatus, NEW w \in Withdrawals, Promise(w)
  PROVE  [Contract!ContractNext]_(Contract!contractVars)
<1>1. /\ debits \in [Withdrawals -> Nat] /\ credits \in [Withdrawals -> Nat]
      /\ status \in [Withdrawals -> Statuses]
  BY DEF TypeOK
<1>2. \A v \in Withdrawals \ {w} : status'[v] = status[v]
  BY PromiseFrame
<1>3. CASE /\ status[w] = "NONE"
           /\ status' = [status EXCEPT ![w] = "PENDING"]
           /\ debits' = [debits EXCEPT ![w] = 1] /\ UNCHANGED credits
  <2>1. status'[w] = "PENDING"
    BY <1>1, <1>3
  <2>2. Phase[w] = "none" /\ Phase' = [Phase EXCEPT ![w] = "reserved"]
    BY <1>2, <1>3, <2>1 DEF Phase, Open, OpenStatus
  <2>3. Contract!Reserve(w)
    BY <1>3, <2>2 DEF Contract!Reserve
  <2> QED BY <2>3 DEF Contract!ContractNext
<1>4. CASE /\ status[w] = "PENDING"
           /\ status' = [status EXCEPT ![w] = "PROCESSING"] /\ UNCHANGED <<debits, credits>>
  <2>1. status'[w] = "PROCESSING"
    BY <1>1, <1>4
  <2>2. Phase' = Phase
    BY <1>2, <1>4, <2>1 DEF Phase, Open, OpenStatus
  <2> QED BY <1>4, <2>2 DEF Contract!contractVars
<1>5. CASE /\ Open(w)
           /\ status' = [status EXCEPT ![w] = "SUCCESS"] /\ UNCHANGED <<debits, credits>>
  <2>1. status'[w] = "SUCCESS"
    BY <1>1, <1>5
  <2>2. Phase[w] = "reserved" /\ Phase' = [Phase EXCEPT ![w] = "sent"]
    BY <1>2, <1>5, <2>1 DEF Phase, Open, OpenStatus
  <2>3. Contract!Send(w)
    BY <1>5, <2>2 DEF Contract!Send
  <2> QED BY <2>3 DEF Contract!ContractNext
<1>6. CASE /\ Open(w)
           /\ status' = [status EXCEPT ![w] = "REVERSED"]
           /\ credits' = [credits EXCEPT ![w] = 1] /\ UNCHANGED debits
  <2>1. status'[w] = "REVERSED"
    BY <1>1, <1>6
  <2>2. Phase[w] = "reserved" /\ Phase' = [Phase EXCEPT ![w] = "returned"]
    BY <1>2, <1>6, <2>1 DEF Phase, Open, OpenStatus
  <2>3. Contract!GiveBack(w)
    BY <1>6, <2>2 DEF Contract!GiveBack
  <2> QED BY <2>3 DEF Contract!ContractNext
<1> QED BY <1>3, <1>4, <1>5, <1>6 DEF Promise

\* Requests, job passes, callbacks, administrators, crashes and lost answers
\* together do nothing but keep the promise made to the wallet's owner: the
\* money is taken once, then sent, or given back once.
THEOREM ThePromiseIsKept ==
  ASSUME AtomicRequest
  PROVE  Spec => KeepsTheContract
<1>1. TypeOK /\ NeverHalfway /\ AccountByStatus /\ [Next]_vars =>
        [Contract!ContractNext]_(Contract!contractVars)
  <2> SUFFICES ASSUME TypeOK, NeverHalfway, AccountByStatus, [Next]_vars
               PROVE  [Contract!ContractNext]_(Contract!contractVars)
    OBVIOUS
  <2>1. CASE UNCHANGED <<status, debits, credits>>
    <3>1. UNCHANGED Contract!contractVars
      BY <2>1 DEF Contract!contractVars, Phase, Open
    <3> QED BY <3>1
  <2> QED BY <2>1, StepsKeepThePromise, PhaseStep
<1> QED BY <1>1, PhaseInit, PromiseInv, PTL DEF Spec, KeepsTheContract, Contract!ContractSpec

=============================================================================
