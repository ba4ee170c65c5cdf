------------------------ MODULE TontineCycle_proofs ------------------------
(***************************************************************************)
(* Proofs about TontineCycle, for any group, any bounds and any number of  *)
(* requests and jobs under way, whatever is lost, whoever stops and        *)
(* whatever overlaps: what the code cannot keep is named by the history.   *)
(***************************************************************************)
EXTENDS TontineCycle, FiniteSetTheorems, WellFoundedInduction, TLAPS

USE DEF group, members, cycles, shares, hands, Step

-----------------------------------------------------------------------------
(* The steps, and the hands of the workers.                                *)

Acts(k) == (Ask(k) /\ UNCHANGED history) \/ Step(k) \/ Stop(k)

LEMMA NextIs ==
  [Next]_vars <=> \/ UNCHANGED vars
                  \/ \E k \in Workers : Acts(k)
                  \/ \E c \in Cycles, p \in People : ClaimRunsOut(c, p)
BY DEF Next, Acts

LEMMA StepsAre ==
  /\ PaySteps = {"claim", "transfer", "mark", "count", "close", "end", "next", "open", "bill",
                 "advance", "release"}
  /\ PeopleSteps = {"insert", "reinvite", "delete", "refuse", "accept", "widen", "join",
                    "backfill", "draw", "place", "first", "billFirst"}
  /\ Steps = PaySteps \cup PeopleSteps \cup {"idle", "overdue"}
BY DEF PaySteps, PeopleSteps, Steps

LEMMA Bounds ==
  /\ Rounds \in Nat /\ 0 \in 0..Rounds
  /\ Cycles = 1..Rounds /\ Cycles \subseteq 0..Rounds /\ 1 \in Cycles
  /\ Nobody \notin People
BY TontineAssumption DEF Cycles

\* The steps that are about one member, those of the draw, those that close.
Asking  == {"insert", "reinvite", "delete", "refuse", "accept", "widen", "join", "backfill"}
Drawing == {"draw", "place", "first", "billFirst"}
Closing == {"end", "next", "open", "bill", "advance"}

TableTypes ==
  /\ status \in {"forming", "active", "completed"}
  /\ current \in 0..Rounds /\ seats \in 0..Rounds
  /\ member \in [People -> {"none", "invited", "active", "declined"}]
  /\ position \in [People -> 0..Rounds]
  /\ cycle \in [Cycles -> {"none", "active", "completed"}]
  /\ recipient \in [Cycles -> People \cup {Nobody}]

ShareTypes ==
  /\ due \in [Cycles -> [People -> {"none", "pending", "overdue", "paid"}]]
  /\ claimed \in [Cycles -> [People -> BOOLEAN]]
  /\ moved \in [Cycles -> [People -> 0..MaxMoved]]

HandTypes ==
  /\ pc \in [Workers -> Steps]
  /\ who \in [Workers -> People \cup {Nobody}]
  /\ of \in [Workers -> 0..Rounds]
  /\ room \in [Workers -> 0..Rounds]
  /\ seat \in [Workers -> 0..Rounds]
  /\ team \in [Workers -> SUBSET People] /\ left \in [Workers -> SUBSET People]
  /\ next \in [Workers -> People \cup {Nobody}]

HistoryTypes ==
  /\ lost \subseteq Cycles \X People /\ late \subseteq Cycles \X People
  /\ guessed \subseteq Cycles /\ vacant \subseteq Cycles /\ stale \in BOOLEAN

LEMMA TypesAre ==
  /\ TypeOK <=> TableTypes /\ ShareTypes /\ HandTypes /\ HistoryTypes
  /\ TypeOK' <=> TableTypes' /\ ShareTypes' /\ HandTypes' /\ HistoryTypes'
BY DEF TypeOK, TableTypes, ShareTypes, HandTypes, HistoryTypes

\* What a worker holds at each step.
InHand(k) ==
  /\ pc[k] \in PaySteps \cup {"overdue", "backfill"} => of[k] \in Cycles
  /\ pc[k] \in PaySteps \cup Asking \cup {"overdue"} => who[k] \in People
  /\ pc[k] \in PaySteps \cup {"overdue"} => due[of[k]][who[k]] # "none"
  /\ pc[k] \in Closing \ {"end"} => of[k] < room[k]
  /\ pc[k] \in {"first", "billFirst", "open", "bill"} => next[k] \in People
  /\ pc[k] \in Drawing => of[k] = 0
  /\ At(k, "draw") => seat[k] = 0
  /\ At(k, "place") /\ seat[k] > 0 => next[k] \in People
  /\ pc[k] \in {"draw", "place"} => seat[k] + Cardinality(left[k]) <= Rounds

HandsInv == TypeOK /\ \A k \in Workers : InHand(k)

\* The other workers keep what they hold.
Others(k) ==
  \A l \in Workers \ {k} :
    /\ pc'[l] = pc[l] /\ who'[l] = who[l] /\ of'[l] = of[l] /\ room'[l] = room[l]
    /\ seat'[l] = seat[l] /\ team'[l] = team[l] /\ left'[l] = left[l] /\ next'[l] = next[l]

LEMMA BeginIs ==
  ASSUME HandTypes, seats \in 0..Rounds, NEW k \in Workers, NEW step \in Steps,
         NEW p \in People, NEW c \in 0..Rounds, Begin(k, step, p, c)
  PROVE  /\ HandTypes' /\ Others(k)
         /\ pc[k] = "idle"
         /\ pc'[k] = step /\ who'[k] = p /\ of'[k] = c /\ room'[k] = seats
BY Bounds DEF Begin, HandTypes, Others, At

LEMMA FinishIs ==
  ASSUME HandTypes, NEW k \in Workers, Finish(k)
  PROVE  HandTypes' /\ Others(k) /\ pc'[k] = "idle"
BY Bounds, StepsAre DEF Finish, HandTypes, Others

LEMMA GotoIs ==
  ASSUME HandTypes, NEW k \in Workers, NEW step \in Steps, Goto(k, step)
  PROVE  HandTypes' /\ Others(k) /\ pc'[k] = step
         /\ UNCHANGED <<who, of, room, seat, team, left, next>>
BY DEF Goto, HandTypes, Others

\* A request begins with the rows as it found them.
LEMMA AskIs ==
  ASSUME TypeOK, NEW k \in Workers, Ask(k)
  PROVE  /\ UNCHANGED <<group, members, cycles, shares>>
         /\ \/ drawOrder(k)
            \/ \E p \in People, c \in 0..Rounds,
                  step \in {"insert", "reinvite", "delete", "refuse", "accept", "widen",
                            "claim", "overdue"} :
                 /\ Begin(k, step, p, c)
                 /\ step = "insert" => member[p] = "none"
                 /\ step = "reinvite" => member[p] = "declined"
                 /\ step \in {"delete", "refuse", "accept", "widen"} => member[p] = "invited"
                 /\ step = "widen" => status = "active" /\ c = current
                 /\ step = "claim" => c \in Cycles /\ c = current /\ due[c][p] # "none"
                 /\ step = "overdue" => c \in Cycles /\ due[c][p] # "none"
<1> USE TypesAre DEF TableTypes, ShareTypes
<1>0. 0 \in 0..Rounds /\ Cycles \subseteq 0..Rounds
  BY Bounds
<1>1. ASSUME NEW p \in People, inviteMember(k, p) \/ cancelInvite(k, p) \/ respondToInvite(k, p)
      PROVE  /\ UNCHANGED <<group, members, cycles, shares>>
             /\ \E c \in 0..Rounds,
                   step \in {"insert", "reinvite", "delete", "refuse", "accept", "widen"} :
                  /\ Begin(k, step, p, c)
                  /\ step = "insert" => member[p] = "none"
                  /\ step = "reinvite" => member[p] = "declined"
                  /\ step \in {"delete", "refuse", "accept", "widen"} => member[p] = "invited"
                  /\ step = "widen" => status = "active" /\ c = current
  BY <1>0, <1>1 DEF inviteMember, cancelInvite, respondToInvite
<1>2. ASSUME NEW p \in People, contribute(k, p) \/ runAutoPayments(k, p)
      PROVE  /\ UNCHANGED <<group, members, cycles, shares>>
             /\ Begin(k, "claim", p, current) /\ current \in Cycles /\ due[current][p] # "none"
  BY <1>2 DEF contribute, runAutoPayments, Owing
<1>3. ASSUME NEW p \in People, NEW c \in Cycles, escalateOverdue(k, c, p)
      PROVE  /\ UNCHANGED <<group, members, cycles, shares>>
             /\ Begin(k, "overdue", p, c) /\ due[c][p] # "none"
  BY <1>3 DEF escalateOverdue
<1>4. CASE drawOrder(k)
  BY <1>4 DEF drawOrder
<1>5. CASE \E p \in People : inviteMember(k, p) \/ cancelInvite(k, p) \/ respondToInvite(k, p)
  BY <1>1, <1>5
<1>6. CASE \E p \in People : contribute(k, p) \/ runAutoPayments(k, p)
  <2>1. PICK p \in People : contribute(k, p) \/ runAutoPayments(k, p)
    BY <1>6
  <2>2. current \in 0..Rounds
    OBVIOUS
  <2> QED BY <1>2, <2>1, <2>2
<1>7. CASE \E p \in People, c \in Cycles : escalateOverdue(k, c, p)
  <2>1. PICK p \in People, c \in Cycles : escalateOverdue(k, c, p)
    BY <1>7
  <2>2. c \in 0..Rounds
    BY <1>0
  <2> QED BY <1>3, <2>1, <2>2
<1> QED BY <1>4, <1>5, <1>6, <1>7 DEF Ask

-----------------------------------------------------------------------------
(* Numbers: the last position of the queue, and the members left to place. *)

LEMMA LeastOfNaturals ==
  ASSUME NEW S \in SUBSET Nat, S # {}
  PROVE  \E n \in S : \A i \in S : n <= i
<1> DEFINE R == {p \in Nat \X Nat : p[1] < p[2]}
<1>1. IsWellFoundedOn(R, Nat)
  BY NatLessThanWellFounded, Zenon DEF OpToRel
<1>2. \A i, j \in Nat : i < j => <<i, j>> \in R
  OBVIOUS
<1> HIDE DEF R
<1>3. PICK n \in S : \A i \in S : ~ (<<i, n>> \in R)
  BY <1>1, WFMin
<1>4. ASSUME NEW i \in S  PROVE n <= i
  <2>1. ~ (i < n)
    BY <1>2, <1>3
  <2> QED BY <2>1
<1> QED BY <1>4

LEMMA LastIs ==
  ASSUME TypeOK
  PROVE  /\ LastPosition \in 0..Rounds
         /\ \A p \in People : position[p] <= LastPosition
         /\ LastPosition = 0 \/ \E p \in People : position[p] = LastPosition
<1> DEFINE above == {n \in 0..Rounds : \A p \in People : position[p] <= n}
<1>0. Rounds \in Nat /\ position \in [People -> 0..Rounds]
  BY TontineAssumption, TypesAre DEF TableTypes
<1>1. PICK n \in above : \A i \in above : n <= i
  <2>1. Rounds \in above /\ above \in SUBSET Nat
    BY <1>0
  <2> HIDE DEF above
  <2> QED BY <2>1, LeastOfNaturals
<1>2. n = 0 \/ \E p \in People : position[p] = n
  <2> SUFFICES ASSUME n # 0, \A p \in People : position[p] # n  PROVE FALSE
    OBVIOUS
  <2>1. n \in 0..Rounds /\ \A p \in People : position[p] <= n
    OBVIOUS
  <2>2. n - 1 \in 0..Rounds
    BY <1>0, <2>1
  <2>3. \A p \in People : position[p] <= n - 1
    BY <1>0, <2>1
  <2>4. n - 1 \in above
    BY <2>2, <2>3
  <2>5. n <= n - 1
    BY <1>1, <2>4
  <2> QED BY <1>0, <2>1, <2>5
<1>3. /\ n \in 0..Rounds
      /\ \A p \in People : position[p] <= n
      /\ n = 0 \/ \E p \in People : position[p] = n
  BY <1>2
<1> HIDE DEF above
<1> QED BY <1>3 DEF LastPosition

LEMMA TeamsAreFinite ==
  ASSUME NEW T \in SUBSET People
  PROVE  /\ IsFiniteSet(T) /\ Cardinality(T) \in Nat
         /\ \A p \in T : Cardinality(T \ {p}) = Cardinality(T) - 1
         /\ T # {} => Cardinality(T) > 0
<1>1. IsFiniteSet(T)
  BY TontineAssumption, FS_Subset
<1>2. Cardinality(T) \in Nat /\ (Cardinality(T) = 0 <=> T = {})
  BY <1>1, FS_CardinalityType, FS_EmptySet
<1>3. \A p \in T : Cardinality(T \ {p}) = Cardinality(T) - 1
  BY <1>1, FS_RemoveElement
<1> QED BY <1>1, <1>2, <1>3

-----------------------------------------------------------------------------
(* What a step may change.                                                 *)

\* The step a worker takes is the one it was about to take.
LEMMA StepAt ==
  ASSUME NEW k \in Workers, Work(k)
  PROVE  /\ pc[k] \in Steps \ {"idle"}
         /\ pc[k] = "insert" => InsertMember(k)
         /\ pc[k] = "reinvite" => Reinvite(k)
         /\ pc[k] = "delete" => DeleteMember(k)
         /\ pc[k] = "refuse" => Refuse(k)
         /\ pc[k] = "accept" => Accept(k)
         /\ pc[k] = "widen" => Widen(k)
         /\ pc[k] = "join" => Join(k)
         /\ pc[k] = "backfill" => Backfill(k)
         /\ pc[k] = "draw" => ClaimDraw(k)
         /\ pc[k] = "place" => \E p \in People : Place(k, p)
         /\ pc[k] = "first" => FirstCycle(k)
         /\ pc[k] = "billFirst" => FirstBill(k)
         /\ pc[k] = "claim" => claimContribution(k)
         /\ pc[k] = "transfer" => transfer(k)
         /\ pc[k] = "mark" => MarkPaid(k)
         /\ pc[k] = "release" => releaseContribution(k)
         /\ pc[k] = "count" => CountOwing(k)
         /\ pc[k] = "close" => CompleteCycle(k)
         /\ pc[k] = "end" => CompleteGroup(k)
         /\ pc[k] = "next" => NextRecipient(k)
         /\ pc[k] = "open" => NextCycle(k)
         /\ pc[k] = "bill" => NextBill(k)
         /\ pc[k] = "advance" => AdvanceGroup(k)
         /\ pc[k] = "overdue" => MarkOverdue(k)
<1> USE StepsAre DEF At
<1>1. CASE \/ InsertMember(k) \/ Reinvite(k) \/ DeleteMember(k) \/ Refuse(k) \/ Accept(k)
           \/ Widen(k) \/ Join(k) \/ Backfill(k)
  BY <1>1 DEF InsertMember, Reinvite, DeleteMember, Refuse, Accept, Widen, Join, Backfill
<1>2. CASE ClaimDraw(k) \/ (\E p \in People : Place(k, p)) \/ FirstCycle(k) \/ FirstBill(k)
  BY <1>2 DEF ClaimDraw, Place, FirstCycle, FirstBill
<1>3. CASE claimContribution(k) \/ transfer(k) \/ MarkPaid(k) \/ releaseContribution(k)
  BY <1>3 DEF claimContribution, transfer, MarkPaid, releaseContribution
<1>4. CASE CountOwing(k) \/ CompleteCycle(k) \/ CompleteGroup(k) \/ NextRecipient(k)
  BY <1>4 DEF CountOwing, CompleteCycle, CompleteGroup, NextRecipient
<1>5. CASE NextCycle(k) \/ NextBill(k) \/ AdvanceGroup(k) \/ MarkOverdue(k)
  BY <1>5 DEF NextCycle, NextBill, AdvanceGroup, MarkOverdue
<1> QED BY <1>1, <1>2, <1>3, <1>4, <1>5 DEF Work

\* Which steps touch which rows.
LEMMA Touched ==
  ASSUME NEW k \in Workers, Acts(k)
  PROVE  /\ pc[k] \notin {"insert", "reinvite", "delete", "refuse", "accept", "join"} =>
              UNCHANGED member
         /\ pc[k] \notin {"delete", "join", "place"} => UNCHANGED position
         /\ pc[k] # "widen" => UNCHANGED seats
         /\ pc[k] \notin {"draw", "end"} => UNCHANGED status
         /\ pc[k] \notin {"draw", "advance"} => UNCHANGED current
         /\ pc[k] \notin {"first", "open", "close"} => UNCHANGED cycles
         /\ pc[k] \notin {"billFirst", "bill", "mark", "backfill", "overdue"} => UNCHANGED due
         /\ pc[k] \notin {"claim", "release"} => UNCHANGED claimed
         /\ pc[k] # "transfer" => UNCHANGED moved
<1>1. CASE Ask(k)
  BY <1>1 DEF Ask, inviteMember, cancelInvite, respondToInvite, contribute, runAutoPayments,
     escalateOverdue, drawOrder
<1>2. CASE Stop(k)
  BY <1>2 DEF Stop
<1>3. CASE Work(k)
  <2> USE DEF At
  <2>1. CASE \/ InsertMember(k) \/ Reinvite(k) \/ DeleteMember(k) \/ Refuse(k) \/ Accept(k)
             \/ Widen(k) \/ Join(k) \/ Backfill(k)
    BY <2>1 DEF InsertMember, Reinvite, DeleteMember, Refuse, Accept, Answered, Widen, Join,
       Backfill
  <2>2. CASE ClaimDraw(k) \/ (\E p \in People : Place(k, p)) \/ FirstCycle(k) \/ FirstBill(k)
    BY <2>2 DEF ClaimDraw, Place, FirstCycle, FirstBill, createCycle, generateContributions
  <2>3. CASE claimContribution(k) \/ transfer(k) \/ MarkPaid(k) \/ releaseContribution(k)
    BY <2>3 DEF claimContribution, transfer, MarkPaid, releaseContribution
  <2>4. CASE CountOwing(k) \/ CompleteCycle(k) \/ CompleteGroup(k) \/ NextRecipient(k)
    BY <2>4 DEF CountOwing, CompleteCycle, CompleteGroup, NextRecipient
  <2>5. CASE NextCycle(k) \/ NextBill(k) \/ AdvanceGroup(k) \/ MarkOverdue(k)
    BY <2>5 DEF NextCycle, NextBill, AdvanceGroup, MarkOverdue, createCycle, generateContributions
  <2> QED BY <1>3, <2>1, <2>2, <2>3, <2>4, <2>5 DEF Work
<1> QED BY <1>1, <1>2, <1>3 DEF Acts

\* How the shares move: a share comes into being pending, and is only written by
\* the worker whose share it is.
LEMMA DueMoves ==
  ASSUME HandsInv, NEW k \in Workers, Acts(k)
  PROVE  /\ due' \in [Cycles -> [People -> {"none", "pending", "overdue", "paid"}]]
         /\ \A c \in Cycles, p \in People :
              \/ due'[c][p] = due[c][p]
              \/ /\ due[c][p] = "none" /\ due'[c][p] = "pending"
                 /\ \/ pc[k] = "backfill" /\ of[k] = c /\ who[k] = p
                    \/ pc[k] \in {"billFirst", "bill"} /\ c = of[k] + 1
              \/ pc[k] = "mark" /\ of[k] = c /\ who[k] = p /\ due'[c][p] = "paid"
              \/ /\ pc[k] = "overdue" /\ of[k] = c /\ who[k] = p
                 /\ due[c][p] \notin {"none", "paid"} /\ due'[c][p] = "overdue"
<1>0. /\ due \in [Cycles -> [People -> {"none", "pending", "overdue", "paid"}]]
      /\ HandTypes /\ InHand(k)
  BY TypesAre DEF HandsInv, ShareTypes
<1>1. CASE pc[k] \notin {"billFirst", "bill", "mark", "backfill", "overdue"} \/ ~ Work(k)
  <2>1. UNCHANGED due
    <3>1. CASE Ask(k)
      BY <3>1, AskIs DEF HandsInv
    <3>2. CASE Stop(k)
      BY <3>2 DEF Stop
    <3> QED BY <1>1, <3>1, <3>2, Touched DEF Acts
  <2> QED BY <1>0, <2>1
<1>2. CASE Work(k) /\ pc[k] \in {"mark", "backfill", "overdue"}
  <2>1. of[k] \in Cycles /\ who[k] \in People /\ (pc[k] = "overdue" => due[of[k]][who[k]] # "none")
    BY <1>0, <1>2, StepsAre DEF InHand, Asking
  <2>2. PICK s \in {"pending", "overdue", "paid"} :
          /\ UNCHANGED due \/ SetDue(of[k], who[k], s)
          /\ UNCHANGED due \/ \/ /\ pc[k] = "backfill" /\ s = "pending"
                                 /\ due[of[k]][who[k]] = "none"
                              \/ pc[k] = "mark" /\ s = "paid"
                              \/ /\ pc[k] = "overdue" /\ s = "overdue"
                                 /\ due[of[k]][who[k]] # "paid"
    BY <1>2, StepAt DEF Backfill, MarkPaid, MarkOverdue
  <2> QED BY <1>0, <2>1, <2>2 DEF SetDue
<1>3. CASE Work(k) /\ pc[k] \in {"billFirst", "bill"}
  <2>1. /\ of[k] \in 0..Rounds /\ team[k] \subseteq People
        /\ UNCHANGED due
           \/ /\ \A p \in team[k] \ {next[k]} : due[of[k] + 1][p] = "none"
              /\ due' = [due EXCEPT ![of[k] + 1] = [p \in People |->
                           IF p \in team[k] \ {next[k]} THEN "pending" ELSE @[p]]]
    BY <1>0, <1>3, StepAt DEF FirstBill, NextBill, generateContributions, HandTypes
  <2> QED BY <1>0, <1>3, <2>1
<1> QED BY <1>1, <1>2, <1>3

\* How the cycles move: the worker that closes one, and the two that open one.
LEMMA CycleMoves ==
  ASSUME HandsInv, NEW k \in Workers, Acts(k)
  PROVE  /\ cycle' \in [Cycles -> {"none", "active", "completed"}]
         /\ recipient' \in [Cycles -> People \cup {Nobody}]
         /\ \/ UNCHANGED cycles
            \/ /\ pc[k] = "close" /\ CompleteCycle(k) /\ of[k] \in Cycles
               /\ cycle'[of[k]] = "completed"
               /\ \A c \in Cycles \ {of[k]} : cycle'[c] = cycle[c]
               /\ UNCHANGED recipient
            \/ /\ pc[k] \in {"first", "open"} /\ Work(k) /\ of[k] + 1 \in Cycles
               /\ pc'[k] = IF pc[k] = "first" THEN "billFirst" ELSE "bill"
               /\ cycle[of[k] + 1] = "none" /\ member[next[k]] # "none"
               /\ cycle'[of[k] + 1] = "active" /\ recipient'[of[k] + 1] = next[k]
               /\ \A c \in Cycles \ {of[k] + 1} :
                    cycle'[c] = cycle[c] /\ recipient'[c] = recipient[c]
<1>0. TableTypes /\ HandTypes /\ InHand(k)
  BY TypesAre DEF HandsInv
<1>1. CASE pc[k] \notin {"first", "open", "close"} \/ ~ Work(k)
  <2>1. UNCHANGED cycles
    <3>1. CASE Ask(k)
      BY <3>1, AskIs DEF HandsInv
    <3>2. CASE Stop(k)
      BY <3>2 DEF Stop
    <3> QED BY <1>1, <3>1, <3>2, Touched DEF Acts
  <2> QED BY <1>0, <2>1 DEF TableTypes
<1>2. CASE Work(k) /\ pc[k] = "close"
  <2>1. of[k] \in Cycles /\ CompleteCycle(k)
    BY <1>0, <1>2, StepAt, StepsAre DEF InHand
  <2> QED BY <1>0, <1>2, <2>1 DEF CompleteCycle, TableTypes
<1>3. CASE Work(k) /\ pc[k] \in {"first", "open"}
  <2>1. of[k] + 1 \in Cycles /\ next[k] \in People
    <3>1. next[k] \in People /\ of[k] \in 0..Rounds /\ room[k] \in 0..Rounds
      BY <1>0, <1>3 DEF InHand, HandTypes
    <3>2. of[k] = 0 \/ of[k] < room[k]
      BY <1>0, <1>3 DEF InHand, Drawing, Closing
    <3> QED BY <3>1, <3>2, Bounds
  <2>2. \/ UNCHANGED cycles
        \/ /\ cycle[of[k] + 1] = "none" /\ member[next[k]] # "none"
           /\ cycle' = [cycle EXCEPT ![of[k] + 1] = "active"]
           /\ recipient' = [recipient EXCEPT ![of[k] + 1] = next[k]]
           /\ Goto(k, IF pc[k] = "first" THEN "billFirst" ELSE "bill")
    BY <1>3, StepAt DEF FirstCycle, NextCycle, createCycle
  <2>3. \A s : Goto(k, s) => pc'[k] = s
    BY <1>0 DEF Goto, HandTypes
  <2> QED BY <1>0, <1>3, <2>1, <2>2, <2>3 DEF TableTypes
<1> QED BY <1>1, <1>2, <1>3

-----------------------------------------------------------------------------
(* HandsInv is inductive, whatever is lost and whoever stops.              *)

\* A step of the draw: one member fewer to place.
LEMMA PlaceIs ==
  ASSUME HandsInv, NEW k \in Workers, NEW p \in People, Place(k, p)
  PROVE  /\ pc[k] = "place" /\ p \in left[k]
         /\ HandTypes' /\ Others(k)
         /\ of'[k] = of[k] /\ left'[k] = left[k] \ {p} /\ seat'[k] = seat[k] + 1
         /\ seat'[k] + Cardinality(left'[k]) = seat[k] + Cardinality(left[k])
         /\ next'[k] = IF seat[k] = 0 THEN p ELSE next[k]
         /\ pc'[k] = IF left[k] = {p} THEN "first" ELSE "place"
<1>1. HandTypes /\ seat[k] + Cardinality(left[k]) <= Rounds /\ p \in left[k] /\ pc[k] = "place"
  BY TypesAre DEF HandsInv, InHand, Place, At
<1>2. /\ Cardinality(left[k]) \in Nat /\ Cardinality(left[k] \ {p}) = Cardinality(left[k]) - 1
      /\ Cardinality(left[k]) > 0
  BY <1>1, TeamsAreFinite DEF HandTypes
<1>3. seat[k] + 1 \in 0..Rounds
  BY <1>1, <1>2, Bounds DEF HandTypes
<1>4. left[k] \ {p} \in SUBSET People /\ seat[k] \in Nat
  BY <1>1, Bounds DEF HandTypes
<1>5. /\ left'[k] = left[k] \ {p} /\ seat'[k] = seat[k] + 1 /\ of' = of
      /\ next'[k] = IF seat[k] = 0 THEN p ELSE next[k]
      /\ pc'[k] = IF left[k] = {p} THEN "first" ELSE "place"
      /\ Others(k)
  BY <1>1 DEF Place, HandTypes, Others
<1>6. HandTypes'
  BY <1>1, <1>3, <1>4, StepsAre DEF Place, HandTypes
<1>7. seat'[k] + Cardinality(left'[k]) = seat[k] + Cardinality(left[k])
  BY <1>2, <1>4, <1>5
<1> QED BY <1>1, <1>5, <1>6, <1>7

LEMMA DrawIs ==
  ASSUME TypeOK, NEW k \in Workers, drawOrder(k)
  PROVE  /\ pc[k] = "idle" /\ status = "forming"
         /\ UNCHANGED <<group, members, cycles, shares>>
         /\ HandTypes' /\ Others(k)
         /\ pc'[k] = "draw" /\ of'[k] = 0 /\ seat'[k] = 0
         /\ left'[k] = Active /\ Cardinality(Active) = seats /\ seats <= Rounds
<1> USE TypesAre DEF TableTypes
<1>1. Active \in SUBSET People
  BY DEF Active
<1>2. /\ pc[k] = "idle" /\ status = "forming"
      /\ UNCHANGED <<group, members, cycles, shares>>
  BY DEF drawOrder, At
<1>3. HandTypes' /\ Others(k)
  BY <1>1, Bounds, StepsAre DEF drawOrder, HandTypes, Others
<1>4. pc'[k] = "draw" /\ of'[k] = 0 /\ seat'[k] = 0 /\ left'[k] = Active
  BY DEF drawOrder, HandTypes
<1>5. Cardinality(Active) = seats /\ seats <= Rounds
  BY Bounds DEF drawOrder
<1> QED BY <1>2, <1>3, <1>4, <1>5

\* The hands of the worker that takes a step.
LEMMA ActorHands ==
  ASSUME HandsInv, NEW k \in Workers, Acts(k)
  PROVE  HandTypes' /\ Others(k) /\ InHand(k)'
<1> USE StepsAre DEF Asking, Drawing, Closing, At
<1>0. /\ TableTypes /\ HandTypes /\ ShareTypes /\ InHand(k) /\ TypeOK
      /\ seats \in 0..Rounds
  BY TypesAre DEF HandsInv, TableTypes
\* A step of a member that ends, and one that goes on with the same member.
<1>1. ASSUME Finish(k)  PROVE HandTypes' /\ Others(k) /\ InHand(k)'
  BY <1>0, <1>1, FinishIs DEF InHand
<1>2. ASSUME NEW s \in PaySteps \ {"next", "open", "bill", "advance"}, Goto(k, s),
             pc[k] \in PaySteps
      PROVE  HandTypes' /\ Others(k) /\ InHand(k)'
  <2>1. HandTypes' /\ Others(k) /\ pc'[k] = s /\ of'[k] = of[k] /\ who'[k] = who[k]
    BY <1>0, <1>2, GotoIs
  <2>2. of[k] \in Cycles /\ who[k] \in People /\ due[of[k]][who[k]] # "none"
    BY <1>0, <1>2 DEF InHand
  <2>3. due'[of[k]][who[k]] # "none"
    BY <2>2, DueMoves
  <2> QED BY <1>2, <2>1, <2>2, <2>3 DEF InHand
<1>3. CASE Ask(k)
  <2>1. CASE drawOrder(k)
    BY <1>0, <2>1, DrawIs, Bounds DEF InHand
  <2>2. ASSUME NEW p \in People, NEW c \in 0..Rounds,
               NEW step \in {"insert", "reinvite", "delete", "refuse", "accept", "widen",
                             "claim", "overdue"},
               Begin(k, step, p, c), UNCHANGED due,
               step \in {"claim", "overdue"} => c \in Cycles /\ due[c][p] # "none"
        PROVE  HandTypes' /\ Others(k) /\ InHand(k)'
    <3>1. HandTypes' /\ Others(k) /\ pc'[k] = step /\ who'[k] = p /\ of'[k] = c
      BY <1>0, <2>2, BeginIs
    <3> QED BY <2>2, <3>1 DEF InHand
  <2> QED BY <1>0, <1>3, <2>1, <2>2, AskIs
<1>4. CASE Stop(k)
  BY <1>1, <1>4 DEF Stop
<1>5. CASE Work(k) /\ pc[k] \in {"insert", "reinvite", "delete", "refuse", "accept", "backfill",
                                 "billFirst", "end", "advance", "release", "overdue"}
  <2>1. Finish(k)
    BY <1>5, StepAt DEF InsertMember, Reinvite, DeleteMember, Refuse, Accept, Answered, Backfill,
       FirstBill, generateContributions, CompleteGroup, AdvanceGroup, releaseContribution,
       MarkOverdue
  <2> QED BY <1>1, <2>1
<1>6. CASE Work(k) /\ pc[k] \in {"claim", "transfer", "mark", "count"}
  <2>1. Finish(k) \/ \E s \in {"transfer", "mark", "count", "close", "release"} : Goto(k, s)
    BY <1>6, StepAt DEF claimContribution, transfer, MarkPaid, CountOwing, Fail
  <2> QED BY <1>1, <1>2, <1>6, <2>1
<1>7. CASE Work(k) /\ pc[k] = "widen"
  <2>1. LastPosition \in Nat /\ LastPosition + 1 \in 0..Rounds
    BY <1>0, <1>7, StepAt, LastIs, Bounds DEF Widen
  <2>2. HandTypes' /\ Others(k) /\ pc'[k] = "join" /\ who'[k] = who[k]
    BY <1>0, <1>7, <2>1, StepAt DEF Widen, HandTypes, Others
  <2> QED BY <1>0, <1>7, <2>2 DEF InHand
<1>8. CASE Work(k) /\ pc[k] = "join"
  <2>1. Finish(k) \/ (Goto(k, "backfill") /\ of[k] \in Cycles)
    BY <1>8, StepAt DEF Join
  <2>2. CASE Goto(k, "backfill") /\ of[k] \in Cycles
    BY <1>0, <1>8, <2>2, GotoIs DEF InHand
  <2> QED BY <1>1, <2>1, <2>2
<1>9. CASE Work(k) /\ pc[k] = "draw"
  <2>1. Finish(k) \/ Goto(k, "place")
    BY <1>9, StepAt DEF ClaimDraw
  <2>2. CASE Goto(k, "place")
    BY <1>0, <1>9, <2>2, GotoIs DEF InHand
  <2> QED BY <1>1, <2>1, <2>2
<1>10. CASE Work(k) /\ pc[k] = "place"
  <2>1. PICK p \in People : Place(k, p)
    BY <1>10, StepAt
  <2>2. /\ HandTypes' /\ Others(k) /\ of'[k] = of[k]
        /\ next'[k] = IF seat[k] = 0 THEN p ELSE next[k]
        /\ pc'[k] = IF left[k] = {p} THEN "first" ELSE "place"
        /\ seat'[k] + Cardinality(left'[k]) = seat[k] + Cardinality(left[k])
    BY <2>1, PlaceIs
  <2>3. next'[k] \in People
    BY <1>0, <1>10, <2>2, Bounds DEF InHand, HandTypes
  <2> QED BY <1>0, <1>10, <2>2, <2>3 DEF InHand
<1>11. CASE Work(k) /\ pc[k] = "first"
  <2>1. Finish(k) \/ Goto(k, "billFirst")
    BY <1>11, StepAt DEF FirstCycle, createCycle
  <2>2. CASE Goto(k, "billFirst")
    BY <1>0, <1>11, <2>2, GotoIs DEF InHand
  <2> QED BY <1>1, <2>1, <2>2
<1>12. CASE Work(k) /\ pc[k] = "close"
  <2>1. Goto(k, IF of[k] >= room[k] THEN "end" ELSE "next")
    BY <1>12, StepAt DEF CompleteCycle
  <2>2. CASE of[k] >= room[k]
    BY <1>2, <1>12, <2>1, <2>2
  <2>3. CASE ~ (of[k] >= room[k])
    <3>1. of[k] < room[k]
      BY <1>0, <2>3, Bounds DEF HandTypes
    <3>2. /\ HandTypes' /\ Others(k) /\ pc'[k] = "next" /\ of'[k] = of[k] /\ room'[k] = room[k]
          /\ who'[k] = who[k]
      BY <1>0, <2>1, <2>3, GotoIs
    <3>3. due'[of[k]][who[k]] # "none"
      BY <1>0, <1>12, DueMoves DEF InHand
    <3> QED BY <1>0, <1>12, <3>1, <3>2, <3>3 DEF InHand
  <2> QED BY <2>2, <2>3
<1>13. CASE Work(k) /\ pc[k] \in {"next", "open", "bill"}
  <2>1. \/ Goto(k, "release")
        \/ pc[k] = "open" /\ Goto(k, "bill")
        \/ pc[k] = "bill" /\ Goto(k, "advance")
        \/ /\ pc[k] = "next"
           /\ \E p \in People : next' = [next EXCEPT ![k] = p]
           /\ team' = [team EXCEPT ![k] = Active]
           /\ pc' = [pc EXCEPT ![k] = "open"] /\ UNCHANGED <<who, of, room, seat, left>>
    BY <1>13, StepAt DEF NextRecipient, NextCycle, NextBill, createCycle, generateContributions,
       Fail
  <2>2. due'[of[k]][who[k]] # "none"
    BY <1>0, <1>13, DueMoves DEF InHand
  <2>3. CASE Goto(k, "release")
    BY <1>2, <1>13, <2>3
  <2>4. CASE \E s \in {"bill", "advance"} :
               Goto(k, s) /\ (s = "bill" => pc[k] = "open") /\ (s = "advance" => pc[k] = "bill")
    <3>1. PICK s \in {"bill", "advance"} :
            Goto(k, s) /\ (s = "bill" => pc[k] = "open") /\ (s = "advance" => pc[k] = "bill")
      BY <2>4
    <3>2. /\ HandTypes' /\ Others(k) /\ pc'[k] = s
          /\ UNCHANGED <<who, of, room, next>>
      BY <1>0, <3>1, GotoIs
    <3> QED BY <1>0, <1>13, <2>2, <3>1, <3>2 DEF InHand
  <2>5. CASE /\ pc[k] = "next"
             /\ \E p \in People : next' = [next EXCEPT ![k] = p]
             /\ team' = [team EXCEPT ![k] = Active]
             /\ pc' = [pc EXCEPT ![k] = "open"] /\ UNCHANGED <<who, of, room, seat, left>>
    <3>1. PICK p \in People : next' = [next EXCEPT ![k] = p]
      BY <2>5
    <3>2. Active \in SUBSET People
      BY DEF Active
    <3>3. HandTypes' /\ Others(k)
      BY <1>0, <2>5, <3>1, <3>2 DEF HandTypes, Others
    <3>4. pc'[k] = "open" /\ next'[k] = p
      BY <1>0, <2>5, <3>1 DEF HandTypes
    <3> QED BY <1>0, <2>2, <2>5, <3>3, <3>4 DEF InHand
  <2> QED BY <2>1, <2>3, <2>4, <2>5
<1> QED
  <2>1. pc[k] \in Steps
    BY <1>0 DEF HandTypes
  <2>2. Work(k) => pc[k] # "idle"
    BY StepAt
  <2> QED BY <1>3, <1>4, <1>5, <1>6, <1>7, <1>8, <1>9, <1>10, <1>11, <1>12, <1>13, <2>1, <2>2
          DEF Acts

LEMMA TableStep ==
  ASSUME HandsInv, NEW k \in Workers, Acts(k)
  PROVE  TableTypes' /\ ShareTypes'
<1> USE StepsAre DEF TableTypes
<1>0. TableTypes /\ HandTypes /\ ShareTypes /\ InHand(k) /\ TypeOK /\ pc[k] \in Steps
  BY TypesAre DEF HandsInv, HandTypes
<1>1. cycle' \in [Cycles -> {"none", "active", "completed"}]
      /\ recipient' \in [Cycles -> People \cup {Nobody}]
  BY CycleMoves
<1>2. status' \in {"forming", "active", "completed"}
  <2>1. CASE Work(k) /\ pc[k] \in {"draw", "end"}
    BY <1>0, <2>1, StepAt DEF ClaimDraw, CompleteGroup
  <2>2. CASE ~ (Work(k) /\ pc[k] \in {"draw", "end"})
    BY <1>0, <2>2, Touched, AskIs DEF Acts, Stop
  <2> QED BY <2>1, <2>2
<1>3. current' \in 0..Rounds
  <2>1. CASE Work(k) /\ pc[k] = "draw"
    BY <1>0, <2>1, StepAt, Bounds DEF ClaimDraw
  <2>2. CASE Work(k) /\ pc[k] = "advance"
    <3>1. current' = of[k] + 1 /\ of[k] < room[k] /\ of[k] \in 0..Rounds /\ room[k] \in 0..Rounds
      BY <1>0, <2>2, StepAt DEF AdvanceGroup, InHand, Closing, HandTypes
    <3> QED BY <3>1, Bounds
  <2>3. CASE ~ (Work(k) /\ pc[k] \in {"draw", "advance"})
    BY <1>0, <2>3, Touched, AskIs DEF Acts, Stop
  <2> QED BY <2>1, <2>2, <2>3
<1>4. seats' \in 0..Rounds
  <2>1. CASE Work(k) /\ pc[k] = "widen"
    <3>1. seats' = room[k] + 1 /\ room[k] < Rounds /\ room[k] \in 0..Rounds
      BY <1>0, <2>1, StepAt DEF Widen, HandTypes
    <3> QED BY <3>1, Bounds
  <2>2. CASE ~ (Work(k) /\ pc[k] = "widen")
    BY <1>0, <2>2, Touched, AskIs DEF Acts, Stop
  <2> QED BY <2>1, <2>2
<1>5. member' \in [People -> {"none", "invited", "active", "declined"}]
  <2>1. \/ UNCHANGED member
        \/ \E s \in {"none", "invited", "active", "declined"} : SetMember(who[k], s)
    <3>1. CASE Work(k) /\ pc[k] \in {"insert", "reinvite", "delete", "refuse", "accept", "join"}
      BY <3>1, StepAt DEF InsertMember, Reinvite, DeleteMember, Refuse, Accept, Answered, Join
    <3>2. CASE ~ (Work(k) /\ pc[k] \in {"insert", "reinvite", "delete", "refuse", "accept", "join"})
      BY <1>0, <3>2, Touched, AskIs DEF Acts, Stop
    <3> QED BY <3>1, <3>2
  <2> QED BY <1>0, <2>1 DEF SetMember
<1>6. position' \in [People -> 0..Rounds]
  <2>1. CASE Work(k) /\ pc[k] = "place"
    <3>1. PICK p \in People : Place(k, p)
      BY <2>1, StepAt
    <3>2. seat[k] + 1 \in 0..Rounds
      BY <3>1, PlaceIs DEF HandTypes
    <3>3. position' = position \/ position' = [position EXCEPT ![p] = seat[k] + 1]
      BY <3>1 DEF Place
    <3> QED BY <1>0, <3>2, <3>3
  <2>2. CASE Work(k) /\ pc[k] \in {"delete", "join"}
    <3>1. UNCHANGED position \/ \E n \in 0..Rounds : position' = [position EXCEPT ![who[k]] = n]
      BY <1>0, <2>2, StepAt, Bounds DEF DeleteMember, Join, HandTypes
    <3> QED BY <1>0, <3>1
  <2>3. CASE ~ (Work(k) /\ pc[k] \in {"delete", "join", "place"})
    BY <1>0, <2>3, Touched, AskIs DEF Acts, Stop
  <2> QED BY <2>1, <2>2, <2>3
<1>7. claimed' \in [Cycles -> [People -> BOOLEAN]]
  <2>1. UNCHANGED claimed \/ \E b \in BOOLEAN : SetClaim(of[k], who[k], b)
    <3>1. CASE Work(k) /\ pc[k] \in {"claim", "release"}
      BY <3>1, StepAt DEF claimContribution, releaseContribution
    <3>2. CASE ~ (Work(k) /\ pc[k] \in {"claim", "release"})
      BY <1>0, <3>2, Touched, AskIs DEF Acts, Stop
    <3> QED BY <3>1, <3>2
  <2>2. CASE UNCHANGED claimed
    BY <1>0, <2>2 DEF ShareTypes
  <2>3. CASE \E b \in BOOLEAN : claimed' = [claimed EXCEPT ![of[k]][who[k]] = b]
    <3>1. PICK b \in BOOLEAN : claimed' = [claimed EXCEPT ![of[k]][who[k]] = b]
      BY <2>3
    <3>2. \A c \in Cycles : claimed[c] \in [People -> BOOLEAN]
      BY <1>0 DEF ShareTypes
    <3>3. \A c \in Cycles : [claimed[c] EXCEPT ![who[k]] = b] \in [People -> BOOLEAN]
      BY <3>2
    <3>4. claimed' = [claimed EXCEPT ![of[k]] = [claimed[of[k]] EXCEPT ![who[k]] = b]]
      BY <3>1
    <3> QED BY <1>0, <3>3, <3>4 DEF ShareTypes
  <2> QED BY <2>1, <2>2, <2>3 DEF SetClaim
<1>8. moved' \in [Cycles -> [People -> 0..MaxMoved]]
  <2>1. CASE Work(k) /\ pc[k] = "transfer"
    <3>1. of[k] \in Cycles /\ who[k] \in People
      BY <1>0, <2>1 DEF InHand
    <3>2. moved[of[k]][who[k]] \in 0..MaxMoved /\ MaxMoved \in Nat
      BY <1>0, <3>1, TontineAssumption DEF ShareTypes
    <3>3. moved[of[k]][who[k]] < MaxMoved => moved[of[k]][who[k]] + 1 \in 0..MaxMoved
      BY <3>2
    <3>4. \/ UNCHANGED moved
          \/ \E n \in 0..MaxMoved : moved' = [moved EXCEPT ![of[k]][who[k]] = n]
      BY <1>0, <2>1, <3>1, <3>3, StepAt DEF transfer, transfer_wallet, ShareTypes
    <3>5. CASE \E n \in 0..MaxMoved : moved' = [moved EXCEPT ![of[k]][who[k]] = n]
      <4>1. PICK n \in 0..MaxMoved : moved' = [moved EXCEPT ![of[k]][who[k]] = n]
        BY <3>5
      <4>2. [moved[of[k]] EXCEPT ![who[k]] = n] \in [People -> 0..MaxMoved]
        BY <1>0, <3>1 DEF ShareTypes
      <4>3. moved' = [moved EXCEPT ![of[k]] = [moved[of[k]] EXCEPT ![who[k]] = n]]
        BY <4>1
      <4> QED BY <1>0, <4>2, <4>3 DEF ShareTypes
    <3> QED BY <1>0, <3>4, <3>5 DEF ShareTypes
  <2>2. CASE ~ (Work(k) /\ pc[k] = "transfer")
    BY <1>0, <2>2, Touched, AskIs DEF Acts, Stop, ShareTypes
  <2> QED BY <2>1, <2>2
<1> QED BY <1>1, <1>2, <1>3, <1>4, <1>5, <1>6, <1>7, <1>8, DueMoves DEF ShareTypes

\* The history only grows, and speaks of shares and cycles that exist.
LEMMA HistoryIs ==
  ASSUME HandsInv, [Next]_vars
  PROVE  /\ HistoryTypes'
         /\ lost \subseteq lost' /\ late \subseteq late' /\ guessed \subseteq guessed'
         /\ stale => stale'
<1> USE StepsAre
<1>0. HistoryTypes /\ \A k \in Workers : InHand(k)
  BY TypesAre DEF HandsInv
<1>1. ASSUME NEW k \in Workers, Step(k)
      PROVE  /\ HistoryTypes'
             /\ lost \subseteq lost' /\ late \subseteq late' /\ guessed \subseteq guessed'
             /\ stale => stale'
  <2>1. /\ pc[k] \in {"transfer", "mark"} => <<of[k], who[k]>> \in Cycles \X People
        /\ pc[k] \in {"count", "next"} => of[k] \in Cycles
    BY <1>0 DEF InHand
  <2>2. stale' = (stale \/ Overwrites(k))
    BY <1>1 DEF Remember
  <2>3. stale' \in BOOLEAN /\ (stale => stale')
    BY <2>2
  <2>4. lost \subseteq lost' /\ lost' \subseteq Cycles \X People
    BY <1>0, <1>1, <2>1 DEF Remember, HistoryTypes, At
  <2>5. late \subseteq late' /\ late' \subseteq Cycles \X People
    BY <1>0, <1>1 DEF Remember, HistoryTypes
  <2>6. /\ guessed \subseteq guessed' /\ guessed' \subseteq Cycles
        /\ vacant' \subseteq Cycles
    BY <1>0, <1>1, <2>1 DEF Remember, HistoryTypes, At
  <2> QED BY <2>3, <2>4, <2>5, <2>6 DEF HistoryTypes
<1>2. ASSUME NEW k \in Workers, Stop(k)
      PROVE  /\ HistoryTypes'
             /\ lost \subseteq lost' /\ late \subseteq late' /\ guessed \subseteq guessed'
             /\ stale => stale'
  <2>1. At(k, "mark") => <<of[k], who[k]>> \in Cycles \X People
    BY <1>0 DEF InHand, At
  <2> QED BY <1>0, <1>2, <2>1 DEF Stop, HistoryTypes
<1>3. CASE UNCHANGED history
  BY <1>0, <1>3 DEF history, HistoryTypes
<1>4. CASE \E c \in Cycles, p \in People : ClaimRunsOut(c, p)
  BY <1>0, <1>4 DEF ClaimRunsOut, HistoryTypes
<1> QED BY <1>1, <1>2, <1>3, <1>4, NextIs DEF Acts, vars, history

LEMMA HandsInvInit == Init => HandsInv
<1> SUFFICES ASSUME Init  PROVE HandsInv
  OBVIOUS
<1> USE Bounds, StepsAre, TontineAssumption
<1>1. TableTypes
  BY DEF Init, TableTypes
<1>2. ShareTypes
  BY DEF Init, ShareTypes
<1>3. HandTypes
  BY DEF Init, HandTypes
<1>4. \A k \in Workers : InHand(k)
  BY DEF Init, InHand, Asking, Drawing, Closing, At
<1>5. HistoryTypes
  BY DEF Init, HistoryTypes
<1> QED BY <1>1, <1>2, <1>3, <1>4, <1>5, TypesAre DEF HandsInv

\* The claim that runs out touches nothing else.
LEMMA ClockIs ==
  ASSUME TypeOK, NEW c \in Cycles, NEW p \in People, ClaimRunsOut(c, p)
  PROVE  /\ UNCHANGED <<group, members, cycles, due, moved, pc, hands>>
         /\ claimed' \in [Cycles -> [People -> BOOLEAN]]
         /\ \A d \in Cycles, q \in People :
              claimed'[d][q] = claimed[d][q] \/ (d = c /\ q = p /\ ~ claimed'[d][q])
BY TypesAre DEF ClaimRunsOut, SetClaim, ShareTypes

\* What a worker that stays where it is keeps.
LEMMA InHandKept ==
  ASSUME HandsInv, NEW l \in Workers, InHand(l),
         pc'[l] = pc[l], who'[l] = who[l], of'[l] = of[l], room'[l] = room[l],
         seat'[l] = seat[l], left'[l] = left[l], next'[l] = next[l],
         \A c \in Cycles, p \in People : due[c][p] # "none" => due'[c][p] # "none"
  PROVE  InHand(l)'
<1>1. pc[l] \in PaySteps \cup {"overdue"} => due'[of[l]][who[l]] # "none"
  BY StepsAre DEF InHand
<1> QED BY <1>1 DEF InHand, At

LEMMA DueStays ==
  ASSUME HandsInv, [Next]_vars
  PROVE  \A c \in Cycles, p \in People :
           /\ due[c][p] # "none" => due'[c][p] # "none"
           /\ due[c][p] = "paid" => due'[c][p] = "paid"
<1>1. CASE UNCHANGED due
  BY <1>1
<1>2. CASE \E k \in Workers : Acts(k)
  BY <1>2, DueMoves
<1> QED BY <1>1, <1>2, NextIs, ClockIs DEF vars, HandsInv

LEMMA HandsInvStep == HandsInv /\ [Next]_vars => HandsInv'
<1> SUFFICES ASSUME HandsInv, [Next]_vars  PROVE HandsInv'
  OBVIOUS
<1>0. TypeOK /\ TableTypes /\ ShareTypes /\ HandTypes /\ \A k \in Workers : InHand(k)
  BY TypesAre DEF HandsInv
<1>1. ASSUME NEW k \in Workers, Acts(k)  PROVE HandsInv'
  <2>1. HandTypes' /\ Others(k) /\ InHand(k)'
    BY <1>1, ActorHands
  <2>2. ASSUME NEW l \in Workers \ {k}  PROVE InHand(l)'
    BY <1>0, <2>1, <2>2, InHandKept, DueStays DEF Others
  <2>3. TypeOK'
    BY <1>1, <2>1, TableStep, TypesAre, HistoryIs
  <2> QED BY <2>1, <2>2, <2>3 DEF HandsInv
<1>2. CASE UNCHANGED <<group, members, cycles, due, moved, pc, hands>>
           /\ claimed' \in [Cycles -> [People -> BOOLEAN]]
  <2>1. TableTypes' /\ ShareTypes' /\ HandTypes'
    BY <1>0, <1>2 DEF TableTypes, ShareTypes, HandTypes
  <2>2. \A l \in Workers : InHand(l)'
    BY <1>0, <1>2, InHandKept
  <2> QED BY <2>1, <2>2, TypesAre, HistoryIs DEF HandsInv
<1>3. CASE UNCHANGED vars
  BY <1>0, <1>2, <1>3 DEF vars, ShareTypes
<1>4. CASE \E c \in Cycles, p \in People : ClaimRunsOut(c, p)
  BY <1>0, <1>2, <1>4, ClockIs
<1> QED BY <1>1, <1>3, <1>4, NextIs

LEMMA HandsInvHolds == Spec => []HandsInv
BY HandsInvInit, HandsInvStep, PTL DEF Spec

\* TypeOK: the rows and the hands of the workers keep their types, the seats and
\* the positions within the bound of the cycles.
THEOREM TypesHold == Spec => []TypeOK
<1>1. HandsInv => TypeOK
  BY DEF HandsInv
<1> QED BY <1>1, HandsInvHolds, PTL

\* PaidStaysPaid: whatever is lost and whoever stops, no job and no request takes
\* "paid" from a share (tontines-cron.service.ts:134).
THEOREM PaidShareStaysPaid == Spec => PaidStaysPaid
<1>1. HandsInv /\ [Next]_vars =>
        [\A c \in Cycles, p \in People : due[c][p] = "paid" => due'[c][p] = "paid"]_vars
  BY DueStays
<1> QED BY <1>1, HandsInvHolds, PTL DEF Spec, PaidStaysPaid

-----------------------------------------------------------------------------
(* Where a step leads.                                                     *)

LEMMA WhereTo ==
  ASSUME HandsInv, NEW k \in Workers, Acts(k)
  PROVE  /\ pc[k] = "idle" =>
              pc'[k] \in {"insert", "reinvite", "delete", "refuse", "accept", "widen", "claim",
                          "overdue", "draw"}
         /\ pc[k] # "idle" /\ pc'[k] # "idle" =>
              /\ Work(k) /\ of'[k] = of[k] /\ who'[k] = who[k] /\ room'[k] = room[k]
              /\ \/ pc[k] = "widen" /\ pc'[k] = "join"
                 \/ pc[k] = "join" /\ pc'[k] = "backfill"
                 \/ pc[k] = "draw" /\ pc'[k] = "place"
                 \/ pc[k] = "place" /\ pc'[k] \in {"place", "first"}
                 \/ pc[k] = "first" /\ pc'[k] = "billFirst"
                 \/ pc[k] = "claim" /\ pc'[k] = "transfer"
                 \/ pc[k] = "transfer" /\ pc'[k] = "mark"
                 \/ pc[k] = "transfer" /\ pc'[k] = "release"
                 \/ pc[k] = "mark" /\ pc'[k] = "count"
                 \/ pc[k] = "mark" /\ pc'[k] = "release" /\ "mark" \in Lossy
                 \/ pc[k] = "count" /\ pc'[k] = "close"
                 \/ pc[k] = "close" /\ pc'[k] \in {"end", "next"}
                 \/ pc[k] = "next" /\ pc'[k] \in {"open", "release"}
                 \/ pc[k] = "open" /\ pc'[k] \in {"bill", "release"}
                 \/ pc[k] = "bill" /\ pc'[k] \in {"advance", "release"}
<1> USE StepsAre
<1>0. TableTypes /\ HandTypes /\ InHand(k) /\ TypeOK /\ seats \in 0..Rounds
  BY TypesAre DEF HandsInv, TableTypes
<1>1. \A s \in Steps : Goto(k, s) =>
        pc'[k] = s /\ of'[k] = of[k] /\ who'[k] = who[k] /\ room'[k] = room[k]
  BY <1>0, GotoIs
<1>2. Finish(k) => pc'[k] = "idle"
  BY <1>0, FinishIs
<1>3. CASE Ask(k)
  <2>1. CASE drawOrder(k)
    BY <1>0, <2>1, DrawIs
  <2>2. ASSUME NEW p \in People, NEW c \in 0..Rounds,
               NEW step \in {"insert", "reinvite", "delete", "refuse", "accept", "widen",
                             "claim", "overdue"},
               Begin(k, step, p, c)
        PROVE  pc[k] = "idle" /\ pc'[k] = step
    BY <1>0, <2>2, BeginIs
  <2> QED BY <1>0, <1>3, <2>1, <2>2, AskIs
<1>4. CASE Stop(k)
  BY <1>0, <1>2, <1>4, TontineAssumption DEF Stop
<1>5. CASE Work(k) /\ pc[k] \in {"insert", "reinvite", "delete", "refuse", "accept", "backfill",
                                 "billFirst", "end", "advance", "release", "overdue"}
  <2>1. Finish(k)
    BY <1>5, StepAt DEF InsertMember, Reinvite, DeleteMember, Refuse, Accept, Answered, Backfill,
       FirstBill, generateContributions, CompleteGroup, AdvanceGroup, releaseContribution,
       MarkOverdue
  <2> QED BY <1>2, <1>5, <2>1
<1>6. CASE Work(k) /\ pc[k] \in {"claim", "transfer", "mark", "count", "close"}
  <2>1. \/ Finish(k)
        \/ pc[k] = "claim" /\ Goto(k, "transfer")
        \/ pc[k] = "transfer" /\ (Goto(k, "mark") \/ Goto(k, "release"))
        \/ pc[k] = "mark" /\ Goto(k, "count")
        \/ pc[k] = "mark" /\ Goto(k, "release") /\ "mark" \in Lossy
        \/ pc[k] = "count" /\ Goto(k, "close")
        \/ pc[k] = "close" /\ (Goto(k, "end") \/ Goto(k, "next"))
    BY <1>6, StepAt DEF claimContribution, transfer, MarkPaid, CountOwing, CompleteCycle, Fail
  <2> QED BY <1>1, <1>2, <1>6, <2>1
<1>7. CASE Work(k) /\ pc[k] \in {"join", "draw", "first"}
  <2>1. \/ Finish(k)
        \/ pc[k] = "join" /\ Goto(k, "backfill")
        \/ pc[k] = "draw" /\ Goto(k, "place")
        \/ pc[k] = "first" /\ Goto(k, "billFirst")
    BY <1>7, StepAt DEF Join, ClaimDraw, FirstCycle, createCycle
  <2> QED BY <1>1, <1>2, <1>7, <2>1
<1>8. CASE Work(k) /\ pc[k] = "widen"
  BY <1>0, <1>8, StepAt DEF Widen, HandTypes
<1>9. CASE Work(k) /\ pc[k] = "place"
  BY <1>0, <1>9, StepAt DEF Place, HandTypes
<1>10. CASE Work(k) /\ pc[k] \in {"next", "open", "bill"}
  <2>1. \/ Goto(k, "release")
        \/ pc[k] = "open" /\ Goto(k, "bill")
        \/ pc[k] = "bill" /\ Goto(k, "advance")
        \/ pc[k] = "next" /\ pc' = [pc EXCEPT ![k] = "open"] /\ UNCHANGED <<who, of, room>>
    BY <1>10, StepAt DEF NextRecipient, NextCycle, NextBill, createCycle, generateContributions,
       Fail
  <2> QED BY <1>0, <1>1, <1>10, <2>1 DEF HandTypes
<1> QED
  <2>1. pc[k] \in Steps
    BY <1>0 DEF HandTypes
  <2>2. Work(k) => pc[k] # "idle"
    BY StepAt
  <2> QED BY <1>3, <1>4, <1>5, <1>6, <1>7, <1>8, <1>9, <1>10, <2>1, <2>2 DEF Acts

-----------------------------------------------------------------------------

-----------------------------------------------------------------------------
(* The shares: one holder of each that is not lost.                        *)

\* k may still move the money of this share, or give its claim back.
Holding(k, c, p) ==
  /\ of[k] = c /\ who[k] = p
  /\ pc[k] \in {"transfer", "mark"} \/ (At(k, "release") /\ due[c][p] # "paid")

OneHolder ==
  \A c \in Cycles, p \in People : <<c, p>> \notin lost =>
    \A j, k \in Workers : Holding(j, c, p) /\ Holding(k, c, p) => j = k

HoldersClaim ==
  \A k \in Workers, c \in Cycles, p \in People :
    <<c, p>> \notin lost /\ Holding(k, c, p) => claimed[c][p] /\ p \in Owing(c)

PaidFirst ==
  \A k \in Workers :
    pc[k] \in {"count", "close"} \cup Closing => due[of[k]][who[k]] = "paid"

MovedOnce ==
  \A c \in Cycles, p \in People : <<c, p>> \notin lost =>
    moved[c][p] = IF due[c][p] = "paid" \/ \E k \in Workers : Marking(k, c, p) THEN 1 ELSE 0

\* Lost or not: nothing is written before the money has moved.
MovedFirst ==
  \A c \in Cycles, p \in People :
    due[c][p] = "paid" \/ (\E k \in Workers : Marking(k, c, p)) => moved[c][p] > 0

SharesInv == HandsInv /\ OneHolder /\ HoldersClaim /\ PaidFirst /\ MovedOnce /\ MovedFirst

\* What a step on a share has done that leaves it out of the lost ones.
LEMMA KeptIs ==
  ASSUME HandsInv, NEW k \in Workers, Acts(k), <<of[k], who[k]>> \notin lost'
  PROVE  /\ pc[k] = "transfer" => UNCHANGED moved \/ pc'[k] = "mark"
         /\ pc[k] = "mark" => Work(k) /\ pc'[k] = "count" /\ SetDue(of[k], who[k], "paid")
<1> USE StepsAre DEF At
<1>0. HandTypes /\ TypeOK
  BY TypesAre DEF HandsInv
<1>1. CASE Ask(k) /\ pc[k] \in {"transfer", "mark"}
  BY <1>0, <1>1, AskIs, BeginIs, DrawIs DEF Begin
<1>2. CASE Stop(k)
  BY <1>2 DEF Stop
<1>3. CASE Step(k) /\ pc[k] = "transfer"
  BY <1>3 DEF Remember
<1>4. CASE Step(k) /\ pc[k] = "mark"
  <2>1. pc'[k] = "count"
    BY <1>4 DEF Remember
  <2>2. ~ Goto(k, "release")
    BY <1>0, <2>1, GotoIs
  <2>3. MarkPaid(k)
    BY <1>4, StepAt
  <2> QED BY <1>4, <2>1, <2>2, <2>3 DEF MarkPaid, Fail
<1> QED BY <1>1, <1>2, <1>3, <1>4 DEF Acts

\* A share is only taken in hand with its claim.
LEMMA HoldingMoves ==
  ASSUME SharesInv, NEW k \in Workers, Acts(k), NEW c \in Cycles, NEW p \in People,
         <<c, p>> \notin lost', NEW l \in Workers, Holding(l, c, p)'
  PROVE  \/ Holding(l, c, p)
         \/ /\ l = k /\ pc[k] = "claim" /\ of[k] = c /\ who[k] = p
            /\ ~ claimed[c][p] /\ p \in Owing(c) /\ claimed'[c][p]
<1> USE DEF At, Holding
<1>0. /\ HandsInv /\ TypeOK /\ TableTypes /\ ShareTypes /\ HandTypes /\ InHand(k) /\ PaidFirst
      /\ [Next]_vars
  BY TypesAre, NextIs DEF SharesInv, HandsInv
<1>1. due[c][p] = "paid" => due'[c][p] = "paid"
  BY <1>0, DueStays
<1>2. CASE l # k
  BY <1>0, <1>1, <1>2, ActorHands DEF Others
<1>3. CASE l = k
  <2>1. pc[k] # "idle" /\ Work(k) /\ of[k] = c /\ who[k] = p
    BY <1>0, <1>3, WhereTo
  <2>2. CASE pc'[k] = "transfer"
    <3>1. pc[k] = "claim" /\ claimContribution(k)
      BY <1>0, <2>1, <2>2, WhereTo, StepAt
    <3>2. who[k] \in Owing(of[k]) /\ ~ claimed[of[k]][who[k]] /\ SetClaim(of[k], who[k], TRUE)
      BY <1>0, <2>2, <3>1, FinishIs DEF claimContribution
    <3>3. claimed'[c][p]
      BY <1>0, <2>1, <3>2 DEF SetClaim, ShareTypes
    <3> QED BY <1>3, <2>1, <3>1, <3>2, <3>3
  <2>3. CASE pc'[k] = "mark"
    BY <1>0, <1>3, <2>1, <2>3, WhereTo
  <2>4. CASE pc'[k] = "release" /\ due'[c][p] # "paid"
    <3>1. pc[k] \in {"transfer", "next", "open", "bill"}
      BY <1>0, <2>1, <2>4, WhereTo, KeptIs
    <3>2. pc[k] \notin {"next", "open", "bill"}
      BY <1>0, <1>1, <2>1, <2>4 DEF PaidFirst, Closing
    <3> QED BY <1>3, <2>1, <3>1, <3>2
  <2> QED BY <1>3, <2>2, <2>3, <2>4
<1> QED BY <1>2, <1>3

LEMMA SharesKept ==
  ASSUME SharesInv, NEW k \in Workers, Acts(k)
  PROVE  OneHolder' /\ HoldersClaim'
<1> USE DEF At
<1>0. /\ HandsInv /\ TypeOK /\ TableTypes /\ ShareTypes /\ HandTypes /\ InHand(k)
      /\ OneHolder /\ HoldersClaim /\ [Next]_vars
  BY TypesAre, NextIs DEF SharesInv, HandsInv
<1>1. OneHolder'
  <2> SUFFICES ASSUME NEW c \in Cycles, NEW p \in People, <<c, p>> \notin lost',
                      NEW i \in Workers, NEW j \in Workers,
                      Holding(i, c, p)', Holding(j, c, p)'
               PROVE  i = j
    BY DEF OneHolder
  <2>0. <<c, p>> \notin lost
    BY <1>0, HistoryIs
  <2>1. \A l \in {i, j} :
          \/ Holding(l, c, p) /\ claimed[c][p]
          \/ l = k /\ ~ claimed[c][p]
    BY <1>0, <2>0, HoldingMoves DEF HoldersClaim
  <2> QED BY <1>0, <2>0, <2>1 DEF OneHolder
<1>2. HoldersClaim'
  <2> SUFFICES ASSUME NEW l \in Workers, NEW c \in Cycles, NEW p \in People,
                      <<c, p>> \notin lost', Holding(l, c, p)'
               PROVE  claimed'[c][p] /\ p \in Owing(c)'
    BY DEF HoldersClaim
  <2>0. <<c, p>> \notin lost
    BY <1>0, HistoryIs
  <2>1. CASE ~ Holding(l, c, p)
    <3>1. /\ pc[k] = "claim" /\ p \in Owing(c) /\ claimed'[c][p]
      BY <2>1, HoldingMoves
    <3>2. UNCHANGED due
      BY <3>1, Touched
    <3> QED BY <3>1, <3>2 DEF Owing
  <2>2. CASE Holding(l, c, p)
    <3>1. claimed[c][p] /\ due[c][p] \in {"pending", "overdue"}
      BY <1>0, <2>0, <2>2 DEF HoldersClaim, Owing
    <3>2. \A i \in Workers : Holding(i, c, p) => i = l
      BY <1>0, <2>0, <2>2 DEF OneHolder
    <3>3. due'[c][p] \in {"pending", "overdue"}
      <4>1. CASE pc[k] = "mark" /\ of[k] = c /\ who[k] = p
        <5>1. l = k
          BY <3>2, <4>1 DEF Holding
        <5>2. pc'[k] \notin {"transfer", "mark", "release"}
          BY <1>0, <4>1, KeptIs
        <5> QED BY <5>1, <5>2 DEF Holding
      <4>2. CASE ~ (pc[k] = "mark" /\ of[k] = c /\ who[k] = p)
        BY <1>0, <3>1, <4>2, DueMoves
      <4> QED BY <4>1, <4>2
    <3>4. claimed'[c][p]
      <4>1. CASE Work(k) /\ pc[k] = "claim"
        <5>1. UNCHANGED claimed \/ SetClaim(of[k], who[k], TRUE)
          BY <4>1, StepAt DEF claimContribution
        <5> QED BY <1>0, <3>1, <5>1 DEF SetClaim, ShareTypes
      <4>2. CASE Work(k) /\ pc[k] = "release"
        <5>1. CASE of[k] = c /\ who[k] = p
          <6>1. l = k
            BY <3>1, <3>2, <4>2, <5>1 DEF Holding
          <6>2. pc'[k] = "idle"
            BY <1>0, <4>2, StepAt, FinishIs DEF releaseContribution
          <6> QED BY <6>1, <6>2 DEF Holding
        <5>2. CASE ~ (of[k] = c /\ who[k] = p)
          <6>1. UNCHANGED claimed \/ SetClaim(of[k], who[k], FALSE)
            BY <4>2, StepAt DEF releaseContribution
          <6> QED BY <1>0, <3>1, <5>2, <6>1 DEF SetClaim, ShareTypes
        <5> QED BY <5>1, <5>2
      <4>3. CASE ~ (Work(k) /\ pc[k] \in {"claim", "release"})
        BY <1>0, <3>1, <4>3, Touched, AskIs DEF Acts, Stop
      <4> QED BY <4>1, <4>2, <4>3
    <3> QED BY <3>3, <3>4 DEF Owing
  <2> QED BY <2>1, <2>2
<1> QED BY <1>1, <1>2

LEMMA PaidKept ==
  ASSUME SharesInv, NEW k \in Workers, Acts(k)
  PROVE  PaidFirst'
<1> USE DEF At
<1>0. /\ HandsInv /\ TypeOK /\ TableTypes /\ ShareTypes /\ HandTypes /\ PaidFirst
      /\ [Next]_vars /\ \A l \in Workers : InHand(l)
  BY TypesAre, NextIs DEF SharesInv, HandsInv
<1> SUFFICES ASSUME NEW l \in Workers, pc'[l] \in {"count", "close"} \cup Closing
             PROVE  due'[of'[l]][who'[l]] = "paid"
  BY DEF PaidFirst
<1>1. CASE /\ of'[l] = of[l] /\ who'[l] = who[l]
           /\ pc[l] \in {"count", "close"} \cup Closing
  <2>1. due[of[l]][who[l]] = "paid" /\ of[l] \in Cycles /\ who[l] \in People
    BY <1>0, <1>1, StepsAre DEF PaidFirst, InHand, Closing
  <2> QED BY <1>0, <1>1, <2>1, DueStays
<1>2. CASE l # k
  BY <1>0, <1>1, <1>2, ActorHands DEF Others
<1>3. CASE l = k
  <2>1. /\ pc[k] # "idle" /\ Work(k) /\ of'[k] = of[k] /\ who'[k] = who[k]
        /\ pc[k] \in {"count", "close"} \cup Closing \/ (pc[k] = "mark" /\ pc'[k] = "count")
    BY <1>0, <1>3, WhereTo DEF Closing
  <2>2. CASE pc[k] = "mark" /\ pc'[k] = "count"
    <3>1. of[k] \in Cycles /\ who[k] \in People
      BY <1>0, <2>2, StepsAre DEF InHand
    <3>2. SetDue(of[k], who[k], "paid")
      <4>1. ~ Goto(k, "release")
        BY <1>0, <2>2, GotoIs, StepsAre
      <4> QED BY <2>1, <2>2, <4>1, StepAt DEF MarkPaid, Fail
    <3>3. due'[of[k]][who[k]] = "paid"
      BY <1>0, <3>1, <3>2 DEF SetDue, ShareTypes
    <3> QED BY <1>3, <2>1, <3>3
  <2> QED BY <1>1, <1>3, <2>1, <2>2
<1> QED BY <1>2, <1>3

LEMMA MovedKept ==
  ASSUME SharesInv, NEW k \in Workers, Acts(k)
  PROVE  MovedOnce'
<1> USE DEF At
<1>0. /\ HandsInv /\ TypeOK /\ TableTypes /\ ShareTypes /\ HandTypes
      /\ [Next]_vars /\ \A l \in Workers : InHand(l)
      /\ OneHolder /\ HoldersClaim /\ MovedOnce
  BY TypesAre, NextIs DEF SharesInv, HandsInv
<1> SUFFICES ASSUME NEW c \in Cycles, NEW p \in People, <<c, p>> \notin lost'
             PROVE  moved'[c][p] = IF due'[c][p] = "paid" \/ \E l \in Workers : Marking(l, c, p)'
                                   THEN 1 ELSE 0
  BY DEF MovedOnce
<1>01. <<c, p>> \notin lost
  BY <1>0, HistoryIs
<1>1. \A l \in Workers \ {k} : Marking(l, c, p)' <=> Marking(l, c, p)
  BY <1>0, ActorHands DEF Others, Marking
<1>2. CASE pc[k] = "transfer" /\ pc'[k] = "mark"
  <2>1. /\ transfer_wallet(of[k], who[k]) /\ of'[k] = of[k] /\ who'[k] = who[k]
        /\ of[k] \in Cycles /\ who[k] \in People
    <3>1. Work(k) /\ of'[k] = of[k] /\ who'[k] = who[k]
      BY <1>0, <1>2, WhereTo
    <3>2. ~ Fail(k)
      BY <1>0, <1>2, GotoIs, StepsAre DEF Fail
    <3> QED BY <1>0, <1>2, <3>1, <3>2, StepAt, StepsAre DEF transfer, InHand
  <2>2. due'[c][p] = due[c][p]
    BY <1>2, Touched
  <2>3. CASE of[k] = c /\ who[k] = p
    <3>1. Holding(k, c, p) /\ Marking(k, c, p)'
      BY <1>2, <2>1, <2>3 DEF Holding, Marking
    <3>2. due[c][p] # "paid" /\ \A l \in Workers : ~ Marking(l, c, p)
      BY <1>0, <1>01, <1>2, <3>1 DEF HoldersClaim, OneHolder, Owing, Marking, Holding
    <3>3. moved[c][p] = 0
      BY <1>0, <1>01, <3>2 DEF MovedOnce
    <3>4. moved'[c][p] = 1
      BY <1>0, <2>1, <2>3, <3>3 DEF transfer_wallet, ShareTypes
    <3> QED BY <3>1, <3>4
  <2>4. CASE ~ (of[k] = c /\ who[k] = p)
    <3>1. moved'[c][p] = moved[c][p]
      BY <1>0, <2>1, <2>4 DEF transfer_wallet, ShareTypes
    <3>2. ~ Marking(k, c, p) /\ ~ Marking(k, c, p)'
      BY <2>1, <2>4 DEF Marking
    <3> QED BY <1>0, <1>01, <1>1, <2>2, <3>1, <3>2 DEF MovedOnce
  <2> QED BY <2>3, <2>4
<1>3. CASE ~ (pc[k] = "transfer" /\ pc'[k] = "mark")
  <2>1. moved'[c][p] = moved[c][p]
    <3>1. CASE Work(k) /\ pc[k] = "transfer"
      <4>1. of[k] \in Cycles /\ who[k] \in People
        BY <1>0, <3>1, StepsAre DEF InHand
      <4>2. UNCHANGED moved \/ transfer_wallet(of[k], who[k])
        BY <3>1, StepAt DEF transfer
      <4>3. of[k] = c /\ who[k] = p => UNCHANGED moved
        BY <1>0, <1>3, <3>1, KeptIs
      <4> QED BY <1>0, <4>1, <4>2, <4>3 DEF transfer_wallet, ShareTypes
    <3>2. CASE ~ (Work(k) /\ pc[k] = "transfer")
      BY <1>0, <3>2, Touched, AskIs DEF Acts, Stop
    <3> QED BY <3>1, <3>2
  <2>2. ~ Marking(k, c, p)'
    BY <1>0, <1>3, WhereTo DEF Marking
  <2>3. CASE Marking(k, c, p)
    <3>2. SetDue(of[k], who[k], "paid") /\ of[k] = c /\ who[k] = p
      BY <1>0, <2>3, KeptIs DEF Marking
    <3>3. due'[c][p] = "paid"
      BY <1>0, <3>2 DEF SetDue, ShareTypes
    <3> QED BY <1>0, <1>01, <2>1, <2>3, <3>3 DEF MovedOnce
  <2>4. CASE ~ Marking(k, c, p)
    <3>1. due'[c][p] = "paid" <=> due[c][p] = "paid"
      BY <1>0, <2>4, DueMoves DEF Marking
    <3> QED BY <1>0, <1>01, <1>1, <2>1, <2>2, <2>4, <3>1 DEF MovedOnce
  <2> QED BY <2>3, <2>4
<1> QED BY <1>2, <1>3

LEMMA MovedStays ==
  ASSUME SharesInv, NEW k \in Workers, Acts(k)
  PROVE  MovedFirst'
<1> USE DEF At
<1>0. /\ HandsInv /\ TypeOK /\ TableTypes /\ ShareTypes /\ HandTypes /\ MovedFirst
      /\ \A l \in Workers : InHand(l)
  BY TypesAre DEF SharesInv, HandsInv
<1> SUFFICES ASSUME NEW c \in Cycles, NEW p \in People,
                    due'[c][p] = "paid" \/ \E l \in Workers : Marking(l, c, p)'
             PROVE  moved'[c][p] > 0
  BY DEF MovedFirst
<1>1. moved[c][p] \in Nat
  BY <1>0, TontineAssumption DEF ShareTypes
<1>2. CASE Work(k) /\ pc[k] = "transfer" /\ ~ UNCHANGED moved
  <2>1. of[k] \in Cycles /\ who[k] \in People
    BY <1>0, <1>2, StepsAre DEF InHand
  <2>2. transfer_wallet(of[k], who[k])
    BY <1>2, StepAt DEF transfer
  <2>3. moved'[c][p] = IF of[k] = c /\ who[k] = p THEN moved[c][p] + 1 ELSE moved[c][p]
    BY <1>0, <2>1, <2>2 DEF transfer_wallet, ShareTypes
  <2>4. CASE ~ (of[k] = c /\ who[k] = p)
    <3>1. due[c][p] = "paid" \/ \E l \in Workers : Marking(l, c, p)
      <4>1. UNCHANGED due
        BY <1>2, Touched
      <4>2. \A l \in Workers \ {k} : Marking(l, c, p)' => Marking(l, c, p)
        BY <1>0, ActorHands DEF Others, Marking
      <4>3. ~ Marking(k, c, p)'
        BY <1>0, <1>2, <2>4, WhereTo DEF Marking
      <4> QED BY <4>1, <4>2, <4>3
    <3> QED BY <1>0, <1>1, <2>3, <2>4, <3>1 DEF MovedFirst
  <2> QED BY <1>1, <2>3, <2>4
<1>3. CASE ~ (Work(k) /\ pc[k] = "transfer" /\ ~ UNCHANGED moved)
  <2>1. UNCHANGED moved
    BY <1>0, <1>3, Touched, AskIs DEF Acts, Stop
  <2>2. due[c][p] = "paid" \/ \E l \in Workers : Marking(l, c, p)
    <3>1. due'[c][p] = "paid" => due[c][p] = "paid" \/ Marking(k, c, p)
      BY <1>0, DueMoves DEF Marking
    <3>2. \A l \in Workers \ {k} : Marking(l, c, p)' => Marking(l, c, p)
      BY <1>0, ActorHands DEF Others, Marking
    <3>3. Marking(k, c, p)' => pc[k] = "transfer" /\ Work(k)
      BY <1>0, WhereTo DEF Marking
    <3>4. pc[k] = "transfer" /\ Work(k) => ~ Goto(k, "mark")
      <4>1. ASSUME pc[k] = "transfer", Work(k), Goto(k, "mark")  PROVE FALSE
        <5>1. ~ Goto(k, "release")
          BY <1>0, <4>1, GotoIs, StepsAre
        <5>2. transfer_wallet(of[k], who[k]) /\ of[k] \in Cycles /\ who[k] \in People
          BY <1>0, <4>1, <5>1, StepAt, StepsAre DEF transfer, Fail, InHand
        <5>3. moved[of[k]][who[k]] \in Nat
          BY <1>0, <5>2, TontineAssumption DEF ShareTypes
        <5>4. moved'[of[k]][who[k]] = moved[of[k]][who[k]] + 1
          BY <1>0, <5>2 DEF transfer_wallet, ShareTypes
        <5> QED BY <2>1, <5>3, <5>4
      <4> QED BY <4>1
    <3>5. ~ Marking(k, c, p)'
      <4>1. ASSUME Marking(k, c, p)'  PROVE FALSE
        <5>1. transfer(k) /\ pc'[k] = "mark"
          BY <3>3, <4>1, StepAt DEF Marking
        <5>2. Goto(k, "mark") \/ Goto(k, "release")
          BY <5>1 DEF transfer, Fail
        <5>3. ~ Goto(k, "release")
          BY <1>0, <5>1, GotoIs, StepsAre
        <5> QED BY <3>3, <3>4, <4>1, <5>2, <5>3
      <4> QED BY <4>1
    <3> QED BY <3>1, <3>2, <3>5
  <2> QED BY <1>0, <2>1, <2>2 DEF MovedFirst
<1> QED BY <1>2, <1>3

LEMMA SharesInvInit == Init => SharesInv
<1> SUFFICES ASSUME Init  PROVE SharesInv
  OBVIOUS
<1>1. HandsInv
  BY HandsInvInit
<1>2. /\ \A k \in Workers : pc[k] = "idle"
      /\ \A c \in Cycles, p \in People : moved[c][p] = 0 /\ due[c][p] = "none"
  BY DEF Init
<1>3. OneHolder /\ HoldersClaim /\ PaidFirst /\ MovedOnce /\ MovedFirst
  BY <1>2 DEF OneHolder, HoldersClaim, PaidFirst, MovedOnce, MovedFirst, Holding, Marking,
     Closing, At
<1> QED BY <1>1, <1>3 DEF SharesInv

LEMMA SharesInvStep == SharesInv /\ [Next]_vars => SharesInv'
<1> SUFFICES ASSUME SharesInv, [Next]_vars  PROVE SharesInv'
  OBVIOUS
<1>0. HandsInv' /\ HandsInv /\ TypeOK
  BY HandsInvStep DEF SharesInv, HandsInv
<1>1. ASSUME NEW k \in Workers, Acts(k)  PROVE SharesInv'
  BY <1>0, <1>1, SharesKept, PaidKept, MovedKept, MovedStays DEF SharesInv
<1>2. ASSUME NEW c \in Cycles, NEW p \in People, ClaimRunsOut(c, p)  PROVE SharesInv'
  <2>1. /\ UNCHANGED <<due, moved, pc, who, of>>
        /\ \A d \in Cycles, q \in People :
             claimed'[d][q] = claimed[d][q] \/ (d = c /\ q = p)
    BY <1>0, <1>2, ClockIs
  <2>2. (\E k \in Workers : Holding(k, c, p)) => <<c, p>> \in lost'
    BY <1>2, StepsAre DEF ClaimRunsOut, Paying, Holding, At
  <2>3. lost \subseteq lost'
    BY <1>2 DEF ClaimRunsOut
  <2>4. OneHolder' /\ HoldersClaim'
    BY <2>1, <2>2, <2>3 DEF SharesInv, OneHolder, HoldersClaim, Holding, Owing, At
  <2>5. PaidFirst' /\ MovedOnce' /\ MovedFirst'
    BY <2>1, <2>3 DEF SharesInv, PaidFirst, MovedOnce, MovedFirst, Marking, At
  <2> QED BY <1>0, <2>4, <2>5 DEF SharesInv
<1>3. CASE UNCHANGED vars
  <2>1. OneHolder' /\ HoldersClaim' /\ PaidFirst' /\ MovedOnce' /\ MovedFirst'
    BY <1>3 DEF vars, history, SharesInv, OneHolder, HoldersClaim, PaidFirst, MovedOnce,
       MovedFirst, Holding, Marking, Owing, At
  <2> QED BY <1>0, <2>1 DEF SharesInv
<1> QED BY <1>1, <1>2, <1>3, NextIs

LEMMA SharesInvHolds == Spec => []SharesInv
BY SharesInvInit, SharesInvStep, PTL DEF Spec

\* PaidOnce: however many requests and jobs try to pay a share, its money moves
\* before the row says so, and at most once unless an answer was lost, a process
\* stopped before the mark or a claim ran out under its payment (migration 046).
THEOREM EachShareIsPaidOnce == Spec => []PaidOnce
<1>1. SharesInv => PaidOnce
  <2> SUFFICES ASSUME SharesInv, NEW c \in Cycles, NEW p \in People
               PROVE  /\ due[c][p] = "paid" => moved[c][p] > 0
                      /\ \/ <<c, p>> \in lost
                         \/ moved[c][p] = 0
                         \/ /\ moved[c][p] = 1
                            /\ due[c][p] = "paid" \/ \E k \in Workers : Marking(k, c, p)
    BY DEF PaidOnce
  <2> QED BY DEF SharesInv, MovedOnce, MovedFirst
<1> QED BY <1>1, SharesInvHolds, PTL

-----------------------------------------------------------------------------
(* The cycles, in their order, whatever is lost, whoever stops and whatever *)
(* overlaps: one draw, and one worker at a time that opens the next cycle.  *)

NotOpen == \A c \in Cycles : cycle[c] = "none"

InOrder ==
  /\ status = "forming" => NotOpen /\ current = 0
  /\ status = "completed" => ~ NotOpen
  /\ current > 1 => cycle[current] # "none"
  /\ \A c \in Cycles : cycle[c] # "none" => recipient[c] # Nobody
  /\ \A c, d \in Cycles : d < c /\ cycle[c] # "none" => cycle[d] = "completed"
  /\ \A c \in Cycles : cycle[c] = "completed" => c <= current
  /\ \A c \in Cycles, p \in People : due[c][p] # "none" => cycle[c] # "none"

\* The cycle that is closed, opened or billed.
Opens(k) ==
  /\ pc[k] \in {"place", "first", "billFirst", "widen", "join"} => status # "forming"
  /\ pc[k] \in {"place", "first"} => NotOpen
  /\ pc[k] \in PaySteps \cup {"widen", "join", "backfill"} => of[k] <= current
  /\ pc[k] \in Closing => cycle[of[k]] = "completed"
  /\ pc[k] \in {"bill", "advance"} => of[k] = current
  /\ pc[k] \in {"bill", "advance", "billFirst"} => cycle[of[k] + 1] # "none"
  /\ At(k, "backfill") => cycle[of[k]] # "none"

OneDraw ==
  \A j, k \in Workers : pc[j] \in {"place", "first"} /\ pc[k] \in {"place", "first"} => j = k

OneOpener ==
  \A j, k \in Workers : pc[j] \in {"bill", "advance"} /\ pc[k] \in {"bill", "advance"} => j = k

CycleInv == HandsInv /\ InOrder /\ OneDraw /\ OneOpener /\ \A k \in Workers : Opens(k)

LEMMA CycleTypes ==
  ASSUME CycleInv
  PROVE  /\ HandsInv /\ TypeOK /\ TableTypes /\ ShareTypes /\ HandTypes
         /\ \A k \in Workers : InHand(k) /\ Opens(k) /\ pc[k] \in Steps
         /\ InOrder /\ OneDraw /\ OneOpener
BY TypesAre DEF CycleInv, HandsInv, HandTypes

\* Whoever pays does it for a cycle that exists.
LEMMA PayersCycle ==
  ASSUME CycleInv, NEW k \in Workers, pc[k] \in PaySteps \cup {"overdue"}
  PROVE  of[k] \in Cycles /\ cycle[of[k]] # "none" /\ ~ NotOpen /\ status # "forming"
<1>1. of[k] \in Cycles /\ who[k] \in People /\ due[of[k]][who[k]] # "none" /\ InOrder
  BY CycleTypes, StepsAre DEF InHand
<1>2. cycle[of[k]] # "none"
  BY <1>1 DEF InOrder
<1> QED BY <1>1, <1>2 DEF InOrder, NotOpen

\* A cycle that exists keeps its recipient, and one that is completed stays so.
LEMMA CyclesStay ==
  ASSUME HandsInv, NEW k \in Workers, Acts(k)
  PROVE  \A c \in Cycles :
           /\ cycle[c] # "none" => cycle'[c] # "none" /\ recipient'[c] = recipient[c]
           /\ cycle[c] = "completed" => cycle'[c] = "completed"
BY CycleMoves

\* The group, and its current cycle.
LEMMA GroupMoves ==
  ASSUME CycleInv, NEW k \in Workers, Acts(k)
  PROVE  \/ /\ current' = current
            /\ status' = status \/ (pc[k] = "end" /\ Work(k) /\ status' = "completed")
         \/ /\ pc[k] = "draw" /\ Work(k) /\ pc'[k] = "place"
            /\ status = "forming" /\ status' = "active" /\ current = 0 /\ current' = 1
         \/ /\ pc[k] = "advance" /\ Work(k) /\ UNCHANGED status
            /\ of[k] = current /\ current' = current + 1
<1>0. /\ TypeOK /\ HandTypes /\ TableTypes /\ InHand(k) /\ Opens(k) /\ InOrder /\ pc[k] \in Steps
      /\ HandsInv
  BY CycleTypes
<1>1. CASE Work(k) /\ pc[k] = "draw"
  <2>1. \/ UNCHANGED <<status, current>>
        \/ /\ status = "forming" /\ status' = "active" /\ current' = 1 /\ Goto(k, "place")
    BY <1>1, StepAt DEF ClaimDraw
  <2>2. Goto(k, "place") => pc'[k] = "place"
    BY <1>0, GotoIs, StepsAre
  <2>3. status = "forming" => current = 0
    BY <1>0 DEF InOrder
  <2> QED BY <1>1, <2>1, <2>2, <2>3
<1>2. CASE Work(k) /\ pc[k] = "end"
  BY <1>2, StepAt DEF CompleteGroup
<1>3. CASE Work(k) /\ pc[k] = "advance"
  BY <1>0, <1>3, StepAt DEF AdvanceGroup, Opens
<1>4. CASE ~ (Work(k) /\ pc[k] \in {"draw", "end", "advance"})
  BY <1>0, <1>4, Touched, AskIs DEF Acts, Stop
<1> QED BY <1>1, <1>2, <1>3, <1>4

\* Only the cycle after the current one is opened, and by one worker.
LEMMA OpensNext ==
  ASSUME CycleInv, NEW k \in Workers, pc[k] = "open", cycle[of[k] + 1] = "none"
  PROVE  /\ of[k] = current
         /\ \A l \in Workers : pc[l] \notin {"bill", "advance"}
<1>0. /\ of[k] \in Cycles /\ of[k] + 1 \in Cycles /\ of[k] <= current /\ current \in 0..Rounds
      /\ InOrder /\ Rounds \in Nat
  <2>1. /\ of[k] \in Cycles /\ of[k] < room[k] /\ room[k] \in 0..Rounds /\ of[k] <= current
        /\ current \in 0..Rounds /\ InOrder
    BY CycleTypes, StepsAre DEF InHand, Opens, Closing, HandTypes, TableTypes
  <2> QED BY <2>1, Bounds
<1>1. of[k] = current
  <2> SUFFICES ASSUME of[k] < current  PROVE FALSE
    BY <1>0, Bounds
  <2>1. current > 1 /\ current \in Cycles /\ cycle[current] # "none"
    BY <1>0, Bounds DEF InOrder
  <2>2. of[k] + 1 = current \/ of[k] + 1 < current
    BY <1>0, Bounds
  <2> QED BY <1>0, <2>1, <2>2 DEF InOrder
<1>2. ASSUME NEW l \in Workers, pc[l] \in {"bill", "advance"}  PROVE FALSE
  <2>1. of[l] = current /\ cycle[of[l] + 1] # "none"
    BY <1>2, CycleTypes DEF Opens
  <2> QED BY <1>1, <2>1
<1> QED BY <1>1, <1>2

LEMMA OrderStays ==
  ASSUME CycleInv, NEW k \in Workers, Acts(k)
  PROVE  InOrder'
<1>0. /\ TypeOK /\ HandTypes /\ TableTypes /\ InHand(k) /\ Opens(k) /\ InOrder /\ pc[k] \in Steps
      /\ HandsInv /\ Rounds \in Nat /\ current \in 0..Rounds
  BY CycleTypes, Bounds DEF TableTypes
<1>1. /\ \A c \in Cycles : cycle[c] # "none" => cycle'[c] # "none" /\ recipient'[c] = recipient[c]
      /\ \A c \in Cycles : cycle[c] = "completed" => cycle'[c] = "completed"
  BY <1>0, CyclesStay
<1>2. current <= current' /\ current' \in 0..Rounds
  <2>1. current' \in 0..Rounds
    BY <1>0, TableStep DEF TableTypes
  <2> QED BY <1>0, <2>1, GroupMoves
\* What the step opens, if it opens a cycle.
<1>3. \/ UNCHANGED cycle
      \/ /\ pc[k] = "close" /\ of[k] \in Cycles /\ of[k] <= current /\ cycle[of[k]] # "none"
         /\ cycle'[of[k]] = "completed" /\ \A c \in Cycles \ {of[k]} : cycle'[c] = cycle[c]
      \/ /\ pc[k] \in {"first", "open"} /\ of[k] + 1 \in Cycles /\ cycle'[of[k] + 1] = "active"
         /\ recipient'[of[k] + 1] # Nobody
         /\ \A c \in Cycles \ {of[k] + 1} : cycle'[c] = cycle[c]
         /\ \/ pc[k] = "first" /\ of[k] = 0 /\ NotOpen
            \/ /\ pc[k] = "open" /\ of[k] = current /\ of[k] \in Cycles
               /\ cycle[of[k]] = "completed"
  <2>1. pc[k] = "close" => of[k] <= current /\ cycle[of[k]] # "none"
    BY <1>0, PayersCycle, StepsAre DEF Opens
  <2>2. pc[k] = "first" => of[k] = 0 /\ NotOpen
    BY <1>0 DEF Opens, InHand, Drawing
  <2>3. pc[k] = "open" => of[k] \in Cycles /\ cycle[of[k]] = "completed"
    BY <1>0, PayersCycle, StepsAre DEF Opens, Closing
  <2>4. pc[k] = "open" /\ cycle[of[k] + 1] = "none" => of[k] = current
    BY OpensNext
  <2>5. pc[k] \in {"first", "open"} => next[k] \in People
    BY <1>0 DEF InHand
  <2> QED BY <1>0, <2>1, <2>2, <2>3, <2>4, <2>5, CycleMoves, Bounds
<1>4. status' = "forming" => NotOpen' /\ current' = 0
  <2> SUFFICES ASSUME status' = "forming"  PROVE NotOpen' /\ current' = 0
    OBVIOUS
  <2>1. status = "forming" /\ current' = current
    BY <1>0, GroupMoves, PayersCycle, StepsAre
  <2>2. pc[k] \notin {"close", "first", "open"}
    BY <1>0, <2>1, PayersCycle, StepsAre DEF Opens
  <2> QED BY <1>0, <1>3, <2>1, <2>2 DEF InOrder, NotOpen
<1>5. status' = "completed" => ~ NotOpen'
  <2> SUFFICES ASSUME status' = "completed"  PROVE ~ NotOpen'
    OBVIOUS
  <2>1. ~ NotOpen
    BY <1>0, GroupMoves, PayersCycle, StepsAre DEF InOrder
  <2> QED BY <1>1, <2>1 DEF NotOpen
<1>6. current' > 1 => cycle'[current'] # "none"
  <2>1. CASE current' = current
    <3>1. current > 1 => current \in Cycles /\ cycle[current] # "none"
      BY <1>0, Bounds DEF InOrder
    <3> QED BY <1>1, <2>1, <3>1
  <2>2. CASE pc[k] = "advance" /\ current' = of[k] + 1
    <3>1. cycle[of[k] + 1] # "none"
      BY <1>0, <2>2 DEF Opens
    <3>2. of[k] + 1 \in Cycles
      BY <1>0, <1>2, <2>2, Bounds DEF HandTypes
    <3> QED BY <1>1, <2>2, <3>1, <3>2
  <2> QED BY <1>0, <2>1, <2>2, GroupMoves
<1>7. \A c \in Cycles : cycle'[c] # "none" => recipient'[c] # Nobody
  BY <1>0, <1>1, <1>3 DEF InOrder
<1>8. \A c, d \in Cycles : d < c /\ cycle'[c] # "none" => cycle'[d] = "completed"
  <2> SUFFICES ASSUME NEW c \in Cycles, NEW d \in Cycles, d < c, cycle'[c] # "none"
               PROVE  cycle'[d] = "completed"
    OBVIOUS
  <2>1. CASE cycle[c] # "none"
    BY <1>0, <1>1, <2>1 DEF InOrder
  <2>2. CASE cycle[c] = "none"
    <3>1. /\ c = of[k] + 1
          /\ \/ of[k] = 0
             \/ of[k] \in Cycles /\ cycle[of[k]] = "completed"
      BY <1>3, <2>2
    <3>2. of[k] \in Cycles /\ cycle[of[k]] = "completed" /\ (d = of[k] \/ d < of[k])
      BY <1>0, <3>1, Bounds
    <3> QED BY <1>0, <1>1, <3>2 DEF InOrder
  <2> QED BY <2>1, <2>2
<1>9. \A c \in Cycles : cycle'[c] = "completed" => c <= current'
  <2>1. \A c \in Cycles : cycle'[c] = "completed" => c <= current
    BY <1>0, <1>3 DEF InOrder
  <2> QED BY <1>0, <1>2, <2>1, Bounds
<1>10. \A c \in Cycles, p \in People : due'[c][p] # "none" => cycle'[c] # "none"
  <2>1. pc[k] = "backfill" => cycle[of[k]] # "none"
    BY <1>0 DEF Opens, At
  <2>2. pc[k] \in {"billFirst", "bill"} => cycle[of[k] + 1] # "none"
    BY <1>0 DEF Opens
  <2>3. pc[k] = "mark" => cycle[of[k]] # "none"
    BY PayersCycle, StepsAre
  <2>4. \A c \in Cycles, p \in People : due'[c][p] # "none" => cycle[c] # "none"
    BY <1>0, <2>1, <2>2, <2>3, DueMoves DEF InOrder
  <2> QED BY <1>1, <2>4
<1> QED BY <1>4, <1>5, <1>6, <1>7, <1>8, <1>9, <1>10 DEF InOrder

LEMMA OpensActor ==
  ASSUME CycleInv, NEW k \in Workers, Acts(k)
  PROVE  Opens(k)'
<1> USE StepsAre DEF At
<1>0. /\ TypeOK /\ HandTypes /\ TableTypes /\ InHand(k) /\ Opens(k) /\ InOrder /\ pc[k] \in Steps
      /\ HandsInv /\ Rounds \in Nat /\ current \in 0..Rounds /\ seats \in 0..Rounds
  BY CycleTypes, Bounds DEF TableTypes
<1>1. CASE pc'[k] \in {"idle", "overdue", "draw"}
  BY <1>1 DEF Opens, Closing
<1>2. CASE pc[k] = "idle"
  <2>1. Ask(k)
    BY <1>2, StepAt, TontineAssumption DEF Acts, Stop
  <2>2. UNCHANGED <<group, cycles>>
    BY <1>0, <2>1, AskIs
  <2>3. ASSUME NEW p \in People, NEW c \in 0..Rounds,
               NEW step \in {"insert", "reinvite", "delete", "refuse", "accept", "widen",
                             "claim", "overdue"},
               Begin(k, step, p, c), step \in {"widen", "claim"} => c = current,
               step = "widen" => status = "active"
        PROVE  Opens(k)'
    <3>1. pc'[k] = step /\ of'[k] = c
      BY <1>0, <2>3, BeginIs
    <3> QED BY <1>0, <2>2, <2>3, <3>1 DEF Opens, Closing
  <2> QED BY <1>0, <1>1, <2>1, <2>3, AskIs, DrawIs
<1>3. CASE pc[k] # "idle" /\ pc'[k] \notin {"idle", "overdue", "draw"}
  <2>1. /\ Work(k) /\ of'[k] = of[k] /\ current' \in 0..Rounds /\ of[k] \in 0..Rounds
        /\ current <= current'
    BY <1>0, <1>3, WhereTo, GroupMoves, TableStep DEF TableTypes, HandTypes
  <2>2. \A c \in Cycles : /\ cycle[c] # "none" => cycle'[c] # "none"
                          /\ cycle[c] = "completed" => cycle'[c] = "completed"
    BY <1>0, CyclesStay
  <2>3. pc'[k] \in {"place", "first", "billFirst", "join"} => status' # "forming"
    <3>1. CASE pc[k] = "draw" /\ pc'[k] = "place"
      <4>1. status' # "forming"
        BY <1>0, <3>1, StepAt, <2>1, FinishIs DEF ClaimDraw
      <4> QED BY <4>1
    <3>2. CASE pc[k] \in {"place", "first", "widen"}
      BY <1>0, <3>2, GroupMoves DEF Opens
    <3> QED BY <1>0, <1>3, <3>1, <3>2, WhereTo
  <2>4. pc'[k] \in {"place", "first"} => NotOpen'
    <3>1. CASE pc[k] = "draw" /\ pc'[k] = "place"
      <4>1. status = "forming"
        BY <1>0, <3>1, StepAt, <2>1, FinishIs DEF ClaimDraw
      <4>2. NotOpen /\ UNCHANGED cycles
        BY <1>0, <3>1, <4>1, Touched DEF InOrder
      <4> QED BY <4>2 DEF NotOpen
    <3>2. CASE pc[k] = "place"
      BY <1>0, <3>2, Touched DEF Opens, NotOpen
    <3> QED BY <1>0, <1>3, <3>1, <3>2, WhereTo
  <2>5. pc'[k] \in PaySteps \cup {"join", "backfill"} => of[k] <= current'
    <3>1. pc'[k] \in PaySteps \cup {"join", "backfill"} =>
            pc[k] \in PaySteps \cup {"widen", "join"}
      BY <1>0, <1>3, WhereTo
    <3> QED BY <1>0, <2>1, <3>1 DEF Opens
  <2>6. pc'[k] \in Closing => cycle'[of[k]] = "completed"
    <3>1. pc'[k] \in Closing => of[k] \in Cycles /\ pc[k] \in Closing \cup {"close"}
      BY <1>0, <1>3, WhereTo DEF Closing, InHand
    <3>2. CASE pc[k] = "close"
      BY <1>0, <2>1, <3>1, <3>2, StepAt DEF CompleteCycle, TableTypes
    <3>3. CASE pc[k] \in Closing
      BY <1>0, <2>2, <3>1, <3>3 DEF Opens
    <3> QED BY <3>1, <3>2, <3>3
  <2>7. pc'[k] \in {"bill", "billFirst"} =>
          /\ cycle'[of[k] + 1] # "none"
          /\ pc'[k] = "bill" => of[k] = current /\ current' = current
    <3> SUFFICES ASSUME pc'[k] \in {"bill", "billFirst"}
                 PROVE  /\ cycle'[of[k] + 1] # "none"
                        /\ pc'[k] = "bill" => of[k] = current /\ current' = current
      OBVIOUS
    <3>1. \/ pc[k] = "first" /\ pc'[k] = "billFirst"
          \/ pc[k] = "open" /\ pc'[k] = "bill"
      BY <1>0, <1>3, WhereTo
    <3>2. ~ Finish(k) /\ ~ Goto(k, "release")
      BY <1>0, <3>1, FinishIs, GotoIs
    <3>3. /\ cycle[of[k] + 1] = "none"
          /\ cycle' = [cycle EXCEPT ![of[k] + 1] = "active"]
      BY <2>1, <3>1, <3>2, StepAt DEF FirstCycle, NextCycle, createCycle, Fail
    <3>4. of[k] + 1 \in Cycles
      <4>1. of[k] = 0 \/ (of[k] < room[k] /\ room[k] \in 0..Rounds)
        BY <1>0, <3>1 DEF InHand, Drawing, Closing, HandTypes
      <4> QED BY <1>0, <2>1, <4>1, Bounds
    <3>5. cycle'[of[k] + 1] # "none"
      BY <1>0, <3>3, <3>4 DEF TableTypes
    <3>6. pc[k] = "open" => of[k] = current /\ current' = current
      BY <1>0, <3>3, OpensNext, GroupMoves
    <3> QED BY <3>1, <3>5, <3>6
  <2>8. pc'[k] = "advance" =>
          of[k] = current' /\ cycle'[of[k] + 1] # "none"
    <3> SUFFICES ASSUME pc'[k] = "advance"  PROVE of[k] = current' /\ cycle'[of[k] + 1] # "none"
      OBVIOUS
    <3>1. pc[k] = "bill"
      BY <1>0, <1>3, WhereTo
    <3>2. of[k] = current /\ cycle[of[k] + 1] # "none" /\ current' = current /\ UNCHANGED cycles
      BY <1>0, <3>1, GroupMoves, Touched DEF Opens
    <3> QED BY <3>2
  <2>9. pc'[k] = "backfill" => cycle'[of[k]] # "none"
    <3> SUFFICES ASSUME pc'[k] = "backfill"  PROVE cycle'[of[k]] # "none"
      OBVIOUS
    <3>1. pc[k] = "join" /\ UNCHANGED cycles
      BY <1>0, <1>3, WhereTo, Touched
    <3>2. ~ Finish(k)
      BY <1>0, FinishIs
    <3> QED BY <2>1, <3>1, <3>2, StepAt DEF Join
  <2>10. pc'[k] # "widen"
    BY <1>0, <1>3, WhereTo
  <2> QED BY <1>3, <2>1, <2>3, <2>4, <2>5, <2>6, <2>7, <2>8, <2>9, <2>10 DEF Opens
<1> QED BY <1>1, <1>2, <1>3

LEMMA OpensOthers ==
  ASSUME CycleInv, NEW k \in Workers, Acts(k), NEW l \in Workers \ {k}
  PROVE  Opens(l)'
<1> USE StepsAre DEF At
<1>0. /\ TypeOK /\ HandTypes /\ TableTypes /\ InHand(l) /\ Opens(l) /\ InOrder /\ HandsInv
      /\ Others(k) /\ Rounds \in Nat /\ current \in 0..Rounds /\ OneDraw /\ OneOpener
      /\ of[l] \in 0..Rounds /\ room[l] \in 0..Rounds
  BY CycleTypes, Bounds, ActorHands DEF TableTypes, HandTypes
<1>1. pc'[l] = pc[l] /\ of'[l] = of[l]
  BY <1>0 DEF Others
<1>2. \A c \in Cycles : /\ cycle[c] # "none" => cycle'[c] # "none"
                        /\ cycle[c] = "completed" => cycle'[c] = "completed"
  BY <1>0, CyclesStay
<1>3. current <= current' /\ current' \in 0..Rounds
  <2>1. current' \in 0..Rounds
    BY <1>0, TableStep DEF TableTypes
  <2> QED BY <1>0, <2>1, GroupMoves
<1>4. status # "forming" => status' # "forming"
  BY <1>0, GroupMoves
<1>5. pc[l] \in {"place", "first"} => NotOpen'
  <2> SUFFICES ASSUME pc[l] \in {"place", "first"}  PROVE NotOpen'
    OBVIOUS
  <2>1. NotOpen
    BY <1>0 DEF Opens
  <2>2. pc[k] \notin {"close", "open", "first"}
    BY <1>0, <2>1, PayersCycle DEF OneDraw
  <2> QED BY <1>0, <2>1, <2>2, Touched DEF NotOpen
<1>6. pc[l] \in {"bill", "advance", "billFirst"} =>
        of[l] + 1 \in Cycles /\ cycle'[of[l] + 1] # "none"
  <2> SUFFICES ASSUME pc[l] \in {"bill", "advance", "billFirst"}
               PROVE  of[l] + 1 \in Cycles /\ cycle'[of[l] + 1] # "none"
    OBVIOUS
  <2>1. of[l] = 0 \/ of[l] < room[l]
    BY <1>0 DEF InHand, Drawing, Closing
  <2>2. of[l] + 1 \in Cycles
    BY <1>0, <2>1, Bounds
  <2>3. cycle[of[l] + 1] # "none"
    BY <1>0 DEF Opens
  <2> QED BY <1>2, <2>2, <2>3
<1>7. pc[l] \in {"bill", "advance"} => of[l] = current'
  <2> SUFFICES ASSUME pc[l] \in {"bill", "advance"}  PROVE of[l] = current'
    OBVIOUS
  <2>1. of[l] = current /\ status # "forming"
    BY <1>0, PayersCycle DEF Opens
  <2>2. pc[k] # "advance"
    BY <1>0 DEF OneOpener
  <2> QED BY <2>1, <2>2, GroupMoves
<1>8. pc[l] \in PaySteps \cup {"backfill"} => of[l] \in Cycles
  BY <1>0 DEF InHand
<1>9. pc[l] \in Closing => cycle'[of[l]] = "completed"
  BY <1>0, <1>2, <1>8 DEF Opens, Closing
<1>10. pc[l] = "backfill" => cycle'[of[l]] # "none"
  BY <1>0, <1>2, <1>8 DEF Opens
<1>11. pc[l] \in PaySteps \cup {"widen", "join", "backfill"} => of[l] <= current'
  BY <1>0, <1>3 DEF Opens
<1>12. pc[l] \in {"place", "first", "billFirst", "widen", "join"} => status' # "forming"
  BY <1>0, <1>4 DEF Opens
<1> QED BY <1>1, <1>5, <1>6, <1>7, <1>9, <1>10, <1>11, <1>12 DEF Opens

\* Of two draws one goes on, of two openers one.
LEMMA OneStays ==
  ASSUME CycleInv, NEW k \in Workers, Acts(k)
  PROVE  OneDraw' /\ OneOpener'
<1> USE StepsAre DEF At
<1>0. /\ HandsInv /\ Others(k) /\ OneDraw /\ OneOpener /\ HandTypes /\ pc[k] \in Steps
      /\ \A l \in Workers : Opens(l)
  BY CycleTypes, ActorHands
<1>1. pc'[k] \in {"place", "first"} =>
        \/ pc[k] \in {"place", "first"}
        \/ \A l \in Workers : pc[l] \notin {"place", "first"}
  <2> SUFFICES ASSUME pc'[k] \in {"place", "first"}, pc[k] \notin {"place", "first"}
               PROVE  \A l \in Workers : pc[l] \notin {"place", "first"}
    OBVIOUS
  <2>1. pc[k] = "draw" /\ Work(k)
    BY <1>0, WhereTo
  <2>2. status = "forming"
    BY <1>0, <2>1, StepAt, FinishIs DEF ClaimDraw
  <2> QED BY <1>0, <2>2 DEF Opens
<1>2. pc'[k] \in {"bill", "advance"} =>
        \/ pc[k] \in {"bill", "advance"}
        \/ \A l \in Workers : pc[l] \notin {"bill", "advance"}
  <2> SUFFICES ASSUME pc'[k] \in {"bill", "advance"}, pc[k] \notin {"bill", "advance"}
               PROVE  \A l \in Workers : pc[l] \notin {"bill", "advance"}
    OBVIOUS
  <2>1. pc[k] = "open" /\ pc'[k] = "bill" /\ Work(k)
    BY <1>0, WhereTo
  <2>2. ~ Goto(k, "release")
    BY <1>0, <2>1, GotoIs
  <2>3. cycle[of[k] + 1] = "none"
    BY <2>1, <2>2, StepAt DEF NextCycle, createCycle, Fail
  <2> QED BY <2>1, <2>3, OpensNext
<1>3. OneDraw'
  BY <1>0, <1>1 DEF OneDraw, Others
<1>4. OneOpener'
  BY <1>0, <1>2 DEF OneOpener, Others
<1> QED BY <1>3, <1>4

LEMMA CycleInvInit == Init => CycleInv
<1> SUFFICES ASSUME Init  PROVE CycleInv
  OBVIOUS
<1>1. HandsInv
  BY HandsInvInit
<1>2. InOrder
  BY Bounds DEF Init, InOrder, NotOpen
<1>3. OneDraw /\ OneOpener /\ \A k \in Workers : Opens(k)
  BY StepsAre DEF Init, OneDraw, OneOpener, Opens, Closing, At
<1> QED BY <1>1, <1>2, <1>3 DEF CycleInv

LEMMA CycleInvStep == CycleInv /\ [Next]_vars => CycleInv'
<1> SUFFICES ASSUME CycleInv, [Next]_vars  PROVE CycleInv'
  OBVIOUS
<1>0. HandsInv' /\ HandsInv /\ TypeOK
  BY HandsInvStep, CycleTypes
<1>1. ASSUME NEW k \in Workers, Acts(k)  PROVE CycleInv'
  <2>1. \A l \in Workers : Opens(l)'
    BY <1>1, OpensActor, OpensOthers
  <2> QED BY <1>0, <1>1, <2>1, OrderStays, OneStays DEF CycleInv
<1>2. CASE UNCHANGED <<group, members, cycles, due, pc, hands>>
  <2>1. InOrder'
    BY <1>2 DEF CycleInv, InOrder, NotOpen
  <2>2. OneDraw' /\ OneOpener' /\ \A k \in Workers : Opens(k)'
    BY <1>2 DEF CycleInv, OneDraw, OneOpener, Opens, NotOpen, At
  <2> QED BY <1>0, <2>1, <2>2 DEF CycleInv
<1>3. CASE UNCHANGED vars
  BY <1>2, <1>3 DEF vars
<1>4. CASE \E c \in Cycles, p \in People : ClaimRunsOut(c, p)
  BY <1>0, <1>2, <1>4, ClockIs
<1> QED BY <1>1, <1>3, <1>4, NextIs

LEMMA CycleInvHolds == Spec => []CycleInv
BY CycleInvInit, CycleInvStep, PTL DEF Spec

-----------------------------------------------------------------------------
(* What is closed is paid, but for the counts that failed and the shares that *)
(* were billed late: nobody bills a cycle after opening it but the draw and   *)
(* the newcomers, since its opener bills it before it is the current one.     *)

Settled(c) == c \in guessed \/ \A p \in Owing(c) : <<c, p>> \in late

ClosedInv == CycleInv /\ \A c \in Cycles : Counted(c) => Settled(c)

LEMMA ClosedStep ==
  ASSUME ClosedInv, NEW k \in Workers, Acts(k), NEW c \in Cycles, Counted(c)'
  PROVE  Settled(c)'
<1> USE StepsAre DEF At
<1>0. /\ CycleInv /\ HandsInv /\ TypeOK /\ HandTypes /\ ShareTypes /\ InHand(k) /\ Opens(k)
      /\ InOrder /\ [Next]_vars /\ Others(k) /\ pc[k] \in Steps
      /\ \A l \in Workers : Opens(l)
  BY CycleTypes, NextIs, ActorHands DEF ClosedInv
<1>1. late \subseteq late' /\ guessed \subseteq guessed'
  BY <1>0, HistoryIs
<1>2. CASE Counted(c)
  <2>1. Settled(c)
    BY <1>2 DEF ClosedInv
  <2> SUFFICES ASSUME NEW p \in Owing(c)', p \notin Owing(c)  PROVE <<c, p>> \in late'
    BY <1>1, <2>1 DEF Settled
  <2>2. p \in People /\ due[c][p] \notin {"pending", "overdue"}
        /\ due'[c][p] \in {"pending", "overdue"}
    BY DEF Owing
  <2>3. /\ due[c][p] = "none" /\ due'[c][p] = "pending"
        /\ \/ pc[k] = "backfill"
           \/ pc[k] \in {"billFirst", "bill"} /\ c = of[k] + 1
    BY <1>0, <2>2, DueMoves DEF ShareTypes
  <2>4. pc[k] # "bill"
    <3> SUFFICES ASSUME pc[k] = "bill"  PROVE FALSE
      OBVIOUS
    <3>1. c = current + 1 /\ current \in Nat
      BY <1>0, <2>3, CycleTypes, Bounds DEF Opens, TableTypes
    <3>2. ~ (c <= current)
      BY <3>1
    <3>3. cycle[c] # "completed"
      BY <1>0, <3>2 DEF InOrder
    <3>4. PICK l \in Workers : pc[l] = "close" /\ of[l] = c
      BY <1>2, <3>3 DEF Counted
    <3> QED BY <1>0, <3>2, <3>4 DEF Opens
  <2>5. Step(k)
    BY <1>0, <2>3, AskIs DEF Acts, Stop
  <2> QED BY <1>2, <2>2, <2>3, <2>4, <2>5 DEF Remember
<1>3. CASE ~ Counted(c)
  <2>1. ~ (cycle'[c] = "completed")
    BY <1>0, <1>3, CycleMoves DEF Counted
  <2>2. pc'[k] = "close" /\ of'[k] = c
    BY <1>0, <1>3, <2>1 DEF Counted, Others
  <2>3. pc[k] = "count" /\ of[k] = c /\ Work(k)
    BY <1>0, <2>2, WhereTo
  <2>4. Step(k) /\ UNCHANGED due
    <3>1. ~ Stop(k)
      BY <1>0, <2>2, FinishIs DEF Stop
    <3>2. ~ Ask(k)
      BY <1>0, <2>3, AskIs, BeginIs, DrawIs DEF Begin
    <3> QED BY <2>3, <3>1, <3>2, Touched DEF Acts
  <2>5. Owing(c) # {} => c \in guessed'
    BY <2>2, <2>3, <2>4 DEF Remember
  <2> QED BY <2>4, <2>5 DEF Settled, Owing
<1> QED BY <1>2, <1>3

LEMMA ClosedInvHolds == Spec => []ClosedInv
<1>1. Init => ClosedInv
  <2> SUFFICES ASSUME Init  PROVE ClosedInv
    OBVIOUS
  <2>1. \A c \in Cycles : ~ Counted(c)
    BY DEF Init, Counted, At
  <2> QED BY <2>1, CycleInvInit DEF ClosedInv
<1>2. ClosedInv /\ [Next]_vars => ClosedInv'
  <2> SUFFICES ASSUME ClosedInv, [Next]_vars  PROVE ClosedInv'
    OBVIOUS
  <2>0. CycleInv' /\ TypeOK /\ HandsInv
    BY CycleInvStep, CycleTypes DEF ClosedInv
  <2>1. CASE UNCHANGED <<cycles, due, pc, hands, late, guessed>>
    <3>1. \A c \in Cycles : (Counted(c)' <=> Counted(c)) /\ (Settled(c)' <=> Settled(c))
      BY <2>1 DEF Counted, Settled, Owing, At
    <3> QED BY <2>0, <3>1 DEF ClosedInv
  <2>2. CASE \E k \in Workers : Acts(k)
    BY <2>0, <2>2, ClosedStep DEF ClosedInv
  <2>3. CASE \E c \in Cycles, p \in People : ClaimRunsOut(c, p)
    BY <2>0, <2>1, <2>3, ClockIs DEF ClaimRunsOut
  <2> QED BY <2>1, <2>2, <2>3, NextIs DEF vars, history
<1> QED BY <1>1, <1>2, PTL DEF Spec

\* ClosedIsPaid: whoever joins while the last share is paid and counted, a cycle
\* is only closed while something is owed to it on a count that failed, or for
\* shares that were billed late (tontines.service.ts:766).
THEOREM ClosedCyclesArePaid == Spec => []ClosedIsPaid
<1>1. ClosedInv => ClosedIsPaid
  BY DEF ClosedInv, ClosedIsPaid, Settled, Counted
<1> QED BY <1>1, ClosedInvHolds, PTL

\* SharesAddUp: what is paid is paid once, what is closed is paid, and everything
\* has its type, whatever is lost, whoever stops and whatever overlaps; what the
\* code cannot keep is named by the history.
THEOREM TheSharesAddUp == Spec => []SharesAddUp
BY TypesHold, EachShareIsPaidOnce, ClosedCyclesArePaid, PTL DEF SharesAddUp

-----------------------------------------------------------------------------
(* The queue, as long as no request has written over another one.           *)

\* A position belongs to one active member, and there are no more than seats.
Positions ==
  /\ \A p \in People : position[p] > 0 => member[p] = "active"
  /\ \A p \in People : position[p] <= seats
  /\ \A p, q \in People : position[p] = position[q] /\ position[p] > 0 => p = q

Forming == status = "forming" => \A p \in People : position[p] = 0

Turns == \A c \in Cycles : recipient[c] # Nobody => position[recipient[c]] = c

Ended == status = "completed" => \A p \in People : position[p] > 0 => HadATurn(p)

Rows == Positions /\ Forming /\ Turns /\ Ended

\* The order that is being drawn, the heir, the seat of a newcomer.
Hand(k) ==
  /\ At(k, "draw") /\ status = "forming" => left[k] \subseteq Active /\ Cardinality(left[k]) <= seats
  /\ At(k, "place") => /\ left[k] \subseteq Active
                       /\ seat[k] + Cardinality(left[k]) <= seats
                       /\ \A p \in left[k] : position[p] = 0
                       /\ seat[k] > 0 => position[next[k]] = 1
  /\ At(k, "first") => position[next[k]] = 1
  /\ At(k, "open") => position[next[k]] = of[k] + 1
  /\ At(k, "join") => seat[k] <= seats

Fresh == Rows /\ \A k \in Workers : Hand(k)

QueueInv == CycleInv /\ (stale \/ Fresh)

\* How the queue moves: one member at most is given a place, that nobody holds.
QueueMoves(k) ==
  /\ \A p \in People : member[p] = "active" => member'[p] = "active"
  /\ seats <= seats'
  /\ \/ UNCHANGED position
     \/ \E p \in People, n \in 1..seats :
          /\ position' = [position EXCEPT ![p] = n]
          /\ position[p] = 0 /\ \A q \in People : position[q] # n
          /\ member'[p] = "active" /\ (pc[k] = "place" \/ member[p] # "active")
          /\ status = "active" /\ pc[k] \in {"join", "place"}

LEMMA QueueIs ==
  ASSUME CycleInv, Fresh, NEW k \in Workers, Step(k), ~ Overwrites(k)
  PROVE  QueueMoves(k)
<1> USE StepsAre DEF At
<1>0. /\ TypeOK /\ HandTypes /\ TableTypes /\ InHand(k) /\ Opens(k) /\ InOrder /\ HandsInv
      /\ Acts(k) /\ Positions /\ Hand(k) /\ Rounds \in Nat /\ pc[k] \in Steps
  BY CycleTypes, Bounds DEF Fresh, Rows, Acts
<1>1. CASE pc[k] \in {"insert", "reinvite", "delete", "refuse", "accept"}
  <2>1. who[k] \in People
    BY <1>0, <1>1 DEF InHand, Asking
  <2>2. pc[k] \in {"reinvite", "delete", "refuse"} => member[who[k]] # "active"
    BY <1>1 DEF Overwrites
  <2>3. \/ UNCHANGED member
        \/ \E s \in {"none", "invited", "active", "declined"} :
             SetMember(who[k], s) /\ (s = "active" \/ member[who[k]] # "active")
    BY <1>1, <2>2, StepAt DEF InsertMember, Reinvite, DeleteMember, Refuse, Accept, Answered
  <2>4. \A p \in People : member[p] = "active" => member'[p] = "active"
    BY <1>0, <2>1, <2>3 DEF SetMember, TableTypes
  <2>5. UNCHANGED position
    <3>1. CASE pc[k] = "delete"
      <4>1. position[who[k]] = 0
        BY <1>0, <2>1, <2>2, <3>1, Bounds DEF Positions, TableTypes
      <4>2. UNCHANGED position \/ position' = [position EXCEPT ![who[k]] = 0]
        BY <3>1, StepAt DEF DeleteMember
      <4> QED BY <1>0, <4>1, <4>2 DEF TableTypes
    <3>2. CASE pc[k] # "delete"
      BY <1>0, <1>1, <3>2, Touched
    <3> QED BY <3>1, <3>2
  <2>6. UNCHANGED seats
    BY <1>0, <1>1, Touched
  <2> QED BY <1>0, <2>4, <2>5, <2>6, Bounds DEF QueueMoves, TableTypes
<1>2. CASE pc[k] = "widen"
  <2>1. /\ seats' = seats + 1 /\ UNCHANGED <<member, position>>
    BY <1>0, <1>2, StepAt DEF Widen, Overwrites
  <2> QED BY <1>0, <2>1 DEF QueueMoves, TableTypes
<1>3. CASE pc[k] = "join"
  <2>1. /\ member[who[k]] = "invited" /\ status # "completed" /\ who[k] \in People
        /\ \A p \in People : position[p] # seat[k]
    BY <1>0, <1>3 DEF Overwrites, InHand, Asking
  <2>2. /\ SetMember(who[k], "active") /\ position' = [position EXCEPT ![who[k]] = seat[k]]
    BY <1>3, <2>1, StepAt DEF Join
  <2>3. position[who[k]] = 0
    BY <1>0, <2>1 DEF Positions, TableTypes
  <2>4. seat[k] \in 1..seats
    <3>1. seat[k] \in 0..Rounds /\ seat[k] <= seats /\ seat[k] # 0
      BY <1>0, <1>3, <2>1, <2>3 DEF Hand, HandTypes
    <3> QED BY <1>0, <3>1 DEF TableTypes
  <2>5. status = "active" /\ UNCHANGED seats
    BY <1>0, <1>3, <2>1, Touched DEF Opens, TableTypes
  <2>6. /\ \A p \in People : member[p] = "active" => member'[p] = "active"
        /\ member'[who[k]] = "active"
    BY <1>0, <2>1, <2>2 DEF SetMember, TableTypes
  <2>7. \E p \in People, n \in 1..seats :
          /\ position' = [position EXCEPT ![p] = n]
          /\ position[p] = 0 /\ \A q \in People : position[q] # n
          /\ member'[p] = "active" /\ (pc[k] = "place" \/ member[p] # "active")
          /\ status = "active" /\ pc[k] \in {"join", "place"}
    <3>1. /\ position[who[k]] = 0 /\ \A q \in People : position[q] # seat[k]
          /\ member'[who[k]] = "active" /\ member[who[k]] # "active"
          /\ status = "active" /\ pc[k] \in {"join", "place"}
      BY <1>3, <2>1, <2>3, <2>5, <2>6
    <3> QED BY <2>1, <2>2, <2>4, <3>1
  <2>8. seats <= seats'
    BY <1>0, <2>5 DEF TableTypes
  <2> QED BY <2>6, <2>7, <2>8 DEF QueueMoves
<1>4. CASE pc[k] = "place"
  <2>1. PICK p \in People : Place(k, p)
    BY <1>4, StepAt
  <2>2. /\ p \in left[k] /\ p \in Active /\ position[p] = 0 /\ member[p] = "active"
        /\ seat[k] + Cardinality(left[k]) <= seats
    BY <1>0, <1>4, <2>1 DEF Place, Hand, Active
  <2>3. /\ position' = [position EXCEPT ![p] = seat[k] + 1]
        /\ UNCHANGED <<group, member>>
    BY <2>1, <2>2 DEF Place
  <2>4. seat[k] + 1 \in 1..seats
    <3>1. Cardinality(left[k]) \in Nat /\ Cardinality(left[k]) > 0 /\ seat[k] \in Nat
      BY <1>0, <2>2, TeamsAreFinite DEF HandTypes
    <3> QED BY <1>0, <2>2, <3>1 DEF TableTypes
  <2>5. \A q \in People : position[q] # seat[k] + 1
    BY <1>4 DEF Overwrites
  <2>6. status = "active"
    BY <1>0, <1>4 DEF Opens, InOrder, TableTypes
  <2>7. \E q \in People, n \in 1..seats :
          /\ position' = [position EXCEPT ![q] = n]
          /\ position[q] = 0 /\ \A r \in People : position[r] # n
          /\ member'[q] = "active" /\ (pc[k] = "place" \/ member[q] # "active")
          /\ status = "active" /\ pc[k] \in {"join", "place"}
    <3>1. /\ position[p] = 0 /\ \A r \in People : position[r] # seat[k] + 1
          /\ member'[p] = "active" /\ pc[k] = "place" /\ status = "active"
      BY <1>4, <2>2, <2>3, <2>5, <2>6
    <3> QED BY <2>3, <2>4, <3>1
  <2>8. seats <= seats' /\ UNCHANGED member
    BY <1>0, <2>3 DEF TableTypes
  <2> QED BY <2>7, <2>8 DEF QueueMoves
<1>5. CASE pc[k] \notin {"insert", "reinvite", "delete", "refuse", "accept", "widen", "join", "place"}
  <2>1. UNCHANGED <<member, position, seats>>
    BY <1>0, <1>5, Touched
  <2> QED BY <1>0, <2>1 DEF QueueMoves, TableTypes
<1> QED BY <1>1, <1>2, <1>3, <1>4, <1>5

\* Who has a place keeps it.
LEMMA PlacesStay ==
  ASSUME TableTypes, TableTypes', NEW k \in Workers, QueueMoves(k)
  PROVE  \A p \in People : position[p] > 0 => position'[p] = position[p]
<1>1. position \in [People -> 0..Rounds] /\ Rounds \in Nat
  BY Bounds DEF TableTypes
<1> QED BY <1>1 DEF QueueMoves

LEMMA RowsStay ==
  ASSUME CycleInv, Fresh, NEW k \in Workers, Step(k), ~ Overwrites(k)
  PROVE  Rows'
<1> USE StepsAre DEF At
<1>0. /\ TypeOK /\ HandTypes /\ TableTypes /\ InHand(k) /\ Opens(k) /\ InOrder /\ HandsInv
      /\ Acts(k) /\ Rows /\ Hand(k) /\ Rounds \in Nat /\ QueueMoves(k) /\ TableTypes'
  BY CycleTypes, Bounds, QueueIs, TableStep DEF Fresh, Acts
<1>1. \A p \in People : position[p] > 0 => position'[p] = position[p]
  BY <1>0, PlacesStay
<1>2. Positions'
  BY <1>0 DEF Rows, Positions, QueueMoves, TableTypes
<1>3. Forming'
  <2>1. status' = "forming" => status = "forming"
    BY <1>0, GroupMoves
  <2> QED BY <1>0, <2>1 DEF Rows, Forming, QueueMoves
<1>4. Turns'
  <2> SUFFICES ASSUME NEW c \in Cycles, recipient'[c] # Nobody
               PROVE  position'[recipient'[c]] = c
    BY DEF Turns
  <2>1. CASE recipient'[c] = recipient[c]
    <3>1. recipient[c] \in People /\ position[recipient[c]] = c /\ c > 0
      BY <1>0, <2>1, Bounds DEF Rows, Turns, TableTypes
    <3> QED BY <1>1, <2>1, <3>1
  <2>2. CASE recipient'[c] # recipient[c]
    <3>1. pc[k] \in {"first", "open"} /\ c = of[k] + 1 /\ recipient'[c] = next[k]
      BY <1>0, <2>2, CycleMoves, Touched
    <3>2. position[next[k]] = of[k] + 1
      BY <1>0, <3>1 DEF Hand, InHand, Drawing
    <3> QED BY <1>0, <3>1, <3>2, Touched
  <2> QED BY <2>1, <2>2
<1>5. Ended'
  <2> SUFFICES ASSUME status' = "completed", NEW p \in People, position'[p] > 0
               PROVE  HadATurn(p)'
    BY DEF Ended
  <2>1. CASE status = "completed"
    <3>1. UNCHANGED position
      BY <1>0, <2>1 DEF QueueMoves
    <3>2. PICK c \in Cycles : recipient[c] = p /\ cycle[c] = "completed"
      BY <1>0, <2>1, <3>1 DEF Rows, Ended, HadATurn
    <3>3. recipient'[c] = p /\ cycle'[c] = "completed"
      BY <1>0, <3>2, CyclesStay
    <3> QED BY <3>3 DEF HadATurn
  <2>2. CASE status # "completed"
    <3>1. pc[k] = "end" /\ UNCHANGED <<position, cycles>>
      BY <1>0, <2>2, GroupMoves, Touched
    <3>2. of[k] \in Cycles /\ cycle[of[k]] = "completed" /\ of[k] >= seats
      BY <1>0, <3>1, PayersCycle, Bounds DEF Opens, Closing, Overwrites, TableTypes
    <3>3. position[p] \in Cycles /\ position[p] <= of[k]
      BY <1>0, <3>1, <3>2, Bounds DEF Rows, Positions, TableTypes
    <3>4. cycle[position[p]] = "completed"
      <4>1. position[p] = of[k] \/ position[p] < of[k]
        BY <3>2, <3>3, Bounds
      <4> QED BY <1>0, <3>2, <3>3, <4>1 DEF InOrder
    <3>5. recipient[position[p]] \in People /\ position[recipient[position[p]]] = position[p]
      BY <1>0, <3>3, <3>4 DEF InOrder, Rows, Turns, TableTypes
    <3>6. recipient[position[p]] = p
      BY <1>0, <3>1, <3>5 DEF Rows, Positions
    <3> QED BY <3>1, <3>3, <3>4, <3>6 DEF HadATurn
  <2> QED BY <2>1, <2>2
<1> QED BY <1>2, <1>3, <1>4, <1>5 DEF Rows

LEMMA HandActor ==
  ASSUME CycleInv, Fresh, NEW k \in Workers, Step(k), ~ Overwrites(k)
  PROVE  Hand(k)'
<1> USE StepsAre DEF At
<1>0. /\ TypeOK /\ HandTypes /\ TableTypes /\ InHand(k) /\ Opens(k) /\ InOrder /\ HandsInv
      /\ Acts(k) /\ Rows /\ Hand(k) /\ Rounds \in Nat /\ QueueMoves(k) /\ TableTypes'
      /\ HandTypes' /\ pc[k] # "idle"
  BY CycleTypes, Bounds, QueueIs, TableStep, ActorHands, StepAt DEF Fresh, Acts
<1>1. CASE pc'[k] \notin {"draw", "place", "first", "open", "join"}
  BY <1>1 DEF Hand
<1>2. CASE pc[k] = "draw" /\ pc'[k] = "place"
  <2>1. ~ Finish(k)
    BY <1>0, <1>2, FinishIs
  <2>2. status = "forming" /\ Goto(k, "place") /\ UNCHANGED <<seats, members, cycles, shares>>
    BY <1>2, <2>1, StepAt DEF ClaimDraw
  <2>3. left' = left /\ seat' = seat /\ seat[k] = 0
    BY <1>0, <1>2, <2>2, GotoIs DEF InHand
  <2>4. left[k] \subseteq Active /\ Cardinality(left[k]) <= seats /\ Cardinality(left[k]) \in Nat
    BY <1>0, <1>2, <2>2, TeamsAreFinite DEF Hand, HandTypes
  <2>5. \A p \in People : position[p] = 0
    BY <1>0, <2>2 DEF Rows, Forming
  <2> QED BY <1>2, <2>2, <2>3, <2>4, <2>5 DEF Hand, Active
<1>3. CASE pc[k] = "place"
  <2>1. PICK p \in People : Place(k, p)
    BY <1>3, StepAt
  <2>2. /\ p \in left[k]
        /\ left'[k] = left[k] \ {p} /\ seat'[k] = seat[k] + 1
        /\ seat'[k] + Cardinality(left'[k]) = seat[k] + Cardinality(left[k])
        /\ next'[k] = IF seat[k] = 0 THEN p ELSE next[k]
        /\ pc'[k] \in {"first", "place"}
    BY <1>0, <2>1, PlaceIs
  <2>3. /\ left[k] \subseteq Active /\ seat[k] + Cardinality(left[k]) <= seats
        /\ \A q \in left[k] : position[q] = 0
        /\ seat[k] > 0 => position[next[k]] = 1 /\ next[k] \in People
    BY <1>0, <1>3 DEF Hand, InHand
  <2>4. position' = [position EXCEPT ![p] = seat[k] + 1] /\ UNCHANGED <<group, member>>
    BY <2>1, <2>2, <2>3 DEF Place, Active
  <2>5. left'[k] \subseteq Active' /\ \A q \in left'[k] : position'[q] = 0
    BY <1>0, <2>2, <2>3, <2>4 DEF Active, TableTypes
  <2>6. position'[next'[k]] = 1
    <3>1. CASE seat[k] = 0
      BY <1>0, <2>2, <2>4, <3>1 DEF TableTypes
    <3>2. CASE seat[k] # 0
      <4>1. seat[k] > 0
        BY <1>0, <3>2, Bounds DEF HandTypes
      <4>2. position[next[k]] = 1 /\ next[k] \in People /\ next'[k] = next[k]
        BY <2>2, <2>3, <3>2, <4>1
      <4> QED BY <1>0, <4>2, PlacesStay
    <3> QED BY <3>1, <3>2
  <2>7. seat'[k] + Cardinality(left'[k]) <= seats'
    BY <2>2, <2>3, <2>4
  <2> QED BY <2>2, <2>5, <2>6, <2>7 DEF Hand
<1>4. CASE pc'[k] = "open"
  <2>1. pc[k] = "next"
    BY <1>0, <1>4, WhereTo
  <2>2. ~ Fail(k)
    BY <1>0, <1>4, GotoIs DEF Fail
  <2>3. NextRecipient(k)
    BY <2>1, StepAt
  <2>4. PICK p \in People : /\ position[p] = of[k] + 1 /\ next' = [next EXCEPT ![k] = p]
                            /\ UNCHANGED <<of, position>>
    BY <2>2, <2>3 DEF NextRecipient
  <2> QED BY <1>0, <1>4, <2>4 DEF Hand, HandTypes
<1>5. CASE pc'[k] = "join"
  <2>1. pc[k] = "widen"
    BY <1>0, <1>5, WhereTo
  <2>2. /\ seats' = seats + 1 /\ seat'[k] = LastPosition + 1
    BY <1>0, <2>1, StepAt DEF Widen, Overwrites, HandTypes
  <2>3. LastPosition \in 0..Rounds /\ LastPosition <= seats
    BY <1>0, LastIs, Bounds DEF Rows, Positions, TableTypes
  <2> QED BY <1>0, <1>5, <2>2, <2>3 DEF Hand, TableTypes
<1>6. pc'[k] # "draw" /\ (pc'[k] = "place" => pc[k] \in {"draw", "place"})
      /\ (pc'[k] = "first" => pc[k] = "place")
  BY <1>0, WhereTo
<1> QED BY <1>1, <1>2, <1>3, <1>4, <1>5, <1>6

LEMMA HandOthers ==
  ASSUME CycleInv, Fresh, NEW k \in Workers, Step(k), ~ Overwrites(k), NEW l \in Workers \ {k}
  PROVE  Hand(l)'
<1> USE StepsAre DEF At
<1>0. /\ TypeOK /\ HandTypes /\ TableTypes /\ InHand(l) /\ HandsInv
      /\ Acts(k) /\ Rows /\ Hand(l) /\ Rounds \in Nat /\ QueueMoves(k) /\ TableTypes'
      /\ Others(k) /\ OneDraw /\ of[l] \in 0..Rounds
  BY CycleTypes, Bounds, QueueIs, TableStep, ActorHands DEF Fresh, Acts, HandTypes
<1>1. \A p \in People : position[p] > 0 => position'[p] = position[p]
  BY <1>0, PlacesStay
<1>2. Active \subseteq Active' /\ seats <= seats' /\ seats \in Nat /\ seats' \in Nat
  BY <1>0 DEF QueueMoves, Active, TableTypes
<1>3. status' = "forming" => status = "forming"
  BY <1>0, GroupMoves
<1>4. /\ pc'[l] = pc[l] /\ of'[l] = of[l] /\ seat'[l] = seat[l] /\ left'[l] = left[l]
      /\ next'[l] = next[l]
  BY <1>0 DEF Others
<1>5. seat[l] \in Nat /\ Cardinality(left[l]) \in Nat
  BY <1>0, TeamsAreFinite DEF HandTypes
<1>6. CASE pc[l] = "place"
  <2>1. pc[k] # "place"
    BY <1>0, <1>6 DEF OneDraw
  <2>2. \A p \in left[l] : p \in People /\ member[p] = "active" /\ position[p] = 0
    BY <1>0, <1>6 DEF Hand, Active
  <2>3. \A p \in left[l] : position'[p] = 0
    BY <1>0, <2>1, <2>2 DEF QueueMoves, TableTypes
  <2>4. seat[l] > 0 => next[l] \in People
    BY <1>0, <1>6 DEF InHand
  <2> QED BY <1>0, <1>1, <1>2, <1>4, <1>5, <1>6, <2>3, <2>4 DEF Hand
<1>7. CASE pc[l] = "draw"
  BY <1>0, <1>2, <1>3, <1>4, <1>5, <1>7 DEF Hand
<1>8. CASE pc[l] \in {"first", "open"}
  <2>1. next[l] \in People
    BY <1>0, <1>8 DEF InHand
  <2> QED BY <1>0, <1>1, <1>4, <1>8, <2>1 DEF Hand
<1>9. CASE pc[l] \notin {"place", "draw", "first", "open"}
  BY <1>0, <1>2, <1>4, <1>5, <1>9 DEF Hand
<1> QED BY <1>6, <1>7, <1>8, <1>9

\* The beginning of a request, or its end without a step.
LEMMA HandAsk ==
  ASSUME CycleInv, Fresh, NEW k \in Workers, Ask(k) \/ Stop(k)
  PROVE  Fresh'
<1> USE StepsAre DEF At
<1>0. TypeOK /\ HandTypes /\ TableTypes /\ Fresh
  BY CycleTypes
<1>1. UNCHANGED <<group, members, cycles, shares>>
  BY <1>0, AskIs DEF Stop
<1>2. Rows'
  BY <1>1 DEF Fresh, Rows, Positions, Forming, Turns, Ended, HadATurn
<1>3. Others(k) /\ (pc'[k] \in {"draw", "place", "first", "open", "join"} => drawOrder(k))
  <2>1. ASSUME NEW p \in People, NEW c \in 0..Rounds,
               NEW step \in {"insert", "reinvite", "delete", "refuse", "accept", "widen",
                             "claim", "overdue"},
               Begin(k, step, p, c)
        PROVE  Others(k) /\ pc'[k] \notin {"draw", "place", "first", "open", "join"}
    BY <1>0, <2>1, BeginIs DEF TableTypes
  <2> QED BY <1>0, <2>1, AskIs, DrawIs, FinishIs DEF Stop
<1>4. Hand(k)'
  <2>1. CASE drawOrder(k)
    <3>1. pc'[k] = "draw" /\ left'[k] = Active /\ Cardinality(Active) = seats /\ seats \in Nat
      BY <1>0, <2>1, DrawIs, Bounds DEF TableTypes
    <3> QED BY <1>1, <3>1 DEF Hand, Active
  <2>2. CASE ~ drawOrder(k)
    BY <1>3, <2>2 DEF Hand
  <2> QED BY <2>1, <2>2
<1>5. ASSUME NEW l \in Workers \ {k}  PROVE Hand(l)'
  BY <1>0, <1>1, <1>3 DEF Fresh, Hand, Others, Active
<1> QED BY <1>2, <1>4, <1>5 DEF Fresh

LEMMA QueueInvHolds == Spec => []QueueInv
<1>1. Init => QueueInv
  <2> SUFFICES ASSUME Init  PROVE QueueInv
    OBVIOUS
  <2>1. CycleInv /\ TableTypes
    BY CycleInvInit, CycleTypes
  <2>2. Rows
    BY <2>1, Bounds DEF Init, Rows, Positions, Forming, Turns, Ended, TableTypes
  <2>3. \A k \in Workers : Hand(k)
    BY DEF Init, Hand, At
  <2> QED BY <2>1, <2>2, <2>3 DEF QueueInv, Fresh
<1>2. QueueInv /\ [Next]_vars => QueueInv'
  <2> SUFFICES ASSUME QueueInv, [Next]_vars  PROVE QueueInv'
    OBVIOUS
  <2>0. CycleInv /\ CycleInv' /\ TypeOK /\ HandsInv
    BY CycleInvStep, CycleTypes DEF QueueInv
  <2> SUFFICES ASSUME ~ stale'  PROVE Fresh'
    BY <2>0 DEF QueueInv
  <2>1. ~ stale /\ Fresh
    BY <2>0, HistoryIs DEF QueueInv
  <2>2. ASSUME NEW k \in Workers, Acts(k)  PROVE Fresh'
    <3>1. CASE Ask(k) \/ Stop(k)
      BY <2>0, <2>1, <3>1, HandAsk
    <3>2. CASE Step(k)
      <4>1. ~ Overwrites(k)
        BY <3>2 DEF Remember
      <4> QED BY <2>0, <2>1, <3>2, <4>1, RowsStay, HandActor, HandOthers DEF Fresh
    <3> QED BY <2>2, <3>1, <3>2 DEF Acts
  <2>3. CASE UNCHANGED <<group, members, cycles, pc, hands>>
    BY <2>1, <2>3 DEF Fresh, Rows, Positions, Forming, Turns, Ended, HadATurn, Hand, Active, At
  <2>4. CASE \E c \in Cycles, p \in People : ClaimRunsOut(c, p)
    BY <2>0, <2>3, <2>4, ClockIs
  <2> QED BY <2>2, <2>3, <2>4, NextIs DEF vars
<1> QED BY <1>1, <1>2, PTL DEF Spec

\* FairTurns: whoever joins late, whatever is lost, whoever stops and whatever
\* overlaps, nobody receives at two cycles, and a group that has ended has given
\* everyone placed in its queue a turn, as long as no request has written over what
\* another one had changed (tontines.service.ts:424 and 785).
THEOREM EveryTurnIsFair == Spec => []FairTurns
<1>1. QueueInv => FairTurns
  <2> SUFFICES ASSUME QueueInv, ~ stale  PROVE OneTurnEach /\ EveryoneHadATurn
    BY DEF FairTurns
  <2>1. Rows /\ TableTypes
    BY CycleTypes DEF QueueInv, Fresh
  <2> QED BY <2>1 DEF Rows, Turns, Ended, OneTurnEach, EveryoneHadATurn, Active
<1> QED BY <1>1, QueueInvHolds, PTL
=============================================================================
