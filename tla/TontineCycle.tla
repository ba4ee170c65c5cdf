---------------------------- MODULE TontineCycle ----------------------------
(***************************************************************************)
(* A tontine: people join a group, the creator draws the order in which    *)
(* they receive, and at every cycle each of the others pays its share to   *)
(* that cycle's recipient.  The group holds no money: a contribution is a  *)
(* transfer between two wallets, and the rows only say who has paid.       *)
(*                                                                         *)
(* Workers are the requests under way and the daily job; they run at once, *)
(* a step is one statement, and the reads that open a handler are taken    *)
(* together.  A worker stops before a step of Fatal when its process dies. *)
(* Every request carries a transfer key of its own: the job draws one, and *)
(* so does the page, at each tap (TontineDetail.tsx:76).                   *)
(*                                                                         *)
(* Sources: tontines/tontines.service.ts, tontines-cron.service.ts,        *)
(* wallets.service.ts (transfer), migrations 016 and 046.                  *)
(***************************************************************************)
EXTENDS Integers, FiniteSets

CONSTANTS
  People,    \* everyone who may be in the group
  Founders,  \* those who accepted before the draw
  Consent,   \* those who opted in to automatic payments
  Rounds,    \* bound: cycles of the group
  Workers,   \* requests and jobs under way
  Nobody,    \* "no member"
  MaxMoved,  \* bound: transfers of one contribution
  Lossy,     \* calls whose answer may be lost
  Fatal      \* steps before which a process may stop

PaySteps    == {"claim", "transfer", "mark", "count", "close", "end", "next",
                "open", "bill", "advance", "release"}
PeopleSteps == {"insert", "reinvite", "delete", "refuse", "accept", "widen", "join",
                "backfill", "draw", "place", "first", "billFirst"}
Steps       == PaySteps \cup PeopleSteps \cup {"idle", "overdue"}

ASSUME TontineAssumption ==
  /\ IsFiniteSet(People) /\ Founders \subseteq People
  /\ Consent \subseteq People
  /\ Nobody \notin People
  /\ Rounds \in Nat /\ Cardinality(Founders) \in 1..Rounds
  /\ MaxMoved \in Nat \ {0}
  /\ Lossy \subseteq {"transfer", "mark", "count"}
  /\ Fatal \subseteq PaySteps \cup PeopleSteps

Cycles == 1..Rounds

VARIABLES
  status,    \* tontine_groups.status
  current,   \* tontine_groups.current_cycle
  seats,     \* tontine_groups.max_members
  member,    \* tontine_members.status ("none": no row)
  position,  \* tontine_members.payout_position (0: null)
  cycle,     \* tontine_cycles.status ("none": no row)
  recipient, \* tontine_cycles.recipient_member_id
  due,       \* tontine_contributions.status, by cycle and member
  claimed,   \* claimed_at is less than two minutes old
  moved,     \* transfers of the contribution that went through
  pc,        \* the step a worker is about to take
  who,       \* the member it works for
  of,        \* the cycle it read
  room,      \* max_members as it read it
  seat,      \* the payout position it computed or reached
  team,      \* the members it read
  left,      \* those of them it has not placed yet
  next,      \* the recipient of the cycle it opens
  lost,      \* history: shares a payment of which lost an answer that mattered,
             \* stopped before its mark, or outlasted its claim
  late,      \* history: shares billed for a cycle closed or counted already
  guessed,   \* history: cycles closed on a count that failed
  vacant,    \* history: cycles closed while nobody held the next position
  stale      \* history: a request wrote over what another one had changed

group   == <<status, current, seats>>
members == <<member, position>>
cycles  == <<cycle, recipient>>
shares  == <<due, claimed, moved>>
hands   == <<who, of, room, seat, team, left, next>>
history == <<lost, late, guessed, vacant, stale>>
vars    == <<group, members, cycles, shares, pc, hands, history>>

Owing(c)  == {p \in People : due[c][p] \in {"pending", "overdue"}}
Billed(c) == {p \in People : due[c][p] # "none"}
Active    == {p \in People : member[p] = "active"}

-----------------------------------------------------------------------------
(* How a worker moves.                                                     *)

At(k, step) == pc[k] = step
Goto(k, step) == pc' = [pc EXCEPT ![k] = step] /\ UNCHANGED hands

Finish(k) ==
  /\ pc' = [pc EXCEPT ![k] = "idle"]
  /\ who' = [who EXCEPT ![k] = Nobody]
  /\ of' = [of EXCEPT ![k] = 0]
  /\ room' = [room EXCEPT ![k] = 0]
  /\ seat' = [seat EXCEPT ![k] = 0]
  /\ team' = [team EXCEPT ![k] = {}]
  /\ left' = [left EXCEPT ![k] = {}]
  /\ next' = [next EXCEPT ![k] = Nobody]

\* A payment that throws releases its claim (executeContribution).
Fail(k) == Goto(k, "release")

\* A request starts, for p, with what it read; c is the cycle it is about.
Begin(k, step, p, c) ==
  /\ At(k, "idle")
  /\ pc' = [pc EXCEPT ![k] = step]
  /\ who' = [who EXCEPT ![k] = p]
  /\ of' = [of EXCEPT ![k] = c]
  /\ room' = [room EXCEPT ![k] = seats]
  /\ seat' = [seat EXCEPT ![k] = 0]
  /\ team' = [team EXCEPT ![k] = {}]
  /\ left' = [left EXCEPT ![k] = {}]
  /\ next' = [next EXCEPT ![k] = Nobody]

SetMember(p, s)   == member' = [member EXCEPT ![p] = s]
SetDue(c, p, s)   == due' = [due EXCEPT ![c][p] = s]
SetClaim(c, p, s) == claimed' = [claimed EXCEPT ![c][p] = s]

-----------------------------------------------------------------------------
Init ==
  /\ status = "forming" /\ current = 0 /\ seats = Cardinality(Founders)
  /\ member = [p \in People |-> IF p \in Founders THEN "active" ELSE "none"]
  /\ position = [p \in People |-> 0]
  /\ cycle = [c \in Cycles |-> "none"]
  /\ recipient = [c \in Cycles |-> Nobody]
  /\ due = [c \in Cycles |-> [p \in People |-> "none"]]
  /\ claimed = [c \in Cycles |-> [p \in People |-> FALSE]]
  /\ moved = [c \in Cycles |-> [p \in People |-> 0]]
  /\ pc = [k \in Workers |-> "idle"]
  /\ who = [k \in Workers |-> Nobody]
  /\ of = [k \in Workers |-> 0]
  /\ room = [k \in Workers |-> 0]
  /\ seat = [k \in Workers |-> 0]
  /\ team = [k \in Workers |-> {}]
  /\ left = [k \in Workers |-> {}]
  /\ next = [k \in Workers |-> Nobody]
  /\ lost = {} /\ late = {} /\ guessed = {} /\ vacant = {} /\ stale = FALSE

-----------------------------------------------------------------------------
(* The members: inviting, cancelling, answering.                           *)

inviteMember(k, p) ==
  /\ status \in {"forming", "active"}
  /\ status = "forming" =>
       Cardinality({q \in People : member[q] \notin {"none", "declined"}}) < seats
  /\ \/ member[p] = "none" /\ Begin(k, "insert", p, 0)
     \/ member[p] = "declined" /\ Begin(k, "reinvite", p, 0)
  /\ UNCHANGED <<group, members, cycles, shares>>

\* (group_id, user_id) is unique: a second insertion fails.
InsertMember(k) ==
  /\ At(k, "insert")
  /\ IF member[who[k]] = "none" THEN SetMember(who[k], "invited") ELSE UNCHANGED member
  /\ Finish(k)
  /\ UNCHANGED <<group, position, cycles, shares>>

\* The row is reset whatever it has become, unless it is gone.
Reinvite(k) ==
  /\ At(k, "reinvite")
  /\ IF member[who[k]] # "none" THEN SetMember(who[k], "invited") ELSE UNCHANGED member
  /\ Finish(k)
  /\ UNCHANGED <<group, position, cycles, shares>>

cancelInvite(k, p) ==
  /\ member[p] = "invited"
  /\ Begin(k, "delete", p, 0)
  /\ UNCHANGED <<group, members, cycles, shares>>

\* The row is deleted whatever it has become; a cycle or a contribution keeps it.
DeleteMember(k) ==
  /\ At(k, "delete")
  /\ IF \E c \in Cycles : recipient[c] = who[k] \/ who[k] \in Billed(c)
       THEN UNCHANGED members
       ELSE /\ SetMember(who[k], "none")
            /\ position' = [position EXCEPT ![who[k]] = 0]
  /\ Finish(k)
  /\ UNCHANGED <<group, cycles, shares>>

LastPosition == CHOOSE n \in 0..Rounds :
                  /\ \A p \in People : position[p] <= n
                  /\ n = 0 \/ \E p \in People : position[p] = n

\* The answer to an invitation; who joins a group that runs takes a seat at
\* the back of the queue.
respondToInvite(k, p) ==
  /\ member[p] = "invited"
  /\ \/ Begin(k, "refuse", p, 0)
     \/ status # "active" /\ Begin(k, "accept", p, 0)
     \/ /\ status = "active" /\ seats < Rounds /\ LastPosition < Rounds
        /\ Begin(k, "widen", p, current)
  /\ UNCHANGED <<group, members, cycles, shares>>

\* The row takes the answer whatever it has become, unless it is gone.
Answered(k, s) ==
  /\ IF member[who[k]] # "none" THEN SetMember(who[k], s) ELSE UNCHANGED member
  /\ Finish(k)
  /\ UNCHANGED <<group, position, cycles, shares>>

Refuse(k) == At(k, "refuse") /\ Answered(k, "declined")
Accept(k) == At(k, "accept") /\ Answered(k, "active")

Widen_SeatsKept(k) ==               \* mutant: the group is not extended
  /\ At(k, "widen") /\ room[k] < Rounds /\ LastPosition < Rounds
  /\ seat' = [seat EXCEPT ![k] = LastPosition + 1]
  /\ pc' = [pc EXCEPT ![k] = "join"]
  /\ UNCHANGED <<group, members, cycles, shares, who, of, room, team, left, next>>

\* The last position is read, then the group grows from the max_members read
\* when the request began.
Widen(k) ==
  /\ At(k, "widen") /\ room[k] < Rounds /\ LastPosition < Rounds
  /\ seats' = room[k] + 1
  /\ seat' = [seat EXCEPT ![k] = LastPosition + 1]
  /\ pc' = [pc EXCEPT ![k] = "join"]
  /\ UNCHANGED <<status, current, members, cycles, shares, who, of, room, team, left, next>>

Join(k) ==
  /\ At(k, "join")
  /\ IF member[who[k]] = "none"
       THEN Finish(k) /\ UNCHANGED members
       ELSE /\ SetMember(who[k], "active")
            /\ position' = [position EXCEPT ![who[k]] = seat[k]]
            /\ IF of[k] \in Cycles /\ cycle[of[k]] # "none"
                 THEN Goto(k, "backfill") ELSE Finish(k)
  /\ UNCHANGED <<group, cycles, shares>>

\* Its share of the cycle it read as current; (cycle_id, member_id) is unique.
Backfill(k) ==
  /\ At(k, "backfill")
  /\ IF due[of[k]][who[k]] = "none" /\ member[who[k]] # "none"
       THEN SetDue(of[k], who[k], "pending") ELSE UNCHANGED due
  /\ Finish(k)
  /\ UNCHANGED <<group, members, cycles, claimed, moved>>

-----------------------------------------------------------------------------
(* The draw, and the opening of a cycle.                                   *)

drawOrder(k) ==
  /\ status = "forming" /\ Cardinality(Active) = seats
  /\ At(k, "idle") /\ pc' = [pc EXCEPT ![k] = "draw"]
  /\ team' = [team EXCEPT ![k] = Active]
  /\ left' = [left EXCEPT ![k] = Active]
  /\ seat' = [seat EXCEPT ![k] = 0]
  /\ of' = [of EXCEPT ![k] = 0]
  /\ UNCHANGED <<group, members, cycles, shares, who, room, next>>

\* One UPDATE while still forming: of two draws one goes on.
ClaimDraw(k) ==
  /\ At(k, "draw")
  /\ IF status = "forming"
       THEN status' = "active" /\ current' = 1 /\ Goto(k, "place")
       ELSE UNCHANGED <<status, current>> /\ Finish(k)
  /\ UNCHANGED <<seats, members, cycles, shares>>

\* One position at a time, in an order nobody can foresee.
Place(k, p) ==
  /\ At(k, "place") /\ p \in left[k]
  /\ position' = IF member[p] = "none" THEN position
                 ELSE [position EXCEPT ![p] = seat[k] + 1]
  /\ seat' = [seat EXCEPT ![k] = @ + 1]
  /\ left' = [left EXCEPT ![k] = @ \ {p}]
  /\ next' = IF seat[k] = 0 THEN [next EXCEPT ![k] = p] ELSE next
  /\ pc' = [pc EXCEPT ![k] = IF left[k] = {p} THEN "first" ELSE "place"]
  /\ UNCHANGED <<group, member, cycles, shares, who, of, room, team>>

\* The cycle after the one read; (group_id, cycle_number) is unique.
createCycle(k, then, thrown) ==
  LET c == of[k] + 1 IN
  /\ IF cycle[c] = "none" /\ member[next[k]] # "none"
       THEN /\ cycle' = [cycle EXCEPT ![c] = "active"]
            /\ recipient' = [recipient EXCEPT ![c] = next[k]]
            /\ then
       ELSE UNCHANGED cycles /\ thrown
  /\ UNCHANGED <<group, members, shares>>

\* A share for each member read but the recipient, all or none.
generateContributions(k, then, thrown) ==
  LET c == of[k] + 1
      owers == team[k] \ {next[k]}
  IN
  /\ IF \A p \in owers : due[c][p] = "none" /\ member[p] # "none"
       THEN /\ due' = [due EXCEPT ![c] = [p \in People |->
                         IF p \in owers THEN "pending" ELSE @[p]]]
            /\ then
       ELSE UNCHANGED due /\ thrown
  /\ UNCHANGED <<group, members, cycles, claimed, moved>>

FirstCycle(k) == At(k, "first") /\ createCycle(k, Goto(k, "billFirst"), Finish(k))
FirstBill(k)  == At(k, "billFirst") /\ generateContributions(k, Finish(k), Finish(k))

-----------------------------------------------------------------------------
(* A contribution, paid by the member or by the job.                       *)

contribute(k, p) ==
  /\ status = "active" /\ current \in Cycles
  /\ p \in Owing(current) /\ member[p] # "none"
  /\ Begin(k, "claim", p, current)
  /\ UNCHANGED <<group, members, cycles, shares>>

\* The daily job pays for those who consented, and only shares not yet overdue.
runAutoPayments(k, p) ==
  /\ status = "active" /\ current \in Cycles
  /\ due[current][p] = "pending" /\ p \in Consent
  /\ Begin(k, "claim", p, current)
  /\ UNCHANGED <<group, members, cycles, shares>>

Claim_WhoeverHasIt(k) ==            \* mutant: as before migration 046
  /\ At(k, "claim")
  /\ IF who[k] \in Owing(of[k])
       THEN SetClaim(of[k], who[k], TRUE) /\ Goto(k, "transfer")
       ELSE UNCHANGED claimed /\ Finish(k)
  /\ UNCHANGED <<group, members, cycles, due, moved>>

\* One UPDATE takes the contribution, unless it is paid or being paid.
claimContribution(k) ==
  /\ At(k, "claim")
  /\ IF who[k] \in Owing(of[k]) /\ ~claimed[of[k]][who[k]]
       THEN SetClaim(of[k], who[k], TRUE) /\ Goto(k, "transfer")
       ELSE UNCHANGED claimed /\ Finish(k)
  /\ UNCHANGED <<group, members, cycles, due, moved>>

\* transfer_wallet: one debit, one credit, one SUCCESS, in one transaction.
transfer_wallet(c, p) ==
  /\ moved[c][p] < MaxMoved
  /\ moved' = [moved EXCEPT ![c][p] = @ + 1]

\* The transfer goes through or is refused; its answer may be lost after the
\* money has moved, and is then taken for a refusal.
transfer(k) ==
  /\ At(k, "transfer")
  /\ \/ /\ transfer_wallet(of[k], who[k])
        /\ Goto(k, "mark") \/ ("transfer" \in Lossy /\ Fail(k))
     \/ UNCHANGED moved /\ Fail(k)
  /\ UNCHANGED <<group, members, cycles, due, claimed>>

\* The same for the mark: written or not, it is taken for a failure.
MarkPaid(k) ==
  /\ At(k, "mark")
  /\ \/ SetDue(of[k], who[k], "paid") /\ Goto(k, "count")
     \/ /\ "mark" \in Lossy /\ Fail(k)
        /\ SetDue(of[k], who[k], "paid") \/ UNCHANGED due
  /\ UNCHANGED <<group, members, cycles, claimed, moved>>

releaseContribution(k) ==
  /\ At(k, "release")
  /\ IF due[of[k]][who[k]] # "paid"
       THEN SetClaim(of[k], who[k], FALSE) ELSE UNCHANGED claimed
  /\ Finish(k)
  /\ UNCHANGED <<group, members, cycles, due, moved>>

\* Nobody owes anything any more?  A count that fails reads as zero.
CountOwing(k) ==
  /\ At(k, "count")
  /\ \/ Owing(of[k]) = {} /\ Goto(k, "close")
     \/ Owing(of[k]) # {} /\ Finish(k)
     \/ "count" \in Lossy /\ Goto(k, "close")
  /\ UNCHANGED <<group, members, cycles, shares>>

\* The last cycle is told from the max_members read when the request began.
CompleteCycle(k) ==
  /\ At(k, "close")
  /\ cycle' = [cycle EXCEPT ![of[k]] = "completed"]
  /\ Goto(k, IF of[k] >= room[k] THEN "end" ELSE "next")
  /\ UNCHANGED <<group, members, recipient, shares>>

CompleteGroup(k) ==
  /\ At(k, "end")
  /\ status' = "completed"
  /\ Finish(k)
  /\ UNCHANGED <<current, seats, members, cycles, shares>>

\* Exactly one member must hold the next position.
NextRecipient(k) ==
  /\ At(k, "next")
  /\ LET heirs == {p \in People : member[p] # "none" /\ position[p] = of[k] + 1} IN
     \/ \E p \in heirs :
          /\ heirs = {p}
          /\ next' = [next EXCEPT ![k] = p]
          /\ team' = [team EXCEPT ![k] = Active]
          /\ pc' = [pc EXCEPT ![k] = "open"]
          /\ UNCHANGED <<who, of, room, seat, left>>
     \/ (~ \E p \in heirs : heirs = {p}) /\ Fail(k)
  /\ UNCHANGED <<group, members, cycles, shares>>

NextCycle(k) == At(k, "open") /\ createCycle(k, Goto(k, "bill"), Fail(k))
NextBill(k)  == At(k, "bill") /\ generateContributions(k, Goto(k, "advance"), Fail(k))

Advance_Forgotten(k) ==             \* mutant: current_cycle is left behind
  /\ At(k, "advance")
  /\ Finish(k)
  /\ UNCHANGED <<group, members, cycles, shares>>

AdvanceGroup(k) ==
  /\ At(k, "advance")
  /\ current' = of[k] + 1
  /\ Finish(k)
  /\ UNCHANGED <<status, seats, members, cycles, shares>>

-----------------------------------------------------------------------------
(* The job that marks shares overdue, the clock, a process that stops.     *)

escalateOverdue(k, c, p) ==
  /\ due[c][p] = "pending"
  /\ Begin(k, "overdue", p, c)
  /\ UNCHANGED <<group, members, cycles, shares>>

MarkOverdue_Blind(k) ==             \* mutant: without .neq('status', 'paid')
  /\ At(k, "overdue")
  /\ SetDue(of[k], who[k], "overdue")
  /\ Finish(k)
  /\ UNCHANGED <<group, members, cycles, claimed, moved>>

MarkOverdue(k) ==
  /\ At(k, "overdue")
  /\ IF due[of[k]][who[k]] # "paid"
       THEN SetDue(of[k], who[k], "overdue") ELSE UNCHANGED due
  /\ Finish(k)
  /\ UNCHANGED <<group, members, cycles, claimed, moved>>

Paying(k, c, p) ==
  pc[k] \in PaySteps \ {"claim"} /\ of[k] = c /\ who[k] = p

Marking(k, c, p) == At(k, "mark") /\ of[k] = c /\ who[k] = p

\* CONTRIBUTION_CLAIM_TTL_MS has passed since the claim, even of a payment that
\* is still under way.
ClaimRunsOut(c, p) ==
  /\ claimed[c][p] /\ p \in Owing(c)
  /\ SetClaim(c, p, FALSE)
  /\ lost' = lost \cup {s \in {<<c, p>>} : \E k \in Workers : Paying(k, c, p)}
  /\ UNCHANGED <<group, members, cycles, due, moved, pc, hands, late, guessed, vacant, stale>>

Stop(k) ==
  /\ pc[k] \in Fatal
  /\ Finish(k)
  /\ lost' = lost \cup {s \in {<<of[k], who[k]>>} : At(k, "mark")}
  /\ UNCHANGED <<group, members, cycles, shares, late, guessed, vacant, stale>>

-----------------------------------------------------------------------------
Ask(k) ==
  \/ \E p \in People : \/ inviteMember(k, p) \/ cancelInvite(k, p) \/ respondToInvite(k, p)
                       \/ contribute(k, p) \/ runAutoPayments(k, p)
                       \/ \E c \in Cycles : escalateOverdue(k, c, p)
  \/ drawOrder(k)

Work(k) ==
  \/ InsertMember(k) \/ Reinvite(k) \/ DeleteMember(k) \/ Refuse(k) \/ Accept(k)
  \/ Widen(k) \/ Join(k) \/ Backfill(k)
  \/ ClaimDraw(k) \/ (\E p \in People : Place(k, p)) \/ FirstCycle(k) \/ FirstBill(k)
  \/ claimContribution(k) \/ transfer(k) \/ MarkPaid(k) \/ releaseContribution(k)
  \/ CountOwing(k) \/ CompleteCycle(k) \/ CompleteGroup(k) \/ NextRecipient(k)
  \/ NextCycle(k) \/ NextBill(k) \/ AdvanceGroup(k) \/ MarkOverdue(k)

\* The writes that nothing in the code keeps from landing on a newer row: an
\* invitation sent again, cancelled or refused once it has been accepted; the
\* answer of a newcomer whose row is no longer that of an invitation, whose place
\* in the queue is taken or whose group has ended; a max_members read before
\* another newcomer; a position drawn that a newcomer took; the end of a group that
\* has grown since.
Overwrites(k) ==
  \/ pc[k] \in {"reinvite", "delete", "refuse"} /\ member[who[k]] = "active"
  \/ At(k, "widen") /\ room[k] # seats
  \/ /\ At(k, "join")
     /\ \/ member[who[k]] # "invited" \/ status = "completed"
        \/ \E p \in People : position[p] = seat[k]
  \/ At(k, "place") /\ \E p \in People : position[p] = seat[k] + 1
  \/ At(k, "end") /\ of[k] < seats

\* Nobody owes anything for this cycle, as far as those who close it know.
Counted(c) == cycle[c] = "completed" \/ \E k \in Workers : At(k, "close") /\ of[k] = c

\* What the history keeps of a step: a transfer that went through and was not taken
\* for it, a mark not known to be written, a count that failed, shares billed late
\* by the answer of a newcomer or by the draw, a cycle with nobody to follow.
Remember(k) ==
  /\ lost' = lost \cup {s \in {<<of[k], who[k]>>} :
                 \/ At(k, "transfer") /\ moved' # moved /\ pc'[k] # "mark"
                 \/ At(k, "mark") /\ pc'[k] # "count"}
  /\ late' = late \cup {s \in Cycles \X People :
                 /\ pc[k] \in {"backfill", "billFirst"} /\ Counted(s[1])
                 /\ due[s[1]][s[2]] = "none" /\ due'[s[1]][s[2]] # "none"}
  /\ guessed' = guessed \cup {c \in {of[k]} : At(k, "count") /\ pc'[k] = "close" /\ Owing(c) # {}}
  /\ vacant' = vacant \cup {c \in {of[k]} : At(k, "next") /\ pc'[k] = "release"}
  /\ stale' = (stale \/ Overwrites(k))

Step(k) == Work(k) /\ Remember(k)

Next ==
  \/ \E k \in Workers : Ask(k) /\ UNCHANGED history
  \/ \E k \in Workers : Step(k) \/ Stop(k)
  \/ \E c \in Cycles, p \in People : ClaimRunsOut(c, p)

Spec     == Init /\ [][Next]_vars
FairSpec == Spec /\ \A k \in Workers : WF_vars(Step(k))

-----------------------------------------------------------------------------
\* The rows and the workers keep their types; claims and counts stay in bounds.
TypeOK ==
  /\ status \in {"forming", "active", "completed"}
  /\ current \in 0..Rounds /\ seats \in 0..Rounds
  /\ member \in [People -> {"none", "invited", "active", "declined"}]
  /\ position \in [People -> 0..Rounds]
  /\ cycle \in [Cycles -> {"none", "active", "completed"}]
  /\ recipient \in [Cycles -> People \cup {Nobody}]
  /\ due \in [Cycles -> [People -> {"none", "pending", "overdue", "paid"}]]
  /\ claimed \in [Cycles -> [People -> BOOLEAN]]
  /\ moved \in [Cycles -> [People -> 0..MaxMoved]]
  /\ pc \in [Workers -> Steps]
  /\ who \in [Workers -> People \cup {Nobody}]
  /\ of \in [Workers -> 0..Rounds]
  /\ room \in [Workers -> 0..Rounds]
  /\ seat \in [Workers -> 0..Rounds]
  /\ team \in [Workers -> SUBSET People] /\ left \in [Workers -> SUBSET People]
  /\ next \in [Workers -> People \cup {Nobody}]
  /\ lost \subseteq Cycles \X People /\ late \subseteq Cycles \X People
  /\ guessed \subseteq Cycles /\ vacant \subseteq Cycles /\ stale \in BOOLEAN

\* A contribution is paid once, and the row says so: a row is paid only if its
\* money has moved ("Only a transfer that really completed marks a contribution as
\* paid", tontines.service.ts:739), and the money of a share that is not lost moves
\* at most once and is on the row or about to be put there ("A tontine contribution
\* is paid once", migration 046).
PaidOnce ==
  \A c \in Cycles, p \in People :
    /\ due[c][p] = "paid" => moved[c][p] > 0
    /\ \/ <<c, p>> \in lost
       \/ moved[c][p] = 0
       \/ moved[c][p] = 1 /\ (due[c][p] = "paid" \/ \E k \in Workers : Marking(k, c, p))

\* A cycle is closed only when nobody owes it anything, whatever the job made
\* overdue (tontines.service.ts:766): only a count that failed, or a share billed
\* late by the answer of a newcomer or by the draw, is left owing.
ClosedIsPaid ==
  \A c \in Cycles : cycle[c] = "completed" =>
    c \in guessed \/ \A p \in Owing(c) : <<c, p>> \in late

\* The shares: both, and everything has its type.
SharesAddUp == TypeOK /\ PaidOnce /\ ClosedIsPaid

\* Nobody receives at two cycles, although the last two payers of a cycle may
\* both close it and both open the next (tontines.service.ts:785).
OneTurnEach ==
  \A c, d \in Cycles : recipient[c] = recipient[d] /\ recipient[c] # Nobody => c = d

HadATurn(p) == \E c \in Cycles : recipient[c] = p /\ cycle[c] = "completed"

\* A group ends only when everyone placed in its queue has received, the one
\* who joined after the draw included: "extend the group by one cycle so the
\* newcomer is guaranteed their turn" (tontines.service.ts:424).
EveryoneHadATurn ==
  status = "completed" => \A p \in Active : position[p] > 0 => HadATurn(p)

\* Each receives, and once, as long as no request has written over another one.
FairTurns == stale \/ (OneTurnEach /\ EveryoneHadATurn)

PaidUp ==
  /\ status = "active" /\ current \in Cycles
  /\ Billed(current) # {} /\ Owing(current) = {}

\* A cycle whose shares are all paid does not stay the current one: one of
\* those who paid last closes it and opens the next, or ends the group, even
\* when several try at once (tontines.service.ts:785), unless a request wrote over
\* another one or nobody held the next position yet when it was closed.
PaidCycleMovesOn == []<>(~PaidUp \/ stale \/ current \in vacant)

\* A share that is paid stays paid: the job that marks shares overdue read it
\* unpaid earlier (tontines-cron.service.ts:134).
PaidStaysPaid ==
  [][\A c \in Cycles, p \in People : due[c][p] = "paid" => due'[c][p] = "paid"]_vars
=============================================================================
