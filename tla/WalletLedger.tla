----------------------------- MODULE WalletLedger -----------------------------
(***************************************************************************)
(* nexssflow/wallet.go and the SQL function cost_credit_wallet: one prepaid *)
(* wallet in PostgreSQL, its holds and its financial entries.              *)
(*                                                                         *)
(* Every transaction locks the wallet row with its first statement, so what *)
(* follows the lock runs without interference and is one step, from the    *)
(* lock to COMMIT; before it, a transaction waits, with the timestamp it   *)
(* was given when it began and with the owner's status as its statement's  *)
(* snapshot saw it.  A transaction may be cut off at any statement, and the *)
(* answer to its COMMIT may be lost after the server has carried it out.   *)
(***************************************************************************)
EXTENDS MicroSum

CONSTANTS Reservations, \* identities of the holds on the wallet
          TopUps,       \* idempotency keys of the billing service
          Opening,      \* balance of the wallet when it was created
          MaxInt,       \* the largest BIGINT, scaled down
          TTL,          \* reservation_ttl in ticks of the server's clock
          Estimates,    \* arguments of Reserve
          Actuals,      \* arguments of Commit
          Credits,      \* arguments of cost_credit_wallet
          MaxTime       \* bound on the clock

ASSUME WalletAssumption ==
  /\ IsFiniteSet(Reservations) /\ IsFiniteSet(TopUps)
  /\ MaxInt \in Nat /\ Opening \in 0..MaxInt
  /\ TTL \in Nat \ {0} /\ MaxTime \in Nat
  /\ Estimates \subseteq Int /\ Actuals \subseteq Int /\ Credits \subseteq Int

VARIABLES now,      \* the server's clock
          balance,  \* cost_wallets.balance_micros
          reserved, \* cost_wallets.reserved_micros
          status,   \* cost_wallets.status
          owner,    \* the status of the tenant and the user
          held,     \* cost_wallet_reservations.amount_micros, or None
          expiry,   \* cost_wallet_reservations.expires_at
          debit,    \* the debit entry of each reservation, or None
          credit,   \* the credit entry of each top-up, or None
          client,   \* what the caller knows of each reservation
          told,     \* the charge a successful Commit reported, or None
          tx,       \* the call in progress about each reservation
          arg,      \* its estimate or actual
          start,    \* its CURRENT_TIMESTAMP
          seen      \* the owner's status in its snapshot

bookVars == <<balance, reserved, held, expiry, debit, credit>>
txVars   == <<tx, arg, start, seen>>
vars == <<now, status, owner, bookVars, client, told, txVars>>

None == -1

Micros == 0..MaxInt

\* The rows of cost_wallet_reservations and the two kinds of entries.
Open     == {r \in Reservations : held[r] # None}
Debited  == {r \in Reservations : debit[r] # None}
Credited == {k \in TopUps : credit[k] # None}

Init ==
  /\ now = 0
  /\ balance = Opening
  /\ reserved = 0
  /\ status = "active"
  /\ owner = "active"
  /\ held   = [r \in Reservations |-> None]
  /\ expiry = [r \in Reservations |-> 0]
  /\ debit  = [r \in Reservations |-> None]
  /\ credit = [k \in TopUps |-> None]
  /\ client = [r \in Reservations |-> "new"]
  /\ told   = [r \in Reservations |-> None]
  /\ tx     = [r \in Reservations |-> "idle"]
  /\ arg    = [r \in Reservations |-> 0]
  /\ start  = [r \in Reservations |-> 0]
  /\ seen   = [r \in Reservations |-> "active"]
-----------------------------------------------------------------------------
(* Calls.                                                                  *)

\* BeginTx and the statement that will lock the wallet row.  The mutex of a
\* handle lets in one call at a time, so a call is identified by its r.
Begin(r, op, x) ==
  /\ tx[r] = "idle"
  /\ tx'    = [tx EXCEPT ![r] = op]
  /\ arg'   = [arg EXCEPT ![r] = x]
  /\ start' = [start EXCEPT ![r] = now]
  /\ seen'  = [seen EXCEPT ![r] = owner]
  /\ UNCHANGED <<now, status, owner, bookVars, client, told>>

\* The call returns.
Return(r, known) ==
  /\ client' = [client EXCEPT ![r] = known]
  /\ tx'     = [tx EXCEPT ![r] = "idle"]
  /\ arg'    = [arg EXCEPT ![r] = 0]
  /\ start'  = [start EXCEPT ![r] = 0]
  /\ seen'   = [seen EXCEPT ![r] = "active"]

\* What the caller knows after an error.
AfterError_Done(r) == IF tx[r] = "reserve" THEN "lost" ELSE "done"
AfterError(r) == IF tx[r] = "reserve" THEN "lost" ELSE "owned"

ValidEstimate_NoLowerBound(e) == e <= MaxInt \div 2
ValidEstimate(e) == e >= 0 /\ e <= MaxInt \div 2

Reserve(r, e) ==
  /\ client[r] = "new"
  /\ ValidEstimate(e)
  /\ Begin(r, "reserve", e)

\* A handle that is done returns nil without a transaction.
Commit(r, a) ==
  /\ client[r] = "owned"
  /\ Begin(r, "commit", IF a < 0 THEN 0 ELSE a)

Release(r) ==
  /\ client[r] = "owned"
  /\ Begin(r, "release", 0)

\* The deferred rollback, after any of the errors a call returns: a wallet or
\* owner that is not active, a hold that is gone, too little money for a
\* settlement, a lost connection.
Rollback(r) ==
  /\ tx[r] # "idle"
  /\ Return(r, AfterError(r))
  /\ UNCHANGED <<now, status, owner, bookVars, told>>
-----------------------------------------------------------------------------
(* Transactions that reach COMMIT.                                         *)

\* lockWallet(requireActiveOwner) and the check of the wallet's own status:
\* the wallet row is read under its lock, the owner's from the snapshot.
Usable_StatusOnly(r) == status = "active"
Usable(r) == seen[r] = "active" /\ status = "active"

\* The holds that reclaimExpired deletes, and reserved_micros without them.
Expired(r) == {q \in Open : expiry[q] <= start[r]}
Remaining(r) == reserved - Total(held, Expired(r))

\* Reserve after reclaimExpired: the wallet's row must make sense.
Reclaiming(r) ==
  /\ tx[r] = "reserve"
  /\ Usable(r)
  /\ 0 <= balance /\ 0 <= Remaining(r) /\ Remaining(r) <= balance

\* estimate > balance-reserved.
Insufficient_IgnoresHolds(r) == arg[r] > balance
Insufficient(r) == arg[r] > balance - Remaining(r)

\* Reserve that is refused, but commits what it reclaimed.
Refuse(r) ==
  /\ Reclaiming(r)
  /\ Insufficient(r)
  /\ reserved' = Remaining(r)
  /\ held' = [q \in Reservations |-> IF q \in Expired(r) THEN None ELSE held[q]]
  /\ Return(r, "lost")
  /\ UNCHANGED <<now, status, owner, balance, expiry, debit, credit, told>>

\* The rows after insertReservation, the expired ones gone.
Inserted_KeepsExpired(r) == [held EXCEPT ![r] = arg[r]]
Inserted(r) == [q \in Reservations |->
                  IF q = r THEN arg[r] ELSE IF q \in Expired(r) THEN None ELSE held[q]]

\* Reserve that inserts its hold and updates reserved_micros.
Grant(r) ==
  /\ Reclaiming(r)
  /\ ~Insufficient(r)
  /\ reserved' = Remaining(r) + arg[r]
  /\ held' = Inserted(r)
  /\ expiry' = [expiry EXCEPT ![r] = start[r] + TTL]
  /\ \E c \in {"owned", "lost"} : Return(r, c)
  /\ UNCHANGED <<now, status, owner, balance, debit, credit, told>>

\* actual > balance - (reserved - held), the money of other holds set aside.
Affordable_Spends(r) == arg[r] <= balance
Affordable(r) == arg[r] <= balance - (reserved - held[r])

\* Commit: the hold, if its lease is not over, is replaced by a debit; a zero
\* charge writes no entry.  The answer may be lost.
Settle_KeepsHold(r) ==
  /\ tx[r] = "commit"
  /\ Usable(r)
  /\ held[r] # None /\ expiry[r] > start[r]
  /\ held[r] <= reserved
  /\ Affordable(r)
  /\ balance'  = balance - arg[r]
  /\ debit' = [debit EXCEPT ![r] = IF arg[r] > 0 THEN arg[r] ELSE @]
  /\ \/ Return(r, "done") /\ told' = [told EXCEPT ![r] = arg[r]]
     \/ Return(r, "owned") /\ UNCHANGED told
  /\ UNCHANGED <<now, status, owner, reserved, held, expiry, credit>>
Settle(r) ==
  /\ tx[r] = "commit"
  /\ Usable(r)
  /\ held[r] # None /\ expiry[r] > start[r]
  /\ held[r] <= reserved
  /\ Affordable(r)
  /\ balance'  = balance - arg[r]
  /\ reserved' = reserved - held[r]
  /\ held'  = [held EXCEPT ![r] = None]
  /\ debit' = [debit EXCEPT ![r] = IF arg[r] > 0 THEN arg[r] ELSE @]
  /\ \/ Return(r, "done") /\ told' = [told EXCEPT ![r] = arg[r]]
     \/ Return(r, "owned") /\ UNCHANGED told
  /\ UNCHANGED <<now, status, owner, expiry, credit>>

\* Release: neither the lease nor any status matters.
Free(r) ==
  /\ tx[r] = "release"
  /\ held[r] # None
  /\ reserved' = reserved - held[r]
  /\ held' = [held EXCEPT ![r] = None]
  /\ \E c \in {"done", "owned"} : Return(r, c)
  /\ UNCHANGED <<now, status, owner, balance, expiry, debit, credit, told>>
-----------------------------------------------------------------------------
(* The billing service, the operators and the clock.                       *)

\* cost_credit_wallet.  A key that has an entry changes nothing, whether the
\* function then returns the balance or raises for a different amount; a sum
\* beyond BIGINT is an error.
CreditWallet_NoConflict(k, c) ==
  /\ c > 0
  /\ balance + c <= MaxInt
  /\ credit'  = [credit EXCEPT ![k] = c]
  /\ balance' = balance + c
  /\ UNCHANGED <<now, status, owner, reserved, held, expiry, debit, client, told, txVars>>
CreditWallet(k, c) ==
  /\ c > 0
  /\ credit[k] = None
  /\ balance + c <= MaxInt
  /\ credit'  = [credit EXCEPT ![k] = c]
  /\ balance' = balance + c
  /\ UNCHANGED <<now, status, owner, reserved, held, expiry, debit, client, told, txVars>>

\* Operators suspend and reinstate the wallet, its user or its tenant.
SetStatus(s) ==
  /\ status' = s
  /\ UNCHANGED <<now, owner, bookVars, client, told, txVars>>

SetOwner(s) ==
  /\ owner' = s
  /\ UNCHANGED <<now, status, bookVars, client, told, txVars>>

Tick ==
  /\ now < MaxTime
  /\ now' = now + 1
  /\ UNCHANGED <<status, owner, bookVars, client, told, txVars>>

Call(r) ==
  \/ \E e \in Estimates : Reserve(r, e)
  \/ \E a \in Actuals : Commit(r, a)
  \/ Release(r)

Transaction(r) == Refuse(r) \/ Grant(r) \/ Settle(r) \/ Free(r) \/ Rollback(r)

Next ==
  \/ \E r \in Reservations : Call(r) \/ Transaction(r)
  \/ \E k \in TopUps, c \in Credits : CreditWallet(k, c)
  \/ \E s \in {"active", "suspended"} : SetStatus(s) \/ SetOwner(s)
  \/ Tick

Spec == Init /\ [][Next]_vars
-----------------------------------------------------------------------------
(* Properties.                                                             *)

\* Every variable has its type.
TypeOK ==
  /\ now \in 0..MaxTime
  /\ balance \in Micros
  /\ reserved \in Micros
  /\ status \in {"active", "suspended"} /\ owner \in {"active", "suspended"}
  /\ held \in [Reservations -> Micros \cup {None}]
  /\ expiry \in [Reservations -> Nat]
  /\ debit \in [Reservations -> Nat \cup {None}]
  /\ credit \in [TopUps -> Nat \cup {None}]
  /\ client \in [Reservations -> {"new", "lost", "owned", "done"}]
  /\ told \in [Reservations -> Nat \cup {None}]
  /\ tx \in [Reservations -> {"idle", "reserve", "commit", "release"}]
  /\ arg \in [Reservations -> Nat]
  /\ start \in [Reservations -> 0..MaxTime]
  /\ seen \in [Reservations -> {"active", "suspended"}]

\* The wallet is never overdrawn, held money included (nexssflow/README "its
\* own balance cannot be overdrawn"): the checks in the code keep the row
\* within its CHECK constraints, which therefore never fire, and a charge
\* within its own live hold is always affordable.
NeverOverdrawn == 0 <= reserved /\ reserved <= balance

\* reserved_micros is the sum of the reservation rows, through expiries,
\* refusals and transactions that were cut off.
HoldsAreRows == reserved = Total(held, Open)

\* The balance is what the immutable entries say it is: no charge without its
\* entry, no charge or top-up counted twice, however often it is retried.
BooksBalance == balance = Opening + Total(credit, Credited) - Total(debit, Debited)

\* A Commit that returned nil has charged what it was asked to charge, and
\* the hold of a handle that is done is gone.
ReportedIsBooked ==
  \A r \in Reservations :
    /\ told[r] # None => debit[r] = IF told[r] > 0 THEN told[r] ELSE None
    /\ client[r] = "done" => held[r] = None

\* A charge replaces the caller's own open hold, once, and stays as written.
ChargedOnce ==
  [][\A r \in Reservations : debit'[r] # debit[r] =>
       debit[r] = None /\ held[r] # None /\ held'[r] = None]_vars

\* The calls that a suspension of the owner has overtaken, or would: their
\* snapshot shows an active owner, whatever the rows say by now.
Admitted == {r \in Reservations : tx[r] # "idle" /\ seen[r] = "active"}

\* No money is set aside and none is spent.
Frozen == balance' >= balance /\ reserved' <= reserved

\* A suspended wallet is frozen at once, also for calls that wait for its row.
\* A suspension of its tenant or user takes effect when the calls that had
\* begun are over: their number only falls, and each moves money at most once,
\* in the step that ends it.
SuspensionDrains ==
  [][/\ status # "active" => Frozen
     /\ owner # "active" => Admitted' \subseteq Admitted /\ (Admitted' = Admitted => Frozen)]_vars

\* The wallet keeps the contract of a budget whose limit is the money paid in:
\* a hold is granted only beside every other hold and debit, holds end once,
\* and a top-up or a suspension takes none back.
MB == INSTANCE MovingBudget WITH
  limit <- Opening + Total(credit, Credited), hold <- held, charge <- debit

ImplementsMovingBudget == MB!MovingSpec
=============================================================================
