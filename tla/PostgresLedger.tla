---------------------------- MODULE PostgresLedger ----------------------------
(***************************************************************************)
(* adapters/postgres/ledger.go: Reserve, Commit and Release of the ledger  *)
(* kept in PostgreSQL.  Every call is a transaction of several statements; *)
(* a statement that changes or locks a row waits for the transaction that  *)
(* holds the row, and other transactions see its writes only once it has   *)
(* committed.  A transaction may end at any statement (context cancelled,  *)
(* connection lost, deadlock victim, server restart), and the answer to    *)
(* its COMMIT may be lost after the server has carried it out.             *)
(*                                                                         *)
(* Reserve locks the budget row and then the reservation rows it reclaims; *)
(* Commit and Release lock their reservation row and then the budget row.  *)
(* phase, amount and charge are history variables, the abstract Budget's   *)
(* view, moved when a transaction commits.                                 *)
(***************************************************************************)
EXTENDS Budget

CONSTANTS NoTx,      \* a row that no transaction has locked
          MaxInt,    \* the largest BIGINT, scaled down
          TTL,       \* ReservationTTL in ticks of the server's clock
          Estimates, \* arguments of Reserve
          Actuals,   \* arguments of Commit
          MaxTime    \* bound on the clock

ASSUME PostgresAssumption ==
  /\ NoTx \notin Reservations
  /\ MaxInt \in Nat /\ Limit <= MaxInt /\ Amounts = 0..MaxInt
  /\ TTL \in Nat \ {0} /\ MaxTime \in Nat
  /\ Estimates \subseteq -(MaxInt + 1)..MaxInt
  /\ Actuals   \subseteq -(MaxInt + 1)..MaxInt

VARIABLES now,        \* the server's clock
          used,       \* cost_budgets.used_micros, committed
          held,       \* cost_reservations.amount_micros, committed, or None
          expiry,     \* cost_reservations.expires_at
          budgetLock, \* the transaction that locked the budget row
          rowLock,    \* the transaction that locked each reservation row
          client,     \* what the caller knows of each reservation
          tx,         \* the next statement of the call about a reservation
          op,         \* which call it is
          arg,        \* its estimate or actual
          start,      \* its CURRENT_TIMESTAMP, fixed when it begins
          newUsed,    \* the used_micros it has read or written
          reclaimed   \* the expired rows it has deleted

tableVars == <<now, used, held, expiry>>
lockVars  == <<budgetLock, rowLock>>
txVars    == <<tx, op, arg, start, newUsed, reclaimed>>
vars == <<phase, amount, charge, tableVars, lockVars, client, txVars>>

None == -1

BigInt == -(MaxInt + 1)..MaxInt

\* A call about r is identified by r: the handle's mutex lets in one at a
\* time, and no handle exists before Reserve returns.
Init ==
  /\ BudgetInit
  /\ now = 0
  /\ used = 0
  /\ held   = [r \in Reservations |-> None]
  /\ expiry = [r \in Reservations |-> 0]
  /\ budgetLock = NoTx
  /\ rowLock = [r \in Reservations |-> NoTx]
  /\ client = [r \in Reservations |-> "new"]
  /\ tx     = [r \in Reservations |-> "idle"]
  /\ op     = [r \in Reservations |-> "reserve"]
  /\ arg    = [r \in Reservations |-> 0]
  /\ start  = [r \in Reservations |-> 0]
  /\ newUsed   = [r \in Reservations |-> 0]
  /\ reclaimed = [r \in Reservations |-> {}]

\* BeginTx: the transaction's timestamp is taken here.
Begin(r, o, x, first) ==
  /\ tx[r] = "idle"
  /\ tx'    = [tx EXCEPT ![r] = first]
  /\ op'    = [op EXCEPT ![r] = o]
  /\ arg'   = [arg EXCEPT ![r] = x]
  /\ start' = [start EXCEPT ![r] = now]
  /\ UNCHANGED <<phase, amount, charge, tableVars, lockVars, client, newUsed, reclaimed>>

Unlocked_Kept(r) == budgetLock
Unlocked(r) == IF budgetLock = r THEN NoTx ELSE budgetLock

\* The transaction of r is over: its locks are gone and so are its locals.
Close(r) ==
  /\ budgetLock' = Unlocked(r)
  /\ rowLock' = [q \in Reservations |-> IF rowLock[q] = r THEN NoTx ELSE rowLock[q]]
  /\ tx'    = [tx EXCEPT ![r] = "idle"]
  /\ op'    = [op EXCEPT ![r] = "reserve"]
  /\ arg'   = [arg EXCEPT ![r] = 0]
  /\ start' = [start EXCEPT ![r] = 0]
  /\ newUsed'   = [newUsed EXCEPT ![r] = 0]
  /\ reclaimed' = [reclaimed EXCEPT ![r] = {}]

\* What the caller knows after a call that returned an error.
AfterError_Owned(r) == "owned"
AfterError(r) == IF op[r] = "reserve" THEN "lost" ELSE "owned"

\* The deferred rollback: nothing that the transaction wrote remains.
Abort(r) ==
  /\ tx[r] # "idle"
  /\ Close(r)
  /\ client' = [client EXCEPT ![r] = AfterError(r)]
  /\ UNCHANGED <<phase, amount, charge, tableVars>>
-----------------------------------------------------------------------------
(* Reserve.                                                                *)

ValidEstimate(e) == e >= 0 /\ e <= MaxInt \div 2

Reserve(r, e) ==
  /\ client[r] = "new"
  /\ ValidEstimate(e)
  /\ Begin(r, "reserve", e, "lockBudget")

\* SELECT used_micros ... FROM cost_budgets ... FOR UPDATE.
ForUpdate_NoLock(r) == UNCHANGED budgetLock
ForUpdate(r) == budgetLock = NoTx /\ budgetLock' = r

LockBudget(r) ==
  /\ tx[r] = "lockBudget"
  /\ ForUpdate(r)
  /\ newUsed' = [newUsed EXCEPT ![r] = used]
  /\ tx' = [tx EXCEPT ![r] = "reclaim"]
  /\ UNCHANGED <<phase, amount, charge, tableVars, rowLock, client, op, arg, start, reclaimed>>

\* Rows whose lease is over at the transaction's timestamp.
Expired(r) == {q \in Reservations : held[q] # None /\ expiry[q] <= start[r]}

\* limit >= 0 && used > limit-estimate.
OverBudget_OffByOne(u, e) == Limit >= 0 /\ u > Limit - e + 1
OverBudget(u, e) == Limit >= 0 /\ u > Limit - e

\* Sums and differences of int64 in Go, which wrap around: used -= reclaimed
\* and used+estimate have no overflow guard.
Modulus == 2 * (MaxInt + 1)
Wrap(x) ==
  IF x > MaxInt THEN x - Modulus ELSE IF x < -(MaxInt + 1) THEN x + Modulus ELSE x

\* DELETE ... WHERE expires_at <= CURRENT_TIMESTAMP waits for whoever ends
\* one of these reservations; a SUM that no int64 holds is an error of Scan.
\* Then the budget check on the reclaimed value.
Reclaim(r) ==
  LET gone == Total(held, Expired(r))
      left == Wrap(newUsed[r] - gone)
  IN
  /\ tx[r] = "reclaim"
  /\ \A q \in Expired(r) : rowLock[q] = NoTx
  /\ IF gone <= MaxInt
       THEN /\ rowLock' = [q \in Reservations |-> IF q \in Expired(r) THEN r ELSE rowLock[q]]
            /\ reclaimed' = [reclaimed EXCEPT ![r] = Expired(r)]
            /\ newUsed' = [newUsed EXCEPT ![r] = left]
            /\ tx' = [tx EXCEPT ![r] = IF OverBudget(left, arg[r]) THEN "refuse" ELSE "insert"]
            /\ UNCHANGED <<phase, amount, charge, tableVars, budgetLock, client, op, arg, start>>
       ELSE Abort(r)

\* INSERT the reservation, with the lease counted from the transaction's
\* timestamp, and UPDATE the budget row.
Insert(r) ==
  /\ tx[r] = "insert"
  /\ newUsed' = [newUsed EXCEPT ![r] = Wrap(newUsed[r] + arg[r])]
  /\ tx' = [tx EXCEPT ![r] = "grant"]
  /\ UNCHANGED <<phase, amount, charge, tableVars, lockVars, client, op, arg, start, reclaimed>>

\* The committed rows and phases once r's reclaimed rows are gone.
HeldAfter(r) == [q \in Reservations |-> IF q \in reclaimed[r] THEN None ELSE held[q]]
PhaseAfter(r) == [q \in Reservations |-> IF q \in reclaimed[r] THEN "expired" ELSE phase[q]]

\* COMMIT of a Reserve that has its reservation.
CommitReserve(r) ==
  /\ tx[r] = "grant"
  /\ used'   = newUsed[r]
  /\ held'   = [HeldAfter(r) EXCEPT ![r] = arg[r]]
  /\ expiry' = [expiry EXCEPT ![r] = start[r] + TTL]
  /\ phase'  = [PhaseAfter(r) EXCEPT ![r] = "held"]
  /\ amount' = [amount EXCEPT ![r] = arg[r]]
  /\ client' \in {[client EXCEPT ![r] = c] : c \in {"owned", AfterError(r)}}
  /\ Close(r)
  /\ UNCHANGED <<charge, now>>

\* COMMIT of a Reserve over budget, which keeps what it reclaimed.
CommitReclaimed(r) ==
  /\ tx[r] = "refuse"
  /\ used'   = newUsed[r]
  /\ held'   = HeldAfter(r)
  /\ phase'  = PhaseAfter(r)
  /\ client' = [client EXCEPT ![r] = AfterError(r)]
  /\ Close(r)
  /\ UNCHANGED <<amount, charge, now, expiry>>
-----------------------------------------------------------------------------
(* Commit and Release.                                                     *)

Clamp_None(a) == a
Clamp(a) == IF a < 0 THEN 0 ELSE a

\* A handle that is done returns nil without a transaction.
Commit(r, a) ==
  /\ client[r] = "owned"
  /\ Begin(r, "commit", Clamp(a), "deleteRow")

Release(r) ==
  /\ client[r] = "owned"
  /\ Begin(r, "release", 0, "deleteRow")

\* DELETE FROM cost_reservations WHERE id = $1 RETURNING amount_micros.
DeleteRow(r) ==
  /\ tx[r] = "deleteRow"
  /\ held[r] # None
  /\ rowLock[r] = NoTx
  /\ rowLock' = [rowLock EXCEPT ![r] = r]
  /\ tx' = [tx EXCEPT ![r] = "updateBudget"]
  /\ UNCHANGED <<phase, amount, charge, tableVars, budgetLock, client, op, arg, start, newUsed, reclaimed>>

\* No such row: the reservation is over and the call returns an error.
NotFound(r) ==
  /\ tx[r] = "deleteRow"
  /\ held[r] = None
  /\ Abort(r)

\* UPDATE cost_budgets SET used_micros = used_micros + (actual - reserved);
\* a sum beyond BIGINT is an error that ends the transaction.
UpdateBudget(r) ==
  LET u == used + arg[r] - held[r] IN
  /\ tx[r] = "updateBudget"
  /\ budgetLock = NoTx
  /\ IF u \in BigInt
       THEN /\ budgetLock' = r
            /\ newUsed' = [newUsed EXCEPT ![r] = u]
            /\ tx' = [tx EXCEPT ![r] = "end"]
            /\ UNCHANGED <<phase, amount, charge, tableVars, rowLock, client, op, arg, start, reclaimed>>
       ELSE Abort(r)

\* The committed rows without the one that a Commit or a Release deleted.
Deleted(r) == [held EXCEPT ![r] = None]

\* COMMIT of a Commit or a Release.
CommitEnd(r) ==
  /\ tx[r] = "end"
  /\ used'   = newUsed[r]
  /\ held'   = Deleted(r)
  /\ phase'  = [phase EXCEPT ![r] = IF op[r] = "commit" THEN "settled" ELSE "released"]
  /\ charge' = [charge EXCEPT ![r] = arg[r]]
  /\ client' \in {[client EXCEPT ![r] = c] : c \in {"done", AfterError(r)}}
  /\ Close(r)
  /\ UNCHANGED <<amount, now, expiry>>
-----------------------------------------------------------------------------
Call(r) ==
  \/ \E e \in Estimates : Reserve(r, e)
  \/ \E a \in Actuals : Commit(r, a)
  \/ Release(r)

Statement(r) ==
  \/ LockBudget(r) \/ Reclaim(r) \/ Insert(r) \/ CommitReserve(r) \/ CommitReclaimed(r)
  \/ DeleteRow(r) \/ NotFound(r) \/ UpdateBudget(r) \/ CommitEnd(r)

\* r waits in its DELETE for a row that q has locked, and q for the budget
\* row that r has locked: PostgreSQL picks one of the two as its victim.
Deadlocked(r, q) ==
  /\ tx[r] = "reclaim"
  /\ \E p \in Expired(r) : rowLock[p] = q
  /\ tx[q] = "updateBudget" /\ budgetLock = r

BreakDeadlock ==
  \E r, q \in Reservations : Deadlocked(r, q) /\ (Abort(r) \/ Abort(q))

Tick == now < MaxTime /\ now' = now + 1
        /\ UNCHANGED <<phase, amount, charge, used, held, expiry, lockVars, client, txVars>>

Next ==
  \/ \E r \in Reservations : Call(r) \/ Statement(r) \/ Abort(r)
  \/ BreakDeadlock
  \/ Tick

Spec == Init /\ [][Next]_vars

\* The server carries out statements that can run, lets in those that wait
\* for a row in turn, and breaks deadlocks; callers and the clock may stop.
FairSpec ==
  /\ Spec
  /\ \A r \in Reservations : SF_vars(Statement(r))
  /\ WF_vars(BreakDeadlock)
-----------------------------------------------------------------------------
(* Properties.                                                             *)

Statements == {"lockBudget", "reclaim", "insert", "grant", "refuse",
               "deleteRow", "updateBudget", "end"}

\* Every variable has its type.
TypeOK ==
  /\ BudgetTypeOK
  /\ now \in 0..MaxTime
  /\ used \in BigInt
  /\ held \in [Reservations -> Amounts \cup {None}]
  /\ expiry \in [Reservations -> Nat]
  /\ budgetLock \in Reservations \cup {NoTx}
  /\ rowLock \in [Reservations -> Reservations \cup {NoTx}]
  /\ client \in [Reservations -> {"new", "lost", "owned", "done"}]
  /\ tx \in [Reservations -> Statements \cup {"idle"}]
  /\ op \in [Reservations -> {"reserve", "commit", "release"}]
  /\ arg \in [Reservations -> Amounts]
  /\ start \in [Reservations -> 0..MaxTime]
  /\ newUsed \in [Reservations -> BigInt]
  /\ reclaimed \in [Reservations -> SUBSET Reservations]

\* The committed rows are exact after every transaction, however the
\* statements of others interleave with it, wherever transactions are cut
\* off and whichever answers are lost.  The rows of cost_reservations are the
\* open reservations with their amounts, so that none is open without a row
\* that can expire; used_micros is these plus the charges, for as long as a
\* BIGINT can hold the sum, and on a limited budget it always can and passes
\* the limit by no more than commits overshot (README guarantees 1, 2 and 8).
RowsAreExact ==
  /\ held = [r \in Reservations |-> IF phase[r] = "held" THEN amount[r] ELSE None]
  /\ Usage <= MaxInt => used = Usage
  /\ Limit >= 0 => Usage <= MaxInt /\ Usage <= Limit + Overshoot

\* A call reports success only for what was committed: an owned handle was
\* granted, and a done one was settled or released (README guarantee 6).
HandleTruth ==
  \A r \in Reservations :
    /\ client[r] = "owned" => phase[r] # "free"
    /\ client[r] = "done" => phase[r] \in {"settled", "released"}

\* Every call ends, although Reserve and Commit lock the budget row and a
\* reservation row in opposite orders.
CallsEnd == \A r \in Reservations : tx[r] # "idle" ~> tx[r] = "idle"

\* The committed state implements the abstract Budget, leases included.
ImplementsBudget == BudgetSpec
=============================================================================
