------------------------- MODULE PostgresLedgerProofs -------------------------
(***************************************************************************)
(* Theorems about the PostgreSQL ledger, for any number of reservations,   *)
(* any limit and lease and any width of BIGINT.                            *)
(*                                                                         *)
(* RowsAreExact is not inductive: whether a COMMIT writes the right sum    *)
(* depends on what its transaction read statements earlier.  Locked says   *)
(* which rows a transaction has locked by then, Calls what its caller may  *)
(* know meanwhile, and Read that what it has read is still what the tables *)
(* hold, because the locks keep everybody else out.                        *)
(***************************************************************************)
EXTENDS PostgresLedger, BudgetTheorems

\* The reservation rows are the open reservations with their amounts.
Rows == held = [r \in Reservations |-> IF phase[r] = "held" THEN amount[r] ELSE None]

\* The rows that a transaction has locked by its next statement.
Locked ==
  \A r \in Reservations :
    /\ tx[r] \in {"reclaim", "insert", "grant", "refuse", "end"} => budgetLock = r
    /\ tx[r] \in {"updateBudget", "end"} => rowLock[r] = r /\ held[r] # None
    /\ tx[r] \in {"insert", "grant", "refuse"} =>
         \A q \in reclaimed[r] : rowLock[q] = r /\ held[q] # None
    /\ tx[r] \notin {"insert", "grant", "refuse"} => reclaimed[r] = {}

\* What the caller of a transaction knows, and what a handle implies.
CallOf(r) ==
  /\ tx[r] \in {"lockBudget", "reclaim", "insert", "grant", "refuse"} =>
       op[r] = "reserve" /\ client[r] = "new"
  /\ tx[r] \in {"deleteRow", "updateBudget", "end"} =>
       op[r] \in {"commit", "release"} /\ client[r] = "owned"
  /\ client[r] = "new" => phase[r] = "free"
  /\ client[r] = "owned" => phase[r] # "free"
  /\ client[r] = "done" => phase[r] \in {"settled", "released"}
  /\ op[r] = "release" => arg[r] = 0
  /\ phase[r] # "settled" => charge[r] = 0
Calls == \A r \in Reservations : CallOf(r)

\* The used_micros a Reserve has left when its reclaimed rows are gone.
Left(r) == Wrap(used - Total(held, reclaimed[r]))

\* What a transaction has read and computed is what the committed rows say.
ReadOf(r) ==
  /\ tx[r] = "reclaim" => newUsed[r] = used
  /\ tx[r] \in {"insert", "grant", "refuse"} => Total(held, reclaimed[r]) \in 0..MaxInt
  /\ tx[r] \in {"insert", "refuse"} => newUsed[r] = Left(r)
  /\ tx[r] \in {"insert", "grant"} => ~OverBudget(Left(r), arg[r])
  /\ tx[r] = "grant" => newUsed[r] = Wrap(Left(r) + arg[r])
  /\ tx[r] = "end" => newUsed[r] = used + arg[r] - held[r]
Read == \A r \in Reservations : ReadOf(r)

Struct == TypeOK /\ Rows /\ Locked /\ Calls /\ Read

\* Equal up to the width of a BIGINT.
Congruent(x, y) == \E k \in Int : x = y + k * Modulus

\* used_micros is the usage modulo the width of a BIGINT, and exactly the
\* usage on a limited budget.
Sums ==
  /\ Congruent(used, Usage)
  /\ Limit >= 0 => used = Usage /\ Usage <= Limit + Overshoot
-----------------------------------------------------------------------------
(* Arithmetic.                                                             *)

\* One wrap-around brings the sums and differences of the code into range.
LEMMA WrapRange ==
  ASSUME NEW x \in Int, x <= 2 * MaxInt, x >= -(MaxInt + 1) - MaxInt
  PROVE  Wrap(x) \in BigInt /\ (x \in BigInt => Wrap(x) = x)
BY PostgresAssumption DEF Wrap, BigInt, Modulus

LEMMA WrapCongruent ==
  ASSUME NEW x \in Int
  PROVE  Congruent(Wrap(x), x) /\ Wrap(x) \in Int
<1> DEFINE M == Modulus
<1>1. M \in Int
  BY PostgresAssumption DEF Modulus
<1>2. x = x + 0 * M /\ x - M = x + (-1) * M /\ x + M = x + 1 * M
  <2> HIDE DEF M
  <2> QED
    BY <1>1
<1> QED
  BY <1>1, <1>2 DEF Wrap, Congruent

LEMMA CongruentTrans ==
  ASSUME NEW x \in Int, NEW y \in Int, NEW z \in Int, Congruent(x, y), Congruent(y, z)
  PROVE  Congruent(x, z)
<1>1. Modulus \in Int
  BY PostgresAssumption DEF Modulus
<1>2. PICK k \in Int : x = y + k * Modulus
  BY DEF Congruent
<1>3. PICK j \in Int : y = z + j * Modulus
  BY DEF Congruent
<1>4. x = z + (k + j) * Modulus /\ k + j \in Int
  BY <1>1, <1>2, <1>3
<1> QED
  BY <1>4 DEF Congruent

LEMMA CongruentShift ==
  ASSUME NEW x \in Int, NEW y \in Int, NEW u \in Int, NEW v \in Int,
         Congruent(x, y), u - x = v - y
  PROVE  Congruent(u, v)
<1>1. Modulus \in Int
  BY PostgresAssumption DEF Modulus
<1>2. PICK k \in Int : x = y + k * Modulus
  BY DEF Congruent
<1>3. k * Modulus \in Int
  BY <1>1
<1>4. u = v + k * Modulus
  BY <1>2, <1>3
<1> QED
  BY <1>4 DEF Congruent

\* Two values that a BIGINT can hold are congruent only if they are equal.
LEMMA CongruentExact ==
  ASSUME NEW x \in BigInt, NEW y \in BigInt, Congruent(x, y)
  PROVE  x = y
<1>1. Modulus \in Nat \ {0} /\ x \in Int /\ y \in Int /\ x - y < Modulus /\ y - x < Modulus
  BY PostgresAssumption DEF Modulus, BigInt
<1>2. PICK k \in Int : x = y + k * Modulus
  BY DEF Congruent
<1>3. CASE k >= 1
  <2>1. k * Modulus >= Modulus
    BY <1>1, <1>3
  <2> QED
    BY <1>1, <1>2, <2>1
<1>4. CASE k <= -1
  <2>1. k * Modulus <= -Modulus
    BY <1>1, <1>4
  <2> QED
    BY <1>1, <1>2, <2>1
<1>5. CASE k = 0
  <2>1. k * Modulus = 0
    BY <1>1, <1>5
  <2> QED
    BY <1>1, <1>2, <2>1
<1> QED
  BY <1>3, <1>4, <1>5
-----------------------------------------------------------------------------
(* The structural part of the invariant.                                   *)

\* A transaction that a step leaves alone has still read what is there.
LEMMA ReadSame ==
  ASSUME NEW q \in Reservations, ReadOf(q),
         tx'[q] = tx[q], arg'[q] = arg[q],
         newUsed'[q] = newUsed[q], reclaimed'[q] = reclaimed[q],
         used' = used, held' = held
  PROVE  ReadOf(q)'
<1>1. Left(q)' = Left(q) /\ Total(held, reclaimed[q])' = Total(held, reclaimed[q])
  BY DEF Left
<1>2. OverBudget(Left(q), arg[q])' <=> OverBudget(Left(q), arg[q])
  BY <1>1 DEF OverBudget
<1>3. Wrap(Left(q) + arg[q])' = Wrap(Left(q) + arg[q])
  BY <1>1 DEF Wrap
<1> QED
  BY <1>1, <1>2, <1>3 DEF ReadOf

\* A transaction that has read nothing yet has nothing to keep.
LEMMA ReadNothing ==
  ASSUME NEW q \in Reservations, tx'[q] \in {"idle", "lockBudget", "deleteRow", "updateBudget"}
  PROVE  ReadOf(q)'
BY DEF ReadOf

LEMMA StructInit == Init => Struct
<1> SUFFICES ASSUME Init PROVE Struct
  OBVIOUS
<1>1. TypeOK
  BY InitUsage, PostgresAssumption DEF Init, TypeOK, BigInt, None
<1>2. Rows /\ Locked /\ Calls /\ Read
  BY DEF Init, BudgetInit, Rows, Locked, Calls, CallOf, Read, ReadOf
<1> QED
  BY <1>1, <1>2 DEF Struct

\* A call begins its transaction.
LEMMA BeginStruct ==
  ASSUME Struct, NEW r \in Reservations, NEW o, NEW x \in Amounts, NEW first, Begin(r, o, x, first),
         \/ o = "reserve" /\ first = "lockBudget" /\ client[r] = "new"
         \/ o \in {"commit", "release"} /\ first = "deleteRow" /\ client[r] = "owned",
         o = "release" => x = 0
  PROVE  Struct'
<1> USE DEF Struct
<1>1. TypeOK'
  BY DEF Begin, TypeOK, BudgetTypeOK, tableVars, lockVars, Statements
<1>2. Rows'
  BY DEF Begin, Rows, tableVars
<1>3. Locked'
  BY DEF Begin, Locked, TypeOK, tableVars, lockVars
<1>4. Calls'
  BY DEF Begin, Calls, CallOf, TypeOK
<1>5. Read'
  <2> SUFFICES ASSUME NEW q \in Reservations PROVE ReadOf(q)'
    BY DEF Read
  <2>1. CASE q = r
    BY <2>1, ReadNothing DEF Begin, TypeOK
  <2>2. CASE q # r
    BY <2>2, ReadSame DEF Begin, TypeOK, Read, tableVars
  <2> QED
    BY <2>1, <2>2
<1> QED
  BY <1>1, <1>2, <1>3, <1>4, <1>5

\* The end of a transaction keeps types and the locks of the others.
LEMMA CloseType ==
  ASSUME TypeOK, NEW r \in Reservations, Close(r)
  PROVE  /\ budgetLock' \in Reservations \cup {NoTx}
         /\ rowLock' \in [Reservations -> Reservations \cup {NoTx}]
         /\ tx' \in [Reservations -> Statements \cup {"idle"}]
         /\ op' \in [Reservations -> {"reserve", "commit", "release"}]
         /\ arg' \in [Reservations -> Amounts]
         /\ start' \in [Reservations -> 0..MaxTime]
         /\ newUsed' \in [Reservations -> BigInt]
         /\ reclaimed' \in [Reservations -> SUBSET Reservations]
         /\ tx'[r] = "idle" /\ op'[r] = "reserve" /\ arg'[r] = 0 /\ reclaimed'[r] = {}
         /\ \A q \in Reservations \ {r} :
              /\ tx'[q] = tx[q] /\ op'[q] = op[q] /\ arg'[q] = arg[q]
              /\ newUsed'[q] = newUsed[q] /\ reclaimed'[q] = reclaimed[q]
              /\ budgetLock = q => budgetLock' = q
              /\ \A p \in Reservations : rowLock[p] = q => rowLock'[p] = q
BY PostgresAssumption, AmountsAssumption DEF Close, Unlocked, TypeOK, BigInt

\* A transaction that is rolled back leaves the tables as they are.
LEMMA AbortStruct ==
  ASSUME Struct, NEW r \in Reservations, Abort(r)
  PROVE  Struct'
<1> USE DEF Struct
<1>1. /\ TypeOK /\ Close(r) /\ tx[r] # "idle" /\ client' = [client EXCEPT ![r] = AfterError(r)]
      /\ UNCHANGED <<phase, amount, charge, now, used, held, expiry>>
  BY DEF Abort, tableVars
<1>2. TypeOK'
  <2>1. AfterError(r) \in {"lost", "owned"}
    BY DEF AfterError
  <2> QED
    BY <1>1, <2>1, CloseType DEF TypeOK, BudgetTypeOK
<1>3. Rows'
  BY <1>1 DEF Rows
<1>4. Locked'
  BY <1>1, CloseType DEF Locked
<1>5. Calls'
  <2>1. client'[r] \in {"lost", "owned"} /\ (client'[r] = "owned" => client[r] = "owned")
    BY <1>1 DEF Calls, CallOf, AfterError, TypeOK, Statements
  <2>2. \A q \in Reservations \ {r} : client'[q] = client[q]
    BY <1>1 DEF TypeOK
  <2> QED
    BY <1>1, <2>1, <2>2, CloseType DEF Calls, CallOf
<1>6. Read'
  <2> SUFFICES ASSUME NEW q \in Reservations PROVE ReadOf(q)'
    BY DEF Read
  <2>1. CASE q = r
    BY <1>1, <2>1, CloseType, ReadNothing
  <2>2. CASE q # r
    BY <1>1, <2>2, CloseType, ReadSame DEF Read
  <2> QED
    BY <2>1, <2>2
<1> QED
  BY <1>2, <1>3, <1>4, <1>5, <1>6

LEMMA LockBudgetStruct ==
  ASSUME Struct, NEW r \in Reservations, LockBudget(r)
  PROVE  Struct'
<1> USE DEF Struct
<1>1. TypeOK'
  BY DEF LockBudget, ForUpdate, TypeOK, BudgetTypeOK, tableVars, Statements
<1>2. Rows'
  BY DEF LockBudget, Rows, tableVars
<1>3. Locked'
  BY PostgresAssumption DEF LockBudget, ForUpdate, Locked, TypeOK, tableVars
<1>4. Calls'
  BY DEF LockBudget, Calls, CallOf, TypeOK
<1>5. Read'
  <2> SUFFICES ASSUME NEW q \in Reservations PROVE ReadOf(q)'
    BY DEF Read
  <2>1. CASE q = r
    BY <2>1 DEF LockBudget, TypeOK, ReadOf, tableVars
  <2>2. CASE q # r
    BY <2>2, ReadSame DEF LockBudget, TypeOK, Read, tableVars
  <2> QED
    BY <2>1, <2>2
<1> QED
  BY <1>1, <1>2, <1>3, <1>4, <1>5

\* The rows that a Reserve reclaims sum up to a natural number.
LEMMA ExpiredTotal ==
  ASSUME TypeOK, NEW r \in Reservations
  PROVE  Total(held, Expired(r)) \in Nat
<1>1. IsFiniteSet(Expired(r))
  BY ReservationsAssumption, FS_Subset DEF Expired
<1>2. \A q \in Expired(r) : held[q] \in Nat
  BY AmountsAssumption DEF TypeOK, Expired
<1> QED
  BY <1>1, <1>2, TotalNat

LEMMA ReclaimStruct ==
  ASSUME Struct, NEW r \in Reservations, Reclaim(r)
  PROVE  Struct'
<1> USE DEF Struct
<1> DEFINE gone == Total(held, Expired(r))
           left == Wrap(newUsed[r] - gone)
           next == IF OverBudget(left, arg[r]) THEN "refuse" ELSE "insert"
<1>1. CASE gone > MaxInt
  <2>1. ~(gone <= MaxInt)
    BY <1>1, ExpiredTotal, PostgresAssumption
  <2>2. Abort(r)
    BY <2>1 DEF Reclaim
  <2> QED
    BY <2>2, AbortStruct
<1>2. CASE gone \in 0..MaxInt
  <2>1. /\ tx[r] = "reclaim"
        /\ \A q \in Expired(r) : rowLock[q] = NoTx
        /\ rowLock' = [q \in Reservations |-> IF q \in Expired(r) THEN r ELSE rowLock[q]]
        /\ reclaimed' = [reclaimed EXCEPT ![r] = Expired(r)]
        /\ newUsed' = [newUsed EXCEPT ![r] = left]
        /\ tx' = [tx EXCEPT ![r] = next]
        /\ UNCHANGED <<phase, amount, charge, now, used, held, expiry, budgetLock, client, op, arg, start>>
    BY <1>2 DEF Reclaim, tableVars
  <2>2. newUsed[r] = used /\ budgetLock = r
    BY <2>1 DEF Read, ReadOf, Locked
  <2>3. left \in BigInt
    <3>1. newUsed[r] - gone \in Int /\ newUsed[r] - gone <= 2 * MaxInt /\ newUsed[r] - gone >= -(MaxInt + 1) - MaxInt
      BY <1>2, PostgresAssumption DEF TypeOK, BigInt
    <3> QED
      BY <3>1, WrapRange
  <2>4. next \in {"refuse", "insert"}
    OBVIOUS
  <2>5. Expired(r) \in SUBSET Reservations /\ \A q \in Expired(r) : held[q] # None
    BY DEF Expired
  <2> HIDE DEF next, left, gone
  <2>6. TypeOK'
    BY <2>1, <2>3, <2>4, <2>5 DEF TypeOK, BudgetTypeOK, Statements
  <2>7. Rows'
    BY <2>1 DEF Rows
  <2>8. Locked'
    BY <2>1, <2>2, <2>4, <2>5, PostgresAssumption DEF Locked, TypeOK
  <2>9. Calls'
    BY <2>1, <2>4 DEF Calls, CallOf, TypeOK
  <2>10. Read'
    <3> SUFFICES ASSUME NEW q \in Reservations PROVE ReadOf(q)'
      BY DEF Read
    <3>1. CASE q = r
      <4>1. reclaimed'[r] = Expired(r) /\ newUsed'[r] = left /\ tx'[r] = next /\ arg'[r] = arg[r]
        BY <2>1, <2>5 DEF TypeOK
      <4>2. Total(held, reclaimed[r])' = gone
        BY <2>1, <4>1 DEF gone
      <4>3. Left(r)' = left
        BY <2>1, <2>2, <4>2 DEF Left, left
      <4>4. next = "insert" => ~OverBudget(left, arg[r])
        BY DEF next
      <4>5. OverBudget(Left(r), arg[r])' <=> OverBudget(left, arg[r])
        BY <4>1, <4>3 DEF OverBudget
      <4> QED
        BY <1>2, <2>4, <3>1, <4>1, <4>2, <4>3, <4>4, <4>5 DEF ReadOf
    <3>2. CASE q # r
      BY <2>1, <3>2, ReadSame DEF TypeOK, Read
    <3> QED
      BY <3>1, <3>2
  <2> QED
    BY <2>6, <2>7, <2>8, <2>9, <2>10
<1> QED
  BY <1>1, <1>2, ExpiredTotal, PostgresAssumption

\* What a Reserve has left is a BIGINT, and so is the sum with its estimate.
LEMMA LeftRange ==
  ASSUME Struct, NEW r \in Reservations, tx[r] \in {"insert", "grant", "refuse"}
  PROVE  Left(r) \in BigInt /\ Wrap(Left(r) + arg[r]) \in BigInt
<1>1. Left(r) \in BigInt
  <2>1. /\ used - Total(held, reclaimed[r]) \in Int
        /\ used - Total(held, reclaimed[r]) <= 2 * MaxInt
        /\ used - Total(held, reclaimed[r]) >= -(MaxInt + 1) - MaxInt
    BY PostgresAssumption DEF Struct, Read, ReadOf, TypeOK, BigInt
  <2> QED
    BY <2>1, WrapRange DEF Left
<1>2. Left(r) + arg[r] \in Int /\ Left(r) + arg[r] <= 2 * MaxInt /\ Left(r) + arg[r] >= -(MaxInt + 1) - MaxInt
  BY <1>1, PostgresAssumption DEF Struct, TypeOK, BigInt
<1> QED
  BY <1>1, <1>2, WrapRange

LEMMA InsertStruct ==
  ASSUME Struct, NEW r \in Reservations, Insert(r)
  PROVE  Struct'
<1> USE DEF Struct
<1>1. newUsed[r] = Left(r) /\ ~OverBudget(Left(r), arg[r]) /\ Wrap(Left(r) + arg[r]) \in BigInt
  BY LeftRange DEF Insert, Read, ReadOf
<1>2. /\ tx[r] = "insert"
      /\ newUsed' = [newUsed EXCEPT ![r] = Wrap(Left(r) + arg[r])]
      /\ tx' = [tx EXCEPT ![r] = "grant"]
      /\ UNCHANGED <<phase, amount, charge, now, used, held, expiry, budgetLock, rowLock, client, op, arg, start, reclaimed>>
  BY <1>1 DEF Insert, tableVars, lockVars
<1>3. TypeOK'
  BY <1>1, <1>2 DEF TypeOK, BudgetTypeOK, Statements
<1>4. Rows'
  BY <1>2 DEF Rows
<1>5. Locked'
  BY <1>2 DEF Locked, TypeOK
<1>6. Calls'
  BY <1>2 DEF Calls, CallOf, TypeOK
<1>7. Read'
  <2> SUFFICES ASSUME NEW q \in Reservations PROVE ReadOf(q)'
    BY DEF Read
  <2>1. CASE q = r
    <3>1. newUsed'[r] = Wrap(Left(r) + arg[r]) /\ tx'[r] = "grant"
      BY <1>2 DEF TypeOK
    <3>2. Total(held, reclaimed[r])' = Total(held, reclaimed[r]) /\ Left(r)' = Left(r) /\ arg'[r] = arg[r]
      BY <1>2 DEF Left
    <3>3. Total(held, reclaimed[r]) \in 0..MaxInt
      BY <1>2 DEF Read, ReadOf
    <3>4. ~OverBudget(Left(r), arg[r])'
      BY <1>1, <3>2 DEF OverBudget
    <3>5. Wrap(Left(r) + arg[r])' = Wrap(Left(r) + arg[r])
      BY <3>2 DEF Wrap
    <3> QED
      BY <2>1, <3>1, <3>2, <3>3, <3>4, <3>5 DEF ReadOf
  <2>2. CASE q # r
    BY <1>2, <2>2, ReadSame DEF TypeOK, Read
  <2> QED
    BY <2>1, <2>2
<1> QED
  BY <1>3, <1>4, <1>5, <1>6, <1>7

LEMMA DeleteRowStruct ==
  ASSUME Struct, NEW r \in Reservations, DeleteRow(r)
  PROVE  Struct'
<1> USE DEF Struct
<1>1. TypeOK'
  BY DEF DeleteRow, TypeOK, BudgetTypeOK, tableVars, Statements
<1>2. Rows'
  BY DEF DeleteRow, Rows, tableVars
<1>3. Locked'
  BY PostgresAssumption DEF DeleteRow, Locked, TypeOK, tableVars
<1>4. Calls'
  BY DEF DeleteRow, Calls, CallOf, TypeOK
<1>5. Read'
  <2> SUFFICES ASSUME NEW q \in Reservations PROVE ReadOf(q)'
    BY DEF Read
  <2>1. CASE q = r
    BY <2>1, ReadNothing DEF DeleteRow, TypeOK
  <2>2. CASE q # r
    BY <2>2, ReadSame DEF DeleteRow, TypeOK, Read, tableVars
  <2> QED
    BY <2>1, <2>2
<1> QED
  BY <1>1, <1>2, <1>3, <1>4, <1>5

LEMMA UpdateBudgetStruct ==
  ASSUME Struct, NEW r \in Reservations, UpdateBudget(r)
  PROVE  Struct'
<1> USE DEF Struct
<1> DEFINE u == used + arg[r] - held[r]
<1>1. CASE u \notin BigInt
  BY <1>1, AbortStruct DEF UpdateBudget
<1>2. CASE u \in BigInt
  <2>1. /\ tx[r] = "updateBudget" /\ budgetLock = NoTx /\ budgetLock' = r
        /\ newUsed' = [newUsed EXCEPT ![r] = u]
        /\ tx' = [tx EXCEPT ![r] = "end"]
        /\ UNCHANGED <<phase, amount, charge, now, used, held, expiry, rowLock, client, op, arg, start, reclaimed>>
    BY <1>2 DEF UpdateBudget, tableVars
  <2>2. TypeOK'
    BY <1>2, <2>1 DEF TypeOK, BudgetTypeOK, Statements
  <2>3. Rows'
    BY <2>1 DEF Rows
  <2>4. Locked'
    BY <2>1, PostgresAssumption DEF Locked, TypeOK
  <2>5. Calls'
    BY <2>1 DEF Calls, CallOf, TypeOK
  <2>6. Read'
    <3> SUFFICES ASSUME NEW q \in Reservations PROVE ReadOf(q)'
      BY DEF Read
    <3>1. CASE q = r
      BY <2>1, <3>1 DEF TypeOK, ReadOf
    <3>2. CASE q # r
      BY <2>1, <3>2, ReadSame DEF TypeOK, Read
    <3> QED
      BY <3>1, <3>2
  <2> QED
    BY <2>2, <2>3, <2>4, <2>5, <2>6
<1> QED
  BY <1>1, <1>2
-----------------------------------------------------------------------------
(* The transactions that commit.                                           *)

\* What a Reserve commits: nobody else has the budget row, and no row of the
\* tables that it removes is anybody else's.
LEMMA OthersKept ==
  ASSUME Struct, NEW r \in Reservations, Close(r),
         tx[r] \in {"grant", "refuse", "end"}
  PROVE  \A q \in Reservations \ {r} :
           /\ tx'[q] \in {"idle", "lockBudget", "deleteRow", "updateBudget"}
           /\ tx'[q] = tx[q] /\ reclaimed'[q] = {}
           /\ rowLock[q] = q => rowLock'[q] = q
           /\ q \in reclaimed[r] => rowLock[q] = r
<1>1. budgetLock = r /\ \A q \in reclaimed[r] : rowLock[q] = r
  BY DEF Struct, Locked
<1>2. \A q \in Reservations \ {r} : tx[q] \notin {"reclaim", "insert", "grant", "refuse", "end"}
  BY <1>1 DEF Struct, Locked
<1> QED
  BY <1>1, <1>2, CloseType DEF Struct, Locked, TypeOK, Statements

\* A Reserve commits its reservation.
LEMMA CommitReserveStruct ==
  ASSUME Struct, NEW r \in Reservations, CommitReserve(r)
  PROVE  Struct'
<1> USE DEF Struct
<1>1. /\ tx[r] = "grant" /\ Close(r) /\ TypeOK
      /\ used' = newUsed[r]
      /\ held' = [HeldAfter(r) EXCEPT ![r] = arg[r]]
      /\ expiry' = [expiry EXCEPT ![r] = start[r] + TTL]
      /\ phase' = [PhaseAfter(r) EXCEPT ![r] = "held"]
      /\ amount' = [amount EXCEPT ![r] = arg[r]]
      /\ charge' = charge /\ now' = now
  BY DEF CommitReserve
<1>2. op[r] = "reserve" /\ client[r] = "new" /\ phase[r] = "free"
  BY <1>1 DEF Calls, CallOf
<1>3. client' \in [Reservations -> {"new", "lost", "owned", "done"}] /\ client'[r] \in {"owned", "lost"}
      /\ \A q \in Reservations \ {r} : client'[q] = client[q]
  BY <1>1, <1>2 DEF CommitReserve, AfterError, TypeOK
<1>4. \A q \in Reservations \ {r} :
        /\ held'[q] = IF q \in reclaimed[r] THEN None ELSE held[q]
        /\ phase'[q] = IF q \in reclaimed[r] THEN "expired" ELSE phase[q]
        /\ amount'[q] = amount[q]
  BY <1>1 DEF HeldAfter, PhaseAfter, TypeOK, BudgetTypeOK
<1>5. held'[r] = arg[r] /\ phase'[r] = "held" /\ amount'[r] = arg[r]
  BY <1>1 DEF HeldAfter, PhaseAfter, TypeOK, BudgetTypeOK
<1>6. \A q \in reclaimed[r] : phase[q] = "held"
  BY <1>1 DEF Locked, Rows, TypeOK
<1>7. TypeOK'
  <2>1. BudgetTypeOK'
    BY <1>1 DEF PhaseAfter, TypeOK, BudgetTypeOK, Phases
  <2>2. held' \in [Reservations -> Amounts \cup {None}]
    BY <1>1 DEF HeldAfter, TypeOK
  <2>3. expiry' \in [Reservations -> Nat] /\ used' \in BigInt
    BY <1>1, PostgresAssumption DEF TypeOK
  <2> QED
    BY <1>1, <1>3, <2>1, <2>2, <2>3, CloseType DEF TypeOK
<1>8. Rows'
  <2>1. \A q \in Reservations : held'[q] = IF phase'[q] = "held" THEN amount'[q] ELSE None
    BY <1>4, <1>5, <1>6 DEF Rows
  <2>2. held' = [q \in Reservations |-> held'[q]]
    BY <1>7 DEF TypeOK
  <2> QED
    BY <2>1, <2>2 DEF Rows
<1>9. Locked'
  <2>1. \A q \in Reservations \ {r} : tx[q] = "updateBudget" => q \notin reclaimed[r]
    BY <1>1, OthersKept DEF Locked
  <2>2. tx'[r] = "idle" /\ reclaimed'[r] = {}
    BY <1>1, CloseType
  <2> QED
    BY <1>1, <1>4, <2>1, <2>2, OthersKept DEF Locked
<1>10. Calls'
  <2>1. tx'[r] = "idle" /\ op'[r] = "reserve" /\ charge'[r] = 0
    BY <1>1, <1>2, CloseType DEF Calls, CallOf
  <2>2. ASSUME NEW q \in Reservations \ {r}
        PROVE  /\ tx'[q] = tx[q] /\ op'[q] = op[q] /\ arg'[q] = arg[q]
               /\ charge'[q] = charge[q] /\ client'[q] = client[q]
               /\ phase'[q] = phase[q] \/ (phase[q] = "held" /\ phase'[q] = "expired")
    <3>1. tx'[q] = tx[q] /\ op'[q] = op[q] /\ arg'[q] = arg[q]
      BY <1>1, CloseType
    <3>2. charge'[q] = charge[q] /\ client'[q] = client[q]
      BY <1>1, <1>3
    <3>3. phase'[q] = IF q \in reclaimed[r] THEN "expired" ELSE phase[q]
      BY <1>4
    <3>4. phase'[q] = phase[q] \/ (phase[q] = "held" /\ phase'[q] = "expired")
      BY <1>6, <3>3
    <3> QED
      BY <3>1, <3>2, <3>4
  <2>3. CallOf(r)'
    BY <1>3, <1>5, <2>1 DEF CallOf
  <2>4. ASSUME NEW q \in Reservations \ {r} PROVE CallOf(q)'
    <3>1. CallOf(q)
      BY DEF Calls
    <3> QED
      BY <2>2, <3>1 DEF CallOf
  <2> QED
    BY <2>3, <2>4 DEF Calls
<1>11. Read'
  BY <1>1, CloseType, OthersKept, ReadNothing DEF Read
<1> QED
  BY <1>7, <1>8, <1>9, <1>10, <1>11

\* A Reserve over budget commits what it reclaimed.
LEMMA CommitReclaimedStruct ==
  ASSUME Struct, NEW r \in Reservations, CommitReclaimed(r)
  PROVE  Struct'
<1> USE DEF Struct
<1>1. /\ tx[r] = "refuse" /\ Close(r) /\ TypeOK
      /\ used' = newUsed[r]
      /\ held' = HeldAfter(r)
      /\ phase' = PhaseAfter(r)
      /\ client' = [client EXCEPT ![r] = AfterError(r)]
      /\ UNCHANGED <<amount, charge, now, expiry>>
  BY DEF CommitReclaimed
<1>2. op[r] = "reserve" /\ AfterError(r) = "lost"
  BY <1>1 DEF Calls, CallOf, AfterError
<1>3. \A q \in reclaimed[r] : phase[q] = "held"
  BY <1>1 DEF Locked, Rows, TypeOK
<1>4. \A q \in Reservations :
        /\ held'[q] = IF q \in reclaimed[r] THEN None ELSE held[q]
        /\ phase'[q] = IF q \in reclaimed[r] THEN "expired" ELSE phase[q]
  BY <1>1 DEF HeldAfter, PhaseAfter
<1>5. TypeOK'
  <2>1. BudgetTypeOK' /\ held' \in [Reservations -> Amounts \cup {None}] /\ used' \in BigInt
    BY <1>1 DEF HeldAfter, PhaseAfter, TypeOK, BudgetTypeOK, Phases
  <2> QED
    BY <1>1, <1>2, <2>1, CloseType DEF TypeOK
<1>6. Rows'
  BY <1>1, <1>4 DEF Rows, HeldAfter
<1>7. Locked'
  <2>1. \A q \in Reservations \ {r} : tx[q] = "updateBudget" => q \notin reclaimed[r]
    BY <1>1, OthersKept DEF Locked
  <2>2. tx'[r] = "idle" /\ reclaimed'[r] = {}
    BY <1>1, CloseType
  <2> QED
    BY <1>1, <1>4, <2>1, <2>2, OthersKept DEF Locked
<1>8. Calls'
  <2>1. client'[r] = "lost" /\ \A q \in Reservations \ {r} : client'[q] = client[q]
    BY <1>1, <1>2 DEF TypeOK
  <2>2. \A q \in Reservations : phase'[q] # "settled" => phase[q] # "settled"
    BY <1>3, <1>4
  <2>3. \A q \in Reservations : /\ client'[q] = "new" => phase'[q] = "free"
                                /\ client'[q] = "owned" => phase'[q] # "free"
                                /\ client'[q] = "done" => phase'[q] \in {"settled", "released"}
    BY <1>3, <1>4, <2>1 DEF Calls, CallOf
  <2> QED
    BY <1>1, <2>1, <2>2, <2>3, CloseType DEF Calls, CallOf
<1>9. Read'
  BY <1>1, CloseType, OthersKept, ReadNothing DEF Read
<1> QED
  BY <1>5, <1>6, <1>7, <1>8, <1>9

\* A Commit or a Release commits.
LEMMA CommitEndStruct ==
  ASSUME Struct, NEW r \in Reservations, CommitEnd(r)
  PROVE  Struct'
<1> USE DEF Struct
<1> DEFINE last == IF op[r] = "commit" THEN "settled" ELSE "released"
<1>1. /\ tx[r] = "end" /\ Close(r) /\ TypeOK
      /\ used' = newUsed[r]
      /\ held' = [held EXCEPT ![r] = None]
      /\ phase' = [phase EXCEPT ![r] = last]
      /\ charge' = [charge EXCEPT ![r] = arg[r]]
      /\ UNCHANGED <<amount, now, expiry>>
  BY DEF CommitEnd, Deleted
<1>2. /\ op[r] \in {"commit", "release"} /\ client[r] = "owned" /\ AfterError(r) = "owned"
      /\ op[r] = "release" => arg[r] = 0
  BY <1>1 DEF Calls, CallOf, AfterError
<1>3. client' \in [Reservations -> {"new", "lost", "owned", "done"}] /\ client'[r] \in {"owned", "done"}
      /\ \A q \in Reservations \ {r} : client'[q] = client[q]
  BY <1>1, <1>2 DEF CommitEnd, TypeOK
<1>4. /\ \A q \in Reservations \ {r} : held'[q] = held[q] /\ phase'[q] = phase[q] /\ charge'[q] = charge[q]
      /\ held'[r] = None /\ phase'[r] = last /\ charge'[r] = arg[r]
  BY <1>1 DEF TypeOK, BudgetTypeOK
<1>5. TypeOK'
  <2>1. BudgetTypeOK' /\ held' \in [Reservations -> Amounts \cup {None}] /\ used' \in BigInt
    BY <1>1 DEF TypeOK, BudgetTypeOK, Phases
  <2> QED
    BY <1>1, <1>3, <2>1, CloseType DEF TypeOK
<1>6. Rows'
  BY <1>1, <1>4 DEF Rows, TypeOK
<1>7. Locked'
  <2>1. tx'[r] = "idle" /\ reclaimed'[r] = {}
    BY <1>1, CloseType
  <2> QED
    BY <1>1, <1>4, <2>1, OthersKept DEF Locked
<1>8. Calls'
  BY <1>1, <1>2, <1>3, <1>4, CloseType DEF Calls, CallOf
<1>9. Read'
  BY <1>1, CloseType, OthersKept, ReadNothing DEF Read
<1> QED
  BY <1>5, <1>6, <1>7, <1>8, <1>9

\* Every step keeps the structural part of the invariant.
LEMMA StructNext == Struct /\ [Next]_vars => Struct'
<1> SUFFICES ASSUME Struct, [Next]_vars PROVE Struct'
  OBVIOUS
<1>1. ASSUME NEW r \in Reservations, NEW e \in Estimates, Reserve(r, e)
      PROVE  Struct'
  <2>1. e \in Amounts
    BY <1>1, PostgresAssumption DEF Reserve, ValidEstimate
  <2> QED
    BY <1>1, <2>1, BeginStruct DEF Reserve
<1>2. ASSUME NEW r \in Reservations, NEW a \in Actuals, Commit(r, a)
      PROVE  Struct'
  <2>1. Clamp(a) \in Amounts
    BY PostgresAssumption DEF Clamp
  <2> QED
    BY <1>2, <2>1, BeginStruct DEF Commit
<1>3. ASSUME NEW r \in Reservations, Release(r)
      PROVE  Struct'
  BY <1>3, AmountsAssumption, BeginStruct DEF Release
<1>4. ASSUME NEW r \in Reservations, NotFound(r)
      PROVE  Struct'
  BY <1>4, AbortStruct DEF NotFound
<1>5. ASSUME NEW r \in Reservations, Statement(r)
      PROVE  Struct'
  BY <1>4, <1>5, LockBudgetStruct, ReclaimStruct, InsertStruct, CommitReserveStruct,
     CommitReclaimedStruct, DeleteRowStruct, UpdateBudgetStruct, CommitEndStruct DEF Statement
<1>6. CASE BreakDeadlock
  BY <1>6, AbortStruct DEF BreakDeadlock
<1>7. CASE Tick \/ UNCHANGED vars
  <2>1. /\ UNCHANGED <<phase, amount, charge, used, held, expiry, budgetLock, rowLock, client,
                       tx, op, arg, start, newUsed, reclaimed>>
        /\ now' \in 0..MaxTime
    BY <1>7, PostgresAssumption DEF Tick, vars, tableVars, lockVars, txVars, Struct, TypeOK
  <2>2. TypeOK'
    BY <2>1 DEF Struct, TypeOK, BudgetTypeOK
  <2>3. Rows' /\ Locked'
    BY <2>1 DEF Struct, Rows, Locked
  <2>4. Calls'
    BY <2>1 DEF Struct, Calls, CallOf
  <2>5. Read'
    BY <2>1, ReadSame DEF Struct, Read
  <2> QED
    BY <2>2, <2>3, <2>4, <2>5 DEF Struct
<1> QED
  BY <1>1, <1>2, <1>3, <1>5, <1>6, <1>7, AbortStruct DEF Next, Call
-----------------------------------------------------------------------------
(* What the transactions do to the abstract budget.                        *)

\* The rows that a transaction has reclaimed are open reservations, and
\* what they give back is what the abstract budget counts for them.
LEMMA ReclaimedHeld ==
  ASSUME Struct, NEW r \in Reservations, tx[r] \in {"insert", "grant", "refuse"}
  PROVE  /\ reclaimed[r] \in SUBSET Held
         /\ PhaseAfter(r) = Lapse(reclaimed[r])
         /\ Left(r) = Wrap(used - Total(amount, reclaimed[r]))
<1>1. \A q \in reclaimed[r] : q \in Reservations /\ held[q] # None
  BY DEF Struct, TypeOK, Locked
<1>2. \A q \in reclaimed[r] : phase[q] = "held" /\ held[q] = amount[q]
  BY <1>1 DEF Struct, Rows
<1>3. Total(held, reclaimed[r]) = Total(amount, reclaimed[r])
  BY <1>2, TotalCong
<1> QED
  BY <1>1, <1>2, <1>3 DEF Held, PhaseAfter, Lapse, Left

\* What a Reserve has left is the usage without the leases it reclaimed,
\* modulo the width of a BIGINT, and exactly that on a limited budget.
LEMMA LeftUsage ==
  ASSUME Struct, Sums, NEW r \in Reservations, tx[r] \in {"insert", "grant", "refuse"}
  PROVE  /\ Congruent(Left(r), Usage - Total(amount, reclaimed[r]))
         /\ Limit >= 0 => Left(r) = Usage - Total(amount, reclaimed[r])
<1> DEFINE T == Total(amount, reclaimed[r])
<1>1. /\ BudgetTypeOK /\ used \in BigInt /\ used \in Int /\ MaxInt \in Nat
      /\ Left(r) = Wrap(used - T) /\ T \in Nat /\ T <= Usage /\ Usage \in Nat
  <2>1. BudgetTypeOK /\ used \in BigInt /\ used \in Int /\ MaxInt \in Nat
    BY PostgresAssumption DEF Struct, TypeOK, BigInt
  <2>2. reclaimed[r] \in SUBSET Held /\ Left(r) = Wrap(used - T)
    BY ReclaimedHeld
  <2>3. T \in Nat /\ T <= Usage
    BY <2>1, <2>2, LapseTotal
  <2> QED
    BY <2>1, <2>2, <2>3, BudgetSums
<1>2. Congruent(Left(r), Usage - T)
  <2>1. Congruent(used - T, Usage - T)
    <3>1. Congruent(used, Usage) /\ (used - T) - used = (Usage - T) - Usage
      BY <1>1 DEF Sums
    <3> HIDE DEF T
    <3> QED
      BY <1>1, <3>1, CongruentShift
  <2>2. used - T \in Int /\ Usage - T \in Int
    BY <1>1
  <2>3. Congruent(Wrap(used - T), used - T) /\ Wrap(used - T) \in Int
    BY <2>2, WrapCongruent
  <2> QED
    BY <1>1, <2>1, <2>2, <2>3, CongruentTrans
<1>3. ASSUME Limit >= 0 PROVE Left(r) = Usage - T
  <2>1. used = Usage
    BY <1>3 DEF Sums
  <2>2. used - T \in BigInt /\ used - T \in Int /\ used - T <= 2 * MaxInt /\ used - T >= -(MaxInt + 1) - MaxInt
    BY <1>1, <2>1 DEF BigInt
  <2> QED
    BY <1>1, <2>1, <2>2, WrapRange
<1> QED
  BY <1>2, <1>3

LEMMA CommitReserveSums ==
  ASSUME Struct, Sums, NEW r \in Reservations, CommitReserve(r)
  PROVE  Sums' /\ BudgetNext
<1> DEFINE S == reclaimed[r]
           e == arg[r]
           left == Usage - Total(amount, S)
<1>1. tx[r] = "grant" /\ phase[r] = "free" /\ used' = newUsed[r]
  BY DEF CommitReserve, Struct, Calls, CallOf
<1>2. /\ newUsed[r] = Wrap(Left(r) + e) /\ ~OverBudget(Left(r), e)
      /\ S \in SUBSET Held /\ e \in Amounts /\ BudgetTypeOK
  BY <1>1, ReclaimedHeld DEF Struct, Read, ReadOf, TypeOK
<1>3. /\ phase' = [Lapse(S) EXCEPT ![r] = "held"]
      /\ amount' = [amount EXCEPT ![r] = e]
      /\ charge' = charge
  BY <1>1, ReclaimedHeld DEF CommitReserve
<1>4. r \notin Held \ S /\ r \notin Settled
  BY <1>1 DEF Held, Settled
<1>5. Usage' = left + e /\ Overshoot' = Overshoot
  BY <1>2, <1>3, <1>4, LapseGrantUsage
<1>6. /\ Left(r) \in BigInt /\ Left(r) \in Int /\ e \in Nat /\ left \in Nat /\ Overshoot \in Nat
      /\ Limit \in Int /\ Limit <= MaxInt /\ MaxInt \in Nat
  <2>1. Left(r) \in BigInt
    BY <1>1, LeftRange
  <2>2. Total(amount, S) \in Nat /\ Total(amount, S) <= Usage
    BY <1>2, LapseTotal
  <2>3. Usage \in Nat /\ Overshoot \in Nat
    BY <1>2, BudgetSums
  <2> QED
    BY <1>2, <2>1, <2>2, <2>3, AmountsAssumption, LimitAssumption, PostgresAssumption DEF BigInt
<1>7. Congruent(Left(r), left) /\ (Limit >= 0 => Left(r) = left)
  BY <1>1, LeftUsage
<1>8. Limit >= 0 => left + e <= Limit
  BY <1>2, <1>6, <1>7 DEF OverBudget
<1>9. Congruent(used', Usage')
  <2>1. Congruent(Left(r) + e, left + e)
    <3>1. (Left(r) + e) - Left(r) = (left + e) - left /\ Left(r) + e \in Int /\ left + e \in Int
      BY <1>6
    <3> HIDE DEF left, e
    <3> QED
      BY <1>6, <1>7, <3>1, CongruentShift
  <2>2. Congruent(Wrap(Left(r) + e), Left(r) + e) /\ Wrap(Left(r) + e) \in Int
    BY <1>6, WrapCongruent
  <2>3. left + e \in Int /\ Left(r) + e \in Int
    BY <1>6
  <2> QED
    BY <1>1, <1>2, <1>5, <2>1, <2>2, <2>3, CongruentTrans
<1>10. Limit >= 0 => used' = Usage' /\ Usage' <= Limit + Overshoot'
  <2> SUFFICES ASSUME Limit >= 0 PROVE used' = Usage' /\ Usage' <= Limit + Overshoot'
    OBVIOUS
  <2>1. Left(r) + e = left + e /\ left + e \in BigInt /\ left + e <= 2 * MaxInt /\ left + e >= -(MaxInt + 1) - MaxInt
    BY <1>6, <1>7, <1>8 DEF BigInt
  <2>2. Wrap(left + e) = left + e
    BY <1>6, <2>1, WrapRange
  <2>3. used' = Usage'
    BY <1>1, <1>2, <1>5, <2>1, <2>2
  <2> QED
    BY <1>5, <1>6, <1>8, <2>3
<1>11. Grant(r, e, S)
  <2>1. Limit < 0 \/ Usage - Total(amount, S) + e <= Limit
    BY <1>6, <1>8
  <2> QED
    BY <1>1, <1>3, <2>1 DEF Grant
<1>12. Sums'
  BY <1>9, <1>10 DEF Sums, Congruent, Modulus
<1> QED
  BY <1>2, <1>11, <1>12 DEF BudgetNext

LEMMA CommitReclaimedSums ==
  ASSUME Struct, Sums, NEW r \in Reservations, CommitReclaimed(r)
  PROVE  Sums' /\ BudgetNext
<1> DEFINE S == reclaimed[r]
<1>1. tx[r] = "refuse" /\ used' = Left(r)
  BY DEF CommitReclaimed, Struct, Read, ReadOf
<1>2. S \in SUBSET Held /\ BudgetTypeOK
  BY <1>1, ReclaimedHeld DEF Struct, TypeOK
<1>3. phase' = Lapse(S) /\ UNCHANGED <<amount, charge>>
  BY <1>1, ReclaimedHeld DEF CommitReclaimed
<1>4. Usage' = Usage - Total(amount, S) /\ Overshoot' = Overshoot
  BY <1>2, <1>3, LapseUsage
<1>5. Usage \in Nat /\ Overshoot \in Nat /\ Total(amount, S) \in Nat /\ Limit \in Int
  BY <1>2, LapseTotal, BudgetSums, LimitAssumption
<1>6. /\ Congruent(Left(r), Usage - Total(amount, S))
      /\ Limit >= 0 => Left(r) = Usage - Total(amount, S)
  BY <1>1, LeftUsage
<1>7. Congruent(used', Usage')
  BY <1>1, <1>4, <1>6
<1>8. Limit >= 0 => used' = Usage' /\ Usage' <= Limit + Overshoot'
  BY <1>1, <1>4, <1>5, <1>6 DEF Sums
<1>9. Sums'
  BY <1>7, <1>8 DEF Sums, Congruent, Modulus
<1> QED
  BY <1>2, <1>3, <1>9 DEF BudgetNext, Expire

LEMMA CommitEndSums ==
  ASSUME Struct, Sums, NEW r \in Reservations, CommitEnd(r)
  PROVE  Sums' /\ BudgetNext
<1> DEFINE last == IF op[r] = "commit" THEN "settled" ELSE "released"
           a == arg[r]
<1>1. /\ tx[r] = "end" /\ used' = used + a - held[r] /\ held[r] # None
      /\ op[r] \in {"commit", "release"} /\ (op[r] = "release" => a = 0)
  BY DEF CommitEnd, Struct, Locked, Calls, CallOf, Read, ReadOf
<1>2. /\ BudgetTypeOK /\ a \in Amounts /\ a \in Nat /\ used \in Int
      /\ phase[r] = "held" /\ held[r] = amount[r] /\ charge[r] = 0
  BY <1>1, AmountsAssumption, PostgresAssumption DEF Struct, TypeOK, Rows, Calls, CallOf, BigInt
<1>3. /\ phase' = [phase EXCEPT ![r] = last]
      /\ charge' = [charge EXCEPT ![r] = a]
      /\ amount' = amount
  BY DEF CommitEnd
<1>4. {} \in SUBSET Held /\ r \in Held \ {} /\ Lapse({}) = phase
  BY <1>2, LapseNothing DEF Held
<1>5. Usage \in Nat /\ Overshoot \in Nat /\ amount[r] \in Nat /\ Limit \in Int
  BY <1>2, BudgetSums, LimitAssumption
<1>6. ASSUME op[r] = "commit"
      PROVE  /\ Settle(r, a, {})
             /\ Usage' = Usage - amount[r] + a
             /\ a <= amount[r] => Overshoot' = Overshoot
             /\ a > amount[r] => Overshoot' = Overshoot + (a - amount[r])
  <2>1. phase' = [phase EXCEPT ![r] = "settled"]
    BY <1>3, <1>6
  <2>2. Settle(r, a, {})
    BY <1>3, <1>4, <2>1 DEF Settle
  <2> QED
    BY <1>2, <1>3, <2>1, <2>2, SettleUsage
<1>7. ASSUME op[r] = "release"
      PROVE  /\ Free(r, {}) /\ a = 0
             /\ Usage' = Usage - amount[r]
             /\ Overshoot' = Overshoot
  <2>1. phase' = [phase EXCEPT ![r] = "released"] /\ a = 0 /\ charge' = charge
    BY <1>1, <1>2, <1>3, <1>7 DEF BudgetTypeOK
  <2>2. Free(r, {})
    BY <1>3, <1>4, <2>1 DEF Free
  <2> QED
    BY <1>2, <1>3, <2>1, <2>2, DropUsage
<1>8. /\ Usage' \in Int /\ used' \in Int /\ used' - used = Usage' - Usage
  <2> HIDE DEF a
  <2>1. CASE op[r] = "commit"
    BY <1>1, <1>2, <1>5, <1>6, <2>1
  <2>2. CASE op[r] = "release"
    BY <1>1, <1>2, <1>5, <1>7, <2>2
  <2> QED
    BY <1>1, <2>1, <2>2
<1>9. Congruent(used', Usage')
  BY <1>2, <1>5, <1>8, CongruentShift DEF Sums
<1>10. Limit >= 0 => used' = Usage' /\ Usage' <= Limit + Overshoot'
  <2> SUFFICES ASSUME Limit >= 0 PROVE used' = Usage' /\ Usage' <= Limit + Overshoot'
    OBVIOUS
  <2>1. used = Usage /\ Usage <= Limit + Overshoot
    BY DEF Sums
  <2>2. used' = Usage'
    BY <1>5, <1>8, <2>1
  <2>3. Usage' <= Limit + Overshoot'
    <3> HIDE DEF a
    <3>1. CASE op[r] = "commit"
      BY <1>2, <1>5, <1>6, <2>1, <3>1
    <3>2. CASE op[r] = "release"
      BY <1>5, <1>7, <2>1, <3>2
    <3> QED
      BY <1>1, <3>1, <3>2
  <2> QED
    BY <2>2, <2>3
<1>11. Sums'
  BY <1>9, <1>10 DEF Sums, Congruent, Modulus
<1>12. BudgetNext
  <2>1. CASE op[r] = "commit"
    BY <1>2, <1>4, <1>6, <2>1 DEF BudgetNext
  <2>2. CASE op[r] = "release"
    BY <1>4, <1>7, <2>2 DEF BudgetNext
  <2> QED
    BY <1>1, <2>1, <2>2
<1> QED
  BY <1>11, <1>12

\* Every step keeps the sums, and is a step of the abstract budget.
LEMMA SumsNext == Struct /\ Sums /\ [Next]_vars => Sums' /\ [BudgetNext]_budgetVars
<1> SUFFICES ASSUME Struct, Sums, [Next]_vars PROVE Sums' /\ [BudgetNext]_budgetVars
  OBVIOUS
<1>1. CASE UNCHANGED <<phase, amount, charge, used>>
  <2>1. UNCHANGED budgetVars
    BY <1>1 DEF budgetVars
  <2>2. Usage' = Usage /\ Overshoot' = Overshoot
    BY <2>1, SameUsage
  <2> QED
    BY <1>1, <2>1, <2>2 DEF Sums, Congruent, Modulus
<1>2. ASSUME NEW r \in Reservations, Statement(r)
      PROVE  Sums' /\ [BudgetNext]_budgetVars
  BY <1>1, <1>2, CommitReserveSums, CommitReclaimedSums, CommitEndSums
     DEF Statement, LockBudget, Reclaim, Insert, DeleteRow, NotFound, UpdateBudget, Abort, tableVars
<1>3. ASSUME NEW r \in Reservations, Call(r) \/ Abort(r)
      PROVE  Sums' /\ [BudgetNext]_budgetVars
  BY <1>1, <1>3 DEF Call, Reserve, Commit, Release, Begin, Abort, tableVars
<1>4. CASE BreakDeadlock \/ Tick \/ UNCHANGED vars
  BY <1>1, <1>4 DEF BreakDeadlock, Abort, Tick, vars, tableVars
<1> QED
  BY <1>2, <1>3, <1>4 DEF Next

LEMMA SumsInit == Init => Sums
<1> SUFFICES ASSUME Init PROVE Sums
  OBVIOUS
<1>1. used = 0 /\ Usage = 0 /\ Overshoot = 0
  BY InitUsage DEF Init
<1>2. Congruent(0, 0)
  <2>1. Modulus \in Int
    BY PostgresAssumption DEF Modulus
  <2>2. 0 = 0 + 0 * Modulus
    BY <2>1
  <2> QED
    BY <2>2 DEF Congruent
<1> QED
  BY <1>1, <1>2, LimitAssumption DEF Sums
-----------------------------------------------------------------------------
(* The theorems.                                                           *)

\* The inductive invariant.
LEMMA StructCorrect == Spec => [](Struct /\ Sums)
BY StructInit, StructNext, SumsInit, SumsNext, PTL DEF Spec

\* Every variable has its type: used_micros and whatever a transaction has
\* computed stay BIGINTs (TypeOK).
THEOREM PostgresTypeCorrect == Spec => []TypeOK
<1>1. Struct => TypeOK
  BY DEF Struct
<1> QED
  BY <1>1, StructCorrect, PTL

\* The committed rows are exact (RowsAreExact), on a limited budget always and
\* on an unlimited one for as long as a BIGINT can hold the sum, although the
\* additions and subtractions of Reserve wrap around.
THEOREM PostgresRowsExact == Spec => []RowsAreExact
<1>1. Struct /\ Sums => RowsAreExact
  <2> SUFFICES ASSUME Struct, Sums PROVE RowsAreExact
    OBVIOUS
  <2>1. Usage \in Nat /\ used \in BigInt /\ MaxInt \in Nat
    BY BudgetSums, PostgresAssumption DEF Struct, TypeOK
  <2>2. Usage <= MaxInt => used = Usage
    <3> SUFFICES ASSUME Usage <= MaxInt PROVE used = Usage
      OBVIOUS
    <3>1. Usage \in BigInt /\ Congruent(used, Usage)
      BY <2>1 DEF Sums, BigInt
    <3> QED
      BY <2>1, <3>1, CongruentExact
  <2>3. Limit >= 0 => Usage <= MaxInt /\ Usage <= Limit + Overshoot
    BY <2>1 DEF Sums, BigInt
  <2> QED
    BY <2>2, <2>3 DEF Struct, Rows, RowsAreExact
<1> QED
  BY <1>1, StructCorrect, PTL

\* A call reports success only for what was committed (HandleTruth).
THEOREM PostgresHandleTruth == Spec => []HandleTruth
<1>1. Struct => HandleTruth
  BY DEF Struct, Calls, CallOf, HandleTruth
<1> QED
  BY <1>1, StructCorrect, PTL

\* The committed state implements the abstract budget, leases included
\* (ImplementsBudget).
THEOREM PostgresImplementsBudget == Spec => ImplementsBudget
<1>1. Init => BudgetInit
  BY DEF Init
<1> QED
  BY <1>1, StructCorrect, SumsNext, PTL DEF Spec, ImplementsBudget, BudgetSpec
=============================================================================
