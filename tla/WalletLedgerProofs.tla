------------------------- MODULE WalletLedgerProofs -------------------------
(***************************************************************************)
(* Theorems about the prepaid wallet, for any number of reservations and   *)
(* top-ups, any amounts, any lease and any integer width.                  *)
(*                                                                         *)
(* The four statements about money are inductive only together, and with   *)
(* Lifecycle, which says that an identity is granted at most once and is   *)
(* not charged while its hold is open.  NeverOverdrawn needs HoldsAreRows: *)
(* a settlement takes its own hold out of reserved_micros, and what it may *)
(* charge is computed from what then remains for the other holds.          *)
(***************************************************************************)
EXTENDS WalletLedger, MicroSumTheorems

\* A reservation is new until its Reserve returns, a terminal call belongs to
\* a handle that is not done, and an open hold has not been charged.
Lifecycle ==
  \A r \in Reservations :
    /\ tx[r] = "reserve" => client[r] = "new"
    /\ tx[r] \in {"commit", "release"} => client[r] = "owned"
    /\ client[r] = "new" => held[r] = None /\ debit[r] = None
    /\ held[r] # None => debit[r] = None
    /\ told[r] # None => client[r] = "done"

Money == NeverOverdrawn /\ HoldsAreRows /\ BooksBalance

WalletInv == TypeOK /\ Lifecycle /\ Money /\ ReportedIsBooked

\* The rows and entries are finitely many and hold natural amounts, so that
\* their totals are natural numbers.
LEMMA Books ==
  ASSUME TypeOK
  PROVE  /\ IsFiniteSet(Open) /\ IsFiniteSet(Debited) /\ IsFiniteSet(Credited)
         /\ \A r \in Open : held[r] \in Nat
         /\ \A r \in Debited : debit[r] \in Nat
         /\ \A k \in Credited : credit[k] \in Nat
         /\ Total(held, Open) \in Nat
         /\ Total(debit, Debited) \in Nat
         /\ Total(credit, Credited) \in Nat
<1>1. Open \subseteq Reservations /\ Debited \subseteq Reservations /\ Credited \subseteq TopUps
  BY DEF Open, Debited, Credited
<1>2. IsFiniteSet(Open) /\ IsFiniteSet(Debited) /\ IsFiniteSet(Credited)
  BY <1>1, FS_Subset, WalletAssumption
<1>3. \A r \in Open : held[r] \in Nat
  BY WalletAssumption DEF TypeOK, Micros, Open
<1>4. \A r \in Debited : debit[r] \in Nat
  BY DEF TypeOK, Debited
<1>5. \A k \in Credited : credit[k] \in Nat
  BY DEF TypeOK, Credited
<1>6. Total(held, Open) \in Nat
  BY <1>2, <1>3, TotalNat
<1>7. Total(debit, Debited) \in Nat
  BY <1>2, <1>4, TotalNat
<1>8. Total(credit, Credited) \in Nat
  BY <1>2, <1>5, TotalNat
<1> QED
  BY <1>2, <1>3, <1>4, <1>5, <1>6, <1>7, <1>8

\* What reclaimExpired leaves: the rows that are not expired, and their sum
\* in reserved_micros.
LEMMA AfterReclaim ==
  ASSUME TypeOK, HoldsAreRows, NEW r \in Reservations
  PROVE  /\ Expired(r) \subseteq Open
         /\ IsFiniteSet(Open \ Expired(r))
         /\ Remaining(r) = Total(held, Open \ Expired(r))
         /\ Remaining(r) \in Nat
         /\ Remaining(r) <= reserved
<1>1. Expired(r) \subseteq Open
  BY DEF Expired
<1>2. /\ IsFiniteSet(Open) /\ \A q \in Open : held[q] \in Nat
  BY Books
<1>3. IsFiniteSet(Expired(r)) /\ IsFiniteSet(Open \ Expired(r))
  BY <1>1, <1>2, FS_Subset, FS_Difference
<1>4. Total(held, Expired(r)) \in Nat /\ Total(held, Open \ Expired(r)) \in Nat
  <2>1. /\ \A q \in Expired(r) : held[q] \in Nat
        /\ \A q \in Open \ Expired(r) : held[q] \in Nat
    BY <1>1, <1>2
  <2> QED
    BY <1>3, <2>1, TotalNat
<1>5. Total(held, Open) = Total(held, Open \ Expired(r)) + Total(held, Expired(r))
  <2> DEFINE S == Open \ Expired(r)
             T == Expired(r)
  <2>1. S \cap T = {} /\ S \cup T = Open
    BY <1>1
  <2>2. \A q \in S \cup T : held[q] \in Nat
    BY <1>2, <2>1
  <2>3. IsFiniteSet(S) /\ IsFiniteSet(T)
    BY <1>3
  <2> HIDE DEF S, T
  <2>4. Total(held, S \cup T) = Total(held, S) + Total(held, T)
    BY <2>1, <2>2, <2>3, TotalUnion
  <2> QED
    BY <2>1, <2>4 DEF S, T
<1> QED
  BY <1>1, <1>3, <1>4, <1>5 DEF Remaining, HoldsAreRows

\* A row that Commit or Release deletes takes its amount out of the sum.
LEMMA AfterDelete ==
  ASSUME TypeOK, HoldsAreRows, NEW r \in Open
  PROVE  /\ Total(held, Open \ {r}) = reserved - held[r]
         /\ held[r] <= reserved
         /\ held[r] \in Nat
<1>1. IsFiniteSet(Open) /\ \A q \in Open : held[q] \in Nat
  BY Books
<1>2. /\ Total(held, Open \ {r}) = Total(held, Open) - held[r]
      /\ held[r] <= Total(held, Open)
  BY <1>1, TotalRemove
<1> QED
  BY <1>1, <1>2 DEF HoldsAreRows

\* The invariant holds initially.
LEMMA WalletInit == Init => WalletInv
<1> SUFFICES ASSUME Init PROVE WalletInv
  OBVIOUS
<1>1. TypeOK
  BY WalletAssumption DEF Init, TypeOK, Micros, None
<1>2. Open = {} /\ Debited = {} /\ Credited = {}
  BY DEF Init, Open, Debited, Credited
<1>3. Money
  BY <1>2, TotalEmpty, WalletAssumption DEF Init, Money, NeverOverdrawn, HoldsAreRows, BooksBalance
<1>4. Lifecycle /\ ReportedIsBooked
  BY DEF Init, Lifecycle, ReportedIsBooked
<1> QED
  BY <1>1, <1>3, <1>4 DEF WalletInv

\* A step that leaves the tables alone keeps the money.
LEMMA BooksUnchanged ==
  ASSUME WalletInv, UNCHANGED bookVars
  PROVE  Money'
BY DEF WalletInv, Money, NeverOverdrawn, HoldsAreRows, BooksBalance, bookVars, Open, Debited, Credited

\* A call that begins, and a transaction that is rolled back.
LEMMA CallInv ==
  ASSUME WalletInv, NEW r \in Reservations, Call(r) \/ Rollback(r)
  PROVE  WalletInv'
<1>1. Money'
  <2>1. UNCHANGED bookVars
    BY DEF Call, Rollback, Reserve, Commit, Release, Begin
  <2> QED
    BY <2>1, BooksUnchanged
<1>2. TypeOK' /\ Lifecycle' /\ ReportedIsBooked'
  <2> USE DEF WalletInv, bookVars
  <2>1. ASSUME NEW e \in Estimates, Reserve(r, e)
        PROVE  TypeOK' /\ Lifecycle' /\ ReportedIsBooked'
    <3>1. e \in Nat
      BY <2>1, WalletAssumption DEF Reserve, ValidEstimate
    <3> QED
      BY <2>1, <3>1 DEF Reserve, Begin, TypeOK, Lifecycle, ReportedIsBooked
  <2>2. ASSUME NEW a \in Actuals, Commit(r, a)
        PROVE  TypeOK' /\ Lifecycle' /\ ReportedIsBooked'
    <3>1. (IF a < 0 THEN 0 ELSE a) \in Nat
      BY WalletAssumption
    <3> QED
      BY <2>2, <3>1 DEF Commit, Begin, TypeOK, Lifecycle, ReportedIsBooked
  <2>3. ASSUME Release(r)
        PROVE  TypeOK' /\ Lifecycle' /\ ReportedIsBooked'
    BY <2>3 DEF Release, Begin, TypeOK, Lifecycle, ReportedIsBooked
  <2>4. ASSUME Rollback(r)
        PROVE  TypeOK' /\ Lifecycle' /\ ReportedIsBooked'
    BY <2>4, WalletAssumption DEF Rollback, Return, AfterError, TypeOK, Lifecycle, ReportedIsBooked
  <2> QED
    BY <2>1, <2>2, <2>3, <2>4 DEF Call
<1> QED
  BY <1>1, <1>2 DEF WalletInv

\* A Reserve that is refused keeps the invariant: it only drops expired rows.
LEMMA RefuseInv ==
  ASSUME WalletInv, NEW r \in Reservations, Refuse(r)
  PROVE  WalletInv'
<1> USE DEF WalletInv
<1>1. /\ Remaining(r) = Total(held, Open \ Expired(r))
      /\ Remaining(r) \in Nat /\ Remaining(r) <= reserved
  BY AfterReclaim DEF Money
<1>2. Open' = Open \ Expired(r)
  BY DEF Refuse, Open, TypeOK
<1>3. Total(held', Open') = Total(held, Open \ Expired(r))
  <2>1. \A q \in Open \ Expired(r) : held'[q] = held[q]
    BY DEF Refuse, Open
  <2> QED
    BY <1>2, <2>1, TotalCong
<1>4. Money'
  BY <1>1, <1>3 DEF Refuse, Money, NeverOverdrawn, HoldsAreRows, BooksBalance, Debited, Credited, TypeOK, Micros
<1>5. TypeOK'
  <2>1. reserved' \in Micros
    BY <1>1, WalletAssumption DEF Refuse, TypeOK, Micros
  <2>2. held' \in [Reservations -> Micros \cup {None}]
    BY DEF Refuse, TypeOK
  <2> QED
    BY <2>1, <2>2, WalletAssumption DEF Refuse, Return, TypeOK
<1>6. Lifecycle' /\ ReportedIsBooked'
  BY DEF Refuse, Reclaiming, Return, TypeOK, Lifecycle, ReportedIsBooked
<1> QED
  BY <1>4, <1>5, <1>6

\* A Reserve that is granted keeps the invariant: the new hold fits into what
\* the remaining holds leave of the balance.
LEMMA GrantInv ==
  ASSUME WalletInv, NEW r \in Reservations, Grant(r)
  PROVE  WalletInv'
<1> USE DEF WalletInv
<1>1. /\ Expired(r) \subseteq Open
      /\ IsFiniteSet(Open \ Expired(r))
      /\ Remaining(r) = Total(held, Open \ Expired(r))
      /\ Remaining(r) \in Nat /\ Remaining(r) <= reserved
  BY AfterReclaim DEF Money
<1>2. arg[r] \in Nat /\ client[r] = "new" /\ held[r] = None /\ debit[r] = None
  BY DEF Grant, Reclaiming, TypeOK, Lifecycle
<1>3. r \notin Open
  BY <1>2 DEF Open
<1>4. arg[r] <= balance - Remaining(r) /\ balance \in Micros
  BY <1>1, <1>2, WalletAssumption DEF Grant, Insufficient, TypeOK, Micros
<1>5. Open' = (Open \ Expired(r)) \cup {r}
  BY <1>1, <1>2 DEF Grant, Inserted, Open, TypeOK, None
<1>6. Total(held', Open') = Remaining(r) + arg[r]
  <2>1. \A q \in Open \ Expired(r) : held'[q] = held[q]
    BY <1>3 DEF Grant, Inserted, Open
  <2>2. Total(held', Open \ Expired(r)) = Remaining(r)
    BY <1>1, <2>1, TotalCong
  <2>3. held'[r] = arg[r]
    BY DEF Grant, Inserted
  <2>4. \A q \in (Open \ Expired(r)) \cup {r} : held'[q] \in Nat
    BY <1>2, <2>1, <2>3, Books
  <2>5. Total(held', (Open \ Expired(r)) \cup {r}) = Total(held', Open \ Expired(r)) + held'[r]
    BY <1>1, <1>3, <2>4, TotalAdd
  <2> QED
    BY <1>5, <2>2, <2>3, <2>5
<1>7. Money'
  BY <1>1, <1>2, <1>4, <1>6, WalletAssumption DEF Grant, Money, NeverOverdrawn, HoldsAreRows, BooksBalance, Debited, Credited, Micros
<1>8. TypeOK'
  <2>1. reserved' \in Micros /\ arg[r] \in Micros
    BY <1>1, <1>2, <1>4, WalletAssumption DEF Grant, Micros
  <2>2. held' \in [Reservations -> Micros \cup {None}]
    BY <2>1 DEF Grant, Inserted, TypeOK
  <2>3. expiry' \in [Reservations -> Nat]
    BY WalletAssumption DEF Grant, TypeOK
  <2> QED
    BY <2>1, <2>2, <2>3, WalletAssumption DEF Grant, Return, TypeOK
<1>9. Lifecycle' /\ ReportedIsBooked'
  BY <1>2 DEF Grant, Inserted, Return, TypeOK, Lifecycle, ReportedIsBooked
<1> QED
  BY <1>7, <1>8, <1>9

\* A settlement keeps the invariant: it moves its own hold and its charge out
\* of the wallet, and the check in settle leaves the other holds covered.
LEMMA SettleInv ==
  ASSUME WalletInv, NEW r \in Reservations, Settle(r)
  PROVE  WalletInv'
<1> USE DEF WalletInv
<1>1. r \in Open /\ debit[r] = None /\ arg[r] \in Nat /\ client[r] = "owned"
  BY DEF Settle, Open, Lifecycle, TypeOK
<1>2. /\ Total(held, Open \ {r}) = reserved - held[r]
      /\ held[r] <= reserved /\ held[r] \in Nat
  BY <1>1, AfterDelete DEF Money
<1>3. Open' = Open \ {r} /\ Total(held', Open') = reserved - held[r]
  <2>1. Open' = Open \ {r}
    BY DEF Settle, Open, TypeOK
  <2>2. \A q \in Open \ {r} : held'[q] = held[q]
    BY DEF Settle, Open, TypeOK
  <2> QED
    BY <1>2, <2>1, <2>2, TotalCong
<1>4. Total(debit', Debited') = Total(debit, Debited) + arg[r]
  <2>1. r \notin Debited
    BY <1>1 DEF Debited
  <2>2. \A q \in Debited : debit'[q] = debit[q]
    BY <2>1 DEF Settle, Debited, TypeOK
  <2>3. Total(debit', Debited) = Total(debit, Debited)
    BY <2>2, TotalCong
  <2>4. CASE arg[r] = 0
    <3>1. Debited' = Debited
      BY <1>1, <2>4 DEF Settle, Debited, TypeOK
    <3> QED
      BY <2>3, <2>4, <3>1, Books
  <2>5. CASE arg[r] > 0
    <3>1. debit'[r] = arg[r]
      BY <1>1, <2>5 DEF Settle, TypeOK
    <3>2. Debited' = Debited \cup {r}
      BY <1>1, <2>5, <3>1 DEF Settle, Debited, TypeOK, None
    <3>3. \A q \in Debited \cup {r} : debit'[q] \in Nat
      BY <1>1, <2>2, <3>1, Books
    <3>4. Total(debit', Debited \cup {r}) = Total(debit', Debited) + debit'[r]
      BY <2>1, <3>3, Books, TotalAdd
    <3> QED
      BY <2>3, <3>1, <3>2, <3>4
  <2> QED
    BY <1>1, <2>4, <2>5
<1>5. arg[r] <= balance - (reserved - held[r]) /\ balance \in 0..MaxInt /\ reserved \in 0..MaxInt
  BY DEF Settle, Affordable, TypeOK, Micros
<1>6. Money'
  <2>1. NeverOverdrawn' /\ HoldsAreRows'
    BY <1>1, <1>2, <1>3, <1>5, WalletAssumption DEF Settle, NeverOverdrawn, HoldsAreRows
  <2>2. BooksBalance'
    <3>1. Total(credit', Credited') = Total(credit, Credited)
      BY DEF Settle, Credited
    <3> QED
      BY <1>1, <1>4, <1>5, <3>1, Books, WalletAssumption DEF Settle, Money, BooksBalance
  <2> QED
    BY <2>1, <2>2 DEF Money
<1>7. TypeOK'
  <2>1. balance' \in Micros /\ reserved' \in Micros
    BY <1>1, <1>2, <1>5, WalletAssumption DEF Settle, Micros
  <2>2. debit' \in [Reservations -> Nat \cup {None}]
    BY <1>1 DEF Settle, TypeOK
  <2>3. told' \in [Reservations -> Nat \cup {None}]
    BY <1>1 DEF Settle, TypeOK
  <2>4. held' \in [Reservations -> Micros \cup {None}]
    BY DEF Settle, TypeOK
  <2> QED
    BY <2>1, <2>2, <2>3, <2>4, WalletAssumption DEF Settle, Return, TypeOK
<1>8. Lifecycle' /\ ReportedIsBooked'
  <2> USE <1>1 DEF Settle, Return, TypeOK
  <2>1. Lifecycle'
    BY DEF Lifecycle
  <2>2. ReportedIsBooked'
    BY DEF Lifecycle, ReportedIsBooked
  <2> QED
    BY <2>1, <2>2
<1> QED
  BY <1>6, <1>7, <1>8

\* A Release keeps the invariant: it only takes its own hold away.
LEMMA FreeInv ==
  ASSUME WalletInv, NEW r \in Reservations, Free(r)
  PROVE  WalletInv'
<1> USE DEF WalletInv
<1>1. r \in Open /\ client[r] = "owned"
  BY DEF Free, Open, Lifecycle, TypeOK
<1>2. /\ Total(held, Open \ {r}) = reserved - held[r]
      /\ held[r] <= reserved /\ held[r] \in Nat
  BY <1>1, AfterDelete DEF Money
<1>3. Total(held', Open') = reserved - held[r]
  <2>1. Open' = Open \ {r}
    BY DEF Free, Open, TypeOK
  <2>2. \A q \in Open \ {r} : held'[q] = held[q]
    BY DEF Free, Open, TypeOK
  <2> QED
    BY <1>2, <2>1, <2>2, TotalCong
<1>4. Money'
  BY <1>2, <1>3, WalletAssumption DEF Free, Money, NeverOverdrawn, HoldsAreRows, BooksBalance, Debited, Credited, TypeOK, Micros
<1>5. TypeOK'
  <2>1. reserved' \in Micros
    BY <1>2, WalletAssumption DEF Free, TypeOK, Micros
  <2>2. held' \in [Reservations -> Micros \cup {None}]
    BY DEF Free, TypeOK
  <2> QED
    BY <2>1, <2>2, WalletAssumption DEF Free, Return, TypeOK
<1>6. Lifecycle' /\ ReportedIsBooked'
  BY <1>1 DEF Free, Return, TypeOK, Lifecycle, ReportedIsBooked
<1> QED
  BY <1>4, <1>5, <1>6

\* A top-up adds its amount to the money paid in.
LEMMA CreditAdds ==
  ASSUME TypeOK, NEW k \in TopUps, NEW c \in Credits, CreditWallet(k, c)
  PROVE  /\ Total(credit', Credited') = Total(credit, Credited) + c
         /\ c \in Nat
<1>1. c \in Nat /\ credit[k] = None
  BY WalletAssumption DEF CreditWallet
<1>2. k \notin Credited
  BY <1>1 DEF Credited
<1>3. \A q \in Credited : credit'[q] = credit[q]
  BY <1>2 DEF CreditWallet, Credited, TypeOK
<1>4. Total(credit', Credited) = Total(credit, Credited)
  BY <1>3, TotalCong
<1>5. credit'[k] = c
  BY DEF CreditWallet, TypeOK
<1>6. Credited' = Credited \cup {k}
  BY <1>1, <1>5 DEF CreditWallet, Credited, TypeOK, None
<1>7. \A q \in Credited \cup {k} : credit'[q] \in Nat
  BY <1>1, <1>3, <1>5, Books
<1>8. Total(credit', Credited \cup {k}) = Total(credit', Credited) + credit'[k]
  BY <1>2, <1>7, Books, TotalAdd
<1> QED
  BY <1>1, <1>4, <1>5, <1>6, <1>8

\* A top-up keeps the invariant: the balance grows by its new entry.
LEMMA CreditInv ==
  ASSUME WalletInv, NEW k \in TopUps, NEW c \in Credits, CreditWallet(k, c)
  PROVE  WalletInv'
<1> USE DEF WalletInv
<1>1. c \in Nat /\ credit[k] = None
  BY WalletAssumption DEF CreditWallet
<1>2. Total(credit', Credited') = Total(credit, Credited) + c
  BY CreditAdds
<1>3. Total(held', Open') = Total(held, Open) /\ Total(debit', Debited') = Total(debit, Debited)
  BY DEF CreditWallet, Open, Debited
<1>4. Money'
  BY <1>1, <1>2, <1>3, Books, WalletAssumption DEF CreditWallet, Money, NeverOverdrawn, HoldsAreRows, BooksBalance, TypeOK, Micros
<1>5. TypeOK'
  BY <1>1, WalletAssumption DEF CreditWallet, TypeOK, Micros, txVars
<1>6. Lifecycle' /\ ReportedIsBooked'
  BY DEF CreditWallet, Lifecycle, ReportedIsBooked, txVars
<1> QED
  BY <1>4, <1>5, <1>6

\* Every step keeps the invariant.
LEMMA WalletNext == WalletInv /\ [Next]_vars => WalletInv'
<1> SUFFICES ASSUME WalletInv, [Next]_vars PROVE WalletInv'
  OBVIOUS
<1>1. ASSUME NEW r \in Reservations, Call(r) \/ Transaction(r)
      PROVE  WalletInv'
  BY <1>1, CallInv, RefuseInv, GrantInv, SettleInv, FreeInv DEF Transaction
<1>2. ASSUME NEW k \in TopUps, NEW c \in Credits, CreditWallet(k, c)
      PROVE  WalletInv'
  BY <1>2, CreditInv
<1>3. ASSUME NEW s \in {"active", "suspended"}, SetStatus(s) \/ SetOwner(s)
      PROVE  WalletInv'
  <2>1. Money'
    BY <1>3, BooksUnchanged DEF SetStatus, SetOwner
  <2> QED
    BY <1>3, <2>1 DEF WalletInv, SetStatus, SetOwner, TypeOK, Lifecycle, ReportedIsBooked, bookVars, txVars
<1>4. ASSUME Tick
      PROVE  WalletInv'
  <2>1. Money'
    BY <1>4, BooksUnchanged DEF Tick
  <2> QED
    BY <1>4, <2>1, WalletAssumption DEF WalletInv, Tick, TypeOK, Lifecycle, ReportedIsBooked, bookVars, txVars
<1>5. ASSUME UNCHANGED vars
      PROVE  WalletInv'
  <2>1. Money'
    BY <1>5, BooksUnchanged DEF vars
  <2> QED
    BY <1>5, <2>1 DEF WalletInv, vars, TypeOK, Lifecycle, ReportedIsBooked, bookVars, txVars
<1> QED
  BY <1>1, <1>2, <1>3, <1>4, <1>5 DEF Next

\* The invariant holds in every reachable state.
LEMMA WalletAlways == Spec => []WalletInv
<1> QED
  BY WalletInit, WalletNext, PTL DEF Spec

\* The variables of the wallet keep their types.
THEOREM WalletTypeCorrect == Spec => []TypeOK
<1>1. WalletInv => TypeOK
  BY DEF WalletInv
<1> QED
  BY <1>1, WalletAlways, PTL

\* The wallet is never overdrawn, whatever its calls, expiries, failures and
\* top-ups: the guards of wallet.go imply the schema's CHECK constraints.
THEOREM WalletNeverOverdrawn == Spec => []NeverOverdrawn
<1>1. WalletInv => NeverOverdrawn
  BY DEF WalletInv, Money
<1> QED
  BY <1>1, WalletAlways, PTL

\* The balance is always the opening balance plus the credit entries minus
\* the debit entries.
THEOREM WalletBooksBalance == Spec => []BooksBalance
<1>1. WalletInv => BooksBalance
  BY DEF WalletInv, Money
<1> QED
  BY <1>1, WalletAlways, PTL

\* reserved_micros is always the sum of the reservation rows.
THEOREM WalletHoldsAreRows == Spec => []HoldsAreRows
<1>1. WalletInv => HoldsAreRows
  BY DEF WalletInv, Money
<1> QED
  BY <1>1, WalletAlways, PTL

\* A Commit that returned nil has been booked at the amount it was given.
THEOREM WalletReportsTruth == Spec => []ReportedIsBooked
<1>1. WalletInv => ReportedIsBooked
  BY DEF WalletInv
<1> QED
  BY <1>1, WalletAlways, PTL

\* A charge is written once, in the step that takes the caller's own hold, and
\* is never changed afterwards.
THEOREM WalletChargedOnce == Spec => ChargedOnce
<1> DEFINE A == \A r \in Reservations : debit'[r] # debit[r] =>
                  debit[r] = None /\ held[r] # None /\ held'[r] = None
<1>1. WalletInv /\ [Next]_vars => [A]_vars
  <2> SUFFICES ASSUME WalletInv, Next PROVE A
    BY DEF vars
  <2>1. ASSUME NEW q \in Reservations, Settle(q) PROVE A
    BY <2>1 DEF Settle, WalletInv, TypeOK, Lifecycle
  <2>2. CASE UNCHANGED debit
    BY <2>2
  <2>3. ASSUME NEW q \in Reservations, Call(q) \/ Refuse(q) \/ Grant(q) \/ Free(q) \/ Rollback(q)
        PROVE  UNCHANGED debit
    BY <2>3 DEF Call, Reserve, Commit, Release, Begin, Refuse, Grant, Free, Rollback, bookVars
  <2>4. CASE ~\E q \in Reservations : Call(q) \/ Transaction(q)
    <3>1. UNCHANGED debit
      BY <2>4 DEF Next, CreditWallet, SetStatus, SetOwner, Tick, bookVars
    <3> QED
      BY <2>2, <3>1
  <2> QED
    BY <2>1, <2>2, <2>3, <2>4 DEF Transaction
<1> QED
  BY <1>1, WalletAlways, PTL DEF Spec, ChargedOnce

\* Only a call that was admitted by both statuses takes money, and it is over
\* in that step; no other step does.
LEMMA OnlyAdmittedMove ==
  ASSUME WalletInv, Next
  PROVE  Frozen \/ (status = "active" /\ \E q \in Admitted : tx'[q] = "idle")
<1>1. balance \in Int /\ reserved \in Int
  BY WalletAssumption DEF WalletInv, TypeOK, Micros
<1>2. ASSUME NEW q \in Reservations, Free(q)
      PROVE  Frozen
  <2>1. q \in Open
    BY <1>2 DEF Free, Open
  <2>2. held[q] \in Nat
    BY <2>1, Books DEF WalletInv
  <2> QED
    BY <1>1, <1>2, <2>2 DEF Free, Frozen
<1>3. ASSUME NEW q \in Reservations, Call(q) \/ Rollback(q)
      PROVE  Frozen
  BY <1>1, <1>3 DEF Call, Reserve, Commit, Release, Begin, Rollback, bookVars, Frozen
<1>4. ASSUME NEW q \in Reservations, Refuse(q) \/ Grant(q) \/ Settle(q)
      PROVE  status = "active" /\ q \in Admitted /\ tx'[q] = "idle"
  BY <1>4 DEF Refuse, Grant, Settle, Reclaiming, Usable, Return, Admitted, WalletInv, TypeOK
<1>5. ASSUME NEW k \in TopUps, NEW c \in Credits, CreditWallet(k, c)
      PROVE  Frozen
  BY <1>1, <1>5, WalletAssumption DEF CreditWallet, Frozen
<1>6. ASSUME Tick \/ \E s \in {"active", "suspended"} : SetStatus(s) \/ SetOwner(s)
      PROVE  Frozen
  BY <1>1, <1>6 DEF Tick, SetStatus, SetOwner, bookVars, Frozen
<1> QED
  BY <1>2, <1>3, <1>4, <1>5, <1>6 DEF Next, Transaction

\* While the owner is suspended no call begins with a snapshot in which it is
\* active.
LEMMA NoneAdmitted ==
  ASSUME WalletInv, Next, owner # "active"
  PROVE  Admitted' \subseteq Admitted
<1>1. ASSUME NEW q \in Reservations, Call(q)
      PROVE  Admitted' \subseteq Admitted
  BY <1>1 DEF Call, Reserve, Commit, Release, Begin, Admitted, WalletInv, TypeOK
<1>2. ASSUME NEW q \in Reservations, Transaction(q)
      PROVE  Admitted' \subseteq Admitted
  <2>1. PICK known : Return(q, known)
    BY <1>2 DEF Transaction, Refuse, Grant, Settle, Free, Rollback
  <2> QED
    BY <2>1 DEF Return, Admitted, WalletInv, TypeOK
<1>3. CASE UNCHANGED txVars
  BY <1>3 DEF txVars, Admitted
<1> QED
  BY <1>1, <1>2, <1>3 DEF Next, CreditWallet, SetStatus, SetOwner, Tick

\* A suspended wallet is frozen at once; a suspended owner's wallet is frozen
\* once the calls that began before are over, each of which moves money at
\* most once.
THEOREM WalletSuspensionDrains == Spec => SuspensionDrains
<1> DEFINE A == /\ status # "active" => Frozen
                /\ owner # "active" =>
                     Admitted' \subseteq Admitted /\ (Admitted' = Admitted => Frozen)
<1>1. WalletInv /\ [Next]_vars => [A]_vars
  <2> SUFFICES ASSUME WalletInv, Next PROVE A
    BY DEF vars
  <2>1. ASSUME NEW q \in Admitted, tx'[q] = "idle" PROVE Admitted' # Admitted
    BY <2>1 DEF Admitted
  <2> QED
    BY <2>1, OnlyAdmittedMove, NoneAdmitted
<1> QED
  BY <1>1, WalletAlways, PTL DEF Spec, SuspensionDrains

\* The names of the contract: its sums, and its holds and charges, are those
\* of the wallet.
LEMMA WalletNames ==
  /\ MB!Holding = Open /\ MB!Charged = Debited
  /\ \A f, S : MB!Total(f, S) = Total(f, S)
<1>1. MB!Holding = Open /\ MB!Charged = Debited
  BY DEF MB!Holding, MB!Charged, Open, Debited
<1>2. ASSUME NEW f, NEW S
      PROVE  MB!Total(f, S) = Total(f, S)
  BY DEF MB!Total, MB!Units, Total, Units, MB!Cardinality, Cardinality
<1> QED
  BY <1>1, <1>2

\* The limit of the contract, the money paid in.
PaidIn == Opening + Total(credit, Credited)

\* A granted Reserve is a Grant of the contract: with the expired holds gone,
\* the new one fits beside the others and the debits.
LEMMA GrantIsGrant ==
  ASSUME WalletInv, NEW r \in Reservations, Grant(r)
  PROVE  MB!Grant(r, Expired(r)) /\ Expired(r) \in SUBSET MB!Holding
<1> USE DEF WalletInv
<1>1. /\ Expired(r) \subseteq Open
      /\ Remaining(r) = Total(held, Open \ Expired(r))
      /\ Remaining(r) \in Nat
  BY AfterReclaim DEF Money
<1>2. arg[r] \in Nat /\ held[r] = None /\ debit[r] = None
  BY DEF Grant, Reclaiming, TypeOK, Lifecycle
<1>3. held'[r] = arg[r]
  BY DEF Grant, Inserted
<1>4. Remaining(r) + Total(debit, Debited) + arg[r] <= PaidIn
  <2>1. balance = PaidIn - Total(debit, Debited)
    BY Books, WalletAssumption DEF Money, BooksBalance, PaidIn
  <2>2. arg[r] <= balance - Remaining(r)
    BY <1>1, <1>2, WalletAssumption DEF Grant, Insufficient, TypeOK, Micros
  <2>3. PaidIn \in Int
    BY Books, WalletAssumption DEF PaidIn, Micros
  <2> QED
    BY <1>1, <1>2, <2>1, <2>2, <2>3, Books
<1>5. held' = [MB!Without(Expired(r)) EXCEPT ![r] = held'[r]]
  BY <1>2, <1>3 DEF Grant, Inserted, MB!Without, TypeOK
<1>6. UNCHANGED <<PaidIn, debit>>
  BY DEF Grant, PaidIn, Credited
<1> QED
  BY <1>1, <1>2, <1>3, <1>4, <1>5, <1>6, WalletNames DEF MB!Grant, PaidIn

\* A hold that leaves without a debit is dropped.
LEMMA FreeIsDrop ==
  ASSUME WalletInv, NEW r \in Reservations, held[r] # None,
         held' = [held EXCEPT ![r] = None], UNCHANGED <<debit, credit>>
  PROVE  MB!Drop({r}) /\ {r} \in SUBSET MB!Holding
<1>1. {r} \in SUBSET MB!Holding
  BY WalletNames DEF Open
<1>2. held' = MB!Without({r})
  BY DEF MB!Without, WalletInv, TypeOK
<1>3. UNCHANGED <<PaidIn, debit>>
  BY DEF PaidIn, Credited
<1> QED
  BY <1>1, <1>2, <1>3 DEF MB!Drop, PaidIn

\* A step that leaves holds and entries alone does nothing to the contract.
LEMMA WalletStutters ==
  ASSUME UNCHANGED <<held, debit, credit>>
  PROVE  UNCHANGED MB!movingVars
BY DEF MB!movingVars, Credited

\* A transaction that reaches COMMIT is a step of the contract.
LEMMA TransactionMaps ==
  ASSUME WalletInv, NEW r \in Reservations, Transaction(r)
  PROVE  [MB!MovingNext]_(MB!movingVars)
<1>1. CASE Refuse(r)
  <2>1. Expired(r) \in SUBSET MB!Holding
    BY WalletNames DEF Expired
  <2>2. UNCHANGED <<PaidIn, debit>>
    BY <1>1 DEF Refuse, PaidIn, Credited
  <2>3. MB!Drop(Expired(r))
    BY <1>1, <2>2 DEF Refuse, MB!Drop, MB!Without, PaidIn
  <2> QED
    BY <2>1, <2>3 DEF MB!MovingNext
<1>2. CASE Grant(r)
  BY <1>2, GrantIsGrant DEF MB!MovingNext
<1>3. CASE Settle(r)
  <2>1. held[r] # None /\ debit[r] = None /\ arg[r] \in Nat
    BY <1>3 DEF Settle, WalletInv, Lifecycle, TypeOK
  <2>2. held' = [held EXCEPT ![r] = None] /\ UNCHANGED credit
    BY <1>3 DEF Settle
  <2>3. CASE arg[r] = 0
    <3>1. UNCHANGED debit
      BY <1>3, <2>3 DEF Settle, WalletInv, TypeOK
    <3> QED
      BY <2>1, <2>2, <3>1, FreeIsDrop DEF MB!MovingNext
  <2>4. CASE arg[r] > 0
    <3>1. debit' = [debit EXCEPT ![r] = arg[r]] /\ debit'[r] = arg[r]
      BY <1>3, <2>4 DEF Settle, WalletInv, TypeOK
    <3>2. UNCHANGED PaidIn
      BY <2>2 DEF PaidIn, Credited
    <3>3. MB!Charge(r)
      BY <2>1, <2>2, <3>1, <3>2 DEF MB!Charge, PaidIn
    <3> QED
      BY <3>3 DEF MB!MovingNext
  <2> QED
    BY <2>1, <2>3, <2>4
<1>4. CASE Free(r)
  <2>1. MB!Drop({r}) /\ {r} \in SUBSET MB!Holding
    BY <1>4, FreeIsDrop DEF Free
  <2> QED
    BY <2>1 DEF MB!MovingNext
<1>5. CASE Rollback(r)
  BY <1>5, WalletStutters DEF Rollback, bookVars
<1> QED
  BY <1>1, <1>2, <1>3, <1>4, <1>5 DEF Transaction

\* The wallet implements the contract of a budget whose limit is the money
\* paid in, for any amounts, leases, suspensions and failures.
THEOREM WalletImplements == Spec => ImplementsMovingBudget
<1>1. Init => MB!MovingInit
  <2> SUFFICES ASSUME Init PROVE MB!MovingInit
    OBVIOUS
  <2>1. Credited = {}
    BY DEF Init, Credited
  <2>2. PaidIn \in Nat
    BY <2>1, TotalEmpty, WalletAssumption DEF PaidIn
  <2> QED
    BY <2>2 DEF Init, MB!MovingInit, PaidIn
<1>2. WalletInv /\ WalletInv' /\ [Next]_vars => [MB!MovingNext]_(MB!movingVars)
  <2> SUFFICES ASSUME WalletInv, WalletInv', [Next]_vars
               PROVE  [MB!MovingNext]_(MB!movingVars)
    OBVIOUS
  <2>1. ASSUME NEW r \in Reservations, Call(r)
        PROVE  UNCHANGED MB!movingVars
    BY <2>1, WalletStutters DEF Call, Reserve, Commit, Release, Begin, bookVars
  <2>2. ASSUME NEW k \in TopUps, NEW c \in Credits, CreditWallet(k, c)
        PROVE  MB!MovingNext
    <3>1. PaidIn' \in Nat
      BY <2>2, Books, CreditAdds, WalletAssumption DEF WalletInv, PaidIn
    <3> QED
      BY <2>2, <3>1 DEF CreditWallet, MB!MovingNext, MB!SetLimit, PaidIn
  <2>3. ASSUME Tick \/ (\E s \in {"active", "suspended"} : SetStatus(s) \/ SetOwner(s)) \/ UNCHANGED vars
        PROVE  UNCHANGED MB!movingVars
    BY <2>3, WalletStutters DEF Tick, SetStatus, SetOwner, bookVars, vars
  <2> QED
    BY <2>1, <2>2, <2>3, TransactionMaps DEF Next
<1> QED
  BY <1>1, <1>2, WalletAlways, PTL DEF Spec, ImplementsMovingBudget, MB!MovingSpec
=============================================================================
