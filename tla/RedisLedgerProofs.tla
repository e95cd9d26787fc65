--------------------------- MODULE RedisLedgerProofs ---------------------------
(***************************************************************************)
(* Theorems about the Redis ledger, for any number of reservations, any    *)
(* limit, lease, margin and batch size, and any number of requests.        *)
(*                                                                         *)
(* UsedIsExact is not inductive: a script trusts the keys, so Keys says    *)
(* what a key implies about its reservation.  A Reserve on its way to the  *)
(* server is trusted to be the only one for its id until the client        *)
(* library repeats one, and to ask for the same amount as the others even  *)
(* then (Asking, Agree); Callers says what a client that waits, or that    *)
(* has its answer, may conclude.                                           *)
(***************************************************************************)
EXTENDS RedisLedger, BudgetTheorems

\* What the key of a reservation says: its amount, while it is open; after
\* its end only where a repeated request has set it again.  An open
\* reservation is without its key only when Redis has evicted it.
KeyOf(r) ==
  /\ key[r] # None => key[r] = amount[r] /\ phase[r] \in {"held", "settled", "released"}
  /\ key[r] = None /\ phase[r] = "held" => Evicted(r)
  /\ phase[r] # "settled" => charge[r] = 0
Keys == \A r \in Reservations : KeyOf(r)

\* A Reserve on its way asks for the amount of the call it belongs to, and for
\* an id in use only if it is a repetition.
AskOf(m) ==
  /\ client[m.r] # "new"
  /\ client[m.r] = "reserving" => arg[m.r] = m.arg
  /\ phase[m.r] # "free" => resent /\ amount[m.r] = m.arg
Asking == \A m \in net : m.op = "reserving" => AskOf(m)

\* Those on their way for one id ask for the same, and there is more than one
\* only if one is a repetition.
Agree ==
  \A m, l \in net : m.op = "reserving" /\ l.op = "reserving" /\ m.r = l.r =>
    m.arg = l.arg /\ (~resent => m = l)

\* What a client knows of its reservation and may read in an answer.
CallerOf(r) ==
  /\ client[r] = "new" => phase[r] = "free"
  /\ client[r] \in {"owned", "committing", "releasing", "done"} => phase[r] # "free"
  /\ client[r] = "done" => phase[r] \in {"settled", "released"}
  /\ client[r] = "reserving" /\ phase[r] # "free" => arg[r] = amount[r]
  /\ reply[r] # "none" => client[r] \in Waits
  /\ reply[r] = "ok" /\ client[r] = "reserving" => phase[r] # "free"
  /\ reply[r] = "ok" /\ client[r] # "reserving" => phase[r] \in {"settled", "released"}
  /\ reply[r] = "notFound" => client[r] # "reserving"
Callers == \A r \in Reservations : CallerOf(r)

Types == TypeOK /\ sent \in [Reservations -> Nat]

Struct == Types /\ Keys /\ Asking /\ Agree /\ Callers

\* Keys without an open reservation: a repeated Reserve has set them.
Stray == {r \in Reservations : key[r] # None /\ phase[r] # "held"}

\* The used counter covers the usage and what stray keys will give back.
Exact ==
  /\ used >= Usage + Total(amount, Stray)
  /\ ~resent => used = Usage /\ Stray = {}
  /\ Limit >= 0 => Usage <= Limit + Overshoot
-----------------------------------------------------------------------------
(* The clients.                                                            *)

LEMMA StructInit == Init => Struct
<1> SUFFICES ASSUME Init PROVE Struct
  OBVIOUS
<1>1. Types
  <2>1. BudgetTypeOK
    BY InitUsage DEF Init
  <2>2. MaxTime \in Nat /\ \A r \in Reservations : MaxSends[r] \in Nat
    BY RedisAssumption
  <2>3. \A r \in Reservations : sent[r] \in 0..MaxSends[r]
    BY <2>2 DEF Init
  <2>4. now \in 0..MaxTime /\ used \in Int /\ net \subseteq Requests /\ resent \in BOOLEAN
    <3>1. now = 0 /\ used = 0 /\ net = {} /\ resent = FALSE
      BY DEF Init
    <3>2. now \in 0..MaxTime /\ used \in Int
      BY <2>2, <3>1
    <3> QED
      BY <3>1, <3>2, Zenon
  <2>5. /\ key \in [Reservations -> Amounts \cup {None}]
        /\ deadline \in [Reservations -> Nat]
        /\ score \in [Reservations -> Nat \cup {None}]
    BY DEF Init
  <2>6. /\ reply \in [Reservations -> {"none", "ok", "exceeded", "notFound"}]
        /\ client \in [Reservations -> Waits \cup {"new", "owned", "lost", "done"}]
        /\ arg \in [Reservations -> Amounts]
        /\ sent \in [Reservations -> Nat]
    BY AmountsAssumption DEF Init
  <2> QED
    BY <2>1, <2>3, <2>4, <2>5, <2>6 DEF Types, TypeOK
<1>2. Keys /\ Asking /\ Agree /\ Callers
  BY DEF Init, BudgetInit, Keys, KeyOf, Asking, Agree, Callers, CallerOf
<1> QED
  BY <1>1, <1>2 DEF Struct

\* The fields of a request on its way.
LEMMA Request ==
  ASSUME TypeOK, NEW m \in net
  PROVE  m.r \in Reservations /\ m.op \in Waits /\ m.arg \in Amounts /\ m.n \in Nat
<1>1. m \in Requests
  BY DEF TypeOK
<1>2. m \in [r : Reservations, op : Waits, arg : Amounts, n : Nat]
  BY <1>1 DEF Requests
<1> QED
  BY <1>2

\* A call sends its request, or the client library sends it again.
LEMMA SendStruct ==
  ASSUME Struct, NEW r \in Reservations, NEW op \in Waits, NEW x \in Amounts, Send(r, op, x),
         \/ client[r] = "new" /\ op = "reserving"
         \/ client[r] = "owned" /\ op \in {"committing", "releasing"}
         \/ client[r] \in Waits /\ op = client[r] /\ x = arg[r]
  PROVE  Struct'
<1> USE DEF Struct
<1> DEFINE new == [r |-> r, op |-> op, arg |-> x, n |-> sent[r] + 1]
<1>1. /\ sent[r] < MaxSends[r] /\ sent' = [sent EXCEPT ![r] = sent[r] + 1]
      /\ net' = net \cup {new}
      /\ client' = [client EXCEPT ![r] = op]
      /\ arg' = [arg EXCEPT ![r] = x]
      /\ reply' = [reply EXCEPT ![r] = "none"]
      /\ resent' = (resent \/ client[r] \in Waits)
      /\ UNCHANGED <<phase, amount, charge, now, used, key, deadline, score>>
  BY DEF Send, serverVars
<1>2. new.r = r /\ new.op = op /\ new.arg = x /\ new \in Requests /\ sent[r] + 1 \in 0..MaxSends[r]
  <2>1. sent[r] + 1 \in Nat /\ sent[r] + 1 \in 1..MaxSends[r] /\ sent[r] + 1 \in 0..MaxSends[r]
    <3>1. MaxSends[r] \in Nat /\ sent[r] \in Nat
      BY RedisAssumption DEF Types
    <3> QED
      BY <1>1, <3>1
  <2>2. new \in [r : Reservations, op : Waits, arg : Amounts, n : Nat] /\ new.n \in 1..MaxSends[new.r]
    BY <2>1
  <2>3. new \in Requests
    <3> HIDE DEF new
    <3> QED
      BY <2>2 DEF Requests
  <2> QED
    BY <2>1, <2>3
<1> HIDE DEF new
<1>3. Types'
  <2>1. net' \subseteq Requests /\ sent' \in [Reservations -> Nat]
    BY <1>1, <1>2 DEF Types, TypeOK
  <2>2. \A q \in Reservations : sent'[q] \in 0..MaxSends[q]
    BY <1>1, <1>2 DEF Types, TypeOK
  <2>3. /\ reply' \in [Reservations -> {"none", "ok", "exceeded", "notFound"}]
        /\ client' \in [Reservations -> Waits \cup {"new", "owned", "lost", "done"}]
        /\ arg' \in [Reservations -> Amounts]
        /\ resent' \in BOOLEAN
    BY <1>1 DEF Types, TypeOK
  <2> QED
    BY <1>1, <2>1, <2>2, <2>3 DEF Types, TypeOK, BudgetTypeOK
<1>4. Keys'
  BY <1>1 DEF Keys, KeyOf, Evicted
<1>5. /\ client'[r] = op /\ arg'[r] = x /\ reply'[r] = "none"
      /\ \A q \in Reservations \ {r} : client'[q] = client[q] /\ arg'[q] = arg[q] /\ reply'[q] = reply[q]
  BY <1>1 DEF Types, TypeOK
<1>6. \A m \in net : m.r \in Reservations
  BY Request DEF Types
<1>7. op = "reserving" => /\ phase[r] # "free" => resent' /\ amount[r] = x
                          /\ \A m \in net : m.r = r /\ m.op = "reserving" => m.arg = x /\ resent'
  BY <1>1 DEF Asking, AskOf, Callers, CallerOf, Waits
<1>8. op # "reserving" => client[r] # "new" /\ phase[r] # "free"
  BY DEF Callers, CallerOf, Waits
<1>9. Asking'
  <2> SUFFICES ASSUME NEW m \in net', m.op = "reserving" PROVE AskOf(m)'
    BY DEF Asking
  <2>1. CASE m = new
    BY <1>1, <1>2, <1>5, <1>7, <2>1 DEF AskOf
  <2>2. CASE m \in net /\ m.r # r
    BY <1>1, <1>5, <1>6, <2>2 DEF Asking, AskOf
  <2>3. CASE m \in net /\ m.r = r
    BY <1>1, <1>5, <1>7, <2>3 DEF Asking, AskOf, Waits
  <2> QED
    BY <1>1, <2>1, <2>2, <2>3
<1>10. Agree'
  <2> SUFFICES ASSUME NEW m \in net', NEW l \in net', m.op = "reserving", l.op = "reserving", m.r = l.r
               PROVE  m.arg = l.arg /\ (~resent' => m = l)
    BY DEF Agree
  <2>1. CASE m \in net /\ l \in net
    BY <1>1, <2>1 DEF Agree
  <2>2. CASE m = new /\ l \in net
    BY <1>2, <1>7, <2>2
  <2>3. CASE l = new /\ m \in net
    BY <1>2, <1>7, <2>3
  <2>4. CASE m = new /\ l = new
    BY <2>4
  <2> QED
    BY <1>1, <2>1, <2>2, <2>3, <2>4
<1>11. Callers'
  <2> SUFFICES ASSUME NEW q \in Reservations PROVE CallerOf(q)'
    BY DEF Callers
  <2>1. CASE q # r
    BY <1>1, <1>5, <2>1 DEF Callers, CallerOf
  <2>2. CASE q = r
    BY <1>1, <1>5, <1>7, <1>8, <2>2 DEF CallerOf, Waits
  <2> QED
    BY <2>1, <2>2
<1> QED
  BY <1>3, <1>4, <1>9, <1>10, <1>11

\* A call returns.
LEMMA ReturnStruct ==
  ASSUME Struct, NEW r \in Reservations, NEW ok, Return(r, ok), client[r] \in Waits,
         ok \in BOOLEAN, ok => reply[r] = "ok"
  PROVE  Struct'
<1> USE DEF Struct
<1>1. /\ client' = [client EXCEPT ![r] = Outcome(r, ok)]
      /\ reply' = [reply EXCEPT ![r] = "none"]
      /\ arg' = [arg EXCEPT ![r] = 0]
      /\ UNCHANGED <<phase, amount, charge, now, used, key, deadline, score, net, sent, resent>>
  BY DEF Return, serverVars
<1>2. /\ Outcome(r, ok) \in {"owned", "lost", "done"}
      /\ Outcome(r, ok) = "owned" => phase[r] # "free"
      /\ Outcome(r, ok) = "done" => phase[r] \in {"settled", "released"}
  BY DEF Outcome, Callers, CallerOf, Waits
<1>3. /\ client'[r] = Outcome(r, ok) /\ reply'[r] = "none"
      /\ \A q \in Reservations \ {r} : client'[q] = client[q] /\ arg'[q] = arg[q] /\ reply'[q] = reply[q]
  BY <1>1 DEF Types, TypeOK
<1>4. Types'
  BY <1>1, <1>2, AmountsAssumption DEF Types, TypeOK, BudgetTypeOK
<1>5. Keys' /\ Agree'
  BY <1>1 DEF Keys, KeyOf, Evicted, Agree
<1>6. Asking'
  <2> SUFFICES ASSUME NEW m \in net, m.op = "reserving" PROVE AskOf(m)'
    BY <1>1 DEF Asking
  <2>1. AskOf(m) /\ m.r \in Reservations
    BY Request DEF Asking, Types
  <2> QED
    BY <1>1, <1>2, <1>3, <2>1 DEF AskOf
<1>7. Callers'
  <2> SUFFICES ASSUME NEW q \in Reservations PROVE CallerOf(q)'
    BY DEF Callers
  <2>1. CASE q # r
    BY <1>1, <1>3, <2>1 DEF Callers, CallerOf
  <2>2. CASE q = r
    BY <1>1, <1>2, <1>3, <2>2 DEF CallerOf
  <2> QED
    BY <2>1, <2>2
<1> QED
  BY <1>4, <1>5, <1>6, <1>7

\* A request is lost.
LEMMA DropStruct ==
  ASSUME Struct, NEW m \in net, Drop(m)
  PROVE  Struct'
<1>1. /\ net' = net \ {m}
      /\ UNCHANGED <<phase, amount, charge, now, used, key, deadline, score, reply, client, arg, sent, resent>>
  BY DEF Drop, serverVars
<1>2. Types' /\ Keys'
  BY <1>1 DEF Struct, Types, TypeOK, BudgetTypeOK, Keys, KeyOf, Evicted
<1>3. Asking' /\ Agree'
  BY <1>1 DEF Struct, Asking, AskOf, Agree
<1>4. Callers'
  BY <1>1 DEF Struct, Callers, CallerOf
<1> QED
  BY <1>2, <1>3, <1>4 DEF Struct
-----------------------------------------------------------------------------
(* The server.                                                             *)

\* A script never makes a reservation free again, changes the amount of one
\* in use, or takes back an end.
Forward(q) ==
  /\ phase[q] # "free" => phase'[q] # "free" /\ amount'[q] = amount[q]
  /\ phase[q] \in {"settled", "released"} => phase'[q] \in {"settled", "released"}

\* An answer is true when it is given, and what clients know stays true.
LEMMA AnswerStruct ==
  ASSUME Struct, NEW m \in net, NEW result \in {"ok", "exceeded", "notFound"}, Answer(m, result),
         \A q \in Reservations : Forward(q),
         \A q \in Reservations : phase[q] = "free" /\ phase'[q] # "free" =>
           q = m.r /\ m.op = "reserving" /\ amount'[q] = m.arg,
         result = "ok" /\ m.op = "reserving" => phase'[m.r] # "free",
         result = "ok" /\ m.op # "reserving" => phase'[m.r] \in {"settled", "released"},
         result = "notFound" => m.op # "reserving"
  PROVE  /\ Asking' /\ Agree' /\ Callers'
         /\ net' \subseteq Requests
         /\ reply' \in [Reservations -> {"none", "ok", "exceeded", "notFound"}]
<1> USE DEF Struct, Types
<1>1. /\ net' = net \ {m}
      /\ UNCHANGED <<now, client, arg, sent, resent>>
      /\ m.r \in Reservations /\ m.op \in Waits
  BY Request DEF Answer
<1>2. reply' \in [Reservations -> {"none", "ok", "exceeded", "notFound"}]
  BY <1>1 DEF Answer, TypeOK
<1>3. Asking'
  <2> SUFFICES ASSUME NEW l \in net', l.op = "reserving" PROVE AskOf(l)'
    BY DEF Asking
  <2>1. l \in net /\ l # m /\ l.r \in Reservations /\ AskOf(l) /\ Forward(l.r)
    BY <1>1, Request DEF Asking
  <2>2. CASE phase[l.r] # "free"
    BY <1>1, <2>1, <2>2 DEF AskOf, Forward
  <2>3. CASE phase[l.r] = "free" /\ phase'[l.r] # "free"
    <3>1. l.r = m.r /\ m.op = "reserving" /\ amount'[l.r] = m.arg
      BY <2>1, <2>3
    <3>2. l.arg = m.arg /\ resent
      BY <2>1, <3>1 DEF Agree, TypeOK
    <3> QED
      BY <1>1, <2>1, <3>1, <3>2 DEF AskOf
  <2>4. CASE phase'[l.r] = "free"
    BY <1>1, <2>1, <2>4 DEF AskOf
  <2> QED
    BY <2>2, <2>3, <2>4
<1>4. Agree'
  BY <1>1 DEF Agree
<1>5. Callers'
  <2> SUFFICES ASSUME NEW q \in Reservations PROVE CallerOf(q)'
    BY DEF Callers
  <2>1. CallerOf(q) /\ Forward(q) /\ client'[q] = client[q] /\ arg'[q] = arg[q]
    BY <1>1 DEF Callers
  <2>2. ASSUME phase[q] = "free", phase'[q] # "free"
        PROVE  client[q] # "new" /\ (client[q] = "reserving" => arg[q] = amount'[q])
    <3>1. q = m.r /\ m.op = "reserving" /\ amount'[q] = m.arg
      BY <2>2
    <3> QED
      BY <3>1 DEF Asking, AskOf
  <2>3. /\ client'[q] = "new" => phase'[q] = "free"
        /\ client'[q] \in {"owned", "committing", "releasing", "done"} => phase'[q] # "free"
        /\ client'[q] = "done" => phase'[q] \in {"settled", "released"}
        /\ client'[q] = "reserving" /\ phase'[q] # "free" => arg'[q] = amount'[q]
    BY <2>1, <2>2 DEF CallerOf, Forward
  <2>4. CASE reply'[q] = reply[q]
    BY <2>1, <2>3, <2>4 DEF CallerOf, Forward
  <2>5. CASE q = m.r /\ client[q] = m.op /\ reply'[q] = result
    BY <1>1, <2>1, <2>3, <2>5 DEF CallerOf
  <2>6. \/ reply'[q] = reply[q]
        \/ q = m.r /\ client[q] = m.op /\ reply'[q] = result
    BY <1>1 DEF Answer, TypeOK
  <2> QED
    BY <2>4, <2>5, <2>6
<1> QED
  BY <1>1, <1>2, <1>3, <1>4, <1>5 DEF TypeOK

\* The same for a step without an answer.
LEMMA QuietStruct ==
  ASSUME Struct, UNCHANGED clientVars, \A q \in Reservations : Forward(q),
         \A q \in Reservations : phase[q] = "free" => phase'[q] = "free"
  PROVE  Asking' /\ Agree' /\ Callers'
<1>1. UNCHANGED <<net, reply, client, arg, sent, resent>>
  BY DEF clientVars
<1>2. Asking'
  <2> SUFFICES ASSUME NEW l \in net, l.op = "reserving" PROVE AskOf(l)'
    BY <1>1 DEF Asking
  <2>1. AskOf(l) /\ l.r \in Reservations /\ Forward(l.r)
    BY Request DEF Struct, Types, Asking
  <2> QED
    BY <1>1, <2>1 DEF AskOf, Forward
<1>3. Agree'
  BY <1>1 DEF Struct, Agree
<1>4. Callers'
  <2> SUFFICES ASSUME NEW q \in Reservations PROVE CallerOf(q)'
    BY DEF Callers
  <2>1. CallerOf(q) /\ Forward(q)
    BY DEF Struct, Callers
  <2> QED
    BY <1>1, <2>1 DEF CallerOf, Forward
<1> QED
  BY <1>2, <1>3, <1>4

\* A batch consists of reservations.
LEMMA BatchRange ==
  ASSUME NEW B \in Batches
  PROVE  B \in SUBSET Reservations
BY DEF Batches, Expired

\* What the reclamation loop leaves of the phase of one reservation.
LEMMA PhaseAfterBatch ==
  ASSUME Struct, NEW B \in SUBSET Reservations, NEW q \in Reservations
  PROVE  /\ PhaseAfter(B)[q] # phase[q] => phase[q] = "held" /\ PhaseAfter(B)[q] = "expired"
         /\ PhaseAfter(B)[q] # "settled" => charge[q] = 0
<1>1. KeyOf(q)
  BY DEF Struct, Keys
<1>2. PhaseAfter(B)[q] = (IF q \in B /\ key[q] # None /\ phase[q] = "held" THEN "expired" ELSE phase[q])
  BY DEF PhaseAfter, Valued
<1> QED
  BY <1>1, <1>2 DEF KeyOf

\* And of its key.
LEMMA KeyAfterBatch ==
  ASSUME Struct, NEW B \in SUBSET Reservations, NEW q \in Reservations
  PROVE  /\ KeyAfter(B)[q] # None => KeyAfter(B)[q] = key[q] /\ PhaseAfter(B)[q] = phase[q]
         /\ KeyAfter(B)[q] = None /\ PhaseAfter(B)[q] = "held" => Evicted(q)
<1>1. KeyOf(q)
  BY DEF Struct, Keys
<1>2. KeyAfter(B)[q] = (IF q \in B THEN None ELSE key[q])
  BY DEF KeyAfter
<1>3. PhaseAfter(B)[q] = (IF q \in B /\ key[q] # None /\ phase[q] = "held" THEN "expired" ELSE phase[q])
  BY DEF PhaseAfter, Valued
<1> QED
  BY <1>1, <1>2, <1>3 DEF KeyOf

\* And of the types.
LEMMA BatchTypes ==
  ASSUME Struct, NEW B \in SUBSET Reservations
  PROVE  /\ PhaseAfter(B) \in [Reservations -> Phases]
         /\ KeyAfter(B) \in [Reservations -> Amounts \cup {None}]
         /\ ScoreAfter(B) \in [Reservations -> Nat \cup {None}]
         /\ UsedAfter(B) \in Int
<1>1. PhaseAfter(B) \in [Reservations -> Phases]
  BY DEF PhaseAfter, Struct, Types, TypeOK, BudgetTypeOK, Phases
<1>2. /\ KeyAfter(B) \in [Reservations -> Amounts \cup {None}]
      /\ ScoreAfter(B) \in [Reservations -> Nat \cup {None}]
  BY DEF KeyAfter, ScoreAfter, Struct, Types, TypeOK
<1>3. UsedAfter(B) \in Int
  <2>1. IsFiniteSet(Valued(B)) /\ \A q \in Valued(B) : key[q] \in Nat
    <3>1. Valued(B) \subseteq Reservations
      BY DEF Valued
    <3>2. \A q \in Valued(B) : key[q] \in Amounts
      BY <3>1 DEF Valued, Struct, Types, TypeOK
    <3> QED
      BY <3>1, <3>2, ReservationsAssumption, AmountsAssumption, FS_Subset
  <2>2. Total(key, Valued(B)) \in Nat
    BY <2>1, TotalNat
  <2> QED
    BY <2>2 DEF UsedAfter, Struct, Types, TypeOK
<1> QED
  BY <1>1, <1>2, <1>3

\* Seen from the abstract budget, the open leases of the batch lapse.
LEMMA BatchLapse ==
  ASSUME NEW B \in SUBSET Reservations
  PROVE  PhaseAfter(B) = Lapse(Valued(B) \cap Held)
BY DEF PhaseAfter, Lapse, Valued, Held

\* The reclamation loop takes the amounts of its batch, the open and the
\* stray ones, from the used counter.
LEMMA BatchSums ==
  ASSUME Struct, Exact, NEW B \in SUBSET Reservations
  PROVE  /\ Valued(B) \cap Held \in SUBSET Held
         /\ UsedAfter(B) \in Int
         /\ Total(amount, Valued(B) \cap Held) \in Nat
         /\ Total(amount, Stray \ B) \in Nat
         /\ UsedAfter(B) >= Usage - Total(amount, Valued(B) \cap Held) + Total(amount, Stray \ B)
         /\ ~resent => UsedAfter(B) = Usage - Total(amount, Valued(B) \cap Held) /\ Stray \ B = {}
<1> DEFINE S == Valued(B) \cap Held
           W == Stray \cap B
<1>1. /\ IsFiniteSet(S) /\ IsFiniteSet(W) /\ IsFiniteSet(Stray \ B)
      /\ S \cap W = {} /\ S \cup W = Valued(B)
      /\ W \cap (Stray \ B) = {} /\ W \cup (Stray \ B) = Stray
  <2>1. S \subseteq Reservations /\ W \subseteq Reservations /\ Stray \ B \subseteq Reservations
    BY DEF Held, Stray
  <2>2. IsFiniteSet(S) /\ IsFiniteSet(W) /\ IsFiniteSet(Stray \ B)
    BY <2>1, ReservationsAssumption, FS_Subset
  <2> QED
    BY <2>2 DEF Valued, Stray, Held
<1>2. \A q \in Reservations : amount[q] \in Nat
  BY BudgetSums DEF Struct, Types, TypeOK
<1>3. Total(key, Valued(B)) = Total(amount, Valued(B))
  <2>1. \A q \in Valued(B) : key[q] = amount[q]
    BY DEF Valued, Struct, Keys, KeyOf
  <2> QED
    BY <2>1, TotalCong
<1>4. /\ \A q \in S : amount[q] \in Nat
      /\ \A q \in W : amount[q] \in Nat
      /\ \A q \in Stray \ B : amount[q] \in Nat
      /\ \A q \in S \cup W : amount[q] \in Nat
      /\ \A q \in W \cup (Stray \ B) : amount[q] \in Nat
  BY <1>2 DEF Held, Stray
<1> HIDE DEF S, W
<1>5. Total(amount, S) \in Nat /\ Total(amount, W) \in Nat /\ Total(amount, Stray \ B) \in Nat
  BY <1>1, <1>4, TotalNat
<1>6. Total(amount, S \cup W) = Total(amount, S) + Total(amount, W)
  BY <1>1, <1>4, TotalUnion
<1>7. Total(amount, W \cup (Stray \ B)) = Total(amount, W) + Total(amount, Stray \ B)
  BY <1>1, <1>4, TotalUnion
<1>8. UsedAfter(B) = used - (Total(amount, S) + Total(amount, W))
  BY <1>1, <1>3, <1>6 DEF UsedAfter
<1>9. Usage \in Nat /\ used \in Int
  BY BudgetSums DEF Struct, Types, TypeOK
<1>10. UsedAfter(B) \in Int /\ UsedAfter(B) >= Usage - Total(amount, S) + Total(amount, Stray \ B)
  <2>1. used >= Usage + (Total(amount, W) + Total(amount, Stray \ B))
    BY <1>1, <1>7 DEF Exact
  <2> QED
    BY <1>5, <1>8, <1>9, <2>1
<1>11. ASSUME ~resent PROVE UsedAfter(B) = Usage - Total(amount, S) /\ Stray \ B = {}
  <2>1. used = Usage /\ W = {} /\ Stray \ B = {}
    BY <1>11 DEF Exact, W
  <2> QED
    BY <1>5, <1>8, <1>9, <2>1, TotalEmpty
<1> QED
  BY <1>5, <1>10, <1>11 DEF S
-----------------------------------------------------------------------------
(* A script that only reclaims.                                            *)

\* What a script must leave behind at the server.
ServerOK ==
  /\ BudgetTypeOK
  /\ used \in Int
  /\ key \in [Reservations -> Amounts \cup {None}]
  /\ deadline \in [Reservations -> Nat]
  /\ score \in [Reservations -> Nat \cup {None}]
  /\ Keys

LEMMA OnlyReclaimKeys ==
  ASSUME Struct, NEW B \in SUBSET Reservations, OnlyReclaim(B), now' = now
  PROVE  /\ ServerOK'
         /\ \A q \in Reservations : Forward(q)
         /\ \A q \in Reservations : phase[q] = "free" => phase'[q] = "free"
<1>1. /\ used' = UsedAfter(B) /\ key' = KeyAfter(B) /\ score' = ScoreAfter(B)
      /\ phase' = PhaseAfter(B) /\ UNCHANGED <<amount, charge, deadline>>
  BY DEF OnlyReclaim
<1>2. /\ BudgetTypeOK' /\ used' \in Int
      /\ key' \in [Reservations -> Amounts \cup {None}]
      /\ deadline' \in [Reservations -> Nat]
      /\ score' \in [Reservations -> Nat \cup {None}]
  BY <1>1, BatchTypes DEF Struct, Types, TypeOK, BudgetTypeOK
<1>3. Keys'
  <2> SUFFICES ASSUME NEW q \in Reservations PROVE KeyOf(q)'
    BY DEF Keys
  <2>1. KeyOf(q)
    BY DEF Struct, Keys
  <2>2. /\ key'[q] # None => key'[q] = key[q] /\ phase'[q] = phase[q]
        /\ key'[q] = None /\ phase'[q] = "held" => Evicted(q)
    BY <1>1, KeyAfterBatch
  <2>3. phase'[q] # "settled" => charge[q] = 0
    BY <1>1, PhaseAfterBatch
  <2> QED
    BY <1>1, <2>1, <2>2, <2>3 DEF KeyOf, Evicted
<1>4. \A q \in Reservations : Forward(q) /\ (phase[q] = "free" => phase'[q] = "free")
  <2> SUFFICES ASSUME NEW q \in Reservations PROVE Forward(q) /\ (phase[q] = "free" => phase'[q] = "free")
    OBVIOUS
  <2>1. phase'[q] # phase[q] => phase[q] = "held" /\ phase'[q] = "expired"
    BY <1>1, PhaseAfterBatch
  <2> QED
    BY <1>1, <2>1 DEF Forward
<1> QED
  BY <1>2, <1>3, <1>4 DEF ServerOK

LEMMA OnlyReclaimExact ==
  ASSUME Struct, Exact, NEW B \in SUBSET Reservations, OnlyReclaim(B), resent' = resent
  PROVE  Exact' /\ BudgetNext
<1> DEFINE S == Valued(B) \cap Held
<1>1. /\ used' = UsedAfter(B) /\ key' = KeyAfter(B)
      /\ phase' = PhaseAfter(B) /\ UNCHANGED <<amount, charge>>
  BY DEF OnlyReclaim
<1>2. /\ S \in SUBSET Held /\ UsedAfter(B) \in Int
      /\ Total(amount, S) \in Nat /\ Total(amount, Stray \ B) \in Nat
      /\ UsedAfter(B) >= Usage - Total(amount, S) + Total(amount, Stray \ B)
      /\ ~resent => UsedAfter(B) = Usage - Total(amount, S) /\ Stray \ B = {}
  BY BatchSums
<1>3. phase' = Lapse(S)
  BY <1>1, BatchLapse
<1>4. BudgetTypeOK
  BY DEF Struct, Types, TypeOK
<1>5. Usage' = Usage - Total(amount, S) /\ Overshoot' = Overshoot
  BY <1>1, <1>2, <1>3, <1>4, LapseUsage
<1>6. Stray' = Stray \ B
  <2>1. \A q \in Reservations : q \in Stray' <=> q \in Stray /\ q \notin B
    <3> SUFFICES ASSUME NEW q \in Reservations PROVE q \in Stray' <=> q \in Stray /\ q \notin B
      OBVIOUS
    <3>1. key'[q] = (IF q \in B THEN None ELSE key[q]) /\ phase'[q] = (IF q \in S THEN "expired" ELSE phase[q])
      BY <1>1, <1>3 DEF KeyAfter, Lapse
    <3> QED
      BY <3>1 DEF Stray, Valued, Held
  <2> QED
    BY <2>1 DEF Stray
<1>7. Total(amount, Stray)' = Total(amount, Stray \ B)
  BY <1>1, <1>6
<1>8. Usage \in Nat /\ Overshoot \in Nat /\ Limit \in Int
  BY <1>4, BudgetSums, LimitAssumption
<1> HIDE DEF S
<1>9. used' >= Usage' + Total(amount, Stray)'
  BY <1>1, <1>2, <1>5, <1>7
<1>10. ~resent => used' = Usage' /\ Stray' = {}
  BY <1>1, <1>2, <1>5, <1>6
<1>11. Limit >= 0 => Usage' <= Limit + Overshoot'
  <2>1. Usage' <= Usage
    BY <1>2, <1>5, <1>8
  <2> QED
    BY <1>5, <1>8, <2>1 DEF Exact
<1>12. Exact'
  BY <1>9, <1>10, <1>11 DEF Exact
<1> QED
  BY <1>1, <1>2, <1>3, <1>12 DEF BudgetNext, Expire
-----------------------------------------------------------------------------
(* A reserveScript that grants.                                            *)

\* The phase that the grant leads to.
Regranted(r, B) ==
  IF PhaseAfter(B)[r] \in {"free", "expired"} THEN "held" ELSE PhaseAfter(B)[r]

Granted(m, B) ==
  /\ used'     = UsedAfter(B) + m.arg
  /\ key'      = [KeyAfter(B) EXCEPT ![m.r] = m.arg]
  /\ deadline' = [deadline EXCEPT ![m.r] = now + KeyLife]
  /\ score'    = [ScoreAfter(B) EXCEPT ![m.r] = now + TTL]
  /\ phase'    = [PhaseAfter(B) EXCEPT ![m.r] = Regranted(m.r, B)]
  /\ amount'   = [amount EXCEPT ![m.r] = m.arg]
  /\ UNCHANGED charge

\* Reservations other than the granted one only see the batch go, and a
\* repeated grant changes no amount.
LEMMA GrantedParts ==
  ASSUME Struct, NEW m \in net, m.op = "reserving", NEW B \in SUBSET Reservations, Granted(m, B)
  PROVE  /\ m.r \in Reservations /\ m.arg \in Amounts
         /\ key'[m.r] = m.arg /\ amount'[m.r] = m.arg /\ phase'[m.r] = Regranted(m.r, B)
         /\ phase[m.r] # "free" => resent /\ amount[m.r] = m.arg
         /\ \A q \in Reservations \ {m.r} :
              /\ key'[q] = KeyAfter(B)[q] /\ phase'[q] = PhaseAfter(B)[q]
              /\ amount'[q] = amount[q] /\ deadline'[q] = deadline[q]
<1>1. m.r \in Reservations /\ m.arg \in Amounts
  BY Request DEF Struct, Types
<1>2. phase[m.r] # "free" => resent /\ amount[m.r] = m.arg
  BY DEF Struct, Asking, AskOf
<1>3. key'[m.r] = m.arg /\ \A q \in Reservations \ {m.r} : key'[q] = KeyAfter(B)[q]
  BY <1>1, BatchTypes DEF Granted
<1>4. phase'[m.r] = Regranted(m.r, B) /\ \A q \in Reservations \ {m.r} : phase'[q] = PhaseAfter(B)[q]
  BY <1>1, BatchTypes DEF Granted
<1>5. amount'[m.r] = m.arg /\ \A q \in Reservations \ {m.r} : amount'[q] = amount[q] /\ deadline'[q] = deadline[q]
  BY <1>1 DEF Granted, Struct, Types, TypeOK, BudgetTypeOK
<1> QED
  BY <1>1, <1>2, <1>3, <1>4, <1>5

LEMMA GrantedKeys ==
  ASSUME Struct, NEW m \in net, m.op = "reserving", NEW B \in SUBSET Reservations,
         Granted(m, B), now' = now
  PROVE  /\ ServerOK'
         /\ \A q \in Reservations : Forward(q)
         /\ \A q \in Reservations : phase[q] = "free" /\ phase'[q] # "free" => q = m.r
         /\ amount'[m.r] = m.arg /\ phase'[m.r] # "free"
<1> DEFINE r == m.r
<1>1. /\ r \in Reservations /\ m.arg \in Amounts
      /\ key'[r] = m.arg /\ amount'[r] = m.arg /\ phase'[r] = Regranted(r, B)
      /\ phase[r] # "free" => amount[r] = m.arg
      /\ charge' = charge
  BY GrantedParts DEF Granted
<1>2. \A q \in Reservations \ {r} :
        /\ key'[q] = KeyAfter(B)[q] /\ phase'[q] = PhaseAfter(B)[q]
        /\ amount'[q] = amount[q] /\ deadline'[q] = deadline[q]
  BY GrantedParts
<1>3. /\ PhaseAfter(B)[r] \in Phases
      /\ PhaseAfter(B)[r] # phase[r] => phase[r] = "held" /\ PhaseAfter(B)[r] = "expired"
      /\ PhaseAfter(B)[r] # "settled" => charge[r] = 0
  BY <1>1, PhaseAfterBatch, BatchTypes
<1>4. /\ Regranted(r, B) \in {"held", "settled", "released"}
      /\ Regranted(r, B) = "settled" \/ charge[r] = 0
      /\ phase[r] \in {"settled", "released"} => Regranted(r, B) = phase[r]
  BY <1>3 DEF Regranted, Phases
<1> HIDE DEF r
<1>5. BudgetTypeOK' /\ used' \in Int
  <2>1. amount' \in [Reservations -> Amounts]
    BY <1>1 DEF Granted, Struct, Types, TypeOK, BudgetTypeOK
  <2>2. phase' \in [Reservations -> Phases]
    BY <1>1, <1>4, BatchTypes DEF Granted, Phases, r
  <2>3. used' \in Int
    BY <1>1, BatchTypes, AmountsAssumption DEF Granted
  <2> QED
    BY <1>1, <2>1, <2>2, <2>3 DEF Struct, Types, TypeOK, BudgetTypeOK
<1>6. /\ key' \in [Reservations -> Amounts \cup {None}]
      /\ deadline' \in [Reservations -> Nat]
      /\ score' \in [Reservations -> Nat \cup {None}]
  <2>1. now + KeyLife \in Nat /\ now + TTL \in Nat
    BY RedisAssumption DEF KeyLife, Struct, Types, TypeOK
  <2> QED
    BY <1>1, <2>1, BatchTypes DEF Granted, Struct, Types, TypeOK
<1>7. Keys'
  <2> SUFFICES ASSUME NEW q \in Reservations PROVE KeyOf(q)'
    BY DEF Keys
  <2>1. CASE q = r
    <3>1. m.arg # None
      BY <1>1, AmountsAssumption DEF None
    <3> QED
      BY <1>1, <1>4, <2>1, <3>1 DEF KeyOf
  <2>2. CASE q # r
    <3>1. KeyOf(q)
      BY DEF Struct, Keys
    <3>2. /\ KeyAfter(B)[q] # None => KeyAfter(B)[q] = key[q] /\ PhaseAfter(B)[q] = phase[q]
          /\ KeyAfter(B)[q] = None /\ PhaseAfter(B)[q] = "held" => Evicted(q)
      BY KeyAfterBatch
    <3>3. PhaseAfter(B)[q] # "settled" => charge[q] = 0
      BY PhaseAfterBatch
    <3>4. /\ key'[q] = KeyAfter(B)[q] /\ phase'[q] = PhaseAfter(B)[q]
          /\ amount'[q] = amount[q] /\ deadline'[q] = deadline[q]
      BY <1>2, <2>2
    <3> QED
      BY <1>1, <3>1, <3>2, <3>3, <3>4 DEF KeyOf, Evicted
  <2> QED
    BY <2>1, <2>2
<1>8. ASSUME NEW q \in Reservations
      PROVE  Forward(q) /\ (phase[q] = "free" /\ phase'[q] # "free" => q = r)
  <2>1. CASE q = r
    BY <1>1, <1>4, <2>1 DEF Forward
  <2>2. CASE q # r
    <3>1. PhaseAfter(B)[q] # phase[q] => phase[q] = "held" /\ PhaseAfter(B)[q] = "expired"
      BY PhaseAfterBatch
    <3>2. phase'[q] = PhaseAfter(B)[q] /\ amount'[q] = amount[q]
      BY <1>2, <2>2
    <3> QED
      BY <3>1, <3>2 DEF Forward
  <2> QED
    BY <2>1, <2>2
<1> QED
  BY <1>1, <1>4, <1>5, <1>6, <1>7, <1>8 DEF r, ServerOK

\* Which keys are stray once the batch is gone and the reservation granted.
LEMMA GrantedStray ==
  ASSUME Struct, NEW m \in net, m.op = "reserving", NEW B \in SUBSET Reservations, Granted(m, B)
  PROVE  /\ \A q \in Reservations \ {m.r} : q \in Stray' <=> q \in Stray \ B
         /\ PhaseAfter(B)[m.r] \in {"free", "expired"} => m.r \notin Stray' /\ m.r \notin Stray \ B
<1>1. \A q \in Reservations \ {m.r} : key'[q] = KeyAfter(B)[q] /\ phase'[q] = PhaseAfter(B)[q]
  BY GrantedParts
<1>2. \A q \in Reservations \ {m.r} : q \in Stray' <=> q \in Stray \ B
  <2> SUFFICES ASSUME NEW q \in Reservations \ {m.r} PROVE q \in Stray' <=> q \in Stray \ B
    OBVIOUS
  <2>1. key'[q] = (IF q \in B THEN None ELSE key[q])
    BY <1>1 DEF KeyAfter
  <2>2. phase'[q] = (IF q \in B /\ key[q] # None /\ phase[q] = "held" THEN "expired" ELSE phase[q])
    BY <1>1 DEF PhaseAfter, Valued
  <2> QED
    BY <2>1, <2>2 DEF Stray
<1>3. ASSUME PhaseAfter(B)[m.r] \in {"free", "expired"}
      PROVE  m.r \notin Stray' /\ m.r \notin Stray \ B
  <2>1. m.r \in Reservations /\ phase'[m.r] = "held"
    BY <1>3, GrantedParts DEF Regranted
  <2>2. m.r \notin Stray'
    BY <2>1 DEF Stray
  <2>3. KeyOf(m.r)
    BY <2>1 DEF Struct, Keys
  <2>4. PhaseAfter(B)[m.r] = (IF m.r \in B /\ key[m.r] # None /\ phase[m.r] = "held"
                                THEN "expired" ELSE phase[m.r])
    BY <2>1 DEF PhaseAfter, Valued
  <2>5. m.r \notin Stray \ B
    BY <1>3, <2>3, <2>4 DEF KeyOf, Stray
  <2> QED
    BY <2>2, <2>5
<1> QED
  BY <1>2, <1>3

LEMMA GrantedExact ==
  ASSUME Struct, Exact, NEW m \in net, m.op = "reserving", NEW B \in SUBSET Reservations,
         Granted(m, B), ~OverBudget(UsedAfter(B), m.arg), resent' = resent
  PROVE  Exact' /\ (~resent' => BudgetNext)
<1> DEFINE r == m.r
           e == m.arg
           S == Valued(B) \cap Held
           K == Stray \ B
<1>1. /\ S \in SUBSET Held /\ UsedAfter(B) \in Int
      /\ Total(amount, S) \in Nat /\ Total(amount, K) \in Nat
      /\ UsedAfter(B) >= Usage - Total(amount, S) + Total(amount, K)
      /\ ~resent => UsedAfter(B) = Usage - Total(amount, S) /\ K = {}
  BY BatchSums
<1>2. /\ r \in Reservations /\ e \in Amounts /\ e \in Nat
      /\ amount'[r] = e /\ phase'[r] = Regranted(r, B)
      /\ phase[r] # "free" => resent /\ amount[r] = e
  BY GrantedParts, AmountsAssumption
<1>3. /\ \A q \in Reservations \ {r} : amount'[q] = amount[q]
      /\ amount' = [amount EXCEPT ![r] = e] /\ charge' = charge
      /\ used' = UsedAfter(B) + e
      /\ phase' = [Lapse(S) EXCEPT ![r] = Regranted(r, B)] /\ PhaseAfter(B) = Lapse(S)
  BY GrantedParts, BatchLapse DEF Granted
<1>4. /\ \A q \in Reservations \ {r} : q \in Stray' <=> q \in K
      /\ PhaseAfter(B)[r] \in {"free", "expired"} => r \notin Stray' /\ r \notin K
  BY GrantedStray
<1>5. K \subseteq Reservations /\ Stray' \subseteq Reservations /\ BudgetTypeOK
  BY DEF Stray, Struct, Types, TypeOK
<1>6. Usage \in Nat /\ Overshoot \in Nat /\ Limit \in Int
  BY <1>5, BudgetSums, LimitAssumption
<1>7. IsFiniteSet(K) /\ IsFiniteSet(Stray') /\ \A q \in Reservations : amount[q] \in Nat
  BY <1>5, ReservationsAssumption, FS_Subset, BudgetSums
<1> HIDE DEF r, e, S, K
<1>8. ASSUME PhaseAfter(B)[r] \in {"free", "expired"}
      PROVE  /\ Usage' = Usage - Total(amount, S) + e /\ Overshoot' = Overshoot
             /\ Total(amount, Stray)' = Total(amount, K)
             /\ Stray' = K
             /\ phase' = [Lapse(S) EXCEPT ![r] = "held"]
  <2>1. phase' = [Lapse(S) EXCEPT ![r] = "held"]
    BY <1>3, <1>8 DEF Regranted
  <2>2. r \notin Held \ S /\ r \notin Settled
    <3>1. Lapse(S)[r] \in {"free", "expired"} /\ Lapse(S)[r] = IF r \in S THEN "expired" ELSE phase[r]
      BY <1>2, <1>3, <1>8 DEF Lapse
    <3>2. r \in S => phase[r] = "held"
      BY <1>1 DEF Held
    <3> QED
      BY <3>1, <3>2 DEF Held, Settled
  <2>3. Usage' = Usage - Total(amount, S) + e /\ Overshoot' = Overshoot
    BY <1>1, <1>2, <1>3, <1>5, <2>1, <2>2, LapseGrantUsage
  <2>4. Stray' = K /\ r \notin K
    BY <1>4, <1>5, <1>8
  <2>5. Total(amount', K) = Total(amount, K)
    <3>1. \A q \in K : amount'[q] = amount[q]
      BY <1>3, <1>5, <2>4
    <3> QED
      BY <3>1, TotalCong
  <2>6. Total(amount, Stray)' = Total(amount, K)
    BY <2>4, <2>5
  <2> QED
    BY <2>1, <2>3, <2>4, <2>6
<1>9. ASSUME PhaseAfter(B)[r] \notin {"free", "expired"}
      PROVE  /\ Usage' = Usage - Total(amount, S) /\ Overshoot' = Overshoot
             /\ Total(amount, Stray)' <= Total(amount, K) + e /\ Total(amount, Stray)' \in Nat
             /\ resent
  <2>1. phase' = Lapse(S)
    BY <1>3, <1>9 DEF Regranted, Lapse
  <2>2. phase[r] # "free"
    <3>1. PhaseAfter(B)[r] # phase[r] => phase[r] = "held"
      BY <1>2, PhaseAfterBatch
    <3> QED
      BY <1>9, <3>1
  <2>3. amount' = amount
    BY <1>2, <1>3, <1>5, <2>2 DEF BudgetTypeOK
  <2>4. Usage' = Usage - Total(amount, S) /\ Overshoot' = Overshoot
    BY <1>1, <1>3, <1>5, <2>1, <2>3, LapseUsage
  <2>5. Stray' \subseteq K \cup {r}
    BY <1>4, <1>5
  <2>6. IsFiniteSet(K \cup {r}) /\ \A q \in K \cup {r} : amount[q] \in Nat
    BY <1>2, <1>5, <1>7, FS_AddElement
  <2>7. Total(amount, Stray') <= Total(amount, K \cup {r}) /\ Total(amount, Stray') \in Nat
    BY <1>5, <1>7, <2>5, <2>6, TotalSubset, TotalNat
  <2>8. Total(amount, K \cup {r}) <= Total(amount, K) + e
    <3>1. amount[r] = e
      BY <1>2, <2>2
    <3>2. CASE r \in K
      <4>1. K \cup {r} = K
        BY <3>2
      <4>2. Total(amount, K \cup {r}) = Total(amount, K)
        BY <4>1
      <4> QED
        BY <1>1, <1>2, <4>2
    <3>3. CASE r \notin K
      <4>1. Total(amount, K \cup {r}) = Total(amount, K) + amount[r]
        BY <1>7, <2>6, <3>3, TotalAdd
      <4> QED
        BY <1>1, <1>2, <3>1, <4>1
    <3>4. r \in K \/ r \notin K
      OBVIOUS
    <3> QED
      BY <3>2, <3>3, <3>4
  <2>9. Total(amount, Stray)' = Total(amount, Stray')
    BY <2>3
  <2>10. Total(amount, K \cup {r}) \in Nat
    BY <2>6, TotalNat
  <2> QED
    BY <1>1, <1>2, <2>2, <2>4, <2>7, <2>8, <2>9, <2>10
<1>10. used' >= Usage' + Total(amount, Stray)'
  <2>1. CASE PhaseAfter(B)[r] \in {"free", "expired"}
    BY <1>1, <1>2, <1>3, <1>6, <1>8, <2>1
  <2>2. CASE PhaseAfter(B)[r] \notin {"free", "expired"}
    BY <1>1, <1>2, <1>3, <1>6, <1>9, <2>2
  <2> QED
    BY <2>1, <2>2
<1>11. ~resent' => used' = Usage' /\ Stray' = {}
  <2> SUFFICES ASSUME ~resent' PROVE used' = Usage' /\ Stray' = {}
    OBVIOUS
  <2>1. ~resent /\ PhaseAfter(B)[r] \in {"free", "expired"}
    BY <1>9
  <2> QED
    BY <1>1, <1>3, <1>8, <2>1
<1>12. Limit >= 0 => Usage' <= Limit + Overshoot'
  <2> SUFFICES ASSUME Limit >= 0 PROVE Usage' <= Limit + Overshoot'
    OBVIOUS
  <2>1. UsedAfter(B) + e <= Limit
    BY <1>1, <1>2, <1>6 DEF OverBudget, e
  <2>2. CASE PhaseAfter(B)[r] \in {"free", "expired"}
    BY <1>1, <1>2, <1>6, <1>8, <2>1, <2>2
  <2>3. CASE PhaseAfter(B)[r] \notin {"free", "expired"}
    BY <1>1, <1>2, <1>6, <1>9, <2>1, <2>3
  <2> QED
    BY <2>2, <2>3
<1>13. Exact'
  BY <1>10, <1>11, <1>12 DEF Exact
<1>14. ASSUME ~resent' PROVE BudgetNext
  <2>1. ~resent /\ PhaseAfter(B)[r] \in {"free", "expired"} /\ phase[r] = "free"
    BY <1>2, <1>9, <1>14
  <2>2. Limit < 0 \/ Usage - Total(amount, S) + e <= Limit
    BY <1>1, <1>2, <1>6, <2>1 DEF OverBudget, e
  <2>3. Grant(r, e, S)
    BY <1>3, <1>8, <2>1, <2>2 DEF Grant
  <2> QED
    BY <1>1, <1>2, <2>3 DEF BudgetNext
<1> QED
  BY <1>13, <1>14
-----------------------------------------------------------------------------
(* A terminal script that finds its reservation.                           *)

Ended(m, c, p, B) ==
  /\ Reserved(m.r, B) # 0
  /\ used'  = UsedAfter(B) + c - Reserved(m.r, B)
  /\ key'   = [KeyAfter(B) EXCEPT ![m.r] = None]
  /\ score' = [ScoreAfter(B) EXCEPT ![m.r] = None]
  /\ IF phase[m.r] = "held"
       THEN /\ phase'  = [PhaseAfter(B) EXCEPT ![m.r] = p]
            /\ charge' = [charge EXCEPT ![m.r] = c]
       ELSE phase' = PhaseAfter(B) /\ UNCHANGED charge
  /\ UNCHANGED <<amount, deadline>>

\* The reservation still has its key, so it was granted, and the batch has
\* not reached it.
LEMMA EndedFound ==
  ASSUME Struct, NEW m \in net, NEW B \in SUBSET Reservations, Reserved(m.r, B) # 0
  PROVE  /\ m.r \in Reservations \ B
         /\ key[m.r] # None /\ Reserved(m.r, B) = amount[m.r]
         /\ phase[m.r] \in {"held", "settled", "released"}
         /\ PhaseAfter(B)[m.r] = phase[m.r]
<1>1. m.r \in Reservations
  BY Request DEF Struct, Types
<1>2. KeyAfter(B)[m.r] # None /\ Reserved(m.r, B) = key[m.r]
  BY DEF Reserved
<1>3. m.r \notin B /\ key[m.r] # None
  BY <1>1, <1>2 DEF KeyAfter
<1>4. KeyOf(m.r)
  BY <1>1 DEF Struct, Keys
<1>5. PhaseAfter(B)[m.r] = phase[m.r]
  BY <1>1, <1>3 DEF PhaseAfter, Valued
<1> QED
  BY <1>1, <1>2, <1>3, <1>4, <1>5 DEF KeyOf

LEMMA EndedParts ==
  ASSUME Struct, NEW m \in net, NEW B \in SUBSET Reservations, NEW c, NEW p, Ended(m, c, p, B)
  PROVE  /\ key'[m.r] = None
         /\ phase'[m.r] = IF phase[m.r] = "held" THEN p ELSE phase[m.r]
         /\ charge'[m.r] = IF phase[m.r] = "held" THEN c ELSE charge[m.r]
         /\ \A q \in Reservations \ {m.r} :
              key'[q] = KeyAfter(B)[q] /\ phase'[q] = PhaseAfter(B)[q] /\ charge'[q] = charge[q]
<1>1. m.r \in Reservations /\ PhaseAfter(B)[m.r] = phase[m.r]
  BY EndedFound DEF Ended
<1>2. key'[m.r] = None /\ \A q \in Reservations \ {m.r} : key'[q] = KeyAfter(B)[q]
  BY <1>1, BatchTypes DEF Ended
<1>3. /\ phase'[m.r] = IF phase[m.r] = "held" THEN p ELSE phase[m.r]
      /\ \A q \in Reservations \ {m.r} : phase'[q] = PhaseAfter(B)[q]
  BY <1>1, BatchTypes DEF Ended
<1>4. /\ charge'[m.r] = IF phase[m.r] = "held" THEN c ELSE charge[m.r]
      /\ \A q \in Reservations \ {m.r} : charge'[q] = charge[q]
  BY <1>1 DEF Ended, Struct, Types, TypeOK, BudgetTypeOK
<1> QED
  BY <1>2, <1>3, <1>4

LEMMA EndedKeys ==
  ASSUME Struct, NEW m \in net, NEW B \in SUBSET Reservations, NEW c \in Amounts,
         NEW p \in {"settled", "released"}, p = "released" => c = 0, Ended(m, c, p, B), now' = now
  PROVE  /\ ServerOK'
         /\ \A q \in Reservations : Forward(q)
         /\ \A q \in Reservations : phase[q] = "free" => phase'[q] = "free"
         /\ phase'[m.r] \in {"settled", "released"}
<1> DEFINE r == m.r
<1>1. /\ r \in Reservations /\ phase[r] \in {"held", "settled", "released"}
      /\ Reserved(r, B) = amount[r]
  BY EndedFound DEF Ended
<1>2. /\ key'[r] = None
      /\ phase'[r] = IF phase[r] = "held" THEN p ELSE phase[r]
      /\ charge'[r] = IF phase[r] = "held" THEN c ELSE charge[r]
      /\ \A q \in Reservations \ {r} :
           key'[q] = KeyAfter(B)[q] /\ phase'[q] = PhaseAfter(B)[q] /\ charge'[q] = charge[q]
  BY EndedParts
<1>3. amount' = amount /\ deadline' = deadline
  BY DEF Ended
<1>4. BudgetTypeOK'
  <2>1. phase' \in [Reservations -> Phases]
    <3>1. p \in Phases
      BY DEF Phases
    <3> QED
      BY <3>1, BatchTypes DEF Ended
  <2>2. charge' \in [Reservations -> Amounts]
    BY DEF Ended, Struct, Types, TypeOK, BudgetTypeOK
  <2> QED
    BY <1>3, <2>1, <2>2 DEF Struct, Types, TypeOK, BudgetTypeOK
<1>5. used' \in Int
  <2>1. UsedAfter(B) \in Int /\ c \in Nat /\ amount[r] \in Nat
    BY <1>1, BatchTypes, AmountsAssumption, BudgetSums DEF Struct, Types, TypeOK
  <2> QED
    BY <1>1, <2>1 DEF Ended
<1>6. /\ key' \in [Reservations -> Amounts \cup {None}]
      /\ deadline' \in [Reservations -> Nat]
      /\ score' \in [Reservations -> Nat \cup {None}]
  BY <1>3, BatchTypes DEF Ended, Struct, Types, TypeOK
<1> HIDE DEF r
<1>7. Keys'
  <2> SUFFICES ASSUME NEW q \in Reservations PROVE KeyOf(q)'
    BY DEF Keys
  <2>1. KeyOf(q)
    BY DEF Struct, Keys
  <2>2. CASE q = r
    BY <1>1, <1>2, <2>1, <2>2 DEF KeyOf
  <2>3. CASE q # r
    <3>1. /\ KeyAfter(B)[q] # None => KeyAfter(B)[q] = key[q] /\ PhaseAfter(B)[q] = phase[q]
          /\ KeyAfter(B)[q] = None /\ PhaseAfter(B)[q] = "held" => Evicted(q)
      BY KeyAfterBatch
    <3>2. PhaseAfter(B)[q] # "settled" => charge[q] = 0
      BY PhaseAfterBatch
    <3> QED
      BY <1>2, <1>3, <2>1, <2>3, <3>1, <3>2 DEF KeyOf, Evicted
  <2> QED
    BY <2>2, <2>3
<1>8. ASSUME NEW q \in Reservations
      PROVE  Forward(q) /\ (phase[q] = "free" => phase'[q] = "free")
  <2>1. CASE q = r
    BY <1>1, <1>2, <1>3, <2>1 DEF Forward
  <2>2. CASE q # r
    <3>1. PhaseAfter(B)[q] # phase[q] => phase[q] = "held" /\ PhaseAfter(B)[q] = "expired"
      BY PhaseAfterBatch
    <3> QED
      BY <1>2, <1>3, <2>2, <3>1 DEF Forward
  <2> QED
    BY <2>1, <2>2
<1>9. phase'[r] \in {"settled", "released"}
  BY <1>1, <1>2
<1> QED
  BY <1>4, <1>5, <1>6, <1>7, <1>8, <1>9 DEF r, ServerOK

\* The stray keys that are left.
LEMMA EndedStray ==
  ASSUME Struct, NEW m \in net, NEW B \in SUBSET Reservations, NEW c, NEW p, Ended(m, c, p, B)
  PROVE  Stray' = (Stray \ B) \ {m.r}
<1>1. /\ key'[m.r] = None
      /\ \A q \in Reservations \ {m.r} : key'[q] = KeyAfter(B)[q] /\ phase'[q] = PhaseAfter(B)[q]
  BY EndedParts
<1>2. ASSUME NEW q \in Reservations PROVE q \in Stray' <=> q \in (Stray \ B) \ {m.r}
  <2>1. CASE q = m.r
    BY <1>1, <2>1 DEF Stray
  <2>2. CASE q # m.r
    <3>1. key'[q] = (IF q \in B THEN None ELSE key[q])
      BY <1>1, <2>2 DEF KeyAfter
    <3>2. phase'[q] = (IF q \in B /\ key[q] # None /\ phase[q] = "held" THEN "expired" ELSE phase[q])
      BY <1>1, <2>2 DEF PhaseAfter, Valued
    <3> QED
      BY <2>2, <3>1, <3>2 DEF Stray
  <2> QED
    BY <2>1, <2>2
<1> QED
  BY <1>2 DEF Stray

\* The end of an open reservation: the charge takes the place of its amount.
LEMMA EndedOpen ==
  ASSUME Struct, Exact, NEW m \in net, NEW B \in SUBSET Reservations, NEW c \in Amounts,
         NEW p \in {"settled", "released"}, p = "released" => c = 0,
         Ended(m, c, p, B), phase[m.r] = "held", resent' = resent
  PROVE  Exact' /\ BudgetNext
<1> DEFINE r == m.r
           S == Valued(B) \cap Held
           K == Stray \ B
<1>1. /\ S \in SUBSET Held /\ UsedAfter(B) \in Int
      /\ Total(amount, S) \in Nat /\ Total(amount, K) \in Nat
      /\ UsedAfter(B) >= Usage - Total(amount, S) + Total(amount, K)
      /\ ~resent => UsedAfter(B) = Usage - Total(amount, S) /\ K = {}
  BY BatchSums
<1>2. /\ r \in Reservations /\ r \in Held \ S /\ amount[r] \in Nat /\ c \in Nat
      /\ used' = UsedAfter(B) + c - amount[r]
  <2>1. r \in Reservations \ B /\ Reserved(r, B) = amount[r]
    BY EndedFound DEF Ended
  <2>2. amount[r] \in Nat
    BY <2>1, BudgetSums DEF Struct, Types, TypeOK
  <2> QED
    BY <2>1, <2>2, AmountsAssumption DEF Ended, Held, Valued
<1>3. /\ phase' = [Lapse(S) EXCEPT ![r] = p] /\ charge' = [charge EXCEPT ![r] = c]
      /\ amount' = amount
  BY BatchLapse DEF Ended
<1>4. Stray' = K
  <2>1. r \notin Stray
    BY DEF Stray
  <2> QED
    BY <2>1, EndedStray
<1>5. BudgetTypeOK /\ Usage \in Nat /\ Overshoot \in Nat /\ Limit \in Int
  BY BudgetSums, LimitAssumption DEF Struct, Types, TypeOK
<1>6. Total(amount, Stray)' = Total(amount, K)
  BY <1>3, <1>4
<1> HIDE DEF r, S, K
<1>7. CASE p = "settled"
  <2>1. /\ Usage' = Usage - Total(amount, S) - amount[r] + c
        /\ c <= amount[r] => Overshoot' = Overshoot
        /\ c > amount[r] => Overshoot' = Overshoot + (c - amount[r])
    BY <1>1, <1>2, <1>3, <1>5, <1>7, LapseSettleUsage
  <2>2. used' >= Usage' + Total(amount, Stray)'
    BY <1>1, <1>2, <1>5, <1>6, <2>1
  <2>3. ~resent => used' = Usage' /\ Stray' = {}
    BY <1>1, <1>2, <1>4, <1>5, <2>1
  <2>4. Limit >= 0 => Usage' <= Limit + Overshoot'
    BY <1>1, <1>2, <1>5, <2>1 DEF Exact
  <2>5. Exact'
    BY <2>2, <2>3, <2>4 DEF Exact
  <2>6. Settle(r, c, S)
    BY <1>2, <1>3, <1>7 DEF Settle
  <2> QED
    BY <1>1, <1>2, <2>5, <2>6 DEF BudgetNext
<1>8. CASE p = "released"
  <2>1. c = 0 /\ charge' = charge
    <3>1. charge[r] = 0 /\ c = 0
      BY <1>2, <1>8 DEF Struct, Keys, KeyOf, r
    <3> QED
      BY <1>3, <1>5, <3>1 DEF BudgetTypeOK
  <2>2. Usage' = Usage - Total(amount, S) - amount[r] /\ Overshoot' = Overshoot
    BY <1>1, <1>2, <1>3, <1>5, <1>8, <2>1, LapseDropUsage
  <2>3. used' >= Usage' + Total(amount, Stray)'
    BY <1>1, <1>2, <1>5, <1>6, <2>1, <2>2
  <2>4. ~resent => used' = Usage' /\ Stray' = {}
    BY <1>1, <1>2, <1>4, <1>5, <2>1, <2>2
  <2>5. Limit >= 0 => Usage' <= Limit + Overshoot'
    BY <1>1, <1>2, <1>5, <2>2 DEF Exact
  <2>6. Exact'
    BY <2>3, <2>4, <2>5 DEF Exact
  <2>7. Free(r, S)
    BY <1>2, <1>3, <1>8, <2>1 DEF Free
  <2> QED
    BY <1>1, <1>2, <2>6, <2>7 DEF BudgetNext
<1> QED
  BY <1>7, <1>8

\* The end of a reservation that a repeated Reserve has set again after its
\* end: only the counter moves.
LEMMA EndedStrayExact ==
  ASSUME Struct, Exact, NEW m \in net, NEW B \in SUBSET Reservations, NEW c \in Amounts,
         NEW p, Ended(m, c, p, B), phase[m.r] # "held", resent' = resent
  PROVE  Exact' /\ resent
<1> DEFINE r == m.r
           S == Valued(B) \cap Held
           K == Stray \ B
<1>1. /\ S \in SUBSET Held /\ UsedAfter(B) \in Int
      /\ Total(amount, S) \in Nat /\ Total(amount, K) \in Nat
      /\ UsedAfter(B) >= Usage - Total(amount, S) + Total(amount, K)
  BY BatchSums
<1>2. r \in K /\ used' = UsedAfter(B) + c - amount[r] /\ c \in Nat
  <2>1. r \in Reservations \ B /\ Reserved(r, B) = amount[r] /\ key[r] # None
    BY EndedFound DEF Ended
  <2> QED
    BY <2>1, AmountsAssumption DEF Ended, Stray
<1>3. resent
  BY <1>2 DEF Exact
<1>4. phase' = Lapse(S) /\ charge' = charge /\ amount' = amount
  BY BatchLapse DEF Ended
<1>5. BudgetTypeOK /\ Usage \in Nat /\ Overshoot \in Nat /\ Limit \in Int
  BY BudgetSums, LimitAssumption DEF Struct, Types, TypeOK
<1>6. IsFiniteSet(K) /\ \A q \in K : amount[q] \in Nat
  <2>1. K \subseteq Reservations
    BY DEF Stray
  <2> QED
    BY <1>5, <2>1, ReservationsAssumption, FS_Subset, BudgetSums
<1>7. Stray' = K \ {r}
  BY EndedStray
<1> HIDE DEF r, S, K
<1>8. Total(amount, K \ {r}) = Total(amount, K) - amount[r] /\ amount[r] \in Nat
  BY <1>2, <1>6, TotalRemove
<1>9. Total(amount, Stray)' = Total(amount, K) - amount[r]
  BY <1>4, <1>7, <1>8
<1>10. Usage' = Usage - Total(amount, S) /\ Overshoot' = Overshoot
  BY <1>1, <1>4, <1>5, LapseUsage
<1>11. used' >= Usage' + Total(amount, Stray)'
  BY <1>1, <1>2, <1>5, <1>8, <1>9, <1>10
<1>12. Limit >= 0 => Usage' <= Limit + Overshoot'
  BY <1>1, <1>5, <1>10 DEF Exact
<1> QED
  BY <1>3, <1>11, <1>12 DEF Exact
-----------------------------------------------------------------------------
(* Every step.                                                             *)

\* A script answers in one of four ways.
LEMMA ScriptCases ==
  ASSUME NEW m \in net, Script(m)
  PROVE  \E B \in SUBSET Reservations :
           \/ /\ OnlyReclaim(B) /\ Answer(m, "exceeded")
              /\ m.op = "reserving"
           \/ /\ Granted(m, B) /\ Answer(m, "ok")
              /\ m.op = "reserving" /\ ~OverBudget(UsedAfter(B), m.arg)
           \/ /\ OnlyReclaim(B) /\ Answer(m, "notFound")
              /\ m.op # "reserving" /\ Reserved(m.r, B) = 0
           \/ \E p \in {"settled", "released"}, c \in {m.arg, 0} :
                /\ Ended(m, c, p, B) /\ Answer(m, "ok")
                /\ m.op # "reserving" /\ (p = "released" => c = 0)
<1>1. CASE RunReserve(m)
  <2>1. PICK B \in Batches :
          \/ OnlyReclaim(B) /\ Answer(m, "exceeded")
          \/ Granted(m, B) /\ Answer(m, "ok") /\ ~OverBudget(UsedAfter(B), m.arg)
    BY <1>1 DEF RunReserve, Granted, Regranted
  <2> QED
    BY <1>1, <2>1, BatchRange DEF RunReserve
<1>2. ASSUME NEW c \in {m.arg, 0}, NEW p \in {"settled", "released"}, End(m, c, p),
             m.op # "reserving", p = "released" => c = 0
      PROVE  \E B \in SUBSET Reservations :
               \/ OnlyReclaim(B) /\ Answer(m, "notFound") /\ Reserved(m.r, B) = 0
               \/ Ended(m, c, p, B) /\ Answer(m, "ok")
  <2>1. PICK B \in Batches :
          \/ OnlyReclaim(B) /\ Answer(m, "notFound") /\ Reserved(m.r, B) = 0
          \/ Ended(m, c, p, B) /\ Answer(m, "ok")
    BY <1>2 DEF End, Ended
  <2> QED
    BY <2>1, BatchRange
<1>3. CASE RunCommit(m)
  BY <1>2, <1>3 DEF RunCommit
<1>4. CASE RunRelease(m)
  BY <1>2, <1>4 DEF RunRelease
<1> QED
  BY <1>1, <1>3, <1>4 DEF Script

\* A script that leaves the server in order and answers truly leaves all in
\* order.
LEMMA AnsweredStruct ==
  ASSUME Struct, NEW m \in net, NEW result, Answer(m, result), ServerOK',
         Asking', Agree', Callers', net' \subseteq Requests,
         reply' \in [Reservations -> {"none", "ok", "exceeded", "notFound"}]
  PROVE  Struct'
<1>1. UNCHANGED <<now, client, arg, sent, resent>>
  BY DEF Answer
<1>2. Types'
  BY <1>1 DEF Struct, Types, TypeOK, ServerOK
<1> QED
  BY <1>2 DEF Struct, ServerOK

LEMMA ScriptStruct ==
  ASSUME Struct, NEW m \in net, Script(m)
  PROVE  Struct'
<1>1. m.r \in Reservations /\ m.arg \in Amounts /\ 0 \in Amounts
  BY Request, AmountsAssumption DEF Struct, Types
<1>2. PICK B \in SUBSET Reservations :
        \/ OnlyReclaim(B) /\ Answer(m, "exceeded") /\ m.op = "reserving"
        \/ Granted(m, B) /\ Answer(m, "ok") /\ m.op = "reserving"
        \/ OnlyReclaim(B) /\ Answer(m, "notFound") /\ m.op # "reserving"
        \/ \E p \in {"settled", "released"}, c \in {m.arg, 0} :
             /\ Ended(m, c, p, B) /\ Answer(m, "ok")
             /\ m.op # "reserving" /\ (p = "released" => c = 0)
  BY ScriptCases
<1>3. ASSUME NEW result \in {"exceeded", "notFound"}, OnlyReclaim(B), Answer(m, result),
             result = "notFound" => m.op # "reserving"
      PROVE  Struct'
  <2>1. now' = now
    BY <1>3 DEF Answer
  <2>2. /\ ServerOK'
        /\ \A q \in Reservations : Forward(q)
        /\ \A q \in Reservations : phase[q] = "free" => phase'[q] = "free"
    BY <1>3, <2>1, OnlyReclaimKeys
  <2>3. /\ Asking' /\ Agree' /\ Callers' /\ net' \subseteq Requests
        /\ reply' \in [Reservations -> {"none", "ok", "exceeded", "notFound"}]
    BY <1>3, <2>2, AnswerStruct
  <2> QED
    BY <1>3, <2>2, <2>3, AnsweredStruct
<1>4. CASE Granted(m, B) /\ Answer(m, "ok") /\ m.op = "reserving"
  <2>1. now' = now
    BY <1>4 DEF Answer
  <2>2. /\ ServerOK'
        /\ \A q \in Reservations : Forward(q)
        /\ \A q \in Reservations : phase[q] = "free" /\ phase'[q] # "free" => q = m.r
        /\ amount'[m.r] = m.arg /\ phase'[m.r] # "free"
    BY <1>4, <2>1, GrantedKeys
  <2>3. /\ Asking' /\ Agree' /\ Callers' /\ net' \subseteq Requests
        /\ reply' \in [Reservations -> {"none", "ok", "exceeded", "notFound"}]
    BY <1>4, <2>2, AnswerStruct
  <2> QED
    BY <1>4, <2>2, <2>3, AnsweredStruct
<1>5. ASSUME NEW p \in {"settled", "released"}, NEW c \in {m.arg, 0}, Ended(m, c, p, B),
             Answer(m, "ok"), m.op # "reserving", p = "released" => c = 0
      PROVE  Struct'
  <2>1. now' = now /\ c \in Amounts
    BY <1>1, <1>5 DEF Answer
  <2>2. /\ ServerOK'
        /\ \A q \in Reservations : Forward(q)
        /\ \A q \in Reservations : phase[q] = "free" => phase'[q] = "free"
        /\ phase'[m.r] \in {"settled", "released"}
    BY <1>5, <2>1, EndedKeys
  <2>3. /\ Asking' /\ Agree' /\ Callers' /\ net' \subseteq Requests
        /\ reply' \in [Reservations -> {"none", "ok", "exceeded", "notFound"}]
    BY <1>5, <2>2, AnswerStruct
  <2> QED
    BY <1>5, <2>2, <2>3, AnsweredStruct
<1> QED
  BY <1>2, <1>3, <1>4, <1>5

LEMMA ForeignStruct ==
  ASSUME Struct, NEW e, RunForeign(e)
  PROVE  Struct' /\ \E B \in SUBSET Reservations : OnlyReclaim(B) /\ resent' = resent
<1>1. PICK B \in SUBSET Reservations : OnlyReclaim(B)
  BY BatchRange DEF RunForeign
<1>2. now' = now /\ UNCHANGED clientVars /\ UNCHANGED <<net, reply, client, arg, sent, resent>>
  BY DEF RunForeign, clientVars
<1>3. /\ ServerOK'
      /\ \A q \in Reservations : Forward(q)
      /\ \A q \in Reservations : phase[q] = "free" => phase'[q] = "free"
  BY <1>1, <1>2, OnlyReclaimKeys
<1>4. Asking' /\ Agree' /\ Callers'
  BY <1>2, <1>3, QuietStruct
<1>5. Types'
  BY <1>2, <1>3 DEF Struct, Types, TypeOK, ServerOK
<1> QED
  BY <1>1, <1>2, <1>3, <1>4, <1>5 DEF Struct, ServerOK

LEMMA TickStruct ==
  ASSUME Struct, Tick
  PROVE  Struct' /\ Stray' \subseteq Stray
<1>1. /\ now < MaxTime /\ now' = now + 1
      /\ key' = [r \in Reservations |-> IF deadline[r] <= now' THEN None ELSE key[r]]
      /\ UNCHANGED <<phase, amount, charge, used, deadline, score>> /\ UNCHANGED clientVars
      /\ UNCHANGED <<net, reply, client, arg, sent, resent>>
  BY DEF Tick, clientVars
<1>2. now \in Nat /\ now' \in 0..MaxTime /\ now <= now'
  BY <1>1, RedisAssumption DEF Struct, Types, TypeOK
<1>3. Types'
  <2>1. key' \in [Reservations -> Amounts \cup {None}]
    BY <1>1 DEF Struct, Types, TypeOK
  <2> QED
    BY <1>1, <1>2, <2>1 DEF Struct, Types, TypeOK, BudgetTypeOK
<1>4. Keys'
  <2> SUFFICES ASSUME NEW q \in Reservations PROVE KeyOf(q)'
    BY DEF Keys
  <2>1. KeyOf(q) /\ deadline[q] \in Nat
    BY DEF Struct, Keys, Types, TypeOK
  <2>2. key'[q] = IF deadline[q] <= now' THEN None ELSE key[q]
    BY <1>1
  <2>3. Evicted(q) => deadline[q] <= now'
    BY <1>2, <2>1 DEF Evicted
  <2> QED
    BY <1>1, <2>1, <2>2, <2>3 DEF KeyOf, Evicted
<1>5. Asking' /\ Agree' /\ Callers'
  BY <1>1, QuietStruct DEF Forward
<1>6. Stray' \subseteq Stray
  BY <1>1 DEF Stray
<1> QED
  BY <1>3, <1>4, <1>5, <1>6 DEF Struct

\* The steps of the clients and of the network leave the server alone.
ClientStep ==
  \/ \E r \in Reservations : Call(r) \/ Receive(r) \/ Timeout(r) \/ Resend(r)
  \/ \E m \in net : Drop(m)

LEMMA ClientStruct ==
  ASSUME Struct, ClientStep
  PROVE  Struct' /\ UNCHANGED <<phase, amount, charge, serverVars>> /\ (resent => resent')
<1> USE DEF Struct
<1>1. ASSUME NEW r \in Reservations, Call(r) \/ Receive(r) \/ Timeout(r) \/ Resend(r)
      PROVE  Struct' /\ UNCHANGED <<phase, amount, charge, serverVars>> /\ (resent => resent')
  <2>1. CASE \E e \in Estimates : Reserve(r, e)
    <3>1. PICK e \in Amounts : client[r] = "new" /\ Send(r, "reserving", e)
      BY <2>1, RedisAssumption DEF Reserve
    <3> QED
      BY <3>1, SendStruct DEF Waits, Send
  <2>2. CASE \E a \in Actuals : Commit(r, a)
    <3>1. PICK a \in Actuals : client[r] = "owned" /\ Send(r, "committing", Clamp(a))
      BY <2>2 DEF Commit
    <3>2. Clamp(a) \in Amounts
      BY RedisAssumption, AmountsAssumption DEF Clamp
    <3> QED
      BY <3>1, <3>2, SendStruct DEF Waits, Send
  <2>3. CASE Release(r)
    BY <2>3, AmountsAssumption, SendStruct DEF Release, Waits, Send
  <2>4. CASE Receive(r)
    <3>1. reply[r] # "none" /\ Return(r, reply[r] = "ok") /\ client[r] \in Waits
      BY <2>4 DEF Receive, Callers, CallerOf
    <3> QED
      BY <3>1, ReturnStruct DEF Return
  <2>5. CASE Timeout(r)
    BY <2>5, ReturnStruct DEF Timeout, Return
  <2>6. CASE Resend(r)
    <3>1. client[r] \in Waits /\ Send(r, client[r], arg[r]) /\ arg[r] \in Amounts
      BY <2>6 DEF Resend, Types, TypeOK
    <3> QED
      BY <3>1, SendStruct DEF Send
  <2> QED
    BY <1>1, <2>1, <2>2, <2>3, <2>4, <2>5, <2>6 DEF Call
<1>2. ASSUME NEW m \in net, Drop(m)
      PROVE  Struct' /\ UNCHANGED <<phase, amount, charge, serverVars>> /\ (resent => resent')
  BY <1>2, DropStruct DEF Drop
<1> QED
  BY <1>1, <1>2 DEF ClientStep

\* The same when nothing happens.
LEMMA Stutter ==
  ASSUME UNCHANGED vars
  PROVE  /\ Struct => Struct'
         /\ UNCHANGED <<phase, amount, charge, serverVars, resent>>
         /\ UNCHANGED <<now, used, key, deadline, score>>
         /\ UNCHANGED <<net, reply, client, arg, sent>>
BY DEF vars, serverVars, clientVars, Struct, Types, TypeOK, BudgetTypeOK, Keys, KeyOf, Evicted,
       Asking, AskOf, Agree, Callers, CallerOf

LEMMA NextCases ==
  ASSUME [Next]_vars
  PROVE  \/ ClientStep
         \/ \E m \in net : Script(m)
         \/ \E e \in Estimates : RunForeign(e)
         \/ Tick
         \/ UNCHANGED vars
BY DEF Next, ClientStep, Foreign

LEMMA StructNext == Struct /\ [Next]_vars => Struct'
<1> SUFFICES ASSUME Struct, [Next]_vars PROVE Struct'
  OBVIOUS
<1>1. CASE ClientStep
  BY <1>1, ClientStruct
<1>2. CASE \E m \in net : Script(m)
  BY <1>2, ScriptStruct
<1>3. CASE \E e \in Estimates : RunForeign(e)
  BY <1>3, ForeignStruct
<1>4. CASE Tick
  BY <1>4, TickStruct
<1>5. CASE UNCHANGED vars
  BY <1>5, Stutter
<1> QED
  BY <1>1, <1>2, <1>3, <1>4, <1>5, NextCases

LEMMA ExactInit == Init => Exact
<1> SUFFICES ASSUME Init PROVE Exact
  OBVIOUS
<1>1. Usage = 0 /\ Overshoot = 0 /\ used = 0 /\ Limit \in Int
  BY InitUsage, LimitAssumption DEF Init
<1>2. Stray = {}
  BY DEF Init, Stray
<1>3. Total(amount, Stray) = 0
  BY <1>2, TotalEmpty
<1> QED
  BY <1>1, <1>2, <1>3 DEF Exact

\* A step that leaves the budget and the counter alone may evict stray keys.
LEMMA SameExact ==
  ASSUME Struct, Exact, UNCHANGED <<phase, amount, charge>>, used' = used,
         Stray' \subseteq Stray, resent => resent'
  PROVE  Exact'
<1>1. Usage' = Usage /\ Overshoot' = Overshoot
  BY SameUsage DEF budgetVars
<1>2. IsFiniteSet(Stray) /\ \A q \in Stray : amount[q] \in Nat
  BY ReservationsAssumption, FS_Subset, BudgetSums DEF Stray, Struct, Types, TypeOK
<1>3. Total(amount, Stray)' = Total(amount, Stray')
  OBVIOUS
<1>4. Total(amount, Stray') <= Total(amount, Stray) /\ Total(amount, Stray) \in Nat
  BY <1>2, TotalSubset, TotalNat
<1>5. Total(amount, Stray') \in Nat
  BY <1>2, FS_Subset, TotalNat
<1>6. Usage \in Nat /\ used \in Int
  BY BudgetSums DEF Struct, Types, TypeOK
<1>7. used' >= Usage' + Total(amount, Stray)'
  <2>1. used >= Usage + Total(amount, Stray)
    BY DEF Exact
  <2> QED
    BY <1>1, <1>3, <1>4, <1>5, <1>6, <2>1
<1>8. ~resent' => used' = Usage' /\ Stray' = {}
  BY <1>1 DEF Exact
<1> QED
  BY <1>1, <1>7, <1>8 DEF Exact

LEMMA ScriptExact ==
  ASSUME Struct, Exact, NEW m \in net, Script(m)
  PROVE  Exact' /\ (~resent' => BudgetNext)
<1>1. m.arg \in Amounts /\ 0 \in Amounts
  BY Request, AmountsAssumption DEF Struct, Types
<1>2. PICK B \in SUBSET Reservations :
        \/ OnlyReclaim(B) /\ resent' = resent
        \/ /\ Granted(m, B) /\ resent' = resent
           /\ m.op = "reserving" /\ ~OverBudget(UsedAfter(B), m.arg)
        \/ \E p \in {"settled", "released"}, c \in {m.arg, 0} :
             Ended(m, c, p, B) /\ resent' = resent /\ (p = "released" => c = 0)
  BY ScriptCases DEF Answer
<1>3. CASE OnlyReclaim(B) /\ resent' = resent
  BY <1>3, OnlyReclaimExact
<1>4. CASE /\ Granted(m, B) /\ resent' = resent
           /\ m.op = "reserving" /\ ~OverBudget(UsedAfter(B), m.arg)
  BY <1>4, GrantedExact
<1>5. ASSUME NEW p \in {"settled", "released"}, NEW c \in {m.arg, 0},
             Ended(m, c, p, B), resent' = resent, p = "released" => c = 0
      PROVE  Exact' /\ (~resent' => BudgetNext)
  <2>1. c \in Amounts
    BY <1>1
  <2>2. CASE phase[m.r] = "held"
    BY <1>5, <2>1, <2>2, EndedOpen
  <2>3. CASE phase[m.r] # "held"
    BY <1>5, <2>1, <2>3, EndedStrayExact
  <2> QED
    BY <2>2, <2>3
<1> QED
  BY <1>2, <1>3, <1>4, <1>5

LEMMA ExactNext ==
  Struct /\ Exact /\ [Next]_vars => Exact' /\ [~resent' => BudgetNext]_budgetVars
<1> SUFFICES ASSUME Struct, Exact, [Next]_vars
             PROVE  Exact' /\ [~resent' => BudgetNext]_budgetVars
  OBVIOUS
<1>1. CASE ClientStep
  <2>1. UNCHANGED <<phase, amount, charge>> /\ used' = used /\ key' = key /\ (resent => resent')
    BY <1>1, ClientStruct DEF serverVars
  <2>2. Stray' \subseteq Stray
    BY <2>1 DEF Stray
  <2> QED
    BY <2>1, <2>2, SameExact DEF budgetVars
<1>2. CASE \E m \in net : Script(m)
  BY <1>2, ScriptExact
<1>3. CASE \E e \in Estimates : RunForeign(e)
  BY <1>3, ForeignStruct, OnlyReclaimExact
<1>4. CASE Tick
  <2>1. UNCHANGED <<phase, amount, charge>> /\ used' = used /\ resent' = resent
    BY <1>4 DEF Tick, clientVars
  <2> QED
    BY <1>4, <2>1, TickStruct, SameExact DEF budgetVars
<1>5. CASE UNCHANGED vars
  <2>1. UNCHANGED <<phase, amount, charge>> /\ used' = used /\ key' = key /\ resent' = resent
    BY <1>5, Stutter
  <2>2. Stray' \subseteq Stray
    BY <2>1 DEF Stray
  <2> QED
    BY <2>1, <2>2, SameExact DEF budgetVars
<1> QED
  BY <1>1, <1>2, <1>3, <1>4, <1>5, NextCases
-----------------------------------------------------------------------------
(* What an answer "not found" means.                                       *)

\* An open reservation is not found only if Redis has evicted its key or
\* nothing was reserved: the scripts take the amount 0 for a missing key.
Refused ==
  ~resent => \A r \in Reservations :
    reply[r] = "notFound" => phase[r] # "held" \/ Evicted(r) \/ amount[r] = 0

\* Until a request is repeated, a reservation in use is granted nothing new.
LEMMA ScriptKeeps ==
  ASSUME Struct, NEW m \in net, Script(m), ~resent', NEW q \in Reservations, phase[q] # "free"
  PROVE  /\ phase'[q] = "held" => phase[q] = "held"
         /\ amount'[q] = amount[q] /\ deadline'[q] = deadline[q]
<1>1. PICK B \in SUBSET Reservations :
        \/ OnlyReclaim(B)
        \/ Granted(m, B) /\ resent' = resent /\ m.op = "reserving"
        \/ \E p \in {"settled", "released"}, c \in {m.arg, 0} : Ended(m, c, p, B)
  BY ScriptCases DEF Answer
<1>2. PhaseAfter(B)[q] = "held" => phase[q] = "held"
  BY PhaseAfterBatch
<1>3. CASE OnlyReclaim(B)
  BY <1>2, <1>3 DEF OnlyReclaim
<1>4. CASE Granted(m, B) /\ resent' = resent /\ m.op = "reserving"
  <2>1. q # m.r
    BY <1>4, GrantedParts
  <2> QED
    BY <1>2, <1>4, <2>1, GrantedParts
<1>5. ASSUME NEW p \in {"settled", "released"}, NEW c, Ended(m, c, p, B)
      PROVE  /\ phase'[q] = "held" => phase[q] = "held"
             /\ amount'[q] = amount[q] /\ deadline'[q] = deadline[q]
  <2>1. amount' = amount /\ deadline' = deadline
    BY <1>5 DEF Ended
  <2>2. CASE q = m.r
    BY <1>5, <2>1, <2>2, EndedParts
  <2>3. CASE q # m.r
    BY <1>2, <1>5, <2>1, <2>3, EndedParts
  <2> QED
    BY <2>2, <2>3
<1> QED
  BY <1>1, <1>3, <1>4, <1>5

\* A terminal script that does not find its reservation says so for a reason.
LEMMA NotFoundReason ==
  ASSUME Struct, NEW m \in net, NEW B \in SUBSET Reservations, OnlyReclaim(B), now' = now,
         Reserved(m.r, B) = 0
  PROVE  (phase[m.r] # "held" \/ Evicted(m.r) \/ amount[m.r] = 0)'
<1>1. m.r \in Reservations /\ KeyOf(m.r)
  BY Request DEF Struct, Types, Keys
<1>2. /\ phase'[m.r] = PhaseAfter(B)[m.r] /\ amount'[m.r] = amount[m.r]
      /\ deadline'[m.r] = deadline[m.r]
  BY DEF OnlyReclaim
<1>3. CASE KeyAfter(B)[m.r] = None
  <2>1. PhaseAfter(B)[m.r] = "held" => Evicted(m.r)
    BY <1>1, <1>3, KeyAfterBatch
  <2> QED
    BY <1>2, <2>1 DEF Evicted
<1>4. CASE KeyAfter(B)[m.r] # None
  <2>1. key[m.r] = 0 /\ KeyAfter(B)[m.r] = key[m.r]
    BY <1>1, <1>4, KeyAfterBatch DEF Reserved
  <2>2. amount[m.r] = 0
    BY <1>1, <1>4, <2>1 DEF KeyOf
  <2> QED
    BY <1>2, <2>2
<1> QED
  BY <1>3, <1>4

LEMMA RefusedNext == Struct /\ Refused /\ [Next]_vars => Refused'
<1> SUFFICES ASSUME Struct, Refused, [Next]_vars, ~resent', NEW q \in Reservations,
                    reply'[q] = "notFound"
             PROVE  (phase[q] # "held" \/ Evicted(q) \/ amount[q] = 0)'
  BY DEF Refused
<1>1. /\ reply \in [Reservations -> {"none", "ok", "exceeded", "notFound"}]
      /\ now \in Nat /\ deadline[q] \in Nat
      /\ reply[q] = "notFound" => phase[q] # "free"
  BY DEF Struct, Types, TypeOK, Callers, CallerOf, Waits
<1>2. ASSUME reply[q] = "notFound", ~resent, now <= now',
             /\ phase'[q] = "held" => phase[q] = "held"
             /\ amount'[q] = amount[q] /\ deadline'[q] = deadline[q],
             now' \in Nat
      PROVE  (phase[q] # "held" \/ Evicted(q) \/ amount[q] = 0)'
  <2>1. phase[q] # "held" \/ deadline[q] <= now \/ amount[q] = 0
    BY <1>2 DEF Refused, Evicted
  <2>2. deadline[q] <= now => deadline'[q] <= now'
    BY <1>1, <1>2
  <2> QED
    BY <1>2, <2>1, <2>2 DEF Evicted
<1>3. CASE ClientStep
  <2>1. UNCHANGED <<phase, amount, deadline, now>> /\ ~resent
    BY <1>3, ClientStruct DEF serverVars
  <2>2. reply'[q] \in {reply[q], "none"}
    BY <1>1, <1>3 DEF ClientStep, Call, Reserve, Commit, Release, Receive, Timeout, Resend, Drop,
                      Send, Return
  <2> QED
    BY <1>1, <1>2, <2>1, <2>2
<1>4. CASE \E m \in net : Script(m)
  <2>1. PICK m \in net : Script(m)
    BY <1>4
  <2>2. PICK B \in SUBSET Reservations, result \in {"ok", "exceeded", "notFound"} :
          /\ Answer(m, result)
          /\ result = "notFound" => OnlyReclaim(B) /\ Reserved(m.r, B) = 0
    BY <2>1, ScriptCases
  <2>3. now' = now /\ resent' = resent /\ m.r \in Reservations
    BY <2>2, Request DEF Answer, Struct, Types
  <2>4. CASE reply'[q] = reply[q]
    BY <1>1, <1>2, <2>1, <2>3, <2>4, ScriptKeeps
  <2>5. CASE reply'[q] # reply[q]
    <3>1. q = m.r /\ result = "notFound"
      BY <1>1, <2>2, <2>3, <2>5 DEF Answer
    <3> QED
      BY <2>2, <2>3, <3>1, NotFoundReason
  <2> QED
    BY <2>4, <2>5
<1>5. CASE \E e \in Estimates : RunForeign(e)
  <2>1. PICK B \in SUBSET Reservations : OnlyReclaim(B)
    BY <1>5, ForeignStruct
  <2>2. now' = now /\ reply' = reply /\ resent' = resent
    BY <1>5 DEF RunForeign, clientVars
  <2>3. phase'[q] = "held" => phase[q] = "held"
    BY <2>1, PhaseAfterBatch DEF OnlyReclaim
  <2> QED
    BY <1>1, <1>2, <2>1, <2>2, <2>3 DEF OnlyReclaim
<1>6. CASE Tick
  BY <1>1, <1>2, <1>6 DEF Tick, clientVars
<1>7. CASE UNCHANGED vars
  BY <1>1, <1>2, <1>7, Stutter
<1> QED
  BY <1>3, <1>4, <1>5, <1>6, <1>7, NextCases

\* Where no estimate is 0, nothing open has the amount 0.
Positive ==
  /\ \A m \in net : m.op = "reserving" => m.arg > 0
  /\ \A r \in Reservations : client[r] = "reserving" => arg[r] > 0
  /\ \A r \in Reservations : phase[r] = "held" => amount[r] > 0

LEMMA PositiveInit == Init => Positive
BY DEF Init, BudgetInit, Positive

LEMMA PositiveNext ==
  ASSUME 0 \notin Estimates
  PROVE  Struct /\ Positive /\ [Next]_vars => Positive'
<1> SUFFICES ASSUME Struct, Positive, [Next]_vars PROVE Positive'
  OBVIOUS
<1>1. CASE ClientStep
  <2>1. \A r \in Reservations : phase'[r] = "held" => amount'[r] > 0
    BY <1>1, ClientStruct DEF Positive
  <2>2. /\ \A m \in net : m.r \in Reservations
        /\ arg \in [Reservations -> Amounts]
        /\ client \in [Reservations -> Waits \cup {"new", "owned", "lost", "done"}]
    BY Request DEF Struct, Types, TypeOK
  <2>3. ASSUME NEW r \in Reservations, NEW op \in Waits, NEW x \in Amounts, Send(r, op, x),
               op = "reserving" => x > 0
        PROVE  /\ \A m \in net' : m.op = "reserving" => m.arg > 0
               /\ \A q \in Reservations : client'[q] = "reserving" => arg'[q] > 0
    BY <2>2, <2>3 DEF Positive, Send
  <2>4. ASSUME NEW r \in Reservations, NEW ok, Return(r, ok)
        PROVE  /\ \A m \in net' : m.op = "reserving" => m.arg > 0
               /\ \A q \in Reservations : client'[q] = "reserving" => arg'[q] > 0
    <3>1. Outcome(r, ok) # "reserving"
      BY DEF Outcome
    <3> QED
      BY <2>2, <2>4, <3>1 DEF Positive, Return
  <2>5. ASSUME NEW r \in Reservations, Call(r) \/ Receive(r) \/ Timeout(r) \/ Resend(r)
        PROVE  /\ \A m \in net' : m.op = "reserving" => m.arg > 0
               /\ \A q \in Reservations : client'[q] = "reserving" => arg'[q] > 0
    <3>1. CASE \E e \in Estimates : Reserve(r, e)
      <4>1. PICK e \in Estimates : e >= 0 /\ Send(r, "reserving", e)
        BY <3>1 DEF Reserve
      <4>2. e \in Amounts /\ e > 0
        BY <4>1, RedisAssumption, AmountsAssumption
      <4> QED
        BY <2>3, <4>1, <4>2 DEF Waits
    <3>2. CASE \E a \in Actuals : Commit(r, a)
      <4>1. PICK a \in Actuals : Send(r, "committing", Clamp(a))
        BY <3>2 DEF Commit
      <4>2. Clamp(a) \in Amounts
        BY RedisAssumption, AmountsAssumption DEF Clamp
      <4> QED
        BY <2>3, <4>1, <4>2 DEF Waits
    <3>3. CASE Release(r)
      BY <2>3, <3>3, AmountsAssumption DEF Release, Waits
    <3>4. CASE Receive(r) \/ Timeout(r)
      BY <2>4, <3>4 DEF Receive, Timeout
    <3>5. CASE Resend(r)
      <4>1. client[r] \in Waits /\ Send(r, client[r], arg[r]) /\ arg[r] \in Amounts
        BY <2>2, <3>5 DEF Resend
      <4>2. client[r] = "reserving" => arg[r] > 0
        BY DEF Positive
      <4> QED
        BY <2>3, <4>1, <4>2
    <3> QED
      BY <2>5, <3>1, <3>2, <3>3, <3>4, <3>5 DEF Call
  <2>6. ASSUME NEW m \in net, Drop(m)
        PROVE  /\ \A l \in net' : l.op = "reserving" => l.arg > 0
               /\ \A q \in Reservations : client'[q] = "reserving" => arg'[q] > 0
    BY <2>6 DEF Drop, Positive
  <2> QED
    BY <1>1, <2>1, <2>5, <2>6 DEF ClientStep, Positive
<1>2. ASSUME UNCHANGED <<client, arg>>, net' \subseteq net,
             \A q \in Reservations : phase'[q] = "held" =>
               (phase[q] = "held" /\ amount'[q] = amount[q]) \/ amount'[q] > 0
      PROVE  Positive'
  BY <1>2 DEF Positive
<1>3. ASSUME NEW B \in SUBSET Reservations, OnlyReclaim(B), NEW q \in Reservations
      PROVE  phase'[q] = "held" => phase[q] = "held" /\ amount'[q] = amount[q]
  BY <1>3, PhaseAfterBatch DEF OnlyReclaim
<1>4. CASE \E m \in net : Script(m)
  <2>1. PICK m \in net : Script(m)
    BY <1>4
  <2>2. PICK B \in SUBSET Reservations :
          \/ OnlyReclaim(B)
          \/ Granted(m, B) /\ m.op = "reserving"
          \/ \E p \in {"settled", "released"}, c \in {m.arg, 0} : Ended(m, c, p, B)
    BY <2>1, ScriptCases
  <2>3. UNCHANGED <<client, arg>> /\ net' \subseteq net
    BY <2>1, ScriptCases DEF Answer
  <2>4. ASSUME NEW q \in Reservations
        PROVE  phase'[q] = "held" => (phase[q] = "held" /\ amount'[q] = amount[q]) \/ amount'[q] > 0
    <3>1. PhaseAfter(B)[q] = "held" => phase[q] = "held"
      BY PhaseAfterBatch
    <3>2. CASE OnlyReclaim(B)
      BY <1>3, <3>2
    <3>3. CASE Granted(m, B) /\ m.op = "reserving"
      <4>1. m.arg > 0
        BY <3>3 DEF Positive
      <4> QED
        BY <3>1, <3>3, <4>1, GrantedParts
    <3>4. ASSUME NEW p \in {"settled", "released"}, NEW c, Ended(m, c, p, B)
          PROVE  phase'[q] = "held" => phase[q] = "held" /\ amount'[q] = amount[q]
      <4>1. amount' = amount
        BY <3>4 DEF Ended
      <4> QED
        BY <3>1, <3>4, <4>1, EndedParts
    <3> QED
      BY <2>2, <3>2, <3>3, <3>4
  <2> QED
    BY <1>2, <2>3, <2>4
<1>5. CASE \E e \in Estimates : RunForeign(e)
  <2>1. PICK B \in SUBSET Reservations : OnlyReclaim(B)
    BY <1>5, ForeignStruct
  <2>2. UNCHANGED <<net, client, arg>>
    BY <1>5 DEF RunForeign, clientVars
  <2> QED
    BY <1>2, <1>3, <2>1, <2>2
<1>6. CASE Tick
  BY <1>2, <1>6 DEF Tick, clientVars
<1>7. CASE UNCHANGED vars
  BY <1>2, <1>7, Stutter
<1> QED
  BY <1>1, <1>4, <1>5, <1>6, <1>7, NextCases
-----------------------------------------------------------------------------
(* The theorems.                                                           *)

\* The inductive invariant.
LEMMA RedisCorrect == Spec => [](Struct /\ Exact)
BY StructInit, StructNext, ExactInit, ExactNext, PTL DEF Spec

\* Every variable has its type (TypeOK).
THEOREM RedisTypeCorrect == Spec => []TypeOK
<1>1. Struct => TypeOK
  BY DEF Struct, Types
<1> QED
  BY <1>1, RedisCorrect, PTL

\* The key <prefix>:used is exact until the client library repeats a request
\* and never too small after that, whatever is late or lost, however small the
\* batches and the margin, and no more than the limit is granted even then
\* (UsedIsExact).
THEOREM RedisUsedExact == Spec => []UsedIsExact
<1>1. Struct /\ Exact => UsedIsExact
  <2> SUFFICES ASSUME Struct, Exact PROVE UsedIsExact
    OBVIOUS
  <2>1. IsFiniteSet(Stray) /\ \A q \in Stray : amount[q] \in Nat
    BY ReservationsAssumption, FS_Subset, BudgetSums DEF Stray, Struct, Types, TypeOK
  <2>2. Total(amount, Stray) \in Nat
    BY <2>1, TotalNat
  <2>3. Usage \in Nat /\ used \in Int
    BY BudgetSums DEF Struct, Types, TypeOK
  <2>4. used >= Usage
    BY <2>2, <2>3 DEF Exact
  <2> QED
    BY <2>4 DEF Exact, UsedIsExact
<1> QED
  BY <1>1, RedisCorrect, PTL

\* An open reservation whose key Redis still holds is not found only if its
\* amount is 0 (Refused).
THEOREM RedisRefusesTruly == Spec => []Refused
<1>1. Init => Refused
  BY DEF Init, Refused
<1> QED
  BY <1>1, RedisCorrect, RefusedNext, PTL DEF Spec

\* What a call reports is true (HandleTruth) where no estimate is 0; a
\* reservation of 0 is never found, as the run redis_zero shows.
THEOREM RedisHandleTruth ==
  ASSUME 0 \notin Estimates
  PROVE  Spec => []HandleTruth
<1>1. Struct /\ Refused /\ Positive => HandleTruth
  BY DEF Struct, Callers, CallerOf, Refused, Positive, HandleTruth, NotFoundIsClosed
<1>2. Struct /\ Positive /\ [Next]_vars => Positive'
  BY PositiveNext
<1> QED
  BY <1>1, <1>2, RedisCorrect, RedisRefusesTruly, PositiveInit, PTL DEF Spec

\* Until a request is repeated the server implements the abstract budget,
\* leases included (ImplementsBudget).
THEOREM RedisImplementsBudget == Spec => ImplementsBudget
<1>1. Init => BudgetInit
  BY DEF Init
<1> QED
  BY <1>1, RedisCorrect, ExactNext, PTL DEF Spec, ImplementsBudget
=============================================================================
