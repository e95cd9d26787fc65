----------------------------- MODULE RedisLedger -----------------------------
(***************************************************************************)
(* adapters/redis/ledger.go: the ledger whose state lives in Redis.  The   *)
(* three Lua scripts are atomic at the server; between a client and the    *)
(* server, requests and replies may be late or lost, a client may time out *)
(* while its request is still on its way, and it may disappear with a      *)
(* reservation open.  Reservations are leases on the server's clock, taken *)
(* back lazily, at most Batch of them by each script.                      *)
(*                                                                         *)
(* phase, amount and charge are history variables, the abstract Budget's   *)
(* view of the reservations, moved by the scripts.  Record, which only     *)
(* increments a counter of its own, is not in this module.                 *)
(***************************************************************************)
EXTENDS Budget

CONSTANTS TTL,       \* ReservationTTL in seconds of the model's clock
          Margin,    \* the 86400 seconds a reservation key outlives its lease
          Batch,     \* the LIMIT of ZRANGEBYSCORE, 100 in the code
          Estimates, \* arguments of Reserve
          Actuals,   \* arguments of Commit
          MaxTime,   \* bound on the clock
          MaxSends   \* bounds on the requests sent about each reservation

ASSUME RedisAssumption ==
  /\ TTL \in Nat \ {0} /\ Batch \in Nat \ {0}
  /\ Margin \in Nat /\ MaxTime \in Nat /\ MaxSends \in [Reservations -> Nat]
  /\ Estimates \subseteq Int /\ Actuals \subseteq Int
  /\ \A e \in Estimates : e >= 0 => e \in Amounts
  /\ \A a \in Actuals : a >= 0 => a \in Amounts

VARIABLES now,      \* the server's clock
          used,     \* the key <prefix>:used
          key,      \* the keys <prefix>:resv:<id>, or None
          deadline, \* when Redis evicts such a key
          score,    \* the sorted set <prefix>:expiry, or None
          net,      \* requests on their way to the server
          reply,    \* the reply a client may still read
          client,   \* where the client of each reservation is
          arg,      \* the argument of its call in progress
          sent,     \* number of requests sent about each reservation
          resent    \* whether the client library ever repeated a request

serverVars == <<now, used, key, deadline, score>>
clientVars == <<net, reply, client, arg, sent, resent>>
vars == <<phase, amount, charge, serverVars, clientVars>>

None == -1

\* Client states: "lost" is a Reserve that returned an error, "owned" a
\* handle whose done flag is false, "done" one whose flag is true.
Waits == {"reserving", "committing", "releasing"}
Requests == {m \in [r : Reservations, op : Waits, arg : Amounts, n : Nat] : m.n \in 1..MaxSends[m.r]}

Init ==
  /\ BudgetInit
  /\ now = 0
  /\ used = 0
  /\ key      = [r \in Reservations |-> None]
  /\ deadline = [r \in Reservations |-> 0]
  /\ score    = [r \in Reservations |-> None]
  /\ net = {}
  /\ reply  = [r \in Reservations |-> "none"]
  /\ client = [r \in Reservations |-> "new"]
  /\ arg    = [r \in Reservations |-> 0]
  /\ sent   = [r \in Reservations |-> 0]
  /\ resent = FALSE
-----------------------------------------------------------------------------
(* The client.                                                             *)

\* A script is sent for execution and the client waits for its reply.
Send(r, op, x) ==
  /\ sent[r] < MaxSends[r]
  /\ sent'   = [sent EXCEPT ![r] = @ + 1]
  /\ net'    = net \cup {[r |-> r, op |-> op, arg |-> x, n |-> sent[r] + 1]}
  /\ client' = [client EXCEPT ![r] = op]
  /\ arg'    = [arg EXCEPT ![r] = x]
  /\ reply'  = [reply EXCEPT ![r] = "none"]
  /\ resent' = (resent \/ client[r] \in Waits)
  /\ UNCHANGED <<phase, amount, charge, serverVars>>

\* Reserve draws a fresh id, here a reservation of the finite pool.  The
\* upper bound MaxInt64/2 lies above every estimate of the model.
Reserve(r, e) ==
  /\ client[r] = "new"
  /\ e >= 0
  /\ Send(r, "reserving", e)

Clamp_None(a) == a
Clamp(a) == IF a < 0 THEN 0 ELSE a

\* Commit under the handle's mutex; a handle that is done returns nil.
Commit(r, a) ==
  /\ client[r] = "owned"
  /\ Send(r, "committing", Clamp(a))

Release(r) ==
  /\ client[r] = "owned"
  /\ Send(r, "releasing", 0)

\* A call whose script succeeded returns nil; one that fails returns an error
\* and leaves the handle as it was.
Outcome(r, ok) ==
  IF client[r] = "reserving" THEN IF ok THEN "owned" ELSE "lost"
                             ELSE IF ok THEN "done" ELSE "owned"

Return(r, ok) ==
  /\ client' = [client EXCEPT ![r] = Outcome(r, ok)]
  /\ reply'  = [reply EXCEPT ![r] = "none"]
  /\ arg'    = [arg EXCEPT ![r] = 0]
  /\ UNCHANGED <<phase, amount, charge, serverVars, net, sent, resent>>

Receive(r) == reply[r] # "none" /\ Return(r, reply[r] = "ok")

\* The context ends or the connection breaks: the call returns an error
\* whatever the server has done or will do with the request.
Timeout(r) == client[r] \in Waits /\ Return(r, FALSE)

\* The client library sends the script again over a new connection, while
\* the earlier request may still arrive or may have been executed.
Resend(r) ==
  /\ client[r] \in Waits
  /\ Send(r, client[r], arg[r])

\* A request is lost before it reaches the server.
Drop(m) ==
  /\ net' = net \ {m}
  /\ UNCHANGED <<phase, amount, charge, serverVars, reply, client, arg, sent, resent>>
-----------------------------------------------------------------------------
(* The server.                                                             *)

\* Leases that are over.
Expired == {r \in Reservations : score[r] # None /\ score[r] <= now}

\* ZRANGEBYSCORE ... LIMIT 0 Batch: the leases that a script takes back.
Batches_None == {{}}
Batches ==
  {B \in SUBSET Expired :
     /\ Cardinality(B) = IF Cardinality(Expired) < Batch THEN Cardinality(Expired) ELSE Batch
     /\ \A b \in B, q \in Expired \ B : score[b] <= score[q]}

\* The leases of B whose key still holds the reserved amount.
Valued(B) == {r \in B : key[r] # None}

\* The reclamation loop that opens every script: the used count without the
\* leases of B, their keys deleted, B removed from the sorted set.
UsedAfter(B) == used - Total(key, Valued(B))
KeyAfter_AllExpired(B) == [r \in Reservations |-> IF r \in Expired THEN None ELSE key[r]]
KeyAfter(B) == [r \in Reservations |-> IF r \in B THEN None ELSE key[r]]
ScoreAfter(B) == [r \in Reservations |-> IF r \in B THEN None ELSE score[r]]
PhaseAfter(B) == [r \in Reservations |->
                    IF r \in Valued(B) /\ phase[r] = "held" THEN "expired" ELSE phase[r]]

\* The server has executed m and answers; only the client's latest request
\* still has a connection on which the answer can be read.
Answer(m, result) ==
  /\ net' = net \ {m}
  /\ reply' = IF m.n = sent[m.r] /\ client[m.r] = m.op
                THEN [reply EXCEPT ![m.r] = result] ELSE reply
  /\ UNCHANGED <<now, client, arg, sent, resent>>

\* The script ends after the reclamation loop and SET used.
OnlyReclaim(B) ==
  /\ used'  = UsedAfter(B)
  /\ key'   = KeyAfter(B)
  /\ score' = ScoreAfter(B)
  /\ phase' = PhaseAfter(B)
  /\ UNCHANGED <<amount, charge, deadline>>

OverBudget_OffByOne(u, e) == Limit >= 0 /\ u + e > Limit + 1
OverBudget(u, e) == Limit >= 0 /\ u + e > Limit

\* How long Redis keeps a reservation's key: SET ... EX ttl + 86400.
KeyLife == TTL + Margin

\* reserveScript.  A script that runs a second time for an id in use
\* overwrites its key and its score.
RunReserve(m) ==
  /\ m.op = "reserving"
  /\ \E B \in Batches :
       IF OverBudget(UsedAfter(B), m.arg)
         THEN OnlyReclaim(B) /\ Answer(m, "exceeded")
         ELSE /\ used'     = UsedAfter(B) + m.arg
              /\ key'      = [KeyAfter(B) EXCEPT ![m.r] = m.arg]
              /\ deadline' = [deadline EXCEPT ![m.r] = now + KeyLife]
              /\ score'    = [ScoreAfter(B) EXCEPT ![m.r] = now + TTL]
              /\ phase'    = [PhaseAfter(B) EXCEPT ![m.r] =
                                IF @ \in {"free", "expired"} THEN "held" ELSE @]
              /\ amount'   = [amount EXCEPT ![m.r] = m.arg]
              /\ Answer(m, "ok")
              /\ UNCHANGED charge

\* tonumber(GET key or '0') once B is gone.
Reserved_Remembered(r, B) == amount[r]
Reserved(r, B) == IF KeyAfter(B)[r] = None THEN 0 ELSE key[r]

\* terminalScript and releaseScript: the charge c replaces the reservation,
\* which is then over; an unknown reservation is an error.
End(m, c, p) ==
  \E B \in Batches :
    IF Reserved(m.r, B) = 0
      THEN OnlyReclaim(B) /\ Answer(m, "notFound")
      ELSE /\ used'  = UsedAfter(B) + c - Reserved(m.r, B)
           /\ key'   = [KeyAfter(B) EXCEPT ![m.r] = None]
           /\ score' = [ScoreAfter(B) EXCEPT ![m.r] = None]
           /\ IF phase[m.r] = "held"
                THEN /\ phase'  = [PhaseAfter(B) EXCEPT ![m.r] = p]
                     /\ charge' = [charge EXCEPT ![m.r] = c]
                ELSE phase' = PhaseAfter(B) /\ UNCHANGED charge
           /\ Answer(m, "ok")
           /\ UNCHANGED <<amount, deadline>>

RunCommit(m) == m.op = "committing" /\ End(m, m.arg, "settled")

RunRelease(m) == m.op = "releasing" /\ End(m, 0, "released")

\* A reserveScript that another client's too large request runs: it is
\* refused, but takes back expired leases first.
RunForeign(e) ==
  /\ e >= 0
  /\ \E B \in Batches : OverBudget(UsedAfter(B), e) /\ OnlyReclaim(B)
  /\ UNCHANGED <<now, clientVars>>

\* The clock advances and Redis evicts the keys whose time is over.
Tick ==
  /\ now < MaxTime
  /\ now' = now + 1
  /\ key' = [r \in Reservations |-> IF deadline[r] <= now' THEN None ELSE key[r]]
  /\ UNCHANGED <<phase, amount, charge, used, deadline, score, clientVars>>

Call(r) ==
  \/ \E e \in Estimates : Reserve(r, e)
  \/ \E a \in Actuals : Commit(r, a)
  \/ Release(r)

Script(m) == RunReserve(m) \/ RunCommit(m) \/ RunRelease(m)

\* Other clients keep calling Reserve on the same budget.
Foreign == \E e \in Estimates : RunForeign(e)

Next ==
  \/ \E r \in Reservations : Call(r) \/ Receive(r) \/ Timeout(r) \/ Resend(r)
  \/ \E m \in net : Script(m) \/ Drop(m)
  \/ Foreign
  \/ Tick

Spec == Init /\ [][Next]_vars

\* As long as the budget is in use, calls of other clients keep arriving.
FairSpec == Spec /\ WF_vars(Foreign)
-----------------------------------------------------------------------------
(* Properties.                                                             *)

\* Every variable has its type.
TypeOK ==
  /\ BudgetTypeOK
  /\ now \in 0..MaxTime
  /\ used \in Int
  /\ key \in [Reservations -> Amounts \cup {None}]
  /\ deadline \in [Reservations -> Nat]
  /\ score \in [Reservations -> Nat \cup {None}]
  /\ net \subseteq Requests
  /\ reply \in [Reservations -> {"none", "ok", "exceeded", "notFound"}]
  /\ client \in [Reservations -> Waits \cup {"new", "owned", "lost", "done"}]
  /\ arg \in [Reservations -> Amounts]
  /\ \A r \in Reservations : sent[r] \in 0..MaxSends[r]
  /\ resent \in BOOLEAN

\* The key <prefix>:used is exact whatever requests and replies are late or
\* lost, whichever leases a script's batch left behind and whichever keys
\* Redis evicted: it is the open reservations plus the final charges, which
\* pass the limit by no more than commits overshot (README guarantees 1 and
\* 8).  Once the client library has sent a script twice it may be more, since
\* a duplicate is refused or counted on top, and is never less.
UsedIsExact ==
  /\ IF resent THEN used >= Usage ELSE used = Usage
  /\ Limit >= 0 => Usage <= Limit + Overshoot

\* Redis has evicted the key of r, whose lease was over long before.
Evicted(r) == deadline[r] <= now

\* RESERVATION_NOT_FOUND means that the reservation is over or that its key
\* was evicted: a terminal call on an open one replaces or removes it, also
\* when its lease has ended and no batch has reached it (docs/semantics.md).
\* A repeated reserveScript can arrive after that answer.
NotFoundIsClosed ==
  ~resent => \A r \in Reservations :
    reply[r] = "notFound" => phase[r] # "held" \/ Evicted(r)

\* A call reports what the server did: an owned handle was granted, a done one
\* was settled or released (README guarantee 6), and one that was not found
\* is over.
HandleTruth ==
  /\ NotFoundIsClosed
  /\ \A r \in Reservations :
       /\ client[r] = "owned" => phase[r] # "free"
       /\ client[r] = "done" => phase[r] \in {"settled", "released"}

\* "Safety margin (ttl + 86400) guarantees the key persists until lazy
\* reclamation": a lease in the sorted set still has its key.
KeyOutlivesLease == \A r \in Reservations : score[r] # None => key[r] # None

\* A lease that is over is taken back although each script takes only a
\* batch, if the budget stays in use and reaches the lease before Redis
\* evicts its key (README guarantee 5); a repeated request can renew it.
ExpiredReclaimed ==
  \A r \in Reservations :
    phase[r] = "held" /\ r \in Expired ~> phase[r] # "held" \/ Evicted(r) \/ score[r] > now

\* The server implements the abstract Budget, leases included, until a
\* request is repeated.
ImplementsBudget == BudgetInit /\ [][~resent' => BudgetNext]_budgetVars
=============================================================================
