------------------------------ MODULE AuditRing ------------------------------
(***************************************************************************)
(* ledger.go, Record and Entries: the audit trail of the in-process        *)
(* ledger, a ring of the last Capacity events under a read-write mutex.    *)
(* Every access to head and to a slot of the ring is one step.             *)
(*                                                                         *)
(* trail is a history variable: all events recorded, in order.  An event   *)
(* has the number of the call that brought it, its operation (with its     *)
(* domain), its cost and its currency.                                     *)
(***************************************************************************)
EXTENDS Integers, Sequences

CONSTANTS Threads,    \* goroutines that record or take snapshots
          Capacity,   \* auditRingCapacity, scaled down
          Operations, \* the operations that events name
          Costs,      \* the costs that events carry
          Own,        \* the ledger's currency
          Other,      \* any other currency
          NoCurrency, \* the zero Currency
          NoEvent,    \* a slot that was never written
          MaxRecords  \* bound on the Record calls of a behaviour

ASSUME CapacityAssumption == Capacity \in Nat \ {0}
ASSUME CostsAssumption == Costs \subseteq Int
ASSUME CurrenciesAssumption == Own # Other /\ NoCurrency \notin {Own, Other}

VARIABLES entries, \* the ring
          head,    \* number of events recorded so far
          writer,  \* the threads in the write lock: none or one
          readers, \* the threads in the read lock
          pc,      \* the next step of each thread
          event,   \* the event a thread is recording
          scan,    \* start and count of a thread's snapshot
          out,     \* the snapshot a thread has copied so far
          calls,   \* number of Record calls made
          trail    \* every event recorded

ringVars == <<entries, head, writer, readers, pc, event, scan, out, calls, trail>>

Slots == 0..(Capacity - 1)
NoScan == [start |-> 0, count |-> 0]

RingInit ==
  /\ entries = [i \in Slots |-> NoEvent]
  /\ head = 0
  /\ writer = {} /\ readers = {}
  /\ pc    = [t \in Threads |-> "idle"]
  /\ event = [t \in Threads |-> NoEvent]
  /\ scan  = [t \in Threads |-> NoScan]
  /\ out   = [t \in Threads |-> <<>>]
  /\ calls = 0
  /\ trail = <<>>

Goto(t, l) == pc' = [pc EXCEPT ![t] = l]

\* The currency Record stores: the ledger's own when the event has none.
Stamp(c) == IF c = NoCurrency THEN Own ELSE c

\* Record: a cost that is not positive or a foreign currency is an error.
Accepted(cost, c) == cost > 0 /\ Stamp(c) # Other

RecordCall(t, op, cost, c) ==
  /\ pc[t] = "idle"
  /\ calls < MaxRecords
  /\ IF Accepted(cost, c)
       THEN /\ calls' = calls + 1
            /\ Goto(t, "lock")
            /\ event' = [event EXCEPT ![t] =
                 [id |-> calls + 1, op |-> op, cost |-> cost, currency |-> Stamp(c)]]
       ELSE UNCHANGED <<calls, pc, event>>
  /\ UNCHANGED <<entries, head, writer, readers, scan, out, trail>>

\* mu.Lock is granted.
Lock(t) ==
  /\ pc[t] = "lock"
  /\ writer = {} /\ readers = {}
  /\ writer' = {t}
  /\ Goto(t, "write")
  /\ UNCHANGED <<entries, head, readers, event, scan, out, calls, trail>>

\* l.entries[l.head % capacity] = event.
WriteSlot(t) ==
  /\ pc[t] = "write"
  /\ entries' = [entries EXCEPT ![head % Capacity] = event[t]]
  /\ Goto(t, "advance")
  /\ UNCHANGED <<head, writer, readers, event, scan, out, calls, trail>>

Waiting(l) == {t \in Threads : pc[t] = l}

\* l.head++ and mu.Unlock, which lets in every reader that is waiting.
LetIn_One == IF Waiting("rlock") = {} THEN {} ELSE {CHOOSE t \in Waiting("rlock") : TRUE}
LetIn == Waiting("rlock")

Advance(t) ==
  /\ pc[t] = "advance"
  /\ head' = head + 1
  /\ trail' = Append(trail, event[t])
  /\ event' = [event EXCEPT ![t] = NoEvent]
  /\ writer' = {}
  /\ readers' = LetIn
  /\ pc' = [u \in Threads |-> IF u = t THEN "idle" ELSE IF u \in LetIn THEN "begin" ELSE pc[u]]
  /\ UNCHANGED <<entries, scan, out, calls>>

\* Entries: mu.RLock waits for a writer that is in, or in front of, the lock.
Blocked_Never == FALSE
Blocked == writer # {} \/ Waiting("lock") # {}

EntriesCall(t) ==
  /\ pc[t] = "idle"
  /\ IF Blocked THEN Goto(t, "rlock") /\ UNCHANGED readers
                ELSE Goto(t, "begin") /\ readers' = readers \cup {t}
  /\ UNCHANGED <<entries, head, writer, event, scan, out, calls, trail>>

\* count := min(head, capacity) and start := head - count.
Count == IF head < Capacity THEN head ELSE Capacity

Begin(t) ==
  /\ pc[t] = "begin"
  /\ scan' = [scan EXCEPT ![t] = [start |-> head - Count, count |-> Count]]
  /\ Goto(t, "copy")
  /\ UNCHANGED <<entries, head, writer, readers, event, out, calls, trail>>

\* out[i] = l.entries[(start + i) % capacity].
CopySlot(t) ==
  /\ pc[t] = "copy"
  /\ Len(out[t]) < scan[t].count
  /\ out' = [out EXCEPT ![t] =
               Append(@, entries[(scan[t].start + Len(out[t])) % Capacity])]
  /\ UNCHANGED <<entries, head, writer, readers, pc, event, scan, calls, trail>>

\* The deferred mu.RUnlock; the snapshot goes to the caller.
Finish(t) ==
  /\ pc[t] = "copy"
  /\ Len(out[t]) = scan[t].count
  /\ readers' = readers \ {t}
  /\ out' = [out EXCEPT ![t] = <<>>]
  /\ scan' = [scan EXCEPT ![t] = NoScan]
  /\ Goto(t, "idle")
  /\ UNCHANGED <<entries, head, writer, event, calls, trail>>

Proceed(t) ==
  \/ Lock(t)
  \/ WriteSlot(t)
  \/ Advance(t)
  \/ Begin(t)
  \/ CopySlot(t)
  \/ Finish(t)

-----------------------------------------------------------------------------
(* Properties.                                                             *)

Retained == IF Len(trail) < Capacity THEN Len(trail) ELSE Capacity

\* A snapshot is the last events of the trail, in order, without a gap, an
\* overwritten slot or a slot that was never written, however Record calls
\* interleave with the copying (ledger.go, "only audit snapshots take a
\* short read lock"); and each carries the ledger's currency (README
\* guarantee 7).
SnapshotIsLatest ==
  \A t \in Threads : pc[t] = "copy" /\ Len(out[t]) = scan[t].count =>
    /\ out[t] = SubSeq(trail, Len(trail) - Retained + 1, Len(trail))
    /\ \A i \in DOMAIN out[t] : out[t][i].currency = Own

\* Every Record and every Entries call returns, writers among readers too.
CallsReturn == \A t \in Threads : pc[t] # "idle" ~> pc[t] = "idle"
=============================================================================
