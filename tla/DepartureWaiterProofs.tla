----------------------- MODULE DepartureWaiterProofs -----------------------
(***************************************************************************)
(* Machine-checked proofs about DepartureWaiter, for any number of         *)
(* registering actors and any number of reuses of the slot: no departure   *)
(* is lost, a waiter is completed once, and its time is set before its     *)
(* token is sent.                                                          *)
(***************************************************************************)
EXTENDS DepartureWaiter, TLAPS

(* The inductive invariant. *)

\* The waiter of w has been in the table.
Installed(w) ==
    \/ pc[w] \in {"confirm", "setbit", "withdraw", "selfstamp"}
    \/ pc[w] = "returned" /\ result[w] = w

\* The queue owns the slot exactly while a generation is pending.
PendingWhileQueued == word.pending <=> holder = "queued"

\* Calls for one generation follow one another.
CallsInOrder ==
    /\ \A r \in Registrars : gen[r] = 0 <=> pc[r] = "idle"
    /\ \A r, o \in Registrars :
        (r # o /\ gen[r] # 0 /\ gen[r] = gen[o]) => (pc[r] = "returned" \/ pc[o] = "returned")

\* A shared waiter belongs to a finished call for the same generation.
SharedResults ==
    \A r, w \in Registrars : result[r] = w =>
        /\ pc[r] = "returned" /\ pc[w] = "returned"
        /\ result[w] = w /\ gen[w] = gen[r]

\* What a registrar is about to swap against was pending with its generation.
SeenPending ==
    \A r \in Registrars : pc[r] = "setbit" => (seen[r].generation = gen[r] /\ seen[r].pending)

\* Only installed waiters are in the table, taken or stamped.
OnlyInstalled ==
    \A w \in Registrars : (table = w \/ Taken(w) \/ departed[w]) => Installed(w)

\* An installed waiter stays in the table until someone takes it, and is
\* stamped by whoever did.
NotForgotten == \A w \in Registrars : Installed(w) => (table = w \/ Taken(w) \/ departed[w])

\* A returned waiter in the table is covered by the waiter bit of its pending
\* generation, or the dequeuing goroutine has read that bit.
Covered ==
    \A w \in Registrars : (table = w /\ pc[w] = "returned") =>
        \/ PendingIn(gen[w]) /\ word.waiter
        \/ holder \in {"look", "swap"}

\* The table and the goroutines that took a waiter exclude one another.
OneCompleter ==
    \A w \in Registrars :
        /\ table = w => (~departed[w] /\ ~Taken(w))
        /\ Taken(w) => ~departed[w]
        /\ (leaving = w /\ holder = "stamp") =>
            /\ pc[w] # "selfstamp"
            /\ \A o \in Registrars : ~(pc[o] = "evictstamp" /\ existing[o] = w)
        /\ \A o \in Registrars : (pc[o] = "evictstamp" /\ existing[o] = w) =>
            /\ pc[w] # "selfstamp"
            /\ \A p \in Registrars : (pc[p] = "evictstamp" /\ existing[p] = w) => p = o

\* The token follows the stamp.
TokenAfterStamp ==
    /\ StampBeforeToken
    /\ holder = "notify" => departed[leaving]
    /\ \A o \in Registrars : pc[o] = "evictnotify" => departed[existing[o]]

IndInv ==
    /\ TypeOK /\ PendingWhileQueued /\ CallsInOrder /\ SharedResults /\ SeenPending
    /\ OnlyInstalled /\ NotForgotten /\ Covered /\ OneCompleter /\ TokenAfterStamp
-----------------------------------------------------------------------------
(* Proofs. *)

\* A running call that moves to another label keeps calls in order.
LEMMA MoveKeepsOrder ==
    ASSUME TypeOK, CallsInOrder, NEW r \in Registrars, NEW label,
           pc[r] \notin {"idle", "returned"}, label # "idle",
           pc' = [pc EXCEPT ![r] = label], gen' = gen
    PROVE  CallsInOrder'
  <1>1. \A o \in Registrars : gen'[o] = 0 <=> pc'[o] = "idle"
    BY DEF TypeOK, CallsInOrder
  <1>2. ASSUME NEW a \in Registrars, NEW b \in Registrars, a # b, gen[a] # 0, gen[a] = gen[b]
        PROVE  pc'[a] = "returned" \/ pc'[b] = "returned"
    BY <1>2 DEF TypeOK, CallsInOrder
  <1> QED
    BY <1>1, <1>2 DEF CallsInOrder

\* Publish (publishReserved) preserves the inductive invariant.
LEMMA PublishPreserves ==
    ASSUME IndInv, Publish
    PROVE  IndInv'
  <1> USE NoWaiterFresh DEF IndInv, TypeOK, Word, Labels, Waiters, Publish, slotVars,
     callVars
  <1>1. TypeOK'
    OBVIOUS
  <1>2. PendingWhileQueued'
    BY DEF PendingWhileQueued
  <1>3. CallsInOrder'
    BY DEF CallsInOrder
  <1>4. SharedResults'
    BY DEF SharedResults
  <1>5. SeenPending'
    BY DEF SeenPending
  <1>6. OnlyInstalled'
    BY DEF OnlyInstalled, Installed, Taken, SharedResults
  <1>7. NotForgotten'
    BY DEF NotForgotten, Installed, Taken, SharedResults
  <1>8. Covered'
    BY DEF Covered, PendingIn, PendingWhileQueued
  <1>9. OneCompleter'
    BY DEF OneCompleter, Taken, OnlyInstalled, Installed
  <1>10. TokenAfterStamp'
    BY DEF TokenAfterStamp, StampBeforeToken
  <1> QED
    BY <1>1, <1>2, <1>3, <1>4, <1>5, <1>6, <1>7, <1>8, <1>9, <1>10

\* Depart (depart) preserves the inductive invariant.
LEMMA DepartPreserves ==
    ASSUME IndInv, Depart
    PROVE  IndInv'
  <1> USE NoWaiterFresh DEF IndInv, TypeOK, Word, Labels, Waiters, Depart, slotVars, callVars
  <1>1. TypeOK'
    OBVIOUS
  <1>2. PendingWhileQueued'
    BY DEF PendingWhileQueued
  <1>3. CallsInOrder'
    BY DEF CallsInOrder
  <1>4. SharedResults'
    BY DEF SharedResults
  <1>5. SeenPending'
    BY DEF SeenPending
  <1>6. OnlyInstalled'
    BY DEF OnlyInstalled, Installed, Taken, SharedResults
  <1>7. NotForgotten'
    BY DEF NotForgotten, Installed, Taken, SharedResults
  <1>8. Covered'
    BY DEF Covered, PendingIn, PendingWhileQueued
  <1>9. OneCompleter'
    BY DEF OneCompleter, Taken, OnlyInstalled, Installed
  <1>10. TokenAfterStamp'
    BY DEF TokenAfterStamp, StampBeforeToken
  <1> QED
    BY <1>1, <1>2, <1>3, <1>4, <1>5, <1>6, <1>7, <1>8, <1>9, <1>10

\* LookUp (releaseDepartureWaiter's load) preserves the inductive invariant.
LEMMA LookUpPreserves ==
    ASSUME IndInv, LookUp
    PROVE  IndInv'
  <1> USE NoWaiterFresh DEF IndInv, TypeOK, Word, Labels, Waiters, LookUp, slotVars, callVars
  <1>1. TypeOK'
    OBVIOUS
  <1>2. PendingWhileQueued'
    BY DEF PendingWhileQueued
  <1>3. CallsInOrder'
    BY DEF CallsInOrder
  <1>4. SharedResults'
    BY DEF SharedResults
  <1>5. SeenPending'
    BY DEF SeenPending
  <1>6. OnlyInstalled'
    BY DEF OnlyInstalled, Installed, Taken, SharedResults
  <1>7. NotForgotten'
    BY DEF NotForgotten, Installed, Taken, SharedResults
  <1>8. Covered'
    BY DEF Covered, PendingIn, PendingWhileQueued
  <1>9. OneCompleter'
    BY DEF OneCompleter, Taken, OnlyInstalled, Installed
  <1>10. TokenAfterStamp'
    BY DEF TokenAfterStamp, StampBeforeToken
  <1> QED
    BY <1>1, <1>2, <1>3, <1>4, <1>5, <1>6, <1>7, <1>8, <1>9, <1>10

\* SwapOut (releaseDepartureWaiter's swap) preserves the inductive invariant.
LEMMA SwapOutPreserves ==
    ASSUME IndInv, SwapOut
    PROVE  IndInv'
  <1> USE NoWaiterFresh DEF IndInv, TypeOK, Word, Labels, Waiters, SwapOut, slotVars,
     callVars
  <1>1. TypeOK'
    OBVIOUS
  <1>2. PendingWhileQueued'
    BY DEF PendingWhileQueued
  <1>3. CallsInOrder'
    BY DEF CallsInOrder
  <1>4. SharedResults'
    BY DEF SharedResults
  <1>5. SeenPending'
    BY DEF SeenPending
  <1>6. OnlyInstalled'
    BY DEF OnlyInstalled, Installed, Taken, SharedResults
  <1>7. NotForgotten'
    BY DEF NotForgotten, Installed, Taken, SharedResults
  <1>8. Covered'
    BY DEF Covered, PendingIn, PendingWhileQueued
  <1>9. OneCompleter'
    BY DEF OneCompleter, Taken, OnlyInstalled, Installed
  <1>10. TokenAfterStamp'
    BY DEF TokenAfterStamp, StampBeforeToken
  <1> QED
    BY <1>1, <1>2, <1>3, <1>4, <1>5, <1>6, <1>7, <1>8, <1>9, <1>10

\* Stamp (completeDepartureWaiter's store) preserves the inductive invariant.
LEMMA StampPreserves ==
    ASSUME IndInv, Stamp
    PROVE  IndInv'
  <1> USE NoWaiterFresh DEF IndInv, TypeOK, Word, Labels, Waiters, Stamp, slotVars, callVars
  <1>1. TypeOK'
    OBVIOUS
  <1>2. PendingWhileQueued'
    BY DEF PendingWhileQueued
  <1>3. CallsInOrder'
    BY DEF CallsInOrder
  <1>4. SharedResults'
    BY DEF SharedResults
  <1>5. SeenPending'
    BY DEF SeenPending
  <1>6. OnlyInstalled'
    BY DEF OnlyInstalled, Installed, Taken, SharedResults
  <1>7. NotForgotten'
    BY DEF NotForgotten, Installed, Taken, SharedResults
  <1>8. Covered'
    BY DEF Covered, PendingIn, PendingWhileQueued
  <1>9. OneCompleter'
    BY DEF OneCompleter, Taken, OnlyInstalled, Installed
  <1>10. TokenAfterStamp'
    BY DEF TokenAfterStamp, StampBeforeToken
  <1> QED
    BY <1>1, <1>2, <1>3, <1>4, <1>5, <1>6, <1>7, <1>8, <1>9, <1>10

\* Notify (completeDepartureWaiter's token) preserves the inductive invariant.
LEMMA NotifyPreserves ==
    ASSUME IndInv, Notify
    PROVE  IndInv'
  <1> USE NoWaiterFresh DEF IndInv, TypeOK, Word, Labels, Waiters, Notify, slotVars, callVars
  <1>1. TypeOK'
    OBVIOUS
  <1>2. PendingWhileQueued'
    BY DEF PendingWhileQueued
  <1>3. CallsInOrder'
    BY DEF CallsInOrder
  <1>4. SharedResults'
    BY DEF SharedResults
  <1>5. SeenPending'
    BY DEF SeenPending
  <1>6. OnlyInstalled'
    BY DEF OnlyInstalled, Installed, Taken, SharedResults
  <1>7. NotForgotten'
    BY DEF NotForgotten, Installed, Taken, SharedResults
  <1>8. Covered'
    BY DEF Covered, PendingIn, PendingWhileQueued
  <1>9. OneCompleter'
    BY DEF OneCompleter, Taken, OnlyInstalled, Installed
  <1>10. TokenAfterStamp'
    BY DEF TokenAfterStamp, StampBeforeToken
  <1> QED
    BY <1>1, <1>2, <1>3, <1>4, <1>5, <1>6, <1>7, <1>8, <1>9, <1>10

\* Call (the start of departureWaiter) preserves the inductive invariant.
LEMMA CallPreserves ==
    ASSUME IndInv, NEW r \in Registrars, NEW g \in Nat, Call(r, g)
    PROVE  IndInv'
  <1> USE NoWaiterFresh DEF IndInv, TypeOK, Word, Labels, Waiters, Call, slotVars, callVars,
     Goto, Return
  <1>1. TypeOK'
    OBVIOUS
  <1>2. PendingWhileQueued'
    BY DEF PendingWhileQueued
  <1>3. CallsInOrder'
    BY DEF CallsInOrder
  <1>4. SharedResults'
    BY DEF SharedResults, CallsInOrder
  <1>5. SeenPending'
    BY DEF SeenPending
  <1>6. OnlyInstalled'
    BY DEF OnlyInstalled, Installed, Taken, SharedResults
  <1>7. NotForgotten'
    BY DEF NotForgotten, Installed, Taken, SharedResults
  <1>8. Covered'
    BY DEF Covered, PendingIn, PendingWhileQueued, OnlyInstalled, Installed, Taken,
       CallsInOrder
  <1>9. OneCompleter'
    BY DEF OneCompleter, Taken, OnlyInstalled, Installed
  <1>10. TokenAfterStamp'
    BY DEF TokenAfterStamp, StampBeforeToken
  <1> QED
    BY <1>1, <1>2, <1>3, <1>4, <1>5, <1>6, <1>7, <1>8, <1>9, <1>10

\* Check (the pending tests) preserves the inductive invariant.
LEMMA CheckPreserves ==
    ASSUME IndInv, NEW r \in Registrars, Check(r)
    PROVE  IndInv'
  <1> USE NoWaiterFresh DEF IndInv, TypeOK, Word, Labels, Waiters, Check, slotVars, callVars,
     Goto, Return
  <1>1. TypeOK'
    BY DEF PendingIn
  <1>2. PendingWhileQueued'
    BY DEF PendingWhileQueued, PendingIn
  <1>3. CallsInOrder'
    <2>1. CASE PendingIn(gen[r])
      <3>1. pc' = [pc EXCEPT ![r] = IF pc[r] = "check" THEN "load" ELSE "existing"]
        BY <2>1
      <3> QED
        BY <3>1, MoveKeepsOrder
    <2>2. CASE ~PendingIn(gen[r])
      <3>1. pc' = [pc EXCEPT ![r] = "returned"]
        BY <2>2
      <3> QED
        BY <3>1, MoveKeepsOrder
    <2> QED
      BY <2>1, <2>2
  <1>4. SharedResults'
    BY DEF SharedResults, PendingIn
  <1>5. SeenPending'
    BY DEF SeenPending, PendingIn
  <1>6. OnlyInstalled'
    BY DEF OnlyInstalled, Installed, Taken, SharedResults, PendingIn
  <1>7. NotForgotten'
    BY DEF NotForgotten, Installed, Taken, SharedResults, PendingIn
  <1>8. Covered'
    BY DEF Covered, PendingIn, PendingWhileQueued, OnlyInstalled, Installed, Taken
  <1>9. OneCompleter'
    BY DEF OneCompleter, Taken, OnlyInstalled, Installed, PendingIn
  <1>10. TokenAfterStamp'
    BY DEF TokenAfterStamp, StampBeforeToken, PendingIn
  <1> QED
    BY <1>1, <1>2, <1>3, <1>4, <1>5, <1>6, <1>7, <1>8, <1>9, <1>10

\* LoadExisting (the load of the table entry) preserves the inductive invariant.
LEMMA LoadExistingPreserves ==
    ASSUME IndInv, NEW r \in Registrars, LoadExisting(r)
    PROVE  IndInv'
  <1> USE NoWaiterFresh DEF IndInv, TypeOK, Word, Labels, Waiters, LoadExisting, slotVars,
     callVars, Goto, Return
  <1>1. TypeOK'
    <2>1. CASE table = NoWaiter
      BY <2>1
    <2>2. CASE table # NoWaiter /\ gen[table] = gen[r]
      BY <2>2
    <2>3. CASE table # NoWaiter /\ gen[table] # gen[r]
      BY <2>3
    <2> QED
      BY <2>1, <2>2, <2>3
  <1>2. PendingWhileQueued'
    BY DEF PendingWhileQueued
  <1>3. CallsInOrder'
    BY DEF CallsInOrder
  <1>4. SharedResults'
    <2>1. CASE table = NoWaiter
      BY <2>1 DEF SharedResults, CallsInOrder, OnlyInstalled, Installed, Taken
    <2>2. CASE table # NoWaiter /\ gen[table] = gen[r]
      BY <2>2 DEF SharedResults, CallsInOrder, OnlyInstalled, Installed, Taken
    <2>3. CASE table # NoWaiter /\ gen[table] # gen[r]
      BY <2>3 DEF SharedResults, CallsInOrder, OnlyInstalled, Installed, Taken
    <2> QED
      BY <2>1, <2>2, <2>3
  <1>5. SeenPending'
    BY DEF SeenPending
  <1>6. OnlyInstalled'
    BY DEF OnlyInstalled, Installed, Taken, SharedResults, CallsInOrder
  <1>7. NotForgotten'
    <2>1. CASE table = NoWaiter
      BY <2>1 DEF NotForgotten, Installed, Taken, SharedResults, CallsInOrder, OnlyInstalled
    <2>2. CASE table # NoWaiter /\ gen[table] = gen[r]
      <3>1. table # r
        BY <2>2 DEF OnlyInstalled, Installed
      <3>2. \A w \in Registrars : Installed(w)' => Installed(w)
        BY <2>2, <3>1 DEF Installed
      <3>3. \A w \in Registrars : Taken(w) => Taken(w)'
        BY <2>2 DEF Taken
      <3> QED
        BY <3>2, <3>3 DEF NotForgotten
    <2>3. CASE table # NoWaiter /\ gen[table] # gen[r]
      BY <2>3 DEF NotForgotten, Installed, Taken, SharedResults, CallsInOrder, OnlyInstalled
    <2> QED
      BY <2>1, <2>2, <2>3
  <1>8. Covered'
    BY DEF Covered, PendingIn, PendingWhileQueued, OnlyInstalled, Installed, Taken
  <1>9. OneCompleter'
    BY DEF OneCompleter, Taken, OnlyInstalled, Installed
  <1>10. TokenAfterStamp'
    BY DEF TokenAfterStamp, StampBeforeToken
  <1> QED
    BY <1>1, <1>2, <1>3, <1>4, <1>5, <1>6, <1>7, <1>8, <1>9, <1>10

\* Evict (the removal of another waiter) preserves the inductive invariant.
LEMMA EvictPreserves ==
    ASSUME IndInv, NEW r \in Registrars, Evict(r)
    PROVE  IndInv'
  <1> USE NoWaiterFresh DEF IndInv, TypeOK, Word, Labels, Waiters, Evict, slotVars, callVars,
     Goto, Return
  <1>1. TypeOK'
    OBVIOUS
  <1>2. PendingWhileQueued'
    BY DEF PendingWhileQueued
  <1>3. CallsInOrder'
    <2>1. CASE table = existing[r]
      <3>1. pc' = [pc EXCEPT ![r] = "evictstamp"]
        BY <2>1
      <3> QED
        BY <3>1, MoveKeepsOrder
    <2>2. CASE table # existing[r]
      <3>1. pc' = [pc EXCEPT ![r] = "load"]
        BY <2>2
      <3> QED
        BY <3>1, MoveKeepsOrder
    <2> QED
      BY <2>1, <2>2
  <1>4. SharedResults'
    BY DEF SharedResults
  <1>5. SeenPending'
    BY DEF SeenPending
  <1>6. OnlyInstalled'
    BY DEF OnlyInstalled, Installed, Taken, SharedResults
  <1>7. NotForgotten'
    BY DEF NotForgotten, Installed, Taken, SharedResults
  <1>8. Covered'
    BY DEF Covered, PendingIn, PendingWhileQueued
  <1>9. OneCompleter'
    BY DEF OneCompleter, Taken, OnlyInstalled, Installed
  <1>10. TokenAfterStamp'
    BY DEF TokenAfterStamp, StampBeforeToken
  <1> QED
    BY <1>1, <1>2, <1>3, <1>4, <1>5, <1>6, <1>7, <1>8, <1>9, <1>10

\* EvictStamp (the stamp of a removed waiter) preserves the inductive invariant.
LEMMA EvictStampPreserves ==
    ASSUME IndInv, NEW r \in Registrars, EvictStamp(r)
    PROVE  IndInv'
  <1> USE NoWaiterFresh DEF IndInv, TypeOK, Word, Labels, Waiters, EvictStamp, slotVars,
     callVars, Goto, Return
  <1>1. TypeOK'
    OBVIOUS
  <1>2. PendingWhileQueued'
    BY DEF PendingWhileQueued
  <1>3. CallsInOrder'
    BY DEF CallsInOrder
  <1>4. SharedResults'
    BY DEF SharedResults
  <1>5. SeenPending'
    BY DEF SeenPending
  <1>6. OnlyInstalled'
    BY DEF OnlyInstalled, Installed, Taken, SharedResults
  <1>7. NotForgotten'
    BY DEF NotForgotten, Installed, Taken, SharedResults
  <1>8. Covered'
    BY DEF Covered, PendingIn, PendingWhileQueued
  <1>9. OneCompleter'
    BY DEF OneCompleter, Taken, OnlyInstalled, Installed
  <1>10. TokenAfterStamp'
    BY DEF TokenAfterStamp, StampBeforeToken
  <1> QED
    BY <1>1, <1>2, <1>3, <1>4, <1>5, <1>6, <1>7, <1>8, <1>9, <1>10

\* EvictNotify (the token of a removed waiter) preserves the inductive invariant.
LEMMA EvictNotifyPreserves ==
    ASSUME IndInv, NEW r \in Registrars, EvictNotify(r)
    PROVE  IndInv'
  <1> USE NoWaiterFresh DEF IndInv, TypeOK, Word, Labels, Waiters, EvictNotify, slotVars,
     callVars, Goto, Return
  <1>1. TypeOK'
    OBVIOUS
  <1>2. PendingWhileQueued'
    BY DEF PendingWhileQueued
  <1>3. CallsInOrder'
    BY DEF CallsInOrder
  <1>4. SharedResults'
    BY DEF SharedResults
  <1>5. SeenPending'
    BY DEF SeenPending
  <1>6. OnlyInstalled'
    BY DEF OnlyInstalled, Installed, Taken, SharedResults
  <1>7. NotForgotten'
    BY DEF NotForgotten, Installed, Taken, SharedResults
  <1>8. Covered'
    BY DEF Covered, PendingIn, PendingWhileQueued
  <1>9. OneCompleter'
    BY DEF OneCompleter, Taken, OnlyInstalled, Installed
  <1>10. TokenAfterStamp'
    BY DEF TokenAfterStamp, StampBeforeToken
  <1> QED
    BY <1>1, <1>2, <1>3, <1>4, <1>5, <1>6, <1>7, <1>8, <1>9, <1>10

\* Install (the installation) preserves the inductive invariant.
LEMMA InstallPreserves ==
    ASSUME IndInv, NEW r \in Registrars, Install(r)
    PROVE  IndInv'
  <1> USE NoWaiterFresh DEF IndInv, TypeOK, Word, Labels, Waiters, Install, slotVars,
     callVars, Goto, Return
  <1>1. TypeOK'
    OBVIOUS
  <1>2. PendingWhileQueued'
    BY DEF PendingWhileQueued
  <1>3. CallsInOrder'
    <2>1. CASE table = NoWaiter
      <3>1. pc' = [pc EXCEPT ![r] = "confirm"]
        BY <2>1
      <3> QED
        BY <3>1, MoveKeepsOrder
    <2>2. CASE table # NoWaiter
      <3>1. pc' = [pc EXCEPT ![r] = "load"]
        BY <2>2
      <3> QED
        BY <3>1, MoveKeepsOrder
    <2> QED
      BY <2>1, <2>2
  <1>4. SharedResults'
    BY DEF SharedResults
  <1>5. SeenPending'
    BY DEF SeenPending
  <1>6. OnlyInstalled'
    BY DEF OnlyInstalled, Installed, Taken, SharedResults
  <1>7. NotForgotten'
    BY DEF NotForgotten, Installed, Taken, SharedResults
  <1>8. Covered'
    BY DEF Covered, PendingIn, PendingWhileQueued
  <1>9. OneCompleter'
    BY DEF OneCompleter, Taken, OnlyInstalled, Installed
  <1>10. TokenAfterStamp'
    BY DEF TokenAfterStamp, StampBeforeToken
  <1> QED
    BY <1>1, <1>2, <1>3, <1>4, <1>5, <1>6, <1>7, <1>8, <1>9, <1>10

\* Confirm (the final pending check) preserves the inductive invariant.
LEMMA ConfirmPreserves ==
    ASSUME IndInv, NEW r \in Registrars, Confirm(r)
    PROVE  IndInv'
  <1> USE NoWaiterFresh DEF IndInv, TypeOK, Word, Labels, Waiters, Confirm, slotVars,
     callVars, Goto, Return
  <1>1. TypeOK'
    BY DEF PendingIn
  <1>2. PendingWhileQueued'
    BY DEF PendingWhileQueued, PendingIn
  <1>3. CallsInOrder'
    BY DEF CallsInOrder, PendingIn
  <1>4. SharedResults'
    BY DEF SharedResults, PendingIn
  <1>5. SeenPending'
    BY DEF SeenPending, PendingIn
  <1>6. OnlyInstalled'
    BY DEF OnlyInstalled, Installed, Taken, SharedResults, PendingIn
  <1>7. NotForgotten'
    BY DEF NotForgotten, Installed, Taken, SharedResults, PendingIn
  <1>8. Covered'
    BY DEF Covered, PendingIn, PendingWhileQueued
  <1>9. OneCompleter'
    BY DEF OneCompleter, Taken, OnlyInstalled, Installed, PendingIn
  <1>10. TokenAfterStamp'
    BY DEF TokenAfterStamp, StampBeforeToken, PendingIn
  <1> QED
    BY <1>1, <1>2, <1>3, <1>4, <1>5, <1>6, <1>7, <1>8, <1>9, <1>10

\* SetBit (the waiter bit's compare-and-swap) preserves the inductive invariant.
LEMMA SetBitPreserves ==
    ASSUME IndInv, NEW r \in Registrars, SetBit(r)
    PROVE  IndInv'
  <1> USE NoWaiterFresh DEF IndInv, TypeOK, Word, Labels, Waiters, SetBit, slotVars,
     callVars, Goto, Return
  <1>1. TypeOK'
    <2>1. CASE word = seen[r]
      <3>1. word' \in Word
        BY <2>1
      <3>2. pc' = [pc EXCEPT ![r] = "returned"] /\ result' = [result EXCEPT ![r] = r]
        BY <2>1
      <3>3. pc' \in [Registrars -> Labels]
        BY <3>2
      <3>4. result' \in [Registrars -> Waiters]
        BY <3>2
      <3> QED
        BY <3>1, <3>2, <3>3, <3>4
    <2>2. CASE word # seen[r]
      BY <2>2
    <2> QED
      BY <2>1, <2>2
  <1>2. PendingWhileQueued'
    BY DEF PendingWhileQueued
  <1>3. CallsInOrder'
    BY DEF CallsInOrder
  <1>4. SharedResults'
    BY DEF SharedResults
  <1>5. SeenPending'
    BY DEF SeenPending
  <1>6. OnlyInstalled'
    BY DEF OnlyInstalled, Installed, Taken, SharedResults
  <1>7. NotForgotten'
    BY DEF NotForgotten, Installed, Taken, SharedResults
  <1>8. Covered'
    BY DEF Covered, PendingIn, PendingWhileQueued, SeenPending
  <1>9. OneCompleter'
    BY DEF OneCompleter, Taken, OnlyInstalled, Installed
  <1>10. TokenAfterStamp'
    BY DEF TokenAfterStamp, StampBeforeToken
  <1> QED
    BY <1>1, <1>2, <1>3, <1>4, <1>5, <1>6, <1>7, <1>8, <1>9, <1>10

\* Withdraw (the withdrawal) preserves the inductive invariant.
LEMMA WithdrawPreserves ==
    ASSUME IndInv, NEW r \in Registrars, Withdraw(r)
    PROVE  IndInv'
  <1> USE NoWaiterFresh DEF IndInv, TypeOK, Word, Labels, Waiters, Withdraw, slotVars,
     callVars, Goto, Return
  <1>1. TypeOK'
    <2>1. CASE table = r
      BY <2>1
    <2>2. CASE table # r
      BY <2>2
    <2> QED
      BY <2>1, <2>2
  <1>2. PendingWhileQueued'
    BY DEF PendingWhileQueued
  <1>3. CallsInOrder'
    <2>1. CASE table = r
      <3>1. pc' = [pc EXCEPT ![r] = "selfstamp"]
        BY <2>1
      <3> QED
        BY <3>1, MoveKeepsOrder
    <2>2. CASE table # r
      <3>1. pc' = [pc EXCEPT ![r] = "returned"]
        BY <2>2
      <3> QED
        BY <3>1, MoveKeepsOrder
    <2> QED
      BY <2>1, <2>2
  <1>4. SharedResults'
    BY DEF SharedResults
  <1>5. SeenPending'
    BY DEF SeenPending
  <1>6. OnlyInstalled'
    BY DEF OnlyInstalled, Installed, Taken, SharedResults
  <1>7. NotForgotten'
    BY DEF NotForgotten, Installed, Taken, SharedResults
  <1>8. Covered'
    BY DEF Covered, PendingIn, PendingWhileQueued
  <1>9. OneCompleter'
    BY DEF OneCompleter, Taken, OnlyInstalled, Installed
  <1>10. TokenAfterStamp'
    BY DEF TokenAfterStamp, StampBeforeToken
  <1> QED
    BY <1>1, <1>2, <1>3, <1>4, <1>5, <1>6, <1>7, <1>8, <1>9, <1>10

\* SelfStamp (the stamp of a withdrawn waiter) preserves the inductive invariant.
LEMMA SelfStampPreserves ==
    ASSUME IndInv, NEW r \in Registrars, SelfStamp(r)
    PROVE  IndInv'
  <1> USE NoWaiterFresh DEF IndInv, TypeOK, Word, Labels, Waiters, SelfStamp, slotVars,
     callVars, Goto, Return
  <1>1. TypeOK'
    OBVIOUS
  <1>2. PendingWhileQueued'
    BY DEF PendingWhileQueued
  <1>3. CallsInOrder'
    BY DEF CallsInOrder
  <1>4. SharedResults'
    BY DEF SharedResults
  <1>5. SeenPending'
    BY DEF SeenPending
  <1>6. OnlyInstalled'
    BY DEF OnlyInstalled, Installed, Taken, SharedResults
  <1>7. NotForgotten'
    BY DEF NotForgotten, Installed, Taken, SharedResults
  <1>8. Covered'
    BY DEF Covered, PendingIn, PendingWhileQueued, OneCompleter, Taken
  <1>9. OneCompleter'
    BY DEF OneCompleter, Taken, OnlyInstalled, Installed
  <1>10. TokenAfterStamp'
    BY DEF TokenAfterStamp, StampBeforeToken
  <1> QED
    BY <1>1, <1>2, <1>3, <1>4, <1>5, <1>6, <1>7, <1>8, <1>9, <1>10

\* The inductive invariant holds in every reachable state.
THEOREM WaiterInvariant == Spec => []IndInv
  <1>1. Init => IndInv
    <2> SUFFICES ASSUME Init PROVE IndInv
      OBVIOUS
    <2>1. TypeOK
      BY DEF Init, TypeOK, Word, Labels, Waiters
    <2> QED
      BY <2>1, NoWaiterFresh DEF Init, IndInv, PendingWhileQueued, CallsInOrder, SharedResults,
         SeenPending, OnlyInstalled, NotForgotten, Covered, OneCompleter, TokenAfterStamp,
         StampBeforeToken, Installed, Taken
  <1>2. IndInv /\ [Next]_vars => IndInv'
    <2> SUFFICES ASSUME IndInv, [Next]_vars PROVE IndInv'
      OBVIOUS
    <2>1. CASE Owner
      BY <2>1, PublishPreserves, DepartPreserves, LookUpPreserves, SwapOutPreserves,
         StampPreserves, NotifyPreserves DEF Owner
    <2>2. ASSUME NEW r \in Registrars, Step(r) PROVE IndInv'
      BY <2>2, CheckPreserves, LoadExistingPreserves, EvictPreserves, EvictStampPreserves,
         EvictNotifyPreserves, InstallPreserves, ConfirmPreserves, SetBitPreserves,
         WithdrawPreserves, SelfStampPreserves DEF Step
    <2>3. ASSUME NEW r \in Registrars, NEW g \in 1 .. MaxGeneration, Call(r, g) PROVE IndInv'
      BY <2>3, CallPreserves, GenerationBound
    <2>4. CASE UNCHANGED vars
      BY <2>4 DEF vars, slotVars, callVars, IndInv, TypeOK, PendingWhileQueued, CallsInOrder,
         SharedResults, SeenPending, OnlyInstalled, NotForgotten, Covered, OneCompleter,
         TokenAfterStamp, StampBeforeToken, Installed, Taken, PendingIn
    <2> QED
      BY <2>1, <2>2, <2>3, <2>4 DEF Next
  <1> QED
    BY <1>1, <1>2, PTL DEF Spec

\* The protocol's words, table entries and positions keep their types.
THEOREM TypeCorrect == Spec => []TypeOK
  BY WaiterInvariant, PTL DEF IndInv

\* However a dequeue races registration, a returned waiter records the
\* departure of its packet or is about to (departureWaiter, depart,
\* releaseDepartureWaiter).
THEOREM DeparturesAreNotLost == Spec => []NoLostDeparture
  <1>1. IndInv => NoLostDeparture
    BY DEF IndInv, TypeOK, Waiters, SharedResults, NotForgotten, Installed, Covered, NoLostDeparture,
       BeingCompleted
  <1> QED
    BY <1>1, WaiterInvariant, PTL

\* A waiter is taken from the table by one goroutine and stamped by it alone.
THEOREM WaitersCompleteOnce == Spec => []CompletedOnce
  <1>1. IndInv => CompletedOnce
    BY DEF IndInv, OneCompleter, CompletedOnce
  <1> QED
    BY <1>1, WaiterInvariant, PTL

\* A token implies a recorded departure time (completeDepartureWaiter).
THEOREM StampsPrecedeTokens == Spec => []StampBeforeToken
  BY WaiterInvariant, PTL DEF IndInv, TokenAfterStamp

\* A departure is recorded, once, and before its token, however registrations
\* and the dequeue interleave (departureWaiter, completeDepartureWaiter).
THEOREM DeparturesAreSound == Spec => []DeparturesSound
  BY DeparturesAreNotLost, WaitersCompleteOnce, StampsPrecedeTokens, PTL DEF DeparturesSound
=============================================================================
