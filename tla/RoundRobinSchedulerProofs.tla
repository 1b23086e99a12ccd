--------------------- MODULE RoundRobinSchedulerProofs ---------------------
(***************************************************************************)
(* Proofs of the safety invariants of RoundRobinScheduler, for every set   *)
(* of connections, every number of buffers and every bound.                *)
(*                                                                         *)
(* The heart is the accounting of credits: while fragments wait they are   *)
(* all of one connection, so number_of_sent_packets_ of a connection is    *)
(* the number of its fragments in the controller plus, for that one        *)
(* connection, the number of fragments waiting.                            *)
(***************************************************************************)
EXTENDS RoundRobinScheduler, FiniteSetTheorems, SequenceTheorems,
        WellFoundedInduction, TLAPS

\* No connection is ready twice.
Distinct(r) == \A i, j \in DOMAIN r : i # j => r[i] # r[j]

\* All items of q are of connection g.
AllOf(q, g) == \A p \in {0, 1} : \A i \in DOMAIN q[p] : q[p][i] = g

\* The callbacks of the scheduler that are registered or ready, dq, r and e, and
\* its starting point sp fit the connections hs, fragments q, credits c and
\* queues w.
Callbacks(dq, r, sp, e, hs, q, c, w) ==
  /\ dq \subseteq hs
  /\ \A h \in dq : c[ConnectionType[h]] # 0
  /\ r \in Seq(dq)
  /\ Distinct(r)
  /\ \A i \in DOMAIN r : w[r[i]] > 0
  /\ sp \in hs \cup {END}
  /\ e \in BOOLEAN
  /\ e => CanSend(q, c)
  /\ dq # {} => Empty(q)

\* A connection is charged for its packets outstanding and its fragments waiting.
Charged(n, o, q) ==
  \A h \in Handles :
    n[h] = o[h] + (IF ~Empty(q) /\ h = Front(q) THEN Size(q) ELSE 0)

\* The buffers that the connections hs use if each has o[h] packets outstanding.
Buffers(o, hs) == UNION {{h} \X (1..o[h]) : h \in hs}

OfType(t) == {g \in Handles : ConnectionType[g] = t}

\* The credits c are the buffers that are free.
FreeBuffers(c, o) ==
  \A t \in Types : c[t] + Cardinality(Buffers(o, OfType(t))) = MaxCredits[t]

\* The accounting of credits, kept if the fragments of a connection that goes
\* down are dropped.
Accounting ==
  drop_acl_fragment_on_disconnect =>
    /\ Charged(number_of_sent_packets_, outstanding, fragments_to_send_)
    /\ ~Empty(fragments_to_send_) => Front(fragments_to_send_) \in acl_queue_handlers_
    /\ FreeBuffers(credits, outstanding)

\* A transport without buffers has no credits and no packets sent.
Unused(n, o, c) ==
  \A h \in Handles : MaxCredits[ConnectionType[h]] = 0 =>
    c[ConnectionType[h]] = 0 /\ n[h] = 0 /\ o[h] = 0

DataTypes ==
  /\ acl_queue_handlers_ \subseteq Handles
  /\ number_of_sent_packets_ \in [Handles -> Nat]
  /\ high_priority_ \subseteq acl_queue_handlers_
  /\ fragments_to_send_ \in [{0, 1} -> Seq(Handles)]
  /\ credits \in [Types -> Nat]
  /\ posted \in 0..MaxPosted
  /\ waiting \in [Handles -> 0..QueueDepth]
  /\ outstanding \in [Handles -> Nat]

\* The inductive invariant.
IInv ==
  /\ DataTypes
  /\ Callbacks(dequeue_is_registered_, ready, starting_point_, enqueue_registered_,
               acl_queue_handlers_, fragments_to_send_, credits, waiting)
  /\ AllOf(fragments_to_send_, Front(fragments_to_send_))
  /\ Unused(number_of_sent_packets_, outstanding, credits)
  /\ Accounting
-----------------------------------------------------------------------------
(***************************************************************************)
(* Iterators.                                                              *)
(***************************************************************************)

\* A set of handles that is not empty has a least one.
LEMMA LeastHandle ==
  ASSUME NEW S, S \subseteq Nat, S # {}
  PROVE  \E x \in S : \A y \in S : x <= y
  <1>1. IsWellFoundedOn(OpToRel(<, Nat), Nat)
    BY NatLessThanWellFounded
  <1>2. PICK x \in S : \A y \in S : ~(<<y, x>> \in OpToRel(<, Nat))
    BY <1>1, WFMin
  <1>3. ASSUME NEW y \in S PROVE x <= y
    <2>1. ~(y < x)
      BY <1>2 DEF OpToRel
    <2> QED BY <2>1
  <1> QED BY <1>3

\* begin() of the map is an entry of it or end().
LEMMA BeginType ==
  ASSUME NEW hs, hs \subseteq Handles
  PROVE  Begin(hs) \in hs \cup {END}
  <1>1. CASE hs = {}
    BY <1>1 DEF Begin
  <1>2. CASE hs # {}
    <2>1. \E x \in hs : \A y \in hs : x <= y
      BY <1>2, LeastHandle, ConstantsAssumption
    <2> QED BY <1>2, <2>1 DEF Begin
  <1> QED BY <1>1, <1>2

\* next() of the map is an entry of it or end().
LEMMA NextType ==
  ASSUME NEW hs, hs \subseteq Handles, NEW h
  PROVE  NextHandle(hs, h) \in hs \cup {END}
  <1> DEFINE later == {g \in hs : g > h}
  <1>1. Begin(later) \in later \cup {END}
    BY BeginType
  <1> QED BY <1>1 DEF NextHandle
-----------------------------------------------------------------------------
(***************************************************************************)
(* MultiPriorityQueue.                                                     *)
(***************************************************************************)

\* Removing a connection that no item is of changes nothing.
LEMMA FilterNone ==
  ASSUME NEW s \in Seq(Handles), NEW h, \A i \in DOMAIN s : s[i] # h
  PROVE  Filter(s, h) = s
  <1>1. Kept(s, h) = 1..Len(s) /\ Len(s) \in Nat
    BY DEF Kept
  <1>2. Cardinality(1..Len(s)) = Len(s)
    <2>1. 1 \in Int /\ Len(s) \in Int
      BY <1>1
    <2>2. Cardinality(1..Len(s)) = IF 1 > Len(s) THEN 0 ELSE Len(s) - 1 + 1
      BY <2>1, FS_Interval
    <2> QED BY <1>1, <2>2
  <1>3. ASSUME NEW n \in 1..Len(s)
        PROVE  NthKept(s, h, n) = n
    <2>1. ASSUME NEW i \in 1..Len(s)
          PROVE  Cardinality({j \in 1..Len(s) : j <= i}) = i
      <3>1. {j \in 1..Len(s) : j <= i} = 1..i
        BY <1>1
      <3>2. Cardinality(1..i) = i
        BY <1>1, FS_Interval
      <3> QED BY <3>1, <3>2
    <2> QED BY <1>1, <2>1 DEF NthKept
  <1>4. Filter(s, h) = [n \in 1..Len(s) |-> s[NthKept(s, h, n)]]
    BY <1>1, <1>2 DEF Filter
  <1>5. [n \in 1..Len(s) |-> s[NthKept(s, h, n)]] = [n \in 1..Len(s) |-> s[n]]
    BY <1>3
  <1>6. s = [n \in 1..Len(s) |-> s[n]]
    OBVIOUS
  <1> QED BY <1>4, <1>5, <1>6

\* Removing the only connection there is leaves nothing.
LEMMA FilterAll ==
  ASSUME NEW s \in Seq(Handles), NEW h, \A i \in DOMAIN s : s[i] = h
  PROVE  Filter(s, h) = <<>>
  <1>1. Kept(s, h) = {}
    BY DEF Kept
  <1>2. Cardinality({}) = 0
    BY FS_EmptySet
  <1>3. Filter(s, h) = [n \in 1..0 |-> s[NthKept(s, h, n)]]
    BY <1>1, <1>2 DEF Filter
  <1>4. 1..0 = {}
    OBVIOUS
  <1> QED BY <1>3, <1>4

\* The front item is an item, and pop() takes one item out.
LEMMA PopFront ==
  ASSUME NEW q \in [{0, 1} -> Seq(Handles)], ~Empty(q)
  PROVE  /\ Front(q) \in Handles
         /\ Pop(q) \in [{0, 1} -> Seq(Handles)]
         /\ Size(Pop(q)) = Size(q) - 1
         /\ \A g : AllOf(q, g) => AllOf(Pop(q), g) /\ Front(q) = g
  <1> DEFINE k == Top(q)
  <1>1. k \in {0, 1} /\ q[k] # <<>> /\ q[k] \in Seq(Handles)
    BY DEF Top, Empty
  <1>2. /\ Tail(q[k]) \in Seq(Handles) /\ Len(Tail(q[k])) = Len(q[k]) - 1
        /\ \A i \in DOMAIN Tail(q[k]) :
             Tail(q[k])[i] = q[k][i + 1] /\ i + 1 \in DOMAIN q[k]
        /\ 1 \in DOMAIN q[k] /\ Head(q[k]) = q[k][1] /\ q[k][1] \in Handles
    BY <1>1
  <1>3. Pop(q) = [q EXCEPT ![k] = Tail(q[k])] /\ Front(q) = q[k][1]
    BY <1>2 DEF Pop, Front
  <1> HIDE DEF k
  <1>4. Pop(q) \in [{0, 1} -> Seq(Handles)]
    BY <1>1, <1>2, <1>3
  <1>5. Size(Pop(q)) = Size(q) - 1
    <2>1. Len(q[0]) \in Nat /\ Len(q[1]) \in Nat
      OBVIOUS
    <2>2. CASE k = 0
      <3>1. Pop(q)[0] = Tail(q[0]) /\ Pop(q)[1] = q[1]
        BY <1>3, <2>2
      <3> QED BY <1>2, <2>1, <2>2, <3>1 DEF Size
    <2>3. CASE k = 1
      <3>1. Pop(q)[1] = Tail(q[1]) /\ Pop(q)[0] = q[0]
        BY <1>3, <2>3
      <3> QED BY <1>2, <2>1, <2>3, <3>1 DEF Size
    <2> QED BY <1>1, <2>2, <2>3
  <1>6. ASSUME NEW g, AllOf(q, g)
        PROVE  AllOf(Pop(q), g) /\ Front(q) = g
    <2>1. Front(q) = g
      BY <1>1, <1>2, <1>3, <1>6 DEF AllOf
    <2>2. ASSUME NEW p \in {0, 1}, NEW i \in DOMAIN Pop(q)[p]
          PROVE  Pop(q)[p][i] = g
      <3>1. CASE p = k
        BY <1>1, <1>2, <1>3, <1>6, <2>2, <3>1 DEF AllOf
      <3>2. CASE p # k
        BY <1>1, <1>3, <1>6, <2>2, <3>2 DEF AllOf
      <3> QED BY <3>1, <3>2
    <2> QED BY <2>1, <2>2 DEF AllOf
  <1> QED BY <1>2, <1>3, <1>4, <1>5, <1>6

\* A queue without items has size 0, and no other has.
LEMMA EmptySize ==
  ASSUME NEW q \in [{0, 1} -> Seq(Handles)]
  PROVE  Size(q) \in Nat /\ (Empty(q) <=> Size(q) = 0)
  <1>1. /\ Len(q[0]) \in Nat /\ Len(q[1]) \in Nat
        /\ (q[0] = <<>> <=> Len(q[0]) = 0) /\ (q[1] = <<>> <=> Len(q[1]) = 0)
    OBVIOUS
  <1> QED BY <1>1 DEF Size, Empty

\* A packet of connection h is pushed to an empty queue.
LEMMA PushPacket ==
  ASSUME NEW q \in [{0, 1} -> Seq(Handles)], Empty(q), NEW h \in Handles,
         NEW p \in {0, 1}, NEW n \in Nat \ {0}
  PROVE  /\ Push(q, h, p, n) \in [{0, 1} -> Seq(Handles)]
         /\ Size(Push(q, h, p, n)) = n
         /\ AllOf(Push(q, h, p, n), h)
  <1> DEFINE f == [i \in 1..n |-> h]
  <1>1. f \in Seq(Handles) /\ Len(f) = n /\ \A i \in DOMAIN f : f[i] = h
    OBVIOUS
  <1>2. q[0] = <<>> /\ q[1] = <<>>
    BY DEF Empty
  <1> HIDE DEF f
  <1>3. <<>> \o f = f
    BY <1>1
  <1>4. Push(q, h, p, n) = [q EXCEPT ![p] = f]
    BY <1>2, <1>3 DEF Push, f
  <1>5. /\ Push(q, h, p, n)[p] = f
        /\ \A r \in {0, 1} : r # p => Push(q, h, p, n)[r] = <<>>
    BY <1>2, <1>4
  <1>6. Push(q, h, p, n) \in [{0, 1} -> Seq(Handles)]
    BY <1>1, <1>4
  <1>7. AllOf(Push(q, h, p, n), h)
    <2>1. ASSUME NEW r \in {0, 1}, NEW i \in DOMAIN Push(q, h, p, n)[r]
          PROVE  Push(q, h, p, n)[r][i] = h
      <3>1. r = p
        BY <1>5, <2>1
      <3> QED BY <1>1, <1>5, <2>1, <3>1
    <2> QED BY <2>1 DEF AllOf
  <1>8. Size(Push(q, h, p, n)) = n
    <2>1. CASE p = 0
      <3>1. Len(Push(q, h, p, n)[0]) = n /\ Len(Push(q, h, p, n)[1]) = 0
        BY <1>1, <1>5, <2>1
      <3> QED BY <3>1 DEF Size
    <2>2. CASE p = 1
      <3>1. Len(Push(q, h, p, n)[1]) = n /\ Len(Push(q, h, p, n)[0]) = 0
        BY <1>1, <1>5, <2>2
      <3> QED BY <3>1 DEF Size
    <2> QED BY <2>1, <2>2
  <1> QED BY <1>6, <1>7, <1>8

\* What is left without connection h of a queue whose items are all of g.
LEMMA WithoutOne ==
  ASSUME NEW q \in [{0, 1} -> Seq(Handles)], NEW g, AllOf(q, g), NEW h
  PROVE  /\ g # h => Without(q, h) = q
         /\ g = h => /\ Without(q, h) \in [{0, 1} -> Seq(Handles)]
                     /\ Empty(Without(q, h))
  <1>1. CASE g # h
    <2>1. \A p \in {0, 1} : Filter(q[p], h) = q[p]
      BY <1>1, FilterNone DEF AllOf
    <2> QED BY <1>1, <2>1 DEF Without
  <1>2. CASE g = h
    <2>1. \A p \in {0, 1} : Filter(q[p], h) = <<>>
      BY <1>2, FilterAll DEF AllOf
    <2>2. Without(q, h) = [p \in {0, 1} |-> <<>>]
      BY <2>1 DEF Without
    <2>3. <<>> \in Seq(Handles)
      OBVIOUS
    <2> QED BY <1>2, <2>2, <2>3 DEF Empty
  <1> QED BY <1>1, <1>2
-----------------------------------------------------------------------------
(***************************************************************************)
(* The reactor.                                                            *)
(***************************************************************************)

\* Taking connection h out of the ready list leaves the others.
LEMMA NotReadyOne ==
  ASSUME NEW D, NEW r \in Seq(D), Distinct(r), NEW h
  PROVE  /\ NotReady(r, h) \in Seq(D \ {h})
         /\ Distinct(NotReady(r, h))
  <1>1. CASE \A i \in DOMAIN r : r[i] # h
    <2>1. NotReady(r, h) = r
      BY <1>1 DEF NotReady
    <2>2. r \in Seq(D \ {h})
      BY <1>1
    <2> QED BY <2>1, <2>2
  <1>2. CASE \E i \in DOMAIN r : r[i] = h
    <2> DEFINE k == CHOOSE i \in DOMAIN r : r[i] = h
               t == [j \in 1..(Len(r) - 1) |-> IF j < k THEN r[j] ELSE r[j + 1]]
               at(j) == IF j < k THEN j ELSE j + 1
    <2>1. k \in DOMAIN r /\ r[k] = h
      BY <1>2
    <2>2. NotReady(r, h) = t
      BY <1>2 DEF NotReady
    <2> HIDE DEF k
    <2>3. Len(r) \in Nat /\ DOMAIN r = 1..Len(r) /\ k \in 1..Len(r)
      BY <2>1
    <2>4. ASSUME NEW j \in 1..(Len(r) - 1)
          PROVE  at(j) \in DOMAIN r /\ at(j) # k /\ t[j] = r[at(j)] /\ at(j) \in Int
      BY <2>3
    <2>5. ASSUME NEW j \in 1..(Len(r) - 1) PROVE t[j] \in D \ {h}
      BY <2>1, <2>4 DEF Distinct
    <2>6. t \in Seq(D \ {h}) /\ DOMAIN t = 1..(Len(r) - 1)
      <3>1. Len(r) - 1 \in Nat
        BY <2>3
      <3>2. t \in [1..(Len(r) - 1) -> D \ {h}]
        BY <2>5
      <3> HIDE DEF t
      <3> QED BY <3>1, <3>2, SeqDef
    <2>7. ASSUME NEW i \in DOMAIN t, NEW j \in DOMAIN t, i # j
          PROVE  t[i] # t[j]
      <3>1. at(i) # at(j)
        BY <2>3, <2>6, <2>7
      <3> QED BY <2>4, <2>6, <2>7, <3>1 DEF Distinct
    <2> QED BY <2>2, <2>6, <2>7 DEF Distinct
  <1> QED BY <1>1, <1>2

\* What start_round_robin leaves: it watches more connections only when no
\* fragment waits, and then every connection with credits; the connections it
\* makes ready have packets.
LEMMA StartKeeps ==
  ASSUME NEW dq, NEW r, NEW sp, NEW e, start_round_robin(dq, r, sp, e),
         acl_queue_handlers_' \subseteq Handles, dq \subseteq acl_queue_handlers_',
         r \in Seq(dq), Distinct(r), sp \in acl_queue_handlers_' \cup {END}
  PROVE  /\ dq \subseteq dequeue_is_registered_'
         /\ dequeue_is_registered_' \subseteq acl_queue_handlers_'
         /\ ready' \in Seq(dequeue_is_registered_')
         /\ Distinct(ready')
         /\ \A i \in DOMAIN ready' :
              \/ \E j \in DOMAIN r : ready'[i] = r[j]
              \/ ready'[i] \in acl_queue_handlers_' /\ waiting[ready'[i]] > 0
         /\ starting_point_' \in acl_queue_handlers_' \cup {END}
         /\ \/ enqueue_registered_' = e
            \/ enqueue_registered_' = (e \/ CanSend(fragments_to_send_', credits'))
         /\ dequeue_is_registered_' = dq \/ Empty(fragments_to_send_')
         /\ Empty(fragments_to_send_') =>
              \A h \in acl_queue_handlers_' :
                credits'[ConnectionType[h]] # 0 => h \in dequeue_is_registered_'
  <1> DEFINE hs == acl_queue_handlers_'
             first == IF Cardinality(hs) = 1 \/ sp = END THEN Begin(hs) ELSE sp
             added == {h \in hs \ dq : credits'[ConnectionType[h]] # 0}
             nonempty == {h \in added : waiting[h] > 0}
             full == /\ Empty(fragments_to_send_') /\ hs # {}
                     /\ \E t \in Types : credits'[t] # 0
  <1>1. CASE full
    <2>1. /\ dequeue_is_registered_' = dq \cup added
          /\ starting_point_' = NextHandle(hs, first)
          /\ enqueue_registered_' = e
      BY <1>1 DEF start_round_robin
    <2>2. PICK s \in [1..Cardinality(nonempty) -> nonempty] :
            /\ \A i, j \in DOMAIN s : i < j => Before(s[i], s[j], first)
            /\ ready' = r \o s
      BY <1>1 DEF start_round_robin
    <2>3. s \in Seq(nonempty)
      <3>1. IsFiniteSet(nonempty)
        <4>1. nonempty \in SUBSET Handles /\ IsFiniteSet(Handles)
          BY ConstantsAssumption
        <4> QED BY <4>1, FS_Subset
      <3>2. Cardinality(nonempty) \in Nat
        BY <3>1, FS_CardinalityType
      <3> HIDE DEF nonempty
      <3> QED BY <2>2, <3>2, SeqDef
    <2>4. Distinct(s)
      <3>1. DOMAIN s = 1..Len(s) /\ Len(s) \in Nat
        BY <2>3
      <3>2. \A g \in Handles : ~Before(g, g, first)
        BY ConstantsAssumption DEF Before
      <3>3. ASSUME NEW i \in DOMAIN s, NEW j \in DOMAIN s, i # j
            PROVE  s[i] # s[j]
        <4>1. i < j \/ j < i
          BY <3>1, <3>3
        <4>2. s[i] \in Handles /\ s[j] \in Handles
          BY <2>2
        <4> QED BY <2>2, <3>2, <4>1, <4>2
      <3> QED BY <3>3 DEF Distinct
    <2>5. starting_point_' \in hs \cup {END}
      BY <2>1, NextType
    <2> DEFINE D == dq \cup added
    <2>6. nonempty \subseteq added /\ dq \cap added = {} /\ D \subseteq hs
          /\ r \in Seq(D) /\ s \in Seq(D)
      BY <2>3
    <2>7. /\ ready' \in Seq(D) /\ Len(ready') = Len(r) + Len(s)
          /\ \A i \in 1..(Len(r) + Len(s)) :
               ready'[i] = IF i <= Len(r) THEN r[i] ELSE s[i - Len(r)]
      <3> HIDE DEF D
      <3> QED BY <2>2, <2>6, ConcatProperties
    <2>8. /\ Len(r) \in Nat /\ Len(s) \in Nat /\ DOMAIN r = 1..Len(r)
          /\ DOMAIN s = 1..Len(s) /\ DOMAIN ready' = 1..(Len(r) + Len(s))
          /\ \A i \in DOMAIN r : r[i] \in dq
          /\ \A i \in DOMAIN s : s[i] \in nonempty
      BY <2>3, <2>7
    <2>9. ASSUME NEW i \in DOMAIN ready'
          PROVE  /\ i <= Len(r) => i \in DOMAIN r /\ ready'[i] = r[i]
                 /\ ~(i <= Len(r)) => /\ i - Len(r) \in DOMAIN s
                                      /\ ready'[i] = s[i - Len(r)]
      BY <2>7, <2>8
    <2> HIDE DEF added, D, nonempty
    <2>10. ASSUME NEW i \in DOMAIN ready', NEW j \in DOMAIN ready', i # j
           PROVE  ready'[i] # ready'[j]
      <3>1. CASE i <= Len(r) /\ j <= Len(r)
        BY <2>9, <2>10, <3>1 DEF Distinct
      <3>2. CASE ~(i <= Len(r)) /\ ~(j <= Len(r))
        <4>1. i - Len(r) # j - Len(r)
          BY <2>8, <2>10
        <4> QED BY <2>4, <2>9, <3>2, <4>1 DEF Distinct
      <3>3. CASE i <= Len(r) /\ ~(j <= Len(r))
        <4>1. ready'[i] \in dq /\ ready'[j] \in added
          BY <2>6, <2>8, <2>9, <3>3
        <4> QED BY <2>6, <4>1
      <3>4. CASE ~(i <= Len(r)) /\ j <= Len(r)
        <4>1. ready'[j] \in dq /\ ready'[i] \in added
          BY <2>6, <2>8, <2>9, <3>4
        <4> QED BY <2>6, <4>1
      <3> QED BY <3>1, <3>2, <3>3, <3>4
    <2>11. ASSUME NEW i \in DOMAIN ready'
           PROVE  \/ \E j \in DOMAIN r : ready'[i] = r[j]
                  \/ ready'[i] \in hs /\ waiting[ready'[i]] > 0
      <3>1. \A h \in nonempty : h \in hs /\ waiting[h] > 0
        BY DEF added, nonempty
      <3> QED BY <2>8, <2>9, <3>1
    <2>12. \A h \in hs : credits'[ConnectionType[h]] # 0 => h \in D
      BY DEF D, added
    <2> QED BY <1>1, <2>1, <2>5, <2>6, <2>7, <2>10, <2>11, <2>12 DEF Distinct, D
  <1>2. CASE ~full
    <2>1. /\ dequeue_is_registered_' = dq
          /\ starting_point_' = sp
          /\ enqueue_registered_' =
               send_next_fragment(e, fragments_to_send_', credits')
          /\ ready' = r
      BY <1>2 DEF start_round_robin
    <2>2. Empty(fragments_to_send_') =>
            \A h \in hs : credits'[ConnectionType[h]] = 0
      BY <1>2, ConstantsAssumption
    <2> QED BY <2>1, <2>2 DEF send_next_fragment
  <1> QED BY <1>1, <1>2
-----------------------------------------------------------------------------
(***************************************************************************)
(* Buffers of the controller.                                              *)
(***************************************************************************)

\* There are finitely many buffers in use.
LEMMA BuffersFinite ==
  ASSUME NEW o \in [Handles -> Nat], NEW hs, hs \subseteq Handles
  PROVE  IsFiniteSet(Buffers(o, hs)) /\ Cardinality(Buffers(o, hs)) \in Nat
  <1> DEFINE T == {{h} \X (1..o[h]) : h \in hs}
             f == [h \in hs |-> {h} \X (1..o[h])]
  <1>1. IsFiniteSet(hs)
    BY ConstantsAssumption, FS_Subset
  <1>2. f \in Surjection(hs, T)
    BY DEF Surjection
  <1>3. IsFiniteSet(T)
    <2> HIDE DEF f, T
    <2> QED BY <1>1, <1>2, FS_Surjection
  <1>4. ASSUME NEW S \in T PROVE IsFiniteSet(S)
    <2>1. PICK h \in hs : S = {h} \X (1..o[h])
      BY <1>4
    <2>2. o[h] \in Nat
      OBVIOUS
    <2>3. IsFiniteSet({h})
      BY FS_Singleton
    <2>4. IsFiniteSet(1..o[h])
      BY <2>2, FS_Interval
    <2> QED BY <2>1, <2>3, <2>4, FS_Product
  <1>5. IsFiniteSet(UNION T)
    <2> HIDE DEF T
    <2> QED BY <1>3, <1>4, FS_UNION
  <1> QED BY <1>5, FS_CardinalityType DEF Buffers

\* The buffers of connection h, and those of the others.
LEMMA BuffersSplit ==
  ASSUME NEW o \in [Handles -> Nat], NEW hs, hs \subseteq Handles, NEW h \in hs
  PROVE  Cardinality(Buffers(o, hs)) = Cardinality(Buffers(o, hs \ {h})) + o[h]
  <1> DEFINE A == Buffers(o, hs \ {h})
             B == {h} \X (1..o[h])
  <1>1. IsFiniteSet(A) /\ Cardinality(A) \in Nat
    BY BuffersFinite
  <1>2. IsFiniteSet(B) /\ Cardinality(B) = o[h]
    <2>1. IsFiniteSet({h}) /\ Cardinality({h}) = 1
      BY FS_Singleton
    <2>2. IsFiniteSet(1..o[h]) /\ Cardinality(1..o[h]) = o[h]
      BY FS_Interval
    <2> QED BY <2>1, <2>2, FS_Product
  <1>3. Buffers(o, hs) = A \cup B
    BY DEF Buffers
  <1>4. A \cap B = {}
    BY DEF Buffers
  <1>5. Cardinality(A \cap B) = 0
    BY <1>4, FS_EmptySet
  <1> HIDE DEF A, B
  <1>6. Cardinality(A \cup B) = Cardinality(A) + Cardinality(B) - Cardinality(A \cap B)
    BY <1>1, <1>2, FS_Union
  <1> QED BY <1>1, <1>2, <1>3, <1>5, <1>6 DEF A

\* The packets outstanding of connection h change.
LEMMA BuffersChange ==
  ASSUME NEW o \in [Handles -> Nat], NEW o2 \in [Handles -> Nat], NEW h \in Handles,
         \A g \in Handles : g # h => o2[g] = o[g], NEW t \in Types
  PROVE  /\ Cardinality(Buffers(o, OfType(t))) \in Nat
         /\ Cardinality(Buffers(o2, OfType(t))) \in Nat
         /\ t = ConnectionType[h] =>
              /\ Cardinality(Buffers(o, OfType(t))) >= o[h]
              /\ Cardinality(Buffers(o2, OfType(t)))
                   = Cardinality(Buffers(o, OfType(t))) - o[h] + o2[h]
         /\ t # ConnectionType[h] =>
              Cardinality(Buffers(o2, OfType(t))) = Cardinality(Buffers(o, OfType(t)))
  <1>1. OfType(t) \subseteq Handles
    BY DEF OfType
  <1>3. /\ Cardinality(Buffers(o, OfType(t))) \in Nat
        /\ Cardinality(Buffers(o2, OfType(t))) \in Nat
        /\ Cardinality(Buffers(o, OfType(t) \ {h})) \in Nat
    BY <1>1, BuffersFinite
  <1>4. Buffers(o2, OfType(t) \ {h}) = Buffers(o, OfType(t) \ {h})
    BY <1>1 DEF Buffers
  <1>5. CASE t = ConnectionType[h]
    <2>1. h \in OfType(t)
      BY <1>5 DEF OfType
    <2>2. /\ Cardinality(Buffers(o, OfType(t)))
               = Cardinality(Buffers(o, OfType(t) \ {h})) + o[h]
          /\ Cardinality(Buffers(o2, OfType(t)))
               = Cardinality(Buffers(o2, OfType(t) \ {h})) + o2[h]
      BY <1>1, <2>1, BuffersSplit
    <2>3. o[h] \in Nat /\ o2[h] \in Nat
      OBVIOUS
    <2> QED BY <1>3, <1>4, <1>5, <2>2, <2>3
  <1>6. CASE t # ConnectionType[h]
    <2>1. OfType(t) \ {h} = OfType(t)
      BY <1>6 DEF OfType
    <2> QED BY <1>3, <1>4, <1>6, <2>1
  <1> QED BY <1>5, <1>6

\* The credits follow the packets outstanding of connection h.
LEMMA BuffersMove ==
  ASSUME NEW c \in [Types -> Nat], NEW c2 \in [Types -> Nat],
         NEW o \in [Handles -> Nat], NEW o2 \in [Handles -> Nat],
         FreeBuffers(c, o), NEW h \in Handles,
         \A g \in Handles : g # h => o2[g] = o[g],
         \A t \in Types : t # ConnectionType[h] => c2[t] = c[t],
         c2[ConnectionType[h]] + o2[h] = c[ConnectionType[h]] + o[h]
  PROVE  FreeBuffers(c2, o2)
  <1>1. ASSUME NEW t \in Types
        PROVE  c2[t] + Cardinality(Buffers(o2, OfType(t))) = MaxCredits[t]
    <2> DEFINE b == Cardinality(Buffers(o, OfType(t)))
               d == Cardinality(Buffers(o2, OfType(t)))
    <2>1. /\ b \in Nat /\ d \in Nat
          /\ t = ConnectionType[h] => b >= o[h] /\ d = b - o[h] + o2[h]
          /\ t # ConnectionType[h] => d = b
      BY BuffersChange
    <2>2. c[t] + b = MaxCredits[t]
      BY DEF FreeBuffers
    <2>3. c[t] \in Nat /\ c2[t] \in Nat /\ o[h] \in Nat /\ o2[h] \in Nat
      OBVIOUS
    <2> HIDE DEF b, d
    <2> QED BY <2>1, <2>2, <2>3 DEF d
  <1> QED BY <1>1 DEF FreeBuffers

\* A transport has no more credits and packets outstanding than buffers.
LEMMA BuffersBound ==
  ASSUME NEW c \in [Types -> Nat], NEW o \in [Handles -> Nat], FreeBuffers(c, o),
         NEW h \in Handles
  PROVE  c[ConnectionType[h]] + o[h] <= MaxCredits[ConnectionType[h]]
  <1> DEFINE t == ConnectionType[h]
             b == Cardinality(Buffers(o, OfType(t)))
  <1>1. t \in Types /\ o[h] \in Nat /\ c[t] \in Nat
    BY ConstantsAssumption
  <1>2. b \in Nat /\ b >= o[h]
    BY <1>1, BuffersChange
  <1>3. c[t] + b = MaxCredits[t]
    BY <1>1 DEF FreeBuffers
  <1> HIDE DEF b, t
  <1> QED BY <1>1, <1>2, <1>3 DEF t
-----------------------------------------------------------------------------
(***************************************************************************)
(* The invariant.                                                          *)
(***************************************************************************)

\* start_round_robin watches connections with credits only.
LEMMA StartWatches ==
  ASSUME NEW dq, NEW r, NEW sp, NEW e, start_round_robin(dq, r, sp, e)
  PROVE  \A h \in dequeue_is_registered_' :
           h \in dq \/ credits'[ConnectionType[h]] # 0
  BY DEF start_round_robin

\* start_round_robin keeps the callbacks in step with the data.
LEMMA StartCallbacks ==
  ASSUME NEW dq, NEW r, NEW sp, NEW e, start_round_robin(dq, r, sp, e), NEW w,
         acl_queue_handlers_' \subseteq Handles,
         \A g \in acl_queue_handlers_' : w[g] = waiting[g],
         Callbacks(dq, r, sp, e, acl_queue_handlers_', fragments_to_send_', credits', w)
  PROVE  Callbacks(dequeue_is_registered_', ready', starting_point_',
                   enqueue_registered_', acl_queue_handlers_', fragments_to_send_',
                   credits', w)
  <1>1. /\ dq \subseteq acl_queue_handlers_' /\ r \in Seq(dq) /\ Distinct(r)
        /\ sp \in acl_queue_handlers_' \cup {END}
    BY DEF Callbacks
  <1>2. /\ dequeue_is_registered_' \subseteq acl_queue_handlers_'
        /\ ready' \in Seq(dequeue_is_registered_')
        /\ Distinct(ready')
        /\ \A i \in DOMAIN ready' :
             \/ \E j \in DOMAIN r : ready'[i] = r[j]
             \/ ready'[i] \in acl_queue_handlers_' /\ waiting[ready'[i]] > 0
        /\ starting_point_' \in acl_queue_handlers_' \cup {END}
    BY <1>1, StartKeeps
  <1>3. /\ \/ enqueue_registered_' = e
           \/ enqueue_registered_' = (e \/ CanSend(fragments_to_send_', credits'))
        /\ dequeue_is_registered_' = dq \/ Empty(fragments_to_send_')
    BY <1>1, StartKeeps
  <1>4. \A i \in DOMAIN ready' : w[ready'[i]] > 0
    BY <1>2 DEF Callbacks
  <1>5. enqueue_registered_' \in BOOLEAN
    BY <1>3, Zenon DEF Callbacks
  <1>6. enqueue_registered_' => CanSend(fragments_to_send_', credits')
    BY <1>3, Zenon DEF Callbacks
  <1>7. dequeue_is_registered_' # {} => Empty(fragments_to_send_')
    BY <1>3 DEF Callbacks
  <1>8. \A h \in dequeue_is_registered_' : credits'[ConnectionType[h]] # 0
    BY StartWatches DEF Callbacks
  <1> QED BY <1>2, <1>4, <1>5, <1>6, <1>7, <1>8, Zenon DEF Callbacks

\* The upper layer's packet makes a watched connection ready once.
LEMMA EnqueuePacketStep ==
  ASSUME IInv, NEW h \in Handles, EnqueuePacket(h)
  PROVE  IInv'
  <1> DEFINE dq == dequeue_is_registered_
  <1>1. DataTypes'
    <2>1. waiting[h] \in 0..QueueDepth /\ waiting[h] < QueueDepth
      BY DEF IInv, DataTypes, EnqueuePacket
    <2>2. waiting[h] + 1 \in 0..QueueDepth
      BY <2>1, ConstantsAssumption
    <2> QED BY <2>2 DEF IInv, DataTypes, EnqueuePacket
  <1>2. /\ waiting[h] \in Nat /\ waiting'[h] = waiting[h] + 1
        /\ \A g \in Handles \ {h} : waiting'[g] = waiting[g]
    BY ConstantsAssumption DEF IInv, DataTypes, EnqueuePacket
  <1>3. /\ dq \subseteq Handles /\ ready \in Seq(dq) /\ Distinct(ready)
        /\ \A i \in DOMAIN ready : waiting[ready[i]] > 0
    BY DEF IInv, DataTypes, Callbacks
  <1>4. \A i \in DOMAIN ready : waiting'[ready[i]] > 0
    <2> SUFFICES ASSUME NEW i \in DOMAIN ready PROVE waiting'[ready[i]] > 0
      OBVIOUS
    <2>1. ready[i] \in Handles
      BY <1>3
    <2> QED BY <1>2, <1>3, <2>1
  <1>5. /\ ready' \in Seq(dq) /\ Distinct(ready')
        /\ \A i \in DOMAIN ready' : waiting'[ready'[i]] > 0
    <2>1. CASE h \in dq /\ waiting[h] = 0
      <3>1. ready' = Append(ready, h)
        BY <2>1 DEF EnqueuePacket
      <3>2. /\ ready' \in Seq(dq) /\ Len(ready') = Len(ready) + 1
            /\ \A i \in DOMAIN ready : ready'[i] = ready[i]
            /\ ready'[Len(ready) + 1] = h
            /\ DOMAIN ready' = DOMAIN ready \cup {Len(ready) + 1}
        BY <1>3, <2>1, <3>1
      <3>3. \A i \in DOMAIN ready : ready[i] # h
        BY <1>3, <2>1
      <3>4. Distinct(ready')
        BY <1>3, <3>2, <3>3 DEF Distinct
      <3>5. \A i \in DOMAIN ready' : waiting'[ready'[i]] > 0
        BY <1>2, <1>4, <3>2
      <3> QED BY <3>2, <3>4, <3>5
    <2>2. CASE ~(h \in dq /\ waiting[h] = 0)
      <3>1. ready' = ready
        BY <2>2 DEF EnqueuePacket
      <3> QED BY <1>3, <1>4, <3>1
    <2> QED BY <2>1, <2>2
  <1>6. Callbacks(dq, ready', starting_point_, enqueue_registered_,
                  acl_queue_handlers_, fragments_to_send_, credits, waiting')
    <2>1. Callbacks(dq, ready, starting_point_, enqueue_registered_,
                    acl_queue_handlers_, fragments_to_send_, credits, waiting)
      BY DEF IInv
    <2> QED BY <1>5, <2>1, Zenon DEF Callbacks
  <1>7. /\ UNCHANGED <<dequeue_is_registered_, starting_point_, enqueue_registered_,
                       acl_queue_handlers_, fragments_to_send_, credits>>
        /\ UNCHANGED <<number_of_sent_packets_, outstanding>>
    BY DEF EnqueuePacket
  <1>8. /\ AllOf(fragments_to_send_', Front(fragments_to_send_')) /\ Accounting'
        /\ Unused(number_of_sent_packets_', outstanding', credits')
    BY <1>7 DEF IInv, Accounting
  <1>9. Callbacks(dequeue_is_registered_', ready', starting_point_', enqueue_registered_',
                  acl_queue_handlers_', fragments_to_send_', credits', waiting')
    BY <1>6, <1>7
  <1> QED BY <1>1, <1>8, <1>9 DEF IInv

\* A new connection is watched at once or when the fragments are sent.
LEMMA RegisterStep ==
  ASSUME IInv, NEW h \in Handles, Register(h)
  PROVE  IInv'
  <1> DEFINE dq == dequeue_is_registered_
             hs2 == acl_queue_handlers_'
  <1>1. /\ hs2 = acl_queue_handlers_ \cup {h}
        /\ UNCHANGED <<number_of_sent_packets_, high_priority_, fragments_to_send_,
                       credits, posted, waiting, outstanding>>
    BY DEF Register
  <1>2. DataTypes'
    BY <1>1 DEF IInv, DataTypes
  <1>3. Callbacks(dq, ready, starting_point_, enqueue_registered_, hs2,
                  fragments_to_send_', credits', waiting')
    <2>1. Callbacks(dq, ready, starting_point_, enqueue_registered_,
                    acl_queue_handlers_, fragments_to_send_, credits, waiting)
      BY DEF IInv
    <2>2. dq \subseteq hs2 /\ starting_point_ \in hs2 \cup {END}
      BY <1>1, <2>1 DEF Callbacks
    <2> QED BY <1>1, <2>1, <2>2, Zenon DEF Callbacks
  <1>4. Callbacks(dequeue_is_registered_', ready', starting_point_',
                  enqueue_registered_', hs2, fragments_to_send_', credits', waiting')
    <2>1. CASE start_round_robin(dq, ready, starting_point_, enqueue_registered_)
      <3>1. hs2 \subseteq Handles /\ \A g \in hs2 : waiting'[g] = waiting[g]
        BY <1>1, <1>2 DEF DataTypes
      <3> QED BY <1>3, <2>1, <3>1, StartCallbacks
    <2>2. CASE NoRestart
      BY <1>3, <2>2 DEF NoRestart
    <2> QED BY <2>1, <2>2 DEF Register
  <1>5. /\ AllOf(fragments_to_send_', Front(fragments_to_send_')) /\ Accounting'
        /\ Unused(number_of_sent_packets_', outstanding', credits')
    BY <1>1 DEF IInv, Accounting
  <1> QED BY <1>2, <1>4, <1>5 DEF IInv

\* The priority of a connection is no matter of the schedule.
LEMMA SetLinkPriorityStep ==
  ASSUME IInv, NEW h \in Handles, NEW b, SetLinkPriority(h, b)
  PROVE  IInv'
  <1>1. DataTypes'
    BY DEF IInv, DataTypes, SetLinkPriority
  <1>2. UNCHANGED <<dequeue_is_registered_, ready, starting_point_, enqueue_registered_,
                    acl_queue_handlers_, fragments_to_send_, credits, waiting,
                    number_of_sent_packets_, outstanding>>
    BY DEF SetLinkPriority
  <1> QED BY <1>1, <1>2 DEF IInv, Accounting

\* A posted start_round_robin changes callbacks only.
LEMMA RunPostedStep ==
  ASSUME IInv, RunPosted
  PROVE  IInv'
  <1>1. /\ UNCHANGED <<acl_queue_handlers_, number_of_sent_packets_, high_priority_,
                       fragments_to_send_, credits, waiting, outstanding>>
        /\ start_round_robin(dequeue_is_registered_, ready, starting_point_,
                             enqueue_registered_)
        /\ posted > 0 /\ posted' = posted - 1
    BY DEF RunPosted
  <1>2. posted' \in 0..MaxPosted
    BY <1>1, ConstantsAssumption DEF IInv, DataTypes
  <1>3. DataTypes'
    BY <1>1, <1>2 DEF IInv, DataTypes
  <1>4. Callbacks(dequeue_is_registered_, ready, starting_point_, enqueue_registered_,
                  acl_queue_handlers_', fragments_to_send_', credits', waiting')
    BY <1>1 DEF IInv
  <1>5. /\ acl_queue_handlers_' \subseteq Handles
        /\ \A g \in acl_queue_handlers_' : waiting'[g] = waiting[g]
    BY <1>1, <1>3 DEF DataTypes
  <1>6. Callbacks(dequeue_is_registered_', ready', starting_point_',
                  enqueue_registered_', acl_queue_handlers_', fragments_to_send_',
                  credits', waiting')
    BY <1>1, <1>4, <1>5, StartCallbacks
  <1> QED BY <1>1, <1>3, <1>6 DEF IInv, Accounting

\* An empty queue has items of one connection, whichever.
LEMMA EmptyAllOf ==
  ASSUME NEW q, Empty(q), NEW g
  PROVE  AllOf(q, g)
  BY DEF Empty, AllOf

\* The fragments of a packet are the only ones, and there is a credit for them.
LEMMA BufferPacketStep ==
  ASSUME IInv, NEW h \in Handles, NEW n \in 1..MaxFragments, buffer_packet(h, n)
  PROVE  IInv'
  <1> DEFINE p == IF h \in high_priority_ THEN 1 ELSE 0
             q == Push(fragments_to_send_, h, p, n)
  <1>1. /\ ready # <<>> /\ h = Head(ready)
        /\ waiting' = [waiting EXCEPT ![h] = waiting[h] - 1]
        /\ fragments_to_send_' = q
        /\ dequeue_is_registered_' = {} /\ ready' = <<>>
        /\ number_of_sent_packets_' = [number_of_sent_packets_ EXCEPT
                                         ![h] = number_of_sent_packets_[h] + Size(q)]
        /\ enqueue_registered_' = TRUE
        /\ UNCHANGED <<acl_queue_handlers_, high_priority_, credits,
                       starting_point_, posted, outstanding>>
    BY DEF buffer_packet, unregister_all_connections
  <1>2. /\ ready \in Seq(dequeue_is_registered_)
        /\ dequeue_is_registered_ \subseteq acl_queue_handlers_
        /\ \A g \in dequeue_is_registered_ : credits[ConnectionType[g]] # 0
        /\ \A i \in DOMAIN ready : waiting[ready[i]] > 0
        /\ dequeue_is_registered_ # {} => Empty(fragments_to_send_)
        /\ starting_point_ \in acl_queue_handlers_ \cup {END}
    BY DEF IInv, Callbacks
  <1>3. 1 \in DOMAIN ready /\ h = ready[1] /\ h \in dequeue_is_registered_
    BY <1>1, <1>2
  <1>4. Empty(fragments_to_send_) /\ waiting[h] > 0 /\ credits[ConnectionType[h]] # 0
    BY <1>2, <1>3
  <1>5. n \in Nat \ {0} /\ p \in {0, 1}
    BY ConstantsAssumption
  <1>6. fragments_to_send_ \in [{0, 1} -> Seq(Handles)]
    BY DEF IInv, DataTypes
  <1> HIDE DEF p
  <1>7. q \in [{0, 1} -> Seq(Handles)] /\ Size(q) = n /\ AllOf(q, h)
    BY <1>4, <1>5, <1>6, PushPacket
  <1> HIDE DEF q
  <1>8. ~Empty(q)
    BY <1>5, <1>7, EmptySize
  <1>9. Front(q) = h
    BY <1>7, <1>8, PopFront
  <1>10. DataTypes'
    <2>1. waiting' \in [Handles -> 0..QueueDepth]
      <3>1. waiting \in [Handles -> 0..QueueDepth]
        BY DEF IInv, DataTypes
      <3>2. waiting[h] - 1 \in 0..QueueDepth
        BY <1>4, <3>1, ConstantsAssumption
      <3> QED BY <1>1, <3>1, <3>2
    <2>2. number_of_sent_packets_' \in [Handles -> Nat]
      BY <1>1, <1>5, <1>7 DEF IInv, DataTypes
    <2> QED BY <1>1, <1>7, <2>1, <2>2 DEF IInv, DataTypes
  <1>11. CanSend(fragments_to_send_', credits')
    BY <1>1, <1>4, <1>8, <1>9 DEF CanSend
  <1>12. Callbacks(dequeue_is_registered_', ready', starting_point_',
                   enqueue_registered_', acl_queue_handlers_', fragments_to_send_',
                   credits', waiting')
    <2>1. /\ dequeue_is_registered_' \subseteq acl_queue_handlers_'
          /\ ready' \in Seq(dequeue_is_registered_') /\ Distinct(ready')
          /\ \A i \in DOMAIN ready' : waiting'[ready'[i]] > 0
          /\ dequeue_is_registered_' = {}
      BY <1>1 DEF Distinct
    <2>2. starting_point_' \in acl_queue_handlers_' \cup {END}
      BY <1>1, <1>2
    <2> QED BY <1>1, <1>11, <2>1, <2>2 DEF Callbacks
  <1>13. AllOf(fragments_to_send_', Front(fragments_to_send_'))
    BY <1>1, <1>7, <1>9
  <1>14. Unused(number_of_sent_packets_', outstanding', credits')
    <2>1. ASSUME NEW g \in Handles, MaxCredits[ConnectionType[g]] = 0
          PROVE  /\ credits'[ConnectionType[g]] = 0 /\ number_of_sent_packets_'[g] = 0
                 /\ outstanding'[g] = 0
      <3>1. /\ credits[ConnectionType[g]] = 0 /\ number_of_sent_packets_[g] = 0
            /\ outstanding[g] = 0
        BY <2>1 DEF IInv, Unused
      <3>2. g # h
        BY <1>4, <3>1
      <3>3. number_of_sent_packets_'[g] = number_of_sent_packets_[g]
        BY <1>1, <3>2 DEF IInv, DataTypes
      <3> QED BY <1>1, <3>1, <3>3
    <2> QED BY <2>1 DEF Unused
  <1>15. Accounting'
    <2> SUFFICES ASSUME drop_acl_fragment_on_disconnect
                 PROVE  /\ Charged(number_of_sent_packets_', outstanding, q)
                        /\ h \in acl_queue_handlers_
                        /\ FreeBuffers(credits, outstanding)
      BY <1>1, <1>9 DEF Accounting
    <2>1. ASSUME NEW g \in Handles
          PROVE  number_of_sent_packets_'[g] = outstanding[g] + (IF g = h THEN n ELSE 0)
      <3>1. number_of_sent_packets_[g] = outstanding[g] + 0
        BY <1>4 DEF IInv, Accounting, Charged
      <3>2. /\ outstanding[g] \in Nat
            /\ number_of_sent_packets_ \in [Handles -> Nat]
        BY DEF IInv, DataTypes
      <3> QED BY <1>1, <1>5, <1>7, <3>1, <3>2
    <2>2. Charged(number_of_sent_packets_', outstanding, q)
      BY <1>7, <1>8, <1>9, <2>1 DEF Charged
    <2> QED BY <1>2, <1>3, <2>2 DEF IInv, Accounting
  <1> QED BY <1>10, <1>12, <1>13, <1>14, <1>15 DEF IInv

\* A fragment that is sent takes a credit and is outstanding from then on.
LEMMA EnqueueFragmentStep ==
  ASSUME IInv, handle_enqueue_next_fragment
  PROVE  IInv'
  <1> DEFINE f == fragments_to_send_
             h == Front(f)
             q == Pop(f)
             t == ConnectionType[h]
  <1>1. /\ enqueue_registered_
        /\ Empty(q) => posted < MaxPosted
        /\ credits' = [credits EXCEPT ![t] = credits[t] - 1]
        /\ fragments_to_send_' = q
        /\ enqueue_registered_' = CanSend(q, credits')
        /\ posted' = IF Empty(q) THEN posted + 1 ELSE posted
        /\ outstanding' = IF h \in acl_queue_handlers_
                          THEN [outstanding EXCEPT ![h] = outstanding[h] + 1]
                          ELSE outstanding
        /\ UNCHANGED <<acl_queue_handlers_, dequeue_is_registered_,
                       number_of_sent_packets_, high_priority_, starting_point_,
                       waiting, ready>>
    BY DEF handle_enqueue_next_fragment, stays_enqueued
  <1>2. ~Empty(f) /\ credits[t] # 0
    BY <1>1 DEF IInv, Callbacks, CanSend
  <1>3. f \in [{0, 1} -> Seq(Handles)] /\ AllOf(f, h)
    BY DEF IInv, DataTypes
  <1>4. /\ h \in Handles /\ q \in [{0, 1} -> Seq(Handles)] /\ Size(q) = Size(f) - 1
        /\ AllOf(q, h)
    BY <1>2, <1>3, PopFront
  <1>5. ~Empty(q) => Front(q) = h
    BY <1>4, PopFront
  <1>6. t \in Types /\ credits[t] \in Nat /\ credits[t] - 1 \in Nat
    <2>1. t \in Types
      BY <1>4, ConstantsAssumption
    <2>2. credits[t] \in Nat
      BY <2>1 DEF IInv, DataTypes
    <2> QED BY <1>2, <2>1, <2>2
  <1>7. /\ Size(f) \in Nat /\ Size(q) \in Nat /\ (Empty(q) <=> Size(q) = 0)
    BY <1>3, <1>4, EmptySize
  <1>8. dequeue_is_registered_ = {}
    BY <1>2 DEF IInv, Callbacks
  <1> HIDE DEF q, t, h
  <1>9. /\ credits \in [Types -> Nat] /\ credits' \in [Types -> Nat]
        /\ outstanding \in [Handles -> Nat] /\ outstanding' \in [Handles -> Nat]
    <2>1. credits \in [Types -> Nat] /\ outstanding \in [Handles -> Nat]
      BY DEF IInv, DataTypes
    <2>2. credits' \in [Types -> Nat]
      BY <1>1, <1>6, <2>1
    <2>3. outstanding[h] + 1 \in Nat
      BY <1>4, <2>1
    <2>4. outstanding' \in [Handles -> Nat]
      BY <1>1, <2>1, <2>3
    <2> QED BY <2>1, <2>2, <2>4
  <1>10. DataTypes'
    <2>1. posted' \in 0..MaxPosted
      <3>1. posted \in 0..MaxPosted
        BY DEF IInv, DataTypes
      <3> QED BY <1>1, <3>1, ConstantsAssumption
    <2> QED BY <1>1, <1>4, <1>9, <2>1 DEF IInv, DataTypes
  <1>11. Callbacks(dequeue_is_registered_', ready', starting_point_',
                   enqueue_registered_', acl_queue_handlers_', fragments_to_send_',
                   credits', waiting')
    <2>1. /\ dequeue_is_registered_' \subseteq acl_queue_handlers_'
          /\ ready' \in Seq(dequeue_is_registered_') /\ Distinct(ready')
          /\ \A i \in DOMAIN ready' : waiting'[ready'[i]] > 0
          /\ starting_point_' \in acl_queue_handlers_' \cup {END}
      BY <1>1 DEF IInv, Callbacks
    <2>2. \A g \in dequeue_is_registered_' : credits'[ConnectionType[g]] # 0
      BY <1>1, <1>8
    <2>3. dequeue_is_registered_' # {} => Empty(fragments_to_send_')
      BY <1>1, <1>8
    <2>4. enqueue_registered_' \in BOOLEAN
      BY <1>1 DEF CanSend
    <2>5. enqueue_registered_' => CanSend(fragments_to_send_', credits')
      BY <1>1
    <2> QED BY <2>1, <2>2, <2>3, <2>4, <2>5, Zenon DEF Callbacks
  <1>12. AllOf(fragments_to_send_', Front(fragments_to_send_'))
    <2>1. CASE Empty(q)
      BY <1>1, <2>1, EmptyAllOf
    <2>2. CASE ~Empty(q)
      BY <1>1, <1>4, <1>5, <2>2
    <2> QED BY <2>1, <2>2
  <1>13. Unused(number_of_sent_packets_', outstanding', credits')
    <2>1. ASSUME NEW g \in Handles, MaxCredits[ConnectionType[g]] = 0
          PROVE  /\ credits'[ConnectionType[g]] = 0 /\ number_of_sent_packets_'[g] = 0
                 /\ outstanding'[g] = 0
      <3>1. /\ credits[ConnectionType[g]] = 0 /\ number_of_sent_packets_[g] = 0
            /\ outstanding[g] = 0 /\ ConnectionType[g] \in Types
        BY <2>1, ConstantsAssumption DEF IInv, Unused
      <3>2. ConnectionType[g] # t
        BY <1>2, <3>1 DEF t
      <3>3. g # h
        BY <3>2 DEF t
      <3>4. credits'[ConnectionType[g]] = 0
        BY <1>1, <1>9, <3>1, <3>2
      <3>5. outstanding'[g] = 0
        BY <1>1, <1>9, <3>1, <3>3
      <3> QED BY <1>1, <3>1, <3>4, <3>5
    <2> QED BY <2>1 DEF Unused
  <1>14. Accounting'
    <2> SUFFICES ASSUME drop_acl_fragment_on_disconnect
                 PROVE  /\ Charged(number_of_sent_packets_', outstanding', q)
                        /\ ~Empty(q) => Front(q) \in acl_queue_handlers_
                        /\ FreeBuffers(credits', outstanding')
      BY <1>1 DEF Accounting
    <2>1. /\ Charged(number_of_sent_packets_, outstanding, f)
          /\ h \in acl_queue_handlers_ /\ FreeBuffers(credits, outstanding)
      BY <1>2 DEF IInv, Accounting, h
    <2>2. /\ outstanding'[h] = outstanding[h] + 1
          /\ \A g \in Handles : g # h => outstanding'[g] = outstanding[g]
          /\ outstanding[h] \in Nat
      BY <1>1, <1>4, <1>9, <2>1
    <2>3. /\ credits'[t] = credits[t] - 1
          /\ \A u \in Types : u # t => credits'[u] = credits[u]
      BY <1>1, <1>6, <1>9
    <2>4. FreeBuffers(credits', outstanding')
      <3>1. credits'[ConnectionType[h]] + outstanding'[h]
              = credits[ConnectionType[h]] + outstanding[h]
        <4>1. credits[t] \in Nat /\ credits'[t] = credits[t] - 1
          BY <1>6, <2>3
        <4>2. credits'[t] + outstanding'[h] = credits[t] + outstanding[h]
          BY <2>2, <4>1
        <4> QED BY <4>2 DEF t
      <3>2. \A u \in Types : u # ConnectionType[h] => credits'[u] = credits[u]
        BY <2>3 DEF t
      <3> QED BY <1>4, <1>9, <2>1, <2>2, <3>1, <3>2, BuffersMove, ZenonT(60)
    <2>5. ASSUME NEW g \in Handles
          PROVE  number_of_sent_packets_'[g]
                   = outstanding'[g] + (IF ~Empty(q) /\ g = Front(q) THEN Size(q) ELSE 0)
      <3>1. number_of_sent_packets_[g] = outstanding[g] + (IF g = h THEN Size(f) ELSE 0)
        BY <1>2, <2>1 DEF Charged, h
      <3>2. (IF ~Empty(q) /\ g = Front(q) THEN Size(q) ELSE 0)
              = IF g = h THEN Size(q) ELSE 0
        BY <1>5, <1>7
      <3>3. outstanding[g] \in Nat
        BY <1>9
      <3>4. CASE g = h
        BY <1>1, <1>4, <1>7, <2>2, <3>1, <3>2, <3>3, <3>4
      <3>5. CASE g # h
        BY <1>1, <2>2, <3>1, <3>2, <3>3, <3>5
      <3> QED BY <3>4, <3>5
    <2>6. Charged(number_of_sent_packets_', outstanding', q)
      BY <2>5 DEF Charged
    <2> QED BY <1>5, <2>1, <2>4, <2>6
  <1> QED BY <1>10, <1>11, <1>12, <1>13, <1>14 DEF IInv

\* Completed packets give their credits back, which no maximum cuts short.
LEMMA CreditsStep ==
  ASSUME IInv, NEW h \in Handles, NEW n \in 1..outstanding[h], incoming_acl_credits(h, n)
  PROVE  IInv'
  <1> DEFINE t == ConnectionType[h]
             sum == credits[t] + n
             sent == number_of_sent_packets_
  <1>1. /\ h \in acl_queue_handlers_
        /\ outstanding' = [outstanding EXCEPT ![h] = outstanding[h] - n]
        /\ number_of_sent_packets_' =
             [sent EXCEPT ![h] = IF sent[h] >= n THEN sent[h] - n ELSE 0]
        /\ credits' = [credits EXCEPT ![t] =
                         IF sum > MaxCredits[t] THEN MaxCredits[t] ELSE sum]
        /\ UNCHANGED <<acl_queue_handlers_, high_priority_, fragments_to_send_,
                       posted, waiting>>
        /\ \/ start_round_robin(dequeue_is_registered_, ready, starting_point_,
                                enqueue_registered_)
           \/ NoRestart
    BY DEF incoming_acl_credits
  <1>2. /\ credits \in [Types -> Nat] /\ outstanding \in [Handles -> Nat]
        /\ sent \in [Handles -> Nat]
    BY DEF IInv, DataTypes
  <1>3. /\ t \in Types /\ MaxCredits[t] \in Nat /\ credits[t] \in Nat
        /\ outstanding[h] \in Nat /\ sent[h] \in Nat
    BY <1>2, ConstantsAssumption
  <1>4. n \in Nat /\ n >= 1 /\ n <= outstanding[h] /\ sum \in Nat
    BY <1>3
  <1>5. MaxCredits[t] # 0
    <2>1. MaxCredits[t] = 0 => outstanding[h] = 0
      BY Zenon DEF IInv, Unused
    <2>2. outstanding[h] # 0
      BY <1>3, <1>4
    <2> QED BY <2>1, <2>2
  <1> HIDE DEF t
  <1>6. /\ credits' \in [Types -> Nat] /\ credits'[t] # 0
        /\ credits'[t] = (IF sum > MaxCredits[t] THEN MaxCredits[t] ELSE sum)
        /\ \A u \in Types : u # t => credits'[u] = credits[u]
    BY <1>1, <1>2, <1>3, <1>4, <1>5
  <1>7. /\ outstanding' \in [Handles -> Nat] /\ outstanding'[h] = outstanding[h] - n
        /\ \A g \in Handles : g # h => outstanding'[g] = outstanding[g]
    BY <1>1, <1>2, <1>3, <1>4
  <1>8. /\ number_of_sent_packets_' \in [Handles -> Nat]
        /\ number_of_sent_packets_'[h] = (IF sent[h] >= n THEN sent[h] - n ELSE 0)
        /\ \A g \in Handles : g # h => number_of_sent_packets_'[g] = sent[g]
    BY <1>1, <1>2, <1>3, <1>4
  <1>9. DataTypes'
    BY <1>1, <1>6, <1>7, <1>8 DEF IInv, DataTypes
  <1>10. \A u \in Types : credits[u] # 0 => credits'[u] # 0
    BY <1>6
  <1>11. Callbacks(dequeue_is_registered_, ready, starting_point_, enqueue_registered_,
                   acl_queue_handlers_', fragments_to_send_', credits', waiting')
    <2>1. Callbacks(dequeue_is_registered_, ready, starting_point_, enqueue_registered_,
                    acl_queue_handlers_, fragments_to_send_, credits, waiting)
      BY DEF IInv
    <2>2. \A g \in dequeue_is_registered_ : credits'[ConnectionType[g]] # 0
      <3>1. ASSUME NEW g \in dequeue_is_registered_
            PROVE  credits[ConnectionType[g]] # 0 /\ ConnectionType[g] \in Types
        BY <2>1, ConstantsAssumption DEF Callbacks, IInv, DataTypes
      <3> QED BY <1>10, <3>1
    <2>3. CanSend(fragments_to_send_, credits) => CanSend(fragments_to_send_, credits')
      <3> SUFFICES ASSUME ~Empty(fragments_to_send_),
                          credits[ConnectionType[Front(fragments_to_send_)]] # 0
                   PROVE  credits'[ConnectionType[Front(fragments_to_send_)]] # 0
        BY DEF CanSend
      <3>1. Front(fragments_to_send_) \in Handles
        BY PopFront DEF IInv, DataTypes
      <3> QED BY <1>10, <3>1, ConstantsAssumption
    <2> QED BY <1>1, <2>1, <2>2, <2>3, Zenon DEF Callbacks
  <1>12. Callbacks(dequeue_is_registered_', ready', starting_point_',
                   enqueue_registered_', acl_queue_handlers_', fragments_to_send_',
                   credits', waiting')
    <2>1. CASE start_round_robin(dequeue_is_registered_, ready, starting_point_,
                                 enqueue_registered_)
      <3>1. /\ acl_queue_handlers_' \subseteq Handles
            /\ \A g \in acl_queue_handlers_' : waiting'[g] = waiting[g]
        BY <1>1, <1>9 DEF DataTypes
      <3> QED BY <1>11, <2>1, <3>1, StartCallbacks
    <2>2. CASE NoRestart
      BY <1>11, <2>2 DEF NoRestart
    <2> QED BY <1>1, <2>1, <2>2
  <1>13. AllOf(fragments_to_send_', Front(fragments_to_send_'))
    BY <1>1 DEF IInv
  <1>14. Unused(number_of_sent_packets_', outstanding', credits')
    <2>1. ASSUME NEW g \in Handles, MaxCredits[ConnectionType[g]] = 0
          PROVE  /\ credits'[ConnectionType[g]] = 0 /\ number_of_sent_packets_'[g] = 0
                 /\ outstanding'[g] = 0
      <3>1. /\ credits[ConnectionType[g]] = 0 /\ sent[g] = 0
            /\ outstanding[g] = 0 /\ ConnectionType[g] \in Types
        BY <2>1, ConstantsAssumption DEF IInv, Unused
      <3>2. ConnectionType[g] # t /\ g # h
        BY <1>5, <2>1 DEF t
      <3> QED BY <1>6, <1>7, <1>8, <3>1, <3>2
    <2> QED BY <2>1 DEF Unused
  <1>15. Accounting'
    <2> DEFINE f == fragments_to_send_
               w(g) == IF ~Empty(f) /\ g = Front(f) THEN Size(f) ELSE 0
    <2> SUFFICES ASSUME drop_acl_fragment_on_disconnect
                 PROVE  /\ Charged(number_of_sent_packets_', outstanding', f)
                        /\ ~Empty(f) => Front(f) \in acl_queue_handlers_
                        /\ FreeBuffers(credits', outstanding')
      BY <1>1 DEF Accounting
    <2>1. /\ Charged(sent, outstanding, f)
          /\ ~Empty(f) => Front(f) \in acl_queue_handlers_
          /\ FreeBuffers(credits, outstanding)
      BY DEF IInv, Accounting
    <2>2. ASSUME NEW g \in Handles
          PROVE  /\ w(g) \in Nat
                 /\ sent[g] = outstanding[g] + w(g)
      <3>1. Size(f) \in Nat
        BY EmptySize DEF IInv, DataTypes
      <3> QED BY <2>1, <3>1 DEF Charged
    <2> HIDE DEF w
    <2>3. credits[t] + outstanding[h] <= MaxCredits[t]
      BY <1>2, <2>1, BuffersBound DEF t
    <2>4. credits'[t] = credits[t] + n
      BY <1>3, <1>4, <1>6, <2>3
    <2>5. FreeBuffers(credits', outstanding')
      <3>1. credits'[ConnectionType[h]] + outstanding'[h]
              = credits[ConnectionType[h]] + outstanding[h]
        <4>1. outstanding'[h] = outstanding[h] - n
          BY <1>7
        <4>2. credits'[t] + outstanding'[h] = credits[t] + outstanding[h]
          BY <1>3, <1>4, <2>4, <4>1
        <4> QED BY <4>2 DEF t
      <3>2. \A u \in Types : u # ConnectionType[h] => credits'[u] = credits[u]
        BY <1>6 DEF t
      <3> QED BY <1>2, <1>6, <1>7, <2>1, <3>1, <3>2, BuffersMove, ZenonT(60)
    <2>6. ASSUME NEW g \in Handles
          PROVE  number_of_sent_packets_'[g] = outstanding'[g] + w(g)
      <3>1. outstanding[g] \in Nat
        BY <1>2
      <3>2. CASE g = h
        BY <1>3, <1>4, <1>7, <1>8, <2>2, <3>2
      <3>3. CASE g # h
        BY <1>7, <1>8, <2>2, <3>1, <3>3
      <3> QED BY <3>2, <3>3
    <2>7. Charged(number_of_sent_packets_', outstanding', f)
      BY <2>6 DEF Charged, w
    <2> QED BY <2>1, <2>5, <2>7
  <1> QED BY <1>9, <1>12, <1>13, <1>14, <1>15 DEF IInv

\* drop_packet_fragments leaves all fragments, or none if they are of connection h.
LEMMA DropFragments ==
  ASSUME IInv, NEW h \in Handles
  PROVE  LET f == fragments_to_send_
             q == drop_packet_fragments(h)
         IN  \/ /\ q = f
                /\ drop_acl_fragment_on_disconnect => Empty(f) \/ Front(f) # h
             \/ /\ drop_acl_fragment_on_disconnect /\ ~Empty(f) /\ Front(f) = h
                /\ q \in [{0, 1} -> Seq(Handles)] /\ Empty(q)
  <1> DEFINE f == fragments_to_send_
             q == drop_packet_fragments(h)
  <1>1. f \in [{0, 1} -> Seq(Handles)] /\ AllOf(f, Front(f))
    BY DEF IInv, DataTypes
  <1>2. CASE ~drop_acl_fragment_on_disconnect
    BY <1>2 DEF drop_packet_fragments
  <1>3. CASE drop_acl_fragment_on_disconnect
    <2>1. q = Without(f, h)
      BY <1>3 DEF drop_packet_fragments
    <2>2. CASE Empty(f)
      <3>1. END # h
        BY ConstantsAssumption DEF END
      <3>2. AllOf(f, END)
        BY <2>2, EmptyAllOf
      <3>3. Without(f, h) = f
        BY <1>1, <3>1, <3>2, WithoutOne
      <3> QED BY <2>1, <2>2, <3>3
    <2>3. CASE ~Empty(f) /\ Front(f) # h
      <3>1. Without(f, h) = f
        BY <1>1, <2>3, WithoutOne
      <3> QED BY <2>1, <2>3, <3>1
    <2>4. CASE ~Empty(f) /\ Front(f) = h
      <3>1. Without(f, h) \in [{0, 1} -> Seq(Handles)] /\ Empty(Without(f, h))
        BY <1>1, <2>4, WithoutOne
      <3> QED BY <1>3, <2>1, <2>4, <3>1
    <2> QED BY <2>2, <2>3, <2>4
  <1> QED BY <1>2, <1>3

\* The credits that are reclaimed are the packets outstanding.
LEMMA Reclaimed ==
  ASSUME IInv, NEW h \in Handles
  PROVE  /\ sent_packets(h, drop_packet_fragments(h)) \in Nat
         /\ drop_acl_fragment_on_disconnect =>
              sent_packets(h, drop_packet_fragments(h)) = outstanding[h]
         /\ MaxCredits[ConnectionType[h]] = 0 =>
              sent_packets(h, drop_packet_fragments(h)) = 0
  <1> DEFINE f == fragments_to_send_
             q == drop_packet_fragments(h)
             n == number_of_sent_packets_[h]
             s == sent_packets(h, q)
  <1>1. n \in Nat /\ outstanding[h] \in Nat /\ Size(f) \in Nat
    BY EmptySize DEF IInv, DataTypes
  <1>2. s = n - (Size(f) - Size(q))
    BY DEF sent_packets
  <1>3. drop_acl_fragment_on_disconnect =>
          n = outstanding[h] + (IF ~Empty(f) /\ h = Front(f) THEN Size(f) ELSE 0)
    BY DEF IInv, Accounting, Charged
  <1>4. MaxCredits[ConnectionType[h]] = 0 => n = 0 /\ outstanding[h] = 0
    BY DEF IInv, Unused
  <1>5. CASE /\ q = f
             /\ drop_acl_fragment_on_disconnect => Empty(f) \/ Front(f) # h
    <2>1. s = n
      BY <1>1, <1>2, <1>5
    <2>2. drop_acl_fragment_on_disconnect => n = outstanding[h]
      BY <1>1, <1>3, <1>5
    <2> QED BY <1>1, <1>4, <2>1, <2>2
  <1>6. CASE /\ drop_acl_fragment_on_disconnect /\ ~Empty(f) /\ Front(f) = h
             /\ q \in [{0, 1} -> Seq(Handles)] /\ Empty(q)
    <2>1. Size(q) = 0
      BY <1>6, EmptySize
    <2>2. n = outstanding[h] + Size(f)
      BY <1>3, <1>6
    <2>3. s = outstanding[h]
      BY <1>1, <1>2, <2>1, <2>2
    <2> QED BY <1>1, <1>4, <2>3
  <1> QED BY <1>5, <1>6, DropFragments

\* A connection that goes down takes its fragments, its callbacks and its packets
\* outstanding with it, and leaves its credits.
LEMMA UnregisterStep ==
  ASSUME IInv, NEW h \in Handles, Unregister(h)
  PROVE  IInv'
  <1> DEFINE f == fragments_to_send_
             q == drop_packet_fragments(h)
             s == sent_packets(h, q)
             t == ConnectionType[h]
             hs == acl_queue_handlers_ \ {h}
             dq == dequeue_is_registered_ \ {h}
             r == NotReady(ready, h)
             e == enqueue_registered_ /\ (Empty(f) \/ ~Empty(q))
             sp == Begin(hs)
  <1>1. /\ h \in acl_queue_handlers_
        /\ acl_queue_handlers_' = hs
        /\ number_of_sent_packets_' = [number_of_sent_packets_ EXCEPT ![h] = 0]
        /\ high_priority_' = high_priority_ \ {h}
        /\ fragments_to_send_' = q
        /\ credits' = [credits EXCEPT ![t] = credits[t] + s]
        /\ waiting' = [waiting EXCEPT ![h] = 0]
        /\ outstanding' = [outstanding EXCEPT ![h] = 0]
        /\ UNCHANGED posted
    BY DEF Unregister
  <1>2. \/ start_round_robin(dq, r, sp, e)
        \/ /\ dequeue_is_registered_' = dq
           /\ ready' = r
           /\ starting_point_' = sp
           /\ enqueue_registered_' = e
    BY DEF Unregister, reset_starting_point
  <1>3. \/ /\ q = f
           /\ drop_acl_fragment_on_disconnect => Empty(f) \/ Front(f) # h
        \/ /\ drop_acl_fragment_on_disconnect /\ ~Empty(f) /\ Front(f) = h
           /\ q \in [{0, 1} -> Seq(Handles)] /\ Empty(q)
    BY DropFragments
  <1>4. /\ s \in Nat
        /\ drop_acl_fragment_on_disconnect => s = outstanding[h]
        /\ MaxCredits[t] = 0 => s = 0
    BY Reclaimed
  <1>5. /\ f \in [{0, 1} -> Seq(Handles)] /\ AllOf(f, Front(f))
        /\ credits \in [Types -> Nat] /\ outstanding \in [Handles -> Nat]
        /\ number_of_sent_packets_ \in [Handles -> Nat]
        /\ acl_queue_handlers_ \subseteq Handles
    BY DEF IInv, DataTypes
  <1>6. Callbacks(dequeue_is_registered_, ready, starting_point_, enqueue_registered_,
                  acl_queue_handlers_, f, credits, waiting)
    BY DEF IInv
  <1>7. t \in Types /\ credits[t] \in Nat /\ outstanding[h] \in Nat
    BY <1>5, ConstantsAssumption
  <1> HIDE DEF q, s, t, r, sp
  <1>8. q \in [{0, 1} -> Seq(Handles)] /\ (~Empty(q) => q = f)
    BY <1>3, <1>5
  <1>9. /\ credits' \in [Types -> Nat] /\ credits'[t] = credits[t] + s
        /\ \A u \in Types : u # t => credits'[u] = credits[u]
    BY <1>1, <1>4, <1>5, <1>7
  <1>10. /\ outstanding' \in [Handles -> Nat] /\ outstanding'[h] = 0
         /\ \A g \in Handles : g # h => outstanding'[g] = outstanding[g]
    BY <1>1, <1>5
  <1>11. /\ number_of_sent_packets_' \in [Handles -> Nat]
         /\ number_of_sent_packets_'[h] = 0
         /\ \A g \in Handles : g # h =>
              number_of_sent_packets_'[g] = number_of_sent_packets_[g]
    BY <1>1, <1>5
  <1>12. DataTypes'
    <2>1. waiting' \in [Handles -> 0..QueueDepth]
      <3>1. 0 \in 0..QueueDepth
        BY ConstantsAssumption
      <3> QED BY <1>1, <3>1 DEF IInv, DataTypes
    <2> QED BY <1>1, <1>8, <1>9, <1>10, <1>11, <2>1 DEF IInv, DataTypes
  <1>13. \A u \in Types : credits[u] # 0 => credits'[u] # 0
    BY <1>4, <1>5, <1>7, <1>9
  <1>14. \A g \in hs : waiting'[g] = waiting[g]
    BY <1>1, <1>5 DEF IInv, DataTypes
  <1>15. Callbacks(dq, r, sp, e, hs, q, credits', waiting')
    <2>1. /\ dequeue_is_registered_ \subseteq acl_queue_handlers_
          /\ ready \in Seq(dequeue_is_registered_) /\ Distinct(ready)
          /\ \A i \in DOMAIN ready : waiting[ready[i]] > 0
          /\ \A g \in dequeue_is_registered_ : credits[ConnectionType[g]] # 0
          /\ dequeue_is_registered_ # {} => Empty(f)
      BY <1>6 DEF Callbacks
    <2>2. /\ r \in Seq(dq) /\ Distinct(r)
          /\ \A i \in DOMAIN r : waiting[r[i]] > 0
      <3> DEFINE D == {g \in dequeue_is_registered_ : waiting[g] > 0}
      <3>1. ready \in Seq(D) /\ Distinct(ready)
        BY <2>1
      <3>2. NotReady(ready, h) \in Seq(D \ {h})
        <4> HIDE DEF D
        <4> QED BY <3>1, NotReadyOne
      <3>3. Distinct(NotReady(ready, h))
        <4> HIDE DEF D
        <4> QED BY <3>1, NotReadyOne
      <3>4. r \in Seq(D \ {h})
        BY <3>2 DEF r
      <3>5. r \in Seq(dq) /\ \A i \in DOMAIN r : waiting[r[i]] > 0
        BY <3>4
      <3> QED BY <3>3, <3>5 DEF r
    <2>3. dq \subseteq hs
      BY <2>1
    <2>4. \A i \in DOMAIN r : waiting'[r[i]] > 0
      <3> SUFFICES ASSUME NEW i \in DOMAIN r PROVE waiting'[r[i]] > 0
        OBVIOUS
      <3>1. r[i] \in hs
        BY <2>2, <2>3
      <3> QED BY <1>14, <2>1, <2>2, <3>1
    <2>5. sp \in hs \cup {END}
      BY <1>5, BeginType DEF sp
    <2>6. \A g \in dq : credits'[ConnectionType[g]] # 0
      <3> SUFFICES ASSUME NEW g \in dq PROVE credits'[ConnectionType[g]] # 0
        OBVIOUS
      <3>1. ConnectionType[g] \in Types
        BY <1>5, <2>1, ConstantsAssumption
      <3> QED BY <1>13, <2>1, <3>1
    <2>7. e \in BOOLEAN
      BY Zenon
    <2>8. e => CanSend(q, credits')
      <3> SUFFICES ASSUME e PROVE CanSend(q, credits')
        OBVIOUS
      <3>1. ~Empty(f) /\ credits[ConnectionType[Front(f)]] # 0
        BY <1>6 DEF Callbacks, CanSend
      <3>2. ~Empty(q) /\ q = f
        BY <1>8, <3>1
      <3>3. Front(f) \in Handles
        BY <1>5, <3>1, PopFront
      <3>4. ConnectionType[Front(f)] \in Types
        BY <3>3, ConstantsAssumption
      <3> QED BY <1>13, <3>1, <3>2, <3>4 DEF CanSend
    <2>9. dq # {} => Empty(q)
      BY <1>3, <2>1
    <2> QED BY <2>2, <2>3, <2>4, <2>5, <2>6, <2>7, <2>8, <2>9, Zenon DEF Callbacks
  <1>16. Callbacks(dequeue_is_registered_', ready', starting_point_',
                   enqueue_registered_', acl_queue_handlers_', fragments_to_send_',
                   credits', waiting')
    <2>1. Callbacks(dq, r, sp, e, acl_queue_handlers_', fragments_to_send_', credits',
                    waiting')
      BY <1>1, <1>15
    <2>2. CASE start_round_robin(dq, r, sp, e)
      <3>1. /\ acl_queue_handlers_' \subseteq Handles
            /\ \A g \in acl_queue_handlers_' : waiting'[g] = waiting[g]
        BY <1>1, <1>12, <1>14 DEF DataTypes
      <3> HIDE DEF dq, e
      <3> QED BY <2>1, <2>2, <3>1, StartCallbacks
    <2>3. CASE /\ dequeue_is_registered_' = dq
               /\ ready' = r
               /\ starting_point_' = sp
               /\ enqueue_registered_' = e
      BY <2>1, <2>3, Zenon
    <2> QED BY <1>2, <2>2, <2>3
  <1>17. AllOf(fragments_to_send_', Front(fragments_to_send_'))
    <2>1. CASE Empty(q)
      BY <1>1, <2>1, EmptyAllOf
    <2>2. CASE ~Empty(q)
      BY <1>1, <1>5, <1>8, <2>2
    <2> QED BY <2>1, <2>2
  <1>18. Unused(number_of_sent_packets_', outstanding', credits')
    <2>1. ASSUME NEW g \in Handles, MaxCredits[ConnectionType[g]] = 0
          PROVE  /\ credits'[ConnectionType[g]] = 0 /\ number_of_sent_packets_'[g] = 0
                 /\ outstanding'[g] = 0
      <3>1. /\ credits[ConnectionType[g]] = 0 /\ number_of_sent_packets_[g] = 0
            /\ outstanding[g] = 0 /\ ConnectionType[g] \in Types
        BY <2>1, ConstantsAssumption DEF IInv, Unused
      <3>2. credits'[ConnectionType[g]] = 0
        BY <1>4, <1>9, <2>1, <3>1
      <3> QED BY <1>10, <1>11, <3>1, <3>2
    <2> QED BY <2>1 DEF Unused
  <1>19. Accounting'
    <2> SUFFICES ASSUME drop_acl_fragment_on_disconnect
                 PROVE  /\ Charged(number_of_sent_packets_', outstanding', q)
                        /\ ~Empty(q) => Front(q) \in hs
                        /\ FreeBuffers(credits', outstanding')
      BY <1>1 DEF Accounting
    <2>1. /\ Charged(number_of_sent_packets_, outstanding, f)
          /\ ~Empty(f) => Front(f) \in acl_queue_handlers_
          /\ FreeBuffers(credits, outstanding)
      BY DEF IInv, Accounting
    <2>2. ~Empty(q) => q = f /\ Front(q) \in hs
      BY <1>3, <2>1
    <2>3. FreeBuffers(credits', outstanding')
      <3>1. credits'[ConnectionType[h]] + outstanding'[h]
              = credits[ConnectionType[h]] + outstanding[h]
        BY <1>4, <1>7, <1>9, <1>10 DEF t
      <3>2. \A u \in Types : u # ConnectionType[h] => credits'[u] = credits[u]
        BY <1>9 DEF t
      <3>3. /\ credits \in [Types -> Nat] /\ credits' \in [Types -> Nat]
            /\ outstanding \in [Handles -> Nat] /\ outstanding' \in [Handles -> Nat]
        BY <1>5, <1>9, <1>10
      <3>4. \A g \in Handles : g # h => outstanding'[g] = outstanding[g]
        BY <1>10
      <3>5. FreeBuffers(credits, outstanding)
        BY <2>1
      <3> QED BY <3>1, <3>2, <3>3, <3>4, <3>5, BuffersMove, ZenonT(60)
    <2>4. ASSUME NEW g \in Handles
          PROVE  number_of_sent_packets_'[g]
                   = outstanding'[g] + (IF ~Empty(q) /\ g = Front(q) THEN Size(q) ELSE 0)
      <3>1. CASE g = h
        <4>1. ~(~Empty(q) /\ g = Front(q))
          BY <2>2, <3>1
        <4>2. number_of_sent_packets_'[h] = 0 /\ outstanding'[h] = 0
          BY <1>10, <1>11
        <4> QED BY <3>1, <4>1, <4>2
      <3>2. CASE g # h
        <4>1. number_of_sent_packets_[g] = outstanding[g]
                + (IF ~Empty(f) /\ g = Front(f) THEN Size(f) ELSE 0)
          BY <2>1 DEF Charged
        <4>2. (IF ~Empty(f) /\ g = Front(f) THEN Size(f) ELSE 0)
                = (IF ~Empty(q) /\ g = Front(q) THEN Size(q) ELSE 0)
          BY <1>3, <3>2
        <4> QED BY <1>10, <1>11, <3>2, <4>1, <4>2
      <3> QED BY <3>1, <3>2
    <2>5. Charged(number_of_sent_packets_', outstanding', q)
      BY <2>4 DEF Charged
    <2> QED BY <2>2, <2>3, <2>5
  <1> QED BY <1>12, <1>16, <1>17, <1>18, <1>19 DEF IInv

\* The scheduler starts with all buffers of the controller free.
LEMMA InvInit == Init => IInv
  <1> SUFFICES ASSUME Init PROVE IInv
    OBVIOUS
  <1> USE DEF Init
  <1>1. Empty(fragments_to_send_)
    BY DEF Empty
  <1>2. DataTypes
    <2>1. 0 \in 0..MaxPosted /\ 0 \in 0..QueueDepth /\ 0 \in Nat
      BY ConstantsAssumption
    <2> QED BY <2>1, ConstantsAssumption DEF DataTypes
  <1>3. Callbacks(dequeue_is_registered_, ready, starting_point_, enqueue_registered_,
                  acl_queue_handlers_, fragments_to_send_, credits, waiting)
    <2>1. <<>> \in Seq({}) /\ DOMAIN <<>> = {}
      OBVIOUS
    <2> QED BY <2>1 DEF Callbacks, Distinct
  <1>4. AllOf(fragments_to_send_, Front(fragments_to_send_))
    BY <1>1, EmptyAllOf
  <1>5. Unused(number_of_sent_packets_, outstanding, credits)
    BY DEF Unused
  <1>6. Charged(number_of_sent_packets_, outstanding, fragments_to_send_)
    BY <1>1 DEF Charged
  <1>7. FreeBuffers(credits, outstanding)
    <2>1. ASSUME NEW t \in Types
          PROVE  Cardinality(Buffers(outstanding, OfType(t))) = 0
      <3>1. 1..0 = {}
        OBVIOUS
      <3>2. Buffers(outstanding, OfType(t)) = {}
        BY <3>1 DEF Buffers, OfType
      <3> QED BY <3>2, FS_EmptySet
    <2>2. \A t \in Types : credits[t] = MaxCredits[t] /\ MaxCredits[t] + 0 = MaxCredits[t]
      BY ConstantsAssumption
    <2> QED BY <2>1, <2>2 DEF FreeBuffers
  <1> QED BY <1>1, <1>2, <1>3, <1>4, <1>5, <1>6, <1>7 DEF IInv, Accounting

\* Every handler preserves the invariant.
LEMMA InvStep == IInv /\ [Next]_vars => IInv'
  <1> SUFFICES ASSUME IInv, [Next]_vars PROVE IInv'
    OBVIOUS
  <1>1. CASE \E h \in Handles : EnqueuePacket(h)
    BY <1>1, EnqueuePacketStep
  <1>2. CASE \E h \in Handles : Register(h)
    BY <1>2, RegisterStep
  <1>3. CASE \E h \in Handles : Unregister(h)
    BY <1>3, UnregisterStep
  <1>4. CASE \E h \in Handles, b \in BOOLEAN : SetLinkPriority(h, b)
    BY <1>4, SetLinkPriorityStep
  <1>5. CASE \E h \in Handles : Buffered(h)
    BY <1>5, BufferPacketStep DEF Buffered
  <1>6. CASE handle_enqueue_next_fragment
    BY <1>6, EnqueueFragmentStep
  <1>7. CASE RunPosted
    BY <1>7, RunPostedStep
  <1>8. CASE \E h \in Handles : Credited(h)
    BY <1>8, CreditsStep DEF Credited
  <1>9. CASE UNCHANGED vars
    BY <1>9 DEF vars, IInv, DataTypes, Accounting
  <1> QED BY <1>1, <1>2, <1>3, <1>4, <1>5, <1>6, <1>7, <1>8, <1>9 DEF Next

\* The inductive invariant holds of the scheduler.
LEMMA Invariance == Spec => []IInv
  BY InvInit, InvStep, PTL DEF Spec
-----------------------------------------------------------------------------
(***************************************************************************)
(* Theorems.                                                               *)
(***************************************************************************)

\* The scheduler's state is well typed: in particular starting_point_ never is an
\* iterator of an erased connection.
THEOREM TypeCorrect == Spec => []TypeOK
  <1>1. IInv => TypeOK
    BY DEF IInv, DataTypes, Callbacks, TypeOK
  <1> QED BY <1>1, Invariance, PTL

\* The assertions of handle_enqueue_next_fragment and buffer_packet never fail.
THEOREM CallbacksFindTheirDataHolds == Spec => []CallbacksFindTheirData
  <1>1. IInv => CallbacksFindTheirData
    BY DEF IInv, Callbacks, CallbacksFindTheirData
  <1> QED BY <1>1, Invariance, PTL

\* Fragments of two packets are never mixed, and no packet is taken from a queue
\* while fragments wait.
THEOREM OnePacketAtATimeHolds == Spec => []OnePacketAtATime
  <1>1. IInv => OnePacketAtATime
    BY DEF IInv, Callbacks, AllOf, OnePacketAtATime
  <1> QED BY <1>1, Invariance, PTL

\* With drop_acl_fragment_on_disconnect no disconnection, at whatever point of a
\* packet, loses a credit or makes one up.
THEOREM CreditsAreFreeBuffersHolds ==
  ASSUME drop_acl_fragment_on_disconnect
  PROVE  Spec => []CreditsAreFreeBuffers
  <1>1. IInv => CreditsAreFreeBuffers
    <2> SUFFICES ASSUME IInv, NEW t \in Types
                 PROVE  credits[t] + Cardinality(InFlight(t)) = MaxCredits[t]
      BY DEF CreditsAreFreeBuffers
    <2>1. InFlight(t) = Buffers(outstanding, OfType(t))
      BY DEF InFlight, Buffers, OfType
    <2> QED BY <2>1 DEF IInv, Accounting, FreeBuffers
  <1> QED BY <1>1, Invariance, PTL

\* While no connection goes down, the scheduler never leaves a connection with
\* credits unwatched when it has nothing to send.
THEOREM NeverIdleHolds ==
  ASSUME Disconnecting = {}
  PROVE  Spec => []NeverIdle
  <1>1. Init => NeverIdle
    BY DEF Init, NeverIdle
  <1>2. ASSUME NEW dq, NEW r, NEW sp, NEW e, IInv', start_round_robin(dq, r, sp, e),
               dq \subseteq acl_queue_handlers_', r \in Seq(dq), Distinct(r),
               sp \in acl_queue_handlers_' \cup {END}
        PROVE  NeverIdle'
    <2>1. acl_queue_handlers_' \subseteq Handles
      BY <1>2 DEF IInv, DataTypes
    <2>2. Empty(fragments_to_send_') =>
            \A h \in acl_queue_handlers_' :
              credits'[ConnectionType[h]] # 0 => h \in dequeue_is_registered_'
      BY <1>2, <2>1, StartKeeps
    <2>3. \A h \in acl_queue_handlers_' : credits'[ConnectionType[h]] \in Nat
      BY <1>2, <2>1, ConstantsAssumption DEF IInv, DataTypes
    <2> QED BY <2>2, <2>3 DEF NeverIdle
  <1>3. ASSUME IInv, IInv', NeverIdle, [Next]_vars
        PROVE  NeverIdle'
    <2>1. /\ dequeue_is_registered_ \subseteq acl_queue_handlers_
          /\ ready \in Seq(dequeue_is_registered_) /\ Distinct(ready)
          /\ starting_point_ \in acl_queue_handlers_ \cup {END}
      BY <1>3 DEF IInv, Callbacks
    <2>2. ASSUME start_round_robin(dequeue_is_registered_, ready, starting_point_,
                                   enqueue_registered_),
                 acl_queue_handlers_ \subseteq acl_queue_handlers_'
          PROVE  NeverIdle'
      <3>1. /\ dequeue_is_registered_ \subseteq acl_queue_handlers_'
            /\ starting_point_ \in acl_queue_handlers_' \cup {END}
        BY <2>1, <2>2
      <3> QED BY <1>2, <1>3, <2>1, <2>2, <3>1
    <2>3. ASSUME NEW h \in Handles, EnqueuePacket(h) PROVE NeverIdle'
      BY <1>3, <2>3 DEF EnqueuePacket, NeverIdle
    <2>4. ASSUME NEW h \in Handles, Register(h) PROVE NeverIdle'
      <3>1. CASE Empty(fragments_to_send_)
        BY <2>2, <2>4, <3>1 DEF Register
      <3>2. CASE ~Empty(fragments_to_send_)
        BY <2>4, <3>2 DEF Register, NeverIdle
      <3> QED BY <3>1, <3>2
    <2>5. ASSUME NEW h \in Handles, NEW b, SetLinkPriority(h, b) PROVE NeverIdle'
      BY <1>3, <2>5 DEF SetLinkPriority, NeverIdle
    <2>6. ASSUME NEW h \in Handles, NEW n \in 1..MaxFragments, buffer_packet(h, n)
          PROVE  NeverIdle'
      <3>1. enqueue_registered_'
        BY <2>6 DEF buffer_packet
      <3>2. ~Empty(fragments_to_send_')
        BY <1>3, <3>1 DEF IInv, Callbacks, CanSend
      <3> QED BY <3>2 DEF NeverIdle
    <2>7. CASE handle_enqueue_next_fragment
      <3>1. posted \in Nat
        BY <1>3, ConstantsAssumption DEF IInv, DataTypes
      <3>2. Empty(fragments_to_send_') => posted' = posted + 1
        BY <2>7 DEF handle_enqueue_next_fragment
      <3> QED BY <3>1, <3>2 DEF NeverIdle
    <2>8. CASE RunPosted
      BY <2>2, <2>8 DEF RunPosted
    <2>9. ASSUME NEW h \in Handles, NEW n \in 1..outstanding[h],
                 incoming_acl_credits(h, n)
          PROVE  NeverIdle'
      <3>1. CASE credits[ConnectionType[h]] = 0
        BY <2>2, <2>9, <3>1 DEF incoming_acl_credits, credit_was_zero
      <3>2. CASE credits[ConnectionType[h]] # 0
        <4>1. /\ UNCHANGED <<acl_queue_handlers_, fragments_to_send_, posted,
                             dequeue_is_registered_>>
              /\ \A t \in Types : t # ConnectionType[h] => credits'[t] = credits[t]
          BY <1>3, <2>9, <3>2
          DEF incoming_acl_credits, credit_was_zero, NoRestart, IInv, DataTypes
        <4>2. \A t \in Types : credits[t] \in Nat
          BY <1>3 DEF IInv, DataTypes
        <4>3. \A g \in acl_queue_handlers_ : ConnectionType[g] \in Types
          BY <1>3, ConstantsAssumption DEF IInv, DataTypes
        <4>4. \A g \in acl_queue_handlers_ :
                credits'[ConnectionType[g]] > 0 => credits[ConnectionType[g]] > 0
          BY <3>2, <4>1, <4>2, <4>3
        <4> QED BY <1>3, <4>1, <4>4 DEF NeverIdle
      <3> QED BY <3>1, <3>2
    <2>10. CASE UNCHANGED vars
      BY <1>3, <2>10 DEF vars, NeverIdle
    <2>11. \A h \in Handles : ~Unregister(h)
      BY DEF Unregister
    <2> QED BY <1>3, <2>3, <2>4, <2>5, <2>6, <2>7, <2>8, <2>9, <2>10, <2>11
            DEF Next, Buffered, Credited
  <1> QED BY <1>1, <1>3, Invariance, PTL DEF Spec
=============================================================================
