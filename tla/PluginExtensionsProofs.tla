----------------------- MODULE PluginExtensionsProofs -----------------------
(***************************************************************************)
(* What holds of PluginExtensions for every number of tokens and handles   *)
(* and every bound.                                                        *)
(***************************************************************************)
EXTENDS PluginExtensions, TLAPS, FiniteSetTheorems, FunctionTheorems,
        SequenceTheorems

-----------------------------------------------------------------------------
(* Lemmas about the operators on queues and tables.                        *)

(* Of two positions the greater has the greater rank.                      *)
LEMMA RanksGrow ==
  ASSUME NEW K \in SUBSET Nat, IsFiniteSet(K), NEW a \in K, NEW b \in K, a < b
  PROVE  Cardinality({j \in K : j <= a}) < Cardinality({j \in K : j <= b})
<1> DEFINE Below(k) == {j \in K : j <= k}
<1>1. Below(a) \in SUBSET Below(b)
  <2>1. \A j \in K : j <= a => j <= b
    OBVIOUS
  <2> QED BY <2>1
<1>2. b \in Below(b) /\ b \notin Below(a) /\ Below(b) \in SUBSET K
  OBVIOUS
<1> HIDE DEF Below
<1>3. IsFiniteSet(Below(b)) /\ IsFiniteSet(Below(a))
  BY <1>1, <1>2, FS_Subset
<1>4. Cardinality(Below(a)) <= Cardinality(Below(b))
      /\ Cardinality(Below(a)) # Cardinality(Below(b))
  BY <1>1, <1>2, <1>3, FS_Subset
<1>5. Cardinality(Below(a)) < Cardinality(Below(b))
  BY <1>3, <1>4, FS_CardinalityType
<1> QED BY <1>5 DEF Below

(* Every rank has its position: K has a first, a second, ... element.      *)
LEMMA NthExists ==
  ASSUME NEW K \in SUBSET Nat, IsFiniteSet(K), NEW i \in 1..Cardinality(K)
  PROVE  Nth(K, i) \in K /\ Cardinality({j \in K : j <= Nth(K, i)}) = i
<1> DEFINE Below(k) == {j \in K : j <= k}
           rank == [k \in K |-> Cardinality(Below(k))]
<1>1. \A k \in K : /\ IsFiniteSet(Below(k))
                   /\ Cardinality(Below(k)) \in 1..Cardinality(K)
  <2> SUFFICES ASSUME NEW k \in K
               PROVE  IsFiniteSet(Below(k)) /\ Cardinality(Below(k)) \in 1..Cardinality(K)
    OBVIOUS
  <2>1. Below(k) \in SUBSET K /\ k \in Below(k)
    OBVIOUS
  <2>2. IsFiniteSet(Below(k)) /\ Cardinality(Below(k)) <= Cardinality(K)
    BY <2>1, FS_Subset
  <2>3. Cardinality(Below(k)) # 0
    BY <2>1, <2>2, FS_EmptySet
  <2> HIDE DEF Below
  <2> QED BY <2>2, <2>3, FS_CardinalityType
<1>2. \A a, b \in K : a < b => Cardinality(Below(a)) < Cardinality(Below(b))
  BY RanksGrow
<1> HIDE DEF Below
<1>3. rank \in Injection(K, 1..Cardinality(K))
  <2>1. rank \in [K -> 1..Cardinality(K)]
    BY <1>1
  <2>2. \A a, b \in K : rank[a] = rank[b] => a = b
    BY <1>1, <1>2
  <2> QED BY <2>1, <2>2, Fun_IsInj
<1>4. Cardinality(K) \in Nat /\ IsFiniteSet(1..Cardinality(K))
      /\ Cardinality(1..Cardinality(K)) = Cardinality(K)
  BY FS_CardinalityType, FS_Interval
<1>5. rank \in Surjection(K, 1..Cardinality(K))
  <2> HIDE DEF rank
  <2> QED BY <1>3, <1>4, FS_Injection
<1>6. \E k \in K : rank[k] = i
  <2> HIDE DEF rank
  <2> QED BY <1>5 DEF Surjection
<1>7. \E k \in K : Cardinality({j \in K : j <= k}) = i
  BY <1>6 DEF Below
<1> QED BY <1>7 DEF Nth

(* Keeping positions of a queue yields a queue no longer than it, made of  *)
(* its elements.                                                           *)
LEMMA KeptIsASubsequence ==
  ASSUME NEW S, NEW s \in Seq(S), NEW K \in SUBSET (DOMAIN s)
  PROVE  /\ Kept(s, K) \in Seq(S)
         /\ Len(Kept(s, K)) <= Len(s)
         /\ \A i \in DOMAIN Kept(s, K) : \E k \in K : Kept(s, K)[i] = s[k]
<1>1. Len(s) \in Nat /\ DOMAIN s = 1..Len(s) /\ \A k \in 1..Len(s) : s[k] \in S
  BY LenProperties, ElementOfSeq
<1>2. IsFiniteSet(1..Len(s)) /\ Cardinality(1..Len(s)) = Len(s)
  BY <1>1, FS_Interval
<1>3. IsFiniteSet(K) /\ Cardinality(K) \in Nat /\ Cardinality(K) <= Len(s)
  BY <1>1, <1>2, FS_Subset, FS_CardinalityType
<1>4. \A i \in 1..Cardinality(K) : Nth(K, i) \in K
  <2>1. K \in SUBSET Nat
    BY <1>1
  <2> QED BY <2>1, <1>3, NthExists
<1>5. Kept(s, K) \in [1..Cardinality(K) -> S]
  BY <1>1, <1>4 DEF Kept
<1>6. Kept(s, K) \in Seq(S) /\ Len(Kept(s, K)) = Cardinality(K)
  BY <1>3, <1>5
<1>7. \A i \in DOMAIN Kept(s, K) : \E k \in K : Kept(s, K)[i] = s[k]
  BY <1>4 DEF Kept
<1> QED BY <1>3, <1>6, <1>7

(* What is kept stays in its order, and nothing of it is lost.             *)
LEMMA KeptInOrder ==
  ASSUME NEW S, NEW s \in Seq(S), NEW K \in SUBSET (DOMAIN s)
  PROVE  /\ DOMAIN Kept(s, K) = 1..Cardinality(K)
         /\ \A i \in DOMAIN Kept(s, K) : Nth(K, i) \in K /\ Kept(s, K)[i] = s[Nth(K, i)]
         /\ \A i, j \in DOMAIN Kept(s, K) : i < j => Nth(K, i) < Nth(K, j)
         /\ \A k \in K : \E i \in DOMAIN Kept(s, K) : Nth(K, i) = k
<1> DEFINE Rank(k) == Cardinality({j \in K : j <= k})
<1>1. Len(s) \in Nat /\ DOMAIN s = 1..Len(s)
  BY LenProperties
<1>2. IsFiniteSet(1..Len(s))
  BY <1>1, FS_Interval
<1>3. IsFiniteSet(K) /\ Cardinality(K) \in Nat /\ K \in SUBSET Nat
  BY <1>1, <1>2, FS_Subset, FS_CardinalityType
<1>4. \A i \in 1..Cardinality(K) : Nth(K, i) \in K /\ Rank(Nth(K, i)) = i
  BY <1>3, NthExists
<1>5. \A a, b \in K : a < b => Rank(a) < Rank(b)
  BY <1>3, RanksGrow
<1>6. \A k \in K : Rank(k) \in 1..Cardinality(K)
  <2> SUFFICES ASSUME NEW k \in K PROVE Rank(k) \in 1..Cardinality(K)
    OBVIOUS
  <2> DEFINE B == {j \in K : j <= k}
  <2>1. B \in SUBSET K /\ k \in B
    BY <1>3
  <2> HIDE DEF B
  <2>2. IsFiniteSet(B) /\ Cardinality(B) <= Cardinality(K) /\ Cardinality(B) # 0
    BY <1>3, <2>1, FS_Subset, FS_EmptySet
  <2>3. Cardinality(B) \in 1..Cardinality(K)
    BY <1>3, <2>2, FS_CardinalityType
  <2> QED BY <2>3 DEF B
<1> HIDE DEF Rank
<1>7. \A i, j \in 1..Cardinality(K) : i < j => Nth(K, i) < Nth(K, j)
  <2> SUFFICES ASSUME NEW i \in 1..Cardinality(K), NEW j \in 1..Cardinality(K), i < j,
                      ~(Nth(K, i) < Nth(K, j))
               PROVE  FALSE
    OBVIOUS
  <2>1. Nth(K, i) \in K /\ Nth(K, j) \in K /\ Rank(Nth(K, i)) = i /\ Rank(Nth(K, j)) = j
    BY <1>4
  <2>2. Nth(K, j) = Nth(K, i) \/ Nth(K, j) < Nth(K, i)
    BY <1>3, <2>1
  <2> QED BY <1>3, <1>5, <2>1, <2>2
<1>8. \A k \in K : Nth(K, Rank(k)) = k
  <2> SUFFICES ASSUME NEW k \in K PROVE Nth(K, Rank(k)) = k
    OBVIOUS
  <2>1. PICK n : n = Nth(K, Rank(k))
    OBVIOUS
  <2>2. n \in K /\ Rank(n) = Rank(k)
    BY <1>4, <1>6, <2>1
  <2>3. ~(n < k) /\ ~(k < n)
    BY <1>3, <1>5, <1>6, <2>2
  <2> QED BY <1>3, <2>1, <2>2, <2>3
<1>9. DOMAIN Kept(s, K) = 1..Cardinality(K)
      /\ \A i \in 1..Cardinality(K) : Kept(s, K)[i] = s[Nth(K, i)]
  BY DEF Kept
<1> QED BY <1>4, <1>6, <1>7, <1>8, <1>9

(* What every step makes of a queue q: it stays a bounded queue, and only  *)
(* deliveries to the callbacks in H are new.                               *)
Handles(q)     == {q[i].handle : i \in DOMAIN q}
Grown(r, q, H) == /\ r \in Seq(Delivery)
                  /\ Len(r) <= MaxPending
                  /\ Handles(r) \subseteq Handles(q) \cup H

(* What publishing makes of a queue s: deliveries to the callbacks in H    *)
(* come after those that were there, and answer nobody.                    *)
Extended(r, s, H) ==
  /\ Len(r) <= MaxPending
  /\ \E new \in Seq(Delivery) :
       /\ r = s \o new
       /\ \A i \in DOMAIN new : new[i].handle \in H /\ new[i].completion = None

LEMMA ExtendedGrows ==
  ASSUME NEW s \in Seq(Delivery), NEW H, NEW r, Extended(r, s, H)
  PROVE  Grown(r, s, H)
<1>1. PICK new \in Seq(Delivery) :
        r = s \o new /\ \A i \in DOMAIN new : new[i].handle \in H
  BY DEF Extended
<1>2. /\ r \in Seq(Delivery) /\ Len(new) \in Nat /\ DOMAIN new = 1..Len(new)
      /\ Len(s) \in Nat /\ DOMAIN s = 1..Len(s) /\ DOMAIN r = 1..Len(s) + Len(new)
      /\ \A i \in 1..Len(s) + Len(new) : r[i] = IF i <= Len(s) THEN s[i] ELSE new[i - Len(s)]
  BY <1>1, ConcatProperties, LenProperties
<1>3. \A i \in DOMAIN r : r[i].handle \in Handles(s) \cup H
  <2> SUFFICES ASSUME NEW i \in 1..Len(s) + Len(new)
               PROVE  r[i].handle \in Handles(s) \cup H
    BY <1>2
  <2>1. CASE i <= Len(s)
    <3>1. i \in DOMAIN s /\ r[i] = s[i]
      BY <1>2, <2>1
    <3> QED BY <3>1 DEF Handles
  <2>2. CASE ~(i <= Len(s))
    <3>1. i - Len(s) \in DOMAIN new /\ r[i] = new[i - Len(s)]
      BY <1>2, <2>2
    <3> QED BY <1>1, <3>1
  <2> QED BY <2>1, <2>2
<1> QED BY <1>2, <1>3 DEF Grown, Handles, Extended

(* Publishing adds deliveries to the given callbacks while there is room.  *)
LEMMA PublishedExtends ==
  ASSUME NEW s \in Seq(Delivery), Len(s) <= MaxPending,
         NEW H \in SUBSET Handle, NEW k \in Kind,
         NEW Q \in SUBSET Nat, IsFiniteSet(Q),
         NEW r \in Published(s, H, k, Q)
  PROVE  Extended(r, s, H)
<1> DEFINE P == H \X Q
           room == MaxPending - Len(s)
           n == IF Cardinality(P) <= room THEN Cardinality(P) ELSE room
<1>1. PICK o \in [1..n -> P] :
             r = s \o [i \in 1..n |-> Deliver(o[i][1], k, o[i][2], None)]
  BY DEF Published
<1>2. Cardinality(P) \in Nat
  BY ExtensionsAssumption, FS_Subset, FS_Product, FS_CardinalityType DEF ExtensionsAssumption
<1>3. room \in Nat
  BY LenProperties, ExtensionsAssumption DEF ExtensionsAssumption
<1>4. n \in Nat /\ n <= room
  BY <1>2, <1>3
<1> DEFINE new == [i \in 1..n |-> Deliver(o[i][1], k, o[i][2], None)]
<1>5. \A i \in 1..n : new[i] \in Delivery /\ new[i].handle \in H /\ new[i].completion = None
  <2> SUFFICES ASSUME NEW i \in 1..n
               PROVE  new[i] \in Delivery /\ new[i].handle \in H /\ new[i].completion = None
    OBVIOUS
  <2>1. o[i] \in P
    BY <1>1
  <2>2. o[i][1] \in H /\ o[i][2] \in Q
    BY <2>1
  <2>3. new[i] = Deliver(o[i][1], k, o[i][2], None)
    OBVIOUS
  <2> QED BY <2>2, <2>3 DEF Deliver, Delivery
<1>6. new \in Seq(Delivery) /\ Len(new) = n /\ DOMAIN new = 1..n
  <2>1. new \in [1..n -> Delivery]
    BY <1>5
  <2> HIDE DEF new, n
  <2> QED BY <2>1, <1>4
<1> HIDE DEF new, n, P, room
<1>7. r = s \o new
  BY <1>1 DEF new
<1>8. Len(r) = Len(s) + n /\ Len(s) \in Nat
  BY <1>6, <1>7, ConcatProperties, LenProperties
<1>9. Len(r) <= MaxPending
  BY <1>4, <1>8, ExtensionsAssumption DEF room, ExtensionsAssumption
<1> QED BY <1>5, <1>6, <1>7, <1>9 DEF Extended

LEMMA PublishedGrows ==
  ASSUME NEW s \in Seq(Delivery), Len(s) <= MaxPending,
         NEW H \in SUBSET Handle, NEW k \in Kind,
         NEW Q \in SUBSET Nat, IsFiniteSet(Q),
         NEW r \in Published(s, H, k, Q)
  PROVE  Grown(r, s, H)
  BY PublishedExtends, ExtendedGrows

(* So does a host or timer event, coalesced or not.                        *)
LEMMA RefreshedExtends ==
  ASSUME NEW s \in Seq(Delivery), Len(s) <= MaxPending,
         NEW H \in SUBSET Handle, NEW k \in Kind,
         NEW r \in Refreshed(s, H, k)
  PROVE  Extended(r, s, H)
<1>1. IsFiniteSet({0}) /\ {0} \in SUBSET Nat
  <2>1. IsFiniteSet({0})
    BY FS_Singleton
  <2> QED BY <2>1
<1>2. PICK h \in H : r \in Published(s, H \ {h}, k, {0}) \/ r \in Published(s, H, k, {0})
  BY DEF Refreshed
<1>3. Extended(r, s, H \ {h}) \/ Extended(r, s, H)
  <2>1. H \ {h} \in SUBSET Handle
    OBVIOUS
  <2> QED BY <1>1, <1>2, <2>1, PublishedExtends
<1> QED BY <1>3 DEF Extended

LEMMA RefreshedGrows ==
  ASSUME NEW s \in Seq(Delivery), Len(s) <= MaxPending,
         NEW H \in SUBSET Handle, NEW k \in Kind,
         NEW r \in Refreshed(s, H, k)
  PROVE  Grown(r, s, H)
  BY RefreshedExtends, ExtendedGrows

(* Putting a command at the back of a queue with room.                     *)
LEMMA JoinedGrows ==
  ASSUME NEW s \in Seq(Delivery), ~Full(s), NEW d \in Delivery
  PROVE  Grown(Joined(s, d), s, {d.handle})
<1>1. /\ Joined(s, d) \in Seq(Delivery)
      /\ Len(Joined(s, d)) = Len(s) + 1
      /\ Len(s) \in Nat
      /\ \A i \in DOMAIN Joined(s, d) : \/ Joined(s, d)[i] = d
                                        \/ (i \in DOMAIN s /\ Joined(s, d)[i] = s[i])
  BY LenProperties DEF Joined
<1>2. Len(s) < MaxPending
  BY <1>1, ExtensionsAssumption DEF Full, ExtensionsAssumption
<1>3. Len(Joined(s, d)) <= MaxPending
  BY <1>1, <1>2, ExtensionsAssumption DEF ExtensionsAssumption
<1>4. Handles(Joined(s, d)) \subseteq Handles(s) \cup {d.handle}
  BY <1>1 DEF Handles
<1> QED BY <1>1, <1>3, <1>4 DEF Grown

(* Purging a handle leaves no delivery to it.                              *)
LEMMA PurgedShrinks ==
  ASSUME NEW s \in Seq(Delivery), Len(s) <= MaxPending, NEW h
  PROVE  Grown(Purged(s, h), s, {}) /\ h \notin Handles(Purged(s, h))
<1> DEFINE K == DOMAIN s \ Positions(s, h)
<1>1. /\ Kept(s, K) \in Seq(Delivery)
      /\ Len(Kept(s, K)) <= Len(s)
      /\ \A i \in DOMAIN Kept(s, K) : \E k \in K : Kept(s, K)[i] = s[k]
  <2>1. K \in SUBSET (DOMAIN s)
    OBVIOUS
  <2> HIDE DEF K
  <2> QED BY <2>1, KeptIsASubsequence
<1>2. \A k \in K : s[k].handle \in Handles(s) /\ s[k].handle # h
  BY DEF Positions, Handles
<1>3. Len(Kept(s, K)) <= MaxPending
  BY <1>1, LenProperties, ExtensionsAssumption DEF ExtensionsAssumption
<1> HIDE DEF K
<1>4. Handles(Kept(s, K)) \subseteq Handles(s) /\ h \notin Handles(Kept(s, K))
  BY <1>1, <1>2 DEF Handles
<1> QED BY <1>1, <1>3, <1>4 DEF Grown, Purged, K

(* Popping the front delivery.                                             *)
LEMMA TailShrinks ==
  ASSUME NEW s \in Seq(Delivery), Len(s) <= MaxPending, s # <<>>
  PROVE  /\ Grown(Tail(s), s, {})
         /\ Head(s) \in Delivery
         /\ Head(s).handle \in Handles(s)
<1>1. /\ Head(s) \in Delivery
      /\ Tail(s) \in Seq(Delivery)
      /\ Len(Tail(s)) = Len(s) - 1
      /\ \A i \in 1 .. Len(Tail(s)) : Tail(s)[i] = s[i+1]
  BY HeadTailProperties
<1>2. Len(s) \in Nat /\ Len(s) # 0 /\ DOMAIN s = 1..Len(s)
      /\ DOMAIN Tail(s) = 1..Len(Tail(s)) /\ Head(s) = s[1]
  BY <1>1, LenProperties, EmptySeq
<1>3. \A i \in DOMAIN Tail(s) : i + 1 \in DOMAIN s
  BY <1>1, <1>2
<1>4. Len(Tail(s)) <= MaxPending
  BY <1>1, <1>2, ExtensionsAssumption DEF ExtensionsAssumption
<1>5. Handles(Tail(s)) \subseteq Handles(s)
  BY <1>1, <1>2, <1>3 DEF Handles
<1>6. 1 \in DOMAIN s
  BY <1>2
<1>7. Head(s).handle \in Handles(s)
  BY <1>2, <1>6 DEF Handles
<1> QED BY <1>1, <1>4, <1>5, <1>7 DEF Grown

(* Adding an entry to a table, and removing entries.                       *)
Table(f, T) == DOMAIN f \subseteq Handle /\ f \in [DOMAIN f -> T]

LEMMA WithIsATable ==
  ASSUME NEW T, NEW f, Table(f, T), NEW x \in Handle, NEW v \in T
  PROVE  /\ Table(With(f, x, v), T)
         /\ DOMAIN With(f, x, v) = DOMAIN f \cup {x}
         /\ With(f, x, v)[x] = v
         /\ \A y \in DOMAIN f \ {x} : With(f, x, v)[y] = f[y]
BY DEF With, Table

LEMMA WithoutIsATable ==
  ASSUME NEW T, NEW f, Table(f, T), NEW D
  PROVE  /\ Table(Without(f, D), T)
         /\ DOMAIN Without(f, D) = DOMAIN f \ D
         /\ \A y \in DOMAIN f \ D : Without(f, D)[y] = f[y]
BY DEF Without, Table

(* The completions of a queue are requests.                                *)
LEMMA OutstandingAreRequests ==
  ASSUME NEW s \in Seq(Delivery)
  PROVE  /\ Outstanding(s) \subseteq Request
         /\ IsFiniteSet(Outstanding(s))
<1> DEFINE J == {j \in DOMAIN s : s[j].completion # None}
           c == [i \in J |-> [token |-> s[i].completion, sequence |-> s[i].sequence]]
<1>1. Outstanding(s) = {c[i] : i \in J}
  BY DEF Outstanding
<1>2. \A i \in J : s[i] \in Delivery
  BY ElementOfSeq, LenProperties
<1>3. Outstanding(s) \subseteq Request
  <2>1. \A i \in J : s[i].completion \in Token /\ s[i].sequence \in Nat
    BY <1>2 DEF Delivery
  <2>2. \A i \in J : c[i] \in Request
    BY <2>1 DEF Request
  <2> HIDE DEF c, J
  <2> QED BY <1>1, <2>2
<1>4. IsFiniteSet(J)
  <2>1. IsFiniteSet(DOMAIN s)
    BY LenProperties, FS_Interval
  <2> QED BY <2>1, FS_Subset
<1>5. c \in Surjection(J, Outstanding(s))
  <2>1. c \in [J -> Outstanding(s)]
    BY <1>1
  <2>2. \A r \in Outstanding(s) : \E i \in J : c[i] = r
    BY <1>1
  <2> HIDE DEF c, J
  <2> QED BY <2>1, <2>2, Fun_IsSurj
<1>6. IsFiniteSet(Outstanding(s))
  <2> HIDE DEF c, J
  <2> QED BY <1>4, <1>5, FS_Surjection
<1> QED BY <1>3, <1>6

-----------------------------------------------------------------------------
(* Every action and the queues.                                            *)

CommandsAreCallbacks == DOMAIN commands \subseteq DOMAIN callbacks

WorkersHoldDeliveries ==
  \A t \in Token : worker[t] \in {"callback", "returned"} => delivery[t] \in Delivery

QueuesGrow == /\ pending' \in [Token -> Seq(Delivery)]
              /\ \A t \in Token : Grown(pending'[t], pending[t], CallbacksOf(t))

(* A step that leaves the queues alone.                                    *)
LEMMA QueuesUnchanged ==
  ASSUME TypeOK, QueuesAreBounded, UNCHANGED pending
  PROVE  QueuesGrow
BY DEF TypeOK, QueuesAreBounded, QueuesGrow, Grown

(* A step that changes the queue of t only.                                *)
LEMMA OneQueueGrows ==
  ASSUME TypeOK, QueuesAreBounded, NEW t \in Token, NEW r,
         Grown(r, pending[t], CallbacksOf(t)),
         pending' = [pending EXCEPT ![t] = r]
  PROVE  QueuesGrow
BY DEF TypeOK, QueuesAreBounded, QueuesGrow, Grown

LEMMA CompleteGrows ==
  ASSUME TypeOK, QueuesAreBounded, NEW r \in Request, Complete(r)
  PROVE  QueuesGrow /\ answered' \subseteq Request
<1> DEFINE H == Subscribers(r.token, "result")
<1>1. r.token \in Token /\ r.sequence \in Nat
  BY DEF Request
<1>2. PICK s \in Published(pending[r.token], H, "result", {r.sequence}) :
             pending' = [pending EXCEPT ![r.token] = s]
  BY DEF Complete
<1>3. H \subseteq CallbacksOf(r.token) /\ H \in SUBSET Handle
  BY DEF Subscribers, CallbacksOf, TypeOK
<1>4. IsFiniteSet({r.sequence}) /\ {r.sequence} \in SUBSET Nat
  <2>1. IsFiniteSet({r.sequence})
    BY FS_Singleton
  <2> QED BY <1>1, <2>1
<1>5. pending[r.token] \in Seq(Delivery) /\ Len(pending[r.token]) <= MaxPending
  BY <1>1 DEF TypeOK, QueuesAreBounded
<1>6. Grown(s, pending[r.token], H)
  <2>1. "result" \in Kind
    BY DEF Kind
  <2> HIDE DEF H
  <2> QED BY <1>2, <1>3, <1>4, <1>5, <2>1, PublishedGrows
<1>7. Grown(s, pending[r.token], CallbacksOf(r.token))
  BY <1>3, <1>6 DEF Grown
<1>8. QueuesGrow
  BY <1>1, <1>2, <1>7, OneQueueGrows
<1>9. answered' \subseteq Request
  BY DEF Complete, TypeOK
<1> QED BY <1>8, <1>9

(* Every action but Release and RevokeExtensions, which remove deliveries, *)
(* leaves the queues alone or adds to one what its callbacks may receive.  *)
LEMMA QueueSteps ==
  ASSUME TypeOK, QueuesAreBounded, CommandsAreCallbacks, WorkersHoldDeliveries, Next,
         ~ \E t \in Token : Release(t) \/ RevokeExtensions(t)
  PROVE  QueuesGrow
<1>1. ASSUME NEW t \in Token, CompleteCancelled(t)
      PROVE  QueuesGrow
  <2>1. PICK r \in cancelled[t] : Complete(r)
    BY <1>1 DEF CompleteCancelled
  <2>2. r \in Request
    BY DEF TypeOK
  <2> QED BY <2>1, <2>2, CompleteGrows
<1>2. ASSUME NEW t \in Token, ExecuteCommand(t)
      PROVE  QueuesGrow
  <2>1. PICK h \in DOMAIN commands :
              /\ ~Full(pending[callbacks[h].token])
              /\ Accept(t)
              /\ pending' = [pending EXCEPT ![callbacks[h].token] =
                   Joined(pending[callbacks[h].token], Deliver(h, "command", sequence', t))]
    BY <1>2 DEF ExecuteCommand
  <2> DEFINE c == callbacks[h].token
             d == Deliver(h, "command", sequence', t)
  <2>2. h \in CallbacksOf(c) /\ c \in Token /\ h \in Handle
    BY DEF CommandsAreCallbacks, CallbacksOf, TypeOK, Callback
  <2>3. d \in Delivery /\ d.handle = h
    BY <2>1, <2>2 DEF Deliver, Delivery, Kind, Accept, Draw, TypeOK
  <2>4. pending[c] \in Seq(Delivery)
    BY <2>2 DEF TypeOK
  <2> HIDE DEF d
  <2>5. Grown(Joined(pending[c], d), pending[c], {h})
    BY <2>1, <2>3, <2>4, JoinedGrows
  <2>6. Grown(Joined(pending[c], d), pending[c], CallbacksOf(c))
    BY <2>2, <2>5 DEF Grown
  <2> QED BY <2>1, <2>2, <2>6, OneQueueGrows DEF d
<1>3. ASSUME NEW t \in Token, FireTimers(t)
      PROVE  QueuesGrow
  <2>1. PICK due \in SUBSET CallbacksOf(t) : \E s \in Refreshed(pending[t], due, "timer") :
              pending' = [pending EXCEPT ![t] = s]
    BY <1>3 DEF FireTimers
  <2>2. PICK s \in Refreshed(pending[t], due, "timer") :
              pending' = [pending EXCEPT ![t] = s]
    BY <2>1
  <2>3. due \in SUBSET Handle /\ "timer" \in Kind
    BY DEF CallbacksOf, TypeOK, Kind
  <2>4. pending[t] \in Seq(Delivery) /\ Len(pending[t]) <= MaxPending
    BY DEF TypeOK, QueuesAreBounded
  <2>5. Grown(s, pending[t], due)
    BY <2>3, <2>4, RefreshedGrows
  <2>6. Grown(s, pending[t], CallbacksOf(t))
    BY <2>5 DEF Grown
  <2> QED BY <2>2, <2>6, OneQueueGrows
<1>4. ASSUME NEW t \in Token, BeginDelivery(t)
      PROVE  QueuesGrow
  <2>1. pending[t] # <<>> /\ pending' = [pending EXCEPT ![t] = Tail(pending[t])]
    BY <1>4 DEF BeginDelivery
  <2>2. pending[t] \in Seq(Delivery) /\ Len(pending[t]) <= MaxPending
    BY DEF TypeOK, QueuesAreBounded
  <2>3. Grown(Tail(pending[t]), pending[t], CallbacksOf(t))
    BY <2>1, <2>2, TailShrinks DEF Grown
  <2> QED BY <2>1, <2>3, OneQueueGrows
<1>5. ASSUME NEW t \in Token, CallbackReturns(t)
      PROVE  QueuesGrow
  <2>1. CASE delivery[t].completion = None
    BY <1>5, <2>1, QueuesUnchanged DEF CallbackReturns
  <2>2. CASE delivery[t].completion # None
    <3>1. Complete([token |-> delivery[t].completion, sequence |-> delivery[t].sequence])
      BY <1>5, <2>2 DEF CallbackReturns
    <3>2. [token |-> delivery[t].completion, sequence |-> delivery[t].sequence] \in Request
      BY <1>5, <2>2 DEF CallbackReturns, WorkersHoldDeliveries, Delivery, Request
    <3> QED BY <3>1, <3>2, CompleteGrows
  <2> QED BY <2>1, <2>2
<1>6. ASSUME ServeRequest
      PROVE  QueuesGrow
  <2>1. drained # <<>> /\ Complete(Served)
    BY <1>6 DEF ServeRequest
  <2>2. Head(drained) \in MediaRequest
    BY <2>1, HeadTailProperties DEF TypeOK
  <2>3. Served \in Request
    BY <2>2 DEF Served, Request, MediaRequest
  <2> QED BY <2>1, <2>3, CompleteGrows
<1>7. ASSUME AnswerForwarded
      PROVE  QueuesGrow
  <2>1. PICK r \in forwarded : Complete(r)
    BY <1>7 DEF AnswerForwarded
  <2>2. r \in Request
    BY DEF TypeOK
  <2> QED BY <2>1, <2>2, CompleteGrows
<1>8. ASSUME Invoke
      PROVE  QueuesGrow
  <2>1. PICK h \in DOMAIN commands :
              /\ ~Full(pending[callbacks[h].token])
              /\ pending' = [pending EXCEPT ![callbacks[h].token] =
                   Joined(pending[callbacks[h].token], Deliver(h, "command", 0, None))]
    BY <1>8 DEF Invoke
  <2> DEFINE c == callbacks[h].token
             d == Deliver(h, "command", 0, None)
  <2>2. h \in CallbacksOf(c) /\ c \in Token /\ h \in Handle
    BY DEF CommandsAreCallbacks, CallbacksOf, TypeOK, Callback
  <2>3. d \in Delivery /\ d.handle = h
    BY <2>2 DEF Deliver, Delivery, Kind
  <2>4. pending[c] \in Seq(Delivery)
    BY <2>2 DEF TypeOK
  <2> HIDE DEF d
  <2>5. Grown(Joined(pending[c], d), pending[c], {h})
    BY <2>1, <2>3, <2>4, JoinedGrows
  <2>6. Grown(Joined(pending[c], d), pending[c], CallbacksOf(c))
    BY <2>2, <2>5 DEF Grown
  <2> QED BY <2>1, <2>2, <2>6, OneQueueGrows DEF d
<1>9. ASSUME PublishHost
      PROVE  QueuesGrow
  <2> DEFINE H(t) == Subscribers(t, "host")
  <2>1. \A t \in Token : /\ pending[t] \in Seq(Delivery)
                         /\ Len(pending[t]) <= MaxPending
                         /\ H(t) \in SUBSET Handle
                         /\ H(t) \subseteq CallbacksOf(t)
    BY DEF TypeOK, QueuesAreBounded, Subscribers, CallbacksOf
  <2>2. /\ DOMAIN pending' = Token
        /\ pending' = [t \in Token |-> pending'[t]]
        /\ \A t \in Token : \/ pending'[t] = pending[t]
                            \/ pending'[t] \in Refreshed(pending[t], H(t), "host")
    BY <1>9 DEF PublishHost
  <2> HIDE DEF H
  <2>3. \A t \in Token : Grown(pending'[t], pending[t], CallbacksOf(t))
    <3> SUFFICES ASSUME NEW t \in Token
                 PROVE  Grown(pending'[t], pending[t], CallbacksOf(t))
      OBVIOUS
    <3>1. CASE pending'[t] = pending[t]
      BY <2>1, <3>1 DEF Grown
    <3>2. CASE pending'[t] \in Refreshed(pending[t], H(t), "host")
      <4>1. "host" \in Kind
        BY DEF Kind
      <4>2. Grown(pending'[t], pending[t], H(t))
        BY <2>1, <3>2, <4>1, RefreshedGrows
      <4> QED BY <2>1, <4>2 DEF Grown
    <3> QED BY <2>2, <3>1, <3>2
  <2>4. \A t \in Token : pending'[t] \in Seq(Delivery)
    BY <2>3 DEF Grown
  <2>5. pending' \in [Token -> Seq(Delivery)]
    BY <2>2, <2>4
  <2> QED BY <2>3, <2>5 DEF QueuesGrow
<1>10. ASSUME NEW t \in Token,
              \/ Enter(t) \/ EnterRelease(t) \/ Refused(t) \/ Subscribe(t)
              \/ CreateTimer(t) \/ RegisterCommand(t) \/ SetCommandEnabled(t)
              \/ ReleaseRefused(t) \/ ExecuteRefused(t) \/ QueueRequest(t)
              \/ EndDelivery(t) \/ StopWorker(t) \/ Load(t) \/ StartWorker(t)
              \/ Quiesce(t) \/ BeginRevoke(t) \/ RevokeResources(t)
       PROVE  QueuesGrow
  <2>1. UNCHANGED pending
    BY <1>10 DEF Enter, EnterRelease, Refused, Subscribe, CreateTimer,
       RegisterCommand, SetCommandEnabled, ReleaseRefused, ExecuteRefused,
       QueueRequest, EndDelivery, StopWorker, Load, StartWorker, Quiesce,
       BeginRevoke, RevokeResources, queues
  <2> QED BY <2>1, QueuesUnchanged
<1>11. ASSUME DrainRequests \/ SkipRequest \/ ForwardRequest
       PROVE  QueuesGrow
  <2>1. UNCHANGED pending
    BY <1>11 DEF DrainRequests, SkipRequest, ForwardRequest, queues
  <2> QED BY <2>1, QueuesUnchanged
<1> QED
  BY <1>1, <1>2, <1>3, <1>4, <1>5, <1>6, <1>7, <1>8, <1>9, <1>10, <1>11
     DEF Next, UiNext, PluginNext, WorkerNext

(* A release purges the queue of its plugin and leaves the others alone.   *)
LEMMA ReleaseQueues ==
  ASSUME TypeOK, QueuesAreBounded, NEW t \in Token, Release(t)
  PROVE  /\ QueuesGrow
         /\ \E h \in DOMAIN owners :
              /\ callbacks' = Without(callbacks, {h})
              /\ owners' = Without(owners, {h})
              /\ commands' = Without(commands, {h})
              /\ owners[h].token = t
              /\ ~Busy(h)
              /\ h \notin Handles(pending'[t])
              /\ cancelled' \in [Token -> SUBSET Request]
<1>1. PICK h \in DOMAIN owners :
           /\ callbacks' = Without(callbacks, {h})
           /\ owners' = Without(owners, {h})
           /\ commands' = Without(commands, {h})
           /\ owners[h].token = t
           /\ ~Busy(h)
           /\ pending' = [pending EXCEPT ![t] = Purged(pending[t], h)]
           /\ cancelled' = [cancelled EXCEPT ![t] =
                Outstanding(Kept(pending[t], Positions(pending[t], h)))]
  BY DEF Release, RemoveCommands
<1>2. pending[t] \in Seq(Delivery) /\ Len(pending[t]) <= MaxPending
  BY DEF TypeOK, QueuesAreBounded
<1>3. Grown(Purged(pending[t], h), pending[t], {}) /\ h \notin Handles(Purged(pending[t], h))
  BY <1>2, PurgedShrinks
<1>4. Grown(Purged(pending[t], h), pending[t], CallbacksOf(t))
  BY <1>3 DEF Grown
<1>5. pending'[t] = Purged(pending[t], h)
  BY <1>1 DEF TypeOK
<1>6. QueuesGrow
  BY <1>1, <1>4, OneQueueGrows
<1>7. cancelled' \in [Token -> SUBSET Request]
  <2>1. Positions(pending[t], h) \in SUBSET (DOMAIN pending[t])
    BY DEF Positions
  <2>2. Kept(pending[t], Positions(pending[t], h)) \in Seq(Delivery)
    BY <1>2, <2>1, KeptIsASubsequence
  <2>3. Outstanding(Kept(pending[t], Positions(pending[t], h))) \subseteq Request
    BY <2>2, OutstandingAreRequests
  <2> QED BY <1>1, <2>3 DEF TypeOK
<1> QED BY <1>1, <1>3, <1>5, <1>6, <1>7

(* A revocation empties the queue of its plugin; the others only grow.     *)
LEMMA RevokeExtends ==
  ASSUME TypeOK, QueuesAreBounded, NEW t \in Token, RevokeExtensions(t)
  PROVE  /\ pending' = [c \in Token |-> pending'[c]]
         /\ pending'[t] = <<>>
         /\ \A c \in Token \ {t} : Extended(pending'[c], pending[c], CallbacksOf(c))
<1> DEFINE Seqs(c) == {r.sequence : r \in {l \in Outstanding(pending[t]) : l.token = c}}
           H(c) == Subscribers(c, "result")
<1>1. /\ DOMAIN pending' = Token
      /\ pending' = [c \in Token |-> pending'[c]]
      /\ pending'[t] = <<>>
      /\ \A c \in Token \ {t} : pending'[c] \in Published(pending[c], H(c), "result", Seqs(c))
  BY DEF RevokeExtensions
<1>2. ASSUME NEW c \in Token \ {t}
      PROVE  Extended(pending'[c], pending[c], CallbacksOf(c))
  <2>1. pending[c] \in Seq(Delivery) /\ Len(pending[c]) <= MaxPending
    BY DEF TypeOK, QueuesAreBounded
  <2>2. H(c) \in SUBSET Handle /\ H(c) \subseteq CallbacksOf(c) /\ "result" \in Kind
    BY DEF Subscribers, CallbacksOf, TypeOK, Kind
  <2>3. Seqs(c) \in SUBSET Nat /\ IsFiniteSet(Seqs(c))
    <3> DEFINE L == {l \in Outstanding(pending[t]) : l.token = c}
               f == [r \in L |-> r.sequence]
    <3>1. pending[t] \in Seq(Delivery)
      BY DEF TypeOK
    <3>2. Outstanding(pending[t]) \subseteq Request /\ IsFiniteSet(Outstanding(pending[t]))
      BY <3>1, OutstandingAreRequests
    <3>3. L \in SUBSET Outstanding(pending[t])
      OBVIOUS
    <3>4. IsFiniteSet(L)
      BY <3>2, <3>3, FS_Subset
    <3>5. f \in [L -> Seqs(c)] /\ \A q \in Seqs(c) : \E r \in L : f[r] = q
      OBVIOUS
    <3>6. Seqs(c) \in SUBSET Nat
      BY <3>2 DEF Request
    <3> HIDE DEF f, L, Seqs
    <3>7. f \in Surjection(L, Seqs(c))
      BY <3>5, Fun_IsSurj
    <3> QED BY <3>4, <3>6, <3>7, FS_Surjection
  <2> HIDE DEF Seqs, H
  <2>4. pending'[c] \in Published(pending[c], H(c), "result", Seqs(c))
    BY <1>1
  <2>5. Extended(pending'[c], pending[c], H(c))
    BY <2>1, <2>2, <2>3, <2>4, PublishedExtends
  <2> QED BY <2>2, <2>5 DEF Extended
<1> QED BY <1>1, <1>2

LEMMA RevokeQueues ==
  ASSUME TypeOK, QueuesAreBounded, NEW t \in Token, RevokeExtensions(t)
  PROVE  /\ pending' \in [Token -> Seq(Delivery)]
         /\ pending'[t] = <<>>
         /\ \A c \in Token \ {t} : Grown(pending'[c], pending[c], CallbacksOf(c))
<1>1. /\ pending' = [c \in Token |-> pending'[c]] /\ pending'[t] = <<>>
      /\ \A c \in Token \ {t} : Extended(pending'[c], pending[c], CallbacksOf(c))
  BY RevokeExtends
<1>2. \A c \in Token \ {t} : Grown(pending'[c], pending[c], CallbacksOf(c))
  BY <1>1, ExtendedGrows DEF TypeOK
<1>3. \A c \in Token : pending'[c] \in Seq(Delivery)
  BY <1>1, <1>2, EmptySeq DEF Grown
<1>4. pending' \in [Token -> Seq(Delivery)]
  BY <1>1, <1>3
<1> QED BY <1>1, <1>2, <1>4

-----------------------------------------------------------------------------
(* Types and bounds.                                                       *)

LEMMA QueuesStayBounded ==
  ASSUME TypeOK, QueuesAreBounded, CommandsAreCallbacks, WorkersHoldDeliveries, Next
  PROVE  /\ pending' \in [Token -> Seq(Delivery)]
         /\ \A t \in Token : Len(pending'[t]) <= MaxPending
<1>1. CASE ~ \E t \in Token : Release(t) \/ RevokeExtensions(t)
  BY <1>1, QueueSteps DEF QueuesGrow, Grown
<1>2. ASSUME NEW t \in Token, Release(t)
      PROVE  /\ pending' \in [Token -> Seq(Delivery)]
             /\ \A c \in Token : Len(pending'[c]) <= MaxPending
  BY <1>2, ReleaseQueues DEF QueuesGrow, Grown
<1>3. ASSUME NEW t \in Token, RevokeExtensions(t)
      PROVE  /\ pending' \in [Token -> Seq(Delivery)]
             /\ \A c \in Token : Len(pending'[c]) <= MaxPending
  <2>1. Len(<<>>) <= MaxPending
    BY EmptySeq, ExtensionsAssumption DEF ExtensionsAssumption
  <2> QED BY <1>3, <2>1, RevokeQueues DEF Grown
<1> QED BY <1>1, <1>2, <1>3

Base == TypeOK /\ QueuesAreBounded /\ CommandsAreCallbacks /\ WorkersHoldDeliveries

LEMMA BaseInit == Init => Base
<1> SUFFICES ASSUME Init PROVE Base
  OBVIOUS
<1>1. TypeOK
  BY EmptySeq, ExtensionsAssumption
     DEF Init, TypeOK, ExtensionsAssumption, RegistryState, Phase
<1>2. QueuesAreBounded
  BY EmptySeq, ExtensionsAssumption DEF Init, QueuesAreBounded, ExtensionsAssumption
<1> QED BY <1>1, <1>2 DEF Init, Base, CommandsAreCallbacks, WorkersHoldDeliveries

(* The queue of requests, and the requests the UI thread has drained.      *)
LEMMA RequestsStayBounded ==
  ASSUME Base, Next
  PROVE  /\ requests' \in Seq(MediaRequest) /\ Len(requests') <= MaxPending
         /\ drained' \in Seq(MediaRequest)
<1>1. /\ requests \in Seq(MediaRequest) /\ Len(requests) <= MaxPending
      /\ drained \in Seq(MediaRequest)
  BY DEF Base, TypeOK, QueuesAreBounded
<1>2. /\ <<>> \in Seq(MediaRequest)
      /\ Len(<<>>) <= MaxPending
  BY EmptySeq, ExtensionsAssumption DEF ExtensionsAssumption
<1>3. ASSUME NEW t \in Token, QueueRequest(t)
      PROVE  /\ requests' \in Seq(MediaRequest) /\ Len(requests') <= MaxPending
             /\ drained' = drained
  <2>1. PICK media \in BOOLEAN :
              /\ ~Full(requests)
              /\ Accept(t)
              /\ requests' = Append(requests,
                   [token |-> t, sequence |-> sequence', media |-> media])
              /\ UNCHANGED ui
    BY <1>3 DEF QueueRequest
  <2>2. sequence' \in Nat
    BY <2>1 DEF Accept, Draw, Base, TypeOK
  <2>3. [token |-> t, sequence |-> sequence', media |-> media] \in MediaRequest
    BY <2>2 DEF MediaRequest
  <2>4. Len(requests) < MaxPending
    BY <1>1, <2>1, LenProperties, ExtensionsAssumption DEF Full, ExtensionsAssumption
  <2> QED BY <1>1, <2>1, <2>3, <2>4, LenProperties, AppendProperties, ExtensionsAssumption
          DEF ui, ExtensionsAssumption
<1>4. ASSUME NEW t \in Token, RevokeExtensions(t)
      PROVE  /\ requests' \in Seq(MediaRequest) /\ Len(requests') <= MaxPending
             /\ drained' = drained
  <2> DEFINE K == {i \in DOMAIN requests : requests[i].token # t}
  <2>1. requests' = Kept(requests, K) /\ drained' = drained
    BY <1>4 DEF RevokeExtensions, RequestsOfOthers, ui
  <2>2. K \in SUBSET (DOMAIN requests)
    OBVIOUS
  <2> HIDE DEF K
  <2>3. requests' \in Seq(MediaRequest) /\ Len(requests') <= Len(requests)
    BY <1>1, <2>1, <2>2, KeptIsASubsequence
  <2> QED BY <1>1, <2>1, <2>3, LenProperties, ExtensionsAssumption DEF ExtensionsAssumption
<1>5. CASE DrainRequests
  BY <1>1, <1>2, <1>5 DEF DrainRequests
<1>6. ASSUME SkipRequest \/ ServeRequest \/ ForwardRequest
      PROVE  /\ requests' = requests
             /\ drained' \in Seq(MediaRequest)
  <2>1. drained # <<>> /\ drained' = Tail(drained) /\ requests' = requests
    BY <1>6 DEF SkipRequest, ServeRequest, ForwardRequest, queues
  <2> QED BY <1>1, <2>1, HeadTailProperties
<1>7. ASSUME NEW t \in Token,
             \/ Enter(t) \/ EnterRelease(t) \/ Refused(t) \/ Subscribe(t)
             \/ CreateTimer(t) \/ RegisterCommand(t) \/ SetCommandEnabled(t)
             \/ Release(t) \/ ReleaseRefused(t) \/ CompleteCancelled(t)
             \/ ExecuteCommand(t) \/ ExecuteRefused(t) \/ WorkerNext(t)
             \/ Load(t) \/ StartWorker(t)
             \/ Quiesce(t) \/ BeginRevoke(t) \/ RevokeResources(t)
      PROVE  UNCHANGED <<requests, drained>>
  BY <1>7 DEF Enter, EnterRelease, Refused, Subscribe, CreateTimer,
     RegisterCommand, SetCommandEnabled, Release, ReleaseRefused,
     CompleteCancelled, ExecuteCommand, ExecuteRefused, WorkerNext, FireTimers,
     BeginDelivery, CallbackReturns, EndDelivery, StopWorker, Load, StartWorker,
     Quiesce, BeginRevoke, RevokeResources, queues, ui
<1>8. ASSUME AnswerForwarded \/ Invoke \/ PublishHost
      PROVE  UNCHANGED <<requests, drained>>
  BY <1>8 DEF AnswerForwarded, Invoke, PublishHost, ui
<1> QED
  BY <1>1, <1>3, <1>4, <1>5, <1>6, <1>7, <1>8 DEF Next, UiNext, PluginNext

(* The five ways in which a step can treat the tables of handles.          *)

(* Entries keep their owner, role and registration.                        *)
TablesKept ==
  /\ UNCHANGED <<owners, issued>>
  /\ DOMAIN commands' = DOMAIN commands /\ commands' \in [DOMAIN commands -> Command]
  /\ DOMAIN callbacks' = DOMAIN callbacks /\ callbacks' \in [DOMAIN callbacks -> Callback]
  /\ \A h \in DOMAIN callbacks : /\ callbacks'[h].token = callbacks[h].token
                                 /\ callbacks'[h].role = callbacks[h].role

(* t registers a callback under a fresh handle.                            *)
Registers(t) ==
  \E h \in Handle \ issued, e \in Owner, b \in Callback :
    /\ call[t] = "checked"
    /\ e.token = t /\ b.token = t
    /\ issued' = issued \cup {h}
    /\ owners' = With(owners, h, e)
    /\ callbacks' = With(callbacks, h, b)
    /\ \/ b.role = "command" /\ \E c \in Command : commands' = With(commands, h, c)
       \/ b.role # "command" /\ commands' = commands

(* t releases a handle it owns and no worker is calling.                   *)
Releases(t) ==
  \E h \in DOMAIN owners :
    /\ owners[h].token = t
    /\ ~Busy(h)
    /\ UNCHANGED issued
    /\ owners' = Without(owners, {h})
    /\ callbacks' = Without(callbacks, {h})
    /\ commands' = Without(commands, {h})
    /\ h \notin Handles(pending'[t])

LEMMA Registering ==
  ASSUME Base, NEW t \in Token, Subscribe(t) \/ CreateTimer(t) \/ RegisterCommand(t)
  PROVE  Registers(t)
<1>1. CASE Subscribe(t)
  <2>1. PICK h \in Handle, mask \in Masks :
              /\ Commit(t) /\ Allocate(t, "event", h)
              /\ Register(t, "event", mask, FALSE, h)
              /\ UNCHANGED commands
    BY <1>1 DEF Subscribe
  <2> DEFINE e == [token |-> t, kind |-> "event"]
             b == [token |-> t, role |-> "event", mask |-> mask, armed |-> "event" = "timer",
                   repeats |-> FALSE, in_flight |-> FALSE]
  <2>2. e \in Owner /\ b \in Callback /\ b.role # "command"
    BY ExtensionsAssumption DEF Owner, Callback, Role, ExtensionsAssumption
  <2>3. h \in Handle \ issued /\ owners' = With(owners, h, e) /\ issued' = issued \cup {h}
    BY <2>1 DEF Allocate, Fresh
  <2>4. callbacks' = With(callbacks, h, b)
    BY <2>1 DEF Register
  <2>5. e.token = t /\ b.token = t
    OBVIOUS
  <2> HIDE DEF e, b
  <2> QED BY <2>1, <2>2, <2>3, <2>4, <2>5 DEF Registers, Commit
<1>2. CASE CreateTimer(t)
  <2>1. PICK h \in Handle, repeats \in BOOLEAN :
              /\ Commit(t) /\ Allocate(t, "event", h)
              /\ Register(t, "timer", {}, repeats, h)
              /\ UNCHANGED commands
    BY <1>2 DEF CreateTimer
  <2> DEFINE e == [token |-> t, kind |-> "event"]
             b == [token |-> t, role |-> "timer", mask |-> {}, armed |-> "timer" = "timer",
                   repeats |-> repeats, in_flight |-> FALSE]
  <2>2. e \in Owner /\ b \in Callback /\ b.role # "command"
    BY DEF Owner, Callback, Role
  <2>3. h \in Handle \ issued /\ owners' = With(owners, h, e) /\ issued' = issued \cup {h}
    BY <2>1 DEF Allocate, Fresh
  <2>4. callbacks' = With(callbacks, h, b)
    BY <2>1 DEF Register
  <2>5. e.token = t /\ b.token = t
    OBVIOUS
  <2> HIDE DEF e, b
  <2> QED BY <2>1, <2>2, <2>3, <2>4, <2>5 DEF Registers, Commit
<1>3. CASE RegisterCommand(t)
  <2>1. PICK h \in Handle, n \in NameOf[t], enabled \in BOOLEAN :
              /\ Commit(t) /\ Allocate(t, "command", h)
              /\ Register(t, "command", {}, FALSE, h)
              /\ commands' = With(commands, h, [name |-> n, enabled |-> enabled])
    BY <1>3 DEF RegisterCommand
  <2> DEFINE e == [token |-> t, kind |-> "command"]
             b == [token |-> t, role |-> "command", mask |-> {}, armed |-> "command" = "timer",
                   repeats |-> FALSE, in_flight |-> FALSE]
             c == [name |-> n, enabled |-> enabled]
  <2>2. e \in Owner /\ b \in Callback /\ b.role = "command"
    BY DEF Owner, Callback, Role
  <2>3. h \in Handle \ issued /\ owners' = With(owners, h, e) /\ issued' = issued \cup {h}
    BY <2>1 DEF Allocate, Fresh
  <2>4. callbacks' = With(callbacks, h, b)
    BY <2>1 DEF Register
  <2>5. e.token = t /\ b.token = t
    OBVIOUS
  <2>6. c \in Command
    <3>1. n \in Name
      BY ExtensionsAssumption DEF ExtensionsAssumption
    <3> QED BY <3>1 DEF Command
  <2> HIDE DEF e, b, c
  <2>7. commands' = With(commands, h, c)
    BY <2>1 DEF c
  <2> QED BY <2>1, <2>2, <2>3, <2>4, <2>5, <2>6, <2>7 DEF Registers, Commit
<1> QED BY <1>1, <1>2, <1>3

LEMMA Releasing ==
  ASSUME Base, NEW t \in Token, Release(t)
  PROVE  Releases(t) /\ QueuesGrow
<1>1. UNCHANGED issued
  BY DEF Release
<1> QED BY <1>1, ReleaseQueues DEF Releases, Base

LEMMA TableSteps ==
  ASSUME Base, Next
  PROVE  \/ TablesKept
         \/ \E t \in Token : Registers(t) \/ Release(t) \/ RevokeExtensions(t) \/ RevokeResources(t)
<1>1. /\ owners \in [DOMAIN owners -> Owner]
      /\ commands \in [DOMAIN commands -> Command]
      /\ callbacks \in [DOMAIN callbacks -> Callback]
  BY DEF Base, TypeOK
<1>2. ASSUME UNCHANGED <<owners, issued, commands, callbacks>>
      PROVE  TablesKept
  BY <1>1, <1>2 DEF TablesKept
<1>3. ASSUME NEW t \in Token, SetCommandEnabled(t)
      PROVE  TablesKept
  BY <1>1, <1>3 DEF SetCommandEnabled, TablesKept, Command
<1>4. ASSUME NEW t \in Token, FireTimers(t)
      PROVE  TablesKept
  <2>1. PICK due \in SUBSET (DOMAIN callbacks) :
              callbacks' = [h \in DOMAIN callbacks |->
                IF h \in due THEN [callbacks[h] EXCEPT !.armed = callbacks[h].repeats]
                             ELSE callbacks[h]]
    BY <1>4 DEF FireTimers, CallbacksOf
  <2>2. UNCHANGED <<owners, issued, commands>>
    BY <1>4 DEF FireTimers
  <2>3. \A h \in DOMAIN callbacks : /\ callbacks'[h] \in Callback
                                    /\ callbacks'[h].token = callbacks[h].token
                                    /\ callbacks'[h].role = callbacks[h].role
    BY <1>1, <2>1 DEF Callback
  <2> QED BY <1>1, <2>1, <2>2, <2>3 DEF TablesKept
<1>5. ASSUME NEW t \in Token, BeginDelivery(t)
      PROVE  TablesKept
  <2>1. UNCHANGED <<owners, issued, commands>>
    BY <1>5 DEF BeginDelivery
  <2>2. \/ callbacks' = callbacks
        \/ \E g \in DOMAIN callbacks : callbacks' = [callbacks EXCEPT ![g].in_flight = TRUE]
    BY <1>5 DEF BeginDelivery
  <2>3. CASE callbacks' = callbacks
    BY <1>2, <2>1, <2>3
  <2>4. ASSUME NEW g \in DOMAIN callbacks, callbacks' = [callbacks EXCEPT ![g].in_flight = TRUE]
        PROVE  TablesKept
    <3>1. \A h \in DOMAIN callbacks : /\ callbacks'[h] \in Callback
                                      /\ callbacks'[h].token = callbacks[h].token
                                      /\ callbacks'[h].role = callbacks[h].role
      BY <1>1, <2>4 DEF Callback
    <3>2. DOMAIN callbacks' = DOMAIN callbacks /\ callbacks' \in [DOMAIN callbacks -> Callback]
      BY <2>4, <3>1
    <3> QED BY <1>1, <2>1, <3>1, <3>2 DEF TablesKept
  <2> QED BY <2>2, <2>3, <2>4
<1>6. ASSUME NEW t \in Token, EndDelivery(t)
      PROVE  TablesKept
  <2>1. callbacks' = [h \in DOMAIN callbacks |->
          IF h = delivery[t].handle THEN [callbacks[h] EXCEPT !.in_flight = FALSE]
                                    ELSE callbacks[h]]
    BY <1>6 DEF EndDelivery
  <2>2. UNCHANGED <<owners, issued, commands>>
    BY <1>6 DEF EndDelivery
  <2>3. \A h \in DOMAIN callbacks : /\ callbacks'[h] \in Callback
                                    /\ callbacks'[h].token = callbacks[h].token
                                    /\ callbacks'[h].role = callbacks[h].role
    BY <1>1, <2>1 DEF Callback
  <2> QED BY <1>1, <2>1, <2>2, <2>3 DEF TablesKept
<1>8. ASSUME NEW t \in Token,
             \/ Enter(t) \/ EnterRelease(t) \/ Refused(t) \/ ReleaseRefused(t)
             \/ CompleteCancelled(t) \/ ExecuteCommand(t) \/ ExecuteRefused(t)
             \/ QueueRequest(t) \/ CallbackReturns(t) \/ StopWorker(t)
             \/ Load(t) \/ StartWorker(t) \/ Quiesce(t) \/ BeginRevoke(t)
      PROVE  UNCHANGED <<owners, issued, commands, callbacks>>
  BY <1>8 DEF Enter, EnterRelease, Refused, ReleaseRefused, CompleteCancelled,
     ExecuteCommand, ExecuteRefused, QueueRequest, CallbackReturns, StopWorker,
     Load, StartWorker, Quiesce, BeginRevoke, table
<1>9. ASSUME \/ DrainRequests \/ SkipRequest \/ ServeRequest \/ ForwardRequest
             \/ AnswerForwarded \/ Invoke \/ PublishHost
      PROVE  UNCHANGED <<owners, issued, commands, callbacks>>
  BY <1>9 DEF DrainRequests, SkipRequest, ServeRequest, ForwardRequest,
     AnswerForwarded, Invoke, PublishHost, table
<1> QED
  BY <1>2, <1>3, <1>4, <1>5, <1>6, <1>8, <1>9, Registering
     DEF Next, UiNext, PluginNext, WorkerNext

LEMMA TablesStayTyped ==
  ASSUME Base, Next
  PROVE  /\ Table(owners', Owner) /\ Table(callbacks', Callback) /\ Table(commands', Command)
         /\ issued' \subseteq Handle
         /\ DOMAIN commands' \subseteq DOMAIN callbacks'
<1> DEFINE Goal ==
             /\ Table(owners', Owner) /\ Table(callbacks', Callback) /\ Table(commands', Command)
             /\ issued' \subseteq Handle
             /\ DOMAIN commands' \subseteq DOMAIN callbacks'
<1>1. /\ Table(owners, Owner) /\ Table(callbacks, Callback) /\ Table(commands, Command)
      /\ issued \subseteq Handle
      /\ DOMAIN commands \subseteq DOMAIN callbacks
  BY DEF Base, TypeOK, CommandsAreCallbacks, Table
<1>2. ASSUME TablesKept PROVE Goal
  <2>1. /\ Table(owners', Owner) /\ issued' \subseteq Handle
        /\ DOMAIN commands' \subseteq DOMAIN callbacks'
    BY <1>1, <1>2 DEF TablesKept
  <2>2. Table(callbacks', Callback)
    BY <1>1, <1>2 DEF TablesKept, Table
  <2>3. Table(commands', Command)
    BY <1>1, <1>2 DEF TablesKept, Table
  <2> QED BY <2>1, <2>2, <2>3
<1>3. ASSUME NEW t \in Token, Registers(t) PROVE Goal
  <2>1. PICK h \in Handle \ issued, e \in Owner, b \in Callback :
              /\ issued' = issued \cup {h}
              /\ owners' = With(owners, h, e)
              /\ callbacks' = With(callbacks, h, b)
              /\ commands' = commands \/ \E c \in Command : commands' = With(commands, h, c)
    BY <1>3 DEF Registers
  <2>2. Table(owners', Owner)
    BY <1>1, <2>1, WithIsATable
  <2>3. Table(callbacks', Callback) /\ DOMAIN callbacks' = DOMAIN callbacks \cup {h}
    <3>1. Table(With(callbacks, h, b), Callback)
      BY <1>1, WithIsATable
    <3>2. DOMAIN With(callbacks, h, b) = DOMAIN callbacks \cup {h}
      BY DEF With
    <3> QED BY <2>1, <3>1, <3>2
  <2>4. Table(commands', Command) /\ DOMAIN commands' \subseteq DOMAIN commands \cup {h}
    <3>1. CASE commands' = commands
      BY <1>1, <3>1
    <3>2. ASSUME NEW c \in Command, commands' = With(commands, h, c)
          PROVE  Table(commands', Command) /\ DOMAIN commands' = DOMAIN commands \cup {h}
      <4>1. Table(With(commands, h, c), Command)
        BY <1>1, WithIsATable
      <4>2. DOMAIN With(commands, h, c) = DOMAIN commands \cup {h}
        BY DEF With
      <4> QED BY <3>2, <4>1, <4>2
    <3> QED BY <2>1, <3>1, <3>2
  <2> QED BY <1>1, <2>1, <2>2, <2>3, <2>4
<1>4. ASSUME NEW D,
             /\ callbacks' = Without(callbacks, D)
             /\ commands' = Without(commands, D)
      PROVE  /\ Table(callbacks', Callback) /\ Table(commands', Command)
             /\ DOMAIN commands' \subseteq DOMAIN callbacks'
  <2>1. /\ Table(Without(callbacks, D), Callback)
        /\ DOMAIN Without(callbacks, D) = DOMAIN callbacks \ D
    BY <1>1, WithoutIsATable
  <2>2. /\ Table(Without(commands, D), Command)
        /\ DOMAIN Without(commands, D) = DOMAIN commands \ D
    BY <1>1, WithoutIsATable
  <2> QED BY <1>1, <1>4, <2>1, <2>2
<1>5. ASSUME NEW t \in Token, Release(t) PROVE Goal
  <2>1. PICK h : /\ UNCHANGED issued
                 /\ owners' = Without(owners, {h})
                 /\ callbacks' = Without(callbacks, {h})
                 /\ commands' = Without(commands, {h})
    BY <1>5, Releasing DEF Releases
  <2>2. Table(owners', Owner)
    BY <1>1, <2>1, WithoutIsATable
  <2> QED BY <1>1, <1>4, <2>1, <2>2
<1>6. ASSUME NEW t \in Token, RevokeExtensions(t) PROVE Goal
  <2>1. /\ UNCHANGED <<owners, issued>>
        /\ callbacks' = Without(callbacks, CallbacksOf(t))
        /\ commands' = Without(commands, CallbacksOf(t))
    BY <1>6 DEF RevokeExtensions, RemoveCommands
  <2> QED BY <1>1, <1>4, <2>1
<1>7. ASSUME NEW t \in Token, RevokeResources(t) PROVE Goal
  <2>1. /\ UNCHANGED <<issued, callbacks, commands>>
        /\ owners' = Without(owners, Leftovers(t))
    BY <1>7 DEF RevokeResources
  <2>2. Table(owners', Owner)
    BY <1>1, <2>1, WithoutIsATable
  <2> QED BY <1>1, <2>1, <2>2
<1> QED BY <1>2, <1>3, <1>5, <1>6, <1>7, TableSteps

(* The life of the tokens, the workers and the calls in progress.          *)
LEMMA ThreadsStayTyped ==
  ASSUME Base, Next
  PROVE  /\ registry' \in [Token -> RegistryState]
         /\ quiet' \in [Token -> BOOLEAN]
         /\ worker' \in [Token -> Phase]
         /\ delivery' \in [Token -> Delivery \cup {None}]
         /\ call' \in [Token -> {"idle", "checked", "releasing"}]
         /\ cancelled' \in [Token -> SUBSET Request]
         /\ WorkersHoldDeliveries'
<1> DEFINE Goal == /\ registry' \in [Token -> RegistryState]
                   /\ quiet' \in [Token -> BOOLEAN]
                   /\ worker' \in [Token -> Phase]
                   /\ delivery' \in [Token -> Delivery \cup {None}]
                   /\ call' \in [Token -> {"idle", "checked", "releasing"}]
                   /\ cancelled' \in [Token -> SUBSET Request]
                   /\ \A c \in Token : worker'[c] \in {"callback", "returned"}
                                         => delivery'[c] \in Delivery
<1>1. /\ registry \in [Token -> RegistryState]
      /\ quiet \in [Token -> BOOLEAN]
      /\ worker \in [Token -> Phase]
      /\ delivery \in [Token -> Delivery \cup {None}]
      /\ call \in [Token -> {"idle", "checked", "releasing"}]
      /\ cancelled \in [Token -> SUBSET Request]
      /\ \A c \in Token : worker[c] \in {"callback", "returned"} => delivery[c] \in Delivery
  BY DEF Base, TypeOK, WorkersHoldDeliveries
<1>2. ASSUME NEW t \in Token,
             \/ Enter(t) \/ EnterRelease(t) \/ Refused(t) \/ Subscribe(t)
             \/ CreateTimer(t) \/ RegisterCommand(t) \/ SetCommandEnabled(t)
             \/ ReleaseRefused(t) \/ ExecuteCommand(t) \/ ExecuteRefused(t)
             \/ QueueRequest(t)
      PROVE  Goal
  <2>1. UNCHANGED <<registry, quiet, worker, delivery, cancelled>>
    BY <1>2 DEF Enter, EnterRelease, Refused, Subscribe, CreateTimer,
       RegisterCommand, SetCommandEnabled, ReleaseRefused, ExecuteCommand,
       ExecuteRefused, QueueRequest
  <2>2. \E c \in {"idle", "checked", "releasing"} : call' = [call EXCEPT ![t] = c]
    BY <1>2 DEF Enter, EnterRelease, Refused, Subscribe, CreateTimer,
       RegisterCommand, SetCommandEnabled, ReleaseRefused, ExecuteCommand,
       ExecuteRefused, QueueRequest, Commit
  <2> QED BY <1>1, <2>1, <2>2
<1>3. ASSUME NEW t \in Token, Release(t) \/ CompleteCancelled(t)
      PROVE  Goal
  <2>1. UNCHANGED <<registry, quiet, worker, delivery>>
    BY <1>3 DEF Release, CompleteCancelled
  <2>2. call' = call \/ call' = [call EXCEPT ![t] = "idle"]
    BY <1>3 DEF Release, CompleteCancelled
  <2>3. cancelled' \in [Token -> SUBSET Request]
    <3>1. CASE Release(t)
      BY <3>1, ReleaseQueues DEF Base
    <3>2. CASE CompleteCancelled(t)
      BY <1>1, <3>2 DEF CompleteCancelled
    <3> QED BY <1>3, <3>1, <3>2
  <2> QED BY <1>1, <2>1, <2>2, <2>3
<1>4. ASSUME NEW t \in Token, BeginDelivery(t)
      PROVE  Goal
  <2>1. /\ UNCHANGED <<registry, quiet, call, cancelled>>
        /\ \/ UNCHANGED <<worker, delivery>>
           \/ /\ worker' = [worker EXCEPT ![t] = "callback"]
              /\ delivery' = [delivery EXCEPT ![t] = Head(pending[t])]
        /\ pending[t] # <<>>
    BY <1>4 DEF BeginDelivery
  <2>2. Head(pending[t]) \in Delivery
    BY <2>1, HeadTailProperties DEF Base, TypeOK
  <2>3. "callback" \in Phase
    BY DEF Phase
  <2> QED BY <1>1, <2>1, <2>2, <2>3
<1>5. ASSUME NEW t \in Token, CallbackReturns(t)
      PROVE  Goal
  <2>1. /\ UNCHANGED <<registry, quiet, delivery, call, cancelled>>
        /\ worker[t] = "callback" /\ worker' = [worker EXCEPT ![t] = "returned"]
    BY <1>5 DEF CallbackReturns
  <2>2. "returned" \in Phase
    BY DEF Phase
  <2> QED BY <1>1, <2>1, <2>2
<1>6. ASSUME NEW t \in Token, EndDelivery(t)
      PROVE  Goal
  <2>1. /\ UNCHANGED <<registry, quiet, call, cancelled>>
        /\ worker' = [worker EXCEPT ![t] = "running"]
        /\ delivery' = [delivery EXCEPT ![t] = None]
    BY <1>6 DEF EndDelivery
  <2>2. "running" \in Phase
    BY DEF Phase
  <2> QED BY <1>1, <2>1, <2>2
<1>7. ASSUME NEW t \in Token, StopWorker(t) \/ StartWorker(t)
      PROVE  Goal
  <2>1. /\ UNCHANGED <<registry, quiet, delivery, call, cancelled>>
        /\ \E w \in {"stopped", "running"} : worker' = [worker EXCEPT ![t] = w]
    BY <1>7 DEF StopWorker, StartWorker
  <2>2. {"stopped", "running"} \subseteq Phase
    BY DEF Phase
  <2> QED BY <1>1, <2>1, <2>2
<1>8. ASSUME NEW t \in Token,
             Load(t) \/ BeginRevoke(t) \/ RevokeExtensions(t) \/ RevokeResources(t)
      PROVE  Goal
  <2>1. /\ UNCHANGED <<quiet, worker, delivery, call, cancelled>>
        /\ \E r \in {"live", "stopping", "detached", "revoked"} :
              registry' = [registry EXCEPT ![t] = r]
    BY <1>8 DEF Load, BeginRevoke, RevokeExtensions, RevokeResources, threads
  <2>2. {"live", "stopping", "detached", "revoked"} \subseteq RegistryState
    BY DEF RegistryState
  <2> QED BY <1>1, <2>1, <2>2
<1>9. ASSUME NEW t \in Token, Quiesce(t)
      PROVE  Goal
  <2>1. /\ UNCHANGED <<registry, worker, delivery, call, cancelled>>
        /\ quiet' = [quiet EXCEPT ![t] = TRUE]
    BY <1>9 DEF Quiesce, threads
  <2> QED BY <1>1, <2>1
<1>10. ASSUME \/ DrainRequests \/ SkipRequest \/ ServeRequest \/ ForwardRequest
              \/ AnswerForwarded \/ Invoke \/ PublishHost
              \/ \E t \in Token : FireTimers(t)
       PROVE  Goal
  <2>1. UNCHANGED <<registry, quiet, worker, delivery, call, cancelled>>
    BY <1>10 DEF DrainRequests, SkipRequest, ServeRequest, ForwardRequest,
       AnswerForwarded, Invoke, PublishHost, FireTimers, threads
  <2> QED BY <1>1, <2>1
<1> QED
  BY <1>2, <1>3, <1>4, <1>5, <1>6, <1>7, <1>8, <1>9, <1>10
     DEF Next, UiNext, PluginNext, WorkerNext, WorkersHoldDeliveries

(* The sequence counter and the sets of requests.                          *)
LEMMA HistoryStaysTyped ==
  ASSUME Base, Next
  PROVE  /\ sequence' \in 0..MaxSequence
         /\ forwarded' \subseteq Request
         /\ accepted' \subseteq Request
         /\ answered' \subseteq Request
<1> DEFINE Goal == /\ sequence' \in 0..MaxSequence
                   /\ forwarded' \subseteq Request
                   /\ accepted' \subseteq Request
                   /\ answered' \subseteq Request
<1>1. /\ sequence \in 0..MaxSequence /\ MaxSequence \in Nat
      /\ forwarded \subseteq Request /\ accepted \subseteq Request /\ answered \subseteq Request
      /\ TypeOK /\ QueuesAreBounded
  BY ExtensionsAssumption DEF Base, TypeOK, ExtensionsAssumption
<1>2. ASSUME NEW t \in Token,
             ExecuteCommand(t) \/ ExecuteRefused(t) \/ QueueRequest(t)
      PROVE  Goal
  <2>1. /\ Draw
        /\ \/ accepted' = accepted
           \/ accepted' = accepted \cup {[token |-> t, sequence |-> sequence']}
        /\ UNCHANGED <<forwarded, answered>>
    BY <1>2 DEF ExecuteCommand, ExecuteRefused, QueueRequest, Accept, ui, history
  <2>2. sequence' \in 0..MaxSequence
    BY <1>1, <2>1 DEF Draw
  <2>3. [token |-> t, sequence |-> sequence'] \in Request
    BY <2>2 DEF Request
  <2> QED BY <1>1, <2>1, <2>2, <2>3
<1>3. ASSUME NEW t \in Token, CompleteCancelled(t)
      PROVE  Goal
  <2>1. PICK r \in cancelled[t] : Complete(r)
    BY <1>3 DEF CompleteCancelled
  <2>2. r \in Request /\ UNCHANGED <<sequence, forwarded, accepted>>
    BY <1>1, <1>3 DEF TypeOK, CompleteCancelled, ui
  <2> QED BY <1>1, <2>1, <2>2, CompleteGrows
<1>4. ASSUME NEW t \in Token, CallbackReturns(t)
      PROVE  Goal
  <2>1. UNCHANGED <<sequence, forwarded, accepted>>
    BY <1>4 DEF CallbackReturns, ui
  <2>2. CASE delivery[t].completion = None
    BY <1>1, <1>4, <2>1, <2>2 DEF CallbackReturns
  <2>3. CASE delivery[t].completion # None
    <3>1. Complete([token |-> delivery[t].completion, sequence |-> delivery[t].sequence])
      BY <1>4, <2>3 DEF CallbackReturns
    <3>2. [token |-> delivery[t].completion, sequence |-> delivery[t].sequence] \in Request
      BY <1>4, <2>3 DEF CallbackReturns, Base, WorkersHoldDeliveries, Delivery, Request
    <3> QED BY <1>1, <2>1, <3>1, <3>2, CompleteGrows
  <2> QED BY <2>2, <2>3
<1>5. ASSUME NEW t \in Token, RevokeExtensions(t)
      PROVE  Goal
  <2>1. /\ UNCHANGED <<sequence, forwarded, accepted>>
        /\ answered' = answered \cup Outstanding(pending[t])
    BY <1>5 DEF RevokeExtensions, ui
  <2>2. pending[t] \in Seq(Delivery)
    BY <1>1 DEF TypeOK
  <2> QED BY <1>1, <2>1, <2>2, OutstandingAreRequests
<1>6. drained # <<>> => Served \in Request
  <2> SUFFICES ASSUME drained # <<>> PROVE Served \in Request
    OBVIOUS
  <2>1. Head(drained) \in MediaRequest
    BY <1>1, HeadTailProperties DEF TypeOK
  <2> QED BY <2>1 DEF Served, Request, MediaRequest
<1>7. CASE ServeRequest
  <2>1. Complete(Served) /\ drained # <<>> /\ UNCHANGED <<sequence, forwarded, accepted>>
    BY <1>7 DEF ServeRequest
  <2> QED BY <1>1, <1>6, <2>1, CompleteGrows
<1>8. CASE ForwardRequest
  <2>1. /\ forwarded' = forwarded \cup {Served} /\ drained # <<>>
        /\ UNCHANGED <<sequence, accepted, answered>>
    BY <1>8 DEF ForwardRequest, queues, history
  <2> QED BY <1>1, <1>6, <2>1
<1>9. CASE AnswerForwarded
  <2>1. PICK r \in forwarded : Complete(r) /\ forwarded' = forwarded \ {r}
                              /\ UNCHANGED <<sequence, accepted>>
    BY <1>9 DEF AnswerForwarded
  <2>2. r \in Request
    BY <1>1
  <2> QED BY <1>1, <2>1, <2>2, CompleteGrows
<1>10. ASSUME NEW t \in Token,
              \/ Enter(t) \/ EnterRelease(t) \/ Refused(t) \/ Subscribe(t)
              \/ CreateTimer(t) \/ RegisterCommand(t) \/ SetCommandEnabled(t)
              \/ Release(t) \/ ReleaseRefused(t) \/ FireTimers(t)
              \/ BeginDelivery(t) \/ EndDelivery(t) \/ StopWorker(t) \/ Load(t)
              \/ StartWorker(t) \/ Quiesce(t) \/ BeginRevoke(t) \/ RevokeResources(t)
       PROVE  UNCHANGED <<sequence, forwarded, accepted, answered>>
  BY <1>10 DEF Enter, EnterRelease, Refused, Subscribe, CreateTimer,
     RegisterCommand, SetCommandEnabled, Release, ReleaseRefused, FireTimers,
     BeginDelivery, EndDelivery, StopWorker, Load, StartWorker, Quiesce,
     BeginRevoke, RevokeResources, queues, ui, history
<1>11. ASSUME DrainRequests \/ SkipRequest \/ Invoke \/ PublishHost
       PROVE  UNCHANGED <<sequence, forwarded, accepted, answered>>
  BY <1>11 DEF DrainRequests, SkipRequest, Invoke, PublishHost, queues, ui, history
<1> QED
  BY <1>1, <1>2, <1>3, <1>4, <1>5, <1>7, <1>8, <1>9, <1>10, <1>11
     DEF Next, UiNext, PluginNext, WorkerNext

LEMMA BaseStep == Base /\ [Next]_vars => Base'
<1>1. ASSUME Base, Next PROVE Base'
  <2>1. TypeOK'
    BY <1>1, QueuesStayBounded, RequestsStayBounded, TablesStayTyped,
       ThreadsStayTyped, HistoryStaysTyped DEF Base, TypeOK, Table
  <2>2. QueuesAreBounded'
    BY <1>1, QueuesStayBounded, RequestsStayBounded DEF Base, QueuesAreBounded
  <2>3. CommandsAreCallbacks'
    BY <1>1, TablesStayTyped DEF CommandsAreCallbacks
  <2>4. WorkersHoldDeliveries'
    BY <1>1, ThreadsStayTyped
  <2> QED BY <2>1, <2>2, <2>3, <2>4 DEF Base
<1>2. ASSUME Base, UNCHANGED vars PROVE Base'
  BY <1>2 DEF Base, TypeOK, QueuesAreBounded, CommandsAreCallbacks,
     WorkersHoldDeliveries, vars, table, queues, threads, ui, history
<1> QED BY <1>1, <1>2

LEMMA BaseInvariant == Spec => []Base
BY BaseInit, BaseStep, PTL DEF Spec

(* Every variable stays in its type, for any tokens, handles and bounds.   *)
THEOREM TypeCorrectness == Spec => []TypeOK
<1>1. Base => TypeOK
  BY DEF Base
<1> QED BY <1>1, BaseInvariant, PTL

(* No queue of deliveries and no queue of requests outgrows MAX_PENDING.   *)
THEOREM QueueBounds == Spec => []QueuesAreBounded
<1>1. Base => QueuesAreBounded
  BY DEF Base
<1> QED BY <1>1, BaseInvariant, PTL

-----------------------------------------------------------------------------
(* Ownership: who is behind a handle.                                      *)

HandlesAreIssued == DOMAIN owners \subseteq issued /\ DOMAIN callbacks \subseteq issued

(* A callback and the allocation behind it never name different plugins.   *)
SameOwner ==
  \A h \in DOMAIN callbacks \cap DOMAIN owners : callbacks[h].token = owners[h].token

CommandsMatchRoles ==
  DOMAIN commands = {h \in DOMAIN callbacks : callbacks[h].role = "command"}

Owned(t) == {h \in DOMAIN owners : owners[h].token = t}

(* Until its revocation begins a plugin has a callback under exactly the   *)
(* handles allocated to it.                                                *)
Leased == \A t \in Token : registry[t] \in {"unused", "live"} => CallbacksOf(t) = Owned(t)

Ownership ==
  /\ HandlesAreIssued
  /\ SameOwner
  /\ CommandsMatchRoles
  /\ Leased
  /\ QueuedDeliveriesAreOwned

LEMMA QueuedByHandles ==
  ASSUME Base
  PROVE  QueuedDeliveriesAreOwned <=> \A t \in Token : Handles(pending[t]) \subseteq CallbacksOf(t)
BY DEF QueuedDeliveriesAreOwned, Handles, CallbacksOf

(* A token never goes back to "live".                                      *)
LEMMA LiveOnce ==
  ASSUME Base, Next, NEW t \in Token, registry'[t] \in {"unused", "live"}
  PROVE  registry[t] \in {"unused", "live"}
<1>1. registry \in [Token -> RegistryState]
  BY DEF Base, TypeOK
<1>2. ASSUME NEW c \in Token,
             Load(c) \/ BeginRevoke(c) \/ RevokeExtensions(c) \/ RevokeResources(c)
      PROVE  registry[t] \in {"unused", "live"}
  BY <1>1, <1>2 DEF Load, BeginRevoke, RevokeExtensions, RevokeResources
<1>3. ASSUME NEW c \in Token,
             \/ PluginNext(c) \/ WorkerNext(c) \/ StartWorker(c) \/ Quiesce(c)
      PROVE  UNCHANGED registry
  BY <1>3 DEF PluginNext, Enter, EnterRelease, Refused, Subscribe, CreateTimer,
     RegisterCommand, SetCommandEnabled, Release, ReleaseRefused,
     CompleteCancelled, ExecuteCommand, ExecuteRefused, QueueRequest,
     WorkerNext, FireTimers, BeginDelivery, CallbackReturns, EndDelivery,
     StopWorker, StartWorker, Quiesce
<1>4. ASSUME \/ DrainRequests \/ SkipRequest \/ ServeRequest \/ ForwardRequest
             \/ AnswerForwarded \/ Invoke \/ PublishHost
      PROVE  UNCHANGED registry
  BY <1>4 DEF DrainRequests, SkipRequest, ServeRequest, ForwardRequest,
     AnswerForwarded, Invoke, PublishHost
<1> QED BY <1>2, <1>3, <1>4 DEF Next, UiNext

LEMMA OwnershipInit == Init => Ownership
BY EmptySeq DEF Init, Ownership, HandlesAreIssued, SameOwner, CommandsMatchRoles,
   Leased, QueuedDeliveriesAreOwned, CallbacksOf, Owned

(* Registering a callback keeps the ownership of the tables.               *)
LEMMA RegistersKeepsTables ==
  ASSUME Base, Ownership, Next, NEW t \in Token, Registers(t)
  PROVE  /\ HandlesAreIssued' /\ SameOwner' /\ CommandsMatchRoles' /\ Leased'
         /\ \A c \in Token : CallbacksOf(c) \subseteq CallbacksOf(c)'
<1>1. PICK h \in Handle \ issued, e \in Owner, b \in Callback :
            /\ e.token = t /\ b.token = t
            /\ issued' = issued \cup {h}
            /\ owners' = With(owners, h, e)
            /\ callbacks' = With(callbacks, h, b)
            /\ \/ b.role = "command" /\ \E c \in Command : commands' = With(commands, h, c)
               \/ b.role # "command" /\ commands' = commands
  BY DEF Registers
<1>2. h \notin DOMAIN owners /\ h \notin DOMAIN callbacks /\ h \notin DOMAIN commands
  BY DEF Ownership, HandlesAreIssued, CommandsMatchRoles
<1>3. /\ DOMAIN owners' = DOMAIN owners \cup {h}
      /\ owners'[h] = e
      /\ \A g \in DOMAIN owners : owners'[g] = owners[g]
  BY <1>1, <1>2 DEF With
<1>4. /\ DOMAIN callbacks' = DOMAIN callbacks \cup {h}
      /\ callbacks'[h] = b
      /\ \A g \in DOMAIN callbacks : callbacks'[g] = callbacks[g]
  BY <1>1, <1>2 DEF With
<1>5. DOMAIN commands' = IF b.role = "command" THEN DOMAIN commands \cup {h} ELSE DOMAIN commands
  BY <1>1 DEF With
<1>6. HandlesAreIssued'
  BY <1>1, <1>3, <1>4 DEF Ownership, HandlesAreIssued
<1>7. SameOwner'
  BY <1>1, <1>2, <1>3, <1>4 DEF Ownership, SameOwner
<1>8. CommandsMatchRoles'
  BY <1>2, <1>4, <1>5 DEF Ownership, CommandsMatchRoles
<1>9. \A c \in Token : /\ CallbacksOf(c)' = CallbacksOf(c) \cup (IF c = t THEN {h} ELSE {})
                       /\ Owned(c)' = Owned(c) \cup (IF c = t THEN {h} ELSE {})
  BY <1>1, <1>2, <1>3, <1>4 DEF CallbacksOf, Owned
<1>10. Leased'
  BY <1>9, LiveOnce DEF Ownership, Leased
<1> QED BY <1>6, <1>7, <1>8, <1>9, <1>10

(* Removing the entries of D from callbacks and commands.                  *)
LEMMA RemovalKeepsTables ==
  ASSUME Base, Ownership, NEW D,
         /\ callbacks' = Without(callbacks, D)
         /\ commands' = Without(commands, D)
         /\ \/ owners' = owners
            \/ owners' = Without(owners, D)
         /\ UNCHANGED issued
  PROVE  /\ HandlesAreIssued' /\ SameOwner' /\ CommandsMatchRoles'
         /\ \A c \in Token : CallbacksOf(c)' = CallbacksOf(c) \ D
<1>1. /\ DOMAIN callbacks' = DOMAIN callbacks \ D
      /\ \A g \in DOMAIN callbacks' : callbacks'[g] = callbacks[g]
      /\ DOMAIN commands' = DOMAIN commands \ D
      /\ DOMAIN owners' \subseteq DOMAIN owners
      /\ \A g \in DOMAIN owners' : owners'[g] = owners[g]
  BY DEF Without
<1>2. HandlesAreIssued'
  BY <1>1 DEF Ownership, HandlesAreIssued
<1>3. SameOwner'
  BY <1>1 DEF Ownership, SameOwner
<1>4. CommandsMatchRoles'
  BY <1>1 DEF Ownership, CommandsMatchRoles
<1>5. \A c \in Token : CallbacksOf(c)' = CallbacksOf(c) \ D
  BY <1>1 DEF CallbacksOf
<1> QED BY <1>2, <1>3, <1>4, <1>5

LEMMA OwnershipStep ==
  ASSUME Base, Base', Ownership, Next
  PROVE  Ownership'
<1>1. CASE TablesKept
  <2>1. /\ UNCHANGED <<owners, issued>>
        /\ DOMAIN commands' = DOMAIN commands /\ DOMAIN callbacks' = DOMAIN callbacks
        /\ \A h \in DOMAIN callbacks : /\ callbacks'[h].token = callbacks[h].token
                                       /\ callbacks'[h].role = callbacks[h].role
    BY <1>1 DEF TablesKept
  <2>2. HandlesAreIssued' /\ SameOwner' /\ CommandsMatchRoles'
    BY <2>1 DEF Ownership, HandlesAreIssued, SameOwner, CommandsMatchRoles
  <2>3. \A c \in Token : CallbacksOf(c)' = CallbacksOf(c) /\ Owned(c)' = Owned(c)
    BY <2>1 DEF CallbacksOf, Owned
  <2>4. Leased'
    BY <2>3, LiveOnce DEF Ownership, Leased
  <2>5. CASE ~ \E t \in Token : Release(t) \/ RevokeExtensions(t)
    <3>1. QueuesGrow
      BY <2>5, QueueSteps DEF Base
    <3>2. \A c \in Token : Handles(pending'[c]) \subseteq CallbacksOf(c)'
      BY <2>3, <3>1, QueuedByHandles DEF QueuesGrow, Grown, Ownership
    <3>3. QueuedDeliveriesAreOwned'
      BY <3>2 DEF QueuedDeliveriesAreOwned, Handles, CallbacksOf
    <3> QED BY <2>2, <2>4, <3>3 DEF Ownership
  <2>6. ASSUME NEW t \in Token, Release(t)
        PROVE  Ownership'
    <3>1. PICK h \in DOMAIN owners : owners' = Without(owners, {h})
      BY <2>6, Releasing DEF Releases
    <3>2. DOMAIN owners' = DOMAIN owners \ {h}
      BY <3>1 DEF Without
    <3> QED BY <2>1, <3>2
  <2>7. ASSUME NEW t \in Token, RevokeExtensions(t)
        PROVE  Ownership'
    <3>1. \A c \in Token : Handles(pending'[c]) \subseteq CallbacksOf(c)'
      <4>1. Handles(pending'[t]) = {}
        BY <2>7, RevokeQueues DEF Base, Handles
      <4> QED BY <2>3, <2>7, <4>1, RevokeQueues, QueuedByHandles DEF Base, Grown, Ownership
    <3>2. QueuedDeliveriesAreOwned'
      BY <3>1 DEF QueuedDeliveriesAreOwned, Handles, CallbacksOf
    <3> QED BY <2>2, <2>4, <3>2 DEF Ownership
  <2> QED BY <2>5, <2>6, <2>7
<1>2. ASSUME NEW t \in Token, Registers(t)
      PROVE  Ownership'
  <2>1. /\ HandlesAreIssued' /\ SameOwner' /\ CommandsMatchRoles' /\ Leased'
        /\ \A c \in Token : CallbacksOf(c) \subseteq CallbacksOf(c)'
    BY <1>2, RegistersKeepsTables
  <2>2. ~ \E c \in Token : Release(c) \/ RevokeExtensions(c)
    <3>1. \E h \in Handle : h \notin issued /\ h \in issued'
      BY <1>2 DEF Registers
    <3>2. ASSUME NEW c \in Token, Release(c) \/ RevokeExtensions(c)
          PROVE  UNCHANGED issued
      BY <3>2 DEF Release, RevokeExtensions
    <3> QED BY <3>1, <3>2
  <2>3. QueuesGrow
    BY <2>2, QueueSteps DEF Base
  <2>4. \A c \in Token : Handles(pending'[c]) \subseteq CallbacksOf(c)'
    BY <2>1, <2>3, QueuedByHandles DEF QueuesGrow, Grown, Ownership
  <2>5. QueuedDeliveriesAreOwned'
    BY <2>4 DEF QueuedDeliveriesAreOwned, Handles, CallbacksOf
  <2> QED BY <2>1, <2>5 DEF Ownership
<1>3. ASSUME NEW t \in Token, Release(t)
      PROVE  Ownership'
  <2>1. QueuesGrow /\ UNCHANGED registry
    BY <1>3, Releasing DEF Release
  <2>2. PICK h \in DOMAIN owners :
              /\ owners[h].token = t
              /\ UNCHANGED issued
              /\ owners' = Without(owners, {h})
              /\ callbacks' = Without(callbacks, {h})
              /\ commands' = Without(commands, {h})
              /\ h \notin Handles(pending'[t])
    BY <1>3, Releasing DEF Releases
  <2>3. /\ HandlesAreIssued' /\ SameOwner' /\ CommandsMatchRoles'
        /\ \A c \in Token : CallbacksOf(c)' = CallbacksOf(c) \ {h}
    BY <2>2, RemovalKeepsTables
  <2>4. \A c \in Token : Owned(c)' = Owned(c) \ {h}
    BY <2>2 DEF Owned, Without
  <2>5. Leased'
    BY <2>1, <2>3, <2>4 DEF Ownership, Leased
  <2>6. \A c \in Token \ {t} : h \notin CallbacksOf(c)
    BY <2>2 DEF Ownership, SameOwner, CallbacksOf
  <2>7. \A c \in Token : Handles(pending'[c]) \subseteq CallbacksOf(c)'
    BY <2>1, <2>2, <2>3, <2>6, QueuedByHandles DEF QueuesGrow, Grown, Ownership
  <2>8. QueuedDeliveriesAreOwned'
    BY <2>7 DEF QueuedDeliveriesAreOwned, Handles, CallbacksOf
  <2> QED BY <2>3, <2>5, <2>8 DEF Ownership
<1>4. ASSUME NEW t \in Token, RevokeExtensions(t)
      PROVE  Ownership'
  <2>1. /\ callbacks' = Without(callbacks, CallbacksOf(t))
        /\ commands' = Without(commands, CallbacksOf(t))
        /\ UNCHANGED <<owners, issued>>
        /\ registry' = [registry EXCEPT ![t] = "detached"]
    BY <1>4 DEF RevokeExtensions, RemoveCommands
  <2>2. /\ HandlesAreIssued' /\ SameOwner' /\ CommandsMatchRoles'
        /\ \A c \in Token : CallbacksOf(c)' = CallbacksOf(c) \ CallbacksOf(t)
    BY <2>1, RemovalKeepsTables
  <2>3. \A c \in Token \ {t} : CallbacksOf(c)' = CallbacksOf(c)
    BY <2>2 DEF CallbacksOf
  <2>4. \A c \in Token : Owned(c)' = Owned(c)
    BY <2>1 DEF Owned
  <2>5. Leased'
    BY <2>1, <2>3, <2>4 DEF Ownership, Leased, Base, TypeOK
  <2>6. \A c \in Token : Handles(pending'[c]) \subseteq CallbacksOf(c)'
    <3>1. Handles(pending'[t]) = {}
      BY <1>4, RevokeQueues DEF Base, Handles
    <3> QED BY <1>4, <2>3, <3>1, RevokeQueues, QueuedByHandles DEF Base, Grown, Ownership
  <2>7. QueuedDeliveriesAreOwned'
    BY <2>6 DEF QueuedDeliveriesAreOwned, Handles, CallbacksOf
  <2> QED BY <2>2, <2>5, <2>7 DEF Ownership
<1>5. ASSUME NEW t \in Token, RevokeResources(t)
      PROVE  Ownership'
  <2>1. /\ owners' = Without(owners, Owned(t))
        /\ UNCHANGED <<issued, callbacks, commands, pending>>
        /\ registry' = [registry EXCEPT ![t] = "revoked"]
    BY <1>5 DEF RevokeResources, Leftovers, Owned, queues
  <2>2. HandlesAreIssued' /\ SameOwner' /\ CommandsMatchRoles' /\ QueuedDeliveriesAreOwned'
    BY <2>1 DEF Ownership, HandlesAreIssued, SameOwner, CommandsMatchRoles,
       QueuedDeliveriesAreOwned, Without
  <2>3. \A c \in Token \ {t} : CallbacksOf(c)' = CallbacksOf(c) /\ Owned(c)' = Owned(c)
    BY <2>1 DEF CallbacksOf, Owned, Without
  <2>4. Leased'
    BY <2>1, <2>3 DEF Ownership, Leased, Base, TypeOK
  <2> QED BY <2>2, <2>4 DEF Ownership
<1> QED BY <1>1, <1>2, <1>3, <1>4, <1>5, TableSteps

LEMMA OwnershipInvariant == Spec => []Ownership
<1>1. Base /\ Base' /\ Ownership /\ [Next]_vars => Ownership'
  <2>1. ASSUME Ownership, UNCHANGED vars PROVE Ownership'
    BY <2>1 DEF Ownership, HandlesAreIssued, SameOwner, CommandsMatchRoles, Leased,
       CallbacksOf, Owned, QueuedDeliveriesAreOwned, vars, table, queues
  <2> QED BY <2>1, OwnershipStep
<1> QED BY <1>1, BaseInvariant, OwnershipInit, PTL DEF Spec

(* Releasing and revoking purge the queues whatever else is in progress: a *)
(* queued delivery always has its callback, of the plugin it waits for.    *)
THEOREM DeliveriesAreOwned == Spec => []QueuedDeliveriesAreOwned
<1>1. Ownership => QueuedDeliveriesAreOwned
  BY DEF Ownership
<1> QED BY <1>1, OwnershipInvariant, PTL

(* The tables of handles agree on every live plugin.                       *)
THEOREM TablesStayInAgreement == Spec => []TablesAgree
<1>1. Ownership => TablesAgree
  BY DEF Ownership, CommandsMatchRoles, Leased, TablesAgree, Owned
<1> QED BY <1>1, OwnershipInvariant, PTL

-----------------------------------------------------------------------------
(* Deliveries in flight, and what is left of a plugin that has gone.       *)

(* A plugin that is shut down, or not loaded, has no worker running.       *)
WorkersLeave ==
  \A t \in Token : (quiet[t] \/ registry[t] # "live") => worker[t] \in {"none", "stopped"}

LEMMA WorkersLeaveStep ==
  ASSUME Base, WorkersLeave, Next
  PROVE  WorkersLeave'
<1>1. /\ registry \in [Token -> RegistryState]
      /\ quiet \in [Token -> BOOLEAN]
      /\ worker \in [Token -> Phase]
  BY DEF Base, TypeOK
<1>2. ASSUME NEW t \in Token, PluginNext(t) \/ FireTimers(t)
      PROVE  UNCHANGED <<registry, quiet, worker>>
  BY <1>2 DEF PluginNext, Enter, EnterRelease, Refused, Subscribe, CreateTimer,
     RegisterCommand, SetCommandEnabled, Release, ReleaseRefused,
     CompleteCancelled, ExecuteCommand, ExecuteRefused, QueueRequest, FireTimers,
     threads
<1>3. ASSUME NEW t \in Token, \/ BeginDelivery(t) \/ CallbackReturns(t)
                              \/ EndDelivery(t) \/ StopWorker(t)
      PROVE  WorkersLeave'
  <2>1. /\ worker[t] \notin {"none", "stopped"}
        /\ UNCHANGED <<registry, quiet>>
        /\ \A c \in Token \ {t} : worker'[c] = worker[c]
    BY <1>1, <1>3 DEF BeginDelivery, CallbackReturns, EndDelivery, StopWorker
  <2> QED BY <2>1 DEF WorkersLeave
<1>4. ASSUME NEW t \in Token, StartWorker(t)
      PROVE  WorkersLeave'
  BY <1>1, <1>4 DEF StartWorker, WorkersLeave
<1>5. ASSUME NEW t \in Token, \/ Load(t) \/ Quiesce(t) \/ BeginRevoke(t)
                              \/ RevokeExtensions(t) \/ RevokeResources(t)
      PROVE  WorkersLeave'
  <2>1. /\ UNCHANGED worker
        /\ \A c \in Token \ {t} : registry'[c] = registry[c] /\ quiet'[c] = quiet[c]
        /\ worker[t] \in {"none", "stopped"}
    BY <1>1, <1>5 DEF Load, Quiesce, BeginRevoke, RevokeExtensions, RevokeResources,
       threads, WorkersLeave
  <2> QED BY <2>1 DEF WorkersLeave
<1>6. ASSUME \/ DrainRequests \/ SkipRequest \/ ServeRequest \/ ForwardRequest
             \/ AnswerForwarded \/ Invoke \/ PublishHost
      PROVE  UNCHANGED <<registry, quiet, worker>>
  BY <1>6 DEF DrainRequests, SkipRequest, ServeRequest, ForwardRequest,
     AnswerForwarded, Invoke, PublishHost, threads
<1>7. ASSUME UNCHANGED <<registry, quiet, worker>>
      PROVE  WorkersLeave'
  BY <1>7 DEF WorkersLeave
<1> QED
  BY <1>2, <1>3, <1>4, <1>5, <1>6, <1>7 DEF Next, UiNext, WorkerNext

InCallback(t) == worker[t] \in {"callback", "returned"}

(* The callback that t's worker is in is registered, marked and allocated. *)
Held(t) ==
  LET h == delivery[t].handle IN
  /\ h \in DOMAIN callbacks /\ callbacks[h].token = t /\ callbacks[h].in_flight
  /\ h \in DOMAIN owners /\ owners[h].token = t

LEMMA InFlightStep ==
  ASSUME Base, Ownership, WorkersLeave, InFlightIsLeased, Next
  PROVE  InFlightIsLeased'
<1> SUFFICES ASSUME NEW c \in Token, InCallback(c)'
             PROVE  Held(c)'
  BY DEF InFlightIsLeased, InCallback, Held
<1>1. InCallback(c) => Held(c) /\ registry[c] = "live"
  BY DEF InFlightIsLeased, InCallback, Held, WorkersLeave
<1>2. /\ worker \in [Token -> Phase]
      /\ delivery \in [Token -> Delivery \cup {None}]
      /\ callbacks \in [DOMAIN callbacks -> Callback]
  BY DEF Base, TypeOK
<1>3. ASSUME UNCHANGED <<owners, callbacks>>, InCallback(c), delivery'[c] = delivery[c]
      PROVE  Held(c)'
  BY <1>1, <1>3 DEF Held
<1>4. ASSUME NEW t \in Token, BeginDelivery(t)
      PROVE  Held(c)'
  <2> DEFINE d == Head(pending[t])
  <2>1. /\ worker[t] = "running" /\ pending[t] # <<>>
        /\ UNCHANGED owners
        /\ \/ UNCHANGED <<callbacks, worker, delivery>>
           \/ /\ d.handle \in DOMAIN callbacks
              /\ callbacks' = [callbacks EXCEPT ![d.handle].in_flight = TRUE]
              /\ worker' = [worker EXCEPT ![t] = "callback"]
              /\ delivery' = [delivery EXCEPT ![t] = d]
    BY <1>4 DEF BeginDelivery
  <2> HIDE DEF d
  <2>2. CASE UNCHANGED <<callbacks, worker, delivery>>
    BY <1>3, <2>1, <2>2 DEF InCallback
  <2>3. ASSUME d.handle \in DOMAIN callbacks,
               callbacks' = [callbacks EXCEPT ![d.handle].in_flight = TRUE],
               worker' = [worker EXCEPT ![t] = "callback"],
               delivery' = [delivery EXCEPT ![t] = d]
        PROVE  Held(c)'
    <3>1. /\ DOMAIN callbacks' = DOMAIN callbacks
          /\ callbacks'[d.handle].in_flight
          /\ \A h \in DOMAIN callbacks : /\ callbacks'[h].token = callbacks[h].token
                                         /\ callbacks[h].in_flight => callbacks'[h].in_flight
      BY <1>2, <2>3 DEF Callback
    <3>2. CASE c = t
      <4>1. d.handle \in CallbacksOf(t)
        BY <2>1, TailShrinks, QueuedByHandles
           DEF d, Base, TypeOK, QueuesAreBounded, Ownership
      <4>2. registry[t] = "live"
        BY <2>1 DEF WorkersLeave
      <4>3. d.handle \in Owned(t)
        BY <4>1, <4>2 DEF Ownership, Leased
      <4>4. delivery'[c] = d
        BY <1>2, <2>3, <3>2
      <4>5. callbacks'[delivery'[c].handle].in_flight
        BY <3>1, <4>4
      <4>6. /\ delivery'[c].handle \in DOMAIN callbacks'
            /\ callbacks'[delivery'[c].handle].token = c
        BY <3>1, <3>2, <4>1, <4>4 DEF CallbacksOf
      <4>7. delivery'[c].handle \in DOMAIN owners' /\ owners'[delivery'[c].handle].token = c
        BY <2>1, <3>2, <4>3, <4>4 DEF Owned
      <4> QED BY <4>5, <4>6, <4>7 DEF Held
    <3>3. CASE c # t
      <4>1. InCallback(c) /\ delivery'[c] = delivery[c]
        BY <1>2, <2>3, <3>3 DEF InCallback
      <4>2. Held(c)
        BY <1>1, <4>1
      <4>3. delivery'[c].handle \in DOMAIN owners' /\ owners'[delivery'[c].handle].token = c
        BY <2>1, <4>1, <4>2 DEF Held
      <4>4. /\ delivery'[c].handle \in DOMAIN callbacks'
            /\ callbacks'[delivery'[c].handle].token = c
        BY <3>1, <4>1, <4>2 DEF Held
      <4>5. callbacks'[delivery'[c].handle].in_flight
        <5>1. delivery[c].handle \in DOMAIN callbacks /\ callbacks[delivery[c].handle].in_flight
          BY <4>2 DEF Held
        <5> QED BY <3>1, <4>1, <5>1
      <4> QED BY <4>3, <4>4, <4>5 DEF Held
    <3> QED BY <3>2, <3>3
  <2> QED BY <2>1, <2>2, <2>3
<1>5. ASSUME NEW t \in Token, EndDelivery(t)
      PROVE  Held(c)'
  <2>1. /\ worker[t] = "returned"
        /\ worker' = [worker EXCEPT ![t] = "running"]
        /\ delivery' = [delivery EXCEPT ![t] = None]
        /\ callbacks' = [h \in DOMAIN callbacks |->
             IF h = delivery[t].handle THEN [callbacks[h] EXCEPT !.in_flight = FALSE]
                                       ELSE callbacks[h]]
        /\ UNCHANGED owners
    BY <1>5 DEF EndDelivery
  <2>2. c # t /\ InCallback(c) /\ delivery'[c] = delivery[c]
    BY <1>2, <2>1 DEF InCallback
  <2>3. Held(c) /\ callbacks[delivery[t].handle].token = t
    BY <1>1, <2>1, <2>2 DEF InFlightIsLeased
  <2>4. delivery[c].handle # delivery[t].handle
    BY <2>2, <2>3 DEF Held
  <2> QED BY <2>1, <2>2, <2>3, <2>4 DEF Held
<1>6. ASSUME NEW t \in Token, FireTimers(t)
      PROVE  Held(c)'
  <2>1. /\ UNCHANGED <<owners, worker, delivery>>
        /\ DOMAIN callbacks' = DOMAIN callbacks
        /\ \A h \in DOMAIN callbacks :
             \/ callbacks'[h] = callbacks[h]
             \/ callbacks'[h] = [callbacks[h] EXCEPT !.armed = callbacks[h].repeats]
    BY <1>6 DEF FireTimers, threads
  <2>2. \A h \in DOMAIN callbacks : /\ callbacks'[h].token = callbacks[h].token
                                    /\ callbacks'[h].in_flight = callbacks[h].in_flight
    BY <1>2, <2>1 DEF Callback
  <2>3. InCallback(c) /\ delivery'[c] = delivery[c]
    BY <2>1 DEF InCallback
  <2> QED BY <1>1, <2>1, <2>2, <2>3 DEF Held
<1>7. ASSUME NEW t \in Token, Subscribe(t) \/ CreateTimer(t) \/ RegisterCommand(t)
      PROVE  Held(c)'
  <2>1. UNCHANGED <<worker, delivery>>
    BY <1>7 DEF Subscribe, CreateTimer, RegisterCommand
  <2>2. PICK h \in Handle \ issued, e \in Owner, b \in Callback :
              owners' = With(owners, h, e) /\ callbacks' = With(callbacks, h, b)
    BY <1>7, Registering DEF Registers
  <2>3. InCallback(c) /\ delivery'[c] = delivery[c] /\ Held(c)
    BY <1>1, <2>1 DEF InCallback
  <2>4. delivery[c].handle # h
    BY <2>3 DEF Held, Ownership, HandlesAreIssued
  <2> QED BY <2>2, <2>3, <2>4 DEF Held, With
<1>8. ASSUME NEW t \in Token, Release(t)
      PROVE  Held(c)'
  <2>1. UNCHANGED <<worker, delivery>>
    BY <1>8 DEF Release
  <2>2. PICK h : /\ ~Busy(h)
                 /\ owners' = Without(owners, {h})
                 /\ callbacks' = Without(callbacks, {h})
    BY <1>8, Releasing DEF Releases
  <2>3. InCallback(c) /\ delivery'[c] = delivery[c] /\ Held(c)
    BY <1>1, <2>1 DEF InCallback
  <2>4. delivery[c].handle # h
    BY <2>2, <2>3 DEF Held, Busy
  <2> QED BY <2>2, <2>3, <2>4 DEF Held, Without
<1>9. ASSUME NEW t \in Token, RevokeExtensions(t) \/ RevokeResources(t)
      PROVE  Held(c)'
  <2>1. /\ UNCHANGED <<worker, delivery>>
        /\ registry[t] # "live"
        /\ owners' = owners \/ owners' = Without(owners, Owned(t))
        /\ callbacks' = callbacks \/ callbacks' = Without(callbacks, CallbacksOf(t))
    BY <1>9 DEF RevokeExtensions, RevokeResources, Leftovers, Owned, threads
  <2>2. InCallback(c) /\ delivery'[c] = delivery[c] /\ Held(c) /\ c # t
    BY <1>1, <2>1 DEF InCallback
  <2> QED BY <2>1, <2>2 DEF Held, Without, CallbacksOf, Owned
<1>10. ASSUME NEW t \in Token,
              \/ Enter(t) \/ EnterRelease(t) \/ Refused(t) \/ SetCommandEnabled(t)
              \/ ReleaseRefused(t) \/ CompleteCancelled(t) \/ ExecuteCommand(t)
              \/ ExecuteRefused(t) \/ QueueRequest(t) \/ Load(t) \/ Quiesce(t)
              \/ BeginRevoke(t)
       PROVE  UNCHANGED <<owners, callbacks, worker, delivery>>
  BY <1>10 DEF Enter, EnterRelease, Refused, SetCommandEnabled, ReleaseRefused,
     CompleteCancelled, ExecuteCommand, ExecuteRefused, QueueRequest, Load,
     Quiesce, BeginRevoke, table, threads
<1>11. ASSUME NEW t \in Token, CallbackReturns(t) \/ StopWorker(t) \/ StartWorker(t)
       PROVE  Held(c)'
  <2>1. /\ UNCHANGED <<owners, callbacks, delivery>>
        /\ \E w \in {"returned", "stopped", "running"} : worker' = [worker EXCEPT ![t] = w]
        /\ worker' = [worker EXCEPT ![t] = "returned"] => InCallback(t)
    BY <1>2, <1>11 DEF CallbackReturns, StopWorker, StartWorker, InCallback, table
  <2>2. InCallback(c)
    BY <1>2, <2>1 DEF InCallback
  <2> QED BY <1>3, <2>1, <2>2
<1>12. ASSUME \/ DrainRequests \/ SkipRequest \/ ServeRequest \/ ForwardRequest
              \/ AnswerForwarded \/ Invoke \/ PublishHost
       PROVE  UNCHANGED <<owners, callbacks, worker, delivery>>
  BY <1>12 DEF DrainRequests, SkipRequest, ServeRequest, ForwardRequest,
     AnswerForwarded, Invoke, PublishHost, table, threads
<1>13. ASSUME UNCHANGED <<owners, callbacks, worker, delivery>>
       PROVE  Held(c)'
  BY <1>3, <1>13 DEF InCallback
<1> QED
  BY <1>4, <1>5, <1>6, <1>7, <1>8, <1>9, <1>10, <1>11, <1>12, <1>13
     DEF Next, UiNext, PluginNext, WorkerNext

(* While a worker is in a callback nobody takes its registration or its    *)
(* allocation away, so the plugin's callback data stays in use.            *)
THEOREM CallbacksInFlightAreLeased == Spec => []InFlightIsLeased
<1>1. Init => WorkersLeave /\ InFlightIsLeased
  BY DEF Init, WorkersLeave, InFlightIsLeased
<1>2. Base /\ Ownership /\ WorkersLeave /\ InFlightIsLeased /\ [Next]_vars
        => WorkersLeave' /\ InFlightIsLeased'
  <2>1. ASSUME WorkersLeave, InFlightIsLeased, UNCHANGED vars
        PROVE  WorkersLeave' /\ InFlightIsLeased'
    BY <2>1 DEF WorkersLeave, InFlightIsLeased, vars, table, threads
  <2> QED BY <2>1, WorkersLeaveStep, InFlightStep
<1> QED BY <1>1, <1>2, BaseInvariant, OwnershipInvariant, PTL DEF Spec

LEMMA ReleaseIsFinalStep ==
  ASSUME Base, Ownership, Next, NEW h \in issued \ DOMAIN callbacks
  PROVE  /\ h \notin DOMAIN callbacks'
         /\ \A t \in Token : delivery'[t] # delivery[t] /\ delivery'[t] # None
              => delivery'[t].handle # h
<1>1. h \notin DOMAIN callbacks'
  <2>1. CASE TablesKept
    BY <2>1 DEF TablesKept
  <2>2. ASSUME NEW t \in Token, Registers(t) PROVE h \notin DOMAIN callbacks'
    BY <2>2 DEF Registers, With
  <2>3. ASSUME NEW t \in Token, Release(t) PROVE h \notin DOMAIN callbacks'
    BY <2>3 DEF Release, Without
  <2>4. ASSUME NEW t \in Token, RevokeExtensions(t) PROVE h \notin DOMAIN callbacks'
    BY <2>4 DEF RevokeExtensions, Without
  <2>5. ASSUME NEW t \in Token, RevokeResources(t) PROVE h \notin DOMAIN callbacks'
    BY <2>5 DEF RevokeResources
  <2> QED BY <2>1, <2>2, <2>3, <2>4, <2>5, TableSteps
<1>2. delivery \in [Token -> Delivery \cup {None}]
  BY DEF Base, TypeOK
<1>3. ASSUME NEW c \in Token, BeginDelivery(c) \/ EndDelivery(c), NEW t \in Token,
             delivery'[t] # delivery[t], delivery'[t] # None
      PROVE  delivery'[t].handle # h
  <2>1. delivery'[t].handle \in DOMAIN callbacks
    BY <1>2, <1>3 DEF BeginDelivery, EndDelivery
  <2> QED BY <2>1
<1>4. ASSUME NEW c \in Token,
             \/ PluginNext(c) \/ FireTimers(c) \/ CallbackReturns(c) \/ StopWorker(c)
             \/ Load(c) \/ StartWorker(c) \/ Quiesce(c) \/ BeginRevoke(c)
             \/ RevokeExtensions(c) \/ RevokeResources(c)
      PROVE  UNCHANGED delivery
  BY <1>4 DEF PluginNext, Enter, EnterRelease, Refused, Subscribe, CreateTimer,
     RegisterCommand, SetCommandEnabled, Release, ReleaseRefused,
     CompleteCancelled, ExecuteCommand, ExecuteRefused, QueueRequest, FireTimers,
     CallbackReturns, StopWorker, Load, StartWorker, Quiesce, BeginRevoke,
     RevokeExtensions, RevokeResources, threads
<1>5. ASSUME \/ DrainRequests \/ SkipRequest \/ ServeRequest \/ ForwardRequest
             \/ AnswerForwarded \/ Invoke \/ PublishHost
      PROVE  UNCHANGED delivery
  BY <1>5 DEF DrainRequests, SkipRequest, ServeRequest, ForwardRequest,
     AnswerForwarded, Invoke, PublishHost, threads
<1> QED BY <1>1, <1>3, <1>4, <1>5 DEF Next, UiNext, WorkerNext

(* Once a handle is released or revoked no callback starts under it again. *)
THEOREM ReleasesAreFinal == Spec => ReleaseIsFinal
<1>1. Base /\ Ownership /\ [Next]_vars
        => [\A h \in issued \ DOMAIN callbacks :
              /\ h \notin DOMAIN callbacks'
              /\ \A t \in Token : delivery'[t] # delivery[t] /\ delivery'[t] # None
                   => delivery'[t].handle # h]_vars
  BY ReleaseIsFinalStep
<1> QED BY <1>1, BaseInvariant, OwnershipInvariant, PTL DEF Spec, ReleaseIsFinal

(* The threads of a plugin that is shut down make no calls, ...            *)
QuietIsSilent ==
  \A t \in Token : quiet[t] =>
    call[t] = "idle" /\ cancelled[t] = {} /\ registry[t] # "unused"

Asking(q) == {q[i].token : i \in DOMAIN q}

(* ... so what its revocation removes does not come back.                  *)
GoneIsEmpty ==
  \A t \in Token : quiet[t] /\ registry[t] \in {"detached", "revoked"} =>
    /\ CallbacksOf(t) = {}
    /\ t \notin Asking(requests)
    /\ registry[t] = "revoked" => Owned(t) = {}

Silence == QuietIsSilent /\ GoneIsEmpty

LEMMA RequestsOfWhoAsks ==
  ASSUME Base, Next, NEW c \in Token, c \in Asking(requests')
  PROVE  c \in Asking(requests) \/ QueueRequest(c)
<1>1. requests \in Seq(MediaRequest)
  BY DEF Base, TypeOK
<1>2. ASSUME NEW t \in Token, QueueRequest(t)
      PROVE  c \in Asking(requests) \/ t = c
  <2>1. PICK media \in BOOLEAN :
              requests' = Append(requests,
                [token |-> t, sequence |-> sequence', media |-> media])
    BY <1>2 DEF QueueRequest
  <2> DEFINE r == [token |-> t, sequence |-> sequence', media |-> media]
  <2>2. PICK i \in DOMAIN requests' : requests'[i].token = c
    BY DEF Asking
  <2>3. \/ i \in DOMAIN requests /\ requests'[i] = requests[i]
        \/ requests'[i] = r
    <3>1. requests' = Append(requests, r)
      BY <2>1
    <3> HIDE DEF r
    <3> QED BY <1>1, <3>1, LenProperties
  <2> QED BY <2>2, <2>3 DEF Asking
<1>3. ASSUME NEW t \in Token, RevokeExtensions(t)
      PROVE  c \in Asking(requests)
  <2> DEFINE K == {i \in DOMAIN requests : requests[i].token # t}
  <2>1. requests' = Kept(requests, K) /\ K \in SUBSET (DOMAIN requests)
    BY <1>3 DEF RevokeExtensions, RequestsOfOthers
  <2> HIDE DEF K
  <2> QED BY <1>1, <2>1, KeptIsASubsequence DEF Asking
<1>4. CASE DrainRequests
  BY <1>4 DEF DrainRequests, Asking
<1>5. ASSUME SkipRequest \/ ServeRequest \/ ForwardRequest
      PROVE  c \in Asking(requests)
  BY <1>5 DEF SkipRequest, ServeRequest, ForwardRequest, queues
<1>6. ASSUME NEW t \in Token,
             \/ Enter(t) \/ EnterRelease(t) \/ Refused(t) \/ Subscribe(t)
             \/ CreateTimer(t) \/ RegisterCommand(t) \/ SetCommandEnabled(t)
             \/ Release(t) \/ ReleaseRefused(t) \/ CompleteCancelled(t)
             \/ ExecuteCommand(t) \/ ExecuteRefused(t) \/ WorkerNext(t)
             \/ Load(t) \/ StartWorker(t)
             \/ Quiesce(t) \/ BeginRevoke(t) \/ RevokeResources(t)
      PROVE  UNCHANGED requests
  BY <1>6 DEF Enter, EnterRelease, Refused, Subscribe, CreateTimer,
     RegisterCommand, SetCommandEnabled, Release, ReleaseRefused,
     CompleteCancelled, ExecuteCommand, ExecuteRefused, WorkerNext, FireTimers,
     BeginDelivery, CallbackReturns, EndDelivery, StopWorker, Load, StartWorker,
     Quiesce, BeginRevoke, RevokeResources, queues
<1>7. ASSUME AnswerForwarded \/ Invoke \/ PublishHost
      PROVE  UNCHANGED requests
  BY <1>7 DEF AnswerForwarded, Invoke, PublishHost
<1> QED
  BY <1>2, <1>3, <1>4, <1>5, <1>6, <1>7 DEF Next, UiNext, PluginNext

(* Only t itself adds to what t owns.                                      *)
LEMMA OwnedShrinks ==
  ASSUME Base, Ownership, Next, NEW c \in Token, ~Registers(c)
  PROVE  CallbacksOf(c)' \subseteq CallbacksOf(c) /\ Owned(c)' \subseteq Owned(c)
<1>1. CASE TablesKept
  BY <1>1 DEF TablesKept, CallbacksOf, Owned
<1>2. ASSUME NEW t \in Token, Registers(t)
      PROVE  CallbacksOf(c)' \subseteq CallbacksOf(c) /\ Owned(c)' \subseteq Owned(c)
  <2>1. PICK h \in Handle \ issued, e \in Owner, b \in Callback :
              /\ e.token = t /\ b.token = t
              /\ owners' = With(owners, h, e)
              /\ callbacks' = With(callbacks, h, b)
    BY <1>2 DEF Registers
  <2>2. t # c
    BY <1>2
  <2> QED BY <2>1, <2>2 DEF With, CallbacksOf, Owned
<1>3. ASSUME NEW t \in Token, Release(t) \/ RevokeExtensions(t) \/ RevokeResources(t)
      PROVE  CallbacksOf(c)' \subseteq CallbacksOf(c) /\ Owned(c)' \subseteq Owned(c)
  <2>1. /\ owners' = owners \/ \E D : owners' = Without(owners, D)
        /\ callbacks' = callbacks \/ \E D : callbacks' = Without(callbacks, D)
    BY <1>3 DEF Release, RevokeExtensions, RevokeResources
  <2> QED BY <2>1 DEF Without, CallbacksOf, Owned
<1> QED BY <1>1, <1>2, <1>3, TableSteps

(* The registry entry of c changes.                                        *)
LifeStep(c) ==
    /\ quiet'[c] = quiet[c]
    /\ Load(c) \/ BeginRevoke(c) \/ RevokeExtensions(c) \/ RevokeResources(c)

(* What a step does to the life of a token.                                *)
LEMMA LifeSteps ==
  ASSUME Base, Next, NEW c \in Token
  PROVE  \/ registry'[c] = registry[c] /\ (quiet'[c] = quiet[c] \/ Quiesce(c))
         \/ LifeStep(c)
<1>1. /\ registry \in [Token -> RegistryState]
      /\ quiet \in [Token -> BOOLEAN]
  BY DEF Base, TypeOK
<1>2. ASSUME NEW t \in Token, \/ Load(t) \/ Quiesce(t) \/ BeginRevoke(t)
                              \/ RevokeExtensions(t) \/ RevokeResources(t)
      PROVE  \/ registry'[c] = registry[c] /\ (quiet'[c] = quiet[c] \/ Quiesce(c))
             \/ LifeStep(c)
  <2>1. CASE t = c
    <3>1. CASE Quiesce(t)
      <4>1. UNCHANGED registry
        BY <3>1 DEF Quiesce
      <4> QED BY <2>1, <3>1, <4>1
    <3>2. CASE Load(t) \/ BeginRevoke(t) \/ RevokeExtensions(t) \/ RevokeResources(t)
      <4>1. UNCHANGED quiet
        BY <3>2 DEF Load, BeginRevoke, RevokeExtensions, RevokeResources
      <4> QED BY <2>1, <3>2, <4>1 DEF LifeStep
    <3> QED BY <1>2, <3>1, <3>2
  <2>2. CASE t # c
    BY <1>1, <1>2, <2>2 DEF Load, Quiesce, BeginRevoke, RevokeExtensions, RevokeResources
  <2> QED BY <2>1, <2>2
<1>3. ASSUME NEW t \in Token, \/ PluginNext(t) \/ WorkerNext(t) \/ StartWorker(t)
      PROVE  UNCHANGED <<registry, quiet>>
  BY <1>3 DEF PluginNext, Enter, EnterRelease, Refused, Subscribe, CreateTimer,
     RegisterCommand, SetCommandEnabled, Release, ReleaseRefused,
     CompleteCancelled, ExecuteCommand, ExecuteRefused, QueueRequest,
     WorkerNext, FireTimers, BeginDelivery, CallbackReturns, EndDelivery,
     StopWorker, StartWorker
<1>4. ASSUME \/ DrainRequests \/ SkipRequest \/ ServeRequest \/ ForwardRequest
             \/ AnswerForwarded \/ Invoke \/ PublishHost
      PROVE  UNCHANGED <<registry, quiet>>
  BY <1>4 DEF DrainRequests, SkipRequest, ServeRequest, ForwardRequest,
     AnswerForwarded, Invoke, PublishHost
<1> QED BY <1>2, <1>3, <1>4 DEF Next, UiNext

(* A plugin without a call in progress that makes none stays that way.     *)
LEMMA SilentStep ==
  ASSUME Base, Next, NEW c \in Token, call[c] = "idle", cancelled[c] = {}, ~MayCall(c)
  PROVE  call'[c] = "idle" /\ cancelled'[c] = {} /\ ~Registers(c) /\ ~QueueRequest(c)
<1>1. /\ call \in [Token -> {"idle", "checked", "releasing"}]
      /\ cancelled \in [Token -> SUBSET Request]
  BY DEF Base, TypeOK
<1>2. ~Registers(c) /\ ~QueueRequest(c)
  BY DEF Registers, QueueRequest, Commit
<1>3. ASSUME NEW t \in Token, PluginNext(t)
      PROVE  call'[c] = "idle" /\ cancelled'[c] = {}
  <2>1. t # c
    BY <1>3 DEF PluginNext, Enter, EnterRelease, Refused, Subscribe, CreateTimer,
       RegisterCommand, SetCommandEnabled, Release, ReleaseRefused,
       CompleteCancelled, ExecuteCommand, ExecuteRefused, QueueRequest, Commit
  <2>2. /\ call' = call \/ \E v : call' = [call EXCEPT ![t] = v]
        /\ cancelled' = cancelled \/ \E v : cancelled' = [cancelled EXCEPT ![t] = v]
    BY <1>3 DEF PluginNext, Enter, EnterRelease, Refused, Subscribe, CreateTimer,
       RegisterCommand, SetCommandEnabled, Release, ReleaseRefused,
       CompleteCancelled, ExecuteCommand, ExecuteRefused, QueueRequest, Commit
  <2> QED BY <1>1, <2>1, <2>2
<1>4. ASSUME NEW t \in Token,
             \/ WorkerNext(t) \/ Load(t) \/ StartWorker(t) \/ Quiesce(t)
             \/ BeginRevoke(t) \/ RevokeExtensions(t) \/ RevokeResources(t)
      PROVE  UNCHANGED <<call, cancelled>>
  BY <1>4 DEF WorkerNext, FireTimers, BeginDelivery, CallbackReturns, EndDelivery,
     StopWorker, Load, StartWorker, Quiesce, BeginRevoke, RevokeExtensions,
     RevokeResources, threads
<1>5. ASSUME \/ DrainRequests \/ SkipRequest \/ ServeRequest \/ ForwardRequest
             \/ AnswerForwarded \/ Invoke \/ PublishHost
      PROVE  UNCHANGED <<call, cancelled>>
  BY <1>5 DEF DrainRequests, SkipRequest, ServeRequest, ForwardRequest,
     AnswerForwarded, Invoke, PublishHost, threads
<1> QED BY <1>2, <1>3, <1>4, <1>5 DEF Next, UiNext

LEMMA SilenceStep ==
  ASSUME Base, Ownership, Silence, Next
  PROVE  Silence'
<1> SUFFICES ASSUME NEW c \in Token, quiet'[c]
             PROVE  /\ call'[c] = "idle" /\ cancelled'[c] = {} /\ registry'[c] # "unused"
                    /\ registry'[c] \in {"detached", "revoked"} =>
                         /\ CallbacksOf(c)' = {}
                         /\ c \notin Asking(requests')
                         /\ registry'[c] = "revoked" => Owned(c)' = {}
  BY DEF Silence, QuietIsSilent, GoneIsEmpty
<1>1. /\ registry \in [Token -> RegistryState]
      /\ quiet \in [Token -> BOOLEAN]
      /\ requests \in Seq(MediaRequest)
  BY DEF Base, TypeOK
<1>2. CASE Quiesce(c)
  <2>1. registry[c] = "live" /\ MayCall(c) /\ UNCHANGED <<registry, call, cancelled>>
    BY <1>2 DEF Quiesce, threads
  <2> QED BY <2>1 DEF MayCall
<1>3. CASE ~Quiesce(c)
  <2>1. quiet[c]
    BY <1>3, LifeSteps DEF LifeStep
  <2>2. call[c] = "idle" /\ cancelled[c] = {} /\ registry[c] # "unused"
    BY <2>1 DEF Silence, QuietIsSilent
  <2>3. call'[c] = "idle" /\ cancelled'[c] = {} /\ ~Registers(c) /\ ~QueueRequest(c)
    BY <2>1, <2>2, SilentStep DEF MayCall
  <2>4. CallbacksOf(c)' \subseteq CallbacksOf(c) /\ Owned(c)' \subseteq Owned(c)
    BY <2>3, OwnedShrinks
  <2>5. c \in Asking(requests') => c \in Asking(requests)
    BY <2>3, RequestsOfWhoAsks
  <2>6. CASE registry'[c] = registry[c]
    BY <2>1, <2>2, <2>3, <2>4, <2>5, <2>6 DEF Silence, GoneIsEmpty
  <2>7. CASE Load(c) \/ BeginRevoke(c)
    BY <1>1, <2>2, <2>3, <2>7 DEF Load, BeginRevoke
  <2>8. CASE RevokeExtensions(c)
    <3> DEFINE K == {i \in DOMAIN requests : requests[i].token # c}
    <3>1. /\ registry'[c] = "detached"
          /\ callbacks' = Without(callbacks, CallbacksOf(c))
          /\ requests' = Kept(requests, K)
      BY <1>1, <2>8 DEF RevokeExtensions, RequestsOfOthers
    <3>2. CallbacksOf(c)' = {}
      BY <3>1 DEF CallbacksOf, Without
    <3>3. c \notin Asking(requests')
      <4>1. K \in SUBSET (DOMAIN requests) /\ \A k \in K : requests[k].token # c
        OBVIOUS
      <4> HIDE DEF K
      <4>2. \A i \in DOMAIN Kept(requests, K) : \E k \in K : Kept(requests, K)[i] = requests[k]
        BY <1>1, <4>1, KeptIsASubsequence
      <4> QED BY <3>1, <4>1, <4>2 DEF Asking
    <3> QED BY <2>3, <3>1, <3>2, <3>3
  <2>9. CASE RevokeResources(c)
    <3>1. /\ registry[c] = "detached" /\ registry'[c] = "revoked"
          /\ owners' = Without(owners, Owned(c))
      BY <1>1, <2>9 DEF RevokeResources, Leftovers, Owned
    <3>2. Owned(c)' = {}
      BY <3>1 DEF Owned, Without
    <3> QED BY <2>1, <2>3, <2>4, <2>5, <3>1, <3>2 DEF Silence, GoneIsEmpty
  <2> QED BY <1>3, <2>6, <2>7, <2>8, <2>9, LifeSteps DEF LifeStep
<1> QED BY <1>2, <1>3

(* Nothing of a plugin that was shut down outlives its revocation.         *)
THEOREM RevocationIsComplete == Spec => []RevokedOwnsNothing
<1>1. Init => Silence
  BY DEF Init, Silence, QuietIsSilent, GoneIsEmpty
<1>2. Base /\ Ownership /\ Silence /\ [Next]_vars => Silence'
  <2>1. ASSUME Silence, UNCHANGED vars PROVE Silence'
    BY <2>1 DEF Silence, QuietIsSilent, GoneIsEmpty, CallbacksOf, Owned, Asking,
       vars, table, queues, threads
  <2> QED BY <2>1, SilenceStep
<1>3. Base /\ Ownership /\ Silence => RevokedOwnsNothing
  <2> SUFFICES ASSUME Base, Ownership, Silence, NEW t \in Token,
                      registry[t] = "revoked", quiet[t]
               PROVE  /\ CallbacksOf(t) = {} /\ Owned(t) = {} /\ pending[t] = <<>>
                      /\ \A i \in DOMAIN requests : requests[i].token # t
    BY DEF RevokedOwnsNothing, Owned
  <2>1. CallbacksOf(t) = {} /\ Owned(t) = {} /\ t \notin Asking(requests)
    BY DEF Silence, GoneIsEmpty
  <2>2. Handles(pending[t]) = {}
    BY <2>1, QueuedByHandles DEF Ownership
  <2>3. pending[t] = <<>>
    BY <2>2, TailShrinks DEF Base, TypeOK, QueuesAreBounded
  <2> QED BY <2>1, <2>3 DEF Asking
<1> QED BY <1>1, <1>2, <1>3, BaseInvariant, OwnershipInvariant, PTL DEF Spec

-----------------------------------------------------------------------------
(* Order: the sequences of the requests in a queue ascend, up to the last  *)
(* one that was drawn.                                                     *)

Ascends(q, D, n) ==
  \A i \in D : q[i].sequence <= n /\ \A j \in D : i < j => q[i].sequence < q[j].sequence

Awaited(q)         == {i \in DOMAIN q : q[i].completion # None}
InOrder(q, n)      == Ascends(q, Awaited(q), n)
AskedInOrder(q, n) == Ascends(q, DOMAIN q, n)

QueuesInOrder ==
  /\ \A t \in Token : InOrder(pending[t], sequence)
  /\ AskedInOrder(requests, sequence) /\ AskedInOrder(drained, sequence)

LEMMA SequencesAreNumbers ==
  /\ \A q \in Seq(Delivery) : \A i \in DOMAIN q : q[i].sequence \in Nat
  /\ \A q \in Seq(MediaRequest) : \A i \in DOMAIN q : q[i].sequence \in Nat
<1>1. ASSUME NEW q \in Seq(Delivery), NEW i \in DOMAIN q PROVE q[i].sequence \in Nat
  <2>1. q[i] \in Delivery
    BY ElementOfSeq, LenProperties
  <2> QED BY <2>1 DEF Delivery
<1>2. ASSUME NEW q \in Seq(MediaRequest), NEW i \in DOMAIN q PROVE q[i].sequence \in Nat
  <2>1. q[i] \in MediaRequest
    BY ElementOfSeq, LenProperties
  <2> QED BY <2>1 DEF MediaRequest
<1> QED BY <1>1, <1>2

LEMMA ExtendedInOrder ==
  ASSUME NEW s \in Seq(Delivery), NEW H, NEW n, InOrder(s, n), NEW r, Extended(r, s, H)
  PROVE  InOrder(r, n)
<1>1. PICK new \in Seq(Delivery) :
        r = s \o new /\ \A i \in DOMAIN new : new[i].completion = None
  BY DEF Extended
<1>2. /\ Len(new) \in Nat /\ DOMAIN new = 1..Len(new)
      /\ Len(s) \in Nat /\ DOMAIN s = 1..Len(s) /\ DOMAIN r = 1..Len(s) + Len(new)
      /\ \A i \in 1..Len(s) + Len(new) : r[i] = IF i <= Len(s) THEN s[i] ELSE new[i - Len(s)]
  BY <1>1, ConcatProperties, LenProperties
<1>3. \A i \in Awaited(r) : i \in Awaited(s) /\ r[i] = s[i]
  <2> SUFFICES ASSUME NEW i \in 1..Len(s) + Len(new), r[i].completion # None
               PROVE  i \in Awaited(s) /\ r[i] = s[i]
    BY <1>2 DEF Awaited
  <2>1. CASE i <= Len(s)
    BY <1>2, <2>1 DEF Awaited
  <2>2. CASE ~(i <= Len(s))
    <3>1. i - Len(s) \in DOMAIN new /\ r[i] = new[i - Len(s)]
      BY <1>2, <2>2
    <3> QED BY <1>1, <3>1
  <2> QED BY <2>1, <2>2
<1> QED BY <1>3 DEF InOrder, Ascends

(* A request joins with the next sequence; or what joins is none.          *)
LEMMA AppendedAscends ==
  ASSUME NEW S, NEW s \in Seq(S), NEW D \in SUBSET (DOMAIN s), NEW n \in Nat, Ascends(s, D, n),
         \A i \in DOMAIN s : s[i].sequence \in Nat,
         NEW d \in S, NEW E \in SUBSET (D \cup {Len(s) + 1}),
         NEW m \in Nat, n <= m, Len(s) + 1 \in E => d.sequence \in Nat /\ n < d.sequence /\ d.sequence <= m
  PROVE  Ascends(Append(s, d), E, m)
<1>1. /\ Len(s) \in Nat /\ DOMAIN s = 1..Len(s)
      /\ Append(s, d)[Len(s) + 1] = d
      /\ \A i \in 1..Len(s) : Append(s, d)[i] = s[i]
  BY LenProperties, AppendProperties
<1>2. \A i \in E : \/ i = Len(s) + 1 /\ Append(s, d)[i] = d
                   \/ i \in D /\ Append(s, d)[i] = s[i] /\ i <= Len(s) /\ s[i].sequence \in Nat
  BY <1>1
<1>3. ASSUME NEW i \in E PROVE Append(s, d)[i].sequence <= m
  BY <1>2, <1>3 DEF Ascends
<1>4. ASSUME NEW i \in E, NEW j \in E, i < j
      PROVE  Append(s, d)[i].sequence < Append(s, d)[j].sequence
  <2>1. i \in D /\ Append(s, d)[i] = s[i] /\ s[i].sequence \in Nat
    BY <1>1, <1>2, <1>4
  <2>2. CASE j \in D /\ Append(s, d)[j] = s[j]
    BY <1>4, <2>1, <2>2 DEF Ascends
  <2>3. CASE j = Len(s) + 1 /\ Append(s, d)[j] = d
    <3>1. s[i].sequence <= n
      BY <2>1 DEF Ascends
    <3> QED BY <1>4, <2>1, <2>3, <3>1
  <2> QED BY <1>2, <2>2, <2>3
<1> QED BY <1>3, <1>4 DEF Ascends

LEMMA KeptAscends ==
  ASSUME NEW S, NEW s \in Seq(S), NEW K \in SUBSET (DOMAIN s), NEW D, NEW n, Ascends(s, D, n),
         NEW E \in SUBSET (DOMAIN Kept(s, K)), \A i \in E : Nth(K, i) \in D
  PROVE  Ascends(Kept(s, K), E, n)
  BY KeptInOrder DEF Ascends

LEMMA TailAscends ==
  ASSUME NEW S, NEW s \in Seq(S), s # <<>>, NEW D, NEW n, Ascends(s, D, n),
         NEW E \in SUBSET (DOMAIN Tail(s)), \A i \in E : i + 1 \in D
  PROVE  Ascends(Tail(s), E, n)
<1>1. /\ Len(s) \in Nat /\ DOMAIN Tail(s) = 1..(Len(s) - 1)
      /\ \A i \in DOMAIN Tail(s) : Tail(s)[i] = s[i + 1]
  BY HeadTailProperties, LenProperties
<1>2. \A i \in E : Tail(s)[i] = s[i + 1] /\ i \in Nat
  BY <1>1
<1> QED BY <1>2 DEF Ascends

LEMMA DeliveryJoins ==
  ASSUME NEW s \in Seq(Delivery), NEW n \in Nat, InOrder(s, n), NEW d \in Delivery, NEW m \in Nat,
         n <= m, d.completion # None => n < d.sequence /\ d.sequence <= m
  PROVE  InOrder(Joined(s, d), m)
<1>1. /\ Len(s) \in Nat /\ DOMAIN s = 1..Len(s)
      /\ Append(s, d)[Len(s) + 1] = d /\ DOMAIN Append(s, d) = 1..Len(s) + 1
      /\ \A i \in 1..Len(s) : Append(s, d)[i] = s[i]
  BY LenProperties, AppendProperties
<1>2. \A i \in DOMAIN s : s[i].sequence \in Nat
  BY SequencesAreNumbers
<1>3. Awaited(Append(s, d)) \in SUBSET (Awaited(s) \cup {Len(s) + 1})
  BY <1>1 DEF Awaited
<1>4. Len(s) + 1 \in Awaited(Append(s, d)) => d.completion # None
  BY <1>1 DEF Awaited
<1>5. d.sequence \in Nat /\ Awaited(s) \in SUBSET (DOMAIN s)
  BY DEF Delivery, Awaited
<1>6. Ascends(Append(s, d), Awaited(Append(s, d)), m)
  BY <1>2, <1>3, <1>4, <1>5, AppendedAscends DEF InOrder
<1> QED BY <1>6 DEF InOrder, Joined

LEMMA RequestJoins ==
  ASSUME NEW s \in Seq(MediaRequest), NEW n \in Nat, AskedInOrder(s, n), NEW d \in MediaRequest,
         d.sequence = n + 1
  PROVE  AskedInOrder(Append(s, d), n + 1)
<1>1. DOMAIN Append(s, d) \in SUBSET (DOMAIN s \cup {Len(s) + 1})
  BY LenProperties, AppendProperties
<1>2. \A i \in DOMAIN s : s[i].sequence \in Nat
  BY SequencesAreNumbers
<1>3. d.sequence \in Nat /\ n < d.sequence /\ d.sequence <= n + 1 /\ n <= n + 1 /\ n + 1 \in Nat
  OBVIOUS
<1>4. DOMAIN s \in SUBSET (DOMAIN s)
  OBVIOUS
<1> QED BY <1>1, <1>2, <1>3, <1>4, AppendedAscends DEF AskedInOrder

LEMMA LessThanNext ==
  /\ \A q \in Seq(Delivery), n, m \in Nat : n <= m /\ InOrder(q, n) => InOrder(q, m)
  /\ \A q \in Seq(MediaRequest), n, m \in Nat : n <= m /\ AskedInOrder(q, n) => AskedInOrder(q, m)
<1>1. ASSUME NEW q, NEW D, NEW n \in Nat, NEW m \in Nat, n <= m,
             \A i \in D : q[i].sequence \in Nat, Ascends(q, D, n)
      PROVE  Ascends(q, D, m)
  BY <1>1 DEF Ascends
<1>2. \A q : Awaited(q) \subseteq DOMAIN q
  BY DEF Awaited
<1> QED BY <1>1, <1>2, SequencesAreNumbers DEF InOrder, AskedInOrder

LEMMA PurgedInOrder ==
  ASSUME NEW s \in Seq(Delivery), NEW h, NEW n, InOrder(s, n) PROVE InOrder(Purged(s, h), n)
<1> DEFINE K == DOMAIN s \ Positions(s, h)
<1>1. K \in SUBSET (DOMAIN s)
  OBVIOUS
<1> HIDE DEF K
<1>2. \A i \in Awaited(Kept(s, K)) : i \in DOMAIN Kept(s, K) /\ Nth(K, i) \in Awaited(s)
  BY <1>1, KeptInOrder DEF Awaited
<1>3. Ascends(Kept(s, K), Awaited(Kept(s, K)), n)
  BY <1>1, <1>2, KeptAscends DEF InOrder
<1> QED BY <1>3 DEF Purged, InOrder, K

LEMMA TailInOrder ==
  ASSUME NEW s \in Seq(Delivery), s # <<>>, NEW n, InOrder(s, n) PROVE InOrder(Tail(s), n)
<1>1. \A i \in DOMAIN Tail(s) : i + 1 \in DOMAIN s /\ Tail(s)[i] = s[i + 1]
  BY HeadTailProperties, LenProperties
<1>2. \A i \in Awaited(Tail(s)) : i \in DOMAIN Tail(s) /\ i + 1 \in Awaited(s)
  BY <1>1 DEF Awaited
<1> QED BY <1>2, TailAscends DEF InOrder

LEMMA TailAskedInOrder ==
  ASSUME NEW s \in Seq(MediaRequest), s # <<>>, NEW n, AskedInOrder(s, n)
  PROVE  AskedInOrder(Tail(s), n)
<1>1. \A i \in DOMAIN Tail(s) : i + 1 \in DOMAIN s
  BY HeadTailProperties, LenProperties
<1> QED BY <1>1, TailAscends DEF AskedInOrder

LEMMA OneQueueInOrder ==
  ASSUME Base, QueuesInOrder, NEW t \in Token, NEW r,
         pending' = [pending EXCEPT ![t] = r], sequence' \in Nat, sequence <= sequence',
         InOrder(r, sequence')
  PROVE  \A c \in Token : InOrder(pending'[c], sequence')
<1>1. \A c \in Token : pending[c] \in Seq(Delivery) /\ InOrder(pending[c], sequence)
  BY DEF Base, TypeOK, QueuesInOrder
<1>2. sequence \in Nat /\ pending \in [Token -> Seq(Delivery)]
  BY ExtensionsAssumption DEF Base, TypeOK, ExtensionsAssumption
<1> QED BY <1>1, <1>2, LessThanNext

(* Steps that publish leave every queue or extend it.                      *)
QueuesExtend ==
  \A c \in Token : \/ pending'[c] = pending[c]
                   \/ \E H \in SUBSET Handle : Extended(pending'[c], pending[c], H)

LEMMA CompleteExtends ==
  ASSUME Base, NEW r \in Request, Complete(r)
  PROVE  QueuesExtend
<1> DEFINE H == Subscribers(r.token, "result")
<1>1. r.token \in Token /\ r.sequence \in Nat
  BY DEF Request
<1>2. PICK s \in Published(pending[r.token], H, "result", {r.sequence}) :
             pending' = [pending EXCEPT ![r.token] = s]
  BY DEF Complete
<1>3. H \in SUBSET Handle /\ "result" \in Kind
  BY DEF Subscribers, CallbacksOf, Base, TypeOK, Kind
<1>4. IsFiniteSet({r.sequence}) /\ {r.sequence} \in SUBSET Nat
  <2>1. IsFiniteSet({r.sequence})
    BY FS_Singleton
  <2> QED BY <1>1, <2>1
<1>5. /\ pending[r.token] \in Seq(Delivery) /\ Len(pending[r.token]) <= MaxPending
      /\ pending \in [Token -> Seq(Delivery)]
  BY <1>1 DEF Base, TypeOK, QueuesAreBounded
<1> HIDE DEF H
<1>6. Extended(s, pending[r.token], H)
  BY <1>2, <1>3, <1>4, <1>5, PublishedExtends
<1> QED BY <1>1, <1>2, <1>3, <1>5, <1>6 DEF QueuesExtend

LEMMA TimersExtend ==
  ASSUME Base, NEW t \in Token, FireTimers(t)
  PROVE  QueuesExtend
<1>1. PICK due \in SUBSET CallbacksOf(t) : \E s \in Refreshed(pending[t], due, "timer") :
            pending' = [pending EXCEPT ![t] = s]
  BY DEF FireTimers
<1>2. PICK s \in Refreshed(pending[t], due, "timer") :
            pending' = [pending EXCEPT ![t] = s]
  BY <1>1
<1>3. due \in SUBSET Handle /\ "timer" \in Kind
  BY DEF CallbacksOf, Base, TypeOK, Kind
<1>4. /\ pending[t] \in Seq(Delivery) /\ Len(pending[t]) <= MaxPending
      /\ pending \in [Token -> Seq(Delivery)]
  BY DEF Base, TypeOK, QueuesAreBounded
<1>5. Extended(s, pending[t], due)
  BY <1>2, <1>3, <1>4, RefreshedExtends
<1> QED BY <1>2, <1>3, <1>4, <1>5 DEF QueuesExtend

LEMMA HostExtends ==
  ASSUME Base, PublishHost
  PROVE  QueuesExtend
<1>1. \A t \in Token : \/ pending'[t] = pending[t]
                       \/ pending'[t] \in Refreshed(pending[t], Subscribers(t, "host"), "host")
  BY DEF PublishHost
<1>2. \A t \in Token : Subscribers(t, "host") \in SUBSET Handle
  BY DEF Subscribers, CallbacksOf, Base, TypeOK
<1>3. "host" \in Kind
  BY DEF Kind
<1>4. \A t \in Token : pending[t] \in Seq(Delivery) /\ Len(pending[t]) <= MaxPending
  BY DEF Base, TypeOK, QueuesAreBounded
<1> QED BY <1>1, <1>2, <1>3, <1>4, RefreshedExtends DEF QueuesExtend

LEMMA PublishInOrder ==
  ASSUME Base, QueuesInOrder, UNCHANGED sequence, QueuesExtend
  PROVE  \A c \in Token : InOrder(pending'[c], sequence')
<1> SUFFICES ASSUME NEW c \in Token PROVE InOrder(pending'[c], sequence)
  OBVIOUS
<1>1. pending[c] \in Seq(Delivery) /\ InOrder(pending[c], sequence)
  BY DEF Base, TypeOK, QueuesInOrder
<1> QED BY <1>1, ExtendedInOrder DEF QueuesExtend

(* Who completes a request completes one.                                  *)
LEMMA CompletesRequests ==
  ASSUME Base, Next
  PROVE  /\ \A t \in Token : CompleteCancelled(t) =>
              \E r \in cancelled[t] : r \in Request /\ Complete(r)
         /\ \A t \in Token : CallbackReturns(t) /\ delivery[t].completion # None =>
              LET r == [token |-> delivery[t].completion, sequence |-> delivery[t].sequence]
              IN r \in Request /\ Complete(r)
         /\ ServeRequest => Served \in Request /\ Complete(Served)
         /\ AnswerForwarded => \E r \in forwarded : r \in Request /\ Complete(r)
<1>1. ASSUME NEW t \in Token, CompleteCancelled(t)
      PROVE  \E r \in cancelled[t] : r \in Request /\ Complete(r)
  BY <1>1 DEF CompleteCancelled, Base, TypeOK
<1>2. ASSUME NEW t \in Token, CallbackReturns(t), delivery[t].completion # None
      PROVE  LET r == [token |-> delivery[t].completion, sequence |-> delivery[t].sequence]
             IN r \in Request /\ Complete(r)
  BY <1>2 DEF CallbackReturns, Base, WorkersHoldDeliveries, Delivery, Request
<1>3. ASSUME ServeRequest PROVE Served \in Request /\ Complete(Served)
  <2>1. drained # <<>> /\ Complete(Served)
    BY <1>3 DEF ServeRequest
  <2>2. Head(drained) \in MediaRequest
    BY <2>1, HeadTailProperties DEF Base, TypeOK
  <2> QED BY <2>1, <2>2 DEF Served, Request, MediaRequest
<1>4. ASSUME AnswerForwarded PROVE \E r \in forwarded : r \in Request /\ Complete(r)
  BY <1>4 DEF AnswerForwarded, Base, TypeOK
<1> QED BY <1>1, <1>2, <1>3, <1>4

(* What is queued for execution draws its sequence under the same lock.    *)
LEMMA ExecuteInOrder ==
  ASSUME Base, QueuesInOrder, NEW t \in Token, ExecuteCommand(t)
  PROVE  /\ \A c \in Token : InOrder(pending'[c], sequence')
         /\ sequence' \in Nat /\ sequence <= sequence'
<1>1. PICK h \in DOMAIN commands :
            /\ Accept(t)
            /\ pending' = [pending EXCEPT ![callbacks[h].token] =
                 Joined(pending[callbacks[h].token], Deliver(h, "command", sequence', t))]
  BY DEF ExecuteCommand
<1> DEFINE c == callbacks[h].token
           d == Deliver(h, "command", sequence', t)
<1>2. c \in Token /\ h \in Handle
  BY DEF CommandsAreCallbacks, Base, TypeOK, Callback
<1>3. sequence \in Nat /\ sequence' = sequence + 1
  BY <1>1, ExtensionsAssumption DEF Accept, Draw, Base, TypeOK, ExtensionsAssumption
<1>4. d \in Delivery /\ d.sequence = sequence'
  BY <1>2, <1>3 DEF Deliver, Delivery, Kind
<1>5. pending[c] \in Seq(Delivery) /\ InOrder(pending[c], sequence)
  BY <1>2 DEF Base, TypeOK, QueuesInOrder
<1> HIDE DEF d
<1>6. InOrder(Joined(pending[c], d), sequence')
  BY <1>3, <1>4, <1>5, DeliveryJoins
<1>7. sequence' \in Nat /\ sequence <= sequence'
  BY <1>3
<1>8. pending' = [pending EXCEPT ![c] = Joined(pending[c], d)]
  BY <1>1 DEF d
<1> HIDE DEF c
<1>9. \A x \in Token : InOrder(pending'[x], sequence')
  BY <1>2, <1>6, <1>7, <1>8, OneQueueInOrder
<1> QED BY <1>7, <1>9

LEMMA DeliveriesStayInOrder ==
  ASSUME Base, QueuesInOrder, [Next]_vars
  PROVE  \A c \in Token : InOrder(pending'[c], sequence')
<1> DEFINE Goal == \A c \in Token : InOrder(pending'[c], sequence')
<1>1. sequence \in Nat /\ sequence <= sequence
  BY ExtensionsAssumption DEF Base, TypeOK, ExtensionsAssumption
<1>2. CASE UNCHANGED <<pending, sequence>>
  BY <1>2 DEF QueuesInOrder
<1>3. CASE sequence' = sequence + 1 /\ UNCHANGED pending
  <2>1. \A c \in Token : pending[c] \in Seq(Delivery) /\ InOrder(pending[c], sequence)
    BY DEF QueuesInOrder, Base, TypeOK
  <2>2. sequence + 1 \in Nat /\ sequence <= sequence + 1
    BY <1>1
  <2> QED BY <1>1, <1>3, <2>1, <2>2, LessThanNext
<1>4. ASSUME NEW t \in Token, CompleteCancelled(t) \/ CallbackReturns(t) PROVE Goal
  <2>1. UNCHANGED sequence
    BY <1>4 DEF CompleteCancelled, CallbackReturns
  <2>2. CallbackReturns(t) /\ delivery[t].completion = None => UNCHANGED pending
    BY DEF CallbackReturns
  <2>3. Next
    BY <1>4 DEF Next, PluginNext, WorkerNext
  <2>4. UNCHANGED pending \/ \E r \in Request : Complete(r)
    BY <1>4, <2>2, <2>3, CompletesRequests
  <2> QED BY <1>2, <2>1, <2>4, CompleteExtends, PublishInOrder
<1>5. ASSUME ServeRequest \/ AnswerForwarded PROVE Goal
  <2>1. UNCHANGED sequence /\ Next
    BY <1>5 DEF ServeRequest, AnswerForwarded, Next, UiNext
  <2>2. \E r \in Request : Complete(r)
    BY <1>5, <2>1, CompletesRequests
  <2> QED BY <2>1, <2>2, CompleteExtends, PublishInOrder
<1>6. ASSUME NEW t \in Token, FireTimers(t) PROVE Goal
  <2>1. UNCHANGED sequence
    BY <1>6 DEF FireTimers
  <2> QED BY <1>6, <2>1, TimersExtend, PublishInOrder
<1>7. ASSUME NEW t \in Token, BeginDelivery(t) PROVE Goal
  <2>1. pending[t] # <<>> /\ pending' = [pending EXCEPT ![t] = Tail(pending[t])] /\ UNCHANGED sequence
    BY <1>7 DEF BeginDelivery
  <2>2. InOrder(Tail(pending[t]), sequence)
    BY <2>1, TailInOrder DEF Base, TypeOK, QueuesInOrder
  <2> QED BY <1>1, <2>1, <2>2, OneQueueInOrder
<1>8. ASSUME NEW t \in Token, Release(t) PROVE Goal
  <2>1. PICK h : pending' = [pending EXCEPT ![t] = Purged(pending[t], h)] /\ UNCHANGED sequence
    BY <1>8 DEF Release
  <2>2. InOrder(Purged(pending[t], h), sequence)
    BY PurgedInOrder DEF Base, TypeOK, QueuesInOrder
  <2> QED BY <1>1, <2>1, <2>2, OneQueueInOrder
<1>9. ASSUME Invoke PROVE Goal
  <2>1. PICK h \in DOMAIN commands :
              /\ UNCHANGED sequence
              /\ pending' = [pending EXCEPT ![callbacks[h].token] =
                   Joined(pending[callbacks[h].token], Deliver(h, "command", 0, None))]
    BY <1>9 DEF Invoke
  <2> DEFINE c == callbacks[h].token
             d == Deliver(h, "command", 0, None)
  <2>2. c \in Token /\ h \in Handle
    BY DEF CommandsAreCallbacks, Base, TypeOK, Callback
  <2>3. d \in Delivery /\ d.completion = None
    BY <2>2 DEF Deliver, Delivery, Kind
  <2>4. pending[c] \in Seq(Delivery) /\ InOrder(pending[c], sequence)
    BY <2>2 DEF Base, TypeOK, QueuesInOrder
  <2> HIDE DEF d
  <2>5. InOrder(Joined(pending[c], d), sequence)
    BY <1>1, <2>3, <2>4, DeliveryJoins
  <2> QED BY <1>1, <2>1, <2>2, <2>5, OneQueueInOrder DEF d
<1>10. ASSUME PublishHost PROVE Goal
  <2>1. UNCHANGED sequence
    BY <1>10 DEF PublishHost
  <2> QED BY <1>10, <2>1, HostExtends, PublishInOrder
<1>11. ASSUME NEW t \in Token, RevokeExtensions(t) PROVE Goal
  <2>1. UNCHANGED sequence /\ pending'[t] = <<>>
    BY <1>11 DEF RevokeExtensions
  <2>2. \A c \in Token \ {t} : Extended(pending'[c], pending[c], CallbacksOf(c))
    BY <1>11, RevokeExtends DEF Base
  <2>3. \A c \in Token : pending[c] \in Seq(Delivery) /\ InOrder(pending[c], sequence)
    BY DEF Base, TypeOK, QueuesInOrder
  <2>4. InOrder(<<>>, sequence)
    BY DEF InOrder, Ascends, Awaited
  <2> QED BY <2>1, <2>2, <2>3, <2>4, ExtendedInOrder
<1>12. ASSUME NEW t \in Token, ExecuteCommand(t) PROVE Goal
  BY <1>12, ExecuteInOrder
<1>13. ASSUME NEW t \in Token,
              \/ Enter(t) \/ EnterRelease(t) \/ Refused(t) \/ Subscribe(t)
              \/ CreateTimer(t) \/ RegisterCommand(t) \/ SetCommandEnabled(t)
              \/ ReleaseRefused(t) \/ EndDelivery(t) \/ StopWorker(t) \/ Load(t) \/ StartWorker(t)
              \/ Quiesce(t) \/ BeginRevoke(t) \/ RevokeResources(t)
       PROVE  UNCHANGED <<pending, requests, sequence, drained>>
  BY <1>13 DEF Enter, EnterRelease, Refused, Subscribe, CreateTimer,
     RegisterCommand, SetCommandEnabled, ReleaseRefused, EndDelivery, StopWorker, Load,
     StartWorker, Quiesce, BeginRevoke, RevokeResources, queues, ui
<1>14. ASSUME NEW t \in Token, ExecuteRefused(t) \/ QueueRequest(t)
       PROVE  sequence' = sequence + 1 /\ UNCHANGED pending
  BY <1>14 DEF ExecuteRefused, QueueRequest, Accept, Draw
<1>15. ASSUME DrainRequests \/ SkipRequest \/ ForwardRequest PROVE UNCHANGED <<pending, sequence>>
  BY <1>15 DEF DrainRequests, SkipRequest, ForwardRequest, queues
<1>16. CASE UNCHANGED vars
  BY <1>2, <1>16 DEF vars, queues
<1> QED
  BY <1>2, <1>3, <1>4, <1>5, <1>6, <1>7, <1>8, <1>9, <1>10, <1>11, <1>12, <1>13, <1>14, <1>15, <1>16
     DEF Next, UiNext, PluginNext, WorkerNext

LEMMA RequestsStayInOrder ==
  ASSUME Base, QueuesInOrder, [Next]_vars
  PROVE  AskedInOrder(requests, sequence)' /\ AskedInOrder(drained, sequence)'
<1> DEFINE Goal == AskedInOrder(requests, sequence)' /\ AskedInOrder(drained, sequence)'
<1>1. sequence \in Nat /\ requests \in Seq(MediaRequest) /\ drained \in Seq(MediaRequest)
      /\ AskedInOrder(requests, sequence) /\ AskedInOrder(drained, sequence)
  BY ExtensionsAssumption DEF Base, TypeOK, ExtensionsAssumption, QueuesInOrder
<1>2. CASE UNCHANGED <<requests, sequence, drained>>
  BY <1>1, <1>2 DEF AskedInOrder, Ascends
<1>3. AskedInOrder(<<>>, sequence)
  BY DEF AskedInOrder, Ascends
<1>4. AskedInOrder(requests, sequence + 1) /\ AskedInOrder(drained, sequence + 1)
  BY <1>1, LessThanNext
<1>5. ASSUME NEW t \in Token, ExecuteCommand(t) \/ ExecuteRefused(t) PROVE Goal
  <2>1. sequence' = sequence + 1 /\ UNCHANGED <<requests, drained>>
    BY <1>5 DEF ExecuteCommand, ExecuteRefused, Accept, Draw, ui
  <2> QED BY <1>4, <2>1 DEF AskedInOrder, Ascends
<1>6. ASSUME NEW t \in Token, QueueRequest(t) PROVE Goal
  <2>1. PICK media \in BOOLEAN :
          requests' = Append(requests, [token |-> t, sequence |-> sequence', media |-> media])
    BY <1>6 DEF QueueRequest
  <2>2. sequence' = sequence + 1 /\ UNCHANGED drained
    BY <1>6 DEF QueueRequest, Accept, Draw, ui
  <2> DEFINE d == [token |-> t, sequence |-> sequence + 1, media |-> media]
  <2>3. d \in MediaRequest /\ d.sequence = sequence + 1
    BY <1>1 DEF MediaRequest
  <2>4. requests' = Append(requests, d)
    BY <2>1, <2>2
  <2> HIDE DEF d
  <2>5. AskedInOrder(Append(requests, d), sequence + 1)
    BY <1>1, <2>3, RequestJoins
  <2> QED BY <1>4, <2>2, <2>4, <2>5 DEF AskedInOrder, Ascends
<1>7. ASSUME NEW t \in Token, RevokeExtensions(t) PROVE Goal
  <2>1. requests' = RequestsOfOthers(t) /\ UNCHANGED <<sequence, drained>>
    BY <1>7 DEF RevokeExtensions, ui
  <2> DEFINE K == {i \in DOMAIN requests : requests[i].token # t}
  <2>2. K \in SUBSET (DOMAIN requests)
    OBVIOUS
  <2> HIDE DEF K
  <2>3. \A i \in DOMAIN Kept(requests, K) : Nth(K, i) \in DOMAIN requests
    BY <1>1, <2>2, KeptInOrder
  <2>4. AskedInOrder(Kept(requests, K), sequence)
    BY <1>1, <2>2, <2>3, KeptAscends DEF AskedInOrder
  <2>5. requests' = Kept(requests, K)
    BY <2>1 DEF RequestsOfOthers, K
  <2> QED BY <1>1, <2>1, <2>4, <2>5 DEF AskedInOrder, Ascends
<1>8. ASSUME DrainRequests PROVE Goal
  <2>1. drained' = requests /\ requests' = <<>> /\ UNCHANGED sequence
    BY <1>8 DEF DrainRequests
  <2> QED BY <1>1, <1>3, <2>1 DEF AskedInOrder, Ascends
<1>9. ASSUME SkipRequest \/ ServeRequest \/ ForwardRequest PROVE Goal
  <2>1. drained # <<>> /\ drained' = Tail(drained) /\ UNCHANGED <<requests, sequence>>
    BY <1>9 DEF SkipRequest, ServeRequest, ForwardRequest, queues
  <2>2. AskedInOrder(Tail(drained), sequence)
    BY <1>1, <2>1, TailAskedInOrder
  <2> QED BY <1>1, <2>1, <2>2 DEF AskedInOrder, Ascends
<1>10. ASSUME NEW t \in Token,
              \/ Enter(t) \/ EnterRelease(t) \/ Refused(t) \/ Subscribe(t)
              \/ CreateTimer(t) \/ RegisterCommand(t) \/ SetCommandEnabled(t)
              \/ Release(t) \/ ReleaseRefused(t) \/ CompleteCancelled(t)
       PROVE  UNCHANGED <<requests, sequence, drained>>
  BY <1>10 DEF Enter, EnterRelease, Refused, Subscribe, CreateTimer, RegisterCommand,
     SetCommandEnabled, Release, ReleaseRefused, CompleteCancelled, queues, ui
<1>11. ASSUME NEW t \in Token,
              \/ FireTimers(t) \/ BeginDelivery(t) \/ CallbackReturns(t) \/ EndDelivery(t)
              \/ StopWorker(t) \/ Load(t) \/ StartWorker(t) \/ Quiesce(t) \/ BeginRevoke(t)
              \/ RevokeResources(t)
       PROVE  UNCHANGED <<requests, sequence, drained>>
  BY <1>11 DEF FireTimers, BeginDelivery, CallbackReturns, EndDelivery, StopWorker, Load,
     StartWorker, Quiesce, BeginRevoke, RevokeResources, queues, ui
<1>12. ASSUME AnswerForwarded \/ Invoke \/ PublishHost
       PROVE  UNCHANGED <<requests, sequence, drained>>
  BY <1>12 DEF AnswerForwarded, Invoke, PublishHost, queues, ui
<1>13. CASE UNCHANGED vars
  BY <1>2, <1>13 DEF vars, queues, ui
<1> QED
  BY <1>2, <1>5, <1>6, <1>7, <1>8, <1>9, <1>10, <1>11, <1>12, <1>13
     DEF Next, UiNext, PluginNext, WorkerNext

LEMMA OrderInvariant == Spec => []QueuesInOrder
<1>1. Init => QueuesInOrder
  BY DEF Init, QueuesInOrder, InOrder, AskedInOrder, Ascends, Awaited
<1>2. Base /\ QueuesInOrder /\ [Next]_vars => QueuesInOrder'
  BY DeliveriesStayInOrder, RequestsStayInOrder DEF QueuesInOrder
<1> QED BY <1>1, <1>2, BaseInvariant, PTL DEF Spec

(* A plugin's commands are called in the order in which they were executed,*)
(* though deliveries of any other kind come between and are removed.       *)
THEOREM CommandsKeepTheirOrder == Spec => []CommandsWaitInOrder
<1>1. QueuesInOrder => CommandsWaitInOrder
  BY DEF QueuesInOrder, InOrder, Ascends, Awaited, CommandsWaitInOrder
<1> QED BY <1>1, OrderInvariant, PTL

-----------------------------------------------------------------------------
(* Accounts: where every request is.                                       *)

(* The requests a queue holds, and the one a delivery answers, if any.     *)
RequestsIn(q) == {[token |-> q[i].token, sequence |-> q[i].sequence] : i \in DOMAIN q}
RequestOf(d)  == IF d.completion = None THEN {}
                 ELSE {[token |-> d.completion, sequence |-> d.sequence]}

LEMMA InOutstanding ==
  ASSUME NEW q, NEW r
  PROVE  r \in Outstanding(q) <=>
           \E i \in DOMAIN q : /\ q[i].completion # None
                               /\ r = [token |-> q[i].completion, sequence |-> q[i].sequence]
  BY DEF Outstanding

(* What is published answers nobody.                                       *)
LEMMA ExtendedKeeps ==
  ASSUME NEW s \in Seq(Delivery), NEW H, NEW r, Extended(r, s, H)
  PROVE  Outstanding(r) = Outstanding(s)
<1>1. PICK new \in Seq(Delivery) :
        r = s \o new /\ \A i \in DOMAIN new : new[i].completion = None
  BY DEF Extended
<1>2. /\ Len(new) \in Nat /\ DOMAIN new = 1..Len(new)
      /\ Len(s) \in Nat /\ DOMAIN s = 1..Len(s) /\ DOMAIN r = 1..Len(s) + Len(new)
      /\ \A i \in 1..Len(s) + Len(new) : r[i] = IF i <= Len(s) THEN s[i] ELSE new[i - Len(s)]
  BY <1>1, ConcatProperties, LenProperties
<1>3. \A i \in DOMAIN s : i \in DOMAIN r /\ r[i] = s[i]
  BY <1>2
<1>4. \A i \in DOMAIN r : r[i].completion # None => i \in DOMAIN s /\ r[i] = s[i]
  <2> SUFFICES ASSUME NEW i \in 1..Len(s) + Len(new), r[i].completion # None
               PROVE  i \in DOMAIN s /\ r[i] = s[i]
    BY <1>2
  <2>1. CASE i <= Len(s)
    BY <1>2, <2>1
  <2>2. CASE ~(i <= Len(s))
    <3>1. i - Len(s) \in DOMAIN new /\ r[i] = new[i - Len(s)]
      BY <1>2, <2>2
    <3> QED BY <1>1, <3>1
  <2> QED BY <2>1, <2>2
<1> QED BY <1>3, <1>4 DEF Outstanding

LEMMA JoinedAdds ==
  ASSUME NEW s \in Seq(Delivery), NEW d \in Delivery
  PROVE  Outstanding(Joined(s, d)) = Outstanding(s) \cup RequestOf(d)
<1>1. /\ Len(s) \in Nat /\ DOMAIN s = 1..Len(s)
      /\ Append(s, d)[Len(s) + 1] = d /\ DOMAIN Append(s, d) = 1..Len(s) + 1
      /\ \A i \in 1..Len(s) : Append(s, d)[i] = s[i]
  BY LenProperties, AppendProperties
<1>2. DOMAIN Append(s, d) = DOMAIN s \cup {Len(s) + 1}
      /\ \A i \in DOMAIN s : Append(s, d)[i] = s[i]
  BY <1>1
<1>3. Append(s, d)[Len(s) + 1] = d
  BY <1>1
<1>4. ASSUME NEW r
      PROVE  r \in Outstanding(Append(s, d)) <=> r \in Outstanding(s) \cup RequestOf(d)
  <2>1. r \in RequestOf(d) <=>
          d.completion # None /\ r = [token |-> d.completion, sequence |-> d.sequence]
    BY DEF RequestOf
  <2> DEFINE a == Append(s, d)
  <2>2. /\ DOMAIN a = DOMAIN s \cup {Len(s) + 1} /\ a[Len(s) + 1] = d
        /\ \A i \in DOMAIN s : a[i] = s[i]
    BY <1>2, <1>3
  <2> HIDE DEF a
  <2>3. r \in Outstanding(a) <=> r \in Outstanding(s) \/ r \in RequestOf(d)
    <3>1. (\E i \in DOMAIN a : /\ a[i].completion # None
                             /\ r = [token |-> a[i].completion, sequence |-> a[i].sequence])
          <=> \/ \E i \in DOMAIN s : /\ s[i].completion # None
                                  /\ r = [token |-> s[i].completion, sequence |-> s[i].sequence]
              \/ d.completion # None /\ r = [token |-> d.completion, sequence |-> d.sequence]
      BY <2>2
    <3> QED BY <2>1, <3>1, InOutstanding
  <2> QED BY <2>3 DEF a
<1> QED BY <1>4 DEF Joined

(* A queue that is split holds each of its requests in one of the parts.   *)
LEMMA KeptSplits ==
  ASSUME NEW s \in Seq(Delivery), NEW n, InOrder(s, n), NEW K \in SUBSET (DOMAIN s)
  PROVE  /\ Outstanding(s) = Outstanding(Kept(s, K)) \cup Outstanding(Kept(s, DOMAIN s \ K))
         /\ Outstanding(Kept(s, K)) \cap Outstanding(Kept(s, DOMAIN s \ K)) = {}
<1> DEFINE Split(J, r) == \E i \in J : /\ s[i].completion # None
                                       /\ r = [token |-> s[i].completion, sequence |-> s[i].sequence]
<1>1. ASSUME NEW J \in SUBSET (DOMAIN s), NEW r
      PROVE  r \in Outstanding(Kept(s, J)) <=> Split(J, r)
  <2>1. /\ \A i \in DOMAIN Kept(s, J) : Nth(J, i) \in J /\ Kept(s, J)[i] = s[Nth(J, i)]
        /\ \A k \in J : \E i \in DOMAIN Kept(s, J) : Nth(J, i) = k
    BY KeptInOrder
  <2>2. ASSUME r \in Outstanding(Kept(s, J)) PROVE Split(J, r)
    <3>1. PICK i \in DOMAIN Kept(s, J) :
             /\ Kept(s, J)[i].completion # None
             /\ r = [token |-> Kept(s, J)[i].completion, sequence |-> Kept(s, J)[i].sequence]
      BY <2>2, InOutstanding
    <3> QED BY <2>1, <3>1
  <2>3. ASSUME Split(J, r) PROVE r \in Outstanding(Kept(s, J))
    <3>1. PICK k \in J : /\ s[k].completion # None
                         /\ r = [token |-> s[k].completion, sequence |-> s[k].sequence]
      BY <2>3
    <3>2. PICK i \in DOMAIN Kept(s, J) : Nth(J, i) = k
      BY <2>1
    <3>3. Kept(s, J)[i] = s[k]
      BY <2>1, <3>2
    <3> QED BY <3>1, <3>2, <3>3, InOutstanding
  <2> QED BY <2>2, <2>3
<1> DEFINE J == DOMAIN s \ K
<1>2. J \in SUBSET (DOMAIN s) /\ K \cap J = {} /\ DOMAIN s = K \cup J
  OBVIOUS
<1>3. ASSUME NEW i \in DOMAIN s, NEW j \in DOMAIN s, s[i].completion # None,
             s[j].completion # None, s[i].sequence = s[j].sequence
      PROVE  i = j
  <2>1. i \in Nat /\ j \in Nat /\ s[i].sequence \in Nat
    BY SequencesAreNumbers, LenProperties
  <2>2. ~(i < j) /\ ~(j < i)
    BY <1>3, <2>1 DEF InOrder, Ascends, Awaited
  <2> QED BY <2>1, <2>2
<1> HIDE DEF J
<1>4. ASSUME NEW r PROVE ~(Split(K, r) /\ Split(J, r))
  <2> SUFFICES ASSUME Split(K, r), Split(J, r) PROVE FALSE
    OBVIOUS
  <2>1. PICK i \in K : /\ s[i].completion # None
                       /\ r = [token |-> s[i].completion, sequence |-> s[i].sequence]
    OBVIOUS
  <2>2. PICK j \in J : /\ s[j].completion # None
                       /\ r = [token |-> s[j].completion, sequence |-> s[j].sequence]
    OBVIOUS
  <2>3. i \in DOMAIN s /\ j \in DOMAIN s /\ s[i].sequence = s[j].sequence
    BY <1>2, <2>1, <2>2
  <2> QED BY <1>2, <1>3, <2>1, <2>2, <2>3
<1>5. \A r : r \in Outstanding(s) <=> Split(K, r) \/ Split(J, r)
  BY <1>2, InOutstanding
<1> HIDE DEF Split
<1>6. Outstanding(Kept(s, K)) \cap Outstanding(Kept(s, J)) = {}
  BY <1>1, <1>2, <1>4
<1>7. Outstanding(s) = Outstanding(Kept(s, K)) \cup Outstanding(Kept(s, J))
  BY <1>1, <1>2, <1>5
<1> QED BY <1>6, <1>7 DEF J

(* Popping the front takes its request out of the queue.                   *)
LEMMA TailGives ==
  ASSUME NEW s \in Seq(Delivery), s # <<>>, NEW n, InOrder(s, n)
  PROVE  /\ Outstanding(s) = Outstanding(Tail(s)) \cup RequestOf(Head(s))
         /\ Outstanding(Tail(s)) \cap RequestOf(Head(s)) = {}
<1>1. /\ Len(s) \in Nat /\ Len(s) # 0 /\ DOMAIN s = 1..Len(s) /\ Head(s) = s[1]
      /\ DOMAIN Tail(s) = 1..(Len(s) - 1)
      /\ \A i \in DOMAIN Tail(s) : Tail(s)[i] = s[i + 1]
  BY HeadTailProperties, LenProperties, EmptySeq
<1>2. 1 \in DOMAIN s /\ \A i \in DOMAIN Tail(s) : i + 1 \in DOMAIN s /\ 1 < i + 1
  BY <1>1
<1>3. ASSUME NEW i \in DOMAIN s PROVE i = 1 \/ \E j \in DOMAIN Tail(s) : i = j + 1
  <2>1. i = 1 \/ (i - 1 \in DOMAIN Tail(s) /\ i = (i - 1) + 1)
    BY <1>1
  <2> QED BY <2>1
<1>4. \A r : r \in RequestOf(Head(s)) <=>
        s[1].completion # None /\ r = [token |-> s[1].completion, sequence |-> s[1].sequence]
  BY <1>1 DEF RequestOf
<1>5. ASSUME NEW r
      PROVE  r \in Outstanding(s) <=> r \in Outstanding(Tail(s)) \cup RequestOf(Head(s))
  <2>1. ASSUME r \in Outstanding(s) PROVE r \in Outstanding(Tail(s)) \cup RequestOf(Head(s))
    <3>1. PICK i \in DOMAIN s :
             s[i].completion # None /\ r = [token |-> s[i].completion, sequence |-> s[i].sequence]
      BY <2>1, InOutstanding
    <3>2. CASE i = 1
      BY <1>4, <3>1, <3>2
    <3>3. ASSUME NEW j \in DOMAIN Tail(s), i = j + 1 PROVE r \in Outstanding(Tail(s))
      <4>1. Tail(s)[j] = s[i]
        BY <1>1, <3>3
      <4> QED BY <3>1, <4>1, InOutstanding
    <3> QED BY <1>3, <3>2, <3>3
  <2>2. ASSUME r \in Outstanding(Tail(s)) PROVE r \in Outstanding(s)
    <3>1. PICK j \in DOMAIN Tail(s) :
             /\ Tail(s)[j].completion # None
             /\ r = [token |-> Tail(s)[j].completion, sequence |-> Tail(s)[j].sequence]
      BY <2>2 DEF Outstanding
    <3>2. Tail(s)[j] = s[j + 1] /\ j + 1 \in DOMAIN s
      BY <1>1, <1>2
    <3> QED BY <3>1, <3>2, InOutstanding
  <2>3. r \in RequestOf(Head(s)) => r \in Outstanding(s)
    BY <1>2, <1>4, InOutstanding
  <2> QED BY <2>1, <2>2, <2>3
<1>6. ASSUME NEW r, r \in Outstanding(Tail(s)), r \in RequestOf(Head(s)) PROVE FALSE
  <2>1. PICK j \in DOMAIN Tail(s) :
           /\ Tail(s)[j].completion # None
           /\ r = [token |-> Tail(s)[j].completion, sequence |-> Tail(s)[j].sequence]
    BY <1>6 DEF Outstanding
  <2>2. Tail(s)[j] = s[j + 1] /\ j + 1 \in Awaited(s) /\ 1 \in Awaited(s) /\ 1 < j + 1
    BY <1>1, <1>2, <1>4, <1>6, <2>1 DEF Awaited
  <2>3. s[1].sequence < s[j + 1].sequence /\ s[1].sequence \in Nat
    BY <1>2, <2>2, SequencesAreNumbers DEF InOrder, Ascends
  <2>4. s[1].sequence = s[j + 1].sequence
    BY <1>4, <1>6, <2>1, <2>2
  <2> QED BY <2>3, <2>4
<1> QED BY <1>5, <1>6

(* The queue of requests is split, too.                                    *)
LEMMA RequestJoinsThem ==
  ASSUME NEW s \in Seq(MediaRequest), NEW d \in MediaRequest
  PROVE  RequestsIn(Append(s, d)) =
           RequestsIn(s) \cup {[token |-> d.token, sequence |-> d.sequence]}
<1> DEFINE a == Append(s, d)
<1>1. /\ Len(s) \in Nat /\ DOMAIN s = 1..Len(s)
      /\ a[Len(s) + 1] = d /\ DOMAIN a = 1..Len(s) + 1
      /\ \A i \in 1..Len(s) : a[i] = s[i]
  BY LenProperties, AppendProperties
<1>2. /\ DOMAIN a = DOMAIN s \cup {Len(s) + 1} /\ a[Len(s) + 1] = d
      /\ \A i \in DOMAIN s : a[i] = s[i]
  BY <1>1
<1> HIDE DEF a
<1>3. RequestsIn(a) = RequestsIn(s) \cup {[token |-> d.token, sequence |-> d.sequence]}
  BY <1>2 DEF RequestsIn
<1> QED BY <1>3 DEF a

LEMMA RequestLeaves ==
  ASSUME NEW s \in Seq(MediaRequest), s # <<>>, NEW n, AskedInOrder(s, n), NEW r,
         r = [token |-> Head(s).token, sequence |-> Head(s).sequence]
  PROVE  RequestsIn(s) = RequestsIn(Tail(s)) \cup {r} /\ r \notin RequestsIn(Tail(s))
<1> DEFINE u == Tail(s)
<1>1. /\ Len(s) \in Nat /\ Len(s) # 0 /\ DOMAIN s = 1..Len(s) /\ Head(s) = s[1]
      /\ DOMAIN u = 1..(Len(s) - 1)
      /\ \A i \in DOMAIN u : u[i] = s[i + 1]
  BY HeadTailProperties, LenProperties, EmptySeq
<1> HIDE DEF u
<1>2. 1 \in DOMAIN s /\ \A i \in DOMAIN u : i + 1 \in DOMAIN s /\ 1 < i + 1
  BY <1>1
<1>3. ASSUME NEW i \in DOMAIN s PROVE i = 1 \/ \E j \in DOMAIN u : i = j + 1
  <2>1. i = 1 \/ (i - 1 \in DOMAIN u /\ i = (i - 1) + 1)
    BY <1>1
  <2> QED BY <2>1
<1>4. ASSUME NEW j \in DOMAIN u PROVE u[j].sequence # s[1].sequence
  <2>1. s[1].sequence < s[j + 1].sequence /\ s[1].sequence \in Nat /\ u[j] = s[j + 1]
    BY <1>1, <1>2, SequencesAreNumbers DEF AskedInOrder, Ascends
  <2> QED BY <2>1
<1>5. r \notin RequestsIn(u)
  BY <1>1, <1>4 DEF RequestsIn
<1>6. \A x : x \in RequestsIn(s) <=> x \in RequestsIn(u) \cup {r}
  BY <1>1, <1>2, <1>3 DEF RequestsIn
<1> QED BY <1>5, <1>6 DEF u

(* A request is queued for a callback, executing, cancelled but not yet    *)
(* answered, asked of the UI thread, drained by it, or handed on.          *)
Place == {"queued", "executing", "cancelled"} \X Token
         \cup {"requests", "drained", "forwarded"} \X {None}

queued    == [t \in Token |-> Outstanding(pending[t])]
executing == [t \in Token |-> IF worker[t] = "callback" THEN RequestOf(delivery[t]) ELSE {}]

placed ==
  [p \in Place |->
     CASE p[1] = "queued"    -> queued[p[2]]
       [] p[1] = "executing" -> executing[p[2]]
       [] p[1] = "cancelled" -> cancelled[p[2]]
       [] p[1] = "requests"  -> RequestsIn(requests)
       [] p[1] = "drained"   -> RequestsIn(drained)
       [] p[1] = "forwarded" -> forwarded]

LEMMA PlacesAre ==
  /\ \A t \in Token : /\ <<"queued", t>> \in Place /\ <<"executing", t>> \in Place
                      /\ <<"cancelled", t>> \in Place
  /\ <<"requests", None>> \in Place /\ <<"drained", None>> \in Place
  /\ <<"forwarded", None>> \in Place
  /\ \A p \in Place : \/ \E t \in Token : \/ p = <<"queued", t>> \/ p = <<"executing", t>>
                                          \/ p = <<"cancelled", t>>
                      \/ p = <<"requests", None>> \/ p = <<"drained", None>>
                      \/ p = <<"forwarded", None>>
  BY DEF Place

LEMMA PlacedAre ==
  /\ \A t \in Token : /\ placed[<<"queued", t>>] = queued[t]
                      /\ placed[<<"executing", t>>] = executing[t]
                      /\ placed[<<"cancelled", t>>] = cancelled[t]
  /\ placed[<<"requests", None>>] = RequestsIn(requests)
  /\ placed[<<"drained", None>>] = RequestsIn(drained)
  /\ placed[<<"forwarded", None>>] = forwarded
  BY PlacesAre DEF placed

LEMMA PlacedWillBe ==
  /\ \A t \in Token : /\ placed'[<<"queued", t>>] = queued'[t]
                      /\ placed'[<<"executing", t>>] = executing'[t]
                      /\ placed'[<<"cancelled", t>>] = cancelled'[t]
  /\ placed'[<<"requests", None>>] = RequestsIn(requests')
  /\ placed'[<<"drained", None>>] = RequestsIn(drained')
  /\ placed'[<<"forwarded", None>>] = forwarded'
  BY PlacesAre DEF placed

(* The places that a step does not touch.                                  *)
LEMMA Untouched ==
  ASSUME NEW S,
         \A t \in Token : /\ <<"queued", t>> \notin S => queued'[t] = queued[t]
                          /\ <<"executing", t>> \notin S => executing'[t] = executing[t]
                          /\ <<"cancelled", t>> \notin S => cancelled'[t] = cancelled[t],
         <<"requests", None>> \notin S => RequestsIn(requests') = RequestsIn(requests),
         <<"drained", None>> \notin S => RequestsIn(drained') = RequestsIn(drained),
         <<"forwarded", None>> \notin S => forwarded' = forwarded
  PROVE  \A p \in Place \ S : placed'[p] = placed[p]
<1> SUFFICES ASSUME NEW p \in Place \ S PROVE placed'[p] = placed[p]
  OBVIOUS
<1>1. ASSUME NEW t \in Token, p = <<"queued", t>> \/ p = <<"executing", t>> \/ p = <<"cancelled", t>>
      PROVE  placed'[p] = placed[p]
  BY <1>1, PlacedAre, PlacedWillBe
<1>2. CASE p = <<"requests", None>> \/ p = <<"drained", None>> \/ p = <<"forwarded", None>>
  BY <1>2, PlacedAre, PlacedWillBe
<1> QED BY <1>1, <1>2, PlacesAre

(* With H what the places hold, A what was accepted and D what was         *)
(* answered, n the last sequence and L the plugins that are live: what a   *)
(* place holds was not answered, no two places hold it, and of what was    *)
(* accepted of a live plugin nothing is lost.                              *)
Accounted(H, A, D, n, L) ==
  /\ \A r \in A \cup D : r \in Request /\ r.sequence <= n
  /\ \A p \in Place : \A r \in H[p] : r \in Request /\ r.sequence <= n /\ r \notin D
  /\ \A p, q \in Place : p # q => H[p] \cap H[q] = {}
  /\ \A r \in A : r.token \in L => r \in D \/ \E p \in Place : r \in H[p]

(* Requests leave their places: those in R are answered, the others are of *)
(* plugins that are not live.                                              *)
LEMMA Settled ==
  ASSUME NEW H, NEW H2, NEW A, NEW D, NEW n \in Nat, NEW m \in Nat, n <= m, NEW L, NEW L2,
         NEW R, Accounted(H, A, D, n, L),
         \A r \in R : \E p \in Place : r \in H[p],
         \A p \in Place : /\ H2[p] \subseteq H[p] \ R
                          /\ \A r \in H[p] : r \in H2[p] \/ r \in R \/ r.token \notin L2,
         \A r \in A : r.token \in L2 => r.token \in L
  PROVE  Accounted(H2, A, D \cup R, m, L2)
<1>1. \A r \in A \cup (D \cup R) : r \in Request /\ r.sequence <= m
  BY DEF Accounted, Request
<1>2. \A p \in Place : \A r \in H2[p] : r \in Request /\ r.sequence <= m /\ r \notin D \cup R
  BY DEF Accounted, Request
<1>3. \A p, q \in Place : p # q => H2[p] \cap H2[q] = {}
  BY DEF Accounted
<1>4. \A r \in A : r.token \in L2 => r \in D \cup R \/ \E p \in Place : r \in H2[p]
  BY DEF Accounted
<1> QED BY <1>1, <1>2, <1>3, <1>4 DEF Accounted

(* The requests in R move from place p to place q.                         *)
LEMMA Moved ==
  ASSUME NEW H, NEW H2, NEW A, NEW D, NEW n \in Nat, NEW L, NEW R, Accounted(H, A, D, n, L),
         NEW p \in Place, NEW q \in Place, p # q, R \subseteq H[p],
         H2[p] = H[p] \ R, H2[q] = H[q] \cup R,
         \A x \in Place \ {p, q} : H2[x] = H[x]
  PROVE  Accounted(H2, A, D, n, L)
<1>1. \A x \in Place : \A r \in H2[x] : r \in Request /\ r.sequence <= n /\ r \notin D
  BY DEF Accounted
<1>2. \A x, y \in Place : x # y => H2[x] \cap H2[y] = {}
  <2> SUFFICES ASSUME NEW x \in Place, NEW y \in Place, x # y, NEW r, r \in H2[x], r \in H2[y]
               PROVE  FALSE
    OBVIOUS
  <2>1. CASE r \in R
    <3>1. \A z \in Place : r \in H2[z] => z = q
      BY <2>1 DEF Accounted
    <3> QED BY <3>1
  <2>2. CASE r \notin R
    BY <2>2 DEF Accounted
  <2> QED BY <2>1, <2>2
<1>3. \A r \in A : r.token \in L => r \in D \/ \E x \in Place : r \in H2[x]
  BY DEF Accounted
<1> QED BY <1>1, <1>2, <1>3 DEF Accounted

(* A new request comes to place q.                                         *)
LEMMA Added ==
  ASSUME NEW H, NEW H2, NEW A, NEW D, NEW n \in Nat, NEW L, Accounted(H, A, D, n, L),
         NEW q \in Place, NEW r \in Request, r.sequence = n + 1,
         H2[q] = H[q] \cup {r}, \A x \in Place \ {q} : H2[x] = H[x]
  PROVE  Accounted(H2, A \cup {r}, D, n + 1, L)
<1>1. \A x \in A \cup D : x \in Request /\ x.sequence <= n /\ x # r
  BY DEF Accounted, Request
<1>2. \A p \in Place : \A x \in H[p] : x \in Request /\ x.sequence <= n /\ x \notin D /\ x # r
  BY DEF Accounted, Request
<1>3. \A x \in (A \cup {r}) \cup D : x \in Request /\ x.sequence <= n + 1
  BY <1>1 DEF Request
<1>4. \A p \in Place : \A x \in H2[p] : x \in Request /\ x.sequence <= n + 1 /\ x \notin D
  BY <1>1, <1>2 DEF Request
<1>5. \A p, s \in Place : p # s => H2[p] \cap H2[s] = {}
  BY <1>2 DEF Accounted
<1>6. \A x \in A \cup {r} : x.token \in L => x \in D \/ \E p \in Place : x \in H2[p]
  BY DEF Accounted
<1> QED BY <1>3, <1>4, <1>5, <1>6 DEF Accounted

live == {t \in Token : registry[t] = "live"}

AllAccounted == Accounted(placed, accepted, answered, sequence, live)

(* A plugin in a service call has no cancelled completion to publish, and  *)
(* whoever makes a request was loaded.                                     *)
CallsInLife ==
  /\ \A t \in Token : call[t] # "idle" => cancelled[t] = {} /\ registry[t] # "unused"
  /\ \A r \in accepted : registry[r.token] # "unused"

LEMMA CallsStep ==
  ASSUME Base, CallsInLife, Next
  PROVE  CallsInLife'
<1>1. /\ call \in [Token -> {"idle", "checked", "releasing"}]
      /\ cancelled \in [Token -> SUBSET Request] /\ accepted \subseteq Request
      /\ registry \in [Token -> RegistryState]
  BY DEF Base, TypeOK
<1>2. ASSUME NEW c \in Token, registry[c] # "unused" PROVE registry'[c] # "unused"
  <2>1. registry'[c] = registry[c] \/ LifeStep(c)
    BY LifeSteps
  <2> QED BY <1>1, <1>2, <2>1 DEF LifeStep, Load, BeginRevoke, RevokeExtensions, RevokeResources
<1>3. ASSUME NEW t \in Token, PluginNext(t)
      PROVE  /\ \A c \in Token : call'[c] # "idle" => cancelled'[c] = {} /\ registry[c] # "unused"
             /\ \A r \in accepted' : registry[r.token] # "unused"
  <2>1. CASE Enter(t) \/ EnterRelease(t)
    <3>1. /\ MayCall(t) /\ registry[t] \in {"live", "stopping", "detached"}
          /\ \E v : call' = [call EXCEPT ![t] = v]
          /\ UNCHANGED <<cancelled, accepted>>
      BY <2>1 DEF Enter, EnterRelease, history
    <3> QED BY <1>1, <3>1 DEF MayCall, CallsInLife
  <2>2. CASE Release(t)
    <3>1. /\ call' = [call EXCEPT ![t] = "idle"] /\ \E v : cancelled' = [cancelled EXCEPT ![t] = v]
          /\ UNCHANGED accepted
      BY <2>2 DEF Release, history
    <3> QED BY <1>1, <3>1 DEF CallsInLife
  <2>3. CASE CompleteCancelled(t)
    <3>1. /\ UNCHANGED <<call, accepted>>
          /\ \E r : cancelled' = [cancelled EXCEPT ![t] = cancelled[t] \ {r}]
      BY <2>3 DEF CompleteCancelled
    <3> QED BY <1>1, <3>1 DEF CallsInLife
  <2>4. CASE ExecuteCommand(t) \/ QueueRequest(t)
    <3>1. Commit(t) /\ Accept(t) /\ UNCHANGED cancelled
      BY <2>4 DEF ExecuteCommand, QueueRequest
    <3>2. accepted' = accepted \cup {[token |-> t, sequence |-> sequence']}
      BY <3>1 DEF Accept
    <3>3. registry[t] # "unused"
      BY <3>1 DEF Commit, CallsInLife
    <3> QED BY <1>1, <3>1, <3>2, <3>3 DEF Commit, CallsInLife
  <2>5. ASSUME \/ Refused(t) \/ Subscribe(t) \/ CreateTimer(t) \/ RegisterCommand(t)
               \/ SetCommandEnabled(t) \/ ExecuteRefused(t) \/ ReleaseRefused(t)
        PROVE  call' = [call EXCEPT ![t] = "idle"] /\ UNCHANGED <<cancelled, accepted>>
    BY <2>5 DEF Refused, Subscribe, CreateTimer, RegisterCommand, SetCommandEnabled,
       ExecuteRefused, ReleaseRefused, Commit, history
  <2> QED BY <1>1, <1>3, <2>1, <2>2, <2>3, <2>4, <2>5 DEF PluginNext, CallsInLife
<1>4. ASSUME NEW t \in Token,
             \/ WorkerNext(t) \/ Load(t) \/ StartWorker(t) \/ Quiesce(t)
             \/ BeginRevoke(t) \/ RevokeExtensions(t) \/ RevokeResources(t)
      PROVE  UNCHANGED <<call, cancelled, accepted>>
  BY <1>4 DEF WorkerNext, FireTimers, BeginDelivery, CallbackReturns, EndDelivery,
     StopWorker, Load, StartWorker, Quiesce, BeginRevoke, RevokeExtensions,
     RevokeResources, threads, history
<1>5. ASSUME \/ DrainRequests \/ SkipRequest \/ ServeRequest \/ ForwardRequest
             \/ AnswerForwarded \/ Invoke \/ PublishHost
      PROVE  UNCHANGED <<call, cancelled, accepted>>
  BY <1>5 DEF DrainRequests, SkipRequest, ServeRequest, ForwardRequest,
     AnswerForwarded, Invoke, PublishHost, threads, history
<1>6. /\ \A c \in Token : call'[c] # "idle" => cancelled'[c] = {} /\ registry[c] # "unused"
      /\ \A r \in accepted' : registry[r.token] # "unused"
  BY <1>3, <1>4, <1>5 DEF Next, UiNext, CallsInLife
<1>7. \A r \in accepted' : r.token \in Token
  <2>1. accepted' \subseteq Request
    BY HistoryStaysTyped DEF Base
  <2> QED BY <2>1 DEF Request
<1> QED BY <1>2, <1>6, <1>7 DEF CallsInLife

(* No plugin that has made requests comes to life again.                   *)
LEMMA LifeEnds ==
  ASSUME Base, CallsInLife, [Next]_vars
  PROVE  \A r \in accepted : r.token \in live' => r.token \in live
<1> SUFFICES ASSUME NEW r \in accepted, r.token \in live' PROVE r.token \in live
  OBVIOUS
<1>1. r.token \in Token /\ registry[r.token] # "unused" /\ registry'[r.token] = "live"
  BY DEF Base, TypeOK, Request, CallsInLife, live
<1>2. registry'[r.token] = registry[r.token] \/ (Next /\ LifeStep(r.token))
  <2>1. CASE Next
    BY <1>1, <2>1, LifeSteps
  <2>2. CASE UNCHANGED vars
    BY <2>2 DEF vars
  <2> QED BY <2>1, <2>2
<1> QED BY <1>1, <1>2 DEF live, LifeStep, Load, BeginRevoke, RevokeExtensions, RevokeResources,
           Base, TypeOK

(* A step that moves no request.                                           *)
LEMMA NothingMoves ==
  ASSUME Base, CallsInLife, AllAccounted, [Next]_vars,
         UNCHANGED <<accepted, answered>>, sequence' \in Nat, sequence <= sequence',
         \A p \in Place : placed'[p] = placed[p]
  PROVE  AllAccounted'
<1>1. \A r \in accepted : r.token \in live' => r.token \in live
  BY LifeEnds
<1>2. sequence \in Nat /\ Accounted(placed, accepted, answered, sequence, live)
  BY ExtensionsAssumption DEF Base, TypeOK, ExtensionsAssumption, AllAccounted
<1>3. Accounted(placed', accepted, answered \cup {}, sequence', live')
  <2>1. \A p \in Place : /\ placed'[p] \subseteq placed[p] \ {}
                         /\ \A r \in placed[p] : r \in placed'[p] \/ r \in {} \/ r.token \notin live'
    OBVIOUS
  <2>2. \A r \in {} : \E p \in Place : r \in placed[p]
    OBVIOUS
  <2> QED BY <1>1, <1>2, <2>1, <2>2, Settled
<1>4. Accounted(placed', accepted', answered', sequence', live')
  BY <1>3
<1> QED BY <1>4 DEF AllAccounted

(* A step that takes request r out of place p, answering it or because the *)
(* plugin that made it is not live.                                        *)
LEMMA OneLeaves ==
  ASSUME Base, CallsInLife, AllAccounted, Next, UNCHANGED <<accepted, sequence>>,
         NEW p \in Place, NEW r \in placed[p],
         \/ answered' = answered \cup {r}
         \/ answered' = answered /\ r.token \notin live',
         placed'[p] = placed[p] \ {r},
         \A x \in Place \ {p} : placed'[x] = placed[x]
  PROVE  AllAccounted'
<1>1. \A s \in accepted : s.token \in live' => s.token \in live
  BY LifeEnds
<1>2. sequence \in Nat /\ sequence <= sequence
      /\ Accounted(placed, accepted, answered, sequence, live)
  BY ExtensionsAssumption DEF Base, TypeOK, ExtensionsAssumption, AllAccounted
<1>3. \A x \in Place \ {p} : r \notin placed[x]
  BY <1>2 DEF Accounted
<1>4. CASE answered' = answered \cup {r}
  <2>1. \A x \in Place : /\ placed'[x] \subseteq placed[x] \ {r}
                         /\ \A s \in placed[x] : s \in placed'[x] \/ s \in {r} \/ s.token \notin live'
    BY <1>3
  <2>2. \A s \in {r} : \E x \in Place : s \in placed[x]
    OBVIOUS
  <2>3. Accounted(placed', accepted, answered \cup {r}, sequence, live')
    BY <1>1, <1>2, <2>1, <2>2, Settled
  <2>4. Accounted(placed', accepted', answered', sequence', live')
    BY <1>4, <2>3
  <2> QED BY <2>4 DEF AllAccounted
<1>5. CASE answered' = answered /\ r.token \notin live'
  <2>1. \A x \in Place : /\ placed'[x] \subseteq placed[x] \ {}
                         /\ \A s \in placed[x] : s \in placed'[x] \/ s \in {} \/ s.token \notin live'
    BY <1>5
  <2>2. \A s \in {} : \E x \in Place : s \in placed[x]
    OBVIOUS
  <2>3. Accounted(placed', accepted, answered \cup {}, sequence, live')
    BY <1>1, <1>2, <2>1, <2>2, Settled
  <2>4. Accounted(placed', accepted', answered', sequence', live')
    BY <1>5, <2>3
  <2> QED BY <2>4 DEF AllAccounted
<1> QED BY <1>4, <1>5

(* A step that takes the requests in R from place p to place q.            *)
LEMMA SomeMove ==
  ASSUME Base, AllAccounted, UNCHANGED <<accepted, answered, sequence, registry>>,
         NEW p \in Place, NEW q \in Place, p # q, NEW R, R \subseteq placed[p],
         placed'[p] = placed[p] \ R, placed'[q] = placed[q] \cup R,
         \A x \in Place \ {p, q} : placed'[x] = placed[x]
  PROVE  AllAccounted'
<1>1. sequence \in Nat /\ Accounted(placed, accepted, answered, sequence, live) /\ live' = live
  BY ExtensionsAssumption DEF Base, TypeOK, ExtensionsAssumption, AllAccounted, live
<1>2. Accounted(placed', accepted, answered, sequence, live)
  BY <1>1, Moved
<1>3. Accounted(placed', accepted', answered', sequence', live')
  BY <1>1, <1>2
<1> QED BY <1>3 DEF AllAccounted

(* A step that accepts a request of t and puts it in place p.              *)
LEMMA OneComes ==
  ASSUME Base, AllAccounted, UNCHANGED <<answered, registry>>, NEW t \in Token, Accept(t),
         NEW p \in Place, NEW r, r = [token |-> t, sequence |-> sequence + 1],
         placed'[p] = placed[p] \cup {r}, \A x \in Place \ {p} : placed'[x] = placed[x]
  PROVE  AllAccounted'
<1>1. sequence \in Nat /\ Accounted(placed, accepted, answered, sequence, live) /\ live' = live
  BY ExtensionsAssumption DEF Base, TypeOK, ExtensionsAssumption, AllAccounted, live
<1>2. sequence' = sequence + 1 /\ accepted' = accepted \cup {r}
  BY DEF Accept, Draw
<1>3. r \in Request /\ r.sequence = sequence + 1
  BY <1>1 DEF Request
<1>4. Accounted(placed', accepted \cup {r}, answered, sequence + 1, live)
  BY <1>1, <1>3, Added
<1>5. Accounted(placed', accepted', answered', sequence', live')
  BY <1>1, <1>2, <1>4
<1> QED BY <1>5 DEF AllAccounted

LEMMA ExtendingKeepsRequests ==
  ASSUME Base, QueuesExtend
  PROVE  \A t \in Token : queued'[t] = queued[t]
<1> SUFFICES ASSUME NEW t \in Token PROVE Outstanding(pending'[t]) = Outstanding(pending[t])
  BY DEF queued
<1>1. pending[t] \in Seq(Delivery)
  BY DEF Base, TypeOK
<1> QED BY <1>1, ExtendedKeeps DEF QueuesExtend

(* Steps that answer a request where it is.                                *)
LEMMA AnswersAccounted ==
  ASSUME Base, QueuesInOrder, CallsInLife, AllAccounted, Next,
         \/ \E t \in Token : \/ CompleteCancelled(t)
                             \/ CallbackReturns(t) /\ delivery[t].completion # None
         \/ ServeRequest \/ AnswerForwarded
  PROVE  AllAccounted'
<1>1. ASSUME NEW t \in Token, CompleteCancelled(t) PROVE AllAccounted'
  <2>1. PICK r \in cancelled[t] :
          /\ Complete(r) /\ cancelled' = [cancelled EXCEPT ![t] = cancelled[t] \ {r}]
          /\ UNCHANGED <<accepted, sequence, requests, worker, delivery, drained, forwarded>>
    BY <1>1 DEF CompleteCancelled, ui
  <2>2. r \in Request /\ cancelled \in [Token -> SUBSET Request]
    BY DEF Base, TypeOK
  <2>3. answered' = answered \cup {r} /\ \A c \in Token : queued'[c] = queued[c]
    BY <2>1, <2>2, CompleteExtends, ExtendingKeepsRequests DEF Complete
  <2> DEFINE p == <<"cancelled", t>>
  <2>4. \A x \in Place \ {p} : placed'[x] = placed[x]
    BY <2>1, <2>2, <2>3, Untouched DEF executing
  <2>5. p \in Place /\ placed[p] = cancelled[t] /\ placed'[p] = cancelled[t] \ {r}
    BY <2>1, <2>2, PlacesAre, PlacedAre, PlacedWillBe
  <2> HIDE DEF p
  <2> QED BY <2>1, <2>3, <2>4, <2>5, OneLeaves
<1>2. ASSUME NEW t \in Token, CallbackReturns(t), delivery[t].completion # None
      PROVE  AllAccounted'
  <2> DEFINE r == [token |-> delivery[t].completion, sequence |-> delivery[t].sequence]
             p == <<"executing", t>>
  <2>1. /\ worker[t] = "callback" /\ worker' = [worker EXCEPT ![t] = "returned"] /\ Complete(r)
        /\ UNCHANGED <<accepted, sequence, requests, delivery, cancelled, drained, forwarded>>
    BY <1>2 DEF CallbackReturns, ui
  <2>2. r \in Request /\ worker \in [Token -> Phase]
    BY <1>2, CompletesRequests DEF Base, TypeOK
  <2>3. executing[t] = {r} /\ executing'[t] = {}
        /\ \A c \in Token \ {t} : executing'[c] = executing[c]
    BY <1>2, <2>1, <2>2 DEF executing, RequestOf
  <2> HIDE DEF r
  <2>4. answered' = answered \cup {r} /\ \A c \in Token : queued'[c] = queued[c]
    BY <2>1, <2>2, CompleteExtends, ExtendingKeepsRequests DEF Complete
  <2>5. \A x \in Place \ {p} : placed'[x] = placed[x]
    BY <2>1, <2>3, <2>4, Untouched
  <2>6. p \in Place /\ placed[p] = {r} /\ placed'[p] = placed[p] \ {r}
    BY <2>3, PlacesAre, PlacedAre, PlacedWillBe
  <2> HIDE DEF p
  <2> QED BY <2>1, <2>4, <2>5, <2>6, OneLeaves
<1>3. CASE ServeRequest
  <2>1. /\ drained # <<>> /\ drained' = Tail(drained) /\ Complete(Served)
        /\ UNCHANGED <<accepted, sequence, requests, worker, delivery, cancelled, forwarded>>
    BY <1>3 DEF ServeRequest, threads
  <2>2. Served \in Request
    BY <1>3, CompletesRequests
  <2>3. answered' = answered \cup {Served} /\ \A c \in Token : queued'[c] = queued[c]
    BY <2>1, <2>2, CompleteExtends, ExtendingKeepsRequests DEF Complete
  <2>4. RequestsIn(drained) = RequestsIn(drained') \cup {Served}
        /\ Served \notin RequestsIn(drained')
    BY <2>1, RequestLeaves DEF Served, Base, TypeOK, QueuesInOrder
  <2> DEFINE p == <<"drained", None>>
  <2>5. \A x \in Place \ {p} : placed'[x] = placed[x]
    BY <2>1, <2>3, Untouched DEF executing
  <2>6. p \in Place /\ Served \in placed[p] /\ placed'[p] = placed[p] \ {Served}
    BY <2>4, PlacesAre, PlacedAre, PlacedWillBe
  <2> HIDE DEF p
  <2> QED BY <2>1, <2>3, <2>5, <2>6, OneLeaves
<1>4. CASE AnswerForwarded
  <2>1. PICK r \in forwarded :
          /\ Complete(r) /\ forwarded' = forwarded \ {r}
          /\ UNCHANGED <<accepted, sequence, requests, worker, delivery, cancelled, drained>>
    BY <1>4 DEF AnswerForwarded, threads
  <2>2. r \in Request
    BY DEF Base, TypeOK
  <2>3. answered' = answered \cup {r} /\ \A c \in Token : queued'[c] = queued[c]
    BY <2>1, <2>2, CompleteExtends, ExtendingKeepsRequests DEF Complete
  <2> DEFINE p == <<"forwarded", None>>
  <2>4. \A x \in Place \ {p} : placed'[x] = placed[x]
    BY <2>1, <2>3, Untouched DEF executing
  <2>5. p \in Place /\ r \in placed[p] /\ placed'[p] = placed[p] \ {r}
    BY <2>1, PlacesAre, PlacedAre, PlacedWillBe
  <2> HIDE DEF p
  <2> QED BY <2>1, <2>3, <2>4, <2>5, OneLeaves
<1> QED BY <1>1, <1>2, <1>3, <1>4

(* Steps of the UI thread that hand a request on, or skip it.              *)
LEMMA HandingOnAccounted ==
  ASSUME Base, QueuesInOrder, CallsInLife, AllAccounted, Next,
         DrainRequests \/ SkipRequest \/ ForwardRequest
  PROVE  AllAccounted'
<1>1. UNCHANGED <<registry, pending, sequence, worker, delivery, cancelled, accepted, answered>>
  BY DEF DrainRequests, SkipRequest, ForwardRequest, queues, threads, history
<1>2. /\ \A c \in Token : /\ queued'[c] = queued[c] /\ executing'[c] = executing[c]
                          /\ cancelled'[c] = cancelled[c]
  BY <1>1 DEF queued, executing
<1> DEFINE asked == <<"requests", None>>
           taken == <<"drained", None>>
           given == <<"forwarded", None>>
<1>3. asked \in Place /\ taken \in Place /\ given \in Place
      /\ asked # taken /\ taken # given /\ asked # given
  BY PlacesAre
<1>4. /\ placed[asked] = RequestsIn(requests) /\ placed'[asked] = RequestsIn(requests')
      /\ placed[taken] = RequestsIn(drained) /\ placed'[taken] = RequestsIn(drained')
      /\ placed[given] = forwarded /\ placed'[given] = forwarded'
  BY PlacedAre, PlacedWillBe
<1>5. CASE DrainRequests
  <2>1. /\ drained = <<>> /\ drained' = requests /\ requests' = <<>> /\ UNCHANGED forwarded
    BY <1>5 DEF DrainRequests, UiFree
  <2>2. \A x \in Place \ {asked, taken} : placed'[x] = placed[x]
    BY <1>2, <2>1, Untouched
  <2>3. RequestsIn(<<>>) = {}
    BY DEF RequestsIn
  <2>4. placed'[asked] = placed[asked] \ placed[asked]
        /\ placed'[taken] = placed[taken] \cup placed[asked]
    BY <1>4, <2>1, <2>3
  <2> HIDE DEF asked, taken
  <2> QED BY <1>1, <1>3, <2>2, <2>4, SomeMove
<1>6. ASSUME SkipRequest \/ ForwardRequest
      PROVE  /\ drained # <<>> /\ UNCHANGED requests
             /\ RequestsIn(drained) = RequestsIn(drained') \cup {Served}
             /\ Served \notin RequestsIn(drained')
  <2>1. drained # <<>> /\ drained' = Tail(drained) /\ UNCHANGED requests
    BY <1>6 DEF SkipRequest, ForwardRequest, queues
  <2> QED BY <2>1, RequestLeaves DEF Served, Base, TypeOK, QueuesInOrder
<1>7. CASE SkipRequest
  <2>1. registry[Head(drained).token] # "live" /\ UNCHANGED forwarded
    BY <1>7 DEF SkipRequest
  <2>2. \A x \in Place \ {taken} : placed'[x] = placed[x]
    BY <1>2, <1>6, <1>7, <2>1, Untouched
  <2>3. Served \in placed[taken] /\ placed'[taken] = placed[taken] \ {Served}
    BY <1>4, <1>6, <1>7
  <2>4. Served.token \notin live'
    BY <1>1, <2>1 DEF Served, live
  <2> HIDE DEF taken
  <2> QED BY <1>1, <1>3, <2>2, <2>3, <2>4, OneLeaves
<1>8. CASE ForwardRequest
  <2>1. forwarded' = forwarded \cup {Served}
    BY <1>8 DEF ForwardRequest
  <2>2. \A x \in Place \ {taken, given} : placed'[x] = placed[x]
    BY <1>2, <1>6, <1>8, Untouched
  <2>3. /\ {Served} \subseteq placed[taken] /\ placed'[taken] = placed[taken] \ {Served}
        /\ placed'[given] = placed[given] \cup {Served}
    BY <1>4, <1>6, <1>8, <2>1
  <2> HIDE DEF taken, given
  <2> QED BY <1>1, <1>3, <2>2, <2>3, SomeMove
<1> QED BY <1>5, <1>7, <1>8

(* Steps that take deliveries out of a queue, or put one in.               *)
LEMMA DeliveringAccounted ==
  ASSUME Base, Ownership, QueuesInOrder, AllAccounted, NEW t \in Token, BeginDelivery(t)
  PROVE  AllAccounted'
<1> DEFINE d == Head(pending[t])
           p == <<"queued", t>>
           q == <<"executing", t>>
<1>1. /\ worker[t] = "running" /\ pending[t] # <<>>
      /\ pending' = [pending EXCEPT ![t] = Tail(pending[t])]
      /\ UNCHANGED <<registry, accepted, answered, sequence, requests, drained, forwarded, cancelled>>
  BY DEF BeginDelivery, ui, history
<1>2. /\ pending \in [Token -> Seq(Delivery)] /\ Len(pending[t]) <= MaxPending
      /\ worker \in [Token -> Phase] /\ delivery \in [Token -> Delivery \cup {None}]
      /\ InOrder(pending[t], sequence)
  BY DEF Base, TypeOK, QueuesAreBounded, QueuesInOrder
<1>3. d.handle \in DOMAIN callbacks
  <2>1. 1 \in DOMAIN pending[t] /\ d = pending[t][1]
    BY <1>1, <1>2, LenProperties, EmptySeq
  <2> QED BY <2>1 DEF Ownership, QueuedDeliveriesAreOwned
<1>4. worker' = [worker EXCEPT ![t] = "callback"] /\ delivery' = [delivery EXCEPT ![t] = d]
  BY <1>3 DEF BeginDelivery
<1>5. executing[t] = {} /\ executing'[t] = RequestOf(d)
      /\ \A c \in Token \ {t} : executing'[c] = executing[c]
  BY <1>1, <1>2, <1>4 DEF executing
<1>6. /\ Outstanding(pending[t]) = Outstanding(Tail(pending[t])) \cup RequestOf(d)
      /\ Outstanding(Tail(pending[t])) \cap RequestOf(d) = {}
  BY <1>1, <1>2, TailGives
<1>7. /\ queued'[t] = queued[t] \ RequestOf(d) /\ RequestOf(d) \subseteq queued[t]
      /\ \A c \in Token \ {t} : queued'[c] = queued[c]
  BY <1>1, <1>2, <1>6 DEF queued
<1>8. \A x \in Place \ {p, q} : placed'[x] = placed[x]
  BY <1>1, <1>5, <1>7, Untouched
<1>9. /\ p \in Place /\ q \in Place /\ p # q /\ RequestOf(d) \subseteq placed[p]
      /\ placed'[p] = placed[p] \ RequestOf(d) /\ placed'[q] = placed[q] \cup RequestOf(d)
  BY <1>5, <1>7, PlacesAre, PlacedAre, PlacedWillBe
<1> HIDE DEF p, q, d
<1> QED BY <1>1, <1>8, <1>9, SomeMove

LEMMA ReleaseAccounted ==
  ASSUME Base, QueuesInOrder, CallsInLife, AllAccounted, NEW t \in Token, Release(t)
  PROVE  AllAccounted'
<1>1. PICK h :
        /\ pending' = [pending EXCEPT ![t] = Purged(pending[t], h)]
        /\ cancelled' = [cancelled EXCEPT ![t] = Outstanding(Kept(pending[t], Positions(pending[t], h)))]
  BY DEF Release
<1>2. /\ call[t] = "releasing"
      /\ UNCHANGED <<registry, accepted, answered, sequence, requests, drained, forwarded,
                     worker, delivery>>
  BY DEF Release, ui, history
<1>3. /\ pending \in [Token -> Seq(Delivery)] /\ InOrder(pending[t], sequence)
      /\ cancelled \in [Token -> SUBSET Request] /\ cancelled[t] = {}
  BY <1>2 DEF Base, TypeOK, QueuesInOrder, CallsInLife
<1> DEFINE K == Positions(pending[t], h)
           R == Outstanding(Kept(pending[t], K))
           p == <<"queued", t>>
           q == <<"cancelled", t>>
<1>4. K \in SUBSET (DOMAIN pending[t])
  BY DEF Positions
<1> HIDE DEF K
<1>5. /\ Outstanding(pending[t]) = R \cup Outstanding(Purged(pending[t], h))
      /\ R \cap Outstanding(Purged(pending[t], h)) = {}
  <2>1. Purged(pending[t], h) = Kept(pending[t], DOMAIN pending[t] \ K)
    BY DEF Purged, K
  <2>2. PICK s \in Seq(Delivery) : s = pending[t]
    BY <1>3
  <2>3. InOrder(s, sequence) /\ K \in SUBSET (DOMAIN s)
    BY <1>3, <1>4, <2>2
  <2>4. /\ Outstanding(s) = Outstanding(Kept(s, K)) \cup Outstanding(Kept(s, DOMAIN s \ K))
        /\ Outstanding(Kept(s, K)) \cap Outstanding(Kept(s, DOMAIN s \ K)) = {}
    BY <2>3, KeptSplits
  <2> QED BY <2>1, <2>2, <2>4
<1>6. cancelled' = [cancelled EXCEPT ![t] = R]
  BY <1>1 DEF K
<1> HIDE DEF R
<1>7. /\ queued'[t] = queued[t] \ R /\ R \subseteq queued[t]
      /\ \A c \in Token \ {t} : queued'[c] = queued[c] /\ cancelled'[c] = cancelled[c]
      /\ cancelled'[t] = cancelled[t] \cup R
  BY <1>1, <1>3, <1>5, <1>6 DEF queued
<1>8. \A x \in Place \ {p, q} : placed'[x] = placed[x]
  BY <1>2, <1>7, Untouched DEF executing
<1>9. /\ p \in Place /\ q \in Place /\ p # q /\ R \subseteq placed[p]
      /\ placed'[p] = placed[p] \ R /\ placed'[q] = placed[q] \cup R
  BY <1>7, PlacesAre, PlacedAre, PlacedWillBe
<1> HIDE DEF p, q
<1> QED BY <1>2, <1>8, <1>9, SomeMove

LEMMA ExecuteAccounted ==
  ASSUME Base, AllAccounted, NEW t \in Token, ExecuteCommand(t)
  PROVE  AllAccounted'
<1>1. PICK h \in DOMAIN commands :
            pending' = [pending EXCEPT ![callbacks[h].token] =
                 Joined(pending[callbacks[h].token], Deliver(h, "command", sequence', t))]
  BY DEF ExecuteCommand
<1>2. /\ Accept(t)
      /\ UNCHANGED <<registry, answered, requests, drained, forwarded, cancelled, worker, delivery>>
  BY DEF ExecuteCommand, ui
<1> DEFINE c == callbacks[h].token
           d == Deliver(h, "command", sequence', t)
           r == [token |-> t, sequence |-> sequence + 1]
           p == <<"queued", c>>
<1>3. c \in Token /\ h \in Handle /\ pending \in [Token -> Seq(Delivery)]
  BY DEF CommandsAreCallbacks, Base, TypeOK, Callback
<1>4. sequence \in Nat /\ sequence' = sequence + 1
  BY <1>2, ExtensionsAssumption DEF Accept, Draw, Base, TypeOK, ExtensionsAssumption
<1>5. d \in Delivery /\ d.completion = t /\ d.sequence = sequence + 1
  BY <1>3, <1>4 DEF Deliver, Delivery, Kind
<1>6. pending' = [pending EXCEPT ![c] = Joined(pending[c], d)]
  BY <1>1
<1> HIDE DEF d, c
<1>7. RequestOf(d) = {r}
  BY <1>5, ExtensionsAssumption DEF RequestOf, ExtensionsAssumption
<1> HIDE DEF r
<1>8. queued'[c] = queued[c] \cup {r} /\ \A x \in Token \ {c} : queued'[x] = queued[x]
  <2>1. Outstanding(Joined(pending[c], d)) = Outstanding(pending[c]) \cup {r}
    BY <1>3, <1>5, <1>7, JoinedAdds
  <2> QED BY <1>3, <1>6, <2>1 DEF queued
<1>9. \A x \in Place \ {p} : placed'[x] = placed[x]
  BY <1>2, <1>8, Untouched DEF executing
<1>10. p \in Place /\ placed'[p] = placed[p] \cup {r}
  BY <1>3, <1>8, PlacesAre, PlacedAre, PlacedWillBe
<1> HIDE DEF p
<1> QED BY <1>2, <1>9, <1>10, OneComes DEF r

LEMMA QueueRequestAccounted ==
  ASSUME Base, AllAccounted, NEW t \in Token, QueueRequest(t)
  PROVE  AllAccounted'
<1>1. PICK media \in BOOLEAN :
        requests' = Append(requests, [token |-> t, sequence |-> sequence', media |-> media])
  BY DEF QueueRequest
<1>2. /\ Accept(t)
      /\ UNCHANGED <<registry, answered, pending, drained, forwarded, cancelled, worker, delivery>>
  BY DEF QueueRequest, ui
<1>3. sequence \in Nat /\ sequence' = sequence + 1 /\ requests \in Seq(MediaRequest)
  BY <1>2, ExtensionsAssumption DEF Accept, Draw, Base, TypeOK, ExtensionsAssumption
<1> DEFINE d == [token |-> t, sequence |-> sequence + 1, media |-> media]
           r == [token |-> t, sequence |-> sequence + 1]
           p == <<"requests", None>>
<1>4. d \in MediaRequest /\ [token |-> d.token, sequence |-> d.sequence] = r
  BY <1>3 DEF MediaRequest
<1>5. requests' = Append(requests, d)
  BY <1>1, <1>3
<1> HIDE DEF d, r
<1>6. RequestsIn(requests') = RequestsIn(requests) \cup {r}
  BY <1>3, <1>4, <1>5, RequestJoinsThem
<1>7. \A x \in Place \ {p} : placed'[x] = placed[x]
  BY <1>2, Untouched DEF executing, queued
<1>8. p \in Place /\ placed'[p] = placed[p] \cup {r}
  BY <1>6, PlacesAre, PlacedAre, PlacedWillBe
<1> HIDE DEF p
<1> QED BY <1>2, <1>7, <1>8, OneComes DEF r

(* A revocation answers what its plugin's queue held, and forgets what the *)
(* plugin itself asked of the UI thread.                                   *)
LEMMA RevokeAccounted ==
  ASSUME Base, CallsInLife, AllAccounted, Next, NEW t \in Token, RevokeExtensions(t)
  PROVE  AllAccounted'
<1> DEFINE R == Outstanding(pending[t])
           K == {i \in DOMAIN requests : requests[i].token # t}
           p == <<"queued", t>>
           q == <<"requests", None>>
<1>1. /\ answered' = answered \cup R /\ requests' = Kept(requests, K)
      /\ registry' = [registry EXCEPT ![t] = "detached"]
      /\ UNCHANGED <<accepted, sequence, drained, forwarded, cancelled, worker, delivery>>
  BY DEF RevokeExtensions, RequestsOfOthers, ui, threads
<1>2. /\ sequence \in Nat /\ sequence <= sequence
      /\ Accounted(placed, accepted, answered, sequence, live)
      /\ pending \in [Token -> Seq(Delivery)] /\ requests \in Seq(MediaRequest)
      /\ registry \in [Token -> RegistryState]
  BY ExtensionsAssumption DEF Base, TypeOK, ExtensionsAssumption, AllAccounted
<1>3. queued'[t] = {} /\ \A c \in Token \ {t} : queued'[c] = queued[c]
  <2>1. pending'[t] = <<>> /\ \A c \in Token \ {t} : Extended(pending'[c], pending[c], CallbacksOf(c))
    BY RevokeExtends DEF Base
  <2>2. Outstanding(<<>>) = {}
    BY DEF Outstanding
  <2>3. \A c \in Token \ {t} : Outstanding(pending'[c]) = Outstanding(pending[c])
    BY <1>2, <2>1, ExtendedKeeps
  <2> QED BY <2>1, <2>2, <2>3 DEF queued
<1>4. /\ RequestsIn(requests') \subseteq RequestsIn(requests)
      /\ \A r \in RequestsIn(requests) : r \in RequestsIn(requests') \/ r.token = t
  <2>1. /\ K \in SUBSET (DOMAIN requests)
        /\ \A i \in DOMAIN requests : i \in K \/ requests[i].token = t
    OBVIOUS
  <2> HIDE DEF K
  <2>2. \A i \in DOMAIN requests' : \E k \in DOMAIN requests : requests'[i] = requests[k]
    BY <1>1, <1>2, <2>1, KeptInOrder
  <2>3. \A k \in K : \E i \in DOMAIN requests' : requests'[i] = requests[k]
    <3> SUFFICES ASSUME NEW k \in K PROVE \E i \in DOMAIN requests' : requests'[i] = requests[k]
      OBVIOUS
    <3>1. /\ \A i \in DOMAIN Kept(requests, K) : Kept(requests, K)[i] = requests[Nth(K, i)]
          /\ \A x \in K : \E i \in DOMAIN Kept(requests, K) : Nth(K, i) = x
      BY <1>2, <2>1, KeptInOrder
    <3>2. PICK i \in DOMAIN Kept(requests, K) : Nth(K, i) = k
      BY <3>1
    <3> QED BY <1>1, <3>1, <3>2
  <2> QED BY <2>1, <2>2, <2>3 DEF RequestsIn
<1>5. t \notin live'
  BY <1>1, <1>2 DEF live
<1>6. \A x \in Place \ {p, q} : placed'[x] = placed[x]
  BY <1>1, <1>3, Untouched DEF executing
<1>7. /\ p \in Place /\ q \in Place /\ p # q
      /\ placed[p] = R /\ placed'[p] = {}
      /\ placed[q] = RequestsIn(requests) /\ placed'[q] = RequestsIn(requests')
  BY <1>3, PlacesAre, PlacedAre, PlacedWillBe DEF queued
<1> HIDE DEF p, q, R, K
<1>8. \A x \in Place : x # p => placed[x] \cap R = {}
  BY <1>2, <1>7 DEF Accounted
<1>9. \A x \in Place : /\ placed'[x] \subseteq placed[x] \ R
                       /\ \A r \in placed[x] : r \in placed'[x] \/ r \in R \/ r.token \notin live'
  <2> SUFFICES ASSUME NEW x \in Place
               PROVE  /\ placed'[x] \subseteq placed[x] \ R
                      /\ \A r \in placed[x] : r \in placed'[x] \/ r \in R \/ r.token \notin live'
    OBVIOUS
  <2>1. CASE x = p
    BY <1>7, <2>1
  <2>2. CASE x = q
    BY <1>4, <1>5, <1>7, <1>8, <2>2
  <2>3. CASE x \notin {p, q}
    BY <1>6, <1>8, <2>3
  <2> QED BY <2>1, <2>2, <2>3
<1>10. \A r \in R : \E x \in Place : r \in placed[x]
  BY <1>7
<1>11. \A r \in accepted : r.token \in live' => r.token \in live
  BY LifeEnds
<1>12. Accounted(placed', accepted, answered \cup R, sequence, live')
  BY <1>2, <1>9, <1>10, <1>11, Settled
<1>13. Accounted(placed', accepted', answered', sequence', live')
  BY <1>1, <1>12
<1> QED BY <1>13 DEF AllAccounted

LEMMA AccountsStep ==
  ASSUME Base, Ownership, QueuesInOrder, CallsInLife, AllAccounted, [Next]_vars
  PROVE  AllAccounted'
<1>1. sequence \in Nat /\ sequence <= sequence /\ pending \in [Token -> Seq(Delivery)]
      /\ worker \in [Token -> Phase]
  BY ExtensionsAssumption DEF Base, TypeOK, ExtensionsAssumption
<1>2. ASSUME UNCHANGED <<accepted, answered, cancelled, requests, drained, forwarded>>,
             sequence' \in Nat, sequence <= sequence',
             \A c \in Token : queued'[c] = queued[c] /\ executing'[c] = executing[c]
      PROVE  AllAccounted'
  <2>1. \A p \in Place \ {} : placed'[p] = placed[p]
    BY <1>2, Untouched
  <2> QED BY <1>2, <2>1, NothingMoves
<1>3. CASE UNCHANGED vars
  BY <1>1, <1>2, <1>3 DEF vars, queues, threads, ui, history, queued, executing
<1>4. ASSUME NEW t \in Token,
             \/ Enter(t) \/ EnterRelease(t) \/ Refused(t) \/ Subscribe(t)
             \/ CreateTimer(t) \/ RegisterCommand(t) \/ SetCommandEnabled(t)
             \/ ReleaseRefused(t) \/ Load(t) \/ Quiesce(t) \/ BeginRevoke(t) \/ RevokeResources(t)
      PROVE  AllAccounted'
  <2>1. UNCHANGED <<accepted, answered, cancelled, requests, drained, forwarded, sequence,
                    pending, worker, delivery>>
    BY <1>4 DEF Enter, EnterRelease, Refused, Subscribe, CreateTimer, RegisterCommand,
       SetCommandEnabled, ReleaseRefused, Load, Quiesce, BeginRevoke, RevokeResources,
       queues, threads, ui, history
  <2> QED BY <1>1, <1>2, <2>1 DEF queued, executing
<1>5. ASSUME NEW t \in Token, ExecuteRefused(t) PROVE AllAccounted'
  <2>1. /\ UNCHANGED <<accepted, answered, cancelled, requests, drained, forwarded,
                       pending, worker, delivery>>
        /\ sequence' = sequence + 1
    BY <1>5 DEF ExecuteRefused, Draw, ui, history
  <2>2. sequence' \in Nat /\ sequence <= sequence'
    BY <1>1, <2>1
  <2> QED BY <1>2, <2>1, <2>2 DEF queued, executing
<1>6. ASSUME NEW t \in Token, StartWorker(t) \/ StopWorker(t) \/ EndDelivery(t) PROVE AllAccounted'
  <2>1. /\ UNCHANGED <<accepted, answered, cancelled, requests, drained, forwarded, sequence, pending>>
        /\ worker[t] # "callback"
        /\ \E v : v # "callback" /\ worker' = [worker EXCEPT ![t] = v]
        /\ delivery' = delivery \/ \E v : delivery' = [delivery EXCEPT ![t] = v]
    BY <1>6 DEF StartWorker, StopWorker, EndDelivery, queues, ui, history
  <2>2. delivery \in [Token -> Delivery \cup {None}]
    BY DEF Base, TypeOK
  <2>3. \A c \in Token : executing'[c] = executing[c]
    BY <1>1, <2>1, <2>2 DEF executing
  <2> QED BY <1>1, <1>2, <2>1, <2>3 DEF queued
<1>7. ASSUME NEW t \in Token, CallbackReturns(t), delivery[t].completion = None PROVE AllAccounted'
  <2>1. /\ UNCHANGED <<accepted, answered, cancelled, requests, drained, forwarded, sequence,
                       pending, delivery>>
        /\ worker' = [worker EXCEPT ![t] = "returned"]
    BY <1>7 DEF CallbackReturns, ui
  <2>2. \A c \in Token : executing'[c] = executing[c]
    BY <1>1, <1>7, <2>1 DEF executing, RequestOf
  <2> QED BY <1>1, <1>2, <2>1, <2>2 DEF queued
<1>8. ASSUME (\E t \in Token : FireTimers(t)) \/ PublishHost PROVE AllAccounted'
  <2>1. UNCHANGED <<accepted, answered, cancelled, requests, drained, forwarded, sequence,
                    worker, delivery>>
    BY <1>8 DEF FireTimers, PublishHost, threads, ui, history
  <2>2. QueuesExtend
    BY <1>8, TimersExtend, HostExtends
  <2>3. \A c \in Token : queued'[c] = queued[c]
    BY <2>2, ExtendingKeepsRequests
  <2> QED BY <1>1, <1>2, <2>1, <2>3 DEF executing
<1>9. ASSUME Invoke PROVE AllAccounted'
  <2>1. PICK h \in DOMAIN commands :
              pending' = [pending EXCEPT ![callbacks[h].token] =
                   Joined(pending[callbacks[h].token], Deliver(h, "command", 0, None))]
    BY <1>9 DEF Invoke
  <2>2. UNCHANGED <<accepted, answered, cancelled, requests, drained, forwarded, sequence,
                    worker, delivery>>
    BY <1>9 DEF Invoke, threads, ui, history
  <2> DEFINE c == callbacks[h].token
             d == Deliver(h, "command", 0, None)
  <2>3. c \in Token /\ h \in Handle
    BY DEF CommandsAreCallbacks, Base, TypeOK, Callback
  <2>4. d \in Delivery /\ RequestOf(d) = {}
    BY <2>3 DEF Deliver, Delivery, Kind, RequestOf
  <2>5. pending' = [pending EXCEPT ![c] = Joined(pending[c], d)]
    BY <2>1
  <2> HIDE DEF c, d
  <2>6. Outstanding(Joined(pending[c], d)) = Outstanding(pending[c])
    BY <1>1, <2>3, <2>4, JoinedAdds
  <2>7. \A x \in Token : queued'[x] = queued[x]
    BY <1>1, <2>3, <2>5, <2>6 DEF queued
  <2> QED BY <1>1, <1>2, <2>2, <2>7 DEF executing
<1>10. ASSUME NEW t \in Token, CompleteCancelled(t) \/ CallbackReturns(t) PROVE AllAccounted'
  BY <1>7, <1>10, AnswersAccounted DEF Next, PluginNext, WorkerNext
<1>11. ASSUME ServeRequest \/ AnswerForwarded PROVE AllAccounted'
  BY <1>11, AnswersAccounted DEF Next, UiNext
<1>12. ASSUME DrainRequests \/ SkipRequest \/ ForwardRequest PROVE AllAccounted'
  BY <1>12, HandingOnAccounted DEF Next, UiNext
<1>13. ASSUME NEW t \in Token,
              Release(t) \/ BeginDelivery(t) \/ ExecuteCommand(t) \/ QueueRequest(t)
       PROVE  AllAccounted'
  BY <1>13, ReleaseAccounted, DeliveringAccounted, ExecuteAccounted, QueueRequestAccounted
<1>14. ASSUME NEW t \in Token, RevokeExtensions(t) PROVE AllAccounted'
  BY <1>14, RevokeAccounted DEF Next, UiNext
<1> QED
  BY <1>3, <1>4, <1>5, <1>6, <1>8, <1>9, <1>10, <1>11, <1>12, <1>13, <1>14
     DEF Next, UiNext, PluginNext, WorkerNext

LEMMA AccountsInvariant == Spec => [](CallsInLife /\ AllAccounted)
<1>1. Init => CallsInLife /\ AllAccounted
  <2> SUFFICES ASSUME Init PROVE CallsInLife /\ AllAccounted
    OBVIOUS
  <2>1. CallsInLife
    BY DEF Init, CallsInLife
  <2>2. \A t \in Token : queued[t] = {} /\ executing[t] = {} /\ cancelled[t] = {}
    BY DEF Init, queued, executing, Outstanding
  <2>3. RequestsIn(requests) = {} /\ RequestsIn(drained) = {} /\ forwarded = {}
    BY DEF Init, RequestsIn
  <2>4. \A p \in Place : placed[p] = {}
    BY <2>2, <2>3, PlacesAre, PlacedAre
  <2>5. accepted = {} /\ answered = {}
    BY DEF Init
  <2>6. AllAccounted
    BY <2>4, <2>5 DEF AllAccounted, Accounted
  <2> QED BY <2>1, <2>6
<1>2. Base /\ Ownership /\ QueuesInOrder /\ CallsInLife /\ AllAccounted /\ [Next]_vars
        => (CallsInLife /\ AllAccounted)'
  <2>1. ASSUME CallsInLife, UNCHANGED vars PROVE CallsInLife'
    BY <2>1 DEF CallsInLife, vars, threads, history
  <2> QED BY <2>1, CallsStep, AccountsStep
<1> QED BY <1>1, <1>2, BaseInvariant, OwnershipInvariant, OrderInvariant, PTL DEF Spec

LEMMA AtMostOne ==
  ASSUME NEW S, \A x, y \in S : x = y
  PROVE  Cardinality(S) = IF S = {} THEN 0 ELSE 1
<1>1. CASE S = {}
  BY <1>1, FS_EmptySet
<1>2. CASE S # {}
  <2>1. PICK x : S = {x}
    BY <1>2
  <2>2. Cardinality({x}) = 1
    BY FS_Singleton
  <2> QED BY <1>2, <2>1, <2>2
<1> QED BY <1>1, <1>2

(* What a plugin asks of the host or of another plugin is answered once    *)
(* while the plugin is live, and until then it is kept in one place,       *)
(* whatever is released, revoked, drained or refused in between.           *)
THEOREM RequestsAreAccounted == Spec => []EachRequestHeldOnce
<1>1. Base /\ QueuesInOrder /\ AllAccounted => EachRequestHeldOnce
  <2> SUFFICES ASSUME Base, QueuesInOrder, AllAccounted, NEW r \in accepted, r.token \in live
               PROVE  Holders(r) = IF r \in answered THEN 0 ELSE 1
    BY DEF EachRequestHeldOnce, live, Base, TypeOK, Request
  <2>1. r \in Request /\ r.token # None
    BY ExtensionsAssumption DEF Base, TypeOK, Request, ExtensionsAssumption
  <2>2. \A s : s \in Request => (s = r <=> s.token = r.token /\ s.sequence = r.sequence)
    BY <2>1 DEF Request
  <2>3. \A c \in Token : /\ pending[c] \in Seq(Delivery) /\ InOrder(pending[c], sequence)
                         /\ Len(pending[c]) <= MaxPending
    BY DEF Base, TypeOK, QueuesAreBounded, QueuesInOrder
  <2>4. /\ requests \in Seq(MediaRequest) /\ AskedInOrder(requests, sequence)
        /\ drained \in Seq(MediaRequest) /\ AskedInOrder(drained, sequence)
    BY DEF Base, TypeOK, QueuesInOrder
  <2>5. /\ \A p, q \in Place : r \in placed[p] /\ r \in placed[q] => p = q
        /\ r \in answered <=> \A p \in Place : r \notin placed[p]
    BY DEF AllAccounted, Accounted
  <2> DEFINE At(p) == p \in Place /\ r \in placed[p]
  <2>6. \A w \in Waiting(r) : w = <<w[1], w[2]>> /\ w[1] \in Token /\ w[2] \in DOMAIN pending[w[1]]
                              /\ r \in queued[w[1]]
    BY <2>1, <2>2 DEF Waiting, queued, Outstanding, Request
  <2>7. \A c \in Token : r \in queued[c] => \E w \in Waiting(r) : w[1] = c
    <3> SUFFICES ASSUME NEW c \in Token, r \in Outstanding(pending[c])
                 PROVE  \E w \in Waiting(r) : w[1] = c
      BY DEF queued
    <3>1. PICK i \in DOMAIN pending[c] :
             /\ pending[c][i].completion # None
             /\ r = [token |-> pending[c][i].completion, sequence |-> pending[c][i].sequence]
      BY DEF Outstanding
    <3>2. i \in 1..MaxPending
      BY <2>3, <3>1, LenProperties, ExtensionsAssumption DEF ExtensionsAssumption
    <3>3. <<c, i>> \in Waiting(r)
      BY <3>1, <3>2 DEF Waiting
    <3> QED BY <3>3
  <2>8. ASSUME NEW c \in Token, NEW d \in Token
        PROVE  /\ r \in queued[c] /\ r \in queued[d] => c = d
               /\ r \in executing[c] /\ r \in executing[d] => c = d
               /\ r \in cancelled[c] /\ r \in cancelled[d] => c = d
    <3>1. ASSUME r \in queued[c], r \in queued[d] PROVE c = d
      <4>1. <<"queued", c>> = <<"queued", d>>
        BY <2>5, <3>1, PlacesAre, PlacedAre
      <4> QED BY <4>1
    <3>2. ASSUME r \in executing[c], r \in executing[d] PROVE c = d
      <4>1. <<"executing", c>> = <<"executing", d>>
        BY <2>5, <3>2, PlacesAre, PlacedAre
      <4> QED BY <4>1
    <3>3. ASSUME r \in cancelled[c], r \in cancelled[d] PROVE c = d
      <4>1. <<"cancelled", c>> = <<"cancelled", d>>
        BY <2>5, <3>3, PlacesAre, PlacedAre
      <4> QED BY <4>1
    <3> QED BY <3>1, <3>2, <3>3
  <2>9. \A v, w \in Waiting(r) : v = w
    <3> SUFFICES ASSUME NEW v \in Waiting(r), NEW w \in Waiting(r) PROVE v = w
      OBVIOUS
    <3>1. v[1] = w[1]
      BY <2>6, <2>8
    <3> DEFINE s == pending[v[1]]
    <3>2. /\ s \in Seq(Delivery) /\ InOrder(s, sequence)
          /\ v[2] \in Awaited(s) /\ w[2] \in Awaited(s) /\ s[v[2]].sequence = s[w[2]].sequence
      BY <2>1, <2>3, <2>6, <3>1 DEF Waiting, Awaited
    <3> HIDE DEF s
    <3>3. v[2] \in Nat /\ w[2] \in Nat /\ s[v[2]].sequence \in Nat
      BY <3>2, SequencesAreNumbers, LenProperties DEF Awaited
    <3>4. ~(v[2] < w[2]) /\ ~(w[2] < v[2])
      BY <3>2, <3>3 DEF InOrder, Ascends
    <3>5. v[2] = w[2]
      BY <3>3, <3>4
    <3> QED BY <2>6, <3>1, <3>5
  <2>10. /\ \A c \in Executing(r) : c \in Token /\ r \in executing[c]
        /\ \A c \in Token : r \in executing[c] => c \in Executing(r)
    BY <2>1 DEF Executing, executing, RequestOf, Request
  <2>11. \A c : c \in Cancelling(r) <=> c \in Token /\ r \in cancelled[c]
    BY DEF Cancelling
  <2>12. \A c, d \in Executing(r) : c = d
    BY <2>8, <2>10
  <2>13. \A c, d \in Cancelling(r) : c = d
    BY <2>8, <2>11
  <2>14. ASSUME NEW s \in Seq(MediaRequest), AskedInOrder(s, sequence)
         PROVE  /\ \A i, j \in In(s, r) : i = j
                /\ In(s, r) # {} <=> r \in RequestsIn(s)
    <3>1. ASSUME NEW i \in In(s, r), NEW j \in In(s, r) PROVE i = j
      <4>1. i \in DOMAIN s /\ j \in DOMAIN s /\ s[i].sequence = s[j].sequence
        BY DEF In
      <4>2. i \in Nat /\ j \in Nat /\ s[i].sequence \in Nat
        BY <4>1, SequencesAreNumbers, LenProperties
      <4>3. ~(i < j) /\ ~(j < i)
        BY <2>14, <4>1, <4>2 DEF AskedInOrder, Ascends
      <4> QED BY <4>2, <4>3
    <3>2. In(s, r) # {} <=> r \in RequestsIn(s)
      BY <2>1 DEF In, RequestsIn, Request
    <3> QED BY <3>1, <3>2
  <2>15. \A x, y \in {r} \cap forwarded : x = y
    OBVIOUS
  <2> DEFINE one(S) == IF S = {} THEN 0 ELSE 1
  <2>16. Holders(r) = one(Waiting(r)) + one(Executing(r)) + one(Cancelling(r))
                      + one(In(requests, r)) + one(In(drained, r)) + one({r} \cap forwarded)
    <3>1. /\ Cardinality(Waiting(r)) = one(Waiting(r))
          /\ Cardinality(Executing(r)) = one(Executing(r))
          /\ Cardinality(Cancelling(r)) = one(Cancelling(r))
      BY <2>9, <2>12, <2>13, AtMostOne
    <3>2. /\ Cardinality(In(requests, r)) = one(In(requests, r))
          /\ Cardinality(In(drained, r)) = one(In(drained, r))
          /\ Cardinality({r} \cap forwarded) = one({r} \cap forwarded)
      BY <2>4, <2>14, <2>15, AtMostOne
    <3> HIDE DEF one
    <3> QED BY <3>1, <3>2 DEF Holders
  <2>17. /\ Waiting(r) # {} <=> \E c \in Token : At(<<"queued", c>>)
         /\ Executing(r) # {} <=> \E c \in Token : At(<<"executing", c>>)
         /\ Cancelling(r) # {} <=> \E c \in Token : At(<<"cancelled", c>>)
    <3>1. \A c \in Token : /\ At(<<"queued", c>>) <=> r \in queued[c]
                           /\ At(<<"executing", c>>) <=> r \in executing[c]
                           /\ At(<<"cancelled", c>>) <=> r \in cancelled[c]
      BY PlacesAre, PlacedAre
    <3> HIDE DEF At
    <3> QED BY <2>6, <2>7, <2>10, <2>11, <3>1
  <2>18. /\ In(requests, r) # {} <=> At(<<"requests", None>>)
         /\ In(drained, r) # {} <=> At(<<"drained", None>>)
         /\ {r} \cap forwarded # {} <=> At(<<"forwarded", None>>)
    BY <2>4, <2>14, PlacesAre, PlacedAre
  <2>19. CASE r \in answered
    <3>1. \A p : ~At(p)
      BY <2>5, <2>19
    <3> HIDE DEF At
    <3>2. /\ Waiting(r) = {} /\ Executing(r) = {} /\ Cancelling(r) = {}
          /\ In(requests, r) = {} /\ In(drained, r) = {} /\ {r} \cap forwarded = {}
      BY <2>17, <2>18, <3>1
    <3> QED BY <2>16, <2>19, <3>2
  <2>20. CASE r \notin answered
    <3>1. PICK p \in Place : At(p) /\ \A q : At(q) => q = p
      BY <2>5, <2>20
    <3> HIDE DEF At
    <3>2. /\ Waiting(r) # {} <=> p[1] = "queued"
          /\ Executing(r) # {} <=> p[1] = "executing"
          /\ Cancelling(r) # {} <=> p[1] = "cancelled"
      <4>1. \A c \in Token : /\ At(<<"queued", c>>) => p[1] = "queued"
                             /\ At(<<"executing", c>>) => p[1] = "executing"
                             /\ At(<<"cancelled", c>>) => p[1] = "cancelled"
        BY <3>1
      <4>2. /\ p[1] = "queued" => \E c \in Token : p = <<"queued", c>>
            /\ p[1] = "executing" => \E c \in Token : p = <<"executing", c>>
            /\ p[1] = "cancelled" => \E c \in Token : p = <<"cancelled", c>>
        BY PlacesAre
      <4> QED BY <2>17, <3>1, <4>1, <4>2
    <3>3. /\ In(requests, r) # {} <=> p[1] = "requests"
          /\ In(drained, r) # {} <=> p[1] = "drained"
          /\ {r} \cap forwarded # {} <=> p[1] = "forwarded"
      <4>1. /\ At(<<"requests", None>>) => p[1] = "requests"
            /\ At(<<"drained", None>>) => p[1] = "drained"
            /\ At(<<"forwarded", None>>) => p[1] = "forwarded"
        BY <3>1
      <4>2. /\ p[1] = "requests" => p = <<"requests", None>>
            /\ p[1] = "drained" => p = <<"drained", None>>
            /\ p[1] = "forwarded" => p = <<"forwarded", None>>
        BY PlacesAre
      <4> QED BY <2>18, <3>1, <4>1, <4>2
    <3>4. p[1] \in {"queued", "executing", "cancelled", "requests", "drained", "forwarded"}
      BY PlacesAre
    <3> QED BY <2>16, <2>20, <3>2, <3>3, <3>4
  <2> QED BY <2>19, <2>20
<1> QED BY <1>1, BaseInvariant, OrderInvariant, AccountsInvariant, PTL
=============================================================================
