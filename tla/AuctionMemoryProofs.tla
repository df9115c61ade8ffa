-------------------------- MODULE AuctionMemoryProofs --------------------------
(***************************************************************************)
(* What module AuctionMemory guarantees for any auctions, names, tokens,   *)
(* capacity and TTL, and any order of calls, and that it implements        *)
(* AuctionStore.  A record is old or not: only the refinement, which maps  *)
(* when it was written to when it ends, looks into Aged and Live.          *)
(***************************************************************************)
EXTENDS AuctionMemory, EnumerationProofs

RecordType == [key : Auctions, at : Nat]
HeldType   == [key : Auctions, name : Names, token : Tokens, at : Nat]
Tombstone  == [key : Auctions, reason : {"evicted", "expired"}]

Apart(seq) == \A i, j \in 1..Len(seq) : seq[i].key = seq[j].key => i = j

(* No two reservations of one auction and name.                            *)
Single(held) == \A i, j \in 1..Len(held) :
                   held[i].key = held[j].key /\ held[i].name = held[j].name => i = j

Shaped == /\ now \in Nat /\ evicted \in BOOLEAN
          /\ records \in Seq(RecordType) /\ reservations \in Seq(HeldType)
          /\ gone \in Seq(Tombstone)
          /\ fate \in [Auctions -> {"never created", "evicted", "expired"}]

Fits == Len(records) <= Capacity /\ Len(reservations) <= Ceiling /\ Len(gone) <= Capacity

Once == Apart(records) /\ Apart(gone) /\ Single(reservations)

Elsewhere == \A i \in 1..Len(records), j \in 1..Len(gone) : records[i].key # gone[j].key

(* The ring tells the truth of those it remembers, the flag of the rest.   *)
Told == /\ \A i \in 1..Len(gone) : fate[gone[i].key] = gone[i].reason
        /\ ~evicted => \A a \in Auctions : fate[a] # "evicted"

MemInv == Shaped /\ Fits /\ Once /\ Elsewhere /\ Told

-----------------------------------------------------------------------------
LEMMA Span ==
    ASSUME NEW n \in Nat
    PROVE  IsFiniteSet(1..n) /\ Cardinality(1..n) = n
BY FS_Interval

LEMMA Entries ==
    ASSUME NEW X, NEW seq \in Seq(X)
    PROVE  /\ Len(seq) \in Nat /\ DOMAIN seq = 1..Len(seq)
           /\ \A i \in 1..Len(seq) : seq[i] \in X
OBVIOUS

LEMMA Alone ==
    ASSUME NEW X, NEW x \in X
    PROVE  <<x>> \in Seq(X) /\ Len(<<x>>) = 1 /\ <<x>>[1] = x
OBVIOUS

(* The entries of r are those of seq at the other places than P, f says    *)
(* which.                                                                  *)
Origins(f, r, seq, P) ==
    /\ f \in [1..Len(r) -> 1..Len(seq)]
    /\ \A k, l \in 1..Len(r) : f[k] = f[l] => k = l
    /\ \A k \in 1..Len(r) : f[k] \notin P /\ r[k] = seq[f[k]]
    /\ \A i \in 1..Len(seq) : i \notin P => \E k \in 1..Len(r) : f[k] = i

(* Pop keeps exactly the entries at the other places.                      *)
LEMMA Popped ==
    ASSUME NEW X, NEW seq \in Seq(X), NEW P \in SUBSET (1..Len(seq)),
           NEW r, r = Pop(seq, P)
    PROVE  /\ r \in Seq(X) /\ Len(r) <= Len(seq)
           /\ (P # {} => Len(r) < Len(seq))
           /\ \E f : Origins(f, r, seq, P)
<1>0. Len(seq) \in Nat /\ DOMAIN seq = 1..Len(seq)
  OBVIOUS
<1>1. CASE P = {}
  <2> DEFINE f == [k \in 1..Len(seq) |-> k]
  <2>1. r = seq
    BY <1>1 DEF Pop
  <2>2. f \in [1..Len(seq) -> 1..Len(seq)] /\ \A k \in 1..Len(seq) : f[k] = k
    OBVIOUS
  <2> HIDE DEF f
  <2>3. Origins(f, r, seq, P)
    BY <1>0, <1>1, <2>1, <2>2 DEF Origins
  <2> QED BY <1>0, <1>1, <2>1, <2>3
<1>2. CASE P # {}
  <2>1. PICK S : S = (1..Len(seq)) \ P
    OBVIOUS
  <2>2. S \in SUBSET (1..Len(seq)) /\ S \in SUBSET Nat /\ S # 1..Len(seq)
    <3>1. PICK p \in P : p \in 1..Len(seq) /\ p \notin S
      BY <1>2, <2>1
    <3> QED BY <1>0, <2>1, <3>1
  <2>3. IsFiniteSet(1..Len(seq)) /\ Cardinality(1..Len(seq)) = Len(seq)
    BY <1>0, Span
  <2>4. IsFiniteSet(S) /\ Cardinality(S) \in Nat /\ Cardinality(S) <= Len(seq)
        /\ Cardinality(S) # Len(seq)
    BY <2>2, <2>3, FS_Subset, FS_CardinalityType
  <2>5. PICK o, n : o = InOrder(S) /\ n = Cardinality(S)
    OBVIOUS
  <2>6. /\ n \in Nat /\ DOMAIN o = 1..n
        /\ \A i \in 1..n : o[i] \in S
        /\ \A i, j \in 1..n : i < j => o[i] < o[j]
        /\ \A s \in S : \E i \in 1..n : o[i] = s
        /\ o \in Seq(Nat) /\ Len(o) = n
    BY <2>2, <2>4, <2>5, Ordered
  <2>7. r = [i \in 1..n |-> seq[o[i]]]
    BY <1>0, <1>2, <2>1, <2>5, <2>6 DEF Pop, InTurn
  <2>8. \A i \in 1..n : seq[o[i]] \in X
    BY <2>2, <2>6
  <2>9. r \in Seq(X) /\ Len(r) = n
    BY <2>6, <2>7, <2>8
  <2>10. \A k, l \in 1..n : o[k] = o[l] => k = l
    <3> SUFFICES ASSUME NEW k \in 1..n, NEW l \in 1..n, o[k] = o[l], k < l PROVE FALSE
      BY <2>6
    <3>1. o[k] < o[l] /\ o[k] \in Nat
      BY <2>2, <2>6
    <3> QED BY <3>1
  <2>11. o \in [1..n -> 1..Len(seq)]
    <3>1. o = [i \in 1..n |-> o[i]]
      BY <2>6
    <3>2. \A i \in 1..n : o[i] \in 1..Len(seq)
      BY <2>2, <2>6
    <3> QED BY <3>1, <3>2
  <2>12. \A k \in 1..n : o[k] \notin P /\ r[k] = seq[o[k]]
    BY <2>1, <2>6, <2>7
  <2>13. \A i \in 1..Len(seq) : i \notin P => \E k \in 1..n : o[k] = i
    BY <2>1, <2>6
  <2>14. Origins(o, r, seq, P)
    BY <2>9, <2>10, <2>11, <2>12, <2>13 DEF Origins
  <2> QED BY <1>0, <2>4, <2>5, <2>9, <2>14
<1> QED BY <1>1, <1>2

(* What is left of a table after a pop: what the entries were, apart if    *)
(* they were, and everything that was elsewhere.                           *)
Left(r, seq, P) ==
    /\ Len(r) \in Nat /\ Len(r) <= Len(seq)
    /\ \A k \in 1..Len(r) : \E i \in 1..Len(seq) : i \notin P /\ r[k] = seq[i]
    /\ \A i \in 1..Len(seq) : i \notin P => \E k \in 1..Len(r) : r[k] = seq[i]
    /\ Apart(seq) => Apart(r)
    /\ Single(seq) => Single(r)

LEMMA PopKeeps ==
    ASSUME NEW X, NEW seq \in Seq(X), NEW P \in SUBSET (1..Len(seq)),
           NEW r, r = Pop(seq, P)
    PROVE  r \in Seq(X) /\ Left(r, seq, P) /\ (P # {} => Len(r) < Len(seq))
<1>0. PICK f : Origins(f, r, seq, P)
  BY Popped
<1>1. /\ \A k \in 1..Len(r) : f[k] \in 1..Len(seq)
      /\ \A k, l \in 1..Len(r) : f[k] = f[l] => k = l
      /\ \A k \in 1..Len(r) : f[k] \notin P /\ r[k] = seq[f[k]]
      /\ \A i \in 1..Len(seq) : i \notin P => \E k \in 1..Len(r) : f[k] = i
  BY <1>0 DEF Origins
<1>2. r \in Seq(X) /\ Len(r) <= Len(seq) /\ (P # {} => Len(r) < Len(seq))
  BY Popped
<1>3. Len(r) \in Nat
  BY <1>2
<1>4. Apart(seq) => Apart(r)
  <2> SUFFICES ASSUME Apart(seq), NEW k \in 1..Len(r), NEW l \in 1..Len(r), r[k].key = r[l].key
               PROVE  k = l
    BY DEF Apart
  <2>1. seq[f[k]].key = seq[f[l]].key /\ f[k] \in 1..Len(seq) /\ f[l] \in 1..Len(seq)
    BY <1>1
  <2>2. f[k] = f[l]
    BY <2>1 DEF Apart
  <2> QED BY <1>1, <2>2
<1>5. Single(seq) => Single(r)
  <2> SUFFICES ASSUME Single(seq), NEW k \in 1..Len(r), NEW l \in 1..Len(r),
                      r[k].key = r[l].key, r[k].name = r[l].name
               PROVE  k = l
    BY DEF Single
  <2>1. /\ seq[f[k]].key = seq[f[l]].key /\ seq[f[k]].name = seq[f[l]].name
        /\ f[k] \in 1..Len(seq) /\ f[l] \in 1..Len(seq)
    BY <1>1
  <2>2. f[k] = f[l]
    BY <2>1 DEF Single
  <2> QED BY <1>1, <2>2
<1>6. \A i \in 1..Len(seq) : i \notin P => \E k \in 1..Len(r) : r[k] = seq[i]
  <2> SUFFICES ASSUME NEW i \in 1..Len(seq), i \notin P
               PROVE  \E k \in 1..Len(r) : r[k] = seq[i]
    OBVIOUS
  <2>1. PICK k \in 1..Len(r) : f[k] = i
    BY <1>1
  <2> QED BY <1>1, <2>1
<1>7. \A k \in 1..Len(r) : \E i \in 1..Len(seq) : i \notin P /\ r[k] = seq[i]
  BY <1>1
<1> QED BY <1>2, <1>3, <1>4, <1>5, <1>6, <1>7 DEF Left

(* The same of the entries of some auctions.                               *)
Kept(r, seq, K) ==
    /\ Len(r) \in Nat /\ Len(r) <= Len(seq)
    /\ \A k \in 1..Len(r) : r[k].key \notin K /\ \E i \in 1..Len(seq) : r[k] = seq[i]
    /\ \A i \in 1..Len(seq) : seq[i].key \notin K => \E k \in 1..Len(r) : r[k] = seq[i]
    /\ Apart(seq) => Apart(r)
    /\ Single(seq) => Single(r)

LEMMA WithoutKeeps ==
    ASSUME NEW X, NEW seq \in Seq(X), NEW K, NEW r, r = Without(seq, K)
    PROVE  r \in Seq(X) /\ Kept(r, seq, K)
<1>1. PICK P : P = {i \in DOMAIN seq : seq[i].key \in K}
  OBVIOUS
<1>2. P \in SUBSET (1..Len(seq)) /\ r = Pop(seq, P)
  BY <1>1 DEF Without
<1>3. \A i \in 1..Len(seq) : i \in P <=> seq[i].key \in K
  BY <1>1
<1>4. r \in Seq(X) /\ Left(r, seq, P)
  BY <1>2, PopKeeps
<1> QED BY <1>3, <1>4 DEF Left, Kept

LEMMA NextIs ==
    ASSUME NEW S \in SUBSET Nat, NEW d
    PROVE  /\ S = {} => NextOf(S, d) = d
           /\ S # {} => NextOf(S, d) \in S /\ \A k \in S : NextOf(S, d) <= k
<1>1. ASSUME S # {} PROVE Min(S) \in S /\ \A k \in S : Min(S) <= k
  <2>1. \E j \in S : \A k \in S : j <= k
    BY <1>1, LeastIs
  <2> QED BY <2>1 DEF Min
<1> QED BY <1>1 DEF NextOf

(* A table holds as many auctions as it has entries, if it has one of      *)
(* each.                                                                   *)
LEMMA KeysCount ==
    ASSUME NEW X, NEW seq \in Seq(X), Apart(seq)
    PROVE  Cardinality(Keys(seq)) = Len(seq) /\ IsFiniteSet(Keys(seq))
<1>1. Len(seq) \in Nat /\ DOMAIN seq = 1..Len(seq)
  OBVIOUS
<1>2. IsFiniteSet(1..Len(seq)) /\ Cardinality(1..Len(seq)) = Len(seq)
  BY <1>1, FS_Interval
<1> DEFINE f == [i \in 1..Len(seq) |-> seq[i].key]
<1>3. f \in [1..Len(seq) -> Keys(seq)] /\ \A i \in 1..Len(seq) : f[i] = seq[i].key
  BY <1>1 DEF Keys
<1>4. \A k \in Keys(seq) : \E i \in 1..Len(seq) : f[i] = k
  BY <1>1, <1>3 DEF Keys
<1> HIDE DEF f
<1>5. f \in Surjection(1..Len(seq), Keys(seq))
  BY <1>3, <1>4 DEF Surjection
<1>6. \A i, j \in 1..Len(seq) : f[i] = f[j] => i = j
  BY <1>3 DEF Apart
<1>7. f \in Injection(1..Len(seq), Keys(seq))
  BY <1>3, <1>6 DEF Injection, IsInjective
<1>8. IsFiniteSet(Keys(seq))
  BY <1>2, <1>5, FS_Surjection
<1>9. Cardinality(1..Len(seq)) = Cardinality(Keys(seq))
  BY <1>5, <1>7, <1>8, FS_Injection
<1> QED BY <1>2, <1>8, <1>9

-----------------------------------------------------------------------------
(* The end of a sequence, from the entry after the first d.                *)
Rest(seq, d) == SubSeq(seq, d + 1, Len(seq))

After(r, seq, d) ==
    /\ Len(r) = Len(seq) - d
    /\ \A k \in 1..Len(r) : k + d \in 1..Len(seq) /\ r[k] = seq[k + d]

LEMMA TailIs ==
    ASSUME NEW X, NEW seq \in Seq(X), NEW d \in 0..Len(seq),
           NEW r, r = Rest(seq, d)
    PROVE  r \in Seq(X) /\ After(r, seq, d) /\ (Apart(seq) => Apart(r))
<1>1. Len(seq) \in Nat /\ d \in Nat /\ d <= Len(seq)
  OBVIOUS
<1>2. r \in Seq(X) /\ Len(r) = Len(seq) - d
  BY <1>1 DEF Rest
<1>3. \A k \in 1..Len(r) : k + d \in 1..Len(seq) /\ r[k] = seq[k + d]
  BY <1>1 DEF Rest
<1>4. ASSUME Apart(seq), NEW k \in 1..Len(r), NEW l \in 1..Len(r), r[k].key = r[l].key
      PROVE  k = l
  <2>1. k + d = l + d
    BY <1>3, <1>4 DEF Apart
  <2> QED BY <1>1, <1>2, <2>1
<1> QED BY <1>2, <1>3, <1>4 DEF Apart, After

LEMMA FrontIs ==
    ASSUME NEW X, NEW seq \in Seq(X), NEW d \in 0..Len(seq),
           NEW r, r = SubSeq(seq, 1, d)
    PROVE  /\ r \in Seq(X) /\ Len(r) = d
           /\ \A k \in 1..d : k \in 1..Len(seq) /\ r[k] = seq[k]
           /\ Apart(seq) => Apart(r)
<1>1. Len(seq) \in Nat /\ d \in Nat /\ d <= Len(seq)
  OBVIOUS
<1>2. r \in Seq(X) /\ Len(r) = d
  BY <1>1
<1>3. \A k \in 1..d : k \in 1..Len(seq) /\ r[k] = seq[k]
  BY <1>1
<1> QED BY <1>2, <1>3 DEF Apart

LEMMA LastOnesIs ==
    ASSUME NEW X, NEW seq \in Seq(X), NEW r, r = LastOnes(seq)
    PROVE  /\ r \in Seq(X) /\ Len(r) <= Capacity
           /\ \A k \in 1..Len(r) : \E i \in 1..Len(seq) : r[k] = seq[i]
           /\ Apart(seq) => Apart(r)
<1>1. Len(seq) \in Nat /\ Capacity \in Nat
  BY BoundAssumption
<1>2. CASE Len(seq) > Capacity
  <2>1. PICK d : d = Len(seq) - Capacity
    OBVIOUS
  <2>2. d \in 0..Len(seq) /\ r = Rest(seq, d)
    BY <1>1, <1>2, <2>1 DEF LastOnes, Rest
  <2>4. r \in Seq(X) /\ After(r, seq, d) /\ (Apart(seq) => Apart(r))
    BY <2>2, TailIs
  <2>3. /\ r \in Seq(X) /\ Len(r) = Len(seq) - d /\ (Apart(seq) => Apart(r))
        /\ \A k \in 1..Len(r) : k + d \in 1..Len(seq) /\ r[k] = seq[k + d]
    BY <2>4 DEF After
  <2> QED BY <1>1, <2>1, <2>3
<1>3. CASE ~(Len(seq) > Capacity)
  <2>1. r = seq
    BY <1>3 DEF LastOnes
  <2> QED BY <1>1, <1>3, <2>1
<1> QED BY <1>2, <1>3

(* Two tables of different auctions, one after the other.                  *)
Foreign(s, t) == \A i \in 1..Len(s), j \in 1..Len(t) : s[i].key # t[j].key

Joined(r, s, t) ==
    \A k \in 1..Len(r) : \/ k \in 1..Len(s) /\ r[k] = s[k]
                         \/ k - Len(s) \in 1..Len(t) /\ r[k] = t[k - Len(s)]

LEMMA ApartJoins ==
    ASSUME NEW X, NEW s \in Seq(X), NEW t \in Seq(X), Apart(s), Apart(t),
           Foreign(s, t), NEW r, r = s \o t
    PROVE  r \in Seq(X) /\ Apart(r) /\ Joined(r, s, t)
<1>0. PICK m, n : m = Len(s) /\ n = Len(t)
  OBVIOUS
<1>1. m = Len(s) /\ n = Len(t) /\ m \in Nat /\ n \in Nat
  BY <1>0
<1>2. r \in Seq(X) /\ Len(r) = m + n
  BY <1>1
<1>3. \A k \in 1..(m + n) : \/ k \in 1..m /\ r[k] = s[k]
                            \/ k - m \in 1..n /\ r[k] = t[k - m]
  BY <1>1
<1>4. ASSUME NEW k \in 1..(m + n), NEW l \in 1..(m + n), r[k].key = r[l].key
      PROVE  k = l
  <2>1. CASE k \in 1..m /\ r[k] = s[k] /\ l \in 1..m /\ r[l] = s[l]
    BY <1>1, <1>4, <2>1 DEF Apart
  <2>2. CASE k \in 1..m /\ r[k] = s[k] /\ l - m \in 1..n /\ r[l] = t[l - m]
    BY <1>1, <1>4, <2>2 DEF Foreign
  <2>3. CASE l \in 1..m /\ r[l] = s[l] /\ k - m \in 1..n /\ r[k] = t[k - m]
    BY <1>1, <1>4, <2>3 DEF Foreign
  <2>4. CASE k - m \in 1..n /\ r[k] = t[k - m] /\ l - m \in 1..n /\ r[l] = t[l - m]
    <3>1. k - m = l - m
      BY <1>1, <1>4, <2>4 DEF Apart
    <3> QED BY <1>1, <3>1
  <2> QED BY <1>3, <2>1, <2>2, <2>3, <2>4
<1> QED BY <1>1, <1>2, <1>3, <1>4 DEF Apart, Joined

-----------------------------------------------------------------------------
(* What a forgotten record leaves: nothing in the other tables but its     *)
(* tombstone, and the reason it really left for.                           *)
LEMMA FatesTold ==
    ASSUME MemInv, NEW dropped \in Seq(RecordType), NEW told, Apart(dropped),
           Forget(dropped, told)
    PROVE  /\ fate' \in [Auctions -> {"never created", "evicted", "expired"}]
           /\ \A i \in 1..Len(dropped) : fate'[dropped[i].key] = Reason(dropped[i])
           /\ \A a \in Auctions \ Keys(dropped) : fate'[a] = fate[a]
           /\ evicted' \in BOOLEAN
           /\ ~evicted' => \A a \in Auctions : fate'[a] # "evicted"
<1> DEFINE Over(a) == \E e \in ToSet(dropped) : e.key = a
           Old(a)  == \E e \in ToSet(dropped) : e.key = a /\ Aged(e)
<1>1. fate' = [a \in Auctions |-> IF Over(a) THEN IF Old(a) THEN "expired" ELSE "evicted"
                                  ELSE fate[a]]
  BY DEF Forget
<1>2. evicted' = (evicted \/ \E e \in ToSet(dropped) : Reason(e) = "evicted")
  BY DEF Forget
<1>3. /\ \A e : e \in ToSet(dropped) <=> \E i \in 1..Len(dropped) : e = dropped[i]
      /\ \A a : a \in Keys(dropped) <=> \E i \in 1..Len(dropped) : a = dropped[i].key
  BY DEF ToSet, Keys
<1>4. \A i \in 1..Len(dropped) : dropped[i] \in RecordType /\ dropped[i].key \in Auctions
  <2>1. \A i \in 1..Len(dropped) : dropped[i] \in RecordType
    BY Entries
  <2> QED BY <2>1 DEF RecordType
<1>5. \A a : Over(a) <=> a \in Keys(dropped)
  BY <1>3
<1>6. ASSUME NEW i \in 1..Len(dropped)
      PROVE  Over(dropped[i].key) /\ (Old(dropped[i].key) <=> Aged(dropped[i]))
  <2>1. Over(dropped[i].key)
    BY <1>3
  <2>2. Aged(dropped[i]) => Old(dropped[i].key)
    BY <1>3
  <2>3. ASSUME Old(dropped[i].key) PROVE Aged(dropped[i])
    <3>1. PICK e \in ToSet(dropped) : e.key = dropped[i].key /\ Aged(e)
      BY <2>3
    <3>2. PICK j \in 1..Len(dropped) : e = dropped[j]
      BY <1>3
    <3>3. j = i
      BY <3>1, <3>2 DEF Apart
    <3> QED BY <3>1, <3>2, <3>3
  <2> QED BY <2>1, <2>2, <2>3
<1>7. fate \in [Auctions -> {"never created", "evicted", "expired"}] /\ evicted \in BOOLEAN
  BY DEF MemInv, Shaped
<1> HIDE DEF Over, Old
<1>8. \A a \in Auctions : /\ Over(a) /\ Old(a) => fate'[a] = "expired"
                          /\ Over(a) /\ ~Old(a) => fate'[a] = "evicted"
                          /\ ~Over(a) => fate'[a] = fate[a]
  BY <1>1
<1>9. \A a \in Auctions \ Keys(dropped) : fate'[a] = fate[a]
  BY <1>5, <1>8
<1>10. \A i \in 1..Len(dropped) : fate'[dropped[i].key] = Reason(dropped[i])
  BY <1>4, <1>6, <1>8 DEF Reason
<1>11. fate' \in [Auctions -> {"never created", "evicted", "expired"}]
  <2>1. \A a \in Auctions : fate'[a] \in {"never created", "evicted", "expired"}
    BY <1>7, <1>8
  <2>2. fate' = [a \in Auctions |-> fate'[a]]
    BY <1>1
  <2> QED BY <2>1, <2>2
<1>12. evicted' \in BOOLEAN
  BY <1>2
<1>13. ASSUME ~evicted', NEW a \in Auctions PROVE fate'[a] # "evicted"
  <2>1. ~evicted /\ \A e \in ToSet(dropped) : Reason(e) # "evicted"
    BY <1>2, <1>13
  <2>2. CASE a \in Keys(dropped)
    <3>1. PICK i \in 1..Len(dropped) : a = dropped[i].key
      BY <1>3, <2>2
    <3>2. fate'[a] = Reason(dropped[i]) /\ dropped[i] \in ToSet(dropped)
      BY <1>3, <1>10, <3>1
    <3> QED BY <2>1, <3>2
  <2>3. CASE a \notin Keys(dropped)
    <3>1. fate'[a] = fate[a]
      BY <1>9, <2>3
    <3>2. fate[a] # "evicted"
      BY <2>1 DEF MemInv, Told
    <3> QED BY <3>1, <3>2
  <2> QED BY <2>2, <2>3
<1> QED BY <1>9, <1>10, <1>11, <1>12, <1>13

LEMMA Forgets ==
    ASSUME MemInv, NEW dropped \in Seq(RecordType), NEW told \in Seq(Tombstone),
           Apart(dropped), Apart(told),
           \A i \in 1..Len(told) : fate[told[i].key] = told[i].reason,
           Forget(dropped, told)
    PROVE  /\ gone' \in Seq(Tombstone) /\ Len(gone') <= Capacity /\ Apart(gone')
           /\ \A k \in 1..Len(gone') : \/ \E i \in 1..Len(dropped) : gone'[k].key = dropped[i].key
                                       \/ \E i \in 1..Len(told) : gone'[k].key = told[i].key
           /\ \A k \in 1..Len(gone') : fate'[gone'[k].key] = gone'[k].reason
           /\ reservations' \in Seq(HeldType) /\ Len(reservations') <= Ceiling
           /\ Single(reservations')
           /\ \A i \in 1..Len(reservations) : reservations[i].key \notin Keys(dropped)
                 => \E k \in 1..Len(reservations') : reservations'[k] = reservations[i]
<1>1. PICK tombs : tombs = [i \in DOMAIN dropped |->
                              [key |-> dropped[i].key, reason |-> Reason(dropped[i])]]
  OBVIOUS
<1>2. PICK rest : rest = Without(told, Keys(dropped))
  OBVIOUS
<1>3. reservations' = Without(reservations, Keys(dropped)) /\ gone' = LastOnes(rest \o tombs)
  BY <1>1, <1>2 DEF Forget
<1>4. /\ reservations \in Seq(HeldType) /\ Single(reservations)
      /\ Len(reservations) <= Ceiling /\ Len(reservations) \in Nat
  <2>1. reservations \in Seq(HeldType) /\ Single(reservations) /\ Len(reservations) <= Ceiling
    BY DEF MemInv, Shaped, Once, Fits
  <2> QED BY <2>1, Entries
<1>5. Ceiling \in Nat
  BY BoundAssumption, NameAssumption, FS_CardinalityType DEF Ceiling
<1>6. /\ reservations' \in Seq(HeldType) /\ Len(reservations') \in Nat
      /\ Len(reservations') <= Len(reservations) /\ Single(reservations')
      /\ \A i \in 1..Len(reservations) : reservations[i].key \notin Keys(dropped)
            => \E k \in 1..Len(reservations') : reservations'[k] = reservations[i]
  <2>1. PICK held, r, K : held = reservations /\ r = reservations' /\ K = Keys(dropped)
    OBVIOUS
  <2>2. held \in Seq(HeldType) /\ r = Without(held, K) /\ Single(held)
    BY <1>3, <1>4, <2>1
  <2>4. r \in Seq(HeldType) /\ Kept(r, held, K)
    BY <2>2, WithoutKeeps
  <2>3. /\ r \in Seq(HeldType) /\ Len(r) \in Nat /\ Len(r) <= Len(held) /\ Single(r)
        /\ \A i \in 1..Len(held) : held[i].key \notin K
              => \E k \in 1..Len(r) : r[k] = held[i]
    BY <2>2, <2>4 DEF Kept
  <2> QED BY <2>1, <2>3
<1>7. Len(reservations') <= Ceiling
  BY <1>4, <1>5, <1>6
<1>8. /\ rest \in Seq(Tombstone) /\ Apart(rest)
      /\ \A k \in 1..Len(rest) : rest[k].key \notin Keys(dropped)
                                 /\ \E i \in 1..Len(told) : rest[k] = told[i]
  <2>1. PICK K : K = Keys(dropped)
    OBVIOUS
  <2>2. rest = Without(told, K)
    BY <1>2, <2>1
  <2>3. /\ rest \in Seq(Tombstone) /\ Apart(rest)
        /\ \A k \in 1..Len(rest) : rest[k].key \notin K /\ \E i \in 1..Len(told) : rest[k] = told[i]
    BY <2>2, WithoutKeeps DEF Kept
  <2> QED BY <2>1, <2>3
<1>9. /\ tombs \in Seq(Tombstone) /\ Len(tombs) = Len(dropped)
      /\ \A i \in 1..Len(dropped) : /\ tombs[i].key = dropped[i].key
                                    /\ tombs[i].reason = Reason(dropped[i])
                                    /\ tombs[i].key \in Keys(dropped)
  <2>1. \A i \in 1..Len(dropped) : /\ dropped[i].key \in Auctions
                                   /\ Reason(dropped[i]) \in {"evicted", "expired"}
                                   /\ dropped[i].key \in Keys(dropped)
    <3>1. \A i \in 1..Len(dropped) : dropped[i] \in RecordType
      BY Entries
    <3>2. \A i \in 1..Len(dropped) : dropped[i].key \in Auctions
      BY <3>1 DEF RecordType
    <3> QED BY <3>2 DEF Reason, Keys
  <2>2. DOMAIN dropped = 1..Len(dropped) /\ Len(dropped) \in Nat
    OBVIOUS
  <2>3. tombs \in [1..Len(dropped) -> Tombstone]
    BY <1>1, <2>1, <2>2 DEF Tombstone
  <2>4. tombs \in Seq(Tombstone) /\ Len(tombs) = Len(dropped)
    BY <2>2, <2>3
  <2> QED BY <1>1, <2>1, <2>2, <2>4
<1>10. Apart(tombs)
  BY <1>9 DEF Apart
<1>11. \A i \in 1..Len(rest), j \in 1..Len(tombs) : rest[i].key # tombs[j].key
  BY <1>8, <1>9
<1>12. PICK all : all = rest \o tombs
  OBVIOUS
<1>13. all \in Seq(Tombstone) /\ Apart(all) /\ Joined(all, rest, tombs)
  <2>1. rest \in Seq(Tombstone) /\ tombs \in Seq(Tombstone) /\ Apart(rest) /\ Apart(tombs)
    BY <1>8, <1>9, <1>10
  <2>2. Foreign(rest, tombs)
    BY <1>11 DEF Foreign
  <2> QED BY <2>1, <2>2, <1>12, ApartJoins
<1>14. PICK ring : ring = gone'
  OBVIOUS
<1>15. /\ ring \in Seq(Tombstone) /\ Len(ring) <= Capacity /\ Apart(ring)
       /\ \A k \in 1..Len(ring) : \E i \in 1..Len(all) : ring[k] = all[i]
  <2>1. ring = LastOnes(all)
    BY <1>3, <1>12, <1>14
  <2> QED BY <1>13, <2>1, LastOnesIs
<1>16. ASSUME NEW k \in 1..Len(ring)
       PROVE  \/ \E i \in 1..Len(dropped) : /\ ring[k].key = dropped[i].key
                                            /\ ring[k].reason = Reason(dropped[i])
              \/ \E i \in 1..Len(told) : ring[k] = told[i] /\ told[i].key \notin Keys(dropped)
  <2>1. PICK i \in 1..Len(all) : ring[k] = all[i]
    BY <1>15
  <2>2. CASE i \in 1..Len(rest) /\ all[i] = rest[i]
    BY <1>8, <2>1, <2>2
  <2>3. CASE i - Len(rest) \in 1..Len(tombs) /\ all[i] = tombs[i - Len(rest)]
    <3>1. PICK j \in 1..Len(dropped) : ring[k] = tombs[j]
      BY <1>9, <2>1, <2>3
    <3> QED BY <1>9, <3>1
  <2> QED BY <1>13, <2>2, <2>3 DEF Joined
<1>17. ASSUME NEW k \in 1..Len(ring) PROVE fate'[ring[k].key] = ring[k].reason
  <2>0. /\ \A i \in 1..Len(dropped) : fate'[dropped[i].key] = Reason(dropped[i])
        /\ \A a \in Auctions \ Keys(dropped) : fate'[a] = fate[a]
    BY FatesTold
  <2>1. CASE \E i \in 1..Len(dropped) : /\ ring[k].key = dropped[i].key
                                        /\ ring[k].reason = Reason(dropped[i])
    BY <2>0, <2>1
  <2>2. CASE \E i \in 1..Len(told) : ring[k] = told[i] /\ told[i].key \notin Keys(dropped)
    <3>1. PICK i \in 1..Len(told) : ring[k] = told[i] /\ told[i].key \notin Keys(dropped)
      BY <2>2
    <3>2. told[i].key \in Auctions
      <4>1. told[i] \in Tombstone
        BY Entries
      <4> QED BY <4>1 DEF Tombstone
    <3> QED BY <2>0, <3>1, <3>2
  <2> QED BY <1>16, <2>1, <2>2
<1>18. \A k \in 1..Len(ring) : \/ \E i \in 1..Len(dropped) : ring[k].key = dropped[i].key
                               \/ \E i \in 1..Len(told) : ring[k].key = told[i].key
  BY <1>16
<1> QED BY <1>6, <1>7, <1>14, <1>15, <1>17, <1>18

-----------------------------------------------------------------------------
(* A table falls into parts: each entry of a part is one of the table, and *)
(* each entry of the table is in a part.                                   *)
Within(r, seq) == \A k \in 1..Len(r) : \E i \in 1..Len(seq) : r[k] = seq[i]
Split(seq, r, s) ==
    /\ Within(r, seq) /\ Within(s, seq) /\ Foreign(r, s)
    /\ \A i \in 1..Len(seq) : \/ \E k \in 1..Len(r) : r[k] = seq[i]
                              \/ \E k \in 1..Len(s) : s[k] = seq[i]

(* Looking at the cap: at most one record goes, and none that a merchant   *)
(* is minting against as long as there is another.                         *)
LEMMA Evicts ==
    ASSUME NEW fresh \in Seq(RecordType), Apart(fresh), Len(fresh) <= Capacity + 1,
           NEW full \in BOOLEAN, full <=> Len(fresh) > Capacity,
           NEW r, r = IF full THEN Pop(fresh, {Victim(fresh)}) ELSE fresh,
           NEW over, over = IF full THEN <<fresh[Victim(fresh)]>> ELSE <<>>
    PROVE  /\ r \in Seq(RecordType) /\ Apart(r) /\ Len(r) <= Capacity
           /\ over \in Seq(RecordType) /\ Apart(over) /\ Split(fresh, r, over)
           /\ \A k \in 1..Len(over) : Claimed(over[k].key)
                 => \A i \in 1..Len(r) : Claimed(r[i].key)
<1>1. Len(fresh) \in Nat /\ Capacity \in Nat /\ Capacity > 0 /\ DOMAIN fresh = 1..Len(fresh)
  BY BoundAssumption
<1>4. full => 1 \in 1..Len(fresh)
  BY <1>1
<1>2. CASE ~full
  <2>1. r = fresh /\ over = <<>>
    BY <1>2
  <2>2. over \in Seq(RecordType) /\ Len(over) = 0
    BY <2>1
  <2>3. \A i \in 1..Len(over) : FALSE
    BY <2>2
  <2>4. Apart(over) /\ Split(fresh, r, over)
    BY <2>1, <2>3 DEF Apart, Split, Within, Foreign
  <2> QED BY <1>1, <1>2, <2>1, <2>2, <2>3, <2>4
<1>3. CASE full
  <2>1. PICK v : v = Victim(fresh)
    OBVIOUS
  <2>2. PICK free : free = {i \in 1..Len(fresh) : ~Claimed(fresh[i].key)}
    OBVIOUS
  <2>3. v = NextOf(free, 1) /\ free \in SUBSET Nat
    BY <1>1, <2>1, <2>2 DEF Victim
  <2>4. /\ v \in 1..Len(fresh)
        /\ Claimed(fresh[v].key) => \A i \in 1..Len(fresh) : Claimed(fresh[i].key)
    <3>1. CASE free = {}
      <4>1. v = 1
        BY <2>3, <3>1, NextIs
      <4>2. \A i \in 1..Len(fresh) : Claimed(fresh[i].key)
        BY <2>2, <3>1
      <4> QED BY <1>3, <1>4, <4>1, <4>2
    <3>2. CASE free # {}
      <4>1. v \in free
        BY <2>3, <3>2, NextIs
      <4> QED BY <2>2, <4>1
    <3> QED BY <3>1, <3>2
  <2>5. PICK P : P = {v}
    OBVIOUS
  <2>6. P \in SUBSET (1..Len(fresh)) /\ P # {} /\ r = Pop(fresh, P)
    BY <1>3, <2>1, <2>4, <2>5
  <2>7. r \in Seq(RecordType) /\ Left(r, fresh, P) /\ Len(r) < Len(fresh)
    BY <2>6, PopKeeps
  <2>8. Apart(r) /\ Len(r) <= Capacity
    BY <1>1, <2>7 DEF Left
  <2>9. over = <<fresh[v]>> /\ fresh[v] \in RecordType
    BY <1>3, <2>1, <2>4, Entries
  <2>10. over \in Seq(RecordType) /\ Len(over) = 1 /\ over[1] = fresh[v]
    BY <2>9, Alone
  <2>11. \A k \in 1..Len(over) : over[k] = fresh[v]
    BY <2>10
  <2>12. Apart(over)
    BY <2>10 DEF Apart
  <2>13. /\ \A k \in 1..Len(r) : \E i \in 1..Len(fresh) : i # v /\ r[k] = fresh[i]
         /\ \A i \in 1..Len(fresh) : i # v => \E k \in 1..Len(r) : r[k] = fresh[i]
    BY <2>5, <2>7 DEF Left
  <2>14. Foreign(r, over)
    <3> SUFFICES ASSUME NEW k \in 1..Len(r), NEW j \in 1..Len(over), r[k].key = over[j].key
                 PROVE  FALSE
      BY DEF Foreign
    <3>1. PICK i \in 1..Len(fresh) : i # v /\ r[k] = fresh[i]
      BY <2>13
    <3> QED BY <2>4, <2>11, <3>1 DEF Apart
  <2>15. Split(fresh, r, over)
    <3>1. Within(r, fresh)
      BY <2>13 DEF Within
    <3>2. Within(over, fresh)
      BY <2>4, <2>11 DEF Within
    <3>3. \A i \in 1..Len(fresh) : \/ \E k \in 1..Len(r) : r[k] = fresh[i]
                                   \/ \E k \in 1..Len(over) : over[k] = fresh[i]
      <4>1. \E k \in 1..Len(over) : over[k] = fresh[v]
        BY <2>10
      <4> QED BY <2>13, <4>1
    <3> QED BY <2>14, <3>1, <3>2, <3>3 DEF Split
  <2>16. ASSUME NEW k \in 1..Len(over), Claimed(over[k].key), NEW i \in 1..Len(r)
         PROVE  Claimed(r[i].key)
    <3>1. over[k] = fresh[v]
      BY <2>11
    <3>2. \A j \in 1..Len(fresh) : Claimed(fresh[j].key)
      BY <2>4, <2>16, <3>1
    <3>3. PICK j \in 1..Len(fresh) : r[i] = fresh[j]
      BY <2>13
    <3> QED BY <3>2, <3>3
  <2> QED BY <1>3, <2>7, <2>8, <2>10, <2>12, <2>15, <2>16
<1> QED BY <1>2, <1>3

LEMMA EvictsOne ==
    ASSUME NEW full \in BOOLEAN, NEW e,
           NEW over, over = IF full THEN <<e>> ELSE <<>>
    PROVE  /\ \A k, l \in 1..Len(over) : over[k] = over[l]
           /\ ~full => Len(over) = 0
<1>1. CASE full
  <2>1. Len(over) = 1
    BY <1>1
  <2>2. \A k \in 1..Len(over) : k = 1
    BY <2>1
  <2> QED BY <1>1, <2>2
<1>2. CASE ~full
  <2>1. Len(over) = 0
    BY <1>2
  <2>2. \A k \in 1..Len(over) : FALSE
    BY <2>1
  <2> QED BY <2>1, <2>2
<1> QED BY <1>1, <1>2

(* What the reaping counts is a front of the table that has aged out.      *)
LEMMA FrontAged ==
    ASSUME NEW table \in Seq(RecordType),
           NEW aged, aged = NextOf({i \in DOMAIN table : ~Aged(table[i])}, Len(table) + 1) - 1
    PROVE  aged \in 0..Len(table) /\ \A i \in 1..aged : Aged(table[i])
<1>1. PICK young, n, next : /\ young = {i \in DOMAIN table : ~Aged(table[i])}
                            /\ n = Len(table) /\ next = NextOf(young, Len(table) + 1)
  OBVIOUS
<1>2. n \in Nat /\ DOMAIN table = 1..n
  BY <1>1
<1>3. young \in SUBSET Nat /\ young \in SUBSET (1..n) /\ next = NextOf(young, n + 1)
  BY <1>1, <1>2
<1>4. aged = next - 1
  BY <1>1
<1>5. \A i \in 1..n : i \notin young => Aged(table[i])
  BY <1>1, <1>2
<1>6. next \in 1..(n + 1) /\ \A i \in young : next <= i
  <2>1. CASE young = {}
    <3>1. next = n + 1
      BY <1>3, <2>1, NextIs
    <3> QED BY <1>2, <2>1, <3>1
  <2>2. CASE young # {}
    <3>1. next \in young /\ \A k \in young : next <= k
      BY <1>3, <2>2, NextIs
    <3> QED BY <1>2, <1>3, <3>1
  <2> QED BY <2>1, <2>2
<1>7. aged \in 0..n
  BY <1>2, <1>4, <1>6
<1>8. ASSUME NEW i \in 1..aged PROVE Aged(table[i])
  <2>1. i \in 1..n /\ i < next
    BY <1>2, <1>4, <1>6, <1>7
  <2>2. i \notin young
    BY <1>2, <1>6, <2>1
  <2> QED BY <1>5, <2>1, <2>2
<1> QED BY <1>1, <1>7, <1>8

(* Reaping: a table falls into a front that has aged out and the rest.     *)
LEMMA Reaps ==
    ASSUME NEW table \in Seq(RecordType), Apart(table),
           NEW aged \in 0..Len(table), \A i \in 1..aged : Aged(table[i]),
           NEW front, front = SubSeq(table, 1, aged),
           NEW fresh, fresh = Rest(table, aged)
    PROVE  /\ front \in Seq(RecordType) /\ fresh \in Seq(RecordType)
           /\ Apart(front) /\ Apart(fresh) /\ Len(fresh) <= Len(table)
           /\ Split(table, fresh, front)
           /\ \A i \in 1..Len(front) : Aged(front[i])
<1>0. Len(table) \in Nat /\ DOMAIN table = 1..Len(table)
  OBVIOUS
<1>5. aged \in 0..Len(table) /\ \A i \in 1..aged : Aged(table[i])
  OBVIOUS
<1>6. /\ front \in Seq(RecordType) /\ Len(front) = aged /\ Apart(front)
      /\ \A k \in 1..aged : k \in 1..Len(table) /\ front[k] = table[k]
  BY <1>5, FrontIs
<1>7. /\ fresh \in Seq(RecordType) /\ Len(fresh) = Len(table) - aged /\ Apart(fresh)
      /\ \A k \in 1..Len(fresh) : k + aged \in 1..Len(table) /\ fresh[k] = table[k + aged]
  <2>1. fresh \in Seq(RecordType) /\ After(fresh, table, aged) /\ Apart(fresh)
    BY TailIs
  <2> QED BY <2>1 DEF After
<1>8. \A i \in 1..Len(front) : Aged(front[i])
  BY <1>5, <1>6
<1>9. Split(table, fresh, front)
  <2>1. Within(fresh, table) /\ Within(front, table)
    BY <1>6, <1>7 DEF Within
  <2>2. Foreign(fresh, front)
    <3> SUFFICES ASSUME NEW k \in 1..Len(fresh), NEW j \in 1..Len(front),
                        fresh[k].key = front[j].key
                 PROVE  FALSE
      BY DEF Foreign
    <3>0. PICK i, l : i = k + aged /\ l = j
      OBVIOUS
    <3>4. i \in 1..Len(table) /\ fresh[k] = table[i]
      BY <1>7, <3>0
    <3>5. l \in 1..Len(table) /\ front[j] = table[l]
      BY <1>6, <3>0
    <3>6. i = l
      BY <3>4, <3>5 DEF Apart
    <3>1. k + aged = j
      BY <3>0, <3>6
    <3>2. k \in Nat /\ k > 0
      BY <1>0, <1>7
    <3>3. j \in Nat /\ j <= aged /\ aged \in Nat
      BY <1>0, <1>6
    <3> QED BY <3>1, <3>2, <3>3
  <2>3. ASSUME NEW i \in 1..Len(table)
        PROVE  \/ \E k \in 1..Len(fresh) : fresh[k] = table[i]
               \/ \E k \in 1..Len(front) : front[k] = table[i]
    <3>1. CASE i <= aged
      BY <1>0, <1>5, <1>6, <3>1
    <3>2. CASE i > aged
      <4>1. i - aged \in 1..Len(fresh) /\ (i - aged) + aged = i
        BY <1>0, <1>5, <1>7, <3>2
      <4> QED BY <1>7, <4>1
    <3> QED BY <1>0, <1>5, <3>1, <3>2
  <2> QED BY <2>1, <2>2, <2>3 DEF Split
<1> QED BY <1>0, <1>5, <1>6, <1>7, <1>8, <1>9

OfBoth(d, s, t) == \A k \in 1..Len(d) : \/ \E i \in 1..Len(s) : d[k] = s[i]
                                        \/ \E i \in 1..Len(t) : d[k] = t[i]

LEMMA SplitJoins ==
    ASSUME NEW X, NEW table \in Seq(X), NEW fresh \in Seq(X), NEW front \in Seq(X),
           NEW r \in Seq(X), NEW over \in Seq(X),
           Apart(front), Apart(over), Split(table, fresh, front), Split(fresh, r, over),
           NEW dropped, dropped = front \o over
    PROVE  /\ dropped \in Seq(X) /\ Apart(dropped) /\ Split(table, r, dropped)
           /\ OfBoth(dropped, front, over)
<1>1. /\ Within(fresh, table) /\ Within(front, table) /\ Foreign(fresh, front)
      /\ Within(r, fresh) /\ Within(over, fresh) /\ Foreign(r, over)
  BY DEF Split
<1>2. Foreign(front, over)
  <2> SUFFICES ASSUME NEW i \in 1..Len(front), NEW j \in 1..Len(over), front[i].key = over[j].key
               PROVE  FALSE
    BY DEF Foreign
  <2>1. PICK k \in 1..Len(fresh) : over[j] = fresh[k]
    BY <1>1 DEF Within
  <2> QED BY <1>1, <2>1 DEF Foreign
<1>3. dropped \in Seq(X) /\ Apart(dropped) /\ Joined(dropped, front, over)
  BY <1>2, ApartJoins
<1>4. \A k \in 1..Len(dropped) : \/ \E i \in 1..Len(front) : dropped[k] = front[i]
                                 \/ \E i \in 1..Len(over) : dropped[k] = over[i]
  BY <1>3 DEF Joined
<1>5. /\ \A i \in 1..Len(front) : \E k \in 1..Len(dropped) : dropped[k] = front[i]
      /\ \A i \in 1..Len(over) : \E k \in 1..Len(dropped) : dropped[k] = over[i]
  <2>1. PICK m, n : m = Len(front) /\ n = Len(over)
    OBVIOUS
  <2>2. m \in Nat /\ n \in Nat /\ Len(dropped) = m + n
    BY <2>1
  <2>3. \A i \in 1..m : i \in 1..Len(dropped) /\ dropped[i] = front[i]
    BY <2>1, <2>2
  <2>4. \A i \in 1..n : m + i \in 1..Len(dropped) /\ dropped[m + i] = over[i]
    BY <2>1, <2>2
  <2> QED BY <2>1, <2>3, <2>4
<1>6. Within(r, table)
  <2> SUFFICES ASSUME NEW k \in 1..Len(r) PROVE \E i \in 1..Len(table) : r[k] = table[i]
    BY DEF Within
  <2>1. PICK j \in 1..Len(fresh) : r[k] = fresh[j]
    BY <1>1 DEF Within
  <2> QED BY <1>1, <2>1 DEF Within
<1>7. Within(dropped, table)
  <2> SUFFICES ASSUME NEW k \in 1..Len(dropped) PROVE \E i \in 1..Len(table) : dropped[k] = table[i]
    BY DEF Within
  <2>1. CASE \E i \in 1..Len(front) : dropped[k] = front[i]
    BY <1>1, <2>1 DEF Within
  <2>2. CASE \E i \in 1..Len(over) : dropped[k] = over[i]
    <3>1. PICK j \in 1..Len(fresh) : dropped[k] = fresh[j]
      BY <1>1, <2>2 DEF Within
    <3> QED BY <1>1, <3>1 DEF Within
  <2> QED BY <1>4, <2>1, <2>2
<1>8. Foreign(r, dropped)
  <2> SUFFICES ASSUME NEW k \in 1..Len(r), NEW j \in 1..Len(dropped), r[k].key = dropped[j].key
               PROVE  FALSE
    BY DEF Foreign
  <2>1. CASE \E i \in 1..Len(front) : dropped[j] = front[i]
    <3>1. PICK i \in 1..Len(fresh) : r[k] = fresh[i]
      BY <1>1 DEF Within
    <3> QED BY <1>1, <2>1, <3>1 DEF Foreign
  <2>2. CASE \E i \in 1..Len(over) : dropped[j] = over[i]
    BY <1>1, <2>2 DEF Foreign
  <2> QED BY <1>4, <2>1, <2>2
<1>9. ASSUME NEW i \in 1..Len(table)
      PROVE  \/ \E k \in 1..Len(r) : r[k] = table[i]
             \/ \E k \in 1..Len(dropped) : dropped[k] = table[i]
  <2>1. CASE \E k \in 1..Len(fresh) : fresh[k] = table[i]
    <3>1. PICK k \in 1..Len(fresh) : fresh[k] = table[i]
      BY <2>1
    <3>2. \/ \E j \in 1..Len(r) : r[j] = fresh[k]
          \/ \E j \in 1..Len(over) : over[j] = fresh[k]
      BY DEF Split
    <3> QED BY <1>5, <3>1, <3>2
  <2>2. CASE \E k \in 1..Len(front) : front[k] = table[i]
    BY <1>5, <2>2
  <2> QED BY <2>1, <2>2 DEF Split
<1>10. Split(table, r, dropped)
  BY <1>6, <1>7, <1>8, <1>9 DEF Split
<1>11. OfBoth(dropped, front, over)
  BY <1>4 DEF OfBoth
<1> QED BY <1>3, <1>10, <1>11

(* What a save does: it writes one record in a table that holds the others *)
(* as they were, and the table falls into what is kept and what is         *)
(* forgotten.                                                              *)
Written(key) == [key |-> key, at |-> now]

Writes(key, held, table) ==
    /\ table \in Seq(RecordType) /\ Apart(table) /\ Len(table) <= Capacity + 1
    /\ \A i \in 1..Len(table) :
          \/ table[i].key = key /\ table[i] = Written(key)
          \/ table[i].key # key /\ \E j \in 1..Len(held) : table[i] = held[j]
    /\ \E i \in 1..Len(table) : table[i] = Written(key)
    /\ \A j \in 1..Len(held) : held[j].key # key => \E i \in 1..Len(table) : table[i] = held[j]
    /\ (\E j \in 1..Len(held) : held[j].key = key) => Len(table) <= Capacity
    /\ \A j \in 1..Len(held) : \E i \in 1..Len(table) :
          /\ table[i].key = held[j].key
          /\ table[i] = held[j] \/ ~Aged(table[i])

Drops(table, dropped) ==
    /\ records' \in Seq(RecordType) /\ Apart(records') /\ Len(records') <= Capacity
    /\ dropped \in Seq(RecordType) /\ Apart(dropped) /\ Split(table, records', dropped)
    /\ \A k \in 1..Len(dropped) :
          \/ Aged(dropped[k])
          \/ Claimed(dropped[k].key) => \A i \in 1..Len(records') : Claimed(records'[i].key)
    /\ \A k, l \in 1..Len(dropped) :
          ~Aged(dropped[k]) /\ ~Aged(dropped[l]) => dropped[k] = dropped[l]
    /\ Len(table) <= Capacity => \A k \in 1..Len(dropped) : Aged(dropped[k])

LEMMA SaveWrites ==
    ASSUME MemInv, NEW key \in Auctions,
           NEW table, table = Append(Without(records, {key}), [key |-> key, at |-> now])
    PROVE  Writes(key, records, table)
<1>1. PICK held, w, K, rec : /\ held = records /\ K = {key} /\ w = Without(held, K)
                             /\ rec = [key |-> key, at |-> now]
  OBVIOUS
<1>2. held \in Seq(RecordType) /\ Apart(held) /\ Len(held) <= Capacity /\ now \in Nat
  BY <1>1 DEF MemInv, Shaped, Once, Fits
<1>3. /\ w \in Seq(RecordType) /\ Len(w) \in Nat /\ Len(w) <= Len(held) /\ Apart(w)
      /\ \A k \in 1..Len(w) : w[k].key \notin K /\ \E i \in 1..Len(held) : w[k] = held[i]
      /\ \A i \in 1..Len(held) : held[i].key \notin K => \E k \in 1..Len(w) : w[k] = held[i]
  <2>1. held \in Seq(RecordType) /\ w = Without(held, K)
    BY <1>1, <1>2
  <2>2. w \in Seq(RecordType) /\ Kept(w, held, K)
    BY <2>1, WithoutKeeps
  <2> QED BY <1>2, <2>2 DEF Kept
<1>4. rec \in RecordType /\ rec.key = key /\ ~Aged(rec)
  BY <1>1, <1>2, BoundAssumption DEF RecordType, Aged
<1>5. PICK m : m = Len(w)
  OBVIOUS
<1>6. /\ m \in Nat /\ table \in Seq(RecordType) /\ Len(table) = m + 1 /\ table[m + 1] = rec
      /\ \A i \in 1..m : table[i] = w[i]
  BY <1>1, <1>3, <1>4, <1>5
<1>7. \A i \in 1..(m + 1) : i \in 1..m \/ i = m + 1
  BY <1>6
<1>8. Len(table) <= Capacity + 1
  BY <1>2, <1>3, <1>5, <1>6, BoundAssumption, Entries
<1>9. \A i \in 1..m : table[i].key # key
  BY <1>1, <1>3, <1>5, <1>6
<1>10. Apart(table)
  <2> SUFFICES ASSUME NEW i \in 1..(m + 1), NEW j \in 1..(m + 1), table[i].key = table[j].key
               PROVE  i = j
    BY <1>6 DEF Apart
  <2>1. CASE i \in 1..m /\ j \in 1..m
    BY <1>3, <1>5, <1>6, <2>1 DEF Apart
  <2> QED BY <1>4, <1>6, <1>7, <1>9, <2>1
<1>17. rec = Written(key)
  BY <1>1 DEF Written
<1>11. \A i \in 1..(m + 1) :
          \/ table[i].key = key /\ table[i] = Written(key)
          \/ table[i].key # key /\ \E j \in 1..Len(held) : table[i] = held[j]
  <2> SUFFICES ASSUME NEW i \in 1..(m + 1)
               PROVE  \/ table[i].key = key /\ table[i] = Written(key)
                      \/ table[i].key # key /\ \E j \in 1..Len(held) : table[i] = held[j]
    OBVIOUS
  <2>1. CASE i \in 1..m
    <3>1. PICK j \in 1..Len(held) : w[i] = held[j]
      BY <1>3, <1>5, <2>1
    <3> QED BY <1>6, <1>9, <2>1, <3>1
  <2>2. CASE i = m + 1
    BY <1>4, <1>6, <1>17, <2>2
  <2> QED BY <1>7, <2>1, <2>2
<1>21. m + 1 \in 1..(m + 1)
  BY <1>6
<1>18. m + 1 \in 1..(m + 1) /\ table[m + 1] = Written(key)
  BY <1>6, <1>17, <1>21
<1>19. ASSUME NEW j \in 1..Len(held), held[j].key # key
       PROVE  \E i \in 1..(m + 1) : table[i] = held[j]
  <2>1. PICK k \in 1..m : w[k] = held[j]
    BY <1>1, <1>3, <1>5, <1>19
  <2>2. k \in 1..(m + 1)
    BY <1>6
  <2>3. table[k] = w[k]
    BY <1>6
  <2> QED BY <2>1, <2>2, <2>3
<1>20. ASSUME NEW j \in 1..Len(held), held[j].key = key PROVE Len(table) <= Capacity
  <2>1. PICK P : P = {i \in DOMAIN held : held[i].key \in K}
    OBVIOUS
  <2>2. DOMAIN held = 1..Len(held) /\ Len(held) \in Nat
    BY <1>2, Entries
  <2>3. P \in SUBSET (1..Len(held)) /\ P # {} /\ w = Pop(held, P)
    BY <1>1, <1>20, <2>1, <2>2 DEF Without
  <2>4. Len(w) < Len(held)
    BY <1>2, <2>3, PopKeeps
  <2> QED BY <1>2, <1>3, <1>5, <1>6, <2>2, <2>4, BoundAssumption
<1>12. ASSUME NEW j \in 1..Len(held)
       PROVE  \E i \in 1..(m + 1) : /\ table[i].key = held[j].key
                                    /\ table[i] = held[j] \/ ~Aged(table[i])
  <2>1. CASE held[j].key = key
    <3>1. m + 1 \in 1..(m + 1)
      BY <1>6
    <3> QED BY <1>4, <1>6, <2>1, <3>1
  <2>2. CASE held[j].key # key
    <3>1. PICK k \in 1..m : w[k] = held[j]
      BY <1>1, <1>3, <1>5, <2>2
    <3>2. k \in 1..(m + 1)
      BY <1>6
    <3>3. table[k] = held[j]
      BY <1>6, <3>1
    <3> QED BY <3>2, <3>3
  <2> QED BY <2>1, <2>2
<1>13. PICK n : n = Len(table)
  OBVIOUS
<1>14. n = m + 1
  BY <1>6, <1>13
<1>15. /\ \A i \in 1..n :
             \/ table[i].key = key /\ table[i] = Written(key)
             \/ table[i].key # key /\ \E j \in 1..Len(held) : table[i] = held[j]
       /\ \E i \in 1..n : table[i] = Written(key)
       /\ \A j \in 1..Len(held) : held[j].key # key => \E i \in 1..n : table[i] = held[j]
       /\ \A j \in 1..Len(held) : \E i \in 1..n :
             /\ table[i].key = held[j].key
             /\ table[i] = held[j] \/ ~Aged(table[i])
  BY <1>11, <1>12, <1>14, <1>18, <1>19
<1>16. Writes(key, held, table)
  BY <1>6, <1>8, <1>10, <1>13, <1>15, <1>20 DEF Writes
<1> QED BY <1>1, <1>16

LEMMA SaveDoes ==
    ASSUME MemInv, NEW key \in Auctions, Save(key)
    PROVE  \E table, dropped : /\ Writes(key, records, table) /\ Drops(table, dropped)
                               /\ Forget(dropped, Without(gone, {key})) /\ now' = now
<1>1. PICK table : table = Append(Without(records, {key}), [key |-> key, at |-> now])
  OBVIOUS
<1>2. PICK aged : aged = NextOf({i \in DOMAIN table : ~Aged(table[i])}, Len(table) + 1) - 1
  OBVIOUS
<1>3. PICK front, fresh : front = SubSeq(table, 1, aged) /\ fresh = Rest(table, aged)
  OBVIOUS
<1>4. PICK full \in BOOLEAN : full <=> Len(fresh) > Capacity
  OBVIOUS
<1>5. PICK r, over : /\ r = IF full THEN Pop(fresh, {Victim(fresh)}) ELSE fresh
                     /\ over = IF full THEN <<fresh[Victim(fresh)]>> ELSE <<>>
  OBVIOUS
<1>6. PICK dropped : dropped = front \o over
  OBVIOUS
<1>7. records' = r /\ Forget(dropped, Without(gone, {key})) /\ now' = now
  BY <1>1, <1>2, <1>3, <1>4, <1>5, <1>6 DEF Save, Rest
<1>8. Writes(key, records, table)
  BY <1>1, SaveWrites
<1>9. table \in Seq(RecordType) /\ Apart(table) /\ Len(table) <= Capacity + 1
  BY <1>8 DEF Writes
<1>10. aged \in 0..Len(table) /\ \A i \in 1..aged : Aged(table[i])
  BY <1>2, <1>9, FrontAged
<1>11. /\ front \in Seq(RecordType) /\ fresh \in Seq(RecordType)
       /\ Apart(front) /\ Apart(fresh) /\ Len(fresh) <= Len(table)
       /\ Split(table, fresh, front)
       /\ \A i \in 1..Len(front) : Aged(front[i])
  BY <1>3, <1>9, <1>10, Reaps
<1>12. Len(fresh) <= Capacity + 1
  BY <1>9, <1>11, BoundAssumption, Entries
<1>13. /\ r \in Seq(RecordType) /\ Apart(r) /\ Len(r) <= Capacity
       /\ over \in Seq(RecordType) /\ Apart(over) /\ Split(fresh, r, over)
       /\ \A k \in 1..Len(over) : Claimed(over[k].key)
             => \A i \in 1..Len(r) : Claimed(r[i].key)
  BY <1>4, <1>5, <1>11, <1>12, Evicts
<1>20. (\A k, l \in 1..Len(over) : over[k] = over[l]) /\ (~full => Len(over) = 0)
  BY <1>5, EvictsOne
<1>14. /\ dropped \in Seq(RecordType) /\ Apart(dropped) /\ Split(table, r, dropped)
       /\ OfBoth(dropped, front, over)
  BY <1>6, <1>9, <1>11, <1>13, SplitJoins
<1>15. ASSUME NEW k \in 1..Len(dropped)
       PROVE  \/ Aged(dropped[k])
              \/ Claimed(dropped[k].key) => \A i \in 1..Len(r) : Claimed(r[i].key)
  <2>1. CASE \E i \in 1..Len(front) : dropped[k] = front[i]
    BY <1>11, <2>1
  <2>2. CASE \E i \in 1..Len(over) : dropped[k] = over[i]
    BY <1>13, <2>2
  <2> QED BY <1>14, <2>1, <2>2 DEF OfBoth
<1>17. ASSUME NEW k \in 1..Len(dropped), ~Aged(dropped[k])
       PROVE  \E i \in 1..Len(over) : dropped[k] = over[i]
  BY <1>11, <1>14, <1>17 DEF OfBoth
<1>18. \A k, l \in 1..Len(dropped) :
          ~Aged(dropped[k]) /\ ~Aged(dropped[l]) => dropped[k] = dropped[l]
  BY <1>17, <1>20
<1>19. ASSUME Len(table) <= Capacity, NEW k \in 1..Len(dropped) PROVE Aged(dropped[k])
  <2>1. Len(fresh) <= Capacity
    BY <1>9, <1>11, <1>19, BoundAssumption, Entries
  <2>2. ~full
    BY <1>4, <1>11, <2>1, BoundAssumption, Entries
  <2>3. \A i \in 1..Len(over) : FALSE
    BY <1>20, <2>2
  <2> QED BY <1>17, <2>3
<1>16. Drops(table, dropped)
  BY <1>7, <1>13, <1>14, <1>15, <1>18, <1>19 DEF Drops
<1> QED BY <1>7, <1>8, <1>16

-----------------------------------------------------------------------------
LEMMA Scaled ==
    ASSUME NEW a \in Nat, NEW b \in Nat, NEW c \in Nat, a <= b
    PROVE  a * c <= b * c
OBVIOUS

(* One reservation of each name for each record in the table is no more    *)
(* than the ceiling: a table over it has an orphan.                        *)
LEMMA CrowdHasOrphan ==
    ASSUME MemInv, NEW table \in Seq(HeldType), Single(table),
           \A i \in 1..Len(table) : table[i].key \in Keys(records)
    PROVE  Len(table) <= Ceiling
<1>1. PICK K, m, c, n : /\ K = Keys(records) /\ m = Len(records)
                        /\ c = Cardinality(Names) /\ n = Len(table)
  OBVIOUS
<1>2. records \in Seq(RecordType) /\ Apart(records) /\ m <= Capacity
  BY <1>1 DEF MemInv, Shaped, Once, Fits
<1>3. m \in Nat /\ Capacity \in Nat
  BY <1>1, <1>2, BoundAssumption, Entries
<1>4. IsFiniteSet(K) /\ Cardinality(K) = m
  BY <1>1, <1>2, KeysCount
<1>5. IsFiniteSet(Names) /\ c \in Nat
  BY <1>1, NameAssumption, FS_CardinalityType
<1>6. PICK Pairs : Pairs = K \X Names
  OBVIOUS
<1>7. IsFiniteSet(Pairs) /\ Cardinality(Pairs) = m * c
  BY <1>1, <1>4, <1>5, <1>6, FS_Product
<1>8. n \in Nat /\ IsFiniteSet(1..n) /\ Cardinality(1..n) = n
  BY <1>1, Entries, Span
<1>9. \A i \in 1..n : table[i].key \in K /\ table[i].name \in Names
  <2>1. \A i \in 1..n : table[i] \in HeldType
    BY <1>1, Entries
  <2> QED BY <1>1, <2>1 DEF HeldType
<1> DEFINE f == [i \in 1..n |-> <<table[i].key, table[i].name>>]
<1>10. f \in [1..n -> Pairs] /\ \A i \in 1..n : f[i] = <<table[i].key, table[i].name>>
  BY <1>6, <1>9
<1> HIDE DEF f
<1>11. \A i, j \in 1..n : f[i] = f[j] => i = j
  BY <1>1, <1>10 DEF Single
<1>12. f \in Injection(1..n, Pairs)
  BY <1>10, <1>11 DEF Injection, IsInjective
<1>13. Cardinality(1..n) <= Cardinality(Pairs)
  BY <1>7, <1>12, FS_Injection
<1>14. m * c <= Capacity * c
  BY <1>2, <1>3, <1>5, Scaled
<1>15. PICK p, q : p = m * c /\ q = Capacity * c
  OBVIOUS
<1>16. p \in Nat /\ q \in Nat
  BY <1>3, <1>5, <1>15
<1>17. n <= p /\ p <= q
  BY <1>7, <1>8, <1>13, <1>14, <1>15
<1>18. n <= q
  BY <1>8, <1>16, <1>17
<1> QED BY <1>1, <1>15, <1>18 DEF Ceiling

(* A reservation taken over the ceiling costs an orphan its place, and     *)
(* nothing else one that is live and whose record is there.                *)
Taking(key, name, token) == [key |-> key, name |-> name, token |-> token, at |-> now]

Adds(new) == \A k \in 1..Len(reservations') :
                \/ reservations'[k] = new
                \/ \E i \in 1..Len(reservations) : reservations'[k] = reservations[i]

Offered(x, new) ==
    x = new \/ \E i \in 1..Len(reservations) : Live(reservations[i]) /\ x = reservations[i]

Bumps(new) == \E v : \A x : Offered(x, new)
                 => \/ \E k \in 1..Len(reservations') : reservations'[k] = x
                    \/ x = v /\ x.key \notin Keys(records)

LEMMA ReserveDoes ==
    ASSUME MemInv, NEW key \in Auctions, NEW name \in Names, NEW token \in Tokens,
           Reserve(key, name, token)
    PROVE  /\ reservations' \in Seq(HeldType) /\ Single(reservations')
           /\ Len(reservations') <= Ceiling
           /\ \A i \in 1..Len(reservations) :
                 Live(reservations[i]) /\ reservations[i].key \in Keys(records)
                 => \E k \in 1..Len(reservations') : reservations'[k] = reservations[i]
           /\ Adds(Taking(key, name, token)) /\ Bumps(Taking(key, name, token))
<1>1. PICK held, P, w, new, table :
          /\ held = reservations
          /\ P = {i \in DOMAIN held : held[i].key = key /\ held[i].name = name}
          /\ w = Pop(held, P)
          /\ new = [key |-> key, name |-> name, token |-> token, at |-> now]
          /\ table = Append(w, new)
  OBVIOUS
<1>2. /\ ~\E h \in ToSet(held) : (h.key = key /\ h.name = name) /\ Live(h)
      /\ reservations' = IF Len(table) > Ceiling THEN Pop(table, {Backstop(table)}) ELSE table
  BY <1>1 DEF Reserve
<1>3. held \in Seq(HeldType) /\ Single(held) /\ Len(held) <= Ceiling /\ now \in Nat
  BY <1>1 DEF MemInv, Shaped, Once, Fits
<1>4. Ceiling \in Nat
  BY BoundAssumption, NameAssumption, FS_CardinalityType DEF Ceiling
<1>5. Len(held) \in Nat /\ DOMAIN held = 1..Len(held)
  BY <1>3
<1>6. P \in SUBSET (1..Len(held))
  BY <1>1, <1>5
<1>7. w \in Seq(HeldType) /\ Left(w, held, P)
  BY <1>1, <1>3, <1>6, PopKeeps
<1>8. /\ Len(w) \in Nat /\ Len(w) <= Len(held) /\ Single(w)
      /\ \A k \in 1..Len(w) : \E i \in 1..Len(held) : i \notin P /\ w[k] = held[i]
      /\ \A i \in 1..Len(held) : i \notin P => \E k \in 1..Len(w) : w[k] = held[i]
  BY <1>3, <1>7 DEF Left
<1>9. new \in HeldType /\ new.key = key /\ new.name = name
  BY <1>1, <1>3 DEF HeldType
<1>10. PICK m, n : m = Len(w) /\ n = m + 1
  OBVIOUS
<1>11. /\ m \in Nat /\ table \in Seq(HeldType) /\ Len(table) = n /\ table[n] = new
       /\ \A i \in 1..m : table[i] = w[i]
  BY <1>1, <1>7, <1>8, <1>9, <1>10
<1>12. n \in 1..n /\ \A i \in 1..n : i \in 1..m \/ i = n
  BY <1>10, <1>11
<1>13. \A i \in 1..m : ~(table[i].key = key /\ table[i].name = name)
  <2> SUFFICES ASSUME NEW i \in 1..m, table[i].key = key, table[i].name = name PROVE FALSE
    OBVIOUS
  <2>1. PICK j \in 1..Len(held) : j \notin P /\ w[i] = held[j]
    BY <1>8, <1>10
  <2>2. held[j].key = key /\ held[j].name = name
    BY <1>11, <2>1
  <2> QED BY <1>1, <1>5, <2>1, <2>2
<1>14. Single(table)
  <2> SUFFICES ASSUME NEW i \in 1..n, NEW j \in 1..n,
                      table[i].key = table[j].key, table[i].name = table[j].name
               PROVE  i = j
    BY <1>11 DEF Single
  <2>1. CASE i \in 1..m /\ j \in 1..m
    BY <1>8, <1>10, <1>11, <2>1 DEF Single
  <2> QED BY <1>9, <1>11, <1>12, <1>13, <2>1
<1>15. n <= Ceiling + 1 /\ n \in Nat
  BY <1>3, <1>4, <1>5, <1>8, <1>10, <1>11
<1>16. ASSUME NEW i \in 1..Len(held), Live(held[i]) PROVE \E k \in 1..n : table[k] = held[i]
  <2>1. held[i] \in ToSet(held)
    BY <1>5 DEF ToSet
  <2>2. i \notin P
    BY <1>1, <1>2, <1>16, <2>1
  <2>3. PICK k \in 1..m : w[k] = held[i]
    BY <1>8, <1>10, <2>2
  <2>4. k \in 1..n
    BY <1>10, <1>11
  <2> QED BY <1>11, <2>3, <2>4
<1>19. new = Taking(key, name, token)
  BY <1>1 DEF Taking
<1>20. ASSUME NEW i \in 1..n PROVE table[i] = new \/ \E j \in 1..Len(held) : table[i] = held[j]
  <2>1. CASE i \in 1..m
    <3>1. PICK j \in 1..Len(held) : w[i] = held[j]
      BY <1>8, <1>10, <2>1
    <3> QED BY <1>11, <2>1, <3>1
  <2> QED BY <1>11, <1>12, <2>1
<1>21. ASSUME NEW x, Offered(x, new) PROVE \E k \in 1..n : table[k] = x
  <2>1. CASE x = new
    <3>1. n \in 1..n /\ table[n] = new
      BY <1>11, <1>12
    <3> QED BY <2>1, <3>1
  <2>2. CASE \E i \in 1..Len(held) : Live(held[i]) /\ x = held[i]
    BY <1>16, <2>2
  <2> QED BY <1>1, <1>21, <2>1, <2>2 DEF Offered
<1>17. CASE ~(Len(table) > Ceiling)
  <2>1. reservations' = table
    BY <1>2, <1>17
  <2>2. Len(table) <= Ceiling
    BY <1>4, <1>11, <1>15, <1>17
  <2>3. Adds(new)
    BY <1>1, <1>11, <1>20, <2>1 DEF Adds
  <2>4. Bumps(new)
    BY <1>11, <1>21, <2>1 DEF Bumps
  <2> QED BY <1>1, <1>11, <1>14, <1>16, <1>19, <2>1, <2>2, <2>3, <2>4
<1>18. CASE Len(table) > Ceiling
  <2>1. PICK v, orphans, V, r : /\ orphans = {i \in DOMAIN table : table[i].key \notin Keys(records)}
                                /\ v = NextOf(orphans, 1) /\ V = {v} /\ r = reservations'
    OBVIOUS
  <2>2. r = Pop(table, V)
    BY <1>2, <1>18, <2>1 DEF Backstop
  <2>3. DOMAIN table = 1..n
    BY <1>11
  <2>4. orphans # {}
    <3> SUFFICES ASSUME orphans = {} PROVE FALSE
      OBVIOUS
    <3>1. \A i \in 1..Len(table) : table[i].key \in Keys(records)
      BY <1>11, <2>1, <2>3
    <3>2. Len(table) <= Ceiling
      BY <1>11, <1>14, <3>1, CrowdHasOrphan
    <3> QED BY <1>4, <1>11, <1>15, <1>18, <3>2
  <2>5. orphans \in SUBSET Nat
    BY <1>15, <2>1, <2>3
  <2>6. v \in orphans
    BY <2>1, <2>4, <2>5, NextIs
  <2>7. v \in 1..Len(table) /\ table[v].key \notin Keys(records)
    BY <1>11, <2>1, <2>3, <2>6
  <2>8. V \in SUBSET (1..Len(table)) /\ V # {}
    BY <2>1, <2>7
  <2>9. r \in Seq(HeldType) /\ Left(r, table, V) /\ Len(r) < Len(table)
    BY <1>11, <2>2, <2>8, PopKeeps
  <2>10. /\ Len(r) \in Nat /\ Single(r)
         /\ \A i \in 1..Len(table) : i \notin V => \E k \in 1..Len(r) : r[k] = table[i]
         /\ \A k \in 1..Len(r) : \E i \in 1..Len(table) : r[k] = table[i]
    BY <1>14, <2>9 DEF Left
  <2>11. Len(r) <= Ceiling
    BY <1>4, <1>11, <1>15, <2>9, <2>10
  <2>12. ASSUME NEW i \in 1..Len(held), Live(held[i]), held[i].key \in Keys(records)
         PROVE  \E k \in 1..Len(r) : r[k] = held[i]
    <3>1. PICK k \in 1..n : table[k] = held[i]
      BY <1>16, <2>12
    <3>2. k \notin V /\ k \in 1..Len(table)
      BY <1>11, <2>1, <2>7, <2>12, <3>1
    <3> QED BY <2>10, <3>1, <3>2
  <2>13. Adds(new)
    <3> SUFFICES ASSUME NEW k \in 1..Len(r)
                 PROVE  r[k] = new \/ \E i \in 1..Len(held) : r[k] = held[i]
      BY <1>1, <2>1 DEF Adds
    <3>1. PICK i \in 1..n : r[k] = table[i]
      BY <1>11, <2>10
    <3> QED BY <1>20, <3>1
  <2>14. Bumps(new)
    <3> SUFFICES ASSUME NEW x, Offered(x, new)
                 PROVE  \/ \E k \in 1..Len(r) : r[k] = x
                        \/ x = table[v] /\ x.key \notin Keys(records)
      BY <2>1 DEF Bumps
    <3>1. PICK i \in 1..Len(table) : table[i] = x
      BY <1>11, <1>21
    <3> QED BY <2>1, <2>7, <2>10, <3>1
  <2> QED BY <1>1, <1>19, <2>1, <2>9, <2>10, <2>11, <2>12, <2>13, <2>14
<1> QED BY <1>17, <1>18

-----------------------------------------------------------------------------
LEMMA KeysAre ==
    ASSUME NEW X, NEW seq \in Seq(X)
    PROVE  /\ \A a : a \in Keys(seq) <=> \E i \in 1..Len(seq) : a = seq[i].key
           /\ \A e : e \in ToSet(seq) <=> \E i \in 1..Len(seq) : e = seq[i]
BY DEF Keys, ToSet

(* What forgetting some records leaves true, whoever asked for it: nothing *)
(* of the invariant, but that those in the table are not in the ring.      *)
LEMMA ForgetKeeps ==
    ASSUME MemInv, NEW dropped \in Seq(RecordType), NEW told \in Seq(Tombstone),
           Apart(dropped), Apart(told),
           \A i \in 1..Len(told) : fate[told[i].key] = told[i].reason,
           Forget(dropped, told), now' = now,
           records' \in Seq(RecordType), Apart(records'), Len(records') <= Capacity,
           Foreign(records', dropped), Foreign(records', told)
    PROVE  MemInv'
<1>1. /\ gone' \in Seq(Tombstone) /\ Len(gone') <= Capacity /\ Apart(gone')
      /\ \A k \in 1..Len(gone') : \/ \E i \in 1..Len(dropped) : gone'[k].key = dropped[i].key
                                  \/ \E i \in 1..Len(told) : gone'[k].key = told[i].key
      /\ \A k \in 1..Len(gone') : fate'[gone'[k].key] = gone'[k].reason
      /\ reservations' \in Seq(HeldType) /\ Len(reservations') <= Ceiling
      /\ Single(reservations')
  BY Forgets
<1>2. /\ fate' \in [Auctions -> {"never created", "evicted", "expired"}]
      /\ evicted' \in BOOLEAN
      /\ ~evicted' => \A a \in Auctions : fate'[a] # "evicted"
  BY FatesTold
<1>3. now \in Nat
  BY DEF MemInv, Shaped
<1>4. Shaped'
  BY <1>1, <1>2, <1>3 DEF Shaped
<1>5. Fits'
  BY <1>1 DEF Fits, Ceiling
<1>6. Once'
  BY <1>1 DEF Once, Apart, Single
<1>7. Elsewhere'
  <2> SUFFICES ASSUME NEW i \in 1..Len(records'), NEW k \in 1..Len(gone'),
                      records'[i].key = gone'[k].key
               PROVE  FALSE
    BY DEF Elsewhere
  <2>1. \/ \E j \in 1..Len(dropped) : gone'[k].key = dropped[j].key
        \/ \E j \in 1..Len(told) : gone'[k].key = told[j].key
    BY <1>1
  <2>2. CASE \E j \in 1..Len(dropped) : gone'[k].key = dropped[j].key
    BY <2>2 DEF Foreign
  <2>3. CASE \E j \in 1..Len(told) : gone'[k].key = told[j].key
    BY <2>3 DEF Foreign
  <2> QED BY <2>1, <2>2, <2>3
<1>8. Told'
  BY <1>1, <1>2 DEF Told
<1> QED BY <1>4, <1>5, <1>6, <1>7, <1>8 DEF MemInv

LEMMA SaveKeeps ==
    ASSUME MemInv, NEW key \in Auctions, Save(key)
    PROVE  MemInv'
<1>1. PICK table, dropped : /\ Writes(key, records, table) /\ Drops(table, dropped)
                            /\ Forget(dropped, Without(gone, {key})) /\ now' = now
  BY SaveDoes
<1>2. PICK ring, told, K : ring = gone /\ K = {key} /\ told = Without(ring, K)
  OBVIOUS
<1>3. /\ ring \in Seq(Tombstone) /\ Apart(ring)
      /\ \A i \in 1..Len(ring) : fate[ring[i].key] = ring[i].reason
      /\ \A i \in 1..Len(records), j \in 1..Len(ring) : records[i].key # ring[j].key
  BY <1>2 DEF MemInv, Shaped, Once, Told, Elsewhere
<1>4. told \in Seq(Tombstone) /\ Kept(told, ring, K)
  BY <1>2, <1>3, WithoutKeeps
<1>5. /\ Apart(told)
      /\ \A k \in 1..Len(told) : told[k].key \notin K /\ \E i \in 1..Len(ring) : told[k] = ring[i]
  BY <1>3, <1>4 DEF Kept
<1>6. \A i \in 1..Len(told) : fate[told[i].key] = told[i].reason
  BY <1>3, <1>5
<1>7. /\ records' \in Seq(RecordType) /\ Apart(records') /\ Len(records') <= Capacity
      /\ dropped \in Seq(RecordType) /\ Apart(dropped)
      /\ Foreign(records', dropped) /\ Within(records', table)
  BY <1>1 DEF Drops, Split
<1>8. Foreign(records', told)
  <2> SUFFICES ASSUME NEW i \in 1..Len(records'), NEW k \in 1..Len(told),
                      records'[i].key = told[k].key
               PROVE  FALSE
    BY DEF Foreign
  <2>1. PICK l \in 1..Len(table) : records'[i] = table[l]
    BY <1>7 DEF Within
  <2>2. \/ table[l].key = key
        \/ \E j \in 1..Len(records) : table[l] = records[j]
    BY <1>1 DEF Writes
  <2>3. told[k].key # key
    BY <1>2, <1>5
  <2>4. PICK m \in 1..Len(ring) : told[k] = ring[m]
    BY <1>5
  <2>5. PICK j \in 1..Len(records) : table[l] = records[j]
    BY <2>1, <2>2, <2>3
  <2>6. records[j].key = ring[m].key
    BY <2>1, <2>4, <2>5
  <2> QED BY <1>3, <2>6
<1>9. Forget(dropped, told)
  BY <1>1, <1>2
<1> QED BY <1>1, <1>4, <1>5, <1>6, <1>7, <1>8, <1>9, ForgetKeeps

(* A load that forgets: one record, which has aged out.                    *)
LEMMA LoadDoes ==
    ASSUME MemInv, NEW key \in Auctions, Load(key)
    PROVE  \E i \in 1..Len(records), dropped \in Seq(RecordType) :
              /\ records[i].key = key /\ Aged(records[i])
              /\ Len(dropped) = 1 /\ dropped[1] = records[i]
              /\ records' \in Seq(RecordType) /\ Apart(records') /\ Len(records') <= Capacity
              /\ Foreign(records', dropped) /\ Within(records', records)
              /\ \A j \in 1..Len(records) : j # i => \E k \in 1..Len(records') : records'[k] = records[j]
              /\ Forget(dropped, gone) /\ now' = now
<1>1. PICK held : held = records
  OBVIOUS
<1>2. held \in Seq(RecordType) /\ Apart(held) /\ Len(held) <= Capacity
  BY <1>1 DEF MemInv, Shaped, Once, Fits
<1>3. Len(held) \in Nat /\ DOMAIN held = 1..Len(held) /\ \A i \in 1..Len(held) : held[i] \in RecordType
  BY <1>2, Entries
<1>4. PICK i \in 1..Len(held) : /\ held[i].key = key /\ Aged(held[i]) /\ records' = Pop(held, {i})
                                /\ Forget(<<held[i]>>, gone) /\ now' = now
  BY <1>1, <1>3 DEF Load
<1>5. PICK P, r, dropped : P = {i} /\ r = records' /\ dropped = <<held[i]>>
  OBVIOUS
<1>6. P \in SUBSET (1..Len(held)) /\ r = Pop(held, P)
  BY <1>4, <1>5
<1>7. r \in Seq(RecordType) /\ Left(r, held, P)
  BY <1>2, <1>6, PopKeeps
<1>8. /\ Len(r) \in Nat /\ Len(r) <= Len(held) /\ Apart(r)
      /\ \A k \in 1..Len(r) : \E j \in 1..Len(held) : j # i /\ r[k] = held[j]
      /\ \A j \in 1..Len(held) : j # i => \E k \in 1..Len(r) : r[k] = held[j]
  BY <1>2, <1>5, <1>7 DEF Left
<1>9. Len(r) <= Capacity
  BY <1>2, <1>3, <1>8, BoundAssumption
<1>10. dropped \in Seq(RecordType) /\ Len(dropped) = 1 /\ dropped[1] = held[i]
  BY <1>3, <1>5, Alone
<1>11. Foreign(r, dropped)
  <2> SUFFICES ASSUME NEW k \in 1..Len(r), NEW l \in 1..Len(dropped), r[k].key = dropped[l].key
               PROVE  FALSE
    BY DEF Foreign
  <2>1. dropped[l] = held[i]
    BY <1>10
  <2>2. PICK j \in 1..Len(held) : j # i /\ r[k] = held[j]
    BY <1>8
  <2> QED BY <1>2, <2>1, <2>2 DEF Apart
<1>12. Within(r, held)
  BY <1>8 DEF Within
<1>13. Forget(dropped, gone)
  BY <1>4, <1>5
<1> QED BY <1>1, <1>4, <1>5, <1>7, <1>8, <1>9, <1>10, <1>11, <1>12, <1>13

LEMMA LoadKeeps ==
    ASSUME MemInv, NEW key \in Auctions, Load(key)
    PROVE  MemInv'
<1>1. PICK i \in 1..Len(records), dropped \in Seq(RecordType) :
              /\ Len(dropped) = 1
              /\ records' \in Seq(RecordType) /\ Apart(records') /\ Len(records') <= Capacity
              /\ Foreign(records', dropped) /\ Within(records', records)
              /\ Forget(dropped, gone) /\ now' = now
  BY LoadDoes
<1>2. Apart(dropped)
  BY <1>1 DEF Apart
<1>3. /\ gone \in Seq(Tombstone) /\ Apart(gone)
      /\ \A j \in 1..Len(gone) : fate[gone[j].key] = gone[j].reason
      /\ \A k \in 1..Len(records), j \in 1..Len(gone) : records[k].key # gone[j].key
  BY DEF MemInv, Shaped, Once, Told, Elsewhere
<1>4. Foreign(records', gone)
  BY <1>1, <1>3 DEF Within, Foreign
<1>5. PICK told : told = gone
  OBVIOUS
<1>6. /\ told \in Seq(Tombstone) /\ Apart(told) /\ Foreign(records', told) /\ Forget(dropped, told)
      /\ \A j \in 1..Len(told) : fate[told[j].key] = told[j].reason
  BY <1>1, <1>3, <1>4, <1>5
<1> QED BY <1>1, <1>2, <1>6, ForgetKeeps

LEMMA ReserveKeeps ==
    ASSUME MemInv, NEW key \in Auctions, NEW name \in Names, NEW token \in Tokens,
           Reserve(key, name, token)
    PROVE  MemInv'
<1>1. /\ reservations' \in Seq(HeldType) /\ Single(reservations') /\ Len(reservations') <= Ceiling
  BY ReserveDoes
<1>2. UNCHANGED <<now, records, gone, evicted, fate>>
  BY DEF Reserve
<1> QED BY <1>1, <1>2 DEF MemInv, Shaped, Fits, Once, Elsewhere, Told, Apart, Single, Ceiling

(* A release takes the one reservation it names.                           *)
LEMMA ReleaseDoes ==
    ASSUME MemInv, NEW key \in Auctions, NEW name \in Names, NEW token \in Tokens,
           Release(key, name, token)
    PROVE  \E i \in 1..Len(reservations) :
              /\ reservations[i].key = key /\ reservations[i].name = name
              /\ reservations[i].token = token
              /\ reservations' \in Seq(HeldType) /\ Single(reservations')
              /\ Len(reservations') <= Ceiling
              /\ \A j \in 1..Len(reservations) : j # i
                    => \E k \in 1..Len(reservations') : reservations'[k] = reservations[j]
              /\ \A k \in 1..Len(reservations') :
                    \E j \in 1..Len(reservations) : j # i /\ reservations'[k] = reservations[j]
<1>1. PICK held : held = reservations
  OBVIOUS
<1>2. held \in Seq(HeldType) /\ Single(held) /\ Len(held) <= Ceiling
  BY <1>1 DEF MemInv, Shaped, Once, Fits
<1>3. Len(held) \in Nat /\ DOMAIN held = 1..Len(held)
  BY <1>2, Entries
<1>4. PICK i \in 1..Len(held) : /\ held[i].key = key /\ held[i].name = name
                                /\ held[i].token = token /\ reservations' = Pop(held, {i})
  BY <1>1, <1>3 DEF Release
<1>5. PICK P, r : P = {i} /\ r = reservations'
  OBVIOUS
<1>6. P \in SUBSET (1..Len(held)) /\ r = Pop(held, P)
  BY <1>4, <1>5
<1>7. r \in Seq(HeldType) /\ Left(r, held, P)
  BY <1>2, <1>6, PopKeeps
<1>8. /\ Len(r) \in Nat /\ Len(r) <= Len(held) /\ Single(r)
      /\ \A j \in 1..Len(held) : j # i => \E k \in 1..Len(r) : r[k] = held[j]
      /\ \A k \in 1..Len(r) : \E j \in 1..Len(held) : j # i /\ r[k] = held[j]
  BY <1>2, <1>5, <1>7 DEF Left
<1>9. Ceiling \in Nat
  BY BoundAssumption, NameAssumption, FS_CardinalityType DEF Ceiling
<1>10. Len(r) <= Ceiling
  BY <1>2, <1>3, <1>8, <1>9
<1>11. /\ r \in Seq(HeldType) /\ Single(r)
       /\ \A j \in 1..Len(held) : j # i => \E k \in 1..Len(r) : r[k] = held[j]
       /\ \A k \in 1..Len(r) : \E j \in 1..Len(held) : j # i /\ r[k] = held[j]
  BY <1>7, <1>8
<1>12. i \in 1..Len(held) /\ held[i].key = key /\ held[i].name = name /\ held[i].token = token
  BY <1>4
<1> QED BY <1>1, <1>5, <1>10, <1>11, <1>12

LEMMA ReleaseKeeps ==
    ASSUME MemInv, NEW key \in Auctions, NEW name \in Names, NEW token \in Tokens,
           Release(key, name, token)
    PROVE  MemInv'
<1>1. /\ reservations' \in Seq(HeldType) /\ Single(reservations') /\ Len(reservations') <= Ceiling
  BY ReleaseDoes
<1>2. UNCHANGED <<now, records, gone, evicted, fate>>
  BY DEF Release
<1> QED BY <1>1, <1>2 DEF MemInv, Shaped, Fits, Once, Elsewhere, Told, Apart, Single, Ceiling

LEMMA Starts == Init => MemInv
<1> SUFFICES ASSUME Init PROVE MemInv
  OBVIOUS
<1>1. /\ now = 0 /\ records = <<>> /\ reservations = <<>> /\ gone = <<>> /\ evicted = FALSE
      /\ fate = [a \in Auctions |-> "never created"]
  BY DEF Init
<1>2. Capacity \in Nat /\ Ceiling \in Nat
  BY BoundAssumption, NameAssumption, FS_CardinalityType DEF Ceiling
<1>3. Len(records) = 0 /\ Len(reservations) = 0 /\ Len(gone) = 0
  BY <1>1
<1>4. Shaped
  <2>1. <<>> \in Seq(RecordType) /\ <<>> \in Seq(HeldType) /\ <<>> \in Seq(Tombstone)
    OBVIOUS
  <2>2. now \in Nat /\ evicted \in BOOLEAN
    BY <1>1
  <2>3. fate \in [Auctions -> {"never created", "evicted", "expired"}]
    BY <1>1
  <2> QED BY <1>1, <2>1, <2>2, <2>3 DEF Shaped
<1>5. Fits
  BY <1>2, <1>3 DEF Fits
<1>6. Once /\ Elsewhere
  BY <1>3 DEF Once, Elsewhere, Apart, Single
<1>7. Told
  <2>1. \A i \in 1..Len(gone) : FALSE
    BY <1>3
  <2>2. \A a \in Auctions : fate[a] # "evicted"
    BY <1>1
  <2> QED BY <2>1, <2>2 DEF Told
<1> QED BY <1>4, <1>5, <1>6, <1>7 DEF MemInv

LEMMA Steps == MemInv /\ [Next]_vars => MemInv'
<1> SUFFICES ASSUME MemInv, [Next]_vars PROVE MemInv'
  OBVIOUS
<1>1. CASE UNCHANGED vars
  BY <1>1 DEF vars, MemInv, Shaped, Fits, Once, Elsewhere, Told, Apart, Single, Ceiling
<1>2. CASE Tick
  <2>1. UNCHANGED <<records, reservations, gone, evicted, fate>> /\ now' = now + 1
    BY <1>2 DEF Tick
  <2>2. now \in Nat
    BY DEF MemInv, Shaped
  <2>3. now' \in Nat
    BY <2>1, <2>2
  <2> QED BY <2>1, <2>3 DEF MemInv, Shaped, Fits, Once, Elsewhere, Told, Apart, Single, Ceiling
<1>3. CASE Next
  <2>1. ASSUME NEW key \in Auctions, Save(key) PROVE MemInv'
    BY <2>1, SaveKeeps
  <2>2. ASSUME NEW key \in Auctions, Load(key) PROVE MemInv'
    BY <2>2, LoadKeeps
  <2>3. ASSUME NEW key \in Auctions, NEW name \in Names, NEW token \in Tokens,
               Reserve(key, name, token)
        PROVE  MemInv'
    BY <2>3, ReserveKeeps
  <2>4. ASSUME NEW key \in Auctions, NEW name \in Names, NEW token \in Tokens,
               Release(key, name, token)
        PROVE  MemInv'
    BY <2>4, ReleaseKeeps
  <2> QED BY <1>2, <1>3, <2>1, <2>2, <2>3, <2>4 DEF Next
<1> QED BY <1>1, <1>3

LEMMA Holds == Spec => []MemInv
BY Starts, Steps, PTL DEF Spec

(* The store never holds more records, reservations or tombstones than its *)
(* bounds, and one of each auction, of each reservation name and of each   *)
(* forgotten id: whoever saves, reserves and releases, and also when       *)
(* reservations outlive the records they were taken on.                    *)
THEOREM StoreBounded == Spec => []Bounded
<1>1. ASSUME MemInv PROVE Bounded
  <2>1. /\ records \in Seq(RecordType) /\ gone \in Seq(Tombstone) /\ reservations \in Seq(HeldType)
        /\ Apart(records) /\ Apart(gone) /\ Single(reservations) /\ Elsewhere /\ Fits
    BY <1>1 DEF MemInv, Shaped, Once
  <2>2. Cardinality(Keys(records)) = Len(records) /\ Cardinality(Keys(gone)) = Len(gone)
    BY <2>1, KeysCount
  <2>3. Keys(records) \cap Keys(gone) = {}
    <3>1. /\ \A a : a \in Keys(records) <=> \E i \in 1..Len(records) : a = records[i].key
          /\ \A a : a \in Keys(gone) <=> \E i \in 1..Len(gone) : a = gone[i].key
      BY <2>1, KeysAre
    <3> QED BY <2>1, <3>1 DEF Elsewhere
  <2>4. \A g, h \in ToSet(reservations) : g.key = h.key /\ g.name = h.name => g = h
    <3>1. \A e : e \in ToSet(reservations) <=> \E i \in 1..Len(reservations) : e = reservations[i]
      BY <2>1, KeysAre
    <3> QED BY <2>1, <3>1 DEF Single
  <2> QED BY <2>1, <2>2, <2>3, <2>4 DEF Bounded, Fits
<1> QED BY <1>1, Holds, PTL

(* absence() never blames the wrong bound, also for an id the ring has     *)
(* forgotten in its turn, or one that was created again in between.        *)
THEOREM AbsenceHonest == Spec => []AbsenceTruthful
<1>1. ASSUME MemInv PROVE AbsenceTruthful
  <2> SUFFICES ASSUME NEW a \in Auctions
               PROVE  /\ Absence(a) \in {"evicted", "expired"} => fate[a] = Absence(a)
                      /\ Absence(a) = "not evicted" => fate[a] # "evicted"
    BY DEF AbsenceTruthful
  <2>1. gone \in Seq(Tombstone) /\ Told
    BY <1>1 DEF MemInv, Shaped
  <2>2. /\ \A k : k \in Keys(gone) <=> \E i \in 1..Len(gone) : k = gone[i].key
        /\ \A e : e \in ToSet(gone) <=> \E i \in 1..Len(gone) : e = gone[i]
        /\ \A i \in 1..Len(gone) : gone[i] \in Tombstone
    BY <2>1, KeysAre, Entries
  <2>3. CASE a \in Keys(gone)
    <3>1. PICK g : g = CHOOSE e \in ToSet(gone) : e.key = a
      OBVIOUS
    <3>2. \E e \in ToSet(gone) : e.key = a
      BY <2>2, <2>3
    <3>3. g \in ToSet(gone) /\ g.key = a
      BY <3>1, <3>2
    <3>4. Absence(a) = g.reason
      BY <2>3, <3>1 DEF Absence
    <3>5. PICK i \in 1..Len(gone) : g = gone[i]
      BY <2>2, <3>3
    <3>6. fate[a] = g.reason
      BY <2>1, <3>3, <3>5 DEF Told
    <3>7. g.reason \in {"evicted", "expired"}
      BY <2>2, <3>5 DEF Tombstone
    <3> QED BY <3>4, <3>6, <3>7
  <2>4. CASE a \notin Keys(gone)
    <3>1. Absence(a) = IF evicted THEN "perhaps evicted" ELSE "not evicted"
      BY <2>4 DEF Absence
    <3> QED BY <2>1, <3>1 DEF Told
  <2> QED BY <2>3, <2>4
<1> QED BY <1>1, Holds, PTL

-----------------------------------------------------------------------------
(* Forgetting a record takes no reservation on another.                    *)
LEMMA OthersStay ==
    ASSUME MemInv, NEW dropped \in Seq(RecordType), NEW told \in Seq(Tombstone),
           Apart(dropped), Apart(told),
           \A i \in 1..Len(told) : fate[told[i].key] = told[i].reason,
           Forget(dropped, told),
           records' \in Seq(RecordType), Foreign(records', dropped),
           NEW i \in 1..Len(reservations), reservations[i].key \in Keys(records')
    PROVE  \E k \in 1..Len(reservations') : reservations'[k] = reservations[i]
<1>1. \A j \in 1..Len(reservations) : reservations[j].key \notin Keys(dropped)
         => \E k \in 1..Len(reservations') : reservations'[k] = reservations[j]
  BY Forgets
<1>2. PICK left : left = records'
  OBVIOUS
<1>3. left \in Seq(RecordType) /\ Foreign(left, dropped) /\ reservations[i].key \in Keys(left)
  BY <1>2
<1>4. PICK k \in 1..Len(left) : reservations[i].key = left[k].key
  <2>1. \A a : a \in Keys(left) <=> \E l \in 1..Len(left) : a = left[l].key
    BY <1>3, KeysAre
  <2> QED BY <1>3, <2>1
<1>5. \A l \in 1..Len(dropped) : reservations[i].key # dropped[l].key
  BY <1>3, <1>4 DEF Foreign
<1>6. reservations[i].key \notin Keys(dropped)
  <2>1. \A a : a \in Keys(dropped) <=> \E l \in 1..Len(dropped) : a = dropped[l].key
    BY KeysAre
  <2> QED BY <1>5, <2>1
<1> QED BY <1>1, <1>6

LEMMA ReservationsHeld == MemInv /\ [Next]_vars => ReservationStep \/ UNCHANGED vars
<1> SUFFICES ASSUME MemInv, Next PROVE ReservationStep
  BY DEF vars
<1> SUFFICES ASSUME NEW h \in ToSet(reservations), Live(h), h.key \in Keys(records),
                    h.key \in Keys(records'), h \notin ToSet(reservations')
             PROVE  Release(h.key, h.name, h.token)
  BY DEF ReservationStep
<1>1. reservations \in Seq(HeldType)
  BY DEF MemInv, Shaped
<1>2. PICK i \in 1..Len(reservations) : h = reservations[i]
  BY <1>1, KeysAre
<1>3. reservations' \in Seq(HeldType)
  <2>1. MemInv'
    BY Steps
  <2> QED BY <2>1 DEF MemInv, Shaped
<1>4. \A k \in 1..Len(reservations') : reservations'[k] # h
  BY <1>3 DEF ToSet
<1>5. ASSUME NEW key \in Auctions, Save(key) PROVE FALSE
  <2>1. PICK table, dropped : /\ Writes(key, records, table) /\ Drops(table, dropped)
                              /\ Forget(dropped, Without(gone, {key})) /\ now' = now
    BY <1>5, SaveDoes
  <2>2. PICK ring, told, K : ring = gone /\ K = {key} /\ told = Without(ring, K)
    OBVIOUS
  <2>3. /\ ring \in Seq(Tombstone) /\ Apart(ring)
        /\ \A j \in 1..Len(ring) : fate[ring[j].key] = ring[j].reason
    BY <2>2 DEF MemInv, Shaped, Once, Told
  <2>4. told \in Seq(Tombstone) /\ Kept(told, ring, K)
    BY <2>2, <2>3, WithoutKeeps
  <2>5. /\ Apart(told) /\ Forget(dropped, told)
        /\ \A j \in 1..Len(told) : fate[told[j].key] = told[j].reason
    <3>1. Apart(told) /\ \A k \in 1..Len(told) : \E l \in 1..Len(ring) : told[k] = ring[l]
      BY <2>3, <2>4 DEF Kept
    <3>2. \A j \in 1..Len(told) : fate[told[j].key] = told[j].reason
      BY <2>3, <3>1
    <3> QED BY <2>1, <2>2, <3>1, <3>2
  <2>6. /\ records' \in Seq(RecordType) /\ dropped \in Seq(RecordType) /\ Apart(dropped)
        /\ Foreign(records', dropped)
    BY <2>1 DEF Drops, Split
  <2>7. \E k \in 1..Len(reservations') : reservations'[k] = reservations[i]
    BY <1>2, <2>4, <2>5, <2>6, OthersStay
  <2> QED BY <1>2, <1>4, <2>7
<1>6. ASSUME NEW key \in Auctions, Load(key) PROVE FALSE
  <2>1. PICK r \in 1..Len(records), dropped \in Seq(RecordType) :
              /\ Len(dropped) = 1 /\ records' \in Seq(RecordType)
              /\ Foreign(records', dropped) /\ Forget(dropped, gone)
    BY <1>6, LoadDoes
  <2>2. PICK told : told = gone
    OBVIOUS
  <2>3. /\ told \in Seq(Tombstone) /\ Apart(told) /\ Forget(dropped, told)
        /\ \A j \in 1..Len(told) : fate[told[j].key] = told[j].reason
    BY <2>1, <2>2 DEF MemInv, Shaped, Once, Told
  <2>4. Apart(dropped)
    BY <2>1 DEF Apart
  <2>5. \E k \in 1..Len(reservations') : reservations'[k] = reservations[i]
    BY <1>2, <2>1, <2>3, <2>4, OthersStay
  <2> QED BY <1>2, <1>4, <2>5
<1>7. ASSUME NEW key \in Auctions, NEW name \in Names, NEW token \in Tokens,
             Reserve(key, name, token)
      PROVE  FALSE
  <2>1. \A j \in 1..Len(reservations) :
            Live(reservations[j]) /\ reservations[j].key \in Keys(records)
            => \E k \in 1..Len(reservations') : reservations'[k] = reservations[j]
    BY <1>7, ReserveDoes
  <2> QED BY <1>2, <1>4, <2>1
<1>8. ASSUME NEW key \in Auctions, NEW name \in Names, NEW token \in Tokens,
             Release(key, name, token)
      PROVE  Release(h.key, h.name, h.token)
  <2>1. PICK j \in 1..Len(reservations) :
              /\ reservations[j].key = key /\ reservations[j].name = name
              /\ reservations[j].token = token
              /\ \A l \in 1..Len(reservations) : l # j
                    => \E k \in 1..Len(reservations') : reservations'[k] = reservations[l]
    BY <1>8, ReleaseDoes
  <2>2. i = j
    BY <1>2, <1>4, <2>1
  <2>3. h.key = key /\ h.name = name /\ h.token = token
    BY <1>2, <2>1, <2>2
  <2> QED BY <1>8, <2>3
<1>9. ASSUME Tick PROVE FALSE
  <2>1. reservations' = reservations
    BY <1>9 DEF Tick
  <2> QED BY <2>1
<1> QED BY <1>5, <1>6, <1>7, <1>8, <1>9 DEF Next

(* A live reservation of an auction that is still in the table is lost to  *)
(* its own release only: reserve and its backstop, save and its cap, and a *)
(* load that reaps leave it where it is.                                   *)
THEOREM ReservationsKept == Spec => ReservationsFollowRecords
<1>1. MemInv /\ [Next]_vars => [ReservationStep]_vars
  BY ReservationsHeld
<1> QED BY <1>1, Holds, PTL DEF Spec, ReservationsFollowRecords

LEMMA MintingKept == MemInv /\ [Next]_vars => MintingStep \/ UNCHANGED vars
<1> SUFFICES ASSUME MemInv, Next PROVE MintingStep
  BY DEF vars
<1> SUFFICES ASSUME NEW e \in ToSet(records), Claimed(e.key), ~Aged(e), e.key \notin Keys(records'),
                    NEW k \in Keys(records')
             PROVE  Claimed(k)
  BY DEF MintingStep
<1>1. records \in Seq(RecordType) /\ Apart(records)
  BY DEF MemInv, Shaped, Once
<1>2. PICK j \in 1..Len(records) : e = records[j]
  BY <1>1, KeysAre
<1>3. PICK left : left = records'
  OBVIOUS
<1>4. left \in Seq(RecordType)
  <2>1. MemInv'
    BY Steps
  <2> QED BY <1>3, <2>1 DEF MemInv, Shaped
<1>5. \A l \in 1..Len(left) : left[l].key # e.key
  BY <1>3, <1>4, KeysAre
<1>6. PICK m \in 1..Len(left) : k = left[m].key
  BY <1>3, <1>4, KeysAre
<1>7. ASSUME NEW key \in Auctions, Save(key) PROVE Claimed(k)
  <2>1. PICK table, dropped : Writes(key, records, table) /\ Drops(table, dropped)
    BY <1>7, SaveDoes
  <2>2. PICK i \in 1..Len(table) : table[i].key = e.key /\ ~Aged(table[i])
    BY <1>2, <2>1 DEF Writes
  <2>3. \/ \E l \in 1..Len(left) : left[l] = table[i]
        \/ \E l \in 1..Len(dropped) : dropped[l] = table[i]
    BY <1>3, <2>1 DEF Drops, Split
  <2>4. PICK l \in 1..Len(dropped) : dropped[l] = table[i]
    BY <1>5, <2>2, <2>3
  <2>5. \/ Aged(dropped[l])
        \/ Claimed(dropped[l].key) => \A n \in 1..Len(left) : Claimed(left[n].key)
    BY <1>3, <2>1 DEF Drops
  <2>6. \A n \in 1..Len(left) : Claimed(left[n].key)
    BY <2>2, <2>4, <2>5
  <2> QED BY <1>6, <2>6
<1>8. ASSUME NEW key \in Auctions, Load(key) PROVE FALSE
  <2>1. PICK i \in 1..Len(records) :
              /\ Aged(records[i])
              /\ \A l \in 1..Len(records) : l # i => \E n \in 1..Len(left) : left[n] = records[l]
    BY <1>3, <1>8, LoadDoes
  <2>2. j # i
    BY <1>2, <2>1
  <2> QED BY <1>2, <1>5, <2>1, <2>2
<1>9. ASSUME records' = records PROVE FALSE
  <2>1. left = records
    BY <1>3, <1>9
  <2> QED BY <1>2, <1>5, <2>1
<1>10. ASSUME NEW key \in Auctions, NEW name \in Names, NEW token \in Tokens,
              Reserve(key, name, token) \/ Release(key, name, token)
       PROVE  FALSE
  <2>1. records' = records
    BY <1>10 DEF Reserve, Release
  <2> QED BY <1>9, <2>1
<1>11. ASSUME Tick PROVE FALSE
  <2>1. records' = records
    BY <1>11 DEF Tick
  <2> QED BY <1>9, <2>1
<1> QED BY <1>7, <1>8, <1>10, <1>11 DEF Next

(* _evict at the cap passes over an auction a merchant is minting for, as  *)
(* long as it finds another.                                               *)
THEOREM MintingSpared == Spec => MintingProtected
<1>1. MemInv /\ [Next]_vars => [MintingStep]_vars
  BY MintingKept
<1> QED BY <1>1, Holds, PTL DEF Spec, MintingProtected

-----------------------------------------------------------------------------
(* A record and a reservation as the contract has them.                    *)
Rec(e) == [auction |-> e.key, until |-> e.at + TTL]
Res(h) == [auction |-> h.key, name |-> h.name, token |-> h.token, until |-> h.at + TTL]

LEMMA Renamed ==
    ASSUME NEW e
    PROVE  /\ Rec(e).auction = e.key /\ Rec(e).until = e.at + TTL
           /\ Res(e).auction = e.key /\ Res(e).name = e.name /\ Res(e).token = e.token
           /\ Res(e).until = e.at + TTL
BY DEF Rec, Res

(* What the contract sees of some tables at some time.                     *)
Lasting(t, e) == t - e.at < TTL

OfRecords(S, seq, t) == \A x : x \in S <=> \E i \in 1..Len(seq) : Lasting(t, seq[i]) /\ x = Rec(seq[i])
OfHolds(S, seq, t) == \A x : x \in S <=> \E i \in 1..Len(seq) : Lasting(t, seq[i]) /\ x = Res(seq[i])

LEMMA Old ==
    ASSUME MemInv, NEW e, e.at \in Nat
    PROVE  (Aged(e) <=> ~Lasting(now, e)) /\ (Live(e) <=> Lasting(now, e))
<1>1. PICK at : at = e.at
  OBVIOUS
<1>2. now \in Nat /\ TTL \in Nat /\ at \in Nat
  BY <1>1, BoundAssumption DEF MemInv, Shaped
<1>3. now - at >= TTL <=> ~(now - at < TTL)
  BY <1>2
<1> QED BY <1>1, <1>3 DEF Aged, Live, Lasting

LEMMA Seen ==
    ASSUME MemInv
    PROVE  OfRecords(LiveRecords, records, now) /\ OfHolds(LiveHolds, reservations, now)
<1>1. records \in Seq(RecordType) /\ reservations \in Seq(HeldType)
  BY DEF MemInv, Shaped
<1>2. /\ \A i \in 1..Len(records) : records[i] \in RecordType
      /\ \A i \in 1..Len(reservations) : reservations[i] \in HeldType
  BY <1>1, Entries
<1>3. /\ \A i \in 1..Len(records) : records[i].at \in Nat
      /\ \A i \in 1..Len(reservations) : reservations[i].at \in Nat
  BY <1>2 DEF RecordType, HeldType
<1>4. \A i \in 1..Len(records) : ~Aged(records[i]) <=> Lasting(now, records[i])
  BY <1>3, Old
<1>5. \A i \in 1..Len(reservations) : Live(reservations[i]) <=> Lasting(now, reservations[i])
  BY <1>3, Old
<1>6. /\ \A e : e \in ToSet(records) <=> \E i \in 1..Len(records) : e = records[i]
      /\ \A h : h \in ToSet(reservations) <=> \E i \in 1..Len(reservations) : h = reservations[i]
  BY <1>1, KeysAre
<1>7. /\ \A x : x \in LiveRecords <=> \E e \in ToSet(records) : ~Aged(e) /\ x = Rec(e)
      /\ \A x : x \in LiveHolds <=> \E h \in ToSet(reservations) : Live(h) /\ x = Res(h)
  BY DEF LiveRecords, LiveHolds, Rec, Res
<1>8. OfRecords(LiveRecords, records, now)
  BY <1>4, <1>6, <1>7 DEF OfRecords
<1>9. OfHolds(LiveHolds, reservations, now)
  BY <1>5, <1>6, <1>7 DEF OfHolds
<1> QED BY <1>8, <1>9

LEMMA SeenNext ==
    ASSUME MemInv'
    PROVE  OfRecords(LiveRecords', records', now') /\ OfHolds(LiveHolds', reservations', now')
<1>1. records' \in Seq(RecordType) /\ reservations' \in Seq(HeldType) /\ now' \in Nat
  BY DEF MemInv, Shaped
<1>2. PICK rs, hs, t : rs = records' /\ hs = reservations' /\ t = now'
  OBVIOUS
<1>3. rs \in Seq(RecordType) /\ hs \in Seq(HeldType) /\ t \in Nat
  BY <1>1, <1>2
<1>4. /\ \A i \in 1..Len(rs) : rs[i] \in RecordType
      /\ \A i \in 1..Len(hs) : hs[i] \in HeldType
  BY <1>3, Entries
<1>5. /\ \A i \in 1..Len(rs) : rs[i].at \in Nat
      /\ \A i \in 1..Len(hs) : hs[i].at \in Nat
  BY <1>4 DEF RecordType, HeldType
<1>6. /\ \A i \in 1..Len(rs) : ~(t - rs[i].at >= TTL) <=> Lasting(t, rs[i])
      /\ \A i \in 1..Len(hs) : t - hs[i].at < TTL <=> Lasting(t, hs[i])
  BY <1>3, <1>5, BoundAssumption DEF Lasting
<1>7. /\ \A e : e \in ToSet(rs) <=> \E i \in 1..Len(rs) : e = rs[i]
      /\ \A h : h \in ToSet(hs) <=> \E i \in 1..Len(hs) : h = hs[i]
  BY <1>3, KeysAre
<1>8. /\ \A x : x \in LiveRecords' <=> \E e \in ToSet(rs) : ~(t - e.at >= TTL) /\ x = Rec(e)
      /\ \A x : x \in LiveHolds' <=> \E h \in ToSet(hs) : t - h.at < TTL /\ x = Res(h)
  BY <1>2 DEF LiveRecords, LiveHolds, Aged, Live, Rec, Res
<1>9. OfRecords(LiveRecords', rs, t)
  BY <1>6, <1>7, <1>8 DEF OfRecords
<1>10. OfHolds(LiveHolds', hs, t)
  BY <1>6, <1>7, <1>8 DEF OfHolds
<1> QED BY <1>2, <1>9, <1>10

(* Forgetting takes the reservations on what is forgotten, and no other.   *)
LEMMA ForgetsHolds ==
    ASSUME MemInv, MemInv', NEW dropped \in Seq(RecordType), NEW told, Forget(dropped, told),
           now' = now
    PROVE  LiveHolds' = {h \in LiveHolds : h.auction \notin Keys(dropped)}
<1>1. PICK held, r, K : held = reservations /\ r = reservations' /\ K = Keys(dropped)
  OBVIOUS
<1>2. held \in Seq(HeldType) /\ r = Without(held, K)
  BY <1>1 DEF MemInv, Shaped, Forget
<1>3. Kept(r, held, K)
  BY <1>2, WithoutKeeps
<1>4. OfHolds(LiveHolds, held, now) /\ OfHolds(LiveHolds', r, now)
  BY <1>1, Seen, SeenNext
<1> SUFFICES ASSUME NEW x PROVE x \in LiveHolds' <=> x \in LiveHolds /\ x.auction \notin K
  BY <1>1
<1>5. ASSUME x \in LiveHolds' PROVE x \in LiveHolds /\ x.auction \notin K
  <2>1. PICK k \in 1..Len(r) : Lasting(now, r[k]) /\ x = Res(r[k])
    BY <1>4, <1>5 DEF OfHolds
  <2>2. r[k].key \notin K /\ \E i \in 1..Len(held) : r[k] = held[i]
    BY <1>3 DEF Kept
  <2>3. x.auction = r[k].key
    BY <2>1, Renamed
  <2> QED BY <1>4, <2>1, <2>2, <2>3 DEF OfHolds
<1>6. ASSUME x \in LiveHolds, x.auction \notin K PROVE x \in LiveHolds'
  <2>1. PICK i \in 1..Len(held) : Lasting(now, held[i]) /\ x = Res(held[i])
    BY <1>4, <1>6 DEF OfHolds
  <2>2. held[i].key \notin K
    BY <1>6, <2>1, Renamed
  <2>3. PICK k \in 1..Len(r) : r[k] = held[i]
    BY <1>3, <2>2 DEF Kept
  <2> QED BY <1>4, <2>1, <2>3 DEF OfHolds
<1> QED BY <1>5, <1>6

(* What each call does to the contract.                                    *)
LEMMA SaveSaves ==
    ASSUME MemInv, NEW key \in Auctions, Save(key)
    PROVE  Contract!Save(key)
<1>0. MemInv'
  BY SaveKeeps
<1>1. PICK table, dropped : /\ Writes(key, records, table) /\ Drops(table, dropped)
                            /\ Forget(dropped, Without(gone, {key})) /\ now' = now
  BY SaveDoes
<1>2. PICK held, r, lost, new : /\ held = records /\ r = records' /\ lost = Keys(dropped)
                                /\ new = Written(key)
  OBVIOUS
<1>3. /\ held \in Seq(RecordType) /\ Apart(held) /\ now \in Nat /\ TTL \in Nat \ {0}
      /\ r \in Seq(RecordType) /\ dropped \in Seq(RecordType)
  BY <1>1, <1>2, BoundAssumption DEF MemInv, Shaped, Once, Drops
<1>4. /\ new.key = key /\ Lasting(now, new) /\ Rec(new) = Contract!Saved(key)
  BY <1>2, <1>3 DEF Written, Lasting, Rec, Contract!Saved
<1>5. /\ \A i \in 1..Len(table) :
            \/ table[i].key = key /\ table[i] = new
            \/ table[i].key # key /\ \E j \in 1..Len(held) : table[i] = held[j]
      /\ \E i \in 1..Len(table) : table[i] = new
      /\ \A j \in 1..Len(held) : held[j].key # key => \E i \in 1..Len(table) : table[i] = held[j]
      /\ (\E j \in 1..Len(held) : held[j].key = key) => Len(table) <= Capacity
  BY <1>1, <1>2 DEF Writes
<1>6. /\ \A k \in 1..Len(r) : \E i \in 1..Len(table) : r[k] = table[i]
      /\ \A k \in 1..Len(dropped) : \E i \in 1..Len(table) : dropped[k] = table[i]
      /\ \A k \in 1..Len(r), l \in 1..Len(dropped) : r[k].key # dropped[l].key
      /\ \A i \in 1..Len(table) : \/ \E k \in 1..Len(r) : r[k] = table[i]
                                  \/ \E k \in 1..Len(dropped) : dropped[k] = table[i]
      /\ \A k, l \in 1..Len(dropped) :
            ~Aged(dropped[k]) /\ ~Aged(dropped[l]) => dropped[k] = dropped[l]
      /\ Len(table) <= Capacity => \A k \in 1..Len(dropped) : Aged(dropped[k])
  BY <1>1, <1>2 DEF Drops, Split, Within, Foreign
<1>7. \A a : a \in lost <=> \E k \in 1..Len(dropped) : a = dropped[k].key
  BY <1>2, <1>3, KeysAre
<1>8. lost \subseteq Auctions
  <2>1. \A k \in 1..Len(dropped) : dropped[k] \in RecordType
    BY <1>3, Entries
  <2> QED BY <1>7, <2>1 DEF RecordType
<1>9. OfRecords(LiveRecords, held, now) /\ OfRecords(LiveRecords', r, now)
  BY <1>0, <1>1, <1>2, Seen, SeenNext
<1>10. LiveHolds' = {h \in LiveHolds : h.auction \notin lost}
  BY <1>0, <1>1, <1>2, <1>3, ForgetsHolds
<1>11. ASSUME NEW x \in LiveRecords'
       PROVE  \/ x \in LiveRecords /\ x.auction \notin lost \cup {key}
              \/ key \notin lost /\ x = Rec(new)
  <2>1. PICK k \in 1..Len(r) : Lasting(now, r[k]) /\ x = Rec(r[k])
    BY <1>9 DEF OfRecords
  <2>2. r[k].key \notin lost
    <3>1. \A l \in 1..Len(dropped) : r[k].key # dropped[l].key
      BY <1>6
    <3> QED BY <1>7, <3>1
  <2>3. PICK i \in 1..Len(table) : r[k] = table[i]
    BY <1>6
  <2>4. CASE table[i].key = key /\ table[i] = new
    <3>1. r[k] = new /\ r[k].key = key
      BY <2>3, <2>4
    <3>2. x = Rec(new)
      BY <2>1, <3>1
    <3> QED BY <2>2, <3>1, <3>2
  <2>5. CASE table[i].key # key /\ \E j \in 1..Len(held) : table[i] = held[j]
    <3>1. x \in LiveRecords
      BY <1>9, <2>1, <2>3, <2>5 DEF OfRecords
    <3>2. x.auction = r[k].key
      BY <2>1, Renamed
    <3> QED BY <2>2, <2>3, <2>5, <3>1, <3>2
  <2> QED BY <1>5, <2>4, <2>5
<1>12. ASSUME NEW i \in 1..Len(table), table[i].key \notin lost, Lasting(now, table[i])
       PROVE  Rec(table[i]) \in LiveRecords'
  <2>1. PICK k \in 1..Len(r) : r[k] = table[i]
    BY <1>6, <1>7, <1>12
  <2> QED BY <1>9, <1>12, <2>1 DEF OfRecords
<1>13. ASSUME NEW x \in LiveRecords, x.auction \notin lost \cup {key} PROVE x \in LiveRecords'
  <2>1. PICK j \in 1..Len(held) : Lasting(now, held[j]) /\ x = Rec(held[j])
    BY <1>9 DEF OfRecords
  <2>2. held[j].key \notin lost /\ held[j].key # key
    BY <1>13, <2>1, Renamed
  <2>3. PICK i \in 1..Len(table) : table[i] = held[j]
    BY <1>5, <2>2
  <2> QED BY <1>12, <2>1, <2>2, <2>3
<1>14. ASSUME key \notin lost PROVE Rec(new) \in LiveRecords'
  BY <1>4, <1>5, <1>12, <1>14
<1>15. LiveRecords' = {x \in LiveRecords : x.auction \notin lost \cup {key}}
                          \cup {Contract!Saved(b) : b \in {key} \ lost}
  <2>1. PICK added : added = {Contract!Saved(b) : b \in {key} \ lost}
    OBVIOUS
  <2>2. \A x : x \in added <=> key \notin lost /\ x = Rec(new)
    BY <1>4, <2>1
  <2> SUFFICES ASSUME NEW x
               PROVE  x \in LiveRecords' <=> \/ x \in LiveRecords /\ x.auction \notin lost \cup {key}
                                             \/ x \in added
    BY <2>1
  <2> QED BY <1>11, <1>13, <1>14, <2>2
<1>16. \A e : e.at \in Nat => (Aged(e) <=> ~Lasting(now, e))
  BY Old
<1>17. ASSUME NEW b \in lost, b = key \/ Contract!Alive(b)
       PROVE  \E k \in 1..Len(dropped) : dropped[k].key = b /\ ~Aged(dropped[k])
  <2>1. PICK k \in 1..Len(dropped) : dropped[k].key = b
    BY <1>7
  <2>2. PICK i \in 1..Len(table) : dropped[k] = table[i]
    BY <1>6
  <2>3. dropped[k].at \in Nat
    <3>1. dropped[k] \in RecordType
      BY <1>3, Entries
    <3> QED BY <3>1 DEF RecordType
  <2>4. Lasting(now, dropped[k])
    <3>1. CASE table[i] = new
      BY <1>4, <2>2, <3>1
    <3>2. CASE table[i].key # key /\ \E j \in 1..Len(held) : table[i] = held[j]
      <4>1. PICK j \in 1..Len(held) : dropped[k] = held[j]
        BY <2>2, <3>2
      <4>2. PICK x \in LiveRecords : x.auction = b
        BY <1>17, <2>1, <2>2, <3>2 DEF Contract!Alive
      <4>3. PICK l \in 1..Len(held) : Lasting(now, held[l]) /\ x = Rec(held[l])
        BY <1>9 DEF OfRecords
      <4>4. held[l].key = held[j].key
        BY <2>1, <4>1, <4>2, <4>3, Renamed
      <4>5. l = j
        BY <1>3, <4>4 DEF Apart
      <4> QED BY <4>1, <4>3, <4>5
    <3> QED BY <1>5, <3>1, <3>2
  <2> QED BY <1>16, <2>1, <2>3, <2>4
<1>18. ASSUME Contract!Alive(key) PROVE \A k \in 1..Len(dropped) : Aged(dropped[k])
  <2>1. PICK x \in LiveRecords : x.auction = key
    BY <1>18 DEF Contract!Alive
  <2>2. PICK j \in 1..Len(held) : x = Rec(held[j])
    BY <1>9 DEF OfRecords
  <2>3. held[j].key = key
    BY <2>1, <2>2, Renamed
  <2> QED BY <1>5, <1>6, <2>3
<1>19. PICK displaced : displaced = {b \in lost : b = key \/ Contract!Alive(b)}
  OBVIOUS
<1>20. \A b, c \in displaced : b = c
  <2> SUFFICES ASSUME NEW b \in displaced, NEW c \in displaced PROVE b = c
    OBVIOUS
  <2>1. PICK k \in 1..Len(dropped) : dropped[k].key = b /\ ~Aged(dropped[k])
    BY <1>17, <1>19
  <2>2. PICK l \in 1..Len(dropped) : dropped[l].key = c /\ ~Aged(dropped[l])
    BY <1>17, <1>19
  <2>3. dropped[k] = dropped[l]
    BY <1>6, <2>1, <2>2
  <2> QED BY <2>1, <2>2, <2>3
<1>21. displaced # {} => ~Contract!Alive(key)
  BY <1>17, <1>18, <1>19
<1> QED BY <1>1, <1>8, <1>10, <1>15, <1>19, <1>20, <1>21 DEF Contract!Save

LEMMA LoadReaps ==
    ASSUME MemInv, NEW key \in Auctions, Load(key)
    PROVE  Contract!Reap(key) /\ UNCHANGED <<now, LiveRecords>>
<1>0. MemInv'
  BY LoadKeeps
<1>1. PICK i \in 1..Len(records), dropped \in Seq(RecordType) :
          /\ records[i].key = key /\ Aged(records[i])
          /\ Len(dropped) = 1 /\ dropped[1] = records[i]
          /\ Within(records', records)
          /\ \A j \in 1..Len(records) : j # i => \E k \in 1..Len(records') : records'[k] = records[j]
          /\ Forget(dropped, gone) /\ now' = now
  BY LoadDoes
<1>2. PICK held, r, lost : held = records /\ r = records' /\ lost = Keys(dropped)
  OBVIOUS
<1>3. held \in Seq(RecordType) /\ Apart(held)
  BY <1>2 DEF MemInv, Shaped, Once
<1>4. lost = {key}
  <2>1. \A a : a \in lost <=> \E k \in 1..Len(dropped) : a = dropped[k].key
    BY <1>2, KeysAre
  <2>2. \A k \in 1..Len(dropped) : dropped[k].key = key
    BY <1>1
  <2>3. 1 \in 1..Len(dropped)
    BY <1>1
  <2> QED BY <2>1, <2>2, <2>3
<1>5. ~Lasting(now, held[i])
  <2>1. held[i] \in RecordType
    BY <1>2, <1>3, Entries
  <2>2. held[i].at \in Nat
    BY <2>1 DEF RecordType
  <2> QED BY <1>1, <1>2, <2>2, Old
<1>6. OfRecords(LiveRecords, held, now) /\ OfRecords(LiveRecords', r, now)
  BY <1>0, <1>1, <1>2, Seen, SeenNext
<1>7. LiveRecords' = LiveRecords
  <2> SUFFICES ASSUME NEW x PROVE x \in LiveRecords' <=> x \in LiveRecords
    OBVIOUS
  <2>1. x \in LiveRecords' => x \in LiveRecords
    BY <1>1, <1>2, <1>6 DEF OfRecords, Within
  <2>2. ASSUME x \in LiveRecords PROVE x \in LiveRecords'
    <3>1. PICK j \in 1..Len(held) : Lasting(now, held[j]) /\ x = Rec(held[j])
      BY <1>6, <2>2 DEF OfRecords
    <3>2. PICK k \in 1..Len(r) : r[k] = held[j]
      BY <1>1, <1>2, <1>5, <3>1
    <3> QED BY <1>6, <3>1, <3>2 DEF OfRecords
  <2> QED BY <2>1, <2>2
<1>8. LiveHolds' = {h \in LiveHolds : h.auction # key}
  <2>1. LiveHolds' = {h \in LiveHolds : h.auction \notin lost}
    BY <1>0, <1>1, <1>2, ForgetsHolds
  <2> QED BY <1>4, <2>1
<1>9. ~Contract!Alive(key)
  <2> SUFFICES ASSUME NEW x \in LiveRecords, x.auction = key PROVE FALSE
    BY DEF Contract!Alive
  <2>1. PICK j \in 1..Len(held) : Lasting(now, held[j]) /\ x = Rec(held[j])
    BY <1>6 DEF OfRecords
  <2>2. held[j].key = held[i].key
    BY <1>1, <1>2, <2>1, Renamed
  <2>3. j = i
    BY <1>2, <1>3, <2>2 DEF Apart
  <2> QED BY <1>5, <2>1, <2>3
<1> QED BY <1>1, <1>7, <1>8, <1>9 DEF Contract!Reap

LEMMA ReserveTakes ==
    ASSUME MemInv, NEW key \in Auctions, NEW name \in Names, NEW token \in Tokens,
           Reserve(key, name, token)
    PROVE  Contract!Reserve(key, name, token) /\ UNCHANGED <<now, LiveRecords>>
<1>0. MemInv'
  BY ReserveKeeps
<1>1. PICK held, r, new : /\ held = reservations /\ r = reservations'
                          /\ new = Taking(key, name, token)
  OBVIOUS
<1>2. UNCHANGED <<now, records>> /\ ~\E h \in ToSet(held) : (h.key = key /\ h.name = name) /\ Live(h)
  BY <1>1 DEF Reserve
<1>3. held \in Seq(HeldType) /\ now \in Nat /\ TTL \in Nat \ {0}
  BY <1>1, BoundAssumption DEF MemInv, Shaped
<1>4. Lasting(now, new) /\ Res(new) = Contract!Taken(key, name, token)
  BY <1>1, <1>3 DEF Taking, Lasting, Res, Contract!Taken
<1>5. OfHolds(LiveHolds, held, now) /\ OfHolds(LiveHolds', r, now) /\ OfRecords(LiveRecords, records, now)
  BY <1>0, <1>1, <1>2, Seen, SeenNext
<1>6. \A i \in 1..Len(held) : Live(held[i]) <=> Lasting(now, held[i])
  <2>1. \A i \in 1..Len(held) : held[i] \in HeldType
    BY <1>3, Entries
  <2>2. \A i \in 1..Len(held) : held[i].at \in Nat
    BY <2>1 DEF HeldType
  <2> QED BY <2>2, Old
<1>7. \A k \in 1..Len(r) : r[k] = new \/ \E i \in 1..Len(held) : r[k] = held[i]
  BY <1>1, ReserveDoes DEF Adds
<1>8. PICK v : \A x : Offered(x, new) => \/ \E k \in 1..Len(r) : r[k] = x
                                         \/ x = v /\ x.key \notin Keys(records)
  BY <1>1, ReserveDoes DEF Bumps
<1>9. PICK all : all = LiveHolds \cup {Contract!Taken(key, name, token)}
  OBVIOUS
<1>10. ~\E h \in LiveHolds : h.auction = key /\ h.name = name
  <2> SUFFICES ASSUME NEW h \in LiveHolds, h.auction = key, h.name = name PROVE FALSE
    OBVIOUS
  <2>1. PICK i \in 1..Len(held) : Lasting(now, held[i]) /\ h = Res(held[i])
    BY <1>5 DEF OfHolds
  <2>2. held[i].key = key /\ held[i].name = name /\ Live(held[i])
    BY <1>6, <2>1, Renamed
  <2>3. held[i] \in ToSet(held)
    BY <1>3, KeysAre
  <2> QED BY <1>2, <2>2, <2>3
<1>11. LiveHolds' \subseteq all
  <2> SUFFICES ASSUME NEW h \in LiveHolds' PROVE h \in LiveHolds \/ h = Res(new)
    BY <1>4, <1>9
  <2>1. PICK k \in 1..Len(r) : Lasting(now, r[k]) /\ h = Res(r[k])
    BY <1>5 DEF OfHolds
  <2> QED BY <1>5, <1>7, <2>1 DEF OfHolds
<1>12. ASSUME NEW g \in all \ LiveHolds' PROVE g = Res(v) /\ ~Contract!Alive(g.auction)
  <2>1. PICK x : Offered(x, new) /\ Lasting(now, x) /\ g = Res(x)
    <3>1. CASE g = Res(new)
      BY <1>4, <3>1 DEF Offered
    <3>2. CASE g \in LiveHolds
      <4>1. PICK i \in 1..Len(held) : Lasting(now, held[i]) /\ g = Res(held[i])
        BY <1>5, <3>2 DEF OfHolds
      <4>2. Offered(held[i], new)
        BY <1>1, <1>6, <4>1 DEF Offered
      <4> QED BY <4>1, <4>2
    <3> QED BY <1>4, <1>9, <3>1, <3>2
  <2>2. ~\E k \in 1..Len(r) : r[k] = x
    BY <1>5, <2>1 DEF OfHolds
  <2>3. x = v /\ x.key \notin Keys(records)
    BY <1>8, <2>1, <2>2
  <2>4. ~Contract!Alive(x.key)
    <3> SUFFICES ASSUME NEW y \in LiveRecords, y.auction = x.key PROVE FALSE
      BY DEF Contract!Alive
    <3>1. PICK j \in 1..Len(records) : y = Rec(records[j])
      BY <1>5 DEF OfRecords
    <3>2. records[j].key \in Keys(records)
      <4>1. records \in Seq(RecordType)
        BY DEF MemInv, Shaped
      <4> QED BY <4>1, KeysAre
    <3> QED BY <2>3, <3>1, <3>2, Renamed
  <2> QED BY <2>1, <2>3, <2>4, Renamed
<1>13. UNCHANGED <<now, LiveRecords>>
  BY <1>2 DEF LiveRecords, Aged
<1> QED BY <1>9, <1>10, <1>11, <1>12, <1>13 DEF Contract!Reserve

LEMMA ReleaseReleases ==
    ASSUME MemInv, NEW key \in Auctions, NEW name \in Names, NEW token \in Tokens,
           Release(key, name, token)
    PROVE  Contract!Release(key, name, token) /\ UNCHANGED <<now, LiveRecords>>
<1>0. MemInv'
  BY ReleaseKeeps
<1>1. PICK held, r : held = reservations /\ r = reservations'
  OBVIOUS
<1>2. UNCHANGED <<now, records>>
  BY DEF Release
<1>3. Single(held)
  BY <1>1 DEF MemInv, Once
<1>4. PICK i \in 1..Len(held) :
          /\ held[i].key = key /\ held[i].name = name /\ held[i].token = token
          /\ \A j \in 1..Len(held) : j # i => \E k \in 1..Len(r) : r[k] = held[j]
          /\ \A k \in 1..Len(r) : \E j \in 1..Len(held) : j # i /\ r[k] = held[j]
  BY <1>1, ReleaseDoes
<1>5. OfHolds(LiveHolds, held, now) /\ OfHolds(LiveHolds', r, now)
  BY <1>0, <1>1, <1>2, Seen, SeenNext
<1> DEFINE Named(h) == h.auction = key /\ h.name = name /\ h.token = token
<1>6. ASSUME NEW h \in LiveHolds' PROVE h \in LiveHolds /\ ~Named(h)
  <2>1. PICK k \in 1..Len(r) : Lasting(now, r[k]) /\ h = Res(r[k])
    BY <1>5 DEF OfHolds
  <2>2. PICK j \in 1..Len(held) : j # i /\ r[k] = held[j]
    BY <1>4
  <2>3. ~(held[j].key = key /\ held[j].name = name)
    BY <1>3, <1>4, <2>2 DEF Single
  <2>4. ~Named(h)
    BY <2>1, <2>2, <2>3, Renamed
  <2> QED BY <1>5, <2>1, <2>2, <2>4 DEF OfHolds
<1>7. ASSUME NEW h \in LiveHolds, ~Named(h) PROVE h \in LiveHolds'
  <2>1. PICK j \in 1..Len(held) : Lasting(now, held[j]) /\ h = Res(held[j])
    BY <1>5 DEF OfHolds
  <2>2. j # i
    BY <1>4, <1>7, <2>1, Renamed
  <2>3. PICK k \in 1..Len(r) : r[k] = held[j]
    BY <1>4, <2>2
  <2> QED BY <1>5, <2>1, <2>3 DEF OfHolds
<1>8. LiveHolds' = {h \in LiveHolds : ~Named(h)}
  BY <1>6, <1>7
<1>9. UNCHANGED <<now, LiveRecords>>
  BY <1>2 DEF LiveRecords, Aged
<1> QED BY <1>8, <1>9 DEF Contract!Release

LEMMA Lapse ==
    ASSUME NEW t \in Nat, NEW e, e.at \in Nat
    PROVE  Lasting(t + 1, e) <=> Lasting(t, e) /\ t + 1 < e.at + TTL
<1>1. PICK at, u : at = e.at /\ u = e.at + TTL
  OBVIOUS
<1>2. at \in Nat /\ TTL \in Nat /\ u = at + TTL
  BY <1>1, BoundAssumption
<1>3. (t + 1) - at < TTL <=> t - at < TTL /\ t + 1 < u
  BY <1>2
<1> QED BY <1>1, <1>3 DEF Lasting

LEMMA TickTicks ==
    ASSUME MemInv, MemInv', Tick
    PROVE  Contract!Tick
<1>1. PICK rs, hs : rs = records /\ hs = reservations
  OBVIOUS
<1>2. now' = now + 1 /\ records' = rs /\ reservations' = hs
  BY <1>1 DEF Tick
<1>3. rs \in Seq(RecordType) /\ hs \in Seq(HeldType) /\ now \in Nat
  BY <1>1 DEF MemInv, Shaped
<1>4. /\ OfRecords(LiveRecords, rs, now) /\ OfRecords(LiveRecords', rs, now + 1)
      /\ OfHolds(LiveHolds, hs, now) /\ OfHolds(LiveHolds', hs, now + 1)
  BY <1>1, <1>2, Seen, SeenNext
<1>5. /\ \A i \in 1..Len(rs) : rs[i] \in RecordType
      /\ \A i \in 1..Len(hs) : hs[i] \in HeldType
  BY <1>3, Entries
<1>6. /\ \A i \in 1..Len(rs) : rs[i].at \in Nat
      /\ \A i \in 1..Len(hs) : hs[i].at \in Nat
  BY <1>5 DEF RecordType, HeldType
<1>7. \A i \in 1..Len(rs) :
          Lasting(now + 1, rs[i]) <=> Lasting(now, rs[i]) /\ now + 1 < Rec(rs[i]).until
  <2> SUFFICES ASSUME NEW i \in 1..Len(rs)
               PROVE  Lasting(now + 1, rs[i]) <=> Lasting(now, rs[i]) /\ now + 1 < Rec(rs[i]).until
    OBVIOUS
  <2>1. Rec(rs[i]).until = rs[i].at + TTL
    BY Renamed
  <2>2. Lasting(now + 1, rs[i]) <=> Lasting(now, rs[i]) /\ now + 1 < rs[i].at + TTL
    BY <1>3, <1>6, Lapse
  <2> QED BY <2>1, <2>2
<1>8. \A i \in 1..Len(hs) :
          Lasting(now + 1, hs[i]) <=> Lasting(now, hs[i]) /\ now + 1 < Res(hs[i]).until
  <2> SUFFICES ASSUME NEW i \in 1..Len(hs)
               PROVE  Lasting(now + 1, hs[i]) <=> Lasting(now, hs[i]) /\ now + 1 < Res(hs[i]).until
    OBVIOUS
  <2>1. Res(hs[i]).until = hs[i].at + TTL
    BY Renamed
  <2>2. Lasting(now + 1, hs[i]) <=> Lasting(now, hs[i]) /\ now + 1 < hs[i].at + TTL
    BY <1>3, <1>6, Lapse
  <2> QED BY <2>1, <2>2
<1>9. PICK t : t = now + 1
  OBVIOUS
<1>10. LiveRecords' = {x \in LiveRecords : t < x.until}
  BY <1>4, <1>7, <1>9 DEF OfRecords
<1>11. LiveHolds' = {x \in LiveHolds : t < x.until}
  BY <1>4, <1>8, <1>9 DEF OfHolds
<1> QED BY <1>2, <1>9, <1>10, <1>11 DEF Contract!Tick

LEMMA MemorySteps == MemInv /\ [Next]_vars => [Contract!Next]_(Contract!store)
<1> SUFFICES ASSUME MemInv, [Next]_vars PROVE [Contract!Next]_(Contract!store)
  OBVIOUS
<1>1. ASSUME NEW key \in Auctions, Save(key) PROVE Contract!Next
  BY <1>1, SaveSaves DEF Contract!Next
<1>2. ASSUME NEW key \in Auctions, Load(key) PROVE Contract!Next
  BY <1>2, LoadReaps DEF Contract!Next
<1>3. ASSUME NEW key \in Auctions, NEW name \in Names, NEW token \in Tokens,
             Reserve(key, name, token)
      PROVE  Contract!Next
  BY <1>3, ReserveTakes DEF Contract!Next
<1>4. ASSUME NEW key \in Auctions, NEW name \in Names, NEW token \in Tokens,
             Release(key, name, token)
      PROVE  Contract!Next
  BY <1>4, ReleaseReleases DEF Contract!Next
<1>5. ASSUME Tick PROVE Contract!Next
  <2>1. MemInv'
    BY <1>5, Steps DEF Next
  <2> QED BY <1>5, <2>1, TickTicks DEF Contract!Next
<1>6. ASSUME UNCHANGED vars PROVE UNCHANGED Contract!store
  BY <1>6 DEF vars, Contract!store, LiveRecords, LiveHolds, Aged, Live
<1> QED BY <1>1, <1>2, <1>3, <1>4, <1>5, <1>6 DEF Next

(* The in-memory store is an AuctionStore that may forget.  Whatever the   *)
(* cap and the ceiling of its tables take, the contract lets them take: a  *)
(* record of another auction and its reservations, when one is created, or *)
(* one reservation with no record behind it.                               *)
THEOREM MemoryImplementsStore == Spec => StoreKept
<1>1. Init => Contract!Init
  <2> SUFFICES ASSUME Init PROVE Contract!Init
    OBVIOUS
  <2>1. now = 0 /\ Len(records) = 0 /\ Len(reservations) = 0 /\ MemInv
    BY Starts DEF Init
  <2>2. OfRecords(LiveRecords, records, now) /\ OfHolds(LiveHolds, reservations, now)
    BY <2>1, Seen
  <2>3. /\ \A i \in 1..Len(records) : FALSE
        /\ \A i \in 1..Len(reservations) : FALSE
    BY <2>1
  <2>4. LiveRecords = {} /\ LiveHolds = {}
    BY <2>2, <2>3 DEF OfRecords, OfHolds
  <2> QED BY <2>1, <2>4 DEF Contract!Init
<1>2. MemInv /\ [Next]_vars => [Contract!Next]_(Contract!store)
  BY MemorySteps
<1> QED BY <1>1, <1>2, Holds, PTL DEF Spec, StoreKept, Contract!Spec
=============================================================================
